CONSTANTS
    Channels = {c1}
    Recipients = {r1}
    Fallbacks = {}
    NoFallback = NoFallback
    Users = {auth}
    Authority = auth
    Denoms = {d1}
    InitialAllowedDenoms = {d1}
    KeyedAddresses = {}
    InitialMemoBatches <- MCMemoBatches
    TransfersMayFail = TRUE
    OtherAccountAddresses = {}
    Restartable = FALSE
    LateCredits = FALSE
    FailsAfterEscrow = TRUE
    MaxSends = 1
    MaxBlocks = 1
    MemoDenoms = {}
    InvalidDenom = bad
    ShortMemos = {"m1"}
    EdgeMemos = {}
    LongMemo = "long"
    MaxMemoLength = 1024
    MaxMemoEntries = 10
SPECIFICATION Spec
INVARIANT FundsConserved
