CONSTANTS
    Channels = {c1}
    Recipients = {r1}
    Fallbacks = {}
    NoFallback = NoFallback
    Users = {auth}
    Authority = auth
    Denoms = {d1}
    InitialAllowedDenoms = {d1}
    KeyedAddresses = {}
    InitialMemoBatches <- MCMemoBatches
    TransfersMayFail = TRUE
    OtherAccountAddresses = {}
    Restartable = FALSE
    LateCredits = TRUE
    FailsAfterEscrow = FALSE
    MaxSends = 1
    MaxBlocks = 2
    MemoDenoms = {}
    InvalidDenom = bad
    ShortMemos = {"m1"}
    EdgeMemos = {}
    LongMemo = "long"
    MaxMemoLength = 1024
    MaxMemoEntries = 10
SPECIFICATION FairSpec
PROPERTY QueuedFundsForwarded
