CONSTANTS
    Channels = {c1, c2}
    Recipients = {r1}
    Fallbacks = {}
    NoFallback = NoFallback
    Users = {auth}
    Authority = auth
    Denoms = {d1, d2}
    InitialAllowedDenoms = {d1}
    KeyedAddresses = {}
    InitialMemoBatches <- MCMemoBatches
    TransfersMayFail = TRUE
    OtherAccountAddresses = {}
    Restartable = TRUE
    LateCredits = FALSE
    FailsAfterEscrow = FALSE
    MaxSends = 2
    MaxBlocks = 2
    MemoDenoms = {}
    InvalidDenom = bad
    ShortMemos = {"m1"}
    EdgeMemos = {}
    LongMemo = "long"
    MaxMemoLength = 1024
    MaxMemoEntries = 10
SPECIFICATION Spec
INVARIANT TypeOK
INVARIANT FundsForwardedAtEndBlock
INVARIANT ForwardCountersMatchOutbox
PROPERTY CountersNeverDecrease
