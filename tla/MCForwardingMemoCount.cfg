CONSTANTS
    Channels = {c1}
    Recipients = {r1}
    Fallbacks = {}
    NoFallback = NoFallback
    Users = {auth}
    Authority = auth
    Denoms = {d1}
    InitialAllowedDenoms = {d1}
    KeyedAddresses = {}
    InitialMemoBatches <- MCMemoBatches
    TransfersMayFail = FALSE
    OtherAccountAddresses = {}
    Restartable = FALSE
    LateCredits = FALSE
    FailsAfterEscrow = FALSE
    MaxSends = 1
    MaxBlocks = 1
    MemoDenoms = {d1, d2}
    InvalidDenom = bad
    ShortMemos = {"m1"}
    EdgeMemos = {}
    LongMemo = "long"
    MaxMemoLength = 1024
    MaxMemoEntries = 1
SPECIFICATION Spec
INVARIANT MemoEntriesBounded
