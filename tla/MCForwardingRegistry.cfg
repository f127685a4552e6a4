CONSTANTS
    Channels = {c1}
    Recipients = {r1}
    Fallbacks = {u1}
    NoFallback = NoFallback
    Users = {u1, auth}
    Authority = auth
    Denoms = {d1, d2}
    InitialAllowedDenoms = {d1}
    KeyedAddresses <- MCKeyedAddresses
    InitialMemoBatches <- MCMemoBatches
    TransfersMayFail = TRUE
    OtherAccountAddresses <- MCOtherAccountAddresses
    Restartable = FALSE
    LateCredits = FALSE
    FailsAfterEscrow = FALSE
    MaxSends = 2
    MaxBlocks = 2
    MemoDenoms = {d1}
    InvalidDenom = bad
    ShortMemos = {"m1"}
    EdgeMemos = {"edge"}
    LongMemo = "long"
    MaxMemoLength = 1024
    MaxMemoEntries = 10
SPECIFICATION Spec
INVARIANT NoKeyedForwardingAccount
INVARIANT AccountCountMatches
INVARIANT MemosOnlyOnForwardingAccounts
