CONSTANTS
    MemoDenoms = {d1, d2}
    InvalidDenom = bad
    ShortMemos = {"m1"}
    EdgeMemos = {"edge"}
    LongMemo = "long"
    MaxMemoLength = 1024
    MaxMemoEntries = 2
    MaxBatch = 3
SPECIFICATION Spec
INVARIANT ValidationMatchesReference
