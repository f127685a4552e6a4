CONSTANTS
    Alphabet = {0, 1, 2, 8, 10, 11, 18, 25, 26, 27, 28, 29, 30, 128}
    MaxInput = 4
    VarintProbes = {0, 1, 127, 128, 129, 255, 16383, 16384, 2097151, 2097152, 268435455}
INIT Init
NEXT Next
INVARIANTS
    VarintMatchesSov
    MarshalRoundTrip
    TruncatedMemoRejected
    DecodedReencodes
