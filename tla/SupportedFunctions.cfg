\* Coil reads, one request at a time.
SPECIFICATION Spec
CONSTANTS
    SignedChar = TRUE
    MaxInFlight = 1
    FreshIds = TRUE
    Transaction = {1, 2}
    Request <- CoilReads
INVARIANT SupportedFunctions
