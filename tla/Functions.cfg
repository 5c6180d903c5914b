\* Two reads on way, both with the default transaction.
SPECIFICATION Spec
CONSTANTS
    SignedChar = TRUE
    MaxInFlight = 2
    FreshIds = FALSE
    Transaction = {0}
    Request <- TwoReads
INVARIANT FunctionsMatch
