\* A client that never reuses a transaction while a reply is under way.
SPECIFICATION Spec
CONSTANTS
    SignedChar = TRUE
    MaxInFlight = 2
    FreshIds = TRUE
    Transaction = {1, 2, 3}
    Request <- MCRequest
INVARIANTS IInv ExceptionsRecognised LateReplyRejected RepliesUnderstood FramesFit UnsendableWereInvalid
