\* Up to ten coils, three of them shared.
SPECIFICATION Spec
CONSTANTS
    MaxCount = 10
    Shared = {1, 8, 10}
INVARIANTS PackedRight UnpackedRight RoundTrip IInv
CHECK_DEADLOCK FALSE
