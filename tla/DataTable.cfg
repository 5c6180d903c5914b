\* Two threads, a coil block and a register block, every kind of call.
SPECIFICATION FairSpec
CONSTANTS
    coils = coils
    holding = holding
    a1 = a1
    a2 = a2
    NoActor = NoActor
    Actor = {a1, a2}
    Block <- MCBlock
    BitBlock <- MCBitBlock
    Start <- MCStart
    Capacity <- MCCapacity
    Value <- MCValue
    Default <- MCDefault
    ReadLimit <- MCReadLimit
    Access <- MCAccess
INVARIANTS TypeOK MutexOwnership InBounds IInv
PROPERTIES MutexReleased CallsEnd AtomicSpec
