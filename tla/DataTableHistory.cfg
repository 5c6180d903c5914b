\* Three threads on one register block, with the history of every slice.
SPECIFICATION HSpec
CONSTANTS
    holding = holding
    a1 = a1
    a2 = a2
    a3 = a3
    NoActor = NoActor
    Actor = {a1, a2, a3}
    Block <- MCBlock
    BitBlock = {}
    Start <- MCStart
    Capacity <- MCCapacity
    Value <- MCValue
    Default <- MCDefault
    ReadLimit <- MCReadLimit
    Access <- MCAccess
SYMMETRY Threads
INVARIANTS HIInv StoredPrefix RegularRead
