\* One connection, on which the client only reads.
SPECIFICATION Spec
CONSTANTS
    coils = coils
    discrete_inputs = discrete_inputs
    holding_registers = holding_registers
    input_registers = input_registers
    Block <- MCBlock
    BitBlock <- MCBitBlock
    Start <- MCStart
    Capacity <- MCCapacity
    Value <- MCValue
    Default <- MCDefault
    ReadLimit <- MCReadLimit
    WriteLimit <- MCWriteLimit
    Packet <- FrameReads
    MaxUnread = 2
    Junk = {0, 1}
INVARIANTS ReadsLeaveTable
