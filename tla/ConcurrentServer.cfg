\* Two sessions on two io threads beside an application thread.
SPECIFICATION SSpec
CONSTANTS
    coils = coils
    discrete_inputs = discrete_inputs
    holding_registers = holding_registers
    input_registers = input_registers
    s1 = s1
    s2 = s2
    app = app
    NoActor = NoActor
    Session = {s1, s2}
    App = {app}
    Actor = {s1, s2, app}
    IoThread <- MCTwoThreads
    Block <- MCBlock
    BitBlock <- MCBitBlock
    Start <- MCStart
    Capacity <- MCCapacity
    Value <- MCValue
    Default <- MCDefault
    ReadLimit <- MCReadLimit
    WriteLimit <- MCWriteLimit
    Packet <- BlindPacket
    AppAccess <- BlindAppAccess
    RefAccess <- BlindRefAccess
    Access <- BlindAccess
PROPERTIES AtomicWrites
