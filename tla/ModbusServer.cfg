\* Two sessions on two io threads.
SPECIFICATION SFairSpec
CONSTANTS
    coils = coils
    discrete_inputs = discrete_inputs
    holding_registers = holding_registers
    input_registers = input_registers
    s1 = s1
    s2 = s2
    app = app
    NoActor = NoActor
    Session = {s1, s2}
    App = {}
    Actor = {s1, s2}
    IoThread <- MCTwoThreads
    Block <- MCBlock
    BitBlock <- MCBitBlock
    Start <- MCStart
    Capacity <- MCCapacity
    Value <- MCValue
    Default <- MCDefault
    ReadLimit <- MCReadLimit
    WriteLimit <- MCWriteLimit
    Packet <- MCPacket
    AppAccess <- MCAppAccess
    RefAccess <- MCRefAccess
    Access <- MCAccess
INVARIANTS SessionsOK NoRefusalHalfWay ReplyComplete
PROPERTIES WritesInFrame RequestsAnswered
