SPECIFICATION Spec
CONSTANTS
    m1 = m1  m2 = m2  m3 = m3  m4 = m4  m5 = m5  o1 = o1  o2 = o2
    Name = {"c", "d", "w"}
    Wallet = {"w"}
    State <- MCState
    MethodsOf <- MCMethodsOf
    Description <- MCDescription
    Message <- MCMessage
    MsgOf <- MCMsgOf
    Unsteady <- MCUnsteady
    SelectLimit = 2
    Events = 2
INVARIANTS
    ParsedDataFollowsInterfaces
PROPERTIES
    OperationSeesAll
    CheckpointAdvances
    QueueMovesOn
CHECK_DEADLOCK FALSE
