CONSTANTS
    MessageAttempts = 2
    MessageEvents = {"e1", "e2", "e3"}
    MessageFaults = 1
SPECIFICATION OutboxSpec
CHECK_DEADLOCK FALSE
INVARIANTS
    DispatchedWasSent
    WithdrawnSendsNothingNew
PROPERTIES
    EveryMessageSettles
