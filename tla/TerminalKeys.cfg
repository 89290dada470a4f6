SPECIFICATION Spec
CONSTANTS
    c1 = c1
    c2 = c2
    Person = person
    Calls <- MCTwoCalls
    Requests <- MCRunAndSend
    MaxActs = 1
CHECK_DEADLOCK FALSE
INVARIANT KeysReachOnlyTheAgentsCommands
