SPECIFICATION FairSpec
CONSTANTS
    c1 = c1
    c2 = c2
    Person = person
    Calls <- MCTwoCalls
    Requests <- MCRequests
    MaxActs = 2
CHECK_DEADLOCK FALSE
INVARIANT OneAnswerOfItsOwn
INVARIANT EarnsTheMark
INVARIANT LaterBlocksStayThePersons
PROPERTY EveryCallIsAnswered
