\* Two clients, one thread, bytes in all pieces; clients end.
SPECIFICATION WFairSpec
CONSTANTS
    c1 = c1
    c2 = c2
    Clients = {c1, c2}
    Workers = {w1}
    Script <- MCScript
    HeaderLen = 2
    Capacity = 2
    MaxTimeouts = 1
CHECK_DEADLOCK FALSE
INVARIANTS
    WTypeOK
PROPERTIES
    AnswersInOrder
    EveryRequestAnswered
