CONSTANTS
    Pages = {p1, p2}
    Chains = {c1, c2}
    Types <- SomeTypes
    MaxMsgs = 2
    MaxClicks = 3
SPECIFICATION FairSpec
INVARIANTS TypeOK Drained MessageKept InOrder AnsweredInOrder
PROPERTIES QueueMoves
CHECK_DEADLOCK FALSE
