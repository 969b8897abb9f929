CONSTANTS
    Pages = {p1}
    Chains = {c1}
    Types = {"eval"}
    MaxMsgs = 1
    MaxClicks = 3
SPECIFICATION Spec
PROPERTIES QueuesAgain
CHECK_DEADLOCK FALSE
