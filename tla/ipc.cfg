SPECIFICATION FairSpec
CONSTANTS
    Clients = {c1, c2}
    Kinds = {"workspace", "document", "presentation", "typing", "edit"}
    MaxRequests = 2
    MaxGeneration = 2
INVARIANTS
    RetainedWhileExecuting
    SwitchHonoursBinding
PROPERTIES
    SlotsRecover
    IsRequestReply
CHECK_DEADLOCK FALSE
