\* The process may end, and nothing in the model starts it again.
SPECIFICATION FairSpec
CONSTANTS
    Producers = {p1, p2}
    MaxCalls = 2
    MaxReconnectAttempts = 2
    MaxCloses = 3
INVARIANTS IInv PromisesKept
PROPERTIES PublishEnds ChannelBack
CHECK_DEADLOCK FALSE
