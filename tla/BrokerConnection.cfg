\* The process may end, and nothing in the model starts it again.
SPECIFICATION FairSpec
CONSTANTS
    Consumers = {c1, c2, c3}
    MaxReconnectAttempts = 2
    MaxCloses = 3
INVARIANTS IInv QuickCounted SubscribedOnce NoneForgotten
PROPERTIES EventuallySubscribed GivesUpWhenQuick
CHECK_DEADLOCK FALSE
