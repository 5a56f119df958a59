SPECIFICATION FairSpec
CONSTANTS
    k1 = k1
    g1 = g1
    Messages <- MCMessages
    QueueOf <- MCQueueOf
    Slots = {s1, s2, s3}
    NoMessage = NoMessage
    RetryAttempts = 1
    Prefetch = 1
    MaxCopies = 2
    Losable = {"keys", "signatures"}
INVARIANT TypeOK
PROPERTIES CopiesKept QueuesDrain 
