SPECIFICATION FairSpec
CONSTANTS
    k1 = k1
    k10 = k10
    Requests = {k1}
    Messages = {k1}
    SearchHits <- OnlyHits
    Results = {v1, v2}
    Slots = {s1, s2}
    RequestOf <- MCRequestOf
    QueueOf <- MCQueueOf
    NoMessage = NoMessage
    NoRequest = NoRequest
    NoResult = NoResult
    RetryAttempts = 1
    Prefetch = 2
    MaxCopies = 1
    Losable = {"new_keys"}
    MaxMempool = 1
PROPERTIES InvocationsEnd EventuallyAnswered
