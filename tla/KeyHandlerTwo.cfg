SPECIFICATION Spec
CONSTANTS
    k1 = k1
    k10 = k10
    Requests = {k1, k10}
    Messages = {k1, k10}
    SearchHits <- PartialHits
    Results = {v1}
    Slots = {s1}
    RequestOf <- MCRequestOf
    QueueOf <- MCQueueOf
    NoMessage = NoMessage
    NoRequest = NoRequest
    NoResult = NoResult
    RetryAttempts = 1
    Prefetch = 2
    MaxCopies = 1
    Losable = {"new_keys"}
    MaxMempool = 1
SYMMETRY Symmetry
PROPERTY AnsweredOnce
