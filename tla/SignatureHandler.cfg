SPECIFICATION Spec
CONSTANTS
    Requests = {r1}
    Deployments = {own}
    Own = own
    Sign = Sign
    Messages <- MCMessages
    RequestOf <- MCRequestOf
    QueueOf <- MCQueueOf
    Results <- MCResults
    Slots = {s1, s2}
    NoMessage = NoMessage
    NoResult = NoResult
    RetryAttempts = 1
    Prefetch = 1
    MaxCopies = 1
    Losable = {"new_signatures"}
    MaxMempool = 1
SYMMETRY SlotSymmetry
INVARIANTS IInv AckedAccounted RejectedForReason
PROPERTY AnsweredOnce
