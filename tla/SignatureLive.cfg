SPECIFICATION FairSpec
CONSTANTS
    Requests = {r1}
    Deployments = {own, other}
    Own = own
    Sign = Sign
    Messages <- MCMessages
    RequestOf <- MCRequestOf
    QueueOf <- MCQueueOf
    Results <- MCResults
    Slots = {s1}
    NoMessage = NoMessage
    NoResult = NoResult
    RetryAttempts = 1
    Prefetch = 1
    MaxCopies = 1
    Losable = {"new_signatures", "signature_statuses"}
    MaxMempool = 1
PROPERTIES EventuallyAnswered AnsweredOnce
