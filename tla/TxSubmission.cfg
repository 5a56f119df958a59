SPECIFICATION FairSpec
CONSTANTS
    Requests = {r1}
    Results = {x1}
    NoResult = NoResult
    Slots = {s1, s2}
    NoTx = NoTx
    Window = 3
    MaxSequence = 2
INVARIANTS IInv LockFits OneAtATime MissedInCrowd
PROPERTIES AllowedByChain LockReleased WaitsEnd
