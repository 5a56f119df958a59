SPECIFICATION Spec
CONSTANTS
    Requests = {r1}
    Results = {x1}
    NoResult = NoResult
    Slots = {s1, s2}
    NoTx = NoTx
    Window = 3
    MaxSequence = 2
PROPERTY MismatchThrown
