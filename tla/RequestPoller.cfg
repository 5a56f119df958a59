SPECIFICATION FairSpec
CONSTANTS
    MaxId = 3
    MaxRestarts = 1
    PageLimit = 2
    NeedsKey = TRUE
    Answerable = {2, 3}
INVARIANT IInv
PROPERTIES OncePerRetention HandedOutUntilAnswered NoneHeldUp CacheForgets
