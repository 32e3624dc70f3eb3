SPECIFICATION FairSpec
CONSTANTS
    Wakers = {w1, w2}
    Owner = owner
    NoThread = NoThread
    LOCKED_WAITING = LOCKED_WAITING
    Rounds = 3
INVARIANTS
    WakerTouchesLiveWriter
    MutexIsConstructed
    NoLostWakeup
    AssertionsHold
PROPERTIES
    ImplementsHandshake
    EveryWaitReturns
