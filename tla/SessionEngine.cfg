SPECIFICATION LiveSpec
CONSTANTS
    Ops = {o1, o2}
    MaxEngines = 3
    o1 = o1
    o2 = o2
INVARIANT NoOrphan
INVARIANT StoppedStaysDown
INVARIANT FencedCredentials
INVARIANT NoGhostReady
PROPERTY StartReturns
CHECK_DEADLOCK FALSE
CONSTRAINT Bounded
