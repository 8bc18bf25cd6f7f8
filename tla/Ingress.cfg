SPECIFICATION MCSpec
CONSTANTS
    d1 = d1
    d2 = d2
    i1 = i1
    i2 = i2
    Deliveries = {d1, d2}
    Instances = {i1, i2}
    InstanceOf <- MCInstanceOf
    QueueEnabled = TRUE
    BatchSize = 1
    MaxAttempts = 2
    MaxRows = 2
    MaxFaults = 1
    MaxCrashes = 1
INVARIANT NothingLost
INVARIANT QueueDeliversOnce
PROPERTY EventuallySettled
CHECK_DEADLOCK FALSE
