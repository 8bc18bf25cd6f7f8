SPECIFICATION MCSpec
CONSTANTS
    ann = ann
    bob = bob
    y1 = y1
    y2 = y2
    None = None
    MaxInvoices = 3
    MaxFines = 0
    Students = {ann}
    ClassOf <- MCClassOf
    PeriodCount = 2
    Sessions = {y1, y2}
    DefaultSession <- MCDefaultSession
    Slots = {s1, s2}
INVARIANT OneTimeOnce
CHECK_DEADLOCK FALSE
