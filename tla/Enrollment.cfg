SPECIFICATION MCSpec
CONSTANTS
    t1 = t1
    t2 = t2
    t3 = t3
    t4 = t4
    c1 = c1
    c2 = c2
    Students = {ann}
    Terms = {t1, t2, t3, t4}
    Classes = {c1, c2}
    ClassOf <- MCClassOf
    SectionCount = 2
    Parents = {p1, p2}
    Clerks = {k1, k2}
    None = None
    Slots = {s1, s2}
SYMMETRY Symmetry
INVARIANTS AtMostOneCurrent EntriesAreEnrolled LastOnesStay
PROPERTIES ImplementsChain AttendanceKept
CHECK_DEADLOCK FALSE
