SPECIFICATION Spec
CONSTANTS
    Students = {ann}
    Subjects = {math}
    Papers = {p1}
    Scores = {1, 2}
    Days = {1, 2}
    Settable = {"COMPLETED"}
    Slots = {s1, s2}
    None = None
SYMMETRY Symmetry
INVARIANTS PassWithinMax 
PROPERTIES ClosedStaysClosed DatesStayInOrder MarksStayWithin
CHECK_DEADLOCK FALSE
