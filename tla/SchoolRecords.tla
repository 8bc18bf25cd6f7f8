--------------------------- MODULE SchoolRecords ----------------------------
(***************************************************************************)
(* What hangs on a student's enrollments: classes and their sections       *)
(* (classes.controller.ts), attendance sheets of one day                   *)
(* (attendance.controller.ts) and the parents of a student                 *)
(* (student.controller.ts).  These requests run beside the ones that move  *)
(* students, in a transaction or in a check and a write that may be far    *)
(* apart; the foreign keys tie the tables together.                        *)
(*                                                                         *)
(* A class and its sections are numbered: 0 is the class itself, or a null *)
(* section.  So is an attendance sheet: the pair is its scopeKey.          *)
(***************************************************************************)
EXTENDS Enrollment, FiniteSets

CONSTANTS
    Classes,
    ClassOf,       \* the class of each (year, class) pair
    SectionCount,  \* bound: sections ever created in a class
    Parents,
    Clerks         \* requests of this module in flight together

ASSUME RecordsAssumption ==
    /\ ClassOf \in [Terms -> Classes]
    /\ SectionCount \in Nat \ {0}
    /\ IsFiniteSet(Parents)

VARIABLES
    unit,       \* unit[c][k]: a class or section, "NEW" before, "GONE" after
    seat,       \* seat[st][t]: sectionId of an enrollment, 0 for null
    taken,      \* attendance sheets there are
    entries,    \* entries[c][k]: students with an entry on the sheet
    guardians,  \* StudentParent
    task,       \* what each clerk's request has read
    overlapped  \* history: students and classes with two removals at a time

recordVars == <<unit, seat, taken, entries, guardians, task, overlapped>>
allVars == <<vars, recordVars>>

Rooms == 0 .. SectionCount
Sheets == Classes \X Rooms
NoTask == [op |-> "NONE"]
Tasks ==
    {NoTask}
    \cup [op : {"SHEET"}, sheet : Sheets, students : SUBSET Students]
    \cup [op : {"UNLINK"}, student : Students, parent : Parents]
    \cup [op : {"DROP"}, class : Classes, section : Rooms]

RecordsTypeOK ==
    /\ unit \in [Classes -> [Rooms -> {"NEW", "OPEN", "GONE"}]]
    /\ seat \in [Students -> [Terms -> Rooms]]
    /\ taken \subseteq Sheets
    /\ entries \in [Classes -> [Rooms -> SUBSET Students]]
    /\ guardians \in [Students -> SUBSET Parents]
    /\ task \in [Clerks -> Tasks]
    /\ overlapped \subseteq Students \cup Classes

\* A school that has created some of its classes.
RecordsInit ==
    /\ Init
    /\ \E set \in SUBSET Classes :
        unit = [c \in Classes |-> [k \in Rooms |->
                   IF c \in set /\ k <= 1 THEN "OPEN" ELSE "NEW"]]
    /\ seat = [st \in Students |-> [t \in Terms |-> 0]]
    /\ taken = {} /\ entries = [c \in Classes |-> [k \in Rooms |-> {}]]
    /\ guardians = [st \in Students |-> {}]
    /\ task = [s \in Clerks |-> NoTask]
    /\ overlapped = {}

---------------------------------------------------------------------------

Open(c, k) == unit[c][k] = "OPEN"
Sections(c) == {k \in Rooms \ {0} : Open(c, k)}
Choosable(c, k) == Open(c, 0) /\ Open(c, k)

Seated(c, k) == {st \in Students : \E t \in Terms :
                    Exists(st, t) /\ ClassOf[t] = c /\ seat[st][t] = k}

\* Requests that have found they may remove a parent, or a section.
Unlinking(st) == {s \in Clerks : task[s].op = "UNLINK" /\ task[s].student = st}
Dropping(c) == {s \in Clerks : task[s].op = "DROP" /\ task[s].class = c}

\* onDelete: SetNull for the enrollments in a section that is deleted.
Unseat(c, removed) ==
    seat' = [st \in Students |-> [t \in Terms |->
                IF ClassOf[t] = c /\ seat[st][t] \in removed THEN 0 ELSE seat[st][t]]]

---------------------------------------------------------------------------
(* The handlers of the enrollments: a new enrollment refers to a class and *)
(* perhaps a section that exist (what they look up before they write, the  *)
(* foreign keys check again), a new student has parents, a deleted one     *)
(* leaves sheets and parents by cascade.                                   *)

Joins(st, t) == ~Exists(st, t) /\ Exists(st, t)'
Arrives(st) == person[st] = "NEW" /\ person'[st] # "NEW"
Leaves(st) == person[st] # "GONE" /\ person'[st] = "GONE"

Follow(k, parents) ==
    /\ \A st \in Students, t \in Terms :
        Joins(st, t) => Choosable(ClassOf[t], 0) /\ Choosable(ClassOf[t], k)
    /\ seat' = [st \in Students |-> [t \in Terms |->
                   IF Joins(st, t) THEN k ELSE IF Leaves(st) THEN 0 ELSE seat[st][t]]]
    /\ guardians' = [st \in Students |->
                        IF Leaves(st) THEN {}
                        ELSE IF Arrives(st) THEN parents
                        ELSE guardians[st]]
    /\ entries' = [c \in Classes |-> [r \in Rooms |->
                      {st \in entries[c][r] : ~Leaves(st)}]]
    /\ UNCHANGED <<unit, taken, task, overlapped>>

\* Only a new enrollment gets a section, only a new student parents.
Enroll ==
    /\ Next
    /\ \E k \in {r \in Rooms : r = 0 \/ \E st \in Students, t \in Terms : Joins(st, t)},
          parents \in {ps \in SUBSET Parents : ps # {} <=> \E st \in Students : Arrives(st)} :
        Follow(k, parents)

\* updateEnrollment
SetSection(st, t, k) ==
    /\ Exists(st, t)
    /\ k = 0 \/ Choosable(ClassOf[t], k)
    /\ seat' = [seat EXCEPT ![st][t] = k]
    /\ UNCHANGED <<vars, unit, taken, entries, guardians, task, overlapped>>

---------------------------------------------------------------------------
(* Classes and sections.                                                   *)

CreateClass(c, n) ==
    /\ unit[c][0] = "NEW"
    /\ unit' = [unit EXCEPT ![c] = [k \in Rooms |-> IF k <= n THEN "OPEN" ELSE "NEW"]]
    /\ UNCHANGED <<vars, seat, taken, entries, guardians, task, overlapped>>

\* Mutant: only current enrollments keep a class.
MayDeleteClass_Current(c) ==
    \A st \in Students, t \in Terms : ClassOf[t] = c => ~enrollment[st][t].current

\* The count of deleteClass, repeated by onDelete: Restrict.
MayDeleteClass(c) ==
    \A st \in Students, t \in Terms : ClassOf[t] = c => ~Exists(st, t)

\* Sections and attendance sheets go with the class.
DeleteClass(c) ==
    /\ Open(c, 0)
    /\ MayDeleteClass(c)
    /\ unit' = [unit EXCEPT ![c] = [k \in Rooms |-> "GONE"]]
    /\ taken' = {sheet \in taken : sheet[1] # c}
    /\ entries' = [entries EXCEPT ![c] = [k \in Rooms |-> {}]]
    /\ UNCHANGED <<vars, seat, guardians, task, overlapped>>

CreateSection(c, k) ==
    /\ Open(c, 0)
    /\ unit[c][k] = "NEW"
    /\ unit' = [unit EXCEPT ![c][k] = "OPEN"]
    /\ UNCHANGED <<vars, seat, taken, entries, guardians, task, overlapped>>

\* updateClass with sections: those it does not list are deleted, whoever sits there,
\* and the ones it lists without an id of the class are created.
UpdateClass(c, listed) ==
    LET removed == Sections(c) \ listed
    IN  /\ Open(c, 0)
        /\ listed # {}
        /\ \A k \in listed : unit[c][k] # "GONE"
        /\ unit' = [unit EXCEPT ![c] = [k \in Rooms |->
                       IF k \in listed THEN "OPEN"
                       ELSE IF k \in removed THEN "GONE" ELSE unit[c][k]]]
        /\ Unseat(c, removed)
        /\ overlapped' = overlapped \cup {d \in {c} : Dropping(d) # {}}
        /\ UNCHANGED <<vars, taken, entries, guardians, task>>

---------------------------------------------------------------------------
(* Requests that check, and write later.                                   *)

Take(s, what) ==
    /\ task[s] = NoTask
    /\ task' = [task EXCEPT ![s] = what]
    /\ UNCHANGED <<vars, unit, seat, taken, entries, guardians>>

Finish(s) == task' = [task EXCEPT ![s] = NoTask]

\* Mutant: any class will do.
Enrolled_Anywhere(c, k) ==
    {st \in Students : person[st] = "ACTIVE" /\ \E t \in Current(st) : k = 0 \/ seat[st][t] = k}

\* getEnrolledStudents
Enrolled(c, k) ==
    {st \in Students : person[st] = "ACTIVE"
        /\ \E t \in Current(st) : ClassOf[t] = c /\ (k = 0 \/ seat[st][t] = k)}

\* saveStudentAttendanceSheet: every entry sent is of an enrolled student.
ReadSheet(s, c, k, students) ==
    /\ Choosable(c, k)
    /\ students # {} /\ students \subseteq Enrolled(c, k)
    /\ Take(s, [op |-> "SHEET", sheet |-> <<c, k>>, students |-> students])
    /\ UNCHANGED overlapped

\* The upsert and the replacement of the entries.  A student or class that is gone
\* violates a foreign key; a section only while the sheet is not there yet.
CommitSheet(s, c, k) ==
    /\ task[s].op = "SHEET" /\ task[s].sheet = <<c, k>>
    /\ \A st \in task[s].students : InSchool(st)
    /\ <<c, k>> \in taken \/ Choosable(c, k)
    /\ taken' = taken \cup {<<c, k>>}
    /\ entries' = [entries EXCEPT ![c][k] = task[s].students]
    /\ Finish(s)
    /\ UNCHANGED <<vars, unit, seat, guardians, overlapped>>

\* linkParents, of parents there are or new ones.
LinkParents(st, parents) ==
    /\ InSchool(st)
    /\ guardians' = [guardians EXCEPT ![st] = @ \cup parents]
    /\ UNCHANGED <<vars, unit, seat, taken, entries, task, overlapped>>

\* Mutant: the last parent may go.
MayUnlink_Last(st) == Cardinality(guardians[st]) >= 1

\* unlinkParent counts the links there are, ...
MayUnlink(st) == Cardinality(guardians[st]) > 1

ReadUnlink(s, st, p) ==
    /\ InSchool(st) /\ p \in guardians[st] /\ MayUnlink(st)
    /\ Take(s, [op |-> "UNLINK", student |-> st, parent |-> p])
    /\ overlapped' = overlapped \cup {x \in {st} : Unlinking(x) # {}}

\* ... and deletes one.
CommitUnlink(s, st) ==
    /\ s \in Unlinking(st)
    /\ task[s].parent \in guardians[st]
    /\ guardians' = [guardians EXCEPT ![st] = @ \ {task[s].parent}]
    /\ Finish(s)
    /\ UNCHANGED <<vars, unit, seat, taken, entries, overlapped>>

\* deleteSection counts the sections of the class and the enrollments in this one, ...
ReadDrop(s, c, k) ==
    /\ Open(c, 0) /\ k \in Sections(c) /\ Sections(c) # {k}
    /\ Seated(c, k) = {}
    /\ Take(s, [op |-> "DROP", class |-> c, section |-> k])
    /\ overlapped' = overlapped \cup {d \in {c} : Dropping(d) # {}}

\* ... and deletes it, with those who have come in since.
CommitDrop(s, c) ==
    /\ s \in Dropping(c)
    /\ Open(c, task[s].section)
    /\ unit' = [unit EXCEPT ![c][task[s].section] = "GONE"]
    /\ Unseat(c, {task[s].section})
    /\ Finish(s)
    /\ UNCHANGED <<vars, taken, entries, guardians, overlapped>>

FailTask(s) ==
    /\ task[s] # NoTask
    /\ Finish(s)
    /\ UNCHANGED <<vars, unit, seat, taken, entries, guardians, overlapped>>

---------------------------------------------------------------------------

Organize ==
    \E c \in Classes :
        \/ \E n \in Rooms \ {0} : CreateClass(c, n)
        \/ DeleteClass(c)
        \/ \E k \in Rooms \ {0} : CreateSection(c, k)
        \/ \E listed \in SUBSET (Rooms \ {0}) : UpdateClass(c, listed)

Check(s) ==
    \/ \E c \in Classes, k \in Rooms :
        \/ \E students \in SUBSET Students : ReadSheet(s, c, k, students)
        \/ ReadDrop(s, c, k)
    \/ \E st \in Students, p \in Parents : ReadUnlink(s, st, p)

Settle(s) ==
    \/ \E c \in Classes : CommitDrop(s, c) \/ (\E k \in Rooms : CommitSheet(s, c, k))
    \/ \E st \in Students : CommitUnlink(s, st)
    \/ FailTask(s)

RecordsNext ==
    \/ Enroll
    \/ Organize
    \/ \E st \in Students :
        \/ \E t \in Terms, k \in Rooms : SetSection(st, t, k)
        \/ \E parents \in SUBSET Parents \ {{}} : LinkParents(st, parents)
    \/ \E s \in Clerks : Check(s) \/ Settle(s)

RecordsSpec == RecordsInit /\ [][RecordsNext]_allVars

---------------------------------------------------------------------------
(* Properties.                                                             *)

\* Whoever is on an attendance sheet has been enrolled in its class, and that
\* enrollment is still on record, however moves, deletions and late saves interleave
\* (the check of saveStudentAttendanceSheet, the rows a promotion leaves behind).
EntriesAreEnrolled ==
    \A c \in Classes, k \in Rooms : \A st \in entries[c][k] :
        \E t \in Terms : Exists(st, t) /\ ClassOf[t] = c

\* Attendance is only ever lost with the student, or to a later save of the same
\* sheet: no class or section that is deleted takes an entry with it, although the
\* schema deletes the sheets of a class by cascade.
AttendanceKept ==
    [][\A c \in Classes, k \in Rooms : \A st \in entries[c][k] :
        \/ st \in entries'[c][k]
        \/ Leaves(st)
        \/ \E s \in Clerks : task[s].op = "SHEET" /\ task[s].sheet = <<c, k>> /\ task'[s] = NoTask
      ]_allVars

\* A student keeps a parent and a class keeps a section ("Student must have at least
\* one parent/guardian", "Cannot delete the last section of a class"), unless two
\* removals for the same student or class were under way at a time.
LastOnesStay ==
    /\ \A st \in Students : InSchool(st) /\ guardians[st] = {} => st \in overlapped
    /\ \A c \in Classes : Open(c, 0) /\ Sections(c) = {} => c \in overlapped

=============================================================================
