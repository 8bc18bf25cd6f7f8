---------------------------- MODULE Enrollment -----------------------------
(***************************************************************************)
(* Enrollments of student.controller.ts.  Promoting, bulk promoting and    *)
(* withdrawing read the current enrollment first, with plain queries, and  *)
(* write in a transaction later; other requests read and write in between. *)
(* Nothing in the code keeps a student from having two current             *)
(* enrollments: what prevents it is the unique key on promotedFromId.      *)
(*                                                                         *)
(* The section of an enrollment is kept in SchoolRecords; the roll number  *)
(* and fee discount, which no check below reads, are left out.             *)
(***************************************************************************)
EXTENDS Naturals

CONSTANTS
    Students,
    Terms,      \* (academic year, class) pairs, the rest of the unique key
    None,       \* the null of promotedFromId
    Slots       \* requests that can be in flight together

ASSUME NoneAssumption == None \notin Terms

VARIABLES
    person,     \* Student.status, with NEW before and GONE after the record
    login,      \* User.isActive of the student's account
    enrollment, \* StudentEnrollment rows
    request     \* what each slot is doing and has read

dbVars == <<person, login, enrollment>>
vars == <<person, login, enrollment, request>>

Statuses == {"ACTIVE", "INACTIVE", "SUSPENDED"}

Row == [status : {"ABSENT", "ENROLLED", "PROMOTED", "WITHDRAWN"},
        current : BOOLEAN, from : Terms \cup {None}]

NoRow == [status |-> "ABSENT", current |-> FALSE, from |-> None]

(* students  those the handler still has to deal with                      *)
(* seen      the current enrollment each had when the handler read it      *)
Request == [op : {"NONE", "PROMOTE", "BULK", "WITHDRAW"},
            target : Terms \cup {None}, students : SUBSET Students,
            seen : [Students -> Terms \cup {None}]]

Idle == [op |-> "NONE", target |-> None, students |-> {},
         seen |-> [st \in Students |-> None]]

Init ==
    /\ person = [st \in Students |-> "NEW"]
    /\ login = [st \in Students |-> FALSE]
    /\ enrollment = [st \in Students |-> [t \in Terms |-> NoRow]]
    /\ request = [s \in Slots |-> Idle]

---------------------------------------------------------------------------

InSchool(st) == person[st] \in Statuses

Exists(st, t) == enrollment[st][t].status # "ABSENT"

Current(st) == {t \in Terms : enrollment[st][t].current}

\* The enrollment that `t' was promoted to, as a set.
Successors(st, t) ==
    {u \in Terms : Exists(st, u) /\ enrollment[st][u].from = t}

Put(st, rows) == enrollment' = [enrollment EXCEPT ![st] = rows]

---------------------------------------------------------------------------
(* Handlers of one transaction.                                            *)

\* AddStudent
Register(st, t) ==
    /\ person[st] = "NEW"
    /\ person' = [person EXCEPT ![st] = "ACTIVE"]
    /\ login' = [login EXCEPT ![st] = TRUE]
    /\ Put(st, [enrollment[st] EXCEPT
                ![t] = [status |-> "ENROLLED", current |-> TRUE, from |-> None]])
    /\ UNCHANGED request

UpdateStatus(st, status) ==
    /\ InSchool(st)
    /\ person' = [person EXCEPT ![st] = status]
    /\ login' = [login EXCEPT ![st] = (status = "ACTIVE")]
    /\ UNCHANGED <<enrollment, request>>

\* deleteStudent: the account and, by cascade, the enrollments go too.
Delete(st) ==
    /\ InSchool(st)
    /\ person' = [person EXCEPT ![st] = "GONE"]
    /\ login' = [login EXCEPT ![st] = FALSE]
    /\ Put(st, [t \in Terms |-> NoRow])
    /\ UNCHANGED request

---------------------------------------------------------------------------
(* Reading.                                                                *)

\* findFirst / take: 1 - any current enrollment, when there is one.
MaySee(st, seen) ==
    IF Current(st) = {} THEN seen = None ELSE seen \in Current(st)

Enter(s, op, target, students, seen) ==
    /\ request[s] = Idle
    /\ request' = [request EXCEPT ![s] =
                    [op |-> op, target |-> target, students |-> students,
                     seen |-> seen]]
    /\ UNCHANGED dbVars

See(st, t) == [Idle.seen EXCEPT ![st] = t]

\* A row in the way refuses the promotion here or, if it appears later, when the
\* transaction runs into its unique key.
ReadPromote(s, st, t, target) ==
    /\ InSchool(st)
    /\ t \in Current(st)
    /\ ~Exists(st, target)
    /\ Enter(s, "PROMOTE", target, {st}, See(st, t))

ReadBulkPromote(s, students, target, seen) ==
    /\ students # {}
    /\ \A st \in Students :
        IF st \in students THEN person[st] = "ACTIVE" /\ MaySee(st, seen[st])
                           ELSE seen[st] = None
    /\ Enter(s, "BULK", target, students, seen)

ReadWithdraw(s, st, t) ==
    /\ InSchool(st)
    /\ t \in Current(st)
    /\ Enter(s, "WITHDRAW", None, {st}, See(st, t))

---------------------------------------------------------------------------
(* Writing.                                                                *)

\* Mutant: promotedFromId is not unique.
MayPromote_NoUniqueFrom(st, t, target) ==
    /\ Exists(st, t)
    /\ ~Exists(st, target)

\* The transaction of a promotion goes through unless the enrollment that was read
\* is gone or the new row violates a unique key: (student, year, class) or
\* promotedFromId.
MayPromote(st, t, target) ==
    /\ Exists(st, t)
    /\ ~Exists(st, target)
    /\ Successors(st, t) = {}

Promote(st, t, target) ==
    /\ MayPromote(st, t, target)
    /\ Put(st, [enrollment[st] EXCEPT
                ![t].status = "PROMOTED", ![t].current = FALSE,
                ![target] = [status |-> "ENROLLED", current |-> TRUE, from |-> t]])
    /\ UNCHANGED <<person, login>>

Release(s) == request' = [request EXCEPT ![s] = Idle]

CommitPromote(s, st) ==
    /\ request[s].op = "PROMOTE"
    /\ st \in request[s].students
    /\ Promote(st, request[s].seen[st], request[s].target)
    /\ Release(s)

\* One iteration of bulkPromoteStudents: a student who cannot be promoted, or whose
\* transaction fails, is reported and the loop goes on.
BulkStep(s, st) ==
    LET q == request[s]
    IN  /\ q.op = "BULK"
        /\ st \in q.students
        /\ \/ q.seen[st] # None /\ Promote(st, q.seen[st], q.target)
           \/ UNCHANGED dbVars
        /\ request' = [request EXCEPT ![s] =
                        IF q.students = {st} THEN Idle
                        ELSE [q EXCEPT !.students = @ \ {st}]]

CommitWithdraw(s, st) ==
    LET t == request[s].seen[st]
    IN  /\ request[s].op = "WITHDRAW"
        /\ st \in request[s].students
        /\ Exists(st, t)
        /\ Put(st, [enrollment[st] EXCEPT ![t].status = "WITHDRAWN",
                                          ![t].current = FALSE])
        /\ person' = [person EXCEPT ![st] = "INACTIVE"]
        /\ login' = [login EXCEPT ![st] = FALSE]
        /\ Release(s)

\* The transaction is rolled back, or the server stops in the middle of a loop.
Fail(s) ==
    /\ request[s] # Idle
    /\ Release(s)
    /\ UNCHANGED dbVars

---------------------------------------------------------------------------

Read(s) ==
    \/ \E st \in Students, t \in Terms :
        \/ \E target \in Terms : ReadPromote(s, st, t, target)
        \/ ReadWithdraw(s, st, t)
    \/ \E students \in SUBSET Students, target \in Terms,
          seen \in [Students -> Terms \cup {None}] :
        ReadBulkPromote(s, students, target, seen)

WriteBack(s) ==
    \E st \in Students : CommitPromote(s, st) \/ BulkStep(s, st) \/ CommitWithdraw(s, st)

Administer ==
    \E st \in Students :
        \/ \E t \in Terms : Register(st, t)
        \/ \E status \in Statuses : UpdateStatus(st, status)
        \/ Delete(st)

Next ==
    \/ Administer
    \/ \E s \in Slots : Read(s) \/ WriteBack(s) \/ Fail(s)

Spec == Init /\ [][Next]_vars

---------------------------------------------------------------------------
(* Properties.                                                             *)

\* Every column and every request in flight has its type.
TypeOK ==
    /\ person \in [Students -> Statuses \cup {"NEW", "GONE"}]
    /\ login \in [Students -> BOOLEAN]
    /\ enrollment \in [Students -> [Terms -> Row]]
    /\ request \in [Slots -> Request]

\* However promotions and withdrawals interleave, a student is in one class at most.
AtMostOneCurrent ==
    \A st \in Students : \A t, u \in Current(st) : t = u

\* The history of a student is linked: an enrollment that was promoted from has its
\* successor, and the enrollment a successor names is on record and closed.
LinkedHistory ==
    \A st \in Students : \A t \in Terms :
        /\ enrollment[st][t].status = "PROMOTED" => Successors(st, t) # {}
        /\ Successors(st, t) # {} => Exists(st, t) /\ ~enrollment[st][t].current

\* The enrollments nothing was promoted from: where the student stands.
Place == [st \in Students |-> {t \in Terms : Exists(st, t) /\ Successors(st, t) = {}}]

Past == [st \in Students |-> {t \in Terms : Exists(st, t) /\ Successors(st, t) # {}}]

Chain == INSTANCE EnrollmentChain WITH place <- Place, past <- Past

\* Every interleaving moves each student along one chain of enrollments, never back
\* and never in two directions.
ImplementsChain == Chain!Spec

\* A student's account is open exactly while the student is active.
LoginFollowsStatus == \A st \in Students : login[st] = (person[st] = "ACTIVE")

---------------------------------------------------------------------------
(* The invariant the proofs use.                                           *)

\* The rows of one student: a chain with one end, closed but for the end, and no
\* rows at all without a student record.
Ordered(st) ==
    /\ \A t \in Terms :
        /\ enrollment[st][t].current => Exists(st, t)
        /\ enrollment[st][t].status = "PROMOTED" => Successors(st, t) # {}
        /\ Successors(st, t) # {} => Exists(st, t) /\ ~enrollment[st][t].current
        /\ Exists(st, t) => InSchool(st)
    /\ \A t, u \in Place[st] : t = u
    /\ \A t \in Terms : Exists(st, t) => Place[st] # {}

\* A request in flight asks for a place there is, from an enrollment it has seen.
Asked(s) ==
    LET q == request[s]
    IN  /\ q.op \in {"PROMOTE", "BULK"} => q.target \in Terms
        /\ q.op \in {"PROMOTE", "WITHDRAW"} =>
            \A st \in q.students : q.seen[st] \in Terms

IInv ==
    /\ TypeOK
    /\ \A st \in Students : Ordered(st)
    /\ \A s \in Slots : Asked(s)

=============================================================================
