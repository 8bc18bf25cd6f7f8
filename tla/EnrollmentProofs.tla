------------------------- MODULE EnrollmentProofs --------------------------
(***************************************************************************)
(* Theorems about enrollments, for any students, terms and number of       *)
(* requests in flight.  The argument: promotedFromId is unique, so the     *)
(* rows of a student form a chain with one end, and only the end can be    *)
(* current.  The second half is about the tables of SchoolRecords, which   *)
(* rest on enrollments that go only with their student.                    *)
(***************************************************************************)
EXTENDS SchoolRecords, FiniteSetTheorems, TLAPS

---------------------------------------------------------------------------
(* What each write does to the rows of a student.                          *)

\* A student whose rows a step leaves alone, and who stays in the school.
LEMMA RowsKept ==
    ASSUME NEW st \in Students, Ordered(st),
           enrollment'[st] = enrollment[st], InSchool(st) => InSchool(st)'
    PROVE  /\ Ordered(st)'
           /\ Place'[st] = Place[st] /\ Past'[st] = Past[st]
BY DEF Ordered, Exists, Successors, Place, Past

\* A row opened for a student without any.
LEMMA RowOpened ==
    ASSUME IInv, NEW st \in Students, NEW t \in Terms, Register(st, t)
    PROVE  /\ Ordered(st)'
           /\ Place[st] = {} /\ Past[st] = {}
           /\ Place'[st] = {t} /\ Past'[st] = {}
<1>1. \A u \in Terms : ~Exists(st, u)
  BY DEF IInv, Ordered, Register, InSchool, Statuses
<1>2. enrollment'[st] = [enrollment[st] EXCEPT
            ![t] = [status |-> "ENROLLED", current |-> TRUE, from |-> None]]
  BY DEF Register, Put, IInv, TypeOK
<1>3. enrollment[st] \in [Terms -> Row]
  BY DEF IInv, TypeOK
<1>4. /\ enrollment'[st][t] = [status |-> "ENROLLED", current |-> TRUE, from |-> None]
      /\ \A u \in Terms : u # t => enrollment'[st][u] = enrollment[st][u]
  BY <1>2, <1>3
<1>5. \A u \in Terms : Exists(st, u)' <=> u = t
  BY <1>1, <1>4 DEF Exists
<1>6. \A u \in Terms : Successors(st, u)' = {}
  BY <1>4, <1>5, NoneAssumption DEF Successors
<1>7. Place'[st] = {t} /\ Past'[st] = {} /\ Place[st] = {} /\ Past[st] = {}
  BY <1>1, <1>5, <1>6 DEF Place, Past
<1>8. InSchool(st)'
  BY DEF Register, InSchool, Statuses, IInv, TypeOK
<1>9. \A u \in Terms : u # t => ~enrollment[st][u].current
                                /\ enrollment[st][u].status = "ABSENT"
  BY <1>1 DEF IInv, Ordered, Exists
<1>10. QED
  BY <1>4, <1>5, <1>6, <1>7, <1>8, <1>9 DEF Ordered

\* A promotion closes the end of the chain and adds a new one.
LEMMA RowPromoted ==
    ASSUME IInv, NEW st \in Students, NEW t \in Terms, NEW target \in Terms,
           Promote(st, t, target)
    PROVE  /\ Ordered(st)'
           /\ Place[st] = {t} /\ target \notin Place[st] \cup Past[st]
           /\ Place'[st] = {target} /\ Past'[st] = Past[st] \cup {t}
<1> DEFINE new == [status |-> "ENROLLED", current |-> TRUE, from |-> t]
<1>1. /\ Exists(st, t) /\ ~Exists(st, target) /\ Successors(st, t) = {}
      /\ t # target
  BY DEF Promote, MayPromote
<1>2. enrollment'[st] = [enrollment[st] EXCEPT ![t].status = "PROMOTED",
                                               ![t].current = FALSE,
                                               ![target] = new]
  BY DEF Promote, Put, IInv, TypeOK
<1>3. enrollment[st] \in [Terms -> Row]
  BY DEF IInv, TypeOK
<1>4. /\ enrollment'[st][target] = new
      /\ enrollment'[st][t].status = "PROMOTED"
      /\ enrollment'[st][t].current = FALSE
      /\ enrollment'[st][t].from = enrollment[st][t].from
      /\ \A u \in Terms : u # t /\ u # target => enrollment'[st][u] = enrollment[st][u]
  BY <1>1, <1>2, <1>3 DEF Row
<1> HIDE DEF new
<1>5. \A u \in Terms : Exists(st, u)' <=> Exists(st, u) \/ u = target
  BY <1>1, <1>4 DEF Exists, new
<1>6. \A u, v \in Terms : v \in Successors(st, u)' <=>
        v \in Successors(st, u) \/ (u = t /\ v = target)
  BY <1>1, <1>4, <1>5 DEF Successors, new
<1>7. Successors(st, target) = {}
  BY <1>1 DEF IInv, Ordered
<1>8. Place[st] = {t}
  BY <1>1 DEF IInv, Ordered, Place
<1>9. \A u \in Terms : Successors(st, u)' = {} <=> Successors(st, u) = {} /\ u # t
  BY <1>6 DEF Successors
<1>10. Place'[st] = {target} /\ Past'[st] = Past[st] \cup {t}
  BY <1>1, <1>5, <1>7, <1>8, <1>9 DEF Place, Past
<1>11. InSchool(st)'
  BY <1>1 DEF IInv, Ordered, InSchool, Promote
<1>12. \A u \in Terms : /\ enrollment'[st][u].current => Exists(st, u)'
                        /\ enrollment'[st][u].status = "PROMOTED" => Successors(st, u)' # {}
                        /\ Successors(st, u)' # {} => Exists(st, u)'
                                                     /\ ~enrollment'[st][u].current
  <2> SUFFICES ASSUME NEW u \in Terms
               PROVE  /\ enrollment'[st][u].current => Exists(st, u)'
                      /\ enrollment'[st][u].status = "PROMOTED" => Successors(st, u)' # {}
                      /\ Successors(st, u)' # {} => Exists(st, u)'
                                                   /\ ~enrollment'[st][u].current
    OBVIOUS
  <2>1. CASE u = t
    BY <1>1, <1>4, <1>5, <1>9, <2>1
  <2>2. CASE u = target
    BY <1>1, <1>4, <1>5, <1>7, <1>9, <2>2 DEF new
  <2>3. CASE u # t /\ u # target
    BY <1>4, <1>5, <1>9, <2>3 DEF IInv, Ordered
  <2>4. QED
    BY <2>1, <2>2, <2>3
<1>13. target \notin Place[st] \cup Past[st]
  BY <1>1 DEF Place, Past
<1>14. QED
  BY <1>8, <1>10, <1>11, <1>12, <1>13 DEF Ordered

\* A withdrawal closes a row and leaves the chain as it is.
LEMMA RowClosed ==
    ASSUME IInv, NEW st \in Students, NEW t \in Terms, Exists(st, t), InSchool(st)',
           Put(st, [enrollment[st] EXCEPT ![t].status = "WITHDRAWN",
                                          ![t].current = FALSE])
    PROVE  Ordered(st)' /\ Place'[st] = Place[st] /\ Past'[st] = Past[st]
<1>1. enrollment[st] \in [Terms -> Row]
  BY DEF IInv, TypeOK
<1>2. /\ enrollment'[st][t].status = "WITHDRAWN"
      /\ enrollment'[st][t].current = FALSE
      /\ enrollment'[st][t].from = enrollment[st][t].from
      /\ \A u \in Terms : u # t => enrollment'[st][u] = enrollment[st][u]
  BY <1>1 DEF Put, IInv, TypeOK, Row
<1>3. \A u \in Terms : Exists(st, u)' <=> Exists(st, u)
  BY <1>2 DEF Exists
<1>4. \A u \in Terms : Successors(st, u)' = Successors(st, u)
  BY <1>2, <1>3 DEF Successors
<1>5. Place'[st] = Place[st] /\ Past'[st] = Past[st]
  BY <1>3, <1>4 DEF Place, Past
<1>6. QED
  BY <1>2, <1>3, <1>4, <1>5 DEF IInv, Ordered

\* Deleting a student leaves no row.
LEMMA RowsDeleted ==
    ASSUME IInv, NEW st \in Students, Delete(st)
    PROVE  Ordered(st)' /\ Place'[st] = {} /\ Past'[st] = {}
<1>1. \A t \in Terms : enrollment'[st][t] = NoRow
  BY DEF Delete, Put, IInv, TypeOK
<1>2. \A t \in Terms : ~Exists(st, t)' /\ ~enrollment'[st][t].current
                       /\ enrollment'[st][t].status = "ABSENT"
  BY <1>1 DEF Exists, NoRow
<1>3. \A t \in Terms : Successors(st, t)' = {}
  BY <1>2 DEF Successors
<1>4. Place'[st] = {} /\ Past'[st] = {}
  BY <1>2 DEF Place, Past
<1>5. QED
  BY <1>2, <1>3, <1>4 DEF Ordered

---------------------------------------------------------------------------
(* What each step does to the tables.                                      *)

\* The tables are in order, and the chains moved as the abstract ones may.
Tables ==
    /\ person \in [Students -> Statuses \cup {"NEW", "GONE"}]
    /\ login \in [Students -> BOOLEAN]
    /\ enrollment \in [Students -> [Terms -> Row]]
    /\ \A st \in Students : Ordered(st)

ChainStep == Chain!Next \/ UNCHANGED <<Place, Past>>

\* A step that concerns one student.
LEMMA OneStudent ==
    ASSUME IInv, NEW st \in Students, Ordered(st)',
           \A x \in Students \ {st} : enrollment'[x] = enrollment[x] /\ person'[x] = person[x]
    PROVE  /\ \A x \in Students : Ordered(x)'
           /\ Place' = [Place EXCEPT ![st] = Place'[st]]
           /\ Past' = [Past EXCEPT ![st] = Past'[st]]
<1>1. ASSUME NEW x \in Students, x # st
      PROVE  Ordered(x)' /\ Place'[x] = Place[x] /\ Past'[x] = Past[x]
  <2>1. Ordered(x) /\ enrollment'[x] = enrollment[x] /\ (InSchool(x) => InSchool(x)')
    BY <1>1 DEF IInv, InSchool
  <2>2. QED
    BY <2>1, RowsKept
<1>2. \A x \in Students : Ordered(x)'
  BY <1>1
<1>3. /\ Place = [x \in Students |-> Place[x]] /\ Place' = [x \in Students |-> Place'[x]]
      /\ Past = [x \in Students |-> Past[x]] /\ Past' = [x \in Students |-> Past'[x]]
  BY DEF Place, Past
<1> HIDE DEF Place, Past
<1>4. QED
  BY <1>1, <1>2, <1>3

LEMMA NothingMoves ==
    ASSUME IInv, UNCHANGED dbVars
    PROVE  Tables' /\ ChainStep
BY DEF IInv, TypeOK, dbVars, Tables, ChainStep, Ordered, Place, Past, Exists,
       Successors, InSchool

LEMMA RegisterTables ==
    ASSUME IInv, NEW st \in Students, NEW t \in Terms, Register(st, t)
    PROVE  Tables' /\ ChainStep
<1>1. \A x \in Students \ {st} : enrollment'[x] = enrollment[x] /\ person'[x] = person[x]
  BY DEF Register, Put, IInv, TypeOK
<1>2. /\ \A x \in Students : Ordered(x)'
      /\ Place' = [Place EXCEPT ![st] = {t}] /\ Past' = [Past EXCEPT ![st] = {}]
      /\ Place[st] = {} /\ Past[st] = {}
  BY <1>1, RowOpened, OneStudent
<1>3. [status |-> "ENROLLED", current |-> TRUE, from |-> None] \in Row
  BY DEF Row
<1>4. Tables'
  BY <1>2, <1>3 DEF Tables, Register, Put, IInv, TypeOK, Statuses
<1>5. Past' = Past
  BY <1>2 DEF Past
<1>6. Chain!Admit(st, t)
  BY <1>2, <1>5 DEF Chain!Admit
<1>7. QED
  BY <1>4, <1>6 DEF ChainStep, Chain!Next

LEMMA StatusTables ==
    ASSUME IInv, NEW st \in Students, NEW status \in Statuses, UpdateStatus(st, status)
    PROVE  Tables' /\ ChainStep
<1>1. /\ enrollment' = enrollment
      /\ \A x \in Students : InSchool(x) => InSchool(x)'
  BY DEF UpdateStatus, InSchool, IInv, TypeOK
<1>2. \A x \in Students : Ordered(x)'
  BY <1>1, RowsKept DEF IInv
<1>3. Place' = Place /\ Past' = Past
  BY <1>1 DEF Place, Past, Exists, Successors
<1>4. Tables'
  BY <1>1, <1>2 DEF Tables, UpdateStatus, IInv, TypeOK
<1>5. QED
  BY <1>3, <1>4 DEF ChainStep

LEMMA DeleteTables ==
    ASSUME IInv, NEW st \in Students, Delete(st)
    PROVE  Tables' /\ ChainStep
<1>1. \A x \in Students \ {st} : enrollment'[x] = enrollment[x] /\ person'[x] = person[x]
  BY DEF Delete, Put, IInv, TypeOK
<1>2. /\ \A x \in Students : Ordered(x)'
      /\ Place' = [Place EXCEPT ![st] = {}] /\ Past' = [Past EXCEPT ![st] = {}]
  BY <1>1, RowsDeleted, OneStudent
<1>3. NoRow \in Row
  BY DEF NoRow, Row
<1>4. Tables'
  BY <1>2, <1>3 DEF Tables, Delete, Put, IInv, TypeOK
<1>5. Chain!Erase(st)
  BY <1>2 DEF Chain!Erase
<1>6. QED
  BY <1>4, <1>5 DEF ChainStep, Chain!Next

LEMMA PromoteTables ==
    ASSUME IInv, NEW st \in Students, NEW t \in Terms, NEW target \in Terms,
           Promote(st, t, target)
    PROVE  Tables' /\ ChainStep
<1>1. \A x \in Students \ {st} : enrollment'[x] = enrollment[x] /\ person'[x] = person[x]
  BY DEF Promote, Put, IInv, TypeOK
<1>2. /\ \A x \in Students : Ordered(x)'
      /\ Place' = [Place EXCEPT ![st] = {target}]
      /\ Past' = [Past EXCEPT ![st] = Past[st] \cup {t}]
      /\ Place[st] = {t} /\ target \notin Place[st] \cup Past[st]
  BY <1>1, RowPromoted, OneStudent
<1>3. enrollment' \in [Students -> [Terms -> Row]]
  <2>1. enrollment[st] \in [Terms -> Row]
    BY DEF IInv, TypeOK
  <2> DEFINE rows == [enrollment[st] EXCEPT
                        ![t].status = "PROMOTED", ![t].current = FALSE,
                        ![target] = [status |-> "ENROLLED", current |-> TRUE, from |-> t]]
  <2>2. rows \in [Terms -> Row]
    BY <2>1 DEF Row
  <2> HIDE DEF rows
  <2>3. enrollment' = [enrollment EXCEPT ![st] = rows]
    BY DEF Promote, Put, rows
  <2>4. QED
    BY <2>2, <2>3 DEF IInv, TypeOK
<1>4. Tables'
  BY <1>2, <1>3 DEF Tables, Promote, IInv, TypeOK
<1>5. Chain!Move(st, target)
  BY <1>2 DEF Chain!Move
<1>6. QED
  BY <1>4, <1>5 DEF ChainStep, Chain!Next

LEMMA WithdrawTables ==
    ASSUME IInv, NEW s \in Slots, NEW st \in Students, CommitWithdraw(s, st)
    PROVE  Tables' /\ ChainStep
<1> DEFINE t == request[s].seen[st]
           rows == [enrollment[st] EXCEPT ![t].status = "WITHDRAWN", ![t].current = FALSE]
<1>1. t \in Terms /\ Exists(st, t) /\ Put(st, rows)
  BY DEF CommitWithdraw, IInv, Asked
<1>2. InSchool(st)'
  BY DEF CommitWithdraw, InSchool, Statuses, IInv, TypeOK
<1>3. \A x \in Students \ {st} : enrollment'[x] = enrollment[x] /\ person'[x] = person[x]
  BY DEF CommitWithdraw, Put, IInv, TypeOK
<1>4. /\ \A x \in Students : Ordered(x)'
      /\ Place' = [Place EXCEPT ![st] = Place[st]] /\ Past' = [Past EXCEPT ![st] = Past[st]]
  BY <1>1, <1>2, <1>3, RowClosed, OneStudent
<1>5. Place' = Place /\ Past' = Past
  BY <1>4 DEF Place, Past
<1>6. rows \in [Terms -> Row]
  <2>1. enrollment[st] \in [Terms -> Row]
    BY DEF IInv, TypeOK
  <2>2. enrollment[st][t] \in Row
    BY <1>1, <2>1
  <2>3. [enrollment[st][t] EXCEPT !.status = "WITHDRAWN", !.current = FALSE] \in Row
    BY <2>2 DEF Row
  <2> HIDE DEF t
  <2> QED
    BY <1>1, <2>1, <2>3
<1> HIDE DEF rows
<1>7. Tables'
  BY <1>1, <1>4, <1>6 DEF Tables, CommitWithdraw, Put, IInv, TypeOK, Statuses
<1>8. QED
  BY <1>5, <1>7 DEF ChainStep

---------------------------------------------------------------------------
(* What each step does to the requests.                                    *)

Requests == request \in [Slots -> Request] /\ \A s \in Slots : Asked(s)

LEMMA SlotStep ==
    ASSUME IInv, NEW s \in Slots, NEW q \in Request,
           request' = [request EXCEPT ![s] = q], Asked(s)'
    PROVE  Requests'
<1>1. request'[s] = q /\ \A x \in Slots \ {s} : request'[x] = request[x]
  BY DEF IInv, TypeOK
<1>2. \A x \in Slots : Asked(x)'
  BY <1>1 DEF IInv, Asked
<1>3. QED
  BY <1>2 DEF Requests, IInv, TypeOK

LEMMA Releases ==
    ASSUME IInv, NEW s \in Slots, Release(s)
    PROVE  Requests'
<1>1. Idle \in Request
  BY DEF Idle, Request
<1>2. request'[s] = Idle
  BY DEF Release, IInv, TypeOK
<1>3. Asked(s)'
  BY <1>2 DEF Asked, Idle
<1>4. QED
  BY <1>1, <1>3, SlotStep DEF Release

LEMMA Enters ==
    ASSUME IInv, NEW s \in Slots, NEW op \in {"PROMOTE", "BULK", "WITHDRAW"},
           NEW target \in Terms \cup {None}, NEW students \in SUBSET Students,
           NEW seen \in [Students -> Terms \cup {None}],
           Enter(s, op, target, students, seen),
           op \in {"PROMOTE", "BULK"} => target \in Terms,
           op \in {"PROMOTE", "WITHDRAW"} => \A st \in students : seen[st] \in Terms
    PROVE  Requests'
<1> DEFINE q == [op |-> op, target |-> target, students |-> students, seen |-> seen]
<1>1. q \in Request
  BY DEF Request
<1>2. request' = [request EXCEPT ![s] = q]
  BY DEF Enter
<1>3. request'[s] = q
  BY <1>2 DEF IInv, TypeOK
<1>4. Asked(s)'
  BY <1>3 DEF Asked
<1>5. QED
  BY <1>1, <1>2, <1>4, SlotStep

LEMMA Reads ==
    ASSUME IInv, NEW s \in Slots, Read(s)
    PROVE  Requests' /\ UNCHANGED dbVars
<1>1. ASSUME NEW st \in Students, NEW t \in Terms
      PROVE  See(st, t) \in [Students -> Terms \cup {None}] /\ See(st, t)[st] \in Terms
  BY DEF See, Idle
<1>2. ASSUME NEW st \in Students, NEW t \in Terms, NEW target \in Terms,
             ReadPromote(s, st, t, target)
      PROVE  Requests' /\ UNCHANGED dbVars
  <2>1. Enter(s, "PROMOTE", target, {st}, See(st, t))
    BY <1>2 DEF ReadPromote
  <2>2. UNCHANGED dbVars
    BY <2>1 DEF Enter
  <2>3. /\ {st} \in SUBSET Students /\ See(st, t) \in [Students -> Terms \cup {None}]
        /\ \A x \in {st} : See(st, t)[x] \in Terms
    BY <1>1
  <2>4. QED
    BY <2>1, <2>2, <2>3, Enters
<1>3. ASSUME NEW st \in Students, NEW t \in Terms, ReadWithdraw(s, st, t)
      PROVE  Requests' /\ UNCHANGED dbVars
  <2>1. Enter(s, "WITHDRAW", None, {st}, See(st, t))
    BY <1>3 DEF ReadWithdraw
  <2>2. UNCHANGED dbVars
    BY <2>1 DEF Enter
  <2>3. /\ {st} \in SUBSET Students /\ See(st, t) \in [Students -> Terms \cup {None}]
        /\ \A x \in {st} : See(st, t)[x] \in Terms
    BY <1>1
  <2>4. QED
    BY <2>1, <2>2, <2>3, Enters
<1>4. ASSUME NEW students \in SUBSET Students, NEW target \in Terms,
             NEW seen \in [Students -> Terms \cup {None}],
             ReadBulkPromote(s, students, target, seen)
      PROVE  Requests' /\ UNCHANGED dbVars
  <2>1. Enter(s, "BULK", target, students, seen)
    BY <1>4 DEF ReadBulkPromote
  <2>2. QED
    BY <2>1, Enters DEF Enter
<1>5. QED
  BY <1>2, <1>3, <1>4 DEF Read

LEMMA BulkSteps ==
    ASSUME IInv, NEW s \in Slots, NEW st \in Students, BulkStep(s, st)
    PROVE  Requests' /\ Tables' /\ ChainStep
<1> DEFINE q == request[s]
           rest == IF q.students = {st} THEN Idle ELSE [q EXCEPT !.students = @ \ {st}]
<1>1. q \in Request /\ Asked(s) /\ q.op = "BULK"
  BY DEF IInv, TypeOK, BulkStep
<1>2. rest \in Request
  BY <1>1 DEF Request, Idle
<1>3. rest.op \in {"BULK", "NONE"} /\ (rest.op = "BULK" => rest.target \in Terms)
  BY <1>1 DEF Asked, Idle, Request
<1>4. request' = [request EXCEPT ![s] = rest]
  BY DEF BulkStep
<1> HIDE DEF rest
<1>5. request'[s] = rest
  BY <1>4 DEF IInv, TypeOK
<1>6. Asked(s)'
  BY <1>3, <1>5 DEF Asked
<1>7. Requests'
  BY <1>2, <1>4, <1>6, SlotStep
<1>8. Tables' /\ ChainStep
  <2>1. CASE q.seen[st] # None /\ Promote(st, q.seen[st], q.target)
    <3>1. q.seen[st] \in Terms /\ q.target \in Terms
      BY <1>1, <2>1 DEF Request, Asked
    <3>2. QED
      BY <2>1, <3>1, PromoteTables
  <2>2. CASE UNCHANGED dbVars
    BY <2>2, NothingMoves
  <2>3. QED
    BY <2>1, <2>2 DEF BulkStep
<1>9. QED
  BY <1>7, <1>8

\* Every step keeps the tables and the requests in order and moves the chains as
\* the abstract specification allows.
LEMMA EveryStep ==
    ASSUME IInv, Next
    PROVE  Tables' /\ Requests' /\ ChainStep
<1>1. ASSUME request' = request
      PROVE  Requests'
  BY <1>1 DEF IInv, TypeOK, Requests, Asked
<1>2. CASE Administer
  BY <1>1, <1>2, RegisterTables, StatusTables, DeleteTables
  DEF Administer, Register, UpdateStatus, Delete
<1>3. ASSUME NEW s \in Slots, Read(s)
      PROVE  Tables' /\ Requests' /\ ChainStep
  BY <1>3, Reads, NothingMoves
<1>4. ASSUME NEW s \in Slots, Fail(s)
      PROVE  Tables' /\ Requests' /\ ChainStep
  BY <1>4, Releases, NothingMoves DEF Fail
<1>5. ASSUME NEW s \in Slots, NEW st \in Students, CommitPromote(s, st)
      PROVE  Tables' /\ Requests' /\ ChainStep
  <2>1. request[s].seen[st] \in Terms /\ request[s].target \in Terms
    BY <1>5 DEF CommitPromote, IInv, Asked
  <2>2. QED
    BY <1>5, <2>1, PromoteTables, Releases DEF CommitPromote
<1>6. ASSUME NEW s \in Slots, NEW st \in Students, CommitWithdraw(s, st)
      PROVE  Tables' /\ Requests' /\ ChainStep
  BY <1>6, WithdrawTables, Releases DEF CommitWithdraw
<1>7. QED
  BY <1>2, <1>3, <1>4, <1>5, <1>6, BulkSteps DEF Next, WriteBack

LEMMA Invariance == Spec => []IInv
<1>1. Init => IInv
  <2> SUFFICES ASSUME Init PROVE IInv
    OBVIOUS
  <2>1. TypeOK
    BY DEF Init, TypeOK, NoRow, Row, Idle, Request
  <2>2. \A st \in Students : \A t \in Terms : enrollment[st][t] = NoRow
    BY DEF Init
  <2>3. \A st \in Students : \A t \in Terms : ~Exists(st, t) /\ Successors(st, t) = {}
    BY <2>2 DEF Exists, Successors, NoRow
  <2>4. ASSUME NEW st \in Students
        PROVE  Ordered(st)
    <3>1. Place[st] = {}
      BY <2>3 DEF Place
    <3>2. \A t \in Terms : ~enrollment[st][t].current
                            /\ enrollment[st][t].status = "ABSENT"
      BY <2>2 DEF NoRow
    <3>3. QED
      BY <2>3, <3>1, <3>2 DEF Ordered
  <2>5. \A s \in Slots : Asked(s)
    BY DEF Init, Asked, Idle
  <2>6. QED
    BY <2>1, <2>4, <2>5 DEF IInv
<1>2. IInv /\ [Next]_vars => IInv'
  <2>1. ASSUME IInv, UNCHANGED vars
        PROVE  IInv'
    BY <2>1, NothingMoves DEF vars, dbVars, Tables, IInv, TypeOK, Asked
  <2>2. ASSUME IInv, Next
        PROVE  IInv'
    BY <2>2, EveryStep DEF IInv, TypeOK, Tables, Requests
  <2>3. QED
    BY <2>1, <2>2
<1>3. QED
  BY <1>1, <1>2, PTL DEF Spec

---------------------------------------------------------------------------
(* The theorems.                                                           *)

\* Every column and every request in flight keeps its type.
THEOREM TypeCorrect == Spec => []TypeOK
<1>1. IInv => TypeOK
  BY DEF IInv
<1>2. QED
  BY <1>1, Invariance, PTL

\* No interleaving of promotions, bulk promotions and withdrawals puts a student in
\* two classes at once.
THEOREM OneClassAtATime == Spec => []AtMostOneCurrent
<1>1. IInv => AtMostOneCurrent
  <2> SUFFICES ASSUME IInv, NEW st \in Students, NEW t \in Current(st), NEW u \in Current(st)
               PROVE  t = u
    BY DEF AtMostOneCurrent
  <2>1. t \in Terms /\ u \in Terms /\ enrollment[st][t].current /\ enrollment[st][u].current
    BY DEF Current
  <2>2. t \in Place[st] /\ u \in Place[st]
    BY <2>1 DEF IInv, Ordered, Place
  <2>3. QED
    BY <2>2 DEF IInv, Ordered
<1>2. QED
  BY <1>1, Invariance, PTL

\* A promoted enrollment always has the successor it was promoted to, and what a
\* successor names is on record and closed.
THEOREM HistoryLinked == Spec => []LinkedHistory
<1>1. IInv => LinkedHistory
  BY DEF IInv, Ordered, LinkedHistory
<1>2. QED
  BY <1>1, Invariance, PTL

\* Every interleaving moves every student along one chain of enrollments.
THEOREM ChainImplemented == Spec => ImplementsChain
<1>1. Init => Chain!Init
  <2> SUFFICES ASSUME Init PROVE Chain!Init
    OBVIOUS
  <2>1. \A st \in Students : \A t \in Terms : ~Exists(st, t)
    BY DEF Init, Exists, NoRow
  <2>2. QED
    BY <2>1 DEF Chain!Init, Place, Past
<1>2. IInv /\ [Next]_vars => [Chain!Next]_(Chain!vars)
  <2>1. ASSUME IInv, Next
        PROVE  Chain!Next \/ UNCHANGED Chain!vars
    BY <2>1, EveryStep DEF ChainStep, Chain!vars
  <2>2. ASSUME IInv, UNCHANGED vars
        PROVE  Chain!Next \/ UNCHANGED Chain!vars
    BY <2>2, NothingMoves DEF vars, dbVars, ChainStep, Chain!vars
  <2>3. QED
    BY <2>1, <2>2
<1>3. QED
  BY <1>1, <1>2, Invariance, PTL DEF Spec, ImplementsChain, Chain!Spec

\* An account is open exactly while its student is active.
THEOREM LoginCorrect == Spec => []LoginFollowsStatus
<1>1. Init => LoginFollowsStatus
  BY DEF Init, LoginFollowsStatus
<1>2. IInv /\ LoginFollowsStatus /\ [Next]_vars => LoginFollowsStatus'
  <2>1. ASSUME IInv, LoginFollowsStatus, UNCHANGED <<person, login>>
        PROVE  LoginFollowsStatus'
    BY <2>1 DEF LoginFollowsStatus
  <2>2. ASSUME IInv, LoginFollowsStatus, NEW st \in Students, NEW status \in BOOLEAN,
               NEW new, (new = "ACTIVE") = status,
               person' = [person EXCEPT ![st] = new], login' = [login EXCEPT ![st] = status]
        PROVE  LoginFollowsStatus'
    BY <2>2 DEF LoginFollowsStatus, IInv, TypeOK
  <2>3. ASSUME IInv, LoginFollowsStatus, Administer
        PROVE  LoginFollowsStatus'
    BY <2>2, <2>3 DEF Administer, Register, UpdateStatus, Delete
  <2>4. ASSUME IInv, LoginFollowsStatus, NEW s \in Slots, NEW st \in Students,
               CommitWithdraw(s, st)
        PROVE  LoginFollowsStatus'
    BY <2>2, <2>4 DEF CommitWithdraw
  <2>5. ASSUME NEW s \in Slots, NEW st \in Students,
               CommitPromote(s, st) \/ BulkStep(s, st) \/ Read(s) \/ Fail(s)
        PROVE  UNCHANGED <<person, login>>
    BY <2>5 DEF CommitPromote, BulkStep, Promote, dbVars, Read, ReadPromote,
                ReadBulkPromote, ReadWithdraw, Enter, Fail
  <2>6. ASSUME NEW s \in Slots, Read(s) \/ Fail(s)
        PROVE  UNCHANGED <<person, login>>
    BY <2>6 DEF dbVars, Read, ReadPromote, ReadBulkPromote, ReadWithdraw, Enter, Fail
  <2>7. QED
    BY <2>1, <2>3, <2>4, <2>5, <2>6 DEF Next, WriteBack, vars
<1>3. QED
  BY <1>1, <1>2, Invariance, PTL DEF Spec

---------------------------------------------------------------------------
(* What hangs on the enrollments.  The requests of SchoolRecords leave the *)
(* tables of Enrollment alone or take one of its steps, so all of the      *)
(* above holds of them too.                                                *)

LEMMA RecordsStep == [RecordsNext]_allVars => [Next]_vars
BY DEF RecordsNext, Enroll, Organize, Check, Settle, CreateClass, DeleteClass, CreateSection,
       UpdateClass, SetSection, LinkParents, ReadSheet, ReadUnlink, ReadDrop, Take,
       CommitSheet, CommitUnlink, CommitDrop, FailTask, allVars

\* Beside classes, attendance and parents, the enrollments still behave as specified.
THEOREM RecordsKeepEnrollments == RecordsSpec => Spec
<1>1. RecordsInit => Init
  BY DEF RecordsInit
<1>2. QED
  BY <1>1, RecordsStep, PTL DEF RecordsSpec, Spec

\* A student who has come does not come again, one who has gone does not come back,
\* and only one who goes loses an enrollment.
LEMMA Lasting ==
    ASSUME IInv, [Next]_vars, NEW st \in Students
    PROVE  /\ person[st] # "NEW" => person'[st] # "NEW"
           /\ person[st] = "GONE" => person'[st] = "GONE"
           /\ person'[st] = "GONE" \/ \A t \in Terms : Exists(st, t) => Exists(st, t)'
<1> DEFINE Lasts ==
      /\ person[st] # "NEW" => person'[st] # "NEW"
      /\ person[st] = "GONE" => person'[st] = "GONE"
      /\ person'[st] = "GONE" \/ \A t \in Terms : Exists(st, t) => Exists(st, t)'
<1> SUFFICES Lasts
  OBVIOUS
<1>1. CASE UNCHANGED dbVars
  BY <1>1 DEF dbVars, Exists
<1>2. ASSUME NEW x \in Students, NEW t \in Terms, Register(x, t)
      PROVE  Lasts
  <2>1. enrollment' = [enrollment EXCEPT ![x] = [enrollment[x] EXCEPT
            ![t] = [status |-> "ENROLLED", current |-> TRUE, from |-> None]]]
    BY <1>2 DEF Register, Put
  <2>2. enrollment[x] \in [Terms -> Row]
    BY DEF IInv, TypeOK
  <2>3. \A u \in Terms : Exists(st, u) => Exists(st, u)'
    BY <2>1, <2>2 DEF Exists, IInv, TypeOK
  <2>4. QED
    BY <1>2, <2>3 DEF Register, IInv, TypeOK
<1>3. ASSUME NEW x \in Students, NEW status \in Statuses, UpdateStatus(x, status)
      PROVE  Lasts
  BY <1>3 DEF UpdateStatus, Statuses, InSchool, IInv, TypeOK, Exists
<1>4. ASSUME NEW x \in Students, Delete(x)
      PROVE  Lasts
  BY <1>4 DEF Delete, Put, IInv, TypeOK, Exists
<1>5. ASSUME NEW x \in Students, NEW t \in Terms, NEW target \in Terms, Promote(x, t, target)
      PROVE  Lasts
  <2>1. enrollment' = [enrollment EXCEPT ![x] = [enrollment[x] EXCEPT
            ![t].status = "PROMOTED", ![t].current = FALSE,
            ![target] = [status |-> "ENROLLED", current |-> TRUE, from |-> t]]]
    BY <1>5 DEF Promote, Put
  <2>2. enrollment[x] \in [Terms -> Row]
    BY DEF IInv, TypeOK
  <2>3. \A u \in Terms : Exists(x, u) => Exists(x, u)'
    BY <2>1, <2>2 DEF Exists, IInv, TypeOK, Row
  <2>4. x # st => enrollment'[st] = enrollment[st]
    BY <2>1 DEF IInv, TypeOK
  <2>5. QED
    BY <1>5, <2>3, <2>4 DEF Promote, Exists
<1>6. ASSUME NEW s \in Slots, NEW x \in Students, CommitWithdraw(s, x)
      PROVE  Lasts
  <2> DEFINE t == request[s].seen[x]
  <2>1. t \in Terms /\ Exists(x, t)
    BY <1>6 DEF CommitWithdraw, IInv, Asked
  <2>2. person[x] \in Statuses
    BY <2>1 DEF IInv, Ordered, InSchool
  <2>3. enrollment' = [enrollment EXCEPT ![x] =
            [enrollment[x] EXCEPT ![t].status = "WITHDRAWN", ![t].current = FALSE]]
    BY <1>6 DEF CommitWithdraw, Put
  <2>4. enrollment[x] \in [Terms -> Row]
    BY DEF IInv, TypeOK
  <2> HIDE DEF t
  <2>5. \A u \in Terms : Exists(x, u) => Exists(x, u)'
    BY <2>1, <2>3, <2>4 DEF Exists, IInv, TypeOK, Row
  <2>6. x # st => enrollment'[st] = enrollment[st]
    BY <2>3 DEF IInv, TypeOK
  <2>7. person' = [person EXCEPT ![x] = "INACTIVE"]
    BY <1>6 DEF CommitWithdraw
  <2>8. QED
    BY <2>2, <2>5, <2>6, <2>7 DEF Statuses, Exists, IInv, TypeOK
<1>7. ASSUME NEW s \in Slots, NEW x \in Students, CommitPromote(s, x)
      PROVE  Lasts
  <2>1. request[s].seen[x] \in Terms /\ request[s].target \in Terms
    BY <1>7 DEF CommitPromote, IInv, Asked
  <2>2. QED
    BY <1>5, <1>7, <2>1 DEF CommitPromote
<1>8. ASSUME NEW s \in Slots, NEW x \in Students, BulkStep(s, x)
      PROVE  Lasts
  <2>1. CASE request[s].seen[x] # None /\ Promote(x, request[s].seen[x], request[s].target)
    <3>1. request[s] \in Request /\ Asked(s) /\ request[s].op = "BULK"
      BY <1>8 DEF IInv, TypeOK, BulkStep
    <3>2. request[s].seen[x] \in Terms /\ request[s].target \in Terms
      BY <2>1, <3>1 DEF Request, Asked
    <3>3. QED
      BY <1>5, <2>1, <3>2
  <2>2. QED
    BY <1>1, <1>8, <2>1 DEF BulkStep
<1>9. ASSUME NEW s \in Slots, Read(s) \/ Fail(s)
      PROVE  Lasts
  BY <1>1, <1>9, Reads DEF Fail
<1> HIDE DEF Lasts
<1>10. QED
  BY <1>1, <1>2, <1>3, <1>4, <1>6, <1>7, <1>8, <1>9
  DEF Next, Administer, WriteBack, vars, dbVars

---------------------------------------------------------------------------
(* The invariant of the composed specification.                            *)

\* Whoever a request is about to put on a sheet has been enrolled in its class, or is
\* no longer in the school.
Late(s) ==
    task[s].op = "SHEET" => \A st \in task[s].students :
        \/ person[st] = "GONE"
        \/ \E t \in Terms : Exists(st, t) /\ ClassOf[t] = task[s].sheet[1]

\* One removal at a time leaves a parent, and is for a student who has come.
Guarded(st) ==
    /\ Unlinking(st) # {} => person[st] # "NEW"
    /\ InSchool(st) /\ st \notin overlapped =>
        /\ guardians[st] # {}
        /\ \A s \in Unlinking(st) :
            Unlinking(st) = {s} /\ guardians[st] \ {task[s].parent} # {}

\* The same for the sections of a class.
Divided(c) ==
    /\ Dropping(c) # {} => unit[c][0] # "NEW"
    /\ Open(c, 0) /\ c \notin overlapped =>
        /\ Sections(c) # {}
        /\ \A s \in Dropping(c) :
            Dropping(c) = {s} /\ Sections(c) \ {task[s].section} # {}

RInv ==
    /\ IInv
    /\ RecordsTypeOK
    /\ EntriesAreEnrolled
    /\ \A s \in Clerks : Late(s)
    /\ \A st \in Students : Guarded(st)
    /\ \A c \in Classes : Divided(c)

\* What a step may do to the task of one clerk.
LEMMA TaskStep ==
    ASSUME RecordsTypeOK, NEW s \in Clerks, NEW what \in Tasks,
           task' = [task EXCEPT ![s] = what]
    PROVE  /\ task' \in [Clerks -> Tasks]
           /\ task'[s] = what
           /\ \A r \in Clerks \ {s} : task'[r] = task[r]
BY DEF RecordsTypeOK

LEMMA TypeStep ==
    ASSUME RecordsTypeOK, RecordsNext
    PROVE  RecordsTypeOK'
<1>1. 0 \in Rooms /\ NoTask \in Tasks
  BY RecordsAssumption DEF Tasks, Rooms
<1>2. CASE Enroll
  <2>1. PICK k \in Rooms, parents \in SUBSET Parents : Follow(k, parents)
    BY <1>2 DEF Enroll
  <2>2. seat' \in [Students -> [Terms -> Rooms]]
    BY <1>1, <2>1 DEF Follow, RecordsTypeOK
  <2>3. guardians' \in [Students -> SUBSET Parents]
    BY <2>1 DEF Follow, RecordsTypeOK
  <2>4. entries' \in [Classes -> [Rooms -> SUBSET Students]]
    BY <2>1 DEF Follow, RecordsTypeOK
  <2>5. QED
    BY <2>1, <2>2, <2>3, <2>4 DEF Follow, RecordsTypeOK
<1>3. ASSUME NEW c \in Classes, NEW n \in Rooms, CreateClass(c, n)
      PROVE  RecordsTypeOK'
  BY <1>3 DEF CreateClass, RecordsTypeOK
<1>4. ASSUME NEW c \in Classes, DeleteClass(c)
      PROVE  RecordsTypeOK'
  BY <1>4 DEF DeleteClass, RecordsTypeOK
<1>5. ASSUME NEW c \in Classes, NEW k \in Rooms, CreateSection(c, k)
      PROVE  RecordsTypeOK'
  BY <1>5 DEF CreateSection, RecordsTypeOK
<1>6. ASSUME NEW c \in Classes, NEW listed \in SUBSET Rooms, UpdateClass(c, listed)
      PROVE  RecordsTypeOK'
  <2>1. seat' \in [Students -> [Terms -> Rooms]]
    BY <1>1, <1>6 DEF UpdateClass, Unseat, RecordsTypeOK
  <2>2. unit' \in [Classes -> [Rooms -> {"NEW", "OPEN", "GONE"}]]
    BY <1>6 DEF UpdateClass, RecordsTypeOK
  <2>3. QED
    BY <1>6, <2>1, <2>2 DEF UpdateClass, RecordsTypeOK
<1>7. ASSUME NEW st \in Students, NEW t \in Terms, NEW k \in Rooms, SetSection(st, t, k)
      PROVE  RecordsTypeOK'
  BY <1>7 DEF SetSection, RecordsTypeOK
<1>8. ASSUME NEW st \in Students, NEW parents \in SUBSET Parents, LinkParents(st, parents)
      PROVE  RecordsTypeOK'
  BY <1>8 DEF LinkParents, RecordsTypeOK
<1>9. ASSUME NEW s \in Clerks, NEW c \in Classes, NEW k \in Rooms,
             NEW students \in SUBSET Students, ReadSheet(s, c, k, students)
      PROVE  RecordsTypeOK'
  <2>1. [op |-> "SHEET", sheet |-> <<c, k>>, students |-> students] \in Tasks
    BY DEF Tasks, Sheets
  <2>2. QED
    BY <1>9, <2>1 DEF ReadSheet, Take, RecordsTypeOK
<1>10. ASSUME NEW s \in Clerks, NEW st \in Students, NEW p \in Parents, ReadUnlink(s, st, p)
       PROVE  RecordsTypeOK'
  <2>1. [op |-> "UNLINK", student |-> st, parent |-> p] \in Tasks
    BY DEF Tasks
  <2>2. QED
    BY <1>10, <2>1 DEF ReadUnlink, Take, RecordsTypeOK
<1>11. ASSUME NEW s \in Clerks, NEW c \in Classes, NEW k \in Rooms, ReadDrop(s, c, k)
       PROVE  RecordsTypeOK'
  <2>1. [op |-> "DROP", class |-> c, section |-> k] \in Tasks
    BY DEF Tasks
  <2>2. QED
    BY <1>11, <2>1 DEF ReadDrop, Take, RecordsTypeOK
<1>12. ASSUME NEW s \in Clerks, NEW c \in Classes, NEW k \in Rooms, CommitSheet(s, c, k)
       PROVE  RecordsTypeOK'
  <2>1. task[s].students \in SUBSET Students
    BY <1>12 DEF CommitSheet, RecordsTypeOK, Tasks, NoTask
  <2>2. QED
    BY <1>1, <1>12, <2>1 DEF CommitSheet, Finish, RecordsTypeOK, Sheets
<1>13. ASSUME NEW s \in Clerks, NEW st \in Students, CommitUnlink(s, st)
       PROVE  RecordsTypeOK'
  BY <1>1, <1>13 DEF CommitUnlink, Finish, RecordsTypeOK
<1>14. ASSUME NEW s \in Clerks, NEW c \in Classes, CommitDrop(s, c)
       PROVE  RecordsTypeOK'
  <2>1. seat' \in [Students -> [Terms -> Rooms]]
    BY <1>1, <1>14 DEF CommitDrop, Unseat, RecordsTypeOK
  <2>2. unit' \in [Classes -> [Rooms -> {"NEW", "OPEN", "GONE"}]]
    BY <1>14 DEF CommitDrop, RecordsTypeOK
  <2>3. QED
    BY <1>1, <1>14, <2>1, <2>2 DEF CommitDrop, Finish, RecordsTypeOK
<1>15. ASSUME NEW s \in Clerks, FailTask(s)
       PROVE  RecordsTypeOK'
  BY <1>1, <1>15 DEF FailTask, Finish, RecordsTypeOK
<1>16. QED
  BY <1>2, <1>3, <1>4, <1>5, <1>6, <1>7, <1>8, <1>9, <1>10, <1>11, <1>12, <1>13, <1>14, <1>15
  DEF RecordsNext, Organize, Check, Settle

\* A row of the enrollment that an entry needs.
LEMMA EntryHasRow ==
    ASSUME RInv, NEW c \in Classes, NEW k \in Rooms, NEW st \in entries[c][k]
    PROVE  /\ st \in Students /\ person[st] # "GONE"
           /\ \E t \in Terms : Exists(st, t) /\ ClassOf[t] = c
<1>1. st \in Students
  BY DEF RInv, RecordsTypeOK
<1>2. PICK t \in Terms : Exists(st, t) /\ ClassOf[t] = c
  BY DEF RInv, EntriesAreEnrolled
<1>3. person[st] # "GONE"
  BY <1>1, <1>2 DEF RInv, IInv, Ordered, InSchool, Statuses
<1>4. QED
  BY <1>1, <1>2, <1>3

\* Every step keeps the entries true, and loses one only with the student or to a save.
LEMMA SheetStep ==
    ASSUME RInv, RecordsNext
    PROVE  /\ EntriesAreEnrolled' /\ \A s \in Clerks : Late(s)'
           /\ \A c \in Classes, k \in Rooms : \A st \in entries[c][k] :
                \/ st \in entries'[c][k]
                \/ Leaves(st)
                \/ \E s \in Clerks : task[s].op = "SHEET" /\ task[s].sheet = <<c, k>>
                                     /\ task'[s] = NoTask
<1> DEFINE Kept == \A c \in Classes, k \in Rooms : \A st \in entries[c][k] :
                      \/ st \in entries'[c][k]
                      \/ Leaves(st)
                      \/ \E s \in Clerks : task[s].op = "SHEET" /\ task[s].sheet = <<c, k>>
                                           /\ task'[s] = NoTask
           Good == EntriesAreEnrolled' /\ (\A s \in Clerks : Late(s)') /\ Kept
<1> SUFFICES Good
  OBVIOUS
<1>1. RecordsTypeOK /\ EntriesAreEnrolled /\ \A s \in Clerks : Late(s)
  BY DEF RInv
<1>2. CASE Enroll
  <2>1. PICK k \in Rooms, parents \in SUBSET Parents : Follow(k, parents)
    BY <1>2 DEF Enroll
  <2>2. IInv /\ [Next]_vars
    BY <1>2 DEF Enroll, RInv
  <2>3. \A st \in Students :
            /\ person[st] = "GONE" => person'[st] = "GONE"
            /\ person'[st] = "GONE" \/ \A t \in Terms : Exists(st, t) => Exists(st, t)'
    BY <2>2, Lasting
  <2>4. task' = task
    BY <2>1 DEF Follow
  <2>5. \A c \in Classes, r \in Rooms :
            entries'[c][r] = {st \in entries[c][r] : ~Leaves(st)}
    BY <2>1 DEF Follow
  <2>6. ASSUME NEW s \in Clerks, task[s].op = "SHEET", NEW st \in task[s].students
        PROVE  \/ person'[st] = "GONE"
               \/ \E t \in Terms : Exists(st, t)' /\ ClassOf[t] = task[s].sheet[1]
    <3>1. st \in Students
      BY <1>1, <2>6 DEF RecordsTypeOK, Tasks, NoTask
    <3>2. \/ person[st] = "GONE"
          \/ \E t \in Terms : Exists(st, t) /\ ClassOf[t] = task[s].sheet[1]
      BY <1>1, <2>6 DEF Late
    <3>3. QED
      BY <2>3, <3>1, <3>2
  <2>7. \A s \in Clerks : Late(s)'
    BY <2>4, <2>6 DEF Late
  <2>8. EntriesAreEnrolled'
    <3> SUFFICES ASSUME NEW c \in Classes, NEW r \in Rooms, NEW st \in entries'[c][r]
                 PROVE  \E t \in Terms : Exists(st, t)' /\ ClassOf[t] = c
      BY DEF EntriesAreEnrolled
    <3>1. st \in entries[c][r] /\ ~Leaves(st)
      BY <2>5
    <3>2. /\ st \in Students /\ person[st] # "GONE"
          /\ \E t \in Terms : Exists(st, t) /\ ClassOf[t] = c
      BY <3>1, EntryHasRow
    <3>3. person'[st] # "GONE"
      BY <3>1, <3>2 DEF Leaves
    <3>4. QED
      BY <2>3, <3>2, <3>3
  <2>9. QED
    BY <2>5, <2>7, <2>8
<1>3. ASSUME UNCHANGED <<vars, entries>>, NEW s \in Clerks, NEW what \in Tasks,
             task' = [task EXCEPT ![s] = what], what.op # "SHEET"
      PROVE  Good
  <2>1. task'[s] = what /\ \A r \in Clerks \ {s} : task'[r] = task[r]
    BY <1>1, <1>3, TaskStep
  <2>2. \A r \in Clerks : Late(r)'
    BY <1>1, <1>3, <2>1 DEF Late, vars, Exists
  <2>3. EntriesAreEnrolled'
    BY <1>1, <1>3 DEF EntriesAreEnrolled, vars, Exists
  <2>4. QED
    BY <1>3, <2>2, <2>3
<1>4. ASSUME UNCHANGED <<vars, entries, task>>
      PROVE  Good
  BY <1>1, <1>4 DEF EntriesAreEnrolled, Late, vars, Exists
<1>5. ASSUME NEW c \in Classes, DeleteClass(c)
      PROVE  Good
  <2>1. \A d \in Classes, k \in Rooms :
            entries'[d][k] = IF d = c THEN {} ELSE entries[d][k]
    BY <1>1, <1>5 DEF DeleteClass, RecordsTypeOK
  <2>2. \A k \in Rooms : entries[c][k] = {}
    BY <1>5, EntryHasRow DEF DeleteClass, MayDeleteClass
  <2>3. UNCHANGED <<vars, task>>
    BY <1>5 DEF DeleteClass
  <2>4. EntriesAreEnrolled'
    BY <1>1, <2>1, <2>3 DEF EntriesAreEnrolled, vars, Exists
  <2>5. \A s \in Clerks : Late(s)'
    BY <1>1, <2>3 DEF Late, vars, Exists
  <2>6. Kept
    BY <2>1, <2>2
  <2>7. QED
    BY <2>4, <2>5, <2>6
<1>6. ASSUME NEW s \in Clerks, NEW c \in Classes, NEW k \in Rooms,
             NEW students \in SUBSET Students, ReadSheet(s, c, k, students)
      PROVE  Good
  <2> DEFINE what == [op |-> "SHEET", sheet |-> <<c, k>>, students |-> students]
  <2>1. UNCHANGED <<vars, entries>> /\ task' = [task EXCEPT ![s] = what]
    BY <1>6 DEF ReadSheet, Take
  <2>2. task'[s] = what /\ \A r \in Clerks \ {s} : task'[r] = task[r]
    BY <1>1, <2>1 DEF RecordsTypeOK
  <2>3. \A st \in students : \E t \in Terms : Exists(st, t) /\ ClassOf[t] = c
    BY <1>6 DEF ReadSheet, Enrolled, Current, RInv, IInv, Ordered
  <2>4. Late(s)'
    BY <2>1, <2>2, <2>3 DEF Late, vars, Exists
  <2>5. \A r \in Clerks : Late(r)'
    BY <1>1, <2>1, <2>2, <2>4 DEF Late, vars, Exists
  <2>6. EntriesAreEnrolled'
    BY <1>1, <2>1 DEF EntriesAreEnrolled, vars, Exists
  <2>7. QED
    BY <2>1, <2>5, <2>6
<1>7. ASSUME NEW s \in Clerks, NEW c \in Classes, NEW k \in Rooms, CommitSheet(s, c, k)
      PROVE  Good
  <2>1. /\ UNCHANGED vars /\ task' = [task EXCEPT ![s] = NoTask]
        /\ task[s].op = "SHEET" /\ task[s].sheet = <<c, k>>
        /\ entries' = [entries EXCEPT ![c][k] = task[s].students]
    BY <1>7 DEF CommitSheet, Finish
  <2>2. task'[s] = NoTask /\ \A r \in Clerks \ {s} : task'[r] = task[r]
    BY <1>1, <2>1 DEF RecordsTypeOK
  <2>3. \A d \in Classes, r \in Rooms :
            entries'[d][r] = IF d = c /\ r = k THEN task[s].students ELSE entries[d][r]
    BY <1>1, <2>1 DEF RecordsTypeOK
  <2>4. \A st \in task[s].students : \E t \in Terms : Exists(st, t) /\ ClassOf[t] = c
    BY <1>1, <1>7, <2>1 DEF CommitSheet, Late, InSchool, Statuses
  <2>5. EntriesAreEnrolled'
    BY <1>1, <2>1, <2>3, <2>4 DEF EntriesAreEnrolled, vars, Exists
  <2>6. \A r \in Clerks : Late(r)'
    BY <1>1, <2>1, <2>2 DEF Late, vars, Exists, NoTask
  <2>7. Kept
    BY <2>1, <2>2, <2>3
  <2>8. QED
    BY <2>5, <2>6, <2>7
<1>8. NoTask \in Tasks /\ NoTask.op # "SHEET"
  BY DEF Tasks, NoTask
<1>9. ASSUME NEW s \in Clerks, NEW st \in Students, NEW p \in Parents, ReadUnlink(s, st, p)
      PROVE  Good
  <2> DEFINE what == [op |-> "UNLINK", student |-> st, parent |-> p]
  <2>1. what \in Tasks /\ what.op # "SHEET"
    BY DEF Tasks
  <2>2. UNCHANGED <<vars, entries>> /\ task' = [task EXCEPT ![s] = what]
    BY <1>9 DEF ReadUnlink, Take
  <2> HIDE DEF what
  <2>3. QED
    BY <1>3, <2>1, <2>2
<1>10. ASSUME NEW s \in Clerks, NEW c \in Classes, NEW k \in Rooms, ReadDrop(s, c, k)
       PROVE  Good
  <2> DEFINE what == [op |-> "DROP", class |-> c, section |-> k]
  <2>1. what \in Tasks /\ what.op # "SHEET"
    BY DEF Tasks
  <2>2. UNCHANGED <<vars, entries>> /\ task' = [task EXCEPT ![s] = what]
    BY <1>10 DEF ReadDrop, Take
  <2> HIDE DEF what
  <2>3. QED
    BY <1>3, <2>1, <2>2
<1>11. ASSUME NEW s \in Clerks, UNCHANGED <<vars, entries>>, Finish(s)
       PROVE  Good
  BY <1>3, <1>8, <1>11 DEF Finish
<1> HIDE DEF Good
<1>12. QED
  <2>1. ASSUME NEW s \in Clerks, Check(s)
        PROVE  Good
    BY <1>6, <1>9, <1>10, <2>1 DEF Check
  <2>2. ASSUME NEW s \in Clerks, Settle(s)
        PROVE  Good
    <3>1. CASE \E c \in Classes, k \in Rooms : CommitSheet(s, c, k)
      BY <1>7, <3>1
    <3>2. CASE \E st \in Students : CommitUnlink(s, st)
      BY <1>11, <3>2 DEF CommitUnlink
    <3>3. CASE \E c \in Classes : CommitDrop(s, c)
      BY <1>11, <3>3 DEF CommitDrop
    <3>4. CASE FailTask(s)
      BY <1>11, <3>4 DEF FailTask
    <3>5. QED
      BY <2>2, <3>1, <3>2, <3>3, <3>4 DEF Settle
  <2>3. CASE Organize
    BY <1>4, <1>5, <2>3 DEF Organize, CreateClass, CreateSection, UpdateClass
  <2>4. ASSUME NEW st \in Students,
               \/ \E t \in Terms, k \in Rooms : SetSection(st, t, k)
               \/ \E parents \in SUBSET Parents : LinkParents(st, parents)
        PROVE  Good
    BY <1>4, <2>4 DEF SetSection, LinkParents
  <2>5. QED
    BY <1>2, <2>1, <2>2, <2>3, <2>4 DEF RecordsNext

\* A step that touches no parent and starts no removal of one.
LEMMA ParentsAlone ==
    ASSUME RInv, NEW st \in Students, Unlinking(st)' \subseteq Unlinking(st),
           \A s \in Unlinking(st)' : task'[s] = task[s],
           guardians[st] \subseteq guardians'[st], overlapped \subseteq overlapped',
           person[st] # "NEW" => person'[st] # "NEW", InSchool(st)' => InSchool(st)
    PROVE  Guarded(st)'
<1>1. Guarded(st)
  BY DEF RInv
<1>2. Unlinking(st)' # {} => person'[st] # "NEW"
  BY <1>1 DEF Guarded
<1>3. ASSUME InSchool(st)', st \notin overlapped'
      PROVE  /\ guardians'[st] # {}
             /\ \A s \in Unlinking(st)' :
                 Unlinking(st)' = {s} /\ guardians'[st] \ {task'[s].parent} # {}
  <2>1. /\ guardians[st] # {}
        /\ \A s \in Unlinking(st) :
            Unlinking(st) = {s} /\ guardians[st] \ {task[s].parent} # {}
    BY <1>1, <1>3 DEF Guarded
  <2>2. QED
    BY <2>1
<1>4. QED
  BY <1>2, <1>3 DEF Guarded

\* One removal at a time leaves a parent: the count was right when nothing else removes.
LEMMA ParentStep ==
    ASSUME RInv, RecordsNext, NEW st \in Students
    PROVE  Guarded(st)'
<1>1. RecordsTypeOK /\ Guarded(st) /\ IInv
  BY DEF RInv
<1>2. ASSUME task' = task, overlapped' = overlapped
      PROVE  Unlinking(st)' = Unlinking(st)
  BY <1>2 DEF Unlinking
<1>3. CASE Enroll
  <2>1. PICK k \in Rooms, parents \in SUBSET Parents :
            /\ parents # {} <=> \E x \in Students : Arrives(x)
            /\ Follow(k, parents)
    BY <1>3 DEF Enroll
  <2>2. /\ person[st] # "NEW" => person'[st] # "NEW"
        /\ person[st] = "GONE" => person'[st] = "GONE"
    BY <1>1, <1>3, Lasting DEF Enroll
  <2>3. UNCHANGED <<task, overlapped>> /\ Unlinking(st)' = Unlinking(st)
    BY <1>2, <2>1 DEF Follow
  <2>4. guardians'[st] = IF Leaves(st) THEN {} ELSE IF Arrives(st) THEN parents ELSE guardians[st]
    BY <2>1 DEF Follow
  <2>5. CASE InSchool(st)' /\ InSchool(st)
    <3>1. guardians'[st] = guardians[st]
      BY <2>4, <2>5 DEF Leaves, Arrives, InSchool, Statuses
    <3>2. QED
      BY <1>1, <2>2, <2>3, <2>5, <3>1 DEF Guarded
  <2>6. CASE InSchool(st)' /\ ~InSchool(st)
    <3>1. person[st] = "NEW" /\ Arrives(st)
      BY <1>1, <2>2, <2>6 DEF InSchool, Statuses, Arrives, IInv, TypeOK
    <3>2. guardians'[st] # {}
      <4>1. parents # {}
        BY <2>1, <3>1
      <4>2. ~Leaves(st)
        BY <3>1, <2>6 DEF Leaves, InSchool, Statuses
      <4>3. QED
        BY <2>4, <3>1, <4>1, <4>2
    <3>3. Unlinking(st) = {}
      BY <1>1, <3>1 DEF Guarded
    <3>4. QED
      BY <2>3, <3>2, <3>3 DEF Guarded
  <2>7. CASE ~InSchool(st)'
    BY <1>1, <2>2, <2>3, <2>7 DEF Guarded
  <2>8. QED
    BY <2>5, <2>6, <2>7
<1>4. ASSUME UNCHANGED <<vars, task>>, guardians[st] \subseteq guardians'[st],
             overlapped \subseteq overlapped'
      PROVE  Guarded(st)'
  BY <1>4, ParentsAlone DEF Unlinking, vars, InSchool
<1>5. ASSUME UNCHANGED <<vars, guardians>>, overlapped \subseteq overlapped',
             NEW s \in Clerks, NEW what \in Tasks, what.op # "UNLINK",
             task' = [task EXCEPT ![s] = what]
      PROVE  Guarded(st)'
  <2>1. task'[s] = what /\ \A r \in Clerks \ {s} : task'[r] = task[r]
    BY <1>1, <1>5, TaskStep
  <2>2. Unlinking(st)' \subseteq Unlinking(st) /\ \A r \in Unlinking(st)' : task'[r] = task[r]
    BY <1>5, <2>1 DEF Unlinking
  <2>3. QED
    BY <1>5, <2>2, ParentsAlone DEF vars, InSchool
<1>6. ASSUME NEW x \in Students, NEW parents \in SUBSET Parents, LinkParents(x, parents)
      PROVE  Guarded(st)'
  <2>1. guardians[st] \subseteq guardians'[st]
    BY <1>1, <1>6 DEF LinkParents, RecordsTypeOK
  <2>2. QED
    BY <1>4, <1>6, <2>1 DEF LinkParents
<1>7. ASSUME NEW s \in Clerks, NEW x \in Students, NEW p \in Parents, ReadUnlink(s, x, p)
      PROVE  Guarded(st)'
  <2> DEFINE what == [op |-> "UNLINK", student |-> x, parent |-> p]
  <2>1. /\ UNCHANGED <<vars, guardians>> /\ task' = [task EXCEPT ![s] = what]
        /\ task[s] = NoTask /\ InSchool(x) /\ Cardinality(guardians[x]) > 1
        /\ overlapped' = overlapped \cup {y \in {x} : Unlinking(y) # {}}
    BY <1>7 DEF ReadUnlink, Take, MayUnlink
  <2>2. task'[s] = what /\ \A r \in Clerks \ {s} : task'[r] = task[r]
    BY <1>1, <2>1 DEF RecordsTypeOK
  <2>3. CASE x # st
    <3>1. Unlinking(st)' \subseteq Unlinking(st) /\ \A r \in Unlinking(st)' : task'[r] = task[r]
      BY <2>2, <2>3 DEF Unlinking
    <3>2. QED
      BY <2>1, <3>1, ParentsAlone DEF vars, InSchool
  <2>4. CASE x = st
    <3>1. Unlinking(st)' = Unlinking(st) \cup {s}
      BY <2>1, <2>2, <2>4 DEF Unlinking, NoTask
    <3>2. Unlinking(st) # {} => st \in overlapped'
      BY <2>1, <2>4
    <3>3. guardians[st] \ {p} # {}
      <4>1. IsFiniteSet(guardians[st])
        BY <1>1, RecordsAssumption, FS_Subset DEF RecordsTypeOK
      <4>2. /\ IsFiniteSet(guardians[st] \ {p}) /\ Cardinality(guardians[st]) \in Nat
            /\ Cardinality(guardians[st] \ {p}) =
                IF p \in guardians[st] THEN Cardinality(guardians[st]) - 1
                ELSE Cardinality(guardians[st])
        BY <4>1, FS_RemoveElement, FS_CardinalityType
      <4>3. Cardinality(guardians[st] \ {p}) # 0
        BY <2>1, <2>4, <4>2
      <4>4. QED
        BY <4>2, <4>3, FS_EmptySet
    <3>4. person'[st] # "NEW"
      BY <2>1, <2>4 DEF InSchool, Statuses, vars
    <3>5. task'[s].parent = p /\ guardians'[st] = guardians[st]
      BY <2>1, <2>2
    <3>6. st \notin overlapped' => Unlinking(st)' = {s}
      BY <3>1, <3>2
    <3>7. QED
      BY <3>3, <3>4, <3>5, <3>6 DEF Guarded
  <2>5. QED
    BY <2>3, <2>4
<1>8. ASSUME NEW s \in Clerks, NEW x \in Students, CommitUnlink(s, x)
      PROVE  Guarded(st)'
  <2>1. /\ UNCHANGED <<vars, overlapped>> /\ task' = [task EXCEPT ![s] = NoTask]
        /\ s \in Unlinking(x)
        /\ guardians' = [guardians EXCEPT ![x] = @ \ {task[s].parent}]
    BY <1>8 DEF CommitUnlink, Finish
  <2>2. task'[s] = NoTask /\ \A r \in Clerks \ {s} : task'[r] = task[r]
    BY <1>1, <2>1 DEF RecordsTypeOK
  <2>3. Unlinking(st)' = Unlinking(st) \ {s}
    BY <2>1, <2>2 DEF Unlinking, NoTask
  <2>4. CASE x # st
    <3>1. guardians'[st] = guardians[st]
      BY <1>1, <2>1, <2>4 DEF RecordsTypeOK
    <3>2. \A r \in Unlinking(st)' : task'[r] = task[r]
      BY <2>2, <2>3 DEF Unlinking
    <3>3. QED
      BY <2>1, <2>3, <3>1, <3>2, ParentsAlone DEF vars, InSchool
  <2>5. CASE x = st
    <3>1. guardians'[st] = guardians[st] \ {task[s].parent}
      BY <1>1, <2>1, <2>5 DEF RecordsTypeOK
    <3>2. person'[st] = person[st] /\ (InSchool(st)' <=> InSchool(st))
      BY <2>1 DEF vars, InSchool
    <3>3. InSchool(st) /\ st \notin overlapped =>
              guardians[st] \ {task[s].parent} # {} /\ Unlinking(st) = {s}
      BY <1>1, <2>1, <2>5 DEF Guarded
    <3>4. QED
      BY <1>1, <2>1, <2>3, <2>5, <3>1, <3>2, <3>3 DEF Guarded
  <2>6. QED
    BY <2>4, <2>5
<1>9. NoTask \in Tasks /\ NoTask.op # "UNLINK"
  BY DEF Tasks, NoTask
<1>10. ASSUME NEW s \in Clerks, UNCHANGED <<vars, guardians, overlapped>>, Finish(s)
       PROVE  Guarded(st)'
  BY <1>5, <1>9, <1>10 DEF Finish
<1>11. ASSUME NEW s \in Clerks, NEW c \in Classes, NEW k \in Rooms,
              NEW students \in SUBSET Students, ReadSheet(s, c, k, students)
       PROVE  Guarded(st)'
  <2> DEFINE what == [op |-> "SHEET", sheet |-> <<c, k>>, students |-> students]
  <2>1. what \in Tasks /\ what.op # "UNLINK"
    BY DEF Tasks, Sheets
  <2>2. UNCHANGED <<vars, guardians, overlapped>> /\ task' = [task EXCEPT ![s] = what]
    BY <1>11 DEF ReadSheet, Take
  <2> HIDE DEF what
  <2>3. QED
    BY <1>5, <2>1, <2>2
<1>12. ASSUME NEW s \in Clerks, NEW c \in Classes, NEW k \in Rooms, ReadDrop(s, c, k)
       PROVE  Guarded(st)'
  <2> DEFINE what == [op |-> "DROP", class |-> c, section |-> k]
  <2>1. what \in Tasks /\ what.op # "UNLINK"
    BY DEF Tasks
  <2>2. /\ UNCHANGED <<vars, guardians>> /\ task' = [task EXCEPT ![s] = what]
        /\ overlapped \subseteq overlapped'
    BY <1>12 DEF ReadDrop, Take
  <2> HIDE DEF what
  <2>3. QED
    BY <1>5, <2>1, <2>2
<1>13. CASE Organize
  <2>1. UNCHANGED <<vars, task, guardians>> /\ overlapped \subseteq overlapped'
    BY <1>13 DEF Organize, CreateClass, CreateSection, DeleteClass, UpdateClass
  <2>2. QED
    BY <1>4, <2>1
<1>14. ASSUME NEW x \in Students, NEW t \in Terms, NEW k \in Rooms, SetSection(x, t, k)
       PROVE  Guarded(st)'
  BY <1>4, <1>14 DEF SetSection
<1>15. QED
  <2>1. ASSUME NEW s \in Clerks, Check(s)
        PROVE  Guarded(st)'
    BY <1>7, <1>11, <1>12, <2>1 DEF Check
  <2>2. ASSUME NEW s \in Clerks, Settle(s)
        PROVE  Guarded(st)'
    <3>1. CASE \E x \in Students : CommitUnlink(s, x)
      BY <1>8, <3>1
    <3>2. CASE \E c \in Classes, k \in Rooms : CommitSheet(s, c, k)
      BY <1>10, <3>2 DEF CommitSheet
    <3>3. CASE \E c \in Classes : CommitDrop(s, c)
      BY <1>10, <3>3 DEF CommitDrop
    <3>4. CASE FailTask(s)
      BY <1>10, <3>4 DEF FailTask
    <3>5. QED
      BY <2>2, <3>1, <3>2, <3>3, <3>4 DEF Settle
  <2>3. QED
    BY <1>3, <1>6, <1>13, <1>14, <2>1, <2>2 DEF RecordsNext

\* A step that closes no section of a class and starts no removal of one.
LEMMA SectionsAlone ==
    ASSUME RInv, NEW c \in Classes, Dropping(c)' \subseteq Dropping(c),
           \A s \in Dropping(c)' : task'[s] = task[s],
           Sections(c) \subseteq Sections(c)', overlapped \subseteq overlapped',
           unit[c][0] # "NEW" => unit'[c][0] # "NEW", Open(c, 0)' => Open(c, 0)
    PROVE  Divided(c)'
<1>1. Divided(c)
  BY DEF RInv
<1>2. Dropping(c)' # {} => unit'[c][0] # "NEW"
  BY <1>1 DEF Divided
<1>3. ASSUME Open(c, 0)', c \notin overlapped'
      PROVE  /\ Sections(c)' # {}
             /\ \A s \in Dropping(c)' :
                 Dropping(c)' = {s} /\ Sections(c)' \ {task'[s].section} # {}
  <2>1. /\ Sections(c) # {}
        /\ \A s \in Dropping(c) :
            Dropping(c) = {s} /\ Sections(c) \ {task[s].section} # {}
    BY <1>1, <1>3 DEF Divided
  <2>2. QED
    BY <2>1
<1>4. QED
  BY <1>2, <1>3 DEF Divided

\* One removal at a time leaves a section.
LEMMA SectionStep ==
    ASSUME RInv, RecordsNext, NEW c \in Classes
    PROVE  Divided(c)'
<1>1. RecordsTypeOK /\ Divided(c) /\ 0 \in Rooms /\ 1 \in Rooms
  BY RecordsAssumption DEF RInv, Rooms
<1>2. ASSUME UNCHANGED <<unit, task, overlapped>>
      PROVE  Divided(c)'
  BY <1>2, SectionsAlone DEF Dropping, Sections, Open
<1>3. ASSUME UNCHANGED unit, overlapped \subseteq overlapped',
             NEW s \in Clerks, NEW what \in Tasks, what.op # "DROP",
             task' = [task EXCEPT ![s] = what]
      PROVE  Divided(c)'
  <2>1. task'[s] = what /\ \A r \in Clerks \ {s} : task'[r] = task[r]
    BY <1>1, <1>3, TaskStep
  <2>2. Dropping(c)' \subseteq Dropping(c) /\ \A r \in Dropping(c)' : task'[r] = task[r]
    BY <1>3, <2>1 DEF Dropping
  <2>3. QED
    BY <1>3, <2>2, SectionsAlone DEF Sections, Open
<1>4. ASSUME NEW d \in Classes, d # c, UNCHANGED task, overlapped \subseteq overlapped',
             unit'[c] = unit[c]
      PROVE  Divided(c)'
  BY <1>4, SectionsAlone DEF Dropping, Sections, Open
<1>5. ASSUME NEW d \in Classes, NEW n \in Rooms \ {0}, CreateClass(d, n)
      PROVE  Divided(c)'
  <2>1. CASE d # c
    BY <1>1, <1>4, <1>5, <2>1 DEF CreateClass, RecordsTypeOK
  <2>2. CASE d = c
    <3>1. unit[c][0] = "NEW" /\ UNCHANGED <<task, overlapped>>
      BY <1>5, <2>2 DEF CreateClass
    <3>2. Dropping(c)' = {}
      BY <1>1, <3>1 DEF Divided, Dropping
    <3>3. unit'[c][1] = "OPEN"
      <4>1. 1 <= n
        BY <1>5, RecordsAssumption DEF Rooms
      <4>2. QED
        BY <1>1, <1>5, <2>2, <4>1 DEF CreateClass, RecordsTypeOK
    <3>4. Sections(c)' # {}
      BY <1>1, <3>3 DEF Sections, Open
    <3>5. QED
      BY <3>2, <3>4 DEF Divided
  <2>3. QED
    BY <2>1, <2>2
<1>6. ASSUME NEW d \in Classes, DeleteClass(d)
      PROVE  Divided(c)'
  <2>1. CASE d # c
    BY <1>1, <1>4, <1>6, <2>1 DEF DeleteClass, RecordsTypeOK
  <2>2. CASE d = c
    BY <1>1, <1>6, <2>2 DEF DeleteClass, RecordsTypeOK, Divided, Open
  <2>3. QED
    BY <2>1, <2>2
<1>7. ASSUME NEW d \in Classes, NEW k \in Rooms \ {0}, CreateSection(d, k)
      PROVE  Divided(c)'
  <2>1. unit'[c][0] = unit[c][0] /\ \A r \in Rooms : unit[c][r] = "OPEN" => unit'[c][r] = "OPEN"
    BY <1>1, <1>7 DEF CreateSection, RecordsTypeOK
  <2>2. UNCHANGED <<task, overlapped>>
    BY <1>7 DEF CreateSection
  <2>3. QED
    BY <2>1, <2>2, SectionsAlone DEF Dropping, Sections, Open
<1>8. ASSUME NEW d \in Classes, NEW listed \in SUBSET (Rooms \ {0}), UpdateClass(d, listed)
      PROVE  Divided(c)'
  <2>1. CASE d # c
    BY <1>1, <1>4, <1>8, <2>1 DEF UpdateClass, RecordsTypeOK
  <2>2. CASE d = c
    <3>1. /\ UNCHANGED task /\ listed # {}
          /\ overlapped' = overlapped \cup {x \in {c} : Dropping(x) # {}}
          /\ \A k \in Rooms : unit'[c][k] =
                IF k \in listed THEN "OPEN"
                ELSE IF k \in Sections(c) \ listed THEN "GONE" ELSE unit[c][k]
      BY <1>1, <1>8, <2>2 DEF UpdateClass, RecordsTypeOK
    <3>2. Dropping(c)' = Dropping(c)
      BY <3>1 DEF Dropping
    <3>3. unit'[c][0] = unit[c][0]
      BY <1>1, <3>1 DEF Sections
    <3>4. Sections(c)' # {}
      BY <3>1 DEF Sections, Open
    <3>5. c \notin overlapped' => Dropping(c) = {}
      BY <3>1
    <3>6. QED
      BY <1>1, <3>2, <3>3, <3>4, <3>5 DEF Divided
  <2>3. QED
    BY <2>1, <2>2
<1>9. ASSUME NEW s \in Clerks, NEW d \in Classes, NEW k \in Rooms, ReadDrop(s, d, k)
      PROVE  Divided(c)'
  <2> DEFINE what == [op |-> "DROP", class |-> d, section |-> k]
  <2>1. /\ UNCHANGED unit /\ task' = [task EXCEPT ![s] = what]
        /\ task[s] = NoTask /\ Open(d, 0) /\ k \in Sections(d) /\ Sections(d) # {k}
        /\ overlapped' = overlapped \cup {x \in {d} : Dropping(x) # {}}
    BY <1>9 DEF ReadDrop, Take
  <2>2. task'[s] = what /\ \A r \in Clerks \ {s} : task'[r] = task[r]
    BY <1>1, <2>1 DEF RecordsTypeOK
  <2>3. CASE d # c
    <3>1. Dropping(c)' \subseteq Dropping(c) /\ \A r \in Dropping(c)' : task'[r] = task[r]
      BY <2>2, <2>3 DEF Dropping
    <3>2. QED
      BY <2>1, <3>1, SectionsAlone DEF Sections, Open
  <2>4. CASE d = c
    <3>1. Dropping(c)' = Dropping(c) \cup {s}
      BY <2>1, <2>2, <2>4 DEF Dropping, NoTask
    <3>2. Dropping(c) # {} => c \in overlapped'
      BY <2>1, <2>4
    <3>3. /\ Sections(c)' = Sections(c) /\ (Open(c, 0)' <=> Open(c, 0))
          /\ unit'[c][0] = unit[c][0]
      BY <2>1 DEF Sections, Open
    <3>4. unit'[c][0] # "NEW"
      BY <2>1, <2>4 DEF Open
    <3>5. task'[s].section = k /\ Sections(c)' \ {k} # {}
      BY <2>1, <2>2, <2>4, <3>3
    <3>6. c \notin overlapped' => Dropping(c)' = {s}
      BY <3>1, <3>2
    <3>7. QED
      BY <3>4, <3>5, <3>6 DEF Divided
  <2>5. QED
    BY <2>3, <2>4
<1>10. ASSUME NEW s \in Clerks, NEW d \in Classes, CommitDrop(s, d)
       PROVE  Divided(c)'
  <2>1. /\ UNCHANGED overlapped /\ task' = [task EXCEPT ![s] = NoTask]
        /\ s \in Dropping(d) /\ unit' = [unit EXCEPT ![d][task[s].section] = "GONE"]
    BY <1>10 DEF CommitDrop, Finish
  <2>2. task'[s] = NoTask /\ \A r \in Clerks \ {s} : task'[r] = task[r]
    BY <1>1, <2>1 DEF RecordsTypeOK
  <2>3. Dropping(c)' = Dropping(c) \ {s}
    BY <2>1, <2>2 DEF Dropping, NoTask
  <2>4. CASE d # c
    <3>1. unit'[c] = unit[c]
      BY <1>1, <2>1, <2>4 DEF RecordsTypeOK
    <3>2. \A r \in Dropping(c)' : task'[r] = task[r]
      BY <2>2, <2>3 DEF Dropping
    <3>3. QED
      BY <2>1, <2>3, <3>1, <3>2, SectionsAlone DEF Sections, Open
  <2>5. CASE d = c
    <3> DEFINE k == task[s].section
    <3>1. k \in Rooms
      BY <1>1, <2>1 DEF RecordsTypeOK, Tasks, NoTask, Dropping
    <3>2. unit'[c][k] = "GONE" /\ \A r \in Rooms \ {k} : unit'[c][r] = unit[c][r]
      BY <1>1, <2>1, <2>5, <3>1 DEF RecordsTypeOK
    <3> HIDE DEF k
    <3>3. Sections(c)' = Sections(c) \ {k}
      BY <3>1, <3>2 DEF Sections, Open
    <3>4. unit'[c][0] # "NEW" /\ (Open(c, 0)' => Open(c, 0))
      BY <1>1, <2>1, <2>5, <3>2 DEF Divided, Open
    <3>5. Open(c, 0) /\ c \notin overlapped => Sections(c) \ {k} # {} /\ Dropping(c) = {s}
      BY <1>1, <2>1, <2>5 DEF Divided, k
    <3>6. QED
      BY <2>1, <2>3, <3>3, <3>4, <3>5 DEF Divided
  <2>6. QED
    BY <2>4, <2>5
<1>11. NoTask \in Tasks /\ NoTask.op # "DROP"
  BY DEF Tasks, NoTask
<1>12. ASSUME NEW s \in Clerks, UNCHANGED <<unit, overlapped>>, Finish(s)
       PROVE  Divided(c)'
  BY <1>3, <1>11, <1>12 DEF Finish
<1>13. ASSUME NEW s \in Clerks, NEW d \in Classes, NEW k \in Rooms,
              NEW students \in SUBSET Students, ReadSheet(s, d, k, students)
       PROVE  Divided(c)'
  <2> DEFINE what == [op |-> "SHEET", sheet |-> <<d, k>>, students |-> students]
  <2>1. what \in Tasks /\ what.op # "DROP"
    BY DEF Tasks, Sheets
  <2>2. UNCHANGED <<unit, overlapped>> /\ task' = [task EXCEPT ![s] = what]
    BY <1>13 DEF ReadSheet, Take
  <2> HIDE DEF what
  <2>3. QED
    BY <1>3, <2>1, <2>2
<1>14. ASSUME NEW s \in Clerks, NEW st \in Students, NEW p \in Parents, ReadUnlink(s, st, p)
       PROVE  Divided(c)'
  <2> DEFINE what == [op |-> "UNLINK", student |-> st, parent |-> p]
  <2>1. what \in Tasks /\ what.op # "DROP"
    BY DEF Tasks
  <2>2. /\ UNCHANGED unit /\ task' = [task EXCEPT ![s] = what]
        /\ overlapped \subseteq overlapped'
    BY <1>14 DEF ReadUnlink, Take
  <2> HIDE DEF what
  <2>3. QED
    BY <1>3, <2>1, <2>2
<1>15. QED
  <2>1. ASSUME NEW s \in Clerks, Check(s)
        PROVE  Divided(c)'
    BY <1>9, <1>13, <1>14, <2>1 DEF Check
  <2>2. ASSUME NEW s \in Clerks, Settle(s)
        PROVE  Divided(c)'
    <3>1. CASE \E d \in Classes : CommitDrop(s, d)
      BY <1>10, <3>1
    <3>2. CASE \E d \in Classes, k \in Rooms : CommitSheet(s, d, k)
      BY <1>12, <3>2 DEF CommitSheet
    <3>3. CASE \E st \in Students : CommitUnlink(s, st)
      BY <1>12, <3>3 DEF CommitUnlink
    <3>4. CASE FailTask(s)
      BY <1>12, <3>4 DEF FailTask
    <3>5. QED
      BY <2>2, <3>1, <3>2, <3>3, <3>4 DEF Settle
  <2>3. CASE Organize
    BY <1>5, <1>6, <1>7, <1>8, <2>3 DEF Organize
  <2>4. CASE \E st \in Students :
                \/ \E t \in Terms, k \in Rooms : SetSection(st, t, k)
                \/ \E parents \in SUBSET Parents \ {{}} : LinkParents(st, parents)
    BY <1>2, <2>4 DEF SetSection, LinkParents
  <2>5. CASE Enroll
    BY <1>2, <2>5 DEF Enroll, Follow
  <2>6. QED
    BY <2>1, <2>2, <2>3, <2>4, <2>5 DEF RecordsNext

LEMMA RecordsInvariance == RecordsSpec => []RInv
<1>1. RecordsInit => RecordsTypeOK /\ EntriesAreEnrolled
        /\ (\A s \in Clerks : Late(s)) /\ (\A st \in Students : Guarded(st))
        /\ (\A c \in Classes : Divided(c))
  <2> SUFFICES ASSUME RecordsInit
               PROVE  /\ RecordsTypeOK /\ EntriesAreEnrolled
                      /\ \A s \in Clerks : Late(s)
                      /\ \A st \in Students : Guarded(st)
                      /\ \A c \in Classes : Divided(c)
    OBVIOUS
  <2>1. 0 \in Rooms /\ 1 \in Rooms /\ NoTask \in Tasks
    BY RecordsAssumption DEF Rooms, Tasks
  <2>2. RecordsTypeOK
    BY <2>1 DEF RecordsInit, RecordsTypeOK
  <2>3. EntriesAreEnrolled /\ \A s \in Clerks : Late(s)
    BY DEF RecordsInit, EntriesAreEnrolled, Late, NoTask
  <2>4. /\ \A st \in Students : Unlinking(st) = {} /\ ~InSchool(st)
        /\ \A c \in Classes : Dropping(c) = {}
    BY DEF RecordsInit, Init, Unlinking, Dropping, NoTask, InSchool, Statuses
  <2>5. \A c \in Classes : Open(c, 0) => Open(c, 1)
    BY <2>1 DEF RecordsInit, Open
  <2>6. \A c \in Classes : Open(c, 0) => Sections(c) # {}
    BY <2>1, <2>5 DEF Sections
  <2>7. QED
    BY <2>2, <2>3, <2>4, <2>6 DEF Guarded, Divided
<1>2. RInv /\ IInv' /\ [RecordsNext]_allVars => RInv'
  <2>1. ASSUME RInv, IInv', UNCHANGED allVars
        PROVE  RInv'
    <3>1. UNCHANGED <<person, enrollment, unit, seat, taken, entries, guardians, task, overlapped>>
      BY <2>1 DEF allVars, vars, recordVars
    <3>2. RecordsTypeOK'
      BY <2>1, <3>1 DEF RInv, RecordsTypeOK
    <3>3. EntriesAreEnrolled' /\ \A s \in Clerks : Late(s)'
      BY <2>1, <3>1 DEF RInv, EntriesAreEnrolled, Late, Exists
    <3>4. \A st \in Students : Guarded(st)'
      BY <2>1, <3>1 DEF RInv, Guarded, Unlinking, InSchool
    <3>5. \A c \in Classes : Divided(c)'
      BY <2>1, <3>1 DEF RInv, Divided, Dropping, Sections, Open
    <3>6. QED
      BY <2>1, <3>2, <3>3, <3>4, <3>5 DEF RInv
  <2>2. ASSUME RInv, IInv', RecordsNext
        PROVE  RInv'
    <3>1. RecordsTypeOK'
      BY <2>2, TypeStep DEF RInv
    <3>2. EntriesAreEnrolled' /\ \A s \in Clerks : Late(s)'
      BY <2>2, SheetStep
    <3>3. \A st \in Students : Guarded(st)'
      BY <2>2, ParentStep
    <3>4. \A c \in Classes : Divided(c)'
      BY <2>2, SectionStep
    <3>5. QED
      BY <2>2, <3>1, <3>2, <3>3, <3>4 DEF RInv
  <2>3. QED
    BY <2>1, <2>2
<1>3. RecordsSpec => []IInv
  BY RecordsKeepEnrollments, Invariance, PTL
<1>4. IInv /\ RecordsInit => RInv
  BY <1>1 DEF RInv
<1>5. QED
  BY <1>2, <1>3, <1>4, PTL DEF RecordsSpec

\* Classes, sheets, parents and requests in flight keep their types.
THEOREM RecordsTyped == RecordsSpec => []RecordsTypeOK
<1>1. RInv => RecordsTypeOK
  BY DEF RInv
<1>2. QED
  BY <1>1, RecordsInvariance, PTL

\* Whoever is on a sheet has an enrollment in its class on record.
THEOREM EntriesTrue == RecordsSpec => []EntriesAreEnrolled
<1>1. RInv => EntriesAreEnrolled
  BY DEF RInv
<1>2. QED
  BY <1>1, RecordsInvariance, PTL

\* No attendance is lost but with its student or to a later save of its sheet.
THEOREM AttendanceLasts == RecordsSpec => AttendanceKept
<1> DEFINE Kept == \A c \in Classes, k \in Rooms : \A st \in entries[c][k] :
                      \/ st \in entries'[c][k]
                      \/ Leaves(st)
                      \/ \E s \in Clerks : task[s].op = "SHEET" /\ task[s].sheet = <<c, k>>
                                           /\ task'[s] = NoTask
<1>1. RInv /\ [RecordsNext]_allVars => [Kept]_allVars
  BY SheetStep
<1>2. QED
  BY <1>1, RecordsInvariance, PTL DEF RecordsSpec, AttendanceKept

\* Removals that do not overlap leave a student a parent and a class a section.
THEOREM LastOnesKept == RecordsSpec => []LastOnesStay
<1>1. RInv => LastOnesStay
  BY DEF RInv, Guarded, Divided, LastOnesStay
<1>2. QED
  BY <1>1, RecordsInvariance, PTL

=============================================================================
