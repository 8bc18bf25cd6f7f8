------------------------ MODULE FeeGenerationProofs ------------------------
(* Proofs of the properties of FeeGeneration, for any number of students,  *)
(* periods, sessions and requests in flight.                               *)
EXTENDS FeeGeneration, TLAPS

---------------------------------------------------------------------------
(* Requests.                                                               *)

\* A free slot is a request like any other.
LEMMA IdleIsRequest == Idle \in Request
  BY SessionAssumption DEF Idle, Request

\* Going on after one pair keeps the type of a request.
LEMMA AdvanceTyped ==
    ASSUME request \in [Slots -> Request], NEW s \in Slots, NEW k,
           NEW q \in Request, Advance(s, k, q)
    PROVE  request' \in [Slots -> Request]
  <1>1. After(q, k) \in Request BY IdleIsRequest DEF After, Request
  <1> QED BY <1>1 DEF Advance

\* So does learning late of a bill.
LEMMA OvertakenTyped ==
    ASSUME request \in [Slots -> Request], NEW k, NEW fees
    PROVE  Overtaken(k, fees) \in [Slots -> Request]
  <1> SUFFICES ASSUME NEW u \in Slots
               PROVE  [request[u] EXCEPT !.late = @ \cup Missed(request[u], k, fees)]
                        \in Request
    BY DEF Overtaken
  <1>1. Missed(request[u], k, fees) \subseteq {"bill", "fee"} BY DEF Missed
  <1>2. ASSUME NEW q \in Request, NEW m \in SUBSET {"bill", "fee"}
        PROVE  [q EXCEPT !.late = @ \cup m] \in Request
    BY DEF Request
  <1> QED BY <1>1, <1>2

\* So does taking one up.
LEMMA EnterTyped ==
    ASSUME request \in [Slots -> Request], NEW s \in Slots,
           NEW q \in Request, Enter(s, q)
    PROVE  /\ request' \in [Slots -> Request]
           /\ request' = [request EXCEPT ![s] = q]
           /\ invoice' = invoice
  BY DEF Enter

LEMMA AutoTyped ==
    ASSUME NEW st \in Students, NEW year \in Sessions
    PROVE  AutoBilling(st, year) \in Request
  BY IdleIsRequest DEF AutoBilling, Request

\* Or noting what was charged before.
LEMMA ReadTyped ==
    ASSUME NEW q \in Request, NEW step \in {"look", "create"}, NEW st
    PROVE  [q EXCEPT !.step = step, !.charged = ChargedOneTime(st)] \in Request
  <1>1. ChargedOneTime(st) \in BOOLEAN BY DEF ChargedOneTime
  <1>2. ASSUME NEW b \in BOOLEAN PROVE [q EXCEPT !.step = step, !.charged = b] \in Request
    BY DEF Request
  <1> QED BY <1>1, <1>2

\* A request goes on with one of its students or one of its pairs.
LEMMA ProceedSteps ==
    ASSUME TypeOK, NEW s \in Slots, Proceed(s)
    PROVE  \/ \E st \in Students :
                \/ \E session \in [Periods -> Sessions] : ListPeriods(s, st, session)
                \/ ReadCharged(s, st)
           \/ \E k \in Periods \X Students :
                \/ Look(s, k) \/ Price(s, k) \/ Create(s, k)
                \/ ComesToNothing(s, k) \/ Refuse(s, k)
  <1>1. /\ request[s].students \subseteq Students
        /\ request[s].todo \subseteq Periods \X Students
    BY DEF TypeOK, Request
  <1> QED BY <1>1 DEF Proceed

---------------------------------------------------------------------------
(* Types.                                                                  *)

LEMMA InitTyped == Init => TypeOK
  <1> SUFFICES ASSUME Init PROVE TypeOK OBVIOUS
  <1>1. admission \in [Students -> Periods \cup {0}] BY DEF Init
  <1>2. invoice \in [Students -> [Periods -> [Sessions -> Row]]] BY DEF Init, Row, Absent
  <1>3. request \in [Slots -> Request] BY IdleIsRequest DEF Init
  <1> QED BY <1>1, <1>2, <1>3 DEF TypeOK

LEMMA GenerateTyped ==
    ASSUME IInv, NEW s \in Slots, NEW sts \in SUBSET Students,
           NEW from \in Periods, NEW to \in Periods, NEW year \in Sessions,
           Generate(s, sts, from, to, year)
    PROVE  TypeOK'
  <1> DEFINE pairs == {k \in Months(from, to) \X sts : admission[k[2]] <= k[1]}
  <1> DEFINE sessions == IF from = to THEN [p \in Periods |-> year] ELSE DefaultSession
  <1> DEFINE q == [Idle EXCEPT !.op = "GENERATE", !.students = sts,
                               !.listed = pairs, !.todo = pairs,
                               !.session = sessions]
  <1>1. pairs \in SUBSET (Periods \X Students) BY DEF Months
  <1>2. sessions \in [Periods -> Sessions] BY SessionAssumption
  <1>3. Enter(s, q) /\ admission' = admission BY DEF Generate
  <1> HIDE DEF pairs, sessions
  <1>4. q \in Request BY <1>1, <1>2, IdleIsRequest DEF Request
  <1> HIDE DEF q
  <1>5. TypeOK BY DEF IInv
  <1> QED BY <1>3, <1>4, <1>5, EnterTyped DEF TypeOK

\* The periods found are billing months from the admission on, with a session each.
LEMMA PeriodsFound ==
    ASSUME TypeOK, NEW st \in Admitted
    PROVE  /\ admission[st] \in Periods
           /\ \A k \in PeriodsToGenerate(st) :
                k[1] \in Periods /\ k[2] \in Sessions /\ admission[st] <= k[1]
  <1>1. admission[st] \in Periods BY DEF TypeOK, Admitted
  <1>2. ASSUME NEW sts PROVE \A k \in BilledPeriods(sts, admission[st]) :
            k[1] \in Periods /\ k[2] \in Sessions /\ admission[st] <= k[1]
    BY <1>1, PeriodAssumption DEF BilledPeriods, Periods
  <1> QED BY <1>1, <1>2 DEF PeriodsToGenerate

LEMMA ListTyped ==
    ASSUME IInv, NEW s \in Slots, NEW st \in Students,
           NEW session \in [Periods -> Sessions], ListPeriods(s, st, session)
    PROVE  TypeOK'
  <1> DEFINE ps == {k[1] : k \in PeriodsToGenerate(st)}
  <1> DEFINE pairs == (ps \cup {admission[st]}) \X {st}
  <1> DEFINE q == [request[s] EXCEPT !.step = "charged", !.session = session,
                                     !.listed = pairs, !.todo = pairs]
  <1>1. TypeOK /\ request[s] \in Request BY DEF IInv, TypeOK
  <1>2. st \in Admitted BY DEF ListPeriods, IInv, Placed
  <1>3. pairs \in SUBSET (Periods \X Students) BY <1>1, <1>2, PeriodsFound
  <1>4. request' = [request EXCEPT ![s] = q] BY <1>1 DEF ListPeriods, TypeOK
  <1>5. admission' = admission /\ invoice' = invoice BY DEF ListPeriods
  <1> HIDE DEF pairs
  <1>6. q \in Request BY <1>1, <1>3 DEF Request
  <1> HIDE DEF q
  <1> QED BY <1>1, <1>4, <1>5, <1>6 DEF TypeOK

\* What cancelling, fining and waiving do to the row they are about.
LEMMA RowChanges ==
    ASSUME TypeOK, NEW st \in Students, NEW p \in Periods, NEW y \in Sessions,
           Cancel(st, p, y) \/ Fine(st, p, y) \/ Waive(st, p, y)
    PROVE  \E row \in Row :
            /\ invoice' = [invoice EXCEPT ![st][p][y] = row]
            /\ row.fees = invoice[st][p][y].fees
            /\ Cancel(st, p, y) \/ Fine(st, p, y) => (Live(row) => Live(invoice[st][p][y]))
  <1> DEFINE old == invoice[st][p][y]
  <1>1. old \in Row BY DEF TypeOK
  <1>2. ASSUME Cancel(st, p, y)
        PROVE  LET row == [old EXCEPT !.cancelled = TRUE]
               IN  /\ row \in Row /\ row.fees = old.fees /\ ~Live(row)
                   /\ invoice' = [invoice EXCEPT ![st][p][y] = row]
    <2>1. invoice' = [invoice EXCEPT ![st][p][y] = [old EXCEPT !.cancelled = TRUE]]
      BY <1>2 DEF Cancel, TypeOK
    <2> HIDE DEF old
    <2> QED BY <1>1, <2>1 DEF Row, Live
  <1>3. ASSUME Fine(st, p, y)
        PROVE  LET row == [old EXCEPT !.fine = "DUE"]
               IN  /\ row \in Row /\ row.fees = old.fees /\ Live(old)
                   /\ invoice' = [invoice EXCEPT ![st][p][y] = row]
    <2>1. /\ invoice' = [invoice EXCEPT ![st][p][y] = [old EXCEPT !.fine = "DUE"]]
          /\ Live(old)
      BY <1>3 DEF Fine, TypeOK
    <2> HIDE DEF old
    <2> QED BY <1>1, <2>1 DEF Row
  <1>4. ASSUME Waive(st, p, y), ~Cancel(st, p, y), ~Fine(st, p, y)
        PROVE  LET row == [old EXCEPT !.cancelled = FALSE, !.fine = "WAIVED"]
               IN  /\ row \in Row /\ row.fees = old.fees
                   /\ invoice' = [invoice EXCEPT ![st][p][y] = row]
    <2>1. invoice' = [invoice EXCEPT ![st][p][y] =
                        [old EXCEPT !.cancelled = FALSE, !.fine = "WAIVED"]]
      BY <1>4 DEF Waive, TypeOK
    <2> HIDE DEF old
    <2> QED BY <1>1, <2>1 DEF Row
  <1> HIDE DEF old
  <1> QED BY <1>2, <1>3, <1>4 DEF old

LEMMA TypeStep == IInv /\ [Next]_vars => TypeOK'
  <1> SUFFICES ASSUME IInv, [Next]_vars PROVE TypeOK' OBVIOUS
  <1>0. TypeOK BY DEF IInv
  <1>1. ASSUME NEW s \in Slots, NEW st \in Students, NEW p \in Periods,
               NEW year \in Sessions, Admit(s, st, p, year)
        PROVE  TypeOK'
    <2>1. admission' \in [Students -> Periods \cup {0}] BY <1>0, <1>1 DEF Admit, TypeOK
    <2>2. request' \in [Slots -> Request] /\ invoice' = invoice
      BY <1>0, <1>1, AutoTyped, EnterTyped DEF Admit, TypeOK
    <2> QED BY <1>0, <2>1, <2>2 DEF TypeOK
  <1>2. ASSUME NEW s \in Slots, NEW st \in Students, NEW year \in Sessions,
               AutoGenerate(s, st, year)
        PROVE  TypeOK'
    <2>1. request' \in [Slots -> Request] /\ invoice' = invoice
      BY <1>0, <1>2, AutoTyped, EnterTyped DEF AutoGenerate, TypeOK
    <2> QED BY <1>0, <1>2, <2>1 DEF TypeOK, AutoGenerate
  <1>3. ASSUME NEW s \in Slots, NEW sts \in SUBSET Students, NEW from \in Periods,
               NEW to \in Periods, NEW year \in Sessions,
               Generate(s, sts, from, to, year)
        PROVE  TypeOK'
    BY <1>3, GenerateTyped
  <1>4. ASSUME NEW s \in Slots, NEW st \in Students,
               NEW session \in [Periods -> Sessions], ListPeriods(s, st, session)
        PROVE  TypeOK'
    BY <1>4, ListTyped
  <1>5. ASSUME NEW s \in Slots, NEW st \in Students, ReadCharged(s, st) PROVE TypeOK'
    <2>1. [request[s] EXCEPT !.step = "look", !.charged = ChargedOneTime(st)] \in Request
      BY <1>0, ReadTyped DEF TypeOK
    <2>2. request' \in [Slots -> Request] BY <1>0, <1>5, <2>1 DEF ReadCharged, TypeOK
    <2> QED BY <1>0, <1>5, <2>2 DEF ReadCharged, TypeOK
  <1>6. ASSUME NEW s \in Slots, NEW k \in Periods \X Students, Look(s, k) PROVE TypeOK'
    <2>0. request[s] \in Request BY <1>0 DEF TypeOK
    <2>1. ASSUME NEW step \in {"price", "create"}
          PROVE  [request[s] EXCEPT !.step = step, !.item = k] \in Request
      BY <2>0 DEF Request
    <2>2. \/ Advance(s, k, request[s])
          \/ \E step \in {"price", "create"} :
                request' = [request EXCEPT ![s] =
                                [request[s] EXCEPT !.step = step, !.item = k]]
      BY <1>0, <1>6 DEF Look, TypeOK
    <2>3. request' \in [Slots -> Request]
      BY <1>0, <2>0, <2>1, <2>2, AdvanceTyped DEF TypeOK
    <2> QED BY <1>0, <1>6, <2>3 DEF Look, TypeOK
  <1>7. ASSUME NEW s \in Slots, NEW k \in Periods \X Students, Price(s, k) PROVE TypeOK'
    <2>1. [request[s] EXCEPT !.step = "create", !.charged = ChargedOneTime(k[2])] \in Request
      BY <1>0, ReadTyped DEF TypeOK
    <2>2. request' \in [Slots -> Request] BY <1>0, <1>7, <2>1 DEF Price, TypeOK
    <2> QED BY <1>0, <1>7, <2>2 DEF Price, TypeOK
  <1>8. ASSUME NEW s \in Slots, NEW k \in Periods \X Students, Create(s, k) PROVE TypeOK'
    <2>0. request[s] \in Request BY <1>0 DEF TypeOK
    <2> DEFINE q == [request[s] EXCEPT !.charged = TRUE]
    <2> DEFINE fees == IF request[s].charged THEN "TUITION" ELSE "ADMISSION"
    <2> DEFINE year == request[s].session[k[1]]
    <2>1. q \in Request BY <2>0 DEF Request
    <2>2. /\ request' = [Overtaken(k, fees) EXCEPT ![s] = After(q, k)]
          /\ invoice' = [invoice EXCEPT ![k[2]][k[1]][year] = Bill(fees)]
          /\ admission' = admission
      BY <1>8 DEF Create
    <2>3. year \in Sessions BY <2>0 DEF Request
    <2>4. Bill(fees) \in Row BY DEF Bill, Absent, Row
    <2> HIDE DEF q, fees, year
    <2>5. After(q, k) \in Request BY <2>1, IdleIsRequest DEF After, Request
    <2>6. request' \in [Slots -> Request]
      BY <1>0, <2>2, <2>5, OvertakenTyped DEF TypeOK
    <2>7. invoice' \in [Students -> [Periods -> [Sessions -> Row]]]
      BY <1>0, <2>2, <2>3, <2>4 DEF TypeOK
    <2> QED BY <1>0, <2>2, <2>6, <2>7 DEF TypeOK
  <1>9. ASSUME NEW s \in Slots, NEW k \in Periods \X Students, Refuse(s, k) PROVE TypeOK'
    <2>0. request[s] \in Request BY <1>0 DEF TypeOK
    <2>1. [request[s] EXCEPT !.errors = @ \cup {k}] \in Request BY <2>0 DEF Request
    <2>2. request' \in [Slots -> Request]
      BY <1>0, <1>9, <2>1, AdvanceTyped DEF Refuse, TypeOK
    <2> QED BY <1>0, <1>9, <2>2 DEF Refuse, TypeOK
  <1>10. ASSUME NEW s \in Slots, Fail(s) PROVE TypeOK'
    BY <1>0, <1>10, IdleIsRequest DEF Fail, Release, TypeOK
  <1>11. ASSUME NEW st \in Students, NEW p \in Periods, NEW y \in Sessions,
                Cancel(st, p, y) \/ Fine(st, p, y) \/ Waive(st, p, y)
         PROVE  TypeOK'
    <2>1. invoice[st][p][y] \in Row BY <1>0 DEF TypeOK
    <2>2. \E row \in Row : invoice' = [invoice EXCEPT ![st][p][y] = row]
      BY <1>0, <1>11, <2>1, RowChanges
    <2>3. invoice' \in [Students -> [Periods -> [Sessions -> Row]]]
      BY <1>0, <2>2 DEF TypeOK
    <2>4. request' \in [Slots -> Request]
      BY <1>0, <1>11, OvertakenTyped DEF Cancel, Fine, Waive, TypeOK
    <2> QED BY <1>0, <1>11, <2>3, <2>4 DEF Cancel, Fine, Waive, TypeOK
  <1>12. CASE UNCHANGED vars BY <1>0, <1>12 DEF vars, TypeOK
  <1>13. ASSUME NEW s \in Slots, NEW k \in Periods \X Students, ComesToNothing(s, k)
         PROVE  TypeOK'
    <2>0. request[s] \in Request BY <1>0 DEF TypeOK
    <2>1. [request[s] EXCEPT !.empty = @ \cup {k}] \in Request BY <2>0 DEF Request
    <2>2. request' \in [Slots -> Request]
      BY <1>0, <1>13, <2>1, AdvanceTyped DEF ComesToNothing, TypeOK
    <2> QED BY <1>0, <1>13, <2>2 DEF ComesToNothing, TypeOK
  <1> QED
    BY <1>0, <1>1, <1>2, <1>3, <1>4, <1>5, <1>6, <1>7, <1>8, <1>9, <1>10, <1>11, <1>12,
       <1>13, ProceedSteps
       DEF Next, Start

---------------------------------------------------------------------------
(* What no step undoes.                                                    *)

\* A row once created stays, and so does an admission.
Lasting ==
    /\ \A st \in Students, p \in Periods, y \in Sessions :
        Exists(invoice[st][p][y]) => Exists(invoice'[st][p][y])
    /\ \A st \in Admitted : admission'[st] = admission[st]

LEMMA StepsLast == TypeOK /\ [Next]_vars => Lasting
  <1> SUFFICES ASSUME TypeOK, [Next]_vars PROVE Lasting OBVIOUS
  <1>1. ASSUME NEW s \in Slots, NEW k \in Periods \X Students, Create(s, k)
        PROVE  Lasting
    <2> DEFINE year == request[s].session[k[1]]
    <2> DEFINE fees == IF request[s].charged THEN "TUITION" ELSE "ADMISSION"
    <2>1. year \in Sessions BY DEF TypeOK, Request
    <2>2. invoice' = [invoice EXCEPT ![k[2]][k[1]][year] = Bill(fees)]
      BY <1>1 DEF Create
    <2>3. Exists(Bill(fees)) BY DEF Exists, Bill, Absent
    <2>4. admission' = admission BY <1>1 DEF Create
    <2> HIDE DEF year, fees
    <2> QED BY <2>1, <2>2, <2>3, <2>4 DEF TypeOK, Lasting
  <1>2. ASSUME NEW st \in Students, NEW p \in Periods, NEW y \in Sessions,
               Cancel(st, p, y) \/ Fine(st, p, y) \/ Waive(st, p, y)
        PROVE  Lasting
    <2>1. PICK row \in Row : /\ invoice' = [invoice EXCEPT ![st][p][y] = row]
                             /\ row.fees = invoice[st][p][y].fees
      BY <1>2, RowChanges
    <2>2. admission' = admission BY <1>2 DEF Cancel, Fine, Waive
    <2> QED BY <2>1, <2>2 DEF TypeOK, Lasting, Exists
  <1>3. ASSUME NEW s \in Slots, NEW st \in Students, NEW p \in Periods,
               NEW year \in Sessions, Admit(s, st, p, year)
        PROVE  Lasting
    BY <1>3 DEF Admit, Enter, TypeOK, Lasting, Admitted
  <1>4. CASE UNCHANGED <<admission, invoice>> BY <1>4 DEF Lasting
  <1>5. CASE UNCHANGED vars BY <1>5 DEF Lasting, vars
  <1>6. ASSUME NEW s \in Slots, Start(s),
               ~ \E st \in Students, p \in Periods, year \in Sessions : Admit(s, st, p, year)
        PROVE  UNCHANGED <<admission, invoice>>
    BY <1>6 DEF Start, AutoGenerate, Generate, Enter
  <1>7. ASSUME NEW s \in Slots, Proceed(s), ~ \E k \in Periods \X Students : Create(s, k)
        PROVE  UNCHANGED <<admission, invoice>>
    BY <1>7, ProceedSteps
       DEF IInv, ListPeriods, ReadCharged, Look, Price, ComesToNothing, Refuse
  <1>8. ASSUME NEW s \in Slots, Fail(s) PROVE UNCHANGED <<admission, invoice>>
    BY <1>8 DEF Fail
  <1> QED
    BY <1>1, <1>2, <1>3, <1>4, <1>5, <1>6, <1>7, <1>8 DEF Next

\* A request that another step at most makes late.
Undisturbed(u) ==
    /\ request'[u].students = request[u].students
    /\ request'[u].op = request[u].op
    /\ request'[u].step = request[u].step
    /\ request'[u].listed = request[u].listed
    /\ request'[u].todo = request[u].todo
    /\ request'[u].errors = request[u].errors
    /\ request'[u].empty = request[u].empty
    /\ request'[u].item = request[u].item
    /\ request'[u].charged = request[u].charged

LEMMA OvertakenUndisturbed ==
    ASSUME TypeOK, NEW u \in Slots, NEW k, NEW fees,
           request'[u] = Overtaken(k, fees)[u]
    PROVE  /\ Undisturbed(u)
           /\ request'[u].late = request[u].late \cup Missed(request[u], k, fees)
  <1>1. request[u] \in Request BY DEF TypeOK
  <1>2. request'[u] = [request[u] EXCEPT !.late = @ \cup Missed(request[u], k, fees)]
    BY DEF Overtaken
  <1> QED BY <1>1, <1>2 DEF Undisturbed, Request

\* What a request that does not move is in, lasts.
LEMMA UntouchedPlaced ==
    ASSUME TypeOK, NEW s \in Slots, Placed(s), Accounted(s), Lasting,
           Undisturbed(s)
    PROVE  Placed(s)' /\ Accounted(s)'
  <1>0. request[s] \in Request BY DEF TypeOK
  <1>1. \A st \in Admitted : st \in Students /\ st \in Admitted'
    BY DEF Lasting, Admitted
  <1>2. Placed(s)' BY <1>0, <1>1 DEF Placed, Lasting, Undisturbed
  <1>3. \A k \in request[s].listed : k[1] \in Periods /\ k[2] \in Students
    BY <1>0 DEF Request
  <1>4. Accounted(s)' BY <1>3 DEF Accounted, Lasting, Undisturbed
  <1> QED BY <1>2, <1>4

---------------------------------------------------------------------------
(* What the request of a step is left in.                                  *)

\* A free slot owes nothing.
LEMMA IdlePlaced ==
    ASSUME NEW s \in Slots, request'[s] = Idle
    PROVE  Placed(s)' /\ Accounted(s)'
  BY DEF Idle, Placed, Accounted

LEMMA GeneratePlaced ==
    ASSUME TypeOK, NEW s \in Slots, NEW sts \in SUBSET Students,
           NEW from \in Periods, NEW to \in Periods, NEW year \in Sessions,
           Generate(s, sts, from, to, year)
    PROVE  Placed(s)' /\ Accounted(s)'
  <1> DEFINE pairs == {k \in Months(from, to) \X sts : admission[k[2]] <= k[1]}
  <1>1. sts \subseteq Admitted /\ admission' = admission BY DEF Generate
  <1>2. Admitted' = Admitted BY <1>1 DEF Admitted
  <1>3. \A k \in pairs : k[2] \in sts /\ admission[k[2]] <= k[1] OBVIOUS
  <1>4. /\ request'[s].students = sts /\ request'[s].todo = pairs
        /\ request'[s].listed = pairs /\ request'[s].op = "GENERATE"
        /\ request'[s].step = "look"
    BY DEF Generate, Enter, Idle, TypeOK
  <1> HIDE DEF pairs
  <1>5. Placed(s)' BY <1>1, <1>2, <1>3, <1>4 DEF Placed
  <1>6. Accounted(s)' BY <1>4 DEF Accounted
  <1> QED BY <1>5, <1>6

LEMMA AutoPlaced ==
    ASSUME TypeOK, NEW s \in Slots, NEW st \in Students, NEW year \in Sessions,
           Enter(s, AutoBilling(st, year)), st \in Admitted'
    PROVE  Placed(s)' /\ Accounted(s)'
  <1>1. /\ request'[s].students = {st} /\ request'[s].todo = {}
        /\ request'[s].listed = {} /\ request'[s].step = "list"
    BY DEF Enter, AutoBilling, Idle, TypeOK
  <1>2. Placed(s)' BY <1>1 DEF Placed
  <1>3. Accounted(s)' BY <1>1 DEF Accounted
  <1> QED BY <1>2, <1>3

\* Listing the periods changes four fields of a request.
LEMMA ListedFields ==
    ASSUME NEW q \in Request, NEW session, NEW pairs
    PROVE  LET r == [q EXCEPT !.step = "charged", !.session = session,
                              !.listed = pairs, !.todo = pairs]
           IN  /\ r.students = q.students /\ r.op = q.op /\ r.step = "charged"
               /\ r.todo = pairs /\ r.listed = pairs /\ r.charged = q.charged
  BY DEF Request

LEMMA ListPlaced ==
    ASSUME IInv, NEW s \in Slots, NEW st \in Students,
           NEW session \in [Periods -> Sessions], ListPeriods(s, st, session)
    PROVE  Placed(s)' /\ Accounted(s)'
  <1> DEFINE ps == {k[1] : k \in PeriodsToGenerate(st)}
  <1> DEFINE pairs == (ps \cup {admission[st]}) \X {st}
  <1>1. TypeOK /\ Placed(s) BY DEF IInv
  <1>2. st \in request[s].students /\ st \in Admitted /\ request[s].op = "AUTO"
    BY <1>1 DEF ListPeriods, Placed, Waiting
  <1>3. admission[st] \in Periods /\ \A p \in ps : admission[st] <= p
    BY <1>1, <1>2, PeriodsFound
  <1>4. \A k \in pairs : k[2] = st /\ admission[k[2]] <= k[1]
    BY <1>3 DEF Periods
  <1>5. /\ request'[s].students = request[s].students /\ request'[s].op = "AUTO"
        /\ request'[s].step = "charged"
        /\ request'[s].todo = pairs /\ request'[s].listed = pairs
        /\ admission' = admission /\ invoice' = invoice
    <2>0. request[s] \in Request BY <1>1 DEF TypeOK
    <2>1. /\ request' = [request EXCEPT ![s] =
                [request[s] EXCEPT !.step = "charged", !.session = session,
                                   !.listed = pairs, !.todo = pairs]]
          /\ admission' = admission /\ invoice' = invoice
      BY <1>1 DEF ListPeriods, TypeOK
    <2> HIDE DEF pairs
    <2>2. request'[s] = [request[s] EXCEPT !.step = "charged", !.session = session,
                                           !.listed = pairs, !.todo = pairs]
      BY <1>1, <2>1 DEF TypeOK
    <2>3. LET r == [request[s] EXCEPT !.step = "charged", !.session = session,
                                      !.listed = pairs, !.todo = pairs]
          IN  /\ r.students = request[s].students /\ r.op = request[s].op
              /\ r.step = "charged" /\ r.todo = pairs /\ r.listed = pairs
      BY <2>0, ListedFields
    <2> QED BY <1>2, <2>1, <2>2, <2>3
  <1>6. Admitted' = Admitted BY <1>5 DEF Admitted
  <1> HIDE DEF pairs
  <1>7. Placed(s)' BY <1>1, <1>2, <1>4, <1>5, <1>6 DEF Placed
  <1>8. Accounted(s)' BY <1>5 DEF Accounted
  <1> QED BY <1>7, <1>8

\* Going on after `k', which is billed or reported.
LEMMA AdvancePlaced ==
    ASSUME TypeOK, NEW s \in Slots, Placed(s), Accounted(s), Lasting,
           NEW k \in Periods \X Students, NEW q \in Request,
           request'[s] = After(q, k),
           q.students = request[s].students, q.op = request[s].op,
           q.todo = request[s].todo, q.listed = request[s].listed,
           request[s].errors \subseteq q.errors, request[s].empty \subseteq q.empty,
           k \in q.errors \cup q.empty \/ \E y \in Sessions : Exists(invoice'[k[2]][k[1]][y])
    PROVE  Placed(s)' /\ Accounted(s)'
  <1>1. CASE q.todo = {k}
    BY <1>1, IdlePlaced DEF After
  <1>2. CASE q.todo # {k}
    <2>1. /\ request'[s].students = request[s].students
          /\ request'[s].op = request[s].op
          /\ request'[s].step = "look"
          /\ request'[s].todo = request[s].todo \ {k}
          /\ request'[s].listed = request[s].listed
          /\ request'[s].errors = q.errors
          /\ request'[s].empty = q.empty
      BY <1>2 DEF After, Request
    <2>2. request[s] \in Request BY DEF TypeOK
    <2>3. \A st \in Admitted : st \in Students /\ st \in Admitted'
      BY DEF Lasting, Admitted
    <2>4. Placed(s)' BY <2>1, <2>2, <2>3 DEF Placed, Lasting
    <2>5. \A j \in request[s].listed : j[1] \in Periods /\ j[2] \in Students
      BY <2>2 DEF Request
    <2>6. Accounted(s)' BY <2>1, <2>5 DEF Accounted, Lasting
    <2> QED BY <2>4, <2>6
  <1> QED BY <1>1, <1>2

\* A request that only notes what it has read or takes up a pair.
LEMMA NotedPlaced ==
    ASSUME TypeOK, NEW s \in Slots, Placed(s), Accounted(s), Lasting,
           request'[s].students = request[s].students,
           request'[s].op = request[s].op,
           request'[s].todo = request[s].todo,
           request'[s].listed = request[s].listed,
           request'[s].errors = request[s].errors,
           request'[s].empty = request[s].empty,
           request'[s].step \in {"price", "create"} => request'[s].item \in request[s].todo
    PROVE  Placed(s)' /\ Accounted(s)'
  <1>1. request[s] \in Request BY DEF TypeOK
  <1>2. \A st \in Admitted : st \in Students /\ st \in Admitted'
    BY DEF Lasting, Admitted
  <1>3. Placed(s)' BY <1>1, <1>2 DEF Placed, Lasting
  <1>4. \A j \in request[s].listed : j[1] \in Periods /\ j[2] \in Students
    BY <1>1 DEF Request
  <1>5. Accounted(s)' BY <1>4 DEF Accounted, Lasting
  <1> QED BY <1>3, <1>5

---------------------------------------------------------------------------
(* The invariant.                                                          *)

\* What creating an invoice changes: a row, the request and what others know.
LEMMA CreateEffect ==
    ASSUME TypeOK, NEW s \in Slots, NEW k \in Periods \X Students, Create(s, k)
    PROVE  LET q == request[s]
               year == q.session[k[1]]
               fees == IF q.charged THEN "TUITION" ELSE "ADMISSION"
           IN  /\ q \in Request /\ year \in Sessions /\ k[1] \in Periods /\ k[2] \in Students
               /\ k = <<k[1], k[2]>>
               /\ q.op \in {"AUTO", "GENERATE"} /\ q.step = "create" /\ q.item = k
               /\ invoice' = [invoice EXCEPT ![k[2]][k[1]][year] = Bill(fees)]
               /\ [q EXCEPT !.charged = TRUE] \in Request
               /\ request'[s] = After([q EXCEPT !.charged = TRUE], k)
               /\ \A u \in Slots \ {s} : request'[u] = Overtaken(k, fees)[u]
  <1> DEFINE fees == IF request[s].charged THEN "TUITION" ELSE "ADMISSION"
  <1> DEFINE q == [request[s] EXCEPT !.charged = TRUE]
  <1>1. request[s] \in Request BY DEF TypeOK
  <1>2. request[s].session[k[1]] \in Sessions BY <1>1 DEF Request
  <1>3. /\ request[s].op \in {"AUTO", "GENERATE"} /\ request[s].step = "create"
        /\ request[s].item = k
    BY <1>1 DEF Create, Request
  <1>4. q \in Request BY <1>1 DEF Request
  <1>5. /\ request' = [Overtaken(k, fees) EXCEPT ![s] = After(q, k)]
        /\ invoice' = [invoice EXCEPT ![k[2]][k[1]][request[s].session[k[1]]] = Bill(fees)]
    BY DEF Create
  <1> HIDE DEF fees, q
  <1>6. Overtaken(k, fees) \in [Slots -> Request] BY OvertakenTyped DEF TypeOK
  <1>7. /\ request'[s] = After(q, k)
        /\ \A u \in Slots \ {s} : request'[u] = Overtaken(k, fees)[u]
    BY <1>5, <1>6
  <1> QED BY <1>1, <1>2, <1>3, <1>4, <1>5, <1>7 DEF q, fees

\* The slot that takes a step; the others stay as they are.
LEMMA SlotPlaced ==
    ASSUME IInv, NEW s \in Slots, Start(s) \/ Proceed(s) \/ Fail(s), Lasting
    PROVE  /\ Placed(s)' /\ Accounted(s)'
           /\ \A u \in Slots \ {s} : Undisturbed(u)
           /\ \/ \E k \in Periods \X Students : Create(s, k)
              \/ \A u \in Slots \ {s} : request'[u] = request[u]
  <1>0. TypeOK /\ Placed(s) /\ Accounted(s) /\ request[s] \in Request
    BY DEF IInv, TypeOK, NobodySkipped
  <1>1. ASSUME NEW st \in Students, NEW p \in Periods, NEW year \in Sessions,
               Admit(s, st, p, year)
        PROVE  Placed(s)' /\ Accounted(s)' /\ \A u \in Slots \ {s} : request'[u] = request[u]
    <2>1. st \in Admitted' /\ Enter(s, AutoBilling(st, year))
      BY <1>0, <1>1 DEF Admit, Admitted, TypeOK, Periods
    <2> QED BY <1>0, <2>1, AutoPlaced DEF Enter, TypeOK
  <1>2. ASSUME NEW st \in Students, NEW year \in Sessions, AutoGenerate(s, st, year)
        PROVE  Placed(s)' /\ Accounted(s)' /\ \A u \in Slots \ {s} : request'[u] = request[u]
    <2>1. st \in Admitted' /\ Enter(s, AutoBilling(st, year))
      BY <1>2 DEF AutoGenerate, Admitted
    <2> QED BY <1>0, <2>1, AutoPlaced DEF Enter, TypeOK
  <1>3. ASSUME NEW sts \in SUBSET Students, NEW from \in Periods, NEW to \in Periods,
               NEW year \in Sessions, Generate(s, sts, from, to, year)
        PROVE  Placed(s)' /\ Accounted(s)' /\ \A u \in Slots \ {s} : request'[u] = request[u]
    <2>1. \E q : Enter(s, q) BY <1>3 DEF Generate
    <2>2. \A u \in Slots \ {s} : request'[u] = request[u] BY <1>0, <2>1 DEF Enter, TypeOK
    <2> QED BY <1>0, <1>3, <2>2, GeneratePlaced
  <1>4. ASSUME NEW st \in Students, NEW session \in [Periods -> Sessions],
               ListPeriods(s, st, session)
        PROVE  Placed(s)' /\ Accounted(s)' /\ \A u \in Slots \ {s} : request'[u] = request[u]
    <2>1. \A u \in Slots \ {s} : request'[u] = request[u]
      BY <1>0, <1>4 DEF ListPeriods, TypeOK
    <2> QED BY <1>4, <2>1, ListPlaced
  <1>5. ASSUME NEW st \in Students, ReadCharged(s, st)
        PROVE  Placed(s)' /\ Accounted(s)' /\ \A u \in Slots \ {s} : request'[u] = request[u]
    <2> HIDE DEF ChargedOneTime
    <2>1. /\ request'[s] = [request[s] EXCEPT !.step = "look", !.charged = ChargedOneTime(st)]
          /\ \A u \in Slots \ {s} : request'[u] = request[u]
      BY <1>0, <1>5 DEF ReadCharged, TypeOK
    <2> QED BY <1>0, <2>1, NotedPlaced DEF Request
  <1>6. ASSUME NEW k \in Periods \X Students, Look(s, k)
        PROVE  Placed(s)' /\ Accounted(s)' /\ \A u \in Slots \ {s} : request'[u] = request[u]
    <2>1. CASE Billed(k[2], k[1]) # {}
      <3>1. PICK y \in Sessions : Live(invoice[k[2]][k[1]][y])
        BY <2>1 DEF Billed
      <3>2. Exists(invoice'[k[2]][k[1]][y])
        BY <1>6, <3>1 DEF Look, Live, Exists
      <3>3. Advance(s, k, request[s]) BY <1>6, <2>1 DEF Look
      <3>4. \A u \in Slots \ {s} : request'[u] = request[u]
        BY <1>0, <3>3 DEF Advance, TypeOK
      <3>5. request'[s] = After(request[s], k) BY <1>0, <3>3 DEF Advance, TypeOK
      <3> QED BY <1>0, <3>2, <3>4, <3>5, AdvancePlaced
    <2>2. CASE Billed(k[2], k[1]) = {}
      <3>1. k \in request[s].todo BY <1>6 DEF Look, IsNext
      <3>2. /\ \E step \in {"price", "create"} :
                request'[s] = [request[s] EXCEPT !.step = step, !.item = k]
            /\ \A u \in Slots \ {s} : request'[u] = request[u]
        BY <1>0, <1>6, <2>2 DEF Look, TypeOK
      <3>3. PICK step \in {"price", "create"} :
                request'[s] = [request[s] EXCEPT !.step = step, !.item = k]
        BY <3>2
      <3>4. /\ request'[s].students = request[s].students
            /\ request'[s].op = request[s].op
            /\ request'[s].todo = request[s].todo
            /\ request'[s].listed = request[s].listed
            /\ request'[s].errors = request[s].errors
            /\ request'[s].empty = request[s].empty
            /\ request'[s].item = k
        BY <1>0, <3>3 DEF Request
      <3> QED BY <1>0, <3>1, <3>2, <3>4, NotedPlaced
    <2> QED BY <2>1, <2>2
  <1>7. ASSUME NEW k \in Periods \X Students, Price(s, k)
        PROVE  Placed(s)' /\ Accounted(s)' /\ \A u \in Slots \ {s} : request'[u] = request[u]
    <2>1. /\ request'[s] = [request[s] EXCEPT !.step = "create",
                                              !.charged = ChargedOneTime(k[2])]
          /\ \A u \in Slots \ {s} : request'[u] = request[u]
          /\ request[s].item = k /\ request[s].step = "price"
      BY <1>0, <1>7 DEF Price, TypeOK, Waiting
    <2>2. k \in request[s].todo BY <1>0, <2>1 DEF Placed
    <2> QED BY <1>0, <2>1, <2>2, NotedPlaced DEF Request
  <1>8. ASSUME NEW k \in Periods \X Students, Create(s, k)
        PROVE  Placed(s)' /\ Accounted(s)' /\ \A u \in Slots \ {s} : Undisturbed(u)
    <2> DEFINE q == [request[s] EXCEPT !.charged = TRUE]
    <2> DEFINE year == request[s].session[k[1]]
    <2> DEFINE fees == IF request[s].charged THEN "TUITION" ELSE "ADMISSION"
    <2>1. /\ q \in Request /\ request'[s] = After(q, k) /\ year \in Sessions
          /\ invoice' = [invoice EXCEPT ![k[2]][k[1]][year] = Bill(fees)]
          /\ k[1] \in Periods /\ k[2] \in Students
          /\ \A u \in Slots \ {s} : request'[u] = Overtaken(k, fees)[u]
      BY <1>0, <1>8, CreateEffect
    <2>2. /\ q.students = request[s].students
          /\ q.op = request[s].op /\ q.todo = request[s].todo
          /\ q.listed = request[s].listed /\ q.errors = request[s].errors
          /\ q.empty = request[s].empty
      BY <1>0 DEF Request
    <2>3. Exists(Bill(fees)) BY DEF Exists, Bill, Absent
    <2> HIDE DEF q, year, fees
    <2>4. \E y \in Sessions : Exists(invoice'[k[2]][k[1]][y])
      BY <1>0, <2>1, <2>3 DEF TypeOK
    <2>5. \A u \in Slots \ {s} : Undisturbed(u)
      BY <1>0, <2>1, OvertakenUndisturbed
    <2> QED BY <1>0, <2>1, <2>2, <2>4, <2>5, AdvancePlaced
  <1>9. ASSUME NEW k \in Periods \X Students, Refuse(s, k)
        PROVE  Placed(s)' /\ Accounted(s)' /\ \A u \in Slots \ {s} : request'[u] = request[u]
    <2> DEFINE q == [request[s] EXCEPT !.errors = @ \cup {k}]
    <2>1. Advance(s, k, q) BY <1>9 DEF Refuse
    <2>2. /\ q \in Request /\ q.students = request[s].students
          /\ q.op = request[s].op /\ q.todo = request[s].todo
          /\ q.listed = request[s].listed /\ q.errors = request[s].errors \cup {k}
          /\ q.empty = request[s].empty
      BY <1>0 DEF Request
    <2> HIDE DEF q
    <2>3. /\ \A u \in Slots \ {s} : request'[u] = request[u]
          /\ request'[s] = After(q, k)
      BY <1>0, <2>1 DEF Advance, TypeOK
    <2> QED BY <1>0, <2>2, <2>3, AdvancePlaced
  <1>11. ASSUME NEW k \in Periods \X Students, ComesToNothing(s, k)
         PROVE  Placed(s)' /\ Accounted(s)' /\ \A u \in Slots \ {s} : request'[u] = request[u]
    <2> DEFINE q == [request[s] EXCEPT !.empty = @ \cup {k}]
    <2>1. Advance(s, k, q) BY <1>11 DEF ComesToNothing
    <2>2. /\ q \in Request /\ q.students = request[s].students
          /\ q.op = request[s].op /\ q.todo = request[s].todo
          /\ q.listed = request[s].listed /\ q.empty = request[s].empty \cup {k}
          /\ q.errors = request[s].errors
      BY <1>0 DEF Request
    <2> HIDE DEF q
    <2>3. /\ \A u \in Slots \ {s} : request'[u] = request[u]
          /\ request'[s] = After(q, k)
      BY <1>0, <2>1 DEF Advance, TypeOK
    <2> QED BY <1>0, <2>2, <2>3, AdvancePlaced
  <1>10. ASSUME Fail(s)
         PROVE  Placed(s)' /\ Accounted(s)' /\ \A u \in Slots \ {s} : request'[u] = request[u]
    BY <1>0, <1>10, IdlePlaced DEF Fail, Release, TypeOK
  <1>12. \A u \in Slots : request'[u] = request[u] => Undisturbed(u)
    BY DEF Undisturbed
  <1> QED
    BY <1>0, <1>1, <1>2, <1>3, <1>4, <1>5, <1>6, <1>7, <1>8, <1>9, <1>10, <1>11, <1>12,
       ProceedSteps
    DEF Start

LEMMA AdmissionStep == IInv /\ [Next]_vars => NotBeforeAdmission'
  <1> SUFFICES ASSUME IInv, [Next]_vars PROVE NotBeforeAdmission' OBVIOUS
  <1>0. TypeOK /\ NotBeforeAdmission /\ Lasting BY StepsLast DEF IInv
  <1>1. \A st \in Admitted : st \in Admitted' BY <1>0 DEF Lasting, Admitted
  <1>2. ASSUME UNCHANGED invoice PROVE NotBeforeAdmission'
    BY <1>0, <1>1, <1>2 DEF NotBeforeAdmission, Lasting
  <1>3. ASSUME NEW s \in Slots, NEW k \in Periods \X Students, Create(s, k)
        PROVE  NotBeforeAdmission'
    <2> DEFINE year == request[s].session[k[1]]
    <2> DEFINE fees == IF request[s].charged THEN "TUITION" ELSE "ADMISSION"
    <2>1. /\ invoice' = [invoice EXCEPT ![k[2]][k[1]][year] = Bill(fees)]
          /\ year \in Sessions
      BY <1>0, <1>3, CreateEffect
    <2>2. k \in request[s].todo BY <1>3 DEF Create, IInv, Placed
    <2>3. k[2] \in Admitted /\ admission[k[2]] <= k[1] BY <2>2 DEF IInv, Placed
    <2> HIDE DEF year, fees
    <2>4. \A st \in Students, p \in Periods, y \in Sessions :
            Exists(invoice'[st][p][y]) =>
                Exists(invoice[st][p][y]) \/ (st = k[2] /\ p = k[1])
      BY <1>0, <2>1 DEF TypeOK
    <2> QED BY <1>0, <1>1, <2>3, <2>4 DEF NotBeforeAdmission, Lasting
  <1>4. ASSUME NEW st \in Students, NEW p \in Periods, NEW y \in Sessions,
               Cancel(st, p, y) \/ Fine(st, p, y) \/ Waive(st, p, y)
        PROVE  NotBeforeAdmission'
    <2>0. PICK row \in Row : /\ invoice' = [invoice EXCEPT ![st][p][y] = row]
                             /\ row.fees = invoice[st][p][y].fees
      BY <1>0, <1>4, RowChanges
    <2>1. \A u \in Students, q \in Periods, z \in Sessions :
            Exists(invoice'[u][q][z]) => Exists(invoice[u][q][z])
      BY <1>0, <2>0 DEF TypeOK, Exists
    <2> QED BY <1>0, <1>1, <2>1 DEF NotBeforeAdmission, Lasting
  <1>5. ASSUME NEW s \in Slots, Start(s) PROVE UNCHANGED invoice
    BY <1>5 DEF Start, Admit, AutoGenerate, Generate, Enter
  <1>6. ASSUME NEW s \in Slots, Proceed(s), ~ \E k \in Periods \X Students : Create(s, k)
        PROVE  UNCHANGED invoice
    BY <1>6, ProceedSteps DEF IInv, ListPeriods, ReadCharged, Look, Price, ComesToNothing,
                             Refuse
  <1>7. ASSUME NEW s \in Slots, Fail(s) PROVE UNCHANGED invoice BY <1>7 DEF Fail
  <1>8. CASE UNCHANGED vars BY <1>2, <1>8 DEF vars
  <1> QED BY <1>2, <1>3, <1>4, <1>5, <1>6, <1>7, <1>8 DEF Next

LEMMA PlacedStep ==
    IInv /\ [Next]_vars => \A s \in Slots : Placed(s)' /\ Accounted(s)'
  <1> SUFFICES ASSUME IInv, [Next]_vars
               PROVE  \A s \in Slots : Placed(s)' /\ Accounted(s)'
    OBVIOUS
  <1>0. TypeOK /\ Lasting BY StepsLast DEF IInv
  <1>1. \A s \in Slots : Placed(s) /\ Accounted(s) BY DEF IInv, NobodySkipped
  <1>2. ASSUME NEW s \in Slots, Undisturbed(s)
        PROVE  Placed(s)' /\ Accounted(s)'
    BY <1>0, <1>1, <1>2, UntouchedPlaced
  <1>3. ASSUME NEW s \in Slots, Start(s) \/ Proceed(s) \/ Fail(s)
        PROVE  \A u \in Slots : Placed(u)' /\ Accounted(u)'
    BY <1>0, <1>2, <1>3, SlotPlaced
  <1>4. CASE UNCHANGED request BY <1>2, <1>4 DEF Undisturbed
  <1>5. ASSUME NEW st \in Students, NEW p \in Periods, NEW y \in Sessions,
               Waive(st, p, y), ~UNCHANGED request
        PROVE  \A u \in Slots : Placed(u)' /\ Accounted(u)'
    <2>1. request' = Overtaken(<<p, st>>, invoice[st][p][y].fees) BY <1>5 DEF Waive
    <2> QED BY <1>0, <1>2, <2>1, OvertakenUndisturbed
  <1> QED BY <1>3, <1>4, <1>5 DEF Next, Cancel, Fine, vars

---------------------------------------------------------------------------
(* What requests know.                                                     *)

\* What writing one row does to the invoices in force.
LEMMA RowWritten ==
    ASSUME TypeOK, NEW st \in Students, NEW p \in Periods, NEW y \in Sessions, NEW row,
           invoice' = [invoice EXCEPT ![st][p][y] = row]
    PROVE  /\ \A a \in Students, q \in Periods : <<q, a>> # <<p, st>> =>
                Billed(a, q)' = Billed(a, q)
           /\ Billed(st, p)' \subseteq Billed(st, p) \cup IF Live(row) THEN {y} ELSE {}
           /\ \A a \in Students \ {st} : OneTimeInvoices(a)' = OneTimeInvoices(a)
           /\ OneTimeInvoices(st)' \subseteq
                OneTimeInvoices(st) \cup IF OneTime(row) THEN {<<p, y>>} ELSE {}
  <1>1. /\ \A a \in Students, q \in Periods : <<q, a>> # <<p, st>> =>
                invoice'[a][q] = invoice[a][q]
        /\ \A z \in Sessions : z # y => invoice'[st][p][z] = invoice[st][p][z]
        /\ invoice'[st][p][y] = row
        /\ \A a \in Students \ {st} : invoice'[a] = invoice[a]
    BY DEF TypeOK
  <1>2. \A a \in Students, q \in Periods : <<q, a>> # <<p, st>> =>
            Billed(a, q)' = Billed(a, q)
    BY <1>1 DEF Billed
  <1>3. Billed(st, p)' \subseteq Billed(st, p) \cup IF Live(row) THEN {y} ELSE {}
    BY <1>1 DEF Billed
  <1>4. \A a \in Students \ {st} : OneTimeInvoices(a)' = OneTimeInvoices(a)
    BY <1>1 DEF OneTimeInvoices
  <1>5. ASSUME NEW j \in OneTimeInvoices(st)', j # <<p, y>>
        PROVE  j \in OneTimeInvoices(st)
    <2>1. /\ j \in Periods \X Sessions /\ OneTime(invoice'[st][j[1]][j[2]])
          /\ j = <<j[1], j[2]>> /\ j[1] \in Periods /\ j[2] \in Sessions
      BY DEF OneTimeInvoices
    <2>2. j[1] # p \/ j[2] # y BY <1>5, <2>1
    <2>3. invoice'[st][j[1]][j[2]] = invoice[st][j[1]][j[2]] BY <1>1, <2>1, <2>2
    <2> QED BY <2>1, <2>3 DEF OneTimeInvoices
  <1>6. <<p, y>> \in OneTimeInvoices(st)' => OneTime(row) BY <1>1 DEF OneTimeInvoices
  <1> QED BY <1>2, <1>3, <1>4, <1>5, <1>6

\* What a request learns late of.
LEMMA MissedMembers ==
    ASSUME NEW q, NEW k, NEW fees
    PROVE  /\ q.step \in {"price", "create"} /\ q.item = k => "bill" \in Missed(q, k, fees)
           /\ fees = "ADMISSION" /\ KnowsFees(q, k[2]) => "fee" \in Missed(q, k, fees)
  BY DEF Missed

\* A request that nothing is billed behind the back of knows what it knew.
LEMMA StillCurrent ==
    ASSUME TypeOK, NEW u \in Slots, Placed(u), Current(u), Undisturbed(u),
           request[u].late \subseteq request'[u].late,
           NEW k \in Periods \X Students, NEW fees,
           Missed(request[u], k, fees) \subseteq request'[u].late,
           \A st \in Students, p \in Periods : <<p, st>> # k =>
                Billed(st, p)' \subseteq Billed(st, p),
           \A st \in Students : st # k[2] \/ fees # "ADMISSION" =>
                OneTimeInvoices(st)' \subseteq OneTimeInvoices(st)
    PROVE  Current(u)'
  <1>0. request[u] \in Request BY DEF TypeOK
  <1>1. ASSUME request[u].step \in {"price", "create"}, "bill" \notin request'[u].late
        PROVE  \A item : item = request[u].item => Billed(item[2], item[1])' = {}
    <2>1. request[u].item \in request[u].todo BY <1>1 DEF Placed
    <2>2. /\ request[u].item \in Periods \X Students
          /\ request[u].item[1] \in Periods /\ request[u].item[2] \in Students
          /\ request[u].item = <<request[u].item[1], request[u].item[2]>>
      BY <1>0, <2>1 DEF Request
    <2>3. Billed(request[u].item[2], request[u].item[1]) = {} BY <1>1 DEF Current
    <2>4. request[u].item # k BY <1>1, MissedMembers
    <2> QED BY <2>2, <2>3, <2>4
  <1>2. ASSUME ~request[u].charged, "fee" \notin request'[u].late,
               NEW st \in Students, KnowsFees(request[u], st)
        PROVE  ~ChargedOneTime(st)'
    <2>1. OneTimeInvoices(st) = {} BY <1>2 DEF Current, ChargedOneTime
    <2>2. st # k[2] \/ fees # "ADMISSION" BY <1>2, MissedMembers
    <2> QED BY <2>1, <2>2 DEF ChargedOneTime
  <1>3. \A st : KnowsFees(request'[u], st) = KnowsFees(request[u], st)
    BY DEF Undisturbed, KnowsFees
  <1>4. request'[u].step \in {"price", "create"} /\ "bill" \notin request'[u].late =>
            \A item : item = request'[u].item => Billed(item[2], item[1])' = {}
    BY <1>1 DEF Undisturbed
  <1>5. ~request'[u].charged /\ "fee" \notin request'[u].late =>
            \A st \in Students : KnowsFees(request'[u], st) => ~ChargedOneTime(st)'
    BY <1>2, <1>3 DEF Undisturbed
  <1> HIDE DEF ChargedOneTime, KnowsFees, Billed
  <1> QED BY <1>4, <1>5 DEF Current

\* In particular when the invoices do not change.
LEMMA SameCurrent ==
    ASSUME NEW u \in Slots, Current(u), invoice' = invoice, request'[u] = request[u]
    PROVE  Current(u)'
  <1>1. /\ \A a, p : Billed(a, p)' = Billed(a, p)
        /\ \A a : ChargedOneTime(a)' = ChargedOneTime(a)
    BY DEF Billed, ChargedOneTime, OneTimeInvoices
  <1> HIDE DEF Billed, ChargedOneTime
  <1> QED BY <1>1 DEF Current

\* A request that has gone on after a pair: what it still needs to know.
LEMMA AfterCurrent ==
    ASSUME NEW s \in Slots, NEW k, NEW q \in Request, request'[s] = After(q, k),
           q.op = "AUTO" /\ ~q.charged /\ "fee" \notin q.late =>
                \A st \in Students : st \in q.students => ~ChargedOneTime(st)'
    PROVE  Current(s)'
  <1>1. CASE request'[s] = Idle BY <1>1 DEF Current, Idle, KnowsFees
  <1>2. CASE request'[s] = [q EXCEPT !.step = "look", !.item = None, !.todo = @ \ {k},
                                     !.late = IF q.op = "AUTO" THEN @ \ {"bill"} ELSE {}]
    <2>1. /\ request'[s].step = "look" /\ request'[s].op = q.op
          /\ request'[s].students = q.students /\ request'[s].charged = q.charged
          /\ q.op = "AUTO" => request'[s].late = q.late \ {"bill"}
      BY <1>2 DEF Request
    <2> HIDE DEF ChargedOneTime
    <2>2. \A st : KnowsFees(request'[s], st) => q.op = "AUTO" /\ st \in q.students
      BY <2>1 DEF KnowsFees
    <2> QED BY <2>1, <2>2 DEF Current
  <1> QED BY <1>1, <1>2 DEF After

\* What a request knows after its own step.
LEMMA ActorCurrent ==
    ASSUME IInv, NEW s \in Slots, Start(s) \/ Proceed(s) \/ Fail(s)
    PROVE  Current(s)'
  <1>0. /\ TypeOK /\ request \in [Slots -> Request] /\ request[s] \in Request
        /\ Placed(s) /\ Current(s)
    BY DEF IInv, TypeOK
  <1>1. ASSUME NEW q \in Request, Enter(s, q), q.step = "list" \/ q.op = "GENERATE",
               q.step \in {"list", "look"}
        PROVE  Current(s)'
    <2>1. request'[s] = q BY <1>0, <1>1 DEF Enter
    <2> QED BY <1>1, <2>1 DEF Current, KnowsFees
  <1>2. ASSUME NEW st \in Students, NEW year \in Sessions, Enter(s, AutoBilling(st, year))
        PROVE  Current(s)'
    <2>1. AutoBilling(st, year).step = "list" BY DEF AutoBilling, Idle
    <2> QED BY <1>1, <1>2, <2>1, AutoTyped
  <1>3. ASSUME NEW sts \in SUBSET Students, NEW from \in Periods, NEW to \in Periods,
               NEW year \in Sessions, Generate(s, sts, from, to, year)
        PROVE  Current(s)'
    <2> DEFINE pairs == {k \in Months(from, to) \X sts : admission[k[2]] <= k[1]}
    <2> DEFINE sessions == IF from = to THEN [p \in Periods |-> year] ELSE DefaultSession
    <2> DEFINE q == [Idle EXCEPT !.op = "GENERATE", !.students = sts,
                                 !.listed = pairs, !.todo = pairs,
                                 !.session = sessions]
    <2>0. Enter(s, q) BY <1>3 DEF Generate
    <2> HIDE DEF pairs, sessions
    <2>1. Enter(s, q) /\ q.op = "GENERATE" /\ q.step = "look" BY <2>0 DEF Idle
    <2> HIDE DEF q
    <2>2. request'[s] = q BY <1>0, <2>1 DEF Enter
    <2> QED BY <2>1, <2>2 DEF Current, KnowsFees
  <1>4. ASSUME NEW st \in Students, NEW session \in [Periods -> Sessions],
               ListPeriods(s, st, session)
        PROVE  Current(s)'
    <2>1. request'[s].step = "charged" BY <1>0, <1>4 DEF ListPeriods, Request
    <2> QED BY <2>1 DEF Current, KnowsFees
  <1>5. ASSUME NEW st \in Students, ReadCharged(s, st) PROVE Current(s)'
    <2>1. /\ request'[s] = [request[s] EXCEPT !.step = "look",
                                              !.charged = ChargedOneTime(st)]
          /\ request[s].op = "AUTO" /\ invoice' = invoice
          /\ st \in request[s].students
      BY <1>0, <1>5 DEF ReadCharged, Waiting
    <2>2. \A a \in request[s].students : a = st BY <1>0, <2>1 DEF Placed
    <2> HIDE DEF ChargedOneTime
    <2>3. /\ request'[s].step = "look" /\ request'[s].op = "AUTO"
          /\ request'[s].students = request[s].students
          /\ request'[s].charged = ChargedOneTime(st)
      BY <1>0, <2>1 DEF Request
    <2>4. \A a : ChargedOneTime(a)' = ChargedOneTime(a)
      BY <2>1 DEF ChargedOneTime, OneTimeInvoices
    <2>5. \A a : KnowsFees(request'[s], a) => a = st BY <2>2, <2>3 DEF KnowsFees
    <2> QED BY <2>3, <2>4, <2>5 DEF Current
  <1>6. ASSUME NEW k \in Periods \X Students, Look(s, k) PROVE Current(s)'
    <2>0. /\ invoice' = invoice /\ request[s].step = "look" /\ request[s].op # "NONE"
          /\ \A a : ChargedOneTime(a)' = ChargedOneTime(a)
          /\ \A a, p : Billed(a, p)' = Billed(a, p)
      BY <1>6 DEF Look, ChargedOneTime, OneTimeInvoices, Billed
    <2> HIDE DEF ChargedOneTime, Billed
    <2>1. CASE Advance(s, k, request[s])
      <3>1. \A a : request[s].op = "AUTO" /\ a \in request[s].students
                    => KnowsFees(request[s], a)
        BY <2>0 DEF KnowsFees
      <3>2. request'[s] = After(request[s], k) BY <1>0, <2>1 DEF Advance
      <3>3. request[s].op = "AUTO" /\ ~request[s].charged /\ "fee" \notin request[s].late =>
                \A st \in Students : st \in request[s].students => ~ChargedOneTime(st)'
        BY <1>0, <2>0, <3>1 DEF Current
      <3> QED BY <1>0, <3>2, <3>3, AfterCurrent
    <2>2. CASE ~Advance(s, k, request[s])
      <3>1. /\ Billed(k[2], k[1]) = {}
            /\ request'[s] = [request[s] EXCEPT
                !.step = IF request[s].op = "GENERATE" THEN "price" ELSE "create",
                !.item = k]
        BY <1>0, <1>6, <2>2 DEF Look
      <3>2. /\ request'[s].step \in {"price", "create"} /\ request'[s].item = k
            /\ request[s].op = "GENERATE" => request'[s].step = "price"
            /\ request'[s].op = request[s].op
            /\ request'[s].students = request[s].students
            /\ request'[s].charged = request[s].charged
            /\ request'[s].late = request[s].late
        BY <1>0, <3>1 DEF Request
      <3>3. \A a : KnowsFees(request'[s], a) => KnowsFees(request[s], a)
        BY <2>0, <3>2 DEF KnowsFees
      <3> QED BY <1>0, <2>0, <3>1, <3>2, <3>3 DEF Current
    <2> QED BY <2>1, <2>2
  <1>7. ASSUME NEW k \in Periods \X Students, Price(s, k) PROVE Current(s)'
    <2>1. /\ request'[s] = [request[s] EXCEPT !.step = "create",
                                              !.charged = ChargedOneTime(k[2])]
          /\ request[s].op = "GENERATE" /\ request[s].step = "price"
          /\ request[s].item = k /\ invoice' = invoice
      BY <1>0, <1>7 DEF Price, Waiting
    <2>2. /\ \A a : ChargedOneTime(a)' = ChargedOneTime(a)
          /\ \A a, p : Billed(a, p)' = Billed(a, p)
      BY <2>1 DEF ChargedOneTime, OneTimeInvoices, Billed
    <2> HIDE DEF ChargedOneTime, Billed
    <2>3. /\ request'[s].op = "GENERATE" /\ request'[s].item = k
          /\ request'[s].charged = ChargedOneTime(k[2])
          /\ request'[s].late = request[s].late
      BY <1>0, <2>1 DEF Request
    <2>4. \A a : KnowsFees(request'[s], a) => a = k[2] BY <2>3 DEF KnowsFees
    <2>5. "bill" \notin request[s].late => Billed(k[2], k[1]) = {}
      BY <1>0, <2>1 DEF Current
    <2> QED BY <2>2, <2>3, <2>4, <2>5 DEF Current
  <1>8. ASSUME NEW k \in Periods \X Students, Create(s, k) PROVE Current(s)'
    <2> DEFINE q == [request[s] EXCEPT !.charged = TRUE]
    <2>1. q \in Request /\ request'[s] = After(q, k) BY <1>0, <1>8, CreateEffect
    <2>2. q.charged BY <1>0 DEF Request
    <2> HIDE DEF q
    <2> QED BY <2>1, <2>2, AfterCurrent
  <1>9. ASSUME NEW k \in Periods \X Students, Refuse(s, k) PROVE Current(s)'
    <2> DEFINE q == [request[s] EXCEPT !.errors = @ \cup {k}]
    <2>1. Advance(s, k, q) /\ request[s].op = "GENERATE" BY <1>9 DEF Refuse
    <2>2. q \in Request /\ q.op = "GENERATE" BY <1>0, <2>1 DEF Request
    <2> HIDE DEF q
    <2>3. request'[s] = After(q, k) BY <1>0, <2>1 DEF Advance
    <2> QED BY <2>2, <2>3, AfterCurrent
  <1>10. ASSUME NEW k \in Periods \X Students, ComesToNothing(s, k) PROVE Current(s)'
    <2> DEFINE q == [request[s] EXCEPT !.empty = @ \cup {k}]
    <2>1. /\ Advance(s, k, q) /\ request[s].step = "create" /\ invoice' = invoice
      BY <1>10 DEF ComesToNothing
    <2>2. /\ q \in Request /\ q.op = request[s].op /\ q.students = request[s].students
          /\ q.charged = request[s].charged /\ q.late = request[s].late
      BY <1>0 DEF Request
    <2> HIDE DEF q
    <2>3. request'[s] = After(q, k) BY <1>0, <2>1 DEF Advance
    <2>4. \A a : ChargedOneTime(a)' = ChargedOneTime(a)
      BY <2>1 DEF ChargedOneTime, OneTimeInvoices
    <2> HIDE DEF ChargedOneTime
    <2>5. \A a : request[s].op = "AUTO" /\ a \in request[s].students
                    => KnowsFees(request[s], a)
      BY <2>1 DEF KnowsFees
    <2>6. q.op = "AUTO" /\ ~q.charged /\ "fee" \notin q.late =>
            \A st \in Students : st \in q.students => ~ChargedOneTime(st)'
      BY <1>0, <2>2, <2>4, <2>5 DEF Current
    <2> QED BY <2>2, <2>3, <2>6, AfterCurrent
  <1>11. ASSUME Fail(s) PROVE Current(s)'
    <2>1. request'[s] = Idle BY <1>0, <1>11 DEF Fail, Release
    <2> QED BY <2>1 DEF Current, Idle, KnowsFees
  <1> QED
    BY <1>0, <1>2, <1>3, <1>4, <1>5, <1>6, <1>7, <1>8, <1>9, <1>10, <1>11, ProceedSteps
    DEF Start, Admit, AutoGenerate

LEMMA CurrentStep == IInv /\ [Next]_vars => \A s \in Slots : Current(s)'
  <1> SUFFICES ASSUME IInv, [Next]_vars, NEW u \in Slots PROVE Current(u)'
    OBVIOUS
  <1>0. TypeOK /\ Placed(u) /\ Current(u) /\ Lasting
    BY StepsLast DEF IInv
  <1>1. ASSUME NEW s \in Slots, Start(s) \/ Proceed(s) \/ Fail(s) PROVE Current(u)'
    <2>1. CASE s = u BY <1>1, <2>1, ActorCurrent
    <2>2. ASSUME s # u, NEW k \in Periods \X Students, Create(s, k) PROVE Current(u)'
      <3> DEFINE year == request[s].session[k[1]]
      <3> DEFINE fees == IF request[s].charged THEN "TUITION" ELSE "ADMISSION"
      <3>0. k = <<k[1], k[2]>> /\ k[1] \in Periods /\ k[2] \in Students OBVIOUS
      <3>1. /\ year \in Sessions
            /\ invoice' = [invoice EXCEPT ![k[2]][k[1]][year] = Bill(fees)]
            /\ request'[u] = Overtaken(k, fees)[u]
        <4>1. TypeOK /\ Create(s, k) /\ u \in Slots \ {s} BY <1>0, <2>2
        <4>2. year \in Sessions BY <1>0, <3>0 DEF TypeOK, Request
        <4>3. invoice' = [invoice EXCEPT ![k[2]][k[1]][year] = Bill(fees)]
          BY <4>1 DEF Create
        <4>4. request'[u] = Overtaken(k, fees)[u]
          <5> DEFINE q == [request[s] EXCEPT !.charged = TRUE]
          <5>1. request' = [Overtaken(k, fees) EXCEPT ![s] = After(q, k)]
            BY <4>1 DEF Create
          <5> HIDE DEF q, fees
          <5>2. Overtaken(k, fees) \in [Slots -> Request]
            BY <4>1, OvertakenTyped DEF TypeOK
          <5> QED BY <4>1, <5>1, <5>2
        <4> QED BY <4>2, <4>3, <4>4
      <3>2. fees # "ADMISSION" => ~OneTime(Bill(fees)) BY DEF OneTime, Bill, Absent
      <3> HIDE DEF year, fees
      <3>3. /\ Undisturbed(u)
            /\ request'[u].late = request[u].late \cup Missed(request[u], k, fees)
        BY <1>0, <3>1, OvertakenUndisturbed
      <3>4. /\ \A st \in Students, p \in Periods : <<p, st>> # k =>
                    Billed(st, p)' \subseteq Billed(st, p)
            /\ \A st \in Students : st # k[2] \/ fees # "ADMISSION" =>
                    OneTimeInvoices(st)' \subseteq OneTimeInvoices(st)
        BY <1>0, <3>0, <3>1, <3>2, RowWritten
      <3> QED BY <1>0, <3>3, <3>4, StillCurrent
    <2>3. CASE s # u /\ ~ \E k \in Periods \X Students : Create(s, k)
      <3>1. request'[u] = request[u] BY <1>0, <1>1, <2>3, SlotPlaced
      <3>2. Start(s) => invoice' = invoice
        BY DEF Start, Admit, AutoGenerate, Generate, Enter
      <3>3. Proceed(s) => invoice' = invoice
        BY <1>0, <2>3, ProceedSteps
           DEF ListPeriods, ReadCharged, Look, Price, ComesToNothing, Refuse
      <3>4. Fail(s) => invoice' = invoice BY DEF Fail
      <3> QED BY <1>0, <1>1, <3>1, <3>2, <3>3, <3>4, SameCurrent
    <2> QED BY <2>1, <2>2, <2>3
  <1>2. ASSUME NEW st \in Students, NEW p \in Periods, NEW y \in Sessions,
               Cancel(st, p, y) \/ Fine(st, p, y) \/ Waive(st, p, y)
        PROVE  Current(u)'
    <2> DEFINE k == <<p, st>>
    <2> DEFINE old == invoice[st][p][y]
    <2>1. PICK row \in Row :
            /\ invoice' = [invoice EXCEPT ![st][p][y] = row]
            /\ row.fees = old.fees
            /\ Cancel(st, p, y) \/ Fine(st, p, y) => (Live(row) => Live(old))
      BY <1>0, <1>2, RowChanges
    <2>2. k \in Periods \X Students /\ k[1] = p /\ k[2] = st OBVIOUS
    <2>3. /\ Billed(st, p)' \subseteq Billed(st, p) \cup IF Live(row) THEN {y} ELSE {}
          /\ OneTimeInvoices(st)' \subseteq
                OneTimeInvoices(st) \cup IF OneTime(row) THEN {<<p, y>>} ELSE {}
          /\ \A a \in Students, q \in Periods : <<q, a>> # k =>
                Billed(a, q)' \subseteq Billed(a, q)
          /\ \A a \in Students \ {st} : OneTimeInvoices(a)' \subseteq OneTimeInvoices(a)
      BY <1>0, <2>1, RowWritten
    <2>4. ASSUME Live(row) => Live(old), request'[u] = request[u] PROVE Current(u)'
      <3>1. Billed(st, p)' \subseteq Billed(st, p) BY <2>3, <2>4 DEF Billed
      <3>2. OneTimeInvoices(st)' \subseteq OneTimeInvoices(st)
        BY <2>1, <2>3, <2>4 DEF OneTimeInvoices, OneTime
      <3>3. Undisturbed(u) BY <2>4 DEF Undisturbed
      <3>4. /\ \A a : KnowsFees(request'[u], a) = KnowsFees(request[u], a)
            /\ request'[u] = request[u]
        BY <2>4
      <3>5. \A a \in Students : ~ChargedOneTime(a) => ~ChargedOneTime(a)'
        BY <2>3, <3>2 DEF ChargedOneTime
      <3>6. request[u].step \in {"price", "create"} =>
                \E a \in Students, q \in Periods : request[u].item = <<q, a>>
        BY <1>0 DEF Placed, TypeOK, Request
      <3>7. \A a \in Students, q \in Periods : Billed(a, q) = {} => Billed(a, q)' = {}
        BY <2>3, <3>1
      <3> HIDE DEF ChargedOneTime, Billed
      <3> QED BY <1>0, <3>4, <3>5, <3>6, <3>7 DEF Current
    <2>5. CASE Cancel(st, p, y) \/ Fine(st, p, y)
      BY <2>1, <2>4, <2>5 DEF Cancel, Fine
    <2>6. ASSUME Waive(st, p, y), old.cancelled PROVE Current(u)'
      <3>1. request'[u] = Overtaken(k, old.fees)[u] BY <2>6 DEF Waive
      <3>2. OneTime(row) => old.fees = "ADMISSION" BY <2>1 DEF OneTime
      <3> HIDE DEF k, old
      <3>3. /\ Undisturbed(u)
            /\ request'[u].late = request[u].late \cup Missed(request[u], k, old.fees)
        BY <1>0, <3>1, OvertakenUndisturbed
      <3>4. \A a \in Students : a # k[2] \/ old.fees # "ADMISSION" =>
                OneTimeInvoices(a)' \subseteq OneTimeInvoices(a)
        BY <2>2, <2>3, <3>2
      <3> QED BY <1>0, <2>2, <2>3, <3>3, <3>4, StillCurrent
    <2>7. ASSUME Waive(st, p, y), ~old.cancelled PROVE Current(u)'
      <3>1. request'[u] = request[u] BY <2>7 DEF Waive
      <3>2. Live(row) => Live(old) BY <2>1, <2>7 DEF Live, Exists
      <3> QED BY <2>4, <3>1, <3>2
    <2> QED BY <1>2, <2>5, <2>6, <2>7
  <1>3. CASE UNCHANGED vars BY <1>0, <1>3, SameCurrent DEF vars
  <1> QED BY <1>1, <1>2, <1>3 DEF Next

LEMMA Invariance == Spec => []IInv
  <1>1. Init => IInv
    <2> SUFFICES ASSUME Init PROVE IInv OBVIOUS
    <2>1. TypeOK BY InitTyped
    <2>2. \A s \in Slots : Placed(s) /\ Accounted(s)
      BY DEF Init, Idle, Placed, Accounted
    <2>3. \A s \in Slots : Current(s)
      BY DEF Init, Idle, Current, KnowsFees
    <2>4. NotBeforeAdmission BY DEF Init, NotBeforeAdmission, Exists, Absent
    <2> QED BY <2>1, <2>2, <2>3, <2>4 DEF IInv, NobodySkipped
  <1>2. IInv /\ [Next]_vars => IInv'
    BY TypeStep, PlacedStep, CurrentStep, AdmissionStep DEF IInv, NobodySkipped
  <1> QED BY <1>1, <1>2, PTL DEF Spec

---------------------------------------------------------------------------
(* The theorems.                                                           *)

\* However requests interleave, every column and every request keeps its type.
THEOREM TypeCorrect == Spec => []TypeOK
  BY Invariance, PTL DEF IInv

\* Every pair that a request has been through has an invoice, was counted as failed
\* or had nothing to pay, even when other requests bill, cancel and waive in between.
THEOREM NobodyIsSkipped == Spec => []NobodySkipped
  BY Invariance, PTL DEF IInv

\* No request bills a student for a month before the admission.
THEOREM NeverBeforeAdmission == Spec => []NotBeforeAdmission
  BY Invariance, PTL DEF IInv

\* How an invoice in force comes about that was not: a request creates it, of the
\* pair it looked up, or a waiver brings it back.
LEMMA ComesInForce ==
    ASSUME IInv, [Next]_vars, NEW st \in Students, NEW p \in Periods, NEW y \in Sessions,
           Live(invoice'[st][p][y]), ~Live(invoice[st][p][y])
    PROVE  \/ invoice[st][p][y].cancelled
           \/ \E s \in Slots, k \in Periods \X Students :
                /\ Create(s, k) /\ k = <<p, st>> /\ y = request[s].session[p]
  <1>0. TypeOK BY DEF IInv
  <1>1. ASSUME NEW s \in Slots, NEW k \in Periods \X Students, Create(s, k)
        PROVE  k = <<p, st>> /\ y = request[s].session[p]
    <2> DEFINE year == request[s].session[k[1]]
    <2> DEFINE fees == IF request[s].charged THEN "TUITION" ELSE "ADMISSION"
    <2>0. k = <<k[1], k[2]>> /\ k[1] \in Periods /\ k[2] \in Students OBVIOUS
    <2>1. /\ invoice' = [invoice EXCEPT ![k[2]][k[1]][year] = Bill(fees)]
          /\ year \in Sessions
      <3>1. invoice' = [invoice EXCEPT ![k[2]][k[1]][year] = Bill(fees)]
        BY <1>1 DEF Create
      <3>2. year \in Sessions BY <1>0, <2>0 DEF TypeOK, Request
      <3> QED BY <3>1, <3>2
    <2> HIDE DEF fees, year
    <2>2. invoice'[st][p][y] # invoice[st][p][y] OBVIOUS
    <2>3. st = k[2] /\ p = k[1] /\ y = year BY <1>0, <2>0, <2>1, <2>2 DEF TypeOK
    <2> QED BY <2>0, <2>3 DEF year
  <1>2. ASSUME NEW a \in Students, NEW q \in Periods, NEW z \in Sessions,
               Cancel(a, q, z) \/ Fine(a, q, z) \/ Waive(a, q, z)
        PROVE  invoice[st][p][y].cancelled
    <2>1. PICK row \in Row : /\ invoice' = [invoice EXCEPT ![a][q][z] = row]
                             /\ row.fees = invoice[a][q][z].fees
      BY <1>0, <1>2, RowChanges
    <2>2. invoice'[st][p][y].fees = invoice[st][p][y].fees
      BY <1>0, <2>1 DEF TypeOK
    <2> QED BY <2>2 DEF Live, Exists
  <1>3. ASSUME NEW s \in Slots, Start(s) \/ Fail(s) PROVE FALSE
    BY <1>3 DEF Start, Admit, AutoGenerate, Generate, Enter, Fail
  <1>4. ASSUME NEW s \in Slots, Proceed(s), ~ \E k \in Periods \X Students : Create(s, k)
        PROVE  FALSE
    BY <1>0, <1>4, ProceedSteps
       DEF ListPeriods, ReadCharged, Look, Price, ComesToNothing, Refuse
  <1>5. CASE UNCHANGED vars BY <1>5 DEF vars
  <1> QED BY <1>1, <1>2, <1>3, <1>4, <1>5 DEF Next

\* For any number of students, periods and requests: a month comes to have two bills
\* by a request that looked before the other bill came, or by a waiver only.
THEOREM RebillsAreLate == Spec => RebilledOnlyLate
  <1>1. IInv /\ [Next]_vars =>
            \A st \in Students, p \in Periods : \A y, z \in Billed(st, p)' :
                y # z /\ z \notin Billed(st, p) =>
                    \/ \E s \in Slots : Create(s, <<p, st>>) /\ "bill" \in request[s].late
                    \/ invoice[st][p][z].cancelled
    <2> SUFFICES ASSUME IInv, [Next]_vars, NEW st \in Students, NEW p \in Periods,
                        NEW y \in Billed(st, p)', NEW z \in Billed(st, p)',
                        y # z, z \notin Billed(st, p), ~invoice[st][p][z].cancelled
                 PROVE  \E s \in Slots : Create(s, <<p, st>>) /\ "bill" \in request[s].late
      OBVIOUS
    <2>0. TypeOK /\ z \in Sessions BY DEF IInv, Billed
    <2>1. Live(invoice'[st][p][z]) /\ ~Live(invoice[st][p][z]) BY DEF Billed
    <2>2. PICK s \in Slots, k \in Periods \X Students :
            Create(s, k) /\ k = <<p, st>> /\ z = request[s].session[p]
      BY <2>0, <2>1, ComesInForce
    <2> DEFINE fees == IF request[s].charged THEN "TUITION" ELSE "ADMISSION"
    <2>3. /\ invoice' = [invoice EXCEPT ![k[2]][k[1]][request[s].session[k[1]]] = Bill(fees)]
          /\ request[s].step = "create" /\ request[s].item = k
      <3>1. Create(s, k) BY <2>2
      <3> QED BY <2>0, <3>1, CreateEffect
    <2> HIDE DEF fees
    <2>4. invoice' = [invoice EXCEPT ![st][p][z] = Bill(fees)] BY <2>2, <2>3
    <2>5. Billed(st, p)' \subseteq Billed(st, p) \cup {z}
      BY <2>0, <2>4, RowWritten
    <2>6. "bill" \notin request[s].late => Billed(st, p) = {}
      BY <2>2, <2>3 DEF IInv, Current
    <2> QED BY <2>2, <2>5, <2>6
  <1> QED BY <1>1, Invariance, PTL DEF Spec, RebilledOnlyLate

\* Nor does the admission fee get on a second invoice of a student in any other way.
THEOREM RechargesAreLate == Spec => RechargedOnlyLate
  <1>1. IInv /\ [Next]_vars =>
            \A st \in Students : \A j, k \in OneTimeInvoices(st)' :
                j # k /\ k \notin OneTimeInvoices(st) =>
                    \/ \E s \in Slots :
                        Create(s, <<k[1], st>>) /\ "fee" \in request[s].late
                    \/ invoice[st][k[1]][k[2]].cancelled
    <2> SUFFICES ASSUME IInv, [Next]_vars, NEW st \in Students,
                        NEW i \in OneTimeInvoices(st)', NEW j \in OneTimeInvoices(st)',
                        i # j, j \notin OneTimeInvoices(st),
                        ~invoice[st][j[1]][j[2]].cancelled
                 PROVE  \E s \in Slots :
                            Create(s, <<j[1], st>>) /\ "fee" \in request[s].late
      OBVIOUS
    <2>0. /\ TypeOK /\ j \in Periods \X Sessions /\ j[1] \in Periods /\ j[2] \in Sessions
          /\ j = <<j[1], j[2]>> /\ OneTime(invoice'[st][j[1]][j[2]])
          /\ ~OneTime(invoice[st][j[1]][j[2]])
      BY DEF IInv, OneTimeInvoices
    <2>1. invoice'[st][j[1]][j[2]] # invoice[st][j[1]][j[2]] BY <2>0
    <2>a. ASSUME NEW a \in Students, NEW q \in Periods, NEW z \in Sessions,
                 Cancel(a, q, z) \/ Fine(a, q, z) \/ Waive(a, q, z)
          PROVE  invoice'[st][j[1]][j[2]].fees = invoice[st][j[1]][j[2]].fees
      <3>1. PICK row \in Row : /\ invoice' = [invoice EXCEPT ![a][q][z] = row]
                               /\ row.fees = invoice[a][q][z].fees
        BY <2>0, <2>a, RowChanges
      <3> QED BY <2>0, <3>1 DEF TypeOK
    <2>2. Live(invoice'[st][j[1]][j[2]]) BY <2>0 DEF OneTime
    <2>3. CASE Live(invoice[st][j[1]][j[2]])
      <3>1. invoice[st][j[1]][j[2]].fees # "ADMISSION" BY <2>0, <2>3 DEF OneTime
      <3>2. invoice'[st][j[1]][j[2]].fees = "ADMISSION" BY <2>0 DEF OneTime
      <3>3. ASSUME NEW s \in Slots, NEW k \in Periods \X Students, Create(s, k)
            PROVE  FALSE
        <4> DEFINE year == request[s].session[k[1]]
        <4> DEFINE fees == IF request[s].charged THEN "TUITION" ELSE "ADMISSION"
        <4>1. /\ invoice' = [invoice EXCEPT ![k[2]][k[1]][year] = Bill(fees)]
              /\ year \in Sessions
          <5>1. TypeOK /\ Create(s, k) BY <2>0, <3>3
          <5> QED BY <5>1, CreateEffect
        <4>2. ~Exists(invoice[k[2]][k[1]][year]) BY <3>3 DEF Create
        <4> HIDE DEF year, fees
        <4>3. st = k[2] /\ j[1] = k[1] /\ j[2] = year
          BY <2>0, <2>1, <4>1 DEF TypeOK
        <4> QED BY <2>3, <4>2, <4>3 DEF Live
      <3>4. ASSUME NEW s \in Slots, Start(s) \/ Fail(s) PROVE FALSE
        BY <2>1, <3>4 DEF Start, Admit, AutoGenerate, Generate, Enter, Fail
      <3>5. ASSUME NEW s \in Slots, Proceed(s),
                   ~ \E k \in Periods \X Students : Create(s, k)
            PROVE  FALSE
        BY <2>0, <2>1, <3>5, ProceedSteps
           DEF ListPeriods, ReadCharged, Look, Price, ComesToNothing, Refuse
      <3>6. ~UNCHANGED vars BY <2>1 DEF vars
      <3> QED BY <2>a, <3>1, <3>2, <3>3, <3>4, <3>5, <3>6 DEF Next
    <2>4. CASE ~Live(invoice[st][j[1]][j[2]])
      <3>1. PICK s \in Slots, k \in Periods \X Students :
                Create(s, k) /\ k = <<j[1], st>> /\ j[2] = request[s].session[j[1]]
        BY <2>0, <2>2, <2>4, ComesInForce
      <3> DEFINE fees == IF request[s].charged THEN "TUITION" ELSE "ADMISSION"
      <3>2. /\ invoice' =
                [invoice EXCEPT ![k[2]][k[1]][request[s].session[k[1]]] = Bill(fees)]
            /\ request[s].step = "create" /\ request[s].item = k
            /\ request[s].op \in {"AUTO", "GENERATE"}
        <4>1. Create(s, k) BY <3>1
        <4> QED BY <2>0, <4>1, CreateEffect
      <3>3. invoice' = [invoice EXCEPT ![st][j[1]][j[2]] = Bill(fees)] BY <3>1, <3>2
      <3>4. Bill(fees).fees = fees BY DEF Bill, Absent
      <3>5. ~request[s].charged
        <4> HIDE DEF fees
        <4>1. invoice'[st][j[1]][j[2]] = Bill(fees) BY <2>0, <3>3 DEF TypeOK
        <4>2. fees = "ADMISSION" BY <2>0, <3>4, <4>1 DEF OneTime
        <4> QED BY <4>2 DEF fees
      <3> HIDE DEF fees
      <3>6. OneTimeInvoices(st)' \subseteq OneTimeInvoices(st) \cup {j}
        BY <2>0, <3>3, RowWritten
      <3>7. KnowsFees(request[s], st)
        <4>1. request[s].item \in request[s].todo BY <3>2 DEF IInv, Placed
        <4>2. request[s].item[2] \in request[s].students BY <4>1 DEF IInv, Placed
        <4> QED BY <3>1, <3>2, <4>2 DEF KnowsFees
      <3>8. "fee" \notin request[s].late => OneTimeInvoices(st) = {}
        BY <3>5, <3>7 DEF IInv, Current, ChargedOneTime
      <3> QED BY <3>1, <3>6, <3>8
    <2> QED BY <2>3, <2>4
  <1> QED BY <1>1, Invariance, PTL DEF Spec, RechargedOnlyLate

=============================================================================
