--------------------------- MODULE FeeGeneration ---------------------------
(***************************************************************************)
(* Billing the students of a school, month by month.  generateFeeInvoices  *)
(* and autoGenerateInvoicesForNewStudent ask, for one student and one      *)
(* period after another, whether the student is billed already and which   *)
(* one-time fees (admission, registration) were charged before, and create *)
(* the invoice in a query of its own: nothing is in a transaction.         *)
(*                                                                         *)
(* Of the amounts only the outcome is kept, an invoice or a bill that comes *)
(* to nothing (FeeRows has the rest).  A number another request has just   *)
(* taken is one of the reasons a Create is refused, and the class or       *)
(* section filter of a generation is a set of students.                    *)
(*                                                                         *)
(* Nothing keeps two requests off one student, and a waiver brings a       *)
(* cancelled invoice back with the fees on it.  The history variable       *)
(* `late' of a request records what has been billed behind its back.       *)
(***************************************************************************)
EXTENDS Naturals, FiniteSets

CONSTANTS
    Students,
    ClassOf,        \* the class of each student's current enrollment
    PeriodCount,    \* billing months, in order
    Sessions,       \* academic years an invoice can be filed under
    DefaultSession, \* defaultAcademicYear of each period
    Slots,          \* requests that can be in flight together
    None,
    MaxInvoices,    \* bound on the invoices created
    MaxFines        \* bound on the invoices fined

Periods == 1..PeriodCount

ASSUME PeriodAssumption == PeriodCount \in Nat

ASSUME SessionAssumption == DefaultSession \in [Periods -> Sessions]

ASSUME NoneAssumption == None \notin Periods \X Students

VARIABLES
    admission,  \* the period of Student.admissionDate, 0 before
    invoice,    \* FeeInvoice rows by their unique key: student, period, session
    request     \* what each slot is doing and has read

vars == <<admission, invoice, request>>

(* fees       whether it has an ADMISSION_FEE item, beside or without tuition *)
(* fine       its late fee: at most one, which can be waived once            *)
Row == [fees : {"NONE", "TUITION", "ADMISSION"},
        cancelled : BOOLEAN,
        fine : {"NONE", "DUE", "WAIVED"}]

Absent == [fees |-> "NONE", cancelled |-> FALSE, fine |-> "NONE"]

Bill(fees) == [Absent EXCEPT !.fees = fees]

(* students   those the request is about                                   *)
(* listed     the (period, student) pairs it set out to bill               *)
(* todo       those it still has to look at                                *)
(* errors     those counted as failed                                      *)
(* empty      those whose bill came to nothing                             *)
(* session    the academic year it files each period under                 *)
(* item       the pair it is billing                                       *)
(* charged    what it knows of the one-time fees charged before            *)
(* late       what came in force since it looked: a bill of the pair it is *)
(*            billing, a one-time fee of the student (history)             *)
Request == [op : {"NONE", "AUTO", "GENERATE"},
            step : {"list", "charged", "look", "price", "create"},
            students : SUBSET Students,
            listed : SUBSET (Periods \X Students),
            todo : SUBSET (Periods \X Students),
            errors : SUBSET (Periods \X Students),
            session : [Periods -> Sessions],
            empty : SUBSET (Periods \X Students),
            item : (Periods \X Students) \cup {None},
            charged : BOOLEAN,
            late : SUBSET {"bill", "fee"}]

Idle == [op |-> "NONE", step |-> "look", students |-> {}, listed |-> {},
         todo |-> {}, errors |-> {}, empty |-> {}, session |-> DefaultSession,
         item |-> None, charged |-> FALSE, late |-> {}]

Init ==
    /\ admission = [st \in Students |-> 0]
    /\ invoice = [st \in Students |->
                    [p \in Periods |-> [y \in Sessions |-> Absent]]]
    /\ request = [s \in Slots |-> Idle]

---------------------------------------------------------------------------

Admitted == {st \in Students : admission[st] > 0}

Exists(row) == row.fees # "NONE"

\* In force, paid or not: status: { not: "CANCELLED" }
Live(row) == Exists(row) /\ ~row.cancelled

OneTime(row) == Live(row) /\ row.fees = "ADMISSION"

\* The sessions a student is billed under for a period.
Billed(st, p) == {y \in Sessions : Live(invoice[st][p][y])}

Issued ==
    {k \in Students \X Periods \X Sessions : Exists(invoice[k[1]][k[2]][k[3]])}

Fined == {k \in Issued : invoice[k[1]][k[2]][k[3]].fine # "NONE"}

\* The invoices in force that a student's one-time fee is on.
OneTimeInvoices(st) ==
    {k \in Periods \X Sessions : OneTime(invoice[st][k[1]][k[2]])}

ChargedOneTime(st) == OneTimeInvoices(st) # {}

Waiting(s, op, step) == request[s].op = op /\ request[s].step = step

Release(s) == request' = [request EXCEPT ![s] = Idle]

Enter(s, q) == request' = [request EXCEPT ![s] = q] /\ UNCHANGED invoice

\* The student whose one-time fees the request has read, if any.
KnowsFees(q, st) ==
    \/ q.op = "AUTO" /\ q.step \in {"look", "create"} /\ st \in q.students
    \/ q.op = "GENERATE" /\ q.step = "create" /\ q.item[2] = st

\* What a request no longer knows once a bill of the pair `k' comes in force.
Missed(q, k, fees) ==
    (IF q.step \in {"price", "create"} /\ q.item = k THEN {"bill"} ELSE {})
        \cup (IF fees = "ADMISSION" /\ KnowsFees(q, k[2]) THEN {"fee"} ELSE {})

\* Every request in flight, that much later.
Overtaken(k, fees) ==
    [u \in Slots |-> [request[u] EXCEPT !.late = @ \cup Missed(request[u], k, fees)]]

---------------------------------------------------------------------------
(* Automatic billing of one student.                                       *)

AutoBilling(st, year) ==
    [Idle EXCEPT !.op = "AUTO", !.step = "list", !.students = {st},
                 !.session = [p \in Periods |-> year]]

\* AddStudent, once its transaction has committed.
Admit(s, st, p, year) ==
    /\ admission[st] = 0
    /\ admission' = [admission EXCEPT ![st] = p]
    /\ Enter(s, AutoBilling(st, year))

\* previewStudentFee, for a student with no invoices, and collectFeePayment, for
\* one with nothing left to pay, which the live invoices here may amount to.
AutoGenerate(s, st, year) ==
    /\ st \in Admitted
    /\ Enter(s, AutoBilling(st, year))
    /\ UNCHANGED admission

\* The periods, with a session of each, that some of `sts' are billed for from the
\* period `from' on.
BilledPeriods(sts, from) ==
    {k \in (from..PeriodCount) \X Sessions :
        \E u \in sts : Live(invoice[u][k[1]][k[2]])}

\* Those of the class or, when there are none, of the school.
PeriodsToGenerate(st) ==
    LET class == BilledPeriods({u \in Students : ClassOf[u] = ClassOf[st]}, admission[st])
    IN  IF class # {} THEN class ELSE BilledPeriods(Students, admission[st])

\* `distinct' keeps one session of each period; the admission period, when nobody
\* is billed for it, is filed under the session of the enrollment.
ListPeriods(s, st, session) ==
    LET found == PeriodsToGenerate(st)
        ps == {k[1] : k \in found}
    IN  /\ Waiting(s, "AUTO", "list")
        /\ st \in request[s].students
        /\ \A p \in Periods :
            IF p \in ps THEN <<p, session[p]>> \in found
                        ELSE session[p] = request[s].session[p]
        /\ request' = [request EXCEPT
                ![s].step = "charged", ![s].session = session,
                ![s].listed = (ps \cup {admission[st]}) \X {st},
                ![s].todo = (ps \cup {admission[st]}) \X {st}]
        /\ UNCHANGED <<admission, invoice>>

ReadCharged(s, st) ==
    /\ Waiting(s, "AUTO", "charged")
    /\ st \in request[s].students
    /\ request' = [request EXCEPT ![s].step = "look", ![s].charged = ChargedOneTime(st)]
    /\ UNCHANGED <<admission, invoice>>

---------------------------------------------------------------------------
(* Billing a set of students for a range of periods.                       *)

Months(from, to) == {p \in Periods : from <= p /\ p <= to}

\* generateFeeInvoices: one month can be filed under any session, a range goes by
\* the default.  Periods before a student's admission are skipped.
Generate(s, sts, from, to, year) ==
    LET pairs == {k \in Months(from, to) \X sts : admission[k[2]] <= k[1]}
        sessions == IF from = to THEN [p \in Periods |-> year] ELSE DefaultSession
    IN  /\ sts # {} /\ sts \subseteq Admitted
        /\ pairs # {}
        /\ Enter(s, [Idle EXCEPT !.op = "GENERATE", !.students = sts,
                                 !.listed = pairs, !.todo = pairs,
                                 !.session = sessions])
        /\ UNCHANGED admission

---------------------------------------------------------------------------
(* The loop of both.                                                       *)

\* Periods in order; the students of a period in the order the database returns.
IsNext(s, k) ==
    /\ k \in request[s].todo
    /\ \A j \in request[s].todo : k[1] <= j[1]

\* Going on after the pair `k', or finishing.  What automatic billing read of the
\* one-time fees it goes on with.
After(q, k) ==
    IF q.todo = {k} THEN Idle
    ELSE [q EXCEPT !.step = "look", !.item = None, !.todo = @ \ {k},
                   !.late = IF q.op = "AUTO" THEN @ \ {"bill"} ELSE {}]

Advance(s, k, q) == request' = [request EXCEPT ![s] = After(q, k)]

\* Mutant: only an invoice of the same session counts.
Look_SameSession(s, k) ==
    /\ request[s].op # "NONE" /\ request[s].step = "look"
    /\ IsNext(s, k)
    /\ IF request[s].session[k[1]] \in Billed(k[2], k[1])
       THEN Advance(s, k, request[s])
       ELSE request' = [request EXCEPT
                ![s].step = IF request[s].op = "GENERATE" THEN "price" ELSE "create",
                ![s].item = k]
    /\ UNCHANGED <<admission, invoice>>

\* A pair that has an invoice already, under whichever session, is skipped.
Look(s, k) ==
    /\ request[s].op # "NONE" /\ request[s].step = "look"
    /\ IsNext(s, k)
    /\ IF Billed(k[2], k[1]) # {}
       THEN Advance(s, k, request[s])
       ELSE request' = [request EXCEPT
                ![s].step = IF request[s].op = "GENERATE" THEN "price" ELSE "create",
                ![s].item = k]
    /\ UNCHANGED <<admission, invoice>>

Price(s, k) ==
    /\ Waiting(s, "GENERATE", "price")
    /\ request[s].item = k
    /\ request' = [request EXCEPT ![s].step = "create",
                                  ![s].charged = ChargedOneTime(k[2])]
    /\ UNCHANGED <<admission, invoice>>

\* Mutant: what was just charged is not added to chargedOneTime.
Create_ForgetsCharge(s, k) ==
    LET q == request[s]
        year == q.session[k[1]]
        fees == IF q.charged THEN "TUITION" ELSE "ADMISSION"
    IN  /\ q.op # "NONE" /\ q.step = "create" /\ q.item = k
        /\ ~Exists(invoice[k[2]][k[1]][year])
        /\ Cardinality(Issued) < MaxInvoices
        /\ invoice' = [invoice EXCEPT ![k[2]][k[1]][year] = Bill(fees)]
        /\ request' = [Overtaken(k, fees) EXCEPT ![s] = After(q, k)]
        /\ UNCHANGED admission

\* feeInvoice.create goes through unless the unique key is taken.
Create(s, k) ==
    LET q == request[s]
        year == q.session[k[1]]
        fees == IF q.charged THEN "TUITION" ELSE "ADMISSION"
    IN  /\ q.op # "NONE" /\ q.step = "create" /\ q.item = k
        /\ ~Exists(invoice[k[2]][k[1]][year])
        /\ Cardinality(Issued) < MaxInvoices
        /\ invoice' = [invoice EXCEPT ![k[2]][k[1]][year] = Bill(fees)]
        /\ request' = [Overtaken(k, fees) EXCEPT ![s] = After([q EXCEPT !.charged = TRUE], k)]
        /\ UNCHANGED admission

\* No line of the bill is above zero, such as for a student without tuition whose
\* one-time fees were charged: there is no invoice, generateFeeInvoices counts it
\* under skippedZero and automatic billing says nothing of it.
ComesToNothing(s, k) ==
    LET q == request[s]
    IN  /\ q.op # "NONE" /\ q.step = "create" /\ q.item = k
        /\ Advance(s, k, [q EXCEPT !.empty = @ \cup {k}])
        /\ UNCHANGED <<admission, invoice>>

\* Mutant: the error is swallowed.
Refuse_Silently(s, k) ==
    LET q == request[s]
    IN  /\ q.op = "GENERATE" /\ q.step \in {"price", "create"} /\ q.item = k
        /\ Advance(s, k, q)
        /\ UNCHANGED <<admission, invoice>>

\* The key is taken, the invoice number is, or the student is no longer active:
\* generateFeeInvoices counts the pair and goes on.
Refuse(s, k) ==
    LET q == request[s]
    IN  /\ q.op = "GENERATE" /\ q.step \in {"price", "create"} /\ q.item = k
        /\ Advance(s, k, [q EXCEPT !.errors = @ \cup {k}])
        /\ UNCHANGED <<admission, invoice>>

\* The request fails, or automatic billing gives up at its first error.
Fail(s) ==
    /\ request[s] # Idle
    /\ Release(s)
    /\ UNCHANGED <<admission, invoice>>

---------------------------------------------------------------------------
(* What other requests do to an invoice, as far as billing can tell.         *)

\* cancelFeeInvoice, of an invoice with no payments
Cancel(st, p, y) ==
    /\ Live(invoice[st][p][y])
    /\ invoice' = [invoice EXCEPT ![st][p][y].cancelled = TRUE]
    /\ UNCHANGED <<admission, request>>

\* addInvoiceFine and the bulk fine, of an open invoice never fined before
Fine(st, p, y) ==
    /\ Live(invoice[st][p][y]) /\ invoice[st][p][y].fine = "NONE"
    /\ Cardinality(Fined) < MaxFines
    /\ invoice' = [invoice EXCEPT ![st][p][y].fine = "DUE"]
    /\ UNCHANGED <<admission, request>>

\* waiveInvoiceFine computes the status from the amounts, whatever it was: a
\* cancelled invoice is in force again.
Waive(st, p, y) ==
    LET row == invoice[st][p][y]
    IN  /\ row.fine = "DUE"
        /\ invoice' = [invoice EXCEPT ![st][p][y] =
                        [@ EXCEPT !.cancelled = FALSE, !.fine = "WAIVED"]]
        /\ request' = IF row.cancelled THEN Overtaken(<<p, st>>, row.fees) ELSE request
        /\ UNCHANGED admission

---------------------------------------------------------------------------

Start(s) ==
    /\ request[s] = Idle
    /\ \/ \E st \in Students, year \in Sessions :
            \/ \E p \in Periods : Admit(s, st, p, year)
            \/ AutoGenerate(s, st, year)
       \/ \E sts \in SUBSET Students, from, to \in Periods, year \in Sessions :
            Generate(s, sts, from, to, year)

Proceed(s) ==
    \/ \E st \in request[s].students :
        \/ \E session \in [Periods -> Sessions] : ListPeriods(s, st, session)
        \/ ReadCharged(s, st)
    \/ \E k \in request[s].todo :
        Look(s, k) \/ Price(s, k) \/ Create(s, k) \/ ComesToNothing(s, k) \/ Refuse(s, k)

Next ==
    \/ \E s \in Slots : Start(s) \/ Proceed(s) \/ Fail(s)
    \/ \E st \in Students, p \in Periods, y \in Sessions :
        Cancel(st, p, y) \/ Fine(st, p, y) \/ Waive(st, p, y)

Spec == Init /\ [][Next]_vars

---------------------------------------------------------------------------
(* Properties.                                                             *)

\* Every column and every request in flight has its type.
TypeOK ==
    /\ admission \in [Students -> Periods \cup {0}]
    /\ invoice \in [Students -> [Periods -> [Sessions -> Row]]]
    /\ request \in [Slots -> Request]

\* Two bills of a month come in force in two ways only: a request creates one that
\* looked before the other came, or a waiver brings back one that was cancelled.  No
\* request, whatever session it files under, bills a month it could see billed.
RebilledOnlyLate ==
    [][\A st \in Students, p \in Periods : \A y, z \in Billed(st, p)' :
            y # z /\ z \notin Billed(st, p) =>
                \/ \E s \in Slots : Create(s, <<p, st>>) /\ "bill" \in request[s].late
                \/ invoice[st][p][z].cancelled]_vars

\* The admission fee gets on a second invoice of a student in the same two ways: by
\* a request that read the fees before it was charged on the first, or by a waiver.
\* No request charges it twice, or again for a student it could see charged.
RechargedOnlyLate ==
    [][\A st \in Students : \A j, k \in OneTimeInvoices(st)' :
            j # k /\ k \notin OneTimeInvoices(st) =>
                \/ \E s \in Slots : Create(s, <<k[1], st>>) /\ "fee" \in request[s].late
                \/ invoice[st][k[1]][k[2]].cancelled]_vars

\* The admission fee is on one invoice of a student at most, as the page that
\* generates the invoices says.
OneTimeOnce ==
    \A st \in Students : \A j, k \in OneTimeInvoices(st) : j = k

\* What became of the pairs a request has been through.
Accounted(s) ==
    LET q == request[s]
    IN  \A k \in q.listed \ (q.todo \cup q.errors \cup q.empty) :
            \E y \in Sessions : Exists(invoice[k[2]][k[1]][y])

\* Nobody is passed over: a pair that a request has been through has an invoice, was
\* counted as failed or had nothing to pay.
NobodySkipped == \A s \in Slots : Accounted(s)

\* No invoice for a time the student was not in the school.
NotBeforeAdmission ==
    \A st \in Students, p \in Periods, y \in Sessions :
        Exists(invoice[st][p][y]) => st \in Admitted /\ admission[st] <= p

---------------------------------------------------------------------------
(* The invariants the proofs use.                                          *)

\* What a request has left to bill is due, and it bills one pair at a time.
Placed(s) ==
    LET q == request[s]
    IN  /\ q.students \subseteq Admitted
        /\ \A k \in q.todo : k[2] \in q.students /\ admission[k[2]] <= k[1]
        /\ q.step \in {"price", "create"} => q.item \in q.todo
        /\ q.op = "AUTO" => \A a, b \in q.students : a = b

\* What a request has read is still true, unless it is late.
Current(s) ==
    LET q == request[s]
    IN  /\ q.step \in {"price", "create"} /\ "bill" \notin q.late =>
            Billed(q.item[2], q.item[1]) = {}
        /\ ~q.charged /\ "fee" \notin q.late =>
            \A st \in Students : KnowsFees(q, st) => ~ChargedOneTime(st)

IInv ==
    /\ TypeOK
    /\ \A s \in Slots : Placed(s) /\ Current(s)
    /\ NobodySkipped
    /\ NotBeforeAdmission

=============================================================================
