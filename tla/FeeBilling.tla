---------------------------- MODULE FeeBilling -----------------------------
(***************************************************************************)
(* The fee handlers as the Express server really runs them.  A handler     *)
(* first reads, with plain queries, the rows it decides on; it writes      *)
(* later, in one database transaction, and computes what it writes from    *)
(* the rows it read before.  Between the two, the other requests in flight *)
(* read and write too.  Each request occupies a slot; the transactions are *)
(* atomic, as they are on the SQLite database of the desktop build.        *)
(*                                                                         *)
(* The database (invoice, payment, advance) is that of FeeLedger, the same *)
(* handlers run one at a time.                                             *)
(***************************************************************************)
EXTENDS FeeRows, Functions

CONSTANTS
    InvoiceCount, ReceiptCount, Amounts, Bills, MaxMoney,   \* as in FeeLedger
    Slots,      \* requests that can be in flight together
    Ops         \* the handlers clients call in this instance

ASSUME CountAssumption == InvoiceCount \in Nat /\ ReceiptCount \in Nat
ASSUME AmountsAssumption == Amounts \subseteq Nat \ {0}
ASSUME BillsAssumption ==
    Bills \subseteq {b \in Bill : b.charge + b.fine > 0}
ASSUME MaxMoneyAssumption == MaxMoney \in Nat
ASSUME OpsAssumption ==
    Ops \subseteq {"FINE", "BULK", "DISCOUNT", "CHARGE", "WAIVE", "CANCEL",
                   "COLLECT", "VOID"}

VARIABLES
    invoice, payment, advance,  \* the database
    request                     \* what each slot is doing and has read

dbVars == <<invoice, payment, advance>>
vars == <<invoice, payment, advance, request>>

L == INSTANCE FeeLedger

Invoices == 1 .. InvoiceCount
Receipts == 1 .. ReceiptCount

(* op      the handler, or NONE when the slot is free                      *)
(* step    how far the handler has come                                    *)
(* r       the payment being voided, or the receipt number taken           *)
(* targets the invoices the handler works on                               *)
(* seen    the rows of those invoices when the handler read them           *)
Request == [op : {"NONE"} \cup {"FINE", "BULK", "DISCOUNT", "CHARGE", "WAIVE",
                                "CANCEL", "COLLECT", "VOID"},
            step : {"idle", "generate", "receipt", "commit"},
            r : Receipts \cup {0}, amount : Amounts \cup {0},
            targets : SUBSET Invoices, seen : [Invoices -> Row]]

Unread == [i \in Invoices |-> NoRow]

Idle == [op |-> "NONE", step |-> "idle", r |-> 0, amount |-> 0,
         targets |-> {}, seen |-> Unread]

Init ==
    /\ L!Init
    /\ request = [s \in Slots |-> Idle]

---------------------------------------------------------------------------
(* Reading.                                                                *)

Snapshot(set) == [i \in Invoices |-> IF i \in set THEN invoice[i] ELSE NoRow]

\* The slot has read the rows of `targets' and goes on to `step'.
Enter(s, op, step, r, amount, targets) ==
    /\ request[s] = Idle
    /\ op \in Ops
    /\ request' = [request EXCEPT ![s] =
                    [op |-> op, step |-> step, r |-> r, amount |-> amount,
                     targets |-> targets,
                     seen |-> IF op = "BULK" THEN Unread ELSE Snapshot(targets)]]
    /\ UNCHANGED dbVars

ReadLateFine(s, i, amount) ==
    MayFine(invoice[i]) /\ Enter(s, "FINE", "commit", 0, amount, {i})

\* applyBulkLateFines keeps only the ids; which of the invoices that can be fined
\* are overdue depends on dates and on the month and class the clerk filters by.
ReadOverdue(s, overdue, amount) ==
    /\ overdue # {}
    /\ \A i \in overdue : MayFine(invoice[i])
    /\ Enter(s, "BULK", "commit", 0, amount, overdue)

\* Mutant: an invoice that is paid or cancelled is adjusted too.
ReadAdjust_NoStatusCheck(s, i, type, amount) ==
    /\ type \in {"DISCOUNT", "CHARGE"}
    /\ Exists(invoice[i])
    /\ Enter(s, type, "commit", 0, amount, {i})

ReadAdjust(s, i, type, amount) ==
    /\ type \in {"DISCOUNT", "CHARGE"}
    /\ MayAdjust(invoice[i])
    /\ Enter(s, type, "commit", 0, amount, {i})

ReadWaive(s, i) ==
    MayWaive(invoice[i]) /\ Enter(s, "WAIVE", "commit", 0, 0, {i})

ReadCancel(s, i) ==
    /\ MayCancel(invoice[i])
    /\ ~L!Allocated(i)
    /\ Enter(s, "CANCEL", "commit", 0, 0, {i})

ReadVoid(s, r) ==
    /\ payment[r].status = "COMPLETED"
    /\ Enter(s, "VOID", "commit", r, 0,
             {i \in Invoices : payment[r].alloc[i] > 0})

\* The open invoices among the requested ones.  When there is none, and the
\* student has a current enrollment, missing invoices are generated and every
\* open invoice is read; without an enrollment the payment is all advance.
ReadOpen(s, requested, amount) ==
    LET open == requested \cap L!OpenInvoices
    IN  IF open # {} THEN Enter(s, "COLLECT", "receipt", 0, amount, open)
        ELSE \/ Enter(s, "COLLECT", "generate", 0, amount, {})
             \/ Enter(s, "COLLECT", "receipt", 0, amount, {})

---------------------------------------------------------------------------
(* Between reading and writing, a payment.                                 *)

Waiting(s, op, step) == request[s].op = op /\ request[s].step = step

\* One invoice created by autoGenerateInvoicesForNewStudent.
AutoGenerate(s, i, bill) ==
    /\ Waiting(s, "COLLECT", "generate")
    /\ L!Generate(i, bill)
    /\ UNCHANGED request

ReadOpenAgain(s) ==
    /\ Waiting(s, "COLLECT", "generate")
    /\ request' = [request EXCEPT
                    ![s].step = "receipt",
                    ![s].targets = L!OpenInvoices,
                    ![s].seen = Snapshot(L!OpenInvoices)]
    /\ UNCHANGED dbVars

TakeReceipt(s, r) ==
    /\ Waiting(s, "COLLECT", "receipt")
    /\ L!NextReceipt(r)
    /\ request' = [request EXCEPT ![s].step = "commit", ![s].r = r]
    /\ UNCHANGED dbVars

---------------------------------------------------------------------------
(* Writing.                                                                *)

Release(s) == request' = [request EXCEPT ![s] = Idle]

Write(s, i, row) ==
    /\ L!Update(i, row)
    /\ Release(s)

\* The handler of one invoice commits.  Nothing is checked again.
Commit(s, i) ==
    LET seen == request[s].seen[i]
        amount == request[s].amount
    IN  /\ request[s].targets = {i}
        /\ \/ Waiting(s, "FINE", "commit")
              /\ Write(s, i, Fined(invoice[i], seen, amount))
           \/ Waiting(s, "DISCOUNT", "commit")
              /\ Write(s, i, Discounted(invoice[i], seen, amount))
           \/ Waiting(s, "CHARGE", "commit")
              /\ Write(s, i, Charged(invoice[i], seen, amount))
           \/ Waiting(s, "WAIVE", "commit")
              /\ Write(s, i, FineWaived(invoice[i], seen))
           \/ Waiting(s, "CANCEL", "commit")
              /\ Write(s, i, Cancelled(invoice[i]))

\* One transaction of applyBulkLateFines: the row is read again inside it and
\* skipped when it has a fine or had one waived; its status is not looked at.  A
\* transaction that fails is skipped too, and the loop goes on.
NextOverdue(s, i) ==
    [request EXCEPT ![s] =
        IF request[s].targets = {i} THEN Idle
        ELSE [request[s] EXCEPT !.targets = @ \ {i}]]

BulkFine(s, i) ==
    /\ Waiting(s, "BULK", "commit")
    /\ i \in request[s].targets
    /\ \/ UNCHANGED dbVars
       \/ /\ ~(invoice[i].fine > 0 \/ invoice[i].waived)
          /\ L!Update(i, Fined(invoice[i], invoice[i], request[s].amount))
    /\ request' = NextOverdue(s, i)

\* A receipt number somebody else has used meanwhile violates its unique key and
\* the whole transaction fails.
CommitCollect(s) ==
    LET q == request[s]
    IN  /\ Waiting(s, "COLLECT", "commit")
        /\ payment[q.r].status = "NONE"
        /\ \E left \in L!Spending(q.seen, q.targets, q.amount) :
            /\ payment' = [payment EXCEPT
                            ![q.r] = [status |-> "COMPLETED", amount |-> q.amount,
                                      alloc |-> L!Share(left)]]
            /\ invoice' = L!Settle(invoice, q.seen, L!Share(left))
            /\ advance' = advance + left[InvoiceCount]
        /\ Release(s)

\* Mutant: the advance the payment left is not taken back.
CommitVoid_KeepAdvance(s) ==
    LET q == request[s]
    IN  /\ Waiting(s, "VOID", "commit")
        /\ invoice' = L!Restore(invoice, q.seen, payment[q.r].alloc)
        /\ payment' = [payment EXCEPT ![q.r].status = "VOIDED"]
        /\ Release(s)
        /\ UNCHANGED advance

\* The advance balance is the one value read inside the transaction; that the
\* payment is not voided yet is not checked again.
CommitVoid(s) ==
    LET q == request[s]
    IN  /\ Waiting(s, "VOID", "commit")
        /\ invoice' = L!Restore(invoice, q.seen, payment[q.r].alloc)
        /\ \E left \in L!Unspent(payment[q.r]) :
            advance' = Minus(advance, left[InvoiceCount])
        /\ payment' = [payment EXCEPT ![q.r].status = "VOIDED"]
        /\ Release(s)

\* A request dies: its transaction is rolled back (a unique key, a lost database
\* connection) or the server stops.  What it committed before stays.
Fail(s) ==
    /\ request[s] # Idle
    /\ Release(s)
    /\ UNCHANGED dbVars

GenerateInvoice(i, bill) == L!Generate(i, bill) /\ UNCHANGED request

---------------------------------------------------------------------------

Read(s) ==
    \/ \E i \in Invoices, amount \in Amounts :
        \/ ReadLateFine(s, i, amount)
        \/ \E type \in {"DISCOUNT", "CHARGE"} : ReadAdjust(s, i, type, amount)
    \/ \E set \in SUBSET Invoices, amount \in Amounts :
        ReadOverdue(s, set, amount) \/ ReadOpen(s, set, amount)
    \/ \E i \in Invoices : ReadWaive(s, i) \/ ReadCancel(s, i)
    \/ \E r \in Receipts : ReadVoid(s, r)

\* A step that leaves the tables alone.
Prepare(s) ==
    \/ Read(s)
    \/ ReadOpenAgain(s)
    \/ \E r \in Receipts : TakeReceipt(s, r)
    \/ Fail(s)

WriteBack(s) ==
    \/ \E i \in Invoices : Commit(s, i) \/ BulkFine(s, i)
    \/ CommitCollect(s)
    \/ CommitVoid(s)

Next ==
    \/ \E s \in Slots :
        \/ Prepare(s)
        \/ \E i \in Invoices, bill \in Bills : AutoGenerate(s, i, bill)
        \/ WriteBack(s)
    \/ \E i \in Invoices, bill \in Bills : GenerateInvoice(i, bill)

Spec == Init /\ [][Next]_vars

---------------------------------------------------------------------------
(* Properties.                                                             *)

\* Every column and every request in flight has its type.
TypeOK == L!TypeOK /\ request \in [Slots -> Request]

\* What the request read is still so when it writes: the rows it computes from,
\* or for a bulk fine, that every invoice selected can be fined unless it has a
\* fine already; no allocation for a cancellation, a payment in force for a void.
Fresh(s) ==
    LET q == request[s]
    IN  /\ \A i \in q.targets :
            IF q.op = "BULK"
            THEN invoice[i].fine = 0 /\ ~invoice[i].waived => MayFine(invoice[i])
            ELSE q.seen[i] = invoice[i]
        /\ q.op = "CANCEL" => \A i \in q.targets : ~L!Allocated(i)
        /\ q.op = "VOID" => payment[q.r].status = "COMPLETED"

\* What a request in flight knows: the checks its handler made hold of the rows it
\* read, and the payment it voids had exactly the allocations it works on.
Checked(s) ==
    LET q == request[s]
    IN  /\ q.op \in {"FINE", "BULK", "DISCOUNT", "CHARGE", "COLLECT"} =>
            q.amount \in Amounts
        /\ q.op = "COLLECT" /\ q.step = "commit" =>
            /\ q.r \in Receipts
            /\ \A p \in Receipts : p < q.r => payment[p].status # "NONE"
        /\ q.op = "VOID" =>
            /\ q.r \in Receipts
            /\ payment[q.r].status # "NONE"
            /\ q.targets = {i \in Invoices : payment[q.r].alloc[i] > 0}
        /\ \A i \in q.targets :
            /\ q.op = "FINE" => MayFine(q.seen[i])
            /\ q.op \in {"DISCOUNT", "CHARGE"} => MayAdjust(q.seen[i])
            /\ q.op = "WAIVE" => MayWaive(q.seen[i])
            /\ q.op = "CANCEL" => MayCancel(q.seen[i])
            /\ q.op = "COLLECT" => Open(q.seen[i])
            /\ Exists(invoice[i])

\* Receipts are issued in order, money is only on invoices that exist, and every
\* request in flight has passed its checks.
IInv ==
    /\ TypeOK
    /\ \A r \in Receipts : payment[r].status # "NONE" =>
        \A p \in Receipts : p < r => payment[p].status # "NONE"
    /\ \A r \in Receipts, i \in Invoices :
        payment[r].alloc[i] > 0 => Exists(invoice[i])
    /\ \A s \in Slots : Checked(s)

\* A request whose reads are still true when it commits does what the same
\* handler does when it runs alone: the only way to leave the serial behaviour
\* of the fee desk is a write from a stale read.
OnlyStaleWritesDiverge ==
    [][(\E s \in Slots : WriteBack(s) /\ ~Fresh(s)) \/ L!Next \/ UNCHANGED dbVars]_vars

\* Requests that run one at a time (one slot) implement the ledger.
ImplementsLedger == L!Spec

\* The school never owes a family more advance than the payments in force left
\* over, however requests interleave.
AdvanceNeverOverstated ==
    advance <= SumFunctionOnSet([r \in Receipts |-> L!Excess(payment[r])], L!Live)

\* feeBilling.controller.ts:2262: voiding a payment restores the invoice balances.
PaidIsAllocated == L!PaidIsAllocated

=============================================================================
