----------------------------- MODULE FeeLedger -----------------------------
(***************************************************************************)
(* What the fee desk promises for one student: every handler of            *)
(* feeBilling.controller.ts that changes an invoice, a payment or the      *)
(* advance balance, run one at a time.  This is the abstract specification *)
(* that FeeBilling, where requests interleave, is compared with.           *)
(*                                                                         *)
(* Invoices 1 .. InvoiceCount are numbered oldest first, the order in      *)
(* which collectFeePayment settles them; a number is one billing period of *)
(* the student, which the unique key of FeeInvoice allows one row for.     *)
(* Payments are numbered by receipt.                                       *)
(***************************************************************************)
EXTENDS FeeRows, Functions

CONSTANTS
    InvoiceCount,   \* billing periods of the student
    ReceiptCount,   \* receipts that can be issued (bound)
    Amounts,        \* amounts the clerk may enter
    Bills,          \* bills resolveStudentCharges may produce
    MaxMoney        \* no fine, charge or discount beyond this sum (bound)

ASSUME CountAssumption == InvoiceCount \in Nat /\ ReceiptCount \in Nat
\* parsePositiveAmount
ASSUME AmountsAssumption == Amounts \subseteq Nat \ {0}
\* A bill without a positive line is skipped, not created.
ASSUME BillsAssumption ==
    Bills \subseteq {b \in Bill : b.charge + b.fine > 0}
ASSUME MaxMoneyAssumption == MaxMoney \in Nat

VARIABLES
    invoice,    \* FeeInvoice rows
    payment,    \* FeePayment rows with their FeePaymentAllocation rows
    advance     \* student.advanceBalance

vars == <<invoice, payment, advance>>

Invoices == 1 .. InvoiceCount
Receipts == 1 .. ReceiptCount

\* alloc[i] = 0: the payment has no allocation row for invoice i.
Payment == [status : {"NONE", "COMPLETED", "VOIDED"},
            amount : Nat, alloc : [Invoices -> Nat]]

NoPayment == [status |-> "NONE", amount |-> 0, alloc |-> [i \in Invoices |-> 0]]

Init ==
    /\ invoice = [i \in Invoices |-> NoRow]
    /\ payment = [r \in Receipts |-> NoPayment]
    /\ advance = 0

---------------------------------------------------------------------------

OpenInvoices == {i \in Invoices : Open(invoice[i])}

Allocated(i) == \E r \in Receipts : payment[r].alloc[i] > 0

\* nextReceiptNo: one more than the largest receipt issued.
NextReceipt(r) ==
    /\ payment[r].status = "NONE"
    /\ \A q \in Receipts : payment[q].status = "NONE" <=> q >= r

\* Mutant: the newest invoice is settled first.
Spending_NewestFirst(rows, targets, amount) ==
    {[k \in 0 .. InvoiceCount |-> amount - left[k] + left[0]] :
        left \in {l \in [0 .. InvoiceCount -> 0 .. amount] :
            /\ l[InvoiceCount] = amount
            /\ \A i \in Invoices :
                l[i - 1] = IF i \in targets THEN Minus(l[i], rows[i].balance) ELSE l[i]}}

\* The allocation loop of collectFeePayment: left[k] is the money that remains
\* after the first k invoices of `targets'.
Spending(rows, targets, amount) ==
    {left \in [0 .. InvoiceCount -> 0 .. amount] :
        /\ left[0] = amount
        /\ \A i \in Invoices :
            left[i] = IF i \in targets THEN Minus(left[i - 1], rows[i].balance)
                                       ELSE left[i - 1]}

Share(left) == [i \in Invoices |-> left[i - 1] - left[i]]

\* One loop step per allocation; an invoice that gets nothing is not written.
Settle(current, rows, share) ==
    [i \in Invoices |->
        IF share[i] = 0 THEN current[i]
        ELSE Settled(current[i], rows[i], rows[i].paid + share[i])]

\* voidFeePayment writes every allocated invoice back.
Restore(current, rows, alloc) ==
    [i \in Invoices |->
        IF alloc[i] = 0 THEN current[i]
        ELSE Settled(current[i], rows[i], Minus(rows[i].paid, alloc[i]))]

\* The loop of voidFeePayment: what is left of the amount when the first k of its
\* allocations are taken off.
Unspent(p) ==
    {left \in [0 .. InvoiceCount -> 0 .. p.amount] :
        /\ left[0] = p.amount
        /\ \A i \in Invoices : left[i] = Minus(left[i - 1], p.alloc[i])}

---------------------------------------------------------------------------

Update(i, row) ==
    /\ row.subtotal <= MaxMoney /\ row.discount <= MaxMoney
    /\ invoice' = [invoice EXCEPT ![i] = row]
    /\ UNCHANGED <<payment, advance>>

\* generateFeeInvoices and autoGenerateInvoicesForNewStudent, for one period.
\* A cancelled invoice still occupies the unique key, so only a period without
\* any row is billed.
Generate(i, bill) ==
    /\ ~Exists(invoice[i])
    /\ Update(i, Generated(bill))

\* applyInvoiceLateFine, and one iteration of applyBulkLateFines.
ApplyLateFine(i, amount) ==
    /\ MayFine(invoice[i])
    /\ Update(i, Fined(invoice[i], invoice[i], amount))

AdjustDiscount(i, amount) ==
    /\ MayAdjust(invoice[i])
    /\ Update(i, Discounted(invoice[i], invoice[i], amount))

AdjustCharge(i, amount) ==
    /\ MayAdjust(invoice[i])
    /\ Update(i, Charged(invoice[i], invoice[i], amount))

WaiveFine(i) ==
    /\ MayWaive(invoice[i])
    /\ Update(i, FineWaived(invoice[i], invoice[i]))

Cancel(i) ==
    /\ MayCancel(invoice[i])
    /\ ~Allocated(i)
    /\ Update(i, Cancelled(invoice[i]))

\* The invoices a payment may be spent on: the requested ones that are open or,
\* when none of them is, every open invoice - unless the student has no current
\* enrollment, when the whole payment becomes advance.
Targets(requested) ==
    IF requested \cap OpenInvoices # {} THEN {requested \cap OpenInvoices}
                                        ELSE {{}, OpenInvoices}

Collect(r, amount, targets) ==
    /\ NextReceipt(r)
    /\ \E left \in Spending(invoice, targets, amount) :
        /\ payment' = [payment EXCEPT
                        ![r] = [status |-> "COMPLETED", amount |-> amount,
                                alloc |-> Share(left)]]
        /\ invoice' = Settle(invoice, invoice, Share(left))
        /\ advance' = advance + left[InvoiceCount]

\* Mutant: a payment can be voided again.
Void_Twice(r) ==
    /\ payment[r].status # "NONE"
    /\ invoice' = Restore(invoice, invoice, payment[r].alloc)
    /\ \E left \in Unspent(payment[r]) :
        advance' = Minus(advance, left[InvoiceCount])
    /\ payment' = [payment EXCEPT ![r].status = "VOIDED"]

\* Mutant: the advance the payment left is not taken back.
Void_KeepAdvance(r) ==
    /\ payment[r].status = "COMPLETED"
    /\ invoice' = Restore(invoice, invoice, payment[r].alloc)
    /\ payment' = [payment EXCEPT ![r].status = "VOIDED"]
    /\ UNCHANGED advance

Void(r) ==
    /\ payment[r].status = "COMPLETED"
    /\ invoice' = Restore(invoice, invoice, payment[r].alloc)
    /\ \E left \in Unspent(payment[r]) :
        advance' = Minus(advance, left[InvoiceCount])
    /\ payment' = [payment EXCEPT ![r].status = "VOIDED"]

Next ==
    \/ \E i \in Invoices :
        \/ \E bill \in Bills : Generate(i, bill)
        \/ \E amount \in Amounts : ApplyLateFine(i, amount)
        \/ \E amount \in Amounts : AdjustDiscount(i, amount)
        \/ \E amount \in Amounts : AdjustCharge(i, amount)
        \/ WaiveFine(i)
        \/ Cancel(i)
    \/ \E r \in Receipts :
        \/ \E requested \in SUBSET Invoices : \E targets \in Targets(requested) :
            \E amount \in Amounts : Collect(r, amount, targets)
        \/ Void(r)

Spec == Init /\ [][Next]_vars

---------------------------------------------------------------------------
(* Properties.                                                             *)

\* Every column has its type.
TypeOK ==
    /\ invoice \in [Invoices -> Row]
    /\ payment \in [Receipts -> Payment]
    /\ advance \in Nat

\* Balance, total, paid amount and status of an invoice agree after any series
\* of fines, adjustments, payments, voids and waivers.
Coherent == \A i \in Invoices : RowCoherent(invoice[i])

\* A cancelled invoice carries no money: nothing is paid on it and no payment,
\* voided or not, was ever allocated to it.
CancelledUnpaid ==
    \A i \in Invoices :
        invoice[i].status = "CANCELLED" =>
            /\ invoice[i].paid = 0 /\ invoice[i].balance = 0
            /\ ~Allocated(i)

\* The payments that count: those not voided.
Live == {r \in Receipts : payment[r].status = "COMPLETED"}

\* What the allocation rows of a payment add up to.
AllocatedSum(alloc) == SumFunctionOnSet(alloc, Invoices)

\* The part of a payment that no invoice took.
Excess(p) == Minus(p.amount, AllocatedSum(p.alloc))

\* Voiding restores exactly what was collected: an invoice's paid amount is what
\* the payments in force allocate to it, and Math.max never hides a difference.
PaidIsAllocated ==
    \A i \in Invoices :
        invoice[i].paid = SumFunctionOnSet([r \in Receipts |-> payment[r].alloc[i]], Live)

\* The advance balance is the part of the payments in force that no invoice took.
AdvanceIsExcess ==
    advance = SumFunctionOnSet([r \in Receipts |-> Excess(payment[r])], Live)

\* A collected payment is never spread beyond what is owed: an invoice whose paid
\* amount grows is not overpaid by it.
NeverOverpays ==
    [][\A i \in Invoices :
        invoice'[i].paid > invoice[i].paid => invoice'[i].paid <= invoice'[i].total]_vars

\* The invoices a request asks to be paid: the open ones it names or, when none of
\* those it names is open, every open one.
Meant(i, requested) ==
    /\ i \in OpenInvoices
    /\ requested \cap OpenInvoices # {} => i \in requested

\* Oldest first: when a payment reaches an invoice, no older one it was meant for is
\* passed over or left partly paid, and nothing goes to the advance while one it
\* was meant for is owed.
OldestFirst ==
    [][\A r \in Receipts, requested \in SUBSET Invoices, amount \in Amounts :
        (\E targets \in Targets(requested) : Collect(r, amount, targets)) =>
            \A i, j \in Invoices :
                /\ Meant(i, requested)
                /\ payment'[r].alloc[j] > 0
                /\ i < j \/ advance' > advance
                => invoice'[i].balance = 0]_vars

\* A payment once recorded changes in one way only: it is voided, once.
PaymentsFinal ==
    [][\A r \in Receipts :
        /\ payment[r].status = "COMPLETED" =>
            payment'[r] \in {payment[r], [payment[r] EXCEPT !.status = "VOIDED"]}
        /\ payment[r].status = "VOIDED" => payment'[r] = payment[r]]_vars

=============================================================================
