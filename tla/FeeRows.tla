------------------------------ MODULE FeeRows ------------------------------
(***************************************************************************)
(* One row of the FeeInvoice table and what each fee handler writes into   *)
(* it.  A handler computes what it writes from the row it read earlier     *)
(* (`seen') and leaves every other column of the row it updates (`row') as *)
(* it is, so each operator takes both.  Money is counted in units of the   *)
(* smallest amount roundMoney keeps, hence naturals.                       *)
(*                                                                         *)
(* The item table is abstracted to the three sums the columns summarise:   *)
(* the charge lines, the FINE lines and the discount lines of the invoice. *)
(***************************************************************************)
EXTENDS Integers

InvoiceStatuses == {"ABSENT", "UNPAID", "PARTIAL", "PAID", "CANCELLED"}

Row == [status : InvoiceStatuses,
        subtotal : Nat, discount : Nat, fine : Nat, waived : BOOLEAN,
        total : Nat, paid : Nat, balance : Nat,
        chargeItems : Nat, fineItems : Nat, discountItems : Nat]

\* No invoice exists for the period.
NoRow == [status |-> "ABSENT",
          subtotal |-> 0, discount |-> 0, fine |-> 0, waived |-> FALSE,
          total |-> 0, paid |-> 0, balance |-> 0,
          chargeItems |-> 0, fineItems |-> 0, discountItems |-> 0]

\* Math.max(0, a - b)
Minus(a, b) == IF a >= b THEN a - b ELSE 0

\* What resolveStudentCharges may put on a bill: charge lines, a FINE line when
\* the fee structure prices that particular, and a tuition discount.
Bill == [charge : Nat, fine : Nat, discount : Nat]

InvoiceStatus(total, paid) ==
    IF paid = 0 THEN "UNPAID" ELSE IF paid >= total THEN "PAID" ELSE "PARTIAL"

Open(row) == row.status \in {"UNPAID", "PARTIAL"}

Exists(row) == row.status # "ABSENT"

---------------------------------------------------------------------------
(* The rows the handlers write.                                            *)

Generated(bill) ==
    LET subtotal == bill.charge + bill.fine
        total == Minus(subtotal, bill.discount)
    IN  [status |-> IF total = 0 THEN "PAID" ELSE "UNPAID",
         subtotal |-> subtotal, discount |-> bill.discount,
         fine |-> bill.fine, waived |-> FALSE,
         total |-> total, paid |-> 0, balance |-> total,
         chargeItems |-> bill.charge, fineItems |-> bill.fine,
         discountItems |-> bill.discount]

\* The update that ends most handlers: the new totalAmount and balanceAmount, and
\* the status that goes with the paid amount the handler knows.
Priced(row, total, balance, paid) ==
    [row EXCEPT !.total = total, !.balance = balance,
                !.status = InvoiceStatus(total, paid)]

Fined(row, seen, amount) ==
    Priced([row EXCEPT !.fineItems = @ + amount,
                       !.subtotal = seen.subtotal + amount,
                       !.fine = amount],
           seen.total + amount, seen.balance + amount, seen.paid)

Discounted(row, seen, amount) ==
    LET total == Minus(seen.subtotal, seen.discount + amount)
    IN  Priced([row EXCEPT !.discountItems = @ + amount,
                           !.discount = seen.discount + amount],
               total, Minus(total, seen.paid), seen.paid)

\* Mutant: the charge is added to the balance, as a fine is, although a discount
\* larger than the subtotal absorbs part of it.
Charged_KeepBalance(row, seen, amount) ==
    Priced([row EXCEPT !.chargeItems = @ + amount,
                       !.subtotal = seen.subtotal + amount],
           Minus(seen.subtotal + amount, seen.discount),
           seen.balance + amount, seen.paid)

Charged(row, seen, amount) ==
    LET total == Minus(seen.subtotal + amount, seen.discount)
    IN  Priced([row EXCEPT !.chargeItems = @ + amount,
                           !.subtotal = seen.subtotal + amount],
               total, Minus(total, seen.paid), seen.paid)

\* `paid' is the new paidAmount; the total is the one that was read.
Settled(row, seen, paid) ==
    [row EXCEPT !.paid = paid,
                !.balance = Minus(seen.total, paid),
                !.status = InvoiceStatus(seen.total, paid)]

Cancelled(row) == [row EXCEPT !.status = "CANCELLED", !.balance = 0]

\* The FINE lines are deleted and the total lowered; the subtotal is not written.
FineWaived(row, seen) ==
    LET total == Minus(seen.total, seen.fine)
    IN  Priced([row EXCEPT !.fineItems = 0, !.fine = 0, !.waived = TRUE],
               total, Minus(total, seen.paid), seen.paid)

---------------------------------------------------------------------------
(* The checks each handler makes on the row it read before it writes.      *)

MayFine(seen) == Open(seen) /\ seen.fine = 0 /\ ~seen.waived

MayAdjust(seen) == Open(seen)

MayWaive(seen) == Exists(seen) /\ seen.fine > 0 /\ ~seen.waived

MayCancel(seen) == seen.status = "UNPAID" /\ seen.paid = 0

---------------------------------------------------------------------------
(* The amounts of a row agree: the balance is what is still owed, and the  *)
(* status says how much of it is.  A bill that comes to nothing is created *)
(* PAID (generateFeeInvoices), where invoiceStatus would call it UNPAID.   *)
RowCoherent(row) ==
    Open(row) \/ row.status = "PAID" =>
        /\ row.balance = Minus(row.total, row.paid)
        /\ \/ row.status = InvoiceStatus(row.total, row.paid)
           \/ row.status = "PAID" /\ row.total = 0 /\ row.paid = 0

=============================================================================
