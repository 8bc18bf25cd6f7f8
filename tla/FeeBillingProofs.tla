------------------------- MODULE FeeBillingProofs --------------------------
(***************************************************************************)
(* Theorems about interleaved fee requests, for any number of slots,       *)
(* invoices and receipts and any amounts and bills.                        *)
(***************************************************************************)
EXTENDS FeeBilling, TLAPS

LedgerProofs == INSTANCE FeeLedgerProofs

---------------------------------------------------------------------------
(* The row operators are the same on both sides of the refinement.         *)

LEMMA SameRows ==
    /\ L!Row = Row /\ L!NoRow = NoRow
    /\ \A row : /\ L!MayFine(row) = MayFine(row)
                /\ L!MayAdjust(row) = MayAdjust(row)
                /\ L!MayWaive(row) = MayWaive(row)
                /\ L!MayCancel(row) = MayCancel(row)
                /\ L!Exists(row) = Exists(row)
                /\ L!Open(row) = Open(row)
                /\ L!Cancelled(row) = Cancelled(row)
    /\ \A row, seen : L!FineWaived(row, seen) = FineWaived(row, seen)
    /\ \A row, seen, n : /\ L!Fined(row, seen, n) = Fined(row, seen, n)
                         /\ L!Discounted(row, seen, n) = Discounted(row, seen, n)
                         /\ L!Charged(row, seen, n) = Charged(row, seen, n)
                         /\ L!Settled(row, seen, n) = Settled(row, seen, n)
    /\ \A bill : L!Generated(bill) = Generated(bill)
    /\ \A a, b : L!Minus(a, b) = Minus(a, b)
    /\ L!Invoices = Invoices /\ L!Receipts = Receipts
BY DEF L!Row, L!NoRow, L!MayFine, L!MayAdjust, L!MayWaive, L!MayCancel,
       L!Exists, L!Open, L!Cancelled, L!FineWaived, L!Fined, L!Discounted,
       L!Charged, L!Settled, L!Generated, L!Minus, L!InvoiceStatuses, L!Priced,
       L!InvoiceStatus, L!Invoices, L!Receipts,
       Row, NoRow, MayFine, MayAdjust, MayWaive, MayCancel, Exists, Open,
       Cancelled, FineWaived, Fined, Discounted, Charged, Settled, Generated,
       Minus, InvoiceStatuses, Priced, InvoiceStatus, Invoices, Receipts

\* ... and the theorems about the ledger speak of the same rows and sums.
LEMMA LedgerRows ==
    /\ LedgerProofs!Row = Row /\ LedgerProofs!Bill = Bill
    /\ \A row : /\ LedgerProofs!Exists(row) = Exists(row)
                /\ LedgerProofs!Cancelled(row) = Cancelled(row)
    /\ \A row, seen : LedgerProofs!FineWaived(row, seen) = FineWaived(row, seen)
    /\ \A row, seen, n : /\ LedgerProofs!Fined(row, seen, n) = Fined(row, seen, n)
                         /\ LedgerProofs!Discounted(row, seen, n) = Discounted(row, seen, n)
                         /\ LedgerProofs!Charged(row, seen, n) = Charged(row, seen, n)
                         /\ LedgerProofs!Settled(row, seen, n) = Settled(row, seen, n)
    /\ \A bill : LedgerProofs!Generated(bill) = Generated(bill)
    /\ \A a, b : LedgerProofs!Minus(a, b) = Minus(a, b)
    /\ LedgerProofs!Invoices = Invoices /\ LedgerProofs!Receipts = Receipts
BY DEF LedgerProofs!Row, LedgerProofs!Bill, LedgerProofs!Exists, LedgerProofs!Cancelled,
       LedgerProofs!FineWaived, LedgerProofs!Fined, LedgerProofs!Discounted,
       LedgerProofs!Charged, LedgerProofs!Settled, LedgerProofs!Generated,
       LedgerProofs!Minus, LedgerProofs!InvoiceStatuses, LedgerProofs!Priced,
       LedgerProofs!InvoiceStatus, LedgerProofs!Invoices, LedgerProofs!Receipts,
       Row, Bill, Exists, Cancelled, FineWaived, Fined, Discounted, Charged, Settled,
       Generated, Minus, InvoiceStatuses, Priced, InvoiceStatus, Invoices, Receipts

\* Math.max(0, a - b) is a natural number no larger than a.
LEMMA MinusNat ==
    ASSUME NEW a \in Nat, NEW b \in Nat
    PROVE  Minus(a, b) \in Nat /\ Minus(a, b) <= a
BY DEF Minus

\* Every row a handler writes is a row of an invoice that exists.
LEMMA WrittenRow ==
    ASSUME NEW row \in Row, NEW seen \in Row, NEW n \in Nat,
           NEW new \in {Fined(row, seen, n), Discounted(row, seen, n),
                        Charged(row, seen, n), FineWaived(row, seen),
                        Cancelled(row)}
    PROVE  new \in Row /\ Exists(new)
BY LedgerRows, LedgerProofs!WrittenRow, CountAssumption, AmountsAssumption,
   BillsAssumption, MaxMoneyAssumption

LEMMA SettledRow ==
    ASSUME NEW row \in Row, NEW seen \in Row, NEW n \in Nat
    PROVE  Settled(row, seen, n) \in Row /\ Exists(Settled(row, seen, n))
<1>1. /\ LedgerProofs!Settled(row, seen, n) \in Row
      /\ LedgerProofs!Settled(row, seen, n).status \in {"UNPAID", "PARTIAL", "PAID"}
  BY LedgerRows, LedgerProofs!RowTypes, CountAssumption, AmountsAssumption,
     BillsAssumption, MaxMoneyAssumption
<1>2. QED
  BY <1>1, LedgerRows DEF Exists

LEMMA BilledRow ==
    ASSUME NEW bill \in Bill
    PROVE  Generated(bill) \in Row /\ Exists(Generated(bill))
<1>1. /\ LedgerProofs!Generated(bill) \in Row
      /\ LedgerProofs!Generated(bill).status \in {"UNPAID", "PAID"}
  BY LedgerRows, LedgerProofs!GeneratedRow, CountAssumption, AmountsAssumption,
     BillsAssumption, MaxMoneyAssumption
<1>2. QED
  BY <1>1, LedgerRows DEF Exists

\* An allocation takes no more than the balance that was read, from invoices that
\* are targets only, and leaves a natural number.
LEMMA Shares ==
    ASSUME NEW rows \in [Invoices -> Row], NEW targets \in SUBSET Invoices,
           NEW amount \in Nat, NEW left \in L!Spending(rows, targets, amount)
    PROVE  /\ L!Share(left) \in [Invoices -> Nat]
           /\ left[InvoiceCount] \in Nat
           /\ \A i \in Invoices : L!Share(left)[i] > 0 => i \in targets
<1>1. LedgerProofs!Invoices = Invoices /\ LedgerProofs!Row = Row
  BY LedgerRows
<1>2. left \in LedgerProofs!Spending(rows, targets, amount)
  BY DEF L!Spending, LedgerProofs!Spending, L!Minus, LedgerProofs!Minus,
         L!Invoices, LedgerProofs!Invoices
<1>3. LedgerProofs!Share(left) = L!Share(left)
  BY DEF L!Share, LedgerProofs!Share, L!Invoices, LedgerProofs!Invoices
<1>4. QED
  BY <1>1, <1>2, <1>3, LedgerProofs!SpendingShares, CountAssumption,
     AmountsAssumption, BillsAssumption, MaxMoneyAssumption
  DEF LedgerProofs!Bill, Bill

---------------------------------------------------------------------------
(* How a step changes the database.                                        *)

\* Nothing is undone: a payment stays recorded with its allocations, an invoice
\* stays in existence.
Monotone ==
    /\ \A r \in Receipts : payment[r].status # "NONE" =>
            /\ payment'[r].status # "NONE"
            /\ payment'[r].alloc = payment[r].alloc
    /\ \A i \in Invoices : Exists(invoice[i]) => Exists(invoice'[i])

\* What the invariant says of the tables alone.
Tables ==
    /\ L!TypeOK
    /\ \A r \in Receipts : payment[r].status # "NONE" =>
        \A p \in Receipts : p < r => payment[p].status # "NONE"
    /\ \A r \in Receipts, i \in Invoices :
        payment[r].alloc[i] > 0 => Exists(invoice[i])

\* A request that a step does not concern still knows what it knew.
LEMMA OthersChecked ==
    ASSUME Monotone, NEW t \in Slots, request[t] \in Request, Checked(t),
           request'[t] = request[t]
    PROVE  Checked(t)'
BY DEF Checked, Monotone, Request

\* The step of one slot keeps the invariant when it leaves the tables in order and
\* the slot knows what it must.
LEMMA SlotStep ==
    ASSUME IInv, NEW s \in Slots, Monotone, Tables',
           NEW q \in Request, request' = [request EXCEPT ![s] = q],
           Checked(s)'
    PROVE  IInv'
<1>1. \A t \in Slots : request[t] \in Request /\ Checked(t)
  BY DEF IInv, TypeOK
<1>2. request' \in [Slots -> Request]
  BY DEF IInv, TypeOK
<1>3. \A t \in Slots : Checked(t)'
  <2> SUFFICES ASSUME NEW t \in Slots, t # s
               PROVE  Checked(t)'
    OBVIOUS
  <2>1. request'[t] = request[t]
    BY DEF IInv, TypeOK
  <2>2. QED
    BY <1>1, <2>1, OthersChecked
<1>4. QED
  BY <1>2, <1>3 DEF IInv, TypeOK, Tables

\* A step that leaves the tables alone.
LEMMA TablesKept ==
    ASSUME IInv, UNCHANGED dbVars
    PROVE  Monotone /\ Tables'
BY DEF IInv, TypeOK, dbVars, Monotone, Tables, L!TypeOK

\* A step that writes one invoice.
LEMMA TablesUpdated ==
    ASSUME IInv, NEW i \in Invoices, NEW row \in Row, Exists(row), L!Update(i, row)
    PROVE  Monotone /\ Tables'
<1>1. invoice' = [invoice EXCEPT ![i] = row] /\ payment' = payment /\ advance' = advance
  BY DEF L!Update
<1>2. invoice \in [Invoices -> Row] /\ invoice' \in [Invoices -> Row]
  BY <1>1, SameRows DEF IInv, TypeOK, L!TypeOK
<1>3. \A j \in Invoices : Exists(invoice[j]) => Exists(invoice'[j])
  BY <1>1, <1>2
<1>4. Monotone
  BY <1>1, <1>3 DEF Monotone
<1>5. L!TypeOK'
  BY <1>1, <1>2, SameRows DEF IInv, TypeOK, L!TypeOK
<1>6. QED
  BY <1>1, <1>3, <1>4, <1>5 DEF Tables, IInv

\* A request that ends frees its slot.
LEMMA Releases ==
    ASSUME IInv, NEW s \in Slots, Monotone, Tables', Release(s)
    PROVE  IInv'
<1>1. Idle \in Request
  BY DEF Idle, Request, Unread, Row, NoRow, InvoiceStatuses
<1>2. request'[s] = Idle
  BY DEF Release, IInv, TypeOK
<1>3. Checked(s)'
  BY <1>2 DEF Checked, Idle
<1>4. QED
  BY <1>1, <1>3, SlotStep DEF Release

---------------------------------------------------------------------------
(* Every step keeps the invariant.                                         *)

\* Reading: a handler that has made its checks on the rows knows they hold.
LEMMA EnterKeepsIInv ==
    ASSUME IInv, NEW s \in Slots, NEW op, NEW step, NEW r, NEW amount, NEW targets,
           Enter(s, op, step, r, amount, targets),
           op \in {"FINE", "BULK", "DISCOUNT", "CHARGE", "WAIVE", "CANCEL",
                   "COLLECT", "VOID"},
           step \in {"generate", "receipt", "commit"},
           r \in Receipts \cup {0}, amount \in Amounts \cup {0},
           targets \in SUBSET Invoices,
           op \in {"FINE", "BULK", "DISCOUNT", "CHARGE", "COLLECT"} => amount \in Amounts,
           op = "COLLECT" => step # "commit",
           op = "VOID" => /\ r \in Receipts
                          /\ payment[r].status # "NONE"
                          /\ targets = {i \in Invoices : payment[r].alloc[i] > 0},
           \A i \in targets :
               /\ op = "FINE" => MayFine(invoice[i])
               /\ op \in {"DISCOUNT", "CHARGE"} => MayAdjust(invoice[i])
               /\ op = "WAIVE" => MayWaive(invoice[i])
               /\ op = "CANCEL" => MayCancel(invoice[i])
               /\ op = "COLLECT" => Open(invoice[i])
               /\ Exists(invoice[i])
    PROVE  IInv'
<1> DEFINE seen == IF op = "BULK" THEN Unread ELSE Snapshot(targets)
           q == [op |-> op, step |-> step, r |-> r, amount |-> amount,
                 targets |-> targets, seen |-> seen]
<1>1. request' = [request EXCEPT ![s] = q] /\ UNCHANGED dbVars
  BY DEF Enter
<1>2. seen \in [Invoices -> Row]
  BY SameRows DEF Unread, Snapshot, IInv, TypeOK, L!TypeOK, NoRow, Row, InvoiceStatuses
<1>3. op # "BULK" => \A i \in targets : seen[i] = invoice[i]
  BY DEF Snapshot
<1> HIDE DEF seen
<1>4. q \in Request
  BY <1>2 DEF Request
<1>5. request'[s] = q
  BY <1>1 DEF IInv, TypeOK
<1>6. payment' = payment /\ invoice' = invoice
  BY <1>1 DEF dbVars
<1>7. Checked(s)'
  BY <1>3, <1>5, <1>6 DEF Checked
<1>8. QED
  BY <1>1, <1>4, <1>7, TablesKept, SlotStep

LEMMA ReadKeepsIInv ==
    ASSUME IInv, NEW s \in Slots, Read(s)
    PROVE  IInv'
<1>1. ASSUME NEW i \in Invoices, NEW amount \in Amounts, ReadLateFine(s, i, amount)
      PROVE  IInv'
  BY <1>1, EnterKeepsIInv DEF ReadLateFine, MayFine, Open, Exists
<1>2. ASSUME NEW i \in Invoices, NEW amount \in Amounts,
             NEW type \in {"DISCOUNT", "CHARGE"}, ReadAdjust(s, i, type, amount)
      PROVE  IInv'
  BY <1>2, EnterKeepsIInv DEF ReadAdjust, MayAdjust, Open, Exists
<1>3. ASSUME NEW set \in SUBSET Invoices, NEW amount \in Amounts,
             ReadOverdue(s, set, amount)
      PROVE  IInv'
  BY <1>3, EnterKeepsIInv DEF ReadOverdue, MayFine, Open, Exists
<1>4. ASSUME NEW set \in SUBSET Invoices, NEW amount \in Amounts,
             ReadOpen(s, set, amount)
      PROVE  IInv'
  <2> DEFINE open == set \cap L!OpenInvoices
  <2>1. open \in SUBSET Invoices
        /\ \A i \in open : Open(invoice[i]) /\ Exists(invoice[i])
    BY SameRows DEF L!OpenInvoices, Open, Exists
  <2>2. ASSUME NEW step \in {"generate", "receipt"}, NEW targets \in {open, {}},
               Enter(s, "COLLECT", step, 0, amount, targets)
        PROVE  IInv'
    BY <2>1, <2>2, EnterKeepsIInv
  <2>3. QED
    BY <1>4, <2>2 DEF ReadOpen
<1>5. ASSUME NEW i \in Invoices, ReadWaive(s, i)
      PROVE  IInv'
  BY <1>5, EnterKeepsIInv DEF ReadWaive, MayWaive
<1>6. ASSUME NEW i \in Invoices, ReadCancel(s, i)
      PROVE  IInv'
  BY <1>6, EnterKeepsIInv DEF ReadCancel, MayCancel, Exists
<1>7. ASSUME NEW r \in Receipts, ReadVoid(s, r)
      PROVE  IInv'
  <2> DEFINE targets == {i \in Invoices : payment[r].alloc[i] > 0}
  <2>1. \A i \in targets : Exists(invoice[i])
    BY DEF IInv
  <2>2. payment[r].status # "NONE" /\ Enter(s, "VOID", "commit", r, 0, targets)
    BY <1>7 DEF ReadVoid
  <2>3. QED
    BY <2>1, <2>2, EnterKeepsIInv
<1>8. QED
  BY <1>1, <1>2, <1>3, <1>4, <1>5, <1>6, <1>7 DEF Read

LEMMA PrepareKeepsIInv ==
    ASSUME IInv, NEW s \in Slots, Prepare(s)
    PROVE  IInv'
<1>1. request[s] \in Request /\ Checked(s)
  BY DEF IInv, TypeOK
<1>2. ASSUME ReadOpenAgain(s)
      PROVE  IInv'
  <2> DEFINE q == [request[s] EXCEPT !.step = "receipt",
                                     !.targets = L!OpenInvoices,
                                     !.seen = Snapshot(L!OpenInvoices)]
  <2>1. L!OpenInvoices \in SUBSET Invoices
        /\ \A i \in L!OpenInvoices : Open(invoice[i]) /\ Exists(invoice[i])
    BY SameRows DEF L!OpenInvoices, Open, Exists
  <2>2. Snapshot(L!OpenInvoices) \in [Invoices -> Row]
        /\ \A i \in L!OpenInvoices : Snapshot(L!OpenInvoices)[i] = invoice[i]
    BY <2>1, SameRows
    DEF Snapshot, IInv, TypeOK, L!TypeOK, NoRow, Row, InvoiceStatuses
  <2>3. q \in Request
    BY <1>1, <2>1, <2>2 DEF Request
  <2>4. request' = [request EXCEPT ![s] = q] /\ UNCHANGED dbVars
    BY <1>2 DEF ReadOpenAgain
  <2>5. request'[s] = q /\ payment' = payment /\ invoice' = invoice
    BY <2>4 DEF IInv, TypeOK, dbVars
  <2>6. /\ q.op = "COLLECT" /\ q.step = "receipt" /\ q.amount = request[s].amount
        /\ q.targets = L!OpenInvoices /\ q.seen = Snapshot(L!OpenInvoices)
        /\ request[s].op = "COLLECT"
    BY <1>1, <1>2 DEF ReadOpenAgain, Waiting, Request
  <2> HIDE DEF q
  <2>7. Checked(s)'
    BY <1>1, <2>1, <2>2, <2>5, <2>6 DEF Checked
  <2>8. QED
    BY <2>3, <2>4, <2>7, TablesKept, SlotStep
<1>3. ASSUME NEW r \in Receipts, TakeReceipt(s, r)
      PROVE  IInv'
  <2> DEFINE q == [request[s] EXCEPT !.step = "commit", !.r = r]
  <2>1. q \in Request
    BY <1>1 DEF Request
  <2>2. request' = [request EXCEPT ![s] = q] /\ UNCHANGED dbVars
    BY <1>3 DEF TakeReceipt
  <2>3. request'[s] = q /\ payment' = payment /\ invoice' = invoice
    BY <2>2 DEF IInv, TypeOK, dbVars
  <2>4. /\ q.op = "COLLECT" /\ q.r = r /\ q.amount = request[s].amount
        /\ q.targets = request[s].targets /\ q.seen = request[s].seen
        /\ request[s].op = "COLLECT"
    BY <1>1, <1>3 DEF TakeReceipt, Waiting, Request
  <2>5. \A p \in Receipts : p < r => payment[p].status # "NONE"
    BY <1>3, SameRows DEF TakeReceipt, L!NextReceipt, Receipts
  <2> HIDE DEF q
  <2>6. Checked(s)'
    BY <1>1, <2>3, <2>4, <2>5 DEF Checked
  <2>7. QED
    BY <2>1, <2>2, <2>6, TablesKept, SlotStep
<1>4. ASSUME Fail(s)
      PROVE  IInv'
  BY <1>4, TablesKept, Releases DEF Fail
<1>5. QED
  BY <1>2, <1>3, <1>4, ReadKeepsIInv DEF Prepare

\* Generating an invoice, from a collection or on its own.
LEMMA GenerateTables ==
    ASSUME IInv, NEW i \in Invoices, NEW bill \in Bills, L!Generate(i, bill)
    PROVE  Monotone /\ Tables'
<1>1. bill \in Bill
  BY BillsAssumption
<1>2. Generated(bill) \in Row /\ Exists(Generated(bill))
  BY <1>1, BilledRow
<1>3. L!Update(i, Generated(bill))
  BY SameRows DEF L!Generate
<1>4. QED
  BY <1>2, <1>3, TablesUpdated

LEMMA GenerateKeepsIInv ==
    ASSUME IInv, NEW i \in Invoices, NEW bill \in Bills, L!Generate(i, bill),
           request' = request
    PROVE  IInv'
<1>1. Monotone /\ Tables'
  BY GenerateTables
<1>2. ASSUME NEW t \in Slots
      PROVE  Checked(t)'
  <2>1. request[t] \in Request /\ Checked(t) /\ request'[t] = request[t]
    BY DEF IInv, TypeOK
  <2>2. QED
    BY <1>1, <2>1, OthersChecked
<1>3. request' \in [Slots -> Request]
  BY DEF IInv, TypeOK
<1>4. QED
  BY <1>1, <1>2, <1>3 DEF IInv, TypeOK, Tables

\* What a request read is a row, and what the clerk entered an amount.
LEMMA RequestTypes ==
    ASSUME IInv, NEW s \in Slots, NEW i \in Invoices
    PROVE  invoice[i] \in Row /\ request[s].seen[i] \in Row /\ request[s].amount \in Nat
<1>1. invoice[i] \in Row
  BY SameRows DEF IInv, TypeOK, L!TypeOK
<1>2. request[s] \in Request
  BY DEF IInv, TypeOK
<1>3. request[s].seen[i] \in Row
  BY <1>2 DEF Request
<1>4. request[s].amount \in Amounts \cup {0}
  BY <1>2 DEF Request
<1>5. Amounts \cup {0} \subseteq Nat
  BY AmountsAssumption
<1>6. request[s].amount \in Nat
  BY <1>4, <1>5
<1>7. QED
  BY <1>1, <1>3, <1>6

\* The handlers of one invoice write a row in existence, from whatever they read.
LEMMA CommitKeepsIInv ==
    ASSUME IInv, NEW s \in Slots, NEW i \in Invoices, Commit(s, i)
    PROVE  IInv'
<1> DEFINE seen == request[s].seen[i]
           amount == request[s].amount
<1>1. invoice[i] \in Row /\ seen \in Row /\ amount \in Nat
  BY RequestTypes
<1>2. PICK new \in {Fined(invoice[i], seen, amount), Discounted(invoice[i], seen, amount),
                    Charged(invoice[i], seen, amount), FineWaived(invoice[i], seen),
                    Cancelled(invoice[i])} : Write(s, i, new)
  BY DEF Commit
<1> HIDE DEF seen, amount
<1>3. new \in Row /\ Exists(new)
  BY <1>1, WrittenRow
<1>4. QED
  BY <1>2, <1>3, TablesUpdated, Releases DEF Write

LEMMA BulkFineKeepsIInv ==
    ASSUME IInv, NEW s \in Slots, NEW i \in Invoices, BulkFine(s, i)
    PROVE  IInv'
<1> DEFINE q == IF request[s].targets = {i} THEN Idle
                ELSE [request[s] EXCEPT !.targets = @ \ {i}]
<1>1. request[s] \in Request /\ Checked(s) /\ request[s].op = "BULK"
  BY DEF IInv, TypeOK, BulkFine, Waiting
<1>2. Monotone /\ Tables'
  <2>1. CASE UNCHANGED dbVars
    BY <2>1, TablesKept
  <2>2. CASE L!Update(i, Fined(invoice[i], invoice[i], request[s].amount))
    <3>1. invoice[i] \in Row /\ request[s].amount \in Nat
      BY RequestTypes
    <3>2. Fined(invoice[i], invoice[i], request[s].amount) \in Row
          /\ Exists(Fined(invoice[i], invoice[i], request[s].amount))
      BY <3>1, WrittenRow
    <3>3. QED
      BY <2>2, <3>2, TablesUpdated
  <2>3. QED
    BY <2>1, <2>2 DEF BulkFine
<1>3. Idle \in Request
  BY DEF Idle, Request, Unread, Row, NoRow, InvoiceStatuses
<1>4. q \in Request
  BY <1>1, <1>3 DEF Request
<1>5. request' = [request EXCEPT ![s] = q]
  BY DEF BulkFine, NextOverdue
<1>6. request'[s] = q
  BY <1>5 DEF IInv, TypeOK
<1>7. CASE request[s].targets = {i}
  BY <1>2, <1>5, <1>7, Releases DEF Release
<1>8. CASE request[s].targets # {i}
  <2>1. /\ q.op = "BULK" /\ q.amount = request[s].amount
        /\ q.targets = request[s].targets \ {i}
    BY <1>1, <1>8 DEF Request
  <2> HIDE DEF q
  <2>2. Checked(s)'
    BY <1>1, <1>2, <1>6, <2>1 DEF Checked, Monotone, Request
  <2>3. QED
    BY <1>2, <1>4, <1>5, <2>2, SlotStep
<1>9. QED
  BY <1>7, <1>8

\* A transaction that writes the paid amount of several invoices.
LEMMA SettledInvoices ==
    ASSUME IInv, NEW set \in SUBSET Invoices, NEW rows \in [Invoices -> Row],
           NEW paid \in [Invoices -> Nat],
           invoice' = [i \in Invoices |->
                        IF i \in set THEN Settled(invoice[i], rows[i], paid[i])
                                     ELSE invoice[i]]
    PROVE  /\ invoice' \in [Invoices -> Row]
           /\ \A i \in Invoices : Exists(invoice[i]) => Exists(invoice'[i])
<1>1. ASSUME NEW i \in Invoices
      PROVE  /\ invoice[i] \in Row
             /\ Settled(invoice[i], rows[i], paid[i]) \in Row
             /\ Exists(Settled(invoice[i], rows[i], paid[i]))
  <2>1. invoice[i] \in Row /\ rows[i] \in Row /\ paid[i] \in Nat
    BY SameRows DEF IInv, TypeOK, L!TypeOK
  <2>2. QED
    BY <2>1, SettledRow
<1>2. QED
  BY <1>1

LEMMA CollectKeepsIInv ==
    ASSUME IInv, NEW s \in Slots, CommitCollect(s)
    PROVE  IInv'
<1> DEFINE q == request[s]
<1>1. /\ q \in Request /\ Checked(s)
      /\ q.seen \in [Invoices -> Row] /\ q.targets \in SUBSET Invoices
  BY DEF IInv, TypeOK, Request
<1>2. /\ q.amount \in Nat /\ q.r \in Receipts
      /\ \A p \in Receipts : p < q.r => payment[p].status # "NONE"
      /\ \A i \in q.targets : Exists(invoice[i])
  BY <1>1, AmountsAssumption DEF CommitCollect, Waiting, Checked
<1>3. PICK left \in L!Spending(q.seen, q.targets, q.amount) :
        /\ payment' = [payment EXCEPT
                        ![q.r] = [status |-> "COMPLETED", amount |-> q.amount,
                                  alloc |-> L!Share(left)]]
        /\ invoice' = L!Settle(invoice, q.seen, L!Share(left))
        /\ advance' = advance + left[InvoiceCount]
  BY DEF CommitCollect
<1>4. /\ L!Share(left) \in [Invoices -> Nat] /\ left[InvoiceCount] \in Nat
      /\ \A i \in Invoices : L!Share(left)[i] > 0 => i \in q.targets
  BY <1>1, <1>2, Shares
<1> DEFINE set == {i \in Invoices : L!Share(left)[i] # 0}
           paid == [i \in Invoices |-> q.seen[i].paid + L!Share(left)[i]]
<1>5. paid \in [Invoices -> Nat]
  BY <1>1, <1>4 DEF Row
<1>6. invoice' = [i \in Invoices |->
                    IF i \in set THEN Settled(invoice[i], q.seen[i], paid[i])
                                 ELSE invoice[i]]
  BY <1>3, SameRows DEF L!Settle
<1>7. /\ invoice' \in [Invoices -> Row]
      /\ \A i \in Invoices : Exists(invoice[i]) => Exists(invoice'[i])
  BY <1>1, <1>5, <1>6, SettledInvoices
<1>8. /\ payment' \in [Receipts -> L!Payment]
      /\ payment'[q.r] = [status |-> "COMPLETED", amount |-> q.amount,
                          alloc |-> L!Share(left)]
      /\ \A r \in Receipts : r # q.r => payment'[r] = payment[r]
  BY <1>2, <1>3, <1>4, SameRows DEF IInv, TypeOK, L!TypeOK, L!Payment
<1>9. advance' \in Nat
  BY <1>3, <1>4 DEF IInv, TypeOK, L!TypeOK
<1>10. Monotone
  BY <1>7, <1>8 DEF Monotone, CommitCollect
<1>11. Tables'
  <2>1. L!TypeOK'
    BY <1>7, <1>8, <1>9, SameRows DEF L!TypeOK
  <2>2. ASSUME NEW r \in Receipts, payment'[r].status # "NONE",
               NEW p \in Receipts, p < r
        PROVE  payment'[p].status # "NONE"
    BY <1>2, <1>8, <2>2 DEF IInv
  <2>3. ASSUME NEW r \in Receipts, NEW i \in Invoices, payment'[r].alloc[i] > 0
        PROVE  Exists(invoice'[i])
    BY <1>2, <1>4, <1>7, <1>8, <2>3 DEF IInv
  <2>4. QED
    BY <2>1, <2>2, <2>3 DEF Tables
<1>12. QED
  BY <1>10, <1>11, Releases DEF CommitCollect

LEMMA VoidKeepsIInv ==
    ASSUME IInv, NEW s \in Slots, CommitVoid(s)
    PROVE  IInv'
<1> DEFINE q == request[s]
           alloc == payment[q.r].alloc
<1>1. q \in Request /\ q.seen \in [Invoices -> Row] /\ q.r \in Receipts
      /\ payment[q.r].status # "NONE"
  BY DEF IInv, TypeOK, Request, CommitVoid, Waiting, Checked
<1>2. payment[q.r] \in L!Payment /\ alloc \in [Invoices -> Nat]
      /\ payment[q.r].amount \in Nat
  BY <1>1, SameRows DEF IInv, TypeOK, L!TypeOK, L!Payment
<1> DEFINE set == {i \in Invoices : alloc[i] # 0}
           paid == [i \in Invoices |-> Minus(q.seen[i].paid, alloc[i])]
<1>3. paid \in [Invoices -> Nat]
  BY <1>1, <1>2, MinusNat DEF Row
<1>4. invoice' = [i \in Invoices |->
                    IF i \in set THEN Settled(invoice[i], q.seen[i], paid[i])
                                 ELSE invoice[i]]
  BY SameRows DEF CommitVoid, L!Restore
<1>5. /\ invoice' \in [Invoices -> Row]
      /\ \A i \in Invoices : Exists(invoice[i]) => Exists(invoice'[i])
  BY <1>1, <1>3, <1>4, SettledInvoices
<1>6. /\ payment' \in [Receipts -> L!Payment]
      /\ \A r \in Receipts : /\ payment'[r].alloc = payment[r].alloc
                             /\ payment'[r].status = "NONE" <=> payment[r].status = "NONE"
  BY <1>1, <1>2 DEF CommitVoid, IInv, TypeOK, L!TypeOK, L!Receipts, Receipts, L!Payment
<1>7. advance' \in Nat
  <2>1. PICK left \in L!Unspent(payment[q.r]) : advance' = Minus(advance, left[InvoiceCount])
    BY DEF CommitVoid
  <2>2. left[InvoiceCount] \in Nat
    BY <1>2, CountAssumption DEF L!Unspent
  <2>3. QED
    BY <2>1, <2>2, MinusNat DEF IInv, TypeOK, L!TypeOK
<1>8. Monotone
  BY <1>5, <1>6 DEF Monotone
<1>9. Tables'
  BY <1>5, <1>6, <1>7, SameRows DEF Tables, L!TypeOK, IInv
<1>10. QED
  BY <1>8, <1>9, Releases DEF CommitVoid

\* The empty database.
LEMMA InitIInv == Init => IInv
<1> SUFFICES ASSUME Init PROVE IInv
  OBVIOUS
<1>1. NoRow \in Row
  BY DEF NoRow, Row, InvoiceStatuses
<1>2. L!NoPayment \in L!Payment
  BY DEF L!NoPayment, L!Payment
<1>3. Idle \in Request
  BY <1>1 DEF Idle, Request, Unread
<1>4. TypeOK
  BY <1>1, <1>2, <1>3, SameRows DEF Init, L!Init, TypeOK, L!TypeOK
<1>5. \A r \in Receipts : payment[r] = L!NoPayment
  BY SameRows DEF Init, L!Init
<1>6. \A s \in Slots : Checked(s)
  BY DEF Init, Checked, Idle
<1>7. QED
  BY <1>4, <1>5, <1>6, SameRows DEF IInv, L!NoPayment

\* Whatever the interleaving, the invariant holds.
LEMMA Invariance == Spec => []IInv
<1>1. Init => IInv
  BY InitIInv
<1>2. IInv /\ [Next]_vars => IInv'
  <2>1. ASSUME IInv, UNCHANGED vars
        PROVE  IInv'
    <3>1. request' = request /\ UNCHANGED dbVars
      BY <2>1 DEF vars, dbVars
    <3>2. Monotone /\ Tables'
      BY <2>1, <3>1, TablesKept
    <3>3. QED
      BY <2>1, <3>1, <3>2, OthersChecked DEF IInv, TypeOK, Tables
  <2>2. ASSUME IInv, Next
        PROVE  IInv'
    BY <2>2, PrepareKeepsIInv, CommitKeepsIInv, BulkFineKeepsIInv, CollectKeepsIInv,
       VoidKeepsIInv, GenerateKeepsIInv
    DEF Next, WriteBack, AutoGenerate, GenerateInvoice
  <2>3. QED
    BY <2>1, <2>2
<1>3. QED
  BY <1>1, <1>2, PTL DEF Spec

\* However requests interleave, no column ever leaves its type: no amount becomes
\* negative and the advance balance stays a natural number.
THEOREM TypeCorrect == Spec => []TypeOK
<1>1. IInv => TypeOK
  BY DEF IInv
<1>2. QED
  BY <1>1, Invariance, PTL

---------------------------------------------------------------------------
(* Writing what is still true is serial.                                   *)

\* The handlers of one invoice.
LEMMA FreshCommit ==
    ASSUME IInv, NEW s \in Slots, NEW i \in Invoices, Commit(s, i), Fresh(s)
    PROVE  L!Next
<1> DEFINE amount == request[s].amount
<1>1. /\ request[s].targets = {i} /\ request[s].op # "BULK" /\ request[s].step = "commit"
      /\ Checked(s)
  BY DEF Commit, Waiting, IInv
<1>2. request[s].seen[i] = invoice[i]
  BY <1>1 DEF Fresh
<1>3. CASE request[s].op = "FINE"
  <2>1. L!ApplyLateFine(i, amount) /\ amount \in Amounts
    BY <1>1, <1>2, <1>3, SameRows
    DEF Commit, Waiting, Write, L!ApplyLateFine, Checked
  <2>2. QED
    BY <2>1, SameRows DEF L!Next
<1>4. CASE request[s].op = "DISCOUNT"
  <2>1. L!AdjustDiscount(i, amount) /\ amount \in Amounts
    BY <1>1, <1>2, <1>4, SameRows
    DEF Commit, Waiting, Write, L!AdjustDiscount, Checked
  <2>2. QED
    BY <2>1, SameRows DEF L!Next
<1>5. CASE request[s].op = "CHARGE"
  <2>1. L!AdjustCharge(i, amount) /\ amount \in Amounts
    BY <1>1, <1>2, <1>5, SameRows
    DEF Commit, Waiting, Write, L!AdjustCharge, Checked
  <2>2. QED
    BY <2>1, SameRows DEF L!Next
<1>6. CASE request[s].op = "WAIVE"
  <2>1. L!WaiveFine(i)
    BY <1>1, <1>2, <1>6, SameRows
    DEF Commit, Waiting, Write, L!WaiveFine, Checked
  <2>2. QED
    BY <2>1, SameRows DEF L!Next
<1>7. CASE request[s].op = "CANCEL"
  <2>1. L!Cancel(i)
    BY <1>1, <1>2, <1>7, SameRows
    DEF Commit, Waiting, Write, L!Cancel, Checked, Fresh
  <2>2. QED
    BY <2>1, SameRows DEF L!Next
<1>8. QED
  BY <1>3, <1>4, <1>5, <1>6, <1>7 DEF Commit, Waiting

\* One transaction of the bulk fine.
LEMMA FreshBulkFine ==
    ASSUME IInv, NEW s \in Slots, NEW i \in Invoices, BulkFine(s, i), Fresh(s)
    PROVE  L!Next \/ UNCHANGED dbVars
<1> DEFINE amount == request[s].amount
<1>1. amount \in Amounts /\ request[s].op = "BULK" /\ i \in request[s].targets
  BY DEF IInv, Checked, BulkFine, Waiting
<1>2. invoice[i].fine \in Nat
  BY RequestTypes DEF Row
<1>3. CASE UNCHANGED dbVars
  BY <1>3
<1>4. CASE /\ ~(invoice[i].fine > 0 \/ invoice[i].waived)
           /\ L!Update(i, Fined(invoice[i], invoice[i], amount))
  <2>1. MayFine(invoice[i])
    BY <1>1, <1>2, <1>4 DEF Fresh
  <2>2. L!ApplyLateFine(i, amount)
    BY <1>4, <2>1, SameRows DEF L!ApplyLateFine
  <2>3. QED
    BY <1>1, <2>2, SameRows DEF L!Next
<1>5. QED
  BY <1>3, <1>4 DEF BulkFine

\* A receipt number that is still free is the next one: receipts are in order.
LEMMA StillNext ==
    ASSUME IInv, NEW s \in Slots, CommitCollect(s)
    PROVE  L!NextReceipt(request[s].r) /\ request[s].r \in Receipts
<1> DEFINE r == request[s].r
<1>1. /\ r \in Receipts /\ payment[r].status = "NONE"
      /\ \A p \in Receipts : p < r => payment[p].status # "NONE"
  BY DEF CommitCollect, Waiting, IInv, Checked
<1>2. \A p \in Receipts : p > r => payment[p].status = "NONE"
  BY <1>1 DEF IInv, Receipts
<1>3. \A p \in Receipts : p < r \/ p = r \/ p > r
  BY <1>1 DEF Receipts
<1>4. \A p \in Receipts : payment[p].status = "NONE" <=> p >= r
  BY <1>1, <1>2, <1>3 DEF Receipts
<1>5. QED
  BY <1>1, <1>4, SameRows DEF L!NextReceipt

\* A payment allocated from balances that have not changed.
LEMMA FreshCollect ==
    ASSUME IInv, NEW s \in Slots, CommitCollect(s), Fresh(s)
    PROVE  L!Next
<1> DEFINE q == request[s]
<1>1. /\ q \in Request /\ Checked(s) /\ q.op = "COLLECT"
      /\ q.seen \in [Invoices -> Row] /\ q.targets \in SUBSET Invoices
      /\ q.amount \in Amounts /\ q.amount \in Nat
  BY AmountsAssumption DEF IInv, TypeOK, Request, CommitCollect, Waiting, Checked
<1>2. /\ \A i \in q.targets : q.seen[i] = invoice[i]
      /\ q.targets \subseteq L!OpenInvoices
  BY <1>1, SameRows DEF Fresh, Checked, L!OpenInvoices
<1>3. q.targets \in L!Targets(q.targets)
  BY <1>2 DEF L!Targets
<1>4. L!Spending(q.seen, q.targets, q.amount) = L!Spending(invoice, q.targets, q.amount)
  BY <1>2 DEF L!Spending
<1>5. PICK left \in L!Spending(q.seen, q.targets, q.amount) :
        /\ payment' = [payment EXCEPT
                        ![q.r] = [status |-> "COMPLETED", amount |-> q.amount,
                                  alloc |-> L!Share(left)]]
        /\ invoice' = L!Settle(invoice, q.seen, L!Share(left))
        /\ advance' = advance + left[InvoiceCount]
  BY DEF CommitCollect
<1>6. /\ L!Share(left) \in [Invoices -> Nat]
      /\ \A i \in Invoices : L!Share(left)[i] > 0 => i \in q.targets
  BY <1>1, Shares
<1>7. \A i \in Invoices : L!Share(left)[i] # 0 => q.seen[i] = invoice[i]
  BY <1>2, <1>6
<1>8. L!Settle(invoice, q.seen, L!Share(left)) = L!Settle(invoice, invoice, L!Share(left))
  BY <1>7, SameRows DEF L!Settle
<1>9. L!Collect(q.r, q.amount, q.targets)
  BY <1>4, <1>5, <1>8, StillNext DEF L!Collect
<1>10. QED
  BY <1>1, <1>3, <1>9, StillNext, SameRows DEF L!Next

\* A void that writes back what the invoices still hold.
LEMMA FreshVoid ==
    ASSUME IInv, NEW s \in Slots, CommitVoid(s), Fresh(s)
    PROVE  L!Next
<1> DEFINE q == request[s]
           alloc == payment[q.r].alloc
<1>1. /\ q.op = "VOID" /\ q.r \in Receipts
      /\ q.targets = {i \in Invoices : alloc[i] > 0}
  BY DEF IInv, CommitVoid, Waiting, Checked
<1>2. /\ payment[q.r].status = "COMPLETED"
      /\ \A i \in q.targets : q.seen[i] = invoice[i]
  BY <1>1 DEF Fresh
<1>3. alloc \in [Invoices -> Nat]
  BY <1>1, SameRows DEF IInv, TypeOK, L!TypeOK, L!Payment
<1>4. \A i \in Invoices : alloc[i] # 0 => q.seen[i] = invoice[i]
  BY <1>1, <1>2, <1>3
<1>5. L!Restore(invoice, q.seen, alloc) = L!Restore(invoice, invoice, alloc)
  BY <1>4, SameRows DEF L!Restore
<1>6. L!Void(q.r)
  BY <1>2, <1>5, SameRows DEF L!Void, CommitVoid
<1>7. QED
  BY <1>1, <1>6, SameRows DEF L!Next

LEMMA FreshWrite ==
    ASSUME IInv, NEW s \in Slots, WriteBack(s), Fresh(s)
    PROVE  L!Next \/ UNCHANGED dbVars
BY FreshCommit, FreshBulkFine, FreshCollect, FreshVoid DEF WriteBack

LEMMA PrepareWritesNothing ==
    ASSUME NEW s \in Slots, Prepare(s)
    PROVE  UNCHANGED dbVars
BY DEF Prepare, Read, ReadLateFine, ReadAdjust, ReadOverdue, ReadOpen, ReadWaive,
       ReadCancel, ReadVoid, Enter, ReadOpenAgain, TakeReceipt, Fail

LEMMA GenerateIsSerial ==
    ASSUME NEW i \in Invoices, NEW bill \in Bills, L!Generate(i, bill)
    PROVE  L!Next
BY SameRows DEF L!Next

\* The server leaves the serial behaviour of the fee desk only when a handler
\* writes from a read that another request has made stale; every other step of
\* any interleaving is a step of the ledger.
THEOREM StaleWritesOnly == Spec => OnlyStaleWritesDiverge
<1>1. ASSUME IInv, Next
      PROVE  (\E s \in Slots : WriteBack(s) /\ ~Fresh(s)) \/ L!Next \/ UNCHANGED dbVars
  BY <1>1, FreshWrite, PrepareWritesNothing, GenerateIsSerial
  DEF Next, AutoGenerate, GenerateInvoice
<1>2. QED
  BY <1>1, Invariance, PTL DEF Spec, OnlyStaleWritesDiverge

---------------------------------------------------------------------------
(* Requests that run one at a time.                                        *)

AllFresh == \A s \in Slots : Fresh(s)

LEMMA IdleFresh ==
    ASSUME NEW s \in Slots, request[s] = Idle
    PROVE  Fresh(s)
BY DEF Fresh, Idle

\* A request that just read knows the truth.
LEMMA EnterFresh ==
    ASSUME IInv, NEW s \in Slots, NEW op, NEW step, NEW r, NEW amount,
           NEW targets \in SUBSET Invoices,
           Enter(s, op, step, r, amount, targets),
           op = "BULK" => \A i \in targets : MayFine(invoice[i]),
           op = "CANCEL" => \A i \in targets : ~L!Allocated(i),
           op = "VOID" => payment[r].status = "COMPLETED"
    PROVE  Fresh(s)'
<1> DEFINE q == [op |-> op, step |-> step, r |-> r, amount |-> amount,
                 targets |-> targets,
                 seen |-> IF op = "BULK" THEN Unread ELSE Snapshot(targets)]
<1>1. request' = [request EXCEPT ![s] = q] /\ UNCHANGED dbVars
  BY DEF Enter
<1>2. /\ request'[s] = q
      /\ payment' = payment /\ invoice' = invoice
  BY <1>1 DEF IInv, TypeOK, dbVars
<1>3. op # "BULK" => \A i \in targets : q.seen[i] = invoice[i]
  BY DEF Snapshot
<1>4. q.op = op /\ q.targets = targets /\ q.r = r
  OBVIOUS
<1> HIDE DEF q
<1>5. QED
  BY <1>2, <1>3, <1>4 DEF Fresh, L!Allocated

LEMMA PrepareFresh ==
    ASSUME IInv, NEW s \in Slots, Fresh(s), Prepare(s)
    PROVE  Fresh(s)'
<1>1. request[s] \in Request
  BY DEF IInv, TypeOK
<1>2. ASSUME Read(s)
      PROVE  Fresh(s)'
  <2>1. ASSUME NEW i \in Invoices, NEW amount \in Amounts, ReadLateFine(s, i, amount)
        PROVE  Fresh(s)'
    BY <2>1, EnterFresh DEF ReadLateFine
  <2>2. ASSUME NEW i \in Invoices, NEW amount \in Amounts,
               NEW type \in {"DISCOUNT", "CHARGE"}, ReadAdjust(s, i, type, amount)
        PROVE  Fresh(s)'
    BY <2>2, EnterFresh DEF ReadAdjust
  <2>3. ASSUME NEW set \in SUBSET Invoices, NEW amount \in Amounts,
               ReadOverdue(s, set, amount)
        PROVE  Fresh(s)'
    BY <2>3, EnterFresh DEF ReadOverdue
  <2>4. ASSUME NEW set \in SUBSET Invoices, NEW amount \in Amounts,
               ReadOpen(s, set, amount)
        PROVE  Fresh(s)'
    <3>1. set \cap L!OpenInvoices \in SUBSET Invoices /\ {} \in SUBSET Invoices
      OBVIOUS
    <3>2. QED
      BY <2>4, <3>1, EnterFresh DEF ReadOpen
  <2>5. ASSUME NEW i \in Invoices, ReadWaive(s, i)
        PROVE  Fresh(s)'
    BY <2>5, EnterFresh DEF ReadWaive
  <2>6. ASSUME NEW i \in Invoices, ReadCancel(s, i)
        PROVE  Fresh(s)'
    BY <2>6, EnterFresh DEF ReadCancel
  <2>7. ASSUME NEW r \in Receipts, ReadVoid(s, r)
        PROVE  Fresh(s)'
    BY <2>7, EnterFresh DEF ReadVoid
  <2>8. QED
    BY <1>2, <2>1, <2>2, <2>3, <2>4, <2>5, <2>6, <2>7 DEF Read
<1>3. ASSUME ReadOpenAgain(s)
      PROVE  Fresh(s)'
  <2>1. /\ request'[s].op = "COLLECT" /\ request'[s].targets = L!OpenInvoices
        /\ request'[s].seen = Snapshot(L!OpenInvoices)
        /\ invoice' = invoice /\ payment' = payment
    BY <1>1, <1>3 DEF ReadOpenAgain, Waiting, IInv, TypeOK, Request, dbVars
  <2>2. L!OpenInvoices \subseteq Invoices
    BY SameRows DEF L!OpenInvoices
  <2>3. \A i \in L!OpenInvoices : Snapshot(L!OpenInvoices)[i] = invoice[i]
    BY <2>2 DEF Snapshot
  <2>4. QED
    BY <2>1, <2>3 DEF Fresh
<1>4. ASSUME NEW r \in Receipts, TakeReceipt(s, r)
      PROVE  Fresh(s)'
  <2>1. /\ request'[s].op = "COLLECT" /\ request'[s].targets = request[s].targets
        /\ request'[s].seen = request[s].seen /\ request[s].op = "COLLECT"
        /\ invoice' = invoice /\ payment' = payment
    BY <1>1, <1>4 DEF TakeReceipt, Waiting, IInv, TypeOK, Request, dbVars
  <2>2. QED
    BY <2>1 DEF Fresh
<1>5. ASSUME Fail(s)
      PROVE  Fresh(s)'
  BY <1>5 DEF Fail, Release, IInv, TypeOK, Fresh, Idle
<1>6. QED
  BY <1>2, <1>3, <1>4, <1>5 DEF Prepare

\* A new invoice is none that a request in flight has read.
LEMMA GenerateFresh ==
    ASSUME IInv, NEW i \in Invoices, NEW bill, L!Generate(i, bill),
           request' = request, NEW s \in Slots, Fresh(s)
    PROVE  Fresh(s)'
<1>1. /\ invoice' = [invoice EXCEPT ![i] = Generated(bill)] /\ payment' = payment
      /\ ~Exists(invoice[i])
  BY SameRows DEF L!Generate, L!Update
<1>2. /\ request[s].targets \in SUBSET Invoices
      /\ \A j \in request[s].targets : Exists(invoice[j])
  BY DEF IInv, TypeOK, Request, Checked
<1>3. \A j \in request[s].targets : invoice'[j] = invoice[j]
  BY <1>1, <1>2, SameRows DEF IInv, TypeOK, L!TypeOK
<1>4. QED
  BY <1>1, <1>3 DEF Fresh, L!Allocated

\* A request that has written is over, or has one overdue invoice less to fine.
LEMMA WriteFresh ==
    ASSUME IInv, NEW s \in Slots, Fresh(s), WriteBack(s)
    PROVE  Fresh(s)'
<1>1. ASSUME Release(s)
      PROVE  Fresh(s)'
  BY <1>1 DEF Release, IInv, TypeOK, Fresh, Idle
<1>2. ASSUME NEW i \in Invoices, BulkFine(s, i)
      PROVE  Fresh(s)'
  <2>1. request[s] \in Request /\ request[s].op = "BULK"
    BY <1>2 DEF IInv, TypeOK, BulkFine, Waiting
  <2>2. CASE request[s].targets = {i}
    BY <1>1, <1>2, <2>2 DEF BulkFine, NextOverdue, Release
  <2>3. CASE request[s].targets # {i}
    <3>1. /\ request'[s].op = "BULK"
          /\ request'[s].targets = request[s].targets \ {i}
      BY <1>2, <2>1, <2>3 DEF BulkFine, NextOverdue, IInv, TypeOK, Request
    <3>2. \A j \in Invoices : j # i => invoice'[j] = invoice[j]
      BY <1>2, SameRows DEF BulkFine, L!Update, dbVars, IInv, TypeOK, L!TypeOK
    <3>3. request[s].targets \subseteq Invoices
      BY <2>1 DEF Request
    <3>4. QED
      BY <2>1, <3>1, <3>2, <3>3 DEF Fresh
  <2>4. QED
    BY <2>2, <2>3
<1>3. QED
  BY <1>1, <1>2 DEF WriteBack, Commit, Write, CommitCollect, CommitVoid

\* With one request at a time the server does exactly what the serial fee desk
\* does, although it reads, generates, numbers and writes in separate steps.
THEOREM OneAtATime ==
    ASSUME NEW s0, Slots = {s0}
    PROVE  Spec => ImplementsLedger
<1>1. Init => L!Init /\ AllFresh
  BY IdleFresh DEF Init, AllFresh
<1>2. IInv /\ AllFresh /\ [Next]_vars => AllFresh'
  <2>1. ASSUME IInv, AllFresh, Next
        PROVE  AllFresh'
    BY <2>1, PrepareFresh, GenerateFresh, WriteFresh
    DEF Next, AutoGenerate, GenerateInvoice, AllFresh
  <2>2. ASSUME AllFresh, UNCHANGED vars
        PROVE  AllFresh'
    BY <2>2 DEF AllFresh, Fresh, vars, L!Allocated
  <2>3. QED
    BY <2>1, <2>2
<1>3. IInv /\ AllFresh /\ [Next]_vars => [L!Next]_(L!vars)
  <2>1. ASSUME IInv, AllFresh, Next
        PROVE  L!Next \/ UNCHANGED dbVars
    BY <2>1, FreshWrite, PrepareWritesNothing, GenerateIsSerial
    DEF Next, AutoGenerate, GenerateInvoice, AllFresh
  <2>2. QED
    BY <2>1 DEF vars, dbVars, L!vars
<1>4. QED
  BY <1>1, <1>2, <1>3, Invariance, PTL DEF Spec, ImplementsLedger, L!Spec

---------------------------------------------------------------------------
(* The advance balance.                                                    *)

\* What the payments in force left over.
LeftOver == SumFunctionOnSet([r \in Receipts |-> L!Excess(payment[r])], L!Live)

\* Both sides sum the same excesses over the same payments.
LEMMA LedgerSums ==
    /\ LedgerProofs!Payment = L!Payment
    /\ \A p : LedgerProofs!Excess(p) = L!Excess(p)
    /\ \A p : LedgerProofs!Unspent(p) = L!Unspent(p)
    /\ \A left : LedgerProofs!Share(left) = L!Share(left)
    /\ \A rows, targets, amount :
        LedgerProofs!Spending(rows, targets, amount) = L!Spending(rows, targets, amount)
    /\ LedgerProofs!TypeOK = L!TypeOK /\ LedgerProofs!TypeOK' = L!TypeOK'
    /\ LedgerProofs!Live = L!Live
    /\ LedgerProofs!SumFunctionOnSet(LedgerProofs!Excesses, LedgerProofs!Live) = LeftOver
    /\ LedgerProofs!SumFunctionOnSet(LedgerProofs!Excesses', LedgerProofs!Live') = LeftOver'
<1>1. \A f, S : /\ LedgerProofs!SumFunctionOnSet(f, S) = SumFunctionOnSet(f, S)
                /\ L!SumFunctionOnSet(f, S) = SumFunctionOnSet(f, S)
  BY DEF LedgerProofs!SumFunctionOnSet, LedgerProofs!FoldFunctionOnSet,
         LedgerProofs!MapThenFoldSet, L!SumFunctionOnSet, L!FoldFunctionOnSet,
         L!MapThenFoldSet, SumFunctionOnSet, FoldFunctionOnSet, MapThenFoldSet
<1>2. \A p : LedgerProofs!Excess(p) = L!Excess(p)
  BY <1>1 DEF LedgerProofs!Excess, L!Excess, LedgerProofs!AllocatedSum, L!AllocatedSum,
     LedgerProofs!Minus, L!Minus, LedgerProofs!Invoices, L!Invoices
<1>3. /\ LedgerProofs!Payment = L!Payment
      /\ LedgerProofs!TypeOK = L!TypeOK /\ LedgerProofs!TypeOK' = L!TypeOK'
  BY LedgerRows, SameRows
  DEF LedgerProofs!Payment, L!Payment, LedgerProofs!TypeOK, L!TypeOK
<1>4. /\ LedgerProofs!Excesses = [r \in Receipts |-> L!Excess(payment[r])]
      /\ LedgerProofs!Excesses' = [r \in Receipts |-> L!Excess(payment'[r])]
  BY <1>2, LedgerRows DEF LedgerProofs!Excesses
<1>5. LedgerProofs!Live = L!Live /\ LedgerProofs!Live' = L!Live'
  BY LedgerRows, SameRows DEF LedgerProofs!Live, L!Live
<1>6. /\ \A p : LedgerProofs!Unspent(p) = L!Unspent(p)
      /\ \A left : LedgerProofs!Share(left) = L!Share(left)
      /\ \A rows, targets, amount :
          LedgerProofs!Spending(rows, targets, amount) = L!Spending(rows, targets, amount)
  BY DEF LedgerProofs!Unspent, L!Unspent, LedgerProofs!Share, L!Share,
      LedgerProofs!Spending, L!Spending, LedgerProofs!Minus, L!Minus,
      LedgerProofs!Invoices, L!Invoices
<1>7. /\ LedgerProofs!SumFunctionOnSet(LedgerProofs!Excesses, LedgerProofs!Live) = LeftOver
      /\ LedgerProofs!SumFunctionOnSet(LedgerProofs!Excesses', LedgerProofs!Live') = LeftOver'
  BY <1>1, <1>4, <1>5 DEF LeftOver
<1>8. QED
  BY <1>2, <1>3, <1>5, <1>6, <1>7

LEMMA LeftOverNat ==
    ASSUME L!TypeOK
    PROVE  LeftOver \in Nat
BY LedgerSums, LedgerProofs!ExcessTotal, CountAssumption, AmountsAssumption,
   BillsAssumption, MaxMoneyAssumption DEF LedgerProofs!Bill, Bill

\* A transaction that collects adds to both alike, whatever balances it had read.
LEMMA CollectAdvance ==
    ASSUME IInv, IInv', NEW s \in Slots, CommitCollect(s), advance <= LeftOver
    PROVE  advance' <= LeftOver'
<1> DEFINE q == request[s]
<1>1. /\ q.seen \in [Invoices -> Row] /\ q.targets \in SUBSET Invoices
      /\ q.amount \in Nat /\ q.r \in Receipts
      /\ payment[q.r].status = "NONE"
  BY AmountsAssumption DEF IInv, TypeOK, Request, CommitCollect, Waiting, Checked
<1>2. PICK left \in L!Spending(q.seen, q.targets, q.amount) :
        /\ payment' = [payment EXCEPT
                        ![q.r] = [status |-> "COMPLETED", amount |-> q.amount,
                                  alloc |-> L!Share(left)]]
        /\ advance' = advance + left[InvoiceCount]
  BY DEF CommitCollect
<1> DEFINE p == [status |-> "COMPLETED", amount |-> q.amount, alloc |-> L!Share(left)]
<1>3. /\ p.status = "COMPLETED" /\ p.amount = q.amount /\ p.alloc = L!Share(left)
      /\ payment' = [payment EXCEPT ![q.r] = p]
      /\ L!Share(left) \in [Invoices -> Nat] /\ left[InvoiceCount] \in Nat
  BY <1>1, <1>2, Shares
<1>4. p \in L!Payment
  BY <1>1, <1>3, SameRows DEF L!Payment
<1> HIDE DEF p, q
<1>5. left[InvoiceCount] = L!Excess(p)
  BY <1>1, <1>2, <1>3, LedgerSums, LedgerRows, LedgerProofs!SpendingLeavesExcess,
     CountAssumption, AmountsAssumption, BillsAssumption, MaxMoneyAssumption
<1>6. LeftOver' = L!Excess(p) + LeftOver
  <2>1. L!TypeOK /\ L!TypeOK' /\ payment[q.r].status # "COMPLETED"
    BY <1>1 DEF IInv, TypeOK
  <2>2. QED
    BY <1>1, <1>3, <1>4, <2>1, LedgerSums, LedgerRows, LedgerProofs!LiveGains,
       CountAssumption, AmountsAssumption, BillsAssumption, MaxMoneyAssumption
<1>7. LeftOver \in Nat /\ advance \in Nat
  BY LeftOverNat DEF IInv, TypeOK, L!TypeOK
<1>8. QED
  BY <1>2, <1>3, <1>5, <1>6, <1>7

\* A payment that is voided takes what it left over from both; one that was voided
\* meanwhile, by a request that read it earlier, takes it from the balance again.
LEMMA VoidAdvance ==
    ASSUME IInv, IInv', NEW s \in Slots, CommitVoid(s), advance <= LeftOver
    PROVE  advance' <= LeftOver'
<1> DEFINE r == request[s].r
<1>1. /\ r \in Receipts /\ payment[r].status # "NONE" /\ payment[r] \in L!Payment
      /\ payment' = [payment EXCEPT ![r].status = "VOIDED"]
      /\ payment \in [Receipts -> L!Payment]
  BY SameRows DEF IInv, TypeOK, L!TypeOK, CommitVoid, Waiting, Checked
<1>2. PICK left \in L!Unspent(payment[r]) : advance' = Minus(advance, left[InvoiceCount])
  BY DEF CommitVoid
<1> HIDE DEF r
<1>3. left[InvoiceCount] = L!Excess(payment[r]) /\ left[InvoiceCount] \in Nat
  BY <1>1, <1>2, LedgerSums, LedgerProofs!UnspentIsExcess,
     CountAssumption, AmountsAssumption, BillsAssumption, MaxMoneyAssumption
     DEF LedgerProofs!Bill, Bill
<1>4. LeftOver \in Nat /\ advance \in Nat /\ L!TypeOK /\ L!TypeOK'
  BY LeftOverNat DEF IInv, TypeOK, L!TypeOK
<1>5. CASE payment[r].status = "COMPLETED"
  <2>1. r \in L!Live
    BY <1>1, <1>5, SameRows DEF L!Live
  <2>2. LeftOver = L!Excess(payment[r]) + LeftOver' /\ LeftOver' \in Nat
    BY <1>1, <1>4, <2>1, LedgerSums, LedgerRows, LedgerProofs!LiveLoses,
       CountAssumption, AmountsAssumption, BillsAssumption, MaxMoneyAssumption
  <2>3. QED
    BY <1>2, <1>3, <1>4, <2>2 DEF Minus
<1>6. CASE payment[r].status = "VOIDED"
  <2>1. payment' = payment
    BY <1>1, <1>6 DEF L!Payment
  <2>2. LeftOver' = LeftOver
    BY <2>1 DEF LeftOver, L!Live
  <2>3. QED
    BY <1>2, <1>3, <1>4, <2>2 DEF Minus
<1>7. QED
  BY <1>1, <1>5, <1>6 DEF L!Payment

\* A step that writes no payment moves no advance.
LEMMA AdvanceKept ==
    ASSUME payment' = payment, advance' = advance, advance <= LeftOver
    PROVE  advance' <= LeftOver'
BY DEF LeftOver, L!Live

\* However requests interleave, and whatever stale rows they write back, the school
\* never records more advance than the payments in force left over: a double void
\* can only take too much from the family, never leave the school owing too much.
THEOREM AdvanceOnlyUnderstated == Spec => []AdvanceNeverOverstated
<1> DEFINE A == advance <= LeftOver
<1>1. Init => A
  <2> SUFFICES ASSUME Init PROVE A
    OBVIOUS
  <2>1. advance = 0 /\ L!Live = {}
    BY SameRows DEF Init, L!Init, L!Live, L!NoPayment
  <2>2. IInv
    BY InitIInv
  <2>3. LeftOver \in Nat
    BY <2>2, LeftOverNat DEF IInv, TypeOK
  <2>4. QED
    BY <2>1, <2>3
<1>2. ASSUME IInv, IInv', A, [Next]_vars
      PROVE  A'
  <2>1. ASSUME payment' = payment, advance' = advance
        PROVE  A'
    BY <1>2, <2>1, AdvanceKept
  <2>2. ASSUME NEW s \in Slots, CommitCollect(s) PROVE A'
    BY <1>2, <2>2, CollectAdvance
  <2>3. ASSUME NEW s \in Slots, CommitVoid(s) PROVE A'
    BY <1>2, <2>3, VoidAdvance
  <2>4. ASSUME NEW s \in Slots, Prepare(s) PROVE A'
    BY <2>1, <2>4, PrepareWritesNothing DEF dbVars
  <2>5. ASSUME NEW s \in Slots, NEW i \in Invoices, Commit(s, i) \/ BulkFine(s, i)
        PROVE  A'
    <3>1. payment' = payment /\ advance' = advance
      BY <2>5 DEF Commit, Write, BulkFine, L!Update, dbVars
    <3>2. QED
      BY <2>1, <3>1
  <2>6. ASSUME NEW i \in Invoices, NEW bill \in Bills, L!Generate(i, bill)
        PROVE  A'
    <3>1. payment' = payment /\ advance' = advance
      BY <2>6 DEF L!Generate, L!Update
    <3>2. QED
      BY <2>1, <3>1
  <2>7. CASE UNCHANGED vars
    BY <2>1, <2>7 DEF vars
  <2> HIDE DEF A
  <2>8. CASE Next
    BY <2>2, <2>3, <2>4, <2>5, <2>6, <2>8
    DEF Next, WriteBack, AutoGenerate, GenerateInvoice
  <2>9. QED
    BY <1>2, <2>7, <2>8
<1>3. A => AdvanceNeverOverstated
  BY DEF AdvanceNeverOverstated, LeftOver
<1>4. QED
  <2> HIDE DEF A
  <2>1. QED
    BY <1>1, <1>2, <1>3, Invariance, PTL DEF Spec

=============================================================================
