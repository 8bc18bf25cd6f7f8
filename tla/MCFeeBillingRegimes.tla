------------------------ MODULE MCFeeBillingRegimes ------------------------
(* Two requests at a time in two regimes of one state graph, told apart by *)
(* a variable that never changes: "handlers", where requests of every kind *)
(* meet on one invoice and one receipt, and "receipts", where collections, *)
(* voids and cancellations meet over three receipts on one small bill,     *)
(* which a payment of 2 exceeds.                                           *)
EXTENDS MCFeeBilling

VARIABLE regime

MCInit == Init /\ regime \in {"handlers", "receipts"}

OneReceipt ==
    /\ \A s \in Slots : request'[s].amount # 1 /\ request'[s].r <= 1
    /\ \A r \in Receipts \ {1} : UNCHANGED payment[r]

SmallBill ==
    /\ \A s \in Slots : request'[s].op \in {"NONE", "COLLECT", "VOID", "CANCEL"}
    /\ \A i \in Invoices : Exists(invoice'[i]) => invoice'[i].fine = 0

MCNext ==
    /\ Next
    /\ UNCHANGED regime
    /\ IF regime = "handlers" THEN OneReceipt ELSE SmallBill

MCSpec == MCInit /\ [][MCNext]_<<vars, regime>>

=============================================================================
