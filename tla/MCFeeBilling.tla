---------------------------- MODULE MCFeeBilling ---------------------------
(* One or two invoices, two interchangeable request slots.                 *)
EXTENDS FeeBilling, TLC

MCBills == {[charge |-> 1, fine |-> 0, discount |-> 0],
            [charge |-> 1, fine |-> 1, discount |-> 1]}

\* One plain bill, for the runs that look for a single interleaving.
MCPlainBill == {[charge |-> 2, fine |-> 0, discount |-> 0]}

SlotSymmetry == Permutations(Slots)

=============================================================================
