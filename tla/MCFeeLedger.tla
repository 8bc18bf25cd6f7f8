---------------------------- MODULE MCFeeLedger ----------------------------
(* Two billing periods, and bills with and without a discount and a fine.  *)
EXTENDS FeeLedger

MCBills == {[charge |-> 2, fine |-> 0, discount |-> 1],
            [charge |-> 1, fine |-> 0, discount |-> 1],
            [charge |-> 1, fine |-> 1, discount |-> 0]}

=============================================================================
