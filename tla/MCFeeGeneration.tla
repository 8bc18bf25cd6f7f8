-------------------------- MODULE MCFeeGeneration --------------------------
(* Two months that default to one academic year, and another year to file  *)
(* them under, in two regimes of one state graph, told apart by a variable *)
(* that never changes: "students", where the requests of two students of   *)
(* different classes come one after another and nobody is fined, and       *)
(* "requests", where two requests at a time concern one student, who has   *)
(* two invoices at most and always something to pay.                       *)
EXTENDS FeeGeneration, TLC

CONSTANTS ann, bob, y1, y2

VARIABLE regime

MCClassOf == (ann :> "one") @@ (bob :> "two")
MCDefaultSession == [p \in Periods |-> y1]

\* Classes are only compared, so the students are interchangeable too.
MCSymmetry == Permutations(Slots) \cup Permutations(Students)

Busy == {s \in Slots : request[s] # Idle}

OneRequest ==
    /\ Cardinality(Busy') <= 1
    /\ Fined' = {}

OneStudent ==
    /\ Cardinality(Admitted') <= 1
    /\ Cardinality(Issued') <= 2
    /\ \A s \in Slots : request'[s].empty = {}

MCInit == Init /\ regime \in {"students", "requests"}

MCNext ==
    /\ Next
    /\ UNCHANGED regime
    /\ IF regime = "students" THEN OneRequest ELSE OneStudent

MCSpec == MCInit /\ [][MCNext]_<<vars, regime>>

=============================================================================
