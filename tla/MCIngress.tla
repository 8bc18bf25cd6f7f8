----------------------------- MODULE MCIngress -----------------------------
(* Two regimes in one state graph, told apart by a variable that never      *)
(* changes.  "faults": one delivery, an instance that stays enabled, the    *)
(* queue, redrives, a failed write and a crash.  "crowd": two deliveries of *)
(* two instances switched on and off, inline dispatch, and a sweep that     *)
(* reads one row, which the row of a disabled instance can fill.            *)
EXTENDS Ingress, TLC
CONSTANTS d1, d2, i1, i2
VARIABLE regime

MCInstanceOf == (d1 :> i1) @@ (d2 :> i2)

MCInit ==
  /\ Init
  /\ regime \in {"faults", "crowd"}

MCNext ==
  /\ Next
  /\ UNCHANGED regime
  /\ regime = "faults" => born'[d2] = 0 /\ UNCHANGED enabled
  /\ regime = "crowd" => UNCHANGED <<job, faults, crashes>> /\ batch'["redrive"] = {}

MCSpec == MCInit /\ [][MCNext]_<<vars, regime>> /\ Fairness
=============================================================================
