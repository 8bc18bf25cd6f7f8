-------------------------- MODULE MCSessionCluster --------------------------
(* Two regimes in one state graph: "three" processes without a batch, where *)
(* engines do not drop and n1 may leave for good; and "batch", two          *)
(* processes that may leave and boot, n1 with a batch.                      *)
EXTENDS SessionCluster
CONSTANTS n1, n2, n3
VARIABLE regime

MCInit ==
  /\ Init
  /\ regime \in {"three", "batch"}

(* n1 is the process the operators talk to, the others only sweep.          *)
Roles ==
  /\ todo'[n1] # "adopt"
  /\ \A n \in Nodes \ {n1} : n \in owned' \ owned => todo[n] # "idle"

Three ==
  /\ batch' = "none"
  /\ up' \in {up, up \ {n1}}
  /\ \A n \in Nodes : engine'[n] # "broken"

Batch ==
  /\ engine'[n3] = "none" /\ todo'[n3] = "idle" /\ n3 \in up'
  /\ run'[n2] = "idle"
  /\ engine'[n2] # "broken" /\ \A n \in Nodes : engine'[n] # "aborted"

Regime ==
  /\ UNCHANGED regime
  /\ Roles
  /\ IF regime = "three" THEN Three ELSE Batch

MCNext == Next /\ Regime

(* Fairness within the first regime, whose engines the liveness is about.   *)
MCFairness ==
  /\ WF_vars(regime = "three" /\ Tick /\ Regime)
  /\ \A n \in Nodes :
       /\ WF_vars(regime = "three" /\ Heartbeat(n) /\ Regime)
       /\ WF_vars(regime = "three" /\ (Sweep(n) \/ Reaper(n) \/ AutoStart(n)) /\ Regime)
       /\ WF_vars(regime = "three" /\ engine[n] \in {"launching", "aborted"}
                  /\ Engine(n) /\ Regime)

MCSpec == MCInit /\ [][MCNext]_<<vars, regime>> /\ MCFairness

(* OrphanAdopted, in the regime that has the fairness.                       *)
MCOrphanAdopted == (regime = "three" /\ Orphaned) ~> ~Orphaned
=============================================================================
