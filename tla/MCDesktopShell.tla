--------------------------- MODULE MCDesktopShell ---------------------------
(* Two regimes in one state graph: "bundle", where upgrades, tools, crashes *)
(* and removals go wrong while launchers leave nothing behind; and          *)
(* "services", one version that unpacks, with orphans and another program   *)
(* on one port at a time.                                                   *)
EXTENDS DesktopShell, FiniteSets

VARIABLE regime

MCInit == ShellInit /\ regime \in {"bundle", "services"} /\ (held => regime = "bundle")

Bundle == foreign' = {} /\ orphan' = [s \in Services |-> {}]

OneVersion ==
  /\ shipped' = 1 /\ app' \in {Nothing, [core |-> 1, rest |-> 1]}
  /\ ~held' /\ ~store' /\ ~gap' /\ Cardinality(foreign') <= 1

Regime == UNCHANGED regime /\ IF regime = "bundle" THEN Bundle ELSE OneVersion

MCSpec == MCInit /\ [][ShellNext /\ Regime]_<<desktopVars, regime>> /\ WF_desktopVars(Shell /\ Regime)
=============================================================================
