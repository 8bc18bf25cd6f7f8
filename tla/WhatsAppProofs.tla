---------------------------- MODULE WhatsAppProofs ----------------------------
(* Proofs about the WhatsApp bridge: its sessions, its use, its installation.*)
(*   SessionCluster, for any number of processes, any lease and any number   *)
(* of crashes: an engine runs beside another only where a lease lapsed under *)
(* it, who reaps a batch spares the processes that can still send for it,    *)
(* and a committed cancel stays.                                             *)
(*   WhatsAppMessages, for any number of requests, recipients, gateways and  *)
(* sessions: the message log says what went out, and an announcement's       *)
(* report counts the rows it marked.                                         *)
(*   DesktopInstall and DesktopShell, for any number of versions: sessions   *)
(* and database survive a start, and the stop script finds the services.     *)
EXTENDS SessionCluster, WhatsAppMessages, DesktopShell, FiniteSetTheorems, TLAPS

-----------------------------------------------------------------------------
(* Session ownership and batches: SessionCluster.                            *)
LEMMA Constants == Ttl \in Nat /\ Ttl > 0 /\ MaxCrashes \in Nat /\ None \notin Nodes
  BY SessionClusterAssumption, SessionClusterNone

-----------------------------------------------------------------------------
(* Types.  The pieces the actions are made of keep them.                    *)

LEMMA ClaimTyped ==
    ASSUME TypeOK, NEW n \in Nodes, Claim(n)
    PROVE  /\ holder' \in Nodes \cup {None} /\ lease' \in 0 .. Ttl
           /\ owned' \subseteq Nodes /\ late' \subseteq Nodes
  BY Constants DEF TypeOK, Claim, Timely

LEMMA ReleaseTyped ==
    ASSUME TypeOK, NEW n \in Nodes, Release(n)
    PROVE  /\ holder' \in Nodes \cup {None} /\ lease' \in 0 .. Ttl
           /\ owned' \subseteq Nodes
  BY Constants DEF TypeOK, Release

LEMMA TimelyTyped ==
    ASSUME TypeOK, NEW n \in Nodes, Timely(n)
    PROVE  late' \subseteq Nodes
  BY DEF TypeOK, Timely

LEMMA SetEngineTyped ==
    ASSUME TypeOK, NEW n \in Nodes, NEW e \in EngineStates, SetEngine(n, e)
    PROVE  engine' \in [Nodes -> EngineStates]
  BY DEF TypeOK, SetEngine

LEMMA SetTodoTyped ==
    ASSUME TypeOK, NEW n \in Nodes, NEW t \in Todos, SetTodo(n, t)
    PROVE  todo' \in [Nodes -> Todos]
  BY DEF TypeOK, SetTodo

LEMMA LeaveEngineTyped ==
    ASSUME TypeOK, NEW n \in Nodes, LeaveEngine(n)
    PROVE  run' \in [Nodes -> Runs]
  <1> "stale" \in Runs BY DEF Runs
  <1> QED BY DEF TypeOK, LeaveEngine

LEMMA LaunchTyped ==
    ASSUME TypeOK, NEW n \in Nodes, Launch(n)
    PROVE  /\ holder' \in Nodes \cup {None} /\ lease' \in 0 .. Ttl
           /\ owned' \subseteq Nodes /\ late' \subseteq Nodes
           /\ status' \in {"disconnected", "initializing", "ready", "failed"}
           /\ engine' \in [Nodes -> EngineStates]
  <1>1. Claim(n) BY DEF Launch
  <1>2. "launching" \in EngineStates BY DEF EngineStates
  <1>3. engine' \in [Nodes -> EngineStates] BY <1>2, SetEngineTyped DEF Launch, TypeOK
  <1>4. status' \in {"disconnected", "initializing", "ready", "failed"} BY DEF Launch, TypeOK
  <1> QED BY <1>1, <1>3, <1>4, ClaimTyped

LEMMA TearDownTyped ==
    ASSUME TypeOK, NEW n \in Nodes, TearDown(n)
    PROVE  /\ engine' \in [Nodes -> EngineStates] /\ late' \subseteq Nodes
           /\ run' \in [Nodes -> Runs]
           /\ UNCHANGED <<batch, signal, cancelling>>
  <1>1. {"aborted", "none"} \subseteq EngineStates BY DEF EngineStates
  <1>2. engine' \in [Nodes -> EngineStates] BY <1>1, SetEngineTyped DEF TearDown
  <1> QED BY <1>2, TimelyTyped, LeaveEngineTyped DEF TearDown, LeaveEngine

LEMMA TypeStep == TypeOK /\ Granted /\ [Next]_vars => TypeOK'
  <1> SUFFICES ASSUME TypeOK, Granted, [Next]_vars PROVE TypeOK' OBVIOUS
  <1> USE DEF session, bulk
  <1>0. /\ EngineStates = {"none", "launching", "aborted", "running", "broken"}
        /\ Todos = {"idle", "adopt", "adopting", "reap", "reaping", "autostart", "boot",
                    "bootreaping"}
        /\ Runs = {"idle", "queued", "sending", "stale"}
        /\ Open = {"pending", "processing"}
    BY DEF EngineStates, Todos, Runs, Open
  <1>1. ASSUME NEW n \in Nodes, Start(n) PROVE TypeOK'
    BY <1>1, LaunchTyped DEF Start, TypeOK
  <1>2. ASSUME NEW n \in Nodes, Stop(n) PROVE TypeOK'
    BY <1>2, TearDownTyped, ReleaseTyped DEF Stop, TypeOK
  <1>3. ASSUME NEW n \in Nodes, Launched(n) PROVE TypeOK'
    BY <1>0, <1>3, SetEngineTyped, SetTodoTyped DEF Launched, TypeOK
  <1>4. ASSUME NEW n \in Nodes, NEW s \in {"failed", "disconnected"}, LaunchFails(n, s)
        PROVE TypeOK'
    BY <1>0, <1>4, SetEngineTyped, SetTodoTyped, ReleaseTyped, TimelyTyped, LeaveEngineTyped
    DEF LaunchFails, LeaveEngine, TypeOK
  <1>5. ASSUME NEW n \in Nodes, AbortedReturns(n) PROVE TypeOK'
    BY <1>0, <1>5, SetEngineTyped, SetTodoTyped DEF AbortedReturns, TypeOK
  <1>6. ASSUME NEW n \in Nodes, Disconnect(n) PROVE TypeOK'
    BY <1>0, <1>6, SetEngineTyped, LeaveEngineTyped DEF Disconnect, LeaveEngine, TypeOK
  <1>7. ASSUME NEW n \in Nodes, Reconnect(n) PROVE TypeOK'
    BY <1>0, <1>7, SetEngineTyped, LeaveEngineTyped DEF Reconnect, LeaveEngine, TypeOK
  <1>8. ASSUME NEW n \in Nodes, ReconnectExhausted(n) PROVE TypeOK'
    BY <1>0, <1>8, SetEngineTyped, LeaveEngineTyped, TimelyTyped
    DEF ReconnectExhausted, LeaveEngine, TypeOK
  <1>9. ASSUME NEW n \in Nodes, Renew(n) PROVE TypeOK'
    BY <1>9, Constants, TimelyTyped DEF Renew, TypeOK
  <1>10. ASSUME NEW n \in Nodes, LeaseLost(n) PROVE TypeOK'
    BY <1>10, TearDownTyped DEF LeaseLost, TypeOK
  <1>11. ASSUME NEW n \in Nodes, SweepRead(n) PROVE TypeOK'
    BY <1>0, <1>11, SetTodoTyped DEF SweepRead, TypeOK
  <1>12. ASSUME NEW n \in Nodes, Adopt(n) PROVE TypeOK'
    BY <1>0, <1>12, SetTodoTyped, LaunchTyped DEF Adopt, TypeOK
  <1>13. ASSUME NEW n \in Nodes, ReapRead(n) PROVE TypeOK'
    BY <1>0, <1>13, SetTodoTyped DEF ReapRead, TypeOK
  <1>14. ASSUME NEW n \in Nodes, ReapSave(n) PROVE TypeOK'
    BY <1>0, <1>14, SetTodoTyped DEF ReapSave, TypeOK
  <1>15. ASSUME NEW n \in Nodes, Leave(n), \/ UNCHANGED <<holder, lease>>
                                           \/ holder' = None /\ lease' = 0
         PROVE TypeOK'
    <2>1. run' \in [Nodes -> Runs] BY <1>0, <1>15 DEF Leave, TypeOK
    <2>2. crashes' \in 0 .. MaxCrashes BY <1>15, Constants DEF Leave, TypeOK
    <2> QED BY <1>0, <1>15, <2>1, <2>2, SetEngineTyped, SetTodoTyped, Constants DEF Leave, TypeOK
  <1>16. ASSUME NEW n \in Nodes, Boot(n) PROVE TypeOK'
    BY <1>0, <1>16, SetTodoTyped DEF Boot, TypeOK
  <1>17. ASSUME NEW n \in Nodes, AutoStart(n) PROVE TypeOK'
    BY <1>0, <1>17, SetTodoTyped, LaunchTyped DEF AutoStart, TypeOK
  <1>18. ASSUME NEW n \in Nodes, CreateBatch(n) PROVE TypeOK'
    BY <1>0, <1>18 DEF CreateBatch, TypeOK
  <1>19. ASSUME NEW n \in Nodes, BeginBatch(n) PROVE TypeOK'
    BY <1>0, <1>19 DEF BeginBatch, TypeOK
  <1>20. ASSUME NEW n \in Nodes, NEW o \in {"completed", "failed"}, FinalizeBatch(n, o)
         PROVE TypeOK'
    BY <1>0, <1>20 DEF FinalizeBatch, TypeOK
  <1>21. ASSUME NEW n \in Nodes, CancelBatch(n) PROVE TypeOK'
    BY <1>21 DEF CancelBatch, TypeOK
  <1>22. ASSUME NEW n \in Nodes, CancelCommits(n) PROVE TypeOK'
    BY <1>0, <1>22 DEF CancelCommits, TypeOK
  <1>23. CASE Tick
    <2>1. lease' \in 0 .. Ttl BY <1>23, Constants DEF Tick, TypeOK
    <2> QED BY <1>23, <2>1 DEF Tick, Granted, TypeOK
  <1>24. CASE UNCHANGED vars BY <1>24 DEF vars, TypeOK
  <1> QED
    BY <1>1, <1>2, <1>3, <1>4, <1>5, <1>6, <1>7, <1>8, <1>9, <1>10, <1>11, <1>12, <1>13,
       <1>14, <1>15, <1>16, <1>17, <1>18, <1>19, <1>20, <1>21, <1>22, <1>23, <1>24
    DEF Next, Engine, Heartbeat, Sweep, Reaper, Process, Bulk, Crash, Shutdown

-----------------------------------------------------------------------------
(* Leases.  A claim is granted only where no other lease is in force, so    *)
(* the engines of other processes are late already.                         *)

\* Being in time makes only this process not late, and none that a reaper
\* may have read.
LEMMA TimelyKeeps ==
    ASSUME IInv, NEW n \in Nodes, Timely(n)
    PROVE  /\ late \ {n} \subseteq late'
           /\ \A m \in Nodes \ {n} : todo[m] \in {"reaping", "bootreaping"} => late' = late
  BY DEF Timely

\* Where a process may claim, live engines of others are late.
LEMMA OthersAreLate ==
    ASSUME IInv, NEW n \in Nodes, Claimable(n), NEW m \in Nodes \ {n}, Live(m)
    PROVE  m \in late
  BY Constants DEF IInv, Leased, Claimable

LEMMA ClaimLeases ==
    ASSUME IInv, NEW n \in Nodes, Claim(n),
           \A m \in Nodes \ {n} : engine'[m] = engine[m]
    PROVE  Granted' /\ Leased'
  <1>1. Granted' BY DEF Claim, Granted
  <1>2. holder' = n /\ lease' > 0 BY Constants DEF Claim
  <1>3. ASSUME NEW m \in Nodes, Live(m)' PROVE m \in late' \/ m = n
    <2>1. CASE m # n
      <3>1. Live(m) BY <1>3, <2>1 DEF Live
      <3> QED BY <2>1, <3>1, OthersAreLate, TimelyKeeps DEF Claim
    <2> QED BY <2>1
  <1> QED BY <1>1, <1>2, <1>3 DEF Leased

LEMMA ReleaseLeases ==
    ASSUME IInv, NEW n \in Nodes, Release(n), late \ {n} \subseteq late', ~Live(n)',
           \A m \in Nodes \ {n} : engine'[m] = engine[m]
    PROVE  Granted' /\ Leased'
  <1>1. Granted' BY DEF Release, IInv, Granted
  <1>2. ASSUME NEW m \in Nodes, Live(m)' PROVE m \in late' \/ (holder' = m /\ lease' > 0)
    <2>1. m # n /\ Live(m) BY <1>2 DEF Live
    <2>2. m \in late \/ (holder = m /\ lease > 0) BY <2>1 DEF IInv, Leased
    <2> QED BY <2>1, <2>2 DEF Release
  <1> QED BY <1>1, <1>2 DEF Leased

\* An engine that stops needs no lease.
LEMMA DownLeases ==
    ASSUME IInv, NEW n \in Nodes, late \ {n} \subseteq late', ~Live(n)',
           UNCHANGED <<holder, lease>>,
           \A m \in Nodes \ {n} : engine'[m] = engine[m]
    PROVE  Granted' /\ Leased'
  BY DEF IInv, Granted, Leased, Live

\* An engine that runs on needs what it had.
LEMMA SameLeases ==
    ASSUME IInv, UNCHANGED <<holder, lease>>, late \subseteq late',
           \A m \in Nodes : Live(m)' => Live(m)
    PROVE  Granted' /\ Leased'
  BY DEF IInv, Granted, Leased

LEMMA EngineSet ==
    ASSUME IInv, NEW n \in Nodes, NEW e, SetEngine(n, e)
    PROVE  engine'[n] = e /\ \A m \in Nodes \ {n} : engine'[m] = engine[m]
  BY DEF IInv, TypeOK, SetEngine

LEMMA LaunchLeases ==
    ASSUME IInv, NEW n \in Nodes, Launch(n)
    PROVE  Granted' /\ Leased'
  <1>1. Claim(n) /\ \A m \in Nodes \ {n} : engine'[m] = engine[m] BY EngineSet DEF Launch
  <1> QED BY <1>1, ClaimLeases

LEMMA TearDownStops ==
    ASSUME IInv, NEW n \in Nodes, TearDown(n)
    PROVE  /\ late \ {n} \subseteq late' /\ ~Live(n)'
           /\ \A m \in Nodes \ {n} : engine'[m] = engine[m]
  BY EngineSet, TimelyKeeps DEF TearDown, Live

LEMMA LeaseStep == IInv /\ [Next]_vars => Granted' /\ Leased'
  <1> SUFFICES ASSUME IInv, [Next]_vars PROVE Granted' /\ Leased' OBVIOUS
  <1> USE DEF session, bulk
  <1>1. ASSUME NEW n \in Nodes, Start(n) PROVE Granted' /\ Leased'
    BY <1>1, LaunchLeases DEF Start
  <1>2. ASSUME NEW n \in Nodes, Stop(n) PROVE Granted' /\ Leased'
    BY <1>2, TearDownStops, ReleaseLeases, DownLeases DEF Stop
  <1>3. ASSUME NEW n \in Nodes, Launched(n) PROVE Granted' /\ Leased'
    BY <1>3, EngineSet, SameLeases DEF Launched, Live
  <1>4. ASSUME NEW n \in Nodes, NEW s, LaunchFails(n, s) PROVE Granted' /\ Leased'
    BY <1>4, EngineSet, TimelyKeeps, ReleaseLeases DEF LaunchFails, Live
  <1>5. ASSUME NEW n \in Nodes, AbortedReturns(n) PROVE Granted' /\ Leased'
    BY <1>5, EngineSet, SameLeases DEF AbortedReturns, Live
  <1>6. ASSUME NEW n \in Nodes, Disconnect(n) PROVE Granted' /\ Leased'
    BY <1>6, EngineSet, SameLeases DEF Disconnect, Live
  <1>7. ASSUME NEW n \in Nodes, Reconnect(n) PROVE Granted' /\ Leased'
    BY <1>7, EngineSet, SameLeases DEF Reconnect, Live
  <1>8. ASSUME NEW n \in Nodes, ReconnectExhausted(n) PROVE Granted' /\ Leased'
    BY <1>8, EngineSet, TimelyKeeps, DownLeases DEF ReconnectExhausted, Live
  <1>9. ASSUME NEW n \in Nodes, Renew(n) PROVE Granted' /\ Leased'
    <2>1. Granted' BY <1>9 DEF Renew, Granted
    <2>2. holder' = n /\ lease' > 0 BY <1>9, Constants DEF Renew
    <2>3. \A m \in Nodes \ {n} : Live(m)' => m \in late
      BY <1>9 DEF Renew, IInv, Leased, Live
    <2> QED BY <1>9, <2>1, <2>2, <2>3, TimelyKeeps DEF Renew, Leased
  <1>10. ASSUME NEW n \in Nodes, LeaseLost(n) PROVE Granted' /\ Leased'
    BY <1>10, TearDownStops, DownLeases DEF LeaseLost
  <1>11. ASSUME NEW n \in Nodes, Adopt(n) PROVE Granted' /\ Leased'
    BY <1>11, LaunchLeases, SameLeases DEF Adopt, Live
  <1>12. ASSUME NEW n \in Nodes, AutoStart(n) PROVE Granted' /\ Leased'
    BY <1>12, LaunchLeases, SameLeases DEF AutoStart, Live
  <1>13. ASSUME NEW n \in Nodes, Leave(n), \/ UNCHANGED <<holder, lease>>
                                           \/ n \in owned /\ holder = n /\ holder' = None
                                              /\ lease' = 0
         PROVE Granted' /\ Leased'
    <2>1. /\ late \ {n} \subseteq late' /\ ~Live(n)'
          /\ \A m \in Nodes \ {n} : engine'[m] = engine[m]
      BY <1>13, EngineSet DEF Leave, Live
    <2>2. CASE UNCHANGED <<holder, lease>> BY <2>1, <2>2, DownLeases
    <2>3. CASE holder = n /\ holder' = None /\ lease' = 0
      <3>1. \A m \in Nodes \ {n} : Live(m)' => m \in late BY <2>1, <2>3 DEF IInv, Leased, Live
      <3> QED BY <2>1, <2>3, <3>1 DEF Granted, Leased
    <2> QED BY <1>13, <2>2, <2>3
  <1>14. CASE Tick
    <2>1. lease \in Nat /\ lease > 0 /\ lease' = lease - 1 /\ holder' = holder
      BY <1>14, Constants DEF Tick, IInv, TypeOK
    <2>2. Granted' BY <2>1 DEF IInv, Granted
    <2>3. late \subseteq late' BY <1>14 DEF Tick
    <2>4. ASSUME NEW m \in Nodes, Live(m)', m \notin late' PROVE holder' = m /\ lease' > 0
      <3>1. Live(m) /\ holder = m BY <1>14, <2>3, <2>4 DEF Tick, Live, IInv, Leased
      <3>2. Active(holder) BY <3>1 DEF Live, Active
      <3>3. lease # 1 BY <1>14, <2>4, <3>1, <3>2 DEF Tick
      <3> QED BY <2>1, <3>1, <3>3
    <2> QED BY <2>2, <2>4 DEF Leased
  <1>15. CASE UNCHANGED <<holder, lease, late, engine>>
    BY <1>15, SameLeases DEF Live
  <1>16. ASSUME NEW n \in Nodes,
                \/ SweepRead(n) \/ ReapRead(n) \/ ReapSave(n) \/ Boot(n) \/ Bulk(n)
         PROVE UNCHANGED <<holder, lease, late, engine>>
    BY <1>16 DEF SweepRead, ReapRead, ReapSave, Boot, Bulk, CreateBatch, BeginBatch,
                CancelBatch, CancelCommits, FinalizeBatch
  <1> QED
    BY <1>1, <1>2, <1>3, <1>4, <1>5, <1>6, <1>7, <1>8, <1>9, <1>10, <1>11, <1>12, <1>13,
       <1>14, <1>15, <1>16
    DEF Next, Engine, Heartbeat, Sweep, Reaper, Process, Crash, Shutdown, vars

-----------------------------------------------------------------------------
(* The drain.  It sends only while its engine lives.                        *)

\* Without a step of the batch, a drain only ever becomes stale or ends.
LEMMA SameDrain ==
    ASSUME IInv, UNCHANGED batch,
           \A m \in Nodes : run'[m] # "idle" => run[m] # "idle",
           \A m \in Nodes : run'[m] = "queued" => run[m] = "queued",
           \A m \in Nodes : run'[m] = "sending" => run[m] = "sending" /\ Live(m)'
    PROVE  Drained'
  BY DEF IInv, Drained

LEMMA EngineLeft ==
    ASSUME IInv, NEW n \in Nodes, LeaveEngine(n)
    PROVE  /\ UNCHANGED batch
           /\ \A m \in Nodes : run'[m] # "idle" => run[m] # "idle"
           /\ \A m \in Nodes : run'[m] = "queued" => run[m] = "queued"
           /\ \A m \in Nodes : run'[m] = "sending" => run[m] = "sending" /\ m # n
  BY DEF IInv, TypeOK, LeaveEngine

\* An engine that is left, whatever becomes of it, ends the sending.
LEMMA LeftDrained ==
    ASSUME IInv, NEW n \in Nodes, LeaveEngine(n),
           \A m \in Nodes \ {n} : engine'[m] = engine[m]
    PROVE  Drained'
  BY EngineLeft, SameDrain DEF IInv, Drained, Live

\* Engines that live on do not disturb it.
LEMMA AliveDrained ==
    ASSUME IInv, UNCHANGED bulk, \A m \in Nodes : Live(m) => Live(m)'
    PROVE  Drained'
  BY SameDrain DEF IInv, Drained, bulk

LEMMA LaunchLives ==
    ASSUME IInv, NEW n \in Nodes, Launch(n)
    PROVE  \A m \in Nodes : Live(m) => Live(m)'
  BY EngineSet DEF Launch, Active, Live

\* The one drain is queued by the only creation, and moves on by itself.
LEMMA BulkDrained ==
    ASSUME IInv, NEW n \in Nodes, Bulk(n)
    PROVE  Drained'
  <1> USE DEF session
  <1>1. CASE CreateBatch(n)
    <2>1. /\ batch' = "pending" /\ \A m \in Nodes : Live(m)' <=> Live(m)
          /\ \A m \in Nodes : run[m] = "idle"
          /\ \A m \in Nodes : run'[m] = IF m = n THEN "queued" ELSE "idle"
      BY <1>1 DEF CreateBatch, IInv, TypeOK, Drained, Live
    <2> QED BY <2>1 DEF Drained
  <1>2. CASE BeginBatch(n)
    <2>1. /\ run[n] = "queued" /\ batch \in {"pending", "cancelled"}
          /\ \A m \in Nodes \ {n} : run[m] = "idle" /\ run'[m] = "idle"
      BY <1>2 DEF BeginBatch, IInv, TypeOK, Drained
    <2>2. CASE run'[n] = "idle" BY <1>2, <2>1, <2>2 DEF Drained
    <2>3. CASE run'[n] = "sending" /\ batch' = "processing" /\ engine[n] \notin {"none", "aborted"}
      <3>1. Live(n)' BY <1>2, <2>3 DEF BeginBatch, IInv, TypeOK, EngineStates, Live
      <3> QED BY <2>1, <2>3, <3>1 DEF Drained
    <2> QED BY <1>2, <2>2, <2>3 DEF BeginBatch, IInv, TypeOK
  <1>3. ASSUME NEW o \in {"completed", "failed"}, FinalizeBatch(n, o) PROVE Drained'
    <2>1. \A m \in Nodes : run'[m] = "idle"
      BY <1>3 DEF FinalizeBatch, IInv, TypeOK, Drained
    <2> QED BY <2>1 DEF Drained
  <1>4. CASE CancelBatch(n) BY <1>4, AliveDrained DEF CancelBatch, IInv, Drained, Live
  <1>5. CASE CancelCommits(n)
    <2>1. /\ UNCHANGED run /\ \A m \in Nodes : Live(m)' <=> Live(m)
          /\ batch' = batch \/ batch' = "cancelled"
      BY <1>5 DEF CancelCommits, Live
    <2> QED BY <2>1 DEF IInv, Drained
  <1> QED BY <1>1, <1>2, <1>3, <1>4, <1>5 DEF Bulk

LEMMA DrainStep == IInv /\ [Next]_vars => Drained'
  <1> SUFFICES ASSUME IInv, [Next]_vars PROVE Drained' OBVIOUS
  <1> USE DEF session
  <1>1. ASSUME NEW n \in Nodes, Start(n) PROVE Drained'
    BY <1>1, LaunchLives, AliveDrained DEF Start
  <1>2. ASSUME NEW n \in Nodes, Stop(n) \/ LeaseLost(n) PROVE Drained'
    BY <1>2, TearDownStops, LeftDrained DEF Stop, LeaseLost, TearDown
  <1>3. ASSUME NEW n \in Nodes, Launched(n) \/ AbortedReturns(n) PROVE Drained'
    BY <1>3, EngineSet, AliveDrained DEF Launched, AbortedReturns, Live
  <1>4. ASSUME NEW n \in Nodes, NEW s,
               LaunchFails(n, s) \/ Disconnect(n) \/ Reconnect(n) \/ ReconnectExhausted(n)
        PROVE Drained'
    BY <1>4, EngineSet, LeftDrained DEF LaunchFails, Disconnect, Reconnect, ReconnectExhausted
  <1>5. ASSUME NEW n \in Nodes, Adopt(n) PROVE Drained'
    BY <1>5, LaunchLives, AliveDrained DEF Adopt, Live
  <1>6. ASSUME NEW n \in Nodes, AutoStart(n) PROVE Drained'
    BY <1>6, LaunchLives, AliveDrained DEF AutoStart, Live
  <1>7. ASSUME NEW n \in Nodes, Renew(n) \/ SweepRead(n) \/ ReapRead(n) \/ Boot(n)
        PROVE Drained'
    BY <1>7, AliveDrained DEF Renew, SweepRead, ReapRead, Boot, Live
  <1>8. ASSUME NEW n \in Nodes, ReapSave(n) PROVE Drained'
    <2>1. /\ UNCHANGED run /\ batch' = "failed" /\ \A m \in Nodes : Live(m)' <=> Live(m)
          /\ \A m \in Nodes : run[m] # "queued"
      BY <1>8 DEF ReapSave, Live, IInv, Reaped
    <2> QED BY <2>1 DEF IInv, Drained
  <1>9. ASSUME NEW n \in Nodes, Leave(n) PROVE Drained'
    <2>1. /\ \A m \in Nodes \ {n} : engine'[m] = engine[m] /\ run'[m] = run[m]
          /\ run'[n] = "idle" /\ UNCHANGED batch
      BY <1>9, EngineSet DEF Leave, IInv, TypeOK
    <2> QED BY <2>1, SameDrain DEF IInv, Drained, Live
  <1>10. CASE Tick BY <1>10, AliveDrained DEF Tick, Live
  <1>11. CASE UNCHANGED vars BY <1>11, AliveDrained DEF vars, Live
  <1> QED
    BY <1>1, <1>2, <1>3, <1>4, <1>5, <1>6, <1>7, <1>8, <1>9, <1>10, <1>11, BulkDrained
    DEF Next, Engine, Heartbeat, Sweep, Reaper, Process, Crash, Shutdown

-----------------------------------------------------------------------------
(* The reapers.  What one has read stays true of every process but itself   *)
(* until it saves.                                                          *)

LEMMA SameReaped ==
    ASSUME IInv,
           \A m \in Nodes : todo'[m] \in {"reaping", "bootreaping"} => todo'[m] = todo[m],
           batch # "none" => batch' # "none",
           \A k \in Nodes : run'[k] = "queued" => run[k] = "queued",
           \A k \in Nodes : run'[k] = "sending" => run[k] = "sending",
           \A k \in Nodes : \A m \in Nodes \ {k} :
             todo[m] = "bootreaping" /\ run'[k] = "sending" /\ k \in late => k \in late'
    PROVE  Reaped'
  BY DEF IInv, Reaped

\* Being in time again does not hide a lapse that a reaper may have read.
LEMMA TimelyReaped ==
    ASSUME IInv, NEW n \in Nodes, Timely(n) \/ late' = late
    PROVE  \A k \in Nodes : \A m \in Nodes \ {k} :
             todo[m] = "bootreaping" /\ k \in late => k \in late'
  BY TimelyKeeps

LEMMA TodoSet ==
    ASSUME IInv, NEW n \in Nodes, NEW t, SetTodo(n, t),
           t \notin {"reaping", "bootreaping"} \/ t = todo[n]
    PROVE  \A m \in Nodes : todo'[m] \in {"reaping", "bootreaping"} => todo'[m] = todo[m]
  BY DEF IInv, TypeOK, SetTodo

LEMMA LaunchTimely ==
    ASSUME NEW n \in Nodes, Launch(n)
    PROVE  Timely(n)
  BY DEF Launch, Claim

\* Nobody reaps before there is a batch, or while its drain is queued.
LEMMA BulkReaped ==
    ASSUME IInv, NEW n \in Nodes, Bulk(n)
    PROVE  Reaped'
  <1> USE DEF session
  <1>1. CASE CreateBatch(n) \/ BeginBatch(n)
    BY <1>1 DEF CreateBatch, BeginBatch, IInv, Reaped
  <1>2. ASSUME NEW o \in {"completed", "failed"}, FinalizeBatch(n, o) PROVE Reaped'
    <2>1. \A k \in Nodes : run'[k] \in {"queued", "sending"} => run'[k] = run[k]
      BY <1>2 DEF FinalizeBatch, IInv, TypeOK
    <2> QED BY <1>2, <2>1, SameReaped DEF FinalizeBatch
  <1>3. CASE CancelBatch(n) BY <1>3, SameReaped DEF CancelBatch
  <1>4. CASE CancelCommits(n) BY <1>4, SameReaped DEF CancelCommits
  <1> QED BY <1>1, <1>2, <1>3, <1>4 DEF Bulk

LEMMA ReapStep == IInv /\ [Next]_vars => Reaped'
  <1> SUFFICES ASSUME IInv, [Next]_vars PROVE Reaped' OBVIOUS
  <1> USE DEF session, bulk
  <1>1. ASSUME NEW n \in Nodes, Start(n) PROVE Reaped'
    BY <1>1, LaunchTimely, TimelyReaped, SameReaped DEF Start
  <1>2. ASSUME NEW n \in Nodes, Stop(n) \/ LeaseLost(n) PROVE Reaped'
    BY <1>2, EngineLeft, TimelyReaped, SameReaped DEF Stop, LeaseLost, TearDown
  <1>3. ASSUME NEW n \in Nodes, Launched(n) \/ AbortedReturns(n) PROVE Reaped'
    BY <1>3, TodoSet, TimelyReaped, SameReaped DEF Launched, AbortedReturns
  <1>4. ASSUME NEW n \in Nodes, NEW s, LaunchFails(n, s) PROVE Reaped'
    BY <1>4, TodoSet, EngineLeft, TimelyReaped, SameReaped DEF LaunchFails
  <1>5. ASSUME NEW n \in Nodes, Disconnect(n) \/ Reconnect(n) \/ ReconnectExhausted(n)
        PROVE Reaped'
    BY <1>5, EngineLeft, TimelyReaped, SameReaped DEF Disconnect, Reconnect, ReconnectExhausted
  <1>6. ASSUME NEW n \in Nodes, Renew(n) PROVE Reaped'
    BY <1>6, TimelyReaped, SameReaped DEF Renew
  <1>7. ASSUME NEW n \in Nodes, SweepRead(n) \/ Boot(n) PROVE Reaped'
    BY <1>7, TodoSet, SameReaped DEF SweepRead, Boot
  <1>8. ASSUME NEW n \in Nodes, Adopt(n) PROVE Reaped'
    BY <1>8, TodoSet, LaunchTimely, TimelyReaped, SameReaped DEF Adopt
  <1>9. ASSUME NEW n \in Nodes, AutoStart(n) PROVE Reaped'
    BY <1>9, TodoSet, LaunchTimely, TimelyReaped, SameReaped DEF AutoStart
  <1>10. ASSUME NEW n \in Nodes, ReapRead(n) PROVE Reaped'
    <2>1. \A m \in Nodes \ {n} : todo'[m] = todo[m]
      BY <1>10 DEF ReapRead, SetTodo, IInv, TypeOK
    <2>2. ASSUME todo'[n] \in {"reaping", "bootreaping"}
          PROVE  batch = "processing" /\ (todo'[n] = "bootreaping" => Claimable(n))
      BY <1>10, <2>2 DEF ReapRead, SetTodo, IInv, TypeOK
    <2>3. ASSUME todo'[n] = "bootreaping", NEW k \in Nodes \ {n}, run[k] = "sending"
          PROVE  k \in late
      BY <2>2, <2>3, OthersAreLate DEF IInv, Drained
    <2> QED BY <1>10, <2>1, <2>2, <2>3 DEF ReapRead, IInv, Drained, Reaped
  <1>11. ASSUME NEW n \in Nodes, ReapSave(n) PROVE Reaped'
    BY <1>11, TodoSet, SameReaped DEF ReapSave
  <1>12. ASSUME NEW n \in Nodes, Leave(n) PROVE Reaped'
    <2>1. \A k \in Nodes : run'[k] \in {"queued", "sending"} => run'[k] = run[k] /\ k # n
      BY <1>12 DEF Leave, IInv, TypeOK
    <2>2. \A k \in Nodes \ {n} : k \in late => k \in late' BY <1>12 DEF Leave
    <2> QED BY <1>12, <2>1, <2>2, TodoSet, SameReaped DEF Leave
  <1>13. CASE Tick BY <1>13, SameReaped DEF Tick
  <1>14. CASE UNCHANGED vars BY <1>14, SameReaped DEF vars
  <1> QED
    BY <1>1, <1>2, <1>3, <1>4, <1>5, <1>6, <1>7, <1>8, <1>9, <1>10, <1>11, <1>12, <1>13,
       <1>14, BulkReaped
    DEF Next, Engine, Heartbeat, Sweep, Reaper, Process, Crash, Shutdown

-----------------------------------------------------------------------------
LEMMA InitIInv == Init => IInv
  <1> SUFFICES ASSUME Init PROVE IInv OBVIOUS
  <1>1. TypeOK BY Constants DEF Init, TypeOK, EngineStates, Todos, Runs
  <1>2. Granted /\ Leased BY DEF Init, Granted, Leased, Live
  <1>3. Drained /\ Reaped BY DEF Init, Drained, Reaped
  <1> QED BY <1>1, <1>2, <1>3 DEF IInv

LEMMA NextIInv == IInv /\ [Next]_vars => IInv'
  BY TypeStep, LeaseStep, DrainStep, ReapStep DEF IInv

THEOREM Invariance == Spec => []IInv
  BY InitIInv, NextIInv, PTL DEF Spec

(* Rows, engines, sweeps and drains keep their types.                       *)
THEOREM TypeCorrect == Spec => []TypeOK
  <1>1. IInv => TypeOK BY DEF IInv
  <1> QED BY <1>1, Invariance, PTL

(* An engine runs beside the holder's only on a process whose lease lapsed  *)
(* under it: the conditional UPDATE of claim never grants one lease twice.  *)
THEOREM TwoEnginesAreLate == Spec => []OneEngine
  <1>1. IInv => OneEngine BY DEF IInv, Leased, OneEngine, Overlap, Connects, Live
  <1> QED BY <1>1, Invariance, PTL

(* Adopting or booting, a reaper fails no batch another process can still   *)
(* send for, unless that process is late, or the reaper has lost the session.*)
THEOREM ReapersSparePeers == Spec => ReapSparesPeers
  <1>1. IInv /\ [Next]_vars =>
          [\A m, n \in Nodes :
             todo[m] \in {"reaping", "bootreaping"} /\ todo'[m] = "idle" /\ n # m
             /\ run[n] = "sending"
               => n \in late \/ (todo[m] = "reaping" /\ holder # m)]_vars
    BY DEF IInv, Reaped, Drained, Leased
  <1> QED BY <1>1, Invariance, PTL DEF Spec, ReapSparesPeers

(* A committed cancel is final for the drain of the batch: only a reaper    *)
(* that read the batch before overwrites it.                                *)
THEOREM CancelsHold == Spec => CancelHolds
  <1>1. ASSUME Next, batch = "cancelled", batch' # "cancelled"
        PROVE  \E n \in Nodes : todo[n] \in {"reaping", "bootreaping"}
    <2> USE DEF session, bulk
    <2>1. ASSUME NEW n \in Nodes, Bulk(n) PROVE FALSE
      BY <1>1, <2>1 DEF Bulk, CreateBatch, BeginBatch, CancelBatch, CancelCommits,
                        FinalizeBatch, Open
    <2>2. ASSUME NEW n \in Nodes, Start(n) \/ Stop(n) \/ Engine(n) \/ Heartbeat(n)
          PROVE FALSE
      BY <1>1, <2>2 DEF Start, Stop, TearDown, LeaveEngine, Engine, Launched, LaunchFails,
                        AbortedReturns, Disconnect, Reconnect, ReconnectExhausted, Heartbeat,
                        Renew, LeaseLost
    <2>3. ASSUME NEW n \in Nodes, Sweep(n) \/ ReapRead(n) \/ Process(n) PROVE FALSE
      BY <1>1, <2>3 DEF Sweep, SweepRead, Adopt, ReapRead, Process, Crash, Shutdown, Leave,
                        Boot, AutoStart
    <2>4. ASSUME NEW n \in Nodes, ReapSave(n)
          PROVE  \E m \in Nodes : todo[m] \in {"reaping", "bootreaping"}
      BY <2>4 DEF ReapSave
    <2>5. ~Tick BY <1>1 DEF Tick
    <2> QED BY <1>1, <2>1, <2>2, <2>3, <2>4, <2>5 DEF Next, Reaper
  <1>2. [Next]_vars => [batch = "cancelled" /\ batch' # "cancelled" =>
                          \E n \in Nodes : todo[n] \in {"reaping", "bootreaping"}]_vars
    BY <1>1
  <1> QED BY <1>2, PTL DEF Spec, CancelHolds

-----------------------------------------------------------------------------
(* Messages: WhatsAppMessages.                                               *)

(* A request with its counters unbounded: types first, ranges by counting.  *)
Loose == [kind : Kinds, pc : Phases, asked : [all : 0 .. MaxTargets, mute : 0 .. MaxTargets],
          n : Nat, at : Nat, gate : Gateways \cup {NoGateway}, sid : Ids \cup {NoId},
          ok : Nat, bad : Nat]

(* What becomes of the fields of a request that only moves on.              *)
LEMMA Goes ==
  ASSUME req \in [Requests -> Loose], NEW r \in Requests, NEW step \in Phases, Goto(r, step)
  PROVE /\ \A s \in Requests : s # r => req'[s] = req[s]
        /\ req'[r].kind = req[r].kind /\ req'[r].asked = req[r].asked /\ req'[r].n = req[r].n
        /\ req'[r].ok = req[r].ok /\ req'[r].bad = req[r].bad /\ req'[r].at = req[r].at
        /\ req'[r].gate = req[r].gate /\ req'[r].sid = req[r].sid
        /\ req'[r].pc = step
        /\ req' \in [Requests -> Loose]
BY DEF Goto, Loose

(* What a request that learns its session, or gateway and session, becomes. *)
Named(r, sid, step) == [req EXCEPT ![r].sid = sid, ![r].pc = step]
Loaded(r, gate, sid, step) == [req EXCEPT ![r].gate = gate, ![r].sid = sid, ![r].pc = step]

(* ... that also notes a session id, ...                                    *)
LEMMA Addresses ==
  ASSUME req \in [Requests -> Loose], NEW r \in Requests, NEW step \in Phases, NEW sid \in Ids \cup {NoId},
         req' = Named(r, sid, step)
  PROVE /\ \A s \in Requests : s # r => req'[s] = req[s]
        /\ req'[r].kind = req[r].kind /\ req'[r].asked = req[r].asked /\ req'[r].n = req[r].n
        /\ req'[r].ok = req[r].ok /\ req'[r].bad = req[r].bad /\ req'[r].at = req[r].at
        /\ req'[r].gate = req[r].gate /\ req'[r].sid = sid
        /\ req'[r].pc = step
        /\ req' \in [Requests -> Loose]
<1> DEFINE q == [req[r] EXCEPT !.sid = sid, !.pc = step]
<1>1. q \in Loose
  BY DEF Loose
<1>2. /\ q.kind = req[r].kind /\ q.asked = req[r].asked /\ q.n = req[r].n
      /\ q.ok = req[r].ok /\ q.bad = req[r].bad
      /\ q.at = req[r].at /\ q.gate = req[r].gate /\ q.sid = sid /\ q.pc = step
  BY DEF Loose
<1>3. req' = [req EXCEPT ![r] = q]
  BY DEF Loose, Named
<1> HIDE DEF q
<1>4. req'[r] = q /\ req' \in [Requests -> Loose] /\ \A s \in Requests : s # r => req'[s] = req[s]
  BY <1>1, <1>3
<1> QED BY <1>2, <1>4

(* ... or a gateway and a session id.                                       *)
LEMMA Loads ==
  ASSUME req \in [Requests -> Loose], NEW r \in Requests, NEW step \in Phases, NEW sid \in Ids \cup {NoId},
         NEW gate \in Gateways \cup {NoGateway},
         req' = Loaded(r, gate, sid, step)
  PROVE /\ \A s \in Requests : s # r => req'[s] = req[s]
        /\ req'[r].kind = req[r].kind /\ req'[r].asked = req[r].asked /\ req'[r].n = req[r].n
        /\ req'[r].ok = req[r].ok /\ req'[r].bad = req[r].bad /\ req'[r].at = req[r].at
        /\ req'[r].gate = gate /\ req'[r].sid = sid
        /\ req'[r].pc = step
        /\ req' \in [Requests -> Loose]
<1> DEFINE q == [req[r] EXCEPT !.gate = gate, !.sid = sid, !.pc = step]
<1>1. req[r] \in Loose
  OBVIOUS
<1>2. q \in Loose
  BY <1>1 DEF Loose
<1>3. /\ q.kind = req[r].kind /\ q.asked = req[r].asked /\ q.n = req[r].n
      /\ q.ok = req[r].ok /\ q.bad = req[r].bad
      /\ q.at = req[r].at /\ q.gate = gate /\ q.sid = sid /\ q.pc = step
  BY <1>1 DEF Loose
<1>4. req' = [req EXCEPT ![r] = q]
  BY <1>1 DEF Loose, Loaded
<1> HIDE DEF q
<1>5. req'[r] = q /\ req' \in [Requests -> Loose] /\ \A s \in Requests : s # r => req'[s] = req[s]
  BY <1>2, <1>4
<1> QED BY <1>3, <1>5

(* What a request that comes in starts with, ...                            *)
Received(r, kind, asked, step) ==
  [req EXCEPT ![r].kind = kind, ![r].asked = asked, ![r].pc = step]

LEMMA Receives ==
  ASSUME req \in [Requests -> Loose], NEW r \in Requests, NEW kind \in Kinds, NEW all \in 0 .. MaxTargets,
         Receive(r, kind, all)
  PROVE /\ \A s \in Requests : s # r => req'[s] = req[s]
        /\ req'[r].kind = kind /\ req'[r].asked = [all |-> all, mute |-> 0] /\ req'[r].n = req[r].n
        /\ req'[r].ok = req[r].ok /\ req'[r].bad = req[r].bad /\ req'[r].at = req[r].at
        /\ req'[r].gate = req[r].gate /\ req'[r].sid = req[r].sid
        /\ req'[r].pc = IF kind = "send" THEN "resolve" ELSE "load"
        /\ req' \in [Requests -> Loose]
<1> DEFINE step == IF kind = "send" THEN "resolve" ELSE "load"
           asked == [all |-> all, mute |-> 0]
<1>p. step \in Phases /\ asked \in [all : 0 .. MaxTargets, mute : 0 .. MaxTargets]
  BY WhatsAppAssumption DEF Phases
<1>r. req' = [req EXCEPT ![r].kind = kind, ![r].asked = asked, ![r].pc = step]
  BY DEF Receive
<1> HIDE DEF step, asked
<1> DEFINE q == [req[r] EXCEPT !.kind = kind, !.asked = asked, !.pc = step]
<1>1. req[r] \in Loose
  OBVIOUS
<1>2. q \in Loose
  BY <1>1, <1>p DEF Loose
<1>3. /\ q.kind = kind /\ q.asked = asked /\ q.n = req[r].n /\ q.ok = req[r].ok /\ q.bad = req[r].bad
      /\ q.at = req[r].at /\ q.gate = req[r].gate /\ q.sid = req[r].sid /\ q.pc = step
  BY <1>1 DEF Loose
<1>4. req' = [req EXCEPT ![r] = q]
  BY <1>1, <1>r DEF Loose
<1> HIDE DEF q
<1>5. req'[r] = q /\ req' \in [Requests -> Loose] /\ \A s \in Requests : s # r => req'[s] = req[s]
  BY <1>2, <1>4
<1> QED BY <1>3, <1>5 DEF step, asked

(* ... and what is left of its recipients once their numbers are looked up. *)
LEMMA Resolves ==
  ASSUME req \in [Requests -> Loose], NEW r \in Requests, Resolve(r)
  PROVE /\ \A s \in Requests : s # r => req'[s] = req[s]
        /\ req'[r].kind = req[r].kind
        /\ req'[r].ok = req[r].ok /\ req'[r].bad = req[r].bad /\ req'[r].at = req[r].at
        /\ \/ req'[r].pc = "refused" /\ req'[r].n = req[r].n
           \/ /\ req'[r].pc = "row" /\ req'[r].n \in Targets
              /\ \/ req'[r].n + req'[r].asked.mute = req'[r].asked.all
                 \/ req'[r].n = 1 /\ req'[r].asked.mute = req'[r].asked.all
        /\ req' \in [Requests -> Loose]
<1>1. CASE Goto(r, "refused")
  <2>1. "refused" \in Phases
    BY DEF Phases
  <2> QED BY <1>1, <2>1, Goes
<1>2. ASSUME NEW mute \in 0 .. req[r].asked.all,
             req' = [req EXCEPT ![r].asked.mute = mute, ![r].pc = "row",
                                ![r].n = IF mute = req[r].asked.all THEN 1 ELSE req[r].asked.all - mute]
      PROVE  /\ \A s \in Requests : s # r => req'[s] = req[s]
             /\ req'[r].kind = req[r].kind
             /\ req'[r].ok = req[r].ok /\ req'[r].bad = req[r].bad /\ req'[r].at = req[r].at
             /\ req'[r].pc = "row" /\ req'[r].n \in Targets
             /\ \/ req'[r].n + req'[r].asked.mute = req'[r].asked.all
                \/ req'[r].n = 1 /\ req'[r].asked.mute = req'[r].asked.all
             /\ req' \in [Requests -> Loose]
  <2> DEFINE all == req[r].asked.all
             asked == [req[r].asked EXCEPT !.mute = mute]
             n == IF mute = all THEN 1 ELSE all - mute
             q == [req[r] EXCEPT !.asked = asked, !.pc = "row", !.n = n]
  <2>1. req[r] \in Loose /\ req[r].asked \in [all : 0 .. MaxTargets, mute : 0 .. MaxTargets]
    BY DEF Loose
  <2>2. all \in 0 .. MaxTargets /\ mute \in 0 .. MaxTargets /\ MaxTargets \in Nat \ {0}
    BY <2>1, WhatsAppAssumption
  <2>3. asked \in [all : 0 .. MaxTargets, mute : 0 .. MaxTargets] /\ asked.all = all /\ asked.mute = mute
    BY <2>1, <2>2
  <2>4. n \in Targets /\ n \in Nat /\ (n + mute = all \/ (n = 1 /\ mute = all))
    BY <2>2 DEF Targets
  <2>5. "row" \in Phases
    BY DEF Phases
  <2>6. req' = [req EXCEPT ![r] = q]
    BY <1>2, <2>1 DEF Loose
  <2> HIDE DEF n, asked, all
  <2>7. q \in Loose
    BY <2>1, <2>3, <2>4, <2>5 DEF Loose
  <2>8. /\ q.kind = req[r].kind /\ q.asked = asked /\ q.n = n /\ q.ok = req[r].ok /\ q.bad = req[r].bad
        /\ q.at = req[r].at /\ q.pc = "row"
    BY <2>1 DEF Loose
  <2> HIDE DEF q
  <2>9. req'[r] = q /\ req' \in [Requests -> Loose] /\ \A s \in Requests : s # r => req'[s] = req[s]
    BY <2>6, <2>7
  <2> QED BY <2>3, <2>4, <2>8, <2>9
<1> QED BY <1>1, <1>2 DEF Resolve

(* A crash loses the place of every request under way, and nothing else.    *)
LEMMA Crashes ==
  ASSUME req \in [Requests -> Loose], BackendCrash, NEW r \in Requests
  PROVE /\ req'[r].kind = req[r].kind /\ req'[r].asked = req[r].asked /\ req'[r].n = req[r].n
        /\ req'[r].ok = req[r].ok /\ req'[r].bad = req[r].bad /\ req'[r].at = req[r].at
        /\ req'[r].pc = IF req[r].pc \in Over THEN req[r].pc ELSE "lost"
        /\ req'[r].pc \in {"create", "list", "store", "call", "start", "wait"} => req'[r] = req[r]
        /\ req'[r] \in Loose
<1>1. req'[r] = IF req[r].pc \in Over THEN req[r]
                ELSE [req[r] EXCEPT !.pc = "lost", !.gate = NoGateway, !.sid = NoId]
  BY DEF BackendCrash
<1>2. CASE req[r].pc \in Over
  BY <1>1, <1>2 DEF Over
<1>3. CASE req[r].pc \notin Over
  <2>1. "lost" \in Phases
    BY DEF Phases
  <2> QED BY <1>1, <1>3, <2>1 DEF Loose
<1> QED BY <1>2, <1>3

(* What one recipient more does to the counters and to the place.           *)
LEMMA CountedFields ==
  ASSUME NEW q \in Loose, NEW good \in BOOLEAN
  PROVE /\ Counted(q, good) \in Loose
        /\ Counted(q, good).kind = q.kind /\ Counted(q, good).asked = q.asked /\ Counted(q, good).n = q.n
        /\ Counted(q, good).ok = IF good THEN q.ok + 1 ELSE q.ok
        /\ Counted(q, good).bad = IF good THEN q.bad ELSE q.bad + 1
        /\ Counted(q, good).at = IF q.at < q.n THEN q.at + 1 ELSE q.at
        /\ Counted(q, good).pc = IF q.at < q.n THEN "row" ELSE "answered"
<1>1. Counted(q, good).kind = q.kind /\ Counted(q, good).asked = q.asked /\ Counted(q, good).n = q.n
  BY DEF Counted, Loose
<1>2. /\ Counted(q, good).ok = IF good THEN q.ok + 1 ELSE q.ok
      /\ Counted(q, good).bad = IF good THEN q.bad ELSE q.bad + 1
  BY DEF Counted, Loose
<1>3. /\ Counted(q, good).at = IF q.at < q.n THEN q.at + 1 ELSE q.at
      /\ Counted(q, good).pc = IF q.at < q.n THEN "row" ELSE "answered"
  BY DEF Counted, Loose
<1>4. Counted(q, good) \in Loose
  <2>1. "row" \in Phases /\ "answered" \in Phases
    BY DEF Phases
  <2>2. /\ (IF good THEN q.ok + 1 ELSE q.ok) \in Nat /\ (IF good THEN q.bad ELSE q.bad + 1) \in Nat
        /\ (IF q.at < q.n THEN q.at + 1 ELSE q.at) \in Nat
    BY DEF Loose
  <2>3. (IF q.at < q.n THEN "row" ELSE "answered") \in Phases
    BY <2>1
  <2> QED BY <2>2, <2>3 DEF Counted, Loose
<1> QED BY <1>1, <1>2, <1>3, <1>4

(* The same of the request that is settled.                                 *)
LEMMA Settled ==
  ASSUME req \in [Requests -> Loose], NEW r \in Requests, NEW good \in BOOLEAN, Settle(r, good)
  PROVE /\ \A s \in Requests : s # r => req'[s] = req[s]
        /\ req'[r].kind = req[r].kind /\ req'[r].asked = req[r].asked /\ req'[r].n = req[r].n
        /\ req'[r].ok = IF good THEN req[r].ok + 1 ELSE req[r].ok
        /\ req'[r].bad = IF good THEN req[r].bad ELSE req[r].bad + 1
        /\ req'[r].at = IF req[r].at < req[r].n THEN req[r].at + 1 ELSE req[r].at
        /\ req'[r].pc = IF req[r].at < req[r].n THEN "row" ELSE "answered"
        /\ req' \in [Requests -> Loose]
<1>1. req[r] \in Loose /\ req' = [req EXCEPT ![r] = Counted(req[r], good)]
  BY DEF Settle
<1>2. req'[r] = Counted(req[r], good)
  BY <1>1
<1> QED BY <1>1, <1>2, CountedFields

(* What a row of the log can say.                                           *)
Statuses == {"none", "PENDING", "SENT", "FAILED"}
(* One row of the log is written.                                           *)
LEMMA RowIsSet ==
  ASSUME log \in [Requests -> [Targets -> Statuses]], NEW r \in Requests, req[r].at \in Targets,
         NEW s \in Statuses, SetRow(r, s)
  PROVE /\ log' \in [Requests -> [Targets -> Statuses]]
        /\ \A p \in Requests, i \in Targets :
             log'[p][i] = IF p = r /\ i = req[r].at THEN s ELSE log[p][i]
BY DEF SetRow

-----------------------------------------------------------------------------
(* The inductive invariant.  Types, but for the counters of a request.      *)
Typed ==
  /\ school \in [own : Gateways \cup {NoGateway}, session : Ids \cup {NoId}]
  /\ gw \in [Gateways -> [made : 0 .. MaxSessions, alive : BOOLEAN, on : BOOLEAN]]
  /\ req \in [Requests -> Loose]
  /\ log \in [Requests -> [Targets -> Statuses]]
  /\ wire \subseteq Rows \X Gateways \X Ids
  /\ delivered \subseteq Rows /\ blurred \subseteq Rows

(* What was settled is what the loop has passed.                            *)
Counts ==
  \A r \in Requests :
    /\ req[r].n \in Targets /\ req[r].at \in 1 .. req[r].n
    /\ req[r].pc # "answered" => req[r].ok + req[r].bad = req[r].at - 1
    /\ req[r].pc = "answered" => req[r].ok + req[r].bad = req[r].n /\ req[r].at = req[r].n
    /\ req[r].kind # "send" => req[r].n = 1 /\ req[r].pc \notin {"idle", "resolve", "refused", "row", "wait", "mark"}
    /\ req[r].pc \in {"idle", "resolve", "refused"} => req[r].n = 1 /\ req[r].at = 1

(* The recipients to send to are those selected that have a number, or the  *)
(* one the body names.                                                      *)
Asked ==
  \A r \in Requests : req[r].kind = "send" /\ req[r].pc \notin {"idle", "resolve", "refused", "lost"} =>
    \/ req[r].n + req[r].asked.mute = req[r].asked.all
    \/ req[r].n = 1 /\ req[r].asked.mute = req[r].asked.all

(* A request past requireGateway names a gateway, past ensureSessionId a    *)
(* session; a session that exists has a number.                             *)
Addressed ==
  /\ \A g \in Gateways : gw[g].alive => gw[g].made # 0
  /\ \A r \in Requests :
       /\ req[r].pc \in {"create", "list", "store", "call", "start"} => req[r].gate \in Gateways
       /\ req[r].pc \in {"store", "call", "start"} => req[r].sid \in Ids

(* Whether the recipient has been posted, and whether it has been taken up. *)
Fresh == {"idle", "resolve", "refused", "row", "load", "create", "list", "store", "call"}
Reached(r, i) == i < req[r].at \/ (i = req[r].at /\ req[r].pc \notin Fresh)
Begun(r, i) == i < req[r].at \/ (i = req[r].at /\ req[r].pc \notin {"idle", "resolve", "refused", "row"})

(* A row is written in its recipient's turn, and is PENDING throughout it.  *)
RowWritten ==
  \A r \in Requests, i \in Targets :
    /\ ~Begun(r, i) \/ req[r].kind # "send" => log[r][i] = "none"
    /\ i = req[r].at /\ req[r].kind = "send" =>
         /\ req[r].pc \notin {"idle", "resolve", "refused", "row", "answered", "lost"} => log[r][i] = "PENDING"
         /\ req[r].pc = "lost" => log[r][i] \in {"none", "PENDING"}

(* What is on the wire: one post per recipient, given up or waited for.     *)
OnePost == \A w, v \in wire : w[1] = v[1] => w = v
OnItsWay ==
  \A w \in wire, r \in Requests, i \in Targets : w[1] = <<r, i>> =>
    /\ Reached(r, i)
    /\ <<r, i>> \in blurred \/ (req[r].at = i /\ req[r].pc \in {"wait", "lost"})
(* What went out, and what the log says of it.                              *)
Accounted ==
  \A r \in Requests, i \in Targets :
    <<r, i>> \in delivered =>
      /\ Reached(r, i)
      /\ <<r, i>> \in blurred \/ log[r][i] = "SENT" \/ (req[r].at = i /\ req[r].pc \in {"mark", "lost"})
Marking == \A r \in Requests : req[r].pc = "mark" => Row(r) \in delivered
SentIsOut == \A r \in Requests, i \in Targets : log[r][i] = "SENT" => <<r, i>> \in delivered
AtWork ==
  \A r \in Requests, i \in Targets : log[r][i] = "PENDING" =>
    \/ req[r].at = i /\ req[r].pc \notin {"idle", "resolve", "refused", "row", "answered"}
    \/ <<r, i>> \in blurred
(* The report counts the rows SENT.                                         *)
SentCounted == \A r \in Requests : req[r].kind = "send" =>
  req[r].ok = Cardinality({i \in Targets : log[r][i] = "SENT"})

-----------------------------------------------------------------------------
(* The steps of a request, by what they do to its place and to the rows.    *)
Moves(r) ==
  /\ \A s \in Requests : s # r => req'[s] = req[s]
  /\ req'[r].kind = req[r].kind /\ req'[r].asked = req[r].asked /\ req'[r].n = req[r].n /\ req'[r].at = req[r].at
  /\ req'[r].ok = req[r].ok /\ req'[r].bad = req[r].bad

Advances(r) ==
  /\ Moves(r)
  /\ req[r].pc \in {"load", "create", "list", "store", "call", "start"}
  /\ req'[r].pc \in {"create", "list", "store", "call", "start", "fail"}
  /\ req[r].pc = "start" => req'[r].pc = "fail"
  /\ UNCHANGED <<log, wire, delivered, blurred>>

Answers(r) ==
  /\ Settle(r, TRUE)
  /\ req[r].pc \in {"call", "start"} /\ req[r].kind # "send"
  /\ UNCHANGED <<log, wire, delivered, blurred>>

Connecting(r) ==
  Load(r) \/ CreateSession(r) \/ ListSessions(r) \/ StoreSession(r) \/ SessionCall(r) \/ ReconnectStops(r)

LEMMA PhasesNamed ==
  /\ "idle" \in Phases /\ "row" \in Phases /\ "load" \in Phases /\ "create" \in Phases /\ "list" \in Phases
  /\ "store" \in Phases /\ "call" \in Phases /\ "wait" \in Phases /\ "mark" \in Phases /\ "fail" \in Phases
  /\ "start" \in Phases /\ "resolve" \in Phases /\ "refused" \in Phases /\ "answered" \in Phases /\ "lost" \in Phases
BY DEF Phases

(* What a request reads of the school and of itself.                        *)
LEMMA Settings ==
  ASSUME Typed
  PROVE  /\ Gateway \in Gateways \cup {NoGateway}
         /\ school.session \in Ids \cup {NoId} /\ req \in [Requests -> Loose]
         /\ \A r \in Requests : req[r].gate \in Gateways \cup {NoGateway} /\ req[r].sid \in Ids \cup {NoId}
BY WhatsAppAssumption DEF Typed, Gateway, Loose

(* A session that exists at a gateway has a number within bounds.           *)
LEMMA CurrentIsId ==
  ASSUME Typed, Addressed, NEW g \in Gateways
  PROVE  /\ gw[g].alive => Current(g) \in Ids
         /\ gw[g].made < MaxSessions => <<g, gw[g].made + 1>> \in Ids
<1>1. gw[g].made \in 0 .. MaxSessions
  BY DEF Typed
<1> QED BY <1>1, WhatsAppAssumption DEF Addressed, Current, Ids

(* The steps that find or create the session and those that call the        *)
(* gateway leave the rows alone: they advance the request, or answer it.    *)
LEMMA ConnectingShape ==
  ASSUME Typed, Addressed, NEW r \in Requests, Connecting(r)
  PROVE  /\ Advances(r) \/ Answers(r)
         /\ req' \in [Requests -> Loose]
<1>1. CASE Load(r)
  <2>1. CASE Gateway = NoGateway
    BY <1>1, <2>1, Settings, Goes, PhasesNamed DEF Load, Advances, Moves
  <2>2. CASE Gateway # NoGateway
    <3>1. PICK gate \in Gateways, sid \in Ids \cup {NoId}, step \in {"create", "call"} :
            req' = Loaded(r, gate, sid, step)
      BY <1>1, <2>2, Settings DEF Load, Loaded
    <3> QED BY <1>1, <3>1, Settings, Loads, PhasesNamed DEF Load, Advances, Moves
  <2> QED BY <2>1, <2>2
<1>2. CASE CreateSession(r)
  <2>1. req[r].gate \in Gateways
    BY <1>2 DEF CreateSession, Addressed
  <2>2. \/ Goto(r, "fail") \/ Goto(r, "list")
        \/ \E sid \in Ids : req' = Named(r, sid, "store")
    BY <1>2, <2>1, CurrentIsId DEF CreateSession, Named
  <2>3. req[r].pc = "create" /\ UNCHANGED <<log, wire, delivered, blurred>>
    BY <1>2 DEF CreateSession
  <2>4. CASE Goto(r, "fail") \/ Goto(r, "list")
    BY <2>3, <2>4, Settings, Goes, PhasesNamed DEF Advances, Moves
  <2>5. ASSUME NEW sid \in Ids, req' = Named(r, sid, "store")
        PROVE  (Advances(r) \/ Answers(r)) /\ req' \in [Requests -> Loose]
    BY <2>3, <2>5, Settings, Addresses, PhasesNamed DEF Advances, Moves
  <2> QED BY <2>2, <2>4, <2>5
<1>3. CASE ListSessions(r)
  <2>1. req[r].gate \in Gateways
    BY <1>3 DEF ListSessions, Addressed
  <2>2. CASE Goto(r, "fail")
    BY <1>3, <2>2, Settings, Goes, PhasesNamed DEF ListSessions, Advances, Moves
  <2>3. CASE gw[req[r].gate].alive /\ req' = [req EXCEPT ![r].sid = Current(req[r].gate), ![r].pc = "store"]
    <3>1. Current(req[r].gate) \in Ids \cup {NoId}
      BY <2>1, <2>3, CurrentIsId
    <3> QED BY <1>3, <2>3, <3>1, Settings, Addresses, PhasesNamed DEF ListSessions, Named,
               Advances, Moves
  <2> QED BY <1>3, <2>2, <2>3 DEF ListSessions
<1>4. CASE StoreSession(r)
  BY <1>4, Settings, Goes, PhasesNamed DEF StoreSession, Advances, Moves
<1>5. CASE SessionCall(r)
  BY <1>5, Settings, Goes, Settled, PhasesNamed DEF SessionCall, Advances, Answers, Moves
<1>6. CASE ReconnectStops(r)
  BY <1>6, Settings, Goes, PhasesNamed DEF ReconnectStops, Advances, Moves
<1> QED BY <1>1, <1>2, <1>3, <1>4, <1>5, <1>6 DEF Connecting

-----------------------------------------------------------------------------
(* Types.                                                                   *)
GwType == [Gateways -> [made : 0 .. MaxSessions, alive : BOOLEAN, on : BOOLEAN]]

(* An engine that starts or stops leaves the session what it was.           *)
LEMMA SetsOn ==
  ASSUME gw \in GwType, NEW g \in Gateways, NEW b \in BOOLEAN, SetOn(g, b)
  PROVE  /\ gw' \in GwType
         /\ \A h \in Gateways : gw'[h].made = gw[h].made /\ gw'[h].alive = gw[h].alive
BY DEF SetOn, GwType

(* No step breaks the count of a gateway's sessions.                        *)
LEMMA GatewayKept ==
  ASSUME Typed, Addressed, [MessagesNext]_messagesVars
  PROVE  /\ gw' \in GwType
         /\ \A g \in Gateways : gw'[g].alive => gw'[g].made # 0
<1>0. gw \in GwType /\ MaxSessions \in Nat /\ \A g \in Gateways : gw[g] \in [made : 0 .. MaxSessions, alive : BOOLEAN, on : BOOLEAN]
  BY WhatsAppAssumption DEF Typed, GwType
<1>a. \A g \in Gateways : gw[g].alive => gw[g].made # 0
  BY DEF Addressed
<1>1. ASSUME NEW r \in Requests, CreateSession(r)
      PROVE gw' \in GwType /\ \A g \in Gateways : gw'[g].alive => gw'[g].made # 0
  <2> DEFINE g == req[r].gate
  <2>1. g \in Gateways
    BY <1>1 DEF CreateSession, Addressed
  <2>2. gw' = gw \/ (gw[g].made < MaxSessions /\ gw' = [gw EXCEPT ![g] = [made |-> gw[g].made + 1, alive |-> TRUE, on |-> FALSE]])
    BY <1>1, <2>1, <1>0 DEF CreateSession, GwType
  <2> HIDE DEF g
  <2>3. gw[g].made \in 0 .. MaxSessions
    BY <1>0, <2>1
  <2> DEFINE new == [made |-> gw[g].made + 1, alive |-> TRUE, on |-> FALSE]
  <2>4. gw[g].made < MaxSessions => new \in [made : 0 .. MaxSessions, alive : BOOLEAN, on : BOOLEAN]
    BY <1>0, <2>3
  <2>5. new.made # 0
    BY <2>3
  <2> HIDE DEF new
  <2>6. CASE gw[g].made < MaxSessions /\ gw' = [gw EXCEPT ![g] = new]
    BY <1>0, <1>a, <2>1, <2>4, <2>5, <2>6 DEF GwType
  <2> QED BY <1>0, <1>a, <2>2, <2>6 DEF GwType, new
<1>2. ASSUME NEW r \in Requests, SessionCall(r) \/ ReconnectStops(r)
      PROVE gw' \in GwType /\ \A g \in Gateways : gw'[g].alive => gw'[g].made # 0
  <2>1. req[r].gate \in Gateways
    BY <1>2 DEF SessionCall, ReconnectStops, Addressed
  <2>2. gw' = gw \/ SetOn(req[r].gate, TRUE) \/ SetOn(req[r].gate, FALSE)
    BY <1>2 DEF SessionCall, ReconnectStops
  <2> QED BY <1>0, <1>a, <2>1, <2>2, SetsOn
<1>3. ASSUME NEW g \in Gateways, GatewayMoves(g)
      PROVE gw' \in GwType /\ \A h \in Gateways : gw'[h].alive => gw'[h].made # 0
  <2>1. CASE SetOn(g, ~gw[g].on)
    BY <1>0, <1>a, <2>1, SetsOn
  <2>2. CASE gw' = [gw EXCEPT ![g].alive = FALSE, ![g].on = FALSE]
    <3>1. gw' = [gw EXCEPT ![g] = [@ EXCEPT !.alive = FALSE, !.on = FALSE]]
      BY <1>0, <2>2 DEF GwType
    <3>2. [gw[g] EXCEPT !.alive = FALSE, !.on = FALSE] \in [made : 0 .. MaxSessions, alive : BOOLEAN, on : BOOLEAN]
      BY <1>0
    <3>3. [gw[g] EXCEPT !.alive = FALSE, !.on = FALSE].made = gw[g].made
      BY <1>0
    <3>4. [gw[g] EXCEPT !.alive = FALSE, !.on = FALSE].alive = FALSE
      BY <1>0
    <3> QED BY <1>0, <1>a, <3>1, <3>2, <3>3, <3>4 DEF GwType
  <2> QED BY <1>3, <2>1, <2>2 DEF GatewayMoves
<1>4. CASE UNCHANGED gw
  BY <1>0, <1>a, <1>4 DEF GwType
<1>5. ASSUME NEW r \in Requests, Work(r), ~CreateSession(r), ~SessionCall(r), ~ReconnectStops(r)
      PROVE UNCHANGED gw
  BY <1>5 DEF Work, Resolve, CreateRow, Load, ListSessions, StoreSession, Post, TimeOut, MarkSent, MarkFailed
<1>6. ASSUME NEW r \in Requests, NEW kind \in Kinds, NEW all \in 0 .. MaxTargets, Receive(r, kind, all)
      PROVE UNCHANGED gw
  BY <1>6 DEF Receive
<1>7. ASSUME NEW w \in wire, Deliver(w) PROVE UNCHANGED gw
  BY <1>7 DEF Deliver
<1>8. ASSUME NEW g \in Gateways \cup {NoGateway}, SaveGateway(g) PROVE UNCHANGED gw
  BY <1>8 DEF SaveGateway
<1>9. ResetSession \/ BackendCrash \/ UNCHANGED messagesVars => UNCHANGED gw
  BY DEF ResetSession, BackendCrash, messagesVars
<1> QED BY <1>1, <1>2, <1>3, <1>4, <1>5, <1>6, <1>7, <1>8, <1>9 DEF MessagesNext

(* A recipient settled leaves the counters adding up, ...                   *)
LEMMA CountsSettle ==
  ASSUME req \in [Requests -> Loose], NEW r \in Requests, NEW good \in BOOLEAN, Settle(r, good),
         Counts, req[r].pc # "answered"
  PROVE  Counts'
<1> USE WhatsAppAssumption DEF Targets
<1> DEFINE Fits(q) ==
      /\ q.n \in Targets /\ q.at \in 1 .. q.n
      /\ q.pc # "answered" => q.ok + q.bad = q.at - 1
      /\ q.pc = "answered" => q.ok + q.bad = q.n /\ q.at = q.n
      /\ q.kind # "send" => q.n = 1 /\ q.pc \notin {"idle", "resolve", "refused", "row", "wait", "mark"}
      /\ q.pc \in {"idle", "resolve", "refused"} => q.n = 1 /\ q.at = 1
<1>1. req' \in [Requests -> Loose] /\ \A s \in Requests : s # r => req'[s] = req[s]
  BY Settled
<1>2. Fits(req'[r])
  <2>1. req[r] \in Loose /\ Fits(req[r])
    BY DEF Counts
  <2>2. /\ req[r].n \in Nat /\ req[r].at \in Nat /\ req[r].ok \in Nat /\ req[r].bad \in Nat
    BY <2>1 DEF Loose
  <2>3. CASE req[r].at < req[r].n
    BY <2>1, <2>2, <2>3, Settled
  <2>4. CASE ~(req[r].at < req[r].n)
    BY <2>1, <2>2, <2>4, Settled
  <2> QED BY <2>3, <2>4
<1> QED BY <1>1, <1>2 DEF Counts

(* ... and so does a request that moves within one recipient.               *)
LEMMA CountsMove ==
  ASSUME NEW r \in Requests, Moves(r), Counts, req[r].pc # "answered",
         req'[r].pc \notin {"idle", "resolve", "refused", "row", "answered"},
         req'[r].pc \in {"wait", "mark"} => req[r].kind = "send"
  PROVE  Counts'
BY DEF Counts, Moves

(* The place of every request, whatever the step.                           *)
Aside == UNCHANGED <<req, log, wire, delivered, blurred>>

(* The steps of the gateway and of the settings touch no request and no     *)
(* row.                                                                     *)
LEMMA Elsewhere ==
  ASSUME \/ \E g \in Gateways : GatewayMoves(g)
         \/ \E g \in Gateways \cup {NoGateway} : SaveGateway(g)
         \/ ResetSession
         \/ UNCHANGED messagesVars
  PROVE  Aside
BY DEF GatewayMoves, SaveGateway, ResetSession, messagesVars, Aside

LEMMA Places ==
  ASSUME Typed, Counts
  PROVE  \A r \in Requests :
           /\ req[r] \in Loose /\ req[r].n \in Nat /\ req[r].at \in Nat /\ req[r].ok \in Nat /\ req[r].bad \in Nat
           /\ req[r].at \in Targets /\ Row(r) \in Rows
BY WhatsAppAssumption DEF Typed, Counts, Loose, Targets, Rows, Row

(* Every step leaves the counters of every request adding up.               *)
LEMMA CountsKept ==
  ASSUME Typed, Addressed, Counts, [MessagesNext]_messagesVars
  PROVE  Counts' /\ req' \in [Requests -> Loose]
<1>0. req \in [Requests -> Loose]
  BY DEF Typed
<1>1. ASSUME NEW r \in Requests, Connecting(r) PROVE Counts' /\ req' \in [Requests -> Loose]
  <2>1. CASE Advances(r)
    BY <1>1, <2>1, ConnectingShape, CountsMove DEF Advances
  <2>2. CASE Answers(r)
    BY <1>0, <1>1, <2>2, ConnectingShape, CountsSettle DEF Answers
  <2> QED BY <1>1, <2>1, <2>2, ConnectingShape
<1>2. ASSUME NEW r \in Requests, CreateRow(r) PROVE Counts' /\ req' \in [Requests -> Loose]
  BY <1>0, <1>2, Goes, Settled, CountsMove, CountsSettle, PhasesNamed DEF CreateRow, Moves
<1>3. ASSUME NEW r \in Requests, Post(r) \/ TimeOut(r) PROVE Counts' /\ req' \in [Requests -> Loose]
  BY <1>0, <1>3, Goes, CountsMove, PhasesNamed DEF Post, TimeOut, Moves
<1>4. ASSUME NEW r \in Requests, MarkSent(r) PROVE Counts' /\ req' \in [Requests -> Loose]
  <2>1. CASE Goto(r, "fail")
    <3>1. req[r].kind = "send" /\ req[r].pc = "mark"
      BY <1>4 DEF MarkSent, Counts
    <3>2. Moves(r) /\ req'[r].pc = "fail" /\ req' \in [Requests -> Loose]
      BY <1>0, <2>1, Goes, PhasesNamed DEF Moves
    <3> QED BY <3>1, <3>2, CountsMove
  <2>2. CASE Settle(r, TRUE)
    BY <1>0, <1>4, <2>2, Settled, CountsSettle DEF MarkSent
  <2> QED BY <1>4, <2>1, <2>2 DEF MarkSent
<1>5. ASSUME NEW r \in Requests, MarkFailed(r) PROVE Counts' /\ req' \in [Requests -> Loose]
  BY <1>0, <1>5, Settled, CountsSettle DEF MarkFailed
<1>6. ASSUME NEW r \in Requests, NEW kind \in Kinds, NEW all \in 0 .. MaxTargets, Receive(r, kind, all)
      PROVE Counts' /\ req' \in [Requests -> Loose]
  <2>4. /\ req' \in [Requests -> Loose]
        /\ \A s \in Requests : s # r => req'[s] = req[s]
        /\ req'[r].kind = kind /\ req'[r].n = req[r].n /\ req'[r].ok = req[r].ok /\ req'[r].bad = req[r].bad
        /\ req'[r].at = req[r].at /\ req'[r].pc = IF kind = "send" THEN "resolve" ELSE "load"
    BY <1>0, <1>6, Receives
  <2>5. /\ req[r].pc = "idle" /\ req[r].n = 1 /\ req[r].at = 1 /\ req[r].n \in Targets
        /\ req[r].at \in 1 .. req[r].n /\ req[r].ok + req[r].bad = req[r].at - 1
    BY <1>6 DEF Receive, Counts
  <2> QED BY <2>4, <2>5 DEF Counts
<1>10. ASSUME NEW r \in Requests, Resolve(r) PROVE Counts' /\ req' \in [Requests -> Loose]
  <2>1. /\ req[r].pc = "resolve" /\ req[r].n = 1 /\ req[r].at = 1 /\ req[r].kind = "send" /\ req[r].n \in Targets
        /\ req[r].ok + req[r].bad = req[r].at - 1
    BY <1>10 DEF Resolve, Counts
  <2>2. /\ req' \in [Requests -> Loose]
        /\ \A s \in Requests : s # r => req'[s] = req[s]
        /\ req'[r].kind = "send" /\ req'[r].ok = req[r].ok /\ req'[r].bad = req[r].bad /\ req'[r].at = 1
        /\ \/ req'[r].pc = "refused" /\ req'[r].n = 1
           \/ req'[r].pc = "row" /\ req'[r].n \in Targets
    BY <1>0, <1>10, <2>1, Resolves
  <2>3. req'[r].n \in Targets /\ 1 \in 1 .. req'[r].n
    BY <2>1, <2>2, WhatsAppAssumption DEF Targets
  <2> QED BY <2>1, <2>2, <2>3 DEF Counts
<1>7. ASSUME NEW w \in wire, Deliver(w) PROVE Counts' /\ req' \in [Requests -> Loose]
  <2>1. w[1][1] \in Requests
    BY DEF Typed, Rows
  <2>2. req' = req \/ (req[w[1][1]].pc = "wait" /\ (Goto(w[1][1], "mark") \/ Goto(w[1][1], "fail")))
    BY <1>7 DEF Deliver, Waiting
  <2>3. req[w[1][1]].pc = "wait" => req[w[1][1]].kind = "send"
    BY <2>1 DEF Counts
  <2> QED BY <1>0, <2>1, <2>2, <2>3, Goes, CountsMove, PhasesNamed DEF Moves, Counts
<1>8. CASE BackendCrash
  <2>1. req' \in [Requests -> Loose]
    BY <1>0, <1>8, Crashes DEF BackendCrash
  <2> QED BY <1>0, <1>8, <2>1, Crashes DEF Counts, Over
<1>9. CASE Aside
  BY <1>0, <1>9 DEF Aside, Counts
<1> QED
  BY <1>1, <1>2, <1>3, <1>4, <1>5, <1>6, <1>7, <1>8, <1>9, <1>10, Elsewhere DEF MessagesNext, Work,
     Connecting

(* The recipients of a request are settled once.                            *)
LEMMA AskedKept ==
  ASSUME Typed, Addressed, Counts, Asked, [MessagesNext]_messagesVars
  PROVE  Asked'
<1> DEFINE Fits(q) ==
      q.kind = "send" /\ q.pc \notin {"idle", "resolve", "refused", "lost"} =>
        \/ q.n + q.asked.mute = q.asked.all
        \/ q.n = 1 /\ q.asked.mute = q.asked.all
<1>0. req \in [Requests -> Loose] /\ \A r \in Requests : Fits(req[r])
  BY DEF Typed, Asked
<1> DEFINE Same(r) == /\ \A s \in Requests : s # r => req'[s] = req[s]
                      /\ req'[r].kind = req[r].kind /\ req'[r].asked = req[r].asked /\ req'[r].n = req[r].n
                      /\ req[r].pc \notin {"idle", "resolve", "refused", "lost"} \/ req'[r].kind # "send"
<1>k. ASSUME NEW r \in Requests, Same(r) PROVE Asked'
  BY <1>0, <1>k DEF Asked
<1>1. ASSUME NEW r \in Requests, Connecting(r) PROVE Asked'
  <2>1. CASE Advances(r)
    BY <1>k, <2>1 DEF Advances, Moves
  <2>2. CASE Answers(r)
    BY <1>0, <1>k, <2>2, Settled DEF Answers
  <2> QED BY <1>1, <2>1, <2>2, ConnectingShape
<1>2. ASSUME NEW r \in Requests,
             CreateRow(r) \/ Post(r) \/ TimeOut(r) \/ MarkSent(r) \/ MarkFailed(r)
      PROVE  Asked'
  <2>1. req[r].pc \in {"row", "call", "wait", "mark", "fail"}
    BY <1>2 DEF CreateRow, Post, TimeOut, MarkSent, MarkFailed
  <2>2. \/ \E step \in {"load", "wait", "fail"} : Goto(r, step)
        \/ \E good \in BOOLEAN : Settle(r, good)
    BY <1>2 DEF CreateRow, Post, TimeOut, MarkSent, MarkFailed
  <2>3. ASSUME NEW step \in {"load", "wait", "fail"}, Goto(r, step) PROVE Asked'
    BY <1>0, <1>k, <2>1, <2>3, Goes, PhasesNamed
  <2>4. ASSUME NEW good \in BOOLEAN, Settle(r, good) PROVE Asked'
    BY <1>0, <1>k, <2>1, <2>4, Settled
  <2> QED BY <2>2, <2>3, <2>4
<1>3. ASSUME NEW r \in Requests, Resolve(r) PROVE Asked'
  BY <1>0, <1>3, Resolves DEF Asked
<1>4. ASSUME NEW r \in Requests, NEW kind \in Kinds, NEW all \in 0 .. MaxTargets, Receive(r, kind, all)
      PROVE Asked'
  <2>1. /\ \A s \in Requests : s # r => req'[s] = req[s]
        /\ req'[r].kind = kind /\ req'[r].pc = IF kind = "send" THEN "resolve" ELSE "load"
    BY <1>0, <1>4, Receives
  <2>2. Fits(req'[r])
    BY <2>1
  <2> QED BY <1>0, <2>1, <2>2 DEF Asked
<1>5. ASSUME NEW w \in wire, Deliver(w) PROVE Asked'
  <2>1. w[1][1] \in Requests
    BY DEF Typed, Rows
  <2>2. req' = req \/ (req[w[1][1]].pc = "wait" /\ (Goto(w[1][1], "mark") \/ Goto(w[1][1], "fail")))
    BY <1>5 DEF Deliver, Waiting
  <2>3. CASE req' = req
    BY <2>3 DEF Asked
  <2>4. CASE req[w[1][1]].pc = "wait" /\ (Goto(w[1][1], "mark") \/ Goto(w[1][1], "fail"))
    BY <1>0, <1>k, <2>1, <2>4, Goes, PhasesNamed
  <2> QED BY <2>2, <2>3, <2>4
<1>6. CASE BackendCrash
  BY <1>0, <1>6, Crashes DEF Asked, Over
<1>7. CASE Aside
  BY <1>7 DEF Aside, Asked
<1> QED BY <1>1, <1>2, <1>3, <1>4, <1>5, <1>6, <1>7, Elsewhere DEF MessagesNext, Work, Connecting

LogType == [Requests -> [Targets -> Statuses]]

(* The log stays a status per recipient.                                    *)
LEMMA LogKept ==
  ASSUME Typed, Counts, [MessagesNext]_messagesVars
  PROVE  log' \in LogType
<1>0. log \in LogType
  BY DEF Typed, LogType
<1>s. {"none", "PENDING", "SENT", "FAILED"} = Statuses
  BY DEF Statuses
<1>1. ASSUME NEW r \in Requests, CreateRow(r) \/ MarkSent(r) \/ MarkFailed(r) PROVE log' \in LogType
  BY <1>0, <1>s, <1>1, Places, RowIsSet DEF CreateRow, MarkSent, MarkFailed, LogType
<1>2. CASE UNCHANGED log
  BY <1>0, <1>2
<1>3. ASSUME NEW r \in Requests, Work(r), ~CreateRow(r), ~MarkSent(r), ~MarkFailed(r)
      PROVE UNCHANGED log
  BY <1>3 DEF Work, Resolve, Load, CreateSession, ListSessions, StoreSession, Post, TimeOut, SessionCall,
     ReconnectStops
<1>4. ASSUME NEW r \in Requests, NEW kind \in Kinds, NEW all \in 0 .. MaxTargets, Receive(r, kind, all)
      PROVE UNCHANGED log
  BY <1>4 DEF Receive
<1>5. ASSUME NEW w \in wire, Deliver(w) PROVE UNCHANGED log
  BY <1>5 DEF Deliver
<1>6. BackendCrash \/ Aside => UNCHANGED log
  BY DEF BackendCrash, Aside
<1> QED BY <1>1, <1>2, <1>3, <1>4, <1>5, <1>6, Elsewhere DEF MessagesNext

(* Types and ranges, whatever the step.                                     *)
LEMMA TypedKept ==
  ASSUME Typed, Addressed, Counts, [MessagesNext]_messagesVars
  PROVE  Typed'
<1>1. /\ req' \in [Requests -> Loose] /\ log' \in LogType /\ gw' \in GwType
  BY CountsKept, LogKept, GatewayKept
<1> DEFINE Rest == /\ school \in [own : Gateways \cup {NoGateway}, session : Ids \cup {NoId}]
                   /\ wire \subseteq Rows \X Gateways \X Ids /\ delivered \subseteq Rows /\ blurred \subseteq Rows
<1>2. Rest
  BY DEF Typed
<1>3. ASSUME NEW r \in Requests, StoreSession(r) PROVE Rest'
  <2>1. req[r].sid \in Ids
    BY <1>3 DEF StoreSession, Addressed
  <2> QED BY <1>2, <1>3, <2>1 DEF StoreSession
<1>4. ASSUME NEW r \in Requests, Post(r) PROVE Rest'
  <2>1. Row(r) \in Rows /\ req[r].gate \in Gateways /\ req[r].sid \in Ids
    BY <1>4, Places DEF Post, Addressed
  <2> QED BY <1>2, <1>4, <2>1 DEF Post
<1>5. ASSUME NEW r \in Requests, TimeOut(r) \/ MarkSent(r) \/ MarkFailed(r) PROVE Rest'
  BY <1>2, <1>5, Places DEF TimeOut, MarkSent, MarkFailed, Blur
<1>6. ASSUME NEW r \in Requests, Work(r), ~StoreSession(r), ~Post(r), ~TimeOut(r), ~MarkSent(r), ~MarkFailed(r)
      PROVE Rest'
  <2>1. UNCHANGED <<school, wire, delivered, blurred>>
    BY <1>6 DEF Work, Resolve, CreateRow, Load, CreateSession, ListSessions, SessionCall, ReconnectStops
  <2> QED BY <1>2, <2>1
<1>7. ASSUME NEW r \in Requests, NEW kind \in Kinds, NEW all \in 0 .. MaxTargets, Receive(r, kind, all)
      PROVE Rest'
  BY <1>2, <1>7 DEF Receive
<1>8. ASSUME NEW w \in wire, Deliver(w) PROVE Rest'
  <2>1. w[1] \in Rows
    BY <1>2
  <2>2. /\ wire' = wire \ {w} /\ delivered' \subseteq delivered \cup {w[1]}
        /\ blurred' \subseteq blurred \cup {w[1]} /\ UNCHANGED school
    BY <1>8 DEF Deliver
  <2> QED BY <1>2, <2>1, <2>2
<1>9. ASSUME NEW g \in Gateways \cup {NoGateway}, SaveGateway(g) PROVE Rest'
  BY <1>2, <1>9 DEF SaveGateway
<1>10. ASSUME ResetSession PROVE Rest'
  <2>1. school' \in [own : Gateways \cup {NoGateway}, session : Ids \cup {NoId}]
    BY <1>2, <1>10 DEF ResetSession
  <2> QED BY <1>2, <1>10, <2>1 DEF ResetSession
<1>11. (BackendCrash \/ UNCHANGED messagesVars \/ \E g \in Gateways : GatewayMoves(g)) => Rest'
  BY <1>2 DEF BackendCrash, messagesVars, GatewayMoves
<1> HIDE DEF Rest
<1>12. Rest'
  BY <1>3, <1>4, <1>5, <1>6, <1>7, <1>8, <1>9, <1>10, <1>11 DEF MessagesNext
<1> QED BY <1>1, <1>12 DEF Typed, GwType, LogType, Rest

(* A request that calls its gateway has one, and the session id it names.   *)
LEMMA AddressedKept ==
  ASSUME Typed, Addressed, Counts, [MessagesNext]_messagesVars
  PROVE  Addressed'
<1> DEFINE Has(q) == /\ q.pc \in {"create", "list", "store", "call", "start"} => q.gate \in Gateways
                     /\ q.pc \in {"store", "call", "start"} => q.sid \in Ids
<1>0. req \in [Requests -> Loose] /\ \A r \in Requests : Has(req[r])
  BY DEF Typed, Addressed
<1>1. \A g \in Gateways : gw'[g].alive => gw'[g].made # 0
  BY GatewayKept
<1> SUFFICES \A r \in Requests : Has(req'[r])
  BY <1>1 DEF Addressed
<1>2. ASSUME NEW r \in Requests, Load(r) PROVE \A s \in Requests : Has(req'[s])
  <2>1. CASE Gateway = NoGateway
    BY <1>0, <1>2, <2>1, Settings, Goes, PhasesNamed DEF Load
  <2>2. CASE Gateway # NoGateway
    <3>1. PICK gate \in Gateways, sid \in Ids \cup {NoId}, step \in {"create", "call"} :
            /\ req' = Loaded(r, gate, sid, step)
            /\ step = "create" \/ sid # NoId
      <4>1. CASE school.session = NoId
        BY <1>2, <2>2, <4>1, Settings DEF Load, Loaded
      <4>2. CASE school.session # NoId
        BY <1>2, <2>2, <4>2, Settings DEF Load, Loaded
      <4> QED BY <4>1, <4>2
    <3>2. /\ \A s \in Requests : s # r => req'[s] = req[s]
          /\ req'[r].gate = gate /\ req'[r].sid = sid /\ req'[r].pc = step
      <4>1. req \in [Requests -> Loose] /\ gate \in Gateways \cup {NoGateway} /\ step \in Phases
        BY Settings, PhasesNamed
      <4> QED BY <3>1, <4>1, Loads
    <3> QED BY <1>0, <3>1, <3>2
  <2> QED BY <2>1, <2>2
<1>3. ASSUME NEW r \in Requests, CreateSession(r) PROVE \A s \in Requests : Has(req'[s])
  <2>1. req[r].gate \in Gateways
    BY <1>3 DEF CreateSession, Addressed
  <2> QED BY <1>0, <1>3, <2>1, Settings, CurrentIsId, Goes, Addresses, PhasesNamed DEF
             CreateSession, Named
<1>4. ASSUME NEW r \in Requests, ListSessions(r) PROVE \A s \in Requests : Has(req'[s])
  <2>1. req[r].gate \in Gateways
    BY <1>4 DEF ListSessions, Addressed
  <2>2. CASE Goto(r, "fail")
    BY <1>0, <2>2, Goes, PhasesNamed
  <2>3. CASE gw[req[r].gate].alive /\ req' = [req EXCEPT ![r].sid = Current(req[r].gate), ![r].pc = "store"]
    <3>1. PICK sid \in Ids : req' = Named(r, sid, "store")
      BY <2>1, <2>3, CurrentIsId DEF Named
    <3>2. /\ \A s \in Requests : s # r => req'[s] = req[s]
          /\ req'[r].gate = req[r].gate /\ req'[r].sid = sid
      BY <3>1, Settings, Addresses, PhasesNamed
    <3> QED BY <1>0, <2>1, <3>1, <3>2
  <2> QED BY <1>4, <2>2, <2>3 DEF ListSessions
<1>5. ASSUME NEW r \in Requests, StoreSession(r) \/ ReconnectStops(r)
      PROVE \A s \in Requests : Has(req'[s])
  BY <1>0, <1>5, Goes, PhasesNamed DEF StoreSession, ReconnectStops
<1>6. ASSUME NEW r \in Requests, SessionCall(r) \/ CreateRow(r) \/ MarkSent(r) \/ MarkFailed(r) \/ Post(r) \/ TimeOut(r)
      PROVE \A s \in Requests : Has(req'[s])
  <2>1. \/ \E step \in {"fail", "load", "wait"} : Goto(r, step)
        \/ \E good \in BOOLEAN : Settle(r, good)
    BY <1>6 DEF SessionCall, CreateRow, MarkSent, MarkFailed, Post, TimeOut
  <2>2. ASSUME NEW good \in BOOLEAN, Settle(r, good) PROVE \A s \in Requests : Has(req'[s])
    BY <1>0, <2>2, Settled
  <2>3. ASSUME NEW step \in {"fail", "load", "wait"}, Goto(r, step) PROVE \A s \in Requests : Has(req'[s])
    BY <1>0, <2>3, Goes, PhasesNamed
  <2> QED BY <2>1, <2>2, <2>3
<1>7. ASSUME NEW r \in Requests, NEW kind \in Kinds, NEW all \in 0 .. MaxTargets, Receive(r, kind, all)
      PROVE \A s \in Requests : Has(req'[s])
  BY <1>0, <1>7, Receives
<1>11. ASSUME NEW r \in Requests, Resolve(r) PROVE \A s \in Requests : Has(req'[s])
  BY <1>0, <1>11, Resolves
<1>8. ASSUME NEW w \in wire, Deliver(w) PROVE \A s \in Requests : Has(req'[s])
  <2>1. w[1][1] \in Requests
    BY DEF Typed, Rows
  <2>2. req' = req \/ Goto(w[1][1], "mark") \/ Goto(w[1][1], "fail")
    BY <1>8 DEF Deliver
  <2> QED BY <1>0, <2>1, <2>2, Goes, PhasesNamed
<1>9. CASE BackendCrash
  BY <1>0, <1>9, Crashes DEF Over
<1>10. CASE Aside
  BY <1>0, <1>10 DEF Aside
<1> QED BY <1>2, <1>3, <1>4, <1>5, <1>6, <1>7, <1>8, <1>9, <1>10, <1>11, Elsewhere DEF MessagesNext, Work

-----------------------------------------------------------------------------
(* What the other steps do, in the same terms.                              *)
Others(r) == \A s \in Requests : s # r => req'[s] = req[s]

Passes(r) ==
  /\ Others(r)
  /\ req'[r].kind = req[r].kind /\ req'[r].asked = req[r].asked /\ req'[r].n = req[r].n
  /\ req[r].at < req[r].n => req'[r].at = req[r].at + 1 /\ req'[r].pc = "row"
  /\ ~(req[r].at < req[r].n) => req'[r].at = req[r].at /\ req'[r].pc = "answered"

Becomes(r, s) ==
  \A p \in Requests, i \in Targets :
    /\ p = r /\ i = req[r].at => log'[p][i] = s
    /\ p # r \/ i # req[r].at => log'[p][i] = log[p][i]

(* A settled recipient is passed by.                                        *)
LEMMA SettlePasses ==
  ASSUME Typed, Counts, NEW r \in Requests, NEW good \in BOOLEAN, Settle(r, good)
  PROVE  Passes(r)
<1>1. req \in [Requests -> Loose]
  BY DEF Typed
<1> QED BY <1>1, Settled DEF Passes, Others

(* A row that is written is the request's own.                              *)
LEMMA RowBecomes ==
  ASSUME Typed, Counts, NEW r \in Requests, NEW s \in {"PENDING", "SENT", "FAILED"}, SetRow(r, s)
  PROVE  Becomes(r, s)
<1>1. log \in [Requests -> [Targets -> Statuses]] /\ req[r].at \in Targets /\ s \in Statuses
  BY Places DEF Typed, Statuses
<1> QED BY <1>1, RowIsSet DEF Becomes

(* A step within one recipient moves the request.                           *)
LEMMA GotoMoves ==
  ASSUME Typed, NEW r \in Requests, NEW step \in {"load", "wait", "mark", "fail"}, Goto(r, step)
  PROVE  Moves(r) /\ req'[r].pc = step
<1>1. req \in [Requests -> Loose] /\ step \in Phases
  BY PhasesNamed DEF Typed
<1> QED BY <1>1, Goes DEF Moves

(* The row is written as PENDING, or the recipient is passed by without     *)
(* one; ...                                                                 *)
LEMMA CreateRowShape ==
  ASSUME Typed, Counts, NEW r \in Requests, CreateRow(r)
  PROVE  /\ req[r].pc = "row" /\ req[r].kind = "send" /\ UNCHANGED <<wire, delivered, blurred>>
         /\ \/ Becomes(r, "PENDING") /\ Moves(r) /\ req'[r].pc = "load"
            \/ Passes(r) /\ UNCHANGED log
<1>1. req[r].pc = "row" /\ req[r].kind = "send" /\ UNCHANGED <<wire, delivered, blurred>>
  BY DEF CreateRow, Counts
<1> QED BY <1>1, RowBecomes, GotoMoves, SettlePasses DEF CreateRow

(* ... the post is put on the wire; ...                                     *)
LEMMA PostShape ==
  ASSUME Typed, NEW r \in Requests, Post(r)
  PROVE  /\ req[r].pc = "call" /\ req[r].kind = "send" /\ UNCHANGED <<log, delivered, blurred>>
         /\ Moves(r) /\ req'[r].pc = "wait" /\ wire' = wire \cup {<<Row(r), req[r].gate, req[r].sid>>}
BY GotoMoves DEF Post

(* ... the answer is given up; ...                                          *)
LEMMA TimeOutShape ==
  ASSUME Typed, NEW r \in Requests, TimeOut(r)
  PROVE  /\ req[r].pc = "wait" /\ UNCHANGED <<log, wire, delivered>>
         /\ Moves(r) /\ req'[r].pc = "fail" /\ blurred' = blurred \cup {Row(r)}
BY GotoMoves DEF TimeOut, Blur

(* ... the row becomes SENT, or its write is lost; ...                      *)
LEMMA MarkSentShape ==
  ASSUME Typed, Counts, NEW r \in Requests, MarkSent(r)
  PROVE  /\ req[r].pc = "mark" /\ UNCHANGED <<wire, delivered>>
         /\ \/ Becomes(r, "SENT") /\ Passes(r) /\ UNCHANGED blurred
            \/ Moves(r) /\ req'[r].pc = "fail" /\ blurred' = blurred \cup {Row(r)} /\ UNCHANGED log
BY RowBecomes, GotoMoves, SettlePasses DEF MarkSent, Blur

(* ... the row becomes FAILED, or its write is lost, and the recipient is   *)
(* passed by; ...                                                           *)
LEMMA MarkFailedShape ==
  ASSUME Typed, Counts, NEW r \in Requests, MarkFailed(r)
  PROVE  /\ req[r].pc = "fail" /\ Passes(r) /\ UNCHANGED <<wire, delivered>>
         /\ \/ req[r].kind # "send" /\ UNCHANGED <<log, blurred>>
            \/ req[r].kind = "send" /\ Becomes(r, "FAILED") /\ UNCHANGED blurred
            \/ req[r].kind = "send" /\ blurred' = blurred \cup {Row(r)} /\ UNCHANGED log
BY RowBecomes, SettlePasses DEF MarkFailed, Blur

(* ... a request that sends nothing is answered; ...                        *)
LEMMA AnswersShape ==
  ASSUME Typed, Counts, NEW r \in Requests, Answers(r)
  PROVE  /\ req[r].pc \in {"call", "start"} /\ req[r].kind # "send" /\ Passes(r)
         /\ UNCHANGED <<log, wire, delivered, blurred>>
BY SettlePasses DEF Answers

(* ... a request comes in; ...                                              *)
LEMMA ReceiveShape ==
  ASSUME Typed, Counts, NEW r \in Requests, NEW kind \in Kinds, NEW all \in 0 .. MaxTargets, Receive(r, kind, all)
  PROVE  /\ req[r].pc = "idle" /\ req[r].kind = "send" /\ req[r].at = 1 /\ Others(r) /\ req'[r].at = 1
         /\ \/ req'[r].kind = "send" /\ req'[r].pc = "resolve"
            \/ req'[r].kind # "send" /\ req'[r].pc = "load"
         /\ UNCHANGED <<log, wire, delivered, blurred>>
<1>1. req[r].pc = "idle" /\ req[r].kind = "send" /\ req[r].at = 1 /\ UNCHANGED <<log, wire, delivered, blurred>>
  BY DEF Receive, Counts
<1>2. req \in [Requests -> Loose]
  BY DEF Typed
<1> QED BY <1>1, <1>2, Receives DEF Others

(* ... its recipients are looked up; ...                                    *)
LEMMA ResolveShape ==
  ASSUME Typed, Counts, NEW r \in Requests, Resolve(r)
  PROVE  /\ req[r].pc = "resolve" /\ req[r].kind = "send" /\ req[r].at = 1 /\ Others(r)
         /\ req'[r].kind = "send" /\ req'[r].at = 1 /\ req'[r].ok = req[r].ok
         /\ req'[r].pc \in {"row", "refused"}
         /\ UNCHANGED <<log, wire, delivered, blurred>>
<1>1. req[r].pc = "resolve" /\ req[r].kind = "send" /\ req[r].at = 1 /\ UNCHANGED <<log, wire, delivered, blurred>>
  BY DEF Resolve, Counts
<1>2. req \in [Requests -> Loose]
  BY DEF Typed
<1> QED BY <1>1, <1>2, Resolves DEF Others

(* ... the gateway takes a post, sends it out or not, and its answer finds  *)
(* the request that waits; ...                                              *)
LEMMA DeliverShape ==
  ASSUME Typed, NEW w \in wire, Deliver(w)
  PROVE  \E r \in Requests, i \in Targets :
           /\ w[1] = <<r, i>> /\ wire' = wire \ {w} /\ UNCHANGED log
           /\ delivered' = delivered \/ delivered' = delivered \cup {w[1]}
           /\ blurred' = blurred \/ blurred' = blurred \cup {w[1]}
           /\ \/ ~(req[r].pc = "wait" /\ req[r].at = i) /\ req' = req
              \/ /\ req[r].pc = "wait" /\ req[r].at = i /\ Moves(r) /\ req'[r].pc \in {"mark", "fail"}
                 /\ req'[r].pc = "mark" => delivered' = delivered \cup {w[1]}
                 /\ req'[r].pc = "fail" => delivered' = delivered \/ w[1] \in blurred'
<1>1. PICK r \in Requests, i \in Targets : w[1] = <<r, i>>
  BY DEF Typed, Rows
<1>2. w[1][1] = r /\ (Row(r) = w[1] <=> req[r].at = i)
  BY <1>1 DEF Row
<1>3. Waiting(w) <=> req[r].pc = "wait" /\ req[r].at = i
  BY <1>1, <1>2 DEF Waiting
<1> QED BY <1>1, <1>2, <1>3, GotoMoves DEF Deliver

(* ... the process ends.                                                    *)
LEMMA CrashShape ==
  ASSUME Typed, BackendCrash
  PROVE  /\ \A r \in Requests :
              /\ req'[r].kind = req[r].kind /\ req'[r].at = req[r].at
              /\ req'[r].pc = IF req[r].pc \in {"idle", "refused", "answered", "lost"} THEN req[r].pc ELSE "lost"
         /\ UNCHANGED <<log, wire, delivered, blurred>>
<1>1. req \in [Requests -> Loose] /\ UNCHANGED <<log, wire, delivered, blurred>>
  BY DEF Typed, BackendCrash
<1> QED BY <1>1, Crashes DEF Over

(* A request's place is within its recipients, at the first before it is    *)
(* taken up.                                                                *)
InTurn ==
  /\ \A r \in Requests :
       /\ req[r].n \in Nat /\ req[r].at \in Nat /\ req[r].at \in Targets
       /\ req[r].at <= req[r].n
       /\ req[r].pc \in {"idle", "resolve", "refused", "wait", "mark", "row"} => req[r].kind = "send"
       /\ req[r].kind # "send" => req[r].at = 1 /\ req[r].n = 1
       /\ req[r].pc \in {"idle", "resolve", "refused"} => req[r].at = 1
  /\ \A i \in Targets : i \in Nat /\ i >= 1

LEMMA EveryInTurn ==
  ASSUME Typed, Counts
  PROVE  InTurn
<1>1. \A i \in Targets : i \in Nat /\ i >= 1
  BY WhatsAppAssumption DEF Targets
<1> QED BY <1>1, Places DEF Counts, InTurn

(* Each row is written by its own request, in its own turn.                 *)
LEMMA RowWrittenKept ==
  ASSUME Typed, Addressed, Counts, RowWritten, [MessagesNext]_messagesVars
  PROVE  RowWritten'
<1>c. InTurn
  BY EveryInTurn
<1>1. ASSUME NEW r \in Requests, Connecting(r), Advances(r) PROVE RowWritten'
  BY <1>c, <1>1 DEF InTurn, Advances, Moves, RowWritten, Begun
<1>2. ASSUME NEW r \in Requests, Connecting(r), Answers(r) PROVE RowWritten'
  BY <1>c, <1>2, AnswersShape DEF InTurn, Passes, Others, RowWritten, Begun
<1>3. ASSUME NEW r \in Requests, CreateRow(r) PROVE RowWritten'
  BY <1>c, <1>3, CreateRowShape DEF InTurn, Moves, Passes, Others, Becomes, RowWritten, Begun
<1>4. ASSUME NEW r \in Requests, Post(r) PROVE RowWritten'
  BY <1>c, <1>4, PostShape DEF InTurn, Moves, RowWritten, Begun
<1>5. ASSUME NEW r \in Requests, TimeOut(r) PROVE RowWritten'
  BY <1>c, <1>5, TimeOutShape DEF InTurn, Moves, RowWritten, Begun
<1>6. ASSUME NEW r \in Requests, MarkSent(r) PROVE RowWritten'
  BY <1>c, <1>6, MarkSentShape DEF InTurn, Moves, Passes, Others, Becomes, RowWritten, Begun
<1>7. ASSUME NEW r \in Requests, MarkFailed(r) PROVE RowWritten'
  BY <1>c, <1>7, MarkFailedShape DEF InTurn, Passes, Others, Becomes, RowWritten, Begun
<1>8. ASSUME NEW r \in Requests, NEW kind \in Kinds, NEW all \in 0 .. MaxTargets, Receive(r, kind, all)
      PROVE RowWritten'
  BY <1>c, <1>8, ReceiveShape DEF InTurn, Others, RowWritten, Begun
<1>12. ASSUME NEW r \in Requests, Resolve(r) PROVE RowWritten'
  BY <1>c, <1>12, ResolveShape DEF InTurn, Others, RowWritten, Begun
<1>9. ASSUME NEW w \in wire, Deliver(w) PROVE RowWritten'
  BY <1>c, <1>9, DeliverShape DEF InTurn, Moves, RowWritten, Begun
<1>10. CASE BackendCrash
  BY <1>c, <1>10, CrashShape DEF InTurn, RowWritten, Begun
<1>11. CASE Aside
  BY <1>c, <1>11 DEF InTurn, Aside, RowWritten, Begun
<1> QED
  BY <1>1, <1>2, <1>3, <1>4, <1>5, <1>6, <1>7, <1>8, <1>9, <1>10, <1>11, <1>12,
     ConnectingShape, Elsewhere DEF MessagesNext, Work, Connecting

(* Only an answer of success leads to the SENT write.                       *)
LEMMA MarkingKept ==
  ASSUME Typed, Addressed, Counts, Marking, OnItsWay, Accounted, [MessagesNext]_messagesVars
  PROVE  Marking'
<1>c. InTurn
  BY EveryInTurn
<1>1. ASSUME NEW r \in Requests, Connecting(r), Advances(r) PROVE Marking'
  BY <1>c, <1>1 DEF InTurn, Advances, Moves, Marking, Row
<1>2. ASSUME NEW r \in Requests, Connecting(r), Answers(r) PROVE Marking'
  BY <1>c, <1>2, AnswersShape DEF InTurn, Passes, Others, Marking, Row
<1>3. ASSUME NEW r \in Requests, CreateRow(r) PROVE Marking'
  BY <1>c, <1>3, CreateRowShape DEF InTurn, Moves, Passes, Others, Becomes, Marking, Row
<1>4. ASSUME NEW r \in Requests, Post(r) PROVE Marking'
  BY <1>c, <1>4, PostShape DEF InTurn, Moves, Marking, Row
<1>5. ASSUME NEW r \in Requests, TimeOut(r) PROVE Marking'
  BY <1>c, <1>5, TimeOutShape DEF InTurn, Moves, Marking, Row
<1>6. ASSUME NEW r \in Requests, MarkSent(r) PROVE Marking'
  BY <1>c, <1>6, MarkSentShape DEF InTurn, Moves, Passes, Others, Becomes, Marking, Row
<1>7. ASSUME NEW r \in Requests, MarkFailed(r) PROVE Marking'
  BY <1>c, <1>7, MarkFailedShape DEF InTurn, Passes, Others, Becomes, Marking, Row
<1>8. ASSUME NEW r \in Requests, NEW kind \in Kinds, NEW all \in 0 .. MaxTargets, Receive(r, kind, all)
      PROVE Marking'
  BY <1>c, <1>8, ReceiveShape DEF InTurn, Others, Marking, Row
<1>12. ASSUME NEW r \in Requests, Resolve(r) PROVE Marking'
  BY <1>c, <1>12, ResolveShape DEF InTurn, Others, Marking, Row
<1>9. ASSUME NEW w \in wire, Deliver(w) PROVE Marking'
  BY <1>c, <1>9, DeliverShape DEF InTurn, Moves, Marking, Row
<1>10. CASE BackendCrash
  BY <1>c, <1>10, CrashShape DEF InTurn, Marking, Row
<1>11. CASE Aside
  BY <1>c, <1>11 DEF InTurn, Aside, Marking, Row
<1> QED
  BY <1>1, <1>2, <1>3, <1>4, <1>5, <1>6, <1>7, <1>8, <1>9, <1>10, <1>11, <1>12,
     ConnectingShape, Elsewhere DEF MessagesNext, Work, Connecting

(* SENT is written after that answer, and nothing sent is taken back.       *)
LEMMA SentIsOutKept ==
  ASSUME Typed, Addressed, Counts, Marking, SentIsOut, [MessagesNext]_messagesVars
  PROVE  SentIsOut'
<1>c. InTurn
  BY EveryInTurn
<1>1. ASSUME NEW r \in Requests, Connecting(r), Advances(r) PROVE SentIsOut'
  BY <1>c, <1>1 DEF InTurn, Advances, Moves, SentIsOut, Marking, Row
<1>2. ASSUME NEW r \in Requests, Connecting(r), Answers(r) PROVE SentIsOut'
  BY <1>c, <1>2, AnswersShape DEF InTurn, Passes, Others, SentIsOut, Marking, Row
<1>3. ASSUME NEW r \in Requests, CreateRow(r) PROVE SentIsOut'
  BY <1>c, <1>3, CreateRowShape DEF InTurn, Moves, Passes, Others, Becomes, SentIsOut, Marking, Row
<1>4. ASSUME NEW r \in Requests, Post(r) PROVE SentIsOut'
  BY <1>c, <1>4, PostShape DEF InTurn, Moves, SentIsOut, Marking, Row
<1>5. ASSUME NEW r \in Requests, TimeOut(r) PROVE SentIsOut'
  BY <1>c, <1>5, TimeOutShape DEF InTurn, Moves, SentIsOut, Marking, Row
<1>6. ASSUME NEW r \in Requests, MarkSent(r) PROVE SentIsOut'
  BY <1>c, <1>6, MarkSentShape DEF InTurn, Moves, Passes, Others, Becomes, SentIsOut, Marking, Row
<1>7. ASSUME NEW r \in Requests, MarkFailed(r) PROVE SentIsOut'
  BY <1>c, <1>7, MarkFailedShape DEF InTurn, Passes, Others, Becomes, SentIsOut, Marking, Row
<1>8. ASSUME NEW r \in Requests, NEW kind \in Kinds, NEW all \in 0 .. MaxTargets, Receive(r, kind, all)
      PROVE SentIsOut'
  BY <1>c, <1>8, ReceiveShape DEF InTurn, Others, SentIsOut, Marking, Row
<1>12. ASSUME NEW r \in Requests, Resolve(r) PROVE SentIsOut'
  BY <1>c, <1>12, ResolveShape DEF InTurn, Others, SentIsOut, Marking, Row
<1>9. ASSUME NEW w \in wire, Deliver(w) PROVE SentIsOut'
  BY <1>c, <1>9, DeliverShape DEF InTurn, Moves, SentIsOut, Marking, Row
<1>10. CASE BackendCrash
  BY <1>c, <1>10, CrashShape DEF InTurn, SentIsOut, Marking, Row
<1>11. CASE Aside
  BY <1>c, <1>11 DEF InTurn, Aside, SentIsOut, Marking, Row
<1> QED
  BY <1>1, <1>2, <1>3, <1>4, <1>5, <1>6, <1>7, <1>8, <1>9, <1>10, <1>11, <1>12,
     ConnectingShape, Elsewhere DEF MessagesNext, Work, Connecting

(* Whoever leaves a PENDING row behind has lost an answer or a write.       *)
LEMMA AtWorkKept ==
  ASSUME Typed, Addressed, Counts, RowWritten, AtWork, [MessagesNext]_messagesVars
  PROVE  AtWork'
<1>c. InTurn
  BY EveryInTurn
<1>1. ASSUME NEW r \in Requests, Connecting(r), Advances(r) PROVE AtWork'
  BY <1>c, <1>1 DEF InTurn, Advances, Moves, AtWork, RowWritten, Begun, Row
<1>2. ASSUME NEW r \in Requests, Connecting(r), Answers(r) PROVE AtWork'
  BY <1>c, <1>2, AnswersShape DEF InTurn, Passes, Others, AtWork, RowWritten, Begun, Row
<1>3. ASSUME NEW r \in Requests, CreateRow(r) PROVE AtWork'
  BY <1>c, <1>3, CreateRowShape DEF InTurn, Moves, Passes, Others, Becomes, AtWork, RowWritten,
     Begun, Row
<1>4. ASSUME NEW r \in Requests, Post(r) PROVE AtWork'
  BY <1>c, <1>4, PostShape DEF InTurn, Moves, AtWork, RowWritten, Begun, Row
<1>5. ASSUME NEW r \in Requests, TimeOut(r) PROVE AtWork'
  BY <1>c, <1>5, TimeOutShape DEF InTurn, Moves, AtWork, RowWritten, Begun, Row
<1>6. ASSUME NEW r \in Requests, MarkSent(r) PROVE AtWork'
  BY <1>c, <1>6, MarkSentShape DEF InTurn, Moves, Passes, Others, Becomes, AtWork, RowWritten,
     Begun, Row
<1>7. ASSUME NEW r \in Requests, MarkFailed(r) PROVE AtWork'
  BY <1>c, <1>7, MarkFailedShape DEF InTurn, Passes, Others, Becomes, AtWork, RowWritten, Begun, Row
<1>8. ASSUME NEW r \in Requests, NEW kind \in Kinds, NEW all \in 0 .. MaxTargets, Receive(r, kind, all)
      PROVE AtWork'
  BY <1>c, <1>8, ReceiveShape DEF InTurn, Others, AtWork, RowWritten, Begun, Row
<1>12. ASSUME NEW r \in Requests, Resolve(r) PROVE AtWork'
  BY <1>c, <1>12, ResolveShape DEF InTurn, Others, AtWork, RowWritten, Begun, Row
<1>9. ASSUME NEW w \in wire, Deliver(w) PROVE AtWork'
  BY <1>c, <1>9, DeliverShape DEF InTurn, Moves, AtWork, RowWritten, Begun, Row
<1>10. CASE BackendCrash
  BY <1>c, <1>10, CrashShape DEF InTurn, AtWork, RowWritten, Begun, Row
<1>11. CASE Aside
  BY <1>c, <1>11 DEF InTurn, Aside, AtWork, RowWritten, Begun, Row
<1> QED
  BY <1>1, <1>2, <1>3, <1>4, <1>5, <1>6, <1>7, <1>8, <1>9, <1>10, <1>11, <1>12,
     ConnectingShape, Elsewhere DEF MessagesNext, Work, Connecting

(* A recipient is posted once: the post is made in its turn, and the turn   *)
(* passes.                                                                  *)
LEMMA OnePostKept ==
  ASSUME Typed, Addressed, Counts, OnItsWay, OnePost, [MessagesNext]_messagesVars
  PROVE  OnePost'
<1>c. InTurn
  BY EveryInTurn
<1>1. ASSUME NEW r \in Requests, Connecting(r), Advances(r) PROVE OnePost'
  BY <1>c, <1>1 DEF InTurn, Advances, Moves, OnePost, OnItsWay, Reached, Fresh, Row
<1>2. ASSUME NEW r \in Requests, Connecting(r), Answers(r) PROVE OnePost'
  BY <1>c, <1>2, AnswersShape DEF InTurn, Passes, Others, OnePost, OnItsWay, Reached, Fresh, Row
<1>3. ASSUME NEW r \in Requests, CreateRow(r) PROVE OnePost'
  BY <1>c, <1>3, CreateRowShape DEF InTurn, Moves, Passes, Others, Becomes, OnePost, OnItsWay,
     Reached, Fresh, Row
<1>4. ASSUME NEW r \in Requests, Post(r) PROVE OnePost'
  BY <1>c, <1>4, PostShape DEF InTurn, Moves, OnePost, OnItsWay, Reached, Fresh, Row
<1>5. ASSUME NEW r \in Requests, TimeOut(r) PROVE OnePost'
  BY <1>c, <1>5, TimeOutShape DEF InTurn, Moves, OnePost, OnItsWay, Reached, Fresh, Row
<1>6. ASSUME NEW r \in Requests, MarkSent(r) PROVE OnePost'
  BY <1>c, <1>6, MarkSentShape DEF InTurn, Moves, Passes, Others, Becomes, OnePost, OnItsWay,
     Reached, Fresh, Row
<1>7. ASSUME NEW r \in Requests, MarkFailed(r) PROVE OnePost'
  BY <1>c, <1>7, MarkFailedShape DEF InTurn, Passes, Others, Becomes, OnePost, OnItsWay, Reached,
     Fresh, Row
<1>8. ASSUME NEW r \in Requests, NEW kind \in Kinds, NEW all \in 0 .. MaxTargets, Receive(r, kind, all)
      PROVE OnePost'
  BY <1>c, <1>8, ReceiveShape DEF InTurn, Others, OnePost, OnItsWay, Reached, Fresh, Row
<1>12. ASSUME NEW r \in Requests, Resolve(r) PROVE OnePost'
  BY <1>c, <1>12, ResolveShape DEF InTurn, Others, OnePost, OnItsWay, Reached, Fresh, Row
<1>9. ASSUME NEW w \in wire, Deliver(w) PROVE OnePost'
  BY <1>c, <1>9, DeliverShape DEF InTurn, Moves, OnePost, OnItsWay, Reached, Fresh, Row
<1>10. CASE BackendCrash
  BY <1>c, <1>10, CrashShape DEF InTurn, OnePost, OnItsWay, Reached, Fresh, Row
<1>11. CASE Aside
  BY <1>c, <1>11 DEF InTurn, Aside, OnePost, OnItsWay, Reached, Fresh, Row
<1> QED
  BY <1>1, <1>2, <1>3, <1>4, <1>5, <1>6, <1>7, <1>8, <1>9, <1>10, <1>11, <1>12,
     ConnectingShape, Elsewhere DEF MessagesNext, Work, Connecting

(* A post on its way is the one waited for, or one given up and noted.      *)
LEMMA OnItsWayKept ==
  ASSUME Typed, Addressed, Counts, OnePost, OnItsWay, [MessagesNext]_messagesVars
  PROVE  OnItsWay'
<1>c. InTurn
  BY EveryInTurn
<1>1. ASSUME NEW r \in Requests, Connecting(r), Advances(r) PROVE OnItsWay'
  BY <1>c, <1>1 DEF InTurn, Advances, Moves, OnePost, OnItsWay, Reached, Fresh, Row
<1>2. ASSUME NEW r \in Requests, Connecting(r), Answers(r) PROVE OnItsWay'
  BY <1>c, <1>2, AnswersShape DEF InTurn, Passes, Others, OnePost, OnItsWay, Reached, Fresh, Row
<1>3. ASSUME NEW r \in Requests, CreateRow(r) PROVE OnItsWay'
  BY <1>c, <1>3, CreateRowShape DEF InTurn, Moves, Passes, Others, Becomes, OnePost, OnItsWay,
     Reached, Fresh, Row
<1>4. ASSUME NEW r \in Requests, Post(r) PROVE OnItsWay'
  BY <1>c, <1>4, PostShape DEF InTurn, Moves, OnePost, OnItsWay, Reached, Fresh, Row
<1>5. ASSUME NEW r \in Requests, TimeOut(r) PROVE OnItsWay'
  BY <1>c, <1>5, TimeOutShape DEF InTurn, Moves, OnePost, OnItsWay, Reached, Fresh, Row
<1>6. ASSUME NEW r \in Requests, MarkSent(r) PROVE OnItsWay'
  BY <1>c, <1>6, MarkSentShape DEF InTurn, Moves, Passes, Others, Becomes, OnePost, OnItsWay,
     Reached, Fresh, Row
<1>7. ASSUME NEW r \in Requests, MarkFailed(r) PROVE OnItsWay'
  BY <1>c, <1>7, MarkFailedShape DEF InTurn, Passes, Others, Becomes, OnePost, OnItsWay, Reached,
     Fresh, Row
<1>8. ASSUME NEW r \in Requests, NEW kind \in Kinds, NEW all \in 0 .. MaxTargets, Receive(r, kind, all)
      PROVE OnItsWay'
  BY <1>c, <1>8, ReceiveShape DEF InTurn, Others, OnePost, OnItsWay, Reached, Fresh, Row
<1>12. ASSUME NEW r \in Requests, Resolve(r) PROVE OnItsWay'
  BY <1>c, <1>12, ResolveShape DEF InTurn, Others, OnePost, OnItsWay, Reached, Fresh, Row
<1>9. ASSUME NEW w \in wire, Deliver(w) PROVE OnItsWay'
  BY <1>c, <1>9, DeliverShape DEF InTurn, Moves, OnePost, OnItsWay, Reached, Fresh, Row
<1>10. CASE BackendCrash
  BY <1>c, <1>10, CrashShape DEF InTurn, OnePost, OnItsWay, Reached, Fresh, Row
<1>11. CASE Aside
  BY <1>c, <1>11 DEF InTurn, Aside, OnePost, OnItsWay, Reached, Fresh, Row
<1> QED
  BY <1>1, <1>2, <1>3, <1>4, <1>5, <1>6, <1>7, <1>8, <1>9, <1>10, <1>11, <1>12,
     ConnectingShape, Elsewhere DEF MessagesNext, Work, Connecting

(* What went out is marked SENT, is about to be, or was given up and noted. *)
LEMMA AccountedKept ==
  ASSUME Typed, Addressed, Counts, RowWritten, OnItsWay, Marking, Accounted, [MessagesNext]_messagesVars
  PROVE  Accounted'
<1>c. InTurn
  BY EveryInTurn
<1>1. ASSUME NEW r \in Requests, Connecting(r), Advances(r) PROVE Accounted'
  BY <1>c, <1>1 DEF InTurn, Advances, Moves, Accounted, RowWritten, Reached, Fresh, Row
<1>2. ASSUME NEW r \in Requests, Connecting(r), Answers(r) PROVE Accounted'
  BY <1>c, <1>2, AnswersShape DEF InTurn, Passes, Others, Accounted, RowWritten, Reached, Fresh, Row
<1>3. ASSUME NEW r \in Requests, CreateRow(r) PROVE Accounted'
  BY <1>c, <1>3, CreateRowShape DEF InTurn, Moves, Passes, Others, Becomes, Accounted, RowWritten,
     Reached, Fresh, Row
<1>4. ASSUME NEW r \in Requests, Post(r) PROVE Accounted'
  BY <1>c, <1>4, PostShape DEF InTurn, Moves, Accounted, RowWritten, Reached, Fresh, Row
<1>5. ASSUME NEW r \in Requests, TimeOut(r) PROVE Accounted'
  BY <1>c, <1>5, TimeOutShape DEF InTurn, Moves, Accounted, RowWritten, Reached, Fresh, Row
<1>6. ASSUME NEW r \in Requests, MarkSent(r) PROVE Accounted'
  BY <1>c, <1>6, MarkSentShape DEF InTurn, Moves, Passes, Others, Becomes, Accounted, RowWritten,
     Reached, Fresh, Row
<1>7. ASSUME NEW r \in Requests, MarkFailed(r) PROVE Accounted'
  BY <1>c, <1>7, MarkFailedShape DEF InTurn, Passes, Others, Becomes, Accounted, RowWritten,
     Reached, Fresh, Row
<1>8. ASSUME NEW r \in Requests, NEW kind \in Kinds, NEW all \in 0 .. MaxTargets, Receive(r, kind, all)
      PROVE Accounted'
  BY <1>c, <1>8, ReceiveShape DEF InTurn, Others, Accounted, RowWritten, Reached, Fresh, Row
<1>12. ASSUME NEW r \in Requests, Resolve(r) PROVE Accounted'
  BY <1>c, <1>12, ResolveShape DEF InTurn, Others, Accounted, RowWritten, Reached, Fresh, Row
<1>9. ASSUME NEW w \in wire, Deliver(w) PROVE Accounted'
  <2>1. PICK r \in Requests, i \in Targets :
           /\ w[1] = <<r, i>> /\ wire' = wire \ {w} /\ UNCHANGED log
           /\ delivered' = delivered \/ delivered' = delivered \cup {w[1]}
           /\ blurred' = blurred \/ blurred' = blurred \cup {w[1]}
           /\ \/ ~(req[r].pc = "wait" /\ req[r].at = i) /\ req' = req
              \/ /\ req[r].pc = "wait" /\ req[r].at = i /\ Moves(r) /\ req'[r].pc \in {"mark", "fail"}
                 /\ req'[r].pc = "mark" => delivered' = delivered \cup {w[1]}
                 /\ req'[r].pc = "fail" => delivered' = delivered \/ w[1] \in blurred'
    BY <1>9, DeliverShape
  <2>2. Reached(r, i) /\ (<<r, i>> \in blurred \/ (req[r].at = i /\ req[r].pc \in {"wait", "lost"}))
    BY <2>1 DEF OnItsWay
  <2>3. \A p \in Requests, j \in Targets : <<p, j>> \in delivered' => <<p, j>> \in delivered \/ (p = r /\ j = i)
    BY <2>1
  <2>4. CASE req' = req /\ ~(req[r].pc = "wait" /\ req[r].at = i)
    BY <2>1, <2>2, <2>3, <2>4 DEF Accounted, Reached
  <2>5. CASE req[r].pc = "wait" /\ req[r].at = i /\ Moves(r) /\ req'[r].pc \in {"mark", "fail"}
    BY <1>c, <2>1, <2>2, <2>3, <2>5 DEF InTurn, Accounted, Reached, Fresh, Moves
  <2> QED BY <2>1, <2>4, <2>5
<1>10. CASE BackendCrash
  BY <1>c, <1>10, CrashShape DEF InTurn, Accounted, RowWritten, Reached, Fresh, Row
<1>11. CASE Aside
  BY <1>c, <1>11 DEF InTurn, Aside, Accounted, RowWritten, Reached, Fresh, Row
<1> QED
  BY <1>1, <1>2, <1>3, <1>4, <1>5, <1>6, <1>7, <1>8, <1>9, <1>10, <1>11, <1>12,
     ConnectingShape, Elsewhere DEF MessagesNext, Work, Connecting

-----------------------------------------------------------------------------
(* The count of the report: a row that becomes SENT is counted, no other.   *)
Sent(r) == {i \in Targets : log[r][i] = "SENT"}

LEMMA SentFinite ==
  ASSUME NEW r \in Requests
  PROVE  IsFiniteSet(Sent(r)) /\ Cardinality(Sent(r)) \in Nat
<1>1. IsFiniteSet(Targets)
  BY WhatsAppAssumption, FS_Interval DEF Targets
<1>2. IsFiniteSet(Sent(r))
  BY <1>1, FS_Subset DEF Sent
<1> QED BY <1>2, FS_CardinalityType

(* A step that changes neither the rows SENT nor the count of the report    *)
(* keeps both alike.                                                        *)
LEMMA SentSame ==
  ASSUME SentCounted,
         \A r \in Requests : Sent(r)' = Sent(r),
         \A r \in Requests : req'[r].kind = "send" => req[r].kind = "send" /\ req'[r].ok = req[r].ok
  PROVE  SentCounted'
BY DEF SentCounted, Sent

(* The count and the SENT row change in one step, and no row becomes SENT   *)
(* twice.                                                                   *)
LEMMA SentCountedKept ==
  ASSUME Typed, Addressed, Counts, RowWritten, SentCounted, [MessagesNext]_messagesVars
  PROVE  SentCounted'
<1>0. req \in [Requests -> Loose] /\ \A r \in Requests : req[r].at \in Targets /\ req[r].ok \in Nat
  BY Places DEF Typed
<1>1. ASSUME NEW r \in Requests, Connecting(r), Advances(r) PROVE SentCounted'
  BY <1>1, SentSame DEF Advances, Moves, Sent
<1>2. ASSUME NEW r \in Requests, Connecting(r), Answers(r) PROVE SentCounted'
  <2>1. Others(r) /\ req'[r].kind = req[r].kind /\ req[r].kind # "send" /\ UNCHANGED log
    BY <1>2, AnswersShape DEF Passes
  <2> QED BY <2>1, SentSame DEF Sent, Others
<1>3. ASSUME NEW r \in Requests, CreateRow(r) PROVE SentCounted'
  <2>1. req'[r].kind = req[r].kind /\ req'[r].ok = req[r].ok /\ Others(r)
    BY <1>0, <1>3, Goes, Settled, PhasesNamed DEF CreateRow, Others
  <2>2. \A p \in Requests : Sent(p)' = Sent(p)
    <3>1. log[r][req[r].at] = "none"
      <4>1. req[r].pc = "row" /\ req[r].at \in Nat
        BY <1>0, <1>3, CreateRowShape DEF Targets, CreateRow
      <4>2. ~Begun(r, req[r].at)
        BY <4>1 DEF Begun
      <4> QED BY <1>0, <4>2 DEF RowWritten
    <3>2. UNCHANGED log \/ Becomes(r, "PENDING")
      BY <1>3, CreateRowShape
    <3> QED BY <1>0, <3>1, <3>2 DEF Becomes, Sent
  <2> QED BY <2>1, <2>2, SentSame DEF Others
<1>4. ASSUME NEW r \in Requests, Post(r) \/ TimeOut(r) PROVE SentCounted'
  BY <1>4, PostShape, TimeOutShape, SentSame DEF Moves, Sent
<1>5. ASSUME NEW r \in Requests, MarkSent(r) PROVE SentCounted'
  <2>1. CASE Goto(r, "fail") /\ UNCHANGED log
    BY <1>0, <2>1, Goes, PhasesNamed, SentSame DEF Sent
  <2>2. CASE SetRow(r, "SENT") /\ Settle(r, TRUE)
    <3>1. req[r].kind = "send" /\ log[r][req[r].at] = "PENDING"
      BY <1>0, <1>5 DEF MarkSent, Counts, RowWritten
    <3>2. req'[r].kind = req[r].kind /\ req'[r].ok = req[r].ok + 1 /\ Others(r)
      BY <1>0, <2>2, Settled DEF Others
    <3>3. Becomes(r, "SENT")
      BY <2>2, RowBecomes
    <3>4. Sent(r)' = Sent(r) \cup {req[r].at} /\ req[r].at \notin Sent(r)
      BY <1>0, <3>1, <3>3 DEF Becomes, Sent
    <3>5. Cardinality(Sent(r)') = Cardinality(Sent(r)) + 1
      BY <3>4, SentFinite, FS_AddElement
    <3>6. \A p \in Requests : p # r => Sent(p)' = Sent(p)
      BY <3>3 DEF Becomes, Sent
    <3>7. SentCounted <=> \A p \in Requests : req[p].kind = "send" => req[p].ok = Cardinality(Sent(p))
      BY DEF SentCounted, Sent
    <3>8. SentCounted' <=> \A p \in Requests : req'[p].kind = "send" => req'[p].ok = Cardinality(Sent(p)')
      BY DEF SentCounted, Sent
    <3> QED BY <3>1, <3>2, <3>5, <3>6, <3>7, <3>8 DEF Others
  <2> QED BY <1>5, <2>1, <2>2 DEF MarkSent
<1>6. ASSUME NEW r \in Requests, MarkFailed(r) PROVE SentCounted'
  <2>1. req'[r].kind = req[r].kind /\ req'[r].ok = req[r].ok /\ Others(r)
    BY <1>0, <1>6, Settled DEF MarkFailed, Others
  <2>2. \A p \in Requests : Sent(p)' = Sent(p)
    <3>1. CASE UNCHANGED log
      BY <3>1 DEF Sent
    <3>2. CASE Becomes(r, "FAILED") /\ req[r].kind = "send"
      <4>1. log[r][req[r].at] = "PENDING"
        BY <1>0, <1>6, <3>2 DEF MarkFailed, RowWritten
      <4> QED BY <1>0, <3>2, <4>1 DEF Becomes, Sent
    <3> QED BY <1>6, <3>1, <3>2, MarkFailedShape
  <2> QED BY <2>1, <2>2, SentSame DEF Others
<1>7. ASSUME NEW r \in Requests, NEW kind \in Kinds, NEW all \in 0 .. MaxTargets, Receive(r, kind, all)
      PROVE SentCounted'
  <2>1. req[r].kind = "send" /\ req'[r].ok = req[r].ok /\ Others(r) /\ UNCHANGED log
    BY <1>0, <1>7, Receives, ReceiveShape
  <2> QED BY <2>1, SentSame DEF Sent, Others
<1>11. ASSUME NEW r \in Requests, Resolve(r) PROVE SentCounted'
  BY <1>11, ResolveShape, SentSame DEF Sent, Others
<1>8. ASSUME NEW w \in wire, Deliver(w) PROVE SentCounted'
  BY <1>8, DeliverShape, SentSame DEF Moves, Sent
<1>9. CASE BackendCrash
  BY <1>0, <1>9, Crashes, CrashShape, SentSame DEF Sent
<1>10. CASE Aside
  BY <1>10, SentSame DEF Aside, Sent
<1> QED
  BY <1>1, <1>2, <1>3, <1>4, <1>5, <1>6, <1>7, <1>8, <1>9, <1>10, <1>11, ConnectingShape, Elsewhere DEF
     MessagesNext, Work, Connecting

-----------------------------------------------------------------------------
MessagesInv ==
  /\ Typed /\ Addressed /\ Counts /\ Asked
  /\ RowWritten /\ OnePost /\ OnItsWay /\ Accounted /\ Marking /\ SentIsOut /\ AtWork
  /\ SentCounted

(* The invariant holds at the start, every step keeps it, ...               *)
LEMMA InitMessagesInv == MessagesInit => MessagesInv
<1> SUFFICES ASSUME MessagesInit PROVE MessagesInv
  OBVIOUS
<1> DEFINE q == [kind |-> "send", pc |-> "idle", asked |-> [all |-> 0, mute |-> 0], n |-> 1, at |-> 1,
                 gate |-> NoGateway, sid |-> NoId, ok |-> 0, bad |-> 0]
<1>1. q \in Loose
  BY WhatsAppAssumption DEF Loose, Kinds, Phases
<1>2. q.kind = "send" /\ q.pc = "idle" /\ q.n = 1 /\ q.at = 1 /\ q.ok = 0 /\ q.bad = 0
  OBVIOUS
<1>3. req = [r \in Requests |-> q]
  BY DEF MessagesInit
<1> HIDE DEF q
<1>4. \A r \in Requests : req[r] = q
  BY <1>3
<1>5. 1 \in Targets /\ 0 \in 0 .. MaxSessions
  BY WhatsAppAssumption DEF Targets
<1>6. \A r \in Requests, i \in Targets : log[r][i] = "none"
  BY DEF MessagesInit
<1>7. Typed
  <2>1. log \in [Requests -> [Targets -> Statuses]]
    BY DEF MessagesInit, Statuses
  <2>2. gw \in [Gateways -> [made : 0 .. MaxSessions, alive : BOOLEAN, on : BOOLEAN]]
    BY <1>5 DEF MessagesInit
  <2>3. req \in [Requests -> Loose]
    BY <1>1, <1>3
  <2>4. school \in [own : Gateways \cup {NoGateway}, session : Ids \cup {NoId}]
    BY DEF MessagesInit
  <2> QED BY <2>1, <2>2, <2>3, <2>4 DEF Typed, MessagesInit
<1>8. Addressed
  BY <1>2, <1>4 DEF Addressed, MessagesInit
<1>9. Counts /\ Asked
  BY <1>2, <1>4, <1>5 DEF Counts, Asked
<1>10. RowWritten /\ Marking /\ SentIsOut /\ AtWork
  BY <1>2, <1>4, <1>6 DEF RowWritten, Marking, SentIsOut, AtWork
<1>11. OnePost /\ OnItsWay /\ Accounted
  BY DEF MessagesInit, OnePost, OnItsWay, Accounted
<1>12. SentCounted
  <2>1. \A r \in Requests : {i \in Targets : log[r][i] = "SENT"} = {}
    BY <1>6
  <2> QED BY <1>2, <1>4, <2>1, FS_EmptySet DEF SentCounted
<1> QED BY <1>7, <1>8, <1>9, <1>10, <1>11, <1>12 DEF MessagesInv

(* ... and so it holds throughout.                                          *)
LEMMA NextMessagesInv == MessagesInv /\ [MessagesNext]_messagesVars => MessagesInv'
BY TypedKept, AddressedKept, CountsKept, AskedKept, RowWrittenKept, OnePostKept, OnItsWayKept,
   AccountedKept, MarkingKept,
   SentIsOutKept, AtWorkKept, SentCountedKept DEF MessagesInv

LEMMA MessagesInvariance == MessagesSpec => []MessagesInv
BY InitMessagesInv, NextMessagesInv, PTL DEF MessagesSpec

(* Every variable of the message model keeps its type: the counters of a    *)
(* report stay within the recipients, the session id is one a gateway gave. *)
THEOREM MessagesTyped == MessagesSpec => []MessagesTypeOK
<1>1. MessagesInv => MessagesTypeOK
  <2> SUFFICES ASSUME MessagesInv PROVE MessagesTypeOK
    OBVIOUS
  <2>1. req \in [Requests -> Request]
    <3>1. ASSUME NEW r \in Requests PROVE req[r] \in Request
      <4>1. req[r] \in Loose /\ req[r].n \in Targets /\ req[r].at \in Targets /\ req[r].ok \in Nat /\ req[r].bad \in Nat
        BY Places DEF MessagesInv, Counts
      <4>2. req[r].ok + req[r].bad <= req[r].n
        BY <4>1, WhatsAppAssumption DEF MessagesInv, Counts, Targets
      <4>3. req[r].ok \in 0 .. MaxTargets /\ req[r].bad \in 0 .. MaxTargets
        BY <4>1, <4>2, WhatsAppAssumption DEF Targets
      <4> QED BY <4>1, <4>3 DEF Loose, Request
    <3> QED BY <3>1 DEF MessagesInv, Typed
  <2> QED BY <2>1 DEF MessagesInv, Typed, MessagesTypeOK, Statuses
<1> QED BY <1>1, MessagesInvariance, PTL

(* A message whose row says SENT went out, one whose row says FAILED did    *)
(* not and one whose row says PENDING is still at work, unless an answer or *)
(* a status write of it was lost, or the gateway answered with an error for *)
(* a message that had gone out.                                             *)
THEOREM LogIsNeverWrong == MessagesSpec => []LogIsTrue
<1>1. MessagesInv => LogIsTrue
  BY DEF MessagesInv, LogIsTrue, SentIsOut, AtWork, Accounted, RowWritten, Counts
<1> QED BY <1>1, MessagesInvariance, PTL

(* A finished announcement reports as many sent as it has rows SENT; sent,  *)
(* failed and those it left out for want of a number make up the selected   *)
(* ones.                                                                    *)
THEOREM ReportsAddUp == MessagesSpec => []ReportCounts
<1>1. MessagesInv => ReportCounts
  <2> SUFFICES ASSUME MessagesInv, NEW r \in Requests
               PROVE  /\ req[r].pc = "answered" /\ req[r].kind = "send" =>
                           /\ \/ req[r].ok + req[r].bad + req[r].asked.mute = req[r].asked.all
                              \/ req[r].ok + req[r].bad = 1 /\ req[r].asked.mute = req[r].asked.all
                           /\ req[r].ok = Cardinality({i \in Targets : log[r][i] = "SENT"})
                      /\ req[r].pc = "refused" => \A i \in Targets : log[r][i] = "none"
    BY DEF ReportCounts
  <2>1. req[r].pc = "answered" /\ req[r].kind = "send" =>
           req[r].ok = Cardinality({i \in Targets : log[r][i] = "SENT"})
    BY DEF MessagesInv, SentCounted
  <2>2. ASSUME req[r].pc = "answered", req[r].kind = "send"
        PROVE  \/ req[r].ok + req[r].bad + req[r].asked.mute = req[r].asked.all
               \/ req[r].ok + req[r].bad = 1 /\ req[r].asked.mute = req[r].asked.all
    <3>1. req[r].ok + req[r].bad = req[r].n
      BY <2>2 DEF MessagesInv, Counts
    <3> QED BY <2>2, <3>1 DEF MessagesInv, Asked
  <2>3. ASSUME req[r].pc = "refused", NEW i \in Targets PROVE log[r][i] = "none"
    <3>1. InTurn
      BY EveryInTurn DEF MessagesInv
    <3>2. ~Begun(r, i)
      BY <2>3, <3>1 DEF InTurn, Begun
    <3> QED BY <3>2 DEF MessagesInv, RowWritten
  <2> QED BY <2>1, <2>2, <2>3
<1> QED BY <1>1, MessagesInvariance, PTL

-----------------------------------------------------------------------------
(* The desktop: DesktopInstall and DesktopShell.                             *)

(* The types of shell, launcher and services.                                *)
ProcessTypes ==
  /\ window \in {"closed", "open", "closing"}
  /\ pc \in Starting \cup {"idle", "ready", "failed"}
  /\ launcher \in LauncherStates
  /\ own \in [Services -> OwnStates]
  /\ orphan \in [Services -> SUBSET OrphanStates]
  /\ foreign \subseteq Services /\ pidfile \subseteq Services
  /\ unnamed \subseteq Services

(* The inductive invariant: an unpacking belongs to a start, a start to a    *)
(* window, ...                                                               *)
Unpacking == pc \notin {"layout", "runtime"} => ipc = "idle"
Windowed == window = "closed" => pc = "idle"

(* ... only what is incomplete is removed, ...                               *)
RemovesBroken == ipc = "remove" => ~Complete(app)

(* ... from CopyAside to Restore the copy is whole, and before and after it  *)
(* the folder is, ...                                                        *)
SessionsHeld ==
  held /\ ~gap =>
    /\ ipc \in Tools \cup {"remove", "js", "restore"} => backup = "whole"
    /\ ipc \notin {"js", "restore"} => sessions = "whole"

(* ... a launcher's services come one after the other, each named by the     *)
(* file as far as it has got, and an earlier launcher's name is written over *)
(* only when a stop has missed it.                                           *)
Tracked ==
  /\ launcher \notin {"wait", "bridge", "bridged", "serve"} => \A s \in Services : own[s] = "none"
  /\ launcher \notin {"bridged", "serve"} => own["openwa"] = "none"
  /\ launcher \in {"bridge", "bridged", "serve"} => Core \subseteq pidfile
  /\ launcher = "serve" /\ own["openwa"] # "none" => "openwa" \in pidfile
  /\ launcher # "dead" => \A s \in Services : "known" \in orphan[s] => s \in unnamed

DesktopInv ==
  /\ ShellTypeOK /\ Unpacking /\ Windowed /\ RemovesBroken /\ SessionsHeld /\ Tracked
  /\ StopFindsAll

(* What an unpacking or a removal leaves of an application.                  *)
LEMMA AppTyped ==
  ASSUME NEW a \in [core : 0 .. Versions, rest : 0 .. Versions], NEW v \in Payloads
  PROVE  /\ Unpacked(a, v) \subseteq [core : 0 .. Versions, rest : 0 .. Versions]
         /\ Unpacked(Nothing, v) \subseteq [core : 0 .. Versions, rest : 0 .. Versions]
         /\ Remains(a) \subseteq [core : 0 .. Versions, rest : 0 .. Versions]
         /\ Nothing \in [core : 0 .. Versions, rest : 0 .. Versions]
BY DesktopInstallAssumption DEF Unpacked, Remains, Nothing, Payloads

(* Every step keeps the types of the installation, ...                       *)
LEMMA InstallTypesKept ==
  ASSUME InstallTypeOK, [ShellNext]_desktopVars
  PROVE  InstallTypeOK'
<1>t. /\ app \in [core : 0 .. Versions, rest : 0 .. Versions] /\ shipped \in Payloads
      /\ [core |-> shipped, rest |-> shipped] \in [core : 0 .. Versions, rest : 0 ..
          Versions]
      /\ shipped < Versions => shipped + 1 \in Payloads
      /\ Payloads \subseteq 0 .. Versions /\ 0 \in 0 .. Versions
  BY DesktopInstallAssumption DEF InstallTypeOK, Payloads
<1>1. CASE OpenWindow
  BY <1>t, <1>1 DEF OpenWindow, files, installVars, InstallTypeOK
<1>2. CASE StartServices
  BY <1>t, <1>2 DEF StartServices, files, InstallTypeOK, Steps
<1>3. ASSUME InstallRuns PROVE InstallTypeOK'
  <2>1. CASE Begin
    BY <1>t, <1>3, <2>1 DEF Begin, InstallTypeOK, Folders, Steps
  <2>2. CASE CopyAside
    BY <1>t, <1>3, <2>2 DEF CopyAside, InstallTypeOK, Tools, Steps
  <2>3. CASE RunTool
    BY <1>t, AppTyped, <1>3, <2>3 DEF RunTool, InstallTypeOK, Folders, Tools, Steps,
        NextTool
  <2>4. CASE RemoveApp
    BY <1>t, AppTyped, <1>3, <2>4 DEF RemoveApp, InstallTypeOK, Folders, Steps
  <2>5. CASE UnpackFiles
    BY <1>t, AppTyped, <1>3, <2>5 DEF UnpackFiles, InstallTypeOK, Steps
  <2>6. CASE Restore
    BY <1>t, <1>3, <2>6 DEF Restore, InstallTypeOK, Folders, Steps
  <2>7. CASE Finish
    BY <1>t, <1>3, <2>7 DEF Finish, InstallTypeOK, Steps
  <2> QED BY <1>3, <2>1, <2>2, <2>3, <2>4, <2>5, <2>6, <2>7 DEF InstallRuns, InstallStep
<1>4. CASE InstallReturns
  BY <1>t, <1>4 DEF InstallReturns, files, InstallTypeOK, Steps
<1>5. CASE SpawnLauncher
  BY <1>t, <1>5 DEF SpawnLauncher, files, installVars, InstallTypeOK
<1>6. CASE WaitBackend
  BY <1>t, <1>6 DEF WaitBackend, files, installVars, InstallTypeOK
<1>7. CASE WaitFrontend
  BY <1>t, <1>7 DEF WaitFrontend, files, installVars, InstallTypeOK
<1>8. CASE Close
  BY <1>t, <1>8 DEF Close, files, installVars, InstallTypeOK
<1>9. CASE Quit
  BY <1>t, AppTyped, <1>9 DEF Quit, Interrupted, InstallTypeOK, Folders, Steps
<1>10. CASE PowerLoss
  BY <1>t, AppTyped, <1>10 DEF PowerLoss, Interrupted, InstallTypeOK, Folders, Steps
<1>11. CASE Preflight
  BY <1>t, <1>11 DEF Preflight, files, installVars, InstallTypeOK
<1>12. CASE FreePorts
  BY <1>t, <1>12 DEF FreePorts, files, installVars, InstallTypeOK
<1>13. CASE Schema
  BY <1>t, <1>13 DEF Schema, files, installVars, InstallTypeOK
<1>14. CASE StartCore
  BY <1>t, <1>14 DEF StartCore, files, installVars, InstallTypeOK
<1>15. CASE NameCore
  BY <1>t, <1>15 DEF NameCore, files, installVars, InstallTypeOK
<1>23. CASE StartBridge
  BY <1>t, <1>23 DEF StartBridge, files, installVars, InstallTypeOK
<1>24. CASE NameBridge
  BY <1>t, <1>24 DEF NameBridge, files, installVars, InstallTypeOK
<1>16. CASE LauncherFails
  BY <1>t, <1>16 DEF LauncherFails, LauncherEnds, files, installVars, InstallTypeOK
<1>17. ASSUME NEW s \in Services, ServiceBoots(s) PROVE InstallTypeOK'
  BY <1>t, <1>17 DEF ServiceBoots, files, installVars, InstallTypeOK
<1>18. ASSUME NEW s \in Services, ServiceExits(s) PROVE InstallTypeOK'
  BY <1>t, <1>18 DEF ServiceExits, Alive, files, installVars, InstallTypeOK
<1>19. ASSUME NEW s \in Services, ForeignMoves(s) PROVE InstallTypeOK'
  BY <1>t, <1>19 DEF ForeignMoves, files, installVars, InstallTypeOK
<1>20. CASE Installer
  BY <1>t, AppTyped, <1>20 DEF Installer, Install, InstallTypeOK, Folders
<1>21. CASE BridgeRecords
  BY <1>t, <1>21 DEF BridgeRecords, Record, InstallTypeOK
<1>22. CASE UNCHANGED desktopVars
  BY <1>t, <1>22 DEF desktopVars, files, installVars, InstallTypeOK
<1> QED
  BY <1>1, <1>2, <1>3, <1>4, <1>5, <1>6, <1>7, <1>8, <1>9, <1>10, <1>11, <1>12, <1>13,
      <1>14, <1>15, <1>16, <1>17, <1>18, <1>19, <1>20, <1>21, <1>22, <1>23, <1>24
      DEF ShellNext,
      Shell, Launcher

(* What a cleanup leaves of the processes.                                   *)
LEMMA CleanupTyped ==
  ASSUME ProcessTypes, NEW next \in {"none", "preflight"}, Cleanup(next)
  PROVE  /\ launcher' \in LauncherStates /\ own' \in [Services -> OwnStates]
         /\ orphan' \in [Services -> SUBSET OrphanStates]
         /\ foreign' \subseteq Services /\ pidfile' \subseteq Services
         /\ unnamed' \subseteq Services
<1>1. launcher' \in LauncherStates /\ own' \in [Services -> OwnStates] /\ pidfile' = {}
      /\ (unnamed \subseteq Services => unnamed' \subseteq Services)
  BY DEF Cleanup, LauncherStates, OwnStates
<1>2. CASE Complete(app)
  <2>1. StopScript
    BY <1>2 DEF Cleanup
  <2>2. orphan' \in [Services -> SUBSET OrphanStates] /\ foreign' \subseteq Services
    BY <2>1 DEF StopScript, ProcessTypes
  <2> QED BY <1>1, <2>2 DEF ProcessTypes
<1>3. CASE ~Complete(app)
  BY <1>1, <1>3 DEF ProcessTypes, Cleanup
<1> QED BY <1>2, <1>3

(* ... and of the processes.                                                 *)
LEMMA ProcessTypesKept ==
  ASSUME ProcessTypes, [ShellNext]_desktopVars
  PROVE  ProcessTypes'
<1>1. CASE OpenWindow
  BY <1>1 DEF OpenWindow, procs, ProcessTypes
<1>2. CASE StartServices
  BY <1>2 DEF StartServices, procs, ProcessTypes, Starting
<1>3. ASSUME InstallRuns PROVE ProcessTypes'
  <2>1. CASE Begin
    BY <1>3, <2>1 DEF InstallRuns, Begin, shellVars, procs, ProcessTypes
  <2>2. CASE CopyAside
    BY <1>3, <2>2 DEF InstallRuns, CopyAside, shellVars, procs, ProcessTypes
  <2>3. CASE RunTool
    BY <1>3, <2>3 DEF InstallRuns, RunTool, shellVars, procs, ProcessTypes
  <2>4. CASE RemoveApp
    BY <1>3, <2>4 DEF InstallRuns, RemoveApp, shellVars, procs, ProcessTypes
  <2>5. CASE UnpackFiles
    BY <1>3, <2>5 DEF InstallRuns, UnpackFiles, shellVars, procs, ProcessTypes
  <2>6. CASE Restore
    BY <1>3, <2>6 DEF InstallRuns, Restore, shellVars, procs, ProcessTypes
  <2>7. CASE Finish
    BY <1>3, <2>7 DEF InstallRuns, Finish, shellVars, procs, ProcessTypes
  <2> QED BY <1>3, <2>1, <2>2, <2>3, <2>4, <2>5, <2>6, <2>7 DEF InstallRuns, InstallStep
<1>4. CASE InstallReturns
  BY <1>4 DEF InstallReturns, procs, ProcessTypes, Starting
<1>5. CASE SpawnLauncher
  BY <1>5, CleanupTyped DEF SpawnLauncher, ProcessTypes, Starting
<1>6. CASE WaitBackend
  BY <1>6 DEF WaitBackend, procs, ProcessTypes, Starting
<1>7. CASE WaitFrontend
  BY <1>7 DEF WaitFrontend, procs, ProcessTypes
<1>8. CASE Close
  BY <1>8, CleanupTyped DEF Close, ProcessTypes
<1>9. CASE Quit
  BY <1>9, CleanupTyped DEF Quit, ProcessTypes
<1>10. CASE PowerLoss
  BY <1>10 DEF PowerLoss, ProcessTypes, LauncherStates, OwnStates
<1>11. CASE Preflight
  BY <1>11 DEF Preflight, shellVars, ProcessTypes, LauncherStates
<1>12. CASE FreePorts
  BY <1>12 DEF FreePorts, shellVars, ProcessTypes, LauncherStates
<1>13. CASE Schema
  BY <1>13 DEF Schema, shellVars, ProcessTypes, LauncherStates
<1>14. CASE StartCore
  BY <1>14 DEF StartCore, shellVars, ProcessTypes, LauncherStates, OwnStates
<1>15. CASE NameCore
  BY <1>15 DEF NameCore, shellVars, ProcessTypes, LauncherStates, OrphanStates, Services,
      Core
<1>23. CASE StartBridge
  BY <1>23 DEF StartBridge, shellVars, ProcessTypes, LauncherStates, OwnStates, Services
<1>24. CASE NameBridge
  BY <1>24 DEF NameBridge, shellVars, ProcessTypes, LauncherStates, Services, Core
<1>16. CASE LauncherFails
  <2>1. unnamed' \subseteq Services
    BY <1>16 DEF LauncherFails, LauncherEnds, ToName, Core, Services, ProcessTypes
  <2> QED
    BY <1>16, <2>1 DEF LauncherFails, LauncherEnds, shellVars, ProcessTypes, LauncherStates,
        OwnStates, OrphanStates
<1>17. ASSUME NEW s \in Services, ServiceBoots(s) PROVE ProcessTypes'
  BY <1>17 DEF ServiceBoots, shellVars, ProcessTypes, OwnStates, OrphanStates, Services
<1>18. ASSUME NEW s \in Services, ServiceExits(s) PROVE ProcessTypes'
  BY <1>18 DEF ServiceExits, Alive, shellVars, ProcessTypes, OwnStates, Services
<1>19. ASSUME NEW s \in Services, ForeignMoves(s) PROVE ProcessTypes'
  BY <1>19 DEF ForeignMoves, shellVars, ProcessTypes, Services
<1>20. CASE Installer
  BY <1>20 DEF Installer, Install, shellVars, procs, ProcessTypes
<1>21. CASE BridgeRecords
  BY <1>21 DEF BridgeRecords, Record, shellVars, procs, ProcessTypes
<1>22. CASE UNCHANGED desktopVars
  BY <1>22 DEF desktopVars, shellVars, procs, ProcessTypes
<1> QED
  BY <1>1, <1>2, <1>3, <1>4, <1>5, <1>6, <1>7, <1>8, <1>9, <1>10, <1>11, <1>12, <1>13,
      <1>14, <1>15, <1>16, <1>17, <1>18, <1>19, <1>20, <1>21, <1>22, <1>23, <1>24
      DEF ShellNext,
      Shell, Launcher

(* A start unpacks within a window, removes what is incomplete, and has the  *)
(* copy of the sessions whole while the folder is not.                       *)
LEMMA UnpackingKept ==
  ASSUME ShellTypeOK, Unpacking, Windowed, RemovesBroken, SessionsHeld,
      [ShellNext]_desktopVars
  PROVE  Unpacking' /\ Windowed' /\ RemovesBroken' /\ SessionsHeld'
<1> DEFINE Goal == Unpacking' /\ Windowed' /\ RemovesBroken' /\ SessionsHeld'
<1> SUFFICES Goal OBVIOUS
<1>1. CASE OpenWindow
  BY <1>1 DEF OpenWindow, files, installVars, Unpacking, Windowed, RemovesBroken,
      SessionsHeld
<1>2. CASE StartServices
  BY <1>2 DEF StartServices, files, Unpacking, Windowed, RemovesBroken, SessionsHeld,
      Tools
<1>3. ASSUME InstallRuns PROVE Goal
  <2>1. CASE Begin
    BY <1>3, <2>1 DEF InstallRuns, Begin, shellVars, Unpacking, Windowed, RemovesBroken,
        SessionsHeld, Tools
  <2>2. CASE CopyAside
    BY <1>3, <2>2 DEF InstallRuns, CopyAside, shellVars, Unpacking, Windowed,
        RemovesBroken, SessionsHeld
  <2>3. CASE RunTool
    BY <1>3, <2>3 DEF InstallRuns, RunTool, shellVars, Unpacking, Windowed,
        RemovesBroken, SessionsHeld, Tools
  <2>4. CASE RemoveApp
    BY <1>3, <2>4 DEF InstallRuns, RemoveApp, shellVars, Unpacking, Windowed,
        RemovesBroken, SessionsHeld
  <2>5. CASE UnpackFiles
    BY <1>3, <2>5 DEF InstallRuns, UnpackFiles, shellVars, Unpacking, Windowed,
        RemovesBroken, SessionsHeld
  <2>6. CASE Restore
    BY <1>3, <2>6 DEF InstallRuns, Restore, shellVars, Unpacking, Windowed,
        RemovesBroken, SessionsHeld, Tools
  <2>7. CASE Finish
    BY <1>3, <2>7 DEF InstallRuns, Finish, shellVars, Unpacking, Windowed,
        RemovesBroken, SessionsHeld, Tools
  <2> QED BY <1>3, <2>1, <2>2, <2>3, <2>4, <2>5, <2>6, <2>7 DEF InstallRuns, InstallStep
<1>4. CASE InstallReturns
  BY <1>4 DEF InstallReturns, files, Unpacking, Windowed, RemovesBroken, SessionsHeld,
      Tools
<1>5. CASE SpawnLauncher
  BY <1>5 DEF SpawnLauncher, files, installVars, Unpacking, Windowed, RemovesBroken,
      SessionsHeld
<1>6. CASE WaitBackend
  BY <1>6 DEF WaitBackend, files, installVars, Unpacking, Windowed, RemovesBroken,
      SessionsHeld
<1>7. CASE WaitFrontend
  BY <1>7 DEF WaitFrontend, files, installVars, Unpacking, Windowed, RemovesBroken,
      SessionsHeld
<1>8. CASE Close
  BY <1>8 DEF Close, files, installVars, Unpacking, Windowed, RemovesBroken, SessionsHeld
<1>9. CASE Quit
  BY <1>9 DEF Quit, Interrupted, Unpacking, Windowed, RemovesBroken, SessionsHeld, Tools
<1>10. CASE PowerLoss
  BY <1>10 DEF PowerLoss, Interrupted, Unpacking, Windowed, RemovesBroken, SessionsHeld,
      Tools
<1>11. CASE Preflight
  BY <1>11 DEF Preflight, files, installVars, shellVars, Unpacking, Windowed,
      RemovesBroken, SessionsHeld
<1>12. CASE FreePorts
  BY <1>12 DEF FreePorts, files, installVars, shellVars, Unpacking, Windowed,
      RemovesBroken, SessionsHeld
<1>13. CASE Schema
  BY <1>13 DEF Schema, files, installVars, shellVars, Unpacking, Windowed,
      RemovesBroken, SessionsHeld
<1>14. CASE StartCore
  BY <1>14 DEF StartCore, files, installVars, shellVars, Unpacking, Windowed,
      RemovesBroken, SessionsHeld
<1>15. CASE NameCore
  BY <1>15 DEF NameCore, files, installVars, shellVars, Unpacking, Windowed, RemovesBroken,
      SessionsHeld
<1>23. CASE StartBridge
  BY <1>23 DEF StartBridge, files, installVars, shellVars, Unpacking, Windowed, RemovesBroken,
      SessionsHeld
<1>24. CASE NameBridge
  BY <1>24 DEF NameBridge, files, installVars, shellVars, Unpacking, Windowed, RemovesBroken,
      SessionsHeld
<1>16. CASE LauncherFails
  BY <1>16 DEF LauncherFails, LauncherEnds, files, installVars, shellVars, Unpacking,
      Windowed, RemovesBroken, SessionsHeld
<1>17. ASSUME NEW s \in Services, ServiceBoots(s) PROVE Goal
  BY <1>17 DEF ServiceBoots, files, installVars, shellVars, Unpacking, Windowed,
      RemovesBroken, SessionsHeld
<1>18. ASSUME NEW s \in Services, ServiceExits(s) PROVE Goal
  BY <1>18 DEF ServiceExits, Alive, files, installVars, shellVars, Unpacking, Windowed,
      RemovesBroken, SessionsHeld
<1>19. ASSUME NEW s \in Services, ForeignMoves(s) PROVE Goal
  BY <1>19 DEF ForeignMoves, files, installVars, shellVars, Unpacking, Windowed,
      RemovesBroken, SessionsHeld
<1>20. CASE Installer
  BY <1>20 DEF Installer, Install, shellVars, Unpacking, Windowed, RemovesBroken,
      SessionsHeld
<1>21. CASE BridgeRecords
  BY <1>21 DEF BridgeRecords, Record, shellVars, Unpacking, Windowed, RemovesBroken,
      SessionsHeld
<1>22. CASE UNCHANGED desktopVars
  BY <1>22 DEF desktopVars, files, installVars, shellVars, Unpacking, Windowed,
      RemovesBroken, SessionsHeld
<1> QED
  BY <1>1, <1>2, <1>3, <1>4, <1>5, <1>6, <1>7, <1>8, <1>9, <1>10, <1>11, <1>12, <1>13,
      <1>14, <1>15, <1>16, <1>17, <1>18, <1>19, <1>20, <1>21, <1>22, <1>23, <1>24
      DEF ShellNext,
      Shell, Launcher

(* A stop takes launcher and names away; what it missed is on record.        *)
LEMMA CleanupTracked ==
  ASSUME ShellTypeOK, StopFindsAll, NEW next \in {"none", "preflight"}, Cleanup(next)
  PROVE  Tracked' /\ StopFindsAll'
<1>1. \A s \in Services : orphan'[s] \subseteq orphan[s]
  <2>1. CASE Complete(app)
    BY <2>1 DEF Cleanup, StopScript, ShellTypeOK
  <2>2. CASE ~Complete(app)
    BY <2>2 DEF Cleanup
  <2> QED BY <2>1, <2>2
<1>2. /\ launcher' = next /\ \A s \in Services : own'[s] = "none"
      /\ unnamed \subseteq unnamed'
      /\ \A s \in Services : "known" \in orphan'[s] => s \in unnamed'
  BY DEF Cleanup
<1>3. Tracked'
  BY <1>2 DEF Tracked, Services
<1>4. StopFindsAll'
  BY <1>1, <1>2 DEF StopFindsAll
<1> QED BY <1>3, <1>4

(* A launcher's children are named as it goes on; one that it leaves booting *)
(* and unnamed it had still to name.                                         *)
LEMMA StopFindsAllKept ==
  ASSUME ShellTypeOK, Tracked, StopFindsAll, [ShellNext]_desktopVars
  PROVE  Tracked' /\ StopFindsAll'
<1> DEFINE Goal == Tracked' /\ StopFindsAll'
<1> SUFFICES Goal OBVIOUS
<1>1. CASE OpenWindow
  BY <1>1 DEF OpenWindow, procs, Tracked, StopFindsAll
<1>2. CASE StartServices
  BY <1>2 DEF StartServices, procs, Tracked, StopFindsAll
<1>3. ASSUME InstallRuns PROVE Goal
  <2>1. CASE Begin
    BY <1>3, <2>1 DEF InstallRuns, Begin, procs, Tracked, StopFindsAll
  <2>2. CASE CopyAside
    BY <1>3, <2>2 DEF InstallRuns, CopyAside, procs, Tracked, StopFindsAll
  <2>3. CASE RunTool
    BY <1>3, <2>3 DEF InstallRuns, RunTool, procs, Tracked, StopFindsAll
  <2>4. CASE RemoveApp
    BY <1>3, <2>4 DEF InstallRuns, RemoveApp, procs, Tracked, StopFindsAll
  <2>5. CASE UnpackFiles
    BY <1>3, <2>5 DEF InstallRuns, UnpackFiles, procs, Tracked, StopFindsAll
  <2>6. CASE Restore
    BY <1>3, <2>6 DEF InstallRuns, Restore, procs, Tracked, StopFindsAll
  <2>7. CASE Finish
    BY <1>3, <2>7 DEF InstallRuns, Finish, procs, Tracked, StopFindsAll
  <2> QED BY <1>3, <2>1, <2>2, <2>3, <2>4, <2>5, <2>6, <2>7 DEF InstallRuns, InstallStep
<1>4. CASE InstallReturns
  BY <1>4 DEF InstallReturns, procs, Tracked, StopFindsAll
<1>5. CASE SpawnLauncher
  BY <1>5, CleanupTracked DEF SpawnLauncher
<1>6. CASE WaitBackend
  BY <1>6 DEF WaitBackend, procs, Tracked, StopFindsAll
<1>7. CASE WaitFrontend
  BY <1>7 DEF WaitFrontend, procs, Tracked, StopFindsAll
<1>8. CASE Close
  BY <1>8, CleanupTracked DEF Close
<1>9. CASE Quit
  BY <1>9, CleanupTracked DEF Quit
<1>10. CASE PowerLoss
  BY <1>10 DEF PowerLoss, Tracked, StopFindsAll, Services
<1>11. CASE Preflight
  BY <1>11 DEF Preflight, Tracked, StopFindsAll
<1>12. CASE FreePorts
  BY <1>12 DEF FreePorts, ShellTypeOK, Tracked, StopFindsAll
<1>13. CASE Schema
  BY <1>13 DEF Schema, Tracked, StopFindsAll
<1>14. CASE StartCore
  BY <1>14 DEF StartCore, ShellTypeOK, Tracked, StopFindsAll, Services, Core
<1>15. CASE NameCore
  BY <1>15 DEF NameCore, ShellTypeOK, Tracked, StopFindsAll, Services, Core
<1>23. CASE StartBridge
  BY <1>23 DEF StartBridge, ShellTypeOK, Tracked, StopFindsAll, Services, Core
<1>24. CASE NameBridge
  BY <1>24 DEF NameBridge, ShellTypeOK, Tracked, StopFindsAll, Services, Core
<1>16. CASE LauncherFails
  BY <1>16 DEF LauncherFails, LauncherEnds, ToName, ShellTypeOK, Tracked, StopFindsAll,
      Services, Core
<1>17. ASSUME NEW s \in Services, ServiceBoots(s) PROVE Goal
  BY <1>17 DEF ServiceBoots, ShellTypeOK, Tracked, StopFindsAll, Services
<1>18. ASSUME NEW s \in Services, ServiceExits(s) PROVE Goal
  BY <1>18 DEF ServiceExits, Alive, ShellTypeOK, Tracked, StopFindsAll, Services
<1>19. ASSUME NEW s \in Services, ForeignMoves(s) PROVE Goal
  BY <1>19 DEF ForeignMoves, Tracked, StopFindsAll, Services
<1>20. CASE Installer
  BY <1>20 DEF Installer, Install, procs, Tracked, StopFindsAll
<1>21. CASE BridgeRecords
  BY <1>21 DEF BridgeRecords, Record, procs, Tracked, StopFindsAll
<1>22. CASE UNCHANGED desktopVars
  BY <1>22 DEF desktopVars, procs, Tracked, StopFindsAll
<1> QED
  BY <1>1, <1>2, <1>3, <1>4, <1>5, <1>6, <1>7, <1>8, <1>9, <1>10, <1>11, <1>12, <1>13,
      <1>14, <1>15, <1>16, <1>17, <1>18, <1>19, <1>20, <1>21, <1>22, <1>23, <1>24
      DEF ShellNext,
      Shell, Launcher

(* The invariant holds of a fresh machine, ...                               *)
LEMMA InitDesktopInv == ShellInit => DesktopInv
<1> SUFFICES ASSUME ShellInit PROVE DesktopInv
  OBVIOUS
<1>1. ShellTypeOK
  <2>1. 1 \in Payloads /\ Nothing \in [core : 0 .. Versions, rest : 0 .. Versions] /\ 0
      \in 0 .. Versions
    BY DesktopInstallAssumption DEF Payloads, Nothing
  <2>2. InstallTypeOK
    BY <2>1 DEF ShellInit, InstallInit, InstallTypeOK, Folders, Steps
  <2>3. ProcessTypes
    BY DEF ShellInit, ProcessTypes, LauncherStates, OwnStates
  <2> QED BY <2>2, <2>3 DEF ShellTypeOK, ProcessTypes
<1>2. Unpacking /\ Windowed /\ RemovesBroken /\ SessionsHeld
  BY DEF ShellInit, InstallInit, Unpacking, Windowed, RemovesBroken, SessionsHeld, Tools
<1>3. Tracked /\ StopFindsAll
  BY DEF ShellInit, Tracked, StopFindsAll, Services, Core
<1> QED
  BY <1>1, <1>2, <1>3 DEF DesktopInv

(* ... and of every state after it.                                          *)
LEMMA DesktopInvariance == ShellSpec => []DesktopInv
<1>1. DesktopInv /\ [ShellNext]_desktopVars => DesktopInv'
  <2> SUFFICES ASSUME DesktopInv, [ShellNext]_desktopVars PROVE DesktopInv'
    OBVIOUS
  <2>1. ShellTypeOK'
    BY InstallTypesKept, ProcessTypesKept DEF DesktopInv, ShellTypeOK, ProcessTypes
  <2> QED
    BY <2>1, UnpackingKept, StopFindsAllKept DEF DesktopInv
<1> QED
  BY <1>1, InitDesktopInv, PTL DEF ShellSpec

(* For any number of versions every variable of installer, shell, launcher   *)
(* and services keeps its type.                                              *)
THEOREM DesktopTyped == ShellSpec => []ShellTypeOK
<1>1. DesktopInv => ShellTypeOK
  BY DEF DesktopInv
<1> QED
  BY <1>1, DesktopInvariance, PTL

(* Whatever tool fails and whenever the app ends, sessions found in the      *)
(* folder are there or in the copy, unless the app ended between removal and *)
(* restore or an uninstaller ran.                                            *)
THEOREM SessionsAreNotLost == ShellSpec => []SessionsSurvive
<1>1. DesktopInv => SessionsSurvive
  BY DEF DesktopInv, SessionsHeld, SessionsSurvive, Tools
<1> QED
  BY <1>1, DesktopInvariance, PTL

(* The stop script can find every service: one that boots under a launcher   *)
(* that serves, or after it, is named by the PID file and stays so under     *)
(* later launchers, but for one whose launcher ended before naming it and    *)
(* one that a stop out of time left.                                         *)
THEOREM StopKnowsTheServices == ShellSpec => []StopFindsAll
<1>1. DesktopInv => StopFindsAll
  BY DEF DesktopInv
<1> QED
  BY <1>1, DesktopInvariance, PTL

(* With a window open, the bridge's database goes only with an application   *)
(* that all tools have left incomplete.                                      *)
THEOREM StoreIsKept == ShellSpec => StoreKept
<1>1. DesktopInv /\ [ShellNext]_desktopVars =>
        [store /\ ~store' /\ window # "closed" => ~Complete(app)]_desktopVars
  <2> SUFFICES ASSUME DesktopInv, ShellNext, store, ~store', window # "closed" PROVE
      ~Complete(app)
    BY DEF ShellNext
  <2>1. CASE ipc = "remove"
    BY <2>1 DEF DesktopInv, RemovesBroken
  <2>2. ASSUME ipc # "remove" PROVE FALSE
    <3>1. UNCHANGED store \/ store' = TRUE
      BY <2>2 DEF ShellNext, OpenWindow, StartServices, Shell, Launcher, InstallRuns,
          InstallReturns, InstallStep, Begin, CopyAside, RunTool, RemoveApp,
         UnpackFiles, Restore, Finish, SpawnLauncher, WaitBackend, WaitFrontend, Close,
             Quit, PowerLoss, Interrupted,
         Preflight, FreePorts, Schema, StartCore, NameCore, StartBridge, NameBridge,
             LauncherFails, ServiceBoots,
             ServiceExits, ForeignMoves,
         Installer, BridgeRecords, Record, files, installVars, shellVars, procs
    <3> QED BY <3>1
  <2> QED BY <2>1, <2>2
<1> QED
  BY <1>1, DesktopInvariance, PTL DEF ShellSpec, StoreKept
=============================================================================
