--------------------------- MODULE SessionCluster ---------------------------
(***************************************************************************)
(* One paired WhatsApp session shared by several OpenWA processes, and one *)
(* bulk batch of it.  The session row names the process that holds it and  *)
(* when its lease lapses; a claim is one conditional UPDATE.  Every        *)
(* process renews what it holds, finds out at a renewal that it lost it,   *)
(* adopts at its sweep what another let lapse, and may crash, shut down    *)
(* and boot.  A batch is sent by the process whose engine runs; who adopts *)
(* a session, or boots, fails the batch it finds half sent.                *)
(*                                                                         *)
(* The lease is counted in ticks of a clock the processes share.  One      *)
(* process's statements reach the database in the order it issues them.    *)
(***************************************************************************)
EXTENDS Naturals, FiniteSets

CONSTANTS
  Nodes,      \* processes, each with a NODE_ID of its own
  Ttl,        \* the lease, in ticks
  MaxCrashes  \* bound: crashes and shutdowns

ASSUME SessionClusterAssumption == Ttl \in Nat \ {0} /\ MaxCrashes \in Nat

None == "none"
ASSUME SessionClusterNone == None \notin Nodes

VARIABLES
  up,        \* the processes that run
  holder,    \* nodeId of the row, or None
  lease,     \* ticks until leaseExpiresAt
  status,    \* the row's status
  owned,     \* the processes that have the session in their `owned` set
  engine,    \* engine[n]: see EngineStates
  todo,      \* todo[n]: what a sweep or a boot still has to do, see Todos
  late,      \* history: processes whose lease lapsed under a live engine; kept
             \* while a reaper that may have read that lapse is at work
  batch,     \* the batch row's status
  run,       \* run[n]: the drain of the batch in process n, see Runs
  signal,    \* processes whose processingBatches entry is false
  cancelling,\* processes with a cancel between its read and its UPDATE
  crashes

session == <<up, holder, lease, status, owned, engine, todo, late, crashes>>
bulk == <<batch, run, signal, cancelling>>
vars == <<session, bulk>>

(* "aborted": a start is still in flight, its engine was torn down.         *)
(* "broken": the engine dropped and a reconnect is due.                     *)
EngineStates == {"none", "launching", "aborted", "running", "broken"}
Todos == {"idle", "adopt", "adopting", "reap", "reaping", "autostart", "boot", "bootreaping"}
(* "stale": the drain goes on with an engine object that is dead.           *)
Runs == {"idle", "queued", "sending", "stale"}
Open == {"pending", "processing"}

TypeOK ==
  /\ up \subseteq Nodes /\ owned \subseteq Nodes /\ late \subseteq Nodes
  /\ signal \subseteq Nodes /\ cancelling \subseteq Nodes
  /\ holder \in Nodes \cup {None}
  /\ lease \in 0 .. Ttl
  /\ status \in {"disconnected", "initializing", "ready", "failed"}
  /\ engine \in [Nodes -> EngineStates]
  /\ todo \in [Nodes -> Todos]
  /\ batch \in Open \cup {"none", "completed", "failed", "cancelled"}
  /\ run \in [Nodes -> Runs]
  /\ crashes \in 0 .. MaxCrashes

Init ==
  /\ up = Nodes
  /\ holder = None /\ lease = 0 /\ status = "disconnected"
  /\ owned = {} /\ late = {}
  /\ engine = [n \in Nodes |-> "none"]
  /\ todo = [n \in Nodes |-> "idle"]
  /\ batch = "none" /\ run = [n \in Nodes |-> "idle"]
  /\ signal = {} /\ cancelling = {}
  /\ crashes = 0

-----------------------------------------------------------------------------
(* isEngineActive: an engine, a start in flight or a pending reconnect.     *)
Active(n) == engine[n] # "none"
Connects(n) == engine[n] \in {"launching", "running"}
SetEngine(n, e) == engine' = [engine EXCEPT ![n] = e]
SetTodo(n, t) == todo' = [todo EXCEPT ![n] = t]

Timely(n) ==
  late' = IF \E m \in Nodes \ {n} : todo[m] \in {"reaping", "bootreaping"} THEN late
          ELSE late \ {n}

(* A drain keeps the engine object it was given: a new engine is not its    *)
(* own.                                                                     *)
LeaveEngine(n) ==
  /\ run' = [run EXCEPT ![n] = IF @ = "sending" THEN "stale" ELSE @]
  /\ UNCHANGED <<batch, signal, cancelling>>

-----------------------------------------------------------------------------
(* Mutant: the claim is not conditional on the row.                         *)
ClaimableAlways(n) == n \in Nodes

(* claimableWhere and claim: nobody holds it, this process does, or the     *)
(* lease has lapsed.                                                        *)
Claimable(n) == holder \in {None, n} \/ lease = 0

Claim(n) ==
  /\ Claimable(n)
  /\ holder' = n
  /\ lease' = Ttl
  /\ owned' = owned \cup {n}
  /\ Timely(n)

(* release: what a peer let lapse is cleared as well.                       *)
Release(n) ==
  /\ owned' = owned \ {n}
  /\ IF holder = n \/ lease = 0
       THEN holder' = None /\ lease' = 0
       ELSE UNCHANGED <<holder, lease>>

(* Requests are served once the bootstrap hooks have run.                   *)
Serving(n) == n \in up /\ todo[n] \notin {"autostart", "boot", "bootreaping"}

(* SessionService.start: the claim, then the launch, unless an engine or a  *)
(* start of this process is already there; that refusal keeps the claim.    *)
Launch(n) ==
  /\ n \in up /\ Claim(n)
  /\ IF Active(n)
       THEN UNCHANGED <<status, engine>>
       ELSE status' = "initializing" /\ SetEngine(n, "launching")

Start(n) ==
  /\ Serving(n) /\ Launch(n)
  /\ UNCHANGED <<up, todo, crashes, bulk>>

Launched(n) ==
  /\ engine[n] = "launching"
  /\ SetEngine(n, "running")
  /\ status' = "ready"
  /\ SetTodo(n, IF todo[n] = "adopting" THEN "reap" ELSE todo[n])
  /\ UNCHANGED <<up, holder, lease, owned, late, crashes, bulk>>

(* A launch that fails hands the claim back; a deadline leaves the row      *)
(* DISCONNECTED, any other failure FAILED.                                  *)
LaunchFails(n, s) ==
  /\ engine[n] = "launching"
  /\ SetEngine(n, "none")
  /\ status' = s
  /\ Release(n)
  /\ Timely(n)
  /\ SetTodo(n, IF todo[n] = "adopting" THEN "idle" ELSE todo[n])
  /\ LeaveEngine(n)
  /\ UNCHANGED <<up, crashes>>

(* A start that was stopped while it launched returns as if it had worked:  *)
(* nothing releases its claim.                                              *)
AbortedReturns(n) ==
  /\ engine[n] = "aborted"
  /\ SetEngine(n, "none")
  /\ SetTodo(n, IF todo[n] = "adopting" THEN "reap" ELSE todo[n])
  /\ UNCHANGED <<up, holder, lease, status, owned, late, crashes, bulk>>

-----------------------------------------------------------------------------
(* The connection drops and is restored, or the attempts are spent.         *)
Disconnect(n) ==
  /\ engine[n] = "running"
  /\ SetEngine(n, "broken")
  /\ status' = "disconnected"
  /\ LeaveEngine(n)
  /\ UNCHANGED <<up, holder, lease, owned, todo, late, crashes>>

Reconnect(n) ==
  /\ engine[n] = "broken"
  /\ SetEngine(n, "running")
  /\ status' = "ready"
  /\ LeaveEngine(n)
  /\ UNCHANGED <<up, holder, lease, owned, todo, late, crashes>>

ReconnectExhausted(n) ==
  /\ engine[n] = "broken"
  /\ SetEngine(n, "none")
  /\ status' = "failed"
  /\ Timely(n)
  /\ LeaveEngine(n)
  /\ UNCHANGED <<up, holder, lease, owned, todo, crashes>>

(* SessionService.stop: refused while a peer holds the session on a lease   *)
(* that has not lapsed; the claim is released unless something is active.   *)
TearDown(n) ==
  /\ SetEngine(n, IF engine[n] \in {"launching", "aborted"} THEN "aborted" ELSE "none")
  /\ Timely(n)
  /\ LeaveEngine(n)

Stop(n) ==
  /\ Serving(n) /\ Claimable(n)
  /\ TearDown(n)
  /\ status' = "disconnected"
  /\ IF engine[n] \in {"launching", "aborted"}
       THEN UNCHANGED <<owned, holder, lease>>
       ELSE Release(n)
  /\ UNCHANGED <<up, todo, crashes>>

-----------------------------------------------------------------------------
(* The clock.  A lease that lapses under a live engine makes its holder     *)
(* late, until it renews, claims or tears down.                             *)
Tick ==
  /\ lease > 0
  /\ lease' = lease - 1
  /\ late' = IF lease = 1 /\ Active(holder) THEN late \cup {holder} ELSE late
  /\ UNCHANGED <<up, holder, status, owned, engine, todo, crashes, bulk>>

(* renew: only what is active is pushed out, lapsed or not; ...             *)
Renew(n) ==
  /\ n \in up \cap owned /\ holder = n /\ Active(n)
  /\ lease' = Ttl
  /\ Timely(n)
  /\ UNCHANGED <<up, holder, status, owned, engine, todo, crashes, bulk>>

(* ... a row that names somebody else takes the engine down.                *)
LeaseLost(n) ==
  /\ n \in up \cap owned /\ holder # n
  /\ owned' = owned \ {n}
  /\ TearDown(n)
  /\ UNCHANGED <<up, holder, lease, status, todo, crashes>>

-----------------------------------------------------------------------------
(* Mutant: only a session that was READY is taken over.                     *)
SweepReadReady(n) ==
  /\ n \in up /\ todo[n] = "idle"
  /\ holder \notin {None, n} /\ lease = 0 /\ status = "ready"
  /\ SetTodo(n, "adopt")
  /\ UNCHANGED <<up, holder, lease, status, owned, engine, late, crashes, bulk>>

(* SessionTakeoverService.sweep: reads what a peer let lapse, then starts   *)
(* it; an adopted session's batch is failed once the start has returned.    *)
SweepRead(n) ==
  /\ n \in up /\ todo[n] = "idle"
  /\ holder \notin {None, n} /\ lease = 0 /\ status # "failed"
  /\ SetTodo(n, "adopt")
  /\ UNCHANGED <<up, holder, lease, status, owned, engine, late, crashes, bulk>>

Adopt(n) ==
  /\ todo[n] = "adopt"
  /\ IF Claimable(n) /\ ~Active(n)
       THEN Launch(n) /\ SetTodo(n, "adopting")
       ELSE /\ SetTodo(n, "idle")
            /\ IF Claimable(n) THEN Launch(n)
               ELSE UNCHANGED <<holder, lease, owned, late, status, engine>>
  /\ UNCHANGED <<up, crashes, bulk>>

(* Mutant: a boot takes every half sent batch for its own.                  *)
ReapReadAll(n) ==
  /\ \/ todo[n] = "reap" /\ SetTodo(n, IF batch = "processing" THEN "reaping" ELSE "idle")
     \/ /\ todo[n] = "boot" /\ engine[n] \notin {"launching", "aborted"}
        /\ SetTodo(n, IF batch = "processing" THEN "bootreaping" ELSE "idle")
  /\ UNCHANGED <<up, holder, lease, status, owned, engine, late, crashes, bulk>>

(* Reaping is a read of the batch and a save of what was read.              *)
ReapRead(n) ==
  /\ \/ todo[n] = "reap" /\ SetTodo(n, IF batch = "processing" THEN "reaping" ELSE "idle")
     \/ /\ todo[n] = "boot" /\ engine[n] \notin {"launching", "aborted"}
        /\ SetTodo(n, IF batch = "processing" /\ Claimable(n) THEN "bootreaping" ELSE "idle")
  /\ UNCHANGED <<up, holder, lease, status, owned, engine, late, crashes, bulk>>

ReapSave(n) ==
  /\ todo[n] \in {"reaping", "bootreaping"}
  /\ batch' = "failed"
  /\ SetTodo(n, "idle")
  /\ UNCHANGED <<up, holder, lease, status, owned, engine, late, crashes, run, signal,
                 cancelling>>

-----------------------------------------------------------------------------
(* A process ends: by a crash, or by a shutdown that tears its engine down  *)
(* and releases what it holds.  Another one stays up.                       *)
Leave(n) ==
  /\ n \in up /\ up # {n} /\ crashes < MaxCrashes
  /\ crashes' = crashes + 1
  /\ up' = up \ {n}
  /\ owned' = owned \ {n} /\ late' = late \ {n}
  /\ SetEngine(n, "none")
  /\ SetTodo(n, "idle")
  /\ run' = [run EXCEPT ![n] = "idle"]
  /\ signal' = signal \ {n} /\ cancelling' = cancelling \ {n}
  /\ UNCHANGED <<status, batch>>

Crash(n) == Leave(n) /\ UNCHANGED <<holder, lease>>

Shutdown(n) ==
  /\ Leave(n)
  /\ IF n \in owned /\ holder = n
       THEN holder' = None /\ lease' = 0
       ELSE UNCHANGED <<holder, lease>>

(* A boot resets the status of what it may claim, starts it if that leaves  *)
(* it DISCONNECTED, and fails the batch of what it may claim.               *)
Boot(n) ==
  /\ n \notin up
  /\ up' = up \cup {n}
  /\ status' = IF Claimable(n) /\ status \in {"ready", "initializing"} THEN "disconnected"
               ELSE status
  /\ SetTodo(n, "autostart")
  /\ UNCHANGED <<holder, lease, owned, engine, late, crashes, bulk>>

AutoStart(n) ==
  /\ todo[n] = "autostart"
  /\ SetTodo(n, "boot")
  /\ IF Claimable(n) /\ status = "disconnected"
       THEN Launch(n)
       ELSE UNCHANGED <<holder, lease, owned, late, status, engine>>
  /\ UNCHANGED <<up, crashes, bulk>>

-----------------------------------------------------------------------------
(* The batch: created where an engine is registered, drained by the same    *)
(* process.  A cancel that came first is not revived.                       *)
CreateBatch(n) ==
  /\ Serving(n) /\ batch = "none" /\ engine[n] \in {"launching", "running", "broken"}
  /\ batch' = "pending"
  /\ run' = [run EXCEPT ![n] = "queued"]
  /\ UNCHANGED <<session, signal, cancelling>>

(* Mutant: the start of the drain does not look for a cancel in the row.    *)
BeginBatchBlind(n) ==
  /\ run[n] = "queued"
  /\ IF engine[n] \in {"none", "aborted"}
       THEN run' = [run EXCEPT ![n] = "idle"] /\ batch' = "failed"
       ELSE run' = [run EXCEPT ![n] = "sending"] /\ batch' = "processing"
  /\ signal' = signal \ {n}
  /\ UNCHANGED <<session, cancelling>>

BeginBatch(n) ==
  /\ run[n] = "queued"
  /\ IF batch = "cancelled" \/ n \in signal
       THEN run' = [run EXCEPT ![n] = "idle"] /\ UNCHANGED batch
       ELSE IF engine[n] \in {"none", "aborted"}
         THEN run' = [run EXCEPT ![n] = "idle"] /\ batch' = "failed"
         ELSE run' = [run EXCEPT ![n] = "sending"] /\ batch' = "processing"
  /\ signal' = signal \ {n}
  /\ UNCHANGED <<session, cancelling>>

(* The end of the loop: its outcome, unless the batch was cancelled here or *)
(* in the row.                                                              *)
FinalizeBatch(n, outcome) ==
  /\ run[n] \in {"sending", "stale"}
  /\ run' = [run EXCEPT ![n] = "idle"]
  /\ batch' = IF batch = "cancelled" \/ n \in signal THEN "cancelled" ELSE outcome
  /\ signal' = signal \ {n}
  /\ UNCHANGED <<session, cancelling>>

(* A cancel reads an open batch, tells the drain of its own process, if that *)
(* is the one, and then updates what is still open.                         *)
CancelBatch(n) ==
  /\ Serving(n) /\ batch \in Open
  /\ cancelling' = cancelling \cup {n}
  /\ signal' = signal \cup {m \in {n} : run[m] # "idle"}
  /\ UNCHANGED <<session, batch, run>>

CancelCommits(n) ==
  /\ n \in cancelling
  /\ cancelling' = cancelling \ {n}
  /\ batch' = IF batch \in Open THEN "cancelled" ELSE batch
  /\ UNCHANGED <<session, run, signal>>

-----------------------------------------------------------------------------
Engine(n) ==
  \/ Launched(n) \/ LaunchFails(n, "failed") \/ LaunchFails(n, "disconnected")
  \/ AbortedReturns(n) \/ Disconnect(n) \/ Reconnect(n) \/ ReconnectExhausted(n)
Heartbeat(n) == Renew(n) \/ LeaseLost(n)
Sweep(n) == SweepRead(n) \/ Adopt(n)
Reaper(n) == ReapRead(n) \/ ReapSave(n)
Process(n) == Crash(n) \/ Shutdown(n) \/ Boot(n) \/ AutoStart(n)
Bulk(n) ==
  \/ CreateBatch(n) \/ BeginBatch(n) \/ CancelBatch(n) \/ CancelCommits(n)
  \/ FinalizeBatch(n, "completed") \/ FinalizeBatch(n, "failed")

Next ==
  \/ \E n \in Nodes :
       \/ Start(n) \/ Stop(n) \/ Engine(n) \/ Heartbeat(n) \/ Sweep(n) \/ Reaper(n)
       \/ Process(n) \/ Bulk(n)
  \/ Tick

Spec == Init /\ [][Next]_vars

(* The clock runs, the heartbeat and sweep intervals of a process that is   *)
(* up keep firing, a launch returns.  No process need ever come back.       *)
Fairness ==
  /\ WF_vars(Tick)
  /\ \A n \in Nodes :
       /\ WF_vars(Heartbeat(n))
       /\ WF_vars(Sweep(n) \/ Reaper(n) \/ AutoStart(n))
       /\ WF_vars(Engine(n) /\ engine[n] \in {"launching", "aborted"})

LiveSpec == Spec /\ Fairness

-----------------------------------------------------------------------------
(* The inductive invariant.  Whose engine can send is either late or holds  *)
(* an unexpired lease, which no other process can claim.  The batch has one *)
(* drain, which sends while its engine lives, and is not queued any more    *)
(* when a reaper has read it; a booting reaper was not refused by a lease.  *)
Live(n) == engine[n] \in {"launching", "running", "broken"}
Granted == lease > 0 => holder \in Nodes
Leased == \A n \in Nodes : Live(n) => n \in late \/ (holder = n /\ lease > 0)
Drained ==
  /\ \A m, n \in Nodes : run[m] # "idle" /\ run[n] # "idle" => m = n
  /\ \A n \in Nodes :
       /\ run[n] # "idle" => batch # "none"
       /\ run[n] = "queued" => batch \in {"pending", "cancelled"}
       /\ run[n] = "sending" => Live(n)
Reaped ==
  \A m \in Nodes : todo[m] \in {"reaping", "bootreaping"} =>
    /\ batch # "none"
    /\ \A n \in Nodes :
         /\ run[n] # "queued"
         /\ run[n] = "sending" /\ todo[m] = "bootreaping" /\ n # m => n \in late
IInv == TypeOK /\ Granted /\ Leased /\ Drained /\ Reaped

Overlap(n) == Connects(n) /\ holder # n

(* An engine runs beside the holder's only on a process whose lease lapsed  *)
(* under it: two claims are never granted for one lease.                    *)
OneEngine == \A n \in Nodes : Overlap(n) => n \in late

(* Who reaps a batch does not fail it under another process that can still  *)
(* send for it, unless that process is late, or the reaper has lost the     *)
(* session again since it adopted it.                                       *)
ReapSparesPeers ==
  [][\A m, n \in Nodes :
       todo[m] \in {"reaping", "bootreaping"} /\ todo'[m] = "idle" /\ n # m
       /\ run[n] = "sending"
         => n \in late \/ (todo[m] = "reaping" /\ holder # m)]_vars

(* A committed cancel is final for the process that drains the batch; only  *)
(* a reaper that had read it before still overwrites it.                    *)
CancelHolds ==
  [][batch = "cancelled" /\ batch' # "cancelled" => \E n \in Nodes : todo[n] \in {"reaping", "bootreaping"}]_vars

(* A session whose holder is gone for good is taken up by another process,  *)
(* or somebody decided otherwise.                                           *)
Orphaned == holder # None /\ holder \notin up /\ status # "failed"
OrphanAdopted == Orphaned ~> ~Orphaned
=============================================================================
