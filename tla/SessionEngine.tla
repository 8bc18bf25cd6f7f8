--------------------------- MODULE SessionEngine ---------------------------
(***************************************************************************)
(* The life of the WhatsApp engines of one OpenWA session in one process.  *)
(* start, the reconnect timer, stop, logout, force-kill, delete and the    *)
(* teardown of a lost session are asynchronous functions over shared       *)
(* state: the engine registry, the stop mark, the start reservation, the   *)
(* reconnect state, the credential fence and the session row.  Between two *)
(* awaits such a function runs alone; every await is a place where the     *)
(* others run.  One step below is what happens between two awaits.         *)
(***************************************************************************)
EXTENDS Naturals, FiniteSets

CONSTANTS
  Ops,        \* bound: calls in flight at a time, a running reconnect included
  MaxEngines  \* bound: engine objects some variable still refers to

ASSUME SessionEngineAssumption == MaxEngines \in Nat

Engines == 1 .. MaxEngines
None == 0

VARIABLES
  row,         \* the session row exists
  status,      \* its persisted status
  registered,  \* EngineRegistry: the session's live engine, or None
  engine,      \* engine[e]: "dead" before its creation and from its teardown on,
               \* "created" up to initialize(), then "launched"
  stopping,    \* the id is in stoppingSessions
  initializing,\* the id is in initializingSessions
  reconnect,   \* reconnectStates: "none", "armed" or "timer" (an attempt is due)
  removing,    \* a logout's removal of the credentials is pending
  op,          \* op[o]: the call in slot o, where it waits, the engine it holds
  met,         \* history: the launches under way during which another launch has
               \* created its engine
  loose,       \* history: the engines that outlived their teardown, were launched
               \* after it, or lost the registry entry to a launch they met
  crossed      \* history: "launch" once two launches were in flight together, "delete"
               \* once a launch ended between a delete's stop mark and its transaction,
               \* "unread" once a launch kept its engine because it could not read that
               \* the row was gone, "late" once a logout began its teardown of an engine
               \* that had outlived another and was out of the registry; up to the next
               \* start, "reported" from the failure of an engine a reconnect was
               \* replacing, "disowned" from a teardown for another owner, "aborted"
               \* from a delete that gave up after its stop mark

vars == <<row, status, registered, engine, stopping, initializing, reconnect,
          removing, op, met, loose, crossed>>
history == <<met, loose, crossed>>

Retirements == {"stop", "logout", "kill", "delete", "orphan"}
Idle == [kind |-> "none", pc |-> "idle", eng |-> None]
Statuses == {"created", "initializing", "ready", "disconnected", "failed"}
Pcs == {"idle", "read", "fence", "hook", "status", "launch", "timedout", "throw", "guard",
        "replace", "settle", "unregister", "torn", "purge"}

TypeOK ==
  /\ row \in BOOLEAN /\ stopping \in BOOLEAN /\ initializing \in BOOLEAN
  /\ removing \in BOOLEAN
  /\ crossed \subseteq {"launch", "delete", "unread", "late", "reported", "disowned", "aborted"}
  /\ status \in Statuses
  /\ registered \in Engines \cup {None}
  /\ engine \in [Engines -> {"dead", "created", "launched"}]
  /\ reconnect \in {"none", "armed", "timer"}
  /\ op \in [Ops -> [kind : {"none", "start", "reconnect"} \cup Retirements, pc : Pcs,
                     eng : Engines \cup {None}]]
  /\ met \subseteq Ops /\ loose \subseteq Engines

Init ==
  /\ row = TRUE /\ status = "created"
  /\ registered = None
  /\ engine = [e \in Engines |-> "dead"]
  /\ stopping = FALSE /\ initializing = FALSE
  /\ reconnect = "none" /\ removing = FALSE
  /\ op = [o \in Ops |-> Idle]
  /\ met = {} /\ loose = {} /\ crossed = {}

-----------------------------------------------------------------------------
At(o, kinds, pc) == op[o].kind \in kinds /\ op[o].pc = pc
Goto(o, pc, e) == op' = [op EXCEPT ![o].pc = pc, ![o].eng = e]
Return(o) == op' = [op EXCEPT ![o] = Idle] /\ met' = met \ {o}
Call(o, kind, pc) == op[o] = Idle /\ op' = [op EXCEPT ![o] = [kind |-> kind, pc |-> pc, eng |-> None]]

Alive(e) == engine[e] = "launched"

(* A teardown ends the engine, or throws or runs into its deadline: then    *)
(* the caller goes on as if it had ended it, and the engine is loose.       *)
Teardown(e, lost) ==
  \/ /\ engine' = IF e = None THEN engine ELSE [engine EXCEPT ![e] = "dead"]
     /\ loose' = (loose \cup lost) \ {e}
  \/ /\ e # None /\ engine[e] # "dead"
     /\ loose' = loose \cup lost \cup {e}
     /\ UNCHANGED engine

SetStatus(s) == status' = IF row THEN s ELSE status
(* Mutant: the entry is deleted whichever engine it holds.                  *)
DeleteAlways(e) == registered' = None

DeleteIfLive(e) == registered' = IF registered = e THEN None ELSE registered
Launchers == {"start", "reconnect"}
InFlight == {o \in Ops : op[o].kind \in Launchers /\ op[o].pc # "read"}
Meets == crossed' = IF InFlight = {} THEN crossed ELSE crossed \cup {"launch"}

-----------------------------------------------------------------------------
(* start(): the reservation comes first, then the row; an engine in the     *)
(* registry or a missing row refuses it.                                    *)
Start(o) ==
  /\ ~initializing
  /\ Call(o, "start", "read")
  /\ initializing' = TRUE
  /\ UNCHANGED <<row, status, registered, engine, stopping, reconnect, removing, history>>

StartRefused(o) ==
  /\ \/ At(o, {"start"}, "read") /\ (~row \/ registered # None)
     \/ At(o, {"start"}, "fence") /\ removing
  /\ Return(o)
  /\ initializing' = FALSE
  /\ UNCHANGED <<row, status, registered, engine, stopping, reconnect, removing, loose, crossed>>

StartChecked(o) ==
  /\ At(o, {"start"}, "read") /\ row /\ registered = None
  /\ Goto(o, "fence", None)
  /\ Meets
  /\ UNCHANGED <<row, status, registered, engine, stopping, initializing, reconnect, removing,
                 met, loose>>

(* Mutant: start does not wait for the removal of the credentials.          *)
StartUnfenced(o) ==
  /\ At(o, {"start"}, "fence")
  /\ Goto(o, "hook", None)
  /\ stopping' = FALSE
  /\ reconnect' = "none"
  /\ crossed' = crossed \ {"reported", "disowned", "aborted"}
  /\ UNCHANGED <<row, status, registered, engine, initializing, removing, met, loose>>

(* Past the credential fence the stop mark and any reconnect are dropped.   *)
StartAccepted(o) ==
  /\ At(o, {"start"}, "fence") /\ ~removing
  /\ Goto(o, "hook", None)
  /\ stopping' = FALSE
  /\ reconnect' = "none"
  /\ crossed' = crossed \ {"reported", "disowned", "aborted"}
  /\ UNCHANGED <<row, status, registered, engine, initializing, removing, met, loose>>

-----------------------------------------------------------------------------
(* initializeEngine: a new engine takes the registry entry, whatever it     *)
(* held, and the INITIALIZING write begins.  An engine that nothing refers  *)
(* to any more, dead or out of reach, lends its number to the new one.      *)
Free(e) == registered # e /\ \A o \in Ops : op[o].eng # e

(* The engine of a launch o has met, which o takes out of the registry.     *)
Displaced(o) == IF o \in met THEN {registered} \ {None, op[o].eng} ELSE {}

Create(o) ==
  /\ \/ At(o, {"start"}, "hook") /\ reconnect' = "armed"
     \/ At(o, {"reconnect"}, "fence") /\ ~removing /\ UNCHANGED reconnect
  /\ \E e \in Engines :
       /\ Free(e) /\ \A f \in 1 .. e - 1 : ~Free(f)
       /\ engine' = [engine EXCEPT ![e] = "created"]
       /\ registered' = e
       /\ loose' = (loose \cup Displaced(o)) \ {e}
       /\ Goto(o, "status", e)
  /\ met' = met \cup (InFlight \ {o})
  /\ UNCHANGED <<row, status, stopping, initializing, removing, crossed>>

(* The write lands; an engine replaced or marked stopping meanwhile is not  *)
(* launched.  One torn down meanwhile is: stopOrphanEngines does not wait   *)
(* for the write, the others only so long, and the stop mark may be gone.   *)
Launch(o) ==
  /\ At(o, Launchers, "status")
  /\ SetStatus("initializing")
  /\ IF registered = op[o].eng /\ ~stopping
       THEN /\ engine' = [engine EXCEPT ![op[o].eng] = "launched"]
            /\ loose' = IF engine[op[o].eng] = "dead" THEN loose \cup {op[o].eng} ELSE loose
            /\ Goto(o, "launch", op[o].eng)
       ELSE /\ UNCHANGED <<engine, loose>>
            /\ Goto(o, "guard", op[o].eng)
  /\ UNCHANGED <<row, registered, stopping, initializing, reconnect, removing, met, crossed>>

(* engine.initialize() resolves, ...                                        *)
Launched(o) ==
  /\ At(o, Launchers, "launch")
  /\ Goto(o, "guard", op[o].eng)
  /\ UNCHANGED <<row, status, registered, engine, stopping, initializing, reconnect, removing,
                 history>>

(* ... or neither resolves nor rejects in time: the registry entry is       *)
(* deleted, whichever engine it holds, this engine is killed, ...           *)
LaunchTimesOut(o) ==
  /\ At(o, Launchers, "launch")
  /\ registered' = None
  /\ Teardown(op[o].eng, Displaced(o))
  /\ Goto(o, "timedout", op[o].eng)
  /\ UNCHANGED <<row, status, stopping, initializing, reconnect, removing, met, crossed>>

(* ... or it rejects.  Both callers then evict the engine in the registry.  *)
Evict == registered' = None /\ Teardown(registered, {})

LaunchFails(o) ==
  /\ At(o, {"start"}, "launch") \/ At(o, {"start"}, "timedout")
  /\ Evict
  /\ IF op[o].pc = "timedout" THEN SetStatus("disconnected") ELSE UNCHANGED status
  /\ Goto(o, "throw", registered)
  /\ UNCHANGED <<row, stopping, initializing, reconnect, removing, met, crossed>>

(* Mutant: a start that throws keeps its reservation.                       *)
StartThrowsReserved(o) ==
  /\ At(o, {"start"}, "throw")
  /\ IF op[o].eng = None THEN UNCHANGED status ELSE SetStatus("failed")
  /\ reconnect' = "none"
  /\ Return(o)
  /\ UNCHANGED <<row, registered, engine, stopping, initializing, removing, loose, crossed>>

(* FAILED is written only when the catch found an engine to evict.          *)
StartThrows(o) ==
  /\ At(o, {"start"}, "throw")
  /\ IF op[o].eng = None THEN UNCHANGED status ELSE SetStatus("failed")
  /\ reconnect' = "none"
  /\ initializing' = FALSE
  /\ Return(o)
  /\ UNCHANGED <<row, registered, engine, stopping, removing, loose, crossed>>

(* scheduleReconnect: nothing without a reconnect state, a timer, or, with  *)
(* the attempts spent, FAILED and the registered engine evicted.            *)
Reschedule == reconnect' = IF reconnect = "none" THEN "none" ELSE "timer"
Exhausted ==
  /\ reconnect # "none"
  /\ reconnect' = "none"
  /\ Evict
  /\ SetStatus("failed")

(* executeReconnect: nothing when the session is stopping; an engine still  *)
(* registered is destroyed first.                                           *)
Reconnect(o) ==
  /\ reconnect = "timer" /\ op[o] = Idle
  /\ reconnect' = "armed"
  /\ IF stopping
       THEN UNCHANGED <<op, engine, loose, crossed>>
       ELSE /\ op' = [op EXCEPT ![o] =
                        [kind |-> "reconnect", eng |-> registered,
                         pc |-> IF registered = None THEN "fence" ELSE "replace"]]
            /\ Teardown(registered, {})
            /\ Meets
  /\ UNCHANGED <<row, status, registered, stopping, initializing, removing, met>>

Replaced(o) ==
  /\ At(o, {"reconnect"}, "replace")
  /\ DeleteIfLive(op[o].eng)
  /\ Goto(o, "fence", None)
  /\ UNCHANGED <<row, status, engine, stopping, initializing, reconnect, removing, history>>

ReconnectFails(o) ==
  /\ \/ At(o, {"reconnect"}, "fence") /\ removing
     \/ At(o, {"reconnect"}, "launch")
     \/ At(o, {"reconnect"}, "timedout")
  /\ Return(o)
  /\ \/ /\ Reschedule
        /\ Evict
        /\ IF op[o].pc = "timedout" THEN SetStatus("disconnected") ELSE UNCHANGED status
     \/ Exhausted
  /\ UNCHANGED <<row, stopping, initializing, removing, crossed>>

(* After initialize() the session may have been stopped or deleted: the     *)
(* registered engine is destroyed.                                          *)
LaunchReturns(o) ==
  /\ Return(o)
  /\ initializing' = (initializing /\ op[o].kind # "start")

Deleting == \E o \in Ops : op[o].kind = "delete" /\ op[o].pc \notin {"read", "fence"}

(* Mutant: only the stop mark is looked at, which a finished delete clears. *)
GuardMarkOnly(o) ==
  /\ At(o, Launchers, "guard")
  /\ IF stopping /\ registered # None
       THEN /\ Teardown(registered, {})
            /\ Goto(o, "unregister", registered)
            /\ UNCHANGED <<initializing, met>>
       ELSE UNCHANGED <<engine, loose>> /\ LaunchReturns(o)
  /\ crossed' = IF Deleting /\ ~stopping /\ row THEN crossed \cup {"delete"} ELSE crossed
  /\ UNCHANGED <<row, status, registered, stopping, reconnect, removing>>

Guard(o) ==
  /\ At(o, Launchers, "guard")
  /\ IF (stopping \/ ~row) /\ registered # None
       THEN /\ Teardown(registered, {})
            /\ Goto(o, "unregister", registered)
            /\ UNCHANGED <<initializing, met>>
       ELSE UNCHANGED <<engine, loose>> /\ LaunchReturns(o)
  /\ crossed' = IF Deleting /\ ~stopping /\ row THEN crossed \cup {"delete"} ELSE crossed
  /\ UNCHANGED <<row, status, registered, stopping, reconnect, removing>>

(* Without a stop mark the row is read: when that fails, a reconnect keeps  *)
(* its engine as if the row were there, and a start throws but keeps it too.*)
GuardUnread(o) ==
  /\ At(o, Launchers, "guard") /\ ~stopping /\ ~row
  /\ LaunchReturns(o)
  /\ crossed' = crossed \cup {"unread"}
  /\ UNCHANGED <<row, status, registered, engine, stopping, reconnect, removing, loose>>

GuardDone(o) ==
  /\ At(o, Launchers, "unregister")
  /\ DeleteIfLive(op[o].eng)
  /\ LaunchReturns(o)
  /\ UNCHANGED <<row, status, engine, stopping, reconnect, removing, loose, crossed>>

-----------------------------------------------------------------------------
(* The four controls.  stop and delete set the stop mark before they await  *)
(* anything; then the row is read.                                          *)
Controls == {"stop", "logout", "kill", "delete"}

Retire(o, kind) ==
  /\ Call(o, kind, "read")
  /\ stopping' = (stopping \/ kind \in {"stop", "delete"})
  /\ UNCHANGED <<row, status, registered, engine, initializing, reconnect, removing, history>>

(* A missing row, a logout or force-kill without an engine, a delete while  *)
(* credentials are being removed: refused, and a mark that was set stays.   *)
RetireRefused(o) ==
  /\ \/ At(o, Controls, "read") /\ ~row /\ UNCHANGED crossed
     \/ At(o, {"logout", "kill"}, "read") /\ row /\ registered = None /\ UNCHANGED crossed
     \/ At(o, {"delete"}, "fence") /\ removing /\ crossed' = crossed \cup {"aborted"}
  /\ Return(o)
  /\ UNCHANGED <<row, status, registered, engine, stopping, initializing, reconnect, removing,
                 loose>>

DeleteChecked(o) ==
  /\ At(o, {"delete"}, "read") /\ row
  /\ Goto(o, "fence", None)
  /\ UNCHANGED <<row, status, registered, engine, stopping, initializing, reconnect, removing,
                 history>>

(* Mark, cancel the reconnect and capture the registered engine, at once.   *)
RetireBegins(o) ==
  /\ \/ At(o, {"stop"}, "read") /\ row
     \/ At(o, {"logout", "kill"}, "read") /\ row /\ registered # None
     \/ At(o, {"delete"}, "fence") /\ ~removing
  /\ stopping' = TRUE
  /\ reconnect' = "none"
  /\ Goto(o, IF registered = None THEN "torn" ELSE "settle", registered)
  /\ UNCHANGED <<row, status, registered, engine, initializing, removing, history>>

(* awaitInitialStatus, which goes on after a while with the write pending,  *)
(* then the teardown of the captured engine.  A logout of a live engine     *)
(* starts the removal of the credentials.                                   *)
Settle(o) ==
  /\ At(o, Controls, "settle")
  /\ Teardown(op[o].eng, {})
  /\ LET unlinks == op[o].kind = "logout" /\ Alive(op[o].eng)
     IN  /\ removing' = (removing \/ unlinks)
         /\ crossed' = IF unlinks /\ registered # op[o].eng THEN crossed \cup {"late"} ELSE crossed
  /\ Goto(o, "unregister", op[o].eng)
  /\ UNCHANGED <<row, status, registered, stopping, initializing, reconnect, met>>

Unregister(o) ==
  /\ At(o, Retirements, "unregister")
  /\ DeleteIfLive(op[o].eng)
  /\ IF op[o].kind = "orphan" THEN Return(o) ELSE Goto(o, "torn", op[o].eng) /\ UNCHANGED met
  /\ UNCHANGED <<row, status, engine, stopping, initializing, reconnect, removing, loose,
                 crossed>>

Retired(o) ==
  /\ At(o, {"stop", "logout", "kill"}, "torn")
  /\ SetStatus("disconnected")
  /\ Return(o)
  /\ UNCHANGED <<row, registered, engine, stopping, initializing, reconnect, removing, loose,
                 crossed>>

(* delete goes on: the second fence refuses, ...                            *)
DeleteRefused(o) ==
  /\ At(o, {"delete"}, "torn") /\ removing
  /\ IF op[o].eng = None THEN UNCHANGED status ELSE SetStatus("disconnected")
  /\ stopping' = FALSE
  /\ Return(o)
  /\ crossed' = crossed \cup {"aborted"}
  /\ UNCHANGED <<row, registered, engine, initializing, reconnect, removing, loose>>

(* ... or the hook runs, the transaction removes the row or fails, and the  *)
(* mark is cleared after the purge.                                         *)
DeleteHook(o) ==
  /\ At(o, {"delete"}, "torn") /\ ~removing
  /\ Goto(o, "hook", None)
  /\ UNCHANGED <<row, status, registered, engine, stopping, initializing, reconnect, removing,
                 history>>

DeleteRow(o) ==
  /\ At(o, {"delete"}, "hook")
  /\ row' = FALSE
  /\ Goto(o, "purge", None)
  /\ UNCHANGED <<status, registered, engine, stopping, initializing, reconnect, removing,
                 history>>

DeleteEnds(o) ==
  /\ \/ At(o, {"delete"}, "hook") /\ crossed' = crossed \cup {"aborted"}
     \/ At(o, {"delete"}, "purge") /\ UNCHANGED crossed
  /\ stopping' = FALSE
  /\ Return(o)
  /\ UNCHANGED <<row, status, registered, engine, initializing, reconnect, removing, loose>>

(* stopOrphanEngines: the row is not ours any more, its status is left.     *)
StopOrphan(o) ==
  /\ op[o] = Idle
  /\ stopping' = TRUE
  /\ reconnect' = "none"
  /\ Teardown(registered, {})
  /\ op' = IF registered = None THEN op
           ELSE [op EXCEPT ![o] = [kind |-> "orphan", pc |-> "unregister", eng |-> registered]]
  /\ crossed' = crossed \cup {"disowned"}
  /\ UNCHANGED <<row, status, registered, initializing, removing, met>>

-----------------------------------------------------------------------------
(* What a live engine reports.  Every handler first checks that the engine  *)
(* is still the registered one; the one that awaits checks again after.     *)
Live == registered # None /\ Alive(registered)
Reports ==
  crossed' = IF \E o \in Ops : op[o].pc = "replace" THEN crossed \cup {"reported"} ELSE crossed

(* Mutant: an engine that is being torn down still reports.                 *)
ReadyAnyEngine ==
  /\ \E e \in Engines : Alive(e) \/ \E o \in Ops : op[o].eng = e
  /\ SetStatus("ready")
  /\ UNCHANGED <<row, registered, engine, stopping, initializing, reconnect, removing, op,
                 history>>

Ready ==
  /\ Live
  /\ SetStatus("ready")
  /\ UNCHANGED <<row, registered, engine, stopping, initializing, reconnect, removing, op,
                 history>>

Disconnected ==
  /\ Live /\ row
  /\ \/ Reschedule /\ SetStatus("disconnected") /\ UNCHANGED <<registered, engine, loose>>
     \/ Exhausted
  /\ Reports
  /\ UNCHANGED <<row, stopping, initializing, removing, op, met>>

EngineError ==
  /\ Live
  /\ reconnect' = "none"
  /\ SetStatus("failed")
  /\ Evict
  /\ Reports
  /\ UNCHANGED <<row, stopping, initializing, removing, op, met>>

CredentialsRemoved ==
  /\ removing
  /\ removing' = FALSE
  /\ UNCHANGED <<row, status, registered, engine, stopping, initializing, reconnect, op,
                 history>>

-----------------------------------------------------------------------------
Starting(o) ==
  \/ Start(o) \/ StartRefused(o) \/ StartChecked(o) \/ StartAccepted(o) \/ StartThrows(o)
Launching(o) ==
  \/ Create(o) \/ Launch(o) \/ Launched(o) \/ LaunchTimesOut(o) \/ LaunchFails(o)
  \/ Guard(o) \/ GuardUnread(o) \/ GuardDone(o)
Reconnection(o) == Reconnect(o) \/ Replaced(o) \/ ReconnectFails(o)
Retirement(o) ==
  \/ \E kind \in Controls : Retire(o, kind)
  \/ RetireRefused(o) \/ DeleteChecked(o) \/ RetireBegins(o) \/ Settle(o) \/ Unregister(o)
  \/ Retired(o) \/ DeleteRefused(o) \/ DeleteHook(o) \/ DeleteRow(o) \/ DeleteEnds(o)
  \/ StopOrphan(o)
Event == Ready \/ Disconnected \/ EngineError \/ CredentialsRemoved

Next ==
  \/ \E o \in Ops : Starting(o) \/ Launching(o) \/ Reconnection(o) \/ Retirement(o)
  \/ Event

Spec == Init /\ [][Next]_vars

(* Every await inside a start settles: a wait is bounded by a deadline, a   *)
(* database write and a hook by the event loop.                             *)
StartSteps(o) ==
  \/ StartRefused(o) \/ StartChecked(o) \/ StartAccepted(o) \/ StartThrows(o)
  \/ op[o].kind = "start" /\ Launching(o)
Fairness == \A o \in Ops : WF_vars(StartSteps(o))

LiveSpec == Spec /\ Fairness

-----------------------------------------------------------------------------
Quiet == \A o \in Ops : op[o] = Idle

(* An accepted start and a reconnect already past its timer may be in       *)
(* flight together: each may replace or delete the other's registry entry.  *)
(* A logout may reach a survivor it has captured only after the next start. *)
Uncrossed == crossed \cap {"launch", "late"} = {}

(* An engine that runs outside the registry, where no control can stop it,  *)
(* has outlived its own teardown, was launched after it, or lost its entry  *)
(* to a launch accepted before it was created: no call drops the entry of   *)
(* any other engine.                                                        *)
NoOrphan == \A e \in Engines : Alive(e) /\ registered # e => e \in loose

(* Once every call has returned, no engine of a stopped or deleted session  *)
(* runs but a loose one: no start or reconnect under way has brought it back.*)
StoppedStaysDown ==
  Quiet /\ (stopping \/ ~row) /\ Uncrossed /\ crossed \cap {"delete", "unread"} = {} =>
    \A e \in Engines : Alive(e) => e \in loose

(* No engine launches on the credentials a logout is still removing.        *)
FencedCredentials ==
  removing /\ Uncrossed => \A e \in Engines : Alive(e) => e \in loose

(* A session nothing runs and nothing will retry does not read READY,       *)
(* unless its engine was stopped because the row went to another owner, or  *)
(* for a delete that then gave up.                                          *)
NoGhostReady ==
  Quiet /\ row /\ registered = None /\ reconnect # "timer" /\ crossed = {} => status # "ready"

(* The reservation a start takes is given back on every path out of it.     *)
StartReturns == initializing ~> ~initializing
=============================================================================
