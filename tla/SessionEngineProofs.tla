------------------------ MODULE SessionEngineProofs ------------------------
(* Proofs about SessionEngine, for any number of calls in flight and of    *)
(* engines: but for the races its history names, no engine runs outside    *)
(* the registry or beside the removal of the credentials, none survives a  *)
(* stop or a delete, and no session left alone reads READY.                *)
EXTENDS SessionEngine, TLAPS

(* What a slot can hold. *)
Slots ==
  [kind : {"none", "start", "reconnect"} \cup Retirements, pc : Pcs, eng : Engines \cup {None}]

(* What a call's step does to the slots: it moves on, ...                   *)
LEMMA Moves ==
  ASSUME op \in [Ops -> Slots], NEW o \in Ops, NEW pc, NEW e, Goto(o, pc, e)
  PROVE  /\ op'[o].kind = op[o].kind /\ op'[o].pc = pc /\ op'[o].eng = e
         /\ \A p \in Ops : p # o => op'[p] = op[p]
         /\ pc \in Pcs /\ e \in Engines \cup {None} => op' \in [Ops -> Slots]
BY DEF Goto, Slots

(* ... returns, ...                                                         *)
LEMMA Returns ==
  ASSUME op \in [Ops -> Slots], NEW o \in Ops, Return(o)
  PROVE  /\ op'[o].kind = "none" /\ op'[o].pc = "idle" /\ op'[o].eng = None
         /\ \A p \in Ops : p # o => op'[p] = op[p]
         /\ op' \in [Ops -> Slots] /\ met' = met \ {o}
BY DEF Return, Slots, Idle, Pcs

(* ... or enters an idle slot.                                              *)
LEMMA Enters ==
  ASSUME op \in [Ops -> Slots], NEW o \in Ops, NEW kind, NEW pc, Call(o, kind, pc)
  PROVE  /\ op[o].kind = "none" /\ op[o].pc = "idle" /\ op[o].eng = None
         /\ op'[o].kind = kind /\ op'[o].pc = pc /\ op'[o].eng = None
         /\ \A p \in Ops : p # o => op'[p] = op[p]
         /\ kind \in {"start"} \cup Retirements /\ pc \in Pcs => op' \in [Ops -> Slots]
BY DEF Call, Slots, Idle

(* A teardown touches one engine: it ends it, or leaves it loose as it was. *)
LEMMA Tears ==
  ASSUME engine \in [Engines -> {"dead", "created", "launched"}], loose \in SUBSET Engines,
         NEW e \in Engines \cup {None}, NEW lost \in SUBSET Engines, Teardown(e, lost)
  PROVE  /\ engine' \in [Engines -> {"dead", "created", "launched"}] /\ loose' \in SUBSET Engines
         /\ \A f \in Engines :
              f # e => engine'[f] = engine[f] /\ (f \in loose' <=> f \in loose \/ f \in lost)
         /\ \A f \in Engines :
              f = e => engine'[f] = "dead" \/ (engine'[f] = engine[f] /\ f \in loose')
<1>1. e # None => e \in Engines
  OBVIOUS
<1>2. None \notin Engines
  BY DEF Engines, None
<1>3. CASE /\ engine' = IF e = None THEN engine ELSE [engine EXCEPT ![e] = "dead"]
           /\ loose' = (loose \cup lost) \ {e}
  <2>1. CASE e = None
    BY <1>2, <1>3, <2>1
  <2>2. CASE e # None
    BY <1>1, <1>3, <2>2
  <2> QED BY <2>1, <2>2
<1>4. CASE /\ e # None /\ engine[e] # "dead"
           /\ loose' = loose \cup lost \cup {e}
           /\ UNCHANGED engine
  BY <1>1, <1>4
<1> QED
  BY <1>3, <1>4 DEF Teardown

-----------------------------------------------------------------------------
(* The inductive invariant.  Its first part holds through every race.        *)

(* A teardown under way has ended its engine or left it loose, and a delete *)
(* that purges has removed the row.                                         *)
TornDown ==
  \A o \in Ops :
    /\ op[o].pc = "settle" => op[o].eng # None
    /\ op[o].pc \in {"unregister", "replace"} =>
         op[o].eng # None /\ (engine[op[o].eng] = "dead" \/ op[o].eng \in loose)
    /\ At(o, {"delete"}, "purge") => ~row

(* A launch that has met no other finds only its own engine registered: it  *)
(* has none up to its creation, and one from then on.                       *)
EntryHeld ==
  \A o \in InFlight :
    /\ o \notin met => registered \in {None, op[o].eng}
    /\ op[o].pc \in {"fence", "hook"} => op[o].eng = None
    /\ op[o].pc = "status" => op[o].eng # None

(* A retirement that holds the registered engine has cancelled the reconnect.*)
Held(e) ==
  \E o \in Ops : op[o].kind \in Retirements /\ op[o].pc \in {"settle", "unregister"} /\ op[o].eng = e
HeldQuiet == registered # None /\ Held(registered) => reconnect = "none"

Solid == TornDown /\ EntryHeld /\ HeldQuiet /\ NoOrphan

(* The second part holds of the states no race of Uncrossed has reached;    *)
(* those marks never go away (UncrossedBefore).                             *)

(* At most one call is between its check and its return as a launch.        *)
OneLaunch ==
  /\ \A o \in Ops : ~At(o, {"reconnect"}, "read")
  /\ \A o, p \in InFlight : o = p

(* Until it has an engine nothing is registered; from then on its engine or *)
(* nothing is, and it launches no engine beside a removal.                  *)
LaunchHolds ==
  \A o \in InFlight :
    /\ op[o].pc \in {"fence", "hook"} => registered = None
    /\ op[o].pc \in {"replace", "status", "launch", "timedout", "guard", "unregister"} =>
         op[o].eng # None /\ registered \in {None, op[o].eng}
    /\ op[o].pc = "status" => ~Alive(op[o].eng)
    /\ op[o].pc \in {"hook", "status"} => ~removing

(* Only loose engines run while credentials are removed, and one of them    *)
(* that is still registered is about to be unregistered.                    *)
Fenced == removing => \A e \in Engines : Alive(e) => e \in loose
RemovalHeld == removing /\ Live => Held(registered)

(* A retirement that has yet to capture the registered engine; one that has *)
(* yet to tear e down; a launch that has yet to look at the mark and at the *)
(* row; a delete between its mark and its transaction.                      *)
Announced == \E o \in Ops : At(o, {"stop", "delete"}, "read") \/ At(o, {"delete"}, "fence")
Captured(e) == \E o \in Ops : At(o, Controls, "settle") /\ op[o].eng = e
Unguarded == \E o \in Ops : At(o, Launchers, "launch") \/ At(o, Launchers, "guard")
Erasing == \E o \in Ops : op[o].kind = "delete" /\ op[o].pc \in {"settle", "unregister", "torn", "hook"}

(* The registered engine of a session marked as stopping has someone on the *)
(* way who unregisters it; one of a session whose row is or will be gone    *)
(* has someone who tears it down.                                           *)
StopReaches == row /\ stopping /\ Live => Announced \/ Held(registered)
DeleteReaches ==
  crossed \cap {"delete", "unread"} = {} /\ (~row \/ Erasing) =>
    \A e \in Engines : Alive(e) => e \in loose \/ Unguarded \/ Captured(e)

(* In a session marked as stopping the timer, and what a reconnect would    *)
(* arm again, are about to be cancelled; a reconnect cancelled on its way   *)
(* finds the mark, or a call that unregisters its engine.                   *)
TimerCancelled ==
  /\ "aborted" \notin crossed /\ row /\ stopping
  /\ reconnect = "timer" \/ (reconnect = "armed" /\ \E o \in Ops : op[o].kind = "reconnect")
  => Announced
ReconnectCancelled ==
  crossed = {} /\ row /\ reconnect = "none" =>
    \A o \in Ops : op[o].kind = "reconnect" =>
      /\ op[o].pc \in {"replace", "fence", "status"} => stopping
      /\ op[o].pc = "launch" /\ Live => Held(registered)

(* A launch that unregisters its engine does so under the mark, and only a  *)
(* disowned session has an engine that leaves without a word to the row.    *)
GuardStops ==
  crossed = {} /\ row => \A o \in Ops : At(o, Launchers, "unregister") => stopping
Disowned ==
  \A o \in Ops : op[o].kind = "orphan" =>
    op[o].pc = "unregister" /\ (op[o].eng = registered => "disowned" \in crossed)

(* A status READY is that of a live engine, or a call still has to write    *)
(* another, or the timer will bring an engine back.                         *)
Writing ==
  \/ Announced
  \/ \E o \in Ops : \/ op[o].kind \in Controls /\ op[o].pc \in {"settle", "unregister", "torn"}
                    \/ At(o, {"delete"}, "hook")
ReadyHeld ==
  crossed = {} /\ row /\ status = "ready" =>
    \/ Live
    \/ Writing
    \/ reconnect = "timer" /\ \A o \in Ops : ~(At(o, {"start"}, "launch") \/ At(o, {"start"}, "throw"))
    \/ \E o \in Ops :
         \/ At(o, Launchers, "timedout") \/ At(o, Launchers, "status") \/ At(o, {"start"}, "hook")
         \/ At(o, {"start"}, "throw") /\ op[o].eng # None
         \/ op[o].kind = "reconnect" /\ op[o].pc \in {"replace", "fence"} /\ reconnect # "none"

Sound ==
  /\ OneLaunch /\ LaunchHolds /\ Fenced /\ RemovalHeld /\ Disowned
  /\ StopReaches /\ DeleteReaches /\ TimerCancelled /\ ReconnectCancelled /\ GuardStops /\ ReadyHeld
IInv == TypeOK /\ Solid /\ (Uncrossed => Sound)

-----------------------------------------------------------------------------
(* Every step keeps the types.                                               *)
LEMMA TypeStep ==
  ASSUME TypeOK, EntryHeld, [Next]_vars
  PROVE  TypeOK'
<1> USE DEF At, None, Pcs, Statuses
<1>t. /\ op \in [Ops -> Slots] /\ registered \in Engines \cup {None} /\ status \in Statuses
      /\ engine \in [Engines -> {"dead", "created", "launched"}]
      /\ loose \in SUBSET Engines /\ met \subseteq Ops /\ InFlight \subseteq Ops
      /\ \A p \in Ops : op[p].eng \in Engines \cup {None}
      /\ \A p \in Ops : Displaced(p) \in SUBSET Engines
  BY DEF TypeOK, Slots, InFlight, Displaced
<1>1. ASSUME NEW o \in Ops, Starting(o) PROVE TypeOK'
  <2>1. CASE Start(o)
    BY <1>t, <2>1, Enters DEF Start, TypeOK, Slots, history
  <2>2. CASE StartRefused(o)
    BY <1>t, <2>2, Returns DEF StartRefused, TypeOK, Slots
  <2>3. CASE StartChecked(o)
    BY <1>t, <2>3, Moves DEF StartChecked, Meets, TypeOK, Slots
  <2>4. CASE StartAccepted(o)
    BY <1>t, <2>4, Moves DEF StartAccepted, TypeOK, Slots
  <2>5. CASE StartThrows(o)
    BY <1>t, <2>5, Returns DEF StartThrows, SetStatus, TypeOK, Slots
  <2> QED
    BY <1>1, <2>1, <2>2, <2>3, <2>4, <2>5 DEF Starting
<1>2. ASSUME NEW o \in Ops, Launching(o) PROVE TypeOK'
  <2>1. CASE Create(o)
    BY <1>t, <2>1, Moves DEF Create, TypeOK, Slots
  <2>2. CASE Launch(o)
    <3>1. op' \in [Ops -> Slots] /\ engine' \in [Engines -> {"dead", "created", "launched"}]
      BY <1>t, <2>2, Moves DEF Launch, Slots
    <3>2. status' \in Statuses
      BY <1>t, <2>2 DEF Launch, SetStatus
    <3>3. loose' \subseteq Engines
      BY <1>t, <2>2 DEF Launch, EntryHeld, InFlight, TypeOK
    <3> QED
      BY <2>2, <3>1, <3>2, <3>3 DEF Launch, TypeOK, Slots
  <2>3. CASE Launched(o)
    BY <1>t, <2>3, Moves DEF Launched, TypeOK, Slots, history
  <2>4. CASE LaunchTimesOut(o)
    BY <1>t, <2>4, Moves, Tears DEF LaunchTimesOut, TypeOK, Slots
  <2>5. CASE LaunchFails(o)
    BY <1>t, <2>5, Moves, Tears DEF LaunchFails, Evict, SetStatus, TypeOK, Slots
  <2>6. CASE Guard(o)
    <3>1. /\ op' \in [Ops -> Slots] /\ initializing' \in BOOLEAN /\ met' \subseteq Ops
          /\ engine' \in [Engines -> {"dead", "created", "launched"}] /\ loose' \subseteq Engines
      <4>1. CASE (stopping \/ ~row) /\ registered # None
        BY <1>t, <2>6, <4>1, Moves, Tears DEF Guard, TypeOK
      <4>2. CASE ~((stopping \/ ~row) /\ registered # None)
        BY <1>t, <2>6, <4>2, Returns DEF Guard, LaunchReturns, TypeOK
      <4> QED BY <4>1, <4>2
    <3> QED
      BY <2>6, <3>1 DEF Guard, TypeOK, Slots
  <2>7. CASE GuardUnread(o)
    BY <1>t, <2>7, Returns DEF GuardUnread, LaunchReturns, TypeOK, Slots
  <2>8. CASE GuardDone(o)
    BY <1>t, <2>8, Returns DEF GuardDone, DeleteIfLive, LaunchReturns, TypeOK, Slots
  <2> QED
    BY <1>2, <2>1, <2>2, <2>3, <2>4, <2>5, <2>6, <2>7, <2>8 DEF Launching
<1>3. ASSUME NEW o \in Ops, Reconnection(o) PROVE TypeOK'
  <2>1. CASE Reconnect(o)
    <3>1. CASE stopping
      BY <1>t, <2>1, <3>1 DEF Reconnect, TypeOK, Slots
    <3>2. CASE ~stopping
      <4>1. op' \in [Ops -> Slots]
        BY <1>t, <2>1, <3>2 DEF Reconnect, Slots
      <4>2. engine' \in [Engines -> {"dead", "created", "launched"}] /\ loose' \in SUBSET Engines
        BY <1>t, <2>1, <3>2, Tears DEF Reconnect
      <4>3. crossed' = crossed \/ crossed' = crossed \cup {"launch"}
        BY <2>1, <3>2 DEF Reconnect, Meets
      <4>4. /\ UNCHANGED <<row, status, registered, stopping, initializing, removing, met>>
            /\ reconnect' = "armed"
        BY <2>1 DEF Reconnect
      <4> QED
        BY <4>1, <4>2, <4>3, <4>4 DEF TypeOK, Slots
    <3> QED BY <3>1, <3>2
  <2>2. CASE Replaced(o)
    BY <1>t, <2>2, Moves DEF Replaced, DeleteIfLive, TypeOK, Slots, history
  <2>3. CASE ReconnectFails(o)
    BY <1>t, <2>3, Returns, Tears
       DEF ReconnectFails, Reschedule, Exhausted, Evict, SetStatus, TypeOK, Slots
  <2> QED
    BY <1>3, <2>1, <2>2, <2>3 DEF Reconnection
<1>4. ASSUME NEW o \in Ops, Retirement(o) PROVE TypeOK'
  <2>1. ASSUME NEW kind \in Controls, Retire(o, kind) PROVE TypeOK'
    <3>1. op' \in [Ops -> Slots]
      BY <1>t, <2>1, Enters DEF Retire, Controls, Retirements
    <3>2. stopping' \in BOOLEAN
      BY <2>1 DEF Retire, TypeOK, Slots
    <3> QED
      BY <2>1, <3>1, <3>2 DEF Retire, TypeOK, Slots, history
  <2>2. CASE RetireRefused(o)
    BY <1>t, <2>2, Returns DEF RetireRefused, TypeOK, Slots
  <2>3. CASE DeleteChecked(o)
    BY <1>t, <2>3, Moves DEF DeleteChecked, TypeOK, Slots, history
  <2>4. CASE RetireBegins(o)
    BY <1>t, <2>4, Moves DEF RetireBegins, TypeOK, Slots, history
  <2>5. CASE Settle(o)
    <3>1. op' \in [Ops -> Slots]
      BY <1>t, <2>5, Moves DEF Settle
    <3>2. engine' \in [Engines -> {"dead", "created", "launched"}] /\ loose' \in SUBSET Engines
      BY <1>t, <2>5, Tears DEF Settle
    <3>3. removing' \in BOOLEAN /\ (crossed' = crossed \/ crossed' = crossed \cup {"late"})
      BY <2>5 DEF Settle
    <3> QED
      BY <1>t, <2>5, <3>1, <3>2, <3>3 DEF Settle, TypeOK, Slots
  <2>6. CASE Unregister(o)
    BY <1>t, <2>6, Returns, Moves DEF Unregister, DeleteIfLive, TypeOK, Slots
  <2>7. CASE Retired(o)
    BY <1>t, <2>7, Returns DEF Retired, SetStatus, TypeOK, Slots
  <2>8. CASE DeleteRefused(o)
    BY <1>t, <2>8, Returns DEF DeleteRefused, SetStatus, TypeOK, Slots
  <2>9. CASE DeleteHook(o)
    BY <1>t, <2>9, Moves DEF DeleteHook, TypeOK, Slots, history
  <2>10. CASE DeleteRow(o)
    BY <1>t, <2>10, Moves DEF DeleteRow, TypeOK, Slots, history
  <2>11. CASE DeleteEnds(o)
    BY <1>t, <2>11, Returns DEF DeleteEnds, TypeOK, Slots
  <2>12. CASE StopOrphan(o)
    BY <1>t, <2>12, Tears DEF StopOrphan, Retirements, TypeOK, Slots
  <2> QED
    BY <1>4, <2>1, <2>2, <2>3, <2>4, <2>5, <2>6, <2>7, <2>8, <2>9, <2>10, <2>11, <2>12
       DEF Retirement
<1>5. CASE Event
  BY <1>t, <1>5, Tears DEF Event, Ready, Disconnected, EngineError, CredentialsRemoved, Live,
    Evict, Reports, SetStatus, Reschedule, Exhausted, TypeOK, Slots, history
<1>6. CASE UNCHANGED vars
  BY <1>6 DEF vars, TypeOK, Slots
<1> QED
  BY <1>1, <1>2, <1>3, <1>4, <1>5, <1>6 DEF Next

-----------------------------------------------------------------------------
(* A mark of Uncrossed stays: a step that leaves none has found none.       *)
LEMMA UncrossedBefore ==
  ASSUME Uncrossed', [Next]_vars
  PROVE  Uncrossed
<1> DEFINE Cleared == {"reported", "disowned", "aborted"}
<1>1. crossed \ Cleared \subseteq crossed'
  <2>1. ASSUME NEW o \in Ops, Starting(o) PROVE crossed \ Cleared \subseteq crossed'
    BY <2>1
       DEF Starting, Start, StartRefused, StartChecked, StartAccepted, StartThrows, Meets, history
  <2>2. ASSUME NEW o \in Ops, Launching(o) PROVE crossed \subseteq crossed'
    BY <2>2
       DEF Launching, Create, Launch, Launched, LaunchTimesOut, LaunchFails, Guard, GuardUnread,
       GuardDone, history
  <2>3. ASSUME NEW o \in Ops, Reconnection(o) PROVE crossed \subseteq crossed'
    BY <2>3 DEF Reconnection, Reconnect, Replaced, ReconnectFails, Meets, history
  <2>4. ASSUME NEW o \in Ops, Retirement(o) PROVE crossed \subseteq crossed'
    BY <2>4
       DEF Retirement, Retire, RetireRefused, DeleteChecked, RetireBegins, Settle, Unregister,
       Retired, DeleteRefused, DeleteHook, DeleteRow, DeleteEnds, StopOrphan, history
  <2>5. CASE Event
    BY <2>5 DEF Event, Ready, Disconnected, EngineError, CredentialsRemoved, Reports, history
  <2>6. CASE UNCHANGED vars
    BY <2>6 DEF vars
  <2> QED
    BY <2>1, <2>2, <2>3, <2>4, <2>5, <2>6 DEF Next
<1> QED
  BY <1>1 DEF Uncrossed

-----------------------------------------------------------------------------

(* No step brings an engine back that has been torn down without leaving it *)
(* loose: Create takes a free one, and Launch counts the dead one as loose. *)
LEMMA TornDownKept ==
  ASSUME TypeOK, TypeOK', TornDown, [Next]_vars
  PROVE  TornDown'
<1> USE DEF At, None, history
<1>t. /\ op \in [Ops -> Slots] /\ op' \in [Ops -> Slots]
      /\ \A p \in Ops : /\ op[p].kind \in {"none", "start", "reconnect"} \cup Retirements
                        /\ op[p].eng \in Engines \cup {None}
      /\ engine \in [Engines -> {"dead", "created", "launched"}] /\ loose \in SUBSET Engines
      /\ registered \in Engines \cup {None} /\ registered' \in Engines \cup {None}
      /\ None \notin Engines /\ reconnect \in {"none", "armed", "timer"}
      /\ stopping \in BOOLEAN /\ stopping' \in BOOLEAN /\ removing \in BOOLEAN /\ row \in BOOLEAN
      /\ \A p \in Ops : Displaced(p) \in SUBSET Engines
  BY DEF TypeOK, Slots, Engines, Displaced
<1>1. ASSUME NEW o \in Ops, Starting(o) PROVE TornDown'
  <2>1. CASE Start(o)
    BY <1>t, <2>1, Enters DEF Start, TornDown
  <2>2. CASE StartRefused(o)
    BY <1>t, <2>2, Returns DEF StartRefused, TornDown
  <2>3. CASE StartChecked(o)
    BY <1>t, <2>3, Moves DEF StartChecked, TornDown
  <2>4. CASE StartAccepted(o)
    BY <1>t, <2>4, Moves DEF StartAccepted, TornDown
  <2>5. CASE StartThrows(o)
    BY <1>t, <2>5, Returns DEF StartThrows, TornDown
  <2> QED
    BY <1>1, <2>1, <2>2, <2>3, <2>4, <2>5 DEF Starting
<1>2. ASSUME NEW o \in Ops, Launching(o) PROVE TornDown'
  <2>1. CASE Create(o)
    BY <1>t, <2>1, Moves DEF Create, TornDown, Free
  <2>2. CASE Launch(o)
    BY <1>t, <2>2, Moves DEF Launch, TornDown
  <2>3. CASE Launched(o)
    BY <1>t, <2>3, Moves DEF Launched, TornDown
  <2>4. CASE LaunchTimesOut(o)
    <3>1. \A p \in Ops :
            /\ op'[p].kind = op[p].kind
            /\ op'[p].pc \in {"settle", "unregister", "replace", "purge"} => op'[p] = op[p]
      BY <1>t, <2>4, Moves DEF LaunchTimesOut
    <3>2. \A e \in Engines : engine[e] = "dead" \/ e \in loose => engine'[e] = "dead" \/ e \in loose'
      BY <1>t, <2>4, Tears DEF LaunchTimesOut
    <3> QED
      BY <1>t, <2>4, <3>1, <3>2 DEF LaunchTimesOut, TornDown
  <2>5. CASE LaunchFails(o)
    <3>1. \A p \in Ops :
            /\ op'[p].kind = op[p].kind
            /\ op'[p].pc \in {"settle", "unregister", "replace", "purge"} => op'[p] = op[p]
      BY <1>t, <2>5, Moves DEF LaunchFails
    <3>2. \A e \in Engines : engine[e] = "dead" \/ e \in loose => engine'[e] = "dead" \/ e \in loose'
      BY <1>t, <2>5, Tears DEF LaunchFails, Evict
    <3> QED
      BY <1>t, <2>5, <3>1, <3>2 DEF LaunchFails, TornDown
  <2>6. CASE Guard(o)
    BY <1>t, <2>6, Moves, Returns, Tears DEF Guard, LaunchReturns, TornDown
  <2>7. CASE GuardUnread(o)
    BY <1>t, <2>7, Returns DEF GuardUnread, LaunchReturns, TornDown
  <2>8. CASE GuardDone(o)
    BY <1>t, <2>8, Returns DEF GuardDone, DeleteIfLive, LaunchReturns, TornDown
  <2> QED
    BY <1>2, <2>1, <2>2, <2>3, <2>4, <2>5, <2>6, <2>7, <2>8 DEF Launching
<1>3. ASSUME NEW o \in Ops, Reconnection(o) PROVE TornDown'
  <2>1. CASE Reconnect(o)
    BY <1>t, <2>1, Tears DEF Reconnect, TornDown
  <2>2. CASE Replaced(o)
    BY <1>t, <2>2, Moves DEF Replaced, DeleteIfLive, TornDown
  <2>3. CASE ReconnectFails(o)
    BY <1>t, <2>3, Returns, Tears DEF ReconnectFails, Exhausted, Evict, TornDown
  <2> QED
    BY <1>3, <2>1, <2>2, <2>3 DEF Reconnection
<1>4. ASSUME NEW o \in Ops, Retirement(o) PROVE TornDown'
  <2>1. ASSUME NEW kind \in Controls, Retire(o, kind) PROVE TornDown'
    BY <1>t, <2>1, Enters DEF Retire, Controls, TornDown
  <2>2. CASE RetireRefused(o)
    BY <1>t, <2>2, Returns DEF RetireRefused, TornDown
  <2>3. CASE DeleteChecked(o)
    BY <1>t, <2>3, Moves DEF DeleteChecked, TornDown
  <2>4. CASE RetireBegins(o)
    BY <1>t, <2>4, Moves DEF RetireBegins, TornDown
  <2>5. CASE Settle(o)
    BY <1>t, <2>5, Moves, Tears DEF Settle, TornDown
  <2>6. CASE Unregister(o)
    BY <1>t, <2>6, Returns, Moves DEF Unregister, DeleteIfLive, TornDown
  <2>7. CASE Retired(o)
    BY <1>t, <2>7, Returns DEF Retired, TornDown
  <2>8. CASE DeleteRefused(o)
    BY <1>t, <2>8, Returns DEF DeleteRefused, TornDown
  <2>9. CASE DeleteHook(o)
    BY <1>t, <2>9, Moves DEF DeleteHook, TornDown
  <2>10. CASE DeleteRow(o)
    BY <1>t, <2>10, Moves DEF DeleteRow, TornDown
  <2>11. CASE DeleteEnds(o)
    BY <1>t, <2>11, Returns DEF DeleteEnds, TornDown
  <2>12. CASE StopOrphan(o)
    BY <1>t, <2>12, Tears DEF StopOrphan, TornDown
  <2> QED
    BY <1>4, <2>1, <2>2, <2>3, <2>4, <2>5, <2>6, <2>7, <2>8, <2>9, <2>10, <2>11, <2>12
       DEF Retirement
<1>5. CASE Disconnected
  BY <1>t, <1>5, Tears DEF Disconnected, Live, Exhausted, Evict, TornDown
<1>6. CASE Ready
  BY <1>t, <1>6 DEF Ready, Live, TornDown
<1>7. CASE EngineError
  BY <1>t, <1>7, Tears DEF EngineError, Live, Evict, TornDown
<1>8. CASE CredentialsRemoved
  BY <1>t, <1>8 DEF CredentialsRemoved, TornDown
<1>9. CASE UNCHANGED vars
  BY <1>9 DEF vars, TornDown
<1> QED
  BY <1>1, <1>2, <1>3, <1>4, <1>5, <1>6, <1>7, <1>8, <1>9 DEF Next, Event

(* Only a launch registers, and the launches under way then have met it.    *)
LEMMA EntryHeldKept ==
  ASSUME TypeOK, TypeOK', EntryHeld, [Next]_vars
  PROVE  EntryHeld'
<1> USE DEF At, None, history
<1>t. /\ op \in [Ops -> Slots] /\ op' \in [Ops -> Slots]
      /\ \A p \in Ops : /\ op[p].kind \in {"none", "start", "reconnect"} \cup Retirements
                        /\ op[p].eng \in Engines \cup {None}
      /\ engine \in [Engines -> {"dead", "created", "launched"}] /\ loose \in SUBSET Engines
      /\ registered \in Engines \cup {None} /\ registered' \in Engines \cup {None}
      /\ None \notin Engines /\ reconnect \in {"none", "armed", "timer"}
      /\ stopping \in BOOLEAN /\ stopping' \in BOOLEAN /\ removing \in BOOLEAN /\ row \in BOOLEAN
      /\ \A p \in Ops : Displaced(p) \in SUBSET Engines
  BY DEF TypeOK, Slots, Engines, Displaced
<1>1. ASSUME NEW o \in Ops, Starting(o) PROVE EntryHeld'
  <2>1. CASE Start(o)
    BY <1>t, <2>1, Enters DEF Start, EntryHeld, InFlight, Launchers
  <2>2. CASE StartRefused(o)
    BY <1>t, <2>2, Returns DEF StartRefused, EntryHeld, InFlight, Launchers
  <2>3. CASE StartChecked(o)
    BY <1>t, <2>3, Moves DEF StartChecked, EntryHeld, InFlight, Launchers
  <2>4. CASE StartAccepted(o)
    BY <1>t, <2>4, Moves DEF StartAccepted, EntryHeld, InFlight, Launchers
  <2>5. CASE StartThrows(o)
    BY <1>t, <2>5, Returns DEF StartThrows, EntryHeld, InFlight, Launchers
  <2> QED
    BY <1>1, <2>1, <2>2, <2>3, <2>4, <2>5 DEF Starting
<1>2. ASSUME NEW o \in Ops, Launching(o) PROVE EntryHeld'
  <2>1. CASE Create(o)
    BY <1>t, <2>1, Moves DEF Create, EntryHeld, InFlight, Launchers, Engines
  <2>2. CASE Launch(o)
    BY <1>t, <2>2, Moves DEF Launch, EntryHeld, InFlight, Launchers
  <2>3. CASE Launched(o)
    BY <1>t, <2>3, Moves DEF Launched, EntryHeld, InFlight, Launchers
  <2>4. CASE LaunchTimesOut(o)
    BY <1>t, <2>4, Moves, Tears DEF LaunchTimesOut, EntryHeld, InFlight, Launchers
  <2>5. CASE LaunchFails(o)
    BY <1>t, <2>5, Moves, Tears DEF LaunchFails, Evict, EntryHeld, InFlight, Launchers
  <2>6. CASE Guard(o)
    BY <1>t, <2>6, Moves, Returns, Tears
       DEF Guard, LaunchReturns, EntryHeld, InFlight, Launchers
  <2>7. CASE GuardUnread(o)
    BY <1>t, <2>7, Returns DEF GuardUnread, LaunchReturns, EntryHeld, InFlight, Launchers
  <2>8. CASE GuardDone(o)
    BY <1>t, <2>8, Returns
       DEF GuardDone, DeleteIfLive, LaunchReturns, EntryHeld, InFlight, Launchers
  <2> QED
    BY <1>2, <2>1, <2>2, <2>3, <2>4, <2>5, <2>6, <2>7, <2>8 DEF Launching
<1>3. ASSUME NEW o \in Ops, Reconnection(o) PROVE EntryHeld'
  <2>1. CASE Reconnect(o)
    BY <1>t, <2>1, Tears DEF Reconnect, EntryHeld, InFlight, Launchers
  <2>2. CASE Replaced(o)
    BY <1>t, <2>2, Moves DEF Replaced, DeleteIfLive, EntryHeld, InFlight, Launchers
  <2>3. CASE ReconnectFails(o)
    BY <1>t, <2>3, Returns, Tears
       DEF ReconnectFails, Exhausted, Evict, EntryHeld, InFlight, Launchers
  <2> QED
    BY <1>3, <2>1, <2>2, <2>3 DEF Reconnection
<1>4. ASSUME NEW o \in Ops, Retirement(o) PROVE EntryHeld'
  <2>1. ASSUME NEW kind \in Controls, Retire(o, kind) PROVE EntryHeld'
    BY <1>t, <2>1, Enters DEF Retire, Controls, EntryHeld, InFlight, Launchers
  <2>2. CASE RetireRefused(o)
    BY <1>t, <2>2, Returns DEF RetireRefused, EntryHeld, InFlight, Launchers
  <2>3. CASE DeleteChecked(o)
    BY <1>t, <2>3, Moves DEF DeleteChecked, EntryHeld, InFlight, Launchers
  <2>4. CASE RetireBegins(o)
    BY <1>t, <2>4, Moves DEF RetireBegins, EntryHeld, InFlight, Launchers
  <2>5. CASE Settle(o)
    BY <1>t, <2>5, Moves, Tears DEF Settle, EntryHeld, InFlight, Launchers
  <2>6. CASE Unregister(o)
    BY <1>t, <2>6, Returns, Moves DEF Unregister, DeleteIfLive, EntryHeld, InFlight, Launchers
  <2>7. CASE Retired(o)
    BY <1>t, <2>7, Returns DEF Retired, EntryHeld, InFlight, Launchers
  <2>8. CASE DeleteRefused(o)
    BY <1>t, <2>8, Returns DEF DeleteRefused, EntryHeld, InFlight, Launchers
  <2>9. CASE DeleteHook(o)
    BY <1>t, <2>9, Moves DEF DeleteHook, EntryHeld, InFlight, Launchers
  <2>10. CASE DeleteRow(o)
    BY <1>t, <2>10, Moves DEF DeleteRow, EntryHeld, InFlight, Launchers
  <2>11. CASE DeleteEnds(o)
    BY <1>t, <2>11, Returns DEF DeleteEnds, EntryHeld, InFlight, Launchers
  <2>12. CASE StopOrphan(o)
    BY <1>t, <2>12, Tears DEF StopOrphan, EntryHeld, InFlight, Launchers
  <2> QED
    BY <1>4, <2>1, <2>2, <2>3, <2>4, <2>5, <2>6, <2>7, <2>8, <2>9, <2>10, <2>11, <2>12
       DEF Retirement
<1>5. CASE Disconnected
  BY <1>t, <1>5, Tears DEF Disconnected, Live, Exhausted, Evict, EntryHeld, InFlight, Launchers
<1>6. CASE Ready
  BY <1>t, <1>6 DEF Ready, Live, EntryHeld, InFlight, Launchers
<1>7. CASE EngineError
  BY <1>t, <1>7, Tears DEF EngineError, Live, Evict, EntryHeld, InFlight, Launchers
<1>8. CASE CredentialsRemoved
  BY <1>t, <1>8 DEF CredentialsRemoved, EntryHeld, InFlight, Launchers
<1>9. CASE UNCHANGED vars
  BY <1>9 DEF vars, EntryHeld, InFlight, Launchers
<1> QED
  BY <1>1, <1>2, <1>3, <1>4, <1>5, <1>6, <1>7, <1>8, <1>9 DEF Next, Event

(* A retirement cancels the reconnect as it captures the engine, and the    *)
(* reconnect state only comes back with an engine of its own.               *)
LEMMA HeldQuietKept ==
  ASSUME TypeOK, TypeOK', HeldQuiet, [Next]_vars
  PROVE  HeldQuiet'
<1> USE DEF At, None, history
<1>t. /\ op \in [Ops -> Slots] /\ op' \in [Ops -> Slots]
      /\ \A p \in Ops : /\ op[p].kind \in {"none", "start", "reconnect"} \cup Retirements
                        /\ op[p].eng \in Engines \cup {None}
      /\ engine \in [Engines -> {"dead", "created", "launched"}] /\ loose \in SUBSET Engines
      /\ registered \in Engines \cup {None} /\ registered' \in Engines \cup {None}
      /\ None \notin Engines /\ reconnect \in {"none", "armed", "timer"}
      /\ stopping \in BOOLEAN /\ stopping' \in BOOLEAN /\ removing \in BOOLEAN /\ row \in BOOLEAN
      /\ \A p \in Ops : Displaced(p) \in SUBSET Engines
  BY DEF TypeOK, Slots, Engines, Displaced
<1>1. ASSUME NEW o \in Ops, Starting(o) PROVE HeldQuiet'
  <2>1. CASE Start(o)
    BY <1>t, <2>1, Enters DEF Start, HeldQuiet, Held
  <2>2. CASE StartRefused(o)
    BY <1>t, <2>2, Returns DEF StartRefused, HeldQuiet, Held
  <2>3. CASE StartChecked(o)
    BY <1>t, <2>3, Moves DEF StartChecked, HeldQuiet, Held
  <2>4. CASE StartAccepted(o)
    BY <1>t, <2>4, Moves DEF StartAccepted, HeldQuiet, Held
  <2>5. CASE StartThrows(o)
    BY <1>t, <2>5, Returns DEF StartThrows, HeldQuiet, Held
  <2> QED
    BY <1>1, <2>1, <2>2, <2>3, <2>4, <2>5 DEF Starting
<1>2. ASSUME NEW o \in Ops, Launching(o) PROVE HeldQuiet'
  <2>1. CASE Create(o)
    BY <1>t, <2>1, Moves DEF Create, HeldQuiet, Held, Free
  <2>2. CASE Launch(o)
    BY <1>t, <2>2, Moves DEF Launch, HeldQuiet, Held
  <2>3. CASE Launched(o)
    BY <1>t, <2>3, Moves DEF Launched, HeldQuiet, Held
  <2>4. CASE LaunchTimesOut(o)
    BY <1>t, <2>4, Moves, Tears DEF LaunchTimesOut, HeldQuiet, Held
  <2>5. CASE LaunchFails(o)
    BY <1>t, <2>5, Moves, Tears DEF LaunchFails, Evict, HeldQuiet, Held
  <2>6. CASE Guard(o)
    BY <1>t, <2>6, Moves, Returns, Tears
       DEF Guard, LaunchReturns, HeldQuiet, Held, Retirements, Launchers
  <2>7. CASE GuardUnread(o)
    BY <1>t, <2>7, Returns DEF GuardUnread, LaunchReturns, HeldQuiet, Held
  <2>8. CASE GuardDone(o)
    BY <1>t, <2>8, Returns DEF GuardDone, DeleteIfLive, LaunchReturns, HeldQuiet, Held
  <2> QED
    BY <1>2, <2>1, <2>2, <2>3, <2>4, <2>5, <2>6, <2>7, <2>8 DEF Launching
<1>3. ASSUME NEW o \in Ops, Reconnection(o) PROVE HeldQuiet'
  <2>1. CASE Reconnect(o)
    BY <1>t, <2>1, Tears DEF Reconnect, HeldQuiet, Held, Retirements
  <2>2. CASE Replaced(o)
    BY <1>t, <2>2, Moves DEF Replaced, DeleteIfLive, HeldQuiet, Held
  <2>3. CASE ReconnectFails(o)
    BY <1>t, <2>3, Returns, Tears
       DEF ReconnectFails, Exhausted, Evict, HeldQuiet, Held, Reschedule
  <2> QED
    BY <1>3, <2>1, <2>2, <2>3 DEF Reconnection
<1>4. ASSUME NEW o \in Ops, Retirement(o) PROVE HeldQuiet'
  <2>1. ASSUME NEW kind \in Controls, Retire(o, kind) PROVE HeldQuiet'
    BY <1>t, <2>1, Enters DEF Retire, Controls, HeldQuiet, Held
  <2>2. CASE RetireRefused(o)
    BY <1>t, <2>2, Returns DEF RetireRefused, HeldQuiet, Held
  <2>3. CASE DeleteChecked(o)
    BY <1>t, <2>3, Moves DEF DeleteChecked, HeldQuiet, Held
  <2>4. CASE RetireBegins(o)
    BY <1>t, <2>4, Moves DEF RetireBegins, HeldQuiet, Held
  <2>5. CASE Settle(o)
    BY <1>t, <2>5, Moves, Tears DEF Settle, HeldQuiet, Held
  <2>6. CASE Unregister(o)
    BY <1>t, <2>6, Returns, Moves DEF Unregister, DeleteIfLive, HeldQuiet, Held
  <2>7. CASE Retired(o)
    BY <1>t, <2>7, Returns DEF Retired, HeldQuiet, Held
  <2>8. CASE DeleteRefused(o)
    BY <1>t, <2>8, Returns DEF DeleteRefused, HeldQuiet, Held
  <2>9. CASE DeleteHook(o)
    BY <1>t, <2>9, Moves DEF DeleteHook, HeldQuiet, Held
  <2>10. CASE DeleteRow(o)
    BY <1>t, <2>10, Moves DEF DeleteRow, HeldQuiet, Held
  <2>11. CASE DeleteEnds(o)
    BY <1>t, <2>11, Returns DEF DeleteEnds, HeldQuiet, Held
  <2>12. CASE StopOrphan(o)
    BY <1>t, <2>12, Tears DEF StopOrphan, HeldQuiet, Held
  <2> QED
    BY <1>4, <2>1, <2>2, <2>3, <2>4, <2>5, <2>6, <2>7, <2>8, <2>9, <2>10, <2>11, <2>12
       DEF Retirement
<1>5. CASE Disconnected
  BY <1>t, <1>5, Tears DEF Disconnected, Live, Exhausted, Evict, HeldQuiet, Held, Reschedule
<1>6. CASE Ready
  BY <1>t, <1>6 DEF Ready, Live, HeldQuiet, Held
<1>7. CASE EngineError
  BY <1>t, <1>7, Tears DEF EngineError, Live, Evict, HeldQuiet, Held
<1>8. CASE CredentialsRemoved
  BY <1>t, <1>8 DEF CredentialsRemoved, HeldQuiet, Held
<1>9. CASE UNCHANGED vars
  BY <1>9 DEF vars, HeldQuiet, Held
<1> QED
  BY <1>1, <1>2, <1>3, <1>4, <1>5, <1>6, <1>7, <1>8, <1>9 DEF Next, Event

(* Who clears or overwrites the registry entry has torn its engine down or  *)
(* has met it, and no launch runs an engine that is not in it.              *)
LEMMA NoOrphanKept ==
  ASSUME TypeOK, TypeOK', TornDown, EntryHeld, NoOrphan, [Next]_vars
  PROVE  NoOrphan'
<1> USE DEF At, None, history
<1>t. /\ op \in [Ops -> Slots] /\ op' \in [Ops -> Slots]
      /\ \A p \in Ops : /\ op[p].kind \in {"none", "start", "reconnect"} \cup Retirements
                        /\ op[p].eng \in Engines \cup {None}
      /\ engine \in [Engines -> {"dead", "created", "launched"}] /\ loose \in SUBSET Engines
      /\ registered \in Engines \cup {None} /\ registered' \in Engines \cup {None}
      /\ None \notin Engines /\ reconnect \in {"none", "armed", "timer"}
      /\ stopping \in BOOLEAN /\ stopping' \in BOOLEAN /\ removing \in BOOLEAN /\ row \in BOOLEAN
      /\ \A p \in Ops : Displaced(p) \in SUBSET Engines
  BY DEF TypeOK, Slots, Engines, Displaced
<1>1. ASSUME NEW o \in Ops, Starting(o) PROVE NoOrphan'
  <2>1. CASE Start(o)
    BY <1>t, <2>1, Enters DEF Start, NoOrphan, Alive
  <2>2. CASE StartRefused(o)
    BY <1>t, <2>2, Returns DEF StartRefused, NoOrphan, Alive
  <2>3. CASE StartChecked(o)
    BY <1>t, <2>3, Moves DEF StartChecked, NoOrphan, Alive
  <2>4. CASE StartAccepted(o)
    BY <1>t, <2>4, Moves DEF StartAccepted, NoOrphan, Alive
  <2>5. CASE StartThrows(o)
    BY <1>t, <2>5, Returns DEF StartThrows, NoOrphan, Alive
  <2> QED
    BY <1>1, <2>1, <2>2, <2>3, <2>4, <2>5 DEF Starting
<1>2. ASSUME NEW o \in Ops, Launching(o) PROVE NoOrphan'
  <2>1. CASE Create(o)
    BY <1>t, <2>1, Moves
       DEF Create, NoOrphan, Alive, EntryHeld, InFlight, Launchers, Displaced, Free
  <2>2. CASE Launch(o)
    BY <1>t, <2>2, Moves DEF Launch, NoOrphan, Alive
  <2>3. CASE Launched(o)
    BY <1>t, <2>3, Moves DEF Launched, NoOrphan, Alive
  <2>4. CASE LaunchTimesOut(o)
    <3>1. Teardown(op[o].eng, Displaced(o)) /\ registered' = None
      BY <2>4 DEF LaunchTimesOut
    <3>2. op[o].eng \in Engines \cup {None} /\ Displaced(o) \in SUBSET Engines
      BY <1>t
    <3>3. registered \in {None, op[o].eng} \cup Displaced(o)
      BY <1>t, <2>4 DEF LaunchTimesOut, EntryHeld, InFlight, Launchers, Displaced
    <3>4. ASSUME NEW e \in Engines, Alive(e)' PROVE e \in loose'
      <4>1. CASE e = op[o].eng
        BY <1>t, <3>1, <3>2, <3>4, <4>1, Tears DEF Alive
      <4>2. CASE e # op[o].eng
        <5>1. engine'[e] = engine[e] /\ (e \in loose' <=> e \in loose \/ e \in Displaced(o))
          BY <1>t, <3>1, <3>2, <4>2, Tears
        <5> QED
          BY <1>t, <3>3, <3>4, <4>2, <5>1 DEF Alive, NoOrphan
      <4> QED
        BY <4>1, <4>2
    <3> QED
      BY <3>4 DEF NoOrphan
  <2>5. CASE LaunchFails(o)
    BY <1>t, <2>5, Moves, Tears DEF LaunchFails, Evict, NoOrphan, Alive
  <2>6. CASE Guard(o)
    BY <1>t, <2>6, Moves, Returns, Tears DEF Guard, LaunchReturns, NoOrphan, Alive
  <2>7. CASE GuardUnread(o)
    BY <1>t, <2>7, Returns DEF GuardUnread, LaunchReturns, NoOrphan, Alive
  <2>8. CASE GuardDone(o)
    BY <1>t, <2>8, Returns DEF GuardDone, DeleteIfLive, LaunchReturns, NoOrphan, Alive, TornDown
  <2> QED
    BY <1>2, <2>1, <2>2, <2>3, <2>4, <2>5, <2>6, <2>7, <2>8 DEF Launching
<1>3. ASSUME NEW o \in Ops, Reconnection(o) PROVE NoOrphan'
  <2>1. CASE Reconnect(o)
    BY <1>t, <2>1, Tears DEF Reconnect, NoOrphan, Alive
  <2>2. CASE Replaced(o)
    BY <1>t, <2>2, Moves DEF Replaced, DeleteIfLive, NoOrphan, Alive, TornDown
  <2>3. CASE ReconnectFails(o)
    BY <1>t, <2>3, Returns, Tears DEF ReconnectFails, Exhausted, Evict, NoOrphan, Alive
  <2> QED
    BY <1>3, <2>1, <2>2, <2>3 DEF Reconnection
<1>4. ASSUME NEW o \in Ops, Retirement(o) PROVE NoOrphan'
  <2>1. ASSUME NEW kind \in Controls, Retire(o, kind) PROVE NoOrphan'
    BY <1>t, <2>1, Enters DEF Retire, Controls, NoOrphan, Alive
  <2>2. CASE RetireRefused(o)
    BY <1>t, <2>2, Returns DEF RetireRefused, NoOrphan, Alive
  <2>3. CASE DeleteChecked(o)
    BY <1>t, <2>3, Moves DEF DeleteChecked, NoOrphan, Alive
  <2>4. CASE RetireBegins(o)
    BY <1>t, <2>4, Moves DEF RetireBegins, NoOrphan, Alive
  <2>5. CASE Settle(o)
    BY <1>t, <2>5, Moves, Tears DEF Settle, NoOrphan, Alive
  <2>6. CASE Unregister(o)
    BY <1>t, <2>6, Returns, Moves DEF Unregister, DeleteIfLive, NoOrphan, Alive, TornDown
  <2>7. CASE Retired(o)
    BY <1>t, <2>7, Returns DEF Retired, NoOrphan, Alive
  <2>8. CASE DeleteRefused(o)
    BY <1>t, <2>8, Returns DEF DeleteRefused, NoOrphan, Alive
  <2>9. CASE DeleteHook(o)
    BY <1>t, <2>9, Moves DEF DeleteHook, NoOrphan, Alive
  <2>10. CASE DeleteRow(o)
    BY <1>t, <2>10, Moves DEF DeleteRow, NoOrphan, Alive
  <2>11. CASE DeleteEnds(o)
    BY <1>t, <2>11, Returns DEF DeleteEnds, NoOrphan, Alive
  <2>12. CASE StopOrphan(o)
    BY <1>t, <2>12, Tears DEF StopOrphan, NoOrphan, Alive
  <2> QED
    BY <1>4, <2>1, <2>2, <2>3, <2>4, <2>5, <2>6, <2>7, <2>8, <2>9, <2>10, <2>11, <2>12
       DEF Retirement
<1>5. CASE Disconnected
  BY <1>t, <1>5, Tears DEF Disconnected, Live, Exhausted, Evict, NoOrphan, Alive
<1>6. CASE Ready
  BY <1>t, <1>6 DEF Ready, Live, NoOrphan, Alive
<1>7. CASE EngineError
  BY <1>t, <1>7, Tears DEF EngineError, Live, Evict, NoOrphan, Alive
<1>8. CASE CredentialsRemoved
  BY <1>t, <1>8 DEF CredentialsRemoved, NoOrphan, Alive
<1>9. CASE UNCHANGED vars
  BY <1>9 DEF vars, NoOrphan, Alive
<1> QED
  BY <1>1, <1>2, <1>3, <1>4, <1>5, <1>6, <1>7, <1>8, <1>9 DEF Next, Event

(* No launch enters beside another: start and the timer look for one first, *)
(* and who finds one marks the race.                                        *)
LEMMA OneLaunchKept ==
  ASSUME TypeOK, TypeOK', OneLaunch, Uncrossed', [Next]_vars
  PROVE  OneLaunch'
<1> USE DEF At, None, history
<1>t. /\ op \in [Ops -> Slots] /\ op' \in [Ops -> Slots]
      /\ \A p \in Ops : /\ op[p].kind \in {"none", "start", "reconnect"} \cup Retirements
                        /\ op[p].eng \in Engines \cup {None}
      /\ engine \in [Engines -> {"dead", "created", "launched"}] /\ loose \in SUBSET Engines
      /\ registered \in Engines \cup {None} /\ registered' \in Engines \cup {None}
      /\ None \notin Engines /\ reconnect \in {"none", "armed", "timer"}
      /\ stopping \in BOOLEAN /\ stopping' \in BOOLEAN /\ removing \in BOOLEAN /\ row \in BOOLEAN
      /\ \A p \in Ops : Displaced(p) \in SUBSET Engines
  BY DEF TypeOK, Slots, Engines, Displaced
<1>1. ASSUME NEW o \in Ops, Starting(o) PROVE OneLaunch'
  <2>1. CASE Start(o)
    BY <1>t, <2>1, Enters DEF Start, OneLaunch, InFlight, Launchers
  <2>2. CASE StartRefused(o)
    BY <1>t, <2>2, Returns DEF StartRefused, OneLaunch, InFlight, Launchers
  <2>3. CASE StartChecked(o)
    BY <1>t, <2>3, Moves DEF StartChecked, OneLaunch, InFlight, Launchers, Meets, Uncrossed
  <2>4. CASE StartAccepted(o)
    BY <1>t, <2>4, Moves DEF StartAccepted, OneLaunch, InFlight, Launchers
  <2>5. CASE StartThrows(o)
    BY <1>t, <2>5, Returns DEF StartThrows, OneLaunch, InFlight, Launchers
  <2> QED
    BY <1>1, <2>1, <2>2, <2>3, <2>4, <2>5 DEF Starting
<1>2. ASSUME NEW o \in Ops, Launching(o) PROVE OneLaunch'
  <2>1. CASE Create(o)
    BY <1>t, <2>1, Moves DEF Create, OneLaunch, InFlight, Launchers
  <2>2. CASE Launch(o)
    BY <1>t, <2>2, Moves DEF Launch, OneLaunch, InFlight, Launchers
  <2>3. CASE Launched(o)
    BY <1>t, <2>3, Moves DEF Launched, OneLaunch, InFlight, Launchers
  <2>4. CASE LaunchTimesOut(o)
    BY <1>t, <2>4, Moves, Tears DEF LaunchTimesOut, OneLaunch, InFlight, Launchers
  <2>5. CASE LaunchFails(o)
    BY <1>t, <2>5, Moves, Tears DEF LaunchFails, Evict, OneLaunch, InFlight, Launchers
  <2>6. CASE Guard(o)
    BY <1>t, <2>6, Moves, Returns, Tears
       DEF Guard, LaunchReturns, OneLaunch, InFlight, Launchers
  <2>7. CASE GuardUnread(o)
    BY <1>t, <2>7, Returns DEF GuardUnread, LaunchReturns, OneLaunch, InFlight, Launchers
  <2>8. CASE GuardDone(o)
    BY <1>t, <2>8, Returns
       DEF GuardDone, DeleteIfLive, LaunchReturns, OneLaunch, InFlight, Launchers
  <2> QED
    BY <1>2, <2>1, <2>2, <2>3, <2>4, <2>5, <2>6, <2>7, <2>8 DEF Launching
<1>3. ASSUME NEW o \in Ops, Reconnection(o) PROVE OneLaunch'
  <2>1. CASE Reconnect(o)
    <3>1. \A p \in Ops : p # o => op'[p] = op[p]
      BY <1>t, <2>1 DEF Reconnect
    <3>2. op' = op \/ (InFlight = {} /\ op'[o].pc # "read")
      BY <1>t, <2>1 DEF Reconnect, Meets, Uncrossed
    <3> QED
      BY <1>t, <3>1, <3>2 DEF OneLaunch, InFlight, Launchers
  <2>2. CASE Replaced(o)
    BY <1>t, <2>2, Moves DEF Replaced, DeleteIfLive, OneLaunch, InFlight, Launchers
  <2>3. CASE ReconnectFails(o)
    BY <1>t, <2>3, Returns, Tears
       DEF ReconnectFails, Exhausted, Evict, OneLaunch, InFlight, Launchers
  <2> QED
    BY <1>3, <2>1, <2>2, <2>3 DEF Reconnection
<1>4. ASSUME NEW o \in Ops, Retirement(o) PROVE OneLaunch'
  <2>1. ASSUME NEW kind \in Controls, Retire(o, kind) PROVE OneLaunch'
    BY <1>t, <2>1, Enters DEF Retire, Controls, OneLaunch, InFlight, Launchers
  <2>2. CASE RetireRefused(o)
    BY <1>t, <2>2, Returns DEF RetireRefused, OneLaunch, InFlight, Launchers
  <2>3. CASE DeleteChecked(o)
    BY <1>t, <2>3, Moves DEF DeleteChecked, OneLaunch, InFlight, Launchers
  <2>4. CASE RetireBegins(o)
    BY <1>t, <2>4, Moves DEF RetireBegins, OneLaunch, InFlight, Launchers
  <2>5. CASE Settle(o)
    BY <1>t, <2>5, Moves, Tears DEF Settle, OneLaunch, InFlight, Launchers
  <2>6. CASE Unregister(o)
    BY <1>t, <2>6, Returns, Moves DEF Unregister, DeleteIfLive, OneLaunch, InFlight, Launchers
  <2>7. CASE Retired(o)
    BY <1>t, <2>7, Returns DEF Retired, OneLaunch, InFlight, Launchers
  <2>8. CASE DeleteRefused(o)
    BY <1>t, <2>8, Returns DEF DeleteRefused, OneLaunch, InFlight, Launchers
  <2>9. CASE DeleteHook(o)
    BY <1>t, <2>9, Moves DEF DeleteHook, OneLaunch, InFlight, Launchers
  <2>10. CASE DeleteRow(o)
    BY <1>t, <2>10, Moves DEF DeleteRow, OneLaunch, InFlight, Launchers
  <2>11. CASE DeleteEnds(o)
    BY <1>t, <2>11, Returns DEF DeleteEnds, OneLaunch, InFlight, Launchers
  <2>12. CASE StopOrphan(o)
    BY <1>t, <2>12, Tears DEF StopOrphan, OneLaunch, InFlight, Launchers
  <2> QED
    BY <1>4, <2>1, <2>2, <2>3, <2>4, <2>5, <2>6, <2>7, <2>8, <2>9, <2>10, <2>11, <2>12
       DEF Retirement
<1>5. CASE Disconnected
  BY <1>t, <1>5, Tears DEF Disconnected, Live, Exhausted, Evict, OneLaunch, InFlight, Launchers
<1>6. CASE Ready
  BY <1>t, <1>6 DEF Ready, Live, OneLaunch, InFlight, Launchers
<1>7. CASE EngineError
  BY <1>t, <1>7, Tears DEF EngineError, Live, Evict, OneLaunch, InFlight, Launchers
<1>8. CASE CredentialsRemoved
  BY <1>t, <1>8 DEF CredentialsRemoved, OneLaunch, InFlight, Launchers
<1>9. CASE UNCHANGED vars
  BY <1>9 DEF vars, OneLaunch, InFlight, Launchers
<1> QED
  BY <1>1, <1>2, <1>3, <1>4, <1>5, <1>6, <1>7, <1>8, <1>9 DEF Next, Event

(* Only a launch registers, and only it names what it registered; a logout  *)
(* that starts a removal has torn the registered engine down.               *)
LEMMA LaunchHoldsKept ==
  ASSUME TypeOK, TypeOK', OneLaunch, LaunchHolds, TornDown, Uncrossed', [Next]_vars
  PROVE  LaunchHolds'
<1> USE DEF At, None, history
<1>t. /\ op \in [Ops -> Slots] /\ op' \in [Ops -> Slots]
      /\ \A p \in Ops : /\ op[p].kind \in {"none", "start", "reconnect"} \cup Retirements
                        /\ op[p].eng \in Engines \cup {None}
      /\ engine \in [Engines -> {"dead", "created", "launched"}] /\ loose \in SUBSET Engines
      /\ registered \in Engines \cup {None} /\ registered' \in Engines \cup {None}
      /\ None \notin Engines /\ reconnect \in {"none", "armed", "timer"}
      /\ stopping \in BOOLEAN /\ stopping' \in BOOLEAN /\ removing \in BOOLEAN /\ row \in BOOLEAN
      /\ \A p \in Ops : Displaced(p) \in SUBSET Engines
  BY DEF TypeOK, Slots, Engines, Displaced
<1>1. ASSUME NEW o \in Ops, Starting(o) PROVE LaunchHolds'
  <2>1. CASE Start(o)
    BY <1>t, <2>1, Enters DEF Start, LaunchHolds, OneLaunch, InFlight, Launchers, Alive
  <2>2. CASE StartRefused(o)
    BY <1>t, <2>2, Returns DEF StartRefused, LaunchHolds, OneLaunch, InFlight, Launchers, Alive
  <2>3. CASE StartChecked(o)
    BY <1>t, <2>3, Moves DEF StartChecked, LaunchHolds, OneLaunch, InFlight, Launchers, Alive
  <2>4. CASE StartAccepted(o)
    BY <1>t, <2>4, Moves DEF StartAccepted, LaunchHolds, OneLaunch, InFlight, Launchers, Alive
  <2>5. CASE StartThrows(o)
    BY <1>t, <2>5, Returns DEF StartThrows, LaunchHolds, OneLaunch, InFlight, Launchers, Alive
  <2> QED
    BY <1>1, <2>1, <2>2, <2>3, <2>4, <2>5 DEF Starting
<1>2. ASSUME NEW o \in Ops, Launching(o) PROVE LaunchHolds'
  <2>1. CASE Create(o)
    BY <1>t, <2>1, Moves DEF Create, LaunchHolds, OneLaunch, InFlight, Launchers, Alive
  <2>2. CASE Launch(o)
    BY <1>t, <2>2, Moves DEF Launch, LaunchHolds, OneLaunch, InFlight, Launchers, Alive
  <2>3. CASE Launched(o)
    BY <1>t, <2>3, Moves DEF Launched, LaunchHolds, OneLaunch, InFlight, Launchers, Alive
  <2>4. CASE LaunchTimesOut(o)
    BY <1>t, <2>4, Moves, Tears
       DEF LaunchTimesOut, LaunchHolds, OneLaunch, InFlight, Launchers, Alive
  <2>5. CASE LaunchFails(o)
    BY <1>t, <2>5, Moves, Tears
       DEF LaunchFails, Evict, LaunchHolds, OneLaunch, InFlight, Launchers, Alive
  <2>6. CASE Guard(o)
    BY <1>t, <2>6, Moves, Returns, Tears
       DEF Guard, LaunchReturns, LaunchHolds, OneLaunch, InFlight, Launchers, Alive
  <2>7. CASE GuardUnread(o)
    BY <1>t, <2>7, Returns
       DEF GuardUnread, LaunchReturns, LaunchHolds, OneLaunch, InFlight, Launchers, Alive
  <2>8. CASE GuardDone(o)
    BY <1>t, <2>8, Returns
       DEF GuardDone, DeleteIfLive, LaunchReturns, LaunchHolds, OneLaunch, InFlight, Launchers,
         Alive
  <2> QED
    BY <1>2, <2>1, <2>2, <2>3, <2>4, <2>5, <2>6, <2>7, <2>8 DEF Launching
<1>3. ASSUME NEW o \in Ops, Reconnection(o) PROVE LaunchHolds'
  <2>1. CASE Reconnect(o)
    BY <1>t, <2>1, Tears DEF Reconnect, LaunchHolds, OneLaunch, InFlight, Launchers, Alive
  <2>2. CASE Replaced(o)
    BY <1>t, <2>2, Moves
       DEF Replaced, DeleteIfLive, LaunchHolds, OneLaunch, InFlight, Launchers, Alive
  <2>3. CASE ReconnectFails(o)
    BY <1>t, <2>3, Returns, Tears
       DEF ReconnectFails, Exhausted, Evict, LaunchHolds, OneLaunch, InFlight, Launchers, Alive
  <2> QED
    BY <1>3, <2>1, <2>2, <2>3 DEF Reconnection
<1>4. ASSUME NEW o \in Ops, Retirement(o) PROVE LaunchHolds'
  <2>1. ASSUME NEW kind \in Controls, Retire(o, kind) PROVE LaunchHolds'
    BY <1>t, <2>1, Enters
       DEF Retire, Controls, LaunchHolds, OneLaunch, InFlight, Launchers, Alive
  <2>2. CASE RetireRefused(o)
    BY <1>t, <2>2, Returns DEF RetireRefused, LaunchHolds, OneLaunch, InFlight, Launchers, Alive
  <2>3. CASE DeleteChecked(o)
    BY <1>t, <2>3, Moves DEF DeleteChecked, LaunchHolds, OneLaunch, InFlight, Launchers, Alive
  <2>4. CASE RetireBegins(o)
    BY <1>t, <2>4, Moves DEF RetireBegins, LaunchHolds, OneLaunch, InFlight, Launchers, Alive
  <2>5. CASE Settle(o)
    <3>1. removing' /\ ~removing => Alive(op[o].eng) /\ registered = op[o].eng
      BY <1>t, <2>5 DEF Settle, Uncrossed
    <3>2. \A p \in InFlight : op[p].pc \in {"hook", "status"} => ~removing'
      BY <1>t, <2>5, <3>1 DEF LaunchHolds, TornDown, Settle
    <3>3. /\ InFlight' \subseteq InFlight /\ \A p \in InFlight' : op'[p] = op[p]
      BY <1>t, <2>5, Moves DEF Settle, InFlight, Launchers, Controls
    <3>4. \A f \in Engines : Alive(f)' => Alive(f)
      BY <1>t, <2>5, Tears DEF Settle, Alive
    <3>5. \A p \in InFlight : op[p].eng \in Engines \cup {None}
      BY <1>t DEF InFlight
    <3>6. \A p \in InFlight : op[p].pc = "status" => op[p].eng \in Engines
      BY <3>5 DEF LaunchHolds
    <3>7. registered' = registered
      BY <2>5 DEF Settle
    <3> QED
      BY <3>2, <3>3, <3>4, <3>6, <3>7 DEF LaunchHolds
  <2>6. CASE Unregister(o)
    BY <1>t, <2>6, Returns, Moves
       DEF Unregister, DeleteIfLive, LaunchHolds, OneLaunch, InFlight, Launchers, Alive
  <2>7. CASE Retired(o)
    BY <1>t, <2>7, Returns DEF Retired, LaunchHolds, OneLaunch, InFlight, Launchers, Alive
  <2>8. CASE DeleteRefused(o)
    BY <1>t, <2>8, Returns DEF DeleteRefused, LaunchHolds, OneLaunch, InFlight, Launchers, Alive
  <2>9. CASE DeleteHook(o)
    BY <1>t, <2>9, Moves DEF DeleteHook, LaunchHolds, OneLaunch, InFlight, Launchers, Alive
  <2>10. CASE DeleteRow(o)
    BY <1>t, <2>10, Moves DEF DeleteRow, LaunchHolds, OneLaunch, InFlight, Launchers, Alive
  <2>11. CASE DeleteEnds(o)
    BY <1>t, <2>11, Returns DEF DeleteEnds, LaunchHolds, OneLaunch, InFlight, Launchers, Alive
  <2>12. CASE StopOrphan(o)
    BY <1>t, <2>12, Tears DEF StopOrphan, LaunchHolds, OneLaunch, InFlight, Launchers, Alive
  <2> QED
    BY <1>4, <2>1, <2>2, <2>3, <2>4, <2>5, <2>6, <2>7, <2>8, <2>9, <2>10, <2>11, <2>12
       DEF Retirement
<1>5. CASE Disconnected
  BY <1>t, <1>5, Tears
     DEF Disconnected, Live, Exhausted, Evict, LaunchHolds, OneLaunch, InFlight, Launchers,
       Alive
<1>6. CASE Ready
  BY <1>t, <1>6 DEF Ready, Live, LaunchHolds, OneLaunch, InFlight, Launchers, Alive
<1>7. CASE EngineError
  BY <1>t, <1>7, Tears
     DEF EngineError, Live, Evict, LaunchHolds, OneLaunch, InFlight, Launchers, Alive
<1>8. CASE CredentialsRemoved
  BY <1>t, <1>8 DEF CredentialsRemoved, LaunchHolds, OneLaunch, InFlight, Launchers, Alive
<1>9. CASE UNCHANGED vars
  BY <1>9 DEF vars, LaunchHolds, OneLaunch, InFlight, Launchers, Alive
<1> QED
  BY <1>1, <1>2, <1>3, <1>4, <1>5, <1>6, <1>7, <1>8, <1>9 DEF Next, Event

(* A removal begins with the teardown of the registered engine, the only    *)
(* one that is not loose; no launch that passed the fence runs meanwhile.   *)
LEMMA FencedKept ==
  ASSUME TypeOK, TypeOK', LaunchHolds, TornDown, NoOrphan, Fenced, Uncrossed', [Next]_vars
  PROVE  Fenced'
<1> USE DEF At, None, history
<1>t. /\ op \in [Ops -> Slots] /\ op' \in [Ops -> Slots]
      /\ \A p \in Ops : /\ op[p].kind \in {"none", "start", "reconnect"} \cup Retirements
                        /\ op[p].eng \in Engines \cup {None}
      /\ engine \in [Engines -> {"dead", "created", "launched"}] /\ loose \in SUBSET Engines
      /\ registered \in Engines \cup {None} /\ registered' \in Engines \cup {None}
      /\ None \notin Engines /\ reconnect \in {"none", "armed", "timer"}
      /\ stopping \in BOOLEAN /\ stopping' \in BOOLEAN /\ removing \in BOOLEAN /\ row \in BOOLEAN
      /\ \A p \in Ops : Displaced(p) \in SUBSET Engines
  BY DEF TypeOK, Slots, Engines, Displaced
<1>1. ASSUME NEW o \in Ops, Starting(o) PROVE Fenced'
  <2>1. CASE Start(o)
    BY <1>t, <2>1, Enters DEF Start, Fenced, Alive
  <2>2. CASE StartRefused(o)
    BY <1>t, <2>2, Returns DEF StartRefused, Fenced, Alive
  <2>3. CASE StartChecked(o)
    BY <1>t, <2>3, Moves DEF StartChecked, Fenced, Alive
  <2>4. CASE StartAccepted(o)
    BY <1>t, <2>4, Moves DEF StartAccepted, Fenced, Alive
  <2>5. CASE StartThrows(o)
    BY <1>t, <2>5, Returns DEF StartThrows, Fenced, Alive
  <2> QED
    BY <1>1, <2>1, <2>2, <2>3, <2>4, <2>5 DEF Starting
<1>2. ASSUME NEW o \in Ops, Launching(o) PROVE Fenced'
  <2>1. CASE Create(o)
    BY <1>t, <2>1, Moves DEF Create, Fenced, Alive
  <2>2. CASE Launch(o)
    BY <1>t, <2>2 DEF Launch, Fenced, Alive, LaunchHolds, InFlight, Launchers
  <2>3. CASE Launched(o)
    BY <1>t, <2>3, Moves DEF Launched, Fenced, Alive
  <2>4. CASE LaunchTimesOut(o)
    BY <1>t, <2>4, Moves, Tears DEF LaunchTimesOut, Fenced, Alive
  <2>5. CASE LaunchFails(o)
    BY <1>t, <2>5, Moves, Tears DEF LaunchFails, Evict, Fenced, Alive
  <2>6. CASE Guard(o)
    BY <1>t, <2>6, Moves, Returns, Tears DEF Guard, LaunchReturns, Fenced, Alive
  <2>7. CASE GuardUnread(o)
    BY <1>t, <2>7, Returns DEF GuardUnread, LaunchReturns, Fenced, Alive
  <2>8. CASE GuardDone(o)
    BY <1>t, <2>8, Returns DEF GuardDone, DeleteIfLive, LaunchReturns, Fenced, Alive
  <2> QED
    BY <1>2, <2>1, <2>2, <2>3, <2>4, <2>5, <2>6, <2>7, <2>8 DEF Launching
<1>3. ASSUME NEW o \in Ops, Reconnection(o) PROVE Fenced'
  <2>1. CASE Reconnect(o)
    BY <1>t, <2>1, Tears DEF Reconnect, Fenced, Alive
  <2>2. CASE Replaced(o)
    BY <1>t, <2>2, Moves DEF Replaced, DeleteIfLive, Fenced, Alive
  <2>3. CASE ReconnectFails(o)
    BY <1>t, <2>3, Returns, Tears DEF ReconnectFails, Exhausted, Evict, Fenced, Alive
  <2> QED
    BY <1>3, <2>1, <2>2, <2>3 DEF Reconnection
<1>4. ASSUME NEW o \in Ops, Retirement(o) PROVE Fenced'
  <2>1. ASSUME NEW kind \in Controls, Retire(o, kind) PROVE Fenced'
    BY <1>t, <2>1, Enters DEF Retire, Controls, Fenced, Alive
  <2>2. CASE RetireRefused(o)
    BY <1>t, <2>2, Returns DEF RetireRefused, Fenced, Alive
  <2>3. CASE DeleteChecked(o)
    BY <1>t, <2>3, Moves DEF DeleteChecked, Fenced, Alive
  <2>4. CASE RetireBegins(o)
    BY <1>t, <2>4, Moves DEF RetireBegins, Fenced, Alive
  <2>5. CASE Settle(o)
    <3>1. removing' /\ ~removing => registered = op[o].eng
      BY <1>t, <2>5 DEF Settle, Uncrossed
    <3> QED
      BY <1>t, <2>5, <3>1, Tears DEF Settle, Fenced, NoOrphan, Alive
  <2>6. CASE Unregister(o)
    BY <1>t, <2>6, Returns, Moves DEF Unregister, DeleteIfLive, Fenced, Alive
  <2>7. CASE Retired(o)
    BY <1>t, <2>7, Returns DEF Retired, Fenced, Alive
  <2>8. CASE DeleteRefused(o)
    BY <1>t, <2>8, Returns DEF DeleteRefused, Fenced, Alive
  <2>9. CASE DeleteHook(o)
    BY <1>t, <2>9, Moves DEF DeleteHook, Fenced, Alive
  <2>10. CASE DeleteRow(o)
    BY <1>t, <2>10, Moves DEF DeleteRow, Fenced, Alive
  <2>11. CASE DeleteEnds(o)
    BY <1>t, <2>11, Returns DEF DeleteEnds, Fenced, Alive
  <2>12. CASE StopOrphan(o)
    BY <1>t, <2>12, Tears DEF StopOrphan, Fenced, Alive
  <2> QED
    BY <1>4, <2>1, <2>2, <2>3, <2>4, <2>5, <2>6, <2>7, <2>8, <2>9, <2>10, <2>11, <2>12
       DEF Retirement
<1>5. CASE Disconnected
  BY <1>t, <1>5, Tears DEF Disconnected, Live, Exhausted, Evict, Fenced, Alive
<1>6. CASE Ready
  BY <1>t, <1>6 DEF Ready, Live, Fenced, Alive
<1>7. CASE EngineError
  BY <1>t, <1>7, Tears DEF EngineError, Live, Evict, Fenced, Alive
<1>8. CASE CredentialsRemoved
  BY <1>t, <1>8 DEF CredentialsRemoved, Fenced, Alive
<1>9. CASE UNCHANGED vars
  BY <1>9 DEF vars, Fenced, Alive
<1> QED
  BY <1>1, <1>2, <1>3, <1>4, <1>5, <1>6, <1>7, <1>8, <1>9 DEF Next, Event

(* The logout that starts a removal holds the registered engine until it    *)
(* has unregistered it.                                                     *)
LEMMA RemovalHeldKept ==
  ASSUME TypeOK, TypeOK', LaunchHolds, TornDown, RemovalHeld, Uncrossed', [Next]_vars
  PROVE  RemovalHeld'
<1> USE DEF At, None, history
<1>t. /\ op \in [Ops -> Slots] /\ op' \in [Ops -> Slots]
      /\ \A p \in Ops : /\ op[p].kind \in {"none", "start", "reconnect"} \cup Retirements
                        /\ op[p].eng \in Engines \cup {None}
      /\ engine \in [Engines -> {"dead", "created", "launched"}] /\ loose \in SUBSET Engines
      /\ registered \in Engines \cup {None} /\ registered' \in Engines \cup {None}
      /\ None \notin Engines /\ reconnect \in {"none", "armed", "timer"}
      /\ stopping \in BOOLEAN /\ stopping' \in BOOLEAN /\ removing \in BOOLEAN /\ row \in BOOLEAN
      /\ \A p \in Ops : Displaced(p) \in SUBSET Engines
  BY DEF TypeOK, Slots, Engines, Displaced
<1>1. ASSUME NEW o \in Ops, Starting(o) PROVE RemovalHeld'
  <2>1. CASE Start(o)
    BY <1>t, <2>1, Enters DEF Start, RemovalHeld, Live, Held, Alive
  <2>2. CASE StartRefused(o)
    BY <1>t, <2>2, Returns DEF StartRefused, RemovalHeld, Live, Held, Alive
  <2>3. CASE StartChecked(o)
    BY <1>t, <2>3, Moves DEF StartChecked, RemovalHeld, Live, Held, Alive
  <2>4. CASE StartAccepted(o)
    BY <1>t, <2>4, Moves DEF StartAccepted, RemovalHeld, Live, Held, Alive
  <2>5. CASE StartThrows(o)
    BY <1>t, <2>5, Returns DEF StartThrows, RemovalHeld, Live, Held, Alive
  <2> QED
    BY <1>1, <2>1, <2>2, <2>3, <2>4, <2>5 DEF Starting
<1>2. ASSUME NEW o \in Ops, Launching(o) PROVE RemovalHeld'
  <2>1. CASE Create(o)
    BY <1>t, <2>1, Moves DEF Create, RemovalHeld, Live, Held, Alive
  <2>2. CASE Launch(o)
    BY <1>t, <2>2, Moves
       DEF Launch, RemovalHeld, Live, Held, Alive, LaunchHolds, InFlight, Launchers
  <2>3. CASE Launched(o)
    BY <1>t, <2>3, Moves DEF Launched, RemovalHeld, Live, Held, Alive
  <2>4. CASE LaunchTimesOut(o)
    BY <1>t, <2>4, Moves, Tears DEF LaunchTimesOut, RemovalHeld, Live, Held, Alive
  <2>5. CASE LaunchFails(o)
    BY <1>t, <2>5, Moves, Tears DEF LaunchFails, Evict, RemovalHeld, Live, Held, Alive
  <2>6. CASE Guard(o)
    BY <1>t, <2>6, Moves, Returns, Tears
       DEF Guard, LaunchReturns, RemovalHeld, Live, Held, Alive
  <2>7. CASE GuardUnread(o)
    BY <1>t, <2>7, Returns DEF GuardUnread, LaunchReturns, RemovalHeld, Live, Held, Alive
  <2>8. CASE GuardDone(o)
    BY <1>t, <2>8, Returns
       DEF GuardDone, DeleteIfLive, LaunchReturns, RemovalHeld, Live, Held, Alive
  <2> QED
    BY <1>2, <2>1, <2>2, <2>3, <2>4, <2>5, <2>6, <2>7, <2>8 DEF Launching
<1>3. ASSUME NEW o \in Ops, Reconnection(o) PROVE RemovalHeld'
  <2>1. CASE Reconnect(o)
    BY <1>t, <2>1, Tears DEF Reconnect, RemovalHeld, Live, Held, Alive, Idle, Retirements
  <2>2. CASE Replaced(o)
    BY <1>t, <2>2, Moves DEF Replaced, DeleteIfLive, RemovalHeld, Live, Held, Alive
  <2>3. CASE ReconnectFails(o)
    BY <1>t, <2>3, Returns, Tears
       DEF ReconnectFails, Exhausted, Evict, RemovalHeld, Live, Held, Alive
  <2> QED
    BY <1>3, <2>1, <2>2, <2>3 DEF Reconnection
<1>4. ASSUME NEW o \in Ops, Retirement(o) PROVE RemovalHeld'
  <2>1. ASSUME NEW kind \in Controls, Retire(o, kind) PROVE RemovalHeld'
    BY <1>t, <2>1, Enters DEF Retire, Controls, RemovalHeld, Live, Held, Alive
  <2>2. CASE RetireRefused(o)
    BY <1>t, <2>2, Returns DEF RetireRefused, RemovalHeld, Live, Held, Alive
  <2>3. CASE DeleteChecked(o)
    BY <1>t, <2>3, Moves DEF DeleteChecked, RemovalHeld, Live, Held, Alive
  <2>4. CASE RetireBegins(o)
    BY <1>t, <2>4, Moves DEF RetireBegins, RemovalHeld, Live, Held, Alive
  <2>5. CASE Settle(o)
    <3>1. removing' /\ ~removing => registered = op[o].eng
      BY <1>t, <2>5 DEF Settle, Uncrossed
    <3>2. op'[o].eng = op[o].eng /\ op'[o].pc = "unregister" /\ op'[o].kind \in Retirements
      BY <1>t, <2>5, Moves DEF Settle, Controls, Retirements
    <3>3. \A p \in Ops : p # o => op'[p] = op[p]
      BY <1>t, <2>5, Moves DEF Settle
    <3>4. Live' => Live /\ registered' = registered
      BY <1>t, <2>5, Tears DEF Settle, Live, Alive
    <3> QED
      BY <1>t, <3>1, <3>2, <3>3, <3>4 DEF RemovalHeld, Held
  <2>6. CASE Unregister(o)
    BY <1>t, <2>6, Returns, Moves DEF Unregister, DeleteIfLive, RemovalHeld, Live, Held, Alive
  <2>7. CASE Retired(o)
    BY <1>t, <2>7, Returns DEF Retired, RemovalHeld, Live, Held, Alive
  <2>8. CASE DeleteRefused(o)
    BY <1>t, <2>8, Returns DEF DeleteRefused, RemovalHeld, Live, Held, Alive
  <2>9. CASE DeleteHook(o)
    BY <1>t, <2>9, Moves DEF DeleteHook, RemovalHeld, Live, Held, Alive
  <2>10. CASE DeleteRow(o)
    BY <1>t, <2>10, Moves DEF DeleteRow, RemovalHeld, Live, Held, Alive
  <2>11. CASE DeleteEnds(o)
    BY <1>t, <2>11, Returns DEF DeleteEnds, RemovalHeld, Live, Held, Alive
  <2>12. CASE StopOrphan(o)
    BY <1>t, <2>12, Tears DEF StopOrphan, RemovalHeld, Live, Held, Alive, Idle, Retirements
  <2> QED
    BY <1>4, <2>1, <2>2, <2>3, <2>4, <2>5, <2>6, <2>7, <2>8, <2>9, <2>10, <2>11, <2>12
       DEF Retirement
<1>5. CASE Disconnected
  BY <1>t, <1>5, Tears DEF Disconnected, Live, Exhausted, Evict, RemovalHeld, Held, Alive
<1>6. CASE Ready
  BY <1>t, <1>6 DEF Ready, Live, RemovalHeld, Held, Alive
<1>7. CASE EngineError
  BY <1>t, <1>7, Tears DEF EngineError, Live, Evict, RemovalHeld, Held, Alive
<1>8. CASE CredentialsRemoved
  BY <1>t, <1>8 DEF CredentialsRemoved, RemovalHeld, Live, Held, Alive
<1>9. CASE UNCHANGED vars
  BY <1>9 DEF vars, RemovalHeld, Live, Held, Alive
<1> QED
  BY <1>1, <1>2, <1>3, <1>4, <1>5, <1>6, <1>7, <1>8, <1>9 DEF Next, Event

(* The mark of a disowned session goes with the next start, which found no  *)
(* engine registered.                                                       *)
LEMMA DisownedKept ==
  ASSUME TypeOK, TypeOK', LaunchHolds, TornDown, Disowned, Uncrossed', [Next]_vars
  PROVE  Disowned'
<1> USE DEF At, None, history
<1>t. /\ op \in [Ops -> Slots] /\ op' \in [Ops -> Slots]
      /\ \A p \in Ops : /\ op[p].kind \in {"none", "start", "reconnect"} \cup Retirements
                        /\ op[p].eng \in Engines \cup {None}
      /\ engine \in [Engines -> {"dead", "created", "launched"}] /\ loose \in SUBSET Engines
      /\ registered \in Engines \cup {None} /\ registered' \in Engines \cup {None}
      /\ None \notin Engines /\ reconnect \in {"none", "armed", "timer"}
      /\ stopping \in BOOLEAN /\ stopping' \in BOOLEAN /\ removing \in BOOLEAN /\ row \in BOOLEAN
      /\ \A p \in Ops : Displaced(p) \in SUBSET Engines
  BY DEF TypeOK, Slots, Engines, Displaced
<1>1. ASSUME NEW o \in Ops, Starting(o) PROVE Disowned'
  <2>1. CASE Start(o)
    BY <1>t, <2>1, Enters DEF Start, Disowned, TornDown
  <2>2. CASE StartRefused(o)
    BY <1>t, <2>2, Returns DEF StartRefused, Disowned, TornDown
  <2>3. CASE StartChecked(o)
    BY <1>t, <2>3, Moves DEF StartChecked, Disowned, TornDown, Meets
  <2>4. CASE StartAccepted(o)
    BY <1>t, <2>4, Moves DEF StartAccepted, Disowned, TornDown, LaunchHolds, InFlight, Launchers
  <2>5. CASE StartThrows(o)
    BY <1>t, <2>5, Returns DEF StartThrows, Disowned, TornDown
  <2> QED
    BY <1>1, <2>1, <2>2, <2>3, <2>4, <2>5 DEF Starting
<1>2. ASSUME NEW o \in Ops, Launching(o) PROVE Disowned'
  <2>1. CASE Create(o)
    BY <1>t, <2>1, Moves DEF Create, Disowned, TornDown, Free
  <2>2. CASE Launch(o)
    BY <1>t, <2>2, Moves DEF Launch, Disowned, TornDown
  <2>3. CASE Launched(o)
    BY <1>t, <2>3, Moves DEF Launched, Disowned, TornDown
  <2>4. CASE LaunchTimesOut(o)
    BY <1>t, <2>4, Moves, Tears DEF LaunchTimesOut, Disowned, TornDown
  <2>5. CASE LaunchFails(o)
    BY <1>t, <2>5, Moves, Tears DEF LaunchFails, Evict, Disowned, TornDown
  <2>6. CASE Guard(o)
    BY <1>t, <2>6, Moves, Returns, Tears DEF Guard, LaunchReturns, Disowned, TornDown
  <2>7. CASE GuardUnread(o)
    BY <1>t, <2>7, Returns DEF GuardUnread, LaunchReturns, Disowned, TornDown
  <2>8. CASE GuardDone(o)
    BY <1>t, <2>8, Returns DEF GuardDone, DeleteIfLive, LaunchReturns, Disowned, TornDown
  <2> QED
    BY <1>2, <2>1, <2>2, <2>3, <2>4, <2>5, <2>6, <2>7, <2>8 DEF Launching
<1>3. ASSUME NEW o \in Ops, Reconnection(o) PROVE Disowned'
  <2>1. CASE Reconnect(o)
    BY <1>t, <2>1, Tears DEF Reconnect, Disowned, TornDown, Meets, Idle
  <2>2. CASE Replaced(o)
    BY <1>t, <2>2, Moves DEF Replaced, DeleteIfLive, Disowned, TornDown
  <2>3. CASE ReconnectFails(o)
    BY <1>t, <2>3, Returns, Tears DEF ReconnectFails, Exhausted, Evict, Disowned, TornDown
  <2> QED
    BY <1>3, <2>1, <2>2, <2>3 DEF Reconnection
<1>4. ASSUME NEW o \in Ops, Retirement(o) PROVE Disowned'
  <2>1. ASSUME NEW kind \in Controls, Retire(o, kind) PROVE Disowned'
    BY <1>t, <2>1, Enters DEF Retire, Controls, Disowned, TornDown
  <2>2. CASE RetireRefused(o)
    BY <1>t, <2>2, Returns DEF RetireRefused, Disowned, TornDown
  <2>3. CASE DeleteChecked(o)
    BY <1>t, <2>3, Moves DEF DeleteChecked, Disowned, TornDown
  <2>4. CASE RetireBegins(o)
    BY <1>t, <2>4, Moves DEF RetireBegins, Disowned, TornDown
  <2>5. CASE Settle(o)
    BY <1>t, <2>5, Moves, Tears DEF Settle, Disowned, TornDown
  <2>6. CASE Unregister(o)
    BY <1>t, <2>6, Returns, Moves DEF Unregister, DeleteIfLive, Disowned, TornDown, Retirements
  <2>7. CASE Retired(o)
    BY <1>t, <2>7, Returns DEF Retired, Disowned, TornDown
  <2>8. CASE DeleteRefused(o)
    BY <1>t, <2>8, Returns DEF DeleteRefused, Disowned, TornDown
  <2>9. CASE DeleteHook(o)
    BY <1>t, <2>9, Moves DEF DeleteHook, Disowned, TornDown
  <2>10. CASE DeleteRow(o)
    BY <1>t, <2>10, Moves DEF DeleteRow, Disowned, TornDown
  <2>11. CASE DeleteEnds(o)
    BY <1>t, <2>11, Returns DEF DeleteEnds, Disowned, TornDown
  <2>12. CASE StopOrphan(o)
    BY <1>t, <2>12, Tears DEF StopOrphan, Disowned, TornDown, Idle
  <2> QED
    BY <1>4, <2>1, <2>2, <2>3, <2>4, <2>5, <2>6, <2>7, <2>8, <2>9, <2>10, <2>11, <2>12
       DEF Retirement
<1>5. CASE Disconnected
  BY <1>t, <1>5, Tears DEF Disconnected, Live, Exhausted, Evict, Disowned, TornDown, Reports
<1>6. CASE Ready
  BY <1>t, <1>6 DEF Ready, Live, Disowned, TornDown
<1>7. CASE EngineError
  BY <1>t, <1>7, Tears DEF EngineError, Live, Evict, Disowned, TornDown, Reports
<1>8. CASE CredentialsRemoved
  BY <1>t, <1>8 DEF CredentialsRemoved, Disowned, TornDown
<1>9. CASE UNCHANGED vars
  BY <1>9 DEF vars, Disowned, TornDown
<1> QED
  BY <1>1, <1>2, <1>3, <1>4, <1>5, <1>6, <1>7, <1>8, <1>9 DEF Next, Event

(* A mark is set by a call that goes on to capture the engine; after it no  *)
(* launch begins, and a reconnect could only have begun before it.          *)
LEMMA StopReachesKept ==
  ASSUME TypeOK, TypeOK', LaunchHolds, TornDown, RemovalHeld, StopReaches, Uncrossed',
         [Next]_vars
  PROVE  StopReaches'
<1> USE DEF At, None, history
<1>t. /\ op \in [Ops -> Slots] /\ op' \in [Ops -> Slots]
      /\ \A p \in Ops : /\ op[p].kind \in {"none", "start", "reconnect"} \cup Retirements
                        /\ op[p].eng \in Engines \cup {None}
      /\ engine \in [Engines -> {"dead", "created", "launched"}] /\ loose \in SUBSET Engines
      /\ registered \in Engines \cup {None} /\ registered' \in Engines \cup {None}
      /\ None \notin Engines /\ reconnect \in {"none", "armed", "timer"}
      /\ stopping \in BOOLEAN /\ stopping' \in BOOLEAN /\ removing \in BOOLEAN /\ row \in BOOLEAN
      /\ \A p \in Ops : Displaced(p) \in SUBSET Engines
  BY DEF TypeOK, Slots, Engines, Displaced
<1>1. ASSUME NEW o \in Ops, Starting(o) PROVE StopReaches'
  <2>1. CASE Start(o)
    BY <1>t, <2>1, Enters DEF Start, StopReaches, Live, Held, Announced, Alive
  <2>2. CASE StartRefused(o)
    BY <1>t, <2>2, Returns DEF StartRefused, StopReaches, Live, Held, Announced, Alive
  <2>3. CASE StartChecked(o)
    BY <1>t, <2>3, Moves DEF StartChecked, StopReaches, Live, Held, Announced, Alive
  <2>4. CASE StartAccepted(o)
    BY <1>t, <2>4, Moves DEF StartAccepted, StopReaches, Live, Held, Announced, Alive
  <2>5. CASE StartThrows(o)
    BY <1>t, <2>5, Returns DEF StartThrows, StopReaches, Live, Held, Announced, Alive
  <2> QED
    BY <1>1, <2>1, <2>2, <2>3, <2>4, <2>5 DEF Starting
<1>2. ASSUME NEW o \in Ops, Launching(o) PROVE StopReaches'
  <2>1. CASE Create(o)
    BY <1>t, <2>1, Moves DEF Create, StopReaches, Live, Held, Announced, Alive
  <2>2. CASE Launch(o)
    BY <1>t, <2>2, Moves DEF Launch, StopReaches, Live, Held, Announced, Alive
  <2>3. CASE Launched(o)
    BY <1>t, <2>3, Moves DEF Launched, StopReaches, Live, Held, Announced, Alive
  <2>4. CASE LaunchTimesOut(o)
    BY <1>t, <2>4, Moves, Tears DEF LaunchTimesOut, StopReaches, Live, Held, Announced, Alive
  <2>5. CASE LaunchFails(o)
    BY <1>t, <2>5, Moves, Tears
       DEF LaunchFails, Evict, StopReaches, Live, Held, Announced, Alive
  <2>6. CASE Guard(o)
    BY <1>t, <2>6, Moves, Returns, Tears
       DEF Guard, LaunchReturns, StopReaches, Live, Held, Announced, Alive
  <2>7. CASE GuardUnread(o)
    BY <1>t, <2>7, Returns
       DEF GuardUnread, LaunchReturns, StopReaches, Live, Held, Announced, Alive
  <2>8. CASE GuardDone(o)
    BY <1>t, <2>8, Returns
       DEF GuardDone, DeleteIfLive, LaunchReturns, StopReaches, Live, Held, Announced, Alive
  <2> QED
    BY <1>2, <2>1, <2>2, <2>3, <2>4, <2>5, <2>6, <2>7, <2>8 DEF Launching
<1>3. ASSUME NEW o \in Ops, Reconnection(o) PROVE StopReaches'
  <2>1. CASE Reconnect(o)
    BY <1>t, <2>1, Tears DEF Reconnect, StopReaches, Live, Held, Announced, Alive
  <2>2. CASE Replaced(o)
    BY <1>t, <2>2, Moves DEF Replaced, DeleteIfLive, StopReaches, Live, Held, Announced, Alive
  <2>3. CASE ReconnectFails(o)
    BY <1>t, <2>3, Returns, Tears
       DEF ReconnectFails, Exhausted, Evict, StopReaches, Live, Held, Announced, Alive
  <2> QED
    BY <1>3, <2>1, <2>2, <2>3 DEF Reconnection
<1>4. ASSUME NEW o \in Ops, Retirement(o) PROVE StopReaches'
  <2>1. ASSUME NEW kind \in Controls, Retire(o, kind) PROVE StopReaches'
    BY <1>t, <2>1, Enters DEF Retire, Controls, StopReaches, Live, Held, Announced, Alive
  <2>2. CASE RetireRefused(o)
    BY <1>t, <2>2, Returns
       DEF RetireRefused, StopReaches, Live, Held, Announced, Alive, RemovalHeld, Retirements,
         Controls
  <2>3. CASE DeleteChecked(o)
    BY <1>t, <2>3, Moves DEF DeleteChecked, StopReaches, Live, Held, Announced, Alive
  <2>4. CASE RetireBegins(o)
    BY <1>t, <2>4, Moves
       DEF RetireBegins, StopReaches, Live, Held, Announced, Alive, Retirements
  <2>5. CASE Settle(o)
    BY <1>t, <2>5, Moves, Tears DEF Settle, StopReaches, Live, Held, Announced, Alive
  <2>6. CASE Unregister(o)
    BY <1>t, <2>6, Returns, Moves
       DEF Unregister, DeleteIfLive, StopReaches, Live, Held, Announced, Alive
  <2>7. CASE Retired(o)
    BY <1>t, <2>7, Returns DEF Retired, StopReaches, Live, Held, Announced, Alive
  <2>8. CASE DeleteRefused(o)
    BY <1>t, <2>8, Returns DEF DeleteRefused, StopReaches, Live, Held, Announced, Alive
  <2>9. CASE DeleteHook(o)
    BY <1>t, <2>9, Moves DEF DeleteHook, StopReaches, Live, Held, Announced, Alive
  <2>10. CASE DeleteRow(o)
    BY <1>t, <2>10, Moves DEF DeleteRow, StopReaches, Live, Held, Announced, Alive
  <2>11. CASE DeleteEnds(o)
    BY <1>t, <2>11, Returns DEF DeleteEnds, StopReaches, Live, Held, Announced, Alive
  <2>12. CASE StopOrphan(o)
    BY <1>t, <2>12, Tears
       DEF StopOrphan, StopReaches, Live, Held, Announced, Alive, Idle, Retirements
  <2> QED
    BY <1>4, <2>1, <2>2, <2>3, <2>4, <2>5, <2>6, <2>7, <2>8, <2>9, <2>10, <2>11, <2>12
       DEF Retirement
<1>5. CASE Disconnected
  BY <1>t, <1>5, Tears
     DEF Disconnected, Live, Exhausted, Evict, StopReaches, Held, Announced, Alive
<1>6. CASE Ready
  BY <1>t, <1>6 DEF Ready, Live, StopReaches, Held, Announced, Alive
<1>7. CASE EngineError
  BY <1>t, <1>7, Tears DEF EngineError, Live, Evict, StopReaches, Held, Announced, Alive
<1>8. CASE CredentialsRemoved
  BY <1>t, <1>8 DEF CredentialsRemoved, StopReaches, Live, Held, Announced, Alive
<1>9. CASE UNCHANGED vars
  BY <1>9 DEF vars, StopReaches, Live, Held, Announced, Alive
<1> QED
  BY <1>1, <1>2, <1>3, <1>4, <1>5, <1>6, <1>7, <1>8, <1>9 DEF Next, Event

(* Past its mark a delete has captured the engine, or the launch that is    *)
(* under way has yet to see the mark or the missing row.                    *)
LEMMA DeleteReachesKept ==
  ASSUME TypeOK, TypeOK', LaunchHolds, TornDown, NoOrphan, DeleteReaches, Uncrossed',
         [Next]_vars
  PROVE  DeleteReaches'
<1> USE DEF At, None, history
<1>t. /\ op \in [Ops -> Slots] /\ op' \in [Ops -> Slots]
      /\ \A p \in Ops : /\ op[p].kind \in {"none", "start", "reconnect"} \cup Retirements
                        /\ op[p].eng \in Engines \cup {None}
      /\ engine \in [Engines -> {"dead", "created", "launched"}] /\ loose \in SUBSET Engines
      /\ registered \in Engines \cup {None} /\ registered' \in Engines \cup {None}
      /\ None \notin Engines /\ reconnect \in {"none", "armed", "timer"}
      /\ stopping \in BOOLEAN /\ stopping' \in BOOLEAN /\ removing \in BOOLEAN /\ row \in BOOLEAN
      /\ \A p \in Ops : Displaced(p) \in SUBSET Engines
  BY DEF TypeOK, Slots, Engines, Displaced
<1>1. ASSUME NEW o \in Ops, Starting(o) PROVE DeleteReaches'
  <2>1. CASE Start(o)
    BY <1>t, <2>1, Enters DEF Start, DeleteReaches, Alive, Captured, Unguarded, Erasing
  <2>2. CASE StartRefused(o)
    BY <1>t, <2>2, Returns DEF StartRefused, DeleteReaches, Alive, Captured, Unguarded, Erasing
  <2>3. CASE StartChecked(o)
    BY <1>t, <2>3, Moves
       DEF StartChecked, DeleteReaches, Alive, Captured, Unguarded, Erasing, Meets
  <2>4. CASE StartAccepted(o)
    BY <1>t, <2>4, Moves DEF StartAccepted, DeleteReaches, Alive, Captured, Unguarded, Erasing
  <2>5. CASE StartThrows(o)
    BY <1>t, <2>5, Returns DEF StartThrows, DeleteReaches, Alive, Captured, Unguarded, Erasing
  <2> QED
    BY <1>1, <2>1, <2>2, <2>3, <2>4, <2>5 DEF Starting
<1>2. ASSUME NEW o \in Ops, Launching(o) PROVE DeleteReaches'
  <2>1. CASE Create(o)
    BY <1>t, <2>1, Moves DEF Create, DeleteReaches, Alive, Captured, Unguarded, Erasing
  <2>2. CASE Launch(o)
    BY <1>t, <2>2, Moves DEF Launch, DeleteReaches, Alive, Captured, Unguarded, Erasing
  <2>3. CASE Launched(o)
    BY <1>t, <2>3, Moves DEF Launched, DeleteReaches, Alive, Captured, Unguarded, Erasing
  <2>4. CASE LaunchTimesOut(o)
    <3>1. Teardown(op[o].eng, Displaced(o)) /\ registered \in {None, op[o].eng}
      BY <1>t, <2>4 DEF LaunchTimesOut, LaunchHolds, InFlight, Launchers
    <3>2. op[o].eng \in Engines \cup {None} /\ Displaced(o) \in SUBSET Engines
      BY <1>t
    <3>3. \A e \in Engines : Alive(e)' => e \in loose'
      BY <1>t, <3>1, <3>2, Tears DEF NoOrphan, Alive
    <3> QED
      BY <3>3 DEF DeleteReaches
  <2>5. CASE LaunchFails(o)
    <3>1. \A e \in Engines : Alive(e)' => e \in loose'
      BY <1>t, <2>5, Tears DEF LaunchFails, Evict, NoOrphan, Alive
    <3> QED
      BY <3>1 DEF DeleteReaches
  <2>6. CASE Guard(o)
    <3>1. CASE (stopping \/ ~row) /\ registered # None
      <4>1. \A e \in Engines : Alive(e)' => e \in loose'
        BY <1>t, <2>6, <3>1, Tears DEF Guard, NoOrphan, Alive
      <4> QED
        BY <4>1 DEF DeleteReaches
    <3>2. CASE ~((stopping \/ ~row) /\ registered # None)
      <4>1. \A e \in Engines : Alive(e)' => Alive(e) /\ (registered = e \/ e \in loose')
        BY <2>6, <3>2 DEF Guard, NoOrphan, Alive
      <4>2. Return(o) /\ UNCHANGED <<row, engine, loose>>
        BY <2>6, <3>2 DEF Guard, LaunchReturns
      <4>3. Erasing' => Erasing /\ Deleting
        BY <1>t, <4>2, Returns DEF Erasing, Deleting
      <4>4. row /\ Deleting /\ ~stopping => "delete" \in crossed'
        BY <2>6 DEF Guard
      <4> QED
        BY <1>t, <3>2, <4>1, <4>2, <4>3, <4>4 DEF DeleteReaches
    <3> QED
      BY <3>1, <3>2
  <2>7. CASE GuardUnread(o)
    BY <1>t, <2>7, Returns
       DEF GuardUnread, LaunchReturns, DeleteReaches, Alive, Captured, Unguarded, Erasing
  <2>8. CASE GuardDone(o)
    BY <1>t, <2>8, Returns
       DEF GuardDone, DeleteIfLive, LaunchReturns, DeleteReaches, Alive, Captured, Unguarded,
         Erasing
  <2> QED
    BY <1>2, <2>1, <2>2, <2>3, <2>4, <2>5, <2>6, <2>7, <2>8 DEF Launching
<1>3. ASSUME NEW o \in Ops, Reconnection(o) PROVE DeleteReaches'
  <2>1. CASE Reconnect(o)
    BY <1>t, <2>1, Tears
       DEF Reconnect, DeleteReaches, Alive, Captured, Unguarded, Erasing, Meets, Idle
  <2>2. CASE Replaced(o)
    BY <1>t, <2>2, Moves
       DEF Replaced, DeleteIfLive, DeleteReaches, Alive, Captured, Unguarded, Erasing
  <2>3. CASE ReconnectFails(o)
    <3>1. \A e \in Engines : Alive(e)' => e \in loose'
      BY <1>t, <2>3, Tears DEF ReconnectFails, Exhausted, Evict, NoOrphan, Alive
    <3> QED
      BY <3>1 DEF DeleteReaches
  <2> QED
    BY <1>3, <2>1, <2>2, <2>3 DEF Reconnection
<1>4. ASSUME NEW o \in Ops, Retirement(o) PROVE DeleteReaches'
  <2>1. ASSUME NEW kind \in Controls, Retire(o, kind) PROVE DeleteReaches'
    BY <1>t, <2>1, Enters
       DEF Retire, Controls, DeleteReaches, Alive, Captured, Unguarded, Erasing
  <2>2. CASE RetireRefused(o)
    BY <1>t, <2>2, Returns DEF RetireRefused, DeleteReaches, Alive, Captured, Unguarded, Erasing
  <2>3. CASE DeleteChecked(o)
    BY <1>t, <2>3, Moves DEF DeleteChecked, DeleteReaches, Alive, Captured, Unguarded, Erasing
  <2>4. CASE RetireBegins(o)
    <3>1. \A e \in Engines : Alive(e) => registered = e \/ e \in loose
      BY DEF NoOrphan
    <3>2. registered # None => Captured(registered)'
      BY <1>t, <2>4, Moves DEF RetireBegins, Captured, Controls
    <3> QED
      BY <1>t, <2>4, <3>1, <3>2 DEF RetireBegins, DeleteReaches, Alive
  <2>5. CASE Settle(o)
    BY <1>t, <2>5, Moves, Tears DEF Settle, DeleteReaches, Alive, Captured, Unguarded, Erasing
  <2>6. CASE Unregister(o)
    BY <1>t, <2>6, Returns, Moves
       DEF Unregister, DeleteIfLive, DeleteReaches, Alive, Captured, Unguarded, Erasing
  <2>7. CASE Retired(o)
    BY <1>t, <2>7, Returns DEF Retired, DeleteReaches, Alive, Captured, Unguarded, Erasing
  <2>8. CASE DeleteRefused(o)
    BY <1>t, <2>8, Returns DEF DeleteRefused, DeleteReaches, Alive, Captured, Unguarded, Erasing
  <2>9. CASE DeleteHook(o)
    BY <1>t, <2>9, Moves DEF DeleteHook, DeleteReaches, Alive, Captured, Unguarded, Erasing
  <2>10. CASE DeleteRow(o)
    BY <1>t, <2>10, Moves DEF DeleteRow, DeleteReaches, Alive, Captured, Unguarded, Erasing
  <2>11. CASE DeleteEnds(o)
    BY <1>t, <2>11, Returns DEF DeleteEnds, DeleteReaches, Alive, Captured, Unguarded, Erasing
  <2>12. CASE StopOrphan(o)
    BY <1>t, <2>12, Tears
       DEF StopOrphan, DeleteReaches, Alive, Captured, Unguarded, Erasing, Idle
  <2> QED
    BY <1>4, <2>1, <2>2, <2>3, <2>4, <2>5, <2>6, <2>7, <2>8, <2>9, <2>10, <2>11, <2>12
       DEF Retirement
<1>5. CASE Disconnected
  <2>1. UNCHANGED <<row, op>> /\ crossed \subseteq crossed'
    BY <1>5 DEF Disconnected, Reports
  <2>2. \A e \in Engines : Alive(e)' => Alive(e) /\ (e \in loose => e \in loose')
    BY <1>t, <1>5, Tears DEF Disconnected, Exhausted, Evict, Alive
  <2> QED
    BY <2>1, <2>2 DEF DeleteReaches, Captured, Unguarded, Erasing
<1>6. CASE Ready
  BY <1>t, <1>6 DEF Ready, Live, DeleteReaches, Alive, Captured, Unguarded, Erasing
<1>7. CASE EngineError
  <2>1. UNCHANGED <<row, op>> /\ crossed \subseteq crossed'
    BY <1>7 DEF EngineError, Reports
  <2>2. \A e \in Engines : Alive(e)' => Alive(e) /\ (e \in loose => e \in loose')
    BY <1>t, <1>7, Tears DEF EngineError, Evict, Alive
  <2> QED
    BY <2>1, <2>2 DEF DeleteReaches, Captured, Unguarded, Erasing
<1>8. CASE CredentialsRemoved
  BY <1>t, <1>8 DEF CredentialsRemoved, DeleteReaches, Alive, Captured, Unguarded, Erasing
<1>9. CASE UNCHANGED vars
  BY <1>9 DEF vars, DeleteReaches, Alive, Captured, Unguarded, Erasing
<1> QED
  BY <1>1, <1>2, <1>3, <1>4, <1>5, <1>6, <1>7, <1>8, <1>9 DEF Next, Event

(* Every retirement cancels the reconnect with its mark, and under the mark *)
(* no reconnect begins that could arm another timer.                        *)
LEMMA TimerCancelledKept ==
  ASSUME TypeOK, TypeOK', OneLaunch, LaunchHolds, HeldQuiet, StopReaches, TimerCancelled,
         Uncrossed', [Next]_vars
  PROVE  TimerCancelled'
<1> USE DEF At, None, history
<1>t. /\ op \in [Ops -> Slots] /\ op' \in [Ops -> Slots]
      /\ \A p \in Ops : /\ op[p].kind \in {"none", "start", "reconnect"} \cup Retirements
                        /\ op[p].eng \in Engines \cup {None}
      /\ engine \in [Engines -> {"dead", "created", "launched"}] /\ loose \in SUBSET Engines
      /\ registered \in Engines \cup {None} /\ registered' \in Engines \cup {None}
      /\ None \notin Engines /\ reconnect \in {"none", "armed", "timer"}
      /\ stopping \in BOOLEAN /\ stopping' \in BOOLEAN /\ removing \in BOOLEAN /\ row \in BOOLEAN
      /\ \A p \in Ops : Displaced(p) \in SUBSET Engines
  BY DEF TypeOK, Slots, Engines, Displaced
<1>1. ASSUME NEW o \in Ops, Starting(o) PROVE TimerCancelled'
  <2>1. CASE Start(o)
    BY <1>t, <2>1, Enters DEF Start, TimerCancelled, Announced
  <2>2. CASE StartRefused(o)
    BY <1>t, <2>2, Returns DEF StartRefused, TimerCancelled, Announced
  <2>3. CASE StartChecked(o)
    BY <1>t, <2>3, Moves DEF StartChecked, TimerCancelled, Announced, Meets
  <2>4. CASE StartAccepted(o)
    BY <1>t, <2>4, Moves DEF StartAccepted, TimerCancelled, Announced
  <2>5. CASE StartThrows(o)
    BY <1>t, <2>5, Returns DEF StartThrows, TimerCancelled, Announced
  <2> QED
    BY <1>1, <2>1, <2>2, <2>3, <2>4, <2>5 DEF Starting
<1>2. ASSUME NEW o \in Ops, Launching(o) PROVE TimerCancelled'
  <2>1. CASE Create(o)
    <3>1. CASE At(o, {"start"}, "hook")
      BY <1>t, <2>1, <3>1, Moves DEF Create, TimerCancelled, OneLaunch, InFlight, Launchers
    <3>2. CASE At(o, {"reconnect"}, "fence")
      BY <1>t, <2>1, <3>2, Moves DEF Create, TimerCancelled, Announced
    <3> QED
      BY <2>1, <3>1, <3>2 DEF Create
  <2>2. CASE Launch(o)
    BY <1>t, <2>2, Moves DEF Launch, TimerCancelled, Announced
  <2>3. CASE Launched(o)
    BY <1>t, <2>3, Moves DEF Launched, TimerCancelled, Announced
  <2>4. CASE LaunchTimesOut(o)
    BY <1>t, <2>4, Moves, Tears DEF LaunchTimesOut, TimerCancelled, Announced
  <2>5. CASE LaunchFails(o)
    BY <1>t, <2>5, Moves, Tears DEF LaunchFails, Evict, TimerCancelled, Announced
  <2>6. CASE Guard(o)
    BY <1>t, <2>6, Moves, Returns, Tears DEF Guard, LaunchReturns, TimerCancelled, Announced
  <2>7. CASE GuardUnread(o)
    BY <1>t, <2>7, Returns DEF GuardUnread, LaunchReturns, TimerCancelled, Announced
  <2>8. CASE GuardDone(o)
    BY <1>t, <2>8, Returns DEF GuardDone, DeleteIfLive, LaunchReturns, TimerCancelled, Announced
  <2> QED
    BY <1>2, <2>1, <2>2, <2>3, <2>4, <2>5, <2>6, <2>7, <2>8 DEF Launching
<1>3. ASSUME NEW o \in Ops, Reconnection(o) PROVE TimerCancelled'
  <2>1. CASE Reconnect(o)
    BY <1>t, <2>1, Tears DEF Reconnect, TimerCancelled, Announced
  <2>2. CASE Replaced(o)
    BY <1>t, <2>2, Moves DEF Replaced, DeleteIfLive, TimerCancelled, Announced
  <2>3. CASE ReconnectFails(o)
    BY <1>t, <2>3, Returns DEF ReconnectFails, Reschedule, Exhausted, TimerCancelled, Announced
  <2> QED
    BY <1>3, <2>1, <2>2, <2>3 DEF Reconnection
<1>4. ASSUME NEW o \in Ops, Retirement(o) PROVE TimerCancelled'
  <2>1. ASSUME NEW kind \in Controls, Retire(o, kind) PROVE TimerCancelled'
    BY <1>t, <2>1, Enters DEF Retire, Controls, TimerCancelled, Announced
  <2>2. CASE RetireRefused(o)
    BY <1>t, <2>2, Returns DEF RetireRefused, TimerCancelled, Announced
  <2>3. CASE DeleteChecked(o)
    BY <1>t, <2>3, Moves DEF DeleteChecked, TimerCancelled, Announced
  <2>4. CASE RetireBegins(o)
    BY <1>t, <2>4, Moves DEF RetireBegins, TimerCancelled, Announced
  <2>5. CASE Settle(o)
    BY <1>t, <2>5, Moves, Tears DEF Settle, TimerCancelled, Announced
  <2>6. CASE Unregister(o)
    BY <1>t, <2>6, Returns, Moves DEF Unregister, DeleteIfLive, TimerCancelled, Announced
  <2>7. CASE Retired(o)
    BY <1>t, <2>7, Returns DEF Retired, TimerCancelled, Announced
  <2>8. CASE DeleteRefused(o)
    BY <1>t, <2>8, Returns DEF DeleteRefused, TimerCancelled, Announced
  <2>9. CASE DeleteHook(o)
    BY <1>t, <2>9, Moves DEF DeleteHook, TimerCancelled, Announced
  <2>10. CASE DeleteRow(o)
    BY <1>t, <2>10, Moves DEF DeleteRow, TimerCancelled, Announced
  <2>11. CASE DeleteEnds(o)
    BY <1>t, <2>11, Returns DEF DeleteEnds, TimerCancelled, Announced
  <2>12. CASE StopOrphan(o)
    BY <1>t, <2>12, Tears DEF StopOrphan, TimerCancelled, Announced
  <2> QED
    BY <1>4, <2>1, <2>2, <2>3, <2>4, <2>5, <2>6, <2>7, <2>8, <2>9, <2>10, <2>11, <2>12
       DEF Retirement
<1>5. CASE Disconnected
  BY <1>t, <1>5
     DEF Disconnected, Live, Reschedule, Exhausted, Reports, TimerCancelled, StopReaches,
       HeldQuiet, Announced
<1>6. CASE Ready
  BY <1>t, <1>6 DEF Ready, Live, TimerCancelled, Announced
<1>7. CASE EngineError
  BY <1>t, <1>7 DEF EngineError, TimerCancelled
<1>8. CASE CredentialsRemoved
  BY <1>t, <1>8 DEF CredentialsRemoved, TimerCancelled, Announced
<1>9. CASE UNCHANGED vars
  BY <1>9 DEF vars, TimerCancelled, Announced
<1> QED
  BY <1>1, <1>2, <1>3, <1>4, <1>5, <1>6, <1>7, <1>8, <1>9 DEF Next, Event

(* A reconnect cancelled before its launch sees the mark; cancelled during  *)
(* its launch, its engine is held by a retirement.                          *)
LEMMA ReconnectCancelledKept ==
  ASSUME TypeOK, TypeOK', OneLaunch, LaunchHolds, TornDown, TimerCancelled, ReconnectCancelled,
         Uncrossed', [Next]_vars
  PROVE  ReconnectCancelled'
<1> USE DEF At, None, history
<1>t. /\ op \in [Ops -> Slots] /\ op' \in [Ops -> Slots]
      /\ \A p \in Ops : /\ op[p].kind \in {"none", "start", "reconnect"} \cup Retirements
                        /\ op[p].eng \in Engines \cup {None}
      /\ engine \in [Engines -> {"dead", "created", "launched"}] /\ loose \in SUBSET Engines
      /\ registered \in Engines \cup {None} /\ registered' \in Engines \cup {None}
      /\ None \notin Engines /\ reconnect \in {"none", "armed", "timer"}
      /\ stopping \in BOOLEAN /\ stopping' \in BOOLEAN /\ removing \in BOOLEAN /\ row \in BOOLEAN
      /\ \A p \in Ops : Displaced(p) \in SUBSET Engines
  BY DEF TypeOK, Slots, Engines, Displaced
<1>1. ASSUME NEW o \in Ops, Starting(o) PROVE ReconnectCancelled'
  <2>1. CASE Start(o)
    BY <1>t, <2>1, Enters DEF Start, ReconnectCancelled, Live, Held, Alive
  <2>2. CASE StartRefused(o)
    BY <1>t, <2>2, Returns DEF StartRefused, ReconnectCancelled, Live, Held, Alive
  <2>3. CASE StartChecked(o)
    BY <1>t, <2>3, Moves DEF StartChecked, ReconnectCancelled, Live, Held, Alive, Meets
  <2>4. CASE StartAccepted(o)
    BY <1>t, <2>4, Moves DEF StartAccepted, ReconnectCancelled, OneLaunch, InFlight, Launchers
  <2>5. CASE StartThrows(o)
    BY <1>t, <2>5, Returns DEF StartThrows, ReconnectCancelled, OneLaunch, InFlight, Launchers
  <2> QED
    BY <1>1, <2>1, <2>2, <2>3, <2>4, <2>5 DEF Starting
<1>2. ASSUME NEW o \in Ops, Launching(o) PROVE ReconnectCancelled'
  <2>1. CASE Create(o)
    BY <1>t, <2>1, Moves DEF Create, ReconnectCancelled, Live, Held, Alive
  <2>2. CASE Launch(o)
    BY <1>t, <2>2, Moves DEF Launch, ReconnectCancelled, OneLaunch, InFlight, Launchers
  <2>3. CASE Launched(o)
    BY <1>t, <2>3, Moves DEF Launched, ReconnectCancelled, Live, Held, Alive
  <2>4. CASE LaunchTimesOut(o)
    BY <1>t, <2>4, Moves DEF LaunchTimesOut, ReconnectCancelled, Live
  <2>5. CASE LaunchFails(o)
    BY <1>t, <2>5, Moves DEF LaunchFails, Evict, ReconnectCancelled, Live
  <2>6. CASE Guard(o)
    BY <1>t, <2>6, Moves, Returns, Tears
       DEF Guard, LaunchReturns, ReconnectCancelled, Live, Held, Alive
  <2>7. CASE GuardUnread(o)
    BY <1>t, <2>7, Returns DEF GuardUnread, LaunchReturns, ReconnectCancelled, Live, Held, Alive
  <2>8. CASE GuardDone(o)
    BY <1>t, <2>8, Returns
       DEF GuardDone, DeleteIfLive, LaunchReturns, ReconnectCancelled, Live, Held, Alive,
         LaunchHolds, InFlight
  <2> QED
    BY <1>2, <2>1, <2>2, <2>3, <2>4, <2>5, <2>6, <2>7, <2>8 DEF Launching
<1>3. ASSUME NEW o \in Ops, Reconnection(o) PROVE ReconnectCancelled'
  <2>1. CASE Reconnect(o)
    BY <1>t, <2>1 DEF Reconnect, ReconnectCancelled
  <2>2. CASE Replaced(o)
    BY <1>t, <2>2, Moves DEF Replaced, DeleteIfLive, ReconnectCancelled, Live, Held, Alive
  <2>3. CASE ReconnectFails(o)
    BY <1>t, <2>3, Returns
       DEF ReconnectFails, ReconnectCancelled, OneLaunch, InFlight, Launchers
  <2> QED
    BY <1>3, <2>1, <2>2, <2>3 DEF Reconnection
<1>4. ASSUME NEW o \in Ops, Retirement(o) PROVE ReconnectCancelled'
  <2>1. ASSUME NEW kind \in Controls, Retire(o, kind) PROVE ReconnectCancelled'
    BY <1>t, <2>1, Enters DEF Retire, Controls, ReconnectCancelled, Live, Held, Alive
  <2>2. CASE RetireRefused(o)
    BY <1>t, <2>2, Returns DEF RetireRefused, ReconnectCancelled, Live, Held, Alive
  <2>3. CASE DeleteChecked(o)
    BY <1>t, <2>3, Moves DEF DeleteChecked, ReconnectCancelled, Live, Held, Alive
  <2>4. CASE RetireBegins(o)
    BY <1>t, <2>4, Moves DEF RetireBegins, ReconnectCancelled, Controls, Retirements, Live, Held
  <2>5. CASE Settle(o)
    BY <1>t, <2>5, Moves, Tears
       DEF Settle, ReconnectCancelled, Live, Held, Alive, Controls, Retirements
  <2>6. CASE Unregister(o)
    BY <1>t, <2>6, Returns, Moves
       DEF Unregister, DeleteIfLive, ReconnectCancelled, Live, Held, Alive
  <2>7. CASE Retired(o)
    BY <1>t, <2>7, Returns DEF Retired, ReconnectCancelled, Live, Held, Alive
  <2>8. CASE DeleteRefused(o)
    BY <1>t, <2>8, Returns DEF DeleteRefused, ReconnectCancelled, Live, Held, Alive
  <2>9. CASE DeleteHook(o)
    BY <1>t, <2>9, Moves DEF DeleteHook, ReconnectCancelled, Live, Held, Alive
  <2>10. CASE DeleteRow(o)
    BY <1>t, <2>10 DEF DeleteRow, ReconnectCancelled
  <2>11. CASE DeleteEnds(o)
    BY <1>t, <2>11, Returns DEF DeleteEnds, ReconnectCancelled, Live, Held, Alive, TornDown
  <2>12. CASE StopOrphan(o)
    BY <1>t, <2>12 DEF StopOrphan, ReconnectCancelled
  <2> QED
    BY <1>4, <2>1, <2>2, <2>3, <2>4, <2>5, <2>6, <2>7, <2>8, <2>9, <2>10, <2>11, <2>12
       DEF Retirement
<1>5. CASE Disconnected
  <2>1. CASE \E p \in Ops : op[p].pc = "replace"
    BY <1>5, <2>1 DEF Disconnected, Reports, ReconnectCancelled
  <2>2. CASE \A p \in Ops : op[p].pc # "replace"
    BY <1>t, <1>5, <2>2 DEF Disconnected, Live, Reschedule, Exhausted, Evict, Reports,
      ReconnectCancelled, LaunchHolds, InFlight, Launchers, Alive, Held
  <2> QED BY <2>1, <2>2
<1>6. CASE Ready
  BY <1>t, <1>6 DEF Ready, Live, ReconnectCancelled, Held, Alive
<1>7. CASE EngineError
  <2>1. CASE \E p \in Ops : op[p].pc = "replace"
    BY <1>7, <2>1 DEF EngineError, Reports, ReconnectCancelled
  <2>2. CASE \A p \in Ops : op[p].pc # "replace"
    BY <1>t, <1>7, <2>2 DEF EngineError, Live, Evict, Reports, ReconnectCancelled, LaunchHolds,
      InFlight, Launchers, Alive
  <2> QED BY <2>1, <2>2
<1>8. CASE CredentialsRemoved
  BY <1>t, <1>8 DEF CredentialsRemoved, ReconnectCancelled, Live, Held, Alive
<1>9. CASE UNCHANGED vars
  BY <1>9 DEF vars, ReconnectCancelled, Live, Held, Alive
<1> QED
  BY <1>1, <1>2, <1>3, <1>4, <1>5, <1>6, <1>7, <1>8, <1>9 DEF Next, Event

(* A launch only finds itself retired by the mark while the row is there,   *)
(* and no start takes the mark away beside it.                              *)
LEMMA GuardStopsKept ==
  ASSUME TypeOK, TypeOK', OneLaunch, TornDown, GuardStops, Uncrossed', [Next]_vars
  PROVE  GuardStops'
<1> USE DEF At, None, history
<1>t. /\ op \in [Ops -> Slots] /\ op' \in [Ops -> Slots]
      /\ \A p \in Ops : /\ op[p].kind \in {"none", "start", "reconnect"} \cup Retirements
                        /\ op[p].eng \in Engines \cup {None}
      /\ engine \in [Engines -> {"dead", "created", "launched"}] /\ loose \in SUBSET Engines
      /\ registered \in Engines \cup {None} /\ registered' \in Engines \cup {None}
      /\ None \notin Engines /\ reconnect \in {"none", "armed", "timer"}
      /\ stopping \in BOOLEAN /\ stopping' \in BOOLEAN /\ removing \in BOOLEAN /\ row \in BOOLEAN
      /\ \A p \in Ops : Displaced(p) \in SUBSET Engines
  BY DEF TypeOK, Slots, Engines, Displaced
<1>1. ASSUME NEW o \in Ops, Starting(o) PROVE GuardStops'
  <2>1. CASE Start(o)
    BY <1>t, <2>1, Enters DEF Start, GuardStops
  <2>2. CASE StartRefused(o)
    BY <1>t, <2>2, Returns DEF StartRefused, GuardStops
  <2>3. CASE StartChecked(o)
    BY <1>t, <2>3, Moves DEF StartChecked, GuardStops, Meets
  <2>4. CASE StartAccepted(o)
    BY <1>t, <2>4, Moves DEF StartAccepted, GuardStops, OneLaunch, InFlight, Launchers
  <2>5. CASE StartThrows(o)
    BY <1>t, <2>5, Returns DEF StartThrows, GuardStops
  <2> QED
    BY <1>1, <2>1, <2>2, <2>3, <2>4, <2>5 DEF Starting
<1>2. ASSUME NEW o \in Ops, Launching(o) PROVE GuardStops'
  <2>1. CASE Create(o)
    BY <1>t, <2>1, Moves DEF Create, GuardStops
  <2>2. CASE Launch(o)
    BY <1>t, <2>2, Moves DEF Launch, GuardStops
  <2>3. CASE Launched(o)
    BY <1>t, <2>3, Moves DEF Launched, GuardStops
  <2>4. CASE LaunchTimesOut(o)
    BY <1>t, <2>4, Moves DEF LaunchTimesOut, GuardStops
  <2>5. CASE LaunchFails(o)
    BY <1>t, <2>5, Moves DEF LaunchFails, GuardStops
  <2>6. CASE Guard(o)
    BY <1>t, <2>6, Moves, Returns DEF Guard, LaunchReturns, GuardStops
  <2>7. CASE GuardUnread(o)
    BY <1>t, <2>7, Returns DEF GuardUnread, LaunchReturns, GuardStops
  <2>8. CASE GuardDone(o)
    BY <1>t, <2>8, Returns DEF GuardDone, DeleteIfLive, LaunchReturns, GuardStops
  <2> QED
    BY <1>2, <2>1, <2>2, <2>3, <2>4, <2>5, <2>6, <2>7, <2>8 DEF Launching
<1>3. ASSUME NEW o \in Ops, Reconnection(o) PROVE GuardStops'
  <2>1. CASE Reconnect(o)
    BY <1>t, <2>1, Tears DEF Reconnect, GuardStops, Meets
  <2>2. CASE Replaced(o)
    BY <1>t, <2>2, Moves DEF Replaced, DeleteIfLive, GuardStops
  <2>3. CASE ReconnectFails(o)
    BY <1>t, <2>3, Returns DEF ReconnectFails, GuardStops
  <2> QED
    BY <1>3, <2>1, <2>2, <2>3 DEF Reconnection
<1>4. ASSUME NEW o \in Ops, Retirement(o) PROVE GuardStops'
  <2>1. ASSUME NEW kind \in Controls, Retire(o, kind) PROVE GuardStops'
    BY <1>t, <2>1, Enters DEF Retire, Controls, GuardStops
  <2>2. CASE RetireRefused(o)
    BY <1>t, <2>2, Returns DEF RetireRefused, GuardStops
  <2>3. CASE DeleteChecked(o)
    BY <1>t, <2>3, Moves DEF DeleteChecked, GuardStops
  <2>4. CASE RetireBegins(o)
    BY <1>t, <2>4, Moves DEF RetireBegins, GuardStops
  <2>5. CASE Settle(o)
    BY <1>t, <2>5, Moves DEF Settle, GuardStops, Launchers, Controls
  <2>6. CASE Unregister(o)
    BY <1>t, <2>6, Returns, Moves DEF Unregister, DeleteIfLive, GuardStops
  <2>7. CASE Retired(o)
    BY <1>t, <2>7, Returns DEF Retired, GuardStops
  <2>8. CASE DeleteRefused(o)
    BY <1>t, <2>8, Returns DEF DeleteRefused, GuardStops
  <2>9. CASE DeleteHook(o)
    BY <1>t, <2>9, Moves DEF DeleteHook, GuardStops
  <2>10. CASE DeleteRow(o)
    BY <1>t, <2>10, Moves DEF DeleteRow, GuardStops
  <2>11. CASE DeleteEnds(o)
    BY <1>t, <2>11, Returns DEF DeleteEnds, GuardStops, TornDown
  <2>12. CASE StopOrphan(o)
    BY <1>t, <2>12, Tears DEF StopOrphan, GuardStops
  <2> QED
    BY <1>4, <2>1, <2>2, <2>3, <2>4, <2>5, <2>6, <2>7, <2>8, <2>9, <2>10, <2>11, <2>12
       DEF Retirement
<1>5. CASE Disconnected
  BY <1>t, <1>5 DEF Disconnected, Reports, GuardStops
<1>6. CASE Ready
  BY <1>t, <1>6 DEF Ready, Live, GuardStops
<1>7. CASE EngineError
  BY <1>t, <1>7 DEF EngineError, Reports, GuardStops
<1>8. CASE CredentialsRemoved
  BY <1>t, <1>8 DEF CredentialsRemoved, GuardStops
<1>9. CASE UNCHANGED vars
  BY <1>9 DEF vars, GuardStops
<1> QED
  BY <1>1, <1>2, <1>3, <1>4, <1>5, <1>6, <1>7, <1>8, <1>9 DEF Next, Event

(* READY is written for a live engine; who takes that engine away writes    *)
(* another status, holds a call that will, or leaves a timer.               *)
LEMMA ReadyHeldKept ==
  ASSUME TypeOK, TypeOK', OneLaunch, LaunchHolds, TornDown, StopReaches, TimerCancelled,
         ReconnectCancelled, GuardStops, Disowned, ReadyHeld, Uncrossed', [Next]_vars
  PROVE  ReadyHeld'
<1> USE DEF At, None, history
<1>t. /\ op \in [Ops -> Slots] /\ op' \in [Ops -> Slots]
      /\ \A p \in Ops : /\ op[p].kind \in {"none", "start", "reconnect"} \cup Retirements
                        /\ op[p].eng \in Engines \cup {None}
      /\ engine \in [Engines -> {"dead", "created", "launched"}] /\ loose \in SUBSET Engines
      /\ registered \in Engines \cup {None} /\ registered' \in Engines \cup {None}
      /\ None \notin Engines /\ reconnect \in {"none", "armed", "timer"}
      /\ stopping \in BOOLEAN /\ stopping' \in BOOLEAN /\ removing \in BOOLEAN /\ row \in BOOLEAN
      /\ \A p \in Ops : Displaced(p) \in SUBSET Engines
  BY DEF TypeOK, Slots, Engines, Displaced
<1>1. ASSUME NEW o \in Ops, Starting(o) PROVE ReadyHeld'
  <2>1. CASE Start(o)
    BY <1>t, <2>1, Enters DEF Start, ReadyHeld, Live, Writing, Announced, Alive
  <2>2. CASE StartRefused(o)
    BY <1>t, <2>2, Returns DEF StartRefused, ReadyHeld, Live, Writing, Announced, Alive
  <2>3. CASE StartChecked(o)
    BY <1>t, <2>3, Moves DEF StartChecked, ReadyHeld, Live, Writing, Announced, Alive, Meets
  <2>4. CASE StartAccepted(o)
    BY <1>t, <2>4, Moves DEF StartAccepted, ReadyHeld
  <2>5. CASE StartThrows(o)
    BY <1>t, <2>5, Returns
       DEF StartThrows, SetStatus, ReadyHeld, OneLaunch, InFlight, Launchers, Alive, Live,
         Announced, Writing
  <2> QED
    BY <1>1, <2>1, <2>2, <2>3, <2>4, <2>5 DEF Starting
<1>2. ASSUME NEW o \in Ops, Launching(o) PROVE ReadyHeld'
  <2>1. CASE Create(o)
    BY <1>t, <2>1, Moves DEF Create, ReadyHeld, Launchers
  <2>2. CASE Launch(o)
    BY <1>t, <2>2 DEF Launch, SetStatus, ReadyHeld
  <2>3. CASE Launched(o)
    BY <1>t, <2>3, Moves DEF Launched, ReadyHeld, Live, Writing, Announced, Alive
  <2>4. CASE LaunchTimesOut(o)
    BY <1>t, <2>4, Moves DEF LaunchTimesOut, ReadyHeld
  <2>5. CASE LaunchFails(o)
    BY <1>t, <2>5, Moves DEF LaunchFails, SetStatus, ReadyHeld, Live, Writing, Announced
  <2>6. CASE Guard(o)
    BY <1>t, <2>6, Moves, Returns
       DEF Guard, LaunchReturns, ReadyHeld, Live, Writing, Announced, Alive, StopReaches, Held,
         Disowned, Retirements, Controls
  <2>7. CASE GuardUnread(o)
    BY <1>t, <2>7, Returns
       DEF GuardUnread, LaunchReturns, ReadyHeld, Live, Writing, Announced, Alive
  <2>8. CASE GuardDone(o)
    BY <1>t, <2>8, Returns
       DEF GuardDone, DeleteIfLive, LaunchReturns, ReadyHeld, Live, Writing, Announced, Alive,
         GuardStops, StopReaches, Held, Disowned, Retirements, Controls, Launchers
  <2> QED
    BY <1>2, <2>1, <2>2, <2>3, <2>4, <2>5, <2>6, <2>7, <2>8 DEF Launching
<1>3. ASSUME NEW o \in Ops, Reconnection(o) PROVE ReadyHeld'
  <2>1. CASE Reconnect(o)
    BY <1>t, <2>1 DEF Reconnect, ReadyHeld, TimerCancelled, Announced, Writing
  <2>2. CASE Replaced(o)
    BY <1>t, <2>2, Moves
       DEF Replaced, ReadyHeld, Live, Writing, Announced, StopReaches, ReconnectCancelled, Held,
         Disowned, Retirements, Controls
  <2>3. CASE ReconnectFails(o)
    BY <1>t, <2>3, Returns
       DEF ReconnectFails, Reschedule, Exhausted, SetStatus, OneLaunch, InFlight, Launchers,
         StopReaches, ReconnectCancelled, Held, Disowned, Retirements, Controls, ReadyHeld,
         Live, Writing, Announced
  <2> QED
    BY <1>3, <2>1, <2>2, <2>3 DEF Reconnection
<1>4. ASSUME NEW o \in Ops, Retirement(o) PROVE ReadyHeld'
  <2>1. ASSUME NEW kind \in Controls, Retire(o, kind) PROVE ReadyHeld'
    BY <1>t, <2>1, Enters DEF Retire, Controls, ReadyHeld, Live, Writing, Announced, Alive
  <2>2. CASE RetireRefused(o)
    BY <1>t, <2>2, Returns DEF RetireRefused, ReadyHeld, Live, Writing, Announced, Alive
  <2>3. CASE DeleteChecked(o)
    BY <1>t, <2>3, Moves DEF DeleteChecked, ReadyHeld, Live, Writing, Announced, Alive
  <2>4. CASE RetireBegins(o)
    BY <1>t, <2>4, Moves DEF RetireBegins, ReadyHeld, Controls, Writing
  <2>5. CASE Settle(o)
    BY <1>t, <2>5, Moves DEF Settle, ReadyHeld, Writing
  <2>6. CASE Unregister(o)
    BY <1>t, <2>6, Returns, Moves
       DEF Unregister, DeleteIfLive, ReadyHeld, Live, Writing, Announced, Alive, Disowned,
         Retirements, Controls
  <2>7. CASE Retired(o)
    BY <1>t, <2>7 DEF Retired, SetStatus, ReadyHeld
  <2>8. CASE DeleteRefused(o)
    BY <1>t, <2>8, Returns DEF DeleteRefused, ReadyHeld
  <2>9. CASE DeleteHook(o)
    BY <1>t, <2>9, Moves DEF DeleteHook, ReadyHeld, Writing
  <2>10. CASE DeleteRow(o)
    BY <1>t, <2>10 DEF DeleteRow, ReadyHeld
  <2>11. CASE DeleteEnds(o)
    BY <1>t, <2>11 DEF DeleteEnds, ReadyHeld, TornDown
  <2>12. CASE StopOrphan(o)
    BY <1>t, <2>12 DEF StopOrphan, ReadyHeld
  <2> QED
    BY <1>4, <2>1, <2>2, <2>3, <2>4, <2>5, <2>6, <2>7, <2>8, <2>9, <2>10, <2>11, <2>12
       DEF Retirement
<1>5. CASE Disconnected
  BY <1>t, <1>5 DEF Disconnected, Exhausted, SetStatus, Reports, ReadyHeld
<1>6. CASE Ready
  BY <1>t, <1>6 DEF Ready, Live, ReadyHeld, Writing, Announced, Alive
<1>7. CASE EngineError
  BY <1>t, <1>7 DEF EngineError, SetStatus, Reports, ReadyHeld
<1>8. CASE CredentialsRemoved
  BY <1>t, <1>8 DEF CredentialsRemoved, ReadyHeld, Live, Writing, Announced, Alive
<1>9. CASE UNCHANGED vars
  BY <1>9 DEF vars, ReadyHeld, Live, Writing, Announced, Alive
<1> QED
  BY <1>1, <1>2, <1>3, <1>4, <1>5, <1>6, <1>7, <1>8, <1>9 DEF Next, Event

-----------------------------------------------------------------------------
(* The invariant holds at the start, and every step keeps it.               *)
LEMMA InitIInv == Init => IInv
<1> SUFFICES ASSUME Init PROVE IInv
  OBVIOUS
<1>1. op \in [Ops -> Slots] /\ \A o \in Ops : op[o] = Idle
  BY DEF Init, Idle, Pcs, None, Slots
<1>2. TypeOK
  BY <1>1 DEF Init, TypeOK, Statuses, None, Slots
<1>3. \A o \in Ops : op[o].kind = "none" /\ op[o].pc = "idle" /\ op[o].eng = None
  BY <1>1 DEF Idle
<1>4. (\A e \in Engines : ~Alive(e)) /\ InFlight = {} /\ ~Live
  BY <1>3 DEF Init, Alive, Live, InFlight, Launchers
<1>5. Solid
  BY <1>3, <1>4 DEF Init, Solid, TornDown, EntryHeld, HeldQuiet, NoOrphan, At
<1>6. OneLaunch /\ LaunchHolds /\ Disowned /\ GuardStops
  BY <1>3, <1>4 DEF OneLaunch, LaunchHolds, Disowned, GuardStops, At
<1>7. Fenced /\ RemovalHeld /\ StopReaches /\ DeleteReaches
  BY <1>4 DEF Fenced, RemovalHeld, StopReaches, DeleteReaches
<1>8. TimerCancelled /\ ReconnectCancelled /\ ReadyHeld
  BY <1>3 DEF Init, TimerCancelled, ReconnectCancelled, ReadyHeld
<1> QED
  BY <1>2, <1>5, <1>6, <1>7, <1>8 DEF IInv, Sound

LEMMA NextIInv == IInv /\ [Next]_vars => IInv'
<1> SUFFICES ASSUME IInv, [Next]_vars PROVE IInv'
  OBVIOUS
<1>1. TypeOK /\ TypeOK'
  BY TypeStep DEF IInv, Solid
<1>2. Solid'
  <2>1. TornDown' /\ EntryHeld'
    BY <1>1, TornDownKept, EntryHeldKept DEF IInv, Solid
  <2>2. HeldQuiet' /\ NoOrphan'
    BY <1>1, HeldQuietKept, NoOrphanKept DEF IInv, Solid
  <2> QED
    BY <2>1, <2>2 DEF Solid
<1>3. ASSUME Uncrossed' PROVE Sound'
  <2>1. Sound /\ Solid
    BY <1>3, UncrossedBefore DEF IInv
  <2>2. OneLaunch' /\ LaunchHolds'
    BY <1>1, <1>3, <2>1, OneLaunchKept, LaunchHoldsKept DEF Sound, Solid
  <2>3. Fenced' /\ RemovalHeld' /\ Disowned'
    BY <1>1, <1>3, <2>1, FencedKept, RemovalHeldKept, DisownedKept DEF Sound, Solid
  <2>4. StopReaches' /\ DeleteReaches'
    BY <1>1, <1>3, <2>1, StopReachesKept, DeleteReachesKept DEF Sound, Solid
  <2>5. TimerCancelled' /\ ReconnectCancelled'
    BY <1>1, <1>3, <2>1, TimerCancelledKept, ReconnectCancelledKept DEF Sound, Solid
  <2>6. GuardStops' /\ ReadyHeld'
    BY <1>1, <1>3, <2>1, GuardStopsKept, ReadyHeldKept DEF Sound, Solid
  <2> QED
    BY <2>2, <2>3, <2>4, <2>5, <2>6 DEF Sound
<1> QED
  BY <1>1, <1>2, <1>3 DEF IInv

(* The invariant, and with it the types, hold throughout.                   *)
THEOREM EngineInvariance == Spec => []IInv
BY InitIInv, NextIInv, PTL DEF Spec

(* Every variable keeps its type: the slots, the registry entry and the     *)
(* engines stay what the maps and sets of the engine services can hold.     *)
THEOREM EngineTypes == Spec => []TypeOK
<1>1. IInv => TypeOK
  BY DEF IInv
<1> QED
  BY <1>1, EngineInvariance, PTL

(* Whatever calls cross and whatever teardown fails, an engine that runs    *)
(* outside the registry has outlived its own teardown, was launched after   *)
(* it, or lost its entry to a launch it met: no stop, logout, delete or     *)
(* late cleanup unregisters an engine other than its own.                   *)
THEOREM EveryOrphanIsLoose == Spec => []NoOrphan
<1>1. IInv => NoOrphan
  BY DEF IInv, Solid
<1> QED
  BY <1>1, EngineInvariance, PTL

(* Unless launches crossed, no engine but a loose one runs while a logout   *)
(* is still removing the credentials it would run on.                       *)
THEOREM FenceHolds == Spec => []FencedCredentials
<1>1. IInv => FencedCredentials
  BY DEF IInv, Sound, Fenced, FencedCredentials
<1> QED
  BY <1>1, EngineInvariance, PTL

(* When all calls have returned, a session that is marked as stopping or    *)
(* whose row is gone has no engine but loose ones: every launch that was    *)
(* under way has seen the mark or the missing row, or its engine was torn   *)
(* down.                                                                    *)
THEOREM StopIsFinal == Spec => []StoppedStaysDown
<1>1. IInv => StoppedStaysDown
  <2> SUFFICES ASSUME IInv, Quiet, stopping \/ ~row, Uncrossed,
                      crossed \cap {"delete", "unread"} = {},
                      NEW e \in Engines, Alive(e), e \notin loose
               PROVE  FALSE
    BY DEF StoppedStaysDown
  <2>1. ~Announced /\ ~Captured(e) /\ ~Unguarded /\ ~Held(registered)
    BY DEF Quiet, Idle, Announced, Captured, Unguarded, Held, Retirements, At
  <2>2. Live
    BY DEF IInv, Solid, NoOrphan, Live, Alive, Engines, None
  <2> QED
    BY <2>1, <2>2 DEF IInv, Sound, StopReaches, DeleteReaches
<1> QED
  BY <1>1, EngineInvariance, PTL

(* When all calls have returned and no race happened, a session without an  *)
(* engine and without a retry to come does not read READY.                  *)
THEOREM ReadyIsNoGhost == Spec => []NoGhostReady
<1>1. IInv => NoGhostReady
  <2> SUFFICES ASSUME IInv, Quiet, row, registered = None, reconnect # "timer", crossed = {},
                      status = "ready"
               PROVE  FALSE
    BY DEF NoGhostReady
  <2>1. ReadyHeld
    BY DEF IInv, Sound, Uncrossed
  <2>2. ~Live /\ ~Writing
    BY DEF Live, Quiet, Idle, Writing, Announced, At, Controls
  <2> QED
    BY <2>1, <2>2 DEF ReadyHeld, Quiet, Idle, At
<1> QED
  BY <1>1, EngineInvariance, PTL
=============================================================================
