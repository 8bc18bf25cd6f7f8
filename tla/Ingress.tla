------------------------------ MODULE Ingress ------------------------------
(***************************************************************************)
(* The inbound webhook fabric of the OpenWA gateway: a provider's delivery *)
(* is persisted before it is acknowledged, handed to the BullMQ queue or,  *)
(* when the queue refuses it, dispatched inline, and its outcome is        *)
(* written back.  A reconciler replays what a crash stranded, a worker     *)
(* retries jobs and dead-letters the last failure, an operator redrives    *)
(* dead-letter rows.  The four share two tables and the queue, and each    *)
(* of their writes is a step of its own that may fail or be cut off by a   *)
(* crash.                                                                  *)
(*                                                                         *)
(* A payload lives where the row says: in the event row while that row is  *)
(* 'pending' (the code sets payload to NULL in the very update that leaves *)
(* 'pending'), then in a job, then in a dead-letter row.                   *)
(***************************************************************************)
EXTENDS Naturals, Sequences, FiniteSets

CONSTANTS
  Deliveries,    \* provider delivery ids, each the key of one ingress_events row
  Instances,     \* plugin instances
  InstanceOf,    \* the instance a delivery is addressed to
  QueueEnabled,  \* config queue.enabled: FALSE dispatches everything inline
  BatchSize,     \* rows one reconciler sweep reads
  MaxAttempts,   \* the reconciler's replay budget per event
  MaxRows,       \* bound: dead-letter rows per delivery an operator drives to
  MaxFaults,     \* bound: failed database writes
  MaxCrashes     \* bound: crashes of the process

ASSUME IngressAssumption ==
  /\ IsFiniteSet(Deliveries)
  /\ InstanceOf \in [Deliveries -> Instances]
  /\ QueueEnabled \in BOOLEAN
  /\ {BatchSize, MaxAttempts} \subseteq Nat \ {0}
  /\ {MaxRows, MaxFaults, MaxCrashes} \subseteq Nat
  /\ {"sweep", "redrive"} \cap Deliveries = {}

VARIABLES
  up,         \* the gateway process runs
  enabled,    \* enabled[i]: the instance accepts deliveries
  event,      \* ingress_events by delivery: dispatchState and dispatchAttempts
  born,       \* born[d]: the order of createdAt, 0 without a row
  dlq,        \* dlq[d]: integration_delivery_failures of d, "open" or "redriven"
  job,        \* job[d][k]: the BullMQ job with id d (k = 0) or redrive:<row k>
  proc,       \* the calls of enqueue() in flight, by caller
  batch,      \* the rows the sweep and the redrive read and still have to do
  delivered,  \* how often the plugin accepted d, two standing for more
  inlined,    \* history: deliveries dispatched inline at least once
  again,      \* history: deliveries a job id of which was taken again, its job removed
  excused,    \* history: dead-letter rows lost to a failed write or a replay
  faults, crashes

vars == <<up, enabled, event, born, dlq, job, proc, batch, delivered, inlined,
          again, excused, faults, crashes>>

Callers == Deliveries \cup {"sweep", "redrive"}   \* a live request is named by its delivery
Rows == 0 .. MaxRows

States == {"none", "pending", "dispatched", "failed"}
JobStates == {"none", "waiting", "active", "finishing", "burying", "done", "failed",
              "removed"}
Running == {"waiting", "active", "burying"}

Idle == [pc |-> "idle"]
Busy == [pc : {"enqueue", "dispatch", "outcome", "second"}, d : Deliveries,
         row : Rows, attempts : Nat, outcome : {"none", "queued", "dispatched", "failed"}]

TypeOK ==
  /\ up \in BOOLEAN
  /\ enabled \in [Instances -> BOOLEAN]
  /\ event \in [Deliveries -> [state : States, attempts : Nat]]
  /\ born \in [Deliveries -> Nat]
  /\ dlq \in [Deliveries -> Seq({"open", "redriven"})]
  /\ job \in [Deliveries -> [Rows -> JobStates]]
  /\ proc \in [Callers -> {Idle} \cup Busy]
  /\ batch \in [{"sweep", "redrive"} -> SUBSET [d : Deliveries, row : Rows, attempts : Nat]]
  /\ delivered \in [Deliveries -> 0 .. 2]
  /\ inlined \subseteq Deliveries /\ again \subseteq Deliveries
  /\ excused \subseteq Deliveries
  /\ faults \in Nat
  /\ crashes \in Nat

Init ==
  /\ up = TRUE
  /\ enabled = [i \in Instances |-> TRUE]
  /\ event = [d \in Deliveries |-> [state |-> "none", attempts |-> 0]]
  /\ born = [d \in Deliveries |-> 0]
  /\ dlq = [d \in Deliveries |-> <<>>]
  /\ job = [d \in Deliveries |-> [k \in Rows |-> "none"]]
  /\ proc = [p \in Callers |-> Idle]
  /\ batch = [b \in {"sweep", "redrive"} |-> {}]
  /\ delivered = [d \in Deliveries |-> 0]
  /\ inlined = {} /\ again = {} /\ excused = {}
  /\ faults = 0 /\ crashes = 0

-----------------------------------------------------------------------------
Pending(d) == event[d].state = "pending"
OpenRows(d) == {r \in 1 .. Len(dlq[d]) : dlq[d][r] = "open"}
Deliver(d) == delivered' = [delivered EXCEPT ![d] = IF @ < 2 THEN @ + 1 ELSE 2]
BuryRow(d) == dlq' = [dlq EXCEPT ![d] = Append(@, "open")]
Fault == faults < MaxFaults /\ faults' = faults + 1

At(p, pc) == up /\ proc[p].pc = pc
Goto(p, pc) == proc' = [proc EXCEPT ![p].pc = pc]
Done(p) == proc' = [proc EXCEPT ![p] = Idle]

(* One delivery's state is unchanged: the parts a step of a caller leaves.  *)
NoJobs == UNCHANGED <<job, delivered, inlined, again>>
Stable == UNCHANGED <<up, enabled, crashes>>

-----------------------------------------------------------------------------
(* IngressService.handle: a verified delivery of an enabled instance is     *)
(* recorded 'pending' and enqueued.  A delivery whose row exists answers    *)
(* 200 'duplicate' and changes nothing.                                     *)
Receive(d) ==
  /\ up /\ enabled[InstanceOf[d]]
  /\ event[d].state = "none"
  /\ event' = [event EXCEPT ![d] = [state |-> "pending", attempts |-> 0]]
  /\ born' = [born EXCEPT ![d] = 1 + Cardinality({e \in Deliveries : born[e] > 0})]
  /\ proc' = [proc EXCEPT ![d] = [pc |-> "enqueue", d |-> d, row |-> 0, attempts |-> 0,
                                  outcome |-> "none"]]
  /\ Stable /\ NoJobs /\ UNCHANGED <<dlq, batch, excused, faults>>

(* Mutant: a finished job does not hold its id.                             *)
AddJobAgain(p) ==
  /\ At(p, "enqueue") /\ QueueEnabled
  /\ LET d == proc[p].d  k == proc[p].row IN
       /\ job' = [job EXCEPT ![d][k] =
                     IF @ \in {"none", "removed", "done", "failed"} THEN "waiting" ELSE @]
       /\ again' = IF job[d][k] = "removed" THEN again \cup {d} ELSE again
  /\ proc' = [proc EXCEPT ![p].pc = "outcome", ![p].outcome = "queued"]
  /\ Stable /\ UNCHANGED <<event, born, dlq, batch, delivered, inlined, excused, faults>>

(* IngressEnqueueService.enqueue, queue.add: a job whose id exists is kept  *)
(* as it is, whatever its state; the id of a job the queue has removed is   *)
(* free.                                                                    *)
AddJob(p) ==
  /\ At(p, "enqueue") /\ QueueEnabled
  /\ LET d == proc[p].d  k == proc[p].row IN
       /\ job' = [job EXCEPT ![d][k] = IF @ \in {"none", "removed"} THEN "waiting" ELSE @]
       /\ again' = IF job[d][k] = "removed" THEN again \cup {d} ELSE again
  /\ proc' = [proc EXCEPT ![p].pc = "outcome", ![p].outcome = "queued"]
  /\ Stable /\ UNCHANGED <<event, born, dlq, batch, delivered, inlined, excused, faults>>

(* The queue is off, or add() rejected because Redis is unreachable.        *)
AddRefused(p) ==
  /\ At(p, "enqueue")
  /\ Goto(p, "dispatch")
  /\ inlined' = inlined \cup {proc[p].d}
  /\ Stable /\ UNCHANGED <<event, born, dlq, job, batch, delivered, again, excused, faults>>

(* The inline dispatch settles; a rejection is swallowed into the outcome.  *)
Dispatch(p, outcome) ==
  /\ At(p, "dispatch")
  /\ IF outcome = "dispatched" THEN Deliver(proc[p].d) ELSE UNCHANGED delivered
  /\ proc' = [proc EXCEPT ![p].pc = "outcome", ![p].outcome = outcome]
  /\ Stable /\ UNCHANGED <<event, born, dlq, job, batch, inlined, again, excused, faults>>

-----------------------------------------------------------------------------
(* The live path: markDispatchOutcome, then a dead-letter row when inline   *)
(* dispatch failed.  Either write may fail; the failure is only logged.     *)
AfterMark(d) == IF proc[d].outcome = "failed" THEN Goto(d, "second") ELSE Done(d)

LiveMark(d) ==
  /\ At(d, "outcome")
  /\ IF proc[d].outcome = "failed"
       THEN event' = [event EXCEPT ![d].attempts = @ + 1]
       ELSE event' = [event EXCEPT ![d].state = "dispatched"]
  /\ AfterMark(d)
  /\ Stable /\ NoJobs /\ UNCHANGED <<born, dlq, batch, excused, faults>>

LiveMarkLost(d) ==
  /\ At(d, "outcome") /\ Fault
  /\ AfterMark(d)
  /\ Stable /\ NoJobs /\ UNCHANGED <<event, born, dlq, batch, excused>>

LiveBury(d) ==
  /\ At(d, "second")
  /\ BuryRow(d)
  /\ Done(d)
  /\ Stable /\ NoJobs /\ UNCHANGED <<event, born, batch, excused, faults>>

LiveBuryLost(d) ==
  /\ At(d, "second") /\ Fault
  /\ Done(d)
  /\ Stable /\ NoJobs /\ UNCHANGED <<event, born, dlq, batch, excused>>

-----------------------------------------------------------------------------
(* sweep(): reads the oldest BatchSize pending rows; their attempts are a   *)
(* snapshot the later writes are computed from.                             *)
Oldest(d) ==
  Cardinality({e \in Deliveries : Pending(e) /\ born[e] < born[d]}) < BatchSize

SweepRead ==
  /\ up /\ proc["sweep"] = Idle /\ batch["sweep"] = {}
  /\ LET rows == {d \in Deliveries : Pending(d) /\ Oldest(d)} IN
       /\ rows # {}
       /\ batch' = [batch EXCEPT !["sweep"] =
                      {[d |-> d, row |-> 0, attempts |-> event[d].attempts] : d \in rows}]
  /\ Stable /\ NoJobs /\ UNCHANGED <<event, born, dlq, proc, excused, faults>>

(* The next row: skipped when its instance is disabled now, else replayed   *)
(* under its original delivery id.                                          *)
SweepRow(r) ==
  /\ up /\ proc["sweep"] = Idle /\ r \in batch["sweep"]
  /\ batch' = [batch EXCEPT !["sweep"] = @ \ {r}]
  /\ proc' = [proc EXCEPT !["sweep"] =
                IF enabled[InstanceOf[r.d]]
                  THEN [pc |-> "enqueue", d |-> r.d, row |-> r.row, attempts |-> r.attempts + 1,
                        outcome |-> "none"]
                  ELSE Idle]
  /\ Stable /\ NoJobs /\ UNCHANGED <<event, born, dlq, excused, faults>>

SweepAt(pc) == At("sweep", pc)
Accepted(p) == proc[p].outcome \in {"queued", "dispatched"}
Exhausted == proc["sweep"].outcome = "failed" /\ proc["sweep"].attempts >= MaxAttempts

SweepMark ==
  /\ SweepAt("outcome") /\ Accepted("sweep")
  /\ event' = [event EXCEPT ![proc["sweep"].d].state = "dispatched"]
  /\ Goto("sweep", "second")
  /\ Stable /\ NoJobs /\ UNCHANGED <<born, dlq, batch, excused, faults>>

(* Every open dead-letter row of the delivery is marked redriven.           *)
SweepRetire ==
  /\ SweepAt("second") /\ Accepted("sweep")
  /\ LET d == proc["sweep"].d IN
       /\ dlq' = [dlq EXCEPT ![d] = [r \in DOMAIN @ |-> "redriven"]]
       /\ excused' = IF proc["sweep"].outcome = "queued" /\ OpenRows(d) # {}
                       THEN excused \cup {d} ELSE excused
  /\ Done("sweep")
  /\ Stable /\ NoJobs /\ UNCHANGED <<event, born, batch, faults>>

(* Mutant: the spent event is not dead-lettered.                            *)
SweepBurySkips ==
  /\ SweepAt("outcome") /\ Exhausted
  /\ UNCHANGED dlq
  /\ Goto("sweep", "second")
  /\ Stable /\ NoJobs /\ UNCHANGED <<event, born, batch, excused, faults>>

(* The replay budget is spent: the dead-letter row first, unless any row of *)
(* the delivery exists, then the terminal mark.                             *)
SweepBury ==
  /\ SweepAt("outcome") /\ Exhausted
  /\ IF dlq[proc["sweep"].d] = <<>> THEN BuryRow(proc["sweep"].d) ELSE UNCHANGED dlq
  /\ Goto("sweep", "second")
  /\ Stable /\ NoJobs /\ UNCHANGED <<event, born, batch, excused, faults>>

SweepClose ==
  /\ SweepAt("second") /\ Exhausted
  /\ event' = [event EXCEPT ![proc["sweep"].d] =
                 [state |-> "failed", attempts |-> proc["sweep"].attempts]]
  /\ Done("sweep")
  /\ Stable /\ NoJobs /\ UNCHANGED <<born, dlq, batch, excused, faults>>

(* Mutant: a failed replay is not counted.                                  *)
SweepCountNever ==
  /\ SweepAt("outcome") /\ ~Accepted("sweep") /\ ~Exhausted
  /\ UNCHANGED event
  /\ Done("sweep")
  /\ Stable /\ NoJobs /\ UNCHANGED <<born, dlq, batch, excused, faults>>

SweepCount ==
  /\ SweepAt("outcome") /\ ~Accepted("sweep") /\ ~Exhausted
  /\ event' = [event EXCEPT ![proc["sweep"].d].attempts = proc["sweep"].attempts]
  /\ Done("sweep")
  /\ Stable /\ NoJobs /\ UNCHANGED <<born, dlq, batch, excused, faults>>

(* A bookkeeping failure ends this row only.                                *)
SweepWriteLost ==
  /\ SweepAt("outcome") \/ SweepAt("second")
  /\ Fault
  /\ Done("sweep")
  /\ Stable /\ NoJobs /\ UNCHANGED <<event, born, dlq, batch, excused>>

-----------------------------------------------------------------------------
(* redriveBatch: an operator replays the open rows of one instance, each as *)
(* a job with an id of its own.                                             *)
InFlight(d) == Cardinality({k \in Rows : job[d][k] \in Running})

RedriveRead(i) ==
  /\ up /\ proc["redrive"] = Idle /\ batch["redrive"] = {}
  /\ LET rows == {r \in [d : Deliveries, row : Rows, attempts : {0}] :
                    InstanceOf[r.d] = i /\ r.row \in OpenRows(r.d)
                      /\ Len(dlq[r.d]) + InFlight(r.d) < MaxRows} IN
       /\ rows # {}
       /\ batch' = [batch EXCEPT !["redrive"] = rows]
  /\ Stable /\ NoJobs /\ UNCHANGED <<event, born, dlq, proc, excused, faults>>

RedriveRow(r) ==
  /\ up /\ proc["redrive"] = Idle /\ r \in batch["redrive"]
  /\ batch' = [batch EXCEPT !["redrive"] = @ \ {r}]
  /\ proc' = [proc EXCEPT !["redrive"] = [pc |-> "enqueue", d |-> r.d, row |-> r.row,
                                          attempts |-> 0, outcome |-> "none"]]
  /\ Stable /\ NoJobs /\ UNCHANGED <<event, born, dlq, excused, faults>>

(* An accepted replay closes the event row if it is still pending, then the *)
(* dead-letter row; a failed one leaves both.                               *)
RedriveEvent ==
  /\ At("redrive", "outcome") /\ Accepted("redrive")
  /\ event' = [event EXCEPT ![proc["redrive"].d].state =
                 IF @ = "pending" THEN "dispatched" ELSE @]
  /\ Goto("redrive", "second")
  /\ Stable /\ NoJobs /\ UNCHANGED <<born, dlq, batch, excused, faults>>

RedriveClose ==
  /\ At("redrive", "second")
  /\ dlq' = [dlq EXCEPT ![proc["redrive"].d][proc["redrive"].row] = "redriven"]
  /\ Done("redrive")
  /\ Stable /\ NoJobs /\ UNCHANGED <<event, born, batch, excused, faults>>

RedriveFailed ==
  /\ At("redrive", "outcome") /\ ~Accepted("redrive")
  /\ Done("redrive")
  /\ Stable /\ NoJobs /\ UNCHANGED <<event, born, dlq, batch, excused, faults>>

(* A failed write throws out of the request, with the rest of the batch.    *)
RedriveWriteLost ==
  /\ At("redrive", "outcome") \/ At("redrive", "second")
  /\ Fault
  /\ Done("redrive")
  /\ batch' = [batch EXCEPT !["redrive"] = {}]
  /\ Stable /\ NoJobs /\ UNCHANGED <<event, born, dlq, excused>>

-----------------------------------------------------------------------------
(* IngressProcessor.process: one dispatch at a time per instance lane; the  *)
(* last failed attempt is dead-lettered before the job fails.  How many     *)
(* attempts a job gets is left open.                                        *)
SetJob(d, k, s) == job' = [job EXCEPT ![d][k] = s]
InState(d, k, s) == up /\ job[d][k] = s
JobOnly == Stable /\ UNCHANGED <<event, born, proc, batch, inlined, again>>

JobStart(d, k) ==
  /\ InState(d, k, "waiting")
  /\ \A e \in Deliveries, l \in Rows :
       InstanceOf[e] = InstanceOf[d] => job[e][l] # "active"
  /\ SetJob(d, k, "active")
  /\ JobOnly /\ UNCHANGED <<dlq, delivered, excused, faults>>

JobSucceeds(d, k) ==
  /\ InState(d, k, "active")
  /\ SetJob(d, k, "finishing")
  /\ Deliver(d)
  /\ JobOnly /\ UNCHANGED <<dlq, excused, faults>>

JobCompletes(d, k) ==
  /\ InState(d, k, "finishing")
  /\ SetJob(d, k, "done")
  /\ JobOnly /\ UNCHANGED <<dlq, delivered, excused, faults>>

(* A failed attempt is retried, or was the last.                            *)
JobFails(d, k, next) ==
  /\ InState(d, k, "active")
  /\ SetJob(d, k, next)
  /\ JobOnly /\ UNCHANGED <<dlq, delivered, excused, faults>>

JobBuries(d, k) ==
  /\ InState(d, k, "burying")
  /\ SetJob(d, k, "failed")
  /\ BuryRow(d)
  /\ JobOnly /\ UNCHANGED <<delivered, excused, faults>>

JobBuryLost(d, k) ==
  /\ InState(d, k, "burying") /\ Fault
  /\ SetJob(d, k, "failed")
  /\ excused' = excused \cup {d}
  /\ JobOnly /\ UNCHANGED <<dlq, delivered>>

(* A finished job is removed once it is too old, or too many others have    *)
(* finished since.                                                          *)
JobRemoved(d, k) ==
  /\ up /\ job[d][k] \in {"done", "failed"}
  /\ SetJob(d, k, "removed")
  /\ JobOnly /\ UNCHANGED <<dlq, delivered, excused, faults>>

-----------------------------------------------------------------------------
(* A crash ends every call in flight; BullMQ hands the jobs the dead worker *)
(* held back to waiting.                                                    *)
Crash ==
  /\ up /\ crashes < MaxCrashes
  /\ up' = FALSE
  /\ crashes' = crashes + 1
  /\ proc' = [p \in Callers |-> Idle]
  /\ batch' = [b \in {"sweep", "redrive"} |-> {}]
  /\ job' = [d \in Deliveries |-> [k \in Rows |->
               IF job[d][k] \in {"active", "finishing", "burying"} THEN "waiting"
               ELSE job[d][k]]]
  /\ UNCHANGED <<enabled, event, born, dlq, delivered, inlined, again, excused, faults>>

Restart ==
  /\ ~up
  /\ up' = TRUE
  /\ UNCHANGED <<enabled, event, born, dlq, job, proc, batch, delivered, inlined,
                 again, excused, faults, crashes>>

SetEnabled(i) ==
  /\ enabled' = [enabled EXCEPT ![i] = ~@]
  /\ UNCHANGED <<up, event, born, dlq, job, proc, batch, delivered, inlined,
                 again, excused, faults, crashes>>

-----------------------------------------------------------------------------
Enqueue(p) == AddJob(p) \/ AddRefused(p) \/ Dispatch(p, "dispatched") \/ Dispatch(p, "failed")
Live(d) == LiveMark(d) \/ LiveMarkLost(d) \/ LiveBury(d) \/ LiveBuryLost(d)
Sweep ==
  \/ SweepRead \/ SweepMark \/ SweepRetire \/ SweepBury \/ SweepClose \/ SweepCount
  \/ SweepWriteLost
  \/ \E r \in batch["sweep"] : SweepRow(r)
Redrive ==
  \/ RedriveEvent \/ RedriveClose \/ RedriveFailed \/ RedriveWriteLost
  \/ \E r \in batch["redrive"] : RedriveRow(r)
Worker(d, k) ==
  JobStart(d, k) \/ JobSucceeds(d, k) \/ JobCompletes(d, k)
    \/ JobFails(d, k, "waiting") \/ JobFails(d, k, "burying") \/ JobBuries(d, k) \/ JobBuryLost(d, k)

Next ==
  \/ \E d \in Deliveries : Receive(d) \/ Live(d)
  \/ \E p \in Callers : Enqueue(p)
  \/ Sweep
  \/ Redrive \/ \E i \in Instances : RedriveRead(i)
  \/ \E d \in Deliveries, k \in Rows : Worker(d, k) \/ JobRemoved(d, k)
  \/ Crash \/ Restart
  \/ \E i \in Instances : SetEnabled(i)

Spec == Init /\ [][Next]_vars

(* The reconcile interval keeps firing and Node runs the continuations of a *)
(* sweep that has begun; a supervisor restarts a dead process.  Nothing is  *)
(* assumed of providers, operators, live requests, the worker or the        *)
(* outcome of a dispatch.                                                   *)
Fairness == WF_vars(Restart) /\ WF_vars(Sweep \/ Enqueue("sweep"))

LiveSpec == Spec /\ Fairness

-----------------------------------------------------------------------------
(* The inductive invariant.  What a call carries is on record: its row, the *)
(* job it queued, the delivery it made, the row the sweep buried first.     *)
Safe(d) == delivered[d] > 0 \/ d \in excused

Carried(p) ==
  LET c == proc[p] IN
    /\ c.row <= Len(dlq[c.d])
    /\ c.outcome = "queued" => job[c.d][c.row] # "none"
    /\ c.outcome = "dispatched" => delivered[c.d] > 0
    /\ c.pc \in {"outcome", "second"} => c.outcome # "none"
    /\ c.pc = "dispatch" \/ c.outcome \in {"failed", "dispatched"} => c.d \in inlined
    /\ p \in Deliveries => c.d = p /\ (c.pc = "second" => c.outcome = "failed")
    /\ p = "sweep" /\ c.pc = "second" /\ c.outcome = "failed" => Len(dlq[c.d]) > 0
    /\ p = "redrive" /\ c.pc = "second" => c.outcome # "failed"
    /\ IF p = "redrive" THEN c.row > 0 ELSE c.row = 0

Batched ==
  \A b \in {"sweep", "redrive"} : \A r \in batch[b] :
    /\ r.row <= Len(dlq[r.d])
    /\ IF b = "redrive" THEN r.row > 0 ELSE r.row = 0

(* Every job stands for a dead-letter row, or is the first; a spent job     *)
(* leaves a later row, a row is retired for a job, a delivery or an excuse. *)
JobsKept(d) ==
  \A k \in Rows :
    /\ job[d][k] # "none" => k <= Len(dlq[d])
    /\ job[d][k] \in {"finishing", "done"} => delivered[d] > 0
    /\ job[d][k] \in {"failed", "removed"} => Safe(d) \/ k < Len(dlq[d])
RowsKept(d) ==
  \A r \in 1 .. Len(dlq[d]) :
    dlq[d][r] = "redriven" => Safe(d) \/ (r \in Rows /\ job[d][r] # "none")
EventKept(d) ==
  event[d].state \in {"dispatched", "failed"} =>
    Safe(d) \/ job[d][0] # "none" \/ Len(dlq[d]) > 0

(* On the queue path the last row's job is the only one that can deliver.   *)
OneJobLeft(d) ==
  d \notin inlined \cup again /\ crashes = 0 =>
    /\ \A k \in Rows : k < Len(dlq[d]) => job[d][k] \in {"failed", "removed"}
    /\ delivered[d] <= 1
    /\ delivered[d] > 0 =>
         Len(dlq[d]) \in Rows /\ job[d][Len(dlq[d])] \in {"finishing", "done", "removed"}

IInv ==
  /\ TypeOK /\ Batched
  /\ \A p \in Callers : proc[p] # Idle => Carried(p)
  /\ \A d \in Deliveries :
       JobsKept(d) /\ RowsKept(d) /\ EventKept(d) /\ OneJobLeft(d)

(* Where the payload of an undelivered event is still to be found.          *)
Held(d) ==
  \/ Pending(d)
  \/ \E k \in Rows : job[d][k] \in Running
  \/ OpenRows(d) # {}

(* Whatever crash, failed write or race intervenes, an acknowledged event   *)
(* the plugin has not accepted stays in the event row, in a job or in an    *)
(* open dead-letter row.  The one exception: a dead-letter row the worker   *)
(* could not write, or one the reconciler retired although its replay was   *)
(* only queued.                                                             *)
NothingLost ==
  \A d \in Deliveries :
    event[d].state # "none" /\ delivered[d] = 0 => Held(d) \/ d \in excused

(* The comment at reconcileRow: on the queue path a replay never delivers   *)
(* twice.  It holds as long as no crash cuts a worker off between the       *)
(* plugin's answer and the job's completion, and no replay or redrive comes *)
(* so late that the queue has removed the finished job of that id.          *)
QueueDeliversOnce ==
  \A d \in Deliveries :
    d \notin inlined \cup again /\ crashes = 0 => delivered[d] <= 1

(* The reconciler reaches every stranded event of an enabled instance,      *)
(* unless the rows of disabled instances fill the batch it reads.           *)
Crowded(d) ==
  Cardinality({e \in Deliveries : /\ Pending(e) /\ born[e] < born[d]
                                  /\ ~enabled[InstanceOf[e]]}) >= BatchSize
EventuallySettled ==
  \A d \in Deliveries :
    Pending(d) ~> (~Pending(d) \/ ~enabled[InstanceOf[d]] \/ Crowded(d))
=============================================================================
