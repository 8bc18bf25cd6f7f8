---------------------------- MODULE IngressProofs ----------------------------
(* Proofs about Ingress, for any number of deliveries, instances, crashes  *)
(* and failed writes and any batch size and replay budget: no acknowledged *)
(* event is lost but in the ways the property names, and on the queue path *)
(* nothing is delivered twice.                                             *)
EXTENDS Ingress, FiniteSetTheorems, SequenceTheorems, TLAPS

LEMMA Constants ==
    /\ InstanceOf \in [Deliveries -> Instances]
    /\ MaxRows \in Nat /\ MaxFaults \in Nat /\ MaxCrashes \in Nat /\ MaxAttempts \in Nat
    /\ 0 \in Rows /\ \A r \in Rows : r \in Nat
    /\ {"sweep", "redrive"} \cap Deliveries = {}
    /\ "sweep" \in Callers /\ "redrive" \in Callers /\ Deliveries \subseteq Callers
    /\ \A p \in Callers : p \in Deliveries \/ p = "sweep" \/ p = "redrive"
  BY IngressAssumption DEF Rows, Callers

PCs == {"enqueue", "dispatch", "outcome", "second"}
Outcomes == {"none", "queued", "dispatched", "failed"}
DlqStates == {"open", "redriven"}

-----------------------------------------------------------------------------
(* Calls in flight.                                                         *)

\* Whoever is at a step is busy, with the fields of a call.
LEMMA BusyCall ==
    ASSUME TypeOK, NEW p \in Callers, proc[p].pc \in PCs
    PROVE  /\ proc[p] \in Busy /\ proc[p] # Idle
           /\ proc[p].d \in Deliveries /\ proc[p].row \in Rows
           /\ proc[p].attempts \in Nat /\ proc[p].outcome \in Outcomes
  <1>1. proc[p] \in Busy \/ proc[p] = Idle BY DEF TypeOK
  <1>2. Idle.pc \notin PCs BY DEF Idle, PCs
  <1>3. proc[p] \in Busy BY <1>1, <1>2
  <1>4. proc[p] # Idle BY <1>2
  <1> QED BY <1>3, <1>4 DEF Busy, Outcomes

LEMMA AtStep ==
    ASSUME TypeOK, NEW p \in Callers, NEW pc \in PCs, At(p, pc)
    PROVE  /\ proc[p] \in Busy /\ proc[p] # Idle /\ proc[p].pc = pc
           /\ proc[p].d \in Deliveries /\ proc[p].row \in Rows
           /\ proc[p].attempts \in Nat /\ proc[p].outcome \in Outcomes
  BY BusyCall DEF At

\* A call moves on, or ends: the others stay.
LEMMA Moves ==
    ASSUME TypeOK, NEW p \in Callers, proc[p] \in Busy, NEW pc \in PCs, NEW o \in Outcomes,
           proc' = [proc EXCEPT ![p].pc = pc, ![p].outcome = o]
    PROVE  /\ proc' \in [Callers -> {Idle} \cup Busy]
           /\ proc'[p].pc = pc /\ proc'[p].outcome = o /\ proc'[p].d = proc[p].d
           /\ proc'[p].row = proc[p].row
           /\ \A q \in Callers \ {p} : proc'[q] = proc[q]
  <1>1. [proc[p] EXCEPT !.pc = pc, !.outcome = o] \in Busy BY DEF Busy, PCs, Outcomes
  <1>2. proc' = [proc EXCEPT ![p] = [proc[p] EXCEPT !.pc = pc, !.outcome = o]] BY DEF TypeOK
  <1>3. proc'[p] = [proc[p] EXCEPT !.pc = pc, !.outcome = o] BY <1>2 DEF TypeOK
  <1>4. \A q \in Callers \ {p} : proc'[q] = proc[q] BY <1>2 DEF TypeOK
  <1>5. proc' \in [Callers -> {Idle} \cup Busy] BY <1>1, <1>2 DEF TypeOK
  <1>6. proc'[p].pc = pc BY <1>3 DEF Busy
  <1>7. proc'[p].outcome = o BY <1>3 DEF Busy
  <1>8. proc[p] = [pc |-> proc[p].pc, d |-> proc[p].d, row |-> proc[p].row,
                   attempts |-> proc[p].attempts, outcome |-> proc[p].outcome]
    BY DEF Busy
  <1>9. proc'[p].d = proc[p].d /\ proc'[p].row = proc[p].row BY <1>3, <1>8
  <1> QED BY <1>4, <1>5, <1>6, <1>7, <1>8, <1>9

LEMMA GoesTo ==
    ASSUME TypeOK, NEW p \in Callers, proc[p] \in Busy, NEW pc \in PCs, Goto(p, pc)
    PROVE  /\ proc' \in [Callers -> {Idle} \cup Busy]
           /\ proc'[p].pc = pc /\ proc'[p].outcome = proc[p].outcome
           /\ proc'[p].d = proc[p].d /\ proc'[p].row = proc[p].row
           /\ \A q \in Callers \ {p} : proc'[q] = proc[q]
  <1>1. [proc[p] EXCEPT !.pc = pc] \in Busy BY DEF Busy, PCs
  <1>2. proc' = [proc EXCEPT ![p] = [proc[p] EXCEPT !.pc = pc]] BY DEF TypeOK, Goto
  <1>3. proc'[p] = [proc[p] EXCEPT !.pc = pc] BY <1>2 DEF TypeOK
  <1>4. \A q \in Callers \ {p} : proc'[q] = proc[q] BY <1>2 DEF TypeOK
  <1>5. proc' \in [Callers -> {Idle} \cup Busy] BY <1>1, <1>2 DEF TypeOK
  <1>6. /\ proc'[p].pc = pc /\ proc'[p].outcome = proc[p].outcome
        /\ proc'[p].d = proc[p].d /\ proc'[p].row = proc[p].row
    BY <1>3 DEF Busy
  <1> QED BY <1>4, <1>5, <1>6

LEMMA Ends ==
    ASSUME TypeOK, NEW p \in Callers, Done(p)
    PROVE  /\ proc' \in [Callers -> {Idle} \cup Busy] /\ proc'[p] = Idle
           /\ \A q \in Callers \ {p} : proc'[q] = proc[q]
  BY DEF TypeOK, Done

\* A call begins with the row it is for.
LEMMA Begins ==
    ASSUME TypeOK, NEW p \in Callers, NEW d \in Deliveries, NEW row \in Rows, NEW a \in Nat,
           proc' = [proc EXCEPT ![p] = [pc |-> "enqueue", d |-> d, row |-> row,
                                        attempts |-> a, outcome |-> "none"]]
    PROVE  /\ proc' \in [Callers -> {Idle} \cup Busy]
           /\ proc'[p].pc = "enqueue" /\ proc'[p].outcome = "none"
           /\ proc'[p].d = d /\ proc'[p].row = row
           /\ \A q \in Callers \ {p} : proc'[q] = proc[q]
  <1> DEFINE c == [pc |-> "enqueue", d |-> d, row |-> row, attempts |-> a, outcome |-> "none"]
  <1>1. c \in Busy BY DEF Busy
  <1>2. proc'[p] = c BY DEF TypeOK
  <1> QED BY <1>1, <1>2 DEF TypeOK

-----------------------------------------------------------------------------
(* The dead-letter rows.                                                    *)

LEMMA Buried ==
    ASSUME TypeOK, NEW d \in Deliveries, BuryRow(d)
    PROVE  /\ dlq' \in [Deliveries -> Seq(DlqStates)]
           /\ \A e \in Deliveries \ {d} : dlq'[e] = dlq[e]
           /\ Len(dlq'[d]) = Len(dlq[d]) + 1 /\ Len(dlq[d]) \in Nat
           /\ dlq'[d][Len(dlq[d]) + 1] = "open"
           /\ \A r \in 1 .. Len(dlq[d]) : dlq'[d][r] = dlq[d][r]
  <1>1. dlq[d] \in Seq(DlqStates) /\ "open" \in DlqStates BY DEF TypeOK, DlqStates
  <1>2. dlq'[d] = Append(dlq[d], "open") BY DEF BuryRow, TypeOK
  <1>3. /\ Append(dlq[d], "open") \in Seq(DlqStates)
        /\ Len(Append(dlq[d], "open")) = Len(dlq[d]) + 1
        /\ Append(dlq[d], "open")[Len(dlq[d]) + 1] = "open"
        /\ \A r \in 1 .. Len(dlq[d]) : Append(dlq[d], "open")[r] = dlq[d][r]
    BY <1>1, AppendProperties
  <1>4. dlq' \in [Deliveries -> Seq(DlqStates)]
    BY <1>3 DEF BuryRow, TypeOK, DlqStates
  <1>5. \A e \in Deliveries \ {d} : dlq'[e] = dlq[e] BY DEF BuryRow, TypeOK
  <1>6. Len(dlq[d]) \in Nat BY <1>1, LenProperties
  <1> QED BY <1>2, <1>3, <1>4, <1>5, <1>6

LEMMA Retired ==
    ASSUME TypeOK, NEW d \in Deliveries,
           dlq' = [dlq EXCEPT ![d] = [r \in DOMAIN @ |-> "redriven"]]
    PROVE  /\ dlq' \in [Deliveries -> Seq(DlqStates)]
           /\ \A e \in Deliveries \ {d} : dlq'[e] = dlq[e]
           /\ Len(dlq'[d]) = Len(dlq[d])
           /\ OpenRows(d) = {} => \A r \in 1 .. Len(dlq[d]) : dlq[d][r] = "redriven"
  <1> DEFINE s == [r \in DOMAIN dlq[d] |-> "redriven"]
  <1>1. dlq[d] \in Seq(DlqStates) BY DEF TypeOK, DlqStates
  <1>2. DOMAIN dlq[d] = 1 .. Len(dlq[d]) /\ Len(dlq[d]) \in Nat BY <1>1, LenProperties
  <1>3. s \in Seq(DlqStates) /\ Len(s) = Len(dlq[d]) BY <1>2 DEF DlqStates
  <1>4. dlq' = [dlq EXCEPT ![d] = s] BY DEF TypeOK
  <1>5. dlq'[d] = s BY <1>4 DEF TypeOK
  <1>6. dlq' \in [Deliveries -> Seq(DlqStates)] BY <1>3, <1>4 DEF TypeOK, DlqStates
  <1>7. OpenRows(d) = {} => \A r \in 1 .. Len(dlq[d]) : dlq[d][r] = "redriven"
    BY <1>1, <1>2, ElementOfSeq DEF OpenRows, DlqStates
  <1>8. \A e \in Deliveries \ {d} : dlq'[e] = dlq[e] BY <1>4 DEF TypeOK
  <1> HIDE DEF s
  <1> QED BY <1>3, <1>5, <1>6, <1>7, <1>8

LEMMA Closed ==
    ASSUME TypeOK, NEW d \in Deliveries, NEW k \in 1 .. Len(dlq[d]),
           dlq' = [dlq EXCEPT ![d][k] = "redriven"]
    PROVE  /\ dlq' \in [Deliveries -> Seq(DlqStates)]
           /\ \A e \in Deliveries \ {d} : dlq'[e] = dlq[e]
           /\ Len(dlq'[d]) = Len(dlq[d])
           /\ \A r \in 1 .. Len(dlq[d]) : r # k => dlq'[d][r] = dlq[d][r]
  <1>1. dlq[d] \in Seq(DlqStates) /\ "redriven" \in DlqStates BY DEF TypeOK, DlqStates
  <1>2. dlq'[d] = [dlq[d] EXCEPT ![k] = "redriven"] BY DEF TypeOK
  <1>3. /\ [dlq[d] EXCEPT ![k] = "redriven"] \in Seq(DlqStates)
        /\ Len([dlq[d] EXCEPT ![k] = "redriven"]) = Len(dlq[d])
        /\ \A r \in 1 .. Len(dlq[d]) :
             [dlq[d] EXCEPT ![k] = "redriven"][r] = IF r = k THEN "redriven" ELSE dlq[d][r]
    BY <1>1, ExceptSeq
  <1>4. dlq' = [dlq EXCEPT ![d] = [dlq[d] EXCEPT ![k] = "redriven"]] BY DEF TypeOK
  <1>5. dlq' \in [Deliveries -> Seq(DlqStates)] BY <1>3, <1>4 DEF TypeOK, DlqStates
  <1>6. \A e \in Deliveries \ {d} : dlq'[e] = dlq[e] BY <1>4 DEF TypeOK
  <1> QED BY <1>2, <1>3, <1>5, <1>6

LEMMA Lengths ==
    ASSUME TypeOK, NEW d \in Deliveries
    PROVE  Len(dlq[d]) \in Nat /\ (dlq[d] # <<>> => Len(dlq[d]) > 0)
  BY EmptySeq, LenProperties DEF TypeOK

(* Jobs.                                                                    *)
LEMMA JobWritten ==
    ASSUME TypeOK, NEW d \in Deliveries, NEW k \in Rows, NEW s \in JobStates,
           job' = [job EXCEPT ![d][k] = s]
    PROVE  /\ job' \in [Deliveries -> [Rows -> JobStates]]
           /\ job'[d][k] = s
           /\ \A l \in Rows \ {k} : job'[d][l] = job[d][l]
           /\ \A e \in Deliveries \ {d} : job'[e] = job[e]
  BY DEF TypeOK

LEMMA Delivered ==
    ASSUME TypeOK, NEW d \in Deliveries, Deliver(d)
    PROVE  /\ delivered' \in [Deliveries -> 0 .. 2] /\ delivered'[d] > 0
           /\ delivered[d] = 0 => delivered'[d] = 1
           /\ \A e \in Deliveries \ {d} : delivered'[e] = delivered[e]
  <1>1. delivered[d] \in 0 .. 2 BY DEF TypeOK
  <1>2. delivered'[d] = IF delivered[d] < 2 THEN delivered[d] + 1 ELSE 2 BY DEF TypeOK, Deliver
  <1>3. delivered' \in [Deliveries -> 0 .. 2] BY <1>1 DEF TypeOK, Deliver
  <1>4. \A e \in Deliveries \ {d} : delivered'[e] = delivered[e] BY DEF TypeOK, Deliver
  <1> QED BY <1>1, <1>2, <1>3, <1>4

(* Event rows.                                                              *)
EventRow == [state : States, attempts : Nat]

LEMMA EventWritten ==
    ASSUME TypeOK, NEW d \in Deliveries, NEW r \in EventRow, event' = [event EXCEPT ![d] = r]
    PROVE  /\ event' \in [Deliveries -> EventRow]
           /\ event'[d] = r /\ \A e \in Deliveries \ {d} : event'[e] = event[e]
  BY DEF TypeOK, EventRow

LEMMA EventMarked ==
    ASSUME TypeOK, NEW d \in Deliveries, NEW s \in States,
           event' = [event EXCEPT ![d].state = s]
    PROVE  /\ event' \in [Deliveries -> EventRow]
           /\ event'[d].state = s /\ \A e \in Deliveries \ {d} : event'[e] = event[e]
  <1>1. event[d] \in EventRow BY DEF TypeOK, EventRow
  <1>2. [event[d] EXCEPT !.state = s] \in EventRow /\ [event[d] EXCEPT !.state = s].state = s
    BY <1>1 DEF EventRow
  <1>3. event' = [event EXCEPT ![d] = [event[d] EXCEPT !.state = s]] BY DEF TypeOK
  <1> QED BY <1>2, <1>3, EventWritten

LEMMA EventCounted ==
    ASSUME TypeOK, NEW d \in Deliveries, NEW a \in Nat,
           event' = [event EXCEPT ![d].attempts = a]
    PROVE  /\ event' \in [Deliveries -> EventRow]
           /\ \A e \in Deliveries : event'[e].state = event[e].state
  <1>1. event[d] \in EventRow BY DEF TypeOK, EventRow
  <1>2. /\ [event[d] EXCEPT !.attempts = a] \in EventRow
        /\ [event[d] EXCEPT !.attempts = a].state = event[d].state
    BY <1>1 DEF EventRow
  <1>3. event' = [event EXCEPT ![d] = [event[d] EXCEPT !.attempts = a]] BY DEF TypeOK
  <1> QED BY <1>2, <1>3, EventWritten

(* What the live path marks: a failure is counted, an acceptance closes.    *)
LEMMA LiveMarks ==
    ASSUME TypeOK, NEW d \in Deliveries, LiveMark(d)
    PROVE  /\ event' \in [Deliveries -> EventRow]
           /\ \A e \in Deliveries \ {d} : event'[e] = event[e]
           /\ event'[d].state = IF proc[d].outcome = "failed" THEN event[d].state
                                 ELSE "dispatched"
  <1>1. event[d] \in EventRow BY DEF TypeOK, EventRow
  <1>2. CASE proc[d].outcome = "failed"
    <2>1. event[d].attempts + 1 \in Nat BY <1>1 DEF EventRow
    <2>2. event' = [event EXCEPT ![d].attempts = event[d].attempts + 1] BY <1>2 DEF LiveMark
    <2>3. \A e \in Deliveries \ {d} : event'[e] = event[e] BY <2>2 DEF TypeOK
    <2> QED BY <1>2, <2>1, <2>2, <2>3, EventCounted
  <1>3. CASE proc[d].outcome # "failed"
    <2>1. event' = [event EXCEPT ![d].state = "dispatched"] BY <1>3 DEF LiveMark, TypeOK
    <2>2. "dispatched" \in States BY DEF States
    <2> QED BY <1>3, <2>1, <2>2, EventMarked
  <1> QED BY <1>2, <1>3

-----------------------------------------------------------------------------
(* What a call does to itself.  Every step takes up a slot, moves one on or *)
(* ends it; batches only shrink after they have been read.                  *)

LEMMA Marked ==
    ASSUME TypeOK, NEW d \in Deliveries, proc[d] \in Busy, AfterMark(d)
    PROVE  /\ proc' \in [Callers -> {Idle} \cup Busy]
           /\ \A q \in Callers \ {d} : proc'[q] = proc[q]
           /\ \/ proc'[d] = Idle
              \/ /\ proc'[d].pc = "second" /\ proc'[d].outcome = proc[d].outcome
                 /\ proc'[d].d = proc[d].d /\ proc'[d].row = proc[d].row
  BY Constants, GoesTo, Ends DEF AfterMark, PCs

LEMMA TypeStep == IInv /\ [Next]_vars => TypeOK'
  <1> SUFFICES ASSUME IInv, [Next]_vars PROVE TypeOK' OBVIOUS
  <1> USE Constants DEF Stable, NoJobs
  <1>0. /\ TypeOK
        /\ EventRow = [state : States, attempts : Nat] /\ DlqStates = {"open", "redriven"}
        /\ States = {"none", "pending", "dispatched", "failed"}
        /\ PCs = {"enqueue", "dispatch", "outcome", "second"}
        /\ Outcomes = {"none", "queued", "dispatched", "failed"}
    BY DEF IInv, EventRow, DlqStates, States, PCs, Outcomes
  <1>1. ASSUME NEW d \in Deliveries, Receive(d) PROVE TypeOK'
    <2>1. [state |-> "pending", attempts |-> 0] \in EventRow BY DEF EventRow, States
    <2>2. event' \in [Deliveries -> EventRow] BY <1>0, <1>1, <2>1, EventWritten DEF Receive
    <2>3. 1 + Cardinality({e \in Deliveries : born[e] > 0}) \in Nat
      BY IngressAssumption, FS_Subset, FS_CardinalityType
    <2>4. born' \in [Deliveries -> Nat] BY <1>0, <1>1, <2>3 DEF Receive, TypeOK
    <2>5. proc' \in [Callers -> {Idle} \cup Busy] BY <1>0, <1>1, Begins DEF Receive
    <2> QED BY <1>0, <1>1, <2>2, <2>4, <2>5 DEF Receive, TypeOK
  <1>2. ASSUME NEW d \in Deliveries, Live(d) PROVE TypeOK'
    <2>1. proc[d] \in Busy BY <1>0, <1>2, AtStep DEF Live, LiveMark, LiveMarkLost, LiveBury, LiveBuryLost
    <2>2. proc' \in [Callers -> {Idle} \cup Busy]
      BY <1>0, <1>2, <2>1, Marked, Ends DEF Live, LiveMark, LiveMarkLost, LiveBury, LiveBuryLost
    <2>3. event' \in [Deliveries -> EventRow]
      BY <1>0, <1>2, LiveMarks DEF Live, LiveMark, LiveMarkLost, LiveBury, LiveBuryLost, TypeOK
    <2>4. dlq' \in [Deliveries -> Seq(DlqStates)]
      BY <1>0, <1>2, Buried DEF Live, LiveMark, LiveMarkLost, LiveBury, LiveBuryLost, TypeOK
    <2>5. faults' \in Nat
      BY <1>0, <1>2 DEF Live, LiveMark, LiveMarkLost, LiveBury, LiveBuryLost, Fault, TypeOK
    <2> QED BY <1>0, <1>2, <2>2, <2>3, <2>4, <2>5
            DEF Live, LiveMark, LiveMarkLost, LiveBury, LiveBuryLost, TypeOK
  <1>3. ASSUME NEW p \in Callers, AddJob(p) PROVE TypeOK'
    <2>1. /\ proc[p] \in Busy /\ proc[p].d \in Deliveries /\ proc[p].row \in Rows
      BY <1>0, <1>3, AtStep DEF AddJob
    <2>2. proc' \in [Callers -> {Idle} \cup Busy] BY <1>0, <1>3, <2>1, Moves DEF AddJob
    <2>3. job' \in [Deliveries -> [Rows -> JobStates]]
      BY <1>0, <1>3, <2>1 DEF AddJob, TypeOK, JobStates
    <2>4. again' \subseteq Deliveries BY <1>0, <1>3, <2>1 DEF AddJob, TypeOK
    <2> QED BY <1>0, <1>3, <2>2, <2>3, <2>4 DEF AddJob, TypeOK
  <1>4. ASSUME NEW p \in Callers, AddRefused(p) PROVE TypeOK'
    <2>1. /\ proc[p] \in Busy /\ proc[p].d \in Deliveries
      BY <1>0, <1>4, AtStep DEF AddRefused
    <2>2. proc' \in [Callers -> {Idle} \cup Busy] BY <1>0, <1>4, <2>1, GoesTo DEF AddRefused
    <2> QED BY <1>0, <1>4, <2>1, <2>2 DEF AddRefused, TypeOK
  <1>5. ASSUME NEW p \in Callers, NEW o \in {"dispatched", "failed"}, Dispatch(p, o) PROVE TypeOK'
    <2>1. /\ proc[p] \in Busy /\ proc[p].d \in Deliveries
      BY <1>0, <1>5, AtStep DEF Dispatch
    <2>2. proc' \in [Callers -> {Idle} \cup Busy] BY <1>0, <1>5, <2>1, Moves DEF Dispatch
    <2>3. delivered' \in [Deliveries -> 0 .. 2] BY <1>0, <1>5, <2>1, Delivered DEF Dispatch, TypeOK
    <2> QED BY <1>0, <1>5, <2>2, <2>3 DEF Dispatch, TypeOK
  <1>6. CASE SweepRead
    <2> DEFINE rows == {d \in Deliveries : Pending(d) /\ Oldest(d)}
               read == {[d |-> d, row |-> 0, attempts |-> event[d].attempts] : d \in rows}
    <2>1. \A d \in Deliveries : event[d].attempts \in Nat BY <1>0 DEF TypeOK
    <2>2. read \subseteq [d : Deliveries, row : Rows, attempts : Nat] BY <2>1
    <2>3. batch' = [batch EXCEPT !["sweep"] = read] BY <1>6 DEF SweepRead
    <2> HIDE DEF read
    <2> QED BY <1>0, <1>6, <2>2, <2>3 DEF SweepRead, TypeOK
  <1>7. ASSUME NEW r \in batch["sweep"], SweepRow(r) PROVE TypeOK'
    <2>1. r \in [d : Deliveries, row : Rows, attempts : Nat] BY <1>0, <1>7 DEF TypeOK
    <2>2. r.d \in Deliveries /\ r.row \in Rows /\ r.attempts + 1 \in Nat BY <2>1
    <2>3. proc' \in [Callers -> {Idle} \cup Busy]
      <3>1. CASE enabled[InstanceOf[r.d]]
        <4>1. proc' = [proc EXCEPT !["sweep"] =
                [pc |-> "enqueue", d |-> r.d, row |-> r.row, attempts |-> r.attempts + 1,
                 outcome |-> "none"]]
          BY <1>7, <3>1 DEF SweepRow
        <4> QED BY <1>0, <2>2, <4>1, Begins
      <3>2. CASE ~enabled[InstanceOf[r.d]] BY <1>0, <1>7, <3>2 DEF SweepRow, TypeOK
      <3> QED BY <3>1, <3>2
    <2> QED BY <1>0, <1>7, <2>3 DEF SweepRow, TypeOK
  <1>8. ASSUME SweepMark \/ SweepRetire \/ SweepBury \/ SweepClose \/ SweepCount \/ SweepWriteLost
        PROVE TypeOK'
    <2> USE DEF SweepAt
    <2> DEFINE d == proc["sweep"].d
    <2>1. /\ proc["sweep"] \in Busy /\ d \in Deliveries
          /\ proc["sweep"].attempts \in Nat
      BY <1>0, <1>8, AtStep
      DEF SweepMark, SweepRetire, SweepBury, SweepClose, SweepCount, SweepWriteLost
    <2>2. proc' \in [Callers -> {Idle} \cup Busy]
      BY <1>0, <1>8, <2>1, GoesTo, Ends
      DEF SweepMark, SweepRetire, SweepBury, SweepClose, SweepCount, SweepWriteLost
    <2>3. [state |-> "failed", attempts |-> proc["sweep"].attempts] \in EventRow
      BY <2>1 DEF EventRow, States
    <2>4. event' \in [Deliveries -> EventRow]
      BY <1>0, <1>8, <2>1, <2>3, EventMarked, EventWritten, EventCounted
      DEF SweepMark, SweepRetire, SweepBury, SweepClose, SweepCount, SweepWriteLost, TypeOK
    <2>5. dlq' \in [Deliveries -> Seq(DlqStates)]
      BY <1>0, <1>8, <2>1, Buried, Retired
      DEF SweepMark, SweepRetire, SweepBury, SweepClose, SweepCount, SweepWriteLost, TypeOK
    <2>6. excused' \subseteq Deliveries /\ faults' \in Nat
      BY <1>0, <1>8, <2>1
      DEF SweepMark, SweepRetire, SweepBury, SweepClose, SweepCount, SweepWriteLost, Fault, TypeOK
    <2> QED
      BY <1>0, <1>8, <2>2, <2>4, <2>5, <2>6
      DEF SweepMark, SweepRetire, SweepBury, SweepClose, SweepCount, SweepWriteLost, TypeOK
  <1>9. ASSUME NEW i \in Instances, RedriveRead(i) PROVE TypeOK'
    <2> DEFINE rows == {r \in [d : Deliveries, row : Rows, attempts : {0}] :
                          InstanceOf[r.d] = i /\ r.row \in OpenRows(r.d)
                            /\ Len(dlq[r.d]) + InFlight(r.d) < MaxRows}
    <2>1. rows \subseteq [d : Deliveries, row : Rows, attempts : Nat] OBVIOUS
    <2>2. batch' = [batch EXCEPT !["redrive"] = rows] BY <1>9 DEF RedriveRead
    <2> HIDE DEF rows
    <2> QED BY <1>0, <1>9, <2>1, <2>2 DEF RedriveRead, TypeOK
  <1>10. ASSUME NEW r \in batch["redrive"], RedriveRow(r) PROVE TypeOK'
    <2>1. r \in [d : Deliveries, row : Rows, attempts : Nat] BY <1>0, <1>10 DEF TypeOK
    <2>2. r.d \in Deliveries /\ r.row \in Rows BY <2>1
    <2>3. proc' \in [Callers -> {Idle} \cup Busy] BY <1>0, <1>10, <2>2, Begins DEF RedriveRow
    <2> QED BY <1>0, <1>10, <2>3 DEF RedriveRow, TypeOK
  <1>11. ASSUME RedriveEvent \/ RedriveClose \/ RedriveFailed \/ RedriveWriteLost PROVE TypeOK'
    <2> DEFINE d == proc["redrive"].d
    <2>1. /\ proc["redrive"] \in Busy /\ d \in Deliveries /\ proc["redrive"] # Idle
          /\ proc["redrive"].row \in Rows
      BY <1>0, <1>11, AtStep DEF RedriveEvent, RedriveClose, RedriveFailed, RedriveWriteLost
    <2>2. proc' \in [Callers -> {Idle} \cup Busy]
      BY <1>0, <1>11, <2>1, GoesTo, Ends DEF RedriveEvent, RedriveClose, RedriveFailed, RedriveWriteLost
    <2>3. event' \in [Deliveries -> EventRow]
      <3>1. CASE RedriveEvent
        <4>1. event[d].state \in States BY <1>0, <2>1 DEF TypeOK
        <4>2. PICK s \in States : event' = [event EXCEPT ![d].state = s]
          BY <1>0, <2>1, <3>1, <4>1 DEF RedriveEvent, States
        <4> QED BY <1>0, <2>1, <4>2, EventMarked
      <3> QED BY <1>0, <1>11, <3>1 DEF RedriveClose, RedriveFailed, RedriveWriteLost, TypeOK
    <2>4. proc["redrive"].row \in 1 .. Len(dlq[d])
      BY <1>0, <2>1, Lengths DEF IInv, Carried
    <2>5. dlq' \in [Deliveries -> Seq(DlqStates)]
      BY <1>0, <1>11, <2>1, <2>4, Closed
      DEF RedriveEvent, RedriveClose, RedriveFailed, RedriveWriteLost, TypeOK
    <2>6. batch' \in [{"sweep", "redrive"} -> SUBSET [d : Deliveries, row : Rows, attempts : Nat]]
      BY <1>0, <1>11 DEF RedriveEvent, RedriveClose, RedriveFailed, RedriveWriteLost, TypeOK
    <2>7. faults' \in Nat
      BY <1>0, <1>11 DEF RedriveEvent, RedriveClose, RedriveFailed, RedriveWriteLost, Fault, TypeOK
    <2> QED BY <1>0, <1>11, <2>2, <2>3, <2>5, <2>6, <2>7
            DEF RedriveEvent, RedriveClose, RedriveFailed, RedriveWriteLost, TypeOK
  <1>12. ASSUME NEW d \in Deliveries, NEW k \in Rows, Worker(d, k) PROVE TypeOK'
    <2> USE DEF Worker, JobOnly, SetJob
    <2>1. PICK s \in JobStates : SetJob(d, k, s)
      BY <1>12
      DEF JobStart, JobSucceeds, JobCompletes, JobFails, JobBuries, JobBuryLost, JobStates
    <2>2. job' \in [Deliveries -> [Rows -> JobStates]] BY <1>0, <2>1, JobWritten
    <2>3. delivered' \in [Deliveries -> 0 .. 2]
      BY <1>0, <1>12, Delivered
      DEF JobStart, JobSucceeds, JobCompletes, JobFails, JobBuries, JobBuryLost, TypeOK
    <2>4. dlq' \in [Deliveries -> Seq(DlqStates)]
      BY <1>0, <1>12, Buried
      DEF JobStart, JobSucceeds, JobCompletes, JobFails, JobBuries, JobBuryLost, TypeOK
    <2>5. excused' \subseteq Deliveries /\ faults' \in Nat
      BY <1>0, <1>12
      DEF JobStart, JobSucceeds, JobCompletes, JobFails, JobBuries, JobBuryLost, Fault, TypeOK
    <2>6. UNCHANGED <<up, enabled, crashes, event, born, proc, batch, inlined, again>>
      BY <1>12 DEF JobStart, JobSucceeds, JobCompletes, JobFails, JobBuries, JobBuryLost
    <2> QED BY <1>0, <2>2, <2>3, <2>4, <2>5, <2>6 DEF TypeOK
  <1>13. CASE Crash
    <2>1. job' \in [Deliveries -> [Rows -> JobStates]]
      BY <1>0, <1>13 DEF Crash, TypeOK, JobStates
    <2>2. crashes' \in Nat /\ up' = FALSE BY <1>0, <1>13 DEF Crash, TypeOK
    <2>3. proc' \in [Callers -> {Idle} \cup Busy] BY <1>13 DEF Crash
    <2>4. batch' \in [{"sweep", "redrive"} -> SUBSET [d : Deliveries, row : Rows, attempts : Nat]]
      BY <1>13 DEF Crash
    <2> QED BY <1>0, <1>13, <2>1, <2>2, <2>3, <2>4 DEF Crash, TypeOK
  <1>14. CASE Restart BY <1>0, <1>14 DEF Restart, TypeOK
  <1>15. ASSUME NEW i \in Instances, SetEnabled(i) PROVE TypeOK'
    <2>1. enabled' \in [Instances -> BOOLEAN] BY <1>0, <1>15 DEF SetEnabled, TypeOK
    <2> QED BY <1>0, <1>15, <2>1 DEF SetEnabled, TypeOK
  <1>16. CASE UNCHANGED vars BY <1>0, <1>16 DEF vars, TypeOK
  <1>17. ASSUME NEW d \in Deliveries, NEW k \in Rows, JobRemoved(d, k) PROVE TypeOK'
    <2>1. "removed" \in JobStates BY DEF JobStates
    <2>2. job' \in [Deliveries -> [Rows -> JobStates]]
      BY <1>0, <1>17, <2>1, JobWritten DEF JobRemoved, SetJob
    <2> QED BY <1>0, <1>17, <2>2 DEF JobRemoved, JobOnly, TypeOK
  <1> QED
    BY <1>1, <1>2, <1>3, <1>4, <1>5, <1>6, <1>7, <1>8, <1>9, <1>10, <1>11, <1>12, <1>13,
       <1>14, <1>15, <1>16, <1>17
    DEF Next, Enqueue, Sweep, Redrive

-----------------------------------------------------------------------------
(* Nothing is taken back: rows, jobs, deliveries and history only grow.     *)
Grows ==
  /\ \A d \in Deliveries : Len(dlq[d]) <= Len(dlq'[d])
  /\ \A d \in Deliveries, k \in Rows : job[d][k] # "none" => job'[d][k] # "none"
  /\ \A d \in Deliveries : delivered[d] > 0 => delivered'[d] > 0
  /\ inlined \subseteq inlined' /\ again \subseteq again' /\ excused \subseteq excused'

BurySteps ==
  \/ SweepBury
  \/ \E d \in Deliveries : LiveBury(d)
  \/ \E d \in Deliveries, k \in Rows : JobBuries(d, k)

\* Who writes what.
LEMMA Writers ==
    ASSUME [Next]_vars
    PROVE  /\ \/ job' = job
              \/ \E p \in Callers : AddJob(p)
              \/ \E d \in Deliveries, k \in Rows : Worker(d, k) \/ JobRemoved(d, k)
              \/ Crash
           /\ \/ dlq' = dlq
              \/ BurySteps \/ SweepRetire \/ RedriveClose
           /\ \/ delivered' = delivered
              \/ \E p \in Callers : Dispatch(p, "dispatched")
              \/ \E d \in Deliveries, k \in Rows : JobSucceeds(d, k)
           /\ \/ excused' = excused
              \/ SweepRetire
              \/ \E d \in Deliveries, k \in Rows : JobBuryLost(d, k)
           /\ inlined' = inlined \/ \E p \in Callers : AddRefused(p)
           /\ again' = again \/ \E p \in Callers : AddJob(p)
           /\ crashes' = crashes \/ Crash
  <1> USE DEF Stable, NoJobs, BurySteps
  <1>1. ASSUME NEW d \in Deliveries, Receive(d) \/ Live(d)
        PROVE  /\ UNCHANGED <<job, delivered, excused, inlined, again, crashes>>
               /\ dlq' = dlq \/ LiveBury(d)
    BY <1>1 DEF Receive, Live, LiveMark, LiveMarkLost, LiveBury, LiveBuryLost
  <1>2. ASSUME NEW p \in Callers, Enqueue(p)
        PROVE  /\ UNCHANGED <<dlq, excused, crashes>>
               /\ job' = job \/ AddJob(p)
               /\ delivered' = delivered \/ Dispatch(p, "dispatched")
               /\ inlined' = inlined \/ AddRefused(p)
               /\ again' = again \/ AddJob(p)
    BY <1>2 DEF Enqueue, AddJob, AddRefused, Dispatch
  <1>3. ASSUME Sweep
        PROVE  /\ UNCHANGED <<job, delivered, inlined, again, crashes>>
               /\ dlq' = dlq \/ SweepBury \/ SweepRetire
               /\ excused' = excused \/ SweepRetire
    BY <1>3 DEF Sweep, SweepRead, SweepRow, SweepMark, SweepRetire, SweepBury, SweepClose,
                SweepCount, SweepWriteLost
  <1>4. ASSUME Redrive \/ \E i \in Instances : RedriveRead(i)
        PROVE  /\ UNCHANGED <<job, delivered, inlined, again, crashes, excused>>
               /\ dlq' = dlq \/ RedriveClose
    BY <1>4 DEF Redrive, RedriveRead, RedriveRow, RedriveEvent, RedriveClose, RedriveFailed,
                RedriveWriteLost
  <1>5. ASSUME NEW d \in Deliveries, NEW k \in Rows, Worker(d, k)
        PROVE  /\ UNCHANGED <<inlined, again, crashes>>
               /\ dlq' = dlq \/ JobBuries(d, k)
               /\ delivered' = delivered \/ JobSucceeds(d, k)
               /\ excused' = excused \/ JobBuryLost(d, k)
    BY <1>5 DEF Worker, JobStart, JobSucceeds, JobCompletes, JobFails, JobBuries, JobBuryLost,
                JobOnly
  <1>6. ASSUME Crash PROVE UNCHANGED <<dlq, delivered, excused, inlined, again>>
    BY <1>6 DEF Crash
  <1>7. ASSUME Restart \/ (\E i \in Instances : SetEnabled(i)) \/ UNCHANGED vars
        PROVE  UNCHANGED <<job, dlq, delivered, excused, inlined, again, crashes>>
    BY <1>7 DEF Restart, SetEnabled, vars
  <1>8. ASSUME NEW d \in Deliveries, NEW k \in Rows, JobRemoved(d, k)
        PROVE  UNCHANGED <<dlq, delivered, excused, inlined, again, crashes>>
    BY <1>8 DEF JobRemoved, JobOnly
  <1> QED BY <1>1, <1>2, <1>3, <1>4, <1>5, <1>6, <1>7, <1>8 DEF Next

\* What a worker's step does to its job.
LEMMA Works ==
    ASSUME TypeOK, NEW d \in Deliveries, NEW k \in Rows, Worker(d, k)
    PROVE  /\ job[d][k] \in {"waiting", "active", "finishing", "burying"}
           /\ job'[d][k] \in {"waiting", "active", "finishing", "burying", "done", "failed"}
           /\ \A l \in Rows \ {k} : job'[d][l] = job[d][l]
           /\ \A e \in Deliveries \ {d} : job'[e] = job[e]
           /\ job'[d][k] = "finishing" => job[d][k] = "active" /\ JobSucceeds(d, k)
           /\ job'[d][k] = "done" => job[d][k] = "finishing"
           /\ job[d][k] = "finishing" => job'[d][k] = "done"
           /\ job'[d][k] = "failed" => JobBuries(d, k) \/ JobBuryLost(d, k)
  <1> DEFINE from == {"waiting", "active", "finishing", "burying"}
  <1>1. PICK s \in JobStates :
          /\ SetJob(d, k, s) /\ job[d][k] \in from /\ s \in from \cup {"done", "failed"}
          /\ s = "finishing" => job[d][k] = "active" /\ JobSucceeds(d, k)
          /\ s = "done" => job[d][k] = "finishing"
          /\ job[d][k] = "finishing" => s = "done"
          /\ s = "failed" => JobBuries(d, k) \/ JobBuryLost(d, k)
    BY DEF Worker, JobStart, JobSucceeds, JobCompletes, JobFails, JobBuries, JobBuryLost,
           InState, JobStates
  <1> HIDE DEF from
  <1>2. job'[d][k] = s BY <1>1, JobWritten DEF SetJob
  <1> QED BY <1>1, <1>2, JobWritten DEF SetJob, from

\* A removed job had finished.
LEMMA Removes ==
    ASSUME TypeOK, NEW d \in Deliveries, NEW k \in Rows, JobRemoved(d, k)
    PROVE  /\ job[d][k] \in {"done", "failed"} /\ job'[d][k] = "removed"
           /\ \A l \in Rows \ {k} : job'[d][l] = job[d][l]
           /\ \A e \in Deliveries \ {d} : job'[e] = job[e]
           /\ UNCHANGED <<dlq, delivered, excused, inlined, again, crashes>>
  <1>1. "removed" \in JobStates BY DEF JobStates
  <1> QED BY <1>1, JobWritten DEF JobRemoved, JobOnly, Stable, SetJob

LEMMA JobAdded ==
    ASSUME TypeOK, NEW p \in Callers, AddJob(p)
    PROVE  LET d == proc[p].d  k == proc[p].row IN
             /\ d \in Deliveries /\ k \in Rows
             /\ job'[d][k] = IF job[d][k] \in {"none", "removed"} THEN "waiting" ELSE job[d][k]
             /\ again' = IF job[d][k] = "removed" THEN again \cup {d} ELSE again
             /\ \A l \in Rows \ {k} : job'[d][l] = job[d][l]
             /\ \A e \in Deliveries \ {d} : job'[e] = job[e]
  <1>1. /\ proc[p].d \in Deliveries /\ proc[p].row \in Rows
    BY AtStep DEF AddJob, PCs
  <1> QED BY <1>1 DEF AddJob, TypeOK

\* Burying appends one row.
LEMMA BurialAppends ==
    ASSUME TypeOK, BurySteps
    PROVE  \/ dlq' = dlq
           \/ \E d \in Deliveries : BuryRow(d)
  <1>1. CASE SweepBury
    <2>1. proc["sweep"].d \in Deliveries
      BY <1>1, AtStep, Constants DEF SweepBury, SweepAt, PCs
    <2> QED BY <1>1, <2>1 DEF SweepBury
  <1>2. CASE \E d \in Deliveries : LiveBury(d) BY <1>2 DEF LiveBury
  <1>3. CASE \E d \in Deliveries, k \in Rows : JobBuries(d, k) BY <1>3 DEF JobBuries
  <1> QED BY <1>1, <1>2, <1>3 DEF BurySteps

\* The sweep retires the rows of its delivery, or only finds retired ones.
LEMMA SweepRetires ==
    ASSUME IInv, SweepRetire
    PROVE  /\ proc["sweep"].d \in Deliveries
           /\ \A e \in Deliveries \ {proc["sweep"].d} : dlq'[e] = dlq[e]
           /\ Len(dlq'[proc["sweep"].d]) = Len(dlq[proc["sweep"].d])
           /\ \/ delivered[proc["sweep"].d] > 0 \/ proc["sweep"].d \in excused'
              \/ \A r \in 1 .. Len(dlq[proc["sweep"].d]) : dlq[proc["sweep"].d][r] = "redriven"
           /\ excused \subseteq excused'
  <1> DEFINE d == proc["sweep"].d
  <1>1. d \in Deliveries /\ proc["sweep"] # Idle
    BY AtStep, Constants DEF IInv, SweepRetire, SweepAt, PCs
  <1>2. dlq' = [dlq EXCEPT ![d] = [r \in DOMAIN @ |-> "redriven"]] BY DEF SweepRetire
  <1>3. /\ \A e \in Deliveries \ {d} : dlq'[e] = dlq[e]
        /\ Len(dlq'[d]) = Len(dlq[d])
        /\ OpenRows(d) = {} => \A r \in 1 .. Len(dlq[d]) : dlq[d][r] = "redriven"
    BY <1>1, <1>2, Retired DEF IInv
  <1>4. proc["sweep"].outcome = "dispatched" => delivered[d] > 0
    BY <1>1, Constants DEF IInv, Carried
  <1>5. proc["sweep"].outcome \in {"queued", "dispatched"} BY DEF SweepRetire, Accepted
  <1>6. proc["sweep"].outcome = "queued" /\ OpenRows(d) # {} => d \in excused'
    BY DEF SweepRetire
  <1>7. excused \subseteq excused' BY DEF SweepRetire
  <1> HIDE DEF d
  <1>8. QED BY <1>1, <1>3, <1>4, <1>5, <1>6, <1>7 DEF d

LEMMA RedriveCloses ==
    ASSUME IInv, RedriveClose
    PROVE  LET d == proc["redrive"].d  k == proc["redrive"].row IN
             /\ d \in Deliveries /\ k \in Rows /\ k \in 1 .. Len(dlq[d])
             /\ \A e \in Deliveries \ {d} : dlq'[e] = dlq[e]
             /\ Len(dlq'[d]) = Len(dlq[d])
             /\ \A r \in 1 .. Len(dlq[d]) : r # k => dlq'[d][r] = dlq[d][r]
             /\ delivered[d] > 0 \/ job[d][k] # "none"
  <1> DEFINE d == proc["redrive"].d
             k == proc["redrive"].row
  <1>1. /\ d \in Deliveries /\ k \in Rows /\ proc["redrive"] # Idle
        /\ proc["redrive"].pc = "second" /\ proc["redrive"].outcome \in Outcomes
    BY AtStep, Constants DEF IInv, RedriveClose, PCs
  <1>2. /\ k <= Len(dlq[d]) /\ k > 0
        /\ proc["redrive"].outcome = "queued" => job[d][k] # "none"
        /\ proc["redrive"].outcome = "dispatched" => delivered[d] > 0
        /\ proc["redrive"].outcome \notin {"none", "failed"}
    BY <1>1, Constants DEF IInv, Carried
  <1>3. k \in 1 .. Len(dlq[d]) BY <1>1, <1>2, Lengths, Constants DEF IInv
  <1>4. dlq' = [dlq EXCEPT ![d][k] = "redriven"] BY DEF RedriveClose
  <1>5. /\ \A e \in Deliveries \ {d} : dlq'[e] = dlq[e]
        /\ Len(dlq'[d]) = Len(dlq[d])
        /\ \A r \in 1 .. Len(dlq[d]) : r # k => dlq'[d][r] = dlq[d][r]
    BY <1>1, <1>3, <1>4, Closed DEF IInv
  <1>6. delivered[d] > 0 \/ job[d][k] # "none" BY <1>1, <1>2 DEF Outcomes
  <1> HIDE DEF d, k
  <1> QED BY <1>1, <1>3, <1>5, <1>6 DEF d, k

LEMMA GrowStep == IInv /\ [Next]_vars => Grows
  <1> SUFFICES ASSUME IInv, [Next]_vars PROVE Grows OBVIOUS
  <1>0. TypeOK BY DEF IInv
  <1>1. \A d \in Deliveries : Len(dlq[d]) <= Len(dlq'[d])
    <2>0. \A d \in Deliveries : Len(dlq[d]) \in Nat BY <1>0, Lengths
    <2>1. CASE dlq' = dlq BY <2>0, <2>1
    <2>2. CASE BurySteps BY <1>0, <2>0, <2>1, <2>2, BurialAppends, Buried
    <2>3. CASE SweepRetire BY <2>0, <2>3, SweepRetires
    <2>4. CASE RedriveClose BY <2>0, <2>4, RedriveCloses
    <2> QED BY <2>1, <2>2, <2>3, <2>4, Writers
  <1>2. \A d \in Deliveries, k \in Rows : job[d][k] # "none" => job'[d][k] # "none"
    <2>1. CASE \E p \in Callers : AddJob(p) BY <1>0, <2>1, JobAdded
    <2>2. CASE \E d \in Deliveries, k \in Rows : Worker(d, k) BY <1>0, <2>2, Works
    <2>3. CASE Crash BY <1>0, <2>3 DEF Crash, TypeOK
    <2>4. CASE \E d \in Deliveries, k \in Rows : JobRemoved(d, k) BY <1>0, <2>4, Removes
    <2> QED BY <2>1, <2>2, <2>3, <2>4, Writers
  <1>3. \A d \in Deliveries : delivered[d] > 0 => delivered'[d] > 0
    <2>1. ASSUME NEW p \in Callers, Dispatch(p, "dispatched")
          PROVE  \A d \in Deliveries : delivered[d] > 0 => delivered'[d] > 0
      <3>1. proc[p].d \in Deliveries /\ Deliver(proc[p].d)
        BY <1>0, <2>1, AtStep DEF Dispatch, PCs
      <3> QED BY <1>0, <3>1, Delivered
    <2>2. CASE \E d \in Deliveries, k \in Rows : JobSucceeds(d, k)
      BY <1>0, <2>2, Delivered DEF JobSucceeds
    <2> QED BY <2>1, <2>2, Writers
  <1>4. inlined \subseteq inlined' /\ again \subseteq again'
    BY Writers DEF AddRefused, AddJob
  <1>5. excused \subseteq excused' BY Writers, SweepRetires DEF JobBuryLost
  <1> QED BY <1>1, <1>2, <1>3, <1>4, <1>5 DEF Grows

-----------------------------------------------------------------------------
(* The parts of the invariant, one after the other.                         *)

LEMMA SafeGrows ==
    ASSUME Grows, NEW d \in Deliveries, Safe(d)
    PROVE  Safe(d)'
  BY DEF Grows, Safe

LEMMA JobsStep ==
    ASSUME IInv, [Next]_vars, NEW d \in Deliveries
    PROVE  JobsKept(d)'
  <1>0. TypeOK /\ Grows /\ JobsKept(d) BY GrowStep DEF IInv
  <1>1. Len(dlq[d]) \in Nat /\ Len(dlq'[d]) \in Nat /\ Len(dlq[d]) <= Len(dlq'[d])
    BY <1>0, TypeStep, EmptySeq, LenProperties DEF Grows, TypeOK
  <1>2. ASSUME NEW k \in Rows, job'[d][k] = job[d][k]
        PROVE  /\ job'[d][k] # "none" => k <= Len(dlq'[d])
               /\ job'[d][k] \in {"finishing", "done"} => delivered'[d] > 0
               /\ job'[d][k] \in {"failed", "removed"} => Safe(d)' \/ k < Len(dlq'[d])
    <2>1. k \in Nat BY Constants
    <2>2. job[d][k] # "none" => k <= Len(dlq[d]) BY <1>0 DEF JobsKept
    <2>3. job[d][k] \in {"finishing", "done"} => delivered[d] > 0 BY <1>0 DEF JobsKept
    <2>4. job[d][k] \in {"failed", "removed"} => Safe(d) \/ k < Len(dlq[d]) BY <1>0 DEF JobsKept
    <2>5. delivered[d] > 0 => delivered'[d] > 0 BY <1>0 DEF Grows
    <2>6. Safe(d) => Safe(d)' BY <1>0, SafeGrows
    <2> QED BY <1>1, <1>2, <2>1, <2>2, <2>3, <2>4, <2>5, <2>6
  <1>3. CASE job' = job BY <1>2, <1>3 DEF JobsKept
  <1>4. ASSUME NEW p \in Callers, AddJob(p) PROVE JobsKept(d)'
    <2> DEFINE k == proc[p].row
    <2>1. proc[p] # Idle BY <1>0, <1>4, AtStep DEF AddJob, PCs
    <2>2. CASE proc[p].d # d BY <1>0, <1>2, <1>4, <2>2, JobAdded DEF JobsKept
    <2>3. CASE proc[p].d = d
      <3>1. k \in Rows /\ k <= Len(dlq[d]) BY <1>0, <1>4, <2>1, <2>3, JobAdded DEF IInv, Carried
      <3>2. \A l \in Rows \ {k} : job'[d][l] = job[d][l] BY <1>0, <1>4, <2>3, JobAdded
      <3>3. job'[d][k] = job[d][k] \/ job'[d][k] = "waiting" BY <1>0, <1>4, <2>3, JobAdded
      <3>4. k <= Len(dlq'[d]) BY <1>1, <3>1, Constants
      <3> QED BY <1>2, <3>2, <3>3, <3>4 DEF JobsKept
    <2> QED BY <2>2, <2>3
  <1>5. ASSUME NEW e \in Deliveries, NEW k \in Rows, Worker(e, k) PROVE JobsKept(d)'
    <2>1. CASE e # d BY <1>0, <1>2, <1>5, <2>1, Works DEF JobsKept
    <2>2. CASE e = d
      <3>1. \A l \in Rows \ {k} : job'[d][l] = job[d][l] BY <1>0, <1>5, <2>2, Works
      <3>2. k <= Len(dlq[d]) /\ k \in Nat BY <1>0, <1>5, <2>2, Works, Constants DEF JobsKept
      <3>3. ASSUME job'[d][k] \in {"finishing", "done"} PROVE delivered'[d] > 0
        <4>1. CASE job'[d][k] = "finishing"
          BY <1>0, <1>5, <2>2, <4>1, Works, Delivered DEF JobSucceeds
        <4>2. CASE job'[d][k] = "done"
          BY <1>0, <1>5, <2>2, <4>2, Works DEF JobsKept, Grows
        <4> QED BY <3>3, <4>1, <4>2
      <3>4. ASSUME job'[d][k] = "failed" PROVE Safe(d)' \/ k < Len(dlq'[d])
        <4>1. CASE JobBuries(d, k)
          BY <1>0, <1>1, <3>2, <4>1, Buried DEF JobBuries
        <4>2. CASE JobBuryLost(d, k) BY <4>2 DEF JobBuryLost, Safe
        <4> QED BY <1>0, <1>5, <2>2, <3>4, <4>1, <4>2, Works
      <3>5. k <= Len(dlq'[d]) BY <1>1, <3>2
      <3>6. job'[d][k] # "removed" BY <1>0, <1>5, <2>2, Works
      <3> QED BY <1>2, <3>1, <3>3, <3>4, <3>5, <3>6 DEF JobsKept
    <2> QED BY <2>1, <2>2
  <1>6. CASE Crash
    <2>1. \A k \in Rows :
            job'[d][k] = job[d][k] \/ (job'[d][k] = "waiting" /\ job[d][k] # "none")
      <3>1. job' = [e \in Deliveries |-> [k \in Rows |->
                      IF job[e][k] \in {"active", "finishing", "burying"} THEN "waiting"
                      ELSE job[e][k]]]
        BY <1>6 DEF Crash
      <3>2. \A k \in Rows : job'[d][k] = IF job[d][k] \in {"active", "finishing", "burying"}
                                          THEN "waiting" ELSE job[d][k]
        BY <3>1
      <3> QED BY <3>2
    <2>2. ASSUME NEW k \in Rows, job'[d][k] = "waiting", job[d][k] # "none"
          PROVE  k <= Len(dlq'[d])
      BY <1>0, <1>6, <2>2 DEF Crash, JobsKept
    <2>3. ASSUME NEW k \in Rows
          PROVE  /\ job'[d][k] # "none" => k <= Len(dlq'[d])
                 /\ job'[d][k] \in {"finishing", "done"} => delivered'[d] > 0
                 /\ job'[d][k] \in {"failed", "removed"} => Safe(d)' \/ k < Len(dlq'[d])
      BY <1>2, <2>1, <2>2
    <2> QED BY <2>3 DEF JobsKept
  <1>7. ASSUME NEW e \in Deliveries, NEW k \in Rows, JobRemoved(e, k) PROVE JobsKept(d)'
    <2>1. CASE e # d BY <1>0, <1>2, <1>7, <2>1, Removes DEF JobsKept
    <2>2. CASE e = d
      <3>1. \A l \in Rows \ {k} : job'[d][l] = job[d][l] BY <1>0, <1>7, <2>2, Removes
      <3>2. job'[d][k] = "removed" /\ job[d][k] \in {"done", "failed"}
            /\ dlq' = dlq /\ delivered' = delivered /\ excused' = excused
        BY <1>0, <1>7, <2>2, Removes
      <3>3. k <= Len(dlq[d]) /\ (Safe(d) \/ k < Len(dlq[d]))
        BY <1>0, <3>2 DEF JobsKept, Safe
      <3>4. Safe(d)' <=> Safe(d) BY <3>2 DEF Safe
      <3> QED BY <1>2, <3>1, <3>2, <3>3, <3>4 DEF JobsKept
    <2> QED BY <2>1, <2>2
  <1> QED BY <1>3, <1>4, <1>5, <1>6, <1>7, Writers

LEMMA RowsStep ==
    ASSUME IInv, [Next]_vars, NEW d \in Deliveries
    PROVE  RowsKept(d)'
  <1>0. TypeOK /\ Grows /\ RowsKept(d) BY GrowStep DEF IInv
  <1>1. Len(dlq[d]) \in Nat BY <1>0, Lengths
  <1>2. ASSUME NEW r \in 1 .. Len(dlq[d]), dlq[d][r] = "redriven"
        PROVE  Safe(d)' \/ (r \in Rows /\ job'[d][r] # "none")
    BY <1>0, <1>2, SafeGrows DEF RowsKept, Grows
  <1>3. CASE dlq'[d] = dlq[d] BY <1>2, <1>3 DEF RowsKept
  <1>4. CASE BurySteps
    <2>1. ASSUME BuryRow(d) PROVE RowsKept(d)'
      <3>1. /\ Len(dlq'[d]) = Len(dlq[d]) + 1 /\ dlq'[d][Len(dlq[d]) + 1] = "open"
            /\ \A r \in 1 .. Len(dlq[d]) : dlq'[d][r] = dlq[d][r]
        BY <1>0, <2>1, Buried
      <3>2. ASSUME NEW r \in 1 .. Len(dlq'[d]), dlq'[d][r] = "redriven"
            PROVE  r \in 1 .. Len(dlq[d])
        BY <1>1, <3>1, <3>2
      <3> QED BY <1>2, <3>1, <3>2 DEF RowsKept
    <2>2. ASSUME NEW e \in Deliveries, e # d, BuryRow(e) PROVE dlq'[d] = dlq[d]
      BY <1>0, <2>2, Buried
    <2> QED BY <1>0, <1>3, <1>4, <2>1, <2>2, BurialAppends
  <1>5. CASE SweepRetire
    <2>1. CASE proc["sweep"].d # d BY <1>3, <1>5, <2>1, SweepRetires
    <2>2. CASE proc["sweep"].d = d
      <3>1. Len(dlq'[d]) = Len(dlq[d]) BY <1>5, <2>2, SweepRetires
      <3>2. CASE delivered[d] > 0 \/ d \in excused'
        BY <1>0, <3>2 DEF Grows, Safe, RowsKept
      <3>3. CASE \A r \in 1 .. Len(dlq[d]) : dlq[d][r] = "redriven"
        BY <1>2, <3>1, <3>3 DEF RowsKept
      <3> QED BY <1>5, <2>2, <3>2, <3>3, SweepRetires
    <2> QED BY <2>1, <2>2
  <1>6. CASE RedriveClose
    <2> DEFINE k == proc["redrive"].row
    <2>1. CASE proc["redrive"].d # d BY <1>3, <1>6, <2>1, RedriveCloses
    <2>2. CASE proc["redrive"].d = d
      <3>1. /\ Len(dlq'[d]) = Len(dlq[d]) /\ k \in Rows /\ k \in 1 .. Len(dlq[d])
            /\ \A r \in 1 .. Len(dlq[d]) : r # k => dlq'[d][r] = dlq[d][r]
            /\ delivered[d] > 0 \/ job[d][k] # "none"
        BY <1>6, <2>2, RedriveCloses
      <3>2. Safe(d)' \/ job'[d][k] # "none" BY <1>0, <3>1 DEF Grows, Safe
      <3> HIDE DEF k
      <3> QED BY <1>2, <3>1, <3>2 DEF RowsKept
    <2> QED BY <2>1, <2>2
  <1> QED BY <1>3, <1>4, <1>5, <1>6, Writers

\* Who takes an event out of 'pending' has handed its payload on.
LEMMA EventWriters ==
    ASSUME IInv, [Next]_vars, NEW d \in Deliveries,
           event'[d].state \in {"dispatched", "failed"}, event'[d].state # event[d].state
    PROVE  Safe(d) \/ job[d][0] # "none" \/ Len(dlq[d]) > 0
  <1> DEFINE Handed == Safe(d) \/ job[d][0] # "none" \/ Len(dlq[d]) > 0
  <1> USE Constants DEF Stable, NoJobs
  <1>0. TypeOK BY DEF IInv
  <1>1. ASSUME NEW p \in Callers, p # "redrive", proc[p] # Idle, proc[p].d = d,
               proc[p].outcome \in {"queued", "dispatched"}
        PROVE  Handed
    BY <1>1 DEF IInv, Carried, Safe
  <1>2. ASSUME NEW e \in Deliveries, Live(e) PROVE Handed
    <2>1. LiveMark(e) BY <1>2 DEF Live, LiveMarkLost, LiveBury, LiveBuryLost
    <2>2. /\ proc[e] # Idle /\ proc[e].pc = "outcome" /\ proc[e].outcome \in Outcomes
      BY <1>0, <2>1, AtStep DEF LiveMark, PCs
    <2>3. d = e /\ proc[e].outcome # "failed" BY <1>0, <2>1, LiveMarks
    <2>4. proc[e].d = e /\ proc[e].outcome # "none" BY <2>2 DEF IInv, Carried
    <2> QED BY <1>1, <2>2, <2>3, <2>4 DEF Outcomes
  <1>3. CASE SweepMark
    <2>1. /\ proc["sweep"] # Idle /\ proc["sweep"].d \in Deliveries
      BY <1>0, <1>3, AtStep DEF SweepMark, SweepAt, PCs
    <2>2. proc["sweep"].d = d
      BY <1>0, <1>3, <2>1, EventMarked DEF SweepMark, States
    <2> QED BY <1>1, <1>3, <2>1, <2>2 DEF SweepMark, Accepted
  <1>4. CASE SweepClose
    <2>1. /\ proc["sweep"] # Idle /\ proc["sweep"].d \in Deliveries
          /\ proc["sweep"].pc = "second" /\ proc["sweep"].outcome = "failed"
      BY <1>0, <1>4, AtStep DEF SweepClose, SweepAt, PCs, Exhausted
    <2>2. proc["sweep"].d = d BY <1>4, <2>1 DEF SweepClose, IInv, TypeOK
    <2> QED BY <2>1, <2>2 DEF IInv, Carried
  <1>5. CASE SweepCount
    <2>1. proc["sweep"].d \in Deliveries /\ proc["sweep"].attempts \in Nat
      BY <1>0, <1>5, AtStep DEF SweepCount, SweepAt, PCs
    <2> QED BY <1>0, <1>5, <2>1, EventCounted DEF SweepCount
  <1>6. CASE RedriveEvent
    <2>1. proc["redrive"] # Idle /\ proc["redrive"].d \in Deliveries
          /\ proc["redrive"].row \in Nat
      BY <1>0, <1>6, AtStep DEF RedriveEvent, PCs
    <2>2. proc["redrive"].d = d BY <1>6, <2>1 DEF RedriveEvent, IInv, TypeOK
    <2>3. proc["redrive"].row > 0 /\ proc["redrive"].row <= Len(dlq[d])
      BY <2>1, <2>2 DEF IInv, Carried
    <2> QED BY <1>0, <2>1, <2>3, Lengths
  <1>7. ASSUME NEW e \in Deliveries, Receive(e) PROVE FALSE
    BY <1>7 DEF Receive, IInv, TypeOK
  <1>8. CASE UNCHANGED event BY <1>8
  <1>9. ASSUME NEW p \in Callers, Enqueue(p) PROVE UNCHANGED event
    BY <1>9 DEF Enqueue, AddJob, AddRefused, Dispatch
  <1>10. ASSUME Sweep, ~SweepMark, ~SweepClose, ~SweepCount PROVE UNCHANGED event
    BY <1>10 DEF Sweep, SweepRead, SweepRow, SweepRetire, SweepBury, SweepWriteLost
  <1>11. ASSUME Redrive \/ \E i \in Instances : RedriveRead(i), ~RedriveEvent
         PROVE  UNCHANGED event
    BY <1>11 DEF Redrive, RedriveRead, RedriveRow, RedriveClose, RedriveFailed, RedriveWriteLost
  <1>12. ASSUME NEW e \in Deliveries, NEW k \in Rows, Worker(e, k) \/ JobRemoved(e, k)
         PROVE  UNCHANGED event
    BY <1>12 DEF Worker, JobStart, JobSucceeds, JobCompletes, JobFails, JobBuries, JobBuryLost,
                 JobRemoved, JobOnly
  <1>13. ASSUME Crash \/ Restart \/ (\E i \in Instances : SetEnabled(i)) \/ UNCHANGED vars
         PROVE  UNCHANGED event
    BY <1>13 DEF Crash, Restart, SetEnabled, vars
  <1> QED
    BY <1>2, <1>3, <1>4, <1>5, <1>6, <1>7, <1>8, <1>9, <1>10, <1>11, <1>12, <1>13 DEF Next

LEMMA EventStep ==
    ASSUME IInv, [Next]_vars, NEW d \in Deliveries
    PROVE  EventKept(d)'
  <1>1. TypeOK /\ TypeOK' /\ Grows /\ EventKept(d) BY GrowStep, TypeStep DEF IInv
  <1>2. Len(dlq[d]) \in Nat /\ Len(dlq'[d]) \in Nat BY <1>1, EmptySeq, LenProperties DEF TypeOK
  <1>3. ASSUME event'[d].state \in {"dispatched", "failed"}
        PROVE  Safe(d) \/ job[d][0] # "none" \/ Len(dlq[d]) > 0
    BY <1>1, <1>3, EventWriters DEF EventKept
  <1>4. Safe(d) => Safe(d)' BY <1>1, SafeGrows
  <1>5. job[d][0] # "none" => job'[d][0] # "none" BY <1>1, Constants DEF Grows
  <1>6. Len(dlq[d]) > 0 => Len(dlq'[d]) > 0 BY <1>1, <1>2 DEF Grows
  <1> QED BY <1>3, <1>4, <1>5, <1>6 DEF EventKept

\* On the queue path a delivery has one job that can deliver, the last row's.
LEMMA OnceStep ==
    ASSUME IInv, [Next]_vars, NEW d \in Deliveries
    PROVE  OneJobLeft(d)'
  <1> SUFFICES ASSUME d \notin inlined' \cup again', crashes' = 0
               PROVE  /\ \A k \in Rows : k < Len(dlq'[d]) => job'[d][k] \in {"failed", "removed"}
                      /\ delivered'[d] <= 1
                      /\ delivered'[d] > 0 =>
                           /\ Len(dlq'[d]) \in Rows
                           /\ job'[d][Len(dlq'[d])] \in {"finishing", "done", "removed"}
    BY DEF OneJobLeft
  <1> DEFINE n == Len(dlq[d])
             Goal == /\ \A k \in Rows : k < Len(dlq'[d]) => job'[d][k] \in {"failed", "removed"}
                     /\ delivered'[d] <= 1
                     /\ delivered'[d] > 0 =>
                          /\ Len(dlq'[d]) \in Rows
                          /\ job'[d][Len(dlq'[d])] \in {"finishing", "done", "removed"}
  <1>0. TypeOK /\ Grows BY GrowStep DEF IInv
  <1>1. ~Crash BY <1>0 DEF Crash, TypeOK
  <1>2. d \notin inlined \cup again /\ crashes = 0 BY <1>0, <1>1, Writers DEF Grows
  <1>3. /\ \A k \in Rows : k < n => job[d][k] \in {"failed", "removed"}
        /\ delivered[d] <= 1
        /\ delivered[d] > 0 => n \in Rows /\ job[d][n] \in {"finishing", "done", "removed"}
    BY <1>2 DEF IInv, OneJobLeft
  <1>4. n \in Nat /\ delivered[d] \in Nat BY <1>0, Lengths DEF TypeOK
  <1>5. \A k \in Rows : k \in Nat /\ (job[d][k] # "none" => k <= n)
    BY Constants DEF IInv, JobsKept
  <1> HIDE DEF n
  \* Dispatching inline does not concern it, nor does what buries after it.
  <1>6. ASSUME NEW p \in Callers, Dispatch(p, "dispatched") PROVE delivered'[d] = delivered[d]
    <2>1. proc[p] # Idle /\ proc[p].pc = "dispatch" /\ proc[p].d \in Deliveries
      BY <1>0, <1>6, AtStep DEF Dispatch, PCs
    <2>2. proc[p].d # d BY <1>2, <2>1 DEF IInv, Carried
    <2> QED BY <1>0, <1>6, <2>1, <2>2, Delivered DEF Dispatch
  <1>7. ASSUME NEW e \in Deliveries, LiveBury(e) PROVE dlq'[d] = dlq[d]
    <2>1. proc[e] # Idle /\ proc[e].pc = "second" BY <1>0, <1>7, AtStep, Constants DEF LiveBury, PCs
    <2>2. e # d BY <1>2, <2>1, Constants DEF IInv, Carried
    <2> QED BY <1>0, <1>7, <2>2, Buried DEF LiveBury
  <1>8. ASSUME SweepBury PROVE dlq'[d] = dlq[d]
    <2>1. proc["sweep"] # Idle /\ proc["sweep"].outcome = "failed" /\ proc["sweep"].d \in Deliveries
      BY <1>0, <1>8, AtStep, Constants DEF SweepBury, SweepAt, Exhausted, PCs
    <2>2. proc["sweep"].d # d BY <1>2, <2>1, Constants DEF IInv, Carried
    <2> QED BY <1>0, <1>8, <2>1, <2>2, Buried DEF SweepBury
  <1>9. ASSUME job' = job \/ job'[d] = job[d], delivered'[d] = delivered[d],
               Len(dlq'[d]) = Len(dlq[d])
        PROVE  Goal
    BY <1>3, <1>9 DEF n
  <1>10. ASSUME SweepRetire \/ RedriveClose PROVE Len(dlq'[d]) = Len(dlq[d])
    BY <1>10, SweepRetires, RedriveCloses
  <1>11. ASSUME NEW e \in Deliveries, NEW k \in Rows, Worker(e, k) PROVE Goal
    <2>1. CASE e # d
      <3>1. job'[d] = job[d] BY <1>0, <1>11, <2>1, Works
      <3>2. delivered'[d] = delivered[d]
        BY <1>0, <1>11, <2>1, Delivered
        DEF Worker, JobStart, JobSucceeds, JobCompletes, JobFails, JobBuries, JobBuryLost
      <3>3. dlq'[d] = dlq[d]
        BY <1>0, <1>11, <2>1, Buried
        DEF Worker, JobStart, JobSucceeds, JobCompletes, JobFails, JobBuries, JobBuryLost
      <3> QED BY <1>9, <3>1, <3>2, <3>3
    <2>2. CASE e = d
      <3>1. k = n BY <1>0, <1>3, <1>4, <1>5, <1>11, <2>2, Works
      <3>2. \A l \in Rows \ {n} : job'[d][l] = job[d][l] BY <1>0, <1>11, <2>2, <3>1, Works
      <3>3. CASE JobBuries(d, k)
        <4>1. Len(dlq'[d]) = n + 1 /\ delivered'[d] = delivered[d] /\ job'[d][n] = "failed"
              /\ job[d][n] = "burying"
          BY <1>0, <3>1, <3>3, Buried, JobWritten
          DEF JobBuries, SetJob, InState, JobStates, n
        <4>2. \A l \in Rows : l < n + 1 => l = n \/ l < n BY <1>4, <1>5
        <4> QED BY <1>3, <1>4, <3>2, <4>1, <4>2
      <3>4. CASE JobSucceeds(d, k)
        <4>1. job[d][n] = "active" /\ job'[d][n] = "finishing" /\ n \in Rows
              /\ Len(dlq'[d]) = n
          BY <1>0, <3>1, <3>4, JobWritten DEF JobSucceeds, SetJob, InState, JobStates, n
        <4>2. delivered[d] = 0 BY <1>3, <1>4, <4>1
        <4>3. delivered'[d] = 1 BY <1>0, <3>4, <4>2, Delivered DEF JobSucceeds
        <4> QED BY <1>3, <1>4, <1>5, <3>2, <4>1, <4>3
      <3>5. CASE ~JobBuries(d, k) /\ ~JobSucceeds(d, k)
        <4>1. UNCHANGED <<dlq, delivered>>
          BY <1>11, <2>2, <3>5
          DEF Worker, JobStart, JobCompletes, JobFails, JobBuryLost
        <4>2. job[d][n] = "finishing" => job'[d][n] = "done" BY <1>0, <1>11, <2>2, <3>1, Works
        <4>3. job[d][n] \notin {"done", "removed"} BY <1>0, <1>11, <2>2, <3>1, Works
        <4> QED BY <1>3, <1>4, <1>5, <3>1, <3>2, <4>1, <4>2, <4>3 DEF n
      <3> QED BY <3>3, <3>4, <3>5
    <2> QED BY <2>1, <2>2
  <1>12. ASSUME NEW p \in Callers, AddJob(p) PROVE Goal
    <2> DEFINE k == proc[p].row
    <2>1. UNCHANGED <<dlq, delivered>> BY <1>12 DEF AddJob
    <2>2. CASE proc[p].d # d BY <1>0, <1>9, <1>12, <2>1, <2>2, JobAdded
    <2>3. CASE proc[p].d = d
      <3>1. proc[p] # Idle BY <1>0, <1>12, AtStep DEF AddJob, PCs
      <3>2. k \in Rows /\ k <= n BY <1>0, <1>12, <2>3, <3>1, JobAdded DEF IInv, Carried, n
      <3>3. job'[d][k] = IF job[d][k] = "none" THEN "waiting" ELSE job[d][k]
        BY <1>0, <1>12, <2>3, JobAdded
      <3>4. \A l \in Rows \ {k} : job'[d][l] = job[d][l] BY <1>0, <1>12, <2>3, JobAdded
      <3> HIDE DEF k
      <3>5. \A l \in Rows : job[d][l] # "none" => job'[d][l] = job[d][l] BY <3>3, <3>4
      <3> QED BY <1>3, <2>1, <3>5 DEF n
    <2> QED BY <2>2, <2>3
  <1>13. ASSUME NEW e \in Deliveries, NEW k \in Rows, JobRemoved(e, k) PROVE Goal
    <2>1. CASE e # d BY <1>0, <1>9, <1>13, <2>1, Removes
    <2>2. CASE e = d
      <3>1. /\ job'[d][k] = "removed" /\ job[d][k] \in {"done", "failed"}
            /\ \A l \in Rows \ {k} : job'[d][l] = job[d][l]
            /\ dlq' = dlq /\ delivered' = delivered
        BY <1>0, <1>13, <2>2, Removes
      <3> QED BY <1>3, <3>1 DEF n
    <2> QED BY <2>1, <2>2
  <1> QED
    <2>1. CASE \E e \in Deliveries, k \in Rows : Worker(e, k) BY <1>11, <2>1
    <2>4. CASE \E e \in Deliveries, k \in Rows : JobRemoved(e, k) BY <1>13, <2>4
    <2>2. CASE \E p \in Callers : AddJob(p) BY <1>12, <2>2
    <2>3. CASE ~\E e \in Deliveries, k \in Rows : Worker(e, k) \/ JobRemoved(e, k)
      <3>1. ~(\E e \in Deliveries, k \in Rows : JobSucceeds(e, k) \/ JobBuries(e, k))
        BY <2>3 DEF Worker
      <3>2. Len(dlq'[d]) = Len(dlq[d]) BY <1>7, <1>8, <1>10, <3>1, Writers DEF BurySteps
      <3>3. delivered'[d] = delivered[d] BY <1>6, <3>1, Writers
      <3>4. job' = job \/ \E p \in Callers : AddJob(p) BY <1>1, <2>3, Writers
      <3> QED BY <1>9, <2>2, <3>2, <3>3, <3>4
    <2> QED BY <2>1, <2>3, <2>4

\* A call that stays where it is still carries what it did ...
LEMMA StaysCarried ==
    ASSUME IInv, [Next]_vars, NEW p \in Callers, proc'[p] = proc[p], proc[p] # Idle
    PROVE  Carried(p)'
  <1>1. TypeOK /\ TypeOK' /\ Grows /\ Carried(p) BY GrowStep, TypeStep DEF IInv
  <1>2. proc[p] \in Busy BY <1>1 DEF TypeOK
  <1>3. proc[p].d \in Deliveries /\ proc[p].row \in Rows /\ proc[p].row \in Nat
    BY <1>2, Constants DEF Busy
  <1>4. /\ Len(dlq[proc[p].d]) \in Nat /\ Len(dlq'[proc[p].d]) \in Nat
        /\ Len(dlq[proc[p].d]) <= Len(dlq'[proc[p].d])
    BY <1>1, <1>3, EmptySeq, LenProperties DEF TypeOK, Grows
  <1> QED BY <1>1, <1>3, <1>4 DEF Carried, Grows

\* ... and one that moves on still has its row and its delivery.
LEMMA MovedCarries ==
    ASSUME IInv, [Next]_vars, NEW p \in Callers, proc[p] # Idle,
           proc'[p].d = proc[p].d, proc'[p].row = proc[p].row
    PROVE  /\ proc'[p].row <= Len(dlq'[proc'[p].d])
           /\ p \in Deliveries => proc'[p].d = p
           /\ IF p = "redrive" THEN proc'[p].row > 0 ELSE proc'[p].row = 0
           /\ proc[p].d \in inlined => proc'[p].d \in inlined'
           /\ proc[p].outcome = "queued" => job'[proc'[p].d][proc'[p].row] # "none"
           /\ proc[p].outcome = "dispatched" => delivered'[proc'[p].d] > 0
           /\ proc[p].outcome \in {"failed", "dispatched"} => proc'[p].d \in inlined'
  <1>1. TypeOK /\ TypeOK' /\ Grows /\ Carried(p) BY GrowStep, TypeStep DEF IInv
  <1>2. proc[p] \in Busy BY <1>1 DEF TypeOK
  <1>3. proc[p].d \in Deliveries /\ proc[p].row \in Rows /\ proc[p].row \in Nat
    BY <1>2, Constants DEF Busy
  <1>4. /\ Len(dlq[proc[p].d]) \in Nat /\ Len(dlq'[proc[p].d]) \in Nat
        /\ Len(dlq[proc[p].d]) <= Len(dlq'[proc[p].d])
    BY <1>1, <1>3, EmptySeq, LenProperties DEF TypeOK, Grows
  <1> QED BY <1>1, <1>3, <1>4 DEF Carried, Grows

\* A call that begins has done nothing yet.
LEMMA BegunCarries ==
    ASSUME NEW p \in Callers, proc'[p].pc = "enqueue", proc'[p].outcome = "none",
           proc'[p].row <= Len(dlq'[proc'[p].d]),
           p \in Deliveries => proc'[p].d = p,
           IF p = "redrive" THEN proc'[p].row > 0 ELSE proc'[p].row = 0
    PROVE  Carried(p)'
  BY DEF Carried

LEMMA EnqueueCarries ==
    ASSUME IInv, [Next]_vars, NEW p \in Callers, Enqueue(p)
    PROVE  /\ Carried(p)' /\ \A q \in Callers \ {p} : proc'[q] = proc[q]
  <1>0. TypeOK /\ TypeOK' BY TypeStep DEF IInv
  <1>1. CASE AddJob(p)
    <2>1. proc[p] \in Busy /\ proc[p] # Idle BY <1>0, <1>1, AtStep DEF AddJob, PCs
    <2>2. /\ proc'[p].pc = "outcome" /\ proc'[p].outcome = "queued"
          /\ proc'[p].d = proc[p].d /\ proc'[p].row = proc[p].row
          /\ \A q \in Callers \ {p} : proc'[q] = proc[q]
      BY <1>0, <1>1, <2>1, Moves DEF AddJob, PCs, Outcomes
    <2>3. job'[proc'[p].d][proc'[p].row] # "none" BY <1>0, <1>1, <2>2, JobAdded
    <2> QED BY <2>1, <2>2, <2>3, MovedCarries DEF Carried
  <1>2. CASE AddRefused(p)
    <2>1. proc[p] \in Busy /\ proc[p] # Idle BY <1>0, <1>2, AtStep DEF AddRefused, PCs
    <2>2. /\ proc'[p].pc = "dispatch" /\ proc'[p].outcome = proc[p].outcome
          /\ proc'[p].d = proc[p].d /\ proc'[p].row = proc[p].row
          /\ \A q \in Callers \ {p} : proc'[q] = proc[q]
      BY <1>0, <1>2, <2>1, GoesTo DEF AddRefused, PCs
    <2>3. proc'[p].d \in inlined' BY <1>2, <2>2 DEF AddRefused
    <2> QED BY <2>1, <2>2, <2>3, MovedCarries DEF Carried
  <1>3. ASSUME NEW o \in {"dispatched", "failed"}, Dispatch(p, o) PROVE
        Carried(p)' /\ \A q \in Callers \ {p} : proc'[q] = proc[q]
    <2>1. proc[p] \in Busy /\ proc[p] # Idle /\ proc[p].pc = "dispatch"
          /\ proc[p].d \in Deliveries
      BY <1>0, <1>3, AtStep DEF Dispatch, PCs
    <2>2. /\ proc'[p].pc = "outcome" /\ proc'[p].outcome = o
          /\ proc'[p].d = proc[p].d /\ proc'[p].row = proc[p].row
          /\ \A q \in Callers \ {p} : proc'[q] = proc[q]
      BY <1>0, <1>3, <2>1, Moves DEF Dispatch, PCs, Outcomes
    <2>3. proc[p].d \in inlined BY <2>1 DEF IInv, Carried
    <2>4. o = "dispatched" => delivered'[proc'[p].d] > 0
      BY <1>0, <1>3, <2>1, <2>2, Delivered DEF Dispatch
    <2> QED BY <2>1, <2>2, <2>3, <2>4, MovedCarries DEF Carried
  <1> QED BY <1>1, <1>2, <1>3 DEF Enqueue

\* A second write is reached by the outcomes that have one.
LEMMA SecondCarries ==
    ASSUME IInv, [Next]_vars, NEW p \in Callers, proc[p] \in Busy, proc[p] # Idle,
           proc[p].pc = "outcome",
           proc'[p].pc = "second", proc'[p].outcome = proc[p].outcome,
           proc'[p].d = proc[p].d, proc'[p].row = proc[p].row,
           p \in Deliveries => proc[p].outcome = "failed",
           p = "redrive" => proc[p].outcome # "failed",
           p = "sweep" /\ proc[p].outcome = "failed" => Len(dlq'[proc[p].d]) > 0
    PROVE  Carried(p)'
  <1>1. proc[p].outcome # "none" BY DEF IInv, Carried
  <1> QED BY <1>1, MovedCarries DEF Carried

LEMMA CallStep ==
    ASSUME IInv, [Next]_vars, NEW p \in Callers, proc'[p] # Idle
    PROVE  Carried(p)'
  <1> USE Constants
  <1>0. TypeOK /\ TypeOK' BY TypeStep DEF IInv
  <1>1. CASE proc'[p] = proc[p] BY <1>1, StaysCarried
  <1>2. ASSUME NEW d \in Deliveries, Receive(d) PROVE Carried(p)'
    <2>1. /\ proc'[d].pc = "enqueue" /\ proc'[d].outcome = "none"
          /\ proc'[d].d = d /\ proc'[d].row = 0
          /\ \A q \in Callers \ {d} : proc'[q] = proc[q]
      BY <1>0, <1>2, Begins DEF Receive
    <2>2. Len(dlq'[d]) >= 0 BY <1>0, EmptySeq, LenProperties DEF TypeOK
    <2> QED BY <1>1, <2>1, <2>2, BegunCarries
  <1>3. ASSUME NEW d \in Deliveries, Live(d) PROVE Carried(p)'
    <2> USE DEF Live, LiveMark, LiveMarkLost, LiveBury, LiveBuryLost
    <2>1. proc[d] \in Busy /\ proc[d] # Idle BY <1>0, <1>3, AtStep DEF PCs
    <2>2. \A q \in Callers \ {d} : proc'[q] = proc[q] BY <1>0, <1>3, <2>1, Marked, Ends
    <2>3. CASE p = d
      <3>1. AfterMark(d) /\ proc[d].outcome = "failed"
        BY <1>0, <1>3, <2>3, Ends DEF AfterMark
      <3>2. proc[d].pc = "outcome" BY <1>0, <1>3, <2>3, Ends DEF At
      <3>3. /\ proc'[d].pc = "second" /\ proc'[d].outcome = proc[d].outcome
            /\ proc'[d].d = proc[d].d /\ proc'[d].row = proc[d].row
        BY <1>0, <2>1, <2>3, <3>1, Marked
      <3> QED BY <2>1, <2>3, <3>1, <3>2, <3>3, SecondCarries
    <2> QED BY <1>1, <2>2, <2>3
  <1>4. ASSUME NEW q \in Callers, Enqueue(q) PROVE Carried(p)'
    BY <1>1, <1>4, EnqueueCarries
  <1>5. ASSUME NEW r \in batch["sweep"], SweepRow(r) PROVE Carried(p)'
    <2>1. r \in [d : Deliveries, row : Rows, attempts : Nat] BY <1>0, <1>5 DEF TypeOK
    <2>2. r.d \in Deliveries /\ r.row \in Rows /\ r.attempts + 1 \in Nat BY <2>1
    <2>3. r.row <= Len(dlq'[r.d]) /\ r.row = 0 BY <1>5, <2>2 DEF IInv, Batched, SweepRow
    <2>4. CASE enabled[InstanceOf[r.d]]
      <3>1. proc' = [proc EXCEPT !["sweep"] =
              [pc |-> "enqueue", d |-> r.d, row |-> r.row, attempts |-> r.attempts + 1,
               outcome |-> "none"]]
        BY <1>5, <2>4 DEF SweepRow
      <3>2. /\ proc'["sweep"].pc = "enqueue" /\ proc'["sweep"].outcome = "none"
            /\ proc'["sweep"].d = r.d /\ proc'["sweep"].row = r.row
            /\ \A q \in Callers \ {"sweep"} : proc'[q] = proc[q]
        <4>1. "sweep" \in Callers BY DEF Callers
        <4>2. proc'["sweep"] = [pc |-> "enqueue", d |-> r.d, row |-> r.row,
                                attempts |-> r.attempts + 1, outcome |-> "none"]
          BY <1>0, <3>1, <4>1 DEF TypeOK
        <4>3. \A q \in Callers \ {"sweep"} : proc'[q] = proc[q]
          BY <1>0, <3>1 DEF TypeOK
        <4> QED BY <4>2, <4>3
      <3> QED BY <1>1, <2>3, <3>2, BegunCarries
    <2>5. CASE ~enabled[InstanceOf[r.d]]
      <3>1. proc' = [proc EXCEPT !["sweep"] = Idle] BY <1>5, <2>5 DEF SweepRow
      <3> QED BY <1>0, <1>1, <3>1 DEF TypeOK
    <2> QED BY <2>4, <2>5
  <1>6. ASSUME SweepMark \/ SweepBury PROVE Carried(p)'
    <2> USE DEF SweepMark, SweepBury, SweepAt
    <2> DEFINE d == proc["sweep"].d
    <2>1. /\ proc["sweep"] \in Busy /\ proc["sweep"] # Idle /\ proc["sweep"].pc = "outcome"
          /\ d \in Deliveries
      BY <1>0, <1>6, AtStep DEF PCs
    <2>2. /\ proc'["sweep"].pc = "second" /\ proc'["sweep"].outcome = proc["sweep"].outcome
          /\ proc'["sweep"].d = d /\ proc'["sweep"].row = proc["sweep"].row
          /\ \A q \in Callers \ {"sweep"} : proc'[q] = proc[q]
      BY <1>0, <1>6, <2>1, GoesTo DEF PCs
    <2>3. ASSUME proc["sweep"].outcome = "failed" PROVE Len(dlq'[d]) > 0
      <3>1. SweepBury BY <1>6, <2>3 DEF Accepted
      <3>2. CASE dlq[d] = <<>> BY <1>0, <2>1, <3>1, <3>2, Buried, Lengths
      <3>3. CASE dlq[d] # <<>>
        <4>1. dlq' = dlq BY <3>1, <3>3
        <4> QED BY <1>0, <2>1, <3>3, <4>1, Lengths
      <3> QED BY <3>2, <3>3
    <2> HIDE DEF d
    <2> QED BY <1>1, <2>1, <2>2, <2>3, SecondCarries DEF d
  <1>7. ASSUME NEW r \in batch["redrive"], RedriveRow(r) PROVE Carried(p)'
    <2>1. r \in [d : Deliveries, row : Rows, attempts : Nat] BY <1>0, <1>7 DEF TypeOK
    <2>2. r.d \in Deliveries /\ r.row \in Rows BY <2>1
    <2>3. r.row <= Len(dlq'[r.d]) /\ r.row > 0 BY <1>7, <2>2 DEF IInv, Batched, RedriveRow
    <2>4. /\ proc'["redrive"] = [pc |-> "enqueue", d |-> r.d, row |-> r.row,
                                 attempts |-> 0, outcome |-> "none"]
          /\ \A q \in Callers \ {"redrive"} : proc'[q] = proc[q]
      <3>1. proc' = [proc EXCEPT !["redrive"] = [pc |-> "enqueue", d |-> r.d, row |-> r.row,
                                                 attempts |-> 0, outcome |-> "none"]]
        BY <1>7 DEF RedriveRow
      <3>2. "redrive" \in Callers /\ 0 \in Nat BY DEF Callers
      <3> QED BY <1>0, <3>1, <3>2 DEF TypeOK
    <2> QED BY <1>1, <2>3, <2>4, BegunCarries
  <1>8. CASE RedriveEvent
    <2>1. /\ proc["redrive"] \in Busy /\ proc["redrive"] # Idle /\ proc["redrive"].pc = "outcome"
      BY <1>0, <1>8, AtStep DEF RedriveEvent, PCs
    <2>2. /\ proc'["redrive"].pc = "second" /\ proc'["redrive"].outcome = proc["redrive"].outcome
          /\ proc'["redrive"].d = proc["redrive"].d /\ proc'["redrive"].row = proc["redrive"].row
          /\ \A q \in Callers \ {"redrive"} : proc'[q] = proc[q]
      BY <1>0, <1>8, <2>1, GoesTo DEF RedriveEvent, PCs
    <2>3. proc["redrive"].outcome # "failed" BY <1>8 DEF RedriveEvent, Accepted
    <2> QED BY <1>1, <2>1, <2>2, <2>3, SecondCarries
  <1>9. ASSUME SweepRetire \/ SweepClose \/ SweepCount \/ SweepWriteLost PROVE Carried(p)'
    BY <1>0, <1>1, <1>9, Ends DEF SweepRetire, SweepClose, SweepCount, SweepWriteLost
  <1>10. ASSUME RedriveClose \/ RedriveFailed \/ RedriveWriteLost PROVE Carried(p)'
    BY <1>0, <1>1, <1>10, Ends DEF RedriveClose, RedriveFailed, RedriveWriteLost
  <1>11. ASSUME \/ SweepRead \/ Restart
                \/ \E i \in Instances : RedriveRead(i) \/ SetEnabled(i)
                \/ \E d \in Deliveries, k \in Rows : Worker(d, k) \/ JobRemoved(d, k)
                \/ UNCHANGED vars
         PROVE  Carried(p)'
    <2>1. proc' = proc
      BY <1>11 DEF SweepRead, Restart, RedriveRead, SetEnabled, Worker, JobStart, JobSucceeds,
                   JobCompletes, JobFails, JobBuries, JobBuryLost, JobRemoved, JobOnly, vars
    <2> QED BY <1>1, <2>1
  <1>12. ~Crash BY DEF Crash
  <1> QED
    BY <1>2, <1>3, <1>4, <1>5, <1>6, <1>7, <1>8, <1>9, <1>10, <1>11, <1>12
    DEF Next, Sweep, Redrive

LEMMA BatchStep == IInv /\ [Next]_vars => Batched'
  <1> SUFFICES ASSUME IInv, [Next]_vars PROVE Batched' OBVIOUS
  <1>0. TypeOK /\ TypeOK' /\ Grows BY GrowStep, TypeStep DEF IInv
  \* Rows that were read stay within lengths that grow.
  <1>1. ASSUME NEW b \in {"sweep", "redrive"}, batch'[b] \subseteq batch[b], NEW r \in batch'[b]
        PROVE  r.row <= Len(dlq'[r.d]) /\ IF b = "redrive" THEN r.row > 0 ELSE r.row = 0
    <2>1. r \in [d : Deliveries, row : Rows, attempts : Nat] BY <1>0, <1>1 DEF TypeOK
    <2>2. r.d \in Deliveries /\ r.row \in Nat BY <2>1, Constants
    <2>3. /\ Len(dlq[r.d]) \in Nat /\ Len(dlq'[r.d]) \in Nat
          /\ Len(dlq[r.d]) <= Len(dlq'[r.d])
      BY <1>0, <2>2, EmptySeq, LenProperties DEF TypeOK, Grows
    <2> QED BY <1>1, <2>2, <2>3 DEF IInv, Batched
  <1>2. CASE \A b \in {"sweep", "redrive"} : batch'[b] \subseteq batch[b]
    BY <1>1, <1>2 DEF Batched
  <1>3. CASE SweepRead
    <2> DEFINE read == {[d |-> d, row |-> 0, attempts |-> event[d].attempts] :
                          d \in {e \in Deliveries : Pending(e) /\ Oldest(e)}}
    <2>1. batch'["redrive"] = batch["redrive"] /\ batch'["sweep"] = read
      BY <1>0, <1>3 DEF SweepRead, TypeOK
    <2>2. ASSUME NEW r \in read PROVE r.row = 0 /\ r.d \in Deliveries BY <2>2
    <2>3. \A d \in Deliveries : 0 <= Len(dlq'[d]) BY <1>0, EmptySeq, LenProperties DEF TypeOK
    <2> HIDE DEF read
    <2> QED BY <1>1, <2>1, <2>2, <2>3 DEF Batched
  <1>4. ASSUME NEW i \in Instances, RedriveRead(i) PROVE Batched'
    <2> DEFINE rows == {r \in [d : Deliveries, row : Rows, attempts : {0}] :
                          InstanceOf[r.d] = i /\ r.row \in OpenRows(r.d)
                            /\ Len(dlq[r.d]) + InFlight(r.d) < MaxRows}
    <2>1. batch'["sweep"] = batch["sweep"] /\ batch'["redrive"] = rows /\ dlq' = dlq
      BY <1>0, <1>4 DEF RedriveRead, TypeOK, Stable, NoJobs
    <2>2. ASSUME NEW r \in rows PROVE r.row > 0 /\ r.row <= Len(dlq[r.d])
      <3>1. r.d \in Deliveries /\ r.row \in 1 .. Len(dlq[r.d]) BY <2>2 DEF OpenRows
      <3>2. Len(dlq[r.d]) \in Nat BY <1>0, <3>1, Lengths
      <3> QED BY <3>1, <3>2
    <2> HIDE DEF rows
    <2> QED BY <1>1, <2>1, <2>2 DEF Batched
  <1>5. ASSUME ~SweepRead, ~\E i \in Instances : RedriveRead(i)
        PROVE  \A b \in {"sweep", "redrive"} : batch'[b] \subseteq batch[b]
    <2>1. ASSUME NEW b \in {"sweep", "redrive"}, NEW B \in SUBSET batch[b],
                 batch' = [batch EXCEPT ![b] = B]
          PROVE  \A c \in {"sweep", "redrive"} : batch'[c] \subseteq batch[c]
      BY <1>0, <2>1 DEF TypeOK
    <2>2. ASSUME NEW r \in batch["sweep"], SweepRow(r)
          PROVE  \A b \in {"sweep", "redrive"} : batch'[b] \subseteq batch[b]
      BY <2>1, <2>2 DEF SweepRow
    <2>3. ASSUME NEW r \in batch["redrive"], RedriveRow(r)
          PROVE  \A b \in {"sweep", "redrive"} : batch'[b] \subseteq batch[b]
      BY <2>1, <2>3 DEF RedriveRow
    <2>4. ASSUME RedriveWriteLost PROVE \A b \in {"sweep", "redrive"} : batch'[b] \subseteq batch[b]
      BY <2>1, <2>4 DEF RedriveWriteLost
    <2>5. ASSUME Crash PROVE \A b \in {"sweep", "redrive"} : batch'[b] \subseteq batch[b]
      BY <2>5 DEF Crash
    <2>6. ASSUME NEW d \in Deliveries, \/ Receive(d) \/ Live(d)
                                        \/ \E k \in Rows : Worker(d, k) \/ JobRemoved(d, k)
          PROVE  UNCHANGED batch
      BY <2>6 DEF Receive, Live, LiveMark, LiveMarkLost, LiveBury, LiveBuryLost, Worker,
                  JobStart, JobSucceeds, JobCompletes, JobFails, JobBuries, JobBuryLost,
                  JobRemoved, JobOnly
    <2>7. ASSUME NEW p \in Callers, Enqueue(p) PROVE UNCHANGED batch
      BY <2>7 DEF Enqueue, AddJob, AddRefused, Dispatch
    <2>8. ASSUME \/ SweepMark \/ SweepRetire \/ SweepBury \/ SweepClose \/ SweepCount
                 \/ SweepWriteLost \/ RedriveEvent \/ RedriveClose \/ RedriveFailed
          PROVE  UNCHANGED batch
      BY <2>8 DEF SweepMark, SweepRetire, SweepBury, SweepClose, SweepCount, SweepWriteLost,
                  RedriveEvent, RedriveClose, RedriveFailed
    <2>9. ASSUME Restart \/ (\E i \in Instances : SetEnabled(i)) \/ UNCHANGED vars
          PROVE  UNCHANGED batch
      BY <2>9 DEF Restart, SetEnabled, vars
    <2> QED BY <1>5, <2>2, <2>3, <2>4, <2>5, <2>6, <2>7, <2>8, <2>9 DEF Next, Sweep, Redrive
  <1> QED BY <1>2, <1>3, <1>4, <1>5

-----------------------------------------------------------------------------
LEMMA InitIInv == Init => IInv
  <1> SUFFICES ASSUME Init PROVE IInv OBVIOUS
  <1>1. TypeOK
    <2>1. <<>> \in Seq({"open", "redriven"}) BY EmptySeq
    <2> QED BY <2>1 DEF Init, TypeOK, States, JobStates
  <1>2. \A d \in Deliveries : Len(dlq[d]) = 0 BY EmptySeq DEF Init
  <1>3. Batched BY DEF Init, Batched
  <1>4. \A p \in Callers : proc[p] = Idle BY DEF Init
  <1>5. ASSUME NEW d \in Deliveries
        PROVE  JobsKept(d) /\ RowsKept(d) /\ EventKept(d) /\ OneJobLeft(d)
    <2>1. JobsKept(d) BY DEF Init, JobsKept
    <2>2. RowsKept(d) BY <1>2 DEF RowsKept
    <2>3. EventKept(d) BY DEF Init, EventKept
    <2>4. OneJobLeft(d) BY <1>2, Constants DEF Init, OneJobLeft
    <2> QED BY <2>1, <2>2, <2>3, <2>4
  <1> QED BY <1>1, <1>3, <1>4, <1>5 DEF IInv

LEMMA NextIInv == IInv /\ [Next]_vars => IInv'
  BY TypeStep, BatchStep, CallStep, JobsStep, RowsStep, EventStep, OnceStep DEF IInv

THEOREM Invariance == Spec => []IInv
  BY InitIInv, NextIInv, PTL DEF Spec

(* Rows, jobs and calls keep their types: no write invents a state.         *)
THEOREM TypeCorrect == Spec => []TypeOK
  <1>1. IInv => TypeOK BY DEF IInv
  <1> QED BY <1>1, Invariance, PTL

(* Whatever crash, failed write or race intervenes, an acknowledged event   *)
(* that was not delivered is in its row, in a job or in an open dead-letter *)
(* row, but for the ways the property names.  The argument is about the     *)
(* last dead-letter row: it is open, or it was retired for a job that is    *)
(* still running, for one that failed would have left a later row.          *)
THEOREM NothingIsLost == Spec => []NothingLost
  <1>1. ASSUME IInv, NEW d \in Deliveries, event[d].state # "none", delivered[d] = 0,
               d \notin excused, ~Pending(d)
        PROVE  Held(d)
    <2>1. TypeOK /\ JobsKept(d) /\ RowsKept(d) /\ EventKept(d) /\ ~Safe(d)
      BY <1>1 DEF IInv, Safe, TypeOK
    <2>2. event[d].state \in {"dispatched", "failed"}
      BY <1>1, <2>1 DEF TypeOK, States, Pending
    <2>3. Len(dlq[d]) \in Nat BY <2>1, Lengths
    <2>4. ASSUME NEW k \in Rows, job[d][k] # "none", ~(k < Len(dlq[d]))
          PROVE  Held(d)
      <3>1. job[d][k] \in JobStates BY <2>1 DEF TypeOK
      <3>2. job[d][k] \notin {"finishing", "done", "failed", "removed"}
        BY <1>1, <2>1, <2>4 DEF JobsKept
      <3> QED BY <2>4, <3>1, <3>2 DEF Held, Running, JobStates
    <2>5. CASE Len(dlq[d]) = 0
      <3>1. job[d][0] # "none" BY <2>1, <2>2, <2>5 DEF EventKept
      <3> QED BY <2>4, <2>5, <3>1, Constants
    <2>6. CASE Len(dlq[d]) > 0
      <3>1. Len(dlq[d]) \in 1 .. Len(dlq[d]) BY <2>3, <2>6
      <3>2. dlq[d][Len(dlq[d])] \in {"open", "redriven"}
        BY <2>1, <3>1, ElementOfSeq DEF TypeOK
      <3>3. CASE dlq[d][Len(dlq[d])] = "open" BY <3>1, <3>3 DEF Held, OpenRows
      <3>4. CASE dlq[d][Len(dlq[d])] = "redriven"
        <4>1. Len(dlq[d]) \in Rows /\ job[d][Len(dlq[d])] # "none"
          BY <2>1, <3>1, <3>4 DEF RowsKept
        <4> QED BY <2>3, <2>4, <4>1
      <3> QED BY <3>2, <3>3, <3>4
    <2> QED BY <2>3, <2>5, <2>6
  <1>2. IInv => NothingLost BY <1>1 DEF NothingLost, Held
  <1> QED BY <1>2, Invariance, PTL

(* The comment at reconcileRow: on the queue path nothing is delivered      *)
(* twice, as long as the process does not crash and no id is taken again    *)
(* after the queue has removed its finished job.                            *)
THEOREM QueueDeliversAtMostOnce == Spec => []QueueDeliversOnce
  <1>1. IInv => QueueDeliversOnce BY DEF IInv, OneJobLeft, QueueDeliversOnce
  <1> QED BY <1>1, Invariance, PTL
=============================================================================
