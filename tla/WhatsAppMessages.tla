-------------------------- MODULE WhatsAppMessages --------------------------
(***************************************************************************)
(* The WhatsApp messages of one school: a request writes one PENDING log   *)
(* row per recipient, finds or creates the school's session at the OpenWA  *)
(* gateway, posts the message and marks the row SENT or FAILED.  Requests  *)
(* interleave at every await with each other, with the session's own       *)
(* requests (connect, disconnect, reconnect, reset, status), with a change *)
(* of gateway, with the gateway itself and with a crash.                   *)
(*                                                                         *)
(* A gateway keeps one session per name; the name is the school's.  A      *)
(* session id is the gateway and how many it had created by then.          *)
(***************************************************************************)
EXTENDS Naturals, FiniteSets

CONSTANTS
  Requests,    \* requests of one behaviour
  MaxTargets,  \* bound: recipients of an announcement
  Gateways,    \* OpenWA servers the school may be pointed at
  EnvGateway,  \* the one of the backend's environment, or NoGateway
  MaxSessions  \* bound: sessions a gateway creates for the school

NoGateway == "none"

ASSUME WhatsAppAssumption ==
  /\ MaxTargets \in Nat \ {0} /\ MaxSessions \in Nat
  /\ NoGateway \notin Gateways /\ EnvGateway \in Gateways \cup {NoGateway}

VARIABLES
  school,    \* the school row: own gateway and whatsappSessionId
  gw,        \* gw[g]: sessions made, whether the last one exists and runs
  req,       \* req[r]: a request, see Request
  log,       \* log[r][i]: status of the row of r's i-th recipient
  wire,      \* posts on their way: request and recipient, gateway, session id
  delivered, \* history: what WhatsApp has sent out
  blurred    \* history: rows whose answer or status write was lost, or whose answer
             \* was an error though the message had gone out

messagesVars == <<school, gw, req, log, wire, delivered, blurred>>

Kinds == {"send", "touch", "connect", "disconnect", "reconnect"}
Phases == {"idle", "resolve", "refused", "row", "load", "create", "list", "store", "call", "wait", "mark",
           "fail", "start", "answered", "lost"}
NoId == <<NoGateway, 0>>
Ids == Gateways \X (1 .. MaxSessions)
Targets == 1 .. MaxTargets
Rows == Requests \X Targets
Request ==
  [kind : Kinds, pc : Phases,
   asked : [all : 0 .. MaxTargets, mute : 0 .. MaxTargets], \* selected; of them without a number
   n : Targets, at : Targets,                               \* to send to; the one whose turn it is
   gate : Gateways \cup {NoGateway}, sid : Ids \cup {NoId}, ok : 0 .. MaxTargets, bad : 0 .. MaxTargets]

MessagesTypeOK ==
  /\ school \in [own : Gateways \cup {NoGateway}, session : Ids \cup {NoId}]
  /\ gw \in [Gateways -> [made : 0 .. MaxSessions, alive : BOOLEAN, on : BOOLEAN]]
  /\ req \in [Requests -> Request]
  /\ log \in [Requests -> [Targets -> {"none", "PENDING", "SENT", "FAILED"}]]
  /\ wire \subseteq Rows \X Gateways \X Ids
  /\ delivered \subseteq Rows /\ blurred \subseteq Rows

MessagesInit ==
  /\ school = [own |-> NoGateway, session |-> NoId]
  /\ gw = [g \in Gateways |-> [made |-> 0, alive |-> FALSE, on |-> FALSE]]
  /\ req = [r \in Requests |->
              [kind |-> "send", pc |-> "idle", asked |-> [all |-> 0, mute |-> 0], n |-> 1, at |-> 1,
               gate |-> NoGateway, sid |-> NoId, ok |-> 0, bad |-> 0]]
  /\ log = [r \in Requests |-> [i \in Targets |-> "none"]]
  /\ wire = {} /\ delivered = {} /\ blurred = {}

-----------------------------------------------------------------------------
(* resolveGateway: the school's own gateway before the environment's.       *)
Gateway == IF school.own # NoGateway THEN school.own ELSE EnvGateway

Current(g) == <<g, gw[g].made>>
Exists(g, sid) == gw[g].alive /\ sid = Current(g)
Goto(r, pc) == req' = [req EXCEPT ![r].pc = pc]
Row(r) == <<r, req[r].at>>
SetRow(r, s) == log' = [log EXCEPT ![r][req[r].at] = s]
Blur(r) == blurred' = blurred \cup {Row(r)}

(* Mutant: the index moves past the last recipient.                         *)
CountedPast(q, good) ==
  [q EXCEPT !.ok = IF good THEN @ + 1 ELSE @, !.bad = IF good THEN @ ELSE @ + 1,
            !.at = @ + 1,
            !.pc = IF q.at < q.n THEN "row" ELSE "answered",
            !.gate = NoGateway, !.sid = NoId]

(* The loop of sendAnnouncement: what a recipient came to is counted, and   *)
(* the next one is taken; the other handlers have one recipient.            *)
Counted(q, good) ==
  [q EXCEPT !.ok = IF good THEN @ + 1 ELSE @, !.bad = IF good THEN @ ELSE @ + 1,
            !.at = IF q.at < q.n THEN @ + 1 ELSE @,
            !.pc = IF q.at < q.n THEN "row" ELSE "answered",
            !.gate = NoGateway, !.sid = NoId]
Settle(r, good) == req' = [req EXCEPT ![r] = Counted(@, good)]

-----------------------------------------------------------------------------
Receive(r, kind, all) ==
  /\ req[r].pc = "idle"
  /\ kind # "send" => all = 0
  /\ req' = [req EXCEPT ![r].kind = kind, ![r].asked = [all |-> all, mute |-> 0],
                        ![r].pc = IF kind = "send" THEN "resolve" ELSE "load"]
  /\ UNCHANGED <<school, gw, log, wire, delivered, blurred>>

(* The selected recipients without a number are left out without a word.    *)
(* With none left, or none selected, the recipient is the one the body      *)
(* names; without a number, or when a lookup fails, the request is refused. *)
Resolve(r) ==
  /\ req[r].pc = "resolve"
  /\ \/ Goto(r, "refused")
     \/ \E mute \in 0 .. req[r].asked.all :
          req' = [req EXCEPT ![r].asked.mute = mute, ![r].pc = "row",
                             ![r].n = IF mute = req[r].asked.all THEN 1
                                       ELSE req[r].asked.all - mute]
  /\ UNCHANGED <<school, gw, log, wire, delivered, blurred>>

(* Mutant: an error of the insert leaves the loop.                          *)
CreateRowThrows(r) ==
  /\ req[r].pc = "row"
  /\ \/ SetRow(r, "PENDING") /\ Goto(r, "load")
     \/ Goto(r, "answered") /\ UNCHANGED log
  /\ UNCHANGED <<school, gw, wire, delivered, blurred>>

(* The PENDING row, unless the number is invalid or the insert fails.       *)
CreateRow(r) ==
  /\ req[r].pc = "row"
  /\ \/ SetRow(r, "PENDING") /\ Goto(r, "load")
     \/ Settle(r, FALSE) /\ UNCHANGED log
  /\ UNCHANGED <<school, gw, wire, delivered, blurred>>

(* requireGateway: one read of the school gives gateway and session id.     *)
Load(r) ==
  /\ req[r].pc = "load"
  /\ IF Gateway = NoGateway
       THEN Goto(r, "fail")
       ELSE req' = [req EXCEPT ![r].gate = Gateway, ![r].sid = school.session,
                               ![r].pc = IF school.session = NoId THEN "create" ELSE "call"]
  /\ UNCHANGED <<school, gw, log, wire, delivered, blurred>>

(* ensureSessionId: a name the gateway knows is looked up in its list.  The *)
(* answer may be lost either way.                                           *)
CreateSession(r) ==
  LET g == req[r].gate
  IN /\ req[r].pc = "create"
     /\ \/ Goto(r, "fail") /\ UNCHANGED gw
        \/ gw[g].alive /\ Goto(r, "list") /\ UNCHANGED gw
        \/ /\ ~gw[g].alive /\ gw[g].made < MaxSessions
           /\ gw' = [gw EXCEPT ![g] = [made |-> @.made + 1, alive |-> TRUE, on |-> FALSE]]
           /\ \/ req' = [req EXCEPT ![r].sid = <<g, gw[g].made + 1>>, ![r].pc = "store"]
              \/ Goto(r, "fail")
     /\ UNCHANGED <<school, log, wire, delivered, blurred>>

ListSessions(r) ==
  LET g == req[r].gate
  IN /\ req[r].pc = "list"
     /\ \/ Goto(r, "fail")
        \/ gw[g].alive /\ req' = [req EXCEPT ![r].sid = Current(g), ![r].pc = "store"]
     /\ UNCHANGED <<school, gw, log, wire, delivered, blurred>>

StoreSession(r) ==
  /\ req[r].pc = "store"
  /\ \/ school' = [school EXCEPT !.session = req[r].sid] /\ Goto(r, "call")
     \/ Goto(r, "fail") /\ UNCHANGED school
  /\ UNCHANGED <<gw, log, wire, delivered, blurred>>

-----------------------------------------------------------------------------
(* sendText: the post to the gateway read with the session id, its answer,  *)
(* or none within 30 s.  What was posted may still be sent out after the    *)
(* time-out, or after a crash.                                              *)
Post(r) ==
  /\ req[r].pc = "call" /\ req[r].kind = "send"
  /\ wire' = wire \cup {<<Row(r), req[r].gate, req[r].sid>>}
  /\ Goto(r, "wait")
  /\ UNCHANGED <<school, gw, log, delivered, blurred>>

Waiting(w) == req[w[1][1]].pc = "wait" /\ Row(w[1][1]) = w[1]

(* Mutant: any answer of the gateway counts as a success.                   *)
DeliverAnyAnswer(w) ==
  /\ w \in wire
  /\ wire' = wire \ {w}
  /\ \/ w[3][1] = w[2] /\ Exists(w[2], w[3]) /\ gw[w[2]].on /\ delivered' = delivered \cup {w[1]}
     \/ UNCHANGED delivered
  /\ IF Waiting(w) THEN Goto(w[1][1], "mark") ELSE UNCHANGED req
  /\ UNCHANGED <<school, gw, log, blurred>>

(* A gateway that does not know the session id, or whose session is down,   *)
(* answers with an error and sends nothing.  Otherwise the message goes out *)
(* or not: the pacing, a plugin or the engine may refuse it.  A success     *)
(* proves that it went out; an error does not prove that it did not.        *)
Deliver(w) ==
  /\ w \in wire
  /\ wire' = wire \ {w}
  /\ \E out, ok \in BOOLEAN :
       /\ out => w[3][1] = w[2] /\ Exists(w[2], w[3]) /\ gw[w[2]].on
       /\ ok => out
       /\ delivered' = IF out THEN delivered \cup {w[1]} ELSE delivered
       /\ blurred' = IF out /\ ~ok THEN blurred \cup {w[1]} ELSE blurred
       /\ IF Waiting(w) THEN Goto(w[1][1], IF ok THEN "mark" ELSE "fail") ELSE UNCHANGED req
  /\ UNCHANGED <<school, gw, log>>

(* Mutant: the HTTP client has no time-out.                                 *)
TimeOutNever(r) == r \notin Requests /\ UNCHANGED messagesVars

TimeOut(r) ==
  /\ req[r].pc = "wait"
  /\ Goto(r, "fail") /\ Blur(r)
  /\ UNCHANGED <<school, gw, log, wire, delivered>>

(* The row is marked SENT; a failing update is caught like a failing send.  *)
MarkSent(r) ==
  /\ req[r].pc = "mark"
  /\ \/ SetRow(r, "SENT") /\ Settle(r, TRUE) /\ UNCHANGED blurred
     \/ Goto(r, "fail") /\ Blur(r) /\ UNCHANGED log
  /\ UNCHANGED <<school, gw, wire, delivered>>

(* The row is marked FAILED, or that update fails too.                      *)
MarkFailed(r) ==
  /\ req[r].pc = "fail"
  /\ Settle(r, FALSE)
  /\ \/ req[r].kind # "send" /\ UNCHANGED <<log, blurred>>
     \/ req[r].kind = "send" /\ SetRow(r, "FAILED") /\ UNCHANGED blurred
     \/ req[r].kind = "send" /\ Blur(r) /\ UNCHANGED log
  /\ UNCHANGED <<school, gw, wire, delivered>>

-----------------------------------------------------------------------------
(* The session's requests.  A connect of a running session is refused.      *)
SetOn(g, b) == gw' = [gw EXCEPT ![g].on = b]

SessionCall(r) ==
  LET g == req[r].gate  sid == req[r].sid  reached == sid[1] = g /\ Exists(g, sid)
  IN /\ \/ req[r].pc = "call" /\ req[r].kind \in {"touch", "connect", "disconnect"}
        \/ req[r].pc = "start"
     /\ \/ Goto(r, "fail") /\ UNCHANGED gw
        \/ reached /\ req[r].kind = "touch" /\ Settle(r, TRUE) /\ UNCHANGED gw
        \/ reached /\ req[r].kind = "disconnect" /\ Settle(r, TRUE) /\ SetOn(g, FALSE)
        \/ /\ reached /\ req[r].kind \in {"connect", "reconnect"} /\ ~gw[g].on
           /\ Settle(r, TRUE) /\ SetOn(g, TRUE)
     /\ UNCHANGED <<school, log, wire, delivered, blurred>>

(* reconnect swallows whatever its stop comes to.                           *)
ReconnectStops(r) ==
  LET g == req[r].gate  sid == req[r].sid
  IN /\ req[r].pc = "call" /\ req[r].kind = "reconnect"
     /\ Goto(r, "start")
     /\ \/ UNCHANGED gw
        \/ sid[1] = g /\ Exists(g, sid) /\ SetOn(g, FALSE)
     /\ UNCHANGED <<school, log, wire, delivered, blurred>>

ResetSession ==
  /\ school' = [school EXCEPT !.session = NoId]
  /\ UNCHANGED <<gw, req, log, wire, delivered, blurred>>

(* saveGatewayConfig leaves the session id alone, whatever the gateway.     *)
SaveGateway(g) ==
  /\ school' = [school EXCEPT !.own = g]
  /\ UNCHANGED <<gw, req, log, wire, delivered, blurred>>

(* The gateway by itself: the phone pairs, the engine drops, an operator of *)
(* OpenWA deletes the session.                                              *)
GatewayMoves(g) ==
  /\ gw[g].alive
  /\ \/ SetOn(g, ~gw[g].on)
     \/ gw' = [gw EXCEPT ![g].alive = FALSE, ![g].on = FALSE]
  /\ UNCHANGED <<school, req, log, wire, delivered, blurred>>

(* The backend restarts: nothing takes its requests up again.               *)
Over == {"idle", "refused", "answered", "lost"}
BackendCrash ==
  /\ req' = [r \in Requests |-> IF req[r].pc \in Over THEN req[r]
                                ELSE [req[r] EXCEPT !.pc = "lost", !.gate = NoGateway, !.sid = NoId]]
  /\ UNCHANGED <<school, gw, log, wire, delivered, blurred>>

-----------------------------------------------------------------------------
Work(r) ==
  \/ Resolve(r) \/ CreateRow(r) \/ Load(r) \/ CreateSession(r) \/ ListSessions(r) \/ StoreSession(r)
  \/ Post(r) \/ TimeOut(r) \/ MarkSent(r) \/ MarkFailed(r)
  \/ SessionCall(r) \/ ReconnectStops(r)

MessagesNext ==
  \/ \E r \in Requests :
       Work(r) \/ (\E kind \in Kinds, all \in 0 .. MaxTargets : Receive(r, kind, all))
  \/ \E w \in wire : Deliver(w)
  \/ \E g \in Gateways : GatewayMoves(g)
  \/ \E g \in Gateways \cup {NoGateway} : SaveGateway(g)
  \/ ResetSession
  \/ BackendCrash

MessagesSpec == MessagesInit /\ [][MessagesNext]_messagesVars

(* Every await of a request ends: the database answers, the HTTP client     *)
(* gives up after 30 s.  The gateway owes nothing.                          *)
MessagesLiveSpec == MessagesSpec /\ \A r \in Requests : WF_messagesVars(Work(r))

-----------------------------------------------------------------------------
(* What the log says of a message: SENT has been sent out; FAILED has not,  *)
(* and PENDING is still at work, unless an answer, a status write or the    *)
(* process was lost or the gateway answered with an error for a message it  *)
(* had sent out (persistAndSend).                                           *)
LogIsTrue ==
  \A r \in Requests, i \in Targets :
    /\ log[r][i] = "SENT" => <<r, i>> \in delivered
    /\ log[r][i] = "FAILED" /\ <<r, i>> \in delivered => <<r, i>> \in blurred
    /\ log[r][i] = "PENDING" =>
         \/ req[r].at = i /\ req[r].pc \notin {"idle", "resolve", "refused", "row", "answered"}
         \/ <<r, i>> \in blurred

(* An answered announcement: the rows it reports as sent are the rows       *)
(* marked SENT, and sent and failed make up the selected recipients but for *)
(* those without a number, whom it does not mention (or, with none left,    *)
(* the one the body names).  A refused one has written no row.              *)
ReportCounts ==
  \A r \in Requests :
    LET q == req[r]
    IN /\ q.pc = "answered" /\ q.kind = "send" =>
            /\ \/ q.ok + q.bad + q.asked.mute = q.asked.all
               \/ q.ok + q.bad = 1 /\ q.asked.mute = q.asked.all
            /\ q.ok = Cardinality({i \in Targets : log[r][i] = "SENT"})
       /\ q.pc = "refused" => \A i \in Targets : log[r][i] = "none"

(* Every request is answered, however many of its calls fail, as long as    *)
(* the process stays up.                                                    *)
RequestEnds ==
  \A r \in Requests : (req[r].pc \notin Over) ~> (req[r].pc \in Over)
=============================================================================
