------------------------- MODULE MCWhatsAppMessages -------------------------
(* r1 announces, r2 is a request of the session's that comes in before r1   *)
(* has ended.  The school moves between the gateway of the environment and  *)
(* one of its own, where no session can be made; nobody moves any more once *)
(* both have ended and nothing is on the wire.                              *)
EXTENDS WhatsAppMessages
CONSTANTS r1, r2

Ended(r) == req[r].pc \in Over \ {"idle"}

Roles ==
  /\ req'[r1].kind = "send"
  /\ req'[r2].kind = "send" => req'[r2].pc = "idle"
  /\ Ended(r1) /\ req[r2].pc = "idle" => UNCHANGED req

Turns ==
  /\ school'.own # EnvGateway
  /\ \A g \in Gateways \ {EnvGateway} : gw'[g].made = 0
  /\ Ended(r1) /\ Ended(r2) /\ wire = {} => UNCHANGED gw /\ school'.own = school.own

MCSpec ==
  /\ MessagesInit /\ [][MessagesNext /\ Roles /\ Turns]_messagesVars
  /\ \A r \in Requests : WF_messagesVars(Work(r) /\ Roles /\ Turns)
=============================================================================
