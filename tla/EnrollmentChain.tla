-------------------------- MODULE EnrollmentChain --------------------------
(***************************************************************************)
(* What the promotion handlers promise for a student's way through the     *)
(* school: the student stands at one place at most, a place being a class  *)
(* in an academic year; each promotion moves on to a place never stood at  *)
(* before, and the places left behind stay on record.                      *)
(***************************************************************************)
CONSTANTS
    Students,
    Terms       \* (academic year, class) pairs

VARIABLES
    place,      \* where each student stands or stood last: a set of at most one
    past        \* the places each student was promoted from

vars == <<place, past>>

Init ==
    /\ place = [st \in Students |-> {}]
    /\ past = [st \in Students |-> {}]

Admit(st, t) ==
    /\ place[st] = {} /\ past[st] = {}
    /\ place' = [place EXCEPT ![st] = {t}]
    /\ UNCHANGED past

Move(st, t) ==
    /\ place[st] # {}
    /\ t \notin place[st] \cup past[st]
    /\ past' = [past EXCEPT ![st] = @ \cup place[st]]
    /\ place' = [place EXCEPT ![st] = {t}]

Erase(st) ==
    /\ place' = [place EXCEPT ![st] = {}]
    /\ past' = [past EXCEPT ![st] = {}]

Next ==
    \E st \in Students :
        \/ \E t \in Terms : Admit(st, t) \/ Move(st, t)
        \/ Erase(st)

Spec == Init /\ [][Next]_vars

=============================================================================
