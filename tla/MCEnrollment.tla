---------------------------- MODULE MCEnrollment ----------------------------
(* Three regimes in one state graph.  "moves": all classes are open, and   *)
(* two requests that move the student meet; "sheets": one such request and *)
(* a clerk who saves attendance, while classes come and go; "families":    *)
(* two clerks who remove parents and sections, and nobody moves.           *)
EXTENDS SchoolRecords, TLC

CONSTANTS t1, t2, t3, t4, c1, c2
VARIABLE regime

MCClassOf == (t1 :> c1) @@ (t2 :> c2) @@ (t3 :> c2) @@ (t4 :> c2)

MCInit ==
    /\ RecordsInit
    /\ regime \in {"moves", "sheets", "families"}
    /\ regime = "moves" => \A c \in Classes : Open(c, 0)
    /\ regime = "families" => Cardinality({c \in Classes : Open(c, 0)}) = 1

Busy == {s \in Slots : request'[s] # Idle}
Working == {s \in Clerks : task'[s] # NoTask}
Joined(c) == {t \in Terms : ClassOf[t] = c /\ \E st \in Students : Exists(st, t)'}

Moves ==
    /\ UNCHANGED <<unit, task>>
    /\ \A st \in Students : Cardinality(guardians'[st]) <= 1 /\ seat'[st] = seat[st]

\* One year of a class, one section, one parent.
Sheet ==
    /\ \A s \in Busy : request'[s].op = "PROMOTE"
    /\ Cardinality(Busy) <= 1 /\ Cardinality(Working) <= 1
    /\ \A s \in Working : task'[s].op = "SHEET"
    /\ \A st \in Students : Cardinality(guardians'[st]) <= 1
    /\ \A c \in Classes : Cardinality(Joined(c)) <= 1 /\ unit'[c][2] # "OPEN"

\* One class, one year of it.
Family ==
    /\ Busy = {}
    /\ \A s \in Working : task'[s].op \in {"UNLINK", "DROP"}
    /\ \A st \in Students : person'[st] \in {"NEW", "ACTIVE", "GONE"}
    /\ \A c \in Classes : unit[c][0] = "NEW" => unit'[c][0] = "NEW"
    /\ \A c \in Classes : Cardinality(Joined(c)) <= 1

MCNext ==
    /\ RecordsNext
    /\ UNCHANGED regime
    /\ CASE regime = "moves" -> Moves
         [] regime = "sheets" -> Sheet
         [] regime = "families" -> Family

MCSpec == MCInit /\ [][MCNext]_<<allVars, regime>>

Symmetry ==
    Permutations(Slots) \cup Permutations(Clerks) \cup Permutations(Parents)
    \cup Permutations({t2, t3, t4})
=============================================================================
