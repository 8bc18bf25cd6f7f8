------------------------------- MODULE Exams -------------------------------
(***************************************************************************)
(* One exam of exam.controller.ts: its dates and status, its papers (the   *)
(* ExamSubject rows) and their marks, and the subjects papers are set in.  *)
(* A handler checks the rows it reads with plain queries and writes in a   *)
(* later query or transaction; other requests write in between.            *)
(*                                                                         *)
(* The section a paper is for is left out: it says which papers may exist  *)
(* side by side and whose marks a sheet may hold, and students outside the *)
(* class are skipped.  A row without marks counts like no row at all.      *)
(***************************************************************************)
EXTENDS Naturals

CONSTANTS
    Students,
    Subjects,
    Papers,     \* ids of the papers that can be set (bound)
    Scores,     \* marks a teacher may enter, as a maximum, to pass or for a student
    Days,
    Settable,   \* the statuses an administrator sets in this instance
    Slots,      \* requests that can be in flight together
    None

ASSUME ScoresAssumption == Scores \subseteq Nat
ASSUME DaysAssumption == Days \subseteq Nat

VARIABLES
    exam,       \* the Exam row
    subject,    \* Subject.isActive, with GONE for a deleted one
    paper,      \* ExamSubject rows, with DELETED for those that were
    mark,       \* ExamMark rows
    request     \* what each slot is doing and has read

dbVars == <<exam, subject, paper, mark>>
vars == <<exam, subject, paper, mark, request>>

ExamStatuses == {"DRAFT", "SCHEDULED", "ONGOING", "COMPLETED", "CANCELLED"}

ASSUME SettableAssumption == Settable \subseteq ExamStatuses

Dates == [start : Days, end : Days \cup {None}]

Limits == [max : Scores, pass : Scores]

ASSUME NoneAssumption == None \notin Nat \cup Papers \cup Subjects \cup Dates \cup Limits

Unused == [state |-> "UNUSED", subject |-> None, limits |-> None]

Deleted == [Unused EXCEPT !.state = "DELETED"]

Paper == {Unused, Deleted} \cup [state : {"SET"}, subject : Subjects, limits : Limits]

Mark == [obtained : Scores \cup {None}, absent : BOOLEAN]

NoMark == [obtained |-> None, absent |-> FALSE]

(* id      the paper or subject the handler works on                       *)
(* limits  the maximum and pass marks it has read or is to write           *)
(* dates   the dates the exam is to have, of which the caller sent `fields' *)
(* used    papers were counted in the subject                              *)
Request == [op : {"NONE", "UPDATE", "SCHEDULED", "LIMITS", "MARKS", "ONGOING",
                  "REMOVE_SUBJECT"},
            id : Papers \cup Subjects \cup {None},
            limits : Limits \cup {None}, dates : Dates \cup {None},
            fields : SUBSET {"start", "end"}, used : BOOLEAN]

Idle == [op |-> "NONE", id |-> None, limits |-> None, dates |-> None,
         fields |-> {}, used |-> FALSE]

InOrder(dates) == dates.end # None => dates.start <= dates.end

\* createExam
Init ==
    /\ exam \in [status : {"DRAFT"}, dates : {d \in Dates : InOrder(d)}]
    /\ subject = [sub \in Subjects |-> "ACTIVE"]
    /\ paper = [p \in Papers |-> Unused]
    /\ mark = [p \in Papers |-> [st \in Students |-> NoMark]]
    /\ request = [s \in Slots |-> Idle]

---------------------------------------------------------------------------

Exists == exam.status # "GONE"

Set(p) == paper[p].state = "SET"

PapersIn(sub) == {p \in Papers : Set(p) /\ paper[p].subject = sub}

\* Papers go with what they belong to, and their marks with them.
Remove(ps) ==
    /\ paper' = [p \in Papers |->
                    IF p \in ps THEN Deleted ELSE paper[p]]
    /\ mark' = [p \in Papers |->
                    IF p \in ps THEN [st \in Students |-> NoMark] ELSE mark[p]]

Enter(s, q) ==
    /\ request[s] = Idle
    /\ request' = [request EXCEPT ![s] = q]

Release(s) == request' = [request EXCEPT ![s] = Idle]

\* exam.updateMany: the status moves on from one of `from', if it still is one.
MoveOn(from, status) ==
    exam' = IF exam.status \in from THEN [exam EXCEPT !.status = status] ELSE exam

---------------------------------------------------------------------------
(* The exam.                                                               *)

\* Mutant: the dates are compared only when both are sent.
ReadExam_BothSent(s, dates, fields) ==
    /\ Exists
    /\ "start" \notin fields => dates.start = exam.dates.start
    /\ "end" \notin fields => dates.end = exam.dates.end
    /\ {"start", "end"} \subseteq fields => InOrder(dates)
    /\ Enter(s, [Idle EXCEPT !.op = "UPDATE", !.dates = dates, !.fields = fields])
    /\ UNCHANGED dbVars

\* updateExam: a date the caller leaves out is checked as it was read.
ReadExam(s, dates, fields) ==
    /\ Exists
    /\ "start" \notin fields => dates.start = exam.dates.start
    /\ "end" \notin fields => dates.end = exam.dates.end
    /\ InOrder(dates)
    /\ Enter(s, [Idle EXCEPT !.op = "UPDATE", !.dates = dates, !.fields = fields])
    /\ UNCHANGED dbVars

\* Only the dates that were sent are written, and the status if one was sent, which
\* nothing restricts.
WriteExam(s, status) ==
    LET q == request[s]
        Merged(field, old, new) == IF field \in q.fields THEN new ELSE old
    IN  /\ q.op = "UPDATE"
        /\ Exists
        /\ exam' = [status |-> IF status = None THEN exam.status ELSE status,
                    dates |-> [start |-> Merged("start", exam.dates.start, q.dates.start),
                               end |-> Merged("end", exam.dates.end, q.dates.end)]]
        /\ Release(s)
        /\ UNCHANGED <<subject, paper, mark>>

DeleteExam ==
    /\ Exists
    /\ exam' = [exam EXCEPT !.status = "GONE"]
    /\ Remove({p \in Papers : Set(p)})
    /\ UNCHANGED <<subject, request>>

---------------------------------------------------------------------------
(* Papers.                                                                 *)

\* addExamSchedule: whether the subject is active was read before the row is created.
ReadSubject(s, sub, limits) ==
    /\ Exists
    /\ subject[sub] = "ACTIVE"
    /\ limits.pass <= limits.max
    /\ Enter(s, [Idle EXCEPT !.op = "SCHEDULED", !.id = sub, !.limits = limits])
    /\ UNCHANGED dbVars

AddPaper(s, p) ==
    LET q == request[s]
    IN  /\ q.op = "SCHEDULED" /\ q.limits # None
        /\ Exists
        /\ subject[q.id] # "GONE"
        /\ paper[p] = Unused
        /\ paper' = [paper EXCEPT ![p] =
                        [state |-> "SET", subject |-> q.id, limits |-> q.limits]]
        /\ request' = [request EXCEPT ![s] = [Idle EXCEPT !.op = "SCHEDULED"]]
        /\ UNCHANGED <<exam, subject, mark>>

\* The last query of addExamSchedule.
Schedule(s) ==
    /\ request[s].op = "SCHEDULED" /\ request[s].limits = None
    /\ MoveOn({"DRAFT"}, "SCHEDULED")
    /\ Release(s)
    /\ UNCHANGED <<subject, paper, mark>>

\* updateExamSchedule: the limit the caller leaves out is the one that was read.
ReadLimits(s, p, limits) ==
    /\ Set(p)
    /\ limits.pass <= limits.max
    /\ Enter(s, [Idle EXCEPT !.op = "LIMITS", !.id = p, !.limits = limits])
    /\ UNCHANGED dbVars

\* Mutant: one limit is written and the other left as it is, as updateExam does
\* with the dates.
WriteLimits_One(s) ==
    LET q == request[s]
    IN  /\ q.op = "LIMITS"
        /\ Set(q.id)
        /\ \E limit \in {"max", "pass"} :
            paper' = [paper EXCEPT ![q.id].limits[limit] = q.limits[limit]]
        /\ Release(s)
        /\ UNCHANGED <<exam, subject, mark>>

\* Both limits are written, sent or not; the marks entered so far are not looked at.
WriteLimits(s) ==
    LET q == request[s]
    IN  /\ q.op = "LIMITS"
        /\ Set(q.id)
        /\ paper' = [paper EXCEPT ![q.id].limits = q.limits]
        /\ Release(s)
        /\ UNCHANGED <<exam, subject, mark>>

\* deleteExamSchedule
DeletePaper(p) ==
    /\ Set(p)
    /\ Remove({p})
    /\ UNCHANGED <<exam, subject, request>>

---------------------------------------------------------------------------
(* Marks.                                                                  *)

\* saveMarks reads the paper first.
ReadPaper(s, p) ==
    /\ Set(p)
    /\ Enter(s, [Idle EXCEPT !.op = "MARKS", !.id = p, !.limits = paper[p].limits])
    /\ UNCHANGED dbVars

\* What an entry makes of a student's mark: absence clears it, and marks that are
\* not sent stay.
Entered(old, entry) ==
    [obtained |-> IF entry.absent THEN None
                  ELSE IF entry.sent THEN entry.marks ELSE old.obtained,
     absent |-> entry.absent]

Entry == [absent : BOOLEAN, sent : BOOLEAN, marks : Scores \cup {None}]

\* Mutant: the maximum is not looked at.
Acceptable_AnyMarks(entry, max) == TRUE

Acceptable(entry, max) ==
    ~entry.absent /\ entry.sent /\ entry.marks # None => entry.marks <= max

\* The transaction of saveMarks, for the students who are in the class; one entry
\* that is not acceptable rolls back the rest, and an empty sheet goes through.
SaveMarks(s, entries) ==
    LET q == request[s]
        saved == DOMAIN entries
    IN  /\ q.op = "MARKS"
        /\ saved # {} => Set(q.id)
        /\ \A st \in saved : Acceptable(entries[st], q.limits.max)
        /\ mark' = [mark EXCEPT ![q.id] =
                        [st \in Students |-> IF st \in saved
                                             THEN Entered(mark[q.id][st], entries[st])
                                             ELSE mark[q.id][st]]]
        /\ request' = [request EXCEPT ![s] = [Idle EXCEPT !.op = "ONGOING"]]
        /\ UNCHANGED <<exam, subject, paper>>

\* Mutant: whatever the status is.
StartExam_Always(s) ==
    /\ request[s].op = "ONGOING"
    /\ MoveOn(ExamStatuses, "ONGOING")
    /\ Release(s)
    /\ UNCHANGED <<subject, paper, mark>>

\* The last query of saveMarks.
StartExam(s) ==
    /\ request[s].op = "ONGOING"
    /\ MoveOn({"DRAFT", "SCHEDULED"}, "ONGOING")
    /\ Release(s)
    /\ UNCHANGED <<subject, paper, mark>>

---------------------------------------------------------------------------
(* Subjects.                                                               *)

\* updateSubject of isActive.
SetActive(sub, active) ==
    /\ subject[sub] # "GONE"
    /\ subject' = [subject EXCEPT ![sub] = IF active THEN "ACTIVE" ELSE "INACTIVE"]
    /\ UNCHANGED <<exam, paper, mark, request>>

\* deleteSubject counts the papers set in the subject.
ReadUse(s, sub) ==
    /\ subject[sub] # "GONE"
    /\ Enter(s, [Idle EXCEPT !.op = "REMOVE_SUBJECT", !.id = sub,
                             !.used = PapersIn(sub) # {}])
    /\ UNCHANGED dbVars

\* Mutant: nothing was counted, so nothing is there to go with the subject.
RemoveSubject_LeavesPapers(s) ==
    LET q == request[s]
    IN  /\ q.op = "REMOVE_SUBJECT"
        /\ subject[q.id] # "GONE"
        /\ subject' = [subject EXCEPT ![q.id] = IF q.used THEN "INACTIVE" ELSE "GONE"]
        /\ Release(s)
        /\ UNCHANGED <<exam, paper, mark>>

\* A subject in which none were counted is deleted, with any paper set in it
\* meanwhile; another is deactivated.
RemoveSubject(s) ==
    LET q == request[s]
    IN  /\ q.op = "REMOVE_SUBJECT"
        /\ subject[q.id] # "GONE"
        /\ \/ /\ ~q.used
              /\ subject' = [subject EXCEPT ![q.id] = "GONE"]
              /\ Remove(PapersIn(q.id))
           \/ /\ q.used
              /\ subject' = [subject EXCEPT ![q.id] = "INACTIVE"]
              /\ UNCHANGED <<paper, mark>>
        /\ Release(s)
        /\ UNCHANGED exam

\* A query fails, or the server stops: what was committed before stays.
Fail(s) ==
    /\ request[s] # Idle
    /\ Release(s)
    /\ UNCHANGED dbVars

---------------------------------------------------------------------------

Administer ==
    \/ DeleteExam
    \/ \E p \in Papers : DeletePaper(p)
    \/ \E sub \in Subjects, active \in BOOLEAN : SetActive(sub, active)

Read(s) ==
    \/ \E dates \in Dates, fields \in SUBSET {"start", "end"} : ReadExam(s, dates, fields)
    \/ \E sub \in Subjects :
        \/ \E limits \in Limits : ReadSubject(s, sub, limits)
        \/ ReadUse(s, sub)
    \/ \E p \in Papers :
        \/ \E limits \in Limits : ReadLimits(s, p, limits)
        \/ ReadPaper(s, p)

WriteBack(s) ==
    \/ \E status \in Settable \cup {None} : WriteExam(s, status)
    \/ \E p \in Papers : AddPaper(s, p)
    \/ Schedule(s)
    \/ WriteLimits(s)
    \/ \E saved \in SUBSET Students : \E entries \in [saved -> Entry] : SaveMarks(s, entries)
    \/ StartExam(s)
    \/ RemoveSubject(s)

Next ==
    \/ Administer
    \/ \E s \in Slots : Read(s) \/ WriteBack(s) \/ Fail(s)

Spec == Init /\ [][Next]_vars

---------------------------------------------------------------------------
(* Properties.                                                             *)

\* Every column and every request in flight has its type.
TypeOK ==
    /\ exam \in [status : ExamStatuses \cup {"GONE"}, dates : Dates]
    /\ subject \in [Subjects -> {"ACTIVE", "INACTIVE", "GONE"}]
    /\ paper \in [Papers -> Paper]
    /\ mark \in [Papers -> [Students -> Mark]]
    /\ request \in [Slots -> Request]

\* However changes of the maximum and of the pass marks interleave, a paper can be
\* passed.
PassWithinMax ==
    \A p \in Papers : Set(p) => paper[p].limits.pass <= paper[p].limits.max

\* A student marked absent has no marks left from an earlier sheet.
AbsentUnmarked ==
    \A p \in Papers, st \in Students :
        mark[p][st].absent => mark[p][st].obtained = None

\* A completed or cancelled exam is reopened by an administrator only, not by a
\* paper or a mark that arrives late.
ClosedStaysClosed ==
    [][exam.status \in {"COMPLETED", "CANCELLED"} =>
        \/ exam'.status \in {exam.status, "GONE"}
        \/ \E s \in Slots, status \in Settable : WriteExam(s, status)]_vars

\* What the request checked its write against is still so.
Fresh(s) ==
    LET q == request[s]
    IN  /\ q.op = "UPDATE" =>
            /\ "start" \notin q.fields => q.dates.start = exam.dates.start
            /\ "end" \notin q.fields => q.dates.end = exam.dates.end
        /\ q.op = "MARKS" => q.limits = paper[q.id].limits

StaleWrite == \E s \in Slots : WriteBack(s) /\ ~Fresh(s)

\* Only an update checked against dates that have changed since puts the end of an
\* exam before its start.
DatesStayInOrder ==
    [][InOrder(exam.dates) => InOrder(exam'.dates) \/ StaleWrite]_vars

\* The marks of a student are within the maximum of the paper.
Within(p, st) ==
    mark[p][st].obtained # None => mark[p][st].obtained <= paper[p].limits.max

Lowered(p) == Set(p) /\ Set(p)' /\ paper'[p].limits.max < paper[p].limits.max

\* Marks come to exceed the maximum only when the maximum is lowered, or by a sheet
\* checked against a maximum that has changed since.
MarksStayWithin ==
    [][\A p \in Papers, st \in Students :
        Within(p, st) => Within(p, st)' \/ Lowered(p) \/ StaleWrite]_vars

\* Whatever is deleted between the queries of a request that sets a paper, saves
\* marks or counts papers, no paper outlives its exam or its subject, and no mark its
\* paper.
NothingDangles ==
    /\ \A p \in Papers : Set(p) => Exists /\ subject[paper[p].subject] # "GONE"
    /\ \A p \in Papers : ~Set(p) => mark[p] = [st \in Students |-> NoMark]

---------------------------------------------------------------------------
(* What the properties rest on.                                            *)

\* A request keeps what its handler checked, and whose rows it works on.
Checked(q) ==
    /\ q.op = "UPDATE" => q.dates # None /\ InOrder(q.dates)
    /\ q.op \in {"LIMITS", "MARKS"} => q.id \in Papers /\ q.limits # None
    /\ q.op = "SCHEDULED" /\ q.limits # None => q.id \in Subjects
    /\ q.op \in {"LIMITS", "SCHEDULED"} /\ q.limits # None =>
        q.limits.pass <= q.limits.max
    /\ q.op = "REMOVE_SUBJECT" => q.id \in Subjects

IInv ==
    /\ TypeOK
    /\ \A s \in Slots : Checked(request[s])
    /\ NothingDangles
    /\ PassWithinMax
    /\ AbsentUnmarked

=============================================================================
