---------------------------- MODULE ExamsProofs ----------------------------
(* Proofs of the properties of Exams, for any number of students, papers,  *)
(* subjects and requests in flight, and any marks and dates.               *)
EXTENDS Exams, TLAPS

---------------------------------------------------------------------------
(* What the handlers have in common.                                       *)

\* A free slot is a request, and there is nothing to check in it.
LEMMA IdleIsRequest == Idle \in Request /\ Checked(Idle)
  BY DEF Idle, Request, Checked

\* A request that takes up a slot, or goes on in it, leaves the others alone.
LEMMA SlotWritten ==
    ASSUME IInv, NEW s \in Slots, NEW q \in Request, Checked(q),
           request' = [request EXCEPT ![s] = q]
    PROVE  /\ request' \in [Slots -> Request]
           /\ \A u \in Slots : Checked(request'[u])
  BY DEF IInv, TypeOK

LEMMA SlotReleased ==
    ASSUME IInv, NEW s \in Slots, Release(s)
    PROVE  /\ request' \in [Slots -> Request]
           /\ \A u \in Slots : Checked(request'[u])
  BY IdleIsRequest, SlotWritten DEF Release

\* Reading disturbs no row.
LEMMA ReadingIsSafe ==
    ASSUME IInv, NEW s \in Slots, NEW q \in Request, Checked(q), Enter(s, q),
           UNCHANGED dbVars
    PROVE  IInv'
  <1>1. request' = [request EXCEPT ![s] = q] BY DEF Enter
  <1>2. /\ request' \in [Slots -> Request]
        /\ \A u \in Slots : Checked(request'[u])
    BY <1>1, SlotWritten
  <1> QED
    BY <1>2
    DEF IInv, TypeOK, NothingDangles, Exists, Set, PassWithinMax, AbsentUnmarked, dbVars

\* The exam row can change without the papers.
LEMMA ExamIsApart ==
    ASSUME IInv, exam' \in [status : ExamStatuses \cup {"GONE"}, dates : Dates],
           exam.status # "GONE" => exam'.status # "GONE",
           request' \in [Slots -> Request],
           \A u \in Slots : Checked(request'[u]),
           UNCHANGED <<subject, paper, mark>>
    PROVE  IInv'
  BY DEF IInv, TypeOK, NothingDangles, Exists, Set, PassWithinMax, AbsentUnmarked

\* Moving the exam on keeps its type.
LEMMA MovedOn ==
    ASSUME IInv, NEW from, NEW status \in ExamStatuses, MoveOn(from, status)
    PROVE  /\ exam' \in [status : ExamStatuses \cup {"GONE"}, dates : Dates]
           /\ exam.status # "GONE" => exam'.status # "GONE"
  BY DEF IInv, TypeOK, MoveOn, ExamStatuses

\* Papers are removed with their marks, and leave nothing behind.
LEMMA Removed ==
    ASSUME IInv, NEW ps \in SUBSET Papers, Remove(ps)
    PROVE  /\ paper' \in [Papers -> Paper]
           /\ mark' \in [Papers -> [Students -> Mark]]
           /\ \A p \in Papers : Set(p)' <=> Set(p) /\ p \notin ps
           /\ \A p \in Papers \ ps : paper'[p] = paper[p] /\ mark'[p] = mark[p]
           /\ \A p \in ps : mark'[p] = [st \in Students |-> NoMark]
           /\ PassWithinMax' /\ AbsentUnmarked'
           /\ \A p \in Papers : ~Set(p)' => mark'[p] = [st \in Students |-> NoMark]
  <1>1. Deleted \in Paper /\ ~(Deleted.state = "SET") BY DEF Deleted, Unused, Paper
  <1>2. NoMark \in Mark /\ NoMark.obtained = None /\ NoMark.absent = FALSE
    BY DEF NoMark, Mark
  <1>3. /\ \A p \in Papers \ ps : paper'[p] = paper[p] /\ mark'[p] = mark[p]
        /\ \A p \in ps : paper'[p] = Deleted /\ mark'[p] = [st \in Students |-> NoMark]
    BY DEF Remove, IInv, TypeOK
  <1>4. paper' \in [Papers -> Paper] BY <1>1 DEF Remove, IInv, TypeOK
  <1>5. mark' \in [Papers -> [Students -> Mark]] BY <1>2 DEF Remove, IInv, TypeOK
  <1>6. \A p \in Papers : Set(p)' <=> Set(p) /\ p \notin ps BY <1>1, <1>3 DEF Set
  <1>7. PassWithinMax' BY <1>3, <1>6 DEF IInv, PassWithinMax
  <1>8. AbsentUnmarked' BY <1>2, <1>3 DEF IInv, AbsentUnmarked
  <1>9. \A p \in Papers : ~Set(p)' => mark'[p] = [st \in Students |-> NoMark]
    BY <1>3, <1>6 DEF IInv, NothingDangles
  <1> QED BY <1>3, <1>4, <1>5, <1>6, <1>7, <1>8, <1>9

\* Whatever is entered, an absent student is left without marks.
LEMMA EnteredTyped ==
    ASSUME NEW old \in Mark, NEW entry \in Entry,
           old.absent => old.obtained = None
    PROVE  /\ Entered(old, entry) \in Mark
           /\ Entered(old, entry).absent => Entered(old, entry).obtained = None
  BY DEF Entered, Entry, Mark

---------------------------------------------------------------------------
(* The inductive invariant.                                                *)

LEMMA InitHolds == Init => IInv
  <1> SUFFICES ASSUME Init PROVE IInv OBVIOUS
  <1>1. exam \in [status : ExamStatuses \cup {"GONE"}, dates : Dates]
    BY DEF Init, ExamStatuses
  <1>2. subject \in [Subjects -> {"ACTIVE", "INACTIVE", "GONE"}] BY DEF Init
  <1>3. paper \in [Papers -> Paper] /\ \A p \in Papers : ~Set(p)
    BY DEF Init, Paper, Unused, Set
  <1>4. mark \in [Papers -> [Students -> Mark]] BY DEF Init, Mark, NoMark
  <1>5. request \in [Slots -> Request] /\ \A s \in Slots : Checked(request[s])
    BY IdleIsRequest DEF Init
  <1>6. NothingDangles BY <1>3 DEF Init, NothingDangles
  <1>7. PassWithinMax BY <1>3 DEF PassWithinMax
  <1>8. AbsentUnmarked BY DEF Init, AbsentUnmarked, NoMark
  <1> QED BY <1>1, <1>2, <1>3, <1>4, <1>5, <1>6, <1>7, <1>8 DEF IInv, TypeOK

\* What a handler reads is what it then keeps to.
LEMMA ReadKeepsInv == ASSUME IInv, NEW s \in Slots, Read(s) PROVE IInv'
  <1>1. ASSUME NEW dates \in Dates, NEW fields \in SUBSET {"start", "end"},
               ReadExam(s, dates, fields)
        PROVE  IInv'
    <2> DEFINE q == [Idle EXCEPT !.op = "UPDATE", !.dates = dates, !.fields = fields]
    <2>1. q \in Request BY IdleIsRequest DEF Request
    <2>2. dates # None BY NoneAssumption
    <2>3. Checked(q) BY <1>1, <2>2 DEF ReadExam, Checked, Idle
    <2> QED BY <1>1, <2>1, <2>3, ReadingIsSafe DEF ReadExam
  <1>2. ASSUME NEW sub \in Subjects, NEW limits \in Limits, ReadSubject(s, sub, limits)
        PROVE  IInv'
    <2> DEFINE q == [Idle EXCEPT !.op = "SCHEDULED", !.id = sub, !.limits = limits]
    <2>1. q \in Request BY IdleIsRequest DEF Request
    <2>2. Checked(q) BY <1>2 DEF ReadSubject, Checked, Idle
    <2> QED BY <1>2, <2>1, <2>2, ReadingIsSafe DEF ReadSubject
  <1>3. ASSUME NEW sub \in Subjects, ReadUse(s, sub) PROVE IInv'
    <2> DEFINE q == [Idle EXCEPT !.op = "REMOVE_SUBJECT", !.id = sub,
                                 !.used = PapersIn(sub) # {}]
    <2>1. q \in Request
      <3>1. (PapersIn(sub) # {}) \in BOOLEAN OBVIOUS
      <3> QED BY <3>1, IdleIsRequest DEF Request
    <2>2. Checked(q) BY DEF Checked, Idle
    <2> QED BY <1>3, <2>1, <2>2, ReadingIsSafe DEF ReadUse
  <1>4. ASSUME NEW p \in Papers, NEW limits \in Limits, ReadLimits(s, p, limits)
        PROVE  IInv'
    <2> DEFINE q == [Idle EXCEPT !.op = "LIMITS", !.id = p, !.limits = limits]
    <2>1. q \in Request BY IdleIsRequest DEF Request
    <2>2. limits # None BY NoneAssumption
    <2>3. Checked(q) BY <1>4, <2>2 DEF ReadLimits, Checked, Idle
    <2> QED BY <1>4, <2>1, <2>3, ReadingIsSafe DEF ReadLimits
  <1>5. ASSUME NEW p \in Papers, ReadPaper(s, p) PROVE IInv'
    <2> DEFINE q == [Idle EXCEPT !.op = "MARKS", !.id = p, !.limits = paper[p].limits]
    <2>1. paper[p].limits \in Limits
      BY <1>5 DEF ReadPaper, Set, IInv, TypeOK, Paper, Unused, Deleted
    <2>2. q \in Request BY <2>1, IdleIsRequest DEF Request
    <2>3. paper[p].limits # None BY <2>1, NoneAssumption
    <2>4. Checked(q) BY <2>3 DEF Checked, Idle
    <2> QED BY <1>5, <2>2, <2>4, ReadingIsSafe DEF ReadPaper
  <1> QED BY <1>1, <1>2, <1>3, <1>4, <1>5 DEF Read

\* What is written keeps to it, whatever was written in between.
LEMMA WriteKeepsInv == ASSUME IInv, NEW s \in Slots, WriteBack(s) PROVE IInv'
  <1> DEFINE q == request[s]
  <1>0. q \in Request /\ Checked(q) BY DEF IInv, TypeOK
  <1>1. ASSUME NEW status \in Settable \cup {None}, WriteExam(s, status) PROVE IInv'
    <2>1. q.dates \in Dates BY <1>0, <1>1 DEF WriteExam, Checked, Request
    <2>2. exam' \in [status : ExamStatuses \cup {"GONE"}, dates : Dates]
      BY <1>1, <2>1, SettableAssumption DEF WriteExam, IInv, TypeOK, Dates
    <2>3. exam'.status # "GONE"
      <3>1. status # None => status # "GONE"
        BY SettableAssumption DEF ExamStatuses
      <3> QED BY <1>1, <3>1 DEF WriteExam, Exists
    <2> QED BY <1>1, <2>2, <2>3, SlotReleased, ExamIsApart DEF WriteExam
  <1>2. ASSUME NEW p \in Papers, AddPaper(s, p) PROVE IInv'
    <2> DEFINE row == [state |-> "SET", subject |-> q.id, limits |-> q.limits]
    <2>1. q.id \in Subjects /\ q.limits \in Limits /\ q.limits.pass <= q.limits.max
      BY <1>0, <1>2 DEF AddPaper, Checked, Request
    <2>2. row \in Paper BY <2>1 DEF Paper
    <2>3. paper' = [paper EXCEPT ![p] = row] BY <1>2 DEF AddPaper
    <2> DEFINE r == [Idle EXCEPT !.op = "SCHEDULED"]
    <2>4. r \in Request /\ Checked(r)
      BY IdleIsRequest DEF Idle, Request, Checked
    <2>5. /\ request' \in [Slots -> Request]
          /\ \A u \in Slots : Checked(request'[u])
      BY <1>2, <2>4, SlotWritten DEF AddPaper
    <2>6. \A a \in Papers : Set(a)' <=> Set(a) \/ a = p
      BY <2>3 DEF Set, IInv, TypeOK
    <2>7. /\ \A a \in Papers \ {p} : paper'[a] = paper[a]
          /\ paper'[p].subject = q.id
      BY <2>3 DEF IInv, TypeOK
    <2>8. NothingDangles'
      BY <1>2, <2>6, <2>7 DEF AddPaper, NothingDangles, Exists, IInv
    <2>9. PassWithinMax' BY <2>1, <2>3, <2>6 DEF PassWithinMax, IInv, TypeOK
    <2>10. AbsentUnmarked' BY <1>2 DEF AddPaper, AbsentUnmarked, IInv
    <2> QED BY <1>2, <2>2, <2>3, <2>5, <2>8, <2>9, <2>10 DEF AddPaper, IInv, TypeOK
  <1>3. CASE Schedule(s)
    <2>1. "SCHEDULED" \in ExamStatuses BY DEF ExamStatuses
    <2> QED BY <1>3, <2>1, MovedOn, SlotReleased, ExamIsApart DEF Schedule
  <1>4. CASE WriteLimits(s)
    <2>1. q.id \in Papers /\ q.limits \in Limits /\ q.limits.pass <= q.limits.max
      BY <1>0, <1>4 DEF WriteLimits, Checked, Request
    <2>2. paper[q.id] \in [state : {"SET"}, subject : Subjects, limits : Limits]
      BY <1>4, <2>1 DEF WriteLimits, Set, IInv, TypeOK, Paper, Unused, Deleted
    <2>3. paper' = [paper EXCEPT ![q.id].limits = q.limits] BY <1>4 DEF WriteLimits
    <2>4. /\ paper' \in [Papers -> Paper]
          /\ \A p \in Papers : /\ paper'[p].state = paper[p].state
                               /\ paper'[p].subject = paper[p].subject
                               /\ p # q.id => paper'[p] = paper[p]
          /\ paper'[q.id].limits = q.limits
      BY <2>1, <2>2, <2>3 DEF Paper, IInv, TypeOK
    <2>5. \A p \in Papers : Set(p)' <=> Set(p) BY <2>4 DEF Set
    <2>6. NothingDangles'
      BY <1>4, <2>4, <2>5 DEF WriteLimits, NothingDangles, Exists, IInv
    <2>7. PassWithinMax' BY <2>1, <2>4, <2>5 DEF PassWithinMax, IInv
    <2>8. AbsentUnmarked' BY <1>4 DEF WriteLimits, AbsentUnmarked, IInv
    <2> QED BY <1>4, <2>4, <2>6, <2>7, <2>8, SlotReleased DEF WriteLimits, IInv, TypeOK
  <1>5. ASSUME NEW saved \in SUBSET Students, NEW entries \in [saved -> Entry],
               SaveMarks(s, entries)
        PROVE  IInv'
    <2>1. q.id \in Papers BY <1>0, <1>5 DEF SaveMarks, Checked
    <2> DEFINE sheet == [st \in Students |-> IF st \in saved
                                             THEN Entered(mark[q.id][st], entries[st])
                                             ELSE mark[q.id][st]]
    <2>2. \A st \in Students : /\ sheet[st] \in Mark
                               /\ sheet[st].absent => sheet[st].obtained = None
      BY <2>1, EnteredTyped DEF IInv, TypeOK, AbsentUnmarked
    <2>3. mark' = [mark EXCEPT ![q.id] = sheet] BY <1>5 DEF SaveMarks
    <2>4. sheet \in [Students -> Mark] BY <2>2
    <2>5. ~Set(q.id) => sheet = mark[q.id]
      <3>1. ~Set(q.id) => saved = {} BY <1>5 DEF SaveMarks
      <3>2. mark[q.id] \in [Students -> Mark] BY <2>1 DEF IInv, TypeOK
      <3> QED BY <3>1, <3>2
    <2> HIDE DEF sheet
    <2>6. mark' \in [Papers -> [Students -> Mark]] BY <2>3, <2>4 DEF IInv, TypeOK
    <2>7. AbsentUnmarked' BY <2>2, <2>3 DEF AbsentUnmarked, IInv, TypeOK
    <2>8. \A p \in Papers : ~Set(p) => mark'[p] = mark[p]
      BY <2>3, <2>5 DEF IInv, TypeOK
    <2>9. NothingDangles'
      BY <1>5, <2>8 DEF SaveMarks, NothingDangles, Exists, Set, IInv
    <2>10. PassWithinMax' BY <1>5 DEF SaveMarks, PassWithinMax, Set, IInv
    <2> DEFINE r == [Idle EXCEPT !.op = "ONGOING"]
    <2>11. r \in Request /\ Checked(r)
      BY IdleIsRequest DEF Idle, Request, Checked
    <2>12. /\ request' \in [Slots -> Request]
           /\ \A u \in Slots : Checked(request'[u])
      BY <1>5, <2>11, SlotWritten DEF SaveMarks
    <2> QED BY <1>5, <2>6, <2>7, <2>9, <2>10, <2>12 DEF SaveMarks, IInv, TypeOK
  <1>6. CASE StartExam(s)
    <2>1. "ONGOING" \in ExamStatuses BY DEF ExamStatuses
    <2> QED BY <1>6, <2>1, MovedOn, SlotReleased, ExamIsApart DEF StartExam
  <1>7. CASE RemoveSubject(s)
    <2>1. q.id \in Subjects BY <1>0, <1>7 DEF RemoveSubject, Checked
    <2>2. subject' \in [Subjects -> {"ACTIVE", "INACTIVE", "GONE"}]
      BY <1>7 DEF RemoveSubject, IInv, TypeOK
    <2>3. CASE ~q.used
      <3>1. subject' = [subject EXCEPT ![q.id] = "GONE"] /\ Remove(PapersIn(q.id))
        BY <1>7, <2>3 DEF RemoveSubject
      <3>2. PapersIn(q.id) \in SUBSET Papers BY DEF PapersIn
      <3>3. NothingDangles'
        <4>1. /\ \A p \in Papers : Set(p)' <=> Set(p) /\ p \notin PapersIn(q.id)
              /\ \A p \in Papers \ PapersIn(q.id) : paper'[p] = paper[p]
              /\ \A p \in Papers : ~Set(p)' => mark'[p] = [st \in Students |-> NoMark]
          BY <3>1, <3>2, Removed
        <4>2. \A p \in Papers : Set(p)' => paper[p].subject # q.id
          BY <4>1 DEF PapersIn
        <4>3. \A p \in Papers : Set(p)' => subject'[paper'[p].subject] # "GONE"
          <5> SUFFICES ASSUME NEW p \in Papers, Set(p)'
                       PROVE  subject'[paper'[p].subject] # "GONE"
            OBVIOUS
          <5>1. Set(p) /\ paper'[p] = paper[p] /\ paper[p].subject # q.id
            BY <4>1, <4>2
          <5>2. paper[p].subject \in Subjects /\ subject[paper[p].subject] # "GONE"
            BY <5>1 DEF IInv, TypeOK, NothingDangles, Paper, Set, Unused, Deleted
          <5> QED BY <3>1, <5>1, <5>2 DEF IInv, TypeOK
        <4>4. Exists' <=> Exists BY <1>7 DEF RemoveSubject, Exists
        <4> QED BY <4>1, <4>3, <4>4 DEF NothingDangles, IInv
      <3> QED BY <1>7, <2>2, <3>1, <3>2, <3>3, Removed, SlotReleased
              DEF RemoveSubject, IInv, TypeOK
    <2>4. CASE q.used
      <3>1. /\ subject' = [subject EXCEPT ![q.id] = "INACTIVE"]
            /\ UNCHANGED <<paper, mark, exam>>
        BY <1>7, <2>4 DEF RemoveSubject
      <3>2. NothingDangles' BY <3>1 DEF NothingDangles, Exists, Set, IInv, TypeOK
      <3> QED BY <1>7, <2>2, <3>1, <3>2, SlotReleased
              DEF RemoveSubject, IInv, TypeOK, PassWithinMax, AbsentUnmarked, Set
    <2> QED BY <2>3, <2>4
  <1> QED BY <1>1, <1>2, <1>3, <1>4, <1>5, <1>6, <1>7 DEF WriteBack

\* So does what an administrator does in one query.
LEMMA AdministeringKeepsInv == ASSUME IInv, Administer PROVE IInv'
  <1>1. CASE DeleteExam
    <2>1. {p \in Papers : Set(p)} \in SUBSET Papers OBVIOUS
    <2>2. exam' \in [status : ExamStatuses \cup {"GONE"}, dates : Dates]
      BY <1>1 DEF DeleteExam, IInv, TypeOK
    <2>3. NothingDangles' BY <1>1, <2>1, Removed DEF DeleteExam, NothingDangles, IInv
    <2> QED BY <1>1, <2>1, <2>2, <2>3, Removed DEF DeleteExam, IInv, TypeOK
  <1>2. ASSUME NEW p \in Papers, DeletePaper(p) PROVE IInv'
    <2>1. {p} \in SUBSET Papers OBVIOUS
    <2>2. NothingDangles' BY <1>2, <2>1, Removed DEF DeletePaper, NothingDangles, Exists, IInv
    <2> QED BY <1>2, <2>1, <2>2, Removed DEF DeletePaper, IInv, TypeOK
  <1>3. ASSUME NEW sub \in Subjects, NEW active \in BOOLEAN, SetActive(sub, active)
        PROVE  IInv'
    <2>1. NothingDangles'
      BY <1>3 DEF SetActive, NothingDangles, Exists, Set, IInv, TypeOK
    <2> QED BY <1>3, <2>1
            DEF SetActive, IInv, TypeOK, PassWithinMax, AbsentUnmarked, Set
  <1> QED BY <1>1, <1>2, <1>3 DEF Administer

LEMMA StepKeepsInv == IInv /\ [Next]_vars => IInv'
  <1> SUFFICES ASSUME IInv, [Next]_vars PROVE IInv' OBVIOUS
  <1>1. ASSUME NEW s \in Slots, Fail(s) PROVE IInv'
    <2>1. Idle \in Request /\ Checked(Idle) BY IdleIsRequest
    <2>2. /\ request' \in [Slots -> Request]
          /\ \A u \in Slots : Checked(request'[u])
      BY <1>1, SlotReleased DEF Fail
    <2> QED BY <1>1, <2>2, ExamIsApart DEF Fail, dbVars, IInv, TypeOK
  <1>2. CASE UNCHANGED vars
    BY <1>2 DEF vars, IInv, TypeOK, NothingDangles, Exists, Set, PassWithinMax,
                AbsentUnmarked
  <1> QED
    BY <1>1, <1>2, ReadKeepsInv, WriteKeepsInv, AdministeringKeepsInv DEF Next

\* The invariant holds throughout.
THEOREM Invariance == Spec => []IInv
  BY InitHolds, StepKeepsInv, PTL DEF Spec

---------------------------------------------------------------------------
(* Safety.                                                                 *)

\* Columns and requests in flight have their types: in particular nothing is written
\* to a paper that is gone.
THEOREM TypeCorrect == Spec => []TypeOK
  <1>1. IInv => TypeOK BY DEF IInv
  <1> QED BY <1>1, Invariance, PTL

\* However updates of the two limits of a paper interleave, the pass marks stay
\* within the maximum.
THEOREM PaperCanBePassed == Spec => []PassWithinMax
  <1>1. IInv => PassWithinMax BY DEF IInv
  <1> QED BY <1>1, Invariance, PTL

\* However mark sheets interleave, an absent student has no marks.
THEOREM AbsentHasNoMarks == Spec => []AbsentUnmarked
  <1>1. IInv => AbsentUnmarked BY DEF IInv
  <1> QED BY <1>1, Invariance, PTL

\* The requests that touch the exam row, as far as they touch it.
LEMMA ExamSteps ==
    ASSUME IInv, Next
    PROVE  \/ exam' = exam
           \/ exam'.status = "GONE" /\ exam'.dates = exam.dates
           \/ exam.status \notin {"COMPLETED", "CANCELLED"} /\ exam'.dates = exam.dates
           \/ \E s \in Slots, status \in Settable \cup {None} : WriteExam(s, status)
  <1>0. exam \in [status : ExamStatuses \cup {"GONE"}, dates : Dates] BY DEF IInv, TypeOK
  <1>1. ASSUME Administer
        PROVE  exam' = exam \/ (exam'.status = "GONE" /\ exam'.dates = exam.dates)
    BY <1>0, <1>1 DEF Administer, DeleteExam, DeletePaper, SetActive
  <1>2. ASSUME NEW s \in Slots, Read(s) PROVE exam' = exam
    BY <1>2 DEF Read, ReadExam, ReadSubject, ReadUse, ReadLimits, ReadPaper, dbVars
  <1>3. ASSUME NEW s \in Slots, WriteBack(s),
               ~ \E status \in Settable \cup {None} : WriteExam(s, status)
        PROVE  \/ exam' = exam
               \/ exam.status \notin {"COMPLETED", "CANCELLED"} /\ exam'.dates = exam.dates
    <2>1. CASE \E p \in Papers : AddPaper(s, p) BY <2>1 DEF AddPaper
    <2>2. CASE Schedule(s) BY <1>0, <2>2 DEF Schedule, MoveOn
    <2>3. CASE WriteLimits(s) BY <2>3 DEF WriteLimits
    <2>4. CASE \E saved \in SUBSET Students : \E entries \in [saved -> Entry] :
                  SaveMarks(s, entries)
      BY <2>4 DEF SaveMarks
    <2>5. CASE StartExam(s) BY <1>0, <2>5 DEF StartExam, MoveOn
    <2>6. CASE RemoveSubject(s) BY <2>6 DEF RemoveSubject
    <2> QED BY <1>3, <2>1, <2>2, <2>3, <2>4, <2>5, <2>6 DEF WriteBack
  <1>4. ASSUME NEW s \in Slots, Fail(s) PROVE exam' = exam BY <1>4 DEF Fail, dbVars
  <1> QED BY <1>1, <1>2, <1>3, <1>4 DEF Next

\* No paper and no mark that arrives late reopens an exam.
THEOREM ClosedIsClosed == Spec => ClosedStaysClosed
  <1> DEFINE A == exam.status \in {"COMPLETED", "CANCELLED"} =>
                    \/ exam'.status \in {exam.status, "GONE"}
                    \/ \E s \in Slots, status \in Settable : WriteExam(s, status)
  <1>1. IInv /\ [Next]_vars => [A]_vars
    <2> SUFFICES ASSUME IInv, Next PROVE A BY DEF vars
    <2>1. ASSUME NEW s \in Slots, WriteExam(s, None) PROVE exam'.status = exam.status
      BY <2>1 DEF WriteExam
    <2> QED BY <2>1, ExamSteps
  <1> QED BY <1>1, Invariance, PTL DEF Spec, ClosedStaysClosed

\* An update whose dates are still those it was checked with leaves them in order.
LEMMA FreshUpdateInOrder ==
    ASSUME IInv, NEW s \in Slots, NEW status, WriteExam(s, status), Fresh(s)
    PROVE  InOrder(exam'.dates)
  <1> DEFINE q == request[s]
  <1>0. q \in Request /\ Checked(q) BY DEF IInv, TypeOK
  <1>1. q.dates \in Dates /\ InOrder(q.dates)
    BY <1>0 DEF WriteExam, Checked, Request
  <1>2. exam'.dates = [start |-> q.dates.start, end |-> q.dates.end]
    BY DEF WriteExam, Fresh
  <1> QED BY <1>1, <1>2 DEF InOrder

\* The dates get out of order only by an update checked against others.
THEOREM DatesInOrder == Spec => DatesStayInOrder
  <1> DEFINE A == InOrder(exam.dates) => InOrder(exam'.dates) \/ StaleWrite
  <1>1. IInv /\ [Next]_vars => [A]_vars
    <2> SUFFICES ASSUME IInv, Next PROVE A BY DEF vars
    <2>1. ASSUME NEW s \in Slots, NEW status \in Settable \cup {None},
                 WriteExam(s, status)
          PROVE  A
      <3>1. CASE Fresh(s) BY <2>1, <3>1, FreshUpdateInOrder
      <3>2. CASE ~Fresh(s) BY <2>1, <3>2 DEF StaleWrite, WriteBack
      <3> QED BY <3>1, <3>2
    <2>2. CASE exam'.dates = exam.dates BY <2>2
    <2> QED BY <2>1, <2>2, ExamSteps
  <1> QED BY <1>1, Invariance, PTL DEF Spec, DatesStayInOrder

\* Nothing outlives what it belongs to, whatever a late request brings.
THEOREM NothingIsLeftDangling == Spec => []NothingDangles
  <1>1. IInv => NothingDangles BY DEF IInv
  <1> QED BY <1>1, Invariance, PTL

\* A sheet is within the maximum it was checked against.
LEMMA FreshSheetWithin ==
    ASSUME IInv, NEW s \in Slots, NEW saved \in SUBSET Students,
           NEW entries \in [saved -> Entry], SaveMarks(s, entries), Fresh(s),
           NEW p \in Papers, NEW st \in Students, Within(p, st)
    PROVE  Within(p, st)'
  <1> DEFINE q == request[s]
  <1>0. q \in Request /\ Checked(q) BY DEF IInv, TypeOK
  <1>1. q.id \in Papers /\ q.op = "MARKS" BY <1>0 DEF SaveMarks, Checked
  <1>2. paper' = paper /\ q.limits = paper[q.id].limits BY <1>1 DEF SaveMarks, Fresh
  <1>3. CASE p = q.id /\ st \in saved
    <2> DEFINE new == Entered(mark[p][st], entries[st])
    <2>1. mark'[p][st] = new BY <1>1, <1>3 DEF SaveMarks, IInv, TypeOK
    <2>2. Acceptable(entries[st], paper[p].limits.max) BY <1>2, <1>3 DEF SaveMarks
    <2>3. new.obtained # None => new.obtained <= paper[p].limits.max
      BY <2>2, <1>3 DEF Entered, Acceptable, Within
    <2> HIDE DEF new
    <2> QED BY <1>2, <2>1, <2>3 DEF Within
  <1>4. CASE ~(p = q.id /\ st \in saved)
    <2>1. mark'[p][st] = mark[p][st] BY <1>1, <1>4 DEF SaveMarks, IInv, TypeOK
    <2> QED BY <1>2, <2>1 DEF Within
  <1> QED BY <1>3, <1>4

\* Marks are over the maximum only after the maximum was lowered, or the sheet was
\* checked against another.
THEOREM MarksAreWithin == Spec => MarksStayWithin
  <1> DEFINE A == \A p \in Papers, st \in Students :
                    Within(p, st) => Within(p, st)' \/ Lowered(p) \/ StaleWrite
  <1>1. IInv /\ [Next]_vars => [A]_vars
    <2> SUFFICES ASSUME IInv, Next, NEW p \in Papers, NEW st \in Students, Within(p, st)
                 PROVE  Within(p, st)' \/ Lowered(p) \/ StaleWrite
      BY DEF vars
    <2>1. ASSUME paper'[p] = paper[p], mark'[p] = mark[p] PROVE Within(p, st)'
      BY <2>1 DEF Within
    <2>2. ASSUME mark'[p] = [u \in Students |-> NoMark] PROVE Within(p, st)'
      BY <2>2 DEF Within, NoMark
    <2>3. ASSUME NEW ps \in SUBSET Papers, Remove(ps) PROVE Within(p, st)'
      BY <2>1, <2>2, <2>3, Removed
    <2>4. CASE Administer
      <3>1. {a \in Papers : Set(a)} \in SUBSET Papers
            /\ \A a \in Papers : {a} \in SUBSET Papers
        OBVIOUS
      <3> QED BY <2>1, <2>3, <2>4, <3>1 DEF Administer, DeleteExam, DeletePaper, SetActive
    <2>5. ASSUME NEW s \in Slots, Read(s) \/ Fail(s) PROVE Within(p, st)'
      BY <2>1, <2>5
         DEF Read, ReadExam, ReadSubject, ReadUse, ReadLimits, ReadPaper, Fail, dbVars
    <2>6. ASSUME NEW s \in Slots, WriteBack(s)
          PROVE  Within(p, st)' \/ Lowered(p) \/ StaleWrite
      <3> DEFINE q == request[s]
      <3>0. q \in Request /\ Checked(q) BY DEF IInv, TypeOK
      <3>1. ASSUME NEW a \in Papers, AddPaper(s, a) PROVE Within(p, st)'
        <4>1. CASE a = p
          <5>1. mark'[p] = [u \in Students |-> NoMark]
            BY <3>1, <4>1 DEF AddPaper, Unused, Set, IInv, NothingDangles
          <5> QED BY <2>2, <5>1
        <4>2. CASE a # p BY <2>1, <3>1, <4>2 DEF AddPaper, IInv, TypeOK
        <4> QED BY <4>1, <4>2
      <3>2. CASE WriteLimits(s)
        <4>1. q.id \in Papers /\ q.limits \in Limits BY <3>0, <3>2 DEF WriteLimits, Checked, Request
        <4>2. CASE q.id = p
          <5>1. paper[p] \in [state : {"SET"}, subject : Subjects, limits : Limits]
            BY <3>2, <4>2 DEF WriteLimits, Set, IInv, TypeOK, Paper, Unused, Deleted
          <5> DEFINE new == [paper[p] EXCEPT !.limits = q.limits]
          <5>2. paper'[p] = new BY <3>2, <4>2 DEF WriteLimits, IInv, TypeOK
          <5>3. new.state = "SET" /\ new.limits = q.limits BY <5>1
          <5> HIDE DEF new
          <5>4. /\ Set(p) /\ Set(p)' /\ paper'[p].limits = q.limits
                /\ paper[p].limits \in Limits /\ mark' = mark
            BY <3>2, <5>1, <5>2, <5>3 DEF WriteLimits, Set
          <5>5. /\ q.limits.max \in Nat /\ paper[p].limits.max \in Nat
                /\ mark[p][st].obtained \in Nat \cup {None}
            <6>1. mark[p][st] \in Mark BY DEF IInv, TypeOK
            <6>2. mark[p][st].obtained \in Nat \cup {None}
              BY <6>1, ScoresAssumption DEF Mark
            <6> QED BY <4>1, <5>4, <6>2, ScoresAssumption DEF Limits
          <5>6. CASE q.limits.max < paper[p].limits.max BY <5>4, <5>6 DEF Lowered
          <5>7. CASE paper[p].limits.max <= q.limits.max
            BY <5>4, <5>5, <5>7 DEF Within
          <5> QED BY <5>5, <5>6, <5>7
        <4>3. CASE q.id # p BY <2>1, <3>2, <4>1, <4>3 DEF WriteLimits, IInv, TypeOK
        <4> QED BY <4>2, <4>3
      <3>3. ASSUME NEW saved \in SUBSET Students, NEW entries \in [saved -> Entry],
                   SaveMarks(s, entries)
            PROVE  Within(p, st)' \/ StaleWrite
        BY <2>6, <3>3, FreshSheetWithin DEF StaleWrite
      <3>4. CASE RemoveSubject(s)
        <4>1. PapersIn(q.id) \in SUBSET Papers BY DEF PapersIn
        <4> QED BY <2>1, <2>3, <3>4, <4>1 DEF RemoveSubject
      <3>5. CASE \/ \E status \in Settable \cup {None} : WriteExam(s, status)
                 \/ Schedule(s) \/ StartExam(s)
        BY <2>1, <3>5 DEF WriteExam, Schedule, StartExam
      <3> QED BY <2>6, <3>1, <3>2, <3>3, <3>4, <3>5 DEF WriteBack
    <2> QED BY <2>4, <2>5, <2>6 DEF Next
  <1> QED BY <1>1, Invariance, PTL DEF Spec, MarksStayWithin

=============================================================================
