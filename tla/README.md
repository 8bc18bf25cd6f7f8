# A verification project for the School SMS

TLA+ modules, TLC configurations and TLAPS proofs about the school management
system in `src/`: its back end, the message path to WhatsApp with the gateway
behind it, and the desktop shell that installs and starts everything.  Every
definition is translated from the code; `PROJECT.json` names the lines each one
stands for, the runs, the mutants that show each property can fail, the hazards
and the theorems.

1. [The system](#1-the-system)
2. [Plan](#2-plan)
3. [The fee desk: FeeRows, FeeLedger, FeeBilling](#3-the-fee-desk)
4. [Generating bills: FeeGeneration](#4-generating-bills)
5. [Enrollments and what hangs on them: Enrollment, EnrollmentChain, SchoolRecords](#5-enrollments)
6. [Exams: Exams](#6-exams)
7. [WhatsApp messages: WhatsAppMessages](#7-whatsapp-messages)
8. [The gateway: Ingress, SessionEngine, SessionCluster](#8-the-gateway)
9. [The desktop: DesktopInstall, DesktopShell](#9-the-desktop)
10. [Runs and bounds](#10-runs-and-bounds)
11. [Fairness](#11-fairness)
12. [What is proved](#12-what-is-proved)
13. [Where code and text disagree](#13-where-code-and-text-disagree)
14. [Assumptions of the model](#14-assumptions-of-the-model)
15. [Not modelled](#15-not-modelled)

Paths below are relative to `src/`; `controllers/` stands for
`backend/src/controllers/`, `gateway/` for `OpenWA/src/modules/`.

## 1. The system

An Express and Prisma API (`backend/`, TypeScript) over SQLite (the offline,
desktop build) or PostgreSQL (online), a Next.js front end (`frontend/`), an
Electron shell that installs and launches everything on one PC (`desktop/`), and
a vendored NestJS gateway to WhatsApp (`OpenWA/`).  The back end and the desktop
scripts have no tests; OpenWA has unit tests of single calls.

What makes it hard is the same everywhere.  In the back end a handler reads with
plain queries, decides, and writes in a later query or in a `$transaction`;
between the two the Node process serves other requests.  Nothing is locked, most
checks are not repeated inside the transaction, and what is left to protect the
data are the unique keys of `backend/prisma/schema.prisma`.  Prisma retries
nothing; a request that fails leaves what it committed before.  The gateway adds
long awaits over in-memory registries, timers, a queue, several processes that
share one database, and crashes; the desktop adds processes that outlive their
parent and files that are half written when the power goes.

| Component | State | Operations that change it | Hard behaviour | Correct when |
|---|---|---|---|---|
| Fee ledger and fee requests (`controllers/fees/feeBilling.controller.ts`) | FeeInvoice, FeeInvoiceItem, FeePayment, FeePaymentAllocation, `Student.advanceBalance` | generate, late fine, bulk late fines, adjust (discount or charge), waive fine, cancel, collect, void | five money columns and a status kept in step by every handler; reads outside transactions; receipt numbers; a repeated void | columns agree; paid is what payments in force allocate; advance is what they left over; no payment is lost; oldest first |
| Fee generation (same file) | which month of which student is billed under which academic year, which invoice has the one-time fees | generate for a class or school and a range of months, automatic billing of one student (admission, preview, collection) | a loop of separate queries, no transaction; errors skipped or fatal | once a month, one-time fees once, nobody passed over, nothing before admission |
| Student enrollments (`controllers/student/student.controller.ts`) | `Student.status`, `User.isActive`, StudentEnrollment | add, status, delete, promote, bulk promote, withdraw | current enrollment read before the transaction, a transaction per student in bulk | one current class, linked history, account follows status |
| Exams and marks (`controllers/exams/`) | Exam, Subject, ExamSubject, ExamMark | create, update, delete exam; schedule, change and remove papers; save marks; subjects | checks against rows read earlier; partial updates; a status moved in a query of its own | limits and dates consistent, marks within the maximum, a closed exam stays closed |
| WhatsApp messaging (`controllers/whatsapp/`, `services/whatsapp/`) | WhatsAppMessage log, OpenWA session id and gateway of the school | send one, announce to many, connect, disconnect, reconnect, reset, change the gateway | a remote service in between: lost answers, late answers, sent but logged as failed, pending after a crash; sessions created twice | the log says what was sent; the report adds up; every request ends |
| OpenWA webhook ingress (`gateway/integration/`, `gateway/queue/`) | `ingress_events`, BullMQ jobs, dead-letter rows, instances | receive, dispatch, retry, replay, dead-letter, redrive | four writers over two tables and a queue, writes that fail, crashes | an acknowledged event is never lost, replayed once on the queue path, settled in the end |
| OpenWA session engines (`gateway/session/`) | engine registry, stop marks, start reservations, reconnect timers, credential fence, session row | start, reconnect, stop, logout, force-kill, delete, orphan teardown, engine events | every await lets another call in | no engine outside the registry; what was stopped stays down; no start on credentials being removed |
| OpenWA session ownership and bulk batches (`gateway/session/session-ownership.service.ts`, `gateway/takeover/`, `gateway/message/bulk-message.service.ts`) | node and lease of the session row, batch row, drains in memory | claim, renew, lose, adopt, release, boot; create, drain, cancel, reap a batch | processes that are late, crash and come back; reads saved over later writes | one engine per lease; batches of live peers spared; a cancel is final; an orphan is adopted |
| Desktop launcher (`desktop/electron/main.mjs`, `desktop/scripts/launch-services.mjs`, `stop-services.mjs`) | child processes, PID file, ports | start, retry, close, stop | a crash between spawn and PID file, ports taken, services that never come up | the stop script finds every service it has to; a start is answered |
| Desktop bundle (`desktop/electron/main.mjs`, `build/installer.nsh`) | unpacked application, marker, sessions folder, the copy aside, the bridge's database | install, unpack, verify, remove, restore | closed or without power half way; three tools that fail in their own ways | sessions survive an unpacking, the database goes only with an application that cannot be completed |
| Fee structures and particulars (`controllers/fees/fees.controller.ts`, `resolveStudentCharges`) | FeeParticular, FeeStructure by scope | create, update, copy, delete; resolving a bill from student, class and school scope | overriding scopes | the narrowest scope wins |
| Parents and families (`student.controller.ts`) | Parent, StudentParent | link, unlink | remaining parents counted outside the delete | a student keeps a parent |
| Classes and sections (`controllers/classes/`) | Class, Section | create, update, delete | deletion checks read before the delete; cascades | no class disappears with its history; a class keeps a section |
| Attendance (`controllers/attendance/`) | sheets and their entries | save a sheet | enrolled students read before the transaction that replaces the entries | entries only of enrolled students; no attendance is lost |
| Employees, school, users, login, uploads, reports, dashboard | single rows, files, none | single-row reads and writes, aggregation | nothing of their own | - |
| Front end; the rest of OpenWA (engine adapters, plugins, outgoing webhooks, automation, templates, media, dashboard, SDKs) | pages; outside libraries | - | - | - |

How they interact: AddStudent registers a student and then starts automatic
billing; preview and collection start it too; a promotion or withdrawal decides
whether there is a current enrollment, which collection, generation, marks and
attendance look up; deactivating an account is a side effect of a student's
status; announcements read parents and write the message log, and post to the
gateway over HTTP.  Behind the gateway's API a session is claimed in the database
(ownership), launched (engines) and used by batches; webhooks of plugins come in
through the ingress.  The desktop shell unpacks all of it, starts back end, front
end and gateway as child processes, and stops them by PID and by port.

The hazards these behaviours create are listed with their lines in
`PROJECT.json` under `hazards`; the one no module covers says so.

## 2. Plan

In order of importance; a tick means the module is here.

1. [x] `FeeRows`, `FeeLedger`, `FeeBilling`: the money columns, one handler at a
   time and as interleaving requests; the requests implement the ledger and
   leave it only by a stale write.  [x] Proved.
2. [x] `EnrollmentChain`, `Enrollment`: where a student stands, and the handlers
   that move the student.  [x] Refinement proved.
3. [x] `FeeGeneration`: who is billed for which month.  [x] Proved.
4. [x] `Exams`: papers, marks and dates.  [x] Proved.
5. [x] `Ingress`: crash, failed writes, retries and redrives of webhooks, with
   the liveness of the reconciler.  [x] Safety proved.
6. [x] `SessionEngine`: the asynchronous life of an engine.  [x] Safety proved.
7. [x] `SessionCluster`: leases, takeover, batches.  [x] Safety proved.
8. [x] `WhatsAppMessages`: the log against what went out.  [x] Safety proved.
9. [x] `DesktopInstall`, `DesktopShell`: unpack, start, crash, restart; the shell
   extends the installation, so both run in one state graph.  [x] Safety proved.
10. [x] `SchoolRecords`: classes, sections, attendance and parents, composed with
   the enrollments they hang on.  [x] Proved.
11. [ ] `ExamResults`: result cards, class sheets and positions as functions of
   papers and marks.
12. [ ] `DocumentNumbers`, `FeeCharges`: numbering with its fixed width, scope
   resolution against a reference definition.

Runs are kept for distinct questions: a run that found one disagreement gives
way to a passing run of another component, and its story stays in section 13.

## 3. The fee desk

**FeeRows** holds one FeeInvoice row and the row each handler writes.  A handler
computes from the row it has read (`seen`) and updates the row in the table
(`row`), so every operator takes both; the ledger passes the same row twice.
Columns keep their names (`subtotalAmount` is `subtotal`, `balanceAmount` is
`balance`, ...); `chargeItems`, `fineItems` and `discountItems` are the sums of
the item rows, which some handlers change without recomputing the columns.
`Minus` is `Math.max(0, a - b)`.  `MayFine`, `MayAdjust`, `MayWaive` and
`MayCancel` are the early returns.

**FeeLedger** is the abstract specification: invoices (one per billing period,
oldest first), payments with their allocation rows (one per receipt number) and
the advance, under handlers that run one at a time.

| Action | Handler |
|---|---|
| `Generate` | one `feeInvoice.create` of `generateFeeInvoices` or automatic billing |
| `ApplyLateFine` | `applyInvoiceLateFine`, an iteration of `applyBulkLateFines` |
| `AdjustDiscount`, `AdjustCharge` | `adjustInvoice` |
| `WaiveFine` | `waiveInvoiceFine` |
| `Cancel` | `cancelFeeInvoice` |
| `Collect` | `collectFeePayment`; the loop over open invoices is `Spending`, a function of the invoice index |
| `Void` | `voidFeePayment` |

**FeeBilling** is how the handlers run: a slot (a request in flight) reads with
`Read...`, keeps what it has read in `request`, and writes with `Commit`,
`BulkFine`, `CommitCollect` or `CommitVoid`.  A collection without open invoices
generates some first (`AutoGenerate`, any number of them), reads again
(`ReadOpenAgain`) and takes a receipt number in a query of its own
(`TakeReceipt`), which another collection may use first.  `Fail` ends a request
anywhere.  The module instantiates `FeeLedger` (`L`) on the same tables.

What is asked of it: `OnlyStaleWritesDiverge`, every step is a step of the ledger,
leaves the tables alone, or is the write of a request whose reads are no longer true
(`~Fresh`).  With one slot that makes it a refinement of `FeeLedger`
(`ImplementsLedger`), which is proved and in no run.  This says exactly how far the
code can be trusted without locks, and it fails if any handler checked less than the
ledger does. `AdvanceNeverOverstated` holds even through stale writes: the unique
receipt number and the advance read inside the transaction see to it.  `OldestFirst`,
of the ledger, compares a payment with every invoice it was meant for (`Meant`), those
that got nothing included: an older one is paid off before a newer one gets anything,
and all are before anything goes to the advance.  `CancelledUnpaid`, `NeverOverpays`
and `PaymentsFinal` are proved of the ledger and in no run.

## 4. Generating bills

**FeeGeneration** leaves the amounts to `FeeRows` and keeps what the generators
decide on: for each student, period and academic year the invoice, whether the
one-time fees are on it, whether it is cancelled and what became of its late fine;
the admission period; and the requests.

| Action | Code |
|---|---|
| `Admit`, `AutoGenerate` | `addStudent` after its transaction; the other callers of automatic billing |
| `ListPeriods`, `ReadCharged` | the periods the class (or the school) is billed for, `distinct` included; the one-time fees charged so far |
| `Generate` | `generateFeeInvoices` up to its loop |
| `Look`, `Price`, `Create`, `ComesToNothing`, `Refuse`, `Fail` | the queries of the loops, one action each: billed already, one-time fees charged, the insert, a bill without a positive line (counted under `skippedZero`, or by automatic billing not at all), an error that is counted, one that ends the request |
| `Cancel`, `Fine`, `Waive` | what other handlers do to an invoice: a waiver computes the status anew, so a cancelled invoice is in force again with the fees on it |

The unique key (student, period, year) makes `Create` fail when a row is there,
cancelled or not.  Nothing keeps requests apart: any number of them may bill one
student at a time, under any years.

A month may therefore be billed twice and the admission fee be charged twice.
`RebilledOnlyLate` and `RechargedOnlyLate` say exactly how: by a request that had
looked (or read the fees) before the other bill came in force, or by the waiver of
a cancelled invoice.  The history variable `late` of a request records what came in
force behind its back, whoever did it; so no request bills a month or charges a fee
it could see billed or charged, under whichever year, alone or among others.  That
the fee page promises more is run `one_time_race` (section 13).  `NobodySkipped`: a
pair a request has been through has an invoice, is among its errors or came to
nothing.  `NotBeforeAdmission` is proved, in no run.

## 5. Enrollments

**EnrollmentChain** is the promise: a student stands at one place (a class in a
year) at most, moves only to a place never stood at, and the places left behind
stay on record.

**Enrollment** has the rows (status, isCurrent, promotedFromId) of each student
and term, the student's status and account, and requests that have read the
current enrollment.  `ReadPromote`/`CommitPromote`, `ReadBulkPromote`/`BulkStep`
(one transaction per student, failures skipped) and
`ReadWithdraw`/`CommitWithdraw` are the handlers with a gap; `Register`,
`UpdateStatus` and `Delete` are one transaction each.  The place of a student is
the enrollment nothing was promoted from; under that mapping every interleaving
implements the chain (`ImplementsChain`).  No check in the code keeps a student
from having two current enrollments: what does is the unique key on
`promotedFromId` (`MayPromote`), which the mutant without it shows.
`LinkedHistory` and `LoginFollowsStatus` are proved, in no run.

**SchoolRecords** extends it with the tables that refer to enrollments and
students.  A class and its sections are `unit[c][0]` and `unit[c][k]`; `seat` is
the sectionId of an enrollment, `taken` and `entries` the attendance sheets of one
day (a sheet is its scopeKey, a class and perhaps a section) and `guardians` the
StudentParent rows.  `Enroll` is a step of `Enrollment` with what the schema and
AddStudent add to it (`Follow`): a row joins a class and section that exist, a new
student has parents, a deleted one leaves sheets and parents by cascade.

| Action | Handler |
|---|---|
| `SetSection` | `updateEnrollment` |
| `CreateClass`, `DeleteClass`, `CreateSection`, `UpdateClass` | the handlers of these names |
| `ReadDrop`, `CommitDrop` | the counts of `deleteSection`, and its delete |
| `ReadSheet`, `CommitSheet` | `saveStudentAttendanceSheet` up to its transaction, and the transaction |
| `LinkParents` | `linkParents` |
| `ReadUnlink`, `CommitUnlink` | the count of `unlinkParent`, and its delete |

A sheet may be saved long after its students were looked up.  What makes
`EntriesAreEnrolled` true nevertheless is that a promotion keeps the row it leaves;
what makes `AttendanceKept` true is that `deleteClass` counts every enrollment, not
only the current ones, since the schema deletes the sheets of a class by cascade:
the mutant that counts current ones loses attendance.  `LastOnesStay` claims what
the two counts can guarantee: the last parent and the last section stay, unless
two removals for the same student or class overlap (`overlapped`).  All three are
proved.

## 6. Exams

**Exams** has one exam, the papers set in it, their marks and the subjects.  The
interesting difference is between two partial updates: `updateExamSchedule` writes
both limits of a paper whether they were sent or not, so `PassWithinMax` survives any
interleaving; `updateExam` checks a sent date against the other date as read and
writes only what was sent, so `DatesStayInOrder` can claim no more than that only a
stale update breaks the order.  `MarksStayWithin` is of the same form: a maximum that
is lowered, or a check that has become stale, is the only way marks exceed the
maximum.  `NothingDangles` has no exception: however deletions of exam, subject and
paper fall between the queries of the requests that set papers, save marks or count
papers, no paper outlives its exam or subject and no mark its paper.  It is what the
cascades of the schema and the foreign keys a late write meets leave true of a subject
deleted with a paper just set in it.  `ClosedStaysClosed` is safe because the status
moves by a conditional `updateMany`.  `AbsentUnmarked` is proved, in no run.

## 7. WhatsApp messages

**WhatsAppMessages** has the requests of one school, the rows of the message log,
the gateway's sessions of the school's name (created, listed, started, stopped,
gone), the posts on their way, and what WhatsApp has sent out (history).

| Action | Code |
|---|---|
| `Receive`, `Resolve` | the send handlers; `sendAnnouncement` resolves the phones first: selected recipients without a number are left out (`mute`), a failing lookup refuses the request |
| `CreateRow` | the loop of `sendAnnouncement`; `persistAndSend` inserts PENDING |
| `Load` | `requireGateway`: one read gives gateway and session id |
| `CreateSession`, `ListSessions`, `StoreSession` | `ensureSessionId`: create, look the name up after a 409, store the id |
| `Post`, `TimeOut` | `sendText` to the gateway read together with the session id; 30 s of patience; a post that timed out may still be delivered |
| `Deliver` | `MessageService.sendText` of OpenWA: an id the gateway does not know (a 404, also for the id of another gateway) or a session that is down sends nothing; otherwise the message goes out or not, and an error is an answer in both cases |
| `MarkSent`, `MarkFailed` | the status write, and the one in the `catch` |
| `SessionCall`, `ReconnectStops` | connect, disconnect, reconnect, status |
| `ResetSession`, `SaveGateway` | `resetSession`, `saveGatewayConfig` |
| `GatewayMoves`, `BackendCrash` | the gateway by itself; a restart of the back end, which takes nothing up again |

`LogIsTrue` says what each status means: SENT has gone out, FAILED has not and
PENDING is still at work, unless an answer, a status write or the process was
lost on the way, or the gateway answered with an error for a message that had gone
out (`blurred`, or a request that is `lost`).  That last exception is the gateway's:
`wwebjs-messaging.ts:260` knows that a send "can throw after the message is already
on the wire".  `ReportCounts` is the arithmetic of an announcement whose recipients
fail one by one: the rows it reports as sent are those marked SENT, and sent, failed
and left out make up the selected.  `RequestEnds` is
liveness: any number of failing calls, but an answer.

## 8. The gateway

**Ingress** follows a delivery from its row to the plugin.

| Action | Code |
|---|---|
| `Receive` | `IngressService.handle`: the row is 'pending' before the acknowledgement |
| `AddJob`, `AddRefused`, `Dispatch` | `IngressEnqueueService.enqueue`: queue first, inline if it refuses |
| `LiveMark`, `LiveBury` (and `...Lost`) | the outcome and the dead-letter row of the live path; each write may fail |
| `JobStart` ... `JobBuryLost` | the worker of `ingress.processor.ts`: one lane per instance, last failure dead-lettered |
| `SweepRead`, `SweepRow`, `SweepMark`, `SweepRetire`, `SweepBury`, `SweepClose`, `SweepCount`, `SweepWriteLost` | the reconciler: replay, count, give up |
| `RedriveRead` ... `RedriveWriteLost` | an operator's redrive of an instance |
| `JobRemoved` | `removeOnComplete` and `removeOnFail` of `queue.module.ts`: a finished job goes, and its id can be taken again |
| `Crash`, `Restart`, `SetEnabled` | every call in flight ends, active jobs wait again; instances are switched |

`NothingLost` says where the payload of an acknowledged event still is, at any moment
of any crash or failed write; `excused` marks the two exceptions of the code (section
13).  `QueueDeliversOnce` is what is true of the claim of the comment at
`reconcileRow`: on the queue path an event is delivered once however often it is
replayed or redriven, as long as the queue has not removed the finished job whose id
the replay then takes again (`again`).  `EventuallySettled` is the purpose of the
reconciler.

**SessionEngine** is one session in one process.  Between two awaits an async
function runs alone, so one action is what happens from one await to the next;
`op[o].pc` names the await a call is suspended at and `op[o].eng` the engine
object it has captured.  `engine` says what each engine object does, `registered`
which one the registry knows.

| Actions | Code |
|---|---|
| `Start`, `StartRefused`, `StartChecked`, `StartAccepted`, `StartThrows` | `start`: reservation, row, credential fence |
| `Create`, `Launch`, `Launched`, `LaunchTimesOut`, `LaunchFails` | `initializeEngine` with its deadline |
| `Guard`, `GuardDone` | what a start does when it finds itself stopped |
| `Reconnect`, `Replaced`, `ReconnectFails` | the timer, `executeReconnect`, `scheduleReconnect` |
| `Retire` ... `Retired` | stop, logout, force-kill: mark, settle, teardown, unregister |
| `DeleteRefused`, `DeleteHook`, `DeleteRow`, `DeleteEnds` | the rest of `delete` |
| `StopOrphan` | `stopOrphanEngines` after a lost lease |
| `Ready`, `Disconnected`, `EngineError`, `CredentialsRemoved` | callbacks of a live engine; the removal a logout left behind |

A teardown may fail: `teardownEngineSafely` gives up after 10 s, and whoever called it
goes on and deletes the registry entry.  Such an engine is `loose`, as is one launched
after its teardown and one whose entry was taken by a launch that had met its own
(`met`: two launches under way together).  A start and a reconnect may cross freely.

`NoOrphan`: an engine outside the registry can never be stopped; only a loose one
ever gets there.  No call may drop or take over the entry of an engine that is not its
own, but for the launches that cross, and this holds in every state.
`StoppedStaysDown`: a call that was under way does not bring back what was stopped.
`FencedCredentials`: no engine but a loose one runs on credentials that are being
removed.
`NoGhostReady`: a late callback does not write READY over a session nothing runs.
The last three are stated with the races the code does not survive as exceptions
(`crossed`, one mark for each), which section 13 tells.

**SessionCluster** is one session and one bulk batch shared by several processes:
the row's holder and lease (`Claim`, one conditional UPDATE), each process's idea
of what it owns, its engine, the adoption sweep, the reaper of half-sent batches,
and crash, shutdown and boot.

| Actions | Code |
|---|---|
| `Start`, `Launched`, `LaunchFails`, `AbortedReturns`, `Stop` | `SessionService.start` and `stop` with `claim` and `release` |
| `Disconnect`, `Reconnect`, `ReconnectExhausted` | the connection of a live engine |
| `Tick`, `Renew`, `LeaseLost` | the clock; `renew` of the heartbeat and what it finds |
| `SweepRead`, `Adopt`, `ReapRead`, `ReapSave` | `SessionTakeoverService.sweep` and the reap that follows |
| `Crash`, `Shutdown`, `Boot`, `AutoStart` | the ends and beginnings of a process |
| `CreateBatch`, `BeginBatch`, `FinalizeBatch`, `CancelBatch`, `CancelCommits` | `bulk-message.service.ts` |

`OneEngine`: two engines only under a lease that lapsed below one of them.
`ReapSparesPeers`: a reaper does not fail the batch of a peer that can still send,
with the exceptions the code leaves.  `CancelHolds`: a committed cancel is final.
`OrphanAdopted`: a session whose holder died is taken up.

## 9. The desktop

**DesktopInstall** has the files: the version of the core and of the rest of the
unpacked application, the marker, the sessions folder, the copy aside and the
bridge's own database.  Its actions are the steps of `ensureBundledRuntime`
(`Begin`, `CopyAside`, `RunTool` for each of three tools, `RemoveApp`,
`UnpackFiles`, `Restore`, `Finish`), what an installer does (`Install`,
`build/installer.nsh`), and what a death in the middle of any of them leaves
(`Interrupted`).

Two places hold what the WhatsApp bridge knows.  `launch-services.mjs:624` starts
it with `SESSION_DATA_PATH` outside the application, so the credentials of a
bridge started that way are never in danger here; `app/openwa/data/sessions`, the
folder `main.mjs` copies aside, is filled by a bridge that ran with its default
(`sessions`, `held`).  The bridge's database and API key are in
`app/openwa/data` itself, inside the application and not copied aside (`store`).

**DesktopShell** extends it with the processes: the shell's start sequence
(`StartServices`, `InstallRuns`, `SpawnLauncher`, `WaitBackend`,
`WaitFrontend`), its window (`Close`, `Quit`, `PowerLoss`), the launcher
(`Preflight`, `FreePorts`, `Schema`, `StartCore`, `NameCore`, `StartBridge`,
`NameBridge`, `LauncherFails`), the services, and other programs on their ports.
The launcher names its children in the PID file in steps of their own, twice: once
backend and frontend answer (`NameCore`), over whatever the file named before, and
after the bridge has been spawned (`NameBridge`).  `Cleanup` is `killChildTree` with
the stop script (`StopScript`), which kills by name and then by port and may be cut
short anywhere by its 3.5 s (`Prefixes`).

`SessionsSurvive`: what was in the folder is there or aside at every moment.
`StoreKept`: a start loses the bridge's database only when no tool could complete the
application.  `StopFindsAll`: a service that boots listens on no port, so only its
name finds it; under a launcher that serves, and after it, the PID file names it, and
no later launcher writes over the name.  `unnamed` has the exceptions: a launcher that
ended between a spawn and the write after it, and a stop out of time. `StartReturns`:
the splash screen gets an answer.

## 10. Runs and bounds

| Run | Question | Bounds |
|---|---|---|
| `fee_ledger` | do handlers one at a time keep the books? | 2 periods, 2 receipts, amounts 1 and 2, 3 bills, no sum beyond 3 |
| `fee_billing_concurrent` | what does interleaving add? | 1 period, 2 slots; regime "handlers": 1 receipt, requests of every kind; "receipts": 3 receipts, collect, void and cancel |
| `fee_generation` | who is billed when? | 2 months, 2 years, 2 slots; regime "students": 2 students of different classes, 3 invoices, one request at a time, no fine; "requests": 1 student, 2 invoices, 2 requests at a time, 1 fine, always something to pay |
| `enrollment` | do interleaved promotions follow one chain; can moves, deletions and late saves lose attendance, a last parent or a last section? | 1 student, 4 terms in 2 classes; regime "moves": 2 slots; "sheets": 1 promotion, 1 clerk, 1 year and 1 section a class; "families": 2 clerks, 2 parents, 2 sections, 1 class, nobody moves |
| `exams` | what can two exam requests do to each other? | 1 paper, 1 subject, 1 student, marks 1 and 2, days 1 and 2, 2 slots |
| `ingress` | is a webhook ever lost, doubled or forgotten? | regime "faults": 1 delivery, 2 dead-letter rows, 2 attempts, 1 failed write, 1 crash; "crowd": 2 deliveries of 2 instances, a batch of 1 |
| `session_engine` | what can calls do to a session between awaits? | 2 calls in flight, 3 engine objects; nothing is followed past a second loose engine or a second mark of `crossed` (`Bounded`) |
| `session_cluster` | do processes share a session and its batch? | regime "three": 3 processes, one of which may leave; "batch": 2 processes that leave and boot, 1 batch; lease of 1 tick, 1 crash or shutdown |
| `whatsapp` | does the log say what was sent? | an announcement to up to 2 recipients, numbers or not, beside a session request that comes in before it ends; the environment's gateway, where 1 session can be made, and one of the school's own, where none can; nobody moves once both requests have ended and nothing is on the wire (`Roles`, `Turns`) |
| `desktop` | do files and processes survive upgrades, failing tools and loss of power? | regime "bundle": 2 versions, no orphans; "services": 1 version that unpacks, 3 services with orphans and another program on one port at a time |
| `fee_void_race`, `one_time_race` | section 13 | the smallest in which it happens |

A regime is a variable that keeps its initial value: two bounded questions about
the same module share one state graph and one set of properties, and each mutant
is tried in both.

Why these are enough.  Money: the handlers only add, subtract with a clamp and compare
with zero or a total, so a charge, a payment that is less, equal or more, and a bill
clamped by its discount are all reached with sums up to 3.  Two periods are what the
spreading loop needs to reach a second invoice; two receipts what a void needs to
leave another payment in force; three what a third collection needs to overtake a
void.  Two slots show every pairwise race, and no handler reads anything of a third
party that two could not write.  Four terms let two promotions follow each other while
a third is attempted.  Two clerks, parents and sections are what removing the last one
by an overlap takes; a clerk beside a promotion what a sheet saved late takes.  Three
invoices in `fee_generation` are what a request that bills two months of a student
needs when the second month comes from another student's bill; two requests on one
student, a cancellation and one fine to waive are all the ways to a second bill; the
theorems of section 12 lift them.  In `ingress` two dead-letter rows let a redriven
row fail and be redriven again while the reconciler replays the event; a batch of one
is the smallest that the row of a disabled instance can fill.  Three engine objects in
`session_engine` are a registered one, the one a suspended call still holds and the
one that replaces both.  A behaviour is left after its second loose engine or second
mark; a run that followed them to a second mark and no further (3.0 million states)
held as well, and the theorems are without that bound.  Three processes in
`session_cluster` let two survivors race for the session of a dead one.  Two
recipients are what the loop needs to go on after a failure, two gateways what a
change needs to make an id stale, as does the deletion of the one session.  Two
versions make one upgrade, with whatever the first unpacking left.

`MaxMoney`, `ReceiptCount`, `MaxInvoices`, `MaxFines`, `Papers`, `MaxRows`,
`MaxFaults`, `MaxCrashes`, `MaxEngines`, `MaxTargets`, `MaxSessions`, `Versions`,
`SectionCount` and the term counts are bounds.  When they are used up nothing more can
happen in the fee, enrollment and exam runs, nor when every event is settled, and a
session that is deleted or abandoned rests; these runs say `CHECK_DEADLOCK FALSE`.
`whatsapp` and `desktop` are checked for deadlock.  Symmetry is over slots, and over
students and terms where nothing orders them, in the runs without liveness.

## 11. Fairness

Liveness is claimed only where something in the code bounds a wait or repeats a
step, and fairness is weak throughout.

* `ingress`: `Restart` (a supervisor restarts a dead process) and the sweep (an
  interval timer that keeps firing; Node runs the continuations of a sweep that has
  begun).  Nothing is assumed of providers, operators, the worker, or of a dispatch
  ever succeeding.
* `session_engine`: the own steps of a start.  Each of its awaits is bounded by a
  deadline or by the event loop; the launch has a time-out.
* `session_cluster`: the clock, heartbeats, sweeps with their reap and automatic
  starts (intervals of a process that is up), and the return of a launch.  No
  process need ever come back.
* `whatsapp`: the work of a request.  The database answers or rejects, the HTTP
  client gives up after 30 s.  The gateway owes nothing: `Deliver` is not fair.
* `desktop`: the shell's own steps.  A tool exits, each wait for a port ends after
  180 s.  Launcher and services owe nothing.

The fee, enrollment and exam modules claim safety only: Express gives no
guarantee that a request in flight ends.

## 12. What is proved

For every value of the constants (any number of students, periods, receipts,
requests, deliveries, instances, processes; any bounds), with TLAPS:

* **FeeLedgerProofs** - `TypeCorrect`, `AlwaysCoherent`, `PaidIsWhatWasAllocated`,
  `AdvanceIsWhatWasLeft`, `CollectsOldestFirst`, `CancelledNeverPaid`,
  `CollectNeverOverpays`, `PaymentsAreFinal`.  The invariant adds to types and
  coherence that an invoice without a row carries no allocation and that receipts
  are used in order: a cancellation checks allocations, and only a coherent,
  unpaid, unallocated row may become CANCELLED.  The first lemmas are on rows:
  every handler's row is typed and, from a coherent row, coherent.  What the books
  add up to is a sum over the receipts (`SumFunctionOnSet`), and a collection or a
  void changes one summand.  No induction theorem with a predicate can be used, so
  the lemmas on sums argue by a least counterexample: the naturals are well founded
  (`LeastElement`), hence what fails for a finite set fails for a smallest subset
  (`SmallestSubset`); from it the sum's recursion exists, is independent of the
  order, and depends on its summands only.
  That the oldest invoices are paid first rests on `Spending`: what is left only falls
  from an invoice to the next, so where a newer one gets something, or the advance
  does, something was left after the older one, and that one is paid off.
* **FeeBillingProofs** - `TypeCorrect`; `StaleWritesOnly`: for any number of
  slots every step is a ledger step, a stale write, or leaves the tables alone;
  `OneAtATime`: with one slot, refinement of the ledger.  The invariant `IInv`
  records what a request in flight has checked (`Checked`): the early returns hold
  of the rows it read, a void names a recorded payment and exactly its
  allocations, a receipt number is not beyond the next one.  A fresh request then
  satisfies the guard of the ledger action it commits.  For one slot the proof
  adds that the only request is always fresh.  `AdvanceOnlyUnderstated`: a
  double void can only take too much from the family, since the advance is read in
  the transaction that changes it and an excess is added once, with its receipt.
* **EnrollmentProofs** - `TypeCorrect`, `OneClassAtATime`, `HistoryLinked`,
  `LoginCorrect`, `ChainImplemented`.  `Ordered` says the rows of a student form
  a chain with one end, closed but for the end; a promotion either extends the
  chain at its end or violates the key on `promotedFromId`.  For `SchoolRecords`:
  `RecordsKeepEnrollments` (it implements `Enrollment`, so the theorems above hold
  of the whole), `RecordsTyped`, `EntriesTrue`, `AttendanceLasts`, `LastOnesKept`.
  `Lasting` is the fact the argument turns on: an enrollment goes only with its
  student, who does not come back.  `Late` says it of the students a sheet is about
  to record; `Guarded` and `Divided` say that a removal which is alone leaves another
  parent or section.
* **FeeGenerationProofs** - `TypeCorrect`, `NobodyIsSkipped`,
  `NeverBeforeAdmission`, `RebillsAreLate`, `RechargesAreLate`, all without any
  assumption on who is billed by whom.  `Placed`: what a request has left to bill is
  due, and it bills a pair of its list.  `Current`: what a request has read is still
  true unless it is `late`; a step that brings a bill in force, be it another
  request's or a waiver, marks exactly the requests that no longer know
  (`Overtaken`), and a cancellation only makes what they read more true.
* **ExamsProofs** - `TypeCorrect`, `PaperCanBePassed`, `AbsentHasNoMarks`,
  `ClosedIsClosed`, `DatesInOrder`, `NothingIsLeftDangling` and `MarksAreWithin`,
  the whole of what the run checks.  The invariant adds `Checked`: the limits and
  dates a request will write are in order, and a request that is not stale then finds
  what its handler compared.
* **IngressProofs** - `TypeCorrect`, `NothingIsLost`,
  `QueueDeliversAtMostOnce`.  That a payload is somewhere does not follow from
  where it is now: who gives it up must have put it elsewhere before.  The
  invariant says so for every holder: what a call carries is on record (`Carried`,
  `Batched`: its row, the job it queued, the delivery it made, the row buried
  first), a job stands for a dead-letter row or is the first (`JobsKept`), a row is
  retired only for a job or a delivery (`RowsKept`), an event leaves 'pending' only
  when one of these has it (`EventKept`).  `OneJobLeft` says that on the queue path
  only the job of the last row can still deliver, as long as no job id was taken again.
* **SessionEngineProofs** - `EngineTypes`, `EveryOrphanIsLoose`,
  `FenceHolds`, `StopIsFinal`, `ReadyIsNoGhost`.  The invariant has two parts.
  `Solid` holds through every race: who unregisters an engine has torn it down, or
  left it loose (`TornDown`); a launch that has met no other finds only its own engine
  registered (`EntryHeld`), which is why one that times out may drop the entry; a
  retirement that holds the registered engine has cancelled the reconnect
  (`HeldQuiet`).  `Sound` holds as long as no launches crossed and no logout came late
  (`Uncrossed`), for reasons that are spread over the calls: at most one launch is
  under way (`OneLaunch`), and while it is, its own engine or none is registered
  (`LaunchHolds`); nothing but loose engines runs on credentials being removed
  (`Fenced`); in a session that is stopped or deleted someone is on the way to whatever
  engine still runs (`StopReaches`, `DeleteReaches`) and to the timer and the reconnect
  (`TimerCancelled`, `ReconnectCancelled`); a status READY is that of a live engine, or
  somebody still has to write another (`ReadyHeld`).
* **WhatsAppProofs** is one module for three components that share the gateway's
  session.  Of `SessionCluster`: `TypeCorrect`, `TwoEnginesAreLate`,
  `ReapersSparePeers`, `CancelsHold`.  `Leased`: whose engine can send is late or
  holds the unexpired lease, so a claim that succeeds finds every other engine
  late.  `Drained` and `Reaped`: the batch has one drain, which sends while its
  engine lives and is queued no more once a reaper has read it; a booting reaper
  was not refused by a lease.

  Of `WhatsAppMessages`: `MessagesTyped`, `LogIsNeverWrong`, `ReportsAddUp`.  A row is
  PENDING only in its recipient's turn (`RowWritten`, `AtWork`), there is one post for a
  recipient, waited for or given up (`OnePost`, `OnItsWay`), what went out is accounted
  for in the log (`Accounted`), and what is marked has gone out (`Marking`,
  `SentIsOut`).  The report follows from counters that have settled whatever the loop
  has passed (`Counts`) and that count the rows SENT (`SentCounted`), and from the
  recipients being the selected ones with a number (`Asked`); no recipient has a row
  before its turn (`InTurn`).

  Of `DesktopInstall` with `DesktopShell`: `DesktopTyped`, `SessionsAreNotLost`,
  `StopKnowsTheServices`, `StoreIsKept`.  `DesktopInv` adds that an unpacking
  belongs to a start and a start to a window (`Unpacking`, `Windowed`), that only
  what is incomplete is removed (`RemovesBroken`), that from copy to restore the
  copy is whole and outside of that the folder is (`SessionsHeld`), and, for the stop
  script, how far a launcher has got with its services and their names at each of its
  steps, and that while a launcher runs, what the file still names of an earlier one
  was missed by a stop (`Tracked`).

`TypeCorrect` of the fee, enrollment, exam, ingress and cluster modules,
`RecordsTyped`, `EngineTypes`, `DesktopTyped`, and the properties named above as in
no run, are only proved.

Only model-checked: liveness, namely `EventuallySettled`, `RequestEnds`,
`OrphanAdopted` and the `StartReturns` of `SessionEngine` and `DesktopShell`.  Out of
the prover's reach here: liveness under fairness, ENABLED, theorems about operators
that take a predicate as parameter, and recursive operators; the modules use none
of the last.  Every safety property of a passing run is a theorem.

The proofs assume what the modules name: amounts are positive
(`parsePositiveAmount`), a bill has a positive line (the generators skip others),
counts are natural numbers, the null value is not a real one, a lease and a
replay budget are positive.

## 13. Where code and text disagree

With a run that TLC finds violated:

* `fee_void_race`: a void computes the restored amounts before its transaction and
  erases a payment that commits in between, though the handler is to "void a
  payment and restore invoice balances" (`feeBilling.controller.ts:2262`).
* `one_time_race`: automatic billing of a new student and a generation of another month
  both read that nothing was charged, and both charge the admission fee, though the page
  says "Admission/registration fees are charged once per student."
  (`frontend/app/dashboard/fees/generate/page.tsx:121`).

Met while modelling, and left as exceptions in the statement of a property or as
assumptions of a run; most are one interleaving away.

Fees.  `totalAmount` is kept by increments of other columns: a fine on a bill whose
discount exceeds its charges is added to a total already clamped at zero, and an
adjustment after a waiver starts from a subtotal that still holds the fine;
`backend/prisma/schema.prisma:480` says the total is the charges less the discount.
`waiveInvoiceFine` does not look at the status, so waiving the fine of a cancelled
invoice makes it UNPAID again.  Then a month that
was billed again since has two bills, and an admission fee charged again since is
charged twice.  Two requests that file one month under different years both bill it: the
key has the year in it, the question before it does not
(`feeBilling.controller.ts:777`).  Two voids of one payment both pass the check, which
is outside the transaction, and take what it left over from the advance twice.  A bill
of automatic billing that comes to nothing is not reported (`:640`).  Automatic billing
gives up at the first error (`feeBilling.controller.ts:690`), so a cancelled invoice
in the way of one month keeps the later ones from being billed.

Students and exams.  A withdrawal closes the enrollment it read; a promotion in
between leaves the withdrawn student enrolled in the next class.  A withdrawn student
who is made active again has no current enrollment and no handler gives one.
`deleteStudent` removes the photo before the transaction that may fail.  A date of an
exam and a maximum lowered below marks are in section 6.  A subject counted as unused
and deleted takes a paper that was set in between with it.

Classes, parents and attendance.  `deleteSection` refuses when students sit there
("Cannot delete section with N enrolled student(s)", `classes.controller.ts:503`);
`updateClass` deletes the same section when its list omits it, and the students are
left without one (`UpdateClass`, `Unseat`).  Two `unlinkParent` requests that overlap
remove the last two parents ("Student must have at least one parent/guardian",
`student.controller.ts:1304`), two `deleteSection` requests the last two sections, and
an update between the count and the delete of one has the same effect (`overlapped`).  A
day can have a sheet of the class and one of its section, with a student on both; saving
an old sheet again replaces its entries by those of students who are in the class now.

Webhooks.  The reconciler retires an open dead-letter row when its replay was merely
queued; the comment at `ingress-reconciler.service.ts:183` says "the replay just
delivered it", and the job may still fail, with its own row unwritten.  A dead-letter
row the worker cannot write is only logged, and the event is lost.  The comment at
`reconcileRow` says a re-dispatch "never double-delivers" on the queue path;
`queue.module.ts:61` removes finished jobs after an hour or a thousand others, failed
ones after a day or five thousand, and a replay or redrive later than that is accepted
under the same id and delivered again (`again`).  Rows of disabled instances stay the
oldest and can fill the batch a sweep reads (`Crowded`).

Session engines.  An accepted start and a reconnect past its timer cross: each may set
or delete the other's registry entry (`session-engine-lifecycle.service.ts:475` and
`:575`, unconditional), and an engine is left that nothing can stop.
`session-engine-controls.ts:207` says that "initializingSessions serializes start(),
so the engine in the map here is the one this start just created"; a reconnect takes
no part in that.  A teardown that fails or runs into its 10 s is only logged and the
entry is deleted, so the engine that "may still be alive" is in nobody's reach; a
logout that captured such a survivor removes credentials under the engine of the next
start ("late").  A start that ends between the engine a delete has captured and its
transaction leaves an engine of a deleted session ("delete"), and so does one that
cannot read whether the row is still there ("unread").  A delete whose transaction
fails, or that the fence refuses after the teardown, has torn the engine down and
leaves the row READY; one refused at the first fence leaves its stop mark ("aborted").
A failure reported by an engine that a reconnect is replacing cancels that reconnect
and leaves READY behind ("reported").  `stopOrphanEngines`
(`session-engine-controls.ts:577`) tears an engine down without the wait for its
INITIALIZING write that stop, logout and delete have (`awaitInitialStatus`, itself
bounded by 10 s), and leaves the status as it is ("disowned"): if a delete that was
under way ends and takes its stop mark with it, the start whose write was pending goes
on and launches the engine that was torn down, outside the registry.

Ownership and batches.  A takeover fails the half-sent batch only after its start has
returned, by when the batch may be a new one of its own, or, if it lost the session
again, another process's (`bulk-message.service.ts:160`).  A booting process saves FAILED
over a batch it read before; a late drain of a taken-over batch turns FAILED into
COMPLETED; a reaper can overwrite a committed cancel.  A batch still PENDING is never
reaped, and an adopter whose launch fails leaves the batch PROCESSING.  A stop during a
start that is in flight keeps the claim, so a peer adopts what an operator stopped, once
the lease lapses (`OpenWA/docs/13-horizontal-scaling.md:33`).  Gracefully released
sessions are not adopted, which is documented.

WhatsApp messages.  `resetSession` promises a fresh session; the name is the school's, so
the next request gets a 409 and looks up the same one.  `saveGatewayConfig` keeps the id
of the old gateway's session, and every call is a 404 until a reset; a request in flight
can store the old id after the reset.  A message is FAILED in the log though it went out,
or PENDING for ever, when the answer, the status write or the process was lost, or when
the gateway's answer was an error for a message already on the wire.  Recipients without
a number are left out of an announcement and of its report
(`whatsapp.controller.ts:431`, `:439`).

Desktop.  An exception or a loss of power between the removal of the application and the
restore leaves the sessions aside or nowhere (`gap`).  What is copied aside is a folder
the launcher does not make the bridge use; the bridge's database and API key, which it
does use, are not copied, so a removal makes the school's session id a 404.  The
uninstaller removes the application with both (`build/installer.nsh`).  A tool that fails
after the four files are there is taken for a success, and the marker is written over a
partial tree; `desktop/README.md` has the application re-unpacked on upgrades.  A launcher
that ends between a spawn and the write after it leaves booting children that no file
names; a stop script killed at 3.5 s leaves what it had not come to, and the next
launcher's file no longer names it, though `stop-services.mjs:4` has it that the script
"Always frees ports … so closing the app fully shuts services down".  `waitHttpOk` takes any
listener on the port for the service.

## 14. Assumptions of the model

* A `$transaction` and a single query are atomic, as on the SQLite database of
  the desktop build (one writer).  PostgreSQL's READ COMMITTED would add
  interleavings inside transactions that are not modelled.
* The reads of one handler are one step unless a later decision separates them.
  Where a check is repeated by a unique key or foreign key, the write is guarded
  by the key.
* One student's fees; one series of receipts, ordered, without the four-digit
  width of the real number (a hazard without a property).  Deleting a student,
  which cascades to invoices, is modelled for enrollments only.
* Money is a natural number of the smallest unit; the item rows are their sums.
* `FeeGeneration`: any bill may come to nothing, since the amounts are left out; an
  invoice is fined once at most; invoice numbers are a reason for `Refuse`.
* `updateStudent` writes columns nothing here reads.
* `SchoolRecords`: one day's attendance; numbers of sections and parents are bounds; what
  a handler looks up before it writes and a foreign key repeats (the class of a new
  enrollment, the section of a seat) is checked when it writes.  Papers and
  fee structures of a class, which go with it by cascade, are left out.
* In `Exams` the section of a paper and who is in the class are left out: they
  say which entries of a sheet are skipped.  A row without marks counts as no row.
* `Ingress`: time is left out, so the grace window, the cool-down and retention let
  the reconciler act at any moment; how many attempts a job gets is left open; a
  stalled job goes back to waiting; what is rejected before its row is written
  changes nothing.  `ensureDeadLetterRow` looks and writes in one step.
* `SessionEngine`: a status write lands when it is issued; a teardown may fail but then
  leaves the engine as it was; the wait for the first status ends at any time; how many
  reconnects are left is open; shutdown and the cap on concurrent sessions are left out.
* `SessionCluster`: one session and one batch; processes share a clock, counted in
  ticks; one process's statements reach the database in order.
* `WhatsAppMessages`: one school; `saveGatewayConfig` reads and writes in one step; a
  logout is a stop as far as the log can tell; a success of the gateway means that the
  message went out, an error means nothing; templates and pairing codes are left out.
* `DesktopInstall` and `DesktopShell`: Windows, one data folder; a payload is its
  version, its files the four that are looked for and the rest; the Node runtime, which is
  unpacked the same way, is left out, and so are a death of Electron alone and the PID a
  system gives to another process.  A launcher the closing window has taken away is not
  noticed by what still waits for it.

## 15. Not modelled

* Fee structures and particulars: rows of their own, and a resolution that only reads;
  next in the plan.
* Document numbers and their four digits (`feeBilling.controller.ts:107`): ten thousand
  receipts of one day are out of TLC's reach in the ledger, and the numbering has no
  module of its own yet.
* Employees, school profile, users, login, uploads: single rows and files, without a
  protocol between requests.  Dashboards, reports and result cards only read.
* The front end keeps no state of the system.
* The rest of OpenWA: adapters over whatsapp-web.js and Baileys are calls into
  libraries that are not part of the repository; plugins, outgoing webhooks, automation,
  templates, media, dashboard and SDKs are features the school's back end does not use.
* `prepare-bundle.mjs` and the other build scripts: they run on a developer's machine.
