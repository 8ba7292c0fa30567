# cguard-backend: verification development

cguard-backend is the server of a guard-management product: Express handlers and scheduled jobs
(TypeScript, Sequelize over MySQL) in several PM2 worker processes, and a separate alarm receiver.
Handlers hold no lock, and most hold no transaction, across their awaits. What the workers agree on is
what the rows of the database say at each await. That is where the code is hard to test, and what the
modules here are about.

Paths are relative to the repository's `src/`; line references of every definition are in `PROJECT.json`.

## 1. Inventory

### Modelled

| Component | State it keeps | Operations | Hard behaviours | What makes it correct |
|---|---|---|---|---|
| **Attendance** (`api/guard/guardMeClockIn.ts`, `guardMeClockOut.ts`, `services/attendanceService.ts`, `forcedClockOutService.ts`, `dutySync.ts`) | `guardShift` rows with their JSON `sessions`, `securityGuard.isOnDuty` | clock-in (new record or re-entry), clock-out, forced clock-out sweep, duty reconciliation | handlers, sweeps of several workers and the job interleave at each await; updates are unconditional or conditional; swallowed errors; a worker dies | one station and one record per shift for each punch in flight; a record closes once, and its session with it; overdue records close; the duty flag settles |
| **Punch approvals** (`guardMeClockInRequestCreate.ts`, `guardMeClockOutRequestCreate.ts`, `...Cancel.ts`, `attendanceAdminService.ts`) | `clockInRequest`, `clockOutRequest` rows | ask, withdraw, approve or reject, punch through a gate, consume | repeats of a request, lapse by time, best-effort consumption | an approval is used once; asking again leads somewhere |
| **Attendance exceptions** (`server.ts` detection job, `lib/attendanceRules.ts`, `attendanceService.ts`, `attendanceAdminService.ts`), partly | `attendanceException` rows | detection tick, evaluation at clock-in and clock-out, resolve, review | look-up then create by two kinds of writers; a tick that dies | no more open exceptions of a type than writers that report it; an absence is reported |
| **Payroll review** (`attendanceAdminService.ts`, `lib/nominaSettings.ts`) | `guardShift.approvalStatus`, `.locked`, corrections, the settings blob | approve, correct, apply or refuse a correction, close a period, save settings | check of a loaded row, write by id; one JSON blob with three writers, one of which never reads it; reads that fall back to defaults | once closed, nobody is let through to a record; a correction is entered no more often than there are requests and failures |
| **Scheduler leader** (`server.ts:25-61`, `lib/jobsMonitor.ts`) | the lock file, `_amLeader`, `inFlight` | heartbeat, timers, boot, death | file system calls of several processes interleave; blocked event loops; failed reads and writes | one leader, one run of a job at a time, a leader again after a crash |
| **Alarm central station** (`services/alarm/receiver.ts`, `normalizer.ts`, `escalation.ts`, `api/alarm`), partly | `alarmSignal`, `alarmCase`, `alarmEvent` rows | ingest a message, answer it, operator moves, escalation sweep | panels retransmit; the pipeline is five writes without a transaction; two messages at once; a sweep that writes what it loaded earlier | nothing is answered before it is stored, everything is answered in the end; an alarm is in a case, or in the burst of one that is; a case nobody takes is escalated |
| **Communications wallet** (`services/communication/messageRouter.ts`, `communicationSettingsService.ts`, `rechargeReconciliation.ts`, the Stripe webhook), partly | `communicationWallet.balance`, `communicationLog` | route a message over its channels, reserve, send, settle or refund; credit a recharge by webhook or by job | reserve, send and settle are three steps; the webhook is delivered twice, late or never; balance checked before it is debited | the balance is what the log says; no paid message goes out for nothing; nobody overdraws; a paid recharge arrives once |
| **Radio check** (`services/radioCheckService.ts`, the minute job in `server.ts`), partly | sessions, entries, counters | start, notify, reply, poll, advance, cancel, orphan sweep, automatic start | every reply and the job advance the same session at once; deadlines race replies; starters and cancellations die half way | first outcome stands; each call is counted once; a roll call ends |
| **Shift schedule** (`services/shiftGenerationService.ts`, `assignmentService.ts`, `api/scheduling/schedulingEndpoints.ts`), partly | positions, assignments, shift rows, the regeneration map of a worker | edit or delete a position, create or delete an assignment, generate, coalesced regeneration | an edit while a regeneration runs; one regeneration starts five transactions at once, which do not see each other's rows; a unique key that covers soft-deleted rows | when a guard can be booked twice, and when not; no shift is stale or missing once all is answered |

How they interact: the leader decides which worker runs the sweep, the duty job, the detection job, the
reconciliation and the roll calls; the escalation sweep runs in the alarm receiver's own process (`alarmReceiver.ts:36-39`), so it has one
runner without a leader. The two punch handlers are the writers that attendance, approvals and exceptions
have in common: they pass the gates of the approvals first, then write the record, then evaluate exceptions. The
payroll review works on the records that attendance leaves. The schedule produces the shifts that a punch is matched
with. Alarms and roll calls send messages, which the wallet pays for; neither reads whether they arrived. Each module
keeps the others' part of a shared row as abstract as its own properties allow (below).

"Partly": what a component leaves out is in its note in `PROJECT.json`. In short: the repeated-lateness job of the
exceptions (it writes one marker row a day that belongs to no shift); CRC and framing, unknown accounts, police
dispatch and the manual entries to the alarm pipeline; delivery callbacks and the administrator's manual adjustments of
the wallet; incident classification and transcription of roll calls; relief guards, automatic assignment, overrides,
proposals and exchanges of the schedule, and its rotation arithmetic.

### Not modelled

Listed with sources and reasons in `PROJECT.json`. Those with state of their own that others decide on:

- **Duty switch of the CRM** (`securityGuardOnDutyPatch.ts`): a third writer of `isOnDuty` and of records. It breaks the
  promises of `Attendance` in a single call, without a race (section 6); as one more actor it would only hide the
  interleavings the module is about.
- **Supervisor and staff clocks** (`api/supervisor/clock.ts`, `api/staff/clock.ts`): mirrors of attendance, with breaks.
- **Patrols and site tours** (`siteTourService.ts`).

The rest (billing, authentication and permissions, notification providers, the queue wrapper, realtime media,
incidents, inventory, training, customer portal, administration, observability, repositories and migrations) is rows
with one writer, tables of permissions, I/O or the behaviour of a library. It is most of the repository by lines: the
modules here cover the parts where several actors decide on the same rows.

## 2. Modules

| Module | What it is |
|---|---|
| `Attendance` | the attendance component, one action per stretch between two awaits that touch the modelled rows |
| `GuardPost` | abstract specification: a guard is at one station or off, and goes off between two stations |
| `MCAttendance` | the constants of the attendance runs: one guard, two stations, back-to-back shifts |
| `AttendanceProofs` | theorems about `Attendance`, the refinement of `GuardPost` among them |
| `PunchApprovals`, `PunchApprovalsProofs` | requests to punch late or leave early; theorems |
| `AttendanceExceptions` | the exceptions of one shift; theorems in `SchedulerProofs` |
| `PayrollReview`, `PayrollReviewProofs` | approvals, corrections, lock and the lock switch of the settings, for one record; theorems |
| `MCPayrollReview` | the symmetry of its requests |
| `SchedulerLeader`, `SchedulerProofs` | the heartbeat lock and the job gate; theorems about them, and about the exceptions the detection job leaves |
| `AlarmStation`, `AlarmStationProofs` | receiver, cases and escalation for one panel; theorems |
| `SignalReporting` | abstract specification: a report is stored, then answered, in the end |
| `MCAlarmStation` | a burglary, its restore and a keep-alive, with the codes of the SIA table |
| `CommunicationWallet`, `CommunicationWalletProofs` | the wallet of one tenant; theorems |
| `MCCommunicationWallet` | one message that falls back, one critical message that fans out |
| `RadioCheck`, `RadioCheckProofs` | the roll calls of one tenant; theorems |
| `ShiftSchedule`, `ShiftScheduleProofs` | positions, assignments and shifts of one tenant on one worker; theorems |
| `MCShiftSchedule` | two stations with a position each, or one with both |

Definitions whose name begins with `Mutant` are plausible mistakes in the definition that follows them; no action uses
them. They are how each property was tested: with the mutant in place of the definition, TLC finds it violated.

### Attendance

`rows` is the `guardShift` table. A row keeps guard, station, shift, `punchInTime` (`in`), `punchOutTime` (`out`),
`scheduledEnd` (`end`), `sessions`, `forcedClockOut`, and `hours`, which is represented by the list of sessions it
was computed from: properties compare it with the sessions and nothing depends on the sum. `call` is the
punch request in each slot and `sweep` the sweep of each worker, each with what it loaded. This matters
because a Sequelize instance writes only the columns that differ from the values it was *loaded* with; so a
re-entry that loaded `punchOutTime` as null does not write it again, whatever the row holds meanwhile.

| Code | Actions |
|---|---|
| `guardMeClockIn.ts` | `ClockInBegin` (window, shift, approval gates up to the first read), `ClockInElsewhere`, `ClockInFind`, `ClockInReopen` or `ClockInCreate`, `ClockInDuty`, `ApplyClockIn` |
| `guardMeClockOut.ts` | `ClockOutBegin`, `ClockOutLoad`, `ClockOutClose`, `ClockOutDuty`, `ApplyClockOut` |
| `forcedClockOutService.ts` | `SweepScan`, then for each candidate `SweepClaim` (the conditional UPDATE), `SweepReload`, `SweepLoadGuard`, `SweepCloseSession`, `SweepDuty`, `SweepApplyClockOut` |
| `dutySync.ts` | `SyncOn`, `SyncOff`, its two UPDATEs |
| environment | `Tick`, `PunchDies`, `SweepDies`; best-effort writes may fail where the code swallows the error |

Time is counted in ticks, with the code's windows (`EARLY_WINDOW`, +-12 h, grace, maximum open hours, calendar day) as
constants. Where the code takes "the first" of several rows, the model takes any row that the query's
order allows.

### Punch approvals

One guard, one day, both kinds of request. `onShift` stands for the record (its details are `Attendance`'s),
`uses` counts the punches each request let through. A late clock-in is gated by an approved request that has
not lapsed and is marked *after* the punch, best effort; an early clock-out consumes the approval before the record
is written. `Ask`/`AskCreate`, `Withdraw`, `DecideLoad`/`DecideWrite`, `PunchBegin`/`PunchGate`/`Punch`/`PunchConsume`
are the stretches of the handlers.

### Attendance exceptions

One shift of one guard. `record` is what the rules look at: whether the guard has punched and whether the record carries the
shift's id, which it gets only in `applyClockIn`. Writers of exceptions are ticks of the detection job (`JobScan`) and the
two handlers; each finds the open types (`Find`), then creates the missing ones one by one (`Create`). Supervisors
resolve exceptions or review the record.

### Payroll review

One record and the settings blob of its tenant, with the values of the record abstracted to "which correction they come
from", and the blob to the one part of it that decides here, `lockAfterPayrollClose`. A request of the CRM is `Load`,
`AssertNotLocked`, and its write (`SetApproval`, `CorrectCreate`/`CorrectFlag`, `CorrectionLoad`/`ApplyLoad`/`ApplyWrite`/`CorrectionFinish`).
`ClosePeriod` and `SaveGuardRates` read the blob (`SettingsRead`) and write it back with their own part (`SettingsWrite`); `SaveSettings`
reads nothing and writes the client's body, with whatever value the switch has there. The guard's own punches write the record
too (`Punch`).

### Scheduler leader

The heartbeat is split at its system calls: reading the file, opening it (which truncates), writing, and reading the claim
back. `status` follows a worker from boot to death; `since` is the time since its last heartbeat, `lock.age` that of
the lock. Four kinds of mishap are counted: `race` (two heartbeats interleave), `stall` (an event loop lets one
pass), `open` (the file cannot be opened for writing) and `io` (any other read or write that fails).

### Alarm central station

One panel. `reports` is what the panel has to say, in order; `message` is what each channel (a TCP connection of the
receiver; `handleMessage` is asynchronous) is handling, with the step it has reached. Codes, categories and priorities are
those of the mapping tables. The panel speaks DC-09: a raw Contact ID or Sur-Gard frame gets no answer at all
(`receiver.ts:270-274`), and so none to be right or wrong about. `cut` and `crossed` are histories for `AlarmHasCase`: the rows whose
handler failed between row and event, and those that took a later row for the original.

| Code | Actions |
|---|---|
| the panel (external) | `Report`, `Retransmit` of a report that has no ACK |
| `receiver.ts` `handleMessage` | `StoreSignal` ... `AddEvent` inside, then `Acknowledge`; `IngestFails` answers link tests only |
| `normalizer.ts` `ingestSignal` | `StoreSignal`, `CheckRunaway` (60 s, same code and zone), `FindOpenCase` (30 min), `OpenCase` or `RaiseCase`, `AddEvent` |
| operator endpoints | `TakeCase`, `DispatchCase`, `ResolveCase`, `CloseCase`, each an unconditional status change as in the code |
| `escalation.ts` | `SweepScan` loads the cases, `SweepWrite` writes the values it computed from them, `SweepFails` ends the tick |

`SignalReporting` is what the station owes a panel: `Send`, then `Store`, then `Answer`, with both of the latter fair. The
refinement takes the reports that are not link tests, which the receiver answers whatever happens.

### Communications wallet

`attempt` is each message on its way through the channels of its plan: `Gate` (the balance is read), `Reserve` (debit in a
transaction on the locked row), `SendOk` or `SendFails`, then `Settle` (adjust to the segments sent, write the log) or
`Refund`, and `GoOn` to the next channel or the end. `accepted` is what the provider took; `billed` and `extra` sum the
log. `payment` is Stripe's side (`Checkout`, `Complete`, `PayLate`); `Webhook` delivers an event, again if it likes; `JobScan`,
`JobCredit`, `JobFails` are the reconciliation. `Begin`/`CreditCommit` are the transaction that both use: it locks the wallet
row, looks for the session in the ledger and writes. Two of its tenant's settings are variables that never change,
so that one run covers the four cases.

### Radio check

`entry` is the status of each call, `left` the time to its deadline. Each caller of `advanceSession` (a reply, or the
job) is a row of `advance`; its queries are `Load`, `Expire`, `CountMissed`, `FindActive`, `FindNext`, `NotifyNext`, `Complete`.
Expire and notify are conditional updates, the counters are increments. `Create`... `NotifyAll` is `startSession`,
`PollFind`/`PollClaim`/`Mint` the poll of a supervisor's app, which claims his entry or adds one of its own, `Cancel`/`CancelCalled`/`CancelPending` the cancellation,
`JobTick` ... `JobStarted` the minute job: advance the sessions, sweep entries left ringing in sessions that have
ended (`JobLive`, `JobSweep`), start the automatic roll call (`JobClaim` ...).

### Shift schedule

A day has a few slots, some of which overlap; an assignment has one row, in the slot of its position. `shifts` holds
the soft-deleted rows too, because the unique key does. `EditPosition` writes the hours; `JoinRun` then starts the
regeneration of the station or flags the one that runs (`regenerateStationShiftsSafe`); `LoadAssignments`, `NextPass`,
`PassEnds` are its loop. `Compute`, `Begin`, `Commit`, `Retry`, `Fail` are one `generateShiftsForAssignment`: what it
computes before the transaction, the rows it destroys, locks and reads at its start, and the insert that ignores duplicates. Transactions
overlap whenever they lock no row of each other, those of one batch of `Promise.all` too (`shiftGenerationService.ts:677-685`). `crossed` is the
history of guards who had two in flight at once. `Create`, `Insert`,
`Answer` and `EndAssignment`, `RemoveShifts`, `RemoveAssignment` are the two assignment endpoints.

## 3. Runs

"pass" runs find no error. "violation" runs check one sentence that a comment of the code states and
show how the code breaks it.

| Run | Question | Bounds |
|---|---|---|
| `attendance_serial` | One guard, punches that do not overlap, the sweep and the duty job in any order: `OneStationAtATime`, `OneRecordPerShift`; the records implement `GuardPost` | 3 shifts (two back to back, one elsewhere), 2 records, 2 sessions each, clock 0..3 |
| `attendance_live` | Two sweepers, one crash or lost write: each record is finished by one sweep (`OneSweepPerRecord`), only the fault wedges a record, and one at most (`NoWedgedRecord`), `OverdueShiftCloses`, `DutyConverges` | 1 record, 1 session, 1 fault |
| `approvals_serial` | `OneOpenLateRequest` always; `ApprovalUsedOnce`, but for one more use per failure | 3 requests, 1 fault, clock 0..4 |
| `attendance_exceptions` | `OneOpenPerType` with ticks and punches at work at once: one open row for each writer that reports the type, and one more per failed lookup; `NoShowIsFlagged` although a tick dies | 2 ticks at once, 1 fault, 1 supervisor move or re-entry, clock 0..5 |
| `payroll_review` | Two requests of the CRM at once: nobody is let through to a record once it is closed (`ClosedIsReadOnly`), and a correction is entered no more often than there are requests and failures (`CorrectionsSettle`) | 2 requests at once, 2 corrections, 2 closes or saves, 1 punch, 1 fault |
| `leader` | `OneLeader`, `JobsWhenCalm` while heartbeats are atomic and prompt; `Settles` after any two mishaps | 3 workers, TTL of 3 periods, 2 mishaps |
| `leader_race` | violation of "We must run scheduled jobs on ONE instance" | 2 workers, 1 race |
| `alarm` | The station implements `SignalReporting`, with faults; a stored alarm is in a case or in a burst that began with one, but for three named exceptions (`AlarmHasCase`); a window has one case for each channel (`CasesPerChannel`); a case nobody takes reaches both levels (`UnansweredCaseEscalates`) | 3 kinds of report (alarm, restore, keep-alive), 2 reports, 1 channel, 1 operator move, 1 fault, clock 0..2 |
| `wallet` | `LogIsLedger`, but for one lost refund per failure; `NoUnbilledSend`, `NoOverdraft`, `RechargeArrives` with a fault | 2 messages (one falls back, one fans out), 1 recharge, 1 webhook request and the job, 2 deliveries, 1 fault, look-back of 2 in 3 periods; all four settings |
| `radio_check` | `CountersAddUp`, but for one outcome per failure; `FirstOutcomeStands` and `RollCallEnds` with a fault | 1 session, an unmanned station, a supervisor on duty who may add an entry of his own, 1 fault |
| `shift_schedule` | Transactions that overlap: a guard is booked twice only after two of his were in flight at once, and with an ad hoc row (`NoDoubleBooking`); no stale and no missing shift once all is answered (`ScheduleIsSound`) | 2 stations with a position each, 2 guards, 2 assignments, 4 requests, 3 slots of which two overlap, 1 fault |
| `shift_removed` | violation of "soft-deleted rows never linger to block a re-create" | 2 positions of one station, 1 guard, 2 assignments, 3 requests, no fault |

**Why these bounds are enough for the question asked.** Every hazard needs at most two actors on one row, so one guard,
one shift (or three), one record (or two, where a second one is the error) suffice; a third worker is there for the leader because
a third may claim what two fight over. The clock goes past the last threshold of the component (end of the late shift plus
grace is reached for the early one; no-show and missed clock-out thresholds lie inside the horizon; twice the SLA of an
urgent case does; the job's look-back ends inside the horizon). Two sessions
give the one re-entry a record needs to be reopened; two corrections let one be decided twice with another open.
In `wallet` the balance pays for one message and a half, so that two that pass the gate together compete for it. In
`radio_check` the unmanned station, the supervisor's own entry and the entry made for him are the three ways a call comes to be. The
four requests of `shift_schedule` are two assignments and two edits that overlap, which is what a double booking takes, or an edit, a
removal and a new assignment. Two requests at once are what `payroll_review` needs for a close, or a second decision, between check and write.
One fault anywhere covers each single point of failure. `Records` and `Sweepers` are symmetric sets in
`attendance_serial` and `Editors` in `payroll_review` (their only temporal properties are safety properties), requests,
assignments and guards in `shift_schedule`, which checks invariants only. No symmetry is used where liveness is checked.

**Deadlock** is not checked where time, requests and rows are bounded: when the bounds are used up the model stops, the
system does not. The leader's and the roll call's models have no such bound on what must go on, and there deadlock is checked.

**What is not let overlap.** `Overlap = FALSE` in the attendance runs says that one guard's app sends its next punch after the last one
was answered, and `approvals_serial` has one tap and one supervisor. `Concurrent = FALSE` in the schedule says the same of the requests that
create and delete assignments; edits of positions overlap each other, and transactions overlap in every run. That is how the
app's screens work and what the comments of the handlers take for granted; the code does not enforce it. Sweeps, jobs and the other
actors interleave freely. The properties say what is left when such requests do overlap (`AtOnce` of `Attendance`, `Concurrent` in
`NoDoubleBooking`), the theorems prove it, and section 6 lists what happens then.

**Fairness.** A handler that was accepted runs to its end unless it dies (`WF` of its steps; the roll call's handlers may even
stop anywhere, except in the session a tick started); interval timers keep
firing, on whichever worker leads (`WF` of the sweeps, the duty job, the detection job, the roll-call job, heartbeats); PM2 starts workers (`WF` of
`Boot`); time passes (`WF` of `Tick`, `TimePasses`). Nothing forces a guard to punch, a supervisor to decide, to poll or to end a poll, a
post to reply, an operator to move or a job to end. Weak
fairness suffices: each of those steps, once enabled, stays enabled until it is taken, or (a heartbeat while another worker is
in its own) is enabled for good again after finitely many steps, because time waits for the heartbeats that are due.
One step needs strong fairness: a panel that has no ACK sends its report again (`Retransmit`), which is disabled while a
copy is in the pipeline; that is the protocol of the panel, outside this code, and DC-09 asks for it. The wallet's model states no
fairness: `RechargeArrives` says what must have happened by a time, and time does not pass a period in which the job has not run.

## 4. Proofs

TLAPS checks, for every value of the constants that meets the modules' assumptions:

| Theorem | Assumption | Says |
|---|---|---|
| `AttendanceProofs!TypeCorrect` | none | types, and every request or sweep works on an existing row of its own guard |
| `AttendanceProofs!OneStation` | finitely many punches at once | `Spec => []OneStationAtATime`: a guard is on at one station, or, if punches of his overlap, at no more than can be at work at once |
| `AttendanceProofs!OneRecord` | the same | `Spec => []OneRecordPerShift`: the same of the records of one shift |
| `AttendanceProofs!RecordsImplementPosts` | `~Overlap` | `Spec => ImplementsGuardPost`, the whole refinement |
| `AttendanceProofs!NoneIsWedged` | none | `Spec => []NoWedgedRecord`: no more wedged records than failures, overlapping punches and sweeps included |
| `AttendanceProofs!OneSweep` | `MaxSessions = 1` | `Spec => []OneSweepPerRecord`, overlaps and faults included |
| `PunchApprovalsProofs!TypeCorrect` | none | types |
| `PunchApprovalsProofs!OneUsePerApproval` | one tap and one supervisor at a time | `Spec => []ApprovalUsedOnce`: one use of an approval, and one more for each failure |
| `PunchApprovalsProofs!AskedOnce` | the same | `Spec => []OneOpenLateRequest`, whatever fails |
| `PunchApprovalsProofs!LateRequestsPerActor` | finitely many taps and supervisors, one supervisor at least | fewer open late requests than taps and supervisors together, whatever overlaps or fails |
| `PunchApprovalsProofs!UsesPerActor` | finitely many taps and supervisors | an approval is used at most once for each pair of a tap and a supervisor, and once for each failure |
| `PayrollReviewProofs!TypeCorrect` | none | types |
| `PayrollReviewProofs!ReadOnlyWhenClosed` | none | `Spec => ClosedIsReadOnly`, whatever overlaps, fails, dies or punches: each change a closed record still sees uses up a request let through before; with one request at a time there are none |
| `PayrollReviewProofs!CorrectionsOnce` | finitely many requests at once | `Spec => []CorrectionsSettle`: entered if applied, no more often than there are requests and failures, and less often than that if rejected |
| `SchedulerProofs!TypeCorrect` | none | types of `SchedulerLeader` |
| `SchedulerProofs!LeaderIsUnique` | none | `Spec => []OneLeader` |
| `SchedulerProofs!JobsAreExclusive` | none | `Spec => []JobsWhenCalm` |
| `SchedulerProofs!ExceptionTypes` | none | types of `AttendanceExceptions`, with any number of writers at once |
| `SchedulerProofs!OneOpenException` | finitely many jobs | `X!Spec => []X!OneOpenPerType`, with `X == INSTANCE AttendanceExceptions`: ticks and punches overlap as they like |
| `AlarmStationProofs!TypeCorrect` | none | types |
| `AlarmStationProofs!ReportsSafely` | none | `Spec => Reporting!Safe`: the safety part of the refinement, on any number of channels |
| `AlarmStationProofs!FewCasesPerWindow` | finitely many channels | `Spec => []CasesPerChannel`, whatever fails, operators and sweep do; on one channel a window has one case |
| `AlarmStationProofs!AlarmsReachOperators` | none | `Spec => []AlarmHasCase`, on any number of channels, with any codes and failures |
| `CommunicationWalletProofs!TypeCorrect` | none | types |
| `CommunicationWalletProofs!NobodyOverdraws` | none | `Spec => []NoOverdraft` |
| `CommunicationWalletProofs!LogBalances` | none | `Spec => []LogIsLedger`, for any number of messages, channels, recharges and failures |
| `CommunicationWalletProofs!SendsArePaid` | none | `Spec => []NoUnbilledSend`, whatever fails and wherever a sender dies |
| `CommunicationWalletProofs!RechargesArrive` | none | `Spec => []RechargeArrives`, for any look-back and number of failures |
| `RadioCheckProofs!TypeCorrect` | none | types; failures included, no session counts more outcomes than it has calls |
| `RadioCheckProofs!CountersHold` | none | `Spec => []CountersAddUp`, for any number of sessions, stations and failures |
| `RadioCheckProofs!CountsAreBacked` | none | no session that runs, or has run, counts more outcomes than it has settled calls, whatever fails |
| `RadioCheckProofs!OutcomesStand` | none | `Spec => FirstOutcomeStands`, for any number of sessions and stations |
| `ShiftScheduleProofs!TypeCorrect` | none | types |
| `ShiftScheduleProofs!NobodyIsBookedTwice` | none | `Spec => []NoDoubleBooking`: who is booked twice has had two transactions in flight at once, and, where creating and deleting is serial and nothing failed, an ad hoc row |
| `ShiftScheduleProofs!NothingIsStale` | `Concurrent = FALSE` | `Spec => []NothingStale`, for any number of edits, passes and stations, with transactions that overlap |
| `ShiftScheduleProofs!ScheduleSound` | `Concurrent = FALSE` | `Spec => []ScheduleIsSound`: the one above and `NothingMissing` |

The modules' assumptions are about the shape of the constants, and that `Null`, the job's name and the name of an entry
a supervisor adds (`Minted`) are none of the other values. TLC evaluates them in the runs. `AttendanceExceptions` is instantiated by
`SchedulerProofs`, not extended (its names are the leader's), so its assumption is a hypothesis of the two theorems about it.

*Attendance.* Where a guard's punches follow one another, `OneStationAtATime` says one station. That is not inductive: between the elsewhere check and the write, the handler relies on what it
read. `IInv` adds, for each step of a clock-in, what it still knows (`PunchKnows`): past the check, the guard is open at his
own station only; about to create a record, and until that record carries its shift, no record carries it.
This stays true because of the other actors only a request of the same guard opens or ties a record, and there is none
(`OnePunchPerGuard`): sweeps and the job merely close and flag (`RowsKeep`). `RowsMatchSched` ties a record's shift to its station.
The refinement of `GuardPost` rests on the same invariant: every step writes at most one row and moves no record to another
guard or station (`StepsWriteOneRow`), so a guard's post changes only when his first record opens or his last one closes.

`NoWedgedRecord` and `OneSweepPerRecord` hold without `~Overlap`. `SessionsInv` says that as long as a record has the one session it
was created with, still open, every handler and sweep that has loaded the record holds that very session (`IsLoaded`), so whoever
writes sessions back closes it or appends to it. A record closed with that session open is therefore held by the sweep that
claimed it and has not reached the session yet (`ClosingGoesOn`), unless a failure stopped that sweep; `FewLeft` counts the records nobody is
about to finish (`Left`) and shows that a failure adds one (`FaultHits`). `SweepAlone`: a sweep holds a record only
after its own claim, which takes an open record (`NewlyClosed`), and where there is no re-entry a closed record stays closed
(`NeverReopened`). With re-entries two sweeps may hold one record, which the code allows.

Where they overlap, the two properties are a count. `FewPosts` counts, for a guard, the stations he is on at
with those his clock-ins aim at once past the elsewhere check (`Posted`): that check lets one aim at a new station only where the guard is on at
none, so that all the stations are then aims, one for each request at most. `FewRecords` counts the records of a shift with
the requests that have found none and have not tied theirs (`Creators`): a request joins them only while there is no record. Sweeps and the
job open nothing, and a failure only ends a request, so neither count
depends on them. Both bounds are reached: two punches at once are on at two stations, or leave two records. The theorems put the two cases
together.

*Punch approvals.* A handler checks a request in one query and writes it in a later one. `Inv` says what it still knows in
between (`Taken`, `Undecided`), and that an approval that let a punch through is spent or is about to be spent by the punch that
holds it (`Spent`), but for one use per failure: a consumption that fails, or a handler that dies before it, leaves the approval usable once more.
The step that needs the assumption is the decision: written over a consumption it would revive the approval. With several taps and
supervisors, `Rationed` counts what is granted: a supervisor approves a request at most once, because a decided one is
never pending again, and each approval lets each tap through once. `Crowd` counts the open late requests with those about to come: a tap that has found none creates one, and a supervisor
who loaded a request may bring it back.

*Payroll.* `Passed` are the requests let through to write the record. While it is closed nobody joins them: every check that is still to come
finds it locked and the switch on (`NobodyPasses`), and a failed read of the settings means the default, which is on. Only they change what
administrators decide, and each ends or moves on when it does (`OnlyPassedWrite`). `LockSeen` says that they are never all: whoever closes
the record, or turns the switch on for one that is locked, is a request itself, and not one of them. With one request at a time there is then
nobody left to change it. Punches write the same row, but neither approval nor values.
For the corrections, `Tally` counts, for each, its entries and the requests that have loaded it undecided and have not entered it yet (`Before`);
once it is decided nobody joins these. Who refuses it is not one of them, which is the one entry less of a rejected
correction (`Refusal`).

*Exceptions.* A writer looks up the open types and creates what is missing in later queries. The writers that are about to create a row of a
type (`About`) are counted with its open rows: one that looks up and finds a row open does not join them, and only the writers that report the
type ever do (`ReportsOwn`). So there are at most as many as those (`Crew`). A lookup that fails counts as "nothing is open" and costs one
more row; resolving and reviewing merely close.

*Leader.* `CalmInv` says that while `Calm` holds `LeaseInv` does: only one worker is within a heartbeat, a leader's pid is in the
lock, and the lock's age is at most the time since the leader's heartbeat plus one period for each renewal that could not open
the file. `Calm` bounds that below the TTL, so nobody else finds the lock stale. The arithmetic
`(mishaps + 1) * Period < Ttl` is the exact slack: the run's constants (TTL of three periods) leave room for one failed renewal,
the code's (10 s and 30 s) as well.

*Alarm.* A message that is past its first write names a row of its own report (`Sound`), which is all that `Acknowledge` needs to be
an `Answer` of a stored report; several copies of a report, on several channels, store it once for the abstract specification and stutter
afterwards.
For the cases, `Room` counts those of the current window that were never resolved with the messages about to open one (`Opening`): a message joins these
only where its search found no case, and there are no more messages than channels. Operators and the sweep
change no case's time, and whatever is not open has been resolved (`Unresolved`).
`Bursts` gives each stored row the one its burst began with, by induction over the rows: a row that is not a repeat of any is its own, and one that is a repeat
of an earlier row takes over that row's. What began a burst is in a case, or its handler is still at work (`Kept`), or something named in
the property went wrong with it: its handler was cut short (`cut`), it had found a later row with its time and taken that for the original
(`crossed`), or its code is that of a restore, which opens no case. The zone and code are all the runaway check compares; for SIA codes the
third does not happen, for Contact ID, where alarm and restore differ by a qualifier, it does (section 6).

*Wallet.* Debit and credit are transactions on the locked row, so the balance a transaction checks is the one it changes
(`Locked`); the only way below zero without the opt-in is to settle for more segments than were reserved, which `extra` counts.
`Books` is the bookkeeping behind `LogIsLedger` and `NoUnbilledSend`. The balance is opening plus recharges less what
is billed and what the messages in flight have reserved, and a message is reserved for exactly between its debit and its settlement
or refund. A refund that fails, or a sender that dies holding a reservation, leaves the wallet short of it; `Short` is that difference, and every
step either leaves it alone or is a failure and adds one estimate (`Recorded`). So the balance is never more than the log says, and less by at
most the dearest estimate for each failure. For the messages, with failures only one direction survives: what came in covers the balance, the cheapest bill of each accepted
message and what those still at the provider hold (`PaidFor`, with the reservations of the latter as slack), since a debit is never lost, merely
not given back. The sums are over arbitrary finite sets; their few laws (adding a member, changing one addend, comparing
two sums) are proved from the recursion of the fold by taking a smallest set that would be a counterexample.
`Owed` is the argument for `RechargeArrives`: a recharge that is paid and not credited has been missed by each run of the job since it was
paid, each of which cost a failure, unless the job is at work on it; time does not pass a period without a run, and there are
more runs left in the window than failures.

*Radio check.* Replies and expiries ask in the update itself whether the call is open. The other writers of outcomes (the cancellation, the
orphan sweep) do not, and are harmless only because their session has ended, which sessions do for good (`Cancels`, `TheJob`);
an expiry is of a call whose deadline has passed or that has its outcome already (`Advancers`), and entries are created only
where there is none (`Starters`, `Polls`). For the counters, `Bounded` says that no session has counted, or is about to count, more
outcomes than it has settled calls (`CountsAreBacked` is its visible part), and `Even` that while it runs the numbers differ by at most one per failure. Each handler counts
for the session of its own call (`Own`), and outcomes change only from open to settled or in a session that has ended
(`EntriesKeep`), so that a step adds one call to one side and one counter to the other.

*Shift schedule.* A transaction inserts what it found free when it began, beside the rows it has destroyed. That it is still free when it commits
(`Free`) is known only for a guard of whom no other transaction was in flight since, that is, who is not in `crossed`. Nothing of that
needs requests to be serial. Of such a guard with two clashing rows, `Posted` says that in a serial and undisturbed run one of them is ad
hoc: he has one rotation, its transaction destroys the old row of it before it inserts, and it holds what it has destroyed until it
commits (`Held`). From here on creating and deleting are serial: a request that creates or deletes has the schedule to itself (`Alone`).
`Awaited` and `Owned` say that a regeneration goes on only while somebody waits for it, so that it is over when such a request begins.
`Kept` is what makes `NothingStale` inductive. A row, or a slot a call has computed, that is not its position's (`Timely`) is so
because of an edit that is still to be passed on (`PendingEdit`): it is written and has not reached the run, or has flagged it, or
the next pass has yet to load the assignments. Once that pass has loaded them, every row of the station has a call that
will replace it (`FreshRows`). A row of an assignment that is not active belongs to a removal between its first and its second write (`LiveRows`).
For `NothingMissing`, `Filled` says why an active assignment that nothing is pending for has its row. `OneRotation`: a guard has one
active rotation, so without an ad hoc assignment beside it no row of his is in the way. `Inserts`: a transaction that found the slot free
is about to insert it. `Placed`: when the regeneration is through with an assignment, its row is due, or in place, or one of the exceptions
that the property names keeps it away; and nobody else's transaction takes it away again, because a transaction removes
rows of its own assignment, of its guard's ended ones, and of another guard on the same position, which is the case `Displaced`.

## 5. Only model-checked, or not covered

- Liveness (`OverdueShiftCloses`, `DutyConverges`, `NoShowIsFlagged`, `Settles`, `UnansweredCaseEscalates`, `RollCallEnds` and the
  fairness of `SignalReporting`): temporal reasoning under fairness stays with TLC.
- The fairness that these properties stand on, hence also `ENABLED`, is evaluated by TLC only. Every invariant that a run checks is
  also stated by a theorem. Where the table gives an assumption on what overlaps (`ImplementsGuardPost`, `ApprovalUsedOnce`,
  `OneOpenLateRequest`, `ScheduleIsSound`) the property is false without it; for the approvals `LateRequestsPerActor` and `UsesPerActor` say how far.
- That no two channels are at work at once is a bound of the `alarm` run only: with two it takes several million states without the liveness
  property, and passes. The theorems are about any number.
- `NoWedgedRecord` is claimed for a record with one session. A re-entry that loaded the record before the sweep's claim
  leaves a closed record with an open session (`guardMeClockIn.ts:284`).
- `OneOpenPerType`, `ClosedIsReadOnly`, `CorrectionsSettle`, `NoDoubleBooking` and `AlarmHasCase` state what the code keeps, which is less than its
  comments say: section 6 has the difference. Whether a punch writes a closed record, and what becomes of the rest of the settings blob, is no
  property's subject, because the code keeps nothing there.
- `NoShowIsFlagged` ends long before the 24 h after which the job stops looking at a shift.
- `NothingMissing` excepts a second guard on an occupied position and an ad hoc assignment beside a rotation (section 6).
- Geofences, selfies, notifications, audit rows, severities and wording are left out: nothing modelled reads them.
- Shifts do not change while guards punch: `Attendance` takes the schedule as a constant, and `ShiftSchedule` has no punches.

## 6. Known disagreements between code and comments

`leader_race` and `shift_removed` are runs (section 3). The others were seen with the same modules under other constants or properties,
or by reading. Properties named here are in the modules and in no run, because the code does not have them.

*Attendance*
- Back-to-back shifts at one station: between the end of one and the sweep's grace, the punch for the next opens a second record
  ("a guard may hold only ONE open clock-in at a time", `guardMeClockIn.ts:233`). `OneOpenClockIn` with the constants of
  `attendance_serial` and `Grace = 2`.
- A clock-out that loads the record before the sweep's claim writes over it, and leaves `forcedClockOut` and hours that do not belong to the
  sessions (`guardMeClockOut.ts:137`). `RecordAgreesWithSessions` with the constants of `attendance_serial`.
- Two overlapping clock-ins of one guard (double tap) create two records for one shift, or put him on the clock at two stations:
  `Overlap = TRUE`. There are never more than requests at once (`OneRecord`, `OneStation`).
  `attendanceService.ts` says "One attendance record per shift/day (no duplicate rows)".
- A worker that dies between the sweep's claim and its close of the session, or a close whose failure is swallowed, leaves a record that is
  closed with an open session and no hours, which no later sweep selects (`forcedClockOutService.ts:71`, `:84`): one for each failure
  (`NoWedgedRecord`).
- A re-entry writes `punchOutTime` only if it was loaded non-null; a record closed by the sweep meanwhile stays closed with an open
  session (`guardMeClockIn.ts:284`).
- The CRM's duty switch: its filter `[null, null]` adds no condition (`guardShiftRepository.ts:578-593`), so switching off
  overwrites punch-out, station and observations of every record the guard ever had, and switching on creates one only for a guard
  who has none (`securityGuardOnDutyPatch.ts:113`).

*Punch approvals*
- A late guard who asks again is answered with his approved request after it has lapsed, for the rest of the day
  (`guardMeClockIn.ts:214`). `OpenRequestIsUsable` with no faults.
- Two supervisors who both loaded a request as pending overwrite each other's decision, and a decision overwrites a
  withdrawal or a consumption (`attendanceAdminService.ts:502`): two `Supervisors`.
- Two taps at once create two requests (`guardMeClockInRequestCreate.ts:147`); and an approval whose consumption fails or dies
  after the punch can be used again (`guardMeClockIn.ts:324`): one fault.
  How many can come of it is `LateRequestsPerActor` and `UsesPerActor`.

*Attendance exceptions*
- "this whole block runs once per (shiftId,type)" (`server.ts:849`): an exception resolved while its cause persists is raised and the guard told
  again. `GuardToldOnce` with no faults.
- "At most one OPEN exception per (shiftId,type)" (`models/attendanceException.ts:9`): a detection tick that overlaps a punch, or another tick,
  creates a second one. There is one for each writer that reports the type (`OneOpenPerType`), at most.
- The immediate alert for critical exceptions names the no-show, but is sent only for the results of clock-in and
  clock-out (`attendanceService.ts:181`); the no-show comes from the detection job and never reaches it.

*Payroll review*
- "edits/corrections/approvals are then rejected" (`attendanceAdminService.ts:414`): a request that was let through before the period was
  closed still writes the record afterwards, once (`ClosedIsReadOnly` says that nothing else does).
- Clock-out, re-entry and the sweep write records of a closed period, and so does the plain deletion of a record, which has no check
  of `locked` (`guardShiftService.destroyAll`), against "read-only" in `guardShift.ts:166`.
- Two approvers of one correction both enter it, and one who enters it and one who refuses it leave it entered and rejected
  (`attendanceAdminService.ts:725`): `CorrectionsSettle` bounds the entries. A crash between the record and the correction leaves a correction
  that can be applied again (`:737`).
- `saveSettings` never reads the stored settings (`attendanceAdminService.ts:753-765`): it replaces the blob with the client's body
  merged over the defaults. Nothing has to overlap or fail for a loss: a client reads the settings, a period is closed or the rates are
  saved, and the client's save puts `lastPeriodClose`, `guardRates` or the lock switch back to what it had read; a body without a section
  resets that section. `closePeriod` and `saveGuardRates` do read the blob first (`:772`), and two of them that overlap lose one part.
- Settings that cannot be read count as the defaults, which the close or the rates then store (`nominaSettings.ts:154`): one fault.
- `correct()` in `attendanceAdminService.ts` says it raises an exception for the approvals queue; it creates a correction and flags
  the record, and no exception.

*Scheduler leader*
- A leader whose event loop stalls past the TTL runs jobs beside its successor: mishap `stall`.
- A tick that never returns keeps its name in `inFlight`, and the job never runs again on that worker (`jobsMonitor.ts:32`).

*Alarm central station*
- A DC-09 keep-alive opens a case: `receiver.ts:57` says "ACK but do not create a case", but the payload goes through the whole pipeline, and its
  code is not in the table of codes. `LinkTestOpensNoCase`.
- When case or event cannot be written no ACK is sent; the panel's retransmission within 60 s is taken for a runaway repeat
  and answered, and the alarm is in no case: the row is in `cut`, the first exception of `AlarmHasCase`.
- Two copies of an alarm on two channels, both stored before either looks for repeats, each take the other for the original:
  both are answered and neither is in a case (`crossed`, the second exception).
- The runaway check compares zone and code, not the qualifier: in Contact ID a restore within 60 s suppresses the next alarm of its zone
  (the third).
- Two messages at once may open two cases for one window (`normalizer.ts:228`); there is no more than one for each channel
  (`CasesPerChannel`).
- Raw Contact ID and Sur-Gard frames are never answered (`receiver.ts:270-274`).
- The escalation sweep writes level and priority from rows it loaded up to 500 cases earlier, in no order beyond 500
  (`escalation.ts:26`); operators can move a closed case back.

*Communications wallet*
- "Negative balance is allowed only for CRITICAL sends AND when the tenant opted in" (`messageRouter.ts:401`): `debitWallet`
  allows it whenever the tenant opted in. `OnlyCriticalOverdraws`.
- A session that is paid late is announced by an event the webhook does not handle; only the reconciliation credits it, inside its 48 h.

*Radio check*
- A tick between the creation of the session and its first entry completes an empty roll call; a manual start beside a running roll
  call stacks another one.
- After a session has ended, the orphan sweep writes `no_response` over a reply that landed after it read its list (`server.ts:522`).
- "every state transition is an idempotent conditional UPDATE" (`radioCheckService.ts:379`): the counters, the completion and the
  orphan sweep are not. One stale call expires at a time; a supervisor may be given two entries, or one in a session that is over; a cancelled
  session that died half way keeps pending entries.

*Shift schedule*
- A second guard on an occupied position destroys the first one's shifts.
- A soft-deleted row keeps its guard's new row out. When a second guard's transaction, on the position of the removed
  assignment, purges it, nothing generates the kept-out row (the case `Displaced(b)` of `Blocked`). It takes three
  assignments, one more than the run has: proving `ScheduleSound` brought the case to light, and TLC shows it with three of them.
- "A guard can't be two places at once" (`shiftGenerationService.ts:628`) is false for a guard with an ad hoc assignment beside his
  rotation, with one administrator who waits for each answer: the rotation stands at `late`; an ad hoc assignment at `night` is created at the same
  station, and its row is dropped for the overlap; the position is edited to `day` (the ad hoc assignment's transaction overlaps the rotation's, still sees `late`, and its row stays away), then
  back to `late`. In the second regeneration both transactions are in one batch again (`:677-685`): the one of the rotation sees no row of the ad hoc assignment, that one sees the
  rotation's row still at `day`, and both insert. `NoDoubleBooking` says when it can happen and with which rows.
- With `Concurrent = TRUE`, two assignments created at once book a guard twice in his rotations too, and one that is deleted
  while a regeneration runs leaves shifts behind.
- A row of an ad hoc assignment that was dropped for an overlap stays missing when the other one moves. The map that coalesces
  regenerations is one per worker, so that edits on two workers are not coalesced.

## 7. Plan

Done of the earlier plan: the alarm station, the wallet, the roll call and the schedule, the refinement proofs of attendance and
(its safety part) of the station, and a theorem for every invariant that a run checks. What is left, in order:

1. *Composition*: `PunchApprovals` and `Attendance`, the approval gates in front of real records; leader and attendance, the sweep
   running where the leader is, and twice after a race.
2. *Patrols*: a tag scan completes an assignment in one transaction, and a job raises one alert for each missed round.
3. *Supervisor clock*: as an instance of the attendance pattern, with breaks.
4. *Alarm station*: two panels and the police dispatch; *wallet*: delivery callbacks; *radio check*: two overlapping sessions.

Theorems left: what the compositions will need (that a punch behind the gates keeps `OneStationAtATime`, that the sweep runs where the
leader is), and what is left of `NothingStale` when assignments are created and deleted concurrently.
