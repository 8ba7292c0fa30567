------------------------------- MODULE RadioCheck -------------------------------
(***************************************************************************)
(* The roll call ("pase de novedades") of one tenant: a session calls every     *)
(* station and supervisor at once, each has a window to answer, and the minute   *)
(* job and every reply advance the session until nobody is left to wait for.     *)
(* Starts, replies, supervisor polls, cancellations and the job interleave       *)
(* query by query.  Deadlines are the time left, so that the clock needs no bound.*)
(***************************************************************************)
EXTENDS Integers, FiniteSets

CONSTANTS
    Stations,
    Unmanned,      \* stations with nobody on duty
    Supervisors,
    OnDuty,        \* supervisors that a tenant-wide session calls
    Sessions,      \* bound: sessions that may be started
    Job,           \* the minute job, as a caller of advanceSession
    Null,
    Window,        \* RADIO_REPORT_WINDOW_SECONDS
    Patience,      \* perStationTimeoutSeconds
    MaxFaults      \* bound: queries that fail, handlers that die

\* A supervisor's app may create an entry of its own beside the one startSession creates.
Minted(u) == <<u>>
Targets   == Stations \cup OnDuty \cup {Minted(u) : u \in Supervisors}
Calls     == Sessions \X Targets
Callers   == Calls \cup {Job}

ASSUME RadioAssumption ==
    /\ Unmanned \subseteq Stations /\ OnDuty \subseteq Supervisors
    /\ IsFiniteSet(Stations) /\ IsFiniteSet(Supervisors)
    /\ Window \in Nat \ {0} /\ Patience \in Nat \ {0} /\ MaxFaults \in Nat
    /\ Job \notin Calls /\ Null \notin Sessions \cup Calls
    /\ \A u \in Supervisors : Minted(u) \notin Stations \cup OnDuty

VARIABLES
    session,    \* radioCheckSession.status
    entry,      \* radioCheckEntry.status of each call
    left,       \* time to timeoutAt, of a notified call
    responded,  \* respondedCount
    missed,     \* noResponseCount
    start,      \* startSession, by the session it starts
    advance,    \* advanceSession, by the reply that called it, or the job
    cancel,     \* cancelSession; bound: once for each session
    poll,       \* ensureSupervisorEntry; bound: one poll of a supervisor at a time
    job,        \* runRadioCheckScheduler
    due,        \* lastAutoRunAt is older than the interval, inside the active hours
    faults

counts == <<responded, missed>>
rows   == <<session, entry, left, counts>>
vars   == <<rows, start, advance, cancel, poll, job, due, faults>>

Unsettled == {"pending", "notified"}
Settled   == {"responded", "no_response", "skipped"}
Time      == 0 .. Window + Patience
Starter   == [pc : {"idle", "create", "notify"}, todo : SUBSET Targets,
              all : BOOLEAN, left : Time]
Advancer  == [pc : {"idle", "answered", "load", "expire", "count", "active", "next",
                    "notify", "complete"},
              session : Sessions \cup {Null}, call : Calls \cup {Null}]
Scheduler == [pc : {"idle", "advance", "live", "sweep", "auto", "check", "create",
                    "start"},
              todo : SUBSET Sessions, orphans : SUBSET Calls, session : Sessions \cup {Null}]
Poller    == [pc : {"idle", "claim", "mint"}, session : Sessions \cup {Null},
              call : Calls \cup {Null}]
Stopped   == [pc |-> "idle", todo |-> {}, all |-> FALSE, left |-> 0]
Resting   == [pc |-> "idle", session |-> Null, call |-> Null]

SessionOf(c) == c[1]
CallsOf(s)   == {s} \X Targets

TypeOK ==
    /\ session \in [Sessions -> {"none", "running", "completed", "cancelled"}]
    /\ entry \in [Calls -> {"none"} \cup Unsettled \cup Settled]
    /\ left \in [Calls -> Time]
    /\ responded \in [Sessions -> 0 .. Cardinality(Targets)]
    /\ missed \in [Sessions -> 0 .. Cardinality(Targets)]
    /\ start \in [Sessions -> Starter]
    /\ advance \in [Callers -> Advancer]
    /\ \A a \in Callers : advance[a].pc # "idle" => advance[a].session # Null
    /\ \A a \in Callers : advance[a].pc \in {"expire", "notify"} => advance[a].call # Null
    /\ cancel \in [Sessions -> {"never", "called", "pending", "done"}]
    /\ poll \in [Supervisors -> Poller]
    /\ \A u \in Supervisors : poll[u].pc = "mint" => poll[u].session # Null
    /\ \A u \in Supervisors : poll[u].pc = "claim" => poll[u].call # Null
    /\ job \in Scheduler
    /\ job.pc = "start" => job.session # Null
    /\ due \in BOOLEAN /\ faults \in 0 .. MaxFaults

Init ==
    /\ session = [s \in Sessions |-> "none"]
    /\ entry = [c \in Calls |-> "none"] /\ left = [c \in Calls |-> 0]
    /\ responded = [s \in Sessions |-> 0] /\ missed = [s \in Sessions |-> 0]
    /\ start = [s \in Sessions |-> Stopped]
    /\ advance = [a \in Callers |-> Resting]
    /\ cancel = [s \in Sessions |-> "never"]
    /\ poll = [u \in Supervisors |-> Resting]
    /\ job = [pc |-> "idle", todo |-> {}, orphans |-> {}, session |-> Null]
    /\ due = FALSE /\ faults = 0

Fault == faults < MaxFaults /\ faults' = faults + 1

-----------------------------------------------------------------------------
(* startSession: all stations and the supervisors on duty, or one station *)

Create(s, all, targets) ==
    /\ session[s] = "none" /\ targets # {}
    /\ session' = [session EXCEPT ![s] = "running"]
    /\ start' = [start EXCEPT ![s] = [pc |-> "create", todo |-> targets, all |-> all, left |-> 0]]

StartManually(s) ==
    /\ \/ Create(s, TRUE, Stations \cup OnDuty)
       \/ \E p \in Stations : Create(s, FALSE, {p})
    /\ UNCHANGED <<entry, left, counts, advance, cancel, poll, job, due, faults>>

\* An unmanned station is skipped, unless it alone was asked for.
CreateEntry(s, t) ==
    /\ start[s].pc = "create" /\ t \in start[s].todo
    /\ entry' = [entry EXCEPT ![<<s, t>>] =
          IF t \in Unmanned /\ start[s].all THEN "skipped" ELSE "pending"]
    /\ start' = [start EXCEPT ![s].todo = @ \ {t}]
    /\ UNCHANGED <<session, left, counts, advance, cancel, poll, job, due, faults>>

NotifyOrReturn(st) == IF st.todo = {} THEN Stopped ELSE [st EXCEPT !.pc = "notify"]

\* notifyAllEntries: one deadline for all, set when the pending entries are listed.
ListPending(s) ==
    /\ start[s].pc = "create" /\ start[s].todo = {}
    /\ LET pending == {t \in Targets : entry[<<s, t>>] = "pending"}
       IN  start' = [start EXCEPT ![s] =
              NotifyOrReturn([start[s] EXCEPT !.left = Window, !.todo = pending])]
    /\ UNCHANGED <<rows, advance, cancel, poll, job, due, faults>>

\* The conditional update pending -> notified.
Claim(c, time) ==
    IF entry[c] = "pending"
    THEN entry' = [entry EXCEPT ![c] = "notified"] /\ left' = [left EXCEPT ![c] = time]
    ELSE UNCHANGED <<entry, left>>

NotifyAll(s, t) ==
    /\ start[s].pc = "notify" /\ t \in start[s].todo
    /\ Claim(<<s, t>>, start[s].left)
    /\ start' = [start EXCEPT ![s] = NotifyOrReturn([start[s] EXCEPT !.todo = @ \ {t}])]
    /\ UNCHANGED <<session, counts, advance, cancel, poll, job, due, faults>>

StartFails(s) ==
    /\ start[s].pc # "idle" /\ Fault
    /\ start' = [start EXCEPT ![s] = Stopped]
    /\ UNCHANGED <<rows, advance, cancel, poll, job, due>>

-----------------------------------------------------------------------------
(* Outcomes *)

Settle(calls, st) ==
    /\ entry' = [c \in Calls |-> IF c \in calls THEN st ELSE entry[c]]
    /\ left' = [c \in Calls |-> IF c \in calls THEN 0 ELSE left[c]]

InState(s, st) == {c \in CallsOf(s) : entry[c] = st}

-----------------------------------------------------------------------------
(* submitReply *)

\* Only the first reply wins.  Mutants: every reply does; a late one does.
MutantEveryReply == {"notified", "pending", "responded"}
MutantAnswerable == {"notified", "pending", "no_response"}
Answerable == {"notified", "pending"}

Reply(c) ==
    /\ entry[c] \in Answerable /\ advance[c].pc = "idle"
    /\ Settle({c}, "responded")
    /\ advance' = [advance EXCEPT ![c] = [pc |-> "answered", session |-> SessionOf(c), call |-> Null]]
    /\ UNCHANGED <<session, counts, start, cancel, poll, job, due, faults>>

CountReply(a) ==
    /\ advance[a].pc = "answered"
    /\ responded' = [responded EXCEPT ![advance[a].session] = @ + 1]
    /\ advance' = [advance EXCEPT ![a].pc = "load"]
    /\ UNCHANGED <<session, entry, left, missed, start, cancel, poll, job, due, faults>>

-----------------------------------------------------------------------------
(* ensureSupervisorEntry: the app of a supervisor polls *)

Has(u, s) == \E t \in {u, Minted(u)} \cap Targets : entry[<<s, t>>] # "none"

PollGoes(u, pc, s, c) == poll' = [poll EXCEPT ![u] = [pc |-> pc, session |-> s, call |-> c]]
PollEnds(u)           == poll' = [poll EXCEPT ![u] = Resting]

\* The two look-ups, of the running session and of an entry in it: only a pending entry is
\* written, later.  A poll that only returns what it found is left out; the deadline a poll
\* writes is counted from its write, a query or two later than in the code.
PollFind(u, s) ==
    /\ session[s] = "running" /\ poll[u] = Resting
    /\ \/ \E t \in {u, Minted(u)} \cap Targets :
             entry[<<s, t>>] = "pending" /\ PollGoes(u, "claim", s, <<s, t>>)
       \/ ~Has(u, s) /\ PollGoes(u, "mint", s, Null)
    /\ UNCHANGED <<rows, start, advance, cancel, job, due, faults>>

PollClaim(u) ==
    /\ poll[u].pc = "claim"
    /\ Claim(poll[u].call, Window)
    /\ PollEnds(u)
    /\ UNCHANGED <<session, counts, start, advance, cancel, job, due, faults>>

\* No entry was found: one is created, already notified.
Mint(u) ==
    /\ poll[u].pc = "mint"
    /\ LET c == <<poll[u].session, Minted(u)>> IN
       /\ entry' = [entry EXCEPT ![c] = "notified"]
       /\ left' = [left EXCEPT ![c] = Window]
    /\ PollEnds(u)
    /\ UNCHANGED <<session, counts, start, advance, cancel, job, due, faults>>

\* A poll that fails has written nothing: it needs no bound.
PollFails(u) ==
    /\ poll[u] # Resting
    /\ PollEnds(u)
    /\ UNCHANGED <<rows, start, advance, cancel, job, due, faults>>

-----------------------------------------------------------------------------
(* advanceSession *)

At(a, pc)     == advance[a].pc = pc
Goto(a, pc)   == advance' = [advance EXCEPT ![a].pc = pc]
Take(a, pc, c) == advance' = [advance EXCEPT ![a].pc = pc, ![a].call = c]
Leave(a)      == advance' = [advance EXCEPT ![a] = Resting]
Mine(a)       == CallsOf(advance[a].session)

Stale(c) == entry[c] = "notified" /\ left[c] = 0

\* One call at most is found past its deadline.
Load(a) ==
    /\ At(a, "load")
    /\ \/ session[advance[a].session] # "running" /\ Leave(a)
       \/ /\ session[advance[a].session] = "running"
          /\ \/ \E c \in Mine(a) : Stale(c) /\ Take(a, "expire", c)
             \/ (\A c \in Mine(a) : ~Stale(c)) /\ Goto(a, "active")
    /\ UNCHANGED <<rows, start, cancel, poll, job, due, faults>>

\* The conditional update notified -> no_response.  Mutant: by id alone.
MutantCalled(c) == TRUE
Called(c) == entry[c] = "notified"

Expire(a) ==
    /\ At(a, "expire")
    /\ LET c == advance[a].call IN
       IF Called(c)
       THEN Settle({c}, "no_response") /\ Take(a, "count", Null)
       ELSE UNCHANGED <<entry, left>> /\ Take(a, "active", Null)
    /\ UNCHANGED <<session, counts, start, cancel, poll, job, due, faults>>

CountMissed(a) ==
    /\ At(a, "count")
    /\ missed' = [missed EXCEPT ![advance[a].session] = @ + 1]
    /\ Goto(a, "active")
    /\ UNCHANGED <<session, entry, left, responded, start, cancel, poll, job, due, faults>>

\* An increment that fails is swallowed.
CountFails(a) ==
    /\ At(a, "answered") \/ At(a, "count")
    /\ Goto(a, IF At(a, "count") THEN "active" ELSE "load")
    /\ Fault
    /\ UNCHANGED <<rows, start, cancel, poll, job, due>>

FindActive(a) ==
    /\ At(a, "active")
    /\ IF \E c \in Mine(a) : entry[c] = "notified" THEN Leave(a) ELSE Goto(a, "next")
    /\ UNCHANGED <<rows, start, cancel, poll, job, due, faults>>

FindNext(a) ==
    /\ At(a, "next")
    /\ \/ \E c \in Mine(a) : entry[c] = "pending" /\ Take(a, "notify", c)
       \/ (\A c \in Mine(a) : entry[c] # "pending") /\ Goto(a, "complete")
    /\ UNCHANGED <<rows, start, cancel, poll, job, due, faults>>

NotifyNext(a) ==
    /\ At(a, "notify")
    /\ Claim(advance[a].call, Patience)
    /\ Leave(a)
    /\ UNCHANGED <<session, counts, start, cancel, poll, job, due, faults>>

\* The conditional update running -> completed.
Complete(a) ==
    /\ At(a, "complete")
    /\ session' = [session EXCEPT ![advance[a].session] = IF @ = "running" THEN "completed" ELSE @]
    /\ Leave(a)
    /\ UNCHANGED <<entry, left, counts, start, cancel, poll, job, due, faults>>

AdvanceFails(a) ==
    /\ advance[a].pc # "idle" /\ Fault
    /\ Leave(a)
    /\ UNCHANGED <<rows, start, cancel, poll, job, due>>

-----------------------------------------------------------------------------
(* cancelSession *)

Cancel(s) ==
    /\ session[s] # "none" /\ cancel[s] = "never"
    /\ session' = [session EXCEPT ![s] = IF @ = "running" THEN "cancelled" ELSE @]
    /\ cancel' = [cancel EXCEPT ![s] = "called"]
    /\ UNCHANGED <<entry, left, counts, start, advance, poll, job, due, faults>>

CancelCalled(s) ==
    /\ cancel[s] = "called"
    /\ Settle(InState(s, "notified"), "no_response")
    /\ cancel' = [cancel EXCEPT ![s] = "pending"]
    /\ UNCHANGED <<session, counts, start, advance, poll, job, due, faults>>

CancelPending(s) ==
    /\ cancel[s] = "pending"
    /\ Settle(InState(s, "pending"), "skipped")
    /\ cancel' = [cancel EXCEPT ![s] = "done"]
    /\ UNCHANGED <<session, counts, start, advance, poll, job, due, faults>>

CancelFails(s) ==
    /\ cancel[s] \in {"called", "pending"} /\ Fault
    /\ cancel' = [cancel EXCEPT ![s] = "done"]
    /\ UNCHANGED <<rows, start, advance, poll, job, due>>

-----------------------------------------------------------------------------
(* runRadioCheckScheduler, on the leader: a tick in progress keeps the next one out *)

JobAt(pc)   == job.pc = pc
JobGoto(pc) == job' = [job EXCEPT !.pc = pc]
JobRests    == job' = [pc |-> "idle", todo |-> {}, orphans |-> {}, session |-> Null]

\* (1) Every running session is advanced, one after the other.
JobTick ==
    /\ JobAt("idle")
    /\ job' = [job EXCEPT !.pc = "advance", !.todo = {s \in Sessions : session[s] = "running"}]
    /\ UNCHANGED <<rows, start, advance, cancel, poll, due, faults>>

JobAdvance(s) ==
    /\ JobAt("advance") /\ advance[Job] = Resting /\ s \in job.todo
    /\ advance' = [advance EXCEPT ![Job] = [pc |-> "load", session |-> s, call |-> Null]]
    /\ job' = [job EXCEPT !.todo = @ \ {s}]
    /\ UNCHANGED <<rows, start, cancel, poll, due, faults>>

\* (1b) First the notified entries, then which of their sessions are running, ...
JobNotified ==
    /\ JobAt("advance") /\ advance[Job] = Resting /\ job.todo = {}
    /\ job' = [job EXCEPT !.pc = "live", !.orphans = {c \in Calls : entry[c] = "notified"}]
    /\ UNCHANGED <<rows, start, advance, cancel, poll, due, faults>>

\* Mutant: completed sessions are taken to have nobody left.
MutantOrphan(c) == session[SessionOf(c)] = "cancelled"
Orphan(c) == session[SessionOf(c)] # "running"

JobLive ==
    /\ JobAt("live")
    /\ job' = [job EXCEPT !.pc = "sweep", !.orphans = {c \in @ : Orphan(c)}]
    /\ UNCHANGED <<rows, start, advance, cancel, poll, due, faults>>

\* ... and the rest is written by id.
JobSweep ==
    /\ JobAt("sweep")
    /\ Settle(job.orphans, "no_response")
    /\ job' = [job EXCEPT !.pc = "auto", !.orphans = {}]
    /\ UNCHANGED <<session, counts, start, advance, cancel, poll, due, faults>>

\* (2) The claim on lastAutoRunAt; then the check that no roll call is running.
JobClaim ==
    /\ JobAt("auto")
    /\ due' = FALSE
    /\ IF due THEN JobGoto("check") ELSE JobRests
    /\ UNCHANGED <<rows, start, advance, cancel, poll, faults>>

JobCheck ==
    /\ JobAt("check")
    /\ IF \E s \in Sessions : session[s] = "running" THEN JobRests ELSE JobGoto("create")
    /\ UNCHANGED <<rows, start, advance, cancel, poll, due, faults>>

JobStart(s) ==
    /\ JobAt("create")
    /\ Create(s, TRUE, Stations \cup OnDuty)
    /\ job' = [job EXCEPT !.pc = "start", !.session = s]
    /\ UNCHANGED <<entry, left, counts, advance, cancel, poll, due, faults>>

\* Nobody to call, or no session left in the bound.
JobCannotStart ==
    /\ JobAt("create")
    /\ Stations \cup OnDuty = {} \/ \A s \in Sessions : session[s] # "none"
    /\ JobRests
    /\ UNCHANGED <<rows, start, advance, cancel, poll, due, faults>>

JobStarted ==
    /\ JobAt("start") /\ start[job.session].pc = "idle"
    /\ JobRests
    /\ UNCHANGED <<rows, start, advance, cancel, poll, due, faults>>

\* A query throws, or the worker dies; the call of advanceSession dies with it.
JobFails ==
    /\ ~JobAt("idle") /\ ~JobAt("start") /\ Fault
    /\ JobRests
    /\ advance' = [advance EXCEPT ![Job] = Resting]
    /\ UNCHANGED <<rows, start, cancel, poll, due>>

IntervalElapses ==
    /\ ~due /\ \E s \in Sessions : session[s] = "none"
    /\ due' = TRUE
    /\ UNCHANGED <<rows, start, advance, cancel, poll, job, faults>>

TimePasses ==
    /\ \/ \E c \in Calls : entry[c] = "notified" /\ left[c] > 0
       \/ \E s \in Sessions : start[s].left > 0
    /\ left' = [c \in Calls |-> IF entry[c] = "notified" /\ left[c] > 0 THEN left[c] - 1 ELSE left[c]]
    /\ start' = [s \in Sessions |-> [start[s] EXCEPT !.left = IF @ > 0 THEN @ - 1 ELSE 0]]
    /\ UNCHANGED <<session, entry, counts, advance, cancel, poll, job, due, faults>>

-----------------------------------------------------------------------------
AdvanceStep(a) == \/ CountReply(a) \/ Load(a) \/ Expire(a) \/ CountMissed(a)
                  \/ FindActive(a) \/ FindNext(a) \/ NotifyNext(a) \/ Complete(a)
StartGoesOn(s) == ListPending(s) \/ \E t \in Targets : CreateEntry(s, t) \/ NotifyAll(s, t)
HandlerStep ==
    \/ \E s \in Sessions : StartGoesOn(s) \/ CancelCalled(s) \/ CancelPending(s)
    \/ \E c \in Calls : AdvanceStep(c)
PollStep(u) == PollClaim(u) \/ Mint(u)
JobStep ==
    \/ JobTick \/ JobNotified \/ JobLive \/ JobSweep \/ JobClaim \/ JobCheck
    \/ JobCannotStart \/ JobStarted \/ AdvanceStep(Job)
    \/ \E s \in Sessions : JobAdvance(s) \/ JobStart(s)

Next ==
    \/ \E s \in Sessions : StartManually(s) \/ StartFails(s) \/ Cancel(s) \/ CancelFails(s)
    \/ \E c \in Calls : Reply(c)
    \/ \E a \in Callers : CountFails(a) \/ AdvanceFails(a)
    \/ \E u \in Supervisors, s \in Sessions : PollFind(u, s)
    \/ \E u \in Supervisors : PollStep(u) \/ PollFails(u)
    \/ HandlerStep
    \/ JobStep \/ JobFails \/ IntervalElapses
    \/ TimePasses

\* The timer fires, its ticks go on, with the roll call a tick started, and time passes; nobody
\* has to reply, poll, start or cancel, and the handlers of those may stop anywhere.
TickStep == JobStep \/ (JobAt("start") /\ StartGoesOn(job.session))
Fairness == WF_vars(TickStep) /\ WF_vars(TimePasses)

Spec == Init /\ [][Next]_vars /\ Fairness

-----------------------------------------------------------------------------
(* Properties *)

Pending(s, pc) == {a \in Callers : advance[a].pc = pc /\ advance[a].session = s}

\* The counters of a running session tell how its calls ended: each reply and each missed
\* call is counted once, whoever else advanced the session meanwhile (submitReply,
\* advanceSession).  A failure loses one count at most, and no count is ever made up.
CountersAddUp ==
    \A s \in Sessions : session[s] = "running" =>
        LET replies == responded[s] + Cardinality(Pending(s, "answered"))
            misses  == missed[s] + Cardinality(Pending(s, "count"))
            settled == Cardinality(InState(s, "responded")) + Cardinality(InState(s, "no_response"))
        IN  /\ replies <= Cardinality(InState(s, "responded"))
            /\ misses <= Cardinality(InState(s, "no_response"))
            /\ settled <= replies + misses + faults

\* While the session runs, the first outcome of a call stands ("first reply wins"), and nobody
\* is set down as missing before his window is over.
FirstOutcomeStands ==
    [][\A c \in Calls : session[SessionOf(c)] = "running" =>
          /\ entry[c] \in Settled => entry'[c] = entry[c]
          /\ entry[c] = "notified" /\ entry'[c] = "no_response" => left[c] = 0]_vars

\* A session ends even if nobody answers, and no call is left ringing, whatever handler died
\* on the way ("must never leave a station stuck at 'notified'", server.ts): time and again
\* there is nothing left to wait for.
Busy(s) == session[s] = "running" \/ InState(s, "notified") # {}
RollCallEnds == \A s \in Sessions : []<>~Busy(s)
=============================================================================
