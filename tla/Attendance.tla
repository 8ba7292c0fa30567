----------------------------- MODULE Attendance -----------------------------
(***************************************************************************)
(* Guard attendance: the guardShift table, the denormalised                 *)
(* securityGuard.isOnDuty flag, and everything that writes them while a      *)
(* shift runs - the guard's clock-in and clock-out handlers, the forced      *)
(* clock-out sweep and the duty reconciliation job.                          *)
(*                                                                         *)
(* The handlers hold no lock and no transaction across their awaits, so a    *)
(* step here is what happens between two awaits that touch the modelled      *)
(* rows.  A Sequelize instance update writes only the columns that differ    *)
(* from the values the instance was LOADED with; the steps keep that         *)
(* snapshot and write exactly those columns.                                 *)
(***************************************************************************)
EXTENDS Integers, Sequences, FiniteSets

CONSTANTS
    Guards, Stations,  \* securityGuard and station ids
    Shifts,            \* generated shift rows
    Sched,             \* [Shifts -> [guard, station, start, end]]
    Assigned,          \* <<guard, station>> pairs with an active assignment
    Records,           \* guardShift row ids (a bound on the rows created)
    Punches,           \* slots of clock-in / clock-out requests in progress
    Sweepers,          \* workers that may run the forced clock-out sweep
    Null,
    EarlyWindow,       \* how early before scheduledStart a punch is accepted
    MatchWindow,       \* matchScheduledShift's +-12 h
    DayLength,         \* ticks in a calendar day
    Grace, MaxOpen,    \* GRACE_MIN and MAX_OPEN_HOURS of the sweep
    Overlap,           \* may one guard have two punch requests in flight?
    MaxSessions,       \* bound: sessions per record
    MaxFaults,         \* bound: crashes and swallowed write errors
    Horizon            \* bound: the clock

ASSUME SchedAssumption ==
    Sched \in [Shifts -> [guard : Guards, station : Stations, start : Nat, end : Nat]]
ASSUME BoundAssumption ==
    /\ Horizon \in Nat /\ MaxFaults \in Nat /\ MaxSessions \in Nat
    /\ EarlyWindow \in Nat /\ MatchWindow \in Nat /\ Grace \in Nat /\ MaxOpen \in Nat
    /\ DayLength \in Nat \ {0} /\ Overlap \in BOOLEAN

VARIABLES
    now,        \* the wall clock
    rows,       \* guardShift: [Records -> Row or Null]
    onDuty,     \* securityGuard.isOnDuty
    call,       \* the punch request in each slot
    sweep,      \* the forced clock-out sweep of each worker
    syncOff,    \* DutySync has run its first UPDATE and not yet its second
    faults      \* faults so far

vars == <<now, rows, onDuty, call, sweep, syncOff, faults>>

Time     == 0 .. Horizon
Session  == [in : Nat, out : Nat \cup {Null}]
Sessions == Seq(Session)
Row == [guard : Guards, station : Stations, shift : Shifts \cup {Null},
        in : Nat, out : Nat \cup {Null}, end : Nat \cup {Null},
        sessions : Sessions, forced : BOOLEAN, hours : Sessions \cup {Null}]

ASSUME NullAssumption ==
    /\ Null \notin Nat /\ Null \notin Shifts
    /\ Null \notin Records /\ Null \notin Stations /\ Null \notin Row

Live(r)    == rows[r] # Null
Open(r)    == Live(r) /\ rows[r].out = Null
OpenOf(g)  == {r \in Records : Open(r) /\ rows[r].guard = g}
Newest(S)  == {r \in S : \A q \in S : rows[q].in <= rows[r].in}

-----------------------------------------------------------------------------
(* sessions: the JSON list of in/out pairs on a record *)

HasOpenSession(s)     == s # << >> /\ s[Len(s)].out = Null
\* Mutant: the session pushed without its out field.
MutantAppendSession(s, t) == Append(s, [in |-> t])
AppendSession(s, t)   == Append(s, [in |-> t, out |-> Null])
OpenIndexes(s)        == {i \in 1 .. Len(s) : s[i].out = Null}
LastOpen(s)           == {i \in OpenIndexes(s) : \A j \in OpenIndexes(s) : j <= i}
CloseSession(s, t)    == [i \in 1 .. Len(s) |->
                            IF i \in LastOpen(s) THEN [s[i] EXCEPT !.out = t] ELSE s[i]]

-----------------------------------------------------------------------------
(* matchScheduledShift and findOpenOrShiftRecord *)

Distance(a, b) == IF a < b THEN b - a ELSE a - b

NearShifts(g, s, t) ==
    {h \in Shifts : /\ Sched[h].guard = g /\ Sched[h].station = s
                    /\ Sched[h].start <= t + MatchWindow
                    /\ t <= Sched[h].end + MatchWindow}

Covering(g, s, t) == {h \in NearShifts(g, s, t) : Sched[h].start <= t /\ t <= Sched[h].end}

\* The covering shift that starts first, else the one whose start is nearest
\* (the first of them in start order), else none.
MatchScheduledShift(g, s, t) ==
    LET near == NearShifts(g, s, t)
        cov  == Covering(g, s, t)
        Dist(h) == Distance(Sched[h].start, t)
    IN  IF near = {} THEN {Null}
        ELSE IF cov # {} THEN {h \in cov : \A k \in cov : Sched[h].start <= Sched[k].start}
        ELSE {h \in near : \A k \in near :
                 \/ Dist(h) < Dist(k)
                 \/ Dist(h) = Dist(k) /\ Sched[h].start <= Sched[k].start}

Day(t) == t \div DayLength

OfShift(g, h)      == {r \in Records : Live(r) /\ rows[r].guard = g /\ rows[r].shift = h}
WalkUps(g, s, t)   == {r \in Records : /\ Live(r) /\ rows[r].guard = g
                                       /\ rows[r].station = s /\ rows[r].shift = Null
                                       /\ Day(rows[r].in) = Day(t)}

\* Mutant: findOpenOrShiftRecord without its first lookup, by shift.
MutantOpenOrShiftRecords(g, s, h, t) == WalkUps(g, s, t)

\* findOne over these, newest first.
OpenOrShiftRecords(g, s, h, t) ==
    IF h # Null /\ OfShift(g, h) # {} THEN OfShift(g, h) ELSE WalkUps(g, s, t)

\* A shift today, or an assignment when no shift was generated at all (lag).
MayWorkToday(g, s, t) ==
    LET here == {h \in Shifts : Sched[h].guard = g /\ Sched[h].station = s}
    IN  IF here = {} THEN <<g, s>> \in Assigned
        ELSE \E h \in here : Day(Sched[h].start) <= Day(t) /\ Day(t) <= Day(Sched[h].end)

-----------------------------------------------------------------------------
(* Requests and sweeps in progress *)

Idle == [pc |-> "idle"]

\* A clock-in or clock-out request: the guard, the station, the time it read,
\* the matched shift, isOnDuty as loaded, the record it works on (Null: to be
\* created) and the sessions and punchOutTime that record had when loaded.
Punch == [pc : {"elsewhere", "find", "write", "dutyOn", "applyIn",
                "load", "close", "dutyOff", "applyOut"},
          guard : Guards, station : Stations \cup {Null}, at : Nat, match : Shifts \cup {Null},
          duty : BOOLEAN, id : Records \cup {Null}, fresh : BOOLEAN,
          sessions : Sessions, out : Nat \cup {Null}]

\* A sweep: its candidates left, and the one it has claimed.
Sweep == [pc : {"claim", "reload", "guard", "sessions", "dutyOff", "apply"},
          at : Nat, todo : SUBSET Records, id : Records \cup {Null},
          duty : BOOLEAN, sessions : Sessions]

TypeOK ==
    /\ now \in Time
    /\ rows \in [Records -> Row \cup {Null}]
    /\ onDuty \in [Guards -> BOOLEAN]
    /\ call \in [Punches -> Punch \cup {Idle}]
    /\ sweep \in [Sweepers -> Sweep \cup {Idle}]
    /\ syncOff \in BOOLEAN
    /\ faults \in 0 .. MaxFaults

Init ==
    /\ now = 0
    /\ rows = [r \in Records |-> Null]
    /\ onDuty = [g \in Guards |-> FALSE]
    /\ call = [p \in Punches |-> Idle]
    /\ sweep = [w \in Sweepers |-> Idle]
    /\ syncOff = FALSE
    /\ faults = 0

At(p, pc)     == call[p] # Idle /\ call[p].pc = pc
SweepAt(w, pc) == sweep[w] # Idle /\ sweep[w].pc = pc

Goto(p, pc) == call' = [call EXCEPT ![p].pc = pc]
Return(p)   == call' = [call EXCEPT ![p] = Idle]

MayStart(p, g) ==
    /\ call[p] = Idle
    /\ ~Overlap => ~\E q \in Punches : call[q] # Idle /\ call[q].guard = g

-----------------------------------------------------------------------------
(* POST /guard/me/clock-in *)

\* The gates up to the window gate, which read only static data, the clock and
\* the securityGuard row.  A refused punch changes nothing, so it is no step; a
\* late one passes with a supervisor's approval, which module PunchApprovals
\* models, so here late is allowed.  A failing match query is a fault: it
\* counts as "no shift".
ClockInBegin(p, g, s) ==
    /\ MayStart(p, g)
    /\ MayWorkToday(g, s, now)
    /\ \E m \in MatchScheduledShift(g, s, now) \cup {Null} :
          /\ m # Null => now + EarlyWindow >= Sched[m].start
          /\ IF m \in MatchScheduledShift(g, s, now)
             THEN UNCHANGED faults
             ELSE faults < MaxFaults /\ faults' = faults + 1
          /\ call' = [call EXCEPT ![p] =
                [pc |-> "elsewhere", guard |-> g, station |-> s, at |-> now, match |-> m,
                 duty |-> onDuty[g], id |-> Null, fresh |-> FALSE,
                 sessions |-> << >>, out |-> Null]]
    /\ UNCHANGED <<now, rows, onDuty, sweep, syncOff>>

\* Mutant: no openElsewhere check.
MutantClockInElsewhere(p) ==
    /\ At(p, "elsewhere") /\ Goto(p, "find")
    /\ UNCHANGED <<now, rows, onDuty, sweep, syncOff, faults>>

\* findOne of an open record of the guard, in no order: refuse at another station.
ClockInElsewhere(p) ==
    /\ At(p, "elsewhere")
    /\ LET c == call[p] IN
       \/ OpenOf(c.guard) = {} /\ Goto(p, "find")
       \/ \E r \in OpenOf(c.guard) :
            IF rows[r].station # c.station THEN Return(p) ELSE Goto(p, "find")
    /\ UNCHANGED <<now, rows, onDuty, sweep, syncOff, faults>>

ClockInFind(p) ==
    /\ At(p, "find")
    /\ LET c == call[p]
           found == OpenOrShiftRecords(c.guard, c.station, c.match, c.at)
       IN  \/ found = {} /\ Goto(p, "write")
           \/ \E r \in Newest(found) :
                IF HasOpenSession(rows[r].sessions) THEN Return(p)
                ELSE /\ Len(rows[r].sessions) < MaxSessions
                     /\ call' = [call EXCEPT ![p] =
                           [c EXCEPT !.pc = "write", !.id = r,
                                     !.sessions = rows[r].sessions, !.out = rows[r].out]]
    /\ UNCHANGED <<now, rows, onDuty, sweep, syncOff, faults>>

\* existing.update(...): punchOutTime is written only if it was loaded non-null.
ClockInReopen(p) ==
    /\ At(p, "write") /\ call[p].id # Null
    /\ LET c == call[p] IN
          /\ rows' = [rows EXCEPT ![c.id] =
                [@ EXCEPT !.sessions = AppendSession(c.sessions, c.at),
                          !.out = IF c.out = Null THEN rows[c.id].out ELSE Null]]
          /\ Goto(p, "dutyOn")
    /\ UNCHANGED <<now, onDuty, sweep, syncOff, faults>>

\* guardShift.create(...): the row is not yet tied to its shift.
ClockInCreate(p) ==
    /\ At(p, "write") /\ call[p].id = Null
    /\ \E r \in Records :
          /\ rows[r] = Null
          /\ rows' = [rows EXCEPT ![r] =
                [guard |-> call[p].guard, station |-> call[p].station, shift |-> Null,
                 in |-> call[p].at, out |-> Null, end |-> Null,
                 sessions |-> AppendSession(<< >>, call[p].at),
                 forced |-> FALSE, hours |-> Null]]
          /\ call' = [call EXCEPT ![p] =
                [@ EXCEPT !.pc = "dutyOn", !.id = r, !.fresh = TRUE]]
    /\ UNCHANGED <<now, onDuty, sweep, syncOff, faults>>

\* securityGuard.update({ isOnDuty: true }): nothing to write if loaded true.
ClockInDuty(p) ==
    /\ At(p, "dutyOn")
    /\ onDuty' = IF call[p].duty THEN onDuty ELSE [onDuty EXCEPT ![call[p].guard] = TRUE]
    /\ IF call[p].fresh THEN Goto(p, "applyIn") ELSE Return(p)
    /\ UNCHANGED <<now, rows, sweep, syncOff, faults>>

\* applyClockIn, on the first clock-in of a record only.
ApplyClockIn(p) ==
    /\ At(p, "applyIn")
    /\ LET c == call[p] IN
          rows' = [rows EXCEPT ![c.id] =
             [@ EXCEPT !.shift = c.match,
                       !.end = IF c.match = Null THEN Null ELSE Sched[c.match].end]]
    /\ Return(p)
    /\ UNCHANGED <<now, onDuty, sweep, syncOff, faults>>

-----------------------------------------------------------------------------
(* POST /guard/me/clock-out *)

ClockOutBegin(p, g) ==
    /\ MayStart(p, g)
    /\ call' = [call EXCEPT ![p] =
          [pc |-> "load", guard |-> g, station |-> Null, at |-> 0, match |-> Null,
           duty |-> onDuty[g], id |-> Null, fresh |-> FALSE,
           sessions |-> << >>, out |-> Null]]
    /\ UNCHANGED <<now, rows, onDuty, sweep, syncOff, faults>>

\* The newest open record, or not_clocked_in.  An early clock-out needs an
\* approval (module PunchApprovals); refused, it changes nothing here.
ClockOutLoad(p) ==
    /\ At(p, "load")
    /\ LET c == call[p] IN
       \/ Return(p)
       \/ \E r \in Newest(OpenOf(c.guard)) :
            call' = [call EXCEPT ![p] =
               [c EXCEPT !.pc = "close", !.id = r, !.at = now, !.sessions = rows[r].sessions]]
    /\ UNCHANGED <<now, rows, onDuty, sweep, syncOff, faults>>

\* activeClock.update(...): unconditional, from the loaded sessions.
ClockOutClose(p) ==
    /\ At(p, "close")
    /\ LET c == call[p]
           s == CloseSession(c.sessions, c.at)
       IN  /\ rows' = [rows EXCEPT ![c.id] =
                 [@ EXCEPT !.out = c.at,
                           !.sessions = IF s = c.sessions THEN rows[c.id].sessions
                                        ELSE s]]
           /\ call' = [call EXCEPT ![p] = [c EXCEPT !.pc = "dutyOff", !.sessions = s]]
    /\ UNCHANGED <<now, onDuty, sweep, syncOff, faults>>

ClockOutDuty(p) ==
    /\ At(p, "dutyOff")
    /\ onDuty' = IF call[p].duty THEN [onDuty EXCEPT ![call[p].guard] = FALSE] ELSE onDuty
    /\ Goto(p, "applyOut")
    /\ UNCHANGED <<now, rows, sweep, syncOff, faults>>

\* applyClockOut: hoursWorked is the sum of the sessions the handler holds; the
\* model keeps the sessions that were summed.
ApplyClockOut(p) ==
    /\ At(p, "applyOut")
    /\ rows' = [rows EXCEPT ![call[p].id].hours = call[p].sessions]
    /\ Return(p)
    /\ UNCHANGED <<now, onDuty, sweep, syncOff, faults>>

-----------------------------------------------------------------------------
(* runForcedShiftEndClockOut, every minute on the leader.  runJob skips a tick *)
(* while the worker's previous sweep is still running.                         *)

Overdue(r) ==
    /\ Open(r)
    /\ IF rows[r].end # Null THEN rows[r].end + Grace <= now ELSE rows[r].in + MaxOpen <= now

\* Mutant: the candidate query without its branch for records of no shift.
MutantCandidates == {r \in Records : Overdue(r) /\ rows[r].end # Null}

Candidates == {r \in Records : Overdue(r)}

\* The next candidate, or the end of the sweep.
NextCandidate(w, todo) ==
    sweep' = [sweep EXCEPT ![w] = IF todo = {} THEN Idle
                                  ELSE [@ EXCEPT !.pc = "claim", !.todo = todo, !.id = Null]]

SweepScan(w) ==
    /\ sweep[w] = Idle /\ Candidates # {}
    /\ sweep' = [sweep EXCEPT ![w] =
          [pc |-> "claim", at |-> now, todo |-> Candidates, id |-> Null,
           duty |-> FALSE, sessions |-> << >>]]
    /\ UNCHANGED <<now, rows, onDuty, call, syncOff, faults>>

\* Mutant: the claim without "AND punchOutTime IS NULL".
MutantSweepClaim(w) ==
    /\ SweepAt(w, "claim")
    /\ \E r \in sweep[w].todo :
          /\ rows' = [rows EXCEPT ![r] = [@ EXCEPT !.out = sweep[w].at, !.forced = TRUE]]
          /\ sweep' = [sweep EXCEPT ![w] =
                [@ EXCEPT !.pc = "reload", !.id = r, !.todo = sweep[w].todo \ {r}]]
    /\ UNCHANGED <<now, onDuty, call, syncOff, faults>>

\* UPDATE ... WHERE id = ? AND punchOutTime IS NULL.
SweepClaim(w) ==
    /\ SweepAt(w, "claim")
    /\ \E r \in sweep[w].todo :
          IF rows[r].out = Null
          THEN /\ rows' = [rows EXCEPT ![r] = [@ EXCEPT !.out = sweep[w].at, !.forced = TRUE]]
               /\ sweep' = [sweep EXCEPT ![w] =
                     [@ EXCEPT !.pc = "reload", !.id = r, !.todo = sweep[w].todo \ {r}]]
          ELSE NextCandidate(w, sweep[w].todo \ {r}) /\ UNCHANGED rows
    /\ UNCHANGED <<now, onDuty, call, syncOff, faults>>

\* The row is loaded again after the claim, then the guard.
SweepReload(w) ==
    /\ SweepAt(w, "reload")
    /\ sweep' = [sweep EXCEPT ![w] =
          [@ EXCEPT !.pc = "guard", !.sessions = rows[sweep[w].id].sessions]]
    /\ UNCHANGED <<now, rows, onDuty, call, syncOff, faults>>

SweepLoadGuard(w) ==
    /\ SweepAt(w, "guard")
    /\ sweep' = [sweep EXCEPT ![w] =
          [@ EXCEPT !.pc = "sessions", !.duty = onDuty[rows[sweep[w].id].guard]]]
    /\ UNCHANGED <<now, rows, onDuty, call, syncOff, faults>>

\* Mutant: the sweep closes the record and not its session.
MutantSweepCloseSession(w) ==
    /\ SweepAt(w, "sessions")
    /\ sweep' = [sweep EXCEPT ![w].pc = "dutyOff"]
    /\ UNCHANGED <<now, rows, onDuty, call, syncOff, faults>>

\* fresh.update({ sessions }): a failure is swallowed and the sweep goes on; the
\* instance keeps the closed sessions in memory either way.
SweepCloseSession(w) ==
    /\ SweepAt(w, "sessions")
    /\ LET x == sweep[w]
           s == CloseSession(x.sessions, x.at)
       IN  /\ \/ /\ rows' = IF s = x.sessions THEN rows
                            ELSE [rows EXCEPT ![x.id].sessions = s]
                 /\ UNCHANGED faults
              \/ faults < MaxFaults /\ faults' = faults + 1 /\ UNCHANGED rows
           /\ sweep' = [sweep EXCEPT ![w] = [x EXCEPT !.pc = "dutyOff", !.sessions = s]]
    /\ UNCHANGED <<now, onDuty, call, syncOff>>

\* securityGuard.update({ isOnDuty: false }): a failure is swallowed.
SweepDuty(w) ==
    /\ SweepAt(w, "dutyOff")
    /\ \/ /\ onDuty' = IF sweep[w].duty
                       THEN [onDuty EXCEPT ![rows[sweep[w].id].guard] = FALSE] ELSE onDuty
          /\ UNCHANGED faults
       \/ faults < MaxFaults /\ faults' = faults + 1 /\ UNCHANGED onDuty
    /\ sweep' = [sweep EXCEPT ![w].pc = "apply"]
    /\ UNCHANGED <<now, rows, call, syncOff>>

SweepApplyClockOut(w) ==
    /\ SweepAt(w, "apply")
    /\ \/ /\ rows' = [rows EXCEPT ![sweep[w].id].hours = sweep[w].sessions]
          /\ UNCHANGED faults
       \/ faults < MaxFaults /\ faults' = faults + 1 /\ UNCHANGED rows
    /\ NextCandidate(w, sweep[w].todo)
    /\ UNCHANGED <<now, onDuty, call, syncOff>>

-----------------------------------------------------------------------------
(* syncGuardDutyStatus: two set-based UPDATEs, every five minutes *)

SyncOn ==
    /\ ~syncOff
    /\ onDuty' = [g \in Guards |-> onDuty[g] \/ OpenOf(g) # {}]
    /\ syncOff' = TRUE
    /\ UNCHANGED <<now, rows, call, sweep, faults>>

\* Mutant: the duty job only ever turns guards on.
MutantSyncOff ==
    /\ syncOff /\ syncOff' = FALSE
    /\ UNCHANGED <<now, rows, onDuty, call, sweep, faults>>

SyncOff ==
    /\ syncOff
    /\ onDuty' = [g \in Guards |-> onDuty[g] /\ OpenOf(g) # {}]
    /\ syncOff' = FALSE
    /\ UNCHANGED <<now, rows, call, sweep, faults>>

-----------------------------------------------------------------------------
(* The environment: time passes; a worker dies or a query throws *)

Tick ==
    /\ now < Horizon
    /\ now' = now + 1
    /\ UNCHANGED <<rows, onDuty, call, sweep, syncOff, faults>>

PunchDies(p) ==
    /\ call[p] # Idle /\ faults < MaxFaults
    /\ Return(p)
    /\ faults' = faults + 1
    /\ UNCHANGED <<now, rows, onDuty, sweep, syncOff>>

SweepDies(w) ==
    /\ sweep[w] # Idle /\ faults < MaxFaults
    /\ sweep' = [sweep EXCEPT ![w] = Idle]
    /\ faults' = faults + 1
    /\ UNCHANGED <<now, rows, onDuty, call, syncOff>>

-----------------------------------------------------------------------------
\* What a request already accepted does next.
PunchStep(p) ==
    \/ ClockInElsewhere(p) \/ ClockInFind(p)
    \/ ClockInReopen(p) \/ ClockInCreate(p)
    \/ ClockInDuty(p) \/ ApplyClockIn(p)
    \/ ClockOutLoad(p) \/ ClockOutClose(p) \/ ClockOutDuty(p) \/ ApplyClockOut(p)

SweepStep(w) ==
    \/ SweepScan(w) \/ SweepClaim(w) \/ SweepReload(w) \/ SweepLoadGuard(w)
    \/ SweepCloseSession(w) \/ SweepDuty(w) \/ SweepApplyClockOut(w)

SyncStep == SyncOn \/ SyncOff

Next ==
    \/ \E p \in Punches, g \in Guards, s \in Stations : ClockInBegin(p, g, s)
    \/ \E p \in Punches, g \in Guards : ClockOutBegin(p, g)
    \/ \E p \in Punches : PunchStep(p) \/ PunchDies(p)
    \/ \E w \in Sweepers : SweepStep(w) \/ SweepDies(w)
    \/ SyncStep
    \/ Tick

Spec == Init /\ [][Next]_vars

\* A request accepted runs to its end, the interval timers keep firing, time
\* passes.  Nothing makes a guard punch.
Fairness ==
    /\ WF_vars(Tick) /\ WF_vars(SyncStep)
    /\ \A p \in Punches : WF_vars(PunchStep(p))
    /\ \A w \in Sweepers : WF_vars(SweepStep(w))

FairSpec == Spec /\ Fairness

-----------------------------------------------------------------------------
(* Properties *)

\* The handlers and sweeps that hold record r between two steps.
HeldByPunch(r) == \E p \in Punches : call[p] # Idle /\ call[p].id = r
HeldBySweep(r) == \E w \in Sweepers : sweep[w] # Idle /\ sweep[w].id = r
AtRest(r)      == Live(r) /\ ~HeldByPunch(r) /\ ~HeldBySweep(r)

\* How many punches of one guard may be at work at once, and the stations he is on
\* the clock at.
AtOnce == IF Overlap THEN Cardinality(Punches) ELSE 1
OpenStations(g) == {rows[r].station : r \in OpenOf(g)}

\* A guard is on the clock at one station, whatever the sweep, the duty job and crashes
\* do meanwhile (guardMeClockIn's openElsewhere check); punches that overlap all pass the
\* check, so with them at one station for each punch that can be at work at once.
OneStationAtATime == \A g \in Guards : Cardinality(OpenStations(g)) <= AtOnce

\* "One attendance record per shift/day (no duplicate rows)": a shift of a guard has one
\* record; find-then-create lets punches that overlap create one each, and never more,
\* however many come later.
OneRecordPerShift == \A g \in Guards, h \in Shifts : Cardinality(OfShift(g, h)) <= AtOnce

\* "a guard may hold only ONE open clock-in at a time, anywhere"
\* It does not hold: README, section 6.
OneOpenClockIn ==
    \A q, r \in Records : Open(q) /\ Open(r) /\ rows[q].guard = rows[r].guard => q = r

\* A record with one session, closed and with nobody working on it, has it closed: an open
\* one makes every later clock-in of that shift answer already_clocked_in and every
\* clock-out answer not_clocked_in.  A crash or a swallowed write wedges one record.
Wedged == {r \in Records : /\ AtRest(r) /\ rows[r].out # Null
                           /\ Len(rows[r].sessions) = 1 /\ HasOpenSession(rows[r].sessions)}
NoWedgedRecord == Cardinality(Wedged) <= faults

\* "punchOutTime = last session.out (null while open); hoursWorked = sum of (out-in)
\* across sessions": a closed record nobody is working on agrees with its sessions.
\* It does not hold: README, section 6.
RecordAgreesWithSessions ==
    \A r \in Records : AtRest(r) /\ rows[r].out # Null =>
        /\ rows[r].out = rows[r].sessions[Len(rows[r].sessions)].out
        /\ rows[r].hours = rows[r].sessions

\* "exactly one PM2 worker closes each shift": two sweeps never finish the same record
\* (of a shift without re-entry; a record reopened is swept again).
OneSweepPerRecord ==
    \A v, w \in Sweepers :
        sweep[v] # Idle /\ sweep[w] # Idle /\ sweep[v].id = sweep[w].id /\ sweep[v].id # Null
        => v = w

\* The station a guard is on the clock at, and the abstract specification of it.
PostOf(g) == IF OpenOf(g) = {} THEN Null
             ELSE CHOOSE s \in Stations : \E r \in OpenOf(g) : rows[r].station = s

Posts == INSTANCE GuardPost WITH Off <- Null, post <- [g \in Guards |-> PostOf(g)]

\* Opening, reopening, closing and sweeping records, a guard is seen to arrive at
\* one station and leave it before arriving anywhere else.
ImplementsGuardPost == Posts!Spec

\* Every record past its scheduled end (or open for MaxOpen) gets closed.
OverdueShiftCloses == \A r \in Records : Overdue(r) ~> ~Open(r)

\* Once punches stop, isOnDuty settles on "has an open record", crashes included.
DutyConverges == <>[](\A g \in Guards : onDuty[g] = (OpenOf(g) # {}))

=============================================================================
