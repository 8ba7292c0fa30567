-------------------------- MODULE AttendanceProofs --------------------------
(***************************************************************************)
(* Proofs about module Attendance, for every schedule and any number of        *)
(* guards, stations, records, requests, sweeps and faults.                     *)
(***************************************************************************)
EXTENDS Attendance, SequenceTheorems, FiniteSetTheorems, TLAPS

-----------------------------------------------------------------------------
(* Rows and sessions *)

\* Closing the last open session of a list of sessions (closeSession) gives a list
\* of sessions of the same length.
LEMMA CloseSessionType ==
    ASSUME NEW s \in Sessions, NEW t \in Nat
    PROVE  CloseSession(s, t) \in Sessions
<1>1. /\ Len(s) \in Nat
      /\ \A i \in 1 .. Len(s) : s[i] \in Session
  BY DEF Sessions
<1>2. CloseSession(s, t) \in [1 .. Len(s) -> Session]
  BY <1>1 DEF CloseSession, Session
<1>3. Seq(Session) = UNION {[1 .. n -> Session] : n \in Nat}
  BY SeqDef
<1> QED
  BY <1>1, <1>2, <1>3 DEF Sessions

\* A punch appended to a list of sessions (appendSession) gives a list of sessions.
LEMMA AppendSessionType ==
    ASSUME NEW s \in Sessions, NEW t \in Nat
    PROVE  AppendSession(s, t) \in Sessions
BY AppendProperties DEF AppendSession, Sessions, Session

\* A record of fields is not the null id: IsRow tells rows in use from rows to come.
LEMMA RowNotNull == Null \notin Row
BY NullAssumption

LEMMA EmptySessions == << >> \in Sessions
BY DEF Sessions

-----------------------------------------------------------------------------
(* The inductive invariant, in layers *)

IsRow(r) == rows[r] \in Row

\* A request holds a live record of its own guard once it has one.
PunchHolds(p) ==
    call[p] # Idle =>
        /\ call[p].id # Null => IsRow(call[p].id) /\ rows[call[p].id].guard = call[p].guard
        /\ call[p].pc \in {"dutyOn", "applyIn", "close", "dutyOff", "applyOut"}
              => call[p].id # Null
        /\ call[p].pc \in {"elsewhere", "find", "write", "dutyOn", "applyIn"}
              => /\ call[p].station \in Stations
                 /\ call[p].match # Null => /\ Sched[call[p].match].guard = call[p].guard
                                            /\ Sched[call[p].match].station = call[p].station

\* A sweep's candidates, and the record it has claimed, are live records.
SweepHolds(w) ==
    sweep[w] # Idle =>
        /\ \A r \in sweep[w].todo : IsRow(r)
        /\ sweep[w].pc # "claim" => sweep[w].id \in Records /\ IsRow(sweep[w].id)

Holds ==
    /\ \A p \in Punches : PunchHolds(p)
    /\ \A w \in Sweepers : SweepHolds(w)

TypeInv == TypeOK /\ Holds

LEMMA InitTypeInv == Init => TypeInv
<1> SUFFICES ASSUME Init PROVE TypeInv
  OBVIOUS
<1>1. TypeOK
  <2>1. now \in Time /\ faults \in 0 .. MaxFaults
    BY BoundAssumption DEF Init, Time
  <2>2. rows \in [Records -> Row \cup {Null}] /\ onDuty \in [Guards -> BOOLEAN] /\ syncOff \in BOOLEAN
    BY DEF Init
  <2>3. call \in [Punches -> Punch \cup {Idle}] /\ sweep \in [Sweepers -> Sweep \cup {Idle}]
    BY DEF Init
  <2> QED
    BY <2>1, <2>2, <2>3 DEF TypeOK
<1>2. Holds
  BY DEF Init, Holds, PunchHolds, SweepHolds
<1> QED
  BY <1>1, <1>2 DEF TypeInv

\* What a step of a request may do to the rows: nothing, or make one of them a row.
LEMMA HoldsAfterPunch ==
    ASSUME TypeInv, NEW p \in Punches,
           UNCHANGED <<sweep, now, syncOff>>, faults' \in 0 .. MaxFaults,
           onDuty' \in [Guards -> BOOLEAN],
           rows' \in [Records -> Row \cup {Null}],
           \A r \in Records : IsRow(r) => rows'[r] \in Row /\ rows'[r].guard = rows[r].guard,
           NEW c \in Punch \cup {Idle},
           call' = [call EXCEPT ![p] = c],
           PunchHolds(p)'
    PROVE  TypeInv'
<1> USE DEF TypeInv, Holds
<1>1. TypeOK'
  BY DEF TypeOK
<1>2. ASSUME NEW q \in Punches PROVE PunchHolds(q)'
  <2>1. CASE q = p
    BY <2>1
  <2>2. CASE q # p
    <3>1. call'[q] = call[q]
      BY <2>2 DEF TypeOK
    <3>2. call[q] # Idle /\ call[q].id # Null => call[q].id \in Records
      BY DEF TypeOK, Punch
    <3> QED
      BY <3>1, <3>2 DEF PunchHolds, IsRow
  <2> QED
    BY <2>1, <2>2
<1>3. ASSUME NEW w \in Sweepers PROVE SweepHolds(w)'
  <2>1. sweep[w] # Idle => sweep[w].todo \subseteq Records
    BY DEF TypeOK, Sweep
  <2> QED
    BY <2>1 DEF SweepHolds, IsRow
<1> QED
  BY <1>1, <1>2, <1>3

LEMMA BeginTypeInv ==
    ASSUME TypeInv, NEW p \in Punches, NEW g \in Guards,
           (\E s \in Stations : ClockInBegin(p, g, s)) \/ ClockOutBegin(p, g)
    PROVE  TypeInv'
<1> USE DEF TypeInv
<1>0. onDuty[g] \in BOOLEAN /\ now \in Nat /\ faults \in 0 .. MaxFaults /\ << >> \in Sessions
  BY BoundAssumption, EmptySessions DEF TypeOK, Time
<1>1. ASSUME NEW s \in Stations, ClockInBegin(p, g, s) PROVE TypeInv'
  <2>1. PICK m \in MatchScheduledShift(g, s, now) \cup {Null} :
          /\ IF m \in MatchScheduledShift(g, s, now)
             THEN UNCHANGED faults
             ELSE faults < MaxFaults /\ faults' = faults + 1
          /\ call' = [call EXCEPT ![p] =
                [pc |-> "elsewhere", guard |-> g, station |-> s, at |-> now, match |-> m,
                 duty |-> onDuty[g], id |-> Null, fresh |-> FALSE,
                 sessions |-> << >>, out |-> Null]]
    BY <1>1 DEF ClockInBegin
  <2>2. m # Null => m \in Shifts /\ Sched[m].guard = g /\ Sched[m].station = s
    BY DEF MatchScheduledShift, NearShifts, Covering
  <2>3. faults' \in 0 .. MaxFaults
    BY <1>0, <2>1, BoundAssumption
  <2> DEFINE c == [pc |-> "elsewhere", guard |-> g, station |-> s, at |-> now, match |-> m,
                   duty |-> onDuty[g], id |-> Null, fresh |-> FALSE,
                   sessions |-> << >>, out |-> Null]
  <2>4. c \in Punch
    BY <1>0, <2>2 DEF Punch
  <2>5. call'[p] = c /\ call' = [call EXCEPT ![p] = c]
    BY <2>1 DEF TypeOK
  <2>6. PunchHolds(p)'
    BY <2>5, <2>2 DEF PunchHolds
  <2> HIDE DEF c
  <2> QED
    BY <1>0, <1>1, <2>3, <2>4, <2>5, <2>6, HoldsAfterPunch DEF ClockInBegin, TypeOK, IsRow
<1>2. ASSUME ClockOutBegin(p, g) PROVE TypeInv'
  <2> DEFINE c == [pc |-> "load", guard |-> g, station |-> Null, at |-> 0, match |-> Null,
                   duty |-> onDuty[g], id |-> Null, fresh |-> FALSE,
                   sessions |-> << >>, out |-> Null]
  <2>4. c \in Punch
    BY <1>0 DEF Punch
  <2>5. call'[p] = c /\ call' = [call EXCEPT ![p] = c]
    BY <1>2 DEF TypeOK, ClockOutBegin
  <2>6. PunchHolds(p)'
    BY <2>5 DEF PunchHolds
  <2> HIDE DEF c
  <2> QED
    BY <1>0, <1>2, <2>4, <2>5, <2>6, HoldsAfterPunch DEF ClockOutBegin, TypeOK, IsRow
<1> QED
  BY <1>1, <1>2

\* A request at pc is a Punch, and moving it to another pc leaves it one.
LEMMA AtPunch ==
    ASSUME TypeOK, NEW p \in Punches, NEW pc, At(p, pc)
    PROVE  /\ call[p] \in Punch /\ call[p].pc = pc /\ call[p] # Idle
           /\ \A x \in {"elsewhere", "find", "write", "dutyOn", "applyIn",
                        "load", "close", "dutyOff", "applyOut"} :
                 [call[p] EXCEPT !.pc = x] \in Punch
BY DEF TypeOK, At, Punch, Idle

LEMMA ReturnTypeInv ==
    ASSUME TypeInv, NEW p \in Punches, Return(p),
           UNCHANGED <<sweep, now, syncOff>>, faults' \in 0 .. MaxFaults,
           onDuty' \in [Guards -> BOOLEAN],
           rows' \in [Records -> Row \cup {Null}],
           \A r \in Records : IsRow(r) => rows'[r] \in Row /\ rows'[r].guard = rows[r].guard
    PROVE  TypeInv'
<1>1. call'[p] = Idle /\ call' = [call EXCEPT ![p] = Idle]
  BY DEF Return, TypeInv, TypeOK
<1>2. PunchHolds(p)'
  BY <1>1 DEF PunchHolds, Idle
<1> QED
  BY <1>1, <1>2, HoldsAfterPunch

\* The same for a step that goes on to pc x with the record it holds.
LEMMA GotoTypeInv ==
    ASSUME TypeInv, NEW p \in Punches, NEW x, Goto(p, x), call[p] # Idle,
           x \in {"elsewhere", "find", "write", "dutyOn", "applyIn",
                  "load", "close", "dutyOff", "applyOut"},
           x \in {"dutyOn", "applyIn", "close", "dutyOff", "applyOut"} => call[p].id # Null,
           x \in {"elsewhere", "find", "write", "dutyOn", "applyIn"}
              => call[p].pc \in {"elsewhere", "find", "write", "dutyOn", "applyIn"},
           UNCHANGED <<sweep, now, syncOff, faults>>,
           onDuty' \in [Guards -> BOOLEAN],
           rows' \in [Records -> Row \cup {Null}],
           \A r \in Records : IsRow(r) => rows'[r] \in Row /\ rows'[r].guard = rows[r].guard
    PROVE  TypeInv'
<1> DEFINE c == [call[p] EXCEPT !.pc = x]
<1>1. call[p] \in Punch
  BY DEF TypeInv, TypeOK
<1>2. c \in Punch /\ c.pc = x /\ c.id = call[p].id /\ c.guard = call[p].guard
      /\ c.station = call[p].station /\ c.match = call[p].match
  BY <1>1 DEF Punch
<1>3. call' = [call EXCEPT ![p] = c] /\ call'[p] = c
  BY DEF Goto, TypeInv, TypeOK
<1> HIDE DEF c
<1>4. call[p].id # Null => call[p].id \in Records
  BY <1>1 DEF Punch
<1>5. PunchHolds(p)'
  BY <1>2, <1>3, <1>4 DEF PunchHolds, TypeInv, Holds, IsRow
<1>6. faults' \in 0 .. MaxFaults
  BY DEF TypeInv, TypeOK
<1> QED
  BY <1>2, <1>3, <1>5, <1>6, HoldsAfterPunch

LEMMA ClockInTypeInv ==
    ASSUME TypeInv, NEW p \in Punches,
           \/ ClockInElsewhere(p) \/ ClockInFind(p) \/ ClockInReopen(p)
           \/ ClockInCreate(p) \/ ClockInDuty(p) \/ ApplyClockIn(p)
    PROVE  TypeInv'
<1>0. onDuty \in [Guards -> BOOLEAN] /\ rows \in [Records -> Row \cup {Null}]
      /\ faults \in 0 .. MaxFaults
      /\ \A r \in Records : IsRow(r) => rows[r] \in Row
  BY DEF TypeInv, TypeOK, IsRow
<1>1. CASE ClockInElsewhere(p)
  <2>1. Return(p) \/ Goto(p, "find")
    BY <1>1 DEF ClockInElsewhere
  <2>2. call[p] # Idle /\ call[p].pc = "elsewhere"
    BY <1>1 DEF ClockInElsewhere, At
  <2> QED
    BY <1>0, <1>1, <2>1, <2>2, ReturnTypeInv, GotoTypeInv DEF ClockInElsewhere
<1>2. CASE ClockInFind(p)
  <2>1. call[p] # Idle /\ call[p].pc = "find" /\ call[p] \in Punch
    BY <1>2, AtPunch DEF ClockInFind, TypeInv, At
  <2> DEFINE found == OpenOrShiftRecords(call[p].guard, call[p].station, call[p].match, call[p].at)
  <2>2. ASSUME NEW r \in Newest(found)
        PROVE  r \in Records /\ IsRow(r) /\ rows[r].guard = call[p].guard
    BY DEF OpenOrShiftRecords, Newest, OfShift, WalkUps, Live, TypeInv, TypeOK, IsRow
  <2>3. CASE \E r \in Newest(found) : call' = [call EXCEPT ![p] =
                 [call[p] EXCEPT !.pc = "write", !.id = r,
                                 !.sessions = rows[r].sessions, !.out = rows[r].out]]
    <3>1. PICK r \in Newest(found) : call' = [call EXCEPT ![p] =
                 [call[p] EXCEPT !.pc = "write", !.id = r,
                                 !.sessions = rows[r].sessions, !.out = rows[r].out]]
      BY <2>3
    <3> HIDE DEF found
    <3> DEFINE c == [call[p] EXCEPT !.pc = "write", !.id = r,
                                    !.sessions = rows[r].sessions, !.out = rows[r].out]
    <3>2. rows[r].sessions \in Sessions /\ rows[r].out \in Nat \cup {Null} /\ r \in Records
      BY <2>2 DEF IsRow, Row
    <3>3. /\ c \in Punch /\ c.pc = "write" /\ c.id = r /\ c.guard = call[p].guard
          /\ c.station = call[p].station /\ c.match = call[p].match
      BY <2>1, <3>2 DEF Punch
    <3>4. call'[p] = c /\ call' = [call EXCEPT ![p] = c]
      BY <3>1 DEF TypeInv, TypeOK
    <3> HIDE DEF c
    <3>5. UNCHANGED <<now, rows, onDuty, sweep, syncOff, faults>>
      BY <1>2 DEF ClockInFind
    <3>6. PunchHolds(p)'
      BY <2>1, <2>2, <3>3, <3>4, <3>5 DEF PunchHolds, TypeInv, Holds, IsRow
    <3> QED
      BY <1>0, <3>3, <3>4, <3>5, <3>6, HoldsAfterPunch
  <2>4. CASE Return(p) \/ Goto(p, "write")
    BY <1>0, <1>2, <2>1, <2>4, ReturnTypeInv, GotoTypeInv DEF ClockInFind
  <2> QED
    BY <1>2, <2>3, <2>4 DEF ClockInFind
<1>3. CASE ClockInReopen(p)
  <2>1. call[p] # Idle /\ call[p].pc = "write" /\ call[p] \in Punch /\ call[p].id # Null
    BY <1>3, AtPunch DEF ClockInReopen, TypeInv, At
  <2>2. call[p].id \in Records /\ IsRow(call[p].id)
    BY <2>1 DEF TypeInv, Holds, PunchHolds, Punch
  <2>3. AppendSession(call[p].sessions, call[p].at) \in Sessions
    BY <2>1, AppendSessionType DEF Punch
  <2> DEFINE row == [rows[call[p].id] EXCEPT
                        !.sessions = AppendSession(call[p].sessions, call[p].at),
                        !.out = IF call[p].out = Null THEN rows[call[p].id].out ELSE Null]
  <2>4. row \in Row /\ row.guard = rows[call[p].id].guard
    BY <2>2, <2>3 DEF IsRow, Row
  <2>5. rows' = [rows EXCEPT ![call[p].id] = row]
    BY <1>3 DEF ClockInReopen
  <2> HIDE DEF row
  <2> QED
    BY <1>0, <1>3, <2>1, <2>2, <2>4, <2>5, GotoTypeInv DEF ClockInReopen, IsRow
<1>4. CASE ClockInCreate(p)
  <2>1. call[p] # Idle /\ call[p].pc = "write" /\ call[p] \in Punch /\ call[p].id = Null
    BY <1>4, AtPunch DEF ClockInCreate, TypeInv, At
  <2> DEFINE row == [guard |-> call[p].guard, station |-> call[p].station, shift |-> Null,
                     in |-> call[p].at, out |-> Null, end |-> Null,
                     sessions |-> AppendSession(<< >>, call[p].at),
                     forced |-> FALSE, hours |-> Null]
  <2>2. PICK r \in Records :
          /\ rows[r] = Null
          /\ rows' = [rows EXCEPT ![r] = row]
          /\ call' = [call EXCEPT ![p] = [call[p] EXCEPT !.pc = "dutyOn", !.id = r, !.fresh = TRUE]]
    BY <1>4 DEF ClockInCreate, TypeInv, TypeOK
  <2>3. call[p].station \in Stations
    BY <2>1 DEF TypeInv, Holds, PunchHolds
  <2>4. row \in Row /\ row.guard = call[p].guard
    BY <2>1, <2>3, EmptySessions, AppendSessionType DEF Row, Punch
  <2> DEFINE c == [call[p] EXCEPT !.pc = "dutyOn", !.id = r, !.fresh = TRUE]
  <2>5. /\ c \in Punch /\ c.pc = "dutyOn" /\ c.id = r /\ c.guard = call[p].guard
        /\ c.station = call[p].station /\ c.match = call[p].match
    BY <2>1 DEF Punch
  <2>6. call'[p] = c /\ call' = [call EXCEPT ![p] = c]
    BY <2>2 DEF TypeInv, TypeOK
  <2> HIDE DEF c, row
  <2>7. UNCHANGED <<now, onDuty, sweep, syncOff, faults>>
    BY <1>4 DEF ClockInCreate
  <2>8. rows'[r] = row /\ rows' \in [Records -> Row \cup {Null}]
    BY <1>0, <2>2, <2>4
  <2>9. PunchHolds(p)'
    BY <2>1, <2>4, <2>5, <2>6, <2>8, NullAssumption DEF PunchHolds, TypeInv, Holds, IsRow
  <2>10. \A q \in Records : IsRow(q) => rows'[q] \in Row /\ rows'[q].guard = rows[q].guard
    <3>1. ASSUME IsRow(r) PROVE FALSE
      BY <2>2, <3>1, RowNotNull DEF IsRow
    <3> QED
      BY <1>0, <2>2, <3>1 DEF IsRow
  <2> QED
    BY <1>0, <2>5, <2>6, <2>7, <2>8, <2>9, <2>10, HoldsAfterPunch
<1>5. CASE ClockInDuty(p)
  <2>1. call[p] # Idle /\ call[p].pc = "dutyOn"
    BY <1>5 DEF ClockInDuty, At
  <2>2. call[p].id # Null
    BY <2>1 DEF TypeInv, Holds, PunchHolds
  <2>3. onDuty' \in [Guards -> BOOLEAN]
    BY <1>0, <1>5 DEF ClockInDuty
  <2>4. Return(p) \/ Goto(p, "applyIn")
    BY <1>5 DEF ClockInDuty
  <2> QED
    BY <1>0, <1>5, <2>1, <2>2, <2>3, <2>4, ReturnTypeInv, GotoTypeInv DEF ClockInDuty, IsRow
<1>6. CASE ApplyClockIn(p)
  <2>1. call[p] # Idle /\ call[p].pc = "applyIn" /\ call[p] \in Punch
    BY <1>6, AtPunch DEF ApplyClockIn, TypeInv, At
  <2>2. call[p].id \in Records /\ IsRow(call[p].id)
    BY <2>1 DEF TypeInv, Holds, PunchHolds, Punch
  <2> DEFINE row == [rows[call[p].id] EXCEPT
                        !.shift = call[p].match,
                        !.end = IF call[p].match = Null THEN Null ELSE Sched[call[p].match].end]
  <2>3. row \in Row /\ row.guard = rows[call[p].id].guard
    BY <2>1, <2>2, SchedAssumption DEF IsRow, Row, Punch
  <2>4. rows' = [rows EXCEPT ![call[p].id] = row]
    BY <1>6 DEF ApplyClockIn
  <2> HIDE DEF row
  <2> QED
    BY <1>0, <1>6, <2>2, <2>3, <2>4, ReturnTypeInv DEF ApplyClockIn, IsRow
<1> QED
  BY <1>1, <1>2, <1>3, <1>4, <1>5, <1>6

LEMMA ClockOutTypeInv ==
    ASSUME TypeInv, NEW p \in Punches,
           ClockOutLoad(p) \/ ClockOutClose(p) \/ ClockOutDuty(p) \/ ApplyClockOut(p)
    PROVE  TypeInv'
<1>0. onDuty \in [Guards -> BOOLEAN] /\ rows \in [Records -> Row \cup {Null}]
      /\ faults \in 0 .. MaxFaults /\ now \in Nat
      /\ \A r \in Records : IsRow(r) => rows[r] \in Row
  BY BoundAssumption DEF TypeInv, TypeOK, IsRow, Time
<1>1. CASE ClockOutLoad(p)
  <2>1. call[p] # Idle /\ call[p].pc = "load" /\ call[p] \in Punch
    BY <1>1, AtPunch DEF ClockOutLoad, TypeInv, At
  <2>2. CASE Return(p)
    BY <1>0, <1>1, <2>2, ReturnTypeInv DEF ClockOutLoad
  <2>3. CASE ~Return(p)
    <3>1. PICK r \in Newest(OpenOf(call[p].guard)) :
             call' = [call EXCEPT ![p] = [call[p] EXCEPT !.pc = "close", !.id = r, !.at = now,
                                                         !.sessions = rows[r].sessions]]
      BY <1>1, <2>3 DEF ClockOutLoad
    <3>2. r \in Records /\ IsRow(r) /\ rows[r].guard = call[p].guard
      BY <1>0 DEF Newest, OpenOf, Open, Live, IsRow
    <3>3. rows[r].sessions \in Sessions
      BY <3>2 DEF IsRow, Row
    <3> DEFINE c == [call[p] EXCEPT !.pc = "close", !.id = r, !.at = now,
                                    !.sessions = rows[r].sessions]
    <3>4. c \in Punch /\ c.pc = "close" /\ c.id = r /\ c.guard = call[p].guard
      BY <1>0, <2>1, <3>2, <3>3 DEF Punch
    <3>5. call'[p] = c /\ call' = [call EXCEPT ![p] = c]
      BY <3>1 DEF TypeInv, TypeOK
    <3> HIDE DEF c
    <3>6. UNCHANGED <<now, rows, onDuty, sweep, syncOff, faults>>
      BY <1>1 DEF ClockOutLoad
    <3>7. PunchHolds(p)'
      BY <3>2, <3>4, <3>5, <3>6, NullAssumption DEF PunchHolds, IsRow
    <3> QED
      BY <1>0, <3>4, <3>5, <3>6, <3>7, HoldsAfterPunch
  <2> QED
    BY <2>2, <2>3
<1>2. CASE ClockOutClose(p)
  <2>1. call[p] # Idle /\ call[p].pc = "close" /\ call[p] \in Punch
    BY <1>2, AtPunch DEF ClockOutClose, TypeInv, At
  <2>2. call[p].id \in Records /\ IsRow(call[p].id) /\ rows[call[p].id].guard = call[p].guard
    BY <2>1 DEF TypeInv, Holds, PunchHolds, Punch
  <2> DEFINE s == CloseSession(call[p].sessions, call[p].at)
             row == [rows[call[p].id] EXCEPT
                       !.out = call[p].at,
                       !.sessions = IF s = call[p].sessions THEN rows[call[p].id].sessions ELSE s]
             c == [call[p] EXCEPT !.pc = "dutyOff", !.sessions = s]
  <2>3. s \in Sessions
    BY <2>1, CloseSessionType DEF Punch
  <2>4. rows' = [rows EXCEPT ![call[p].id] = row] /\ call' = [call EXCEPT ![p] = c]
    BY <1>2 DEF ClockOutClose
  <2> HIDE DEF s
  <2>5. row \in Row /\ row.guard = rows[call[p].id].guard
    BY <2>1, <2>2, <2>3 DEF IsRow, Row, Punch
  <2>6. c \in Punch /\ c.pc = "dutyOff" /\ c.id = call[p].id /\ c.guard = call[p].guard
    BY <2>1, <2>3 DEF Punch
  <2> HIDE DEF row, c
  <2>7. call'[p] = c
    BY <2>4 DEF TypeInv, TypeOK
  <2>8. rows'[call[p].id] = row /\ rows' \in [Records -> Row \cup {Null}]
        /\ \A r \in Records : IsRow(r) => rows'[r] \in Row /\ rows'[r].guard = rows[r].guard
    BY <1>0, <2>2, <2>4, <2>5
  <2>9. PunchHolds(p)'
    BY <2>1, <2>2, <2>5, <2>6, <2>7, <2>8, NullAssumption DEF PunchHolds, IsRow
  <2> QED
    BY <1>0, <1>2, <2>4, <2>6, <2>8, <2>9, HoldsAfterPunch DEF ClockOutClose
<1>3. CASE ClockOutDuty(p)
  <2>1. call[p] # Idle /\ call[p].pc = "dutyOff"
    BY <1>3 DEF ClockOutDuty, At
  <2>2. call[p].id # Null
    BY <2>1 DEF TypeInv, Holds, PunchHolds
  <2>3. onDuty' \in [Guards -> BOOLEAN]
    BY <1>0, <1>3 DEF ClockOutDuty
  <2> QED
    BY <1>0, <1>3, <2>1, <2>2, <2>3, GotoTypeInv DEF ClockOutDuty, IsRow
<1>4. CASE ApplyClockOut(p)
  <2>1. call[p] # Idle /\ call[p].pc = "applyOut" /\ call[p] \in Punch
    BY <1>4, AtPunch DEF ApplyClockOut, TypeInv, At
  <2>2. call[p].id \in Records /\ IsRow(call[p].id)
    BY <2>1 DEF TypeInv, Holds, PunchHolds, Punch
  <2> DEFINE row == [rows[call[p].id] EXCEPT !.hours = call[p].sessions]
  <2>3. row \in Row /\ row.guard = rows[call[p].id].guard
    BY <2>1, <2>2 DEF IsRow, Row, Punch
  <2>4. rows' = [rows EXCEPT ![call[p].id] = row]
    BY <1>4 DEF ApplyClockOut
  <2> HIDE DEF row
  <2> QED
    BY <1>0, <1>4, <2>2, <2>3, <2>4, ReturnTypeInv DEF ApplyClockOut, IsRow
<1> QED
  BY <1>1, <1>2, <1>3, <1>4

\* What a step of a sweep may do to the rows, and to its own state.
LEMMA HoldsAfterSweep ==
    ASSUME TypeInv, NEW w \in Sweepers,
           UNCHANGED <<call, now, syncOff>>, faults' \in 0 .. MaxFaults,
           onDuty' \in [Guards -> BOOLEAN],
           rows' \in [Records -> Row \cup {Null}],
           \A r \in Records : IsRow(r) => rows'[r] \in Row /\ rows'[r].guard = rows[r].guard,
           NEW x \in Sweep \cup {Idle},
           sweep' = [sweep EXCEPT ![w] = x],
           x # Idle => /\ \A r \in x.todo : IsRow(r)
                       /\ x.pc # "claim" => x.id \in Records /\ IsRow(x.id)
    PROVE  TypeInv'
<1> USE DEF TypeInv, Holds
<1>1. TypeOK'
  BY DEF TypeOK
<1>2. ASSUME NEW v \in Sweepers PROVE SweepHolds(v)'
  <2>1. CASE v = w
    <3>1. sweep'[v] = x
      BY <2>1 DEF TypeOK
    <3>2. x # Idle => x.todo \subseteq Records
      BY DEF Sweep
    <3> QED
      BY <3>1, <3>2 DEF SweepHolds, IsRow
  <2>2. CASE v # w
    <3>1. sweep'[v] = sweep[v]
      BY <2>2 DEF TypeOK
    <3>2. sweep[v] # Idle => sweep[v].todo \subseteq Records
      BY DEF TypeOK, Sweep
    <3> QED
      BY <3>1, <3>2 DEF SweepHolds, IsRow
  <2> QED
    BY <2>1, <2>2
<1>3. ASSUME NEW q \in Punches PROVE PunchHolds(q)'
  <2>1. call[q] # Idle /\ call[q].id # Null => call[q].id \in Records
    BY DEF TypeOK, Punch
  <2> QED
    BY <2>1 DEF PunchHolds, IsRow
<1> QED
  BY <1>1, <1>2, <1>3

LEMMA SweepTypeInv ==
    ASSUME TypeInv, NEW w \in Sweepers, SweepStep(w)
    PROVE  TypeInv'
<1>0. /\ onDuty \in [Guards -> BOOLEAN] /\ rows \in [Records -> Row \cup {Null}]
      /\ faults \in 0 .. MaxFaults /\ now \in Nat /\ MaxFaults \in Nat
      /\ \A r \in Records : IsRow(r) => rows[r] \in Row
  BY BoundAssumption DEF TypeInv, TypeOK, IsRow, Time
<1>1. ASSUME sweep[w] # Idle
      PROVE  /\ sweep[w] \in Sweep /\ \A r \in sweep[w].todo : r \in Records /\ IsRow(r)
             /\ sweep[w].pc # "claim" => sweep[w].id \in Records /\ IsRow(sweep[w].id)
             /\ sweep[w].pc # "claim" => rows[sweep[w].id].guard \in Guards
  <2>1. sweep[w] \in Sweep
    BY <1>1 DEF TypeInv, TypeOK
  <2>2. sweep[w].todo \subseteq Records
    BY <2>1 DEF Sweep
  <2> QED
    BY <1>1, <2>1, <2>2 DEF TypeInv, Holds, SweepHolds, IsRow, Row
\* The sweep goes to its next candidate.
<1>2. ASSUME sweep[w] # Idle, NEW todo \in SUBSET Records, \A r \in todo : IsRow(r)
      PROVE  LET x == IF todo = {} THEN Idle
                      ELSE [sweep[w] EXCEPT !.pc = "claim", !.todo = todo, !.id = Null]
             IN  /\ x \in Sweep \cup {Idle}
                 /\ x # Idle => (\A r \in x.todo : IsRow(r)) /\ x.pc = "claim"
  <2>1. [sweep[w] EXCEPT !.pc = "claim", !.todo = todo, !.id = Null] \in Sweep
    BY <1>1, <1>2 DEF Sweep
  <2>2. [sweep[w] EXCEPT !.pc = "claim", !.todo = todo, !.id = Null].todo = todo
        /\ [sweep[w] EXCEPT !.pc = "claim", !.todo = todo, !.id = Null].pc = "claim"
    BY <1>1, <1>2 DEF Sweep
  <2> QED
    BY <1>2, <2>1, <2>2
\* The sweep goes on with the record it has claimed.
<1>3. ASSUME sweep[w] # Idle, sweep[w].pc # "claim", NEW x \in Sweep,
             x.id = sweep[w].id, x.todo = sweep[w].todo
      PROVE  /\ \A r \in x.todo : IsRow(r)
             /\ x.pc # "claim" => x.id \in Records /\ IsRow(x.id)
  BY <1>1, <1>3
<1>4. CASE SweepScan(w)
  <2> DEFINE x == [pc |-> "claim", at |-> now, todo |-> Candidates, id |-> Null,
                   duty |-> FALSE, sessions |-> << >>]
  <2>1. Candidates \subseteq Records /\ \A r \in Candidates : IsRow(r)
    BY <1>0 DEF Candidates, Overdue, Open, Live, IsRow
  <2>2. x \in Sweep
    BY <1>0, <2>1, EmptySessions DEF Sweep
  <2>3. sweep' = [sweep EXCEPT ![w] = x]
    BY <1>4 DEF SweepScan
  <2> QED
    BY <1>0, <1>4, <2>1, <2>2, <2>3, HoldsAfterSweep DEF SweepScan, IsRow
<1>5. CASE SweepClaim(w)
  <2>1. sweep[w] # Idle /\ sweep[w].pc = "claim"
    BY <1>5 DEF SweepClaim, SweepAt
  <2>2. PICK r \in sweep[w].todo :
          IF rows[r].out = Null
          THEN /\ rows' = [rows EXCEPT ![r] = [rows[r] EXCEPT !.out = sweep[w].at, !.forced = TRUE]]
               /\ sweep' = [sweep EXCEPT ![w] =
                     [sweep[w] EXCEPT !.pc = "reload", !.id = r, !.todo = sweep[w].todo \ {r}]]
          ELSE NextCandidate(w, sweep[w].todo \ {r}) /\ UNCHANGED rows
    BY <1>5, <1>1, <2>1 DEF SweepClaim, TypeInv, TypeOK
  <2>3. r \in Records /\ IsRow(r) /\ sweep[w] \in Sweep
    BY <1>1, <2>1
  <2>4. UNCHANGED <<now, onDuty, call, syncOff, faults>>
    BY <1>5 DEF SweepClaim
  <2>5. CASE rows[r].out = Null
    <3> DEFINE row == [rows[r] EXCEPT !.out = sweep[w].at, !.forced = TRUE]
               x == [sweep[w] EXCEPT !.pc = "reload", !.id = r, !.todo = sweep[w].todo \ {r}]
    <3>1. row \in Row /\ row.guard = rows[r].guard
      BY <2>3 DEF IsRow, Row, Sweep
    <3>2. x \in Sweep /\ x.id = r /\ x.todo \subseteq sweep[w].todo
      BY <2>3 DEF Sweep
    <3>3. rows' = [rows EXCEPT ![r] = row] /\ sweep' = [sweep EXCEPT ![w] = x]
      BY <2>2, <2>5
    <3> HIDE DEF row, x
    <3> QED
      BY <1>0, <1>1, <2>1, <2>3, <2>4, <3>1, <3>2, <3>3, HoldsAfterSweep DEF IsRow
  <2>6. CASE rows[r].out # Null
    <3> DEFINE todo == sweep[w].todo \ {r}
               x == IF todo = {} THEN Idle
                    ELSE [sweep[w] EXCEPT !.pc = "claim", !.todo = todo, !.id = Null]
    <3>1. todo \in SUBSET Records /\ \A q \in todo : IsRow(q)
      BY <1>1, <2>1
    <3>2. sweep' = [sweep EXCEPT ![w] = x]
      BY <2>2, <2>6 DEF NextCandidate, TypeInv, TypeOK
    <3>3. x \in Sweep \cup {Idle} /\ (x # Idle => (\A q \in x.todo : IsRow(q)) /\ x.pc = "claim")
      BY <1>2, <2>1, <3>1
    <3> HIDE DEF x
    <3> QED
      BY <1>0, <2>2, <2>4, <2>6, <3>2, <3>3, HoldsAfterSweep DEF IsRow
  <2> QED
    BY <2>5, <2>6
<1>6. CASE SweepReload(w)
  <2>1. sweep[w] # Idle /\ sweep[w].pc = "reload"
    BY <1>6 DEF SweepReload, SweepAt
  <2> DEFINE x == [sweep[w] EXCEPT !.pc = "guard", !.sessions = rows[sweep[w].id].sessions]
  <2>2. x \in Sweep /\ x.id = sweep[w].id /\ x.todo = sweep[w].todo
    BY <1>1, <2>1 DEF Sweep, IsRow, Row
  <2>3. sweep' = [sweep EXCEPT ![w] = x]
    BY <1>6 DEF SweepReload
  <2> HIDE DEF x
  <2> QED
    BY <1>0, <1>3, <1>6, <2>1, <2>2, <2>3, HoldsAfterSweep DEF SweepReload, IsRow
<1>7. CASE SweepLoadGuard(w)
  <2>1. sweep[w] # Idle /\ sweep[w].pc = "guard"
    BY <1>7 DEF SweepLoadGuard, SweepAt
  <2> DEFINE x == [sweep[w] EXCEPT !.pc = "sessions", !.duty = onDuty[rows[sweep[w].id].guard]]
  <2>2. x \in Sweep /\ x.id = sweep[w].id /\ x.todo = sweep[w].todo
    BY <1>0, <1>1, <2>1 DEF Sweep
  <2>3. sweep' = [sweep EXCEPT ![w] = x]
    BY <1>7 DEF SweepLoadGuard
  <2> HIDE DEF x
  <2> QED
    BY <1>0, <1>3, <1>7, <2>1, <2>2, <2>3, HoldsAfterSweep DEF SweepLoadGuard, IsRow
<1>8. CASE SweepCloseSession(w)
  <2>1. sweep[w] # Idle /\ sweep[w].pc = "sessions"
    BY <1>8 DEF SweepCloseSession, SweepAt
  <2> DEFINE s == CloseSession(sweep[w].sessions, sweep[w].at)
             row == [rows[sweep[w].id] EXCEPT !.sessions = s]
             x == [sweep[w] EXCEPT !.pc = "dutyOff", !.sessions = s]
  <2>2. s \in Sessions
    BY <1>1, <2>1, CloseSessionType DEF Sweep
  <2>3. /\ rows' = rows \/ rows' = [rows EXCEPT ![sweep[w].id] = row]
        /\ sweep' = [sweep EXCEPT ![w] = x]
        /\ faults' \in 0 .. MaxFaults /\ UNCHANGED <<now, onDuty, call, syncOff>>
    BY <1>0, <1>8 DEF SweepCloseSession
  <2> HIDE DEF s
  <2>4. row \in Row /\ row.guard = rows[sweep[w].id].guard
    BY <1>1, <2>1, <2>2 DEF IsRow, Row
  <2>5. x \in Sweep /\ x.id = sweep[w].id /\ x.todo = sweep[w].todo
    BY <1>1, <2>1, <2>2 DEF Sweep
  <2> HIDE DEF row, x
  <2>6. /\ rows' \in [Records -> Row \cup {Null}]
        /\ \A r \in Records : IsRow(r) => rows'[r] \in Row /\ rows'[r].guard = rows[r].guard
    BY <1>0, <1>1, <2>1, <2>3, <2>4 DEF IsRow
  <2>7. /\ \A r \in x.todo : IsRow(r)
        /\ x.pc # "claim" => x.id \in Records /\ IsRow(x.id)
    BY <1>3, <2>1, <2>5
  <2> QED
    BY <1>0, <2>3, <2>5, <2>6, <2>7, HoldsAfterSweep
<1>9. CASE SweepDuty(w)
  <2>1. sweep[w] # Idle /\ sweep[w].pc = "dutyOff"
    BY <1>9 DEF SweepDuty, SweepAt
  <2> DEFINE x == [sweep[w] EXCEPT !.pc = "apply"]
  <2>2. x \in Sweep /\ x.id = sweep[w].id /\ x.todo = sweep[w].todo
    BY <1>1, <2>1 DEF Sweep
  <2>3. /\ sweep' = [sweep EXCEPT ![w] = x] /\ faults' \in 0 .. MaxFaults
        /\ onDuty' \in [Guards -> BOOLEAN] /\ UNCHANGED <<now, rows, call, syncOff>>
    <3>1. faults' \in 0 .. MaxFaults
      BY <1>0, <1>9 DEF SweepDuty
    <3>2. onDuty' = onDuty \/ onDuty' = [onDuty EXCEPT ![rows[sweep[w].id].guard] = FALSE]
      BY <1>9 DEF SweepDuty
    <3>3. onDuty' \in [Guards -> BOOLEAN]
      BY <1>0, <3>2
    <3> QED
      BY <1>9, <3>1, <3>3 DEF SweepDuty
  <2> HIDE DEF x
  <2>4. /\ \A r \in x.todo : IsRow(r)
        /\ x.pc # "claim" => x.id \in Records /\ IsRow(x.id)
    BY <1>3, <2>1, <2>2
  <2> QED
    BY <1>0, <2>2, <2>3, <2>4, HoldsAfterSweep DEF IsRow
<1>10. CASE SweepApplyClockOut(w)
  <2>1. sweep[w] # Idle /\ sweep[w].pc = "apply"
    BY <1>10 DEF SweepApplyClockOut, SweepAt
  <2> DEFINE row == [rows[sweep[w].id] EXCEPT !.hours = sweep[w].sessions]
             x == IF sweep[w].todo = {} THEN Idle
                  ELSE [sweep[w] EXCEPT !.pc = "claim", !.todo = sweep[w].todo, !.id = Null]
  <2>2. row \in Row /\ row.guard = rows[sweep[w].id].guard
    BY <1>1, <2>1 DEF IsRow, Row, Sweep
  <2>3. /\ rows' = rows \/ rows' = [rows EXCEPT ![sweep[w].id] = row]
        /\ sweep' = [sweep EXCEPT ![w] = x]
        /\ faults' \in 0 .. MaxFaults /\ UNCHANGED <<now, onDuty, call, syncOff>>
    BY <1>0, <1>10 DEF SweepApplyClockOut, NextCandidate
  <2>4. sweep[w].todo \in SUBSET Records /\ \A r \in sweep[w].todo : IsRow(r)
    BY <1>1, <2>1
  <2>5. x \in Sweep \cup {Idle} /\ (x # Idle => (\A q \in x.todo : IsRow(q)) /\ x.pc = "claim")
    BY <1>2, <2>1, <2>4
  <2> HIDE DEF row, x
  <2>6. /\ rows' \in [Records -> Row \cup {Null}]
        /\ \A r \in Records : IsRow(r) => rows'[r] \in Row /\ rows'[r].guard = rows[r].guard
    BY <1>0, <1>1, <2>1, <2>2, <2>3 DEF IsRow
  <2> QED
    BY <1>0, <2>3, <2>5, <2>6, HoldsAfterSweep
<1> QED
  BY <1>4, <1>5, <1>6, <1>7, <1>8, <1>9, <1>10 DEF SweepStep

LEMMA EnvironmentTypeInv ==
    ASSUME TypeInv,
           \/ SyncStep \/ Tick
           \/ \E p \in Punches : PunchDies(p)
           \/ \E w \in Sweepers : SweepDies(w)
    PROVE  TypeInv'
<1>0. /\ onDuty \in [Guards -> BOOLEAN] /\ rows \in [Records -> Row \cup {Null}]
      /\ faults \in 0 .. MaxFaults /\ now \in 0 .. Horizon
      /\ MaxFaults \in Nat /\ Horizon \in Nat
      /\ \A r \in Records : IsRow(r) => rows[r] \in Row
  BY BoundAssumption DEF TypeInv, TypeOK, IsRow, Time
<1>1. CASE SyncStep \/ Tick
  <2>1. UNCHANGED <<rows, call, sweep, faults>>
    BY <1>1 DEF SyncStep, SyncOn, SyncOff, Tick
  <2>2. onDuty' \in [Guards -> BOOLEAN] /\ syncOff' \in BOOLEAN /\ now' \in 0 .. Horizon
    <3>1. CASE SyncOn
      BY <1>0, <3>1 DEF SyncOn
    <3>2. CASE SyncOff
      BY <1>0, <3>2 DEF SyncOff
    <3>3. CASE Tick
      <4>1. now' \in 0 .. Horizon
        BY <1>0, <3>3 DEF Tick
      <4> QED
        BY <1>0, <3>3, <4>1 DEF Tick, TypeInv, TypeOK
    <3> QED
      BY <1>1, <3>1, <3>2, <3>3 DEF SyncStep
  <2>3. TypeOK'
    BY <2>1, <2>2 DEF TypeInv, TypeOK, Time
  <2>4. Holds'
    BY <2>1 DEF TypeInv, Holds, PunchHolds, SweepHolds, IsRow
  <2> QED
    BY <2>3, <2>4 DEF TypeInv
<1>2. ASSUME NEW p \in Punches, PunchDies(p) PROVE TypeInv'
  <2>1. faults' \in 0 .. MaxFaults
    BY <1>0, <1>2 DEF PunchDies
  <2> QED
    BY <1>0, <1>2, <2>1, ReturnTypeInv DEF PunchDies
<1>3. ASSUME NEW w \in Sweepers, SweepDies(w) PROVE TypeInv'
  <2>1. faults' \in 0 .. MaxFaults
    BY <1>0, <1>3 DEF SweepDies
  <2> QED
    BY <1>0, <1>3, <2>1, HoldsAfterSweep DEF SweepDies, IsRow
<1> QED
  BY <1>1, <1>2, <1>3

LEMMA NextTypeInv == TypeInv /\ [Next]_vars => TypeInv'
<1> SUFFICES ASSUME TypeInv, [Next]_vars PROVE TypeInv'
  OBVIOUS
<1>1. CASE \E p \in Punches, g \in Guards, s \in Stations : ClockInBegin(p, g, s)
  BY <1>1, BeginTypeInv
<1>2. CASE \E p \in Punches, g \in Guards : ClockOutBegin(p, g)
  BY <1>2, BeginTypeInv
<1>3. CASE \E p \in Punches : PunchStep(p)
  BY <1>3, ClockInTypeInv, ClockOutTypeInv DEF PunchStep
<1>4. CASE \E w \in Sweepers : SweepStep(w)
  BY <1>4, SweepTypeInv
<1>5. CASE SyncStep \/ Tick \/ (\E p \in Punches : PunchDies(p)) \/ (\E w \in Sweepers : SweepDies(w))
  BY <1>5, EnvironmentTypeInv
<1>6. CASE UNCHANGED vars
  BY <1>6 DEF vars, TypeInv, TypeOK, Holds, PunchHolds, SweepHolds, IsRow
<1> QED
  BY <1>1, <1>2, <1>3, <1>4, <1>5, <1>6 DEF Next

\* Type correctness, and with it: no request or sweep ever works on a row that does
\* not exist or that belongs to another guard.
THEOREM TypeCorrect == Spec => [](TypeOK /\ Holds)
<1>1. Spec => []TypeInv
  BY InitTypeInv, NextTypeInv, PTL DEF Spec
<1> QED
  BY <1>1, PTL DEF TypeInv

-----------------------------------------------------------------------------
(* One station at a time, one record per shift, for a guard whose punches do    *)
(* not overlap.                                                                *)

\* A record's shift is a shift of its guard at its station.
RowsMatchSched ==
    \A r \in Records : Live(r) /\ rows[r].shift # Null =>
        /\ Sched[rows[r].shift].guard = rows[r].guard
        /\ Sched[rows[r].shift].station = rows[r].station

\* No guard has two requests in flight.
OnePunchPerGuard ==
    \A p, q \in Punches :
        call[p] # Idle /\ call[q] # Idle /\ call[p].guard = call[q].guard => p = q

\* What a clock-in has read stays true until it has used it: past the elsewhere
\* check its guard is open at its own station only; about to create a record, and
\* until that record is tied to its shift, no record carries the shift.
PunchKnows(p) ==
    call[p] # Idle =>
        /\ call[p].pc \in {"elsewhere", "find"} => call[p].id = Null
        /\ call[p].pc \in {"elsewhere", "find", "write"} => call[p].fresh = FALSE
        /\ call[p].pc \in {"find", "write"}
              => \A r \in Records : Open(r) /\ rows[r].guard = call[p].guard
                                    => rows[r].station = call[p].station
        /\ call[p].pc = "write" /\ call[p].id # Null
              => rows[call[p].id].station = call[p].station
        /\ call[p].pc = "write" /\ call[p].id = Null /\ call[p].match # Null
              => OfShift(call[p].guard, call[p].match) = {}
        /\ call[p].pc = "applyIn" \/ (call[p].pc = "dutyOn" /\ call[p].fresh)
              => /\ rows[call[p].id].station = call[p].station
                 /\ call[p].match # Null => OfShift(call[p].guard, call[p].match) = {}

\* Any two open records of a guard are at one station; no two records of a guard carry
\* one shift.
OneStationEach ==
    \A q, r \in Records :
        Open(q) /\ Open(r) /\ rows[q].guard = rows[r].guard => rows[q].station = rows[r].station

OneRecordEach ==
    \A q, r \in Records :
        /\ Live(q) /\ Live(r) /\ rows[q].guard = rows[r].guard
        /\ rows[q].shift = rows[r].shift /\ rows[q].shift # Null
        => q = r

IInv ==
    /\ TypeInv
    /\ RowsMatchSched
    /\ OnePunchPerGuard
    /\ \A p \in Punches : PunchKnows(p)
    /\ OneStationEach
    /\ OneRecordEach

\* A step that neither creates, opens, moves nor re-ties a record.
RowsKeep ==
    \A r \in Records :
        /\ ~Live(r) => rows'[r] = rows[r]
        /\ Live(r) => /\ rows'[r] \in Row
                      /\ rows'[r].guard = rows[r].guard /\ rows'[r].station = rows[r].station
                      /\ rows'[r].shift = rows[r].shift
                      /\ rows'[r].out = Null => rows[r].out = Null

LEMMA LiveIsRow ==
    ASSUME TypeOK, NEW r \in Records
    PROVE  Live(r) <=> IsRow(r)
BY RowNotNull DEF TypeOK, Live, IsRow

\* Requests that end or go on for the same guard stay one per guard.
LEMMA OnePunchKept ==
    ASSUME OnePunchPerGuard,
           \A q \in Punches : call'[q] = Idle \/ (call[q] # Idle /\ call'[q].guard = call[q].guard)
    PROVE  OnePunchPerGuard'
BY DEF OnePunchPerGuard

LEMMA KeepInv ==
    ASSUME IInv, TypeInv', RowsKeep, OnePunchPerGuard',
           \A q \in Punches : call'[q] = call[q] \/ PunchKnows(q)'
    PROVE  IInv'
<1>1. \A r \in Records : Live(r)' <=> Live(r)
  BY RowNotNull DEF RowsKeep, Live
<1>2. \A r \in Records : Open(r)' => Open(r)
  BY <1>1 DEF RowsKeep, Open, Live
<1>3. RowsMatchSched'
  BY <1>1 DEF IInv, RowsMatchSched, RowsKeep
<1>4. OneStationEach'
  BY <1>2 DEF IInv, OneStationEach, RowsKeep, Open
<1>5. OneRecordEach'
  BY <1>1 DEF IInv, OneRecordEach, RowsKeep
<1>6. ASSUME NEW q \in Punches PROVE PunchKnows(q)'
  <2>1. CASE call'[q] = call[q]
    <3>1. call[q] # Idle => OfShift(call[q].guard, call[q].match)'
                            = OfShift(call[q].guard, call[q].match)
      BY <1>1, <2>1 DEF OfShift, RowsKeep
    <3>2. call[q] # Idle /\ call[q].id # Null => call[q].id \in Records /\ Live(call[q].id)
      BY RowNotNull DEF IInv, TypeInv, TypeOK, Punch, Holds, PunchHolds, IsRow, Live
    <3>3. call[q] # Idle /\ call[q].pc \in {"applyIn", "dutyOn"} => call[q].id # Null
      BY DEF IInv, TypeInv, Holds, PunchHolds
    <3>4. PunchKnows(q)
      BY DEF IInv
    <3> QED
      BY <1>2, <2>1, <3>1, <3>2, <3>3, <3>4 DEF PunchKnows, RowsKeep, Open
  <2> QED
    BY <2>1
<1> QED
  BY <1>3, <1>4, <1>5, <1>6 DEF IInv

LEMMA BeginInv ==
    ASSUME ~Overlap, IInv, TypeInv', NEW p \in Punches, NEW g \in Guards,
           (\E s \in Stations : ClockInBegin(p, g, s)) \/ ClockOutBegin(p, g)
    PROVE  IInv'
<1>1. UNCHANGED rows /\ MayStart(p, g)
  BY DEF ClockInBegin, ClockOutBegin
<1>2. PICK c : /\ call' = [call EXCEPT ![p] = c]
               /\ c.guard = g /\ c.id = Null /\ c.fresh = FALSE
               /\ c.pc \in {"elsewhere", "load"}
  <2>1. CASE \E s \in Stations : ClockInBegin(p, g, s)
    <3>1. PICK s \in Stations : ClockInBegin(p, g, s)
      BY <2>1
    <3>2. PICK m \in MatchScheduledShift(g, s, now) \cup {Null} :
             call' = [call EXCEPT ![p] =
                [pc |-> "elsewhere", guard |-> g, station |-> s, at |-> now, match |-> m,
                 duty |-> onDuty[g], id |-> Null, fresh |-> FALSE,
                 sessions |-> << >>, out |-> Null]]
      BY <3>1 DEF ClockInBegin
    <3> DEFINE c == [pc |-> "elsewhere", guard |-> g, station |-> s, at |-> now, match |-> m,
                     duty |-> onDuty[g], id |-> Null, fresh |-> FALSE,
                     sessions |-> << >>, out |-> Null]
    <3>3. c.guard = g /\ c.id = Null /\ c.fresh = FALSE /\ c.pc = "elsewhere"
      OBVIOUS
    <3>4. call' = [call EXCEPT ![p] = c]
      BY <3>2
    <3> HIDE DEF c
    <3> QED
      BY <3>3, <3>4
  <2>2. CASE ClockOutBegin(p, g)
    <3> DEFINE c == [pc |-> "load", guard |-> g, station |-> Null, at |-> 0, match |-> Null,
                     duty |-> onDuty[g], id |-> Null, fresh |-> FALSE,
                     sessions |-> << >>, out |-> Null]
    <3>1. c.guard = g /\ c.id = Null /\ c.fresh = FALSE /\ c.pc = "load"
      OBVIOUS
    <3>2. call' = [call EXCEPT ![p] = c]
      BY <2>2 DEF ClockOutBegin
    <3> HIDE DEF c
    <3> QED
      BY <3>1, <3>2
  <2> QED
    BY <2>1, <2>2
<1>3. call'[p] = c /\ \A q \in Punches : q # p => call'[q] = call[q]
  BY <1>2 DEF IInv, TypeInv, TypeOK
<1>4. OnePunchPerGuard'
  BY <1>1, <1>2, <1>3 DEF MayStart, IInv, OnePunchPerGuard
<1>5. PunchKnows(p)'
  BY <1>2, <1>3 DEF PunchKnows
<1>6. RowsKeep
  BY <1>1, LiveIsRow DEF RowsKeep, IInv, TypeInv, IsRow
<1> QED
  BY <1>3, <1>4, <1>5, <1>6, KeepInv

\* The other requests are of other guards, so a step on a row of p's guard leaves
\* what they know alone.
LEMMA OthersKnow ==
    ASSUME IInv, NEW p \in Punches, NEW q \in Punches, q # p, call'[q] = call[q],
           call[p] # Idle, NEW r \in Records,
           \A x \in Records : x # r => rows'[x] = rows[x],
           Live(r) => rows[r].guard = call[p].guard /\ rows'[r].station = rows[r].station,
           rows'[r].guard = call[p].guard
    PROVE  PunchKnows(q)'
<1>1. call[q] # Idle => call[q].guard # call[p].guard
  BY DEF IInv, OnePunchPerGuard
<1>2. PunchKnows(q)
  BY DEF IInv
<1>3. ASSUME call[q] # Idle
      PROVE  OfShift(call[q].guard, call[q].match)' = OfShift(call[q].guard, call[q].match)
  BY <1>1, <1>3 DEF OfShift, Live
<1>4. ASSUME call[q] # Idle, NEW x \in Records, Open(x)', rows'[x].guard = call[q].guard
      PROVE  Open(x) /\ rows'[x] = rows[x]
  BY <1>1, <1>4 DEF Open, Live
<1>5. ASSUME call[q] # Idle, call[q].id # Null
      PROVE  rows'[call[q].id].station = rows[call[q].id].station
  <2>1. call[q].id \in Records /\ Live(call[q].id)
    BY <1>5, RowNotNull DEF IInv, TypeInv, TypeOK, Punch, Holds, PunchHolds, IsRow, Live
  <2> QED
    BY <2>1
<1>6. call[q] # Idle /\ call[q].pc \in {"applyIn", "dutyOn"} => call[q].id # Null
  BY DEF IInv, TypeInv, Holds, PunchHolds
<1> QED
  BY <1>2, <1>3, <1>4, <1>5, <1>6 DEF PunchKnows

LEMMA ClockInReadInv ==
    ASSUME IInv, TypeInv', NEW p \in Punches,
           ClockInElsewhere(p) \/ ClockInFind(p) \/ ClockInDuty(p)
    PROVE  IInv'
<1>1. UNCHANGED rows /\ call[p] # Idle
  BY DEF ClockInElsewhere, ClockInFind, ClockInDuty, At
<1>2. call[p] \in Punch
  BY <1>1 DEF IInv, TypeInv, TypeOK
<1>3. RowsKeep
  BY <1>1, LiveIsRow DEF RowsKeep, IInv, TypeInv, IsRow
<1>4. PunchKnows(p) /\ PunchHolds(p)
  BY DEF IInv, TypeInv, Holds
<1>5. ASSUME Return(p) PROVE IInv'
  <2>1. call'[p] = Idle /\ \A q \in Punches : q # p => call'[q] = call[q]
    BY <1>5 DEF Return, IInv, TypeInv, TypeOK
  <2>2. OnePunchPerGuard'
    BY <2>1, OnePunchKept DEF IInv
  <2>3. PunchKnows(p)'
    BY <2>1 DEF PunchKnows
  <2> QED
    BY <1>3, <2>1, <2>2, <2>3, KeepInv
<1>6. ASSUME NEW c, call' = [call EXCEPT ![p] = c], c.guard = call[p].guard, PunchKnows(p)'
      PROVE  IInv'
  <2>1. call'[p] = c /\ \A q \in Punches : q # p => call'[q] = call[q]
    BY <1>6 DEF IInv, TypeInv, TypeOK
  <2>2. OnePunchPerGuard'
    BY <1>1, <1>6, <2>1, OnePunchKept DEF IInv
  <2> QED
    BY <1>3, <1>6, <2>1, <2>2, KeepInv
<1>7. ASSUME NEW x, Goto(p, x)
      PROVE  /\ call' = [call EXCEPT ![p] = call'[p]] /\ call'[p] # Idle /\ call'[p].pc = x
             /\ call'[p].guard = call[p].guard /\ call'[p].id = call[p].id
             /\ call'[p].station = call[p].station /\ call'[p].match = call[p].match
             /\ call'[p].fresh = call[p].fresh
  <2> DEFINE c == [call[p] EXCEPT !.pc = x]
  <2>1. /\ c.pc = x /\ c.guard = call[p].guard /\ c.id = call[p].id
        /\ c.station = call[p].station /\ c.match = call[p].match
        /\ c.fresh = call[p].fresh /\ c # Idle
    BY <1>2 DEF Punch, Idle
  <2>2. call' = [call EXCEPT ![p] = c] /\ call \in [Punches -> Punch \cup {Idle}]
    BY <1>7 DEF Goto, IInv, TypeInv, TypeOK
  <2> HIDE DEF c
  <2>3. call'[p] = c
    BY <2>2
  <2> QED
    BY <2>1, <2>2, <2>3
<1>8. CASE ClockInElsewhere(p)
  <2>1. CASE Goto(p, "find")
    <3>1. call[p].pc = "elsewhere" /\ Idle.pc = "idle"
      BY <1>8 DEF ClockInElsewhere, At, Idle
    <3>2. \A r \in Records : Open(r) /\ rows[r].guard = call[p].guard
                             => rows[r].station = call[p].station
      <4>1. CASE OpenOf(call[p].guard) = {}
        BY <4>1 DEF OpenOf
      <4>2. CASE OpenOf(call[p].guard) # {}
        <5>1. PICK r \in OpenOf(call[p].guard) :
                 IF rows[r].station # call[p].station THEN Return(p) ELSE Goto(p, "find")
          BY <1>8, <4>2 DEF ClockInElsewhere
        <5>2. ~Return(p)
          <6>1. call'[p].pc = "find"
            BY <1>7, <2>1
          <6> QED
            BY <6>1, <3>1 DEF Return, IInv, TypeInv, TypeOK
        <5> QED
          BY <5>1, <5>2 DEF OpenOf, IInv, OneStationEach
      <4> QED
        BY <4>1, <4>2
    <3>3. PunchKnows(p)'
      BY <1>1, <1>4, <1>7, <2>1, <3>1, <3>2 DEF PunchKnows, Open, Live
    <3> QED
      BY <1>6, <1>7, <2>1, <3>3
  <2> QED
    BY <1>5, <1>8, <2>1 DEF ClockInElsewhere
<1>9. CASE ClockInFind(p)
  <2> DEFINE found == OpenOrShiftRecords(call[p].guard, call[p].station, call[p].match, call[p].at)
  <2>1. call[p].pc = "find" /\ call[p] # Idle
    BY <1>9 DEF ClockInFind, At
  <2>2. CASE found = {} /\ Goto(p, "write")
    <3>1. call[p].match # Null => OfShift(call[p].guard, call[p].match) = {}
      BY <2>2 DEF OpenOrShiftRecords
    <3>2. call[p].id = Null
      BY <1>4, <2>1 DEF PunchKnows
    <3>3. OfShift(call[p].guard, call[p].match)' = OfShift(call[p].guard, call[p].match)
      BY <1>1, <1>7, <2>2 DEF OfShift, Live
    <3>4. PunchKnows(p)'
      BY <1>1, <1>4, <1>7, <2>1, <2>2, <3>1, <3>2, <3>3 DEF PunchKnows, Open, Live
    <3> QED
      BY <1>6, <1>7, <2>2, <3>4
  <2>3. CASE \E r \in Newest(found) : call' = [call EXCEPT ![p] =
                 [call[p] EXCEPT !.pc = "write", !.id = r,
                                 !.sessions = rows[r].sessions, !.out = rows[r].out]]
    <3>1. PICK r \in Newest(found) : call' = [call EXCEPT ![p] =
                 [call[p] EXCEPT !.pc = "write", !.id = r,
                                 !.sessions = rows[r].sessions, !.out = rows[r].out]]
      BY <2>3
    <3>2. rows[r].station = call[p].station /\ r \in Records
      BY <1>4, <2>1 DEF Newest, OpenOrShiftRecords, OfShift, WalkUps, PunchHolds,
                       IInv, RowsMatchSched
    <3> DEFINE c == [call[p] EXCEPT !.pc = "write", !.id = r,
                                    !.sessions = rows[r].sessions, !.out = rows[r].out]
    <3>3. /\ c.pc = "write" /\ c.id = r /\ c.guard = call[p].guard
          /\ c.station = call[p].station /\ c.match = call[p].match /\ c.fresh = call[p].fresh
      BY <1>2 DEF Punch
    <3>4. call' = [call EXCEPT ![p] = c] /\ call'[p] = c
      BY <3>1 DEF IInv, TypeInv, TypeOK
    <3> HIDE DEF c, found
    <3>5. r # Null
      BY <3>2, NullAssumption
    <3>6. PunchKnows(p)'
      BY <1>1, <1>4, <2>1, <3>2, <3>3, <3>4, <3>5 DEF PunchKnows, Open, Live
    <3> QED
      BY <1>6, <3>3, <3>4, <3>6
  <2> QED
    BY <1>5, <1>9, <2>2, <2>3 DEF ClockInFind
<1>10. CASE ClockInDuty(p)
  <2>1. call[p].pc = "dutyOn" /\ (Return(p) \/ (call[p].fresh /\ Goto(p, "applyIn")))
    BY <1>2, <1>10 DEF ClockInDuty, At, Punch
  <2>2. ASSUME call[p].fresh, Goto(p, "applyIn") PROVE IInv'
    <3>1. OfShift(call[p].guard, call[p].match)' = OfShift(call[p].guard, call[p].match)
      BY <1>1, <1>7, <2>2 DEF OfShift, Live
    <3>2. /\ rows[call[p].id].station = call[p].station
          /\ call[p].match # Null => OfShift(call[p].guard, call[p].match) = {}
      BY <1>1, <1>4, <2>1, <2>2 DEF PunchKnows
    <3>3. PunchKnows(p)'
      <4>1. /\ call'[p].pc = "applyIn" /\ call'[p].guard = call[p].guard
            /\ call'[p].id = call[p].id /\ call'[p].station = call[p].station
            /\ call'[p].match = call[p].match
        BY <1>7, <2>2
      <4> QED
        BY <1>1, <3>1, <3>2, <4>1 DEF PunchKnows
    <3> QED
      BY <1>6, <1>7, <2>2, <3>3
  <2> QED
    BY <1>5, <2>1, <2>2
<1> QED
  BY <1>8, <1>9, <1>10

\* A request writes one row of its guard: what the new row must satisfy.
LEMMA WriteRowInv ==
    ASSUME IInv, TypeInv', NEW p \in Punches, NEW r \in Records, NEW row \in Row,
           call[p] # Idle, row.guard = call[p].guard,
           rows' = [rows EXCEPT ![r] = row],
           Live(r) => rows[r].guard = row.guard /\ row.station = rows[r].station,
           call'[p] = Idle \/ call'[p].guard = call[p].guard,
           \A q \in Punches : q # p => call'[q] = call[q],
           PunchKnows(p)',
           row.shift # Null => /\ Sched[row.shift].guard = row.guard
                               /\ Sched[row.shift].station = row.station
                               /\ \/ Live(r) /\ rows[r].shift = row.shift
                                  \/ OfShift(row.guard, row.shift) = {},
           row.out = Null => \A x \in Records : Open(x) /\ rows[x].guard = row.guard
                                                => rows[x].station = row.station
    PROVE  IInv'
<1>1. rows'[r] = row /\ \A x \in Records : x # r => rows'[x] = rows[x]
  BY DEF IInv, TypeInv, TypeOK
<1>2. \A x \in Records : x # r => /\ Live(x)' <=> Live(x)
                                  /\ Open(x)' <=> Open(x)
  BY <1>1 DEF Live, Open
<1>3. OnePunchPerGuard'
  BY OnePunchKept DEF IInv
<1>4. RowsMatchSched'
  BY <1>1, <1>2 DEF IInv, RowsMatchSched
<1>5. OneStationEach'
  <2>1. ASSUME NEW x \in Records, x # r, Open(x)', Open(r)', rows'[x].guard = rows'[r].guard
        PROVE  rows'[x].station = rows'[r].station
    BY <1>1, <1>2, <2>1 DEF Open
  <2>2. ASSUME NEW x \in Records, NEW y \in Records, x # r, y # r,
               Open(x)', Open(y)', rows'[x].guard = rows'[y].guard
        PROVE  rows'[x].station = rows'[y].station
    BY <1>1, <1>2, <2>2 DEF IInv, OneStationEach
  <2> QED
    BY <2>1, <2>2 DEF OneStationEach
<1>6. OneRecordEach'
  <2>1. ASSUME NEW x \in Records, x # r, Live(x)', rows'[x].guard = row.guard,
               rows'[x].shift = row.shift, row.shift # Null
        PROVE  FALSE
    <3>1. Live(x) /\ rows[x].guard = row.guard /\ rows[x].shift = row.shift
      BY <1>1, <1>2, <2>1
    <3>2. CASE Live(r) /\ rows[r].shift = row.shift
      BY <2>1, <3>1, <3>2 DEF IInv, OneRecordEach
    <3>3. CASE OfShift(row.guard, row.shift) = {}
      BY <3>1, <3>3 DEF OfShift
    <3> QED
      BY <2>1, <3>2, <3>3
  <2>2. ASSUME NEW x \in Records, NEW y \in Records, x # r, y # r, Live(x)', Live(y)',
               rows'[x].guard = rows'[y].guard, rows'[x].shift = rows'[y].shift,
               rows'[x].shift # Null
        PROVE  x = y
    BY <1>1, <1>2, <2>2 DEF IInv, OneRecordEach
  <2> QED
    BY <1>1, <2>1, <2>2 DEF OneRecordEach
<1>7. ASSUME NEW q \in Punches PROVE PunchKnows(q)'
  BY <1>1, <1>7, OthersKnow
<1> QED
  BY <1>3, <1>4, <1>5, <1>6, <1>7 DEF IInv

LEMMA ReopenInv ==
    ASSUME IInv, TypeInv', NEW p \in Punches, ClockInReopen(p)
    PROVE  IInv'
<1>1. call[p] # Idle /\ call[p].pc = "write" /\ call[p] \in Punch /\ call[p].id # Null
  BY AtPunch DEF ClockInReopen, IInv, TypeInv, At
<1>2. call[p].id \in Records /\ rows[call[p].id] \in Row
  BY <1>1 DEF IInv, TypeInv, Holds, PunchHolds, Punch, IsRow
<1>3. /\ rows[call[p].id].guard = call[p].guard /\ rows[call[p].id].station = call[p].station
      /\ \A r \in Records : Open(r) /\ rows[r].guard = call[p].guard
                            => rows[r].station = call[p].station
  BY <1>1 DEF IInv, PunchKnows, TypeInv, Holds, PunchHolds
<1> DEFINE row == [rows[call[p].id] EXCEPT
                      !.sessions = AppendSession(call[p].sessions, call[p].at),
                      !.out = IF call[p].out = Null THEN rows[call[p].id].out ELSE Null]
           c == [call[p] EXCEPT !.pc = "dutyOn"]
<1>4. rows' = [rows EXCEPT ![call[p].id] = row] /\ call' = [call EXCEPT ![p] = c]
  BY <1>1 DEF ClockInReopen, Goto, IInv, TypeInv, TypeOK
<1>5. /\ row.guard = call[p].guard /\ row.station = call[p].station
      /\ row.shift = rows[call[p].id].shift
  BY <1>2, <1>3 DEF Row
<1>6. c.pc = "dutyOn" /\ c.guard = call[p].guard /\ c.fresh = call[p].fresh
  BY <1>1 DEF Punch
<1>7. row \in Row
  <2>1. AppendSession(call[p].sessions, call[p].at) \in Sessions
    BY <1>1, AppendSessionType DEF Punch
  <2> QED
    BY <1>1, <1>2, <2>1 DEF Row, Punch
<1> HIDE DEF row, c
<1>8. call'[p] = c /\ \A q \in Punches : q # p => call'[q] = call[q]
  BY <1>4 DEF IInv, TypeInv, TypeOK
<1>9. call[p].fresh = FALSE
  BY <1>1 DEF IInv, PunchKnows
<1>10. PunchKnows(p)'
  BY <1>6, <1>8, <1>9 DEF PunchKnows
<1>11. Live(call[p].id)
  BY <1>2, RowNotNull DEF Live
<1>12. row.shift # Null => /\ Sched[row.shift].guard = row.guard
                           /\ Sched[row.shift].station = row.station
  BY <1>2, <1>3, <1>5, <1>11 DEF IInv, RowsMatchSched
<1>13. \A x \in Records : Open(x) /\ rows[x].guard = row.guard
                         => rows[x].station = row.station
  BY <1>3, <1>5
<1>14. call'[p].guard = call[p].guard
  BY <1>6, <1>8
<1>15. rows[call[p].id].guard = row.guard /\ row.station = rows[call[p].id].station
  BY <1>3, <1>5
<1> QED
  BY <1>1, <1>2, <1>4, <1>5, <1>7, <1>8, <1>10, <1>11, <1>12, <1>13, <1>14, <1>15,
     WriteRowInv

LEMMA CreateInv ==
    ASSUME IInv, TypeInv', NEW p \in Punches, ClockInCreate(p)
    PROVE  IInv'
<1>1. call[p] # Idle /\ call[p].pc = "write" /\ call[p] \in Punch /\ call[p].id = Null
  BY AtPunch DEF ClockInCreate, IInv, TypeInv, At
<1>2. /\ call[p].station \in Stations
      /\ call[p].match # Null => OfShift(call[p].guard, call[p].match) = {}
      /\ \A r \in Records : Open(r) /\ rows[r].guard = call[p].guard
                            => rows[r].station = call[p].station
  BY <1>1 DEF IInv, PunchKnows, TypeInv, Holds, PunchHolds
<1> DEFINE row == [guard |-> call[p].guard, station |-> call[p].station, shift |-> Null,
                   in |-> call[p].at, out |-> Null, end |-> Null,
                   sessions |-> AppendSession(<< >>, call[p].at),
                   forced |-> FALSE, hours |-> Null]
           c(r) == [call[p] EXCEPT !.pc = "dutyOn", !.id = r, !.fresh = TRUE]
<1>3. PICK r \in Records : /\ rows[r] = Null /\ rows' = [rows EXCEPT ![r] = row]
                           /\ call' = [call EXCEPT ![p] = c(r)]
  BY <1>1 DEF ClockInCreate, IInv, TypeInv, TypeOK
<1>4. row.guard = call[p].guard /\ row.station = call[p].station /\ row.shift = Null
  OBVIOUS
<1>5. row \in Row
  <2>1. AppendSession(<< >>, call[p].at) \in Sessions
    BY <1>1, AppendSessionType, EmptySessions DEF Punch
  <2> QED
    BY <1>1, <1>2, <2>1 DEF Row, Punch
<1>6. /\ c(r).pc = "dutyOn" /\ c(r).guard = call[p].guard /\ c(r).id = r
      /\ c(r).station = call[p].station /\ c(r).match = call[p].match
  BY <1>1 DEF Punch
<1> HIDE DEF row, c
<1>7. call'[p] = c(r) /\ \A q \in Punches : q # p => call'[q] = call[q]
  BY <1>3 DEF IInv, TypeInv, TypeOK
<1>8. rows'[r] = row /\ ~Live(r) /\ \A x \in Records : x # r => rows'[x] = rows[x]
  BY <1>3 DEF IInv, TypeInv, TypeOK, Live
<1>9. PunchKnows(p)'
  <2>1. call[p].match # Null => OfShift(call[p].guard, call[p].match)' = {}
    BY <1>2, <1>4, <1>7, <1>8, <1>6 DEF OfShift, Live
  <2> QED
    BY <1>4, <1>6, <1>7, <1>8, <2>1 DEF PunchKnows
<1>10. \A x \in Records : Open(x) /\ rows[x].guard = row.guard
                         => rows[x].station = row.station
  BY <1>2, <1>4
<1>11. call'[p].guard = call[p].guard
  BY <1>6, <1>7
<1> QED
  BY <1>1, <1>3, <1>4, <1>5, <1>7, <1>8, <1>9, <1>10, <1>11, WriteRowInv

LEMMA ApplyClockInInv ==
    ASSUME IInv, TypeInv', NEW p \in Punches, ApplyClockIn(p)
    PROVE  IInv'
<1>1. call[p] # Idle /\ call[p].pc = "applyIn" /\ call[p] \in Punch /\ call[p].id # Null
  BY AtPunch DEF ApplyClockIn, IInv, TypeInv, At, Holds, PunchHolds
<1>2. call[p].id \in Records /\ rows[call[p].id] \in Row
  BY <1>1 DEF IInv, TypeInv, Holds, PunchHolds, Punch, IsRow
<1>3. /\ rows[call[p].id].guard = call[p].guard /\ rows[call[p].id].station = call[p].station
      /\ call[p].match # Null => /\ OfShift(call[p].guard, call[p].match) = {}
                                 /\ Sched[call[p].match].guard = call[p].guard
                                 /\ Sched[call[p].match].station = call[p].station
  BY <1>1 DEF IInv, PunchKnows, TypeInv, Holds, PunchHolds
<1> DEFINE row == [rows[call[p].id] EXCEPT
                      !.shift = call[p].match,
                      !.end = IF call[p].match = Null THEN Null ELSE Sched[call[p].match].end]
<1>4. rows' = [rows EXCEPT ![call[p].id] = row]
  BY DEF ApplyClockIn
<1>5. /\ row.guard = call[p].guard /\ row.station = call[p].station
      /\ row.shift = call[p].match /\ row.out = rows[call[p].id].out
  BY <1>2, <1>3 DEF Row
<1>6. row \in Row
  BY <1>1, <1>2, SchedAssumption DEF Row, Punch
<1> HIDE DEF row
<1>7. call'[p] = Idle /\ \A q \in Punches : q # p => call'[q] = call[q]
  BY DEF ApplyClockIn, Return, IInv, TypeInv, TypeOK
<1>8. PunchKnows(p)'
  BY <1>7 DEF PunchKnows
<1>9. Live(call[p].id) /\ (row.out = Null => Open(call[p].id))
  BY <1>2, <1>5, RowNotNull DEF Live, Open
<1>10. row.out = Null => \A x \in Records : Open(x) /\ rows[x].guard = row.guard
                                            => rows[x].station = row.station
  BY <1>2, <1>3, <1>5, <1>9 DEF IInv, OneStationEach
<1> QED
  BY <1>1, <1>2, <1>3, <1>4, <1>5, <1>6, <1>7, <1>8, <1>9, <1>10, WriteRowInv

\* Steps that touch one live record without opening, moving or re-tying it.
LEMMA KeepOneRow ==
    ASSUME TypeOK, NEW r \in Records, Live(r), NEW row \in Row,
           row.guard = rows[r].guard, row.station = rows[r].station,
           row.shift = rows[r].shift, row.out = Null => rows[r].out = Null,
           rows' = rows \/ rows' = [rows EXCEPT ![r] = row]
    PROVE  RowsKeep
<1>1. \A x \in Records : Live(x) => rows[x] \in Row
  BY LiveIsRow DEF IsRow
<1>2. \A x \in Records : rows'[x] = rows[x] \/ (x = r /\ rows'[x] = row)
  BY DEF TypeOK
<1> QED
  BY <1>1, <1>2 DEF RowsKeep

LEMMA NoRowKeeps ==
    ASSUME TypeOK, rows' = rows
    PROVE  RowsKeep
BY LiveIsRow DEF RowsKeep, IsRow

\* A clock-out opens no record and moves none.
LEMMA ClockOutKeeps ==
    ASSUME TypeInv, NEW p \in Punches,
           ClockOutLoad(p) \/ ClockOutClose(p) \/ ClockOutDuty(p) \/ ApplyClockOut(p)
    PROVE  RowsKeep
<1>0. call[p] # Idle /\ call[p] \in Punch
  BY DEF ClockOutLoad, ClockOutClose, ClockOutDuty, ApplyClockOut, At, TypeInv, TypeOK
<1>1. CASE rows' = rows
  BY <1>1, NoRowKeeps DEF TypeInv
<1>2. CASE ClockOutClose(p) \/ ApplyClockOut(p)
  <2>1. call[p].pc \in {"close", "applyOut"}
    BY <1>2 DEF ClockOutClose, ApplyClockOut, At
  <2>2. call[p].id \in Records /\ Live(call[p].id) /\ rows[call[p].id] \in Row
    BY <1>0, <2>1, RowNotNull DEF TypeInv, Holds, PunchHolds, Punch, IsRow, Live
  <2> DEFINE s == CloseSession(call[p].sessions, call[p].at)
             closed == [rows[call[p].id] EXCEPT
                         !.out = call[p].at,
                         !.sessions = IF s = call[p].sessions
                                      THEN rows[call[p].id].sessions ELSE s]
             applied == [rows[call[p].id] EXCEPT !.hours = call[p].sessions]
  <2>3. s \in Sessions
    BY <1>0, CloseSessionType DEF Punch
  <2> HIDE DEF s
  <2>4. /\ closed \in Row /\ closed.guard = rows[call[p].id].guard
        /\ closed.station = rows[call[p].id].station
        /\ closed.shift = rows[call[p].id].shift
        /\ closed.out = call[p].at /\ call[p].at # Null
    BY <1>0, <2>2, <2>3, NullAssumption DEF Row, Punch
  <2>5. /\ applied \in Row /\ applied.guard = rows[call[p].id].guard
        /\ applied.station = rows[call[p].id].station
        /\ applied.shift = rows[call[p].id].shift
        /\ applied.out = rows[call[p].id].out
    BY <1>0, <2>2 DEF Row, Punch
  <2>6. \/ rows' = [rows EXCEPT ![call[p].id] = closed]
        \/ rows' = [rows EXCEPT ![call[p].id] = applied]
    BY <1>2 DEF ClockOutClose, ApplyClockOut, s
  <2> HIDE DEF closed, applied
  <2>7. CASE rows' = [rows EXCEPT ![call[p].id] = closed]
    BY <2>2, <2>4, <2>7, KeepOneRow DEF TypeInv
  <2>8. CASE rows' = [rows EXCEPT ![call[p].id] = applied]
    BY <2>2, <2>5, <2>8, KeepOneRow DEF TypeInv
  <2> QED
    BY <2>6, <2>7, <2>8
<1> QED
  BY <1>1, <1>2 DEF ClockOutLoad, ClockOutDuty

LEMMA ClockOutInv ==
    ASSUME IInv, TypeInv', NEW p \in Punches,
           ClockOutLoad(p) \/ ClockOutClose(p) \/ ClockOutDuty(p) \/ ApplyClockOut(p)
    PROVE  IInv'
<1>1. /\ call[p] # Idle /\ call[p] \in Punch
      /\ call[p].pc \in {"load", "close", "dutyOff", "applyOut"}
  BY DEF ClockOutLoad, ClockOutClose, ClockOutDuty, ApplyClockOut, At, IInv, TypeInv, TypeOK
<1>2. RowsKeep
  BY ClockOutKeeps DEF IInv
<1>3. /\ call'[p] = Idle \/ ( /\ call'[p].guard = call[p].guard
                              /\ call'[p].pc \in {"close", "dutyOff", "applyOut"})
      /\ \A q \in Punches : q # p => call'[q] = call[q]
  <2>1. CASE Return(p)
    BY <2>1 DEF Return, IInv, TypeInv, TypeOK
  <2>2. CASE ClockOutLoad(p) /\ ~Return(p)
    <3>1. PICK r \in Newest(OpenOf(call[p].guard)) :
             call' = [call EXCEPT ![p] = [call[p] EXCEPT !.pc = "close", !.id = r, !.at = now,
                                                         !.sessions = rows[r].sessions]]
      BY <2>2 DEF ClockOutLoad
    <3> DEFINE c == [call[p] EXCEPT !.pc = "close", !.id = r, !.at = now,
                                    !.sessions = rows[r].sessions]
    <3>2. c.pc = "close" /\ c.guard = call[p].guard
      BY <1>1 DEF Punch
    <3>3. call' = [call EXCEPT ![p] = c]
      BY <3>1
    <3> HIDE DEF c
    <3> QED
      BY <3>2, <3>3 DEF IInv, TypeInv, TypeOK
  <2>3. CASE ClockOutClose(p)
    <3> DEFINE c == [call[p] EXCEPT !.pc = "dutyOff",
                                    !.sessions = CloseSession(call[p].sessions, call[p].at)]
    <3>1. c.pc = "dutyOff" /\ c.guard = call[p].guard
      BY <1>1 DEF Punch
    <3>2. call' = [call EXCEPT ![p] = c]
      BY <2>3 DEF ClockOutClose
    <3> HIDE DEF c
    <3> QED
      BY <3>1, <3>2 DEF IInv, TypeInv, TypeOK
  <2>4. CASE ClockOutDuty(p)
    <3> DEFINE c == [call[p] EXCEPT !.pc = "applyOut"]
    <3>1. c.pc = "applyOut" /\ c.guard = call[p].guard
      BY <1>1 DEF Punch
    <3>2. call' = [call EXCEPT ![p] = c]
      BY <2>4 DEF ClockOutDuty, Goto, IInv, TypeInv, TypeOK
    <3> HIDE DEF c
    <3> QED
      BY <3>1, <3>2 DEF IInv, TypeInv, TypeOK
  <2> QED
    BY <2>1, <2>2, <2>3, <2>4 DEF ApplyClockOut
<1>4. PunchKnows(p)'
  BY <1>3 DEF PunchKnows
<1>5. OnePunchPerGuard'
  BY <1>1, <1>3, OnePunchKept DEF IInv
<1> QED
  BY <1>2, <1>3, <1>4, <1>5, KeepInv

\* Neither does a sweep.
LEMMA SweepKeeps ==
    ASSUME TypeInv, NEW w \in Sweepers, SweepStep(w)
    PROVE  RowsKeep
<1>1. CASE rows' = rows
  BY <1>1, NoRowKeeps DEF TypeInv
<1>2. CASE SweepClaim(w) /\ rows' # rows
  <2>1. sweep[w] \in Sweep /\ \A x \in sweep[w].todo : x \in Records /\ rows[x] \in Row
    BY <1>2 DEF SweepClaim, SweepAt, TypeInv, TypeOK, Holds, SweepHolds, IsRow, Sweep
  <2>2. PICK r \in sweep[w].todo :
           rows' = [rows EXCEPT ![r] = [rows[r] EXCEPT !.out = sweep[w].at, !.forced = TRUE]]
    BY <1>2 DEF SweepClaim
  <2> DEFINE row == [rows[r] EXCEPT !.out = sweep[w].at, !.forced = TRUE]
  <2>3. /\ row \in Row /\ row.guard = rows[r].guard /\ row.station = rows[r].station
        /\ row.shift = rows[r].shift /\ row.out # Null
    <3>1. sweep[w].at \in Nat /\ sweep[w].at # Null /\ rows[r] \in Row
      BY <2>1, NullAssumption DEF Sweep
    <3> QED
      BY <3>1 DEF Row
  <2>4. Live(r) /\ rows' = [rows EXCEPT ![r] = row]
    BY <2>1, <2>2, RowNotNull DEF Live
  <2> HIDE DEF row
  <2> QED
    BY <2>1, <2>3, <2>4, KeepOneRow DEF TypeInv
<1>3. CASE SweepCloseSession(w) \/ SweepApplyClockOut(w)
  <2>1. sweep[w] \in Sweep /\ sweep[w].id \in Records /\ rows[sweep[w].id] \in Row
    BY <1>3 DEF SweepCloseSession, SweepApplyClockOut, SweepAt, TypeInv, TypeOK,
                Holds, SweepHolds, IsRow
  <2> DEFINE s == CloseSession(sweep[w].sessions, sweep[w].at)
             closed == [rows[sweep[w].id] EXCEPT !.sessions = s]
             applied == [rows[sweep[w].id] EXCEPT !.hours = sweep[w].sessions]
  <2>2. s \in Sessions
    BY <2>1, CloseSessionType DEF Sweep
  <2>3. \/ rows' = rows
        \/ rows' = [rows EXCEPT ![sweep[w].id] = closed]
        \/ rows' = [rows EXCEPT ![sweep[w].id] = applied]
    BY <1>3 DEF SweepCloseSession, SweepApplyClockOut
  <2> HIDE DEF s
  <2>4. /\ closed \in Row /\ closed.guard = rows[sweep[w].id].guard
        /\ closed.station = rows[sweep[w].id].station
        /\ closed.shift = rows[sweep[w].id].shift /\ closed.out = rows[sweep[w].id].out
    BY <2>1, <2>2 DEF Row
  <2>5. /\ applied \in Row /\ applied.guard = rows[sweep[w].id].guard
        /\ applied.station = rows[sweep[w].id].station
        /\ applied.shift = rows[sweep[w].id].shift /\ applied.out = rows[sweep[w].id].out
    BY <2>1 DEF Row, Sweep
  <2>6. Live(sweep[w].id)
    BY <2>1, RowNotNull DEF Live
  <2> HIDE DEF closed, applied
  <2>7. CASE rows' = [rows EXCEPT ![sweep[w].id] = closed]
    BY <2>1, <2>4, <2>6, <2>7, KeepOneRow DEF TypeInv
  <2>8. CASE rows' = [rows EXCEPT ![sweep[w].id] = applied]
    BY <2>1, <2>5, <2>6, <2>8, KeepOneRow DEF TypeInv
  <2> QED
    BY <1>1, <2>3, <2>7, <2>8
<1> QED
  BY <1>1, <1>2, <1>3 DEF SweepStep, SweepScan, SweepReload, SweepLoadGuard, SweepDuty

LEMMA SweepInv ==
    ASSUME IInv, TypeInv', NEW w \in Sweepers, SweepStep(w)
    PROVE  IInv'
<1>1. UNCHANGED call
  BY DEF SweepStep, SweepScan, SweepClaim, SweepReload, SweepLoadGuard, SweepCloseSession,
         SweepDuty, SweepApplyClockOut
<1>2. RowsKeep
  BY SweepKeeps DEF IInv
<1>3. OnePunchPerGuard'
  BY <1>1 DEF IInv, OnePunchPerGuard
<1> QED
  BY <1>1, <1>2, <1>3, KeepInv

LEMMA EnvironmentInv ==
    ASSUME IInv, TypeInv',
           \/ SyncStep \/ Tick \/ UNCHANGED vars
           \/ \E p \in Punches : PunchDies(p)
           \/ \E w \in Sweepers : SweepDies(w)
    PROVE  IInv'
<1>1. rows' = rows
  BY DEF SyncStep, SyncOn, SyncOff, Tick, PunchDies, SweepDies, vars
<1>2. RowsKeep
  BY <1>1, NoRowKeeps DEF IInv, TypeInv
<1>3. \A q \in Punches : call'[q] = call[q] \/ call'[q] = Idle
  BY DEF SyncStep, SyncOn, SyncOff, Tick, PunchDies, SweepDies, vars, Return, IInv, TypeInv, TypeOK
<1>4. OnePunchPerGuard'
  BY <1>3 DEF IInv, OnePunchPerGuard
<1>5. \A q \in Punches : call'[q] = Idle => PunchKnows(q)'
  BY DEF PunchKnows
<1> QED
  BY <1>2, <1>3, <1>4, <1>5, KeepInv

LEMMA InitInv == Init => IInv
<1> SUFFICES ASSUME Init PROVE IInv
  OBVIOUS
<1>1. (\A r \in Records : rows[r] = Null) /\ (\A p \in Punches : call[p] = Idle)
  BY DEF Init
<1> QED
  BY <1>1, InitTypeInv DEF IInv, RowsMatchSched, OnePunchPerGuard, PunchKnows,
     OneStationEach, OneRecordEach, Open, Live

LEMMA NextInv == ~Overlap /\ IInv /\ [Next]_vars => IInv'
<1> SUFFICES ASSUME ~Overlap, IInv, [Next]_vars PROVE IInv'
  OBVIOUS
<1>0. TypeInv'
  BY NextTypeInv DEF IInv
<1>1. CASE \E p \in Punches, g \in Guards, s \in Stations : ClockInBegin(p, g, s)
  BY <1>0, <1>1, BeginInv
<1>2. CASE \E p \in Punches, g \in Guards : ClockOutBegin(p, g)
  BY <1>0, <1>2, BeginInv
<1>3. CASE \E p \in Punches : PunchStep(p)
  BY <1>0, <1>3, ClockInReadInv, ReopenInv, CreateInv, ApplyClockInInv, ClockOutInv
     DEF PunchStep
<1>4. CASE \E w \in Sweepers : SweepStep(w)
  BY <1>0, <1>4, SweepInv
<1>5. CASE \/ SyncStep \/ Tick \/ UNCHANGED vars
           \/ (\E p \in Punches : PunchDies(p)) \/ (\E w \in Sweepers : SweepDies(w))
  BY <1>0, <1>5, EnvironmentInv
<1> QED
  BY <1>1, <1>2, <1>3, <1>4, <1>5 DEF Next

-----------------------------------------------------------------------------
(* The records implement GuardPost *)

\* An open record tells where its guard is.
PostIsStation ==
    \A g \in Guards :
        /\ OpenOf(g) = {} => PostOf(g) = Null
        /\ \A r \in OpenOf(g) : PostOf(g) = rows[r].station /\ rows[r].station \in Stations

LEMMA PostOfOpen == IInv => PostIsStation
<1> SUFFICES ASSUME IInv, NEW g \in Guards, NEW r \in OpenOf(g)
             PROVE  PostOf(g) = rows[r].station /\ rows[r].station \in Stations
  BY DEF PostIsStation, PostOf
<1>1. r \in Records /\ Open(r) /\ rows[r].guard = g /\ rows[r] \in Row
  BY LiveIsRow DEF OpenOf, Open, IsRow, IInv, TypeInv
<1>2. rows[r].station \in Stations
  BY <1>1 DEF Row
<1>3. \A s \in Stations : (\E q \in OpenOf(g) : rows[q].station = s) <=> s = rows[r].station
  BY <1>1 DEF OpenOf, IInv, OneStationEach
<1>4. PostOf(g) = CHOOSE s \in Stations : \E q \in OpenOf(g) : rows[q].station = s
  BY DEF PostOf
<1> QED
  BY <1>2, <1>3, <1>4

\* A step writes one row, and moves no record to another guard or station.
OneRow(r) ==
    /\ \A x \in Records : x # r => rows'[x] = rows[x]
    /\ Live(r) => rows'[r].guard = rows[r].guard /\ rows'[r].station = rows[r].station

LEMMA OneRowPost ==
    ASSUME IInv, PostIsStation, PostIsStation', TypeInv', NEW r \in Records, OneRow(r)
    PROVE  Posts!Next \/ UNCHANGED [g \in Guards |-> PostOf(g)]
<1> DEFINE post == [g \in Guards |-> PostOf(g)]
<1>1. \A x \in Records : x # r => (Open(x)' <=> Open(x)) /\ rows'[x] = rows[x]
  BY DEF OneRow, Open, Live
<1>2. CASE ~Open(r) /\ ~Open(r)'
  <2>1. \A g \in Guards : OpenOf(g)' = OpenOf(g)
    BY <1>1, <1>2 DEF OpenOf
  <2>2. \A g \in Guards : \A x \in OpenOf(g) : rows'[x] = rows[x]
    BY <1>1, <1>2 DEF OpenOf
  <2>3. \A g \in Guards : PostOf(g)' = PostOf(g)
    BY <2>1, <2>2 DEF PostIsStation
  <2> QED
    BY <2>3
<1>3. CASE Open(r) \/ Open(r)'
  <2>1. PICK h \in Guards : h = rows'[r].guard /\ (Open(r) => rows[r].guard = h)
    <3>1. Open(r) => rows[r].guard \in Guards /\ rows'[r].guard = rows[r].guard
      BY LiveIsRow DEF Open, IsRow, Row, OneRow, IInv, TypeInv
    <3>2. Open(r)' => rows'[r].guard \in Guards
      BY DEF Open, Live, TypeInv, TypeOK, Row
    <3> QED
      BY <1>3, <3>1, <3>2
  <2>2. ASSUME NEW g \in Guards, g # h PROVE PostOf(g)' = PostOf(g)
    <3>1. OpenOf(g)' = OpenOf(g) /\ r \notin OpenOf(g)
      BY <1>1, <2>1, <2>2 DEF OpenOf
    <3>2. \A x \in OpenOf(g) : rows'[x] = rows[x]
      BY <1>1, <3>1 DEF OpenOf
    <3> QED
      BY <3>1, <3>2 DEF PostIsStation
  <2>3. CASE OpenOf(h) = {} /\ OpenOf(h)' = {}
    <3>1. PostOf(h)' = PostOf(h)
      BY <2>3 DEF PostIsStation
    <3> QED
      BY <2>2, <3>1
  <2>4. CASE OpenOf(h) # {} /\ OpenOf(h)' # {}
    <3>1. PICK x : x \in OpenOf(h) /\ x \in OpenOf(h)'
      BY <1>1, <2>1, <2>4 DEF OpenOf
    <3>2. rows'[x].station = rows[x].station
      BY <3>1 DEF OneRow, OpenOf, Open
    <3>3. PostOf(h)' = PostOf(h)
      BY <3>1, <3>2 DEF PostIsStation
    <3> QED
      BY <2>2, <3>3
  <2>5. CASE OpenOf(h) = {} /\ OpenOf(h)' # {}
    <3>1. PostOf(h) = Null /\ PostOf(h)' \in Stations
      BY <2>5 DEF PostIsStation
    <3>2. post[h] = Null /\ post' = [post EXCEPT ![h] = PostOf(h)']
      BY <2>2, <3>1
    <3>3. Posts!Arrive(h)
      BY <3>1, <3>2 DEF Posts!Arrive
    <3> QED
      BY <3>3 DEF Posts!Next
  <2>6. CASE OpenOf(h) # {} /\ OpenOf(h)' = {}
    <3>1. PostOf(h) \in Stations /\ PostOf(h)' = Null
      BY <2>6 DEF PostIsStation
    <3>2. post[h] # Null /\ post' = [post EXCEPT ![h] = Null]
      BY <2>2, <3>1, NullAssumption
    <3>3. Posts!Leave(h)
      BY <3>2 DEF Posts!Leave
    <3> QED
      BY <3>3 DEF Posts!Next
  <2> QED
    BY <2>3, <2>4, <2>5, <2>6
<1> QED
  BY <1>2, <1>3

\* Which row each step writes.
LEMMA StepsWriteOneRow ==
    ASSUME IInv, [Next]_vars
    PROVE  rows' = rows \/ \E r \in Records : OneRow(r)
<1>1. ASSUME NEW r \in Records, NEW row, rows' = [rows EXCEPT ![r] = row],
             Live(r) => row.guard = rows[r].guard /\ row.station = rows[r].station
      PROVE  OneRow(r)
  BY <1>1 DEF OneRow, IInv, TypeInv, TypeOK
<1>2. ASSUME NEW p \in Punches, ClockInReopen(p) \/ ApplyClockIn(p) \/ ClockOutClose(p) \/ ApplyClockOut(p)
      PROVE  \E r \in Records : OneRow(r)
  <2>1. /\ call[p] # Idle /\ call[p].pc \in {"write", "applyIn", "close", "applyOut"}
        /\ call[p].pc = "write" => call[p].id # Null
    BY <1>2 DEF ClockInReopen, ApplyClockIn, ClockOutClose, ApplyClockOut, At
  <2>2. call[p].id \in Records /\ rows[call[p].id] \in Row
    BY <2>1 DEF IInv, TypeInv, TypeOK, Holds, PunchHolds, Punch, IsRow
  <2>3. PICK row : /\ rows' = [rows EXCEPT ![call[p].id] = row]
                   /\ row.guard = rows[call[p].id].guard
                   /\ row.station = rows[call[p].id].station
    <3>1. CASE ClockInReopen(p)
      <4> DEFINE old == rows[call[p].id]
      <4>1. PICK row : row = [old EXCEPT !.sessions = AppendSession(call[p].sessions, call[p].at),
                                        !.out = IF call[p].out = Null THEN old.out ELSE Null]
        OBVIOUS
      <4>2. row.guard = old.guard /\ row.station = old.station
        BY <2>2, <4>1 DEF Row
      <4>3. rows' = [rows EXCEPT ![call[p].id] = row]
        BY <3>1, <4>1 DEF ClockInReopen
      <4> QED
        BY <4>2, <4>3
    <3>2. CASE ApplyClockIn(p)
      <4> DEFINE old == rows[call[p].id]
      <4>1. PICK row : row = [old EXCEPT !.shift = call[p].match,
                                        !.end = IF call[p].match = Null THEN Null
                                                ELSE Sched[call[p].match].end]
        OBVIOUS
      <4>2. row.guard = old.guard /\ row.station = old.station
        BY <2>2, <4>1 DEF Row
      <4>3. rows' = [rows EXCEPT ![call[p].id] = row]
        BY <3>2, <4>1 DEF ApplyClockIn
      <4> QED
        BY <4>2, <4>3
    <3>3. CASE ClockOutClose(p)
      <4> DEFINE old == rows[call[p].id]
      <4>1. PICK row : row = [old EXCEPT !.out = call[p].at,
                                        !.sessions =
                                          IF CloseSession(call[p].sessions, call[p].at) = call[p].sessions
                                          THEN old.sessions
                                          ELSE CloseSession(call[p].sessions, call[p].at)]
        OBVIOUS
      <4>2. row.guard = old.guard /\ row.station = old.station
        BY <2>2, <4>1 DEF Row
      <4>3. rows' = [rows EXCEPT ![call[p].id] = row]
        BY <3>3, <4>1 DEF ClockOutClose
      <4> QED
        BY <4>2, <4>3
    <3>4. CASE ApplyClockOut(p)
      <4> DEFINE old == rows[call[p].id]
      <4>1. PICK row : row = [old EXCEPT !.hours = call[p].sessions]
        OBVIOUS
      <4>2. row.guard = old.guard /\ row.station = old.station
        BY <2>2, <4>1 DEF Row
      <4>3. rows' = [rows EXCEPT ![call[p].id] = row]
        BY <3>4, <4>1 DEF ApplyClockOut
      <4> QED
        BY <4>2, <4>3
    <3> QED
      BY <1>2, <3>1, <3>2, <3>3, <3>4
  <2> QED
    BY <1>1, <2>2, <2>3
<1>3. ASSUME NEW p \in Punches, ClockInCreate(p) PROVE \E r \in Records : OneRow(r)
  <2>1. PICK r \in Records : rows[r] = Null /\ \E row : rows' = [rows EXCEPT ![r] = row]
    BY <1>3 DEF ClockInCreate
  <2> QED
    BY <1>1, <2>1 DEF Live
<1>4. ASSUME NEW w \in Sweepers, SweepStep(w) PROVE rows' = rows \/ \E r \in Records : OneRow(r)
  <2>1. CASE SweepClaim(w) /\ rows' # rows
    <3>1. \A x \in sweep[w].todo : x \in Records /\ rows[x] \in Row
      BY <2>1 DEF SweepClaim, SweepAt, IInv, TypeInv, TypeOK, Holds, SweepHolds, IsRow, Sweep
    <3>2. PICK r \in sweep[w].todo :
             rows' = [rows EXCEPT ![r] = [rows[r] EXCEPT !.out = sweep[w].at, !.forced = TRUE]]
      BY <2>1 DEF SweepClaim
    <3>3. PICK row : row = [rows[r] EXCEPT !.out = sweep[w].at, !.forced = TRUE]
      OBVIOUS
    <3>4. row.guard = rows[r].guard /\ row.station = rows[r].station
      BY <3>1, <3>3 DEF Row
    <3> QED
      BY <1>1, <3>1, <3>2, <3>3, <3>4
  <2>2. CASE SweepCloseSession(w) \/ SweepApplyClockOut(w)
    <3>1. sweep[w].id \in Records /\ rows[sweep[w].id] \in Row
      BY <2>2 DEF SweepCloseSession, SweepApplyClockOut, SweepAt, IInv, TypeInv, TypeOK,
                  Holds, SweepHolds, IsRow
    <3>2. rows' = rows \/ \E row : /\ rows' = [rows EXCEPT ![sweep[w].id] = row]
                                  /\ row.guard = rows[sweep[w].id].guard
                                  /\ row.station = rows[sweep[w].id].station
      BY <2>2, <3>1 DEF SweepCloseSession, SweepApplyClockOut, Row
    <3> QED
      BY <1>1, <3>1, <3>2
  <2> QED
    BY <1>4, <2>1, <2>2 DEF SweepStep, SweepScan, SweepReload, SweepLoadGuard, SweepDuty
<1> QED
  BY <1>2, <1>3, <1>4 DEF Next, vars, ClockInBegin, ClockOutBegin, PunchStep, ClockInElsewhere,
     ClockInFind, ClockInDuty, ClockOutLoad, ClockOutDuty, PunchDies, SweepDies, SyncStep,
     SyncOn, SyncOff, Tick

\* As long as no guard has two punches in flight, the records of a guard, opened, reopened,
\* closed and swept in any order and with any fault, show him arriving at a station and
\* leaving it before he arrives anywhere else (guardMeClockIn's openElsewhere check).
THEOREM RecordsImplementPosts ==
    ASSUME ~Overlap
    PROVE  Spec => ImplementsGuardPost
<1>1. Init => Posts!Init
  BY DEF Init, Posts!Init, PostOf, OpenOf, Open, Live
<1>2. IInv /\ IInv' /\ PostIsStation /\ PostIsStation' /\ [Next]_vars
         => [Posts!Next]_([g \in Guards |-> PostOf(g)])
  <2> SUFFICES ASSUME IInv, IInv', PostIsStation, PostIsStation', [Next]_vars
               PROVE  Posts!Next \/ UNCHANGED [g \in Guards |-> PostOf(g)]
    OBVIOUS
  <2>1. CASE rows' = rows
    BY <2>1 DEF PostOf, OpenOf, Open, Live
  <2>2. ASSUME NEW r \in Records, OneRow(r)
        PROVE  Posts!Next \/ UNCHANGED [g \in Guards |-> PostOf(g)]
    BY <2>2, OneRowPost DEF IInv
  <2> QED
    BY <2>1, <2>2, StepsWriteOneRow
<1>3. Spec => []IInv
  BY InitInv, NextInv, PTL DEF Spec
<1> QED
  BY <1>1, <1>2, <1>3, PostOfOpen, PTL DEF Spec, ImplementsGuardPost, Posts!Spec


-----------------------------------------------------------------------------
(* Sessions: what handlers and sweeps have loaded *)

\* The one session of a record, still open.
Single(s) == Len(s) = 1 /\ s[1].out = Null

PunchLoaded(p) == call[p] # Idle /\ call[p].id # Null /\ call[p].pc \in {"write", "close"}
SweepLoaded(w) == sweep[w] # Idle /\ sweep[w].pc \in {"guard", "sessions"}

\* A record has a session, and so has whatever was loaded from it; as long as it has but
\* the one it began with, still open, that is what was loaded.
IsLoaded(s, r) == s # << >> /\ (Single(rows[r].sessions) => s = rows[r].sessions)
SessionsInv ==
    /\ TypeInv
    /\ \A r \in Records : Live(r) => rows[r].sessions # << >>
    /\ \A p \in Punches :
          /\ PunchLoaded(p) => IsLoaded(call[p].sessions, call[p].id)
          /\ call[p] # Idle /\ call[p].pc \in {"elsewhere", "find"} => call[p].id = Null
          /\ PunchLoaded(p) /\ call[p].pc = "write" => Len(call[p].sessions) < MaxSessions
    /\ \A w \in Sweepers : SweepLoaded(w) => IsLoaded(sweep[w].sessions, sweep[w].id)

\* Closing leaves no single open session, appending to a list that has one neither.
LEMMA CloseNotSingle ==
    ASSUME NEW s \in Sessions, s # << >>, NEW t \in Nat
    PROVE  CloseSession(s, t) # << >> /\ ~Single(CloseSession(s, t))
<1>1. Len(s) \in Nat \ {0} /\ \A i \in 1 .. Len(s) : s[i] \in Session
  BY EmptySeq DEF Sessions
<1>2. CloseSession(s, t) \in Seq(Session) /\ Len(CloseSession(s, t)) = Len(s)
  <2>1. DOMAIN CloseSession(s, t) = 1 .. Len(s)
    BY DEF CloseSession
  <2>2. CloseSession(s, t) \in Seq(Session)
    BY CloseSessionType DEF Sessions
  <2> QED
    BY <1>1, <2>1, <2>2, LenProperties
<1>3. ASSUME Len(s) = 1 PROVE CloseSession(s, t)[1].out # Null
  <2>1. s[1] \in Session /\ 1 \in 1 .. Len(s)
    BY <1>1, <1>3
  <2>2. CASE s[1].out = Null
    <3>1. 1 \in LastOpen(s)
      BY <1>3, <2>2 DEF LastOpen, OpenIndexes
    <3>2. CloseSession(s, t)[1] = [s[1] EXCEPT !.out = t]
      BY <2>1, <3>1 DEF CloseSession
    <3> QED
      BY <2>1, <3>2, NullAssumption DEF Session
  <2>3. CASE s[1].out # Null
    <3>1. 1 \notin LastOpen(s)
      BY <2>3 DEF LastOpen, OpenIndexes
    <3>2. CloseSession(s, t)[1] = s[1]
      BY <2>1, <3>1 DEF CloseSession
    <3> QED
      BY <2>3, <3>2
  <2> QED
    BY <2>2, <2>3
<1> QED
  BY <1>1, <1>2, <1>3 DEF Single

LEMMA AppendNotSingle ==
    ASSUME NEW s \in Sessions, NEW t \in Nat
    PROVE  AppendSession(s, t) # << >> /\ (s # << >> => ~Single(AppendSession(s, t)))
<1>1. [in |-> t, out |-> Null] \in Session
  BY DEF Session
<1>2. Len(AppendSession(s, t)) = Len(s) + 1 /\ Len(s) \in Nat
  BY <1>1, AppendProperties, LenProperties DEF AppendSession, Sessions
<1>3. s # << >> => Len(s) # 0
  BY EmptySeq DEF Sessions
<1> QED
  BY <1>2, <1>3 DEF Single

\* A request goes on: it ends, or takes up a record as it is.
Taken(c) ==
    c # Idle =>
        /\ c.id # Null /\ c.pc \in {"write", "close"} =>
              c.id \in Records /\ Live(c.id) /\ rows' = rows /\ c.sessions = rows[c.id].sessions
        /\ c.id # Null /\ c.pc = "write" => Len(c.sessions) < MaxSessions
        /\ c.pc \in {"elsewhere", "find"} => c.id = Null
Turn(p) == \E c : call' = [call EXCEPT ![p] = c] /\ Taken(c)

LEMMA ReturnTurn ==
    ASSUME NEW p \in Punches, Return(p)
    PROVE  Turn(p)
BY DEF Return, Turn, Taken

LEMMA GotoTurn ==
    ASSUME TypeInv, NEW p \in Punches, call[p] # Idle,
           NEW pc \in {"find", "write", "dutyOn", "applyIn", "dutyOff", "applyOut"},
           pc \in {"find", "write"} => call[p].id = Null,
           Goto(p, pc)
    PROVE  Turn(p)
<1>1. call[p] \in Punch
  BY DEF TypeInv, TypeOK
<1>2. PICK c : c = [call[p] EXCEPT !.pc = pc]
  OBVIOUS
<1>3. c.pc = pc /\ c.id = call[p].id
  BY <1>1, <1>2 DEF Punch
<1>4. call' = [call EXCEPT ![p] = c]
  BY <1>2 DEF Goto, TypeInv, TypeOK
<1> QED
  BY <1>3, <1>4 DEF Turn, Taken

LEMMA ClockInTurn ==
    ASSUME SessionsInv, NEW p \in Punches,
           \/ ClockInElsewhere(p) \/ ClockInFind(p) \/ ClockInReopen(p) \/ ClockInCreate(p)
           \/ ClockInDuty(p) \/ ApplyClockIn(p)
    PROVE  Turn(p)
<1>0. TypeInv
  BY DEF SessionsInv
<1>1. call[p] # Idle /\ call[p] \in Punch
  BY DEF ClockInElsewhere, ClockInFind, ClockInReopen, ClockInCreate, ClockInDuty, ApplyClockIn,
         At, SessionsInv, TypeInv, TypeOK
<1>2. call[p].pc \in {"elsewhere", "find"} => call[p].id = Null
  BY <1>1 DEF SessionsInv
<1>3. CASE Return(p)
  BY <1>3, ReturnTurn
<1>4. CASE ClockInElsewhere(p) /\ Goto(p, "find")
  BY <1>0, <1>1, <1>2, <1>4, GotoTurn DEF ClockInElsewhere, At
<1>5. CASE ClockInFind(p) /\ Goto(p, "write")
  BY <1>0, <1>1, <1>2, <1>5, GotoTurn DEF ClockInFind, At
<1>6. CASE ClockInFind(p) /\ ~Goto(p, "write") /\ ~Return(p)
  <2>1. PICK r \in Newest(OpenOrShiftRecords(call[p].guard, call[p].station, call[p].match, call[p].at)) :
           /\ Len(rows[r].sessions) < MaxSessions
           /\ call' = [call EXCEPT ![p] = [call[p] EXCEPT !.pc = "write", !.id = r,
                       !.sessions = rows[r].sessions, !.out = rows[r].out]]
    BY <1>6 DEF ClockInFind
  <2>2. r \in Records /\ Live(r)
    BY DEF Newest, OpenOrShiftRecords, OfShift, WalkUps
  <2>3. PICK c : c = [call[p] EXCEPT !.pc = "write", !.id = r,
                       !.sessions = rows[r].sessions, !.out = rows[r].out]
    OBVIOUS
  <2>4. c.pc = "write" /\ c.id = r /\ c.sessions = rows[r].sessions
    BY <1>1, <2>3 DEF Punch
  <2>5. call' = [call EXCEPT ![p] = c] /\ rows' = rows
    BY <1>6, <2>1, <2>3 DEF ClockInFind
  <2> QED
    BY <2>1, <2>2, <2>4, <2>5 DEF Turn, Taken
<1>7. CASE ClockInReopen(p)
  BY <1>0, <1>1, <1>7, GotoTurn DEF ClockInReopen
<1>8. CASE ClockInCreate(p)
  <2>1. PICK r \in Records : call' = [call EXCEPT ![p] =
                                        [call[p] EXCEPT !.pc = "dutyOn", !.id = r, !.fresh = TRUE]]
    BY <1>8 DEF ClockInCreate, SessionsInv, TypeInv, TypeOK
  <2>2. PICK c : c = [call[p] EXCEPT !.pc = "dutyOn", !.id = r, !.fresh = TRUE]
    OBVIOUS
  <2>3. c.pc = "dutyOn"
    BY <1>1, <2>2 DEF Punch
  <2> QED
    BY <2>1, <2>2, <2>3 DEF Turn, Taken
<1>9. CASE ClockInDuty(p) /\ Goto(p, "applyIn")
  BY <1>0, <1>1, <1>9, GotoTurn
<1> QED
  BY <1>3, <1>4, <1>5, <1>6, <1>7, <1>8, <1>9 DEF ClockInElsewhere, ClockInDuty, ApplyClockIn

LEMMA ClockOutTurn ==
    ASSUME SessionsInv, NEW p \in Punches,
           ClockOutLoad(p) \/ ClockOutClose(p) \/ ClockOutDuty(p) \/ ApplyClockOut(p)
    PROVE  Turn(p)
<1>0. TypeInv
  BY DEF SessionsInv
<1>1. call[p] # Idle /\ call[p] \in Punch
  BY DEF ClockOutLoad, ClockOutClose, ClockOutDuty, ApplyClockOut, At, SessionsInv, TypeInv, TypeOK
<1>2. CASE Return(p)
  BY <1>2, ReturnTurn
<1>3. CASE ClockOutLoad(p) /\ ~Return(p)
  <2>1. PICK r \in Newest(OpenOf(call[p].guard)) :
           call' = [call EXCEPT ![p] = [call[p] EXCEPT !.pc = "close", !.id = r, !.at = now,
                                                       !.sessions = rows[r].sessions]]
    BY <1>3 DEF ClockOutLoad
  <2>2. r \in Records /\ Live(r)
    BY DEF Newest, OpenOf, Open
  <2>3. PICK c : c = [call[p] EXCEPT !.pc = "close", !.id = r, !.at = now,
                                     !.sessions = rows[r].sessions]
    OBVIOUS
  <2>4. c.pc = "close" /\ c.id = r /\ c.sessions = rows[r].sessions
    BY <1>1, <2>3 DEF Punch
  <2>5. call' = [call EXCEPT ![p] = c] /\ rows' = rows
    BY <1>3, <2>1, <2>3 DEF ClockOutLoad
  <2> QED
    BY <2>2, <2>4, <2>5 DEF Turn, Taken
<1>4. CASE ClockOutClose(p)
  <2>1. PICK c : c = [call[p] EXCEPT !.pc = "dutyOff",
                                     !.sessions = CloseSession(call[p].sessions, call[p].at)]
    OBVIOUS
  <2>2. c.pc = "dutyOff"
    BY <1>1, <2>1 DEF Punch
  <2>3. call' = [call EXCEPT ![p] = c]
    BY <1>4, <2>1 DEF ClockOutClose
  <2> QED
    BY <2>2, <2>3 DEF Turn, Taken
<1>5. CASE ClockOutDuty(p)
  BY <1>0, <1>1, <1>5, GotoTurn DEF ClockOutDuty
<1> QED
  BY <1>2, <1>3, <1>4, <1>5 DEF ApplyClockOut

LEMMA BeginTurn ==
    ASSUME NEW p \in Punches, NEW g \in Guards,
           ClockOutBegin(p, g) \/ \E s \in Stations : ClockInBegin(p, g, s)
    PROVE  Turn(p)
<1>1. PICK c : call' = [call EXCEPT ![p] = c] /\ c.pc \in {"elsewhere", "load"} /\ c.id = Null
  <2>1. CASE ClockOutBegin(p, g)
    <3>1. PICK c : c = [pc |-> "load", guard |-> g, station |-> Null, at |-> 0, match |-> Null,
                        duty |-> onDuty[g], id |-> Null, fresh |-> FALSE,
                        sessions |-> << >>, out |-> Null]
      OBVIOUS
    <3>2. c.pc = "load" /\ c.id = Null
      BY <3>1
    <3> QED
      BY <2>1, <3>1, <3>2 DEF ClockOutBegin
  <2>2. ASSUME NEW s \in Stations, ClockInBegin(p, g, s)
        PROVE  \E c : call' = [call EXCEPT ![p] = c] /\ c.pc \in {"elsewhere", "load"} /\ c.id = Null
    <3>1. PICK m : call' = [call EXCEPT ![p] =
                  [pc |-> "elsewhere", guard |-> g, station |-> s, at |-> now, match |-> m,
                   duty |-> onDuty[g], id |-> Null, fresh |-> FALSE,
                   sessions |-> << >>, out |-> Null]]
      BY <2>2 DEF ClockInBegin
    <3>2. PICK c : c = [pc |-> "elsewhere", guard |-> g, station |-> s, at |-> now, match |-> m,
                        duty |-> onDuty[g], id |-> Null, fresh |-> FALSE,
                        sessions |-> << >>, out |-> Null]
      OBVIOUS
    <3>3. c.pc = "elsewhere" /\ c.id = Null
      BY <3>2
    <3> QED
      BY <3>1, <3>2, <3>3
  <2> QED
    BY <2>1, <2>2
<1> QED
  BY <1>1 DEF Turn, Taken

\* What a step may do to the rows: a record that has its one session still open had it before,
\* and one that is closed was closed before or has just been claimed; only a re-entry reopens one.
Claimed(r) == \E w \in Sweepers : sweep'[w] # Idle /\ sweep'[w].id = r /\ sweep'[w].pc = "reload"
Reopening == \E p \in Punches : ClockInReopen(p)
RowMoves(r, row) ==
    /\ row.sessions # << >>
    /\ ~Live(r) => row.out = Null
    /\ Live(r) /\ Single(row.sessions) =>
          /\ row.sessions = rows[r].sessions
          /\ row.out # Null => rows[r].out # Null \/ Claimed(r)
    /\ Live(r) /\ rows[r].out # Null /\ row.out = Null => Reopening
RowsMove == \A r \in Records : rows'[r] = rows[r] \/ RowMoves(r, rows'[r])

LEMMA WriteMoves ==
    ASSUME TypeInv, NEW r \in Records, NEW row, RowMoves(r, row), rows' = [rows EXCEPT ![r] = row]
    PROVE  RowsMove
BY DEF RowsMove, TypeInv, TypeOK

LEMMA PunchMovesRows ==
    ASSUME SessionsInv, NEW p \in Punches, PunchStep(p)
    PROVE  RowsMove
<1>0. TypeInv
  BY DEF SessionsInv
<1>1. CASE rows' = rows
  BY <1>1 DEF RowsMove
<1>2. ASSUME call[p] # Idle, call[p].pc \in {"write", "applyIn", "close", "applyOut"},
             call[p].pc = "write" => call[p].id # Null
      PROVE  /\ call[p] \in Punch /\ call[p].id \in Records /\ Live(call[p].id)
             /\ rows[call[p].id] \in Row /\ rows[call[p].id].sessions # << >>
  <2>1. call[p] \in Punch /\ call[p].id # Null
    BY <1>0, <1>2 DEF TypeInv, TypeOK, Holds, PunchHolds
  <2>2. call[p].id \in Records /\ rows[call[p].id] \in Row
    BY <1>0, <1>2, <2>1 DEF TypeInv, Holds, PunchHolds, IsRow, Punch
  <2>3. Live(call[p].id)
    BY <2>2, RowNotNull DEF Live
  <2> QED
    BY <2>1, <2>2, <2>3 DEF SessionsInv
<1>3. CASE ClockInReopen(p)
  <2>1. /\ call[p] # Idle /\ call[p].pc = "write" /\ call[p].id # Null
        /\ call[p] \in Punch /\ call[p].id \in Records /\ rows[call[p].id] \in Row
    BY <1>2, <1>3 DEF ClockInReopen, At
  <2>2. call[p].sessions \in Sessions /\ call[p].at \in Nat /\ call[p].sessions # << >>
    BY <2>1 DEF Punch, PunchLoaded, IsLoaded, SessionsInv
  <2>3. PICK row : row = [rows[call[p].id] EXCEPT
                            !.sessions = AppendSession(call[p].sessions, call[p].at),
                            !.out = IF call[p].out = Null THEN rows[call[p].id].out ELSE Null]
    OBVIOUS
  <2>4. row.sessions = AppendSession(call[p].sessions, call[p].at)
    BY <2>1, <2>3 DEF Row
  <2>5. RowMoves(call[p].id, row)
    BY <1>2, <1>3, <2>1, <2>2, <2>4, AppendNotSingle DEF RowMoves, Reopening
  <2>6. rows' = [rows EXCEPT ![call[p].id] = row]
    BY <1>3, <2>3 DEF ClockInReopen
  <2> QED
    BY <1>0, <2>1, <2>5, <2>6, WriteMoves
<1>4. CASE ClockInCreate(p)
  <2>1. call[p].at \in Nat
    BY <1>0, <1>4 DEF ClockInCreate, At, TypeInv, TypeOK, Punch
  <2>2. PICK r \in Records : rows[r] = Null /\ rows' = [rows EXCEPT ![r] =
                [guard |-> call[p].guard, station |-> call[p].station, shift |-> Null,
                 in |-> call[p].at, out |-> Null, end |-> Null,
                 sessions |-> AppendSession(<< >>, call[p].at),
                 forced |-> FALSE, hours |-> Null]]
    BY <1>4 DEF ClockInCreate
  <2>3. PICK row : row = [guard |-> call[p].guard, station |-> call[p].station, shift |-> Null,
                          in |-> call[p].at, out |-> Null, end |-> Null,
                          sessions |-> AppendSession(<< >>, call[p].at),
                          forced |-> FALSE, hours |-> Null]
    OBVIOUS
  <2>4. row.out = Null /\ row.sessions = AppendSession(<< >>, call[p].at)
    BY <2>3
  <2>5. RowMoves(r, row)
    BY <2>1, <2>2, <2>4, EmptySessions, AppendNotSingle DEF RowMoves, Live
  <2> QED
    BY <1>0, <2>2, <2>3, <2>5, WriteMoves
<1>5. CASE ApplyClockIn(p)
  <2>1. PICK row : row = [rows[call[p].id] EXCEPT
                            !.shift = call[p].match,
                            !.end = IF call[p].match = Null THEN Null ELSE Sched[call[p].match].end]
    OBVIOUS
  <2>2. /\ call[p].id \in Records /\ Live(call[p].id) /\ rows[call[p].id] \in Row
        /\ rows[call[p].id].sessions # << >>
    BY <1>2, <1>5 DEF ApplyClockIn, At
  <2>3. row.sessions = rows[call[p].id].sessions /\ row.out = rows[call[p].id].out
    BY <2>1, <2>2 DEF Row
  <2>4. rows' = [rows EXCEPT ![call[p].id] = row]
    BY <1>5, <2>1 DEF ApplyClockIn
  <2>5. RowMoves(call[p].id, row)
    BY <2>2, <2>3 DEF RowMoves
  <2> QED
    BY <1>0, <2>2, <2>4, <2>5, WriteMoves
<1>6. CASE ClockOutClose(p)
  <2>1. /\ call[p] # Idle /\ call[p].pc = "close" /\ call[p] \in Punch
        /\ call[p].id \in Records /\ Live(call[p].id) /\ rows[call[p].id] \in Row
    BY <1>2, <1>6 DEF ClockOutClose, At
  <2>2. /\ call[p].sessions \in Sessions /\ call[p].at \in Nat /\ rows[call[p].id].sessions # << >>
        /\ IsLoaded(call[p].sessions, call[p].id)
    <3>1. call[p].id # Null
      BY <2>1, NullAssumption
    <3> QED
      BY <2>1, <3>1 DEF Punch, PunchLoaded, SessionsInv
  <2>3. PICK s : s = CloseSession(call[p].sessions, call[p].at)
    OBVIOUS
  <2>4. s # << >> /\ ~Single(s)
    BY <2>2, <2>3, CloseNotSingle DEF IsLoaded
  <2>5. PICK row : row = [rows[call[p].id] EXCEPT
                            !.out = call[p].at,
                            !.sessions = IF s = call[p].sessions
                                         THEN rows[call[p].id].sessions ELSE s]
    OBVIOUS
  <2>6. /\ row.sessions = IF s = call[p].sessions THEN rows[call[p].id].sessions ELSE s
        /\ row.out # Null
    BY <2>1, <2>2, <2>5, NullAssumption DEF Row
  <2>7. row.sessions # << >> /\ ~Single(row.sessions)
    BY <2>2, <2>4, <2>6 DEF IsLoaded
  <2>8. rows' = [rows EXCEPT ![call[p].id] = row]
    BY <1>6, <2>3, <2>5 DEF ClockOutClose
  <2>9. RowMoves(call[p].id, row)
    BY <2>1, <2>6, <2>7 DEF RowMoves
  <2> QED
    BY <1>0, <2>1, <2>8, <2>9, WriteMoves
<1>7. CASE ApplyClockOut(p)
  <2>1. PICK row : row = [rows[call[p].id] EXCEPT !.hours = call[p].sessions]
    OBVIOUS
  <2>2. /\ call[p].id \in Records /\ Live(call[p].id) /\ rows[call[p].id] \in Row
        /\ rows[call[p].id].sessions # << >>
    BY <1>2, <1>7 DEF ApplyClockOut, At
  <2>3. row.sessions = rows[call[p].id].sessions /\ row.out = rows[call[p].id].out
    BY <2>1, <2>2 DEF Row
  <2>4. rows' = [rows EXCEPT ![call[p].id] = row]
    BY <1>7, <2>1 DEF ApplyClockOut
  <2>5. RowMoves(call[p].id, row)
    BY <2>2, <2>3 DEF RowMoves
  <2> QED
    BY <1>0, <2>2, <2>4, <2>5, WriteMoves
<1> QED
  BY <1>1, <1>3, <1>4, <1>5, <1>6, <1>7
     DEF PunchStep, ClockInElsewhere, ClockInFind, ClockInDuty, ClockOutLoad, ClockOutDuty

LEMMA SweepMovesRows ==
    ASSUME SessionsInv, NEW w \in Sweepers, SweepStep(w)
    PROVE  RowsMove
<1>0. TypeInv
  BY DEF SessionsInv
<1>1. CASE rows' = rows
  BY <1>1 DEF RowsMove
<1>2. CASE SweepClaim(w) /\ rows' # rows
  <2>1. sweep[w] \in Sweep /\ \A x \in sweep[w].todo : x \in Records /\ rows[x] \in Row
    BY <1>0, <1>2 DEF SweepClaim, SweepAt, TypeInv, TypeOK, Holds, SweepHolds, IsRow, Sweep
  <2>2. PICK r \in sweep[w].todo :
           /\ rows' = [rows EXCEPT ![r] = [rows[r] EXCEPT !.out = sweep[w].at, !.forced = TRUE]]
           /\ sweep' = [sweep EXCEPT ![w] =
                 [sweep[w] EXCEPT !.pc = "reload", !.id = r, !.todo = sweep[w].todo \ {r}]]
    <3>1. sweep \in [Sweepers -> Sweep \cup {Idle}]
      BY <1>0 DEF TypeInv, TypeOK
    <3> QED
      BY <1>2, <3>1 DEF SweepClaim
  <2>3. PICK x : x = [sweep[w] EXCEPT !.pc = "reload", !.id = r, !.todo = sweep[w].todo \ {r}]
    OBVIOUS
  <2>4. x.pc = "reload" /\ x.id = r /\ x # Idle
    BY <2>1, <2>3 DEF Sweep, Idle
  <2>5. Claimed(r)
    BY <1>0, <2>2, <2>3, <2>4 DEF Claimed, TypeInv, TypeOK
  <2>6. PICK row : row = [rows[r] EXCEPT !.out = sweep[w].at, !.forced = TRUE]
    OBVIOUS
  <2>7. row.sessions = rows[r].sessions /\ row.out # Null
    BY <2>1, <2>2, <2>6, NullAssumption DEF Row, Sweep
  <2>8. Live(r) /\ rows[r].sessions # << >>
    BY <2>1, RowNotNull DEF Live, SessionsInv
  <2>9. RowMoves(r, row)
    BY <2>5, <2>7, <2>8 DEF RowMoves
  <2> QED
    BY <1>0, <2>1, <2>2, <2>6, <2>9, WriteMoves
<1>3. CASE SweepCloseSession(w) \/ SweepApplyClockOut(w)
  <2>1. /\ sweep[w] # Idle /\ sweep[w] \in Sweep /\ sweep[w].id \in Records
        /\ rows[sweep[w].id] \in Row /\ Live(sweep[w].id)
    BY <1>0, <1>3, RowNotNull DEF SweepCloseSession, SweepApplyClockOut, SweepAt, TypeInv, TypeOK,
                Holds, SweepHolds, IsRow, Live
  <2>2. rows[sweep[w].id].sessions # << >>
    BY <2>1 DEF SessionsInv
  <2>3. CASE SweepCloseSession(w) /\ rows' # rows
    <3>1. IsLoaded(sweep[w].sessions, sweep[w].id)
      BY <2>1, <2>3 DEF SweepCloseSession, SweepAt, SweepLoaded, SessionsInv
    <3>2. PICK s : s = CloseSession(sweep[w].sessions, sweep[w].at)
      OBVIOUS
    <3>3. s # << >> /\ ~Single(s)
      BY <2>1, <3>1, <3>2, CloseNotSingle DEF IsLoaded, Sweep
    <3>4. PICK row : row = [rows[sweep[w].id] EXCEPT !.sessions = s]
      OBVIOUS
    <3>5. row.sessions = s /\ row.out = rows[sweep[w].id].out
      BY <2>1, <3>4 DEF Row
    <3>6. rows' = [rows EXCEPT ![sweep[w].id] = row]
      BY <2>3, <3>2, <3>4 DEF SweepCloseSession
    <3>7. RowMoves(sweep[w].id, row)
      BY <2>1, <3>3, <3>5 DEF RowMoves
    <3> QED
      BY <1>0, <2>1, <3>6, <3>7, WriteMoves
  <2>4. CASE SweepApplyClockOut(w) /\ rows' # rows
    <3>1. PICK row : row = [rows[sweep[w].id] EXCEPT !.hours = sweep[w].sessions]
      OBVIOUS
    <3>2. row.sessions = rows[sweep[w].id].sessions /\ row.out = rows[sweep[w].id].out
      BY <2>1, <3>1 DEF Row
    <3>3. rows' = [rows EXCEPT ![sweep[w].id] = row]
      BY <2>4, <3>1 DEF SweepApplyClockOut
    <3>4. RowMoves(sweep[w].id, row)
      BY <2>1, <2>2, <3>2 DEF RowMoves
    <3> QED
      BY <1>0, <2>1, <3>3, <3>4, WriteMoves
  <2> QED
    BY <1>1, <1>3, <2>3, <2>4
<1> QED
  BY <1>1, <1>2, <1>3 DEF SweepStep, SweepScan, SweepReload, SweepLoadGuard, SweepDuty

\* A sweep goes on: it keeps what it has loaded, or has just loaded the record it claimed.
SweepTurn(v) ==
    SweepLoaded(v)' =>
        \/ /\ SweepLoaded(v) /\ sweep'[v].id = sweep[v].id
           /\ sweep'[v].sessions = sweep[v].sessions
        \/ /\ sweep[v] # Idle /\ sweep[v].pc = "reload" /\ sweep'[v].id = sweep[v].id
           /\ rows' = rows /\ sweep'[v].sessions = rows[sweep[v].id].sessions

LEMMA SweepTurns ==
    ASSUME TypeInv, NEW w \in Sweepers, SweepStep(w), NEW v \in Sweepers
    PROVE  SweepTurn(v)
<1>1. CASE v # w
  <2>1. sweep'[v] = sweep[v]
    BY <1>1 DEF SweepStep, SweepScan, SweepClaim, SweepReload, SweepLoadGuard, SweepCloseSession,
       SweepDuty, SweepApplyClockOut, NextCandidate, TypeInv, TypeOK
  <2> QED
    BY <2>1 DEF SweepTurn, SweepLoaded
<1>2. CASE v = w /\ SweepReload(w)
  <2>1. sweep[w] # Idle /\ sweep[w].pc = "reload" /\ sweep[w] \in Sweep
    BY <1>2 DEF SweepReload, SweepAt, TypeInv, TypeOK
  <2>2. PICK x : x = [sweep[w] EXCEPT !.pc = "guard", !.sessions = rows[sweep[w].id].sessions]
    OBVIOUS
  <2>3. x.id = sweep[w].id /\ x.sessions = rows[sweep[w].id].sessions
    BY <2>1, <2>2 DEF Sweep
  <2>4. sweep'[w] = x /\ rows' = rows
    BY <1>2, <2>2 DEF SweepReload, TypeInv, TypeOK
  <2> QED
    BY <1>2, <2>1, <2>3, <2>4 DEF SweepTurn
<1>3. CASE v = w /\ SweepLoadGuard(w)
  <2>1. sweep[w] # Idle /\ sweep[w].pc = "guard" /\ sweep[w] \in Sweep
    BY <1>3 DEF SweepLoadGuard, SweepAt, TypeInv, TypeOK
  <2>2. PICK x : x = [sweep[w] EXCEPT !.pc = "sessions", !.duty = onDuty[rows[sweep[w].id].guard]]
    OBVIOUS
  <2>3. x.id = sweep[w].id /\ x.sessions = sweep[w].sessions
    BY <2>1, <2>2 DEF Sweep
  <2>4. sweep'[w] = x
    BY <1>3, <2>2 DEF SweepLoadGuard, TypeInv, TypeOK
  <2> QED
    BY <1>3, <2>1, <2>3, <2>4 DEF SweepTurn, SweepLoaded
<1>4. CASE v = w /\ ~SweepReload(w) /\ ~SweepLoadGuard(w)
  <2>1. PICK x : /\ sweep'[w] = x
                 /\ x # Idle => x.pc \in {"claim", "reload", "dutyOff", "apply"}
    <3>1. CASE SweepScan(w)
      <4>1. PICK x : x = [pc |-> "claim", at |-> now, todo |-> Candidates, id |-> Null,
                          duty |-> FALSE, sessions |-> << >>]
        OBVIOUS
      <4>2. x.pc = "claim"
        BY <4>1
      <4>3. sweep'[w] = x
        BY <3>1, <4>1 DEF SweepScan, TypeInv, TypeOK
      <4> QED
        BY <4>2, <4>3
    <3>2. ASSUME NEW todo, NextCandidate(w, todo), sweep[w] \in Sweep
          PROVE  sweep'[w] = Idle \/ sweep'[w].pc = "claim"
      <4>1. CASE todo = {}
        BY <3>2, <4>1 DEF NextCandidate, TypeInv, TypeOK
      <4>2. CASE todo # {}
        <5>1. PICK x : x = [sweep[w] EXCEPT !.pc = "claim", !.todo = todo, !.id = Null]
          OBVIOUS
        <5>2. x.pc = "claim"
          BY <3>2, <5>1 DEF Sweep
        <5>3. sweep'[w] = x
          BY <3>2, <4>2, <5>1 DEF NextCandidate, TypeInv, TypeOK
        <5> QED
          BY <5>2, <5>3
      <4> QED
        BY <4>1, <4>2
    <3>3. CASE SweepClaim(w)
      <4>1. sweep[w] \in Sweep
        BY <3>3 DEF SweepClaim, SweepAt, TypeInv, TypeOK
      <4>2. PICK r \in sweep[w].todo :
               \/ sweep' = [sweep EXCEPT ![w] =
                     [sweep[w] EXCEPT !.pc = "reload", !.id = r, !.todo = sweep[w].todo \ {r}]]
               \/ NextCandidate(w, sweep[w].todo \ {r})
        <5>1. sweep \in [Sweepers -> Sweep \cup {Idle}]
          BY DEF TypeInv, TypeOK
        <5> QED
          BY <3>3, <5>1 DEF SweepClaim
      <4>3. PICK x : x = [sweep[w] EXCEPT !.pc = "reload", !.id = r, !.todo = sweep[w].todo \ {r}]
        OBVIOUS
      <4>4. x.pc = "reload"
        BY <4>1, <4>3 DEF Sweep
      <4>5. sweep'[w] = x \/ NextCandidate(w, sweep[w].todo \ {r})
        BY <4>2, <4>3 DEF TypeInv, TypeOK
      <4> QED
        BY <3>2, <4>1, <4>4, <4>5
    <3>4. CASE SweepCloseSession(w)
      <4>1. sweep[w] \in Sweep
        BY <3>4 DEF SweepCloseSession, SweepAt, TypeInv, TypeOK
      <4>2. PICK x : x = [sweep[w] EXCEPT !.pc = "dutyOff",
                             !.sessions = CloseSession(sweep[w].sessions, sweep[w].at)]
        OBVIOUS
      <4>3. x.pc = "dutyOff"
        BY <4>1, <4>2 DEF Sweep
      <4>4. sweep'[w] = x
        BY <3>4, <4>2 DEF SweepCloseSession, TypeInv, TypeOK
      <4> QED
        BY <4>3, <4>4
    <3>5. CASE SweepDuty(w)
      <4>1. sweep[w] \in Sweep
        BY <3>5 DEF SweepDuty, SweepAt, TypeInv, TypeOK
      <4>2. PICK x : x = [sweep[w] EXCEPT !.pc = "apply"]
        OBVIOUS
      <4>3. x.pc = "apply"
        BY <4>1, <4>2 DEF Sweep
      <4>4. sweep'[w] = x
        BY <3>5, <4>2 DEF SweepDuty, TypeInv, TypeOK
      <4> QED
        BY <4>3, <4>4
    <3>6. CASE SweepApplyClockOut(w)
      <4>1. sweep[w] \in Sweep /\ NextCandidate(w, sweep[w].todo)
        BY <3>6 DEF SweepApplyClockOut, SweepAt, TypeInv, TypeOK
      <4> QED
        BY <3>2, <4>1
    <3> QED
      BY <1>4, <3>1, <3>3, <3>4, <3>5, <3>6 DEF SweepStep
  <2> QED
    BY <1>4, <2>1 DEF SweepTurn, SweepLoaded
<1> QED
  BY <1>1, <1>2, <1>3, <1>4

\* The turns of all of them, and what becomes of the rows, whatever the step is.
LEMMA NextTurns ==
    ASSUME SessionsInv, [Next]_vars
    PROVE  /\ RowsMove
           /\ call' = call \/ \E p \in Punches : Turn(p)
           /\ \A v \in Sweepers : SweepTurn(v)
<1>0. TypeInv
  BY DEF SessionsInv
<1>1. ASSUME NEW v \in Sweepers, sweep'[v] = sweep[v] PROVE SweepTurn(v)
  BY <1>1 DEF SweepTurn, SweepLoaded
<1>2. ASSUME rows' = rows PROVE RowsMove
  BY <1>2 DEF RowsMove
<1>3. ASSUME NEW p \in Punches, PunchStep(p)
      PROVE  RowsMove /\ Turn(p) /\ sweep' = sweep
  <2>1. RowsMove
    BY <1>3, PunchMovesRows
  <2>2. Turn(p)
    BY <1>3, ClockInTurn, ClockOutTurn DEF PunchStep
  <2>3. sweep' = sweep
    BY <1>3 DEF PunchStep, ClockInElsewhere, ClockInFind, ClockInReopen, ClockInCreate, ClockInDuty,
       ApplyClockIn, ClockOutLoad, ClockOutClose, ClockOutDuty, ApplyClockOut
  <2> QED
    BY <2>1, <2>2, <2>3
<1>4. ASSUME NEW p \in Punches, NEW g \in Guards,
             ClockOutBegin(p, g) \/ \E s \in Stations : ClockInBegin(p, g, s)
      PROVE  rows' = rows /\ sweep' = sweep /\ Turn(p)
  BY <1>4, BeginTurn DEF ClockOutBegin, ClockInBegin
<1>5. ASSUME NEW p \in Punches, PunchDies(p)
      PROVE  rows' = rows /\ sweep' = sweep /\ Turn(p)
  BY <1>5, ReturnTurn DEF PunchDies
<1>6. ASSUME NEW w \in Sweepers, SweepStep(w)
      PROVE  RowsMove /\ call' = call /\ \A v \in Sweepers : SweepTurn(v)
  <2>1. call' = call
    BY <1>6 DEF SweepStep, SweepScan, SweepClaim, SweepReload, SweepLoadGuard, SweepCloseSession,
       SweepDuty, SweepApplyClockOut
  <2> QED
    BY <1>0, <1>6, <2>1, SweepMovesRows, SweepTurns
<1>7. ASSUME NEW w \in Sweepers, SweepDies(w)
      PROVE  rows' = rows /\ call' = call /\ \A v \in Sweepers : SweepTurn(v)
  <2>1. \A v \in Sweepers : sweep'[v] = sweep[v] \/ sweep'[v] = Idle
    BY <1>0, <1>7 DEF SweepDies, TypeInv, TypeOK
  <2>2. \A v \in Sweepers : SweepTurn(v)
    BY <2>1 DEF SweepTurn, SweepLoaded
  <2> QED
    BY <1>7, <2>2 DEF SweepDies
<1>8. ASSUME SyncStep \/ Tick \/ UNCHANGED vars
      PROVE  rows' = rows /\ call' = call /\ sweep' = sweep
  BY <1>8 DEF SyncStep, SyncOn, SyncOff, Tick, vars
<1> QED
  BY <1>1, <1>2, <1>3, <1>4, <1>5, <1>6, <1>7, <1>8 DEF Next

\* IsLoaded after the step.
StillLoaded(s, r) == s # << >> /\ (Single(rows'[r].sessions) => s = rows'[r].sessions)

LEMMA NextSessions ==
    ASSUME SessionsInv, [Next]_vars
    PROVE  SessionsInv'
<1>0. TypeInv /\ TypeInv'
  BY NextTypeInv DEF SessionsInv
<1>1. /\ RowsMove
      /\ call' = call \/ \E p \in Punches : Turn(p)
      /\ \A v \in Sweepers : SweepTurn(v)
  BY NextTurns
<1>2. \A r \in Records : Live(r)' => rows'[r].sessions # << >>
  BY <1>1 DEF RowsMove, RowMoves, Live, SessionsInv
<1>3. ASSUME NEW r \in Records, Live(r), NEW s, IsLoaded(s, r) PROVE StillLoaded(s, r)
  BY <1>1, <1>3 DEF IsLoaded, StillLoaded, RowsMove, RowMoves
<1>4. ASSUME NEW r \in Records, Live(r), rows' = rows PROVE StillLoaded(rows[r].sessions, r)
  BY <1>4 DEF StillLoaded, SessionsInv
<1>5. ASSUME NEW q \in Punches
      PROVE  /\ PunchLoaded(q)' => StillLoaded(call'[q].sessions, call'[q].id)
             /\ call'[q] # Idle /\ call'[q].pc \in {"elsewhere", "find"} => call'[q].id = Null
             /\ PunchLoaded(q)' /\ call'[q].pc = "write" => Len(call'[q].sessions) < MaxSessions
  <2>1. CASE call'[q] = call[q]
    <3>1. PunchLoaded(q) => call[q].id \in Records /\ Live(call[q].id)
      BY <1>0, RowNotNull DEF PunchLoaded, TypeInv, TypeOK, Holds, PunchHolds, Punch, IsRow, Live
    <3>2. PICK c : c = call[q]
      OBVIOUS
    <3>3. PunchLoaded(q) => StillLoaded(c.sessions, c.id)
      BY <1>3, <3>1, <3>2 DEF SessionsInv
    <3> QED
      BY <2>1, <3>2, <3>3 DEF PunchLoaded, SessionsInv
  <2>2. CASE call'[q] # call[q]
    <3>1. PICK c : call'[q] = c /\ Taken(c)
      BY <1>0, <1>1, <2>2 DEF Turn, TypeInv, TypeOK
    <3>2. PunchLoaded(q)' => /\ c.id \in Records /\ Live(c.id) /\ rows' = rows
                             /\ c.sessions = rows[c.id].sessions
                             /\ c.pc = "write" => Len(c.sessions) < MaxSessions
      BY <3>1 DEF Taken, PunchLoaded
    <3> QED
      BY <1>4, <3>1, <3>2 DEF Taken, StillLoaded
  <2> QED
    BY <2>1, <2>2
<1>6. ASSUME NEW v \in Sweepers
      PROVE  SweepLoaded(v)' => StillLoaded(sweep'[v].sessions, sweep'[v].id)
  <2> SUFFICES ASSUME SweepLoaded(v)' PROVE StillLoaded(sweep'[v].sessions, sweep'[v].id)
    OBVIOUS
  <2>1. /\ sweep[v] # Idle /\ sweep[v].pc \in {"reload", "guard", "sessions"}
        /\ sweep'[v].id = sweep[v].id
    BY <1>1 DEF SweepTurn, SweepLoaded
  <2>2. sweep[v].id \in Records /\ Live(sweep[v].id)
    BY <1>0, <2>1, RowNotNull DEF TypeInv, Holds, SweepHolds, IsRow, Live
  <2>3. PICK r, s : r = sweep[v].id /\ s = sweep'[v].sessions
    OBVIOUS
  <2>4. CASE SweepLoaded(v) /\ s = sweep[v].sessions
    <3>1. IsLoaded(s, r)
      BY <2>3, <2>4 DEF SessionsInv
    <3>2. StillLoaded(s, r)
      BY <1>3, <2>2, <2>3, <3>1
    <3> QED
      BY <2>1, <2>3, <3>2 DEF StillLoaded
  <2>5. CASE rows' = rows /\ s = rows[r].sessions
    <3>1. s # << >>
      BY <2>2, <2>3, <2>5 DEF SessionsInv
    <3> QED
      BY <2>1, <2>3, <2>5, <3>1 DEF StillLoaded
  <2> QED
    BY <1>1, <2>3, <2>4, <2>5 DEF SweepTurn
<1> QED
  BY <1>0, <1>2, <1>5, <1>6 DEF SessionsInv, IsLoaded, StillLoaded

LEMMA InitSessions == Init => SessionsInv
BY InitTypeInv DEF Init, SessionsInv, Live, PunchLoaded, SweepLoaded

-----------------------------------------------------------------------------
(* No wedged record, one sweep per record *)

Closes(w, r) == /\ sweep[w] # Idle /\ sweep[w].id = r
                /\ sweep[w].pc \in {"reload", "guard", "sessions"}

\* The records closed with their one session open, of which no sweep that claimed one is about
\* to close the session: no more than there were faults.
Left == {r \in Records : /\ Live(r) /\ rows[r].out # Null /\ Single(rows[r].sessions)
                         /\ \A w \in Sweepers : ~Closes(w, r)}
FewLeft == IsFiniteSet(Left) /\ Cardinality(Left) <= faults

\* In a step without a fault, a sweep gets to the session of the record it has claimed.
LEMMA ClosingGoesOn ==
    ASSUME SessionsInv, faults' = faults, [Next]_vars,
           NEW w \in Sweepers, NEW r \in Records, Closes(w, r)
    PROVE  Closes(w, r)' \/ ~Single(rows'[r].sessions)
<1>0. TypeInv /\ sweep[w] \in Sweep /\ rows[r] \in Row
  BY DEF SessionsInv, TypeInv, TypeOK, Closes, Holds, SweepHolds, IsRow
<1>1. CASE sweep'[w] = sweep[w]
  BY <1>1 DEF Closes
<1>2. CASE sweep'[w] # sweep[w]
  <2>1. ~SweepDies(w)
    BY <1>0 DEF SweepDies, TypeInv, TypeOK
  <2>2. \A v \in Sweepers : v # w => ~SweepStep(v) /\ ~SweepDies(v)
    BY <1>0, <1>2 DEF SweepStep, SweepDies, SweepScan, SweepClaim, SweepReload, SweepLoadGuard,
       SweepCloseSession, SweepDuty, SweepApplyClockOut, NextCandidate, TypeInv, TypeOK
  <2>3. \A p \in Punches : ~PunchStep(p) /\ ~PunchDies(p)
    BY <1>2 DEF PunchStep, PunchDies, ClockInElsewhere, ClockInFind, ClockInReopen, ClockInCreate,
       ClockInDuty, ApplyClockIn, ClockOutLoad, ClockOutClose, ClockOutDuty, ApplyClockOut
  <2>4. SweepStep(w)
    BY <1>2, <2>1, <2>2, <2>3 DEF Next, vars, ClockInBegin, ClockOutBegin, SyncStep, SyncOn, SyncOff,
       Tick
  <2>5. CASE SweepReload(w)
    <3>1. PICK x : x = [sweep[w] EXCEPT !.pc = "guard", !.sessions = rows[sweep[w].id].sessions]
      OBVIOUS
    <3>2. x.pc = "guard" /\ x.id = r /\ x # Idle
      BY <1>0, <3>1 DEF Closes, Sweep, Idle
    <3>3. sweep'[w] = x
      BY <1>0, <2>5, <3>1 DEF SweepReload, TypeInv, TypeOK
    <3> QED
      BY <3>2, <3>3 DEF Closes
  <2>6. CASE SweepLoadGuard(w)
    <3>1. PICK x : x = [sweep[w] EXCEPT !.pc = "sessions", !.duty = onDuty[rows[sweep[w].id].guard]]
      OBVIOUS
    <3>2. x.pc = "sessions" /\ x.id = r /\ x # Idle
      BY <1>0, <3>1 DEF Closes, Sweep, Idle
    <3>3. sweep'[w] = x
      BY <1>0, <2>6, <3>1 DEF SweepLoadGuard, TypeInv, TypeOK
    <3> QED
      BY <3>2, <3>3 DEF Closes
  <2>7. CASE SweepCloseSession(w)
    <3>1. sweep[w].pc = "sessions" /\ IsLoaded(sweep[w].sessions, r)
      BY <2>7 DEF SweepCloseSession, SweepAt, Closes, SweepLoaded, SessionsInv
    <3>2. PICK s : s = CloseSession(sweep[w].sessions, sweep[w].at)
      OBVIOUS
    <3>3. ~Single(s)
      BY <1>0, <3>1, <3>2, CloseNotSingle DEF IsLoaded, Sweep
    <3>4. rows' = IF s = sweep[w].sessions THEN rows ELSE [rows EXCEPT ![r].sessions = s]
      BY <1>0, <2>7, <3>2 DEF SweepCloseSession, Closes, TypeInv, TypeOK
    <3>5. CASE s = sweep[w].sessions
      BY <3>1, <3>3, <3>4, <3>5 DEF IsLoaded
    <3>6. CASE s # sweep[w].sessions
      <4>1. rows'[r] = [rows[r] EXCEPT !.sessions = s]
        BY <1>0, <3>4, <3>6 DEF TypeInv, TypeOK
      <4>2. rows'[r].sessions = s
        BY <1>0, <4>1 DEF Row
      <4> QED
        BY <3>3, <4>2
    <3> QED
      BY <3>5, <3>6
  <2> QED
    BY <2>4, <2>5, <2>6, <2>7 DEF SweepStep, SweepScan, SweepClaim, SweepDuty, SweepApplyClockOut,
       SweepAt, Closes
<1> QED
  BY <1>1, <1>2

\* A fault writes no row, and hits one sweep at most.
LEMMA FaultHits ==
    ASSUME TypeInv, [Next]_vars, faults' # faults
    PROVE  /\ faults' = faults + 1 /\ rows' = rows
           /\ \/ sweep' = sweep
              \/ \E w \in Sweepers : \A v \in Sweepers : v # w => sweep'[v] = sweep[v]
<1>1. ASSUME NEW p \in Punches, PunchStep(p)
      PROVE  faults' = faults
  BY <1>1 DEF PunchStep, ClockInElsewhere, ClockInFind, ClockInReopen, ClockInCreate, ClockInDuty,
     ApplyClockIn, ClockOutLoad, ClockOutClose, ClockOutDuty, ApplyClockOut
<1>2. ASSUME NEW p \in Punches, NEW g \in Guards,
             ClockOutBegin(p, g) \/ (\E s \in Stations : ClockInBegin(p, g, s)) \/ PunchDies(p)
      PROVE  rows' = rows /\ sweep' = sweep /\ faults' \in {faults, faults + 1}
  BY <1>2 DEF ClockOutBegin, ClockInBegin, PunchDies
<1>3. ASSUME NEW w \in Sweepers, SweepStep(w) \/ SweepDies(w)
      PROVE  /\ \A v \in Sweepers : v # w => sweep'[v] = sweep[v]
             /\ faults' # faults => rows' = rows /\ faults' = faults + 1
  BY <1>3 DEF SweepStep, SweepDies, SweepScan, SweepClaim, SweepReload, SweepLoadGuard,
     SweepCloseSession, SweepDuty, SweepApplyClockOut, NextCandidate, TypeInv, TypeOK
<1>4. ASSUME SyncStep \/ Tick \/ UNCHANGED vars
      PROVE  faults' = faults
  BY <1>4 DEF SyncStep, SyncOn, SyncOff, Tick, vars
<1>5. ASSUME NEW p \in Punches, PunchDies(p)
      PROVE  rows' = rows /\ sweep' = sweep /\ faults' \in {faults, faults + 1}
  BY <1>5 DEF PunchDies
<1> QED
  BY <1>1, <1>2, <1>3, <1>4, <1>5 DEF Next

LEMMA NextFewLeft ==
    ASSUME SessionsInv, FewLeft, [Next]_vars
    PROVE  FewLeft'
<1>0. TypeInv /\ faults \in Nat
  BY BoundAssumption DEF SessionsInv, TypeInv, TypeOK
<1>1. CASE faults' = faults
  <2>1. ASSUME NEW r \in Left' PROVE r \in Left
    <3>1. /\ r \in Records /\ Live(r)' /\ rows'[r].out # Null /\ Single(rows'[r].sessions)
          /\ \A w \in Sweepers : ~Closes(w, r)'
      BY <2>1 DEF Left
    <3>2. RowsMove
      BY NextTurns
    <3>3. ~Claimed(r)
      BY <3>1 DEF Claimed, Closes
    <3>4. Live(r) /\ rows[r].out # Null /\ Single(rows[r].sessions)
      BY <3>1, <3>2, <3>3 DEF RowsMove, RowMoves, Live
    <3>5. \A w \in Sweepers : ~Closes(w, r)
      BY <1>1, <3>1, ClosingGoesOn
    <3> QED
      BY <3>1, <3>4, <3>5 DEF Left
  <2>2. Left' \subseteq Left
    BY <2>1
  <2>3. IsFiniteSet(Left') /\ Cardinality(Left') <= Cardinality(Left)
    BY <2>2, FS_Subset DEF FewLeft
  <2>4. Cardinality(Left) \in Nat /\ Cardinality(Left') \in Nat
    BY <2>3, FS_CardinalityType DEF FewLeft
  <2> QED
    BY <1>0, <1>1, <2>3, <2>4 DEF FewLeft
<1>2. CASE faults' # faults
  <2>1. faults' = faults + 1 /\ rows' = rows
    BY <1>0, <1>2, FaultHits
  <2>2. ASSUME NEW r \in Left', r \notin Left
        PROVE  \E v \in Sweepers : sweep'[v] # sweep[v] /\ sweep[v].id = r
    BY <2>1, <2>2 DEF Left, Live, Closes
  <2>3. PICK x : Left' \subseteq Left \cup {x}
    <3>1. CASE sweep' = sweep
      BY <2>2, <3>1
    <3>2. CASE \E w \in Sweepers : \A v \in Sweepers : v # w => sweep'[v] = sweep[v]
      <4>1. PICK w \in Sweepers : \A v \in Sweepers : v # w => sweep'[v] = sweep[v]
        BY <3>2
      <4>2. Left' \subseteq Left \cup {sweep[w].id}
        BY <2>2, <4>1
      <4> QED
        BY <4>2
    <3> QED
      BY <1>0, <1>2, <3>1, <3>2, FaultHits
  <2>4. /\ IsFiniteSet(Left \cup {x})
        /\ Cardinality(Left \cup {x}) <= Cardinality(Left) + 1
    <3>1. /\ IsFiniteSet(Left \cup {x})
          /\ Cardinality(Left \cup {x}) = IF x \in Left THEN Cardinality(Left)
                                                       ELSE Cardinality(Left) + 1
      BY FS_AddElement DEF FewLeft
    <3>2. Cardinality(Left) \in Nat
      BY FS_CardinalityType DEF FewLeft
    <3> QED
      BY <3>1, <3>2
  <2>5. IsFiniteSet(Left') /\ Cardinality(Left') <= Cardinality(Left \cup {x})
    BY <2>3, <2>4, FS_Subset
  <2>6. /\ Cardinality(Left) \in Nat /\ Cardinality(Left') \in Nat
        /\ Cardinality(Left \cup {x}) \in Nat
    BY <2>4, <2>5, FS_CardinalityType DEF FewLeft
  <2> QED
    BY <1>0, <2>1, <2>4, <2>5, <2>6 DEF FewLeft
<1> QED
  BY <1>1, <1>2

LEMMA InitFewLeft == Init => SessionsInv /\ FewLeft
<1> SUFFICES ASSUME Init PROVE SessionsInv /\ FewLeft
  OBVIOUS
<1>1. Left = {} /\ faults = 0
  BY DEF Init, Left, Live
<1> QED
  BY <1>1, InitSessions, FS_EmptySet DEF FewLeft

\* However many punches and sweeps overlap, a record with one session stays closed with that
\* session open only by a fault, and each fault leaves one such record at most
\* (runForcedShiftEndClockOut closes record and session in two writes).
THEOREM NoneIsWedged == Spec => []NoWedgedRecord
<1>1. SessionsInv /\ FewLeft /\ [Next]_vars => (SessionsInv /\ FewLeft)'
  BY NextSessions, NextFewLeft
<1>2. SessionsInv /\ FewLeft => NoWedgedRecord
  <2> SUFFICES ASSUME SessionsInv, FewLeft PROVE NoWedgedRecord
    OBVIOUS
  <2>1. Wedged \subseteq Left
    BY DEF Wedged, HasOpenSession, Single, AtRest, Left, Closes, HeldBySweep
  <2>2. IsFiniteSet(Wedged) /\ Cardinality(Wedged) <= Cardinality(Left)
    BY <2>1, FS_Subset DEF FewLeft
  <2>3. /\ Cardinality(Left) \in Nat /\ Cardinality(Wedged) \in Nat /\ faults \in Nat
    BY <2>2, FS_CardinalityType, BoundAssumption DEF FewLeft, SessionsInv, TypeInv, TypeOK
  <2> QED
    BY <2>2, <2>3 DEF FewLeft, NoWedgedRecord
<1> QED
  BY <1>1, <1>2, InitFewLeft, PTL DEF Spec

\* A sweep holds a record only after its claim, and then the record is closed.
SweepAlone ==
    /\ \A w \in Sweepers : sweep[w] # Idle =>
          /\ sweep[w].pc = "claim" => sweep[w].id = Null
          /\ sweep[w].id # Null => rows[sweep[w].id].out # Null
    /\ OneSweepPerRecord

\* What a sweep becomes: it holds what it held, nothing, or a record that was open.
NewlyClosed(r) == r \in Records /\ Live(r) /\ rows[r].out = Null /\ rows'[r].out # Null
SweepBecomes(w, x) ==
    x # Idle => \/ x.id = Null
                \/ sweep[w] # Idle /\ sweep[w].pc # "claim" /\ x.pc # "claim" /\ x.id = sweep[w].id
                \/ x.pc # "claim" /\ NewlyClosed(x.id)

LEMMA SweepGoesOn ==
    ASSUME TypeInv, NEW w \in Sweepers, SweepStep(w)
    PROVE  \E x : sweep' = [sweep EXCEPT ![w] = x] /\ SweepBecomes(w, x)
<1>0. sweep \in [Sweepers -> Sweep \cup {Idle}] /\ (sweep[w] # Idle => sweep[w] \in Sweep)
  BY DEF TypeInv, TypeOK
<1>1. CASE SweepScan(w)
  <2>1. PICK x : x = [pc |-> "claim", at |-> now, todo |-> Candidates, id |-> Null,
                      duty |-> FALSE, sessions |-> << >>]
    OBVIOUS
  <2>2. x.id = Null
    BY <2>1
  <2> QED
    BY <1>1, <2>1, <2>2 DEF SweepScan, SweepBecomes
<1>2. ASSUME NEW todo, NextCandidate(w, todo), sweep[w] # Idle
      PROVE  \E x : sweep' = [sweep EXCEPT ![w] = x] /\ SweepBecomes(w, x)
  <2>1. CASE todo = {}
    BY <1>2, <2>1 DEF NextCandidate, SweepBecomes
  <2>2. CASE todo # {}
    <3>1. PICK x : x = [sweep[w] EXCEPT !.pc = "claim", !.todo = todo, !.id = Null]
      OBVIOUS
    <3>2. x.id = Null
      BY <1>0, <1>2, <3>1 DEF Sweep
    <3>3. sweep' = [sweep EXCEPT ![w] = x]
      BY <1>0, <1>2, <2>2, <3>1 DEF NextCandidate
    <3> QED
      BY <3>2, <3>3 DEF SweepBecomes
  <2> QED
    BY <2>1, <2>2
<1>3. CASE SweepClaim(w)
  <2>1. sweep[w] # Idle /\ sweep[w] \in Sweep
    BY <1>0, <1>3 DEF SweepClaim, SweepAt
  <2>2. PICK r \in sweep[w].todo :
           \/ NextCandidate(w, sweep[w].todo \ {r})
           \/ /\ rows[r].out = Null
              /\ rows' = [rows EXCEPT ![r] = [rows[r] EXCEPT !.out = sweep[w].at, !.forced = TRUE]]
              /\ sweep' = [sweep EXCEPT ![w] =
                    [sweep[w] EXCEPT !.pc = "reload", !.id = r, !.todo = sweep[w].todo \ {r}]]
    BY <1>0, <1>3 DEF SweepClaim
  <2>3. CASE NextCandidate(w, sweep[w].todo \ {r})
    BY <1>2, <2>1, <2>3
  <2>4. CASE ~NextCandidate(w, sweep[w].todo \ {r})
    <3>1. r \in Records /\ rows[r] \in Row
      BY <1>3, <2>1 DEF SweepClaim, SweepAt, TypeInv, Holds, SweepHolds, IsRow, Sweep
    <3>2. PICK row : row = [rows[r] EXCEPT !.out = sweep[w].at, !.forced = TRUE]
      OBVIOUS
    <3>3. row.out # Null
      BY <2>1, <3>1, <3>2, NullAssumption DEF Row, Sweep
    <3>4. rows'[r] = row
      BY <2>2, <2>4, <3>1, <3>2 DEF TypeInv, TypeOK
    <3>5. NewlyClosed(r)
      BY <2>2, <2>4, <3>1, <3>3, <3>4, RowNotNull DEF NewlyClosed, Live
    <3>6. PICK x : x = [sweep[w] EXCEPT !.pc = "reload", !.id = r, !.todo = sweep[w].todo \ {r}]
      OBVIOUS
    <3>7. x.id = r /\ x.pc = "reload"
      BY <2>1, <3>6 DEF Sweep
    <3> QED
      BY <2>2, <2>4, <3>5, <3>6, <3>7 DEF SweepBecomes
  <2> QED
    BY <2>3, <2>4
<1>4. ASSUME NEW x, sweep' = [sweep EXCEPT ![w] = x], sweep[w] # Idle, sweep[w].pc # "claim",
             x.id = sweep[w].id, x.pc # "claim"
      PROVE  \E y : sweep' = [sweep EXCEPT ![w] = y] /\ SweepBecomes(w, y)
  BY <1>4 DEF SweepBecomes
<1>5. CASE SweepReload(w)
  <2>1. sweep[w] # Idle /\ sweep[w] \in Sweep /\ sweep[w].pc = "reload"
    BY <1>0, <1>5 DEF SweepReload, SweepAt
  <2>2. PICK x : x = [sweep[w] EXCEPT !.pc = "guard", !.sessions = rows[sweep[w].id].sessions]
    OBVIOUS
  <2>3. x.pc = "guard" /\ x.id = sweep[w].id
    BY <2>1, <2>2 DEF Sweep
  <2>4. sweep' = [sweep EXCEPT ![w] = x]
    BY <1>0, <1>5, <2>2 DEF SweepReload
  <2> QED
    BY <1>4, <2>1, <2>3, <2>4
<1>6. CASE SweepLoadGuard(w)
  <2>1. sweep[w] # Idle /\ sweep[w] \in Sweep /\ sweep[w].pc = "guard"
    BY <1>0, <1>6 DEF SweepLoadGuard, SweepAt
  <2>2. PICK x : x = [sweep[w] EXCEPT !.pc = "sessions", !.duty = onDuty[rows[sweep[w].id].guard]]
    OBVIOUS
  <2>3. x.pc = "sessions" /\ x.id = sweep[w].id
    BY <2>1, <2>2 DEF Sweep
  <2>4. sweep' = [sweep EXCEPT ![w] = x]
    BY <1>0, <1>6, <2>2 DEF SweepLoadGuard
  <2> QED
    BY <1>4, <2>1, <2>3, <2>4
<1>7. CASE SweepCloseSession(w)
  <2>1. sweep[w] # Idle /\ sweep[w] \in Sweep /\ sweep[w].pc = "sessions"
    BY <1>0, <1>7 DEF SweepCloseSession, SweepAt
  <2>2. PICK x : x = [sweep[w] EXCEPT !.pc = "dutyOff",
                         !.sessions = CloseSession(sweep[w].sessions, sweep[w].at)]
    OBVIOUS
  <2>3. x.pc = "dutyOff" /\ x.id = sweep[w].id
    BY <2>1, <2>2 DEF Sweep
  <2>4. sweep' = [sweep EXCEPT ![w] = x]
    BY <1>0, <1>7, <2>2 DEF SweepCloseSession
  <2> QED
    BY <1>4, <2>1, <2>3, <2>4
<1>8. CASE SweepDuty(w)
  <2>1. sweep[w] # Idle /\ sweep[w] \in Sweep /\ sweep[w].pc = "dutyOff"
    BY <1>0, <1>8 DEF SweepDuty, SweepAt
  <2>2. PICK x : x = [sweep[w] EXCEPT !.pc = "apply"]
    OBVIOUS
  <2>3. x.pc = "apply" /\ x.id = sweep[w].id
    BY <2>1, <2>2 DEF Sweep
  <2>4. sweep' = [sweep EXCEPT ![w] = x]
    BY <1>0, <1>8, <2>2 DEF SweepDuty
  <2> QED
    BY <1>4, <2>1, <2>3, <2>4
<1>9. CASE SweepApplyClockOut(w)
  BY <1>2, <1>9 DEF SweepApplyClockOut, SweepAt
<1> QED
  BY <1>1, <1>3, <1>5, <1>6, <1>7, <1>8, <1>9 DEF SweepStep

\* The same of every sweep and every step: at most one sweep holds a new record.
LEMMA NextSweeps ==
    ASSUME TypeInv, [Next]_vars
    PROVE  \/ sweep' = sweep
           \/ \E w \in Sweepers : \E x : sweep' = [sweep EXCEPT ![w] = x] /\ SweepBecomes(w, x)
<1>1. ASSUME NEW w \in Sweepers, SweepDies(w)
      PROVE  \E x : sweep' = [sweep EXCEPT ![w] = x] /\ SweepBecomes(w, x)
  BY <1>1 DEF SweepDies, SweepBecomes
<1>2. ASSUME NEW p \in Punches, PunchStep(p) \/ PunchDies(p)
      PROVE  sweep' = sweep
  BY <1>2 DEF PunchStep, PunchDies, ClockInElsewhere, ClockInFind, ClockInReopen, ClockInCreate,
     ClockInDuty, ApplyClockIn, ClockOutLoad, ClockOutClose, ClockOutDuty, ApplyClockOut
<1>3. ASSUME SyncStep \/ Tick \/ UNCHANGED vars
      PROVE  sweep' = sweep
  BY <1>3 DEF SyncStep, SyncOn, SyncOff, Tick, vars
<1> QED
  BY <1>1, <1>2, <1>3, SweepGoesOn DEF Next, ClockInBegin, ClockOutBegin

\* No record with a session is reopened where a record has only one.
LEMMA NeverReopened ==
    ASSUME SessionsInv, MaxSessions = 1, NEW p \in Punches
    PROVE  ~ClockInReopen(p)
<1> SUFFICES ASSUME ClockInReopen(p) PROVE FALSE
  OBVIOUS
<1>1. call[p] # Idle /\ call[p] \in Punch /\ call[p].pc = "write" /\ call[p].id # Null
  BY DEF ClockInReopen, At, SessionsInv, TypeInv, TypeOK
<1>2. PICK s : s = call[p].sessions
  OBVIOUS
<1>3. s \in Seq(Session) /\ s # << >> /\ Len(s) < 1
  BY <1>1, <1>2 DEF Punch, Sessions, PunchLoaded, IsLoaded, SessionsInv
<1> QED
  BY <1>3, EmptySeq

LEMMA NextAlone ==
    ASSUME SessionsInv, SweepAlone, MaxSessions = 1, [Next]_vars
    PROVE  SweepAlone'
<1>0. TypeInv /\ TypeInv'
  BY NextTypeInv DEF SessionsInv
<1>1. ASSUME NEW r \in Records, Live(r), rows[r].out # Null
      PROVE  rows'[r].out # Null
  <2>1. ~Reopening
    BY NeverReopened DEF Reopening
  <2> QED
    BY <1>1, <2>1, NextTurns DEF RowsMove, RowMoves
<1>2. ASSUME NEW w \in Sweepers, sweep[w] # Idle, sweep[w].id # Null
      PROVE  sweep[w].id \in Records /\ rows'[sweep[w].id].out # Null
  <2>1. sweep[w] \in Sweep
    BY <1>0, <1>2 DEF TypeInv, TypeOK
  <2>2. sweep[w].pc # "claim" /\ rows[sweep[w].id].out # Null
    BY <1>2 DEF SweepAlone
  <2>3. sweep[w].id \in Records /\ Live(sweep[w].id)
    BY <1>0, <1>2, <2>1, <2>2, RowNotNull DEF TypeInv, Holds, SweepHolds, IsRow, Live, Sweep
  <2> QED
    BY <1>1, <2>2, <2>3
<1>3. CASE sweep' = sweep
  BY <1>2, <1>3 DEF SweepAlone, OneSweepPerRecord
<1>4. ASSUME NEW w \in Sweepers, NEW x, sweep' = [sweep EXCEPT ![w] = x], SweepBecomes(w, x)
      PROVE  SweepAlone'
  <2>1. sweep'[w] = x /\ \A v \in Sweepers : v # w => sweep'[v] = sweep[v]
    BY <1>0, <1>4 DEF TypeInv, TypeOK
  <2>2. x # Idle => /\ x.pc = "claim" => x.id = Null
                    /\ x.id # Null => rows'[x.id].out # Null
    BY <1>2, <1>4 DEF SweepBecomes, NewlyClosed
  <2>3. ASSUME NEW v \in Sweepers, v # w, sweep[v] # Idle, x # Idle, sweep[v].id = x.id
        PROVE  x.id = Null
    BY <1>4, <2>3 DEF SweepBecomes, NewlyClosed, SweepAlone, OneSweepPerRecord
  <2> QED
    BY <1>2, <2>1, <2>2, <2>3 DEF SweepAlone, OneSweepPerRecord
<1> QED
  BY <1>0, <1>3, <1>4, NextSweeps

\* Where a record has one session, no two sweeps hold the same record between its claim and
\* the end of its closing, faults and overlapping ticks included.
THEOREM OneSweep ==
    ASSUME MaxSessions = 1
    PROVE  Spec => []OneSweepPerRecord
<1>1. Init => SessionsInv /\ SweepAlone
  BY InitSessions DEF Init, SweepAlone, OneSweepPerRecord
<1>2. SessionsInv /\ SweepAlone /\ [Next]_vars => (SessionsInv /\ SweepAlone)'
  BY NextSessions, NextAlone
<1>3. SessionsInv /\ SweepAlone => OneSweepPerRecord
  BY DEF SweepAlone
<1> QED
  BY <1>1, <1>2, <1>3, PTL DEF Spec

-----------------------------------------------------------------------------
(* However many punches of a guard overlap: no more stations, and no more       *)
(* records of one shift, than there are requests at a time.                     *)

\* A clock-in works on a record of its own station, and ties only the record it created.
PunchPlaced(p) ==
    call[p] # Idle =>
        /\ call[p].pc \in {"elsewhere", "find"} => call[p].id = Null
        /\ call[p].pc \in {"elsewhere", "find", "write"} => ~call[p].fresh
        /\ call[p].pc = "write" /\ call[p].id # Null => rows[call[p].id].station = call[p].station
        /\ call[p].pc = "applyIn" => call[p].fresh
        /\ call[p].pc \in {"dutyOn", "applyIn"} /\ call[p].fresh
              => rows[call[p].id].station = call[p].station

PlacedInv == TypeInv /\ RowsMatchSched /\ \A p \in Punches : PunchPlaced(p)

\* What one step makes of a request.
SameAim(p, c) == /\ c.guard = call[p].guard /\ c.station = call[p].station
                 /\ c.match = call[p].match
Starts(c) == c = Idle \/ c.pc \in {"load", "close", "dutyOff", "applyOut"}
             \/ (c.pc = "elsewhere" /\ c.id = Null /\ ~c.fresh)
Passes(p, c) ==
    /\ call[p] # Idle /\ call[p].pc = "elsewhere" /\ SameAim(p, c)
    /\ c.pc = "find" /\ c.id = Null /\ ~c.fresh /\ rows' = rows
    /\ \/ OpenOf(call[p].guard) = {}
       \/ \E r \in OpenOf(call[p].guard) : rows[r].station = c.station
Finds(p, c) ==
    /\ call[p] # Idle /\ call[p].pc = "find" /\ SameAim(p, c)
    /\ c.pc = "write" /\ ~c.fresh /\ rows' = rows
    /\ c.id = Null /\ c.match # Null => OfShift(c.guard, c.match) = {}
    /\ c.id # Null => c.id \in Records /\ rows[c.id].station = c.station
Writes(p, c) ==
    /\ call[p] # Idle /\ call[p].pc = "write" /\ SameAim(p, c) /\ c.pc = "dutyOn"
    /\ c.fresh => call[p].id = Null /\ c.id \in Records /\ rows'[c.id].station = c.station
Ties(p, c) ==
    /\ call[p] # Idle /\ call[p].pc = "dutyOn" /\ call[p].fresh /\ SameAim(p, c)
    /\ c.pc = "applyIn" /\ c.fresh /\ c.id = call[p].id /\ rows' = rows
PunchMoves(p, c) ==
    Starts(c) \/ Passes(p, c) \/ Finds(p, c) \/ Writes(p, c) \/ Ties(p, c)

\* What it makes of the records: the request's own, at its station, may be created or
\* reopened, and the one it created tied to its shift.
Created(p, r) ==
    /\ ~Live(r) /\ call[p] # Idle /\ call[p].pc = "write"
    /\ rows'[r].guard = call[p].guard /\ rows'[r].station = call[p].station
    /\ rows'[r].shift = Null
Kept(p, r) ==
    /\ Live(r) /\ rows'[r] \in Row
    /\ rows'[r].guard = rows[r].guard /\ rows'[r].station = rows[r].station
    /\ \/ rows'[r].shift = rows[r].shift
       \/ /\ call[p] # Idle /\ call[p].pc = "applyIn" /\ call[p].id = r
          /\ rows'[r].shift = call[p].match /\ call'[p] = Idle
    /\ \/ rows'[r].out # Null
       \/ rows[r].out = Null
       \/ call[p] # Idle /\ call[p].pc = "write" /\ call[p].id = r
RowsGrow(p) == \A r \in Records : rows'[r] = rows[r] \/ Created(p, r) \/ Kept(p, r)

LEMMA KeepGrows ==
    ASSUME RowsKeep, NEW p
    PROVE  RowsGrow(p)
BY DEF RowsKeep, RowsGrow, Kept

LEMMA SameRowsGrow ==
    ASSUME rows' = rows, NEW p
    PROVE  RowsGrow(p)
BY DEF RowsGrow

\* The record of a request that is about to write or to tie it is a row in use.
LEMMA OwnRow ==
    ASSUME TypeInv, NEW p \in Punches, call[p] # Idle, call[p].id # Null
    PROVE  /\ call[p] \in Punch /\ call[p].id \in Records /\ rows[call[p].id] \in Row
           /\ Live(call[p].id) /\ rows[call[p].id].guard = call[p].guard
BY RowNotNull DEF TypeInv, TypeOK, Holds, PunchHolds, IsRow, Live, Punch

\* A request that goes on to x keeps the rest.
LEMMA GotoKeeps ==
    ASSUME TypeOK, NEW p \in Punches, call[p] # Idle, NEW x, Goto(p, x)
    PROVE  \E c : /\ call' = [call EXCEPT ![p] = c] /\ c # Idle /\ c.pc = x /\ SameAim(p, c)
                  /\ c.id = call[p].id /\ c.fresh = call[p].fresh
<1>1. call[p] \in Punch
  BY DEF TypeOK
<1>2. PICK c : c = [call[p] EXCEPT !.pc = x]
  OBVIOUS
<1>3. /\ c.pc = x /\ SameAim(p, c) /\ c.id = call[p].id /\ c.fresh = call[p].fresh
      /\ c # Idle
  BY <1>1, <1>2 DEF Punch, SameAim, Idle
<1>4. call' = [call EXCEPT ![p] = c]
  BY <1>2 DEF Goto, TypeOK
<1> QED
  BY <1>3, <1>4

LEMMA BeginMoves ==
    ASSUME NEW p \in Punches, NEW g \in Guards,
           ClockOutBegin(p, g) \/ \E s \in Stations : ClockInBegin(p, g, s)
    PROVE  \E c : call' = [call EXCEPT ![p] = c] /\ PunchMoves(p, c) /\ RowsGrow(p)
<1>1. RowsGrow(p)
  BY SameRowsGrow DEF ClockOutBegin, ClockInBegin
<1>2. CASE ClockOutBegin(p, g)
  <2>1. PICK c : c = [pc |-> "load", guard |-> g, station |-> Null, at |-> 0, match |-> Null,
                      duty |-> onDuty[g], id |-> Null, fresh |-> FALSE,
                      sessions |-> << >>, out |-> Null]
    OBVIOUS
  <2>2. c.pc = "load"
    BY <2>1
  <2>3. call' = [call EXCEPT ![p] = c]
    BY <1>2, <2>1 DEF ClockOutBegin
  <2> QED
    BY <1>1, <2>2, <2>3 DEF PunchMoves, Starts
<1>3. ASSUME NEW s \in Stations, ClockInBegin(p, g, s)
      PROVE  \E c : call' = [call EXCEPT ![p] = c] /\ PunchMoves(p, c)
  <2>1. PICK m : call' = [call EXCEPT ![p] =
                [pc |-> "elsewhere", guard |-> g, station |-> s, at |-> now, match |-> m,
                 duty |-> onDuty[g], id |-> Null, fresh |-> FALSE,
                 sessions |-> << >>, out |-> Null]]
    BY <1>3 DEF ClockInBegin
  <2>2. PICK c : c = [pc |-> "elsewhere", guard |-> g, station |-> s, at |-> now, match |-> m,
                      duty |-> onDuty[g], id |-> Null, fresh |-> FALSE,
                      sessions |-> << >>, out |-> Null]
    OBVIOUS
  <2>3. c.pc = "elsewhere" /\ c.id = Null /\ ~c.fresh
    BY <2>2
  <2>4. call' = [call EXCEPT ![p] = c]
    BY <2>1, <2>2
  <2> QED
    BY <2>3, <2>4 DEF PunchMoves, Starts
<1> QED
  BY <1>1, <1>2, <1>3

LEMMA ClockInReadMoves ==
    ASSUME PlacedInv, NEW p \in Punches,
           ClockInElsewhere(p) \/ ClockInFind(p) \/ ClockInDuty(p)
    PROVE  \E c : call' = [call EXCEPT ![p] = c] /\ PunchMoves(p, c) /\ RowsGrow(p)
<1>0. RowsGrow(p) /\ rows' = rows
  BY SameRowsGrow DEF ClockInElsewhere, ClockInFind, ClockInDuty
<1>1. /\ TypeOK /\ PunchPlaced(p) /\ PunchHolds(p)
      /\ call[p] # Idle /\ call[p] \in Punch
  BY DEF PlacedInv, TypeInv, Holds, TypeOK, ClockInElsewhere, ClockInFind, ClockInDuty, At
<1>2. CASE Return(p)
  BY <1>0, <1>2 DEF Return, PunchMoves, Starts
<1>3. CASE ClockInElsewhere(p) /\ ~Return(p)
  <2>1. /\ Goto(p, "find")
        /\ \/ OpenOf(call[p].guard) = {}
           \/ \E r \in OpenOf(call[p].guard) : rows[r].station = call[p].station
    BY <1>3 DEF ClockInElsewhere
  <2>2. PICK c : /\ call' = [call EXCEPT ![p] = c] /\ c # Idle /\ c.pc = "find" /\ SameAim(p, c)
                 /\ c.id = call[p].id /\ c.fresh = call[p].fresh
    BY <1>1, <2>1, GotoKeeps
  <2>3. call[p].pc = "elsewhere" /\ c.id = Null /\ ~c.fresh
    BY <1>1, <1>3, <2>2 DEF ClockInElsewhere, At, PunchPlaced
  <2>4. Passes(p, c)
    BY <1>0, <1>1, <2>1, <2>2, <2>3 DEF Passes, SameAim
  <2> QED
    BY <1>0, <2>2, <2>4 DEF PunchMoves
<1>4. CASE ClockInFind(p) /\ ~Return(p)
  <2> DEFINE found == OpenOrShiftRecords(call[p].guard, call[p].station, call[p].match, call[p].at)
  <2>1. call[p].pc = "find" /\ call[p].id = Null /\ ~call[p].fresh
    BY <1>1, <1>4 DEF ClockInFind, At, PunchPlaced
  <2>2. CASE found = {} /\ Goto(p, "write")
    <3>1. PICK c : /\ call' = [call EXCEPT ![p] = c] /\ c # Idle /\ c.pc = "write"
                   /\ SameAim(p, c) /\ c.id = call[p].id /\ c.fresh = call[p].fresh
      BY <1>1, <2>2, GotoKeeps
    <3>2. call[p].match # Null => OfShift(call[p].guard, call[p].match) = {}
      BY <2>2 DEF OpenOrShiftRecords
    <3>3. Finds(p, c)
      BY <1>0, <1>1, <2>1, <3>1, <3>2 DEF Finds, SameAim
    <3> QED
      BY <1>0, <3>1, <3>3 DEF PunchMoves
  <2>3. CASE ~(found = {} /\ Goto(p, "write"))
    <3>1. PICK r \in Newest(found) :
             call' = [call EXCEPT ![p] = [call[p] EXCEPT !.pc = "write", !.id = r,
                         !.sessions = rows[r].sessions, !.out = rows[r].out]]
      BY <1>4, <2>3 DEF ClockInFind
    <3>2. r \in Records /\ rows[r].station = call[p].station
      BY <1>1, <2>1 DEF Newest, OpenOrShiftRecords, OfShift, WalkUps, PunchHolds, PlacedInv,
                        RowsMatchSched
    <3>3. PICK c : c = [call[p] EXCEPT !.pc = "write", !.id = r,
                         !.sessions = rows[r].sessions, !.out = rows[r].out]
      OBVIOUS
    <3>4. c.pc = "write" /\ c.id = r /\ SameAim(p, c) /\ c.fresh = call[p].fresh
      BY <1>1, <3>3 DEF Punch, SameAim
    <3>5. call' = [call EXCEPT ![p] = c]
      BY <3>1, <3>3
    <3>6. c.id # Null
      BY <3>2, <3>4, NullAssumption
    <3>7. Finds(p, c)
      BY <1>0, <1>1, <2>1, <3>2, <3>4, <3>6 DEF Finds, SameAim
    <3> QED
      BY <1>0, <3>5, <3>7 DEF PunchMoves
  <2> QED
    BY <2>2, <2>3
<1>5. CASE ClockInDuty(p) /\ ~Return(p)
  <2>1. Goto(p, "applyIn") /\ call[p].pc = "dutyOn" /\ call[p].fresh
    BY <1>5 DEF ClockInDuty, At
  <2>2. PICK c : /\ call' = [call EXCEPT ![p] = c] /\ c # Idle /\ c.pc = "applyIn" /\ SameAim(p, c)
                 /\ c.id = call[p].id /\ c.fresh = call[p].fresh
    BY <1>1, <2>1, GotoKeeps
  <2>3. Ties(p, c)
    BY <1>0, <1>1, <2>1, <2>2 DEF Ties
  <2> QED
    BY <1>0, <2>2, <2>3 DEF PunchMoves
<1> QED
  BY <1>2, <1>3, <1>4, <1>5

LEMMA ReopenMoves ==
    ASSUME PlacedInv, NEW p \in Punches, ClockInReopen(p)
    PROVE  \E c : call' = [call EXCEPT ![p] = c] /\ PunchMoves(p, c) /\ RowsGrow(p)
<1>1. /\ TypeInv /\ PunchPlaced(p) /\ call[p] # Idle /\ call[p].pc = "write" /\ call[p].id # Null
  BY DEF PlacedInv, ClockInReopen, At
<1>2. /\ call[p] \in Punch /\ call[p].id \in Records /\ rows[call[p].id] \in Row
      /\ Live(call[p].id)
  BY <1>1, OwnRow
<1>3. PICK row : row = [rows[call[p].id] EXCEPT
                          !.sessions = AppendSession(call[p].sessions, call[p].at),
                          !.out = IF call[p].out = Null THEN rows[call[p].id].out ELSE Null]
  OBVIOUS
<1>4. /\ row \in Row /\ row.guard = rows[call[p].id].guard
      /\ row.station = rows[call[p].id].station /\ row.shift = rows[call[p].id].shift
  <2>1. AppendSession(call[p].sessions, call[p].at) \in Sessions
    BY <1>2, AppendSessionType DEF Punch
  <2> QED
    BY <1>2, <1>3, <2>1 DEF Row
<1>5. rows' = [rows EXCEPT ![call[p].id] = row] /\ Goto(p, "dutyOn")
  BY <1>3 DEF ClockInReopen
<1>6. \A r \in Records : rows'[r] = rows[r] \/ (r = call[p].id /\ rows'[r] = row)
  BY <1>1, <1>5 DEF TypeInv, TypeOK
<1>7. RowsGrow(p)
  BY <1>1, <1>2, <1>4, <1>6 DEF RowsGrow, Kept
<1>8. PICK c : /\ call' = [call EXCEPT ![p] = c] /\ c # Idle /\ c.pc = "dutyOn" /\ SameAim(p, c)
               /\ c.id = call[p].id /\ c.fresh = call[p].fresh
  BY <1>1, <1>5, GotoKeeps DEF TypeInv
<1>9. ~c.fresh
  BY <1>1, <1>8 DEF PunchPlaced
<1>10. Writes(p, c)
  BY <1>1, <1>8, <1>9 DEF Writes
<1> QED
  BY <1>7, <1>8, <1>10 DEF PunchMoves

LEMMA CreateMoves ==
    ASSUME PlacedInv, NEW p \in Punches, ClockInCreate(p)
    PROVE  \E c : call' = [call EXCEPT ![p] = c] /\ PunchMoves(p, c) /\ RowsGrow(p)
<1>1. /\ TypeInv /\ call[p] # Idle /\ call[p] \in Punch /\ call[p].pc = "write"
      /\ call[p].id = Null
  BY DEF PlacedInv, ClockInCreate, At, TypeInv, TypeOK
<1>2. PICK row : row = [guard |-> call[p].guard, station |-> call[p].station, shift |-> Null,
                        in |-> call[p].at, out |-> Null, end |-> Null,
                        sessions |-> AppendSession(<< >>, call[p].at),
                        forced |-> FALSE, hours |-> Null]
  OBVIOUS
<1>3. row.guard = call[p].guard /\ row.station = call[p].station /\ row.shift = Null
  BY <1>2
<1>4. PICK r \in Records : /\ rows[r] = Null /\ rows' = [rows EXCEPT ![r] = row]
                           /\ call' = [call EXCEPT ![p] =
                                 [call[p] EXCEPT !.pc = "dutyOn", !.id = r, !.fresh = TRUE]]
  BY <1>1, <1>2 DEF ClockInCreate, TypeInv, TypeOK
<1>5. PICK c : c = [call[p] EXCEPT !.pc = "dutyOn", !.id = r, !.fresh = TRUE]
  OBVIOUS
<1>6. c.pc = "dutyOn" /\ c.id = r /\ c.fresh /\ SameAim(p, c)
  BY <1>1, <1>5 DEF Punch, SameAim
<1>7. rows'[r] = row /\ ~Live(r) /\ \A x \in Records : x # r => rows'[x] = rows[x]
  BY <1>1, <1>4 DEF TypeInv, TypeOK, Live
<1>8. RowsGrow(p)
  BY <1>1, <1>3, <1>7 DEF RowsGrow, Created
<1>9. Writes(p, c)
  BY <1>1, <1>3, <1>6, <1>7 DEF Writes, SameAim
<1>10. call' = [call EXCEPT ![p] = c]
  BY <1>4, <1>5
<1> QED
  BY <1>8, <1>9, <1>10 DEF PunchMoves

LEMMA ApplyClockInMoves ==
    ASSUME PlacedInv, NEW p \in Punches, ApplyClockIn(p)
    PROVE  \E c : call' = [call EXCEPT ![p] = c] /\ PunchMoves(p, c) /\ RowsGrow(p)
<1>1. /\ TypeInv /\ call[p] # Idle /\ call[p].pc = "applyIn" /\ call[p].id # Null
  BY DEF PlacedInv, ApplyClockIn, At, TypeInv, Holds, PunchHolds
<1>2. /\ call[p] \in Punch /\ call[p].id \in Records /\ rows[call[p].id] \in Row
      /\ Live(call[p].id)
  BY <1>1, OwnRow
<1>3. PICK row : row = [rows[call[p].id] EXCEPT
                      !.shift = call[p].match,
                      !.end = IF call[p].match = Null THEN Null ELSE Sched[call[p].match].end]
  OBVIOUS
<1>4. /\ row \in Row /\ row.guard = rows[call[p].id].guard
      /\ row.station = rows[call[p].id].station /\ row.shift = call[p].match
      /\ row.out = rows[call[p].id].out
  BY <1>2, <1>3, SchedAssumption DEF Row, Punch
<1>5. rows' = [rows EXCEPT ![call[p].id] = row] /\ call' = [call EXCEPT ![p] = Idle]
  BY <1>3 DEF ApplyClockIn, Return
<1>6. \A r \in Records : rows'[r] = rows[r] \/ (r = call[p].id /\ rows'[r] = row)
  BY <1>1, <1>5 DEF TypeInv, TypeOK
<1>7. call'[p] = Idle
  BY <1>1, <1>5 DEF TypeInv, TypeOK
<1>8. RowsGrow(p)
  BY <1>1, <1>2, <1>4, <1>6, <1>7 DEF RowsGrow, Kept
<1> QED
  BY <1>5, <1>8 DEF PunchMoves, Starts

LEMMA ClockOutMoves ==
    ASSUME PlacedInv, NEW p \in Punches,
           ClockOutLoad(p) \/ ClockOutClose(p) \/ ClockOutDuty(p) \/ ApplyClockOut(p)
    PROVE  \E c : call' = [call EXCEPT ![p] = c] /\ PunchMoves(p, c) /\ RowsGrow(p)
<1>0. RowsGrow(p)
  BY ClockOutKeeps, KeepGrows DEF PlacedInv
<1>1. TypeOK /\ call[p] # Idle /\ call[p] \in Punch
  BY DEF ClockOutLoad, ClockOutClose, ClockOutDuty, ApplyClockOut, At, PlacedInv, TypeInv, TypeOK
<1>2. CASE Return(p)
  BY <1>0, <1>2 DEF Return, PunchMoves, Starts
<1>3. CASE ClockOutLoad(p) /\ ~Return(p)
  <2>1. PICK r \in Newest(OpenOf(call[p].guard)) :
           call' = [call EXCEPT ![p] = [call[p] EXCEPT !.pc = "close", !.id = r, !.at = now,
                                                       !.sessions = rows[r].sessions]]
    BY <1>3 DEF ClockOutLoad
  <2>2. PICK c : c = [call[p] EXCEPT !.pc = "close", !.id = r, !.at = now,
                                     !.sessions = rows[r].sessions]
    OBVIOUS
  <2>3. c.pc = "close"
    BY <1>1, <2>2 DEF Punch
  <2>4. call' = [call EXCEPT ![p] = c]
    BY <2>1, <2>2
  <2> QED
    BY <1>0, <2>3, <2>4 DEF PunchMoves, Starts
<1>4. CASE ClockOutClose(p)
  <2>1. PICK c : c = [call[p] EXCEPT !.pc = "dutyOff",
                                     !.sessions = CloseSession(call[p].sessions, call[p].at)]
    OBVIOUS
  <2>2. c.pc = "dutyOff"
    BY <1>1, <2>1 DEF Punch
  <2>3. call' = [call EXCEPT ![p] = c]
    BY <1>4, <2>1 DEF ClockOutClose
  <2> QED
    BY <1>0, <2>2, <2>3 DEF PunchMoves, Starts
<1>5. CASE ClockOutDuty(p)
  <2>1. PICK c : call' = [call EXCEPT ![p] = c] /\ c.pc = "applyOut"
    BY <1>1, <1>5, GotoKeeps DEF ClockOutDuty
  <2> QED
    BY <1>0, <2>1 DEF PunchMoves, Starts
<1> QED
  BY <1>2, <1>3, <1>4, <1>5 DEF ApplyClockOut

\* Every step is one of these, or keeps the requests and opens no record.
LEMMA StepMoves ==
    ASSUME PlacedInv, [Next]_vars
    PROVE  \/ RowsKeep /\ call' = call
           \/ \E p \in Punches : \E c :
                 call' = [call EXCEPT ![p] = c] /\ PunchMoves(p, c) /\ RowsGrow(p)
<1>1. ASSUME NEW p \in Punches, PunchStep(p)
      PROVE  \E c : call' = [call EXCEPT ![p] = c] /\ PunchMoves(p, c) /\ RowsGrow(p)
  BY <1>1, ClockInReadMoves, ReopenMoves, CreateMoves, ApplyClockInMoves, ClockOutMoves
     DEF PunchStep
<1>2. ASSUME NEW p \in Punches, PunchDies(p)
      PROVE  \E c : call' = [call EXCEPT ![p] = c] /\ PunchMoves(p, c) /\ RowsGrow(p)
  BY <1>2, SameRowsGrow DEF PunchDies, Return, PunchMoves, Starts
<1>3. ASSUME NEW w \in Sweepers, SweepStep(w)
      PROVE  RowsKeep /\ call' = call
  <2>1. call' = call
    BY <1>3 DEF SweepStep, SweepScan, SweepClaim, SweepReload, SweepLoadGuard, SweepCloseSession,
       SweepDuty, SweepApplyClockOut
  <2> QED
    BY <1>3, <2>1, SweepKeeps DEF PlacedInv
<1>4. ASSUME \/ SyncStep \/ Tick \/ UNCHANGED vars \/ \E w \in Sweepers : SweepDies(w)
      PROVE  RowsKeep /\ call' = call
  <2>1. rows' = rows /\ call' = call
    BY <1>4 DEF SyncStep, SyncOn, SyncOff, Tick, SweepDies, vars
  <2> QED
    BY <2>1, NoRowKeeps DEF PlacedInv, TypeInv
<1> QED
  BY <1>1, <1>2, <1>3, <1>4, BeginMoves DEF Next

LEMMA NextPlaced ==
    ASSUME PlacedInv, [Next]_vars
    PROVE  PlacedInv'
<1>0. TypeInv /\ TypeInv'
  BY NextTypeInv DEF PlacedInv
<1>1. ASSUME NEW q \in Punches, call[q] # Idle,
             (call[q].id # Null /\ call[q].pc = "write") \/ call[q].pc \in {"dutyOn", "applyIn"}
      PROVE  call[q].id \in Records /\ Live(call[q].id)
  <2>1. call[q].id # Null
    BY <1>0, <1>1 DEF TypeInv, Holds, PunchHolds
  <2> QED
    BY <1>0, <1>1, <2>1, OwnRow
<1>2. ASSUME NEW q \in Punches, call'[q] = call[q],
             \A r \in Records : Live(r) => rows'[r].station = rows[r].station
      PROVE  PunchPlaced(q)'
  <2>1. PunchPlaced(q)
    BY DEF PlacedInv
  <2> QED
    BY <1>1, <1>2, <2>1 DEF PunchPlaced
<1>3. CASE RowsKeep /\ call' = call
  <2>1. RowsMatchSched'
    BY <1>3 DEF PlacedInv, RowsMatchSched, RowsKeep, Live
  <2> QED
    BY <1>0, <1>2, <1>3, <2>1 DEF PlacedInv, RowsKeep
<1>4. ASSUME NEW p \in Punches, NEW c, call' = [call EXCEPT ![p] = c], PunchMoves(p, c),
             RowsGrow(p)
      PROVE  PlacedInv'
  <2>1. call'[p] = c /\ \A q \in Punches : q # p => call'[q] = call[q]
    BY <1>0, <1>4 DEF TypeInv, TypeOK
  <2>2. \A r \in Records : Live(r) => rows'[r].station = rows[r].station
    BY <1>4 DEF RowsGrow, Created, Kept
  <2>3. PunchPlaced(p) /\ PunchHolds(p)
    BY <1>0 DEF PlacedInv, TypeInv, Holds
  <2>4. PunchPlaced(p)'
    <3>1. CASE Starts(c)
      BY <2>1, <3>1 DEF Starts, PunchPlaced
    <3>2. CASE Passes(p, c) \/ Finds(p, c)
      BY <2>1, <3>2 DEF Passes, Finds, PunchPlaced
    <3>3. CASE Writes(p, c)
      BY <2>1, <3>3 DEF Writes, PunchPlaced
    <3>4. CASE Ties(p, c)
      BY <1>0, <2>1, <2>3, <3>4 DEF Ties, SameAim, PunchPlaced
    <3> QED
      BY <1>4, <3>1, <3>2, <3>3, <3>4 DEF PunchMoves
  <2>5. ASSUME NEW r \in Records, Live(r)', rows'[r].shift # Null
        PROVE  /\ Sched[rows'[r].shift].guard = rows'[r].guard
               /\ Sched[rows'[r].shift].station = rows'[r].station
    <3>1. CASE rows'[r] = rows[r] \/ (Kept(p, r) /\ rows'[r].shift = rows[r].shift)
      BY <2>5, <3>1 DEF PlacedInv, RowsMatchSched, Live, Kept
    <3>2. CASE Kept(p, r) /\ rows'[r].shift # rows[r].shift
      <4>1. /\ call[p] # Idle /\ call[p].pc = "applyIn" /\ call[p].id = r
            /\ rows'[r].shift = call[p].match /\ rows'[r].guard = rows[r].guard
            /\ rows'[r].station = rows[r].station
        BY <3>2 DEF Kept
      <4>2. r # Null
        BY <2>5, NullAssumption
      <4>3. rows[r].station = call[p].station /\ rows[r].guard = call[p].guard
        BY <2>3, <4>1, <4>2 DEF PunchPlaced, PunchHolds
      <4> QED
        BY <2>3, <2>5, <4>1, <4>3 DEF PunchHolds
    <3> QED
      BY <1>4, <2>5, <3>1, <3>2 DEF RowsGrow, Created
  <2> QED
    BY <1>0, <1>2, <2>1, <2>2, <2>4, <2>5 DEF PlacedInv, RowsMatchSched
<1> QED
  BY <1>3, <1>4, StepMoves

LEMMA InitPlaced == Init => PlacedInv
BY InitTypeInv DEF Init, PlacedInv, RowsMatchSched, PunchPlaced, Live

\* The stations a guard is open at, and those of his clock-ins past the elsewhere check.
Aiming(g)        == {p \in Punches : /\ call[p] # Idle /\ call[p].guard = g
                                     /\ call[p].pc \in {"find", "write"}}
AimedStations(g) == {call[p].station : p \in Aiming(g)}
Posted(g)        == OpenStations(g) \cup AimedStations(g)
FewPosts(g)      == IsFiniteSet(Posted(g)) /\ Cardinality(Posted(g)) <= Cardinality(Punches)

\* The elsewhere check lets a clock-in aim at a new station only when the guard is not open
\* at any, and no other step adds a station.
LEMMA PostsStep ==
    ASSUME PlacedInv, [Next]_vars, NEW g \in Guards
    PROVE  Posted(g)' \subseteq Posted(g) \/ OpenStations(g)' = {}
<1>0. TypeInv
  BY DEF PlacedInv
<1>1. CASE RowsKeep /\ call' = call
  <2>1. OpenStations(g)' \subseteq OpenStations(g)
    BY <1>1, RowNotNull DEF OpenStations, OpenOf, Open, Live, RowsKeep
  <2>2. AimedStations(g)' = AimedStations(g)
    BY <1>1 DEF AimedStations, Aiming
  <2> QED
    BY <2>1, <2>2 DEF Posted
<1>2. ASSUME NEW p \in Punches, NEW c, call' = [call EXCEPT ![p] = c], PunchMoves(p, c),
             RowsGrow(p)
      PROVE  Posted(g)' \subseteq Posted(g) \/ OpenStations(g)' = {}
  <2>1. call'[p] = c /\ \A q \in Punches : q # p => call'[q] = call[q]
    BY <1>0, <1>2 DEF TypeInv, TypeOK
  <2>2. ASSUME NEW r \in Records, Open(r)', rows'[r].guard = g
        PROVE  rows'[r].station \in Posted(g)
    <3>1. CASE rows'[r] = rows[r]
      BY <2>2, <3>1 DEF Open, Live, OpenOf, OpenStations, Posted
    <3>2. CASE Created(p, r)
      BY <2>2, <3>2 DEF Created, Aiming, AimedStations, Posted
    <3>3. CASE Kept(p, r)
      <4>1. /\ Live(r) /\ rows[r].guard = g /\ rows'[r].station = rows[r].station
        BY <2>2, <3>3 DEF Kept
      <4>2. CASE rows[r].out = Null
        BY <4>1, <4>2 DEF Open, OpenOf, OpenStations, Posted
      <4>3. CASE call[p] # Idle /\ call[p].pc = "write" /\ call[p].id = r
        <5>1. r # Null
          BY <2>2, NullAssumption
        <5>2. rows[r].station = call[p].station /\ rows[r].guard = call[p].guard
          BY <1>0, <4>3, <5>1 DEF PlacedInv, PunchPlaced, TypeInv, Holds, PunchHolds
        <5> QED
          BY <4>1, <4>3, <5>2 DEF Aiming, AimedStations, Posted
      <4> QED
        BY <2>2, <3>3, <4>2, <4>3 DEF Kept, Open
    <3> QED
      BY <1>2, <3>1, <3>2, <3>3 DEF RowsGrow
  <2>3. OpenStations(g)' \subseteq Posted(g)
    BY <2>2 DEF OpenStations, OpenOf
  <2>4. ASSUME NEW q \in Aiming(g)', q # p
        PROVE  call'[q].station \in Posted(g)
    BY <2>1, <2>4 DEF Aiming, AimedStations, Posted
  <2>5. ASSUME p \in Aiming(g)'
        PROVE  c.station \in Posted(g) \/ OpenStations(g)' = {}
    <3>1. c # Idle /\ c.guard = g /\ c.pc \in {"find", "write"}
      BY <2>1, <2>5 DEF Aiming
    <3>2. CASE Passes(p, c)
      <4>1. call[p].guard = g /\ rows' = rows
        BY <3>1, <3>2 DEF Passes, SameAim
      <4>2. CASE OpenOf(g) = {}
        <5>1. OpenOf(g)' = {}
          BY <4>1, <4>2 DEF OpenOf, Open, Live
        <5> QED
          BY <5>1 DEF OpenStations
      <4>3. CASE \E r \in OpenOf(g) : rows[r].station = c.station
        BY <4>3 DEF OpenStations, Posted
      <4> QED
        BY <3>2, <4>1, <4>2, <4>3 DEF Passes
    <3>3. CASE Finds(p, c)
      BY <3>1, <3>3 DEF Finds, SameAim, Aiming, AimedStations, Posted
    <3> QED
      BY <1>2, <3>1, <3>2, <3>3 DEF PunchMoves, Starts, Writes, Ties
  <2> QED
    BY <2>1, <2>3, <2>4, <2>5 DEF Posted, AimedStations
<1> QED
  BY <1>1, <1>2, StepMoves

\* There are no more stations than requests that name them.
LEMMA FewStations ==
    ASSUME NEW S, IsFiniteSet(S), NEW c
    PROVE  /\ IsFiniteSet({c[p].station : p \in S})
           /\ Cardinality({c[p].station : p \in S}) <= Cardinality(S)
<1> DEFINE f == [p \in S |-> c[p].station]
           T == {c[p].station : p \in S}
<1>1. f \in Surjection(S, T)
  BY DEF Surjection
<1> QED
  BY <1>1, FS_Surjection

LEMMA NextFewPosts ==
    ASSUME IsFiniteSet(Punches), PlacedInv, [Next]_vars, NEW g \in Guards, FewPosts(g)
    PROVE  FewPosts(g)'
<1>1. CASE Posted(g)' \subseteq Posted(g)
  <2>1. /\ IsFiniteSet(Posted(g)') /\ Cardinality(Posted(g)') <= Cardinality(Posted(g))
    BY <1>1, FS_Subset DEF FewPosts
  <2>2. /\ Cardinality(Posted(g)') \in Nat /\ Cardinality(Posted(g)) \in Nat
        /\ Cardinality(Punches) \in Nat
    BY <2>1, FS_CardinalityType DEF FewPosts
  <2> QED
    BY <2>1, <2>2 DEF FewPosts
<1>2. CASE OpenStations(g)' = {}
  <2>1. /\ IsFiniteSet(Aiming(g)') /\ Cardinality(Aiming(g)') <= Cardinality(Punches)
    <3>1. Aiming(g)' \subseteq Punches
      BY DEF Aiming
    <3> QED
      BY <3>1, FS_Subset
  <2>2. Posted(g)' = {call'[p].station : p \in Aiming(g)'}
    BY <1>2 DEF Posted, AimedStations
  <2>3. IsFiniteSet(Posted(g)') /\ Cardinality(Posted(g)') <= Cardinality(Aiming(g)')
    BY <2>1, <2>2, FewStations
  <2>4. /\ Cardinality(Posted(g)') \in Nat /\ Cardinality(Aiming(g)') \in Nat
        /\ Cardinality(Punches) \in Nat
    BY <2>1, <2>3, FS_CardinalityType
  <2> QED
    BY <2>1, <2>3, <2>4 DEF FewPosts
<1> QED
  BY <1>1, <1>2, PostsStep

\* Two clock-ins of a guard that both find him off the clock may put him on it at two stations;
\* however they overlap, they put him at no more stations than there are requests at a time.
LEMMA StationsPerRequest ==
    ASSUME IsFiniteSet(Punches)
    PROVE  Spec => [](\A g \in Guards : Cardinality(OpenStations(g)) <= Cardinality(Punches))
<1> DEFINE Inv == PlacedInv /\ \A g \in Guards : FewPosts(g)
<1>1. Init => Inv
  <2> SUFFICES ASSUME Init PROVE Inv
    OBVIOUS
  <2>1. \A g \in Guards : Posted(g) = {}
    BY DEF Init, Posted, OpenStations, OpenOf, Open, Live, AimedStations, Aiming
  <2>2. Cardinality({}) = 0 /\ IsFiniteSet({}) /\ Cardinality(Punches) \in Nat
    BY FS_EmptySet, FS_CardinalityType
  <2> QED
    BY <2>1, <2>2, InitPlaced DEF FewPosts
<1>2. Inv /\ [Next]_vars => Inv'
  BY NextPlaced, NextFewPosts
<1>3. Inv => \A g \in Guards : Cardinality(OpenStations(g)) <= Cardinality(Punches)
  <2> SUFFICES ASSUME Inv, NEW g \in Guards
               PROVE  Cardinality(OpenStations(g)) <= Cardinality(Punches)
    OBVIOUS
  <2>1. IsFiniteSet(Posted(g)) /\ Cardinality(Posted(g)) <= Cardinality(Punches)
    BY DEF FewPosts
  <2>2. /\ IsFiniteSet(OpenStations(g)) /\ Cardinality(OpenStations(g)) <= Cardinality(Posted(g))
    BY <2>1, FS_Subset DEF Posted
  <2>3. /\ Cardinality(OpenStations(g)) \in Nat /\ Cardinality(Posted(g)) \in Nat
        /\ Cardinality(Punches) \in Nat
    BY <2>1, <2>2, FS_CardinalityType
  <2> QED
    BY <2>1, <2>2, <2>3
<1> HIDE DEF Inv
<1> QED
  BY <1>1, <1>2, <1>3, PTL DEF Spec

\* The clock-ins that have found no record of shift h of guard g and have not yet tied theirs.
Creating(p, g, h) ==
    /\ call[p] # Idle /\ call[p].guard = g /\ call[p].match = h
    /\ \/ call[p].pc = "write" /\ call[p].id = Null
       \/ call[p].pc \in {"dutyOn", "applyIn"} /\ call[p].fresh
Creators(g, h)   == {p \in Punches : Creating(p, g, h)}
FewRecords(g, h) ==
    /\ IsFiniteSet(OfShift(g, h))
    /\ Cardinality(OfShift(g, h)) + Cardinality(Creators(g, h)) <= Cardinality(Punches)

\* A clock-in becomes one of them only when the shift has no record, and stops being one
\* when it gives the shift a record.
LEMMA RecordsStep ==
    ASSUME PlacedInv, [Next]_vars, NEW g \in Guards, NEW h \in Shifts
    PROVE  \/ OfShift(g, h)' = {}
           \/ /\ OfShift(g, h)' \subseteq OfShift(g, h)
              /\ Creators(g, h)' \subseteq Creators(g, h)
           \/ \E p \in Creators(g, h) : \E x :
                 /\ OfShift(g, h)' \subseteq OfShift(g, h) \cup {x}
                 /\ Creators(g, h)' \subseteq Creators(g, h) \ {p}
<1>0. TypeInv /\ h # Null
  BY NullAssumption DEF PlacedInv
<1>1. CASE RowsKeep /\ call' = call
  BY <1>1, RowNotNull DEF OfShift, Live, RowsKeep, Creators, Creating
<1>2. ASSUME NEW p \in Punches, NEW c, call' = [call EXCEPT ![p] = c], PunchMoves(p, c),
             RowsGrow(p), OfShift(g, h)' # {}
      PROVE  \/ /\ OfShift(g, h)' \subseteq OfShift(g, h)
                /\ Creators(g, h)' \subseteq Creators(g, h)
             \/ \E x : /\ p \in Creators(g, h)
                       /\ OfShift(g, h)' \subseteq OfShift(g, h) \cup {x}
                       /\ Creators(g, h)' \subseteq Creators(g, h) \ {p}
  <2>1. call'[p] = c /\ \A q \in Punches : q # p => call'[q] = call[q]
    BY <1>0, <1>2 DEF TypeInv, TypeOK
  <2>2. \A q \in Punches : q # p => (q \in Creators(g, h)' <=> q \in Creators(g, h))
    BY <2>1 DEF Creators, Creating
  <2>3. ASSUME p \in Creators(g, h)'
        PROVE  p \in Creators(g, h)
    <3>1. /\ c # Idle /\ c.guard = g /\ c.match = h
          /\ \/ c.pc = "write" /\ c.id = Null
             \/ c.pc \in {"dutyOn", "applyIn"} /\ c.fresh
      BY <2>1, <2>3 DEF Creators, Creating
    <3>2. CASE Finds(p, c)
      <4>1. OfShift(g, h) = {} /\ rows' = rows
        BY <1>0, <3>1, <3>2 DEF Finds
      <4>2. OfShift(g, h)' = {}
        BY <4>1 DEF OfShift, Live
      <4> QED
        BY <1>2, <4>2
    <3>3. CASE Writes(p, c)
      BY <3>1, <3>3 DEF Writes, SameAim, Creators, Creating
    <3>4. CASE Ties(p, c)
      BY <3>1, <3>4 DEF Ties, SameAim, Creators, Creating
    <3> QED
      BY <1>2, <3>1, <3>2, <3>3, <3>4 DEF PunchMoves, Starts, Passes
  <2>4. Creators(g, h)' \subseteq Creators(g, h)
    <3>1. Creators(g, h)' \subseteq Punches
      BY DEF Creators
    <3> QED
      BY <2>2, <2>3, <3>1
  <2>5. ASSUME NEW r \in OfShift(g, h)', r \notin OfShift(g, h)
        PROVE  p \in Creators(g, h) /\ r = call[p].id /\ c = Idle
    <3>1. r \in Records /\ Live(r)' /\ rows'[r].guard = g /\ rows'[r].shift = h
      BY <2>5 DEF OfShift
    <3>2. Kept(p, r) /\ Live(r) /\ rows'[r].shift # rows[r].shift
      BY <1>0, <1>2, <2>5, <3>1 DEF RowsGrow, Created, Kept, OfShift, Live
    <3>3. /\ call[p] # Idle /\ call[p].pc = "applyIn" /\ call[p].id = r /\ call[p].match = h
          /\ rows[r].guard = g /\ call'[p] = Idle
      BY <3>1, <3>2 DEF Kept
    <3>4. call[p].fresh /\ call[p].guard = g
      <4>1. PunchPlaced(p) /\ PunchHolds(p) /\ r # Null
        BY <1>0, <3>1, NullAssumption DEF PlacedInv, TypeInv, Holds
      <4> QED
        BY <3>3, <4>1 DEF PunchPlaced, PunchHolds
    <3> QED
      BY <2>1, <3>3, <3>4 DEF Creators, Creating
  <2>6. CASE OfShift(g, h)' \subseteq OfShift(g, h)
    BY <2>4, <2>6
  <2>7. CASE \E r \in OfShift(g, h)' : r \notin OfShift(g, h)
    <3>1. p \in Creators(g, h) /\ c = Idle
      BY <2>5, <2>7
    <3>2. p \notin Creators(g, h)'
      BY <2>1, <3>1 DEF Creators, Creating
    <3>3. OfShift(g, h)' \subseteq OfShift(g, h) \cup {call[p].id}
      BY <2>5
    <3> QED
      BY <2>4, <3>1, <3>2, <3>3
  <2> QED
    BY <2>6, <2>7
<1> QED
  BY <1>1, <1>2, StepMoves

LEMMA CreatorsFew ==
    ASSUME IsFiniteSet(Punches), NEW S, S \subseteq Punches
    PROVE  /\ IsFiniteSet(S) /\ Cardinality(S) \in Nat /\ Cardinality(Punches) \in Nat
           /\ Cardinality(S) <= Cardinality(Punches)
BY FS_Subset, FS_CardinalityType

\* A record more for a request less leaves their number within the bound.
LEMMA OneForOne ==
    ASSUME NEW R, NEW C, NEW R2, NEW C2, NEW n \in Nat, IsFiniteSet(R), IsFiniteSet(C),
           Cardinality(R) + Cardinality(C) <= n,
           \/ R2 \subseteq R /\ C2 \subseteq C
           \/ \E p \in C : \E x : R2 \subseteq R \cup {x} /\ C2 \subseteq C \ {p}
    PROVE  IsFiniteSet(R2) /\ Cardinality(R2) + Cardinality(C2) <= n
<1>0. Cardinality(R) \in Nat /\ Cardinality(C) \in Nat
  BY FS_CardinalityType
<1>1. CASE R2 \subseteq R /\ C2 \subseteq C
  <2>1. /\ IsFiniteSet(R2) /\ Cardinality(R2) <= Cardinality(R)
        /\ IsFiniteSet(C2) /\ Cardinality(C2) <= Cardinality(C)
    BY <1>1, FS_Subset
  <2>2. Cardinality(R2) \in Nat /\ Cardinality(C2) \in Nat
    BY <2>1, FS_CardinalityType
  <2> QED
    BY <1>0, <2>1, <2>2
<1>2. ASSUME NEW p \in C, NEW x, R2 \subseteq R \cup {x}, C2 \subseteq C \ {p}
      PROVE  IsFiniteSet(R2) /\ Cardinality(R2) + Cardinality(C2) <= n
  <2>1. /\ IsFiniteSet(R \cup {x})
        /\ Cardinality(R \cup {x}) = IF x \in R THEN Cardinality(R) ELSE Cardinality(R) + 1
    BY FS_AddElement
  <2>2. /\ IsFiniteSet(C \ {p})
        /\ Cardinality(C \ {p}) = IF p \in C THEN Cardinality(C) - 1 ELSE Cardinality(C)
    BY FS_RemoveElement
  <2>3. /\ IsFiniteSet(R2) /\ Cardinality(R2) <= Cardinality(R \cup {x})
        /\ IsFiniteSet(C2) /\ Cardinality(C2) <= Cardinality(C \ {p})
    BY <1>2, <2>1, <2>2, FS_Subset
  <2>4. Cardinality(R2) \in Nat /\ Cardinality(C2) \in Nat
    BY <2>3, FS_CardinalityType
  <2> QED
    BY <1>0, <2>1, <2>2, <2>3, <2>4
<1> QED
  BY <1>1, <1>2

LEMMA NextFewRecords ==
    ASSUME IsFiniteSet(Punches), PlacedInv, [Next]_vars, NEW g \in Guards, NEW h \in Shifts,
           FewRecords(g, h)
    PROVE  FewRecords(g, h)'
<1>1. IsFiniteSet(Creators(g, h)) /\ Cardinality(Punches) \in Nat
  BY CreatorsFew DEF Creators
<1>2. CASE OfShift(g, h)' = {}
  <2>1. Creators(g, h)' \subseteq Punches
    BY DEF Creators
  <2>2. /\ Cardinality(Creators(g, h)') \in Nat
        /\ Cardinality(Creators(g, h)') <= Cardinality(Punches)
    BY <2>1, CreatorsFew
  <2>3. IsFiniteSet(OfShift(g, h)') /\ Cardinality(OfShift(g, h)') = 0
    BY <1>2, FS_EmptySet
  <2>4. Cardinality(OfShift(g, h)') + Cardinality(Creators(g, h)') <= Cardinality(Punches)
    BY <1>1, <2>2, <2>3
  <2> QED
    BY <2>3, <2>4 DEF FewRecords
<1>3. CASE OfShift(g, h)' # {}
  <2>1. /\ IsFiniteSet(OfShift(g, h)')
        /\ Cardinality(OfShift(g, h)') + Cardinality(Creators(g, h)') <= Cardinality(Punches)
    <3>1. PICK R, C, R2, C2 : /\ R = OfShift(g, h) /\ R2 = OfShift(g, h)'
                              /\ C = Creators(g, h) /\ C2 = Creators(g, h)'
      OBVIOUS
    <3>2. \/ R2 \subseteq R /\ C2 \subseteq C
          \/ \E p \in C : \E x : R2 \subseteq R \cup {x} /\ C2 \subseteq C \ {p}
      BY <1>3, <3>1, RecordsStep
    <3>3. IsFiniteSet(R) /\ IsFiniteSet(C) /\ Cardinality(R) + Cardinality(C) <= Cardinality(Punches)
      BY <1>1, <3>1 DEF FewRecords
    <3>4. IsFiniteSet(R2) /\ Cardinality(R2) + Cardinality(C2) <= Cardinality(Punches)
      BY <1>1, <3>2, <3>3, OneForOne
    <3> QED
      BY <3>1, <3>4
  <2> QED
    BY <2>1 DEF FewRecords
<1> QED
  BY <1>2, <1>3

\* Two clock-ins that both find no record of the shift may create one each; however they
\* overlap, no shift of a guard has more records than there are requests at a time.
LEMMA RecordsPerRequest ==
    ASSUME IsFiniteSet(Punches)
    PROVE  Spec => [](\A g \in Guards, h \in Shifts :
                         Cardinality(OfShift(g, h)) <= Cardinality(Punches))
<1> DEFINE Inv == PlacedInv /\ \A g \in Guards, h \in Shifts : FewRecords(g, h)
<1>1. Init => Inv
  <2> SUFFICES ASSUME Init PROVE Inv
    OBVIOUS
  <2>1. \A g \in Guards, h \in Shifts : OfShift(g, h) = {} /\ Creators(g, h) = {}
    BY DEF Init, OfShift, Live, Creators, Creating
  <2>2. Cardinality({}) = 0 /\ IsFiniteSet({}) /\ Cardinality(Punches) \in Nat
    BY FS_EmptySet, FS_CardinalityType
  <2> QED
    BY <2>1, <2>2, InitPlaced DEF FewRecords
<1>2. Inv /\ [Next]_vars => Inv'
  BY NextPlaced, NextFewRecords
<1>3. Inv => \A g \in Guards, h \in Shifts : Cardinality(OfShift(g, h)) <= Cardinality(Punches)
  <2> SUFFICES ASSUME Inv, NEW g \in Guards, NEW h \in Shifts
               PROVE  Cardinality(OfShift(g, h)) <= Cardinality(Punches)
    OBVIOUS
  <2>1. /\ IsFiniteSet(OfShift(g, h))
        /\ Cardinality(OfShift(g, h)) + Cardinality(Creators(g, h)) <= Cardinality(Punches)
    BY DEF FewRecords
  <2>2. /\ Cardinality(OfShift(g, h)) \in Nat /\ Cardinality(Creators(g, h)) \in Nat
        /\ Cardinality(Punches) \in Nat
    BY <2>1, FS_CardinalityType, CreatorsFew DEF Creators
  <2> QED
    BY <2>1, <2>2
<1> HIDE DEF Inv
<1> QED
  BY <1>1, <1>2, <1>3, PTL DEF Spec

-----------------------------------------------------------------------------
(* Both cases together *)

\* Any two members equal: one member at most.
LEMMA AtMostOne ==
    ASSUME NEW S, \A x, y \in S : x = y
    PROVE  Cardinality(S) <= 1
<1>1. CASE S = {}
  BY <1>1, FS_EmptySet
<1>2. CASE S # {}
  <2>1. PICK x : S = {x}
    BY <1>2
  <2> QED
    BY <2>1, FS_Singleton
<1> QED
  BY <1>1, <1>2

\* Whether or not punches of a guard overlap, and whatever the sweeps, the duty job and
\* faults do, a guard is on the clock at one station for each punch of his that can be at
\* work at once (OneStationAtATime).
THEOREM OneStation ==
    ASSUME IsFiniteSet(Punches)
    PROVE  Spec => []OneStationAtATime
<1>1. CASE Overlap
  <2>1. (\A g \in Guards : Cardinality(OpenStations(g)) <= Cardinality(Punches)) => OneStationAtATime
    BY <1>1 DEF OneStationAtATime, AtOnce
  <2> QED
    BY <2>1, StationsPerRequest, PTL
<1>2. CASE ~Overlap
  <2>1. Spec => []IInv
    <3>1. IInv /\ [Next]_vars => IInv'
      BY <1>2, NextInv
    <3> QED
      BY <3>1, InitInv, PTL DEF Spec
  <2>2. IInv => OneStationAtATime
    <3> SUFFICES ASSUME IInv, NEW g \in Guards PROVE Cardinality(OpenStations(g)) <= 1
      BY <1>2 DEF OneStationAtATime, AtOnce
    <3>1. \A x, y \in OpenStations(g) : x = y
      BY DEF OpenStations, OpenOf, IInv, OneStationEach
    <3> QED
      BY <3>1, AtMostOne
  <2> QED
    BY <2>1, <2>2, PTL
<1> QED
  BY <1>1, <1>2

\* ... and a shift of his has one record for each of them, one if they do not overlap
\* (OneRecordPerShift): what two requests in flight can create, they create once, and no
\* later punch adds to it.
THEOREM OneRecord ==
    ASSUME IsFiniteSet(Punches)
    PROVE  Spec => []OneRecordPerShift
<1>1. CASE Overlap
  <2>1. (\A g \in Guards, h \in Shifts : Cardinality(OfShift(g, h)) <= Cardinality(Punches))
        => OneRecordPerShift
    BY <1>1 DEF OneRecordPerShift, AtOnce
  <2> QED
    BY <2>1, RecordsPerRequest, PTL
<1>2. CASE ~Overlap
  <2>1. Spec => []IInv
    <3>1. IInv /\ [Next]_vars => IInv'
      BY <1>2, NextInv
    <3> QED
      BY <3>1, InitInv, PTL DEF Spec
  <2>2. IInv => OneRecordPerShift
    <3> SUFFICES ASSUME IInv, NEW g \in Guards, NEW h \in Shifts
                 PROVE  Cardinality(OfShift(g, h)) <= 1
      BY <1>2 DEF OneRecordPerShift, AtOnce
    <3>1. \A q, r \in OfShift(g, h) : q = r
      BY NullAssumption DEF OfShift, IInv, OneRecordEach
    <3> QED
      BY <3>1, AtMostOne
  <2> QED
    BY <2>1, <2>2, PTL
<1> QED
  BY <1>1, <1>2

=============================================================================
