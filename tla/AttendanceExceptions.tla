------------------------ MODULE AttendanceExceptions ------------------------
(***************************************************************************)
(* The attendance exceptions of one shift.  A detection job compares the       *)
(* shift with the guard's record every few minutes, the clock-in and clock-out *)
(* handlers evaluate their own punch, and supervisors close what they find in  *)
(* the queue.  Every writer first loads the open exceptions of the shift and   *)
(* creates the missing ones in later queries.  The shift starts at 0.          *)
(***************************************************************************)
EXTENDS Integers, Sequences, FiniteSets

CONSTANTS
    Jobs,          \* instances of the detection job that may be running
    LateGrace,     \* windows.lateGraceMin
    NoShow,        \* windows.noShowThresholdMin
    ShiftEnd,
    EarlyOut,      \* windows.earlyClockoutThresholdMin
    MissedOut,     \* windows.missedClockoutThresholdMin
    Window,        \* how long after its start a shift is scanned (24 h)
    MaxMoves,      \* bound: reviews by supervisors and re-entries of the guard
    MaxFaults,     \* bound: failed queries and dying ticks
    Horizon        \* bound: the clock

ASSUME ExceptionsAssumption ==
    /\ {LateGrace, NoShow, ShiftEnd, EarlyOut, MissedOut, Window} \subseteq Nat
    /\ {MaxMoves, MaxFaults, Horizon} \subseteq Nat
    /\ LateGrace <= NoShow

VARIABLES
    now,
    record,   \* the guard's record of the shift: its state, and whether it carries the shiftId
    exs,      \* attendanceException rows, in order of creation
    work,     \* what each writer of exceptions is doing
    told,     \* exceptions the guard was notified of
    moves,
    faults

vars == <<now, record, exs, work, told, moves, faults>>

Types     == {"late_arrival", "no_call_no_show", "missed_clockout", "early_departure", "overtime"}
Punches   == {"in", "out"}
Writers   == Jobs \cup Punches
Exception == [type : Types, open : BOOLEAN, ofShift : BOOLEAN, ofRecord : BOOLEAN]
Record    == [state : {"none", "open", "closed"}, linked : BOOLEAN]

Idle == [pc |-> "idle"]
Work == [pc : {"link", "find", "create"}, types : SUBSET Types,
         ofShift : BOOLEAN, ofRecord : BOOLEAN]

TypeOK ==
    /\ now \in 0 .. Horizon
    /\ record \in Record
    /\ exs \in Seq(Exception)
    /\ work \in [Writers -> Work \cup {Idle}]
    /\ told \subseteq DOMAIN exs
    /\ moves \in 0 .. MaxMoves /\ faults \in 0 .. MaxFaults

Init ==
    /\ now = 0 /\ moves = 0 /\ faults = 0
    /\ record = [state |-> "none", linked |-> FALSE]
    /\ exs = << >> /\ told = {}
    /\ work = [w \in Writers |-> Idle]

At(w, pc)   == work[w] # Idle /\ work[w].pc = pc
Busy(w)     == work[w] # Idle
MayStart(w) == work[w] = Idle
Return(w)   == work' = [work EXCEPT ![w] = Idle]
Move        == moves < MaxMoves /\ moves' = moves + 1
Fault       == faults < MaxFaults /\ faults' = faults + 1

\* A writer with nothing to report is done; one that knows no shift skips the find.
Report(w, types, ofShift, ofRecord) ==
    work' = [work EXCEPT ![w] =
       IF types = {} THEN Idle
       ELSE [pc |-> IF ofShift THEN "find" ELSE "create", types |-> types,
             ofShift |-> ofShift, ofRecord |-> ofRecord]]

OpenTypes == {exs[e].type : e \in {x \in DOMAIN exs : exs[x].open /\ exs[x].ofShift}}

\* Mutant: what is open already is created again.
MutantFresh(types) == types
\* The types a writer goes on to create: those not open when it looked.
Fresh(types) == types \ OpenTypes

-----------------------------------------------------------------------------
(* lib/attendanceRules *)

\* Mutant: the late branch is tried first.
MutantDetect(hasClockIn, hasClockOut) ==
    IF ~hasClockIn
    THEN IF now > LateGrace THEN {"late_arrival"}
         ELSE IF now > NoShow THEN {"no_call_no_show"} ELSE {}
    ELSE IF ~hasClockOut /\ now - ShiftEnd > MissedOut THEN {"missed_clockout"} ELSE {}
Detect(hasClockIn, hasClockOut) ==
    IF ~hasClockIn
    THEN IF now > NoShow THEN {"no_call_no_show"}
         ELSE IF now > LateGrace THEN {"late_arrival"} ELSE {}
    ELSE IF ~hasClockOut /\ now - ShiftEnd > MissedOut THEN {"missed_clockout"} ELSE {}

\* Mutant: the punch's status in place of the exception's type.
MutantEvaluateClockIn == IF now > LateGrace THEN {"late"} ELSE {}
EvaluateClockIn == IF now > LateGrace THEN {"late_arrival"} ELSE {}

EvaluateClockOut ==
    IF ShiftEnd - now > EarlyOut THEN {"early_departure"}
    ELSE IF now > ShiftEnd THEN {"overtime"} ELSE {}

-----------------------------------------------------------------------------
(* The detection job *)

\* The scan finds the record by its shiftId.
JobScan(j) ==
    /\ MayStart(j) /\ now <= Window
    /\ LET seen == record.linked
       IN  /\ Detect(seen, record.state = "closed") # {}
           /\ Report(j, Detect(seen, record.state = "closed"), TRUE, seen)
    /\ UNCHANGED <<now, record, exs, told, moves, faults>>

\* A tick dies with its error logged; the next one starts over.
JobDies(j) ==
    /\ Busy(j) /\ Fault /\ Return(j)
    /\ UNCHANGED <<now, record, exs, told, moves>>

-----------------------------------------------------------------------------
(* The punches *)

ClockIn ==
    /\ MayStart("in") /\ record.state = "none"
    /\ record' = [state |-> "open", linked |-> FALSE]
    /\ work' = [work EXCEPT !["in"] = [pc |-> "link", types |-> EvaluateClockIn,
                                       ofShift |-> TRUE, ofRecord |-> TRUE]]
    /\ UNCHANGED <<now, exs, told, moves, faults>>

\* applyClockIn: a failed update of the record is logged and the rest goes on.
ClockInLink ==
    /\ At("in", "link")
    /\ \/ record' = [record EXCEPT !.linked = TRUE] /\ UNCHANGED faults
       \/ Fault /\ UNCHANGED record
    /\ Report("in", work["in"].types, TRUE, TRUE)
    /\ UNCHANGED <<now, exs, told, moves>>

\* A re-entry is not evaluated.
ClockInAgain ==
    /\ record.state = "closed" /\ Move /\ record' = [record EXCEPT !.state = "open"]
    /\ UNCHANGED <<now, exs, work, told, faults>>

\* By the guard or by the forced clock-out sweep: both end in applyClockOut.
ClockOut ==
    /\ MayStart("out") /\ record.state = "open"
    /\ record' = [record EXCEPT !.state = "closed"]
    /\ Report("out", EvaluateClockOut, record.linked, TRUE)
    /\ UNCHANGED <<now, exs, told, moves, faults>>

-----------------------------------------------------------------------------
(* Dedupe, create, notify *)

\* A punch whose lookup fails goes on as if nothing were open; a job's tick dies.
Find(w) ==
    /\ At(w, "find")
    /\ \E fresh \in {Fresh(work[w].types), work[w].types} :
          /\ IF fresh = Fresh(work[w].types) THEN UNCHANGED faults
             ELSE w \in Punches /\ Fault
          /\ work' = [work EXCEPT ![w] =
                IF fresh = {} THEN Idle ELSE [@ EXCEPT !.pc = "create", !.types = fresh]]
    /\ UNCHANGED <<now, record, exs, told, moves>>

\* The job tells the guard of lateness and absence.
Create(w) ==
    /\ At(w, "create")
    /\ \E type \in work[w].types :
          LET e == Len(exs) + 1
          IN  /\ \/ /\ exs' = Append(exs, [type |-> type, open |-> TRUE,
                                   ofShift |-> work[w].ofShift, ofRecord |-> work[w].ofRecord])
                    /\ told' = IF w \in Jobs /\ type \in {"late_arrival", "no_call_no_show"}
                               THEN told \cup {e} ELSE told
                    /\ UNCHANGED faults
                 \/ w \in Punches /\ Fault /\ UNCHANGED <<exs, told>>
              /\ work' = [work EXCEPT ![w] =
                    IF @.types = {type} THEN Idle ELSE [work[w] EXCEPT !.types = @ \ {type}]]
    /\ UNCHANGED <<now, record, moves>>

-----------------------------------------------------------------------------
(* The supervisors' queue *)

\* resolveException: any row, whatever its status.
ResolveException(e) ==
    /\ exs[e].open /\ Move /\ exs' = [exs EXCEPT ![e].open = FALSE]
    /\ UNCHANGED <<now, record, work, told, faults>>

\* setApproval closes the open exceptions tied to the record.
ReviewRecord ==
    /\ record.state # "none" /\ Move
    /\ \E e \in DOMAIN exs : exs[e].open /\ exs[e].ofRecord
    /\ exs' = [e \in DOMAIN exs |->
                 IF exs[e].ofRecord THEN [exs[e] EXCEPT !.open = FALSE] ELSE exs[e]]
    /\ UNCHANGED <<now, record, work, told, faults>>

Tick ==
    /\ now < Horizon /\ now' = now + 1
    /\ UNCHANGED <<record, exs, work, told, moves, faults>>

Next ==
    \/ \E j \in Jobs : JobScan(j) \/ JobDies(j)
    \/ ClockIn \/ ClockInLink \/ ClockInAgain \/ ClockOut
    \/ \E w \in Writers : Find(w) \/ Create(w)
    \/ \E e \in DOMAIN exs : ResolveException(e)
    \/ ReviewRecord
    \/ Tick

Spec == Init /\ [][Next]_vars

\* The interval timer keeps starting the job and a started tick keeps going; so do
\* the handlers.  Nobody has to punch or to review anything.
Fairness ==
    /\ WF_vars(Tick) /\ WF_vars(ClockInLink)
    /\ \A w \in Writers : WF_vars(Find(w) \/ Create(w))
    /\ \A j \in Jobs : WF_vars(JobScan(j))

FairSpec == Spec /\ Fairness

-----------------------------------------------------------------------------
(* Properties *)

\* The writers that report a type: the job what it can see, each punch its own.
Reporters(t) ==
    CASE t \in {"no_call_no_show", "missed_clockout"} -> Jobs
      [] t = "late_arrival" -> Jobs \cup {"in"}
      [] OTHER -> {"out"}

\* "At most one OPEN exception per (shiftId, type)" (models/attendanceException) is what a
\* lookup before the create can promise each writer: however the ticks and the punches
\* interleave, a type is open no more often than there are writers that report it, and once
\* more for each lookup that failed.
OneOpenPerType ==
    \A t \in Types :
        Cardinality({e \in DOMAIN exs : exs[e].type = t /\ exs[e].open /\ exs[e].ofShift})
            <= Cardinality(Reporters(t)) + faults

\* "this whole block runs once per (shiftId,type)": the guard is told of a lateness
\* or an absence once (runAttendanceDetectionScheduler).
\* It does not hold: README, section 6.
GuardToldOnce == \A t \in Types : Cardinality({e \in told : exs[e].type = t}) <= 1

\* A guard who does not come is reported absent, whatever tick dies on the way
\* (runAttendanceDetectionScheduler).
NoShowIsFlagged ==
    now > NoShow ~> \/ record.state # "none"
                    \/ \E e \in DOMAIN exs : exs[e].type = "no_call_no_show"

=============================================================================
