------------------------------ MODULE AlarmStation ------------------------------
(***************************************************************************)
(* The alarm central station, for one panel: the receiver stores each signal,  *)
(* suppresses runaway repeats, groups the rest into cases and answers the       *)
(* panel; operators work the cases; a sweep escalates those nobody took.        *)
(* handleMessage is asynchronous, so messages that arrive on two channels are   *)
(* in the pipeline together, one per member of Channels.                               *)
(***************************************************************************)
EXTENDS Integers, Sequences, FiniteSets

CONSTANTS
    Kinds,         \* what a panel reports: a code at a zone, with its qualifier
    Code,          \* [Kinds -> ...] panel + zone + eventCode
    Urgency,       \* [Kinds -> 1..5] priority of the mapped code, 1 is the highest
    Category,      \* [Kinds -> ...] category of the mapped code
    LinkTests,     \* DC-09 keep-alives (NULL token)
    Channels,      \* messages in the pipeline at once
    Null,
    RunawayWindow, \* 60 s
    Grouping,      \* 30 min
    Sla,           \* [1..5 -> Nat] SLA_MINS
    MaxReports,    \* bound: reports the panel makes
    MaxMoves,      \* bound: operator moves
    MaxFaults,     \* bound: writes that fail, handlers that die, ACKs not sent
    Horizon        \* bound: the clock

ASSUME AlarmAssumption ==
    /\ Urgency \in [Kinds -> 1 .. 5] /\ Sla \in [1 .. 5 -> Nat]
    /\ DOMAIN Code = Kinds /\ DOMAIN Category = Kinds /\ LinkTests \subseteq Kinds
    /\ RunawayWindow \in Nat /\ Grouping \in Nat
    /\ MaxReports \in Nat /\ MaxMoves \in Nat /\ MaxFaults \in Nat /\ Horizon \in Nat
    /\ Null \notin Nat

VARIABLES
    now,
    reports,    \* what the panel has reported, in order
    answered,   \* reports that got an ACK
    signals,    \* the alarmSignal rows: [report, at]
    cases,      \* the alarmCase rows
    events,     \* the alarmEvent rows: [signal, case]
    message,    \* the message each channel is handling
    sweep,      \* what the escalation sweep loaded and has yet to write
    cut,        \* history: signals whose handling failed after they were stored
    crossed,    \* history: signals suppressed for a later one only
    moves, faults

history == <<cut, crossed>>
station == <<signals, cases, events>>
counters == <<moves, faults>>
vars == <<now, reports, answered, station, message, sweep, history, counters>>

OpenStatuses == {"queued", "acknowledged", "dispatched"}
Statuses     == OpenStatuses \cup {"resolved", "closed"}
Case    == [status : Statuses, priority : 1 .. 5, kind : Kinds, at : Nat,
            sla : 0 .. 2, resolved : BOOLEAN]
Idle    == [pc |-> "idle"]
Steps   == {"store", "dup", "find", "open", "raise", "event", "ack"}
Message == [pc : Steps, report : Nat, signal : Nat \cup {Null}, case : Nat \cup {Null}]
Overdue == [case : Nat, priority : 1 .. 5, due : 1 .. 2]

\* Restores, openings, tests and supervisory signals open no case on their own.
CaseKinds == {k \in Kinds : Category[k] \notin {"restore", "openclose", "test", "supervisory"}}

KindOf(r)   == reports[r]
SignalOf(x) == KindOf(signals[x].report)

\* A case of an open status, newer than the grouping window.
Open(c, t) == cases[c].status \in OpenStatuses /\ cases[c].at >= t - Grouping
Current(t) == {c \in DOMAIN cases : Open(c, t)}

\* The open case a signal joins: the newest.
MutantNewest(t) == {c \in Current(t) : cases[c].status # "dispatched"}
Newest(t) == {c \in Current(t) : \A d \in Current(t) : cases[d].at <= cases[c].at}

\* Other rows of the same zone and code inside the window; the qualifier is not compared.
MutantRunaway(x) ==
    {y \in DOMAIN signals : /\ Code[SignalOf(y)] = Code[SignalOf(x)]
                            /\ signals[y].at >= signals[x].at - RunawayWindow}
Runaway(x) ==
    {y \in DOMAIN signals \ {x} : /\ Code[SignalOf(y)] = Code[SignalOf(x)]
                                  /\ signals[y].at >= signals[x].at - RunawayWindow}

\* Those of them that were stored before it.
Repeats(x) ==
    {y \in 1 .. x - 1 : /\ Code[SignalOf(y)] = Code[SignalOf(x)]
                        /\ signals[y].at >= signals[x].at - RunawayWindow}

-----------------------------------------------------------------------------
TypeOK ==
    /\ now \in 0 .. Horizon
    /\ reports \in Seq(Kinds) /\ Len(reports) <= MaxReports
    /\ answered \subseteq DOMAIN reports
    /\ signals \in Seq([report : DOMAIN reports, at : 0 .. Horizon])
    /\ cases \in Seq(Case)
    /\ events \subseteq [signal : DOMAIN signals, case : DOMAIN cases \cup {Null}]
    /\ message \in [Channels -> Message \cup {Idle}]
    /\ \A ch \in Channels : message[ch] # Idle =>
          /\ message[ch].report \in DOMAIN reports
          /\ message[ch].pc # "store" => message[ch].signal \in DOMAIN signals
          /\ message[ch].case # Null => message[ch].case \in DOMAIN cases
          /\ message[ch].pc = "raise" => message[ch].case # Null
    /\ sweep \subseteq Overdue /\ \A o \in sweep : o.case \in DOMAIN cases
    /\ cut \subseteq DOMAIN signals /\ crossed \subseteq DOMAIN signals
    /\ moves \in 0 .. MaxMoves /\ faults \in 0 .. MaxFaults

Init ==
    /\ now = 0
    /\ reports = << >> /\ answered = {}
    /\ signals = << >> /\ cases = << >> /\ events = {}
    /\ message = [ch \in Channels |-> Idle]
    /\ sweep = {}
    /\ cut = {} /\ crossed = {}
    /\ moves = 0 /\ faults = 0

At(ch, pc)    == message[ch] # Idle /\ message[ch].pc = pc
Goto(ch, pc)  == message' = [message EXCEPT ![ch].pc = pc]
Return(ch)    == message' = [message EXCEPT ![ch] = Idle]
Handles(ch, x) == message[ch] # Idle /\ message[ch].pc \notin {"store", "ack"} /\ message[ch].signal = x
InPipeline(r) == \E ch \in Channels : message[ch] # Idle /\ message[ch].report = r
Fault         == faults < MaxFaults /\ faults' = faults + 1 /\ UNCHANGED moves

-----------------------------------------------------------------------------
(* The panel *)

\* A message reaches the station.  With one channel the panel waits for the last one.
\* An alarm that rings on, a copy on a second channel and a report whose ACK was lost are
\* reports of the same kind: the rows do not tell them from new ones.
Send(ch, r) ==
    /\ message[ch] = Idle
    /\ message' = [message EXCEPT ![ch] =
          [pc |-> "store", report |-> r, signal |-> Null, case |-> Null]]
    /\ UNCHANGED <<now, answered, station, sweep, history, counters>>

Report(ch, k) ==
    /\ Len(reports) < MaxReports /\ reports' = Append(reports, k)
    /\ Send(ch, Len(reports) + 1)

\* A panel sends its report again until it is answered.
Retransmit(ch, r) ==
    /\ r \notin answered /\ ~InPipeline(r)
    /\ Send(ch, r)
    /\ UNCHANGED reports

-----------------------------------------------------------------------------
(* ingestSignal *)

\* The signal is stored first.
StoreSignal(ch) ==
    /\ At(ch, "store")
    /\ signals' = Append(signals, [report |-> message[ch].report, at |-> now])
    /\ message' = [message EXCEPT ![ch].pc = "dup", ![ch].signal = Len(signals) + 1]
    /\ UNCHANGED <<now, reports, answered, cases, events, sweep, history, counters>>

\* A runaway repeat leaves a note on the open case, if any, and nothing else.
CheckRunaway(ch) ==
    /\ At(ch, "dup")
    /\ LET x == message[ch].signal IN
       /\ Goto(ch, IF Runaway(x) # {} THEN "ack" ELSE "find")
       /\ crossed' = crossed \cup
             {z \in {x} : Repeats(z) = {} /\ \E y \in Runaway(z) : y > z}
    /\ UNCHANGED <<now, reports, answered, station, sweep, cut, counters>>

FindOpenCase(ch) ==
    /\ At(ch, "find")
    /\ LET x == message[ch].signal
           k == SignalOf(x)
           joined(c) == [message[ch] EXCEPT !.case = c,
              !.pc = IF k \in CaseKinds /\ Urgency[k] < cases[c].priority
                     THEN "raise" ELSE "event"]
       IN  \/ /\ Newest(signals[x].at) = {}
              /\ Goto(ch, IF k \in CaseKinds THEN "open" ELSE "event")
           \/ \E c \in Newest(signals[x].at) : message' = [message EXCEPT ![ch] = joined(c)]
    /\ UNCHANGED <<now, reports, answered, station, sweep, history, counters>>

OpenCase(ch) ==
    /\ At(ch, "open")
    /\ LET k == SignalOf(message[ch].signal) IN
       cases' = Append(cases, [status |-> "queued", priority |-> Urgency[k], kind |-> k,
                               at |-> now, sla |-> 0, resolved |-> FALSE])
    /\ message' = [message EXCEPT ![ch].pc = "event", ![ch].case = Len(cases) + 1]
    /\ UNCHANGED <<now, reports, answered, signals, events, sweep, history, counters>>

\* A more severe event raises the priority of the case it joins.
RaiseCase(ch) ==
    /\ At(ch, "raise")
    /\ cases' = [cases EXCEPT ![message[ch].case].priority = Urgency[SignalOf(message[ch].signal)]]
    /\ Goto(ch, "event")
    /\ UNCHANGED <<now, reports, answered, signals, events, sweep, history, counters>>

AddEvent(ch) ==
    /\ At(ch, "event")
    /\ events' = events \cup {[signal |-> message[ch].signal, case |-> message[ch].case]}
    /\ Goto(ch, "ack")
    /\ UNCHANGED <<now, reports, answered, signals, cases, sweep, history, counters>>

\* The panel speaks DC-09: a raw Contact ID or Sur-Gard frame gets no answer, ever.
Acknowledge(ch) ==
    /\ At(ch, "ack")
    /\ answered' = answered \cup {message[ch].report}
    /\ Return(ch)
    /\ UNCHANGED <<now, reports, station, sweep, history, counters>>

\* No ACK when the pipeline fails, except to a link test.
MutantAnsweredAnyway(r) == answered \cup {r}
AnsweredAnyway(r) == IF KindOf(r) \in LinkTests THEN answered \cup {r} ELSE answered

IngestFails(ch) ==
    /\ message[ch] # Idle /\ Fault
    /\ \/ answered' = AnsweredAnyway(message[ch].report)
       \/ UNCHANGED answered
    /\ cut' = cut \cup {x \in DOMAIN signals : Handles(ch, x)}
    /\ Return(ch)
    /\ UNCHANGED <<now, reports, station, sweep, crossed>>

-----------------------------------------------------------------------------
(* Operators.  Each handler loads the case and writes constants: whatever        *)
(* happens in between, the effect is that of one step at the load or the write.  *)

Operate(c, status) ==
    /\ moves < MaxMoves /\ moves' = moves + 1
    /\ cases' = [cases EXCEPT ![c].status = status,
                              ![c].resolved = @ \/ status \in {"resolved", "closed"}]
    /\ UNCHANGED <<now, reports, answered, signals, events, message, sweep, history, faults>>

TakeCase(c)     == Operate(c, "acknowledged")
DispatchCase(c) == Operate(c, "dispatched")
ResolveCase(c)  == Operate(c, "resolved")
CloseCase(c)    == Operate(c, "closed")

-----------------------------------------------------------------------------
(* runEscalationSweep *)

\* Level 1 at the SLA, level 2 at twice the SLA.
Level(c) ==
    LET age == now - cases[c].at
        sla == Sla[cases[c].priority]
    IN  IF age >= 2 * sla THEN 2 ELSE IF age >= sla THEN 1 ELSE 0

MutantDue(c) == cases[c].status = "queued" /\ cases[c].sla = 0 /\ Level(c) > 0
Due(c) == cases[c].status = "queued" /\ Level(c) > cases[c].sla

\* The queued cases as loaded; the others of the list change nothing.
SweepScan ==
    /\ sweep = {}
    /\ \E c \in DOMAIN cases : Due(c)
    /\ sweep' = {[case |-> c, priority |-> cases[c].priority, due |-> Level(c)] :
                    c \in {d \in DOMAIN cases : Due(d)}}
    /\ UNCHANGED <<now, reports, answered, station, message, history, counters>>

\* Mutant: a critical case is escalated past 1.
MutantEscalated(p) == p - 1
Escalated(p) == IF p = 1 THEN 1 ELSE p - 1

\* By id, from the row as loaded; a priority that stays as loaded is not written.
SweepWrite ==
    /\ \E o \in sweep :
          /\ cases' = [cases EXCEPT ![o.case].sla = o.due,
                ![o.case].priority = IF Escalated(o.priority) = o.priority
                                     THEN @ ELSE Escalated(o.priority)]
          /\ sweep' = sweep \ {o}
    /\ UNCHANGED <<now, reports, answered, signals, events, message, history, counters>>

SweepFails ==
    /\ sweep # {} /\ sweep' = {}
    /\ Fault
    /\ UNCHANGED <<now, reports, answered, station, message, history>>

Tick ==
    /\ now < Horizon /\ now' = now + 1
    /\ UNCHANGED <<reports, answered, station, message, sweep, history, counters>>

-----------------------------------------------------------------------------
Ingest(ch) ==
    \/ StoreSignal(ch) \/ CheckRunaway(ch) \/ FindOpenCase(ch) \/ OpenCase(ch)
    \/ RaiseCase(ch) \/ AddEvent(ch) \/ Acknowledge(ch)

Next ==
    \/ \E ch \in Channels, k \in Kinds : Report(ch, k)
    \/ \E ch \in Channels, r \in DOMAIN reports : Retransmit(ch, r)
    \/ \E ch \in Channels : Ingest(ch) \/ IngestFails(ch)
    \/ \E c \in DOMAIN cases :
          TakeCase(c) \/ DispatchCase(c) \/ ResolveCase(c) \/ CloseCase(c)
    \/ SweepScan \/ SweepWrite \/ SweepFails
    \/ Tick

\* Panels retransmit, handlers run to their end, the timer fires, time passes.
Fairness ==
    /\ \A r \in 1 .. MaxReports :
          SF_vars(r \in DOMAIN reports /\ \E ch \in Channels : Retransmit(ch, r))
    /\ \A ch \in Channels : WF_vars(Ingest(ch))
    /\ WF_vars(SweepScan) /\ WF_vars(SweepWrite) /\ WF_vars(Tick)

Spec == Init /\ [][Next]_vars /\ Fairness

-----------------------------------------------------------------------------
(* Properties *)

\* "The panel must never get an ACK for a signal we failed to store", and it does get
\* one in the end; link tests are answered whatever happens (receiver.ts).
Alarms(rs) == {r \in rs : KindOf(r) \notin LinkTests}
Reporting == INSTANCE SignalReporting WITH
    Reports  <- 1 .. MaxReports,
    sent     <- Alarms(DOMAIN reports),
    stored   <- Alarms({signals[x].report : x \in DOMAIN signals}),
    answered <- Alarms(answered)
ImplementsReporting == Reporting!Spec

\* A stored alarm reaches the operators, through a case of its own or as one of a burst:
\* the burst, rows of its zone and code each within the runaway window of an earlier one,
\* began with a row that is in a case or in the pipeline.  Three exceptions, README section
\* 6: the row's handler failed between row and event, two rows each took the other for the
\* original, or the row was a restore, which opens no case.
InCase(x) == \E e \in events : e.signal = x /\ e.case # Null
Lost(x)   == x \in cut \/ x \in crossed \/ SignalOf(x) \notin CaseKinds
Began(y, x) ==
    /\ Code[SignalOf(y)] = Code[SignalOf(x)]
    /\ \A z \in y + 1 .. x : Code[SignalOf(z)] = Code[SignalOf(x)] => Repeats(z) # {}
AlarmHasCase ==
    \A x \in DOMAIN signals : SignalOf(x) \in CaseKinds =>
        \E y \in 1 .. x : /\ Began(y, x)
                          /\ InCase(y) \/ Lost(y) \/ \E ch \in Channels : Handles(ch, y)

\* Signals of one grouping window are in one case (findOpenCase), where their handlers do
\* not overlap; where they do, in no more cases than there were messages in the pipeline.
\* A resolved case that an operator takes up again does not count.
CasesPerChannel ==
    Cardinality({c \in Current(now) : ~cases[c].resolved}) <= Cardinality(Channels)

\* A case nobody takes is escalated to level 2 once it is past twice its SLA
\* (runEscalationSweep); cases opened too late for the clock's bound are left out.
MaxSignals == MaxReports + MaxFaults
Waiting(c) == c \in DOMAIN cases /\ cases[c].status = "queued" /\ cases[c].sla < 2
Ripe(c)    == cases[c].at + 2 * Sla[cases[c].priority] <= Horizon
UnansweredCaseEscalates ==
    \A c \in 1 .. MaxSignals : (Waiting(c) /\ Ripe(c)) ~> ~Waiting(c)

\* A keep-alive is acknowledged "but do not create a case" (receiver.ts).
\* It does not hold: README, section 6.
LinkTestOpensNoCase == \A c \in DOMAIN cases : cases[c].kind \notin LinkTests
=============================================================================
