--------------------------- MODULE AlarmStationProofs ---------------------------
(***************************************************************************)
(* The alarm central station's types, and that it reports as SignalReporting   *)
(* says: an answered report is a stored one, on however many channels its       *)
(* copies arrive and wherever the pipeline fails; that a grouping window has no   *)
(* more cases than channels; and that a stored alarm is in one, or in the burst    *)
(* of a row that is, with three named exceptions.                                  *)
(***************************************************************************)
EXTENDS AlarmStation, FiniteSetTheorems, WellFoundedInduction, TLAPS

\* TypeOK by its parts: the rows, the messages, the rest.
Rows ==
    /\ reports \in Seq(Kinds) /\ Len(reports) <= MaxReports
    /\ signals \in Seq([report : DOMAIN reports, at : 0 .. Horizon])
    /\ cases \in Seq(Case)
    /\ events \subseteq [signal : DOMAIN signals, case : DOMAIN cases \cup {Null}]
    /\ sweep \subseteq Overdue /\ \A o \in sweep : o.case \in DOMAIN cases

\* A message in the pipeline names rows that exist, and its own row once it is stored.
Sound(m, rs, xs, cs) ==
    /\ m \in Message
    /\ m.report \in DOMAIN rs
    /\ m.pc # "store" => m.signal \in DOMAIN xs /\ xs[m.signal].report = m.report
    /\ m.case # Null => m.case \in DOMAIN cs
    /\ m.pc = "raise" => m.case # Null

Messages ==
    /\ message \in [Channels -> Message \cup {Idle}]
    /\ \A ch \in Channels : message[ch] = Idle \/ Sound(message[ch], reports, signals, cases)

\* A report that was answered is stored, or is a link test.
Stored == {signals[x].report : x \in DOMAIN signals}
Answered ==
    /\ answered \subseteq DOMAIN reports
    /\ \A r \in answered : KindOf(r) \in LinkTests \/ r \in Stored

Counters == now \in 0 .. Horizon /\ moves \in 0 .. MaxMoves /\ faults \in 0 .. MaxFaults

Inv == Rows /\ Messages /\ Answered /\ Counters

\* Of sequences.
LEMMA LengthOf == ASSUME NEW S, NEW q \in Seq(S) PROVE Len(q) \in Nat /\ DOMAIN q = 1 .. Len(q)
OBVIOUS

LEMMA Members == ASSUME NEW S, NEW q \in Seq(S) PROVE \A i \in DOMAIN q : i \in Nat /\ q[i] \in S
OBVIOUS

\* The two histories name signals.
History == cut \subseteq DOMAIN signals /\ crossed \subseteq DOMAIN signals

LEMMA InvTypes == Inv /\ History => TypeOK
<1> SUFFICES ASSUME Inv, History PROVE TypeOK
  OBVIOUS
<1>1. \A ch \in Channels : message[ch] # Idle => Sound(message[ch], reports, signals, cases)
  BY DEF Inv, Messages
<1>2. message \in [Channels -> Message \cup {Idle}] /\ Rows /\ Answered /\ Counters
  BY DEF Inv, Messages
<1> QED
  BY <1>1, <1>2 DEF Rows, Answered, Counters, Sound, History, TypeOK

LEMMA InitInv == Init => Inv
<1> SUFFICES ASSUME Init PROVE Inv
  OBVIOUS
<1>1. Rows
  BY AlarmAssumption DEF Init, Rows
<1>2. Messages
  BY DEF Init, Messages
<1>3. Answered
  BY DEF Init, Answered
<1>4. Counters
  BY AlarmAssumption DEF Init, Counters
<1> QED
  BY <1>1, <1>2, <1>3, <1>4 DEF Inv

-----------------------------------------------------------------------------
(* Parts that a step leaves alone *)

\* Rows are only ever appended, so what held of a message holds still.
Grown ==
    /\ Len(reports) <= Len(reports') /\ \A r \in DOMAIN reports : reports'[r] = reports[r]
    /\ Len(signals) <= Len(signals') /\ \A x \in DOMAIN signals : signals'[x] = signals[x]
    /\ Len(cases) <= Len(cases')
    /\ reports' \in Seq(Kinds) /\ signals' \in Seq([report : DOMAIN reports', at : 0 .. Horizon])
    /\ cases' \in Seq(Case)

LEMMA SoundStays ==
    ASSUME NEW m, Rows, Grown, Sound(m, reports, signals, cases)
    PROVE  Sound(m, reports', signals', cases')
<1>1. DOMAIN reports \subseteq DOMAIN reports' /\ DOMAIN signals \subseteq DOMAIN signals'
      /\ DOMAIN cases \subseteq DOMAIN cases'
  BY DEF Grown, Rows
<1> QED
  BY <1>1 DEF Grown, Sound

LEMMA MessagesStay == Rows /\ Messages /\ Grown /\ UNCHANGED message => Messages'
BY SoundStays DEF Messages

\* A step of one message.
LEMMA MessageMoves ==
    ASSUME Rows, Messages, Grown, NEW ch \in Channels, NEW m,
           m = Idle \/ Sound(m, reports', signals', cases'),
           message' = [message EXCEPT ![ch] = m]
    PROVE  Messages'
<1>1. m \in Message \cup {Idle}
  BY DEF Sound
<1>2. message' \in [Channels -> Message \cup {Idle}]
  BY <1>1 DEF Messages
<1>3. ASSUME NEW d \in Channels
      PROVE  message'[d] = Idle \/ Sound(message'[d], reports', signals', cases')
  <2>1. CASE d = ch
    BY <2>1 DEF Messages
  <2>2. CASE d # ch
    <3>1. message'[d] = message[d]
      BY <2>2 DEF Messages
    <3> QED
      BY <3>1, SoundStays DEF Messages
  <2> QED
    BY <2>1, <2>2
<1> QED
  BY <1>2, <1>3 DEF Messages

LEMMA AnsweredStays == Rows /\ Answered /\ Grown /\ UNCHANGED answered => Answered'
<1> SUFFICES ASSUME Rows, Answered, Grown, UNCHANGED answered PROVE Answered'
  OBVIOUS
<1>0. Len(reports) <= Len(reports') /\ Len(signals) <= Len(signals')
  BY DEF Grown
<1>1. DOMAIN reports \subseteq DOMAIN reports' /\ DOMAIN signals \subseteq DOMAIN signals'
  <2>1. reports \in Seq(Kinds) /\ reports' \in Seq(Kinds)
    BY DEF Grown, Rows
  <2>2. /\ signals \in Seq([report : DOMAIN reports, at : 0 .. Horizon])
        /\ signals' \in Seq([report : DOMAIN reports', at : 0 .. Horizon])
    BY DEF Grown, Rows
  <2>3. DOMAIN reports \subseteq DOMAIN reports'
    BY <1>0, <2>1
  <2>4. DOMAIN signals \subseteq DOMAIN signals'
    BY <1>0, <2>2
  <2> QED
    BY <2>3, <2>4
<1>2. Stored \subseteq Stored'
  BY <1>1 DEF Grown, Stored
<1> QED
  BY <1>1, <1>2 DEF Answered, Grown, KindOf

LEMMA GrownSame == Rows /\ UNCHANGED <<reports, station>> => Grown
BY DEF Rows, Grown, station

LEMMA FaultType == ASSUME Inv, Fault PROVE moves' \in 0 .. MaxMoves /\ faults' \in 0 .. MaxFaults
<1>1. moves \in 0 .. MaxMoves /\ faults \in 0 .. MaxFaults /\ MaxFaults \in Nat
  BY AlarmAssumption DEF Inv, Counters
<1>2. faults < MaxFaults /\ faults' = faults + 1 /\ moves' = moves
  BY DEF Fault
<1> QED
  BY <1>1, <1>2

-----------------------------------------------------------------------------
(* Records updated field by field *)

LEMMA MessageWithSignal ==
    ASSUME NEW m \in Message, NEW pc \in Steps, NEW x \in Nat
    PROVE  /\ [m EXCEPT !.pc = pc, !.signal = x] =
                [pc |-> pc, report |-> m.report, signal |-> x, case |-> m.case]
           /\ [m EXCEPT !.pc = pc, !.signal = x] \in Message
<1> DEFINE n == [m EXCEPT !.pc = pc]
<1>1. n = [pc |-> pc, report |-> m.report, signal |-> m.signal, case |-> m.case]
  BY DEF Message
<1>2. [n EXCEPT !.signal = x] = [pc |-> pc, report |-> m.report, signal |-> x, case |-> m.case]
  <2> HIDE DEF n
  <2> QED
    BY <1>1
<1>3. [m EXCEPT !.pc = pc, !.signal = x] =
         [pc |-> pc, report |-> m.report, signal |-> x, case |-> m.case]
  BY <1>2, Zenon
<1> QED
  BY <1>3 DEF Message

LEMMA MessageWithCase ==
    ASSUME NEW m \in Message, NEW pc \in Steps, NEW c \in Nat
    PROVE  /\ [m EXCEPT !.pc = pc, !.case = c] =
                [pc |-> pc, report |-> m.report, signal |-> m.signal, case |-> c]
           /\ [m EXCEPT !.case = c, !.pc = pc] =
                [pc |-> pc, report |-> m.report, signal |-> m.signal, case |-> c]
           /\ [m EXCEPT !.pc = pc, !.case = c] \in Message
<1> DEFINE n == [m EXCEPT !.pc = pc]
           o == [m EXCEPT !.case = c]
<1>1. /\ n = [pc |-> pc, report |-> m.report, signal |-> m.signal, case |-> m.case]
      /\ o = [pc |-> m.pc, report |-> m.report, signal |-> m.signal, case |-> c]
  BY DEF Message
<1>2. /\ [n EXCEPT !.case = c] = [pc |-> pc, report |-> m.report, signal |-> m.signal, case |-> c]
      /\ [o EXCEPT !.pc = pc] = [pc |-> pc, report |-> m.report, signal |-> m.signal, case |-> c]
  <2> HIDE DEF n, o
  <2> QED
    BY <1>1
<1>3. /\ [m EXCEPT !.pc = pc, !.case = c] =
            [pc |-> pc, report |-> m.report, signal |-> m.signal, case |-> c]
      /\ [m EXCEPT !.case = c, !.pc = pc] =
            [pc |-> pc, report |-> m.report, signal |-> m.signal, case |-> c]
  BY <1>2, Zenon
<1>4. [pc |-> pc, report |-> m.report, signal |-> m.signal, case |-> c] \in Message
  BY DEF Message
<1> QED
  BY <1>3, <1>4, Zenon

LEMMA CaseWithPriority == ASSUME NEW r \in Case, NEW p \in 1 .. 5 PROVE [r EXCEPT !.priority = p] \in Case
BY DEF Case

LEMMA CaseEscalated ==
    ASSUME NEW r \in Case, NEW due \in 0 .. 2, NEW p \in 1 .. 5
    PROVE  [r EXCEPT !.sla = due, !.priority = p] \in Case
<1> DEFINE n == [r EXCEPT !.sla = due]
<1>1. n \in Case
  BY DEF Case
<1>2. [n EXCEPT !.priority = p] \in Case
  <2> HIDE DEF n
  <2> QED
    BY <1>1, CaseWithPriority
<1> QED
  BY <1>2, Zenon

LEMMA CaseOperated ==
    ASSUME NEW r \in Case, NEW status \in Statuses, NEW done \in BOOLEAN
    PROVE  [r EXCEPT !.status = status, !.resolved = done] \in Case
<1> DEFINE n == [r EXCEPT !.status = status]
<1>1. n \in Case
  BY DEF Case
<1>2. [n EXCEPT !.resolved = done] \in Case
  <2> HIDE DEF n
  <2> QED
    BY <1>1 DEF Case
<1> QED
  BY <1>2, Zenon

LEMMA CaseWritten ==
    ASSUME NEW cs \in Seq(Case), NEW c \in DOMAIN cs, NEW r \in Case
    PROVE  [cs EXCEPT ![c] = r] \in Seq(Case) /\ Len([cs EXCEPT ![c] = r]) = Len(cs)
OBVIOUS

-----------------------------------------------------------------------------
(* One lemma per group of actions *)

\* A step of the pipeline that changes no row of reports and no answer.
LEMMA PipelineStep ==
    ASSUME Inv, NEW ch \in Channels, NEW m,
           m = Idle \/ Sound(m, reports', signals', cases'),
           message' = [message EXCEPT ![ch] = m],
           Grown, Rows', UNCHANGED <<now, answered, counters>>
    PROVE  Inv'
<1>1. Messages'
  BY MessageMoves DEF Inv
<1>2. Answered'
  BY AnsweredStays DEF Inv
<1>3. Counters'
  BY DEF Inv, Counters, counters
<1> QED
  BY <1>1, <1>2, <1>3 DEF Inv

LEMMA SeqGrows == ASSUME NEW S, NEW T, S \subseteq T, NEW q \in Seq(S) PROVE q \in Seq(T)
OBVIOUS

\* What the rows and the messages are, for the steps below.
LEMMA Parts ==
    ASSUME Inv
    PROVE  /\ now \in Nat /\ Grouping \in Nat /\ faults \in Nat
           /\ cases \in Seq(Case) /\ signals \in Seq([report : DOMAIN reports, at : 0 .. Horizon])
           /\ \A c \in DOMAIN cases : cases[c] \in Case /\ cases[c].at \in Nat /\ cases[c].resolved \in BOOLEAN
           /\ \A x \in DOMAIN signals : /\ x \in Nat /\ signals[x].at \in Nat
                                        /\ signals[x].report \in DOMAIN reports
           /\ DOMAIN message = Channels
<1>1. /\ now \in Nat /\ Grouping \in Nat /\ faults \in Nat
      /\ cases \in Seq(Case) /\ signals \in Seq([report : DOMAIN reports, at : 0 .. Horizon])
      /\ DOMAIN message = Channels /\ Horizon \in Nat
  BY AlarmAssumption DEF Inv, Counters, Rows, Messages
<1>2. \A c \in DOMAIN cases : cases[c] \in Case
  BY <1>1
<1>3. \A x \in DOMAIN signals : x \in Nat /\ signals[x] \in [report : DOMAIN reports, at : 0 .. Horizon]
  BY <1>1, Members
<1>4. \A x \in DOMAIN signals : signals[x].at \in Nat /\ signals[x].report \in DOMAIN reports
  <2> TAKE x \in DOMAIN signals
  <2>1. signals[x] \in [report : DOMAIN reports, at : 0 .. Horizon]
    BY <1>3
  <2>2. signals[x].at \in 0 .. Horizon /\ signals[x].report \in DOMAIN reports
    BY <2>1
  <2> QED
    BY <1>1, <2>2
<1> QED
  BY <1>1, <1>2, <1>3, <1>4 DEF Case

LEMMA KindsOfSignals == ASSUME Inv PROVE \A x \in DOMAIN signals : SignalOf(x) \in Kinds /\ x \in Nat
<1> SUFFICES ASSUME NEW x \in DOMAIN signals PROVE SignalOf(x) \in Kinds
  BY Parts
<1>1. signals[x].report \in DOMAIN reports /\ reports \in Seq(Kinds)
  BY Parts DEF Inv, Rows
<1> QED
  BY <1>1, Members DEF SignalOf, KindOf

\* What is known of a message in the pipeline.
LEMMA InPipelineFacts ==
    ASSUME Inv, NEW ch \in Channels, NEW pc \in Steps, At(ch, pc)
    PROVE  /\ Sound(message[ch], reports, signals, cases)
           /\ message[ch].pc = pc /\ DOMAIN message = Channels
BY DEF Inv, Messages, At

LEMMA NewMessage ==
    ASSUME Inv, NEW ch \in Channels, NEW r, r \in DOMAIN reports', Send(ch, r),
           Len(reports') <= MaxReports, reports' \in Seq(Kinds), Len(reports) <= Len(reports'),
           \A q \in DOMAIN reports : reports'[q] = reports[q]
    PROVE  Inv'
<1> DEFINE m == [pc |-> "store", report |-> r, signal |-> Null, case |-> Null]
<1>1. message' = [message EXCEPT ![ch] = m] /\ UNCHANGED <<now, answered, signals, cases, events,
                                                          sweep, counters>>
  BY DEF Send, station
<1>2. DOMAIN reports \subseteq DOMAIN reports'
  BY DEF Inv, Rows
<1>3. signals \in Seq([report : DOMAIN reports', at : 0 .. Horizon])
  <2>1. [report : DOMAIN reports, at : 0 .. Horizon] \subseteq [report : DOMAIN reports', at : 0 .. Horizon]
    BY <1>2
  <2> QED
    BY <2>1, SeqGrows DEF Inv, Rows
<1>4. Grown
  BY <1>1, <1>3 DEF Grown, Inv, Rows
<1>5. Rows'
  BY <1>1, <1>3 DEF Inv, Rows
<1>6. Sound(m, reports', signals', cases')
  BY DEF Sound, Message, Steps, Inv, Rows
<1> QED
  BY <1>1, <1>4, <1>5, <1>6, PipelineStep

LEMMA PanelSteps ==
    ASSUME Inv, NEW ch \in Channels,
           \/ \E k \in Kinds : Report(ch, k)
           \/ \E r \in DOMAIN reports : Retransmit(ch, r)
    PROVE  Inv'
<1>0. reports \in Seq(Kinds) /\ Len(reports) <= MaxReports /\ MaxReports \in Nat
  BY AlarmAssumption DEF Inv, Rows
<1>1. ASSUME NEW k \in Kinds, Report(ch, k) PROVE Inv'
  <2>1. Send(ch, Len(reports) + 1) /\ reports' = Append(reports, k) /\ Len(reports) < MaxReports
    BY <1>1 DEF Report
  <2>2. /\ reports' \in Seq(Kinds) /\ Len(reports') = Len(reports) + 1
        /\ \A q \in DOMAIN reports : reports'[q] = reports[q]
    BY <1>0, <2>1
  <2> QED
    BY <1>0, <2>1, <2>2, NewMessage
<1>2. ASSUME NEW r \in DOMAIN reports, Retransmit(ch, r) PROVE Inv'
  BY <1>0, <1>2, NewMessage DEF Retransmit
<1> QED
  BY <1>1, <1>2

LEMMA StoreStep == ASSUME Inv, NEW ch \in Channels, StoreSignal(ch) PROVE Inv'
<1> DEFINE m   == message[ch]
           row == [report |-> m.report, at |-> now]
           new == [m EXCEPT !.pc = "dup", !.signal = Len(signals) + 1]
<1>1. Sound(m, reports, signals, cases) /\ m.pc = "store" /\ DOMAIN message = Channels
  BY InPipelineFacts DEF StoreSignal, Steps
<1>2. /\ signals' = Append(signals, row)
      /\ message' = [message EXCEPT ![ch] = new]
      /\ UNCHANGED <<now, reports, answered, cases, events, sweep, counters>>
  BY <1>1 DEF StoreSignal
<1>3. signals \in Seq([report : DOMAIN reports, at : 0 .. Horizon]) /\ now \in 0 .. Horizon
  BY DEF Inv, Rows, Counters
<1>4. row \in [report : DOMAIN reports, at : 0 .. Horizon]
  BY <1>1, <1>3 DEF Sound
<1>5. /\ signals' \in Seq([report : DOMAIN reports, at : 0 .. Horizon])
      /\ Len(signals') = Len(signals) + 1 /\ signals'[Len(signals) + 1] = row
      /\ \A x \in DOMAIN signals : signals'[x] = signals[x]
  BY <1>2, <1>3, <1>4
<1>6. Grown
  BY <1>2, <1>3, <1>5 DEF Inv, Rows, Grown
<1>7. DOMAIN signals \subseteq DOMAIN signals'
  BY <1>3, <1>5
<1>8. Rows'
  BY <1>2, <1>5, <1>7 DEF Inv, Rows
<1>9. Sound(new, reports', signals', cases')
  <2>0. m \in Message /\ Len(signals) + 1 \in Nat
    BY <1>1, <1>3 DEF Sound
  <2>1. /\ new = [pc |-> "dup", report |-> m.report, signal |-> Len(signals) + 1, case |-> m.case]
        /\ new \in Message
    BY <2>0, MessageWithSignal DEF Steps
  <2>2. Len(signals) + 1 \in DOMAIN signals'
    BY <1>3, <1>5
  <2>3. /\ new.report = m.report /\ new.signal = Len(signals) + 1 /\ new.case = m.case
        /\ new.pc = "dup"
    BY <2>1
  <2>4. signals'[new.signal].report = new.report
    BY <1>5, <2>3
  <2>5. new.report \in DOMAIN reports' /\ (new.case # Null => new.case \in DOMAIN cases')
    BY <1>1, <1>2, <2>3 DEF Sound
  <2> HIDE DEF new
  <2> QED
    BY <2>1, <2>2, <2>3, <2>4, <2>5 DEF Sound
<1> QED
  BY <1>2, <1>6, <1>8, <1>9, PipelineStep

\* A step that moves a message on and leaves the rows alone.
LEMMA MoveOn ==
    ASSUME Inv, NEW ch \in Channels, NEW pc \in Steps \ {"store", "raise"}, At(ch, message[ch].pc),
           message[ch].pc # "store", Goto(ch, pc),
           UNCHANGED <<now, reports, answered, station, sweep, counters>>
    PROVE  Inv'
<1> DEFINE m == [message[ch] EXCEPT !.pc = pc]
<1>1. Sound(message[ch], reports, signals, cases) /\ DOMAIN message = Channels
  BY DEF Inv, Messages, At
<1>2. message' = [message EXCEPT ![ch] = m]
  BY <1>1 DEF Goto
<1>3. Sound(m, reports, signals, cases)
  BY <1>1 DEF Sound, Message
<1>4. Rows' /\ Grown
  BY GrownSame DEF Inv, Rows, station
<1> QED
  BY <1>2, <1>3, <1>4, PipelineStep DEF station

LEMMA CheckStep == ASSUME Inv, NEW ch \in Channels, CheckRunaway(ch) PROVE Inv'
<1>1. message[ch].pc = "dup" /\ At(ch, message[ch].pc)
  BY DEF CheckRunaway, At
<1>2. \E pc \in {"ack", "find"} : Goto(ch, pc)
  BY DEF CheckRunaway
<1> QED
  BY <1>1, <1>2, MoveOn DEF CheckRunaway, Steps

LEMMA FindStep == ASSUME Inv, NEW ch \in Channels, FindOpenCase(ch) PROVE Inv'
<1> DEFINE m == message[ch]
           x == m.signal
           k == SignalOf(x)
           joined(c) == [m EXCEPT !.case = c,
                          !.pc = IF k \in CaseKinds /\ Urgency[k] < cases[c].priority
                                 THEN "raise" ELSE "event"]
<1>1. Sound(m, reports, signals, cases) /\ m.pc = "find" /\ DOMAIN message = Channels /\ At(ch, m.pc)
  BY InPipelineFacts DEF FindOpenCase, Steps, At
<1>2. UNCHANGED <<now, reports, answered, station, sweep, counters>>
  BY DEF FindOpenCase
<1>3. CASE Goto(ch, IF k \in CaseKinds THEN "open" ELSE "event")
  <2>1. \E pc \in {"open", "event"} : Goto(ch, pc)
    BY <1>3
  <2> QED
    BY <1>1, <1>2, <2>1, MoveOn DEF Steps
<1>4. CASE \E c \in Newest(signals[x].at) : message' = [message EXCEPT ![ch] = joined(c)]
  <2>1. PICK c \in Newest(signals[x].at) : message' = [message EXCEPT ![ch] = joined(c)]
    BY <1>4
  <2>2. c \in DOMAIN cases /\ cases \in Seq(Case)
    BY DEF Newest, Current, Inv, Rows
  <2>3. c \in Nat /\ c # Null
    BY <2>2, AlarmAssumption
  <2>4. PICK pc \in {"raise", "event"} : joined(c) = [pc |-> pc, report |-> m.report,
                                                     signal |-> m.signal, case |-> c]
    <3>1. m \in Message
      BY <1>1 DEF Sound
    <3>2. \E pc \in {"raise", "event"} : joined(c) = [m EXCEPT !.case = c, !.pc = pc]
      OBVIOUS
    <3>3. \A pc \in {"raise", "event"} : [m EXCEPT !.case = c, !.pc = pc] =
             [pc |-> pc, report |-> m.report, signal |-> m.signal, case |-> c]
      <4>1. ASSUME NEW pc \in {"raise", "event"}
            PROVE  [m EXCEPT !.case = c, !.pc = pc] =
                      [pc |-> pc, report |-> m.report, signal |-> m.signal, case |-> c]
        <5>1. pc \in Steps /\ c \in Nat
          BY <2>3 DEF Steps
        <5> HIDE DEF m
        <5> QED
          BY <3>1, <5>1, MessageWithCase
      <4> QED
        BY <4>1
    <3> HIDE DEF joined
    <3> QED
      BY <3>2, <3>3, Zenon
  <2>5. Sound([pc |-> pc, report |-> m.report, signal |-> m.signal, case |-> c], reports, signals, cases)
    BY <1>1, <2>2, <2>3 DEF Sound, Message, Steps
  <2>6. Rows' /\ Grown
    BY <1>2, GrownSame DEF Inv, Rows, station
  <2> HIDE DEF joined
  <2> QED
    BY <1>2, <2>1, <2>4, <2>5, <2>6, PipelineStep DEF station
<1> QED
  BY <1>3, <1>4 DEF FindOpenCase

LEMMA OpenStep == ASSUME Inv, NEW ch \in Channels, OpenCase(ch) PROVE Inv'
<1> DEFINE m   == message[ch]
           k   == SignalOf(m.signal)
           row == [status |-> "queued", priority |-> Urgency[k], kind |-> k,
                   at |-> now, sla |-> 0, resolved |-> FALSE]
           new == [m EXCEPT !.pc = "event", !.case = Len(cases) + 1]
<1>1. Sound(m, reports, signals, cases) /\ m.pc = "open" /\ DOMAIN message = Channels
  BY InPipelineFacts DEF OpenCase, Steps
<1>2. /\ cases' = Append(cases, row)
      /\ message' = [message EXCEPT ![ch] = new]
      /\ UNCHANGED <<now, reports, answered, signals, events, sweep, counters>>
  BY <1>1 DEF OpenCase
<1>3. /\ cases \in Seq(Case) /\ now \in Nat /\ reports \in Seq(Kinds)
      /\ signals \in Seq([report : DOMAIN reports, at : 0 .. Horizon])
  BY DEF Inv, Rows, Counters
<1>4. k \in Kinds
  BY <1>1, KindsOfSignals DEF Sound
<1>5. row \in Case
  BY <1>3, <1>4, AlarmAssumption DEF Case, Statuses, OpenStatuses
<1> HIDE DEF row
<1>6. cases' \in Seq(Case) /\ Len(cases') = Len(cases) + 1
  BY <1>2, <1>3, <1>5
<1>7. Grown
  BY <1>2, <1>3, <1>6 DEF Grown
<1>8. Rows'
  <2>1. DOMAIN cases \subseteq DOMAIN cases'
    BY <1>3, <1>6
  <2>2. events' \subseteq [signal : DOMAIN signals', case : DOMAIN cases' \cup {Null}]
    <3>1. [signal : DOMAIN signals, case : DOMAIN cases \cup {Null}]
             \subseteq [signal : DOMAIN signals, case : DOMAIN cases' \cup {Null}]
      BY <2>1
    <3> QED
      BY <1>2, <3>1 DEF Inv, Rows
  <2> QED
    BY <1>2, <1>6, <2>1, <2>2 DEF Inv, Rows
<1>9. Sound(new, reports', signals', cases')
  <2>0. m \in Message /\ Len(cases) + 1 \in Nat
    BY <1>1, <1>3 DEF Sound
  <2>1. /\ new = [pc |-> "event", report |-> m.report, signal |-> m.signal, case |-> Len(cases) + 1]
        /\ new \in Message
    BY <2>0, MessageWithCase DEF Steps
  <2>2. /\ new.report = m.report /\ new.signal = m.signal /\ new.case = Len(cases) + 1
        /\ new.pc = "event"
    BY <2>1
  <2>3. Len(cases) + 1 \in DOMAIN cases'
    BY <1>3, <1>6
  <2> HIDE DEF new
  <2> QED
    BY <1>1, <1>2, <2>1, <2>2, <2>3 DEF Sound
<1> QED
  BY <1>2, <1>7, <1>8, <1>9, PipelineStep

\* A step that writes columns of a case row.
LEMMA RowWritten ==
    ASSUME Inv, cases' \in Seq(Case), Len(cases') = Len(cases),
           sweep' \subseteq sweep, UNCHANGED <<now, reports, answered, signals, events, message>>,
           moves' \in 0 .. MaxMoves, faults' \in 0 .. MaxFaults
    PROVE  Inv'
<1>1. DOMAIN cases' = DOMAIN cases
  BY DEF Inv, Rows
<1>2. Rows' /\ Grown
  BY <1>1 DEF Inv, Rows, Grown
<1>3. Messages' /\ Answered'
  BY <1>2, MessagesStay, AnsweredStays DEF Inv
<1> QED
  BY <1>2, <1>3 DEF Inv, Counters

LEMMA RaiseStep == ASSUME Inv, NEW ch \in Channels, RaiseCase(ch) PROVE Inv'
<1> DEFINE m == message[ch]
           c == m.case
           p == Urgency[SignalOf(m.signal)]
           new == [m EXCEPT !.pc = "event"]
<1>1. Sound(m, reports, signals, cases) /\ m.pc = "raise" /\ DOMAIN message = Channels
  BY InPipelineFacts DEF RaiseCase, Steps
<1>2. /\ cases' = [cases EXCEPT ![c].priority = p]
      /\ message' = [message EXCEPT ![ch] = new]
      /\ UNCHANGED <<now, reports, answered, signals, events, sweep, counters>>
  BY <1>1 DEF RaiseCase, Goto
<1>3. /\ cases \in Seq(Case) /\ reports \in Seq(Kinds) /\ c \in DOMAIN cases
      /\ signals \in Seq([report : DOMAIN reports, at : 0 .. Horizon])
  BY <1>1 DEF Inv, Rows, Sound
<1>4. p \in 1 .. 5
  <2>1. SignalOf(m.signal) \in Kinds
    BY <1>1, KindsOfSignals DEF Sound
  <2> QED
    BY <2>1, AlarmAssumption
<1> HIDE DEF p
<1>5. cases' \in Seq(Case) /\ Len(cases') = Len(cases)
  <2>1. cases[c] \in Case
    BY <1>3
  <2> DEFINE r == [cases[c] EXCEPT !.priority = p]
  <2>2. r \in Case
    BY <1>4, <2>1, CaseWithPriority
  <2>3. cases' = [cases EXCEPT ![c] = r]
    BY <1>2
  <2>4. c \in DOMAIN cases /\ cases \in Seq(Case)
    BY <1>3
  <2> HIDE DEF r, c
  <2>5. [cases EXCEPT ![c] = r] \in Seq(Case) /\ Len([cases EXCEPT ![c] = r]) = Len(cases)
    BY <2>2, <2>4, CaseWritten
  <2> QED
    BY <2>3, <2>5
<1>6. DOMAIN cases' = DOMAIN cases
  BY <1>3, <1>5
<1>7. Rows' /\ Grown
  BY <1>2, <1>5, <1>6 DEF Inv, Rows, Grown
<1>8. Sound(new, reports', signals', cases')
  BY <1>1, <1>2, <1>6 DEF Sound, Message, Steps
<1> QED
  BY <1>2, <1>7, <1>8, PipelineStep

LEMMA EventStep == ASSUME Inv, NEW ch \in Channels, AddEvent(ch) PROVE Inv'
<1> DEFINE m == message[ch]
           new == [m EXCEPT !.pc = "ack"]
<1>1. Sound(m, reports, signals, cases) /\ m.pc = "event" /\ DOMAIN message = Channels
  BY InPipelineFacts DEF AddEvent, Steps
<1>2. /\ events' = events \cup {[signal |-> m.signal, case |-> m.case]}
      /\ message' = [message EXCEPT ![ch] = new]
      /\ UNCHANGED <<now, reports, answered, signals, cases, sweep, counters>>
  BY <1>1 DEF AddEvent, Goto
<1>3. [signal |-> m.signal, case |-> m.case] \in [signal : DOMAIN signals, case : DOMAIN cases \cup {Null}]
  BY <1>1 DEF Sound
<1>4. Rows' /\ Grown
  BY <1>2, <1>3 DEF Inv, Rows, Grown
<1>5. Sound(new, reports', signals', cases')
  BY <1>1, <1>2 DEF Sound, Message, Steps
<1> QED
  BY <1>2, <1>4, <1>5, PipelineStep

\* A message that leaves the pipeline, answered or not.
LEMMA Leave ==
    ASSUME Inv, NEW ch \in Channels, Return(ch), UNCHANGED <<now, reports, station, sweep>>,
           moves' \in 0 .. MaxMoves, faults' \in 0 .. MaxFaults, Answered'
    PROVE  Inv'
<1>1. Rows' /\ Grown
  BY GrownSame DEF Inv, Rows, station
<1>2. Messages'
  BY <1>1, MessageMoves DEF Inv, Return
<1> QED
  BY <1>1, <1>2 DEF Inv, Counters

LEMMA AnswerStep ==
    ASSUME Inv, NEW ch \in Channels, Acknowledge(ch) \/ IngestFails(ch)
    PROVE  Inv'
<1>0. Answered /\ Counters
  BY DEF Inv
<1>1. CASE Acknowledge(ch)
  <2>1. Sound(message[ch], reports, signals, cases) /\ message[ch].pc = "ack"
    BY <1>1, InPipelineFacts DEF Acknowledge, Steps
  <2>2. message[ch].report \in Stored
    BY <2>1 DEF Sound, Stored
  <2>3. answered' = answered \cup {message[ch].report} /\ UNCHANGED <<reports, signals>>
    BY <1>1 DEF Acknowledge, station
  <2>4. Answered'
    BY <1>0, <2>1, <2>2, <2>3 DEF Answered, Stored, KindOf, Sound
  <2> QED
    BY <1>0, <1>1, <2>4, Leave DEF Acknowledge, Counters, counters
<1>2. CASE IngestFails(ch)
  <2>1. Sound(message[ch], reports, signals, cases)
    BY <1>2 DEF IngestFails, Inv, Messages
  <2>2. UNCHANGED <<reports, signals>>
    BY <1>2 DEF IngestFails, station
  <2>3. answered' = answered \/ (KindOf(message[ch].report) \in LinkTests
                                /\ answered' = answered \cup {message[ch].report})
    BY <1>2 DEF IngestFails, AnsweredAnyway
  <2>4. Answered'
    BY <1>0, <2>1, <2>2, <2>3 DEF Answered, Stored, KindOf, Sound
  <2>5. moves' \in 0 .. MaxMoves /\ faults' \in 0 .. MaxFaults
    BY <1>2, FaultType DEF IngestFails
  <2> QED
    BY <1>2, <2>4, <2>5, Leave DEF IngestFails
<1> QED
  BY <1>1, <1>2

LEMMA OperateStep == ASSUME Inv, NEW c \in DOMAIN cases, NEW status \in Statuses, Operate(c, status) PROVE Inv'
<1> DEFINE done == cases[c].resolved \/ status \in {"resolved", "closed"}
           r == [cases[c] EXCEPT !.status = status, !.resolved = done]
<1>0. moves \in 0 .. MaxMoves /\ faults \in 0 .. MaxFaults /\ MaxMoves \in Nat /\ cases \in Seq(Case)
  BY AlarmAssumption DEF Inv, Counters, Rows
<1>1. /\ moves < MaxMoves /\ moves' = moves + 1 /\ cases' = [cases EXCEPT ![c] = r]
      /\ UNCHANGED <<now, reports, answered, signals, events, message, sweep, faults>>
  BY <1>0 DEF Operate
<1>2. moves' \in 0 .. MaxMoves
  BY <1>0, <1>1
<1>3. r \in Case
  <2>1. cases[c] \in Case /\ done \in BOOLEAN
    BY <1>0
  <2> HIDE DEF done
  <2> QED
    BY <2>1, CaseOperated
<1> HIDE DEF r
<1>4. cases' \in Seq(Case) /\ Len(cases') = Len(cases)
  BY <1>0, <1>1, <1>3, CaseWritten
<1> QED
  BY <1>0, <1>1, <1>2, <1>4, RowWritten

LEMMA SweepSteps == ASSUME Inv, SweepScan \/ SweepWrite \/ SweepFails PROVE Inv'
<1>0. /\ cases \in Seq(Case) /\ sweep \subseteq Overdue /\ \A o \in sweep : o.case \in DOMAIN cases
      /\ moves \in 0 .. MaxMoves /\ faults \in 0 .. MaxFaults
  BY DEF Inv, Counters, Rows
<1>1. CASE SweepScan
  <2>1. /\ sweep' = {[case |-> c, priority |-> cases[c].priority, due |-> Level(c)] :
                        c \in {d \in DOMAIN cases : Due(d)}}
        /\ UNCHANGED <<now, reports, answered, station, message, counters>>
    BY <1>1 DEF SweepScan
  <2>2. \A c \in DOMAIN cases : Due(c) => Level(c) \in 1 .. 2
    <3> SUFFICES ASSUME NEW c \in DOMAIN cases, Due(c) PROVE Level(c) \in 1 .. 2
      OBVIOUS
    <3>1. Level(c) \in 0 .. 2
      <4>1. Level(c) = 0 \/ Level(c) = 1 \/ Level(c) = 2
        BY Zenon DEF Level
      <4> QED
        BY <4>1
    <3>2. cases[c].sla \in 0 .. 2 /\ Level(c) > cases[c].sla
      <4>1. cases[c] \in Case
        BY <1>0
      <4> QED
        BY <4>1 DEF Due, Case
    <3> QED
      BY <3>1, <3>2
  <2>3. \A c \in DOMAIN cases : cases[c].priority \in 1 .. 5 /\ c \in Nat
    <3> TAKE c \in DOMAIN cases
    <3>1. cases[c] \in Case /\ c \in Nat
      BY <1>0
    <3> QED
      BY <3>1 DEF Case
  <2>4. sweep' \subseteq Overdue /\ \A o \in sweep' : o.case \in DOMAIN cases
    BY <2>1, <2>2, <2>3 DEF Overdue
  <2>5. Rows' /\ Grown
    BY <2>1, <2>4, GrownSame DEF Inv, Rows, station
  <2>6. Messages' /\ Answered'
    BY <2>1, <2>5, MessagesStay, AnsweredStays DEF Inv
  <2> QED
    BY <2>1, <2>5, <2>6 DEF Inv, Counters, counters
<1>2. CASE SweepWrite
  <2>1. PICK o \in sweep :
          /\ cases' = [cases EXCEPT ![o.case].sla = o.due,
                ![o.case].priority = IF Escalated(o.priority) = o.priority
                                     THEN @ ELSE Escalated(o.priority)]
          /\ sweep' = sweep \ {o}
    BY <1>2 DEF SweepWrite
  <2> DEFINE p == IF Escalated(o.priority) = o.priority THEN cases[o.case].priority
                                                        ELSE Escalated(o.priority)
             r == [cases[o.case] EXCEPT !.sla = o.due, !.priority = p]
  <2>2. o.case \in DOMAIN cases /\ o.priority \in 1 .. 5 /\ o.due \in 1 .. 2 /\ cases[o.case] \in Case
    BY <1>0 DEF Overdue
  <2>3. p \in 1 .. 5
    BY <2>2 DEF Escalated, Case
  <2>4. cases' = [cases EXCEPT ![o.case] = r]
    BY <1>0, <2>1, <2>2
  <2>5. r \in Case
    <3>1. o.due \in 0 .. 2
      BY <2>2
    <3> HIDE DEF p
    <3> QED
      BY <2>2, <2>3, <3>1, CaseEscalated
  <2> HIDE DEF r
  <2>6. cases' \in Seq(Case) /\ Len(cases') = Len(cases)
    BY <1>0, <2>2, <2>4, <2>5, CaseWritten
  <2> QED
    BY <1>0, <1>2, <2>1, <2>6, RowWritten DEF SweepWrite, counters
<1>3. CASE SweepFails
  <2>1. moves' \in 0 .. MaxMoves /\ faults' \in 0 .. MaxFaults
    BY <1>3, FaultType DEF SweepFails
  <2> QED
    BY <1>0, <1>3, <2>1, RowWritten DEF SweepFails, station
<1> QED
  BY <1>1, <1>2, <1>3

LEMMA TickStep == ASSUME Inv, Tick PROVE Inv'
<1>1. now \in 0 .. Horizon /\ Horizon \in Nat
  BY AlarmAssumption DEF Inv, Counters
<1>2. now < Horizon /\ now' = now + 1 /\ UNCHANGED <<reports, answered, station, message, sweep, counters>>
  BY DEF Tick
<1>3. now' \in 0 .. Horizon
  BY <1>1, <1>2
<1>4. Rows' /\ Grown
  BY <1>2, GrownSame DEF Inv, Rows, station
<1>5. Messages' /\ Answered'
  BY <1>2, <1>4, MessagesStay, AnsweredStays DEF Inv
<1> QED
  BY <1>2, <1>3, <1>4, <1>5 DEF Inv, Counters, counters

LEMMA NextInv == ASSUME Inv, [Next]_vars PROVE Inv'
<1>1. ASSUME NEW ch \in Channels,
             \/ \E k \in Kinds : Report(ch, k)
             \/ \E r \in DOMAIN reports : Retransmit(ch, r)
             \/ Ingest(ch) \/ IngestFails(ch)
      PROVE  Inv'
  BY <1>1, PanelSteps, StoreStep, CheckStep, FindStep, OpenStep, RaiseStep, EventStep, AnswerStep DEF Ingest
<1>2. ASSUME NEW c \in DOMAIN cases,
             TakeCase(c) \/ DispatchCase(c) \/ ResolveCase(c) \/ CloseCase(c)
      PROVE  Inv'
  BY <1>2, OperateStep DEF TakeCase, DispatchCase, ResolveCase, CloseCase, Statuses, OpenStatuses
<1>3. CASE UNCHANGED vars
  <2>1. Rows' /\ Grown
    BY <1>3, GrownSame DEF vars, Inv, Rows, station
  <2>2. Messages' /\ Answered'
    BY <1>3, <2>1, MessagesStay, AnsweredStays DEF Inv, vars
  <2> QED
    BY <1>3, <2>1, <2>2 DEF Inv, Counters, counters, vars
<1> QED
  BY <1>1, <1>2, <1>3, SweepSteps, TickStep DEF Next

\* A signal is stored, and stays stored, before it enters a history.
LEMMA NextHistory == ASSUME Inv, History, [Next]_vars PROVE History'
<1>1. ASSUME DOMAIN signals \subseteq DOMAIN signals', UNCHANGED history
      PROVE  History'
  BY <1>1 DEF History, history
<1>2. ASSUME NEW ch \in Channels,
             \/ \E k \in Kinds : Report(ch, k)
             \/ \E r \in DOMAIN reports : Retransmit(ch, r)
             \/ FindOpenCase(ch) \/ OpenCase(ch) \/ RaiseCase(ch) \/ AddEvent(ch) \/ Acknowledge(ch)
      PROVE  History'
  BY <1>1, <1>2 DEF Report, Retransmit, Send, FindOpenCase, OpenCase, RaiseCase, AddEvent,
     Acknowledge, station
<1>3. ASSUME NEW ch \in Channels, StoreSignal(ch) PROVE History'
  <2>1. DOMAIN signals \subseteq DOMAIN signals'
    BY <1>3, Parts DEF StoreSignal
  <2> QED
    BY <1>1, <1>3, <2>1 DEF StoreSignal
<1>4. ASSUME NEW ch \in Channels, CheckRunaway(ch) PROVE History'
  <2>1. message[ch].signal \in DOMAIN signals
    BY <1>4, InPipelineFacts DEF CheckRunaway, Steps, Sound
  <2> QED
    BY <1>4, <2>1 DEF CheckRunaway, History, station
<1>5. ASSUME NEW ch \in Channels, IngestFails(ch) PROVE History'
  BY <1>5 DEF IngestFails, History, station
<1>6. ASSUME NEW c \in DOMAIN cases,
             TakeCase(c) \/ DispatchCase(c) \/ ResolveCase(c) \/ CloseCase(c)
      PROVE  History'
  BY <1>1, <1>6 DEF TakeCase, DispatchCase, ResolveCase, CloseCase, Operate
<1>7. CASE SweepScan \/ SweepWrite \/ SweepFails \/ Tick \/ UNCHANGED vars
  BY <1>1, <1>7 DEF SweepScan, SweepWrite, SweepFails, Tick, vars, station
<1> QED
  BY <1>2, <1>3, <1>4, <1>5, <1>6, <1>7 DEF Next, Ingest

\* Type correctness: no message, event or pending sweep write ever names a row that is
\* not there.
THEOREM TypeCorrect == Spec => []TypeOK
<1>1. Init => History
  BY DEF Init, History
<1>2. Inv /\ History /\ [Next]_vars => Inv' /\ History'
  BY NextInv, NextHistory
<1> QED
  BY <1>1, <1>2, InitInv, InvTypes, PTL DEF Spec

-----------------------------------------------------------------------------
(* The refinement *)

LEMMA AlarmsSame ==
    ASSUME Inv, UNCHANGED <<reports, answered, signals>>
    PROVE  UNCHANGED Reporting!reporting
BY DEF Reporting!reporting, Alarms, KindOf

\* The facts the mapping rests on.
LEMMA MappingFacts ==
    ASSUME Inv
    PROVE  /\ reports \in Seq(Kinds) /\ Len(reports) <= MaxReports /\ MaxReports \in Nat
           /\ Stored \subseteq DOMAIN reports /\ answered \subseteq DOMAIN reports
           /\ \A r \in answered : KindOf(r) \in LinkTests \/ r \in Stored
<1>1. \A x \in DOMAIN signals : signals[x].report \in DOMAIN reports
  <2> DEFINE S == [report : DOMAIN reports, at : 0 .. Horizon]
  <2>1. signals \in Seq(S) /\ \A s \in S : s.report \in DOMAIN reports
    BY DEF Inv, Rows
  <2> HIDE DEF S
  <2> QED
    BY <2>1
<1>2. Stored \subseteq DOMAIN reports
  BY <1>1 DEF Stored
<1> QED
  BY <1>2, AlarmAssumption DEF Inv, Rows, Answered

LEMMA ReportMaps ==
    ASSUME Inv, NEW ch \in Channels, NEW k \in Kinds, Report(ch, k)
    PROVE  [Reporting!Next]_Reporting!reporting
<1> DEFINE r == Len(reports) + 1
<1>1. /\ reports' = Append(reports, k) /\ Len(reports) < MaxReports
      /\ UNCHANGED <<answered, signals>>
  BY DEF Report, Send, station
<1>2. /\ DOMAIN reports' = DOMAIN reports \cup {r} /\ r \notin DOMAIN reports /\ reports'[r] = k
      /\ \A q \in DOMAIN reports : reports'[q] = reports[q]
      /\ r \in 1 .. MaxReports
  BY <1>1, MappingFacts
<1>3. UNCHANGED <<Alarms(Stored), Alarms(answered)>>
  BY <1>1, <1>2, MappingFacts DEF Alarms, KindOf, Stored
<1>4. CASE k \in LinkTests
  <2>1. UNCHANGED Alarms(DOMAIN reports)
    BY <1>2, <1>4 DEF Alarms, KindOf
  <2> QED
    BY <1>3, <2>1 DEF Reporting!reporting, Stored
<1>5. CASE k \notin LinkTests
  <2>1. Alarms(DOMAIN reports)' = Alarms(DOMAIN reports) \cup {r} /\ r \notin Alarms(DOMAIN reports)
    BY <1>2, <1>5 DEF Alarms, KindOf
  <2> QED
    BY <1>2, <1>3, <2>1 DEF Reporting!Next, Reporting!Send, Stored
<1> QED
  BY <1>4, <1>5

LEMMA StoreMaps ==
    ASSUME Inv, NEW ch \in Channels, StoreSignal(ch)
    PROVE  [Reporting!Next]_Reporting!reporting
<1> DEFINE r == message[ch].report
<1>1. Sound(message[ch], reports, signals, cases)
  BY InPipelineFacts DEF StoreSignal, Steps
<1>2. signals' = Append(signals, [report |-> r, at |-> now]) /\ UNCHANGED <<reports, answered>>
  BY DEF StoreSignal
<1>3. r \in DOMAIN reports
  BY <1>1 DEF Sound
<1>4. Stored' = Stored \cup {r}
  <2>1. /\ DOMAIN signals' = DOMAIN signals \cup {Len(signals) + 1}
        /\ signals'[Len(signals) + 1].report = r
        /\ \A x \in DOMAIN signals : signals'[x] = signals[x]
    BY <1>2 DEF Inv, Rows
  <2> HIDE DEF r
  <2> QED
    BY <2>1 DEF Stored
<1>5. UNCHANGED <<Alarms(DOMAIN reports), Alarms(answered)>>
  BY <1>2 DEF Alarms, KindOf
<1>6. CASE KindOf(r) \in LinkTests \/ r \in Stored
  <2>1. UNCHANGED Alarms(Stored)
    BY <1>2, <1>4, <1>6 DEF Alarms, KindOf
  <2> QED
    BY <1>5, <2>1 DEF Reporting!reporting, Stored
<1>7. CASE KindOf(r) \notin LinkTests /\ r \notin Stored
  <2>1. /\ Alarms(Stored)' = Alarms(Stored) \cup {r} /\ r \notin Alarms(Stored)
        /\ r \in Alarms(DOMAIN reports)
    BY <1>2, <1>3, <1>4, <1>7 DEF Alarms, KindOf
  <2>2. r \in 1 .. MaxReports
    BY <1>3, MappingFacts
  <2> QED
    BY <1>5, <2>1, <2>2 DEF Reporting!Next, Reporting!Store, Stored
<1> QED
  BY <1>6, <1>7

LEMMA AnswerMaps ==
    ASSUME Inv, NEW ch \in Channels, Acknowledge(ch) \/ IngestFails(ch)
    PROVE  [Reporting!Next]_Reporting!reporting
<1> DEFINE r == message[ch].report
<1>1. UNCHANGED <<reports, signals>>
  BY DEF Acknowledge, IngestFails, station
<1>2. UNCHANGED <<Alarms(DOMAIN reports), Alarms(Stored)>>
  BY <1>1 DEF Alarms, KindOf, Stored
<1>3. CASE answered' = answered
  BY <1>1, <1>3, AlarmsSame
<1>4. CASE answered' = answered \cup {r} /\ (KindOf(r) \in LinkTests \/ r \in answered)
  <2>1. UNCHANGED Alarms(answered)
    BY <1>1, <1>4 DEF Alarms, KindOf
  <2> QED
    BY <1>2, <2>1 DEF Reporting!reporting, Stored
<1>5. CASE answered' = answered \cup {r} /\ KindOf(r) \notin LinkTests /\ r \notin answered
             /\ Acknowledge(ch)
  <2>1. Sound(message[ch], reports, signals, cases) /\ message[ch].pc = "ack"
    BY <1>5, InPipelineFacts DEF Acknowledge, Steps
  <2>2. r \in Stored /\ r \in DOMAIN reports
    BY <2>1 DEF Sound, Stored
  <2>3. Alarms(answered)' = Alarms(answered) \cup {r} /\ r \in Alarms(Stored) \ Alarms(answered)
    BY <1>1, <1>5, <2>2 DEF Alarms, KindOf
  <2>4. r \in 1 .. MaxReports
    BY <2>2, MappingFacts
  <2> QED
    BY <1>2, <2>3, <2>4 DEF Reporting!Next, Reporting!Answer, Stored
<1> QED
  BY <1>3, <1>4, <1>5 DEF Acknowledge, IngestFails, AnsweredAnyway

LEMMA NextMaps == ASSUME Inv, [Next]_vars PROVE [Reporting!Next]_Reporting!reporting
<1>1. ASSUME NEW ch \in Channels, NEW r, Retransmit(ch, r) PROVE UNCHANGED <<reports, answered, signals>>
  BY <1>1 DEF Retransmit, Send, station
<1>2. ASSUME NEW ch \in Channels,
             CheckRunaway(ch) \/ FindOpenCase(ch) \/ OpenCase(ch) \/ RaiseCase(ch) \/ AddEvent(ch)
      PROVE  UNCHANGED <<reports, answered, signals>>
  BY <1>2 DEF CheckRunaway, FindOpenCase, OpenCase, RaiseCase, AddEvent, station
<1>3. ASSUME NEW c, TakeCase(c) \/ DispatchCase(c) \/ ResolveCase(c) \/ CloseCase(c)
      PROVE  UNCHANGED <<reports, answered, signals>>
  BY <1>3 DEF TakeCase, DispatchCase, ResolveCase, CloseCase, Operate
<1>4. ASSUME SweepScan \/ SweepWrite \/ SweepFails \/ Tick \/ UNCHANGED vars
      PROVE  UNCHANGED <<reports, answered, signals>>
  BY <1>4 DEF SweepScan, SweepWrite, SweepFails, Tick, vars, station
<1> QED
  BY <1>1, <1>2, <1>3, <1>4, AlarmsSame, ReportMaps, StoreMaps, AnswerMaps DEF Next, Ingest

\* "The panel must never get an ACK for a signal we failed to store" (receiver.ts): every
\* step of the station, on any number of channels, is one of SignalReporting or changes
\* nothing of it.  That every report is answered in the end is left to TLC.
THEOREM ReportsSafely == Spec => Reporting!Safe
<1>1. Init => Reporting!Init
  BY DEF Init, Reporting!Init, Alarms
<1> QED
  BY <1>1, InitInv, NextInv, NextMaps, PTL DEF Spec, Reporting!Safe

-----------------------------------------------------------------------------
(* Cases of one window: a message opens a case only where its search found none, and      *)
(* while it has yet to do so only the other messages in the pipeline can open one.          *)

\* A case that a signal of time t does not join, whatever operators do with it.
Old(c, t) == cases[c].resolved \/ cases[c].at < t - Grouping

Past ==
    /\ \A c \in DOMAIN cases : cases[c].at <= now
    /\ \A x \in DOMAIN signals : signals[x].at <= now
Unresolved == \A c \in DOMAIN cases : cases[c].resolved \/ cases[c].status \in OpenStatuses

\* The cases of the window and the messages about to open one are no more than the channels.
Fresh   == {c \in DOMAIN cases : ~Old(c, now)}
Opening == {ch \in Channels : At(ch, "open")}
Room    == Cardinality(Fresh) + Cardinality(Opening) <= Cardinality(Channels)

Grouped == Past /\ Unresolved /\ Room

\* A set of numbers has a least one: the least of the finite sets 0 .. n.
LEMMA LeastNatural ==
    ASSUME NEW S, S \subseteq Nat, S # {}
    PROVE  \E a \in S : \A b \in S : a <= b
<1> DEFINE T == {0 .. n : n \in S}
<1>1. T \subseteq FiniteSubsetsOf(Nat) /\ T # {}
  <2>1. \A n \in S : IsFiniteSet(0 .. n)
    BY FS_Interval
  <2>2. \A n \in S : 0 .. n \in SUBSET Nat
    OBVIOUS
  <2> QED
    BY <2>1, <2>2 DEF FiniteSubsetsOf
<1> HIDE DEF T
<1>2. PICK x \in T : \A y \in T : ~ (<<y, x>> \in StrictSubsetOrdering(Nat))
  BY <1>1, WFMin, FS_StrictSubsetOrderingWellFounded
<1>3. PICK a \in S : x = 0 .. a
  BY DEF T
<1>4. ASSUME NEW b \in S, b < a
      PROVE  FALSE
  <2>1. 0 .. b \in T
    BY DEF T
  <2>2. 0 .. b \subseteq 0 .. a /\ 0 .. b # 0 .. a /\ 0 .. b \in SUBSET Nat /\ 0 .. a \in SUBSET Nat
    <3>1. a \in 0 .. a /\ a \notin 0 .. b
      BY <1>4
    <3>2. 0 .. b \subseteq 0 .. a
      BY <1>4
    <3> QED
      BY <3>1, <3>2
  <2>3. <<0 .. b, 0 .. a>> \in StrictSubsetOrdering(Nat)
    BY <2>2 DEF StrictSubsetOrdering
  <2> QED
    BY <1>2, <1>3, <2>1, <2>3
<1>5. \A b \in S : a \in Nat /\ b \in Nat
  OBVIOUS
<1> QED
  BY <1>4, <1>5

\* Where some case is current, one is the newest.
LEMMA SomeNewest ==
    ASSUME Inv, Past, NEW t, Newest(t) = {}
    PROVE  Current(t) = {}
<1> SUFFICES ASSUME Current(t) # {} PROVE FALSE
  OBVIOUS
<1> DEFINE Ages == {now - cases[c].at : c \in Current(t)}
<1>1. \A c \in Current(t) : c \in DOMAIN cases /\ cases[c].at \in Nat /\ cases[c].at <= now
  BY Parts DEF Current, Past
<1>2. Ages \subseteq Nat /\ Ages # {} /\ now \in Nat
  BY <1>1, Parts
<1> HIDE DEF Ages
<1>3. PICK a \in Ages : \A b \in Ages : a <= b
  BY <1>2, LeastNatural
<1>5. PICK c \in Current(t) : a = now - cases[c].at
  BY DEF Ages
<1>6. \A d \in Current(t) : cases[d].at <= cases[c].at
  <2> TAKE d \in Current(t)
  <2>1. now - cases[d].at \in Ages
    BY DEF Ages
  <2>2. now - cases[c].at <= now - cases[d].at
    BY <1>3, <1>5, <2>1
  <2> QED
    BY <1>1, <1>2, <2>2
<1> QED
  BY <1>5, <1>6 DEF Newest

-----------------------------------------------------------------------------
(* The cases of one window *)

\* A step that opens no case: times stay, and what is not resolved is open.
CasesKeep ==
    /\ DOMAIN cases' = DOMAIN cases
    /\ \A c \in DOMAIN cases :
          /\ cases'[c].at = cases[c].at /\ (cases[c].resolved => cases'[c].resolved)
          /\ cases'[c].resolved \/ (cases'[c].status = cases[c].status /\ ~cases[c].resolved)
             \/ cases'[c].status \in OpenStatuses
SignalsKeep ==
    /\ now <= now' /\ now' \in Nat
    /\ DOMAIN signals \subseteq DOMAIN signals'
    /\ \A x \in DOMAIN signals : signals'[x] = signals[x]
    /\ \A x \in DOMAIN signals' \ DOMAIN signals : signals'[x].at <= now'
\* ... and lets no message go on to open one.
NoneOpens == \A ch \in Channels : At(ch, "open")' => At(ch, "open")

LEMMA FreshFinite ==
    ASSUME Inv, IsFiniteSet(Channels)
    PROVE  /\ IsFiniteSet(Fresh) /\ Cardinality(Fresh) \in Nat
           /\ IsFiniteSet(Opening) /\ Cardinality(Opening) \in Nat
           /\ Cardinality(Channels) \in Nat
<1>1. Len(cases) \in Nat /\ DOMAIN cases = 1 .. Len(cases)
  BY Parts, LengthOf
<1>2. IsFiniteSet(DOMAIN cases)
  BY <1>1, FS_Interval
<1>3. Fresh \subseteq DOMAIN cases /\ Opening \subseteq Channels
  BY DEF Fresh, Opening
<1> QED
  BY <1>2, <1>3, FS_Subset, FS_CardinalityType

LEMMA GroupedStays ==
    ASSUME IsFiniteSet(Channels), Inv, Inv', Grouped, CasesKeep, SignalsKeep, NoneOpens
    PROVE  Grouped'
<1>1. Past'
  <2>1. \A c \in DOMAIN cases' : cases'[c].at <= now'
    <3> TAKE c \in DOMAIN cases'
    <3>1. c \in DOMAIN cases /\ cases'[c].at = cases[c].at /\ cases[c].at <= now /\ cases[c].at \in Nat
      BY Parts DEF CasesKeep, Grouped, Past
    <3> QED
      BY <3>1, Parts DEF SignalsKeep
  <2>2. \A x \in DOMAIN signals' : signals'[x].at <= now'
    <3> TAKE x \in DOMAIN signals'
    <3>1. CASE x \in DOMAIN signals
      <4>1. signals'[x].at = signals[x].at /\ signals[x].at <= now /\ signals[x].at \in Nat
        BY <3>1, Parts DEF SignalsKeep, Grouped, Past
      <4> QED
        BY <4>1, Parts DEF SignalsKeep
    <3>2. CASE x \notin DOMAIN signals
      BY <3>2 DEF SignalsKeep
    <3> QED
      BY <3>1, <3>2
  <2> QED
    BY <2>1, <2>2 DEF Past
<1>2. Unresolved'
  <2> SUFFICES ASSUME NEW c \in DOMAIN cases'
               PROVE  cases'[c].resolved \/ cases'[c].status \in OpenStatuses
    BY DEF Unresolved
  <2> QED
    BY DEF CasesKeep, Grouped, Unresolved
<1>3. Room'
  <2>1. Fresh' \subseteq Fresh
    <3> SUFFICES ASSUME NEW c \in Fresh' PROVE c \in Fresh
      OBVIOUS
    <3>1. c \in DOMAIN cases /\ ~cases[c].resolved /\ cases'[c].at = cases[c].at
          /\ ~(cases'[c].at < now' - Grouping)
      BY DEF Fresh, Old, CasesKeep, SignalsKeep
    <3>2. cases[c].at \in Nat /\ now <= now' /\ now' \in Nat
      BY <3>1, Parts DEF SignalsKeep
    <3>3. ~(cases[c].at < now - Grouping)
      BY <3>1, <3>2, Parts
    <3> QED
      BY <3>1, <3>3 DEF Fresh, Old
  <2>2. Opening' \subseteq Opening
    BY DEF Opening, NoneOpens
  <2>3. Cardinality(Fresh') <= Cardinality(Fresh) /\ Cardinality(Opening') <= Cardinality(Opening)
    BY <2>1, <2>2, FreshFinite, FS_Subset
  <2>4. Cardinality(Fresh') \in Nat /\ Cardinality(Opening') \in Nat
    BY <2>1, <2>2, FreshFinite, FS_Subset, FS_CardinalityType
  <2> QED
    BY <2>3, <2>4, FreshFinite DEF Grouped, Room
<1> QED
  BY <1>1, <1>2, <1>3 DEF Grouped

LEMMA SameCases == UNCHANGED cases => CasesKeep
BY DEF CasesKeep
LEMMA SameSignals == ASSUME Inv, UNCHANGED <<now, signals>> PROVE SignalsKeep
BY Parts DEF SignalsKeep

\* The step of one message.
LEMMA OthersDoNotOpen ==
    ASSUME Inv, NEW ch \in Channels, NEW m, message' = [message EXCEPT ![ch] = m],
           m = Idle \/ m.pc # "open"
    PROVE  NoneOpens
<1> SUFFICES ASSUME NEW d \in Channels, At(d, "open")'
             PROVE  At(d, "open")
  BY DEF NoneOpens
<1>1. message'[d] # Idle /\ message'[d].pc = "open"
  BY DEF At
<1>2. d # ch
  BY <1>1, Parts
<1>3. message'[d] = message[d]
  BY <1>2, Parts
<1> QED
  BY <1>1, <1>3 DEF At

LEMMA SameMessages == UNCHANGED message => NoneOpens
BY DEF NoneOpens, At

\* A case row that is written keeps its time.
LEMMA OneCaseWritten ==
    ASSUME Inv, Grouped, NEW c \in DOMAIN cases, NEW r, cases' = [cases EXCEPT ![c] = r],
           r.at = cases[c].at, cases[c].resolved => r.resolved,
           \/ r.resolved \/ r.status \in OpenStatuses
    PROVE  CasesKeep
<1>1. DOMAIN cases' = DOMAIN cases
  BY Parts
<1>2. \A d \in DOMAIN cases : cases'[d] = IF d = c THEN r ELSE cases[d]
  BY Parts
<1>3. \A d \in DOMAIN cases : cases[d].resolved \/ cases[d].status \in OpenStatuses
  BY DEF Grouped, Unresolved
<1> QED
  BY <1>1, <1>2, <1>3 DEF CasesKeep

LEMMA PanelGroups ==
    ASSUME IsFiniteSet(Channels), Inv, Inv', Grouped, NEW ch \in Channels,
           \/ \E k \in Kinds : Report(ch, k)
           \/ \E r \in DOMAIN reports : Retransmit(ch, r)
    PROVE  Grouped'
<1>1. PICK r : Send(ch, r)
  BY DEF Report, Retransmit
<1> DEFINE m == [pc |-> "store", report |-> r, signal |-> Null, case |-> Null]
<1>2. message' = [message EXCEPT ![ch] = m] /\ UNCHANGED <<now, signals, cases>> /\ m.pc # "open"
  BY <1>1 DEF Send, station
<1> QED
  BY <1>2, SameCases, SameSignals, OthersDoNotOpen, GroupedStays

LEMMA StoreGroups == ASSUME IsFiniteSet(Channels), Inv, Inv', Grouped, NEW ch \in Channels, StoreSignal(ch) PROVE Grouped'
<1> DEFINE m == [message[ch] EXCEPT !.pc = "dup", !.signal = Len(signals) + 1]
<1>1. message' = [message EXCEPT ![ch] = m] /\ UNCHANGED <<now, cases>>
      /\ signals' = Append(signals, [report |-> message[ch].report, at |-> now])
  BY Parts DEF StoreSignal
<1>2. message[ch] \in Message
  BY InPipelineFacts DEF StoreSignal, Steps, Sound
<1>3. m.pc # "open"
  BY <1>2 DEF Message
<1>4. SignalsKeep
  <2>1. /\ DOMAIN signals' = DOMAIN signals \cup {Len(signals) + 1}
        /\ signals'[Len(signals) + 1] = [report |-> message[ch].report, at |-> now]
        /\ \A x \in DOMAIN signals : signals'[x] = signals[x]
    BY <1>1, Parts
  <2> QED
    BY <1>1, <2>1, Parts DEF SignalsKeep
<1> QED
  BY <1>1, <1>3, <1>4, SameCases, OthersDoNotOpen, GroupedStays

\* Where the message goes from here.
LEMMA Moved ==
    ASSUME Inv, NEW ch \in Channels, message[ch] # Idle, NEW pc, Goto(ch, pc)
    PROVE  /\ message' = [message EXCEPT ![ch] = [message[ch] EXCEPT !.pc = pc]]
           /\ message'[ch].pc = pc /\ message'[ch].signal = message[ch].signal
           /\ message'[ch].report = message[ch].report /\ message'[ch].case = message[ch].case
           /\ [message[ch] EXCEPT !.pc = pc].pc = pc /\ message'[ch] # Idle
           /\ \A d \in Channels \ {ch} : message'[d] = message[d]
<1>1. message[ch] \in Message
  BY DEF Inv, Messages, Sound
<1>2. message' = [message EXCEPT ![ch] = [message[ch] EXCEPT !.pc = pc]]
  BY Parts DEF Goto
<1> DEFINE m == [message[ch] EXCEPT !.pc = pc]
<1>3. m.pc = pc /\ m.signal = message[ch].signal /\ m.report = message[ch].report /\ m.case = message[ch].case
  BY <1>1 DEF Message
<1>4. m # Idle
  <2>1. DOMAIN m = DOMAIN message[ch] /\ "report" \in DOMAIN message[ch]
    BY <1>1 DEF Message
  <2>2. "report" \notin DOMAIN Idle
    BY DEF Idle
  <2> QED
    BY <2>1, <2>2
<1> HIDE DEF m
<1>5. message'[ch] = m /\ \A d \in Channels \ {ch} : message'[d] = message[d]
  BY <1>2, Parts DEF m
<1> QED
  BY <1>2, <1>3, <1>4, <1>5 DEF m

\* A message opens a case where the search found none: all are old.
LEMMA NoneCurrent ==
    ASSUME Inv, Grouped, NEW t \in Nat, Newest(t) = {}
    PROVE  \A c \in DOMAIN cases : Old(c, t)
<1>1. Current(t) = {}
  BY SomeNewest DEF Grouped
<1> SUFFICES ASSUME NEW c \in DOMAIN cases PROVE Old(c, t)
  OBVIOUS
<1>2. ~Open(c, t)
  BY <1>1 DEF Current
<1>3. cases[c].at \in Nat /\ Grouping \in Nat
  BY Parts
<1>4. CASE cases[c].status \notin OpenStatuses
  BY <1>4 DEF Grouped, Unresolved, Old
<1>5. CASE ~(cases[c].at >= t - Grouping)
  BY <1>3, <1>5 DEF Old
<1> QED
  BY <1>2, <1>4, <1>5 DEF Open

LEMMA FindGroups ==
    ASSUME IsFiniteSet(Channels), Inv, Inv', Grouped, NEW ch \in Channels, FindOpenCase(ch)
    PROVE  Grouped'
<1> DEFINE x == message[ch].signal
           k == SignalOf(x)
           joined(c) == [message[ch] EXCEPT !.case = c,
                          !.pc = IF k \in CaseKinds /\ Urgency[k] < cases[c].priority
                                 THEN "raise" ELSE "event"]
<1>1. message[ch] \in Message /\ message[ch] # Idle /\ x \in DOMAIN signals
  BY InPipelineFacts DEF FindOpenCase, Steps, Sound, At
<1>2. UNCHANGED <<now, signals, cases>>
  BY DEF FindOpenCase, station
<1>3. CasesKeep /\ SignalsKeep
  BY <1>2, SameCases, SameSignals
<1>4. CASE \E c \in Newest(signals[x].at) : message' = [message EXCEPT ![ch] = joined(c)]
  <2>1. PICK c : message' = [message EXCEPT ![ch] = joined(c)]
    BY <1>4
  <2>2. joined(c).pc # "open"
    BY <1>1 DEF Message
  <2> HIDE DEF joined
  <2> QED
    BY <1>3, <2>1, <2>2, OthersDoNotOpen, GroupedStays
<1>5. CASE Newest(signals[x].at) = {} /\ Goto(ch, IF k \in CaseKinds THEN "open" ELSE "event")
  <2>1. signals[x].at \in Nat
    BY <1>1, Parts
  <2>2. \A c \in DOMAIN cases : Old(c, signals[x].at)
    BY <1>5, <2>1, NoneCurrent
  <2>3. PICK pc : Goto(ch, pc)
    BY <1>5
  <2>4. Fresh = {}
    <3> SUFFICES ASSUME NEW c \in DOMAIN cases PROVE Old(c, now)
      BY DEF Fresh
    <3>1. signals[x].at <= now /\ cases[c].at \in Nat
      BY <1>1, Parts DEF Grouped, Past
    <3> QED
      BY <2>1, <2>2, <3>1, Parts DEF Old
  <2>5. Room'
    <3>1. Fresh' = {}
      BY <1>2, <2>4 DEF Fresh, Old
    <3>2. Opening' \subseteq Channels
      BY DEF Opening
    <3>3. /\ Cardinality(Opening') <= Cardinality(Channels)
          /\ Cardinality(Opening') \in Nat /\ Cardinality(Fresh') = 0
      BY <3>1, <3>2, FS_Subset, FS_CardinalityType, FS_EmptySet
    <3> QED
      BY <3>3, FreshFinite DEF Room
  <2> QED
    BY <1>2, <2>5 DEF Grouped, Past, Unresolved
<1> QED
  BY <1>4, <1>5 DEF FindOpenCase

\* The case that is opened takes the room of the message that opens it.
LEMMA OpenGroups ==
    ASSUME IsFiniteSet(Channels), Inv, Inv', Grouped, NEW ch \in Channels, OpenCase(ch)
    PROVE  Grouped'
<1> DEFINE x == message[ch].signal
           k == SignalOf(x)
           row == [status |-> "queued", priority |-> Urgency[k], kind |-> k,
                   at |-> now, sla |-> 0, resolved |-> FALSE]
           m == [message[ch] EXCEPT !.pc = "event", !.case = Len(cases) + 1]
           n == Len(cases) + 1
<1>1. message[ch] \in Message /\ message[ch] # Idle /\ x \in DOMAIN signals /\ At(ch, "open")
  BY InPipelineFacts DEF OpenCase, Steps, Sound, At
<1>2. cases' = Append(cases, row) /\ message' = [message EXCEPT ![ch] = m] /\ UNCHANGED <<now, signals>>
  BY Parts DEF OpenCase
<1>3. m.pc # "open"
  BY <1>1 DEF Message
<1>4. row.at = now /\ row.resolved = FALSE /\ row.status \in OpenStatuses
  BY DEF OpenStatuses
<1> HIDE DEF row, m
<1>5. /\ DOMAIN cases' = DOMAIN cases \cup {n} /\ n \notin DOMAIN cases
      /\ cases'[n] = row /\ \A c \in DOMAIN cases : cases'[c] = cases[c]
  BY <1>2, Parts
<1> HIDE DEF n
<1>7. Past'
  <2>1. now <= now
    BY Parts
  <2> QED
    BY <1>2, <1>4, <1>5, <2>1 DEF Grouped, Past
<1>8. Unresolved'
  BY <1>4, <1>5 DEF Grouped, Unresolved
<1>9. Room'
  <2>1. Fresh' \subseteq Fresh \cup {n} /\ n \notin Fresh
    BY <1>2, <1>5 DEF Fresh, Old
  <2>2. ch \in Opening /\ Opening' \subseteq Opening \ {ch}
    <3> SUFFICES ASSUME NEW d \in Channels, At(d, "open")' PROVE d # ch /\ At(d, "open")
      BY <1>1 DEF Opening
    <3>1. d # ch
      BY <1>2, <1>3, Parts DEF At
    <3> QED
      BY <1>2, <3>1, Parts DEF At
  <2>3. /\ IsFiniteSet(Fresh \cup {n}) /\ Cardinality(Fresh \cup {n}) = Cardinality(Fresh) + 1
        /\ IsFiniteSet(Opening \ {ch}) /\ Cardinality(Opening \ {ch}) = Cardinality(Opening) - 1
    BY <2>1, <2>2, FreshFinite, FS_AddElement, FS_RemoveElement
  <2>4. /\ Cardinality(Fresh') <= Cardinality(Fresh) + 1
        /\ Cardinality(Opening') <= Cardinality(Opening) - 1
        /\ Cardinality(Fresh') \in Nat /\ Cardinality(Opening') \in Nat
    BY <2>1, <2>2, <2>3, FS_Subset, FS_CardinalityType
  <2> QED
    BY <2>4, FreshFinite DEF Grouped, Room
<1> QED
  BY <1>7, <1>8, <1>9 DEF Grouped

\* The steps of a message that open no case.
LEMMA GotoGroups ==
    ASSUME IsFiniteSet(Channels), Inv, Inv', Grouped, NEW ch \in Channels, message[ch] # Idle, NEW pc, pc # "open", Goto(ch, pc),
           CasesKeep, UNCHANGED <<now, signals>>
    PROVE  Grouped'
<1> DEFINE m == [message[ch] EXCEPT !.pc = pc]
<1>1. message' = [message EXCEPT ![ch] = m] /\ m.pc = pc
  BY Moved
<1> HIDE DEF m
<1> QED
  BY <1>1, SameSignals, OthersDoNotOpen, GroupedStays

LEMMA MessageGroups ==
    ASSUME IsFiniteSet(Channels), Inv, Inv', Grouped, NEW ch \in Channels,
           CheckRunaway(ch) \/ RaiseCase(ch) \/ AddEvent(ch) \/ Acknowledge(ch) \/ IngestFails(ch)
    PROVE  Grouped'
<1>1. CASE CheckRunaway(ch)
  <2>1. message[ch] # Idle /\ CasesKeep /\ UNCHANGED <<now, signals>>
    BY <1>1, SameCases DEF CheckRunaway, At, station
  <2>2. \E pc \in {"ack", "find"} : Goto(ch, pc)
    BY <1>1 DEF CheckRunaway
  <2> QED
    BY <2>1, <2>2, GotoGroups
<1>2. CASE RaiseCase(ch)
  <2> DEFINE c == message[ch].case
             p == Urgency[SignalOf(message[ch].signal)]
             r == [cases[c] EXCEPT !.priority = p]
  <2>1. Sound(message[ch], reports, signals, cases) /\ message[ch] # Idle /\ message[ch].pc = "raise"
    BY <1>2, InPipelineFacts DEF RaiseCase, Steps, At
  <2>2. c \in DOMAIN cases
    BY <2>1 DEF Sound
  <2>3. cases' = [cases EXCEPT ![c] = r] /\ UNCHANGED <<now, signals>> /\ Goto(ch, "event")
    BY <1>2, Parts DEF RaiseCase
  <2>4. r.at = cases[c].at /\ r.resolved = cases[c].resolved /\ r.status = cases[c].status
    BY <2>2, Parts DEF Case
  <2>5. cases[c].resolved \/ cases[c].status \in OpenStatuses
    BY <2>2 DEF Grouped, Unresolved
  <2> HIDE DEF r, c
  <2>6. CasesKeep
    BY <2>2, <2>3, <2>4, <2>5, OneCaseWritten
  <2> QED
    BY <2>1, <2>3, <2>6, GotoGroups
<1>3. CASE AddEvent(ch)
  <2>1. message[ch] # Idle /\ CasesKeep /\ UNCHANGED <<now, signals>> /\ Goto(ch, "ack")
    BY <1>3, SameCases DEF AddEvent, At
  <2> QED
    BY <2>1, GotoGroups
<1>4. CASE Acknowledge(ch) \/ IngestFails(ch)
  <2>1. message' = [message EXCEPT ![ch] = Idle] /\ UNCHANGED <<now, signals, cases>>
    BY <1>4, Parts DEF Acknowledge, IngestFails, Return, station
  <2> QED
    BY <2>1, SameCases, SameSignals, OthersDoNotOpen, GroupedStays
<1> QED
  BY <1>1, <1>2, <1>3, <1>4

\* Operators and the sweep write columns that leave time and resolution standing.
LEMMA OperatorGroups ==
    ASSUME IsFiniteSet(Channels), Inv, Inv', Grouped, NEW c \in DOMAIN cases, NEW status \in Statuses, Operate(c, status)
    PROVE  Grouped'
<1> DEFINE done == cases[c].resolved \/ status \in {"resolved", "closed"}
           r == [cases[c] EXCEPT !.status = status, !.resolved = done]
<1>1. cases' = [cases EXCEPT ![c] = r] /\ UNCHANGED <<now, signals, message>>
  BY Parts DEF Operate
<1>2. r.at = cases[c].at /\ r.resolved = done /\ r.status = status
  BY Parts DEF Case
<1>3. (cases[c].resolved => done) /\ (done \/ status \in OpenStatuses)
  BY DEF Statuses
<1> HIDE DEF r, done
<1>4. CasesKeep
  BY <1>1, <1>2, <1>3, OneCaseWritten
<1> QED
  BY <1>1, <1>4, SameSignals, SameMessages, GroupedStays

LEMMA SweepGroups == ASSUME IsFiniteSet(Channels), Inv, Inv', Grouped, SweepScan \/ SweepWrite \/ SweepFails PROVE Grouped'
<1>1. UNCHANGED <<now, signals, message>>
  BY DEF SweepScan, SweepWrite, SweepFails, station
<1>2. CASE SweepScan \/ SweepFails
  <2>1. UNCHANGED cases
    BY <1>2 DEF SweepScan, SweepFails, station
  <2> QED
    BY <1>1, <2>1, SameCases, SameSignals, SameMessages, GroupedStays
<1>3. CASE SweepWrite
  <2>1. PICK o \in sweep :
          cases' = [cases EXCEPT ![o.case].sla = o.due,
                ![o.case].priority = IF Escalated(o.priority) = o.priority
                                     THEN @ ELSE Escalated(o.priority)]
    BY <1>3 DEF SweepWrite
  <2> DEFINE c == o.case
             p == IF Escalated(o.priority) = o.priority THEN cases[c].priority ELSE Escalated(o.priority)
             r == [cases[c] EXCEPT !.sla = o.due, !.priority = p]
  <2>2. c \in DOMAIN cases
    BY DEF Inv, Rows
  <2>3. cases' = [cases EXCEPT ![c] = r]
    BY <2>1, <2>2, Parts
  <2>4. r.at = cases[c].at /\ r.resolved = cases[c].resolved /\ r.status = cases[c].status
    <3> HIDE DEF p
    <3> QED
      BY <2>2, Parts DEF Case
  <2>5. cases[c].resolved \/ cases[c].status \in OpenStatuses
    BY <2>2 DEF Grouped, Unresolved
  <2> HIDE DEF r, c
  <2>6. CasesKeep
    BY <2>2, <2>3, <2>4, <2>5, OneCaseWritten
  <2> QED
    BY <1>1, <2>6, SameSignals, SameMessages, GroupedStays
<1> QED
  BY <1>2, <1>3

LEMMA TickGroups == ASSUME IsFiniteSet(Channels), Inv, Inv', Grouped, Tick PROVE Grouped'
<1>1. UNCHANGED <<signals, cases, message>> /\ now' = now + 1
  BY DEF Tick, station
<1>2. SignalsKeep
  BY <1>1, Parts DEF SignalsKeep
<1> QED
  BY <1>1, <1>2, SameCases, SameMessages, GroupedStays

LEMMA NextGroups == ASSUME IsFiniteSet(Channels), Inv, Grouped, [Next]_vars PROVE Grouped'
<1>0. Inv'
  BY NextInv
<1>1. ASSUME NEW ch \in Channels,
             \/ \E k \in Kinds : Report(ch, k)
             \/ \E r \in DOMAIN reports : Retransmit(ch, r)
             \/ Ingest(ch) \/ IngestFails(ch)
      PROVE  Grouped'
  BY <1>0, <1>1, PanelGroups, StoreGroups, FindGroups, OpenGroups, MessageGroups DEF Ingest
<1>2. ASSUME NEW c \in DOMAIN cases,
             TakeCase(c) \/ DispatchCase(c) \/ ResolveCase(c) \/ CloseCase(c)
      PROVE  Grouped'
  <2>1. PICK status \in Statuses : Operate(c, status)
    BY <1>2 DEF TakeCase, DispatchCase, ResolveCase, CloseCase, Statuses, OpenStatuses
  <2> QED
    BY <1>0, <2>1, OperatorGroups
<1>3. CASE UNCHANGED vars
  <2>1. UNCHANGED <<now, signals, cases, message>>
    BY <1>3 DEF vars, station
  <2> QED
    BY <1>0, <2>1, SameCases, SameSignals, SameMessages, GroupedStays
<1> QED
  BY <1>0, <1>1, <1>2, <1>3, SweepGroups, TickGroups DEF Next

LEMMA InitGroups == ASSUME IsFiniteSet(Channels), Init PROVE Grouped
<1>1. Fresh = {} /\ Opening = {}
  BY DEF Init, Fresh, Opening, At
<1> QED
  BY <1>1, FS_EmptySet, FS_CardinalityType DEF Init, Grouped, Past, Unresolved, Room

LEMMA FewCurrent == ASSUME IsFiniteSet(Channels), Inv, Grouped PROVE CasesPerChannel
<1> DEFINE C == {c \in Current(now) : ~cases[c].resolved}
<1>1. C \subseteq Fresh
  <2> SUFFICES ASSUME NEW c \in C PROVE c \in Fresh
    OBVIOUS
  <2>1. c \in DOMAIN cases /\ cases[c].at >= now - Grouping /\ ~cases[c].resolved
    BY DEF Current, Open
  <2> QED
    BY <2>1, Parts DEF Fresh, Old
<1>2. Cardinality(C) <= Cardinality(Fresh) /\ Cardinality(C) \in Nat
  BY <1>1, FreshFinite, FS_Subset, FS_CardinalityType
<1> HIDE DEF C
<1>3. Cardinality(C) <= Cardinality(Channels)
  BY <1>2, FreshFinite DEF Grouped, Room
<1> QED
  BY <1>3 DEF C, CasesPerChannel

-----------------------------------------------------------------------------
\* The signals of a grouping window are in no more cases than there are channels, and on
\* one channel in one, whatever operators and sweep do and wherever the pipeline fails
\* (findOpenCase).
THEOREM FewCasesPerWindow == IsFiniteSet(Channels) => (Spec => []CasesPerChannel)
<1> SUFFICES ASSUME IsFiniteSet(Channels) PROVE Spec => []CasesPerChannel
  OBVIOUS
<1>1. Inv /\ Grouped /\ [Next]_vars => Inv' /\ Grouped'
  BY NextInv, NextGroups
<1>2. Init => Inv /\ Grouped
  BY InitInv, InitGroups
<1>3. Inv /\ Grouped => CasesPerChannel
  BY FewCurrent
<1> QED
  BY <1>1, <1>2, <1>3, PTL DEF Spec

-----------------------------------------------------------------------------
(* A stored alarm is in a case, or in the burst of a row that is *)

Kept(x)   == InCase(x) \/ Lost(x) \/ \E ch \in Channels : Handles(ch, x)
Rooted(x) == \E y \in 1 .. x : Began(y, x) /\ Kept(y)

\* Every row has the row its burst began with; rows are stored in the order of their times;
\* and an alarm's message knows the case before it writes the event.
Bursts  == \A x \in DOMAIN signals : Rooted(x)
Ordered ==
    \A x \in DOMAIN signals : /\ signals[x].at <= now
                              /\ \A y \in 1 .. x : signals[y].at <= signals[x].at
Knows   == \A ch \in Channels :
    At(ch, "event") /\ SignalOf(message[ch].signal) \in CaseKinds => message[ch].case # Null
Filed   == Bursts /\ Ordered /\ Knows

\* A step keeps the rows that are stored, with their codes, events and histories.
RowsStay ==
    /\ DOMAIN signals \subseteq DOMAIN signals' /\ events \subseteq events'
    /\ cut \subseteq cut' /\ crossed \subseteq crossed'
    /\ \A x \in DOMAIN signals : signals'[x] = signals[x] /\ SignalOf(x)' = SignalOf(x)

LEMMA Stack ==
    ASSUME Inv
    PROVE  /\ Len(signals) \in Nat /\ DOMAIN signals = 1 .. Len(signals)
           /\ \A x \in DOMAIN signals : x \in Nat /\ x \in 1 .. x /\ 1 .. x \subseteq DOMAIN signals
BY Parts, LengthOf

LEMMA SameRowsStay ==
    ASSUME Inv, UNCHANGED signals, events \subseteq events',
           cut \subseteq cut', crossed \subseteq crossed',
           \A r \in DOMAIN reports : reports'[r] = reports[r]
    PROVE  RowsStay
BY Parts DEF RowsStay, SignalOf, KindOf

LEMMA RepeatsStay ==
    ASSUME Inv, RowsStay, NEW x \in DOMAIN signals
    PROVE  Repeats(x)' = Repeats(x)
<1>1. 1 .. x - 1 \subseteq DOMAIN signals
  BY Stack
<1>2. \A y \in 1 .. x - 1 : /\ signals'[y] = signals[y] /\ SignalOf(y)' = SignalOf(y)
  BY <1>1 DEF RowsStay
<1>3. signals'[x] = signals[x] /\ SignalOf(x)' = SignalOf(x)
  BY DEF RowsStay
<1> QED
  BY <1>2, <1>3 DEF Repeats

LEMMA BeganStays ==
    ASSUME Inv, RowsStay, NEW x \in DOMAIN signals, NEW y \in 1 .. x, Began(y, x)
    PROVE  Began(y, x)'
<1>1. y \in DOMAIN signals /\ y + 1 .. x \subseteq DOMAIN signals
  BY Stack
<1>2. \A z \in DOMAIN signals : SignalOf(z)' = SignalOf(z) /\ Repeats(z)' = Repeats(z)
  BY RepeatsStay DEF RowsStay
<1>3. Code[SignalOf(y)'] = Code[SignalOf(x)']
  BY <1>1, <1>2 DEF Began
<1>4. ASSUME NEW z \in y + 1 .. x, Code[SignalOf(z)'] = Code[SignalOf(x)']
      PROVE  Repeats(z)' # {}
  BY <1>1, <1>2, <1>4 DEF Began
<1> QED
  BY <1>3, <1>4 DEF Began

\* A burst that began with y, one of a burst that began with r, began with r.
LEMMA BeganBefore ==
    ASSUME NEW x \in Nat, NEW y \in 1 .. x, NEW r \in 1 .. y, Began(y, x), Began(r, y)
    PROVE  r \in 1 .. x /\ Began(r, x)
<1>1. Code[SignalOf(r)] = Code[SignalOf(x)] /\ Code[SignalOf(y)] = Code[SignalOf(x)]
  BY DEF Began
<1>2. ASSUME NEW z \in r + 1 .. x, Code[SignalOf(z)] = Code[SignalOf(x)]
      PROVE  Repeats(z) # {}
  <2>1. CASE z \in r + 1 .. y
    BY <1>1, <1>2, <2>1 DEF Began
  <2>2. CASE z \in y + 1 .. x
    BY <1>2, <2>2 DEF Began
  <2> QED
    BY <2>1, <2>2
<1> QED
  BY <1>1, <1>2 DEF Began

\* A step after which each row that was kept has a beginning leaves each row with one.
LEMMA BurstsStay ==
    ASSUME Inv, Inv', Bursts, RowsStay, NEW x \in DOMAIN signals,
           \A y \in DOMAIN signals : Kept(y) => Rooted(y)'
    PROVE  Rooted(x)'
<1>1. PICK y \in 1 .. x : Began(y, x) /\ Kept(y)
  BY DEF Bursts, Rooted
<1>2. y \in DOMAIN signals /\ x \in Nat
  BY Stack
<1>3. PICK r \in 1 .. y : Began(r, y)' /\ Kept(r)'
  BY <1>1, <1>2 DEF Rooted
<1>4. Began(y, x)'
  BY <1>1, BeganStays
<1>5. r \in 1 .. x /\ Began(r, x)'
  <2>1. ASSUME NEW u \in 1 .. x, NEW q \in 1 .. u, Began(u, x)', Began(q, u)'
        PROVE  q \in 1 .. x /\ Began(q, x)'
    <3>1. Code[SignalOf(q)'] = Code[SignalOf(x)'] /\ Code[SignalOf(u)'] = Code[SignalOf(x)']
      BY <2>1 DEF Began
    <3>2. ASSUME NEW z \in q + 1 .. x, Code[SignalOf(z)'] = Code[SignalOf(x)']
          PROVE  Repeats(z)' # {}
      <4>1. CASE z \in q + 1 .. u
        BY <2>1, <3>1, <3>2, <4>1 DEF Began
      <4>2. CASE z \in u + 1 .. x
        BY <2>1, <3>2, <4>2 DEF Began
      <4> QED
        BY <1>2, <4>1, <4>2
    <3> QED
      BY <1>2, <3>1, <3>2 DEF Began
  <2> QED
    BY <1>3, <1>4, <2>1
<1> QED
  BY <1>3, <1>5 DEF Rooted

\* What stays kept.
LEMMA KeptStays ==
    ASSUME RowsStay, NEW y \in DOMAIN signals, Kept(y),
           \A ch \in Channels : Handles(ch, y) => Kept(y)'
    PROVE  Kept(y)'
<1>1. CASE InCase(y)
  BY <1>1 DEF Kept, InCase, RowsStay
<1>2. CASE Lost(y)
  <2>1. SignalOf(y)' = SignalOf(y)
    BY DEF RowsStay
  <2>2. Lost(y)'
    BY <1>2, <2>1 DEF Lost, RowsStay, CaseKinds
  <2> QED
    BY <2>2 DEF Kept
<1> QED
  BY <1>1, <1>2 DEF Kept

\* A step of one message that stores nothing.
LEMMA MessageFiles ==
    ASSUME Inv, Inv', Filed, RowsStay, NEW ch \in Channels, UNCHANGED <<now, signals>>,
           \A d \in Channels \ {ch} : message'[d] = message[d],
           \A y \in DOMAIN signals : Handles(ch, y) => Rooted(y)',
           At(ch, "event")' /\ SignalOf(message[ch].signal)' \in CaseKinds => message'[ch].case # Null
    PROVE  Filed'
<1>1. \A y \in DOMAIN signals : Kept(y) => Rooted(y)'
  <2> TAKE y \in DOMAIN signals
  <2> HAVE Kept(y)
  <2>1. CASE Handles(ch, y)
    BY <2>1
  <2>2. CASE ~Handles(ch, y)
    <3>1. \A d \in Channels : Handles(d, y) => Kept(y)'
      <4> TAKE d \in Channels
      <4> HAVE Handles(d, y)
      <4>1. d # ch /\ message'[d] = message[d]
        BY <2>2
      <4>2. Handles(d, y)'
        BY <4>1 DEF Handles
      <4> QED
        BY <4>2 DEF Kept
    <3>2. Kept(y)' /\ y \in DOMAIN signals'
      BY <3>1, KeptStays
    <3>3. \E z \in 1 .. y : Began(z, y)' /\ Kept(z)'
      <4>1. y \in 1 .. y /\ \A z \in y + 1 .. y : FALSE
        BY Stack
      <4>2. Began(y, y)'
        BY <4>1 DEF Began
      <4> QED
        BY <3>2, <4>1, <4>2
    <3> QED
      BY <3>3 DEF Rooted
  <2> QED
    BY <2>1, <2>2
<1>2. Bursts'
  <2>1. \A x \in DOMAIN signals : Rooted(x)'
    BY <1>1, BurstsStay DEF Filed
  <2> QED
    BY <2>1 DEF Bursts
<1>3. Ordered'
  BY DEF Filed, Ordered
<1>4. Knows'
  <2> SUFFICES ASSUME NEW d \in Channels, At(d, "event")', SignalOf(message[d].signal)' \in CaseKinds
               PROVE  message'[d].case # Null
    BY DEF Knows, CaseKinds
  <2>1. CASE d = ch
    BY <2>1
  <2>2. CASE d # ch
    <3>1. message'[d] = message[d] /\ At(d, "event")
      BY <2>2 DEF At
    <3>2. message[d].signal \in DOMAIN signals
      BY <3>1, InPipelineFacts DEF Steps, Sound
    <3>3. SignalOf(message[d].signal) \in CaseKinds
      <4>1. SignalOf(message[d].signal)' = SignalOf(message[d].signal)
        BY <3>1, <3>2 DEF RowsStay, SignalOf, KindOf
      <4> QED
        BY <3>1, <4>1
    <3> QED
      BY <3>1, <3>3 DEF Filed, Knows
  <2> QED
    BY <2>1, <2>2
<1> QED
  BY <1>2, <1>3, <1>4 DEF Filed

LEMMA StillHandled ==
    ASSUME NEW ch \in Channels, NEW x, Handles(ch, x), message'[ch] # Idle,
           message'[ch].pc \notin {"store", "ack"}, message'[ch].signal = message[ch].signal
    PROVE  Kept(x)'
BY DEF Handles, Kept

LEMMA KeptIsRootedNext == ASSUME Inv', NEW x \in DOMAIN signals', Kept(x)' PROVE Rooted(x)'
<1>1. signals' \in Seq([report : DOMAIN reports', at : 0 .. Horizon])
  BY DEF Inv, Rows
<1>2. x \in 1 .. x /\ \A z \in x + 1 .. x : FALSE
  BY <1>1
<1>3. Began(x, x)'
  BY <1>2 DEF Began
<1> QED
  BY <1>2, <1>3 DEF Rooted

LEMMA PanelFiles ==
    ASSUME Inv, Inv', Filed, NEW ch \in Channels,
           \/ \E k \in Kinds : Report(ch, k)
           \/ \E r \in DOMAIN reports : Retransmit(ch, r)
    PROVE  Filed'
<1>1. PICK r : Send(ch, r)
  BY DEF Report, Retransmit
<1> DEFINE m == [pc |-> "store", report |-> r, signal |-> Null, case |-> Null]
<1>2. message' = [message EXCEPT ![ch] = m] /\ UNCHANGED <<now, signals, events, history>>
      /\ m.pc = "store" /\ message[ch] = Idle
  BY <1>1 DEF Send, station
<1> HIDE DEF m
<1>3. message'[ch] = m /\ \A d \in Channels \ {ch} : message'[d] = message[d]
  BY <1>2, Parts
<1>4. \A q \in DOMAIN reports : reports'[q] = reports[q]
  <2>1. CASE \E k \in Kinds : Report(ch, k)
    BY <2>1 DEF Report, Inv, Rows
  <2>2. CASE UNCHANGED reports
    BY <2>2
  <2> QED
    BY <2>1, <2>2 DEF Retransmit
<1>5. RowsStay
  BY <1>2, <1>4, SameRowsStay DEF history
<1>6. ~At(ch, "event")' /\ \A y : ~Handles(ch, y)
  BY <1>2, <1>3 DEF At, Handles
<1> QED
  BY <1>2, <1>3, <1>5, <1>6, MessageFiles

\* The signal that is stored is handled, and it is the last.
LEMMA StoreFiles ==
    ASSUME Inv, Inv', Filed, NEW ch \in Channels, StoreSignal(ch)
    PROVE  Filed'
<1> DEFINE n == Len(signals) + 1
           m == [message[ch] EXCEPT !.pc = "dup", !.signal = n]
           row == [report |-> message[ch].report, at |-> now]
<1>1. message[ch] \in Message /\ message[ch] # Idle /\ message[ch].pc = "store"
  BY InPipelineFacts DEF StoreSignal, Steps, Sound, At
<1>2. message' = [message EXCEPT ![ch] = m] /\ UNCHANGED <<now, reports, events, history>>
      /\ signals' = Append(signals, row)
  BY Parts DEF StoreSignal
<1>3. m.pc = "dup" /\ m.signal = n /\ "report" \in DOMAIN m /\ "report" \notin DOMAIN Idle
  BY <1>1 DEF Message, Idle
<1>4. row.at = now
  OBVIOUS
<1> HIDE DEF m, row
<1>5. message'[ch] = m /\ m # Idle /\ \A d \in Channels \ {ch} : message'[d] = message[d]
  BY <1>2, <1>3, Parts
<1>6. /\ DOMAIN signals' = DOMAIN signals \cup {n} /\ n \notin DOMAIN signals /\ signals'[n] = row
      /\ \A x \in DOMAIN signals : signals'[x] = signals[x] /\ x < n /\ x \in Nat
      /\ n \in Nat /\ 1 .. n = DOMAIN signals \cup {n}
  BY <1>2, Parts, Stack
<1> HIDE DEF n
<1>7. RowsStay
  BY <1>2, <1>6, Parts DEF RowsStay, SignalOf, KindOf, history
<1>8. \A y \in DOMAIN signals : Kept(y) => Rooted(y)'
  <2> TAKE y \in DOMAIN signals
  <2> HAVE Kept(y)
  <2>1. \A d \in Channels : Handles(d, y) => Kept(y)'
    <3> TAKE d \in Channels
    <3> HAVE Handles(d, y)
    <3>1. d # ch
      BY <1>1 DEF Handles
    <3>2. message'[d] = message[d]
      BY <1>5, <3>1
    <3> QED
      BY <3>2 DEF Handles, Kept
  <2>2. Kept(y)'
    BY <1>7, <2>1, KeptStays
  <2> QED
    BY <1>6, <2>2, KeptIsRootedNext
<1>9. Bursts'
  <2> SUFFICES ASSUME NEW x \in DOMAIN signals' PROVE Rooted(x)'
    BY DEF Bursts
  <2>1. CASE x \in DOMAIN signals
    BY <1>7, <1>8, <2>1, BurstsStay DEF Filed
  <2>2. CASE x = n
    <3>1. Kept(x)'
      BY <1>3, <1>5, <2>2 DEF Kept, Handles
    <3> QED
      BY <3>1, KeptIsRootedNext
  <2> QED
    BY <1>6, <2>1, <2>2
<1>10. Ordered'
  <2>1. \A x \in DOMAIN signals : 1 .. x \subseteq DOMAIN signals
    BY Stack
  <2>2. now' = now /\ now <= now
    BY <1>2, Parts
  <2> SUFFICES ASSUME NEW x \in DOMAIN signals'
               PROVE  /\ signals'[x].at <= now' /\ \A y \in 1 .. x : signals'[y].at <= signals'[x].at
    BY DEF Ordered
  <2>3. CASE x \in DOMAIN signals
    BY <1>6, <2>1, <2>2, <2>3 DEF Filed, Ordered
  <2>4. CASE x = n
    <3>1. \A y \in DOMAIN signals : signals'[y].at <= now
      BY <1>6 DEF Filed, Ordered
    <3> QED
      BY <1>4, <1>6, <2>2, <2>4, <3>1
  <2> QED
    BY <1>6, <2>3, <2>4
<1>11. Knows'
  <2> SUFFICES ASSUME NEW d \in Channels, At(d, "event")', SignalOf(message[d].signal)' \in CaseKinds
               PROVE  message'[d].case # Null
    BY DEF Knows, CaseKinds
  <2>1. d # ch
    BY <1>3, <1>5 DEF At
  <2>2. message'[d] = message[d] /\ At(d, "event")
    BY <1>5, <2>1 DEF At
  <2>3. message[d].signal \in DOMAIN signals
    BY <2>2, InPipelineFacts DEF Steps, Sound
  <2>4. SignalOf(message[d].signal)' = SignalOf(message[d].signal)
    BY <1>7, <2>2, <2>3 DEF RowsStay, SignalOf, KindOf
  <2> QED
    BY <2>2, <2>4 DEF Filed, Knows
<1> QED
  BY <1>9, <1>10, <1>11 DEF Filed

\* A repeat is of the burst of an earlier row; one that only later rows suppress is crossed.
LEMMA RunawayFiles ==
    ASSUME Inv, Inv', Filed, NEW ch \in Channels, CheckRunaway(ch)
    PROVE  Filed'
<1>0. PICK x : x = message[ch].signal
  OBVIOUS
<1>1. message[ch] # Idle /\ message[ch].pc = "dup" /\ x \in DOMAIN signals
  BY <1>0, InPipelineFacts DEF CheckRunaway, Steps, Sound, At
<1>2. UNCHANGED <<now, reports, signals, events, cut>>
      /\ crossed' = crossed \cup {z \in {x} : Repeats(z) = {} /\ \E y \in Runaway(z) : y > z}
      /\ Goto(ch, IF Runaway(x) # {} THEN "ack" ELSE "find")
  BY <1>0 DEF CheckRunaway, station
<1>3. RowsStay
  BY <1>2, SameRowsStay
<1>4. PICK pc \in {"ack", "find"} : Goto(ch, pc) /\ (pc = "ack" <=> Runaway(x) # {})
  BY <1>2
<1>5. /\ message'[ch] # Idle /\ message'[ch].pc = pc /\ message'[ch].signal = x
      /\ \A d \in Channels \ {ch} : message'[d] = message[d]
  BY <1>0, <1>1, <1>4, Moved
<1>6. ASSUME pc = "ack", NEW z \in Repeats(x)
      PROVE  Rooted(x)'
  <2>1. /\ z \in 1 .. x - 1 /\ z \in DOMAIN signals /\ x \in Nat /\ z \in Nat
        /\ Code[SignalOf(z)] = Code[SignalOf(x)] /\ signals[z].at >= signals[x].at - RunawayWindow
    BY <1>1, Stack DEF Repeats
  <2>2. Began(z, x)
    <3> SUFFICES ASSUME NEW u \in z + 1 .. x, Code[SignalOf(u)] = Code[SignalOf(x)]
                 PROVE  z \in Repeats(u)
      BY <2>1 DEF Began
    <3>1. u \in DOMAIN signals /\ signals[u].at <= signals[x].at
      BY <1>1, <2>1, Stack DEF Filed, Ordered
    <3>2. signals[u].at \in Nat /\ signals[x].at \in Nat /\ signals[z].at \in Nat /\ RunawayWindow \in Nat
      BY <1>1, <2>1, <3>1, Parts, AlarmAssumption
    <3> QED
      BY <2>1, <3>1, <3>2 DEF Repeats
  <2>3. PICK r \in 1 .. z : Began(r, z) /\ Kept(r)
    BY <2>1 DEF Filed, Bursts, Rooted
  <2>4. r \in 1 .. x /\ Began(r, x) /\ r \in DOMAIN signals /\ r # x
    <3>1. z \in 1 .. x /\ r # x /\ r \in DOMAIN signals
      BY <2>1, <2>3, Stack
    <3> QED
      BY <2>1, <2>2, <2>3, <3>1, BeganBefore
  <2>5. \A d \in Channels : Handles(d, r) => Kept(r)'
    <3> TAKE d \in Channels
    <3> HAVE Handles(d, r)
    <3>1. message'[d] = message[d]
      BY <1>0, <1>5, <2>4 DEF Handles
    <3> QED
      BY <3>1 DEF Handles, Kept
  <2>6. Kept(r)'
    BY <1>3, <2>3, <2>4, <2>5, KeptStays
  <2>7. Began(r, x)'
    BY <1>1, <1>3, <2>4, BeganStays
  <2> QED
    BY <2>4, <2>6, <2>7 DEF Rooted
<1>7. ASSUME pc = "ack", Repeats(x) = {}
      PROVE  Rooted(x)'
  <2>1. PICK y \in Runaway(x) : TRUE
    BY <1>4, <1>7
  <2>2. y > x
    <3>1. /\ y \in DOMAIN signals /\ y # x /\ y \notin Repeats(x) /\ x \in Nat
          /\ y \in 1 .. Len(signals) /\ Len(signals) \in Nat
      BY <1>1, <1>7, Stack DEF Runaway
    <3>2. y \notin 1 .. x - 1
      BY <3>1, <2>1 DEF Runaway, Repeats
    <3> QED
      BY <3>1, <3>2
  <2>3. x \in crossed'
    BY <1>2, <1>7, <2>1, <2>2
  <2>4. Kept(x)' /\ x \in DOMAIN signals'
    BY <1>1, <1>2, <2>3 DEF Kept, Lost
  <2> QED
    BY <2>4, KeptIsRootedNext
<1>8. ASSUME pc = "find", Handles(ch, x)
      PROVE  Rooted(x)'
  <2>1. Kept(x)' /\ x \in DOMAIN signals'
    BY <1>0, <1>1, <1>2, <1>5, <1>8, StillHandled
  <2> QED
    BY <2>1, KeptIsRootedNext
<1>9. \A y \in DOMAIN signals : Handles(ch, y) => Rooted(y)'
  BY <1>0, <1>6, <1>7, <1>8 DEF Handles
<1>10. ~At(ch, "event")'
  BY <1>5 DEF At
<1> QED
  BY <1>2, <1>3, <1>5, <1>9, <1>10, MessageFiles

\* A message that goes on and is still handling its signal.
LEMMA GotoFiles ==
    ASSUME Inv, Inv', Filed, NEW ch \in Channels, message[ch] # Idle,
           UNCHANGED <<now, reports, signals, events, history>>,
           \A d \in Channels \ {ch} : message'[d] = message[d],
           message'[ch] # Idle, message'[ch].pc \in {"open", "raise", "event"},
           message'[ch].signal = message[ch].signal, message[ch].signal \in DOMAIN signals,
           message'[ch].pc = "event" /\ SignalOf(message[ch].signal) \in CaseKinds
              => message'[ch].case # Null
    PROVE  Filed'
<1>1. RowsStay
  BY SameRowsStay DEF history
<1>2. \A y \in DOMAIN signals : Handles(ch, y) => Rooted(y)'
  <2> TAKE y \in DOMAIN signals
  <2> HAVE Handles(ch, y)
  <2>1. Kept(y)' /\ y \in DOMAIN signals'
    BY StillHandled
  <2> QED
    BY <2>1, KeptIsRootedNext
<1>3. SignalOf(message[ch].signal)' = SignalOf(message[ch].signal)
  BY DEF SignalOf, KindOf
<1> QED
  BY <1>1, <1>2, <1>3, MessageFiles DEF At

LEMMA FindFiles ==
    ASSUME Inv, Inv', Filed, NEW ch \in Channels, FindOpenCase(ch)
    PROVE  Filed'
<1> DEFINE x == message[ch].signal
           k == SignalOf(x)
           joined(c) == [message[ch] EXCEPT !.case = c,
                          !.pc = IF k \in CaseKinds /\ Urgency[k] < cases[c].priority
                                 THEN "raise" ELSE "event"]
<1>1. message[ch] \in Message /\ message[ch] # Idle /\ message[ch].pc = "find" /\ x \in DOMAIN signals
  BY InPipelineFacts DEF FindOpenCase, Steps, Sound, At
<1>2. UNCHANGED <<now, reports, signals, events, history>>
  BY DEF FindOpenCase, station
<1>3. ASSUME NEW c \in Newest(signals[x].at), message' = [message EXCEPT ![ch] = joined(c)]
      PROVE  Filed'
  <2>1. c \in Nat /\ c # Null
    BY Parts, AlarmAssumption DEF Newest, Current
  <2>2. joined(c).case = c /\ joined(c).signal = x /\ joined(c).pc \in {"raise", "event"}
        /\ "report" \in DOMAIN joined(c)
    BY <1>1 DEF Message
  <2>3. "report" \notin DOMAIN Idle
    BY DEF Idle
  <2>4. message'[ch] = joined(c) /\ \A d \in Channels \ {ch} : message'[d] = message[d]
    BY <1>3, Parts
  <2> HIDE DEF joined, x
  <2>5. message'[ch] # Idle
    BY <2>2, <2>3, <2>4
  <2>6. message'[ch].pc \in {"raise", "event"} /\ message'[ch].signal = message[ch].signal
        /\ message'[ch].case # Null
    BY <2>1, <2>2, <2>4 DEF x
  <2> QED
    BY <1>1, <1>2, <2>4, <2>5, <2>6, GotoFiles DEF x
<1>4. CASE Goto(ch, IF k \in CaseKinds THEN "open" ELSE "event")
  <2>1. PICK pc \in {"open", "event"} : Goto(ch, pc) /\ (pc = "event" => SignalOf(x) \notin CaseKinds)
    BY <1>4
  <2>2. message'[ch] # Idle /\ message'[ch].pc = pc /\ message'[ch].signal = x
        /\ \A d \in Channels \ {ch} : message'[d] = message[d]
    BY <1>1, <2>1, Moved
  <2> QED
    BY <1>1, <1>2, <2>1, <2>2, GotoFiles
<1> QED
  BY <1>3, <1>4 DEF FindOpenCase

LEMMA CaseFiles ==
    ASSUME Inv, Inv', Filed, NEW ch \in Channels, OpenCase(ch) \/ RaiseCase(ch)
    PROVE  Filed'
<1>1. /\ message[ch] \in Message /\ message[ch] # Idle /\ message[ch].pc \in {"open", "raise"}
      /\ (message[ch].pc = "raise" => message[ch].case # Null)
      /\ message[ch].signal \in DOMAIN signals
  BY InPipelineFacts DEF OpenCase, RaiseCase, Steps, Sound, At
<1>2. UNCHANGED <<now, reports, signals, events, history>>
  BY DEF OpenCase, RaiseCase
<1>3. CASE OpenCase(ch)
  <2> DEFINE n == Len(cases) + 1
             m == [message[ch] EXCEPT !.pc = "event", !.case = n]
  <2>1. message'[ch] = m /\ \A d \in Channels \ {ch} : message'[d] = message[d]
    BY <1>3, Parts DEF OpenCase
  <2>2. m.pc = "event" /\ m.case = n /\ m.signal = message[ch].signal /\ "report" \in DOMAIN m
    BY <1>1 DEF Message
  <2>3. "report" \notin DOMAIN Idle
    BY DEF Idle
  <2>4. n # Null
    <3>1. n \in Nat
      BY Parts
    <3> QED
      BY <3>1, AlarmAssumption
  <2> HIDE DEF m, n
  <2>5. message'[ch] # Idle
    BY <2>1, <2>2, <2>3
  <2>6. message'[ch].pc = "event" /\ message'[ch].signal = message[ch].signal /\ message'[ch].case # Null
    BY <2>1, <2>2, <2>4
  <2> QED
    BY <1>1, <1>2, <2>1, <2>5, <2>6, GotoFiles
<1>4. CASE RaiseCase(ch)
  <2>1. Goto(ch, "event") /\ message[ch].pc = "raise"
    BY <1>4 DEF RaiseCase, At
  <2>2. message'[ch] # Idle /\ message'[ch].pc = "event" /\ message'[ch].signal = message[ch].signal
        /\ message'[ch].case = message[ch].case /\ \A d \in Channels \ {ch} : message'[d] = message[d]
    BY <1>1, <2>1, Moved
  <2> QED
    BY <1>1, <1>2, <2>1, <2>2, GotoFiles
<1> QED
  BY <1>3, <1>4

\* The event of an alarm names its case.
LEMMA EventFiles ==
    ASSUME Inv, Inv', Filed, NEW ch \in Channels, AddEvent(ch)
    PROVE  Filed'
<1>0. PICK x : x = message[ch].signal
  OBVIOUS
<1> DEFINE e == [signal |-> x, case |-> message[ch].case]
<1>1. message[ch] # Idle /\ message[ch].pc = "event" /\ x \in DOMAIN signals /\ At(ch, "event")
  BY <1>0, InPipelineFacts DEF AddEvent, Steps, Sound, At
<1>2. UNCHANGED <<now, reports, signals, history>> /\ events' = events \cup {e} /\ Goto(ch, "ack")
  BY <1>0 DEF AddEvent
<1>3. RowsStay
  BY <1>2, SameRowsStay DEF history
<1>4. /\ message'[ch].pc = "ack" /\ \A d \in Channels \ {ch} : message'[d] = message[d]
  BY <1>1, <1>2, Moved
<1>5. Kept(x)'
  <2>1. CASE SignalOf(x) \in CaseKinds
    <3>1. e.signal = x /\ e.case # Null
      BY <1>0, <1>1, <2>1 DEF Filed, Knows
    <3>2. e \in events'
      BY <1>2
    <3> HIDE DEF e
    <3> QED
      BY <3>1, <3>2 DEF Kept, InCase
  <2>2. CASE SignalOf(x) \notin CaseKinds
    <3>1. SignalOf(x)' \notin CaseKinds
      BY <1>1, <1>3, <2>2 DEF RowsStay
    <3> QED
      BY <3>1 DEF Kept, Lost, CaseKinds
  <2> QED
    BY <2>1, <2>2
<1>6. \A y \in DOMAIN signals : Handles(ch, y) => Rooted(y)'
  BY <1>0, <1>1, <1>2, <1>5, KeptIsRootedNext DEF Handles
<1>7. ~At(ch, "event")'
  BY <1>4 DEF At
<1> QED
  BY <1>2, <1>3, <1>4, <1>6, <1>7, MessageFiles

\* A message leaves when it has written its event, or is cut short.
LEMMA LeaveFiles ==
    ASSUME Inv, Inv', Filed, NEW ch \in Channels, Acknowledge(ch) \/ IngestFails(ch)
    PROVE  Filed'
<1>1. /\ message'[ch] = Idle /\ \A d \in Channels \ {ch} : message'[d] = message[d]
      /\ UNCHANGED <<now, reports, signals, events, crossed>> /\ cut \subseteq cut'
  BY Parts DEF Acknowledge, IngestFails, Return, station, history
<1>2. RowsStay
  BY <1>1, SameRowsStay
<1>3. ASSUME NEW y \in DOMAIN signals, Handles(ch, y) PROVE Rooted(y)'
  <2>1. y \in cut'
    BY <1>3 DEF Acknowledge, IngestFails, At, Handles
  <2>2. Kept(y)' /\ y \in DOMAIN signals'
    BY <1>1, <1>3, <2>1 DEF Kept, Lost
  <2> QED
    BY <2>2, KeptIsRootedNext
<1>4. ~At(ch, "event")'
  BY <1>1 DEF At
<1> QED
  BY <1>1, <1>2, <1>3, <1>4, MessageFiles

\* Where message, signals and events stay, so does the rest.
LEMMA QuietFiles ==
    ASSUME Inv, Inv', Filed, UNCHANGED <<reports, signals, events, message, history>>, now' >= now
    PROVE  Filed'
<1>1. RowsStay
  BY SameRowsStay DEF history
<1>2. \A y \in DOMAIN signals : Kept(y) => Rooted(y)'
  <2> TAKE y \in DOMAIN signals
  <2> HAVE Kept(y)
  <2>1. \A ch \in Channels : Handles(ch, y) => Kept(y)'
    BY DEF Handles, Kept
  <2>2. Kept(y)' /\ y \in DOMAIN signals'
    BY <1>1, <2>1, KeptStays
  <2> QED
    BY <2>2, KeptIsRootedNext
<1>3. Bursts'
  <2>1. \A x \in DOMAIN signals : Rooted(x)'
    BY <1>1, <1>2, BurstsStay DEF Filed
  <2> QED
    BY <2>1 DEF Bursts
<1>4. Ordered'
  <2>1. now' \in Nat /\ now \in Nat
    BY AlarmAssumption DEF Inv, Counters
  <2>2. \A x \in DOMAIN signals : signals[x].at <= now /\ signals[x].at \in Nat
    BY Parts DEF Filed, Ordered
  <2>3. \A x \in DOMAIN signals : signals[x].at <= now'
    BY <2>1, <2>2
  <2> QED
    BY <2>3 DEF Filed, Ordered
<1>5. Knows'
  BY DEF Filed, Knows, At, SignalOf, KindOf, CaseKinds
<1> QED
  BY <1>3, <1>4, <1>5 DEF Filed

LEMMA NextFiles == ASSUME Inv, Filed, [Next]_vars PROVE Filed'
<1>0. Inv'
  BY NextInv
<1>1. ASSUME NEW ch \in Channels,
             \/ \E k \in Kinds : Report(ch, k)
             \/ \E r \in DOMAIN reports : Retransmit(ch, r)
             \/ Ingest(ch) \/ IngestFails(ch)
      PROVE  Filed'
  BY <1>0, <1>1, PanelFiles, StoreFiles, RunawayFiles, FindFiles, CaseFiles, EventFiles, LeaveFiles
     DEF Ingest
<1>2. ASSUME NEW c \in DOMAIN cases,
             TakeCase(c) \/ DispatchCase(c) \/ ResolveCase(c) \/ CloseCase(c)
      PROVE  Filed'
  <2>1. UNCHANGED <<now, reports, signals, events, message, history>>
    BY <1>2 DEF TakeCase, DispatchCase, ResolveCase, CloseCase, Operate
  <2>2. now' >= now
    BY <2>1, Parts
  <2> QED
    BY <1>0, <2>1, <2>2, QuietFiles
<1>3. CASE SweepScan \/ SweepWrite \/ SweepFails \/ Tick \/ UNCHANGED vars
  <2>1. UNCHANGED <<reports, signals, events, message, history>>
    BY <1>3 DEF SweepScan, SweepWrite, SweepFails, Tick, vars, station
  <2>2. now' >= now
    BY <1>3, Parts DEF SweepScan, SweepWrite, SweepFails, Tick, vars
  <2> QED
    BY <1>0, <2>1, <2>2, QuietFiles
<1> QED
  BY <1>1, <1>2, <1>3 DEF Next

LEMMA InitFiles == Init => Filed
BY DEF Init, Filed, Bursts, Ordered, Knows, At

\* On however many channels, and whatever fails: a stored alarm is in a case, or it is one
\* of a burst that began with a row that is in a case or still in the pipeline; else that
\* row's handler was cut short, or it and a later row suppressed each other, or it was a
\* restore (ingestSignal).
THEOREM AlarmsReachOperators == Spec => []AlarmHasCase
<1>1. Filed => AlarmHasCase
  BY DEF Filed, Bursts, Rooted, Kept, AlarmHasCase
<1>2. Inv /\ Filed /\ [Next]_vars => Inv' /\ Filed'
  BY NextInv, NextFiles
<1> QED
  BY <1>1, <1>2, InitInv, InitFiles, PTL DEF Spec
=============================================================================
