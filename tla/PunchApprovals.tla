--------------------------- MODULE PunchApprovals ---------------------------
(***************************************************************************)
(* Supervisor approvals of one guard's punches on one record: a clock-in      *)
(* after the grace period and a clock-out before the end need an approved      *)
(* clockInRequest or clockOutRequest.  The guard asks, withdraws and punches;  *)
(* supervisors decide in the CRM; every handler reads a request in one query   *)
(* and writes it in a later one.  What a punch does to the record is module    *)
(* Attendance's business; here it only opens or closes the session.            *)
(***************************************************************************)
EXTENDS Integers, Sequences, FiniteSets

CONSTANTS
    Taps,          \* slots of requests in flight from the guard's app
    Supervisors,   \* decision requests in flight
    Null,
    LateLimit,     \* scheduledStart + effectiveLate
    EarlyUntil,    \* scheduledEnd - earlyClockoutThresholdMin
    Life,          \* ticks an approval of a late clock-in stays valid
    MaxReqs,       \* bound: requests ever created
    MaxFaults,     \* bound: swallowed write errors and crashes
    Horizon        \* bound: the clock

ASSUME ApprovalAssumption ==
    /\ LateLimit \in Nat /\ EarlyUntil \in Nat /\ Life \in Nat
    /\ MaxReqs \in Nat /\ MaxFaults \in Nat /\ Horizon \in Nat
    /\ Null \notin Nat

VARIABLES
    now,
    onShift,   \* the guard's record has an open session
    reqs,      \* the requests, in order of creation
    uses,      \* how many punches each request has let through
    tap,       \* the guard's requests in flight
    deciding,  \* the request each supervisor loaded as pending, or Null
    faults

vars == <<now, onShift, reqs, uses, tap, deciding, faults>>

Kinds    == {"in", "out"}
Statuses == {"pending", "approved", "rejected", "cancelled", "used"}
Request  == [kind : Kinds, status : Statuses, expires : Nat \cup {Null}]
Ids      == 1 .. Len(reqs)

Idle == [pc |-> "idle"]
Tap  == [pc : {"create", "gate", "punch", "consume"}, kind : Kinds, id : Nat \cup {Null}]

Open(k) == {q \in Ids : reqs[q].kind = k /\ reqs[q].status \in {"pending", "approved"}}

\* What the punch handlers accept: any approved clock-out request of the record,
\* the newest approved and unexpired clock-in request of the day.
Approved(k) == {q \in Ids : reqs[q].kind = k /\ reqs[q].status = "approved"}
Unlocking(k) ==
    IF k = "out" THEN Approved("out")
    ELSE LET live == {q \in Approved("in") : now <= reqs[q].expires}
         IN  {q \in live : \A x \in live : x <= q}

\* Outside the window a punch needs an approval.
NeedsApproval(k) == IF k = "in" THEN now > LateLimit ELSE now < EarlyUntil

TypeOK ==
    /\ now \in 0 .. Horizon
    /\ onShift \in BOOLEAN
    /\ reqs \in Seq(Request) /\ Len(reqs) <= MaxReqs
    /\ uses \in [1 .. MaxReqs -> Nat]
    /\ tap \in [Taps -> Tap \cup {Idle}]
    /\ deciding \in [Supervisors -> (1 .. MaxReqs) \cup {Null}]
    /\ faults \in 0 .. MaxFaults

Init ==
    /\ now = 0 /\ onShift = FALSE
    /\ reqs = << >> /\ uses = [q \in 1 .. MaxReqs |-> 0]
    /\ tap = [t \in Taps |-> Idle]
    /\ deciding = [s \in Supervisors |-> Null]
    /\ faults = 0

At(t, pc)    == tap[t] # Idle /\ tap[t].pc = pc
Step(t, pc, k, q) == tap' = [tap EXCEPT ![t] = [pc |-> pc, kind |-> k, id |-> q]]
Return(t)    == tap' = [tap EXCEPT ![t] = Idle]

\* A write whose failure the handler swallows.
BestEffort(Write, Unchanged) ==
    \/ Write /\ UNCHANGED faults
    \/ faults < MaxFaults /\ faults' = faults + 1 /\ Unchanged

-----------------------------------------------------------------------------
(* POST clock-in/request and clock-out/request *)

\* Mutant: only pending requests are reused.
MutantAskReuses(k) == {q \in Open(k) : reqs[q].status = "pending"}
AskReuses(k) == Open(k)

\* An open request is answered as it is; asking to leave needs an open session.
Ask(t, k) ==
    /\ tap[t] = Idle
    /\ k = "out" => onShift
    /\ AskReuses(k) = {} /\ Step(t, "create", k, Null)
    /\ UNCHANGED <<now, onShift, reqs, uses, deciding, faults>>

AskCreate(t) ==
    /\ At(t, "create") /\ Len(reqs) < MaxReqs
    /\ reqs' = Append(reqs, [kind |-> tap[t].kind, status |-> "pending", expires |-> Null])
    /\ Return(t)
    /\ UNCHANGED <<now, onShift, uses, deciding, faults>>

\* POST clock-out/request/cancel: one UPDATE over the guard's pending requests.
Withdraw ==
    /\ \E q \in Open("out") : reqs[q].status = "pending"
    /\ reqs' = [q \in Ids |->
          IF reqs[q].kind = "out" /\ reqs[q].status = "pending"
          THEN [reqs[q] EXCEPT !.status = "cancelled"] ELSE reqs[q]]
    /\ UNCHANGED <<now, onShift, uses, tap, deciding, faults>>

-----------------------------------------------------------------------------
(* decideClockInRequest and decideClockOutRequest *)

DecideLoad(s) ==
    /\ deciding[s] = Null
    /\ \E q \in Ids : reqs[q].status = "pending" /\ deciding' = [deciding EXCEPT ![s] = q]
    /\ UNCHANGED <<now, onShift, reqs, uses, tap, faults>>

\* Mutant: the decision is stored as the client sent it.
MutantDecision == {"approved", "rejected", "approve"}
Decision == {"approved", "rejected"}

\* reqRow.update(...) of the row loaded as pending, whatever it is by now.
DecideWrite(s) ==
    /\ deciding[s] # Null
    /\ \E d \in Decision :
          reqs' = [reqs EXCEPT ![deciding[s]] =
             [@ EXCEPT !.status = d,
                       !.expires = IF d = "approved" /\ reqs[deciding[s]].kind = "in"
                                   THEN now + Life ELSE reqs[deciding[s]].expires]]
    /\ deciding' = [deciding EXCEPT ![s] = Null]
    /\ UNCHANGED <<now, onShift, uses, tap, faults>>

-----------------------------------------------------------------------------
(* The approval gates of clock-in and clock-out *)

\* A clock-out loads the open record before the gate.
PunchBegin(t, k) ==
    /\ tap[t] = Idle
    /\ k = "out" => onShift
    /\ Step(t, "gate", k, Null)
    /\ UNCHANGED <<now, onShift, reqs, uses, deciding, faults>>

\* Refused without an approval when one is needed.  A clock-out consumes the
\* approval before it closes the session, a clock-in after it opened one.
PunchGate(t) ==
    /\ At(t, "gate")
    /\ LET k == tap[t].kind IN
       \/ ~NeedsApproval(k) /\ Step(t, "punch", k, Null)
       \/ NeedsApproval(k) /\ Unlocking(k) = {} /\ Return(t)
       \/ NeedsApproval(k) /\ \E q \in Unlocking(k) :
             Step(t, IF k = "out" THEN "consume" ELSE "punch", k, q)
    /\ UNCHANGED <<now, onShift, reqs, uses, deciding, faults>>

\* Mutant: the approval is left as it is.
MutantConsumed(k) == "approved"
Consumed(k) == IF k = "in" THEN "used" ELSE "cancelled"

PunchConsume(t) ==
    /\ At(t, "consume")
    /\ LET k == tap[t].kind IN
          /\ BestEffort(reqs' = [reqs EXCEPT ![tap[t].id].status = Consumed(k)], UNCHANGED reqs)
          /\ IF k = "in" THEN Return(t) ELSE Step(t, "punch", k, tap[t].id)
    /\ UNCHANGED <<now, onShift, uses, deciding>>

\* A clock-in of an open session is refused; a clock-out closes what it loaded.
Punch(t) ==
    /\ At(t, "punch")
    /\ LET k == tap[t].kind
           q == tap[t].id
       IN  IF k = "in" /\ onShift
           THEN Return(t) /\ UNCHANGED <<onShift, uses>>
           ELSE /\ onShift' = (k = "in")
                /\ uses' = IF q = Null THEN uses ELSE [uses EXCEPT ![q] = @ + 1]
                /\ IF k = "in" /\ q # Null THEN Step(t, "consume", k, q) ELSE Return(t)
    /\ UNCHANGED <<now, reqs, deciding, faults>>

-----------------------------------------------------------------------------
\* A handler dies between two awaits.
Dies ==
    /\ faults < MaxFaults /\ faults' = faults + 1
    /\ \/ \E t \in Taps : tap[t] # Idle /\ Return(t) /\ UNCHANGED deciding
       \/ \E s \in Supervisors : /\ deciding[s] # Null
                                 /\ deciding' = [deciding EXCEPT ![s] = Null]
                                 /\ UNCHANGED tap
    /\ UNCHANGED <<now, onShift, reqs, uses>>

Tick ==
    /\ now < Horizon /\ now' = now + 1
    /\ UNCHANGED <<onShift, reqs, uses, tap, deciding, faults>>

Next ==
    \/ \E t \in Taps, k \in Kinds : Ask(t, k) \/ PunchBegin(t, k)
    \/ \E t \in Taps : AskCreate(t) \/ PunchGate(t) \/ PunchConsume(t) \/ Punch(t)
    \/ Withdraw
    \/ \E s \in Supervisors : DecideLoad(s) \/ DecideWrite(s)
    \/ Dies
    \/ Tick

Spec == Init /\ [][Next]_vars

-----------------------------------------------------------------------------
(* Properties *)

\* "Consume the approval so it can't be reused on a later re-clock-in": a request lets one
\* punch through, and another one only for each write that was lost or handler that died
\* (guardMeClockOut, guardMeClockIn).
ApprovalUsedOnce == \A q \in 1 .. MaxReqs : uses[q] <= 1 + faults

\* The guard never has two late clock-in requests open at once: asking again is
\* answered with the open one (guardMeClockInRequestCreate).
OneOpenLateRequest == Cardinality(Open("in")) <= 1

\* The request a late guard is answered with, when asking again, can still lead to a
\* punch: it is pending, or approved and not lapsed (guardMeClockInRequestCreate).
\* It does not hold: README, section 6.
OpenRequestIsUsable ==
    \A q \in Open("in") : reqs[q].status = "approved" => now <= reqs[q].expires

=============================================================================
