----------------------------- MODULE RadioCheckProofs -----------------------------
(***************************************************************************)
(* While a roll call runs, the first outcome of each call stands.  Every write   *)
(* of an outcome either asks in the update itself whether the call is still       *)
(* open (replies, expiries), or is meant for a session that has ended: the         *)
(* proof is that the second kind never meets a running one, however the job, the   *)
(* replies, the polls and the cancellations interleave and wherever they fail.     *)
(* And the counters of a running session are the numbers of its outcomes, but for     *)
(* one per failure; with failures too, nothing is counted that did not happen.         *)
(***************************************************************************)
EXTENDS RadioCheck, FiniteSetTheorems, TLAPS

Statuses == {"none"} \cup Unsettled \cup Settled

Rows ==
    /\ session \in [Sessions -> {"none", "running", "completed", "cancelled"}]
    /\ entry \in [Calls -> Statuses] /\ left \in [Calls -> Time]
    \* Calls are of sessions that have been started.
    /\ \A c \in Calls : entry[c] # "none" => session[SessionOf(c)] # "none"

\* What a starter st of session s still creates is not there.
Starting(s, st, ses, ent) ==
    /\ st.pc # "idle" => ses[s] # "none"
    /\ st.pc = "create" => st.todo \subseteq Stations \cup OnDuty
    /\ st.pc = "create" => \A t \in st.todo : ent[<<s, t>>] = "none"
Starters ==
    /\ start \in [Sessions -> Starter]
    /\ \A s \in Sessions : Starting(s, start[s], session, entry)

\* A call that is about to expire is past its deadline, or has its outcome.
Over(c, ent, lf) == ent[c] \in Settled \/ (ent[c] = "notified" /\ lf[c] = 0)
Advancing(ad, ent, lf) ==
    /\ ad.pc # "idle" => ad.session # Null
    /\ ad.pc \in {"expire", "notify"} => ad.call # Null
    /\ ad.pc = "expire" => Over(ad.call, ent, lf)
Advancers ==
    /\ advance \in [Callers -> Advancer]
    /\ \A a \in Callers : Advancing(advance[a], entry, left)

\* What cancelSession closes belongs to a session that has ended.
Ended(s, ses) == ses[s] \notin {"none", "running"}
Cancels ==
    /\ cancel \in [Sessions -> {"never", "called", "pending", "done"}]
    /\ \A s \in Sessions : cancel[s] \in {"called", "pending"} => Ended(s, session)

\* A poll that found no entry mints the first one of its supervisor.
Polling(u, p, ses, ent) ==
    /\ p.pc = "claim" => p.call # Null
    /\ p.pc = "mint" => /\ p.session \in Sessions
                        /\ ses[p.session] # "none" /\ ent[<<p.session, Minted(u)>>] = "none"
Polls ==
    /\ poll \in [Supervisors -> Poller]
    /\ \A u \in Supervisors : Polling(u, poll[u], session, entry)

\* What the job sweeps belongs to sessions that have ended.
Sweeping(j, ses, ent) ==
    /\ j.pc \in {"live", "sweep"} => \A c \in j.orphans : ent[c] # "none"
    /\ j.pc = "sweep" => \A c \in j.orphans : Ended(SessionOf(c), ses)
    /\ j.pc = "start" => j.session # Null
TheJob == job \in Scheduler /\ Sweeping(job, session, entry)

Rest == due \in BOOLEAN /\ faults \in 0 .. MaxFaults
Inv  == Rows /\ Starters /\ Advancers /\ Cancels /\ Polls /\ TheJob /\ Rest

-----------------------------------------------------------------------------
LEMMA Constants ==
    /\ Window \in Nat /\ Patience \in Nat /\ Window + Patience \in Nat /\ MaxFaults \in Nat
    /\ Job \notin Calls /\ Null \notin Sessions /\ Null \notin Calls /\ Job \in Callers
    /\ \A u \in Supervisors : Minted(u) \notin Stations \cup OnDuty /\ Minted(u) \in Targets
    /\ \A c \in Calls : /\ SessionOf(c) \in Sessions /\ c \in Callers
                       /\ \E t \in Targets : c = <<SessionOf(c), t>>
    /\ \A s \in Sessions, t \in Targets : <<s, t>> \in Calls /\ SessionOf(<<s, t>>) = s
    /\ \A s \in Sessions : CallsOf(s) \subseteq Calls /\ \A c \in CallsOf(s) : SessionOf(c) = s
BY RadioAssumption DEF Calls, Callers, CallsOf, SessionOf, Targets

LEMMA RestingPolls == Resting \in Poller /\ \A u, ses, ent : Polling(u, Resting, ses, ent)
BY DEF Resting, Poller, Polling

LEMMA InitInv == Init => Inv
<1> SUFFICES ASSUME Init PROVE Inv
  OBVIOUS
<1>1. Rows
  BY Constants DEF Init, Rows, Statuses, Time
<1>2. Stopped \in Starter /\ Stopped.pc = "idle"
  BY Constants DEF Stopped, Starter, Time
<1>3. Starters
  <2>1. start \in [Sessions -> Starter] /\ \A s \in Sessions : start[s] = Stopped
    BY <1>2 DEF Init
  <2> QED
    BY <1>2, <2>1 DEF Starters, Starting
<1>4. Resting \in Advancer /\ Resting.pc = "idle"
  BY DEF Resting, Advancer
<1>5. Advancers
  <2>1. advance \in [Callers -> Advancer] /\ \A a \in Callers : advance[a] = Resting
    BY <1>4 DEF Init
  <2> QED
    BY <1>4, <2>1 DEF Advancers, Advancing
<1>6. Cancels /\ Polls
  BY RestingPolls DEF Init, Cancels, Polls
<1>7. TheJob
  BY DEF Init, TheJob, Scheduler, Sweeping
<1>8. Rest
  <2>1. due = FALSE /\ faults = 0
    BY DEF Init
  <2>2. 0 \in 0 .. MaxFaults
    BY Constants
  <2> QED
    BY <2>1, <2>2 DEF Rest
<1> QED
  BY <1>1, <1>3, <1>5, <1>6, <1>7, <1>8 DEF Inv

-----------------------------------------------------------------------------
(* What any step may do to the rows *)

\* Sessions that have ended stay so, entries stay, and a call that is open has not been
\* open before with less time.
Legal ==
    /\ Rows'
    /\ \A s \in Sessions : session[s] # "none" => session'[s] # "none"
    /\ \A s \in Sessions : Ended(s, session) => session'[s] = session[s]
    /\ \A c \in Calls : entry[c] # "none" => entry'[c] # "none"
    /\ \A c \in Calls : Over(c, entry, left) => Over(c, entry', left')

\* The property, as a step.
Stands ==
    \A c \in Calls : session[SessionOf(c)] = "running" =>
       /\ entry[c] \in Settled => entry'[c] = entry[c]
       /\ entry[c] = "notified" /\ entry'[c] = "no_response" => left[c] = 0

\* No entry is created.
NoneNew == \A c \in Calls : entry[c] = "none" => entry'[c] = "none"

LEMMA SameRows ==
    ASSUME Rows, UNCHANGED <<session, entry, left>>
    PROVE  Legal /\ Stands /\ NoneNew
BY DEF Rows, Legal, Stands, NoneNew, Over, Ended, Settled

LEMMA StartersStay == ASSUME Starters, Legal, NoneNew, UNCHANGED start PROVE Starters'
<1>1. \A s \in Sessions : Starting(s, start[s], session', entry')
  <2> SUFFICES ASSUME NEW s \in Sessions PROVE Starting(s, start[s], session', entry')
    OBVIOUS
  <2>1. Starting(s, start[s], session, entry) /\ start[s].todo \subseteq Targets
    BY DEF Starters, Starter
  <2> QED
    BY <2>1, Constants DEF Starting, Legal, NoneNew
<1> QED
  BY <1>1 DEF Starters

LEMMA AdvancersStay == ASSUME Advancers, Legal, UNCHANGED advance PROVE Advancers'
<1>1. \A a \in Callers : Advancing(advance[a], entry', left')
  <2> SUFFICES ASSUME NEW a \in Callers PROVE Advancing(advance[a], entry', left')
    OBVIOUS
  <2>1. Advancing(advance[a], entry, left) /\ advance[a].call \in Calls \cup {Null}
    BY DEF Advancers, Advancer
  <2> QED
    BY <2>1 DEF Advancing, Legal
<1> QED
  BY <1>1 DEF Advancers

LEMMA CancelsStay == ASSUME Cancels, Legal, UNCHANGED cancel PROVE Cancels'
BY DEF Cancels, Legal, Ended

LEMMA PollsStay == ASSUME Polls, Legal, NoneNew, UNCHANGED poll PROVE Polls'
<1>1. \A u \in Supervisors : Polling(u, poll[u], session', entry')
  BY Constants DEF Polls, Polling, Legal, NoneNew
<1> QED
  BY <1>1 DEF Polls

LEMMA JobStays == ASSUME TheJob, Legal, UNCHANGED job PROVE TheJob'
<1>1. job.orphans \subseteq Calls
  BY DEF TheJob, Scheduler
<1> QED
  BY <1>1, Constants DEF TheJob, Sweeping, Legal, Ended

LEMMA FaultType == ASSUME Rest, Fault, UNCHANGED due PROVE Rest'
<1>1. faults \in 0 .. MaxFaults /\ MaxFaults \in Nat /\ faults < MaxFaults /\ faults' = faults + 1
  BY Constants DEF Rest, Fault
<1>2. faults' \in 0 .. MaxFaults
  BY <1>1
<1> QED
  BY <1>2 DEF Rest

-----------------------------------------------------------------------------
(* Steps of one caller of advanceSession *)

LEMMA AdvancerMoves ==
    ASSUME Advancers, Legal, NEW a \in Callers, NEW r \in Advancer, Advancing(r, entry', left'),
           advance' = [advance EXCEPT ![a] = r]
    PROVE  Advancers'
<1>1. advance' \in [Callers -> Advancer] /\ advance'[a] = r
      /\ \A b \in Callers : b # a => advance'[b] = advance[b]
  BY DEF Advancers
<1>2. \A b \in Callers : Advancing(advance[b], entry', left')
  <2> SUFFICES ASSUME NEW b \in Callers PROVE Advancing(advance[b], entry', left')
    OBVIOUS
  <2>1. Advancing(advance[b], entry, left) /\ advance[b].call \in Calls \cup {Null}
    BY DEF Advancers, Advancer
  <2> QED
    BY <2>1 DEF Advancing, Legal
<1> QED
  BY <1>1, <1>2 DEF Advancers

\* The other parts, when only rows and advance change.
LEMMA OthersStay ==
    ASSUME Inv, Legal, NoneNew, Advancers', UNCHANGED <<start, cancel, poll, job, due>>, Rest'
    PROVE  Inv'
BY StartersStay, CancelsStay, PollsStay, JobStays DEF Inv, Legal

LEMMA AdvancerWithPc ==
    ASSUME NEW r \in Advancer, NEW pc
    PROVE  [r EXCEPT !.pc = pc] = [pc |-> pc, session |-> r.session, call |-> r.call]
BY DEF Advancer

LEMMA AdvancerWithCall ==
    ASSUME NEW r \in Advancer, NEW pc, NEW c
    PROVE  [r EXCEPT !.pc = pc, !.call = c] = [pc |-> pc, session |-> r.session, call |-> c]
<1> DEFINE n == [r EXCEPT !.pc = pc]
<1>1. n = [pc |-> pc, session |-> r.session, call |-> r.call]
  BY DEF Advancer
<1>2. [n EXCEPT !.call = c] = [pc |-> pc, session |-> r.session, call |-> c]
  <2> HIDE DEF n
  <2> QED
    BY <1>1
<1> QED
  BY <1>2, Zenon

Phases == {"idle", "answered", "load", "expire", "count", "active", "next", "notify", "complete"}

\* A caller at work.
LEMMA AtWork ==
    ASSUME Inv, NEW a \in Callers
    PROVE  /\ advance[a] \in Advancer /\ Advancing(advance[a], entry, left)
           /\ advance[a].session \in Sessions \cup {Null} /\ advance[a].call \in Calls \cup {Null}
           /\ advance[a].pc # "idle" => advance[a].session \in Sessions /\ Mine(a) \subseteq Calls
BY Constants DEF Inv, Advancers, Advancer, Advancing, Mine

LEMMA Goes ==
    ASSUME Inv, Legal, NEW a \in Callers, advance[a].pc # "idle",
           NEW pc \in Phases \ {"expire", "notify"}, Goto(a, pc)
    PROVE  Advancers'
<1> DEFINE r == [pc |-> pc, session |-> advance[a].session, call |-> advance[a].call]
<1>1. [advance[a] EXCEPT !.pc = pc] = r
  BY AtWork, AdvancerWithPc
<1>2. r \in Advancer
  BY AtWork DEF Advancer, Phases
<1>3. Advancing(r, entry', left')
  BY AtWork, Constants DEF Advancing
<1>4. advance' = [advance EXCEPT ![a] = [advance[a] EXCEPT !.pc = pc]]
  BY DEF Goto
<1> HIDE DEF r
<1> QED
  BY <1>1, <1>2, <1>3, <1>4, AdvancerMoves DEF Inv

LEMMA Takes ==
    ASSUME Inv, Legal, NEW a \in Callers, advance[a].pc # "idle",
           NEW pc \in Phases, NEW c \in Calls \cup {Null}, Take(a, pc, c),
           pc \in {"expire", "notify"} => c # Null,
           pc = "expire" => Over(c, entry', left')
    PROVE  Advancers'
<1> DEFINE r == [pc |-> pc, session |-> advance[a].session, call |-> c]
<1>1. [advance[a] EXCEPT !.pc = pc, !.call = c] = r
  BY AtWork, AdvancerWithCall
<1>2. r \in Advancer
  BY AtWork DEF Advancer, Phases
<1>3. Advancing(r, entry', left')
  BY AtWork, Constants DEF Advancing
<1>4. advance' = [advance EXCEPT ![a] = [advance[a] EXCEPT !.pc = pc, !.call = c]]
  BY DEF Take
<1> HIDE DEF r
<1> QED
  BY <1>1, <1>2, <1>3, <1>4, AdvancerMoves DEF Inv

LEMMA Leaves ==
    ASSUME Inv, Legal, NEW a \in Callers, Leave(a)
    PROVE  Advancers'
<1>1. Resting \in Advancer /\ Advancing(Resting, entry', left')
  BY DEF Resting, Advancer, Advancing
<1> QED
  BY <1>1, AdvancerMoves DEF Leave, Inv

\* Steps of a caller that write no row but a counter.
LEMMA AdvanceControl ==
    ASSUME Inv, NEW a \in Callers,
           CountReply(a) \/ Load(a) \/ CountMissed(a) \/ CountFails(a) \/ FindActive(a) \/ FindNext(a)
              \/ AdvanceFails(a)
    PROVE  Inv' /\ Stands
<1>1. UNCHANGED <<session, entry, left, start, cancel, poll, job, due>>
  BY DEF CountReply, Load, CountMissed, CountFails, FindActive, FindNext, AdvanceFails, rows, counts
<1>2. Legal /\ Stands /\ NoneNew
  BY <1>1, SameRows DEF Inv
<1>3. Rest'
  BY FaultType DEF Inv, Rest, CountReply, Load, CountMissed, CountFails, FindActive, FindNext, AdvanceFails
<1>4. Advancers'
  <2>1. CASE CountReply(a)
    <3>1. Goto(a, "load")
      BY <2>1 DEF CountReply, Goto
    <3> QED
      BY <1>2, <2>1, <3>1, Goes DEF CountReply, Phases
  <2>2. CASE Load(a)
    <3>1. advance[a].pc = "load" /\ Mine(a) \subseteq Calls
      BY <2>2, AtWork DEF Load, At
    <3>2. CASE Leave(a)
      BY <1>2, <3>2, Leaves
    <3>3. CASE \E c \in Mine(a) : Stale(c) /\ Take(a, "expire", c)
      <4>1. PICK c \in Mine(a) : Stale(c) /\ Take(a, "expire", c)
        BY <3>3
      <4>2. c \in Calls /\ c # Null
        BY <3>1, Constants
      <4>3. Over(c, entry', left')
        BY <1>1, <4>1 DEF Over, Stale
      <4> QED
        BY <1>2, <3>1, <4>1, <4>2, <4>3, Takes DEF Phases
    <3>4. CASE Goto(a, "active")
      BY <1>2, <3>1, <3>4, Goes DEF Phases
    <3> QED
      BY <2>2, <3>2, <3>3, <3>4 DEF Load
  <2>3. CASE CountMissed(a)
    BY <1>2, <2>3, Goes DEF CountMissed, Phases, At
  <2>4. CASE CountFails(a)
    <3>1. advance[a].pc # "idle" /\ (Goto(a, "active") \/ Goto(a, "load"))
      BY <2>4 DEF CountFails, At
    <3> QED
      BY <1>2, <3>1, Goes DEF Phases
  <2>5. CASE FindActive(a)
    <3>1. advance[a].pc # "idle" /\ (Goto(a, "next") \/ Leave(a))
      BY <2>5 DEF FindActive, At
    <3> QED
      BY <1>2, <3>1, Goes, Leaves DEF Phases
  <2>6. CASE FindNext(a)
    <3>1. advance[a].pc = "next" /\ Mine(a) \subseteq Calls
      BY <2>6, AtWork DEF FindNext, At
    <3>2. CASE Goto(a, "complete")
      BY <1>2, <3>1, <3>2, Goes DEF Phases
    <3>3. CASE \E c \in Mine(a) : Take(a, "notify", c)
      <4>1. PICK c \in Mine(a) : Take(a, "notify", c)
        BY <3>3
      <4>2. c \in Calls /\ c # Null
        BY <3>1, Constants
      <4> QED
        BY <1>2, <3>1, <4>1, <4>2, Takes DEF Phases
    <3> QED
      BY <2>6, <3>2, <3>3 DEF FindNext
  <2>7. CASE AdvanceFails(a)
    BY <1>2, <2>7, Leaves DEF AdvanceFails
  <2> QED
    BY <2>1, <2>2, <2>3, <2>4, <2>5, <2>6, <2>7
<1> QED
  BY <1>1, <1>2, <1>3, <1>4, OthersStay

-----------------------------------------------------------------------------
(* Steps that write entries *)

LEMMA Settling ==
    ASSUME Inv, NEW C \in SUBSET Calls, NEW st \in Settled, Settle(C, st), UNCHANGED session,
           \A c \in C : entry[c] # "none",
           \A c \in C : session[SessionOf(c)] = "running" =>
              entry[c] \notin Settled /\ (entry[c] = "notified" /\ st = "no_response" => left[c] = 0)
    PROVE  Legal /\ Stands /\ NoneNew
<1>0. Rows /\ st \in Statuses /\ st # "none" /\ 0 \in Time
  BY Constants DEF Inv, Settled, Statuses, Time
<1>1. /\ entry' = [c \in Calls |-> IF c \in C THEN st ELSE entry[c]]
      /\ left' = [c \in Calls |-> IF c \in C THEN 0 ELSE left[c]]
  BY DEF Settle
<1>2. /\ entry' \in [Calls -> Statuses] /\ left' \in [Calls -> Time]
      /\ \A c \in C : entry'[c] = st
      /\ \A c \in Calls : c \notin C => entry'[c] = entry[c] /\ left'[c] = left[c]
  BY <1>0, <1>1 DEF Rows
<1>3. Rows'
  BY <1>0, <1>2 DEF Rows
<1>4. \A c \in Calls : Over(c, entry, left) => Over(c, entry', left')
  BY <1>2 DEF Over
<1>5. Legal
  BY <1>0, <1>2, <1>3, <1>4 DEF Legal
<1>6. Stands
  BY <1>2 DEF Stands, Settled
<1>7. NoneNew
  BY <1>2 DEF NoneNew
<1> QED
  BY <1>5, <1>6, <1>7

LEMMA Claiming ==
    ASSUME Inv, NEW c \in Calls, NEW time \in Time, Claim(c, time), UNCHANGED session
    PROVE  Legal /\ Stands /\ NoneNew
<1>1. CASE entry[c] = "pending"
  <2>1. entry' = [entry EXCEPT ![c] = "notified"] /\ left' = [left EXCEPT ![c] = time]
    BY <1>1 DEF Claim
  <2>2. Rows
    BY DEF Inv
  <2>3. /\ entry' \in [Calls -> Statuses] /\ left' \in [Calls -> Time] /\ entry'[c] = "notified"
        /\ \A d \in Calls : d # c => entry'[d] = entry[d] /\ left'[d] = left[d]
    BY <2>1, <2>2 DEF Rows, Statuses, Unsettled
  <2>4. Rows'
    BY <1>1, <2>2, <2>3 DEF Rows
  <2>5. \A d \in Calls : Over(d, entry, left) => Over(d, entry', left')
    BY <1>1, <2>3 DEF Over, Settled
  <2>6. Legal
    BY <2>3, <2>4, <2>5 DEF Legal
  <2>7. Stands
    BY <1>1, <2>3 DEF Stands, Settled
  <2>8. NoneNew
    BY <1>1, <2>3 DEF NoneNew
  <2> QED
    BY <2>6, <2>7, <2>8
<1>2. CASE entry[c] # "pending"
  BY <1>2, SameRows DEF Claim, Inv
<1> QED
  BY <1>1, <1>2

LEMMA ExpireStep == ASSUME Inv, NEW a \in Callers, Expire(a) PROVE Inv' /\ Stands
<1> DEFINE c == advance[a].call
<1>1. /\ advance[a].pc = "expire"
      /\ UNCHANGED <<session, start, cancel, poll, job, due, faults>>
  BY DEF Expire, At
<1>2. c \in Calls /\ Over(c, entry, left)
  BY <1>1, AtWork DEF Advancing
<1>3. Rest'
  BY <1>1 DEF Inv, Rest
<1>4. CASE Called(c)
  <2>1. Settle({c}, "no_response") /\ Take(a, "count", Null)
    BY <1>4 DEF Expire
  <2>2. entry[c] = "notified" /\ left[c] = 0
    BY <1>2, <1>4 DEF Called, Over, Settled
  <2>3. Legal /\ Stands /\ NoneNew
    <3>1. {c} \in SUBSET Calls /\ "no_response" \in Settled
      BY <1>2 DEF Settled
    <3>2. \A d \in {c} : entry[d] = "notified" /\ left[d] = 0 /\ entry[d] \notin Settled
      BY <2>2 DEF Settled
    <3> HIDE DEF c
    <3> QED
      BY <1>1, <2>1, <3>1, <3>2, Settling
  <2>4. Advancers'
    BY <1>1, <2>1, <2>3, Takes DEF Phases
  <2> QED
    BY <1>1, <1>3, <2>3, <2>4, OthersStay
<1>5. CASE ~Called(c)
  <2>1. UNCHANGED <<entry, left>> /\ Take(a, "active", Null)
    BY <1>5 DEF Expire
  <2>2. Legal /\ Stands /\ NoneNew
    BY <1>1, <2>1, SameRows DEF Inv
  <2>3. Advancers'
    BY <1>1, <2>1, <2>2, Takes DEF Phases
  <2> QED
    BY <1>1, <1>3, <2>2, <2>3, OthersStay
<1> QED
  BY <1>4, <1>5

LEMMA NotifyNextStep == ASSUME Inv, NEW a \in Callers, NotifyNext(a) PROVE Inv' /\ Stands
<1>1. /\ advance[a].pc = "notify" /\ Claim(advance[a].call, Patience) /\ Leave(a)
      /\ UNCHANGED <<session, start, cancel, poll, job, due, faults>>
  BY DEF NotifyNext, At
<1>2. advance[a].call \in Calls /\ Patience \in Time
  BY <1>1, AtWork, Constants DEF Advancing, Time
<1>3. Legal /\ Stands /\ NoneNew
  BY <1>1, <1>2, Claiming
<1>4. Advancers' /\ Rest'
  BY <1>1, <1>3, Leaves DEF Inv, Rest
<1> QED
  BY <1>1, <1>3, <1>4, OthersStay

\* Sessions that end, and new ones.
LEMMA SessionMoves ==
    ASSUME Inv, NEW s \in Sessions, NEW st \in {"running", "completed", "cancelled"},
           st = "running" => session[s] = "none",
           st # "running" => session[s] = "running",
           session' = [session EXCEPT ![s] = st], UNCHANGED <<entry, left>>
    PROVE  Legal /\ Stands /\ NoneNew
<1>1. /\ session' \in [Sessions -> {"none", "running", "completed", "cancelled"}] /\ session'[s] = st
      /\ \A t \in Sessions : t # s => session'[t] = session[t]
  BY DEF Inv, Rows
<1>2. Rows'
  BY <1>1, Constants DEF Inv, Rows
<1>3. Legal
  BY <1>1, <1>2 DEF Legal, Ended, Over
<1> QED
  BY <1>3, SameRows DEF Stands, NoneNew, Settled

LEMMA CompleteStep == ASSUME Inv, NEW a \in Callers, Complete(a) PROVE Inv' /\ Stands
<1> DEFINE s == advance[a].session
<1>1. /\ advance[a].pc = "complete" /\ Leave(a)
      /\ session' = [session EXCEPT ![s] = IF session[s] = "running" THEN "completed" ELSE session[s]]
      /\ UNCHANGED <<entry, left, start, cancel, poll, job, due, faults>>
  BY DEF Complete, At
<1>2. s \in Sessions /\ Rows
  BY <1>1, AtWork DEF Inv
<1>3. Legal /\ Stands /\ NoneNew
  <2> HIDE DEF s
  <2>1. CASE session[s] = "running"
    BY <1>1, <1>2, <2>1, SessionMoves
  <2>2. CASE session[s] # "running"
    <3>1. session' = session
      BY <1>1, <1>2, <2>2 DEF Rows
    <3> QED
      BY <1>1, <1>2, <3>1, SameRows
  <2> QED
    BY <2>1, <2>2
<1>4. Advancers' /\ Rest'
  BY <1>1, <1>3, Leaves DEF Inv, Rest
<1> QED
  BY <1>1, <1>3, <1>4, OthersStay

LEMMA ReplyStep == ASSUME Inv, NEW c \in Calls, Reply(c) PROVE Inv' /\ Stands
<1> DEFINE r == [pc |-> "answered", session |-> SessionOf(c), call |-> Null]
<1>1. /\ entry[c] \in {"notified", "pending"} /\ Settle({c}, "responded")
      /\ advance' = [advance EXCEPT ![c] = r]
      /\ UNCHANGED <<session, start, cancel, poll, job, due, faults>>
  BY DEF Reply, Answerable
<1>2. Legal /\ Stands /\ NoneNew
  <2>1. {c} \in SUBSET Calls /\ "responded" \in Settled
    BY DEF Settled
  <2>2. \A d \in {c} : entry[d] # "none" /\ entry[d] \notin Settled
    BY <1>1 DEF Settled
  <2> QED
    BY <1>1, <2>1, <2>2, Settling
<1>3. r \in Advancer /\ Advancing(r, entry', left')
  BY Constants DEF Advancer, Advancing
<1>4. c \in Callers
  BY Constants
<1> HIDE DEF r
<1>5. Advancers' /\ Rest'
  BY <1>1, <1>2, <1>3, <1>4, AdvancerMoves DEF Inv, Rest
<1> QED
  BY <1>1, <1>2, <1>5, OthersStay

-----------------------------------------------------------------------------
(* Polls and cancellations *)

\* A poll of one supervisor that goes on or ends, while no entry is created.
LEMMA PollMoves ==
    ASSUME Inv, Legal, NoneNew, NEW u \in Supervisors, NEW p \in Poller, Polling(u, p, session', entry'),
           poll' = [poll EXCEPT ![u] = p]
    PROVE  Polls'
<1>1. poll' \in [Supervisors -> Poller] /\ poll'[u] = p
      /\ \A v \in Supervisors : v # u => poll'[v] = poll[v]
  BY DEF Inv, Polls
<1>2. ASSUME NEW v \in Supervisors, v # u PROVE Polling(v, poll[v], session', entry')
  BY Constants DEF Inv, Polls, Polling, Legal, NoneNew
<1> QED
  BY <1>1, <1>2 DEF Polls

LEMMA PollControl ==
    ASSUME Inv, NEW u \in Supervisors,
           (\E s \in Sessions : PollFind(u, s)) \/ PollClaim(u) \/ PollFails(u)
    PROVE  Inv' /\ Stands
<1>1. ASSUME NEW s \in Sessions, PollFind(u, s) PROVE Inv' /\ Stands
  <2>1. session[s] = "running" /\ UNCHANGED <<session, entry, left, start, advance, cancel, job, due, faults>>
    BY <1>1 DEF PollFind, rows
  <2>2. Legal /\ Stands /\ NoneNew
    BY <2>1, SameRows DEF Inv
  <2>3. ASSUME \E t \in {u, Minted(u)} \cap Targets : PollGoes(u, "claim", s, <<s, t>>) PROVE Polls'
    <3>1. PICK t \in Targets : PollGoes(u, "claim", s, <<s, t>>)
      BY <2>3, Zenon
    <3>2. PICK p : p = [pc |-> "claim", session |-> s, call |-> <<s, t>>]
      OBVIOUS
    <3>3. p \in Poller /\ Polling(u, p, session', entry')
      BY <3>2, Constants DEF Poller, Polling
    <3>4. poll' = [poll EXCEPT ![u] = p]
      BY <3>1, <3>2 DEF PollGoes
    <3> QED
      BY <2>2, <3>3, <3>4, PollMoves
  <2>4. ASSUME ~Has(u, s), PollGoes(u, "mint", s, Null) PROVE Polls'
    <3>1. entry[<<s, Minted(u)>>] = "none"
      BY <2>4, Constants DEF Has
    <3>2. PICK p : p = [pc |-> "mint", session |-> s, call |-> Null]
      OBVIOUS
    <3>3. p \in Poller /\ Polling(u, p, session', entry')
      BY <2>1, <3>1, <3>2 DEF Poller, Polling
    <3>4. poll' = [poll EXCEPT ![u] = p]
      BY <2>4, <3>2 DEF PollGoes
    <3> QED
      BY <2>2, <3>3, <3>4, PollMoves
  <2>5. Polls'
    BY <1>1, <2>3, <2>4, Zenon DEF PollFind
  <2> QED
    BY <2>1, <2>2, <2>5, StartersStay, AdvancersStay, CancelsStay, JobStays DEF Inv, Rest, Legal
<1>2. CASE PollClaim(u)
  <2>1. /\ Claim(poll[u].call, Window) /\ PollEnds(u) /\ poll[u].pc = "claim"
        /\ UNCHANGED <<session, start, advance, cancel, job, due, faults>>
    BY <1>2 DEF PollClaim
  <2>2. poll[u].call \in Calls /\ Window \in Time
    <3>1. poll[u] \in Poller /\ Polling(u, poll[u], session, entry)
      BY DEF Inv, Polls
    <3> QED
      BY <2>1, <3>1, Constants DEF Polling, Poller, Time
  <2>3. Legal /\ Stands /\ NoneNew
    BY <2>1, <2>2, Claiming
  <2>4. Polls'
    BY <2>1, <2>3, RestingPolls, PollMoves DEF PollEnds
  <2>5. Advancers' /\ Rest'
    BY <2>1, <2>3, AdvancersStay DEF Inv, Rest
  <2> QED
    BY <2>1, <2>3, <2>4, <2>5, StartersStay, CancelsStay, JobStays DEF Inv, Legal
<1>3. CASE PollFails(u)
  <2>1. PollEnds(u) /\ UNCHANGED <<session, entry, left, start, advance, cancel, job, due, faults>>
    BY <1>3 DEF PollFails, rows
  <2>2. Legal /\ Stands /\ NoneNew
    BY <2>1, SameRows DEF Inv
  <2>3. Polls'
    BY <2>1, <2>2, RestingPolls, PollMoves DEF PollEnds
  <2> QED
    BY <2>1, <2>2, <2>3, StartersStay, AdvancersStay, CancelsStay, JobStays DEF Inv, Rest, Legal
<1> QED
  BY <1>1, <1>2, <1>3

\* An entry that is created: nothing was waiting for it to stay away but its creator.
LEMMA Creating ==
    ASSUME Inv, NEW s \in Sessions, NEW t \in Targets, NEW st \in Statuses \ {"none"}, NEW time \in Time,
           entry[<<s, t>>] = "none", session[s] # "none", UNCHANGED session,
           entry' = [entry EXCEPT ![<<s, t>>] = st],
           left' = [left EXCEPT ![<<s, t>>] = time]
    PROVE  Legal /\ Stands /\ \A c \in Calls : c # <<s, t>> => entry'[c] = entry[c]
<1> DEFINE c == <<s, t>>
<1>0. c \in Calls /\ SessionOf(c) = s /\ Rows
  BY Constants DEF Inv
<1> HIDE DEF c
<1>1. /\ entry' \in [Calls -> Statuses] /\ left' \in [Calls -> Time] /\ entry'[c] = st
      /\ \A d \in Calls : d # c => entry'[d] = entry[d] /\ left'[d] = left[d]
  BY <1>0 DEF Rows, c
<1>2. Rows'
  BY <1>0, <1>1 DEF Rows
<1>3. entry[c] = "none"
  BY DEF c
<1>4. \A d \in Calls : Over(d, entry, left) => Over(d, entry', left')
  BY <1>1, <1>3 DEF Over, Settled
<1>5. Legal
  BY <1>1, <1>2, <1>3, <1>4 DEF Legal
<1>6. Stands
  BY <1>1, <1>3 DEF Stands, Settled
<1>7. \A d \in Calls : d # c => entry'[d] = entry[d]
  BY <1>1
<1> QED
  BY <1>5, <1>6, <1>7 DEF c

LEMMA MintStep == ASSUME Inv, NEW u \in Supervisors, Mint(u) PROVE Inv' /\ Stands
<1> DEFINE s == poll[u].session
<1>1. /\ poll[u].pc = "mint"
      /\ entry' = [entry EXCEPT ![<<s, Minted(u)>>] = "notified"]
      /\ left' = [left EXCEPT ![<<s, Minted(u)>>] = Window]
      /\ poll' = [poll EXCEPT ![u] = Resting]
      /\ UNCHANGED <<session, start, advance, cancel, job, due, faults>>
  BY DEF Mint, PollEnds
<1>2. s \in Sessions /\ entry[<<s, Minted(u)>>] = "none" /\ session[s] # "none"
  BY <1>1 DEF Inv, Polls, Polling
<1>3. Window \in Time /\ Minted(u) \in Targets /\ "notified" \in Statuses \ {"none"}
  BY Constants DEF Time, Statuses, Unsettled
<1> HIDE DEF s
<1>4. Legal /\ Stands /\ \A c \in Calls : c # <<s, Minted(u)>> => entry'[c] = entry[c]
  BY <1>1, <1>2, <1>3, Creating
<1>5. \A v \in Supervisors : v # u => Minted(v) # Minted(u)
  BY DEF Minted
<1>6. Polls'
  <2>1. poll' \in [Supervisors -> Poller] /\ poll'[u] = Resting
        /\ \A v \in Supervisors : v # u => poll'[v] = poll[v]
    BY <1>1, RestingPolls DEF Inv, Polls
  <2>2. ASSUME NEW v \in Supervisors, v # u PROVE Polling(v, poll[v], session', entry')
    <3>1. Polling(v, poll[v], session, entry)
      BY DEF Inv, Polls
    <3>2. CASE poll[v].pc = "mint"
      <4>1. LET c == <<poll[v].session, Minted(v)>> IN c \in Calls /\ c # <<s, Minted(u)>>
        BY <1>5, <2>2, <3>1, <3>2, Constants DEF Polling
      <4> QED
        BY <1>1, <1>4, <3>1, <3>2, <4>1 DEF Polling
    <3> QED
      BY <3>1, <3>2 DEF Polling
  <2> QED
    BY <2>1, <2>2, RestingPolls DEF Polls
<1>7. Starters'
  <2>1. ASSUME NEW r \in Sessions PROVE Starting(r, start[r], session', entry')
    <3>1. Starting(r, start[r], session, entry)
      BY DEF Inv, Starters
    <3>2. ASSUME start[r].pc = "create", NEW t \in start[r].todo PROVE entry'[<<r, t>>] = "none"
      <4>1. entry[<<r, t>>] = "none" /\ t \in Stations \cup OnDuty
        BY <3>1, <3>2 DEF Starting
      <4>2. t # Minted(u) /\ t \in Targets
        BY <4>1, Constants DEF Targets
      <4>3. <<r, t>> \in Calls /\ <<r, t>> # <<s, Minted(u)>>
        BY <4>2, Constants
      <4> QED
        BY <1>4, <4>1, <4>3
    <3> QED
      BY <1>1, <3>1, <3>2 DEF Starting
  <2> QED
    BY <1>1, <2>1 DEF Inv, Starters
<1>8. Advancers' /\ Cancels' /\ TheJob' /\ Rest'
  BY <1>1, <1>4, AdvancersStay, CancelsStay, JobStays DEF Inv, Rest
<1> QED
  BY <1>4, <1>6, <1>7, <1>8 DEF Inv, Legal

\* Steps of cancelSession after the session's own.
LEMMA CancelMoves ==
    ASSUME Inv, Legal, NoneNew, NEW s \in Sessions, NEW pc \in {"called", "pending", "done"},
           pc # "done" => Ended(s, session'), cancel' = [cancel EXCEPT ![s] = pc],
           UNCHANGED <<start, advance, poll, job, due>>, Rest'
    PROVE  Inv'
<1>1. cancel' \in [Sessions -> {"never", "called", "pending", "done"}] /\ cancel'[s] = pc
      /\ \A t \in Sessions : t # s => cancel'[t] = cancel[t]
  BY DEF Inv, Cancels
<1>2. Cancels'
  BY <1>1 DEF Inv, Cancels, Legal, Ended
<1> QED
  BY <1>2, StartersStay, AdvancersStay, PollsStay, JobStays DEF Inv, Legal

LEMMA CancelSteps ==
    ASSUME Inv, NEW s \in Sessions, Cancel(s) \/ CancelCalled(s) \/ CancelPending(s) \/ CancelFails(s)
    PROVE  Inv' /\ Stands
<1>0. /\ UNCHANGED <<start, advance, poll, job, due>>
      /\ cancel[s] \in {"called", "pending"} => Ended(s, session)
      /\ InState(s, "notified") \in SUBSET Calls /\ InState(s, "pending") \in SUBSET Calls
  BY Constants DEF Cancel, CancelCalled, CancelPending, CancelFails, rows, Inv, Cancels, InState
<1>1. CASE Cancel(s)
  <2>1. /\ session[s] # "none" /\ cancel' = [cancel EXCEPT ![s] = "called"]
        /\ session' = [session EXCEPT ![s] = IF session[s] = "running" THEN "cancelled" ELSE session[s]]
        /\ UNCHANGED <<entry, left, faults>>
    BY <1>1 DEF Cancel
  <2>2. Legal /\ Stands /\ NoneNew /\ Ended(s, session')
    <3>1. CASE session[s] = "running"
      <4>1. session' = [session EXCEPT ![s] = "cancelled"]
        BY <2>1, <3>1
      <4>2. Legal /\ Stands /\ NoneNew
        BY <2>1, <3>1, <4>1, SessionMoves
      <4> QED
        BY <4>1, <4>2 DEF Ended, Inv, Rows
    <3>2. CASE session[s] # "running"
      <4>1. session' = session
        BY <2>1, <3>2 DEF Inv, Rows
      <4> QED
        BY <2>1, <3>2, <4>1, SameRows DEF Inv, Ended
    <3> QED
      BY <3>1, <3>2
  <2> QED
    BY <1>0, <2>1, <2>2, CancelMoves DEF Inv, Rest
<1>2. CASE CancelCalled(s)
  <2>1. /\ cancel[s] = "called" /\ Settle(InState(s, "notified"), "no_response")
        /\ cancel' = [cancel EXCEPT ![s] = "pending"] /\ UNCHANGED <<session, faults>>
    BY <1>2 DEF CancelCalled
  <2>2. \A c \in InState(s, "notified") : entry[c] # "none" /\ session[SessionOf(c)] # "running"
    BY <1>0, <2>1, Constants DEF InState, Ended
  <2>3. Legal /\ Stands /\ NoneNew
    BY <1>0, <2>1, <2>2, Settling DEF Settled
  <2> QED
    BY <1>0, <2>1, <2>3, CancelMoves DEF Inv, Rest
<1>3. CASE CancelPending(s)
  <2>1. /\ cancel[s] = "pending" /\ Settle(InState(s, "pending"), "skipped")
        /\ cancel' = [cancel EXCEPT ![s] = "done"] /\ UNCHANGED <<session, faults>>
    BY <1>3 DEF CancelPending
  <2>2. \A c \in InState(s, "pending") : entry[c] # "none" /\ session[SessionOf(c)] # "running"
    BY <1>0, <2>1, Constants DEF InState, Ended
  <2>3. Legal /\ Stands /\ NoneNew
    BY <1>0, <2>1, <2>2, Settling DEF Settled
  <2> QED
    BY <1>0, <2>1, <2>3, CancelMoves DEF Inv, Rest
<1>4. CASE CancelFails(s)
  <2>1. /\ cancel' = [cancel EXCEPT ![s] = "done"] /\ Fault /\ UNCHANGED <<session, entry, left>>
    BY <1>4 DEF CancelFails, rows
  <2>2. Legal /\ Stands /\ NoneNew
    BY <2>1, SameRows DEF Inv
  <2>3. Rest'
    BY <1>0, <2>1, FaultType DEF Inv
  <2> QED
    BY <1>0, <2>1, <2>2, <2>3, CancelMoves
<1> QED
  BY <1>1, <1>2, <1>3, <1>4

-----------------------------------------------------------------------------
(* startSession *)

LEMMA StarterMoves ==
    ASSUME Starters, NEW s \in Sessions, NEW r \in Starter, Starting(s, r, session', entry'),
           \A t \in Sessions : t # s => Starting(t, start[t], session', entry'),
           start' = [start EXCEPT ![s] = r]
    PROVE  Starters'
<1>1. start' \in [Sessions -> Starter] /\ start'[s] = r
      /\ \A t \in Sessions : t # s => start'[t] = start[t]
  BY DEF Starters
<1> QED
  BY <1>1 DEF Starters

\* A starter that moves while no entry is created.
LEMMA StarterGoes ==
    ASSUME Inv, Legal, NoneNew, NEW s \in Sessions, NEW r \in Starter, Starting(s, r, session', entry'),
           start' = [start EXCEPT ![s] = r], UNCHANGED <<advance, cancel, poll, job, due>>, Rest'
    PROVE  Inv'
<1>1. ASSUME NEW t \in Sessions PROVE Starting(t, start[t], session', entry')
  <2>1. Starting(t, start[t], session, entry) /\ start[t].todo \subseteq Targets
    BY DEF Inv, Starters, Starter
  <2> QED
    BY <2>1, Constants DEF Starting, Legal, NoneNew
<1>2. Starters'
  BY <1>1, StarterMoves DEF Inv
<1> QED
  BY <1>2, AdvancersStay, CancelsStay, PollsStay, JobStays DEF Inv, Legal

LEMMA StarterParts ==
    ASSUME Inv, NEW s \in Sessions
    PROVE  /\ start[s] \in Starter /\ Starting(s, start[s], session, entry)
           /\ start[s].todo \subseteq Targets /\ start[s].all \in BOOLEAN /\ start[s].left \in Time
           /\ start[s].pc \in {"idle", "create", "notify"}
BY DEF Inv, Starters, Starter

LEMMA StoppedParts == Stopped \in Starter /\ Stopped.pc = "idle"
BY Constants DEF Stopped, Starter, Time

\* A session that starts has no entry yet.
LEMMA CreateMoves ==
    ASSUME Inv, NEW s \in Sessions, NEW all \in BOOLEAN, NEW T, T \subseteq Stations \cup OnDuty,
           Create(s, all, T), UNCHANGED <<entry, left>>
    PROVE  Legal /\ Stands /\ NoneNew /\ Starters' /\ session'[s] # "none"
<1> DEFINE r == [pc |-> "create", todo |-> T, all |-> all, left |-> 0]
<1>1. /\ session[s] = "none" /\ session' = [session EXCEPT ![s] = "running"]
      /\ start' = [start EXCEPT ![s] = r]
  BY DEF Create
<1>2. Legal /\ Stands /\ NoneNew
  BY <1>1, SessionMoves
<1>3. session'[s] = "running" /\ T \subseteq Targets
  BY <1>1 DEF Inv, Rows, Targets
<1>4. \A t \in T : entry[<<s, t>>] = "none"
  BY <1>1, <1>3, Constants DEF Inv, Rows
<1>5. r \in Starter
  BY <1>3, Constants DEF Starter, Time
<1>6. Starting(s, r, session', entry')
  BY <1>3, <1>4 DEF Starting
<1> HIDE DEF r
<1>7. ASSUME NEW t \in Sessions PROVE Starting(t, start[t], session', entry')
  BY <1>2, StarterParts DEF Starting, Legal
<1>8. Starters'
  BY <1>1, <1>5, <1>6, <1>7, StarterMoves DEF Inv
<1> QED
  BY <1>2, <1>3, <1>8

LEMMA StartStep == ASSUME Inv, NEW s \in Sessions, StartManually(s) PROVE Inv' /\ Stands
<1>1. UNCHANGED <<entry, left, advance, cancel, poll, job, due, faults>>
  BY DEF StartManually
<1>2. \E all \in BOOLEAN, T \in SUBSET (Stations \cup OnDuty) : Create(s, all, T)
  <2>1. \A p \in Stations : {p} \in SUBSET (Stations \cup OnDuty)
    OBVIOUS
  <2> QED
    BY <2>1 DEF StartManually
<1>3. Legal /\ Stands /\ NoneNew /\ Starters'
  BY <1>1, <1>2, CreateMoves
<1> QED
  BY <1>1, <1>3, AdvancersStay, CancelsStay, PollsStay, JobStays DEF Inv, Legal, Rest

LEMMA CreateEntryStep ==
    ASSUME Inv, NEW s \in Sessions, NEW t \in Targets, CreateEntry(s, t)
    PROVE  Inv' /\ Stands
<1> DEFINE st == IF t \in Unmanned /\ start[s].all THEN "skipped" ELSE "pending"
           r  == [start[s] EXCEPT !.todo = start[s].todo \ {t}]
           time == left[<<s, t>>]
<1>1. /\ start[s].pc = "create" /\ t \in start[s].todo
      /\ entry' = [entry EXCEPT ![<<s, t>>] = st]
      /\ start' = [start EXCEPT ![s] = r]
      /\ UNCHANGED <<session, left, advance, cancel, poll, job, due, faults>>
  BY DEF CreateEntry
<1>2. st \in Statuses \ {"none"}
  BY DEF Statuses, Unsettled, Settled
<1>3. entry[<<s, t>>] = "none" /\ session[s] # "none" /\ t \in Stations \cup OnDuty
  BY <1>1, StarterParts DEF Starting
<1>4. time \in Time /\ left' = [left EXCEPT ![<<s, t>>] = time]
  BY <1>1, Constants DEF Inv, Rows
<1>5. /\ r \in Starter /\ r.pc = "create" /\ r.todo = start[s].todo \ {t}
  <2>1. start[s] \in Starter
    BY StarterParts
  <2> QED
    BY <1>1, <2>1 DEF Starter
<1> HIDE DEF st, r, time
<1>6. Legal /\ Stands /\ \A c \in Calls : c # <<s, t>> => entry'[c] = entry[c]
  BY <1>1, <1>2, <1>3, <1>4, Creating
<1>7. Starting(s, r, session', entry')
  <2>1. ASSUME NEW w \in r.todo PROVE entry'[<<s, w>>] = "none"
    <3>1. w \in start[s].todo /\ w # t /\ w \in Targets
      BY <1>5, StarterParts
    <3>2. entry[<<s, w>>] = "none"
      BY <1>1, <3>1, StarterParts DEF Starting
    <3>3. <<s, w>> \in Calls /\ <<s, w>> # <<s, t>>
      BY <3>1, Constants
    <3> QED
      BY <1>6, <3>2, <3>3
  <2>2. start[s].todo \subseteq Stations \cup OnDuty
    BY <1>1, StarterParts DEF Starting
  <2> QED
    BY <1>1, <1>3, <1>5, <2>1, <2>2 DEF Starting
<1>8. ASSUME NEW o \in Sessions, o # s PROVE Starting(o, start[o], session', entry')
  <2>1. ASSUME start[o].pc = "create", NEW w \in start[o].todo PROVE entry'[<<o, w>>] = "none"
    <3>1. entry[<<o, w>>] = "none" /\ <<o, w>> \in Calls /\ <<o, w>> # <<s, t>>
      BY <1>8, <2>1, StarterParts, Constants DEF Starting
    <3> QED
      BY <1>6, <3>1
  <2> QED
    BY <1>1, <2>1, StarterParts DEF Starting
<1>9. Starters'
  BY <1>1, <1>5, <1>7, <1>8, StarterMoves DEF Inv
<1>10. Polls'
  <2>1. ASSUME NEW u \in Supervisors PROVE Polling(u, poll[u], session', entry')
    <3>1. Polling(u, poll[u], session, entry)
      BY DEF Inv, Polls
    <3>2. CASE poll[u].pc = "mint"
      <4>1. Minted(u) # t /\ Minted(u) \in Targets
        BY <1>3, Constants
      <4>2. LET c == <<poll[u].session, Minted(u)>> IN c \in Calls /\ c # <<s, t>>
        BY <3>1, <3>2, <4>1, Constants DEF Polling
      <4> QED
        BY <1>1, <1>6, <3>1, <3>2, <4>2 DEF Polling
    <3> QED
      BY <3>1, <3>2 DEF Polling
  <2> QED
    BY <1>1, <2>1 DEF Inv, Polls
<1>11. Advancers' /\ Cancels' /\ TheJob' /\ Rest'
  BY <1>1, <1>6, AdvancersStay, CancelsStay, JobStays DEF Inv, Rest
<1> QED
  BY <1>6, <1>9, <1>10, <1>11 DEF Inv, Legal

LEMMA NotifySteps ==
    ASSUME Inv, NEW s \in Sessions,
           ListPending(s) \/ StartFails(s) \/ \E t \in Targets : NotifyAll(s, t)
    PROVE  Inv' /\ Stands
<1>0. UNCHANGED <<session, advance, cancel, poll, job, due>> /\ Stopped \in Starter /\ start[s] \in Starter
  BY StoppedParts, StarterParts DEF ListPending, StartFails, NotifyAll, rows
<1>1. CASE ListPending(s)
  <2> DEFINE T == {t \in Targets : entry[<<s, t>>] = "pending"}
             r == [start[s] EXCEPT !.left = Window, !.todo = T]
             n == [r EXCEPT !.pc = "notify"]
  <2>1. /\ start' = [start EXCEPT ![s] = NotifyOrReturn(r)] /\ start[s].pc = "create"
        /\ UNCHANGED <<entry, left, faults>>
    BY <1>1 DEF ListPending, rows
  <2>2. n \in Starter /\ n.pc = "notify"
    <3>1. r \in Starter
      <4> DEFINE q == [start[s] EXCEPT !.left = Window]
      <4>1. q \in Starter
        BY <1>0, Constants DEF Starter, Time
      <4>2. [q EXCEPT !.todo = T] \in Starter
        <5> HIDE DEF q
        <5> QED
          BY <4>1 DEF Starter
      <4> QED
        BY <4>2, Zenon
    <3> HIDE DEF r
    <3> QED
      BY <3>1 DEF Starter
  <2>3. NotifyOrReturn(r) = Stopped \/ NotifyOrReturn(r) = n
    BY DEF NotifyOrReturn
  <2> HIDE DEF n
  <2>4. session[s] # "none"
    BY <2>1, StarterParts DEF Starting
  <2>5. /\ NotifyOrReturn(r) \in Starter
        /\ Starting(s, NotifyOrReturn(r), session', entry')
    BY <1>0, <2>2, <2>3, <2>4, StoppedParts DEF Starting
  <2>6. Legal /\ Stands /\ NoneNew /\ Rest'
    BY <1>0, <2>1, SameRows DEF Inv, Rest
  <2> HIDE DEF r
  <2> QED
    BY <1>0, <2>1, <2>5, <2>6, StarterGoes
<1>2. CASE StartFails(s)
  <2>1. start' = [start EXCEPT ![s] = Stopped] /\ Fault /\ UNCHANGED <<entry, left>>
    BY <1>2 DEF StartFails, rows
  <2>2. Legal /\ Stands /\ NoneNew /\ Rest'
    BY <1>0, <2>1, SameRows, FaultType DEF Inv
  <2>3. Starting(s, Stopped, session', entry')
    BY StoppedParts DEF Starting
  <2> QED
    BY <1>0, <2>1, <2>2, <2>3, StarterGoes
<1>3. ASSUME NEW t \in Targets, NotifyAll(s, t) PROVE Inv' /\ Stands
  <2> DEFINE r == [start[s] EXCEPT !.todo = start[s].todo \ {t}]
             n == [r EXCEPT !.pc = "notify"]
  <2>1. /\ start[s].pc = "notify" /\ Claim(<<s, t>>, start[s].left)
        /\ start' = [start EXCEPT ![s] = NotifyOrReturn(r)] /\ UNCHANGED faults
    BY <1>3 DEF NotifyAll
  <2>2. n \in Starter /\ n.pc = "notify"
    <3>1. r \in Starter
      BY <1>0 DEF Starter
    <3> HIDE DEF r
    <3> QED
      BY <3>1 DEF Starter
  <2>3. NotifyOrReturn(r) = Stopped \/ NotifyOrReturn(r) = n
    BY DEF NotifyOrReturn
  <2> HIDE DEF n
  <2>4. session[s] # "none" /\ start[s].left \in Time
    BY <2>1, StarterParts DEF Starting
  <2>5. /\ NotifyOrReturn(r) \in Starter
        /\ Starting(s, NotifyOrReturn(r), session', entry')
    BY <1>0, <2>2, <2>3, <2>4, StoppedParts DEF Starting
  <2>6. Legal /\ Stands /\ NoneNew /\ Rest'
    BY <1>0, <2>1, <2>4, Constants, Claiming DEF Inv, Rest
  <2> HIDE DEF r
  <2> QED
    BY <1>0, <2>1, <2>5, <2>6, StarterGoes
<1> QED
  BY <1>1, <1>2, <1>3

-----------------------------------------------------------------------------
(* The job *)

\* A step of the job that leaves the rows alone.
LEMMA JobMoves ==
    ASSUME Inv, UNCHANGED <<session, entry, left, start, cancel, poll>>, Advancers', TheJob', Rest'
    PROVE  Inv' /\ Stands
<1>1. Legal /\ Stands /\ NoneNew
  BY SameRows DEF Inv
<1> QED
  BY <1>1, StartersStay, CancelsStay, PollsStay DEF Inv, Legal

JobWith(pc, todo, orphans, s) == [pc |-> pc, todo |-> todo, orphans |-> orphans, session |-> s]

LEMMA JobParts ==
    ASSUME Inv
    PROVE  /\ job.todo \subseteq Sessions /\ job.orphans \subseteq Calls
           /\ job.session \in Sessions \cup {Null} /\ Sweeping(job, session, entry)
           /\ Rows /\ Advancers
BY DEF Inv, TheJob, Scheduler

\* Updates of a record, written out.
LEMMA JobUpdates ==
    ASSUME Inv, NEW a, NEW b
    PROVE  /\ [job EXCEPT !.pc = a] = JobWith(a, job.todo, job.orphans, job.session)
           /\ [job EXCEPT !.pc = a, !.todo = b] = JobWith(a, b, job.orphans, job.session)
           /\ [job EXCEPT !.pc = a, !.orphans = b] = JobWith(a, job.todo, b, job.session)
           /\ [job EXCEPT !.pc = a, !.session = b] = JobWith(a, job.todo, job.orphans, b)
           /\ [job EXCEPT !.todo = b] = JobWith(job.pc, b, job.orphans, job.session)
<1>0. job \in Scheduler
  BY DEF Inv, TheJob
<1> DEFINE n == [job EXCEPT !.pc = a]
<1>1. n = JobWith(a, job.todo, job.orphans, job.session)
  BY <1>0 DEF JobWith, Scheduler
<1>2. [job EXCEPT !.todo = b] = JobWith(job.pc, b, job.orphans, job.session)
  BY <1>0 DEF JobWith, Scheduler
<1>3. /\ [n EXCEPT !.todo = b] = JobWith(a, b, job.orphans, job.session)
      /\ [n EXCEPT !.orphans = b] = JobWith(a, job.todo, b, job.session)
      /\ [n EXCEPT !.session = b] = JobWith(a, job.todo, job.orphans, b)
  <2> HIDE DEF n
  <2> QED
    BY <1>1 DEF JobWith
<1>4. [job EXCEPT !.pc = a, !.todo = b] = JobWith(a, b, job.orphans, job.session)
  BY <1>3, Zenon
<1>5. [job EXCEPT !.pc = a, !.orphans = b] = JobWith(a, job.todo, b, job.session)
  BY <1>3, Zenon
<1>6. [job EXCEPT !.pc = a, !.session = b] = JobWith(a, job.todo, job.orphans, b)
  BY <1>3, Zenon
<1> QED
  BY <1>1, <1>2, <1>4, <1>5, <1>6, Zenon

\* The job in its next state.
LEMMA JobIs ==
    ASSUME Inv,
           NEW pc \in {"idle", "advance", "live", "sweep", "auto", "check", "create", "start"},
           NEW todo \in SUBSET Sessions, NEW orphans \in SUBSET Calls, NEW s \in Sessions \cup {Null},
           job' = JobWith(pc, todo, orphans, s),
           pc \in {"live", "sweep"} => \A c \in orphans : entry'[c] # "none",
           pc = "sweep" => \A c \in orphans : Ended(SessionOf(c), session'),
           pc = "start" => s # Null
    PROVE  TheJob'
<1>1. /\ JobWith(pc, todo, orphans, s) \in Scheduler
      /\ Sweeping(JobWith(pc, todo, orphans, s), session', entry')
  BY DEF JobWith, Scheduler, Sweeping
<1> QED
  BY <1>1 DEF TheJob

LEMMA JobControl ==
    ASSUME Inv, JobTick \/ JobNotified \/ JobLive \/ JobClaim \/ JobCheck \/ JobCannotStart \/ JobStarted
    PROVE  Inv' /\ Stands
<1>0. UNCHANGED <<session, entry, left, start, advance, cancel, poll, faults>>
  BY DEF JobTick, JobNotified, JobLive, JobClaim, JobCheck, JobCannotStart, JobStarted, rows
<1>1. Rest'
  BY <1>0 DEF Inv, Rest, JobTick, JobNotified, JobLive, JobClaim, JobCheck, JobCannotStart, JobStarted
<1>2. Advancers'
  BY <1>0 DEF Inv, Advancers
<1>3. JobRests => TheJob'
  BY JobIs DEF JobRests, JobWith
<1>4. TheJob'
  <2>1. CASE JobTick
    <3> DEFINE T == {s \in Sessions : session[s] = "running"}
    <3>1. job' = [job EXCEPT !.pc = "advance", !.todo = T]
      BY <2>1 DEF JobTick
    <3> HIDE DEF T
    <3>2. job' = JobWith("advance", T, job.orphans, job.session)
      BY <3>1, JobUpdates
    <3>3. T \in SUBSET Sessions
      BY DEF T
    <3> QED
      BY <3>2, <3>3, JobParts, JobIs
  <2>2. CASE JobNotified
    <3> DEFINE T == {c \in Calls : entry[c] = "notified"}
    <3>1. job' = [job EXCEPT !.pc = "live", !.orphans = T]
      BY <2>2 DEF JobNotified
    <3>2. T \in SUBSET Calls /\ \A c \in T : entry'[c] # "none"
      BY <1>0
    <3> HIDE DEF T
    <3>3. job' = JobWith("live", job.todo, T, job.session)
      BY <3>1, JobUpdates
    <3> QED
      BY <3>2, <3>3, JobParts, JobIs
  <2>3. CASE JobLive
    <3> DEFINE T == {c \in job.orphans : Orphan(c)}
    <3>1. job' = [job EXCEPT !.pc = "sweep", !.orphans = T] /\ job.pc = "live"
      BY <2>3 DEF JobLive, JobAt
    <3>2. T \in SUBSET Calls /\ \A c \in T : entry'[c] # "none" /\ Ended(SessionOf(c), session')
      BY <1>0, <3>1, JobParts DEF Orphan, Ended, Rows, Sweeping
    <3> HIDE DEF T
    <3>3. job' = JobWith("sweep", job.todo, T, job.session)
      BY <3>1, JobUpdates
    <3> QED
      BY <3>2, <3>3, JobParts, JobIs
  <2>4. CASE JobClaim \/ JobCheck
    <3>1. CASE JobRests
      BY <1>3, <3>1
    <3>2. CASE \E pc \in {"check", "create"} : JobGoto(pc)
      <4>1. PICK pc \in {"check", "create"} : JobGoto(pc)
        BY <3>2
      <4>2. job' = JobWith(pc, job.todo, job.orphans, job.session)
        BY <4>1, JobUpdates DEF JobGoto
      <4> QED
        BY <4>2, JobParts, JobIs
    <3> QED
      BY <2>4, <3>1, <3>2 DEF JobClaim, JobCheck
  <2>5. CASE JobCannotStart \/ JobStarted
    BY <1>3, <2>5 DEF JobCannotStart, JobStarted
  <2> QED
    BY <2>1, <2>2, <2>3, <2>4, <2>5
<1> QED
  BY <1>0, <1>1, <1>2, <1>4, JobMoves

LEMMA JobCalls ==
    ASSUME Inv, JobFails \/ \E s \in Sessions : JobAdvance(s)
    PROVE  Inv' /\ Stands
<1>0. UNCHANGED <<session, entry, left, start, cancel, poll>> /\ Job \in Callers /\ Legal
  BY Constants, SameRows DEF JobAdvance, JobFails, rows, Inv
<1>1. CASE JobFails
  <2>1. JobRests /\ advance' = [advance EXCEPT ![Job] = Resting] /\ Fault /\ UNCHANGED due
    BY <1>1 DEF JobFails
  <2>2. TheJob'
    BY <2>1, JobIs DEF JobRests, JobWith
  <2>3. Advancers'
    BY <1>0, <2>1, Leaves DEF Leave
  <2>4. Rest'
    BY <2>1, FaultType DEF Inv
  <2> QED
    BY <1>0, <2>2, <2>3, <2>4, JobMoves
<1>2. ASSUME NEW s \in Sessions, JobAdvance(s) PROVE Inv' /\ Stands
  <2> DEFINE r == [pc |-> "load", session |-> s, call |-> Null]
             T == job.todo \ {s}
  <2>1. /\ advance' = [advance EXCEPT ![Job] = r] /\ job.pc = "advance"
        /\ job' = [job EXCEPT !.todo = T] /\ UNCHANGED <<due, faults>>
    BY <1>2 DEF JobAdvance, JobAt
  <2>2. r \in Advancer /\ Advancing(r, entry', left')
    BY Constants DEF Advancer, Advancing
  <2>3. T \in SUBSET Sessions
    BY JobParts
  <2> HIDE DEF r, T
  <2>4. Advancers'
    BY <1>0, <2>1, <2>2, AdvancerMoves DEF Inv
  <2>5. job' = JobWith("advance", T, job.orphans, job.session)
    BY <2>1, JobUpdates
  <2>6. TheJob'
    BY <2>3, <2>5, JobParts, JobIs
  <2>7. Rest'
    BY <2>1 DEF Inv, Rest
  <2> QED
    BY <1>0, <2>4, <2>6, <2>7, JobMoves
<1> QED
  BY <1>1, <1>2

\* What the job sweeps without a condition is no call of a running session.
LEMMA SweepStep == ASSUME Inv, JobSweep PROVE Inv' /\ Stands
<1>1. /\ job.pc = "sweep" /\ Settle(job.orphans, "no_response")
      /\ job' = [job EXCEPT !.pc = "auto", !.orphans = {}]
      /\ UNCHANGED <<session, start, advance, cancel, poll, due, faults>>
  BY DEF JobSweep, JobAt
<1>2. \A c \in job.orphans : entry[c] # "none" /\ session[SessionOf(c)] # "running"
  BY <1>1, JobParts DEF Sweeping, Ended
<1>3. Legal /\ Stands /\ NoneNew
  BY <1>1, <1>2, JobParts, Settling DEF Settled
<1>4. job' = JobWith("auto", job.todo, {}, job.session)
  BY <1>1, JobUpdates
<1>5. TheJob'
  BY <1>4, JobParts, JobIs
<1> QED
  BY <1>1, <1>3, <1>5, StartersStay, AdvancersStay, CancelsStay, PollsStay DEF Inv, Legal, Rest

LEMMA JobStartStep == ASSUME Inv, NEW s \in Sessions, JobStart(s) PROVE Inv' /\ Stands
<1>1. /\ Create(s, TRUE, Stations \cup OnDuty) /\ job' = [job EXCEPT !.pc = "start", !.session = s]
      /\ UNCHANGED <<entry, left, advance, cancel, poll, due, faults>>
  BY DEF JobStart
<1>2. Legal /\ Stands /\ NoneNew /\ Starters'
  BY <1>1, CreateMoves
<1>3. job' = JobWith("start", job.todo, job.orphans, s)
  BY <1>1, JobUpdates
<1>4. TheJob'
  BY <1>3, JobParts, JobIs, Constants
<1> QED
  BY <1>1, <1>2, <1>4, AdvancersStay, CancelsStay, PollsStay DEF Inv, Legal, Rest

-----------------------------------------------------------------------------
(* Time *)

LEMMA ElapseStep == ASSUME Inv, IntervalElapses PROVE Inv' /\ Stands
<1>1. UNCHANGED <<session, entry, left, start, advance, cancel, poll, job, faults>> /\ due' = TRUE
  BY DEF IntervalElapses, rows
<1>2. Advancers' /\ TheJob' /\ Rest'
  BY <1>1 DEF Inv, Advancers, TheJob, Rest
<1> QED
  BY <1>1, <1>2, JobMoves

LEMMA TimeStep == ASSUME Inv, TimePasses PROVE Inv' /\ Stands
<1>1. /\ left' = [c \in Calls |-> IF entry[c] = "notified" /\ left[c] > 0 THEN left[c] - 1 ELSE left[c]]
      /\ start' = [s \in Sessions |->
            [start[s] EXCEPT !.left = IF start[s].left > 0 THEN start[s].left - 1 ELSE 0]]
      /\ UNCHANGED <<session, entry, advance, cancel, poll, job, due, faults>>
  BY DEF TimePasses
<1>2. left' \in [Calls -> Time] /\ \A c \in Calls : left[c] = 0 => left'[c] = 0
  <2>1. \A c \in Calls : left[c] \in Time
    BY DEF Inv, Rows
  <2>2. \A n \in Time : n > 0 => n - 1 \in Time
    BY Constants DEF Time
  <2> QED
    BY <1>1, <2>1, <2>2
<1>3. Rows'
  BY <1>1, <1>2 DEF Inv, Rows
<1>4. Legal
  BY <1>1, <1>2, <1>3 DEF Legal, Over
<1>5. Stands /\ NoneNew
  BY <1>1 DEF Stands, NoneNew, Settled
<1>6. \A s \in Sessions : /\ start'[s] \in Starter /\ start'[s].pc = start[s].pc
                         /\ start'[s].todo = start[s].todo
  <2> TAKE s \in Sessions
  <2>1. start[s] \in Starter /\ start[s].left \in Time
    BY StarterParts
  <2> DEFINE n == IF start[s].left > 0 THEN start[s].left - 1 ELSE 0
  <2>2. n \in Time
    BY <2>1, Constants DEF Time
  <2>3. start'[s] = [start[s] EXCEPT !.left = n]
    BY <1>1
  <2> HIDE DEF n
  <2> QED
    BY <2>1, <2>2, <2>3 DEF Starter
<1>7. Starters'
  <2>1. start' \in [Sessions -> Starter]
    <3>1. start' = [s \in Sessions |-> start'[s]]
      BY <1>1
    <3> QED
      BY <1>6, <3>1
  <2>2. \A s \in Sessions : Starting(s, start'[s], session', entry')
    BY <1>1, <1>6, StarterParts DEF Starting
  <2> QED
    BY <2>1, <2>2 DEF Starters
<1> QED
  BY <1>1, <1>4, <1>5, <1>7, AdvancersStay, CancelsStay, PollsStay, JobStays DEF Inv, Legal, Rest

-----------------------------------------------------------------------------
LEMMA CallerSteps ==
    ASSUME Inv, NEW a \in Callers, AdvanceStep(a) \/ CountFails(a) \/ AdvanceFails(a)
    PROVE  Inv' /\ Stands
BY AdvanceControl, ExpireStep, NotifyNextStep, CompleteStep DEF AdvanceStep

LEMMA NextInv == ASSUME Inv, [Next]_vars PROVE Inv' /\ Stands
<1>1. CASE \E s \in Sessions : StartManually(s) \/ StartFails(s) \/ Cancel(s) \/ CancelFails(s)
  BY <1>1, StartStep, NotifySteps, CancelSteps
<1>2. CASE \E c \in Calls : Reply(c)
  BY <1>2, ReplyStep
<1>3. CASE \E a \in Callers : CountFails(a) \/ AdvanceFails(a)
  BY <1>3, CallerSteps
<1>4. CASE \E u \in Supervisors, s \in Sessions : PollFind(u, s)
  BY <1>4, PollControl
<1>5. CASE \E u \in Supervisors : PollStep(u) \/ PollFails(u)
  BY <1>5, PollControl, MintStep DEF PollStep
<1>6. CASE HandlerStep
  BY <1>6, NotifySteps, CancelSteps, CreateEntryStep, CallerSteps, Constants DEF HandlerStep, StartGoesOn
<1>7. CASE JobStep \/ JobFails
  BY <1>7, JobControl, JobCalls, SweepStep, JobStartStep, CallerSteps, Constants DEF JobStep
<1>8. CASE IntervalElapses \/ TimePasses
  BY <1>8, ElapseStep, TimeStep
<1>9. CASE UNCHANGED vars
  <2>1. UNCHANGED <<session, entry, left, start, advance, cancel, poll, job, due, faults>>
    BY <1>9 DEF vars, rows
  <2>2. Advancers' /\ TheJob' /\ Rest'
    BY <2>1 DEF Inv, Advancers, TheJob, Rest
  <2> QED
    BY <2>1, <2>2, JobMoves
<1> QED
  BY <1>1, <1>2, <1>3, <1>4, <1>5, <1>6, <1>7, <1>8, <1>9 DEF Next

\* "First reply wins": while a session runs, no step of a reply, a poll, a cancellation, the
\* job or a start, whatever has failed before it, changes the outcome of a call, or sets
\* one down as missed before its window is over.
THEOREM OutcomesStand == Spec => FirstOutcomeStands
<1>1. Inv /\ [Next]_vars => Stands
  BY NextInv
<1>2. Inv /\ [Next]_vars => Inv'
  BY NextInv
<1>3. Stands => \A c \in Calls : session[SessionOf(c)] = "running" =>
         /\ entry[c] \in Settled => entry'[c] = entry[c]
         /\ entry[c] = "notified" /\ entry'[c] = "no_response" => left[c] = 0
  BY DEF Stands
<1> QED
  BY <1>1, <1>2, <1>3, InitInv, PTL DEF Spec, FirstOutcomeStands

-----------------------------------------------------------------------------
(* The counters *)

Counts(r) == r.pc \in {"answered", "count"}
Done(s)   == {c \in CallsOf(s) : entry[c] \in Settled}
Answers(s) == Cardinality(Pending(s, "answered"))
Misses(s)  == Cardinality(Pending(s, "count"))

\* A reply advances the session of its call, and an advance expires calls of its session.
Belongs(a, r) ==
    /\ a # Job /\ r.pc # "idle" => r.session = SessionOf(a)
    /\ r.pc = "expire" => SessionOf(r.call) = r.session
Own == \A a \in Callers : Belongs(a, advance[a])

\* No session has counted, or is about to count, more outcomes than its calls have.
Bounded(s) == responded[s] + missed[s] + Answers(s) + Misses(s) <= Cardinality(Done(s))
\* ... no reply and no miss that there is not, and all but those that failures have lost.
Even(s) == /\ responded[s] + Answers(s) <= Cardinality(InState(s, "responded"))
           /\ missed[s] + Misses(s) <= Cardinality(InState(s, "no_response"))
           /\ Cardinality(InState(s, "responded")) + Cardinality(InState(s, "no_response"))
                 <= (responded[s] + Answers(s)) + (missed[s] + Misses(s)) + faults

CountsInv ==
    /\ Own
    /\ responded \in [Sessions -> Nat] /\ missed \in [Sessions -> Nat]
    /\ \A s \in Sessions : Bounded(s) /\ (session[s] = "running" => Even(s))

\* Finite are the calls of a session and whatever else is counted of it.
LEMMA FiniteTargets == IsFiniteSet(Targets)
<1> DEFINE M == {Minted(u) : u \in Supervisors}
           f == [u \in Supervisors |-> Minted(u)]
<1>1. f \in Surjection(Supervisors, M)
  BY DEF Surjection
<1> HIDE DEF f
<1>2. IsFiniteSet(M)
  BY <1>1, RadioAssumption, FS_Surjection
<1>3. IsFiniteSet(OnDuty)
  BY RadioAssumption, FS_Subset
<1>4. IsFiniteSet(Stations \cup OnDuty)
  BY <1>3, RadioAssumption, FS_Union
<1> HIDE DEF M
<1>5. IsFiniteSet((Stations \cup OnDuty) \cup M)
  BY <1>2, <1>4, FS_Union
<1>6. Targets = (Stations \cup OnDuty) \cup M
  BY DEF Targets, M
<1> QED
  BY <1>5, <1>6

LEMMA FiniteCalls ==
    ASSUME NEW s \in Sessions
    PROVE  IsFiniteSet(CallsOf(s)) /\ Cardinality(CallsOf(s)) = Cardinality(Targets)
<1> DEFINE f == [t \in Targets |-> <<s, t>>]
<1>1. f \in Bijection(Targets, CallsOf(s))
  <2>1. f \in Surjection(Targets, CallsOf(s))
    <3>1. f \in [Targets -> CallsOf(s)]
      BY DEF CallsOf
    <3>2. \A c \in CallsOf(s) : \E t \in Targets : f[t] = c
      BY DEF CallsOf
    <3> QED
      BY <3>1, <3>2 DEF Surjection
  <2>2. f \in Injection(Targets, CallsOf(s))
    BY DEF Injection, IsInjective, CallsOf
  <2> QED
    BY <2>1, <2>2 DEF Bijection
<1>2. ExistsBijection(Targets, CallsOf(s))
  BY <1>1 DEF ExistsBijection
<1> QED
  BY <1>2, FiniteTargets, FS_Bijection

LEMMA FiniteParts ==
    ASSUME NEW s \in Sessions, NEW X, X \subseteq CallsOf(s) \cup {Job}
    PROVE  IsFiniteSet(X) /\ Cardinality(X) \in Nat
<1>1. IsFiniteSet(CallsOf(s) \cup {Job})
  BY FiniteCalls, FS_AddElement
<1>2. IsFiniteSet(X)
  BY <1>1, FS_Subset
<1> QED
  BY <1>2, FS_CardinalityType

LEMMA PendingOwn ==
    ASSUME Own, NEW s \in Sessions, NEW pc \in Phases \ {"idle"}
    PROVE  Pending(s, pc) \subseteq CallsOf(s) \cup {Job}
BY Constants DEF Own, Belongs, Pending, Callers, CallsOf

LEMMA Tallies ==
    ASSUME Own, NEW s \in Sessions
    PROVE  /\ IsFiniteSet(Pending(s, "answered")) /\ IsFiniteSet(Pending(s, "count"))
           /\ IsFiniteSet(Done(s))
           /\ \A st : IsFiniteSet(InState(s, st)) /\ Cardinality(InState(s, st)) \in Nat
           /\ Answers(s) \in Nat /\ Misses(s) \in Nat
           /\ Cardinality(Done(s)) \in 0 .. Cardinality(Targets)
<1>1. /\ Pending(s, "answered") \subseteq CallsOf(s) \cup {Job}
      /\ Pending(s, "count") \subseteq CallsOf(s) \cup {Job}
  BY PendingOwn DEF Phases
<1>2. \A st : IsFiniteSet(InState(s, st)) /\ Cardinality(InState(s, st)) \in Nat
  <2> TAKE st
  <2>1. InState(s, st) \subseteq CallsOf(s) \cup {Job}
    BY DEF InState
  <2> QED
    BY <2>1, FiniteParts
<1>3. Done(s) \subseteq CallsOf(s)
  BY DEF Done
<1>4. Cardinality(Done(s)) <= Cardinality(CallsOf(s)) /\ Cardinality(CallsOf(s)) \in Nat
  BY <1>3, FiniteCalls, FS_Subset, FS_CardinalityType
<1>5. IsFiniteSet(Done(s)) /\ Cardinality(Done(s)) \in Nat
  BY <1>3, FiniteParts
<1>6. Cardinality(Done(s)) \in 0 .. Cardinality(Targets)
  BY <1>4, <1>5, FiniteCalls
<1> QED
  BY <1>1, <1>2, <1>5, <1>6, FiniteParts DEF Answers, Misses

\* What the sums need.
LEMMA Numbers ==
    ASSUME CountsInv, NEW s \in Sessions
    PROVE  /\ responded[s] \in Nat /\ missed[s] \in Nat /\ Answers(s) \in Nat /\ Misses(s) \in Nat
           /\ Cardinality(Done(s)) \in Nat
           /\ Cardinality(InState(s, "responded")) \in Nat
           /\ Cardinality(InState(s, "no_response")) \in Nat
BY Tallies DEF CountsInv

-----------------------------------------------------------------------------
(* Steps that count nothing *)

\* What is settled stays so, and only ended sessions may have outcomes changed.
EntriesKeep ==
    \A c \in Calls :
        /\ entry[c] \in Settled => entry'[c] \in Settled
        /\ ~Ended(SessionOf(c), session) =>
              /\ entry'[c] = "responded" <=> entry[c] = "responded"
              /\ entry'[c] = "no_response" <=> entry[c] = "no_response"

\* Nobody is about to count who was not, and who gives up counting has failed.
CountersKeep ==
    /\ faults' \in {faults, faults + 1}
    /\ \A s \in Sessions, pc \in {"answered", "count"} : Pending(s, pc)' \subseteq Pending(s, pc)
    /\ \A s \in Sessions : Answers(s) + Misses(s) <= Answers(s)' + Misses(s)' + (faults' - faults)

SessionsKeep == \A s \in Sessions : session'[s] = "running" => session[s] \in {"none", "running"}

LEMMA QuietStep ==
    ASSUME Inv, CountsInv, EntriesKeep, CountersKeep, SessionsKeep, Own', UNCHANGED counts
    PROVE  CountsInv'
<1>1. responded' = responded /\ missed' = missed
  BY DEF counts
<1>2. ASSUME NEW s \in Sessions
      PROVE  /\ Bounded(s)' /\ Answers(s)' <= Answers(s) /\ Misses(s)' <= Misses(s)
             /\ Answers(s)' \in Nat /\ Misses(s)' \in Nat
  <2>1. Answers(s)' <= Answers(s) /\ Misses(s)' <= Misses(s)
    BY Tallies, FS_Subset DEF CountersKeep, Answers, Misses, CountsInv
  <2>2. Cardinality(Done(s)) <= Cardinality(Done(s)')
    <3>1. Done(s) \subseteq Done(s)'
      BY Constants DEF Done, EntriesKeep
    <3>2. Done(s)' \subseteq CallsOf(s)
      BY DEF Done
    <3>3. IsFiniteSet(Done(s)')
      BY <3>2, FiniteParts
    <3> QED
      BY <3>1, <3>3, FS_Subset
  <2>3. /\ responded[s] \in Nat /\ missed[s] \in Nat /\ Answers(s) \in Nat /\ Misses(s) \in Nat
        /\ Cardinality(Done(s)) \in Nat /\ Bounded(s)
    BY Tallies DEF CountsInv
  <2>4. Answers(s)' \in Nat /\ Misses(s)' \in Nat /\ Cardinality(Done(s)') \in Nat
    <3>1. /\ Pending(s, "answered")' \subseteq Pending(s, "answered")
          /\ Pending(s, "count")' \subseteq Pending(s, "count")
      BY DEF CountersKeep
    <3>2. IsFiniteSet(Pending(s, "answered")') /\ IsFiniteSet(Pending(s, "count")')
      BY <3>1, Tallies, FS_Subset DEF CountsInv
    <3>3. Done(s)' \subseteq CallsOf(s) \cup {Job}
      BY DEF Done
    <3> QED
      BY <3>2, <3>3, FS_CardinalityType, FiniteParts DEF Answers, Misses
  <2> QED
    BY <1>1, <2>1, <2>2, <2>3, <2>4 DEF Bounded
<1>3. ASSUME NEW s \in Sessions, session'[s] = "running" PROVE Even(s)'
  <2>1. /\ session[s] \in {"none", "running"} /\ faults \in Nat /\ faults' \in {faults, faults + 1}
        /\ Answers(s) + Misses(s) <= Answers(s)' + Misses(s)' + (faults' - faults)
        /\ Answers(s)' <= Answers(s) /\ Misses(s)' <= Misses(s)
        /\ Answers(s)' \in Nat /\ Misses(s)' \in Nat
    BY <1>2, <1>3, Constants DEF CountersKeep, SessionsKeep, Inv, Rest
  <2>2. \A c \in CallsOf(s) : c \in Calls /\ ~Ended(SessionOf(c), session)
    BY <2>1, Constants DEF Ended
  <2>3. /\ InState(s, "responded")' = InState(s, "responded")
        /\ InState(s, "no_response")' = InState(s, "no_response")
    BY <2>2 DEF InState, EntriesKeep
  <2>4. Even(s)
    <3>1. CASE session[s] = "running"
      BY <2>1, <3>1 DEF CountsInv
    <3>2. CASE session[s] = "none"
      <4>1. \A c \in CallsOf(s) : entry[c] = "none"
        BY <3>2, Constants DEF Inv, Rows
      <4>2. Done(s) = {} /\ InState(s, "responded") = {} /\ InState(s, "no_response") = {}
        BY <4>1 DEF Done, InState, Settled
      <4>3. Bounded(s) /\ responded[s] \in Nat /\ missed[s] \in Nat
            /\ Answers(s) \in Nat /\ Misses(s) \in Nat
        BY Tallies DEF CountsInv
      <4>4. /\ Cardinality(Done(s)) = 0 /\ Cardinality(InState(s, "responded")) = 0
            /\ Cardinality(InState(s, "no_response")) = 0
        BY <4>2, FS_EmptySet
      <4>5. responded[s] = 0 /\ missed[s] = 0 /\ Answers(s) = 0 /\ Misses(s) = 0
        BY <4>3, <4>4 DEF Bounded
      <4> QED
        BY <2>1, <4>4, <4>5 DEF Even
    <3> QED
      BY <2>1, <3>1, <3>2
  <2> QED
    BY <1>1, <2>1, <2>3, <2>4, Numbers DEF Even
<1> QED
  BY <1>1, <1>2, <1>3 DEF CountsInv

LEMMA KeepEntry == ASSUME UNCHANGED entry PROVE EntriesKeep
BY DEF EntriesKeep

LEMMA KeepClaim == ASSUME Inv, NEW c \in Calls, NEW time, Claim(c, time) PROVE EntriesKeep
<1>1. CASE entry[c] = "pending"
  <2>1. entry'[c] = "notified" /\ \A d \in Calls : d # c => entry'[d] = entry[d]
    BY <1>1 DEF Claim, Inv, Rows
  <2> QED
    BY <1>1, <2>1 DEF EntriesKeep, Settled
<1> QED
  BY <1>1 DEF Claim, EntriesKeep

LEMMA KeepCreate ==
    ASSUME Inv, NEW c \in Calls, entry[c] = "none", NEW st \in {"pending", "notified", "skipped"},
           entry' = [entry EXCEPT ![c] = st]
    PROVE  EntriesKeep
<1>1. entry'[c] = st /\ \A d \in Calls : d # c => entry'[d] = entry[d]
  BY DEF Inv, Rows
<1> QED
  BY <1>1 DEF EntriesKeep, Settled

LEMMA KeepSettle ==
    ASSUME NEW C \in SUBSET Calls, NEW st \in Settled, Settle(C, st),
           \A c \in C : Ended(SessionOf(c), session)
    PROVE  EntriesKeep
<1>1. \A c \in Calls : IF c \in C THEN entry'[c] = st ELSE entry'[c] = entry[c]
  BY DEF Settle
<1> QED
  BY <1>1 DEF EntriesKeep

LEMMA SameSessions == ASSUME UNCHANGED session PROVE SessionsKeep
BY DEF SessionsKeep

\* Whoever advances is where the step leaves him, and the others are where they were.
Becomes(a, r) == advance' = [advance EXCEPT ![a] = r]

LEMMA BecomesPending ==
    ASSUME Inv, NEW a \in Callers, NEW r, Becomes(a, r), NEW s \in Sessions, NEW pc
    PROVE  Pending(s, pc)' = IF r.pc = pc /\ r.session = s THEN Pending(s, pc) \cup {a}
                                                          ELSE Pending(s, pc) \ {a}
<1>1. advance'[a] = r /\ \A b \in Callers : b # a => advance'[b] = advance[b]
  BY DEF Becomes, Inv, Advancers
<1> QED
  BY <1>1 DEF Pending

LEMMA BecomesOwn ==
    ASSUME Inv, Own, NEW a \in Callers, NEW r, Becomes(a, r), Belongs(a, r)
    PROVE  Own'
<1>1. advance'[a] = r /\ \A b \in Callers : b # a => advance'[b] = advance[b]
  BY DEF Becomes, Inv, Advancers
<1>2. \A b \in Callers : Belongs(b, advance'[b])
  BY <1>1 DEF Own
<1> QED
  BY <1>2 DEF Own, Belongs

LEMMA BecomesQuiet ==
    ASSUME Inv, CountsInv, NEW a \in Callers, NEW r, Becomes(a, r), ~Counts(r),
           faults' \in {faults, faults + 1}, ~Counts(advance[a]) \/ faults' = faults + 1
    PROVE  CountersKeep
<1>1. ASSUME NEW s \in Sessions, NEW pc \in {"answered", "count"}
      PROVE  Pending(s, pc)' = Pending(s, pc) \ {a}
  BY <1>1, BecomesPending DEF Counts
<1>2. ASSUME NEW s \in Sessions, NEW pc \in {"answered", "count"}, ~Counts(advance[a])
      PROVE  a \notin Pending(s, pc)
  BY <1>2 DEF Pending, Counts
<1>3. faults \in Nat
  BY Constants DEF Inv, Rest
<1>4. ASSUME NEW s \in Sessions
      PROVE  Answers(s) + Misses(s) <= Answers(s)' + Misses(s)' + (faults' - faults)
  <2>1. Answers(s) \in Nat /\ Misses(s) \in Nat
    BY Numbers
  <2>2. CASE ~Counts(advance[a])
    <3>1. Pending(s, "answered")' = Pending(s, "answered") /\ Pending(s, "count")' = Pending(s, "count")
      BY <1>1, <1>2, <2>2
    <3> QED
      BY <1>3, <2>1, <3>1 DEF Answers, Misses
  <2>3. CASE faults' = faults + 1
    <3>1. a \notin Pending(s, "answered") \/ a \notin Pending(s, "count")
      BY DEF Pending
    <3>2. Answers(s)' \in Nat /\ Misses(s)' \in Nat
          /\ (Answers(s)' = Answers(s) \/ (a \in Pending(s, "answered") /\ Answers(s)' = Answers(s) - 1))
          /\ (Misses(s)' = Misses(s) \/ (a \in Pending(s, "count") /\ Misses(s)' = Misses(s) - 1))
      <4>1. IsFiniteSet(Pending(s, "answered")) /\ IsFiniteSet(Pending(s, "count"))
        BY Tallies DEF CountsInv
      <4>2. \A S : IsFiniteSet(S) => /\ Cardinality(S \ {a}) \in Nat
                                     /\ a \in S => Cardinality(S \ {a}) = Cardinality(S) - 1
                                     /\ a \notin S => S \ {a} = S
        BY FS_RemoveElement, FS_CardinalityType
      <4> HIDE DEF Pending
      <4>3. /\ Answers(s)' = Cardinality(Pending(s, "answered") \ {a})
            /\ Misses(s)' = Cardinality(Pending(s, "count") \ {a})
        BY <1>1 DEF Answers, Misses
      <4> QED
        BY <4>1, <4>2, <4>3 DEF Answers, Misses
    <3> QED
      BY <1>3, <2>1, <2>3, <3>1, <3>2
  <2> QED
    BY <2>2, <2>3
<1> QED
  BY <1>1, <1>4 DEF CountersKeep

LEMMA SameCounters ==
    ASSUME Inv, CountsInv, UNCHANGED advance, faults' \in {faults, faults + 1}
    PROVE  CountersKeep
<1>1. \A s, pc : Pending(s, pc)' = Pending(s, pc)
  BY DEF Pending
<1>2. faults \in Nat
  BY Constants DEF Inv, Rest
<1>3. \A s \in Sessions : Answers(s)' = Answers(s) /\ Misses(s)' = Misses(s)
                           /\ Answers(s) \in Nat /\ Misses(s) \in Nat
  BY <1>1, Numbers DEF Answers, Misses
<1> QED
  BY <1>1, <1>2, <1>3 DEF CountersKeep

LEMMA GotoIs ==
    ASSUME Inv, NEW a \in Callers, NEW pc, Goto(a, pc)
    PROVE  \E r : Becomes(a, r) /\ r.pc = pc /\ r.session = advance[a].session /\ r.call = advance[a].call
<1> DEFINE r == [pc |-> pc, session |-> advance[a].session, call |-> advance[a].call]
<1>1. [advance[a] EXCEPT !.pc = pc] = r
  BY AtWork, AdvancerWithPc
<1>2. advance' = [advance EXCEPT ![a] = [advance[a] EXCEPT !.pc = pc]]
  BY DEF Goto
<1>3. r.pc = pc /\ r.session = advance[a].session /\ r.call = advance[a].call
  OBVIOUS
<1> HIDE DEF r
<1> QED
  BY <1>1, <1>2, <1>3 DEF Becomes

LEMMA TakeIs ==
    ASSUME Inv, NEW a \in Callers, NEW pc, NEW c, Take(a, pc, c)
    PROVE  \E r : Becomes(a, r) /\ r.pc = pc /\ r.session = advance[a].session /\ r.call = c
<1> DEFINE r == [pc |-> pc, session |-> advance[a].session, call |-> c]
<1>1. [advance[a] EXCEPT !.pc = pc, !.call = c] = r
  BY AtWork, AdvancerWithCall
<1>2. advance' = [advance EXCEPT ![a] = [advance[a] EXCEPT !.pc = pc, !.call = c]]
  BY DEF Take
<1>3. r.pc = pc /\ r.session = advance[a].session /\ r.call = c
  OBVIOUS
<1> HIDE DEF r
<1> QED
  BY <1>1, <1>2, <1>3 DEF Becomes

LEMMA RestingIs == Resting.pc = "idle" /\ ~Counts(Resting) /\ \A a \in Callers : Belongs(a, Resting)
BY DEF Resting, Counts, Belongs

\* A caller that has not counted and does not count goes on.
LEMMA QuietCaller ==
    ASSUME Inv, CountsInv, NEW a \in Callers, advance[a].pc # "idle",
           ~Counts(advance[a]) \/ faults' = faults + 1, faults' \in {faults, faults + 1},
           \/ Leave(a)
           \/ \E pc \in Phases \ {"answered", "count", "expire"} :
                 Goto(a, pc) \/ \E c : Take(a, pc, c)
           \/ \E c \in Mine(a) : Take(a, "expire", c)
    PROVE  CountersKeep /\ Own'
<1>0. Own /\ Belongs(a, advance[a])
  BY DEF CountsInv, Own
<1>1. CASE Leave(a)
  BY <1>0, <1>1, RestingIs, BecomesQuiet, BecomesOwn DEF Leave, Becomes
<1>2. ASSUME NEW pc \in Phases \ {"answered", "count", "expire"}, Goto(a, pc) \/ \E c : Take(a, pc, c)
      PROVE  CountersKeep /\ Own'
  <2>1. PICK r : Becomes(a, r) /\ r.pc = pc /\ r.session = advance[a].session
    BY <1>2, GotoIs, TakeIs
  <2>2. Belongs(a, r) /\ ~Counts(r)
    BY <1>0, <2>1 DEF Belongs, Counts
  <2> QED
    BY <1>0, <2>1, <2>2, BecomesQuiet, BecomesOwn
<1>3. ASSUME NEW c \in Mine(a), Take(a, "expire", c) PROVE CountersKeep /\ Own'
  <2>1. PICK r : Becomes(a, r) /\ r.pc = "expire" /\ r.session = advance[a].session /\ r.call = c
    BY <1>3, TakeIs
  <2>2. SessionOf(c) = advance[a].session
    BY AtWork, Constants DEF Mine
  <2>3. Belongs(a, r) /\ ~Counts(r)
    BY <1>0, <2>1, <2>2 DEF Belongs, Counts
  <2> QED
    BY <1>0, <2>1, <2>3, BecomesQuiet, BecomesOwn
<1> QED
  BY <1>1, <1>2, <1>3

LEMMA CallerQuiet ==
    ASSUME Inv, CountsInv, NEW a \in Callers,
           \/ Load(a) \/ FindActive(a) \/ FindNext(a) \/ NotifyNext(a) \/ Complete(a)
           \/ CountFails(a) \/ AdvanceFails(a) \/ (Expire(a) /\ ~Called(advance[a].call))
    PROVE  CountsInv'
<1>0. advance[a].pc # "idle" /\ UNCHANGED counts
  BY DEF Load, FindActive, FindNext, NotifyNext, Complete, CountFails, AdvanceFails, Expire, At, rows
<1>1. (~Counts(advance[a]) /\ faults' = faults) \/ faults' = faults + 1
  BY DEF Fault, Load, FindActive, FindNext, NotifyNext, Complete, CountFails, AdvanceFails,
     Expire, At, Counts
<1>2. CountersKeep /\ Own'
  <2>1. \/ Leave(a)
        \/ \E pc \in Phases \ {"answered", "count", "expire"} :
              Goto(a, pc) \/ \E c : Take(a, pc, c)
        \/ \E c \in Mine(a) : Take(a, "expire", c)
    BY DEF Load, FindActive, FindNext, NotifyNext, Complete, CountFails, AdvanceFails, Expire, Phases
  <2> QED
    BY <1>0, <1>1, <2>1, QuietCaller
<1>3. EntriesKeep
  <2>1. CASE NotifyNext(a)
    <3>1. advance[a].call \in Calls /\ Claim(advance[a].call, Patience)
      BY <2>1, AtWork DEF NotifyNext, At, Advancing
    <3> QED
      BY <3>1, KeepClaim
  <2>2. CASE ~NotifyNext(a)
    BY <2>2, KeepEntry DEF Load, FindActive, FindNext, Complete, CountFails, AdvanceFails, Expire, rows
  <2> QED
    BY <2>1, <2>2
<1>4. SessionsKeep
  <2>1. CASE Complete(a)
    BY <2>1, Constants DEF Complete, SessionsKeep, Inv, Rows
  <2>2. CASE ~Complete(a)
    BY <2>2, SameSessions
       DEF Load, FindActive, FindNext, NotifyNext, CountFails, AdvanceFails, Expire, rows
  <2> QED
    BY <2>1, <2>2
<1> QED
  BY <1>0, <1>2, <1>3, <1>4, QuietStep

-----------------------------------------------------------------------------
(* Steps that count *)

\* One call is settled: it is one more of its session, in its state, and one of no other.
LEMMA OneSettled ==
    ASSUME Inv, CountsInv, NEW c \in Calls, NEW st \in {"responded", "no_response"}, Settle({c}, st),
           entry[c] \notin Settled, NEW s \in Sessions
    PROVE  LET n == IF s = SessionOf(c) THEN 1 ELSE 0 IN
           /\ Cardinality(Done(s)') = Cardinality(Done(s)) + n
           /\ Cardinality(InState(s, st)') = Cardinality(InState(s, st)) + n
           /\ \A x \in Settled \ {st} : InState(s, x)' = InState(s, x)
<1>1. entry'[c] = st /\ \A d \in Calls : d # c => entry'[d] = entry[d]
  BY DEF Settle
<1>2. c \notin Done(s) /\ c \notin InState(s, st) /\ st \in Settled
      /\ \A x \in Settled : c \notin InState(s, x)
  BY DEF Done, InState, Settled
<1>3. CallsOf(s) \subseteq Calls /\ (c \in CallsOf(s) <=> s = SessionOf(c))
  BY Constants DEF CallsOf
<1>4. \A x \in Settled \ {st} : InState(s, x)' = InState(s, x)
  BY <1>1, <1>2, <1>3 DEF InState
<1>5. CASE s = SessionOf(c)
  <2>1. Done(s)' = Done(s) \cup {c} /\ InState(s, st)' = InState(s, st) \cup {c}
    BY <1>1, <1>2, <1>3, <1>5 DEF Done, InState
  <2> QED
    BY <1>2, <1>4, <1>5, <2>1, Tallies, FS_AddElement DEF CountsInv
<1>6. CASE s # SessionOf(c)
  <2>1. Done(s)' = Done(s) /\ InState(s, st)' = InState(s, st)
    BY <1>1, <1>3, <1>6 DEF Done, InState
  <2> QED
    BY <1>4, <1>6, <2>1, Tallies DEF CountsInv
<1> QED
  BY <1>5, <1>6

\* One caller takes up counting, or is done with it.
LEMMA OnePending ==
    ASSUME Inv, CountsInv, NEW a \in Callers, NEW r, Becomes(a, r), NEW pc \in {"answered", "count"},
           NEW s \in Sessions
    PROVE  /\ ~Counts(advance[a]) => Cardinality(Pending(s, pc)') =
                 Cardinality(Pending(s, pc)) + (IF r.pc = pc /\ r.session = s THEN 1 ELSE 0)
           /\ ~Counts(r) => Cardinality(Pending(s, pc)') =
                 Cardinality(Pending(s, pc)) -
                    (IF advance[a].pc = pc /\ advance[a].session = s THEN 1 ELSE 0)
<1>1. Pending(s, pc)' = IF r.pc = pc /\ r.session = s THEN Pending(s, pc) \cup {a}
                                                      ELSE Pending(s, pc) \ {a}
  BY BecomesPending
<1>2. a \in Pending(s, pc) <=> advance[a].pc = pc /\ advance[a].session = s
  BY DEF Pending
<1>3. IsFiniteSet(Pending(s, pc)) /\ Cardinality(Pending(s, pc)) \in Nat
  BY Tallies DEF CountsInv, Answers, Misses
<1>4. CASE ~Counts(advance[a])
  <2>1. a \notin Pending(s, pc)
    BY <1>2, <1>4 DEF Counts
  <2>2. Cardinality(Pending(s, pc)') =
           Cardinality(Pending(s, pc)) + (IF r.pc = pc /\ r.session = s THEN 1 ELSE 0)
    <3>1. CASE r.pc = pc /\ r.session = s
      BY <1>1, <1>3, <2>1, <3>1, FS_AddElement
    <3>2. CASE ~(r.pc = pc /\ r.session = s)
      <4>1. Pending(s, pc)' = Pending(s, pc)
        BY <1>1, <2>1, <3>2
      <4> QED
        BY <1>3, <3>2, <4>1
    <3> QED
      BY <3>1, <3>2
  <2>3. ~Counts(r) => ~(r.pc = pc /\ r.session = s)
    BY DEF Counts
  <2> QED
    BY <1>2, <1>3, <2>1, <2>2, <2>3
<1>5. CASE Counts(advance[a]) /\ ~Counts(r)
  <2>1. Pending(s, pc)' = Pending(s, pc) \ {a}
    BY <1>1, <1>5 DEF Counts
  <2>2. CASE a \in Pending(s, pc)
    <3>1. Cardinality(Pending(s, pc)') = Cardinality(Pending(s, pc)) - 1
      BY <1>3, <2>1, <2>2, FS_RemoveElement
    <3> QED
      BY <1>2, <1>5, <2>2, <3>1
  <2>3. CASE a \notin Pending(s, pc)
    <3>1. Pending(s, pc)' = Pending(s, pc)
      BY <2>1, <2>3
    <3> QED
      BY <1>2, <1>3, <1>5, <2>3, <3>1
  <2> QED
    BY <2>2, <2>3
<1> QED
  BY <1>4, <1>5

LEMMA ReplyCounted == ASSUME Inv, CountsInv, NEW c \in Calls, Reply(c) PROVE CountsInv'
<1> DEFINE r == [pc |-> "answered", session |-> SessionOf(c), call |-> Null]
<1>1. /\ entry[c] \notin Settled /\ advance[c].pc = "idle" /\ Settle({c}, "responded") /\ Becomes(c, r)
      /\ responded' = responded /\ missed' = missed /\ session' = session /\ faults' = faults
      /\ c \in Callers
  BY Constants DEF Reply, Becomes, Answerable, Settled, counts
<1>2. r.pc = "answered" /\ r.session = SessionOf(c) /\ Belongs(c, r) /\ ~Counts(advance[c])
  BY <1>1 DEF Belongs, Counts
<1> HIDE DEF r
<1>3. Own'
  BY <1>1, <1>2, BecomesOwn DEF CountsInv
<1>4. ASSUME NEW s \in Sessions
      PROVE  Bounded(s)' /\ (session'[s] = "running" => Even(s)')
  <2> DEFINE n == IF s = SessionOf(c) THEN 1 ELSE 0
  <2>1. /\ Cardinality(Done(s)') = Cardinality(Done(s)) + n
        /\ Cardinality(InState(s, "responded")') = Cardinality(InState(s, "responded")) + n
        /\ InState(s, "no_response")' = InState(s, "no_response")
    BY <1>1, OneSettled DEF Settled
  <2>2. Answers(s)' = Answers(s) + n /\ Misses(s)' = Misses(s)
    <3>1. /\ Cardinality(Pending(s, "answered")') = Cardinality(Pending(s, "answered")) + n
          /\ Cardinality(Pending(s, "count")') = Cardinality(Pending(s, "count")) + 0
      BY <1>1, <1>2, OnePending
    <3> QED
      BY <3>1, Numbers DEF Answers, Misses
  <2>3. n \in Nat
    OBVIOUS
  <2> HIDE DEF n
  <2>4. Bounded(s)'
    <3>1. Bounded(s)
      BY DEF CountsInv
    <3> QED
      BY <1>1, <2>1, <2>2, <2>3, <3>1, Numbers DEF Bounded
  <2>5. ASSUME Even(s) PROVE Even(s)'
    <3>1. faults \in Nat
      BY Constants DEF Inv, Rest
    <3> QED
      BY <1>1, <2>1, <2>2, <2>3, <2>5, <3>1, Numbers DEF Even
  <2> QED
    BY <1>1, <2>4, <2>5 DEF CountsInv
<1> QED
  BY <1>1, <1>3, <1>4 DEF CountsInv

LEMMA ExpireCounted ==
    ASSUME Inv, CountsInv, NEW a \in Callers, Expire(a), Called(advance[a].call)
    PROVE  CountsInv'
<1> DEFINE c == advance[a].call
<1>1. /\ advance[a].pc = "expire" /\ Settle({c}, "no_response") /\ Take(a, "count", Null)
      /\ entry[c] \notin Settled
      /\ responded' = responded /\ missed' = missed /\ session' = session /\ faults' = faults
  BY DEF Expire, At, Called, Settled, counts
<1>2. c \in Calls /\ SessionOf(c) = advance[a].session /\ Belongs(a, advance[a]) /\ ~Counts(advance[a])
  BY <1>1, AtWork DEF Advancing, CountsInv, Own, Belongs, Counts
<1>3. PICK r : Becomes(a, r) /\ r.pc = "count" /\ r.session = advance[a].session
  BY <1>1, TakeIs
<1>4. Own'
  <2>1. Belongs(a, r)
    BY <1>1, <1>2, <1>3 DEF Belongs
  <2> QED
    BY <1>3, <2>1, BecomesOwn DEF CountsInv
<1> HIDE DEF c
<1>5. ASSUME NEW s \in Sessions
      PROVE  Bounded(s)' /\ (session'[s] = "running" => Even(s)')
  <2> DEFINE n == IF s = SessionOf(c) THEN 1 ELSE 0
  <2>1. /\ Cardinality(Done(s)') = Cardinality(Done(s)) + n
        /\ Cardinality(InState(s, "no_response")') = Cardinality(InState(s, "no_response")) + n
        /\ InState(s, "responded")' = InState(s, "responded")
    BY <1>1, <1>2, OneSettled DEF Settled
  <2>2. Misses(s)' = Misses(s) + n /\ Answers(s)' = Answers(s)
    <3>1. /\ Cardinality(Pending(s, "count")') = Cardinality(Pending(s, "count")) + n
          /\ Cardinality(Pending(s, "answered")') = Cardinality(Pending(s, "answered")) + 0
      BY <1>2, <1>3, OnePending
    <3> QED
      BY <3>1, Numbers DEF Answers, Misses
  <2>3. n \in Nat
    OBVIOUS
  <2> HIDE DEF n
  <2>4. Bounded(s)'
    <3>1. Bounded(s)
      BY DEF CountsInv
    <3> QED
      BY <1>1, <2>1, <2>2, <2>3, <3>1, Numbers DEF Bounded
  <2>5. ASSUME Even(s) PROVE Even(s)'
    <3>1. faults \in Nat
      BY Constants DEF Inv, Rest
    <3> QED
      BY <1>1, <2>1, <2>2, <2>3, <2>5, <3>1, Numbers DEF Even
  <2> QED
    BY <1>1, <2>4, <2>5 DEF CountsInv
<1> QED
  BY <1>1, <1>4, <1>5 DEF CountsInv

LEMMA Counted ==
    ASSUME Inv, CountsInv, NEW a \in Callers, CountReply(a) \/ CountMissed(a)
    PROVE  CountsInv'
<1> DEFINE w == advance[a].session
<1>1. /\ UNCHANGED <<session, entry>> /\ faults' = faults /\ w \in Sessions
      /\ \/ /\ advance[a].pc = "answered" /\ Goto(a, "load")
            /\ responded' = [responded EXCEPT ![w] = responded[w] + 1] /\ missed' = missed
         \/ /\ advance[a].pc = "count" /\ Goto(a, "active")
            /\ missed' = [missed EXCEPT ![w] = missed[w] + 1] /\ responded' = responded
  BY AtWork DEF CountReply, CountMissed, At, Goto
<1>2. PICK r : Becomes(a, r) /\ r.pc \in {"load", "active"} /\ r.session = w
  BY <1>1, GotoIs
<1>3. Own' /\ ~Counts(r)
  <2>1. Belongs(a, r)
    BY <1>1, <1>2 DEF Belongs, CountsInv, Own
  <2> QED
    BY <1>2, <2>1, BecomesOwn DEF CountsInv, Counts
<1>4. responded' \in [Sessions -> Nat] /\ missed' \in [Sessions -> Nat]
  BY <1>1 DEF CountsInv
<1> HIDE DEF w
<1>5. ASSUME NEW s \in Sessions
      PROVE  Bounded(s)' /\ (session'[s] = "running" => Even(s)')
  <2>1. Done(s)' = Done(s) /\ \A st : InState(s, st)' = InState(s, st)
    BY <1>1 DEF Done, InState
  <2>2. responded'[s] + Answers(s)' = responded[s] + Answers(s)
        /\ missed'[s] + Misses(s)' = missed[s] + Misses(s)
        /\ Answers(s)' \in Int /\ Misses(s)' \in Int
    <3>1. /\ Cardinality(Pending(s, "answered")') = Cardinality(Pending(s, "answered")) -
                (IF advance[a].pc = "answered" /\ advance[a].session = s THEN 1 ELSE 0)
          /\ Cardinality(Pending(s, "count")') = Cardinality(Pending(s, "count")) -
                (IF advance[a].pc = "count" /\ advance[a].session = s THEN 1 ELSE 0)
      BY <1>2, <1>3, OnePending
    <3>2. /\ Answers(s)' = Answers(s) -
                (IF advance[a].pc = "answered" /\ advance[a].session = s THEN 1 ELSE 0)
          /\ Misses(s)' = Misses(s) -
                (IF advance[a].pc = "count" /\ advance[a].session = s THEN 1 ELSE 0)
      BY <3>1 DEF Answers, Misses
    <3>3. /\ responded'[s] = responded[s] +
                (IF advance[a].pc = "answered" /\ advance[a].session = s THEN 1 ELSE 0)
          /\ missed'[s] = missed[s] +
                (IF advance[a].pc = "count" /\ advance[a].session = s THEN 1 ELSE 0)
      BY <1>1, Numbers DEF CountsInv, w
    <3> QED
      BY <3>2, <3>3, Numbers
  <2>3. Bounded(s)'
    <3>1. Bounded(s)
      BY DEF CountsInv
    <3> QED
      BY <1>4, <2>1, <2>2, <3>1, Numbers DEF Bounded
  <2>4. ASSUME Even(s) PROVE Even(s)'
    <3>1. faults \in Nat
      BY Constants DEF Inv, Rest
    <3> QED
      BY <1>1, <1>4, <2>1, <2>2, <2>4, <3>1, Numbers DEF Even
  <2> QED
    BY <1>1, <2>3, <2>4 DEF CountsInv
<1> QED
  BY <1>3, <1>4, <1>5 DEF CountsInv

-----------------------------------------------------------------------------
(* The steps of all others count nothing *)

LEMMA StartQuiet ==
    ASSUME Inv, CountsInv, NEW s \in Sessions,
           \/ StartManually(s) \/ JobStart(s) \/ ListPending(s) \/ StartFails(s)
           \/ \E t \in Targets : CreateEntry(s, t) \/ NotifyAll(s, t)
    PROVE  CountsInv'
<1>1. UNCHANGED counts /\ advance' = advance
  BY DEF StartManually, JobStart, ListPending, StartFails, CreateEntry, NotifyAll, rows
<1>2. faults' \in {faults, faults + 1}
  BY DEF Fault, StartManually, JobStart, ListPending, StartFails, CreateEntry, NotifyAll
<1>3. CountersKeep /\ Own'
  BY <1>1, <1>2, SameCounters DEF CountsInv, Own, Belongs
<1>4. EntriesKeep
  <2>1. ASSUME NEW t \in Targets, CreateEntry(s, t) PROVE EntriesKeep
    <3> DEFINE st == IF t \in Unmanned /\ start[s].all THEN "skipped" ELSE "pending"
    <3>1. <<s, t>> \in Calls /\ entry[<<s, t>>] = "none"
      BY <2>1, Constants, StarterParts DEF CreateEntry, Starting
    <3>2. entry' = [entry EXCEPT ![<<s, t>>] = st] /\ st \in {"pending", "notified", "skipped"}
      BY <2>1 DEF CreateEntry
    <3> HIDE DEF st
    <3> QED
      BY <3>1, <3>2, KeepCreate
  <2>2. ASSUME NEW t \in Targets, NotifyAll(s, t) PROVE EntriesKeep
    BY <2>2, Constants, KeepClaim DEF NotifyAll
  <2> QED
    BY <2>1, <2>2, KeepEntry DEF StartManually, JobStart, ListPending, StartFails, rows
<1>5. SessionsKeep
  <2>1. CASE \E all, T : Create(s, all, T)
    BY <2>1 DEF Create, SessionsKeep, Inv, Rows
  <2> QED
    BY <2>1, SameSessions DEF StartManually, JobStart, ListPending, StartFails, CreateEntry, NotifyAll, rows
<1> QED
  BY <1>1, <1>3, <1>4, <1>5, QuietStep

LEMMA PollQuiet ==
    ASSUME Inv, CountsInv, NEW u \in Supervisors,
           (\E s \in Sessions : PollFind(u, s)) \/ PollClaim(u) \/ PollFails(u) \/ Mint(u)
    PROVE  CountsInv'
<1>1. UNCHANGED counts /\ advance' = advance /\ session' = session
  BY DEF PollFind, PollClaim, PollFails, Mint, rows
<1>2. faults' \in {faults, faults + 1}
  BY DEF Fault, PollFind, PollClaim, PollFails, Mint
<1>3. CountersKeep /\ Own'
  BY <1>1, <1>2, SameCounters DEF CountsInv, Own, Belongs
<1>4. EntriesKeep
  <2>1. CASE PollClaim(u)
    <3>1. Claim(poll[u].call, Window) /\ poll[u].call \in Calls
      BY <2>1 DEF PollClaim, Inv, Polls, Polling, Poller
    <3> QED
      BY <3>1, Constants, KeepClaim
  <2>2. CASE Mint(u)
    <3>1. /\ entry' = [entry EXCEPT ![<<poll[u].session, Minted(u)>>] = "notified"]
          /\ poll[u].session \in Sessions /\ entry[<<poll[u].session, Minted(u)>>] = "none"
      BY <2>2 DEF Mint, Inv, Polls, Polling
    <3>2. <<poll[u].session, Minted(u)>> \in Calls
      BY <3>1, Constants
    <3> QED
      BY <3>1, <3>2, KeepCreate
  <2> QED
    BY <2>1, <2>2, KeepEntry DEF PollFind, PollFails, rows
<1> QED
  BY <1>1, <1>3, <1>4, SameSessions, QuietStep

\* Cancellations and the sweep of orphans change outcomes of ended sessions only.
LEMMA EndedQuiet ==
    ASSUME Inv, CountsInv,
           JobSweep \/ \E s \in Sessions : CancelCalled(s) \/ CancelPending(s) \/ CancelFails(s) \/ Cancel(s)
    PROVE  CountsInv'
<1>1. UNCHANGED counts /\ advance' = advance
  BY DEF JobSweep, CancelCalled, CancelPending, CancelFails, Cancel, rows
<1>2. faults' \in {faults, faults + 1}
  BY DEF Fault, JobSweep, CancelCalled, CancelPending, CancelFails, Cancel
<1>3. CountersKeep /\ Own'
  BY <1>1, <1>2, SameCounters DEF CountsInv, Own, Belongs
<1>4. EntriesKeep
  <2>1. CASE JobSweep
    <3>1. Settle(job.orphans, "no_response") /\ job.orphans \in SUBSET Calls
          /\ \A c \in job.orphans : Ended(SessionOf(c), session)
      BY <2>1, JobParts DEF JobSweep, JobAt, Sweeping
    <3> QED
      BY <3>1, KeepSettle DEF Settled
  <2>2. ASSUME NEW s \in Sessions, CancelCalled(s) \/ CancelPending(s) PROVE EntriesKeep
    <3>1. Ended(s, session)
      BY <2>2 DEF CancelCalled, CancelPending, Inv, Cancels
    <3>2. /\ \A st : InState(s, st) \in SUBSET Calls
          /\ \A st : \A c \in InState(s, st) : Ended(SessionOf(c), session)
      BY <3>1, Constants DEF InState
    <3> QED
      BY <2>2, <3>2, KeepSettle DEF CancelCalled, CancelPending, Settled
  <2> QED
    BY <2>1, <2>2, KeepEntry DEF CancelFails, Cancel, rows
<1>5. SessionsKeep
  <2>1. ASSUME NEW s \in Sessions, Cancel(s) PROVE SessionsKeep
    BY <2>1 DEF Cancel, SessionsKeep, Inv, Rows
  <2> QED
    BY <2>1, SameSessions DEF JobSweep, CancelCalled, CancelPending, CancelFails, rows
<1> QED
  BY <1>1, <1>3, <1>4, <1>5, QuietStep

LEMMA JobQuiet ==
    ASSUME Inv, CountsInv,
           \/ JobTick \/ JobNotified \/ JobLive \/ JobClaim \/ JobCheck \/ JobCannotStart \/ JobStarted
           \/ JobFails \/ IntervalElapses \/ TimePasses \/ UNCHANGED vars
           \/ \E s \in Sessions : JobAdvance(s)
    PROVE  CountsInv'
<1>1. UNCHANGED <<counts, session, entry>>
  BY DEF JobTick, JobNotified, JobLive, JobClaim, JobCheck, JobCannotStart, JobStarted, JobFails,
     IntervalElapses, TimePasses, JobAdvance, rows, vars
<1>2. CountersKeep /\ Own'
  <2>1. ASSUME NEW s \in Sessions, JobAdvance(s) PROVE CountersKeep /\ Own'
    <3>1. PICK r : r = [pc |-> "load", session |-> s, call |-> Null]
      OBVIOUS
    <3>2. Becomes(Job, r) /\ ~Counts(r) /\ Belongs(Job, r) /\ ~Counts(advance[Job]) /\ faults' = faults
      BY <2>1, <3>1, RestingIs DEF JobAdvance, Becomes, Counts, Belongs
    <3> QED
      BY <3>2, Constants, BecomesQuiet, BecomesOwn DEF CountsInv
  <2>2. CASE JobFails
    <3>1. Becomes(Job, Resting) /\ faults' = faults + 1
      BY <2>2 DEF Fault, JobFails, Becomes
    <3> QED
      BY <3>1, Constants, RestingIs, BecomesQuiet, BecomesOwn DEF CountsInv
  <2>3. CASE UNCHANGED <<advance, faults>>
    BY <2>3, SameCounters DEF CountsInv, Own, Belongs
  <2> QED
    BY <2>1, <2>2, <2>3 DEF JobTick, JobNotified, JobLive, JobClaim, JobCheck, JobCannotStart, JobStarted,
       IntervalElapses, TimePasses, vars
<1> QED
  BY <1>1, <1>2, KeepEntry, SameSessions, QuietStep

LEMMA CallerStepsCount ==
    ASSUME Inv, CountsInv, NEW a \in Callers, AdvanceStep(a) \/ CountFails(a) \/ AdvanceFails(a)
    PROVE  CountsInv'
BY CallerQuiet, ExpireCounted, Counted DEF AdvanceStep

LEMMA NextCounts == ASSUME Inv, CountsInv, [Next]_vars PROVE CountsInv'
<1>1. CASE \E s \in Sessions : StartManually(s) \/ StartFails(s) \/ Cancel(s) \/ CancelFails(s)
  BY <1>1, StartQuiet, EndedQuiet
<1>2. CASE \E c \in Calls : Reply(c)
  BY <1>2, ReplyCounted
<1>3. CASE \E a \in Callers : CountFails(a) \/ AdvanceFails(a)
  BY <1>3, CallerStepsCount
<1>4. CASE \E u \in Supervisors, s \in Sessions : PollFind(u, s)
  BY <1>4, PollQuiet
<1>5. CASE \E u \in Supervisors : PollStep(u) \/ PollFails(u)
  BY <1>5, PollQuiet DEF PollStep
<1>6. CASE HandlerStep
  BY <1>6, StartQuiet, EndedQuiet, CallerStepsCount, Constants DEF HandlerStep, StartGoesOn
<1>7. CASE JobStep \/ JobFails
  BY <1>7, JobQuiet, EndedQuiet, StartQuiet, CallerStepsCount, Constants DEF JobStep
<1>8. CASE IntervalElapses \/ TimePasses \/ UNCHANGED vars
  BY <1>8, JobQuiet
<1> QED
  BY <1>1, <1>2, <1>3, <1>4, <1>5, <1>6, <1>7, <1>8 DEF Next

LEMMA InitCounts == Init => CountsInv
<1> SUFFICES ASSUME Init PROVE CountsInv
  OBVIOUS
<1>1. Own /\ \A s \in Sessions, pc \in {"answered", "count"} : Pending(s, pc) = {}
  BY RestingIs DEF Init, Own, Pending, Counts
<1>2. \A s \in Sessions : Done(s) = {}
  BY Constants DEF Init, Done, Settled
<1>3. \A s \in Sessions : responded[s] = 0 /\ missed[s] = 0 /\ session[s] = "none"
  BY DEF Init
<1>4. \A s \in Sessions : Answers(s) = 0 /\ Misses(s) = 0 /\ Cardinality(Done(s)) = 0
  BY <1>1, <1>2, FS_EmptySet DEF Answers, Misses
<1>5. responded \in [Sessions -> Nat] /\ missed \in [Sessions -> Nat]
  BY DEF Init
<1> QED
  BY <1>1, <1>3, <1>4, <1>5 DEF CountsInv, Bounded

\* Each reply and each missed call of a running session is counted once (submitReply,
\* advanceSession), whoever else advances it meanwhile, but for one count per failure.
THEOREM CountersHold == Spec => []CountersAddUp
<1>1. CountsInv => CountersAddUp
  BY DEF CountsInv, CountersAddUp, Even, Answers, Misses
<1> QED
  BY <1>1, InitInv, NextInv, InitCounts, NextCounts, PTL DEF Spec

\* A report never shows more answers and misses than the session has calls that are over, also
\* when it was cancelled or its orphans were swept, both of which change outcomes and not counts.
NoneMadeUp == \A s \in Sessions : responded[s] + missed[s] <= Cardinality(Done(s))

\* In every session, running or ended, whatever fails.
THEOREM CountsAreBacked == Spec => []NoneMadeUp
<1>1. CountsInv => NoneMadeUp
  <2> SUFFICES ASSUME CountsInv, NEW s \in Sessions PROVE responded[s] + missed[s] <= Cardinality(Done(s))
    BY DEF NoneMadeUp
  <2>1. Bounded(s)
    BY DEF CountsInv
  <2> QED
    BY <2>1, Numbers DEF Bounded
<1> QED
  BY <1>1, InitInv, NextInv, InitCounts, NextCounts, PTL DEF Spec

\* Type correctness, with the counters never above the number of calls, failures included.
THEOREM TypeCorrect == Spec => []TypeOK
<1>1. Inv /\ CountsInv => TypeOK
  <2> SUFFICES ASSUME Inv, CountsInv PROVE TypeOK
    OBVIOUS
  <2>1. \A s \in Sessions : /\ responded[s] \in 0 .. Cardinality(Targets)
                           /\ missed[s] \in 0 .. Cardinality(Targets)
    <3> TAKE s \in Sessions
    <3>1. Cardinality(Done(s)) <= Cardinality(Targets) /\ Cardinality(Targets) \in Nat
      BY Tallies, FiniteTargets, FS_CardinalityType DEF CountsInv
    <3>2. Bounded(s)
      BY DEF CountsInv
    <3> QED
      BY <3>1, <3>2, Numbers DEF Bounded
  <2>2. /\ responded \in [Sessions -> 0 .. Cardinality(Targets)]
        /\ missed \in [Sessions -> 0 .. Cardinality(Targets)]
    BY <2>1 DEF CountsInv
  <2>3. /\ session \in [Sessions -> {"none", "running", "completed", "cancelled"}]
        /\ entry \in [Calls -> {"none"} \cup Unsettled \cup Settled] /\ left \in [Calls -> Time]
    BY DEF Inv, Rows, Statuses
  <2>4. /\ start \in [Sessions -> Starter] /\ advance \in [Callers -> Advancer]
        /\ \A a \in Callers : advance[a].pc # "idle" => advance[a].session # Null
        /\ \A a \in Callers : advance[a].pc \in {"expire", "notify"} => advance[a].call # Null
    BY DEF Inv, Starters, Advancers, Advancing
  <2>5. /\ cancel \in [Sessions -> {"never", "called", "pending", "done"}]
        /\ poll \in [Supervisors -> Poller]
        /\ \A u \in Supervisors : poll[u].pc = "mint" => poll[u].session # Null
        /\ \A u \in Supervisors : poll[u].pc = "claim" => poll[u].call # Null
        /\ job \in Scheduler /\ (job.pc = "start" => job.session # Null)
        /\ due \in BOOLEAN /\ faults \in 0 .. MaxFaults
    BY Constants DEF Inv, Cancels, Polls, Polling, TheJob, Sweeping, Rest
  <2> QED
    BY <2>2, <2>3, <2>4, <2>5 DEF TypeOK
<1> QED
  BY <1>1, InitInv, NextInv, InitCounts, NextCounts, PTL DEF Spec
=============================================================================
