----------------------- MODULE SchedulerProofs -----------------------
(***************************************************************************)
(* The leader of the scheduled jobs: type correctness, and why one worker leads  *)
(* at a time as long as no two heartbeats interleave, no event loop stalls and    *)
(* the lock outlives the renewals that fail.  And what the detection job it runs   *)
(* leaves: the exceptions of a shift, with the punches and reviews that also       *)
(* write them, at most one open of each type, or one for each writer that overlaps.  *)
(***************************************************************************)
EXTENDS SchedulerLeader, Sequences, FiniteSets, FiniteSetTheorems, TLAPS

LEMMA BeatTypes == Idle \in Beat
BY DEF Idle, Beat

LEMMA InitTypeOK == Init => TypeOK
BY LeaderAssumption, BeatTypes DEF Init, TypeOK, Lock, NoLock

LEMMA MishapType ==
    ASSUME TypeOK, (\E kind \in {"race", "stall", "open", "io"} : Mishap(kind)) \/ NoMishap
    PROVE  mishaps' \in 0 .. MaxMishaps /\ kinds' \subseteq Mishaps
<1>1. mishaps' \in 0 .. MaxMishaps
  BY LeaderAssumption DEF TypeOK, Mishap, NoMishap
<1>2. kinds' \subseteq Mishaps
  BY Zenon DEF TypeOK, Mishap, NoMishap
<1> QED
  BY <1>1, <1>2

LEMMA DecideType ==
    ASSUME TypeOK, NEW p \in Pids, NEW owner, Decide(p, owner)
    PROVE  beat' \in [Pids -> Beat] /\ leader' \in [Pids -> BOOLEAN]
<1>1. [at |-> "open", claiming |-> ~Renews(p, owner)] \in Beat
  BY DEF Beat, Renews
<1> QED
  BY <1>1 DEF Decide, TypeOK

LEMMA GoToType ==
    ASSUME TypeOK, NEW p \in Pids, NEW at \in {"idle", "open", "write", "check"},
           GoTo(p, at) \/ Return(p)
    PROVE  beat' \in [Pids -> Beat]
<1>1. [beat[p] EXCEPT !.at = at] \in Beat
  BY DEF TypeOK, Beat
<1> QED
  BY <1>1, BeatTypes DEF TypeOK, GoTo, Return

LEMMA NextTypeOK ==
    ASSUME TypeOK, [Next]_vars
    PROVE  TypeOK'
<1>1. ASSUME NEW p \in Pids, Read(p) PROVE TypeOK'
  <2>1. beat' \in [Pids -> Beat] /\ leader' \in [Pids -> BOOLEAN]
    BY <1>1, DecideType DEF Read
  <2>2. mishaps' \in 0 .. MaxMishaps /\ kinds' \subseteq Mishaps
    BY <1>1, MishapType DEF Read
  <2>3. since' \in [Pids -> 0 .. Ttl]
    BY <1>1, LeaderAssumption DEF Read, TypeOK
  <2> QED
    BY <1>1, <2>1, <2>2, <2>3 DEF Read, TypeOK
<1>2. ASSUME NEW p \in Pids, Open(p) PROVE TypeOK'
  <2>1. beat' \in [Pids -> Beat]
    BY <1>2, GoToType DEF Open
  <2>2. mishaps' \in 0 .. MaxMishaps /\ kinds' \subseteq Mishaps
    BY <1>2, MishapType DEF Open
  <2>3. lock' \in Lock
    BY <1>2, LeaderAssumption DEF Open, TypeOK, Lock, NoLock
  <2> QED
    BY <1>2, <2>1, <2>2, <2>3 DEF Open, TypeOK, worker
<1>3. ASSUME NEW p \in Pids, Write(p) PROVE TypeOK'
  <2>1. beat' \in [Pids -> Beat]
    BY <1>3, GoToType DEF Write
  <2>2. mishaps' \in 0 .. MaxMishaps /\ kinds' \subseteq Mishaps
    BY <1>3, MishapType DEF Write
  <2>3. lock' \in Lock
    BY <1>3, LeaderAssumption DEF Write, TypeOK, Lock
  <2> QED
    BY <1>3, <2>1, <2>2, <2>3 DEF Write, TypeOK, worker
<1>4. ASSUME NEW p \in Pids, Check(p) PROVE TypeOK'
  <2>1. beat' \in [Pids -> Beat]
    BY <1>4, GoToType DEF Check
  <2>2. mishaps' \in 0 .. MaxMishaps /\ kinds' \subseteq Mishaps
    BY <1>4, MishapType DEF Check
  <2> QED
    BY <1>4, <2>1, <2>2 DEF Check, TypeOK, worker
<1>5. ASSUME NEW p \in Pids, RunJob(p) \/ FinishJob(p) PROVE TypeOK'
  <2>1. inFlight' \in [Pids -> BOOLEAN]
    BY <1>5, Zenon DEF RunJob, FinishJob, TypeOK
  <2>2. running[p] \in Nat /\ running \in [Pids -> Nat]
    BY DEF TypeOK
  <2>3. ASSUME RunJob(p) PROVE running' \in [Pids -> Nat]
    BY <2>2, <2>3 DEF RunJob
  <2>4. ASSUME FinishJob(p) PROVE running' \in [Pids -> Nat]
    BY <2>2, <2>4 DEF FinishJob
  <2>5. running' \in [Pids -> Nat]
    BY <1>5, <2>3, <2>4
  <2> QED
    BY <1>5, <2>1, <2>5 DEF RunJob, FinishJob, TypeOK
<1>6. ASSUME NEW p \in Pids, Boot(p) PROVE TypeOK'
  BY <1>6, LeaderAssumption DEF Boot, TypeOK
<1>7. ASSUME NEW p \in Pids, Die(p) PROVE TypeOK'
  <2>1. beat' \in [Pids -> Beat]
    BY <1>7, GoToType DEF Die
  <2> QED
    BY <1>7, <2>1 DEF Die, TypeOK
<1>8. CASE Tick
  <2>1. \A age \in 0 .. Ttl : Older(age) \in 0 .. Ttl
    BY LeaderAssumption DEF Older
  <2>2. lock' \in Lock /\ since' \in [Pids -> 0 .. Ttl]
    BY <1>8, <2>1 DEF Tick, TypeOK, Lock
  <2>3. mishaps' \in 0 .. MaxMishaps /\ kinds' \subseteq Mishaps
    BY <1>8, MishapType DEF Tick
  <2> QED
    BY <1>8, <2>2, <2>3 DEF Tick, TypeOK
<1>9. CASE UNCHANGED vars
  BY <1>9 DEF vars, TypeOK
<1> QED
  BY <1>1, <1>2, <1>3, <1>4, <1>5, <1>6, <1>7, <1>8, <1>9 DEF Next, Heartbeat

\* Every variable keeps its type, whatever goes wrong.
THEOREM TypeCorrect == Spec => []TypeOK
<1>1. Init => TypeOK
  BY InitTypeOK
<1>2. TypeOK /\ [Next]_vars => TypeOK'
  BY NextTypeOK
<1> QED
  BY <1>1, <1>2, PTL DEF Spec

-----------------------------------------------------------------------------
(* The lease *)

\* How old the lock of a worker that leads may have become.
Slack(p) == since[p] + mishaps * Period + (IF beat[p].at = "open" THEN Period ELSE 0)

OneBeat  == \A p, q \in Pids : InBeat(p) /\ InBeat(q) => p = q
Prompt   == \A p \in Pids : status[p] = "up" => since[p] <= Period
Alive(p) == InBeat(p) \/ leader[p] => status[p] = "up"
\* Who leads owns the lock, except while it writes it anew.
Held(p)  == leader[p] /\ beat[p].at # "write" => lock.pid = p /\ lock.age <= Slack(p)
\* Whoever is at the file has seen that nobody else leads.
Claimed(p) ==
    /\ InBeat(p) => \A q \in Pids : leader[q] => q = p
    /\ beat[p].at = "check" => lock = [pid |-> p, age |-> 0]
    /\ beat[p].at = "open" => since[p] = 0 /\ (~beat[p].claiming => lock.pid = p)
Runs(p)  == /\ running[p] = IF inFlight[p] THEN 1 ELSE 0
            /\ inFlight[p] => leader[p]

LeaseInv ==
    /\ TypeOK /\ OneBeat /\ Prompt
    /\ \A p \in Pids : Alive(p) /\ Held(p) /\ Claimed(p) /\ Runs(p)

LEMMA MishapSlack ==
    ASSUME TypeOK, Calm
    PROVE  /\ mishaps * Period \in Nat
           /\ mishaps * Period + Period < Ttl
           /\ (mishaps + 1) * Period = mishaps * Period + Period
<1>1. mishaps \in Nat /\ Period \in Nat
  BY LeaderAssumption DEF TypeOK
<1>2. \A m \in Nat, k \in Nat : m * k \in Nat /\ (m + 1) * k = m * k + k
  BY SMT
<1> QED
  BY <1>1, <1>2 DEF Calm

\* A calm state is reached by calm steps only.
LEMMA CalmMishap ==
    ASSUME Calm', NEW kind, Mishap(kind)
    PROVE  kind = "open"
BY DEF Calm, Mishap

LEMMA CalmBefore ==
    ASSUME TypeOK, [Next]_vars, Calm'
    PROVE  Calm
<1>1. (\E kind \in {"race", "stall", "open", "io"} : Mishap(kind)) \/ NoMishap
  BY DEF Next, Heartbeat, Read, Open, Write, Check, RunJob, FinishJob, Boot, Die, Tick, NoMishap, vars
<1>2. CASE NoMishap
  BY <1>2 DEF NoMishap, Calm
<1>3. CASE \E kind \in {"race", "stall", "open", "io"} : Mishap(kind)
  <2>1. kinds \subseteq kinds' /\ mishaps' = mishaps + 1
    BY <1>3 DEF Mishap
  <2>2. mishaps \in Nat /\ Period \in Nat /\ Ttl \in Nat
    BY LeaderAssumption DEF TypeOK
  <2>3. \A m \in Nat, k \in Nat : (m + 1) * k <= (m + 2) * k /\ (m + 1) * k \in Nat /\ (m + 2) * k \in Nat
    BY SMT
  <2>4. (mishaps + 2) * Period < Ttl
    BY <2>1, <2>2 DEF Calm
  <2> QED
    BY <2>1, <2>2, <2>3, <2>4 DEF Calm
<1> QED
  BY <1>1, <1>2, <1>3

\* Outside the heartbeats the lock of the worker that leads is good.
LEMMA LeaderIsFresh ==
    ASSUME Calm, LeaseInv, NEW p \in Pids, leader[p], ~InBeat(p)
    PROVE  lock.pid = p /\ Fresh(lock)
<1>1. status[p] = "up" /\ since[p] <= Period
  BY DEF LeaseInv, Alive, Prompt
<1>2. lock.pid = p /\ lock.age <= since[p] + mishaps * Period
  <2>1. lock.pid = p /\ lock.age <= Slack(p)
    BY DEF LeaseInv, Held, InBeat
  <2>2. Slack(p) = since[p] + mishaps * Period
    BY MishapSlack, LeaderAssumption DEF Slack, InBeat, LeaseInv, TypeOK
  <2> QED
    BY <2>1, <2>2
<1>3. since[p] \in Nat /\ lock.age \in Nat /\ Ttl \in Nat /\ Period \in Nat
  BY LeaderAssumption DEF LeaseInv, TypeOK, Lock
<1>4. lock.age < Ttl
  BY <1>1, <1>2, <1>3, MishapSlack DEF LeaseInv
<1> QED
  BY <1>2, <1>4, LeaderAssumption DEF Fresh

LEMMA InitLeaseInv == Init => LeaseInv
<1> SUFFICES ASSUME Init PROVE LeaseInv
  OBVIOUS
<1>1. TypeOK
  BY InitTypeOK
<1>2. \A p \in Pids : ~InBeat(p) /\ beat[p].at = "idle" /\ ~leader[p] /\ ~inFlight[p] /\ running[p] = 0 /\ status[p] = "new"
  BY DEF Init, InBeat, Idle
<1> QED
  BY <1>1, <1>2 DEF LeaseInv, OneBeat, Prompt, Alive, Held, Claimed, Runs

LEMMA ReadLease ==
    ASSUME Calm, Calm', LeaseInv, NEW p \in Pids, Read(p), TypeOK'
    PROVE  LeaseInv'
<1>1. Decide(p, lock) /\ UNCHANGED mishaps /\ \A q \in Pids : ~InBeat(q)
  BY CalmMishap DEF Read, NoMishap
<1>2. \A q \in Pids : leader[q] => lock.pid = q /\ Fresh(lock)
  BY <1>1, LeaderIsFresh
<1>3. /\ \A q \in Pids : beat[q].at = "idle"
      /\ \A q \in Pids : q # p => since'[q] = since[q] /\ beat'[q] = beat[q] /\ leader'[q] = leader[q]
      /\ since'[p] = 0 /\ lock' = lock /\ status' = status /\ status[p] = "up"
      /\ running' = running /\ inFlight' = inFlight
  BY <1>1 DEF Read, Decide, InBeat, LeaseInv, TypeOK
<1>4. OneBeat' /\ Prompt'
  BY <1>1, <1>3, LeaderAssumption DEF LeaseInv, OneBeat, Prompt, InBeat
<1>5. CASE Renews(p, lock) \/ ~Fresh(lock)
  <2>1. beat'[p] = [at |-> "open", claiming |-> ~Renews(p, lock)] /\ UNCHANGED leader
    BY <1>1, <1>5 DEF Decide, LeaseInv, TypeOK
  <2>2. \A q \in Pids : leader[q] => q = p
    BY <1>2, <1>5 DEF Renews
  <2>5. beat'[p].at = "open" /\ (~beat'[p].claiming => lock.pid = p)
    <3>1. beat'[p].claiming = ~Renews(p, lock)
      BY <2>1
    <3>2. beat'[p].at = "open"
      BY <2>1
    <3> QED
      BY <3>1, <3>2 DEF Renews
  <2>6. \A q \in Pids : Alive(q)' /\ Runs(q)'
    BY <1>3, <2>1 DEF LeaseInv, Alive, Runs, InBeat
  <2>7. \A q \in Pids : Claimed(q)'
    BY <1>3, <2>1, <2>2, <2>5 DEF Claimed, InBeat
  <2>3. \A q \in Pids : Alive(q)' /\ Runs(q)' /\ Claimed(q)'
    BY <2>6, <2>7
  <2>4. \A q \in Pids : Held(q)'
    <3>1. ASSUME leader[p] PROVE lock.pid = p /\ lock.age <= Slack(p)'
      <4>1. lock.pid = p /\ lock.age <= Slack(p) /\ since[p] <= Period
        BY <1>3, <3>1 DEF LeaseInv, Held, Prompt
      <4>2. mishaps' = mishaps /\ since'[p] = 0 /\ beat[p].at = "idle" /\ beat'[p].at = "open"
        BY <1>1, <1>3, <2>1
      <4>4. Slack(p) = since[p] + mishaps * Period + 0 /\ Slack(p)' = 0 + mishaps * Period + Period
        BY <4>2 DEF Slack
      <4>3. since[p] \in Nat /\ lock.age \in Nat /\ Period \in Nat
        BY LeaderAssumption DEF LeaseInv, TypeOK, Lock
      <4> QED
        BY <4>1, <4>3, <4>4, MishapSlack DEF LeaseInv
    <3> QED
      BY <1>3, <2>1, <2>2, <3>1 DEF Held
  <2> QED
    BY <1>4, <2>3, <2>4 DEF LeaseInv
<1>6. CASE ~Renews(p, lock) /\ Fresh(lock)
  <2>1. ~leader'[p] /\ UNCHANGED beat /\ ~leader[p]
    BY <1>1, <1>2, <1>6 DEF Decide, Renews, LeaseInv, TypeOK
  <2>2. \A q \in Pids : Alive(q)' /\ Runs(q)' /\ Claimed(q)'
    BY <1>3, <2>1 DEF LeaseInv, Alive, Runs, Claimed, InBeat
  <2>3. \A q \in Pids : Held(q)'
    BY <1>1, <1>3, <2>1 DEF LeaseInv, Held, Slack
  <2> QED
    BY <1>4, <2>2, <2>3 DEF LeaseInv
<1> QED
  BY <1>5, <1>6

\* Within its heartbeat a worker is the only one in a heartbeat and the only one that
\* may lead.
LEMMA InBeatAlone ==
    ASSUME LeaseInv, NEW p \in Pids, InBeat(p)
    PROVE  /\ status[p] = "up"
           /\ \A q \in Pids : q # p => beat[q].at = "idle" /\ ~leader[q]
BY DEF LeaseInv, OneBeat, Claimed, Alive, InBeat

LEMMA OpenLease ==
    ASSUME Calm, Calm', LeaseInv, NEW p \in Pids, Open(p), TypeOK'
    PROVE  LeaseInv'
<1>1. beat[p].at = "open" /\ InBeat(p) /\ status[p] = "up"
  BY InBeatAlone DEF Open, InBeat
<1>2. \A q \in Pids : q # p => beat[q].at = "idle" /\ ~leader[q] /\ beat'[q] = beat[q]
  BY <1>1, InBeatAlone DEF Open, GoTo, Return, LeaseInv, TypeOK
<1>3. beat'[p].at \in {"write", "idle"}
  BY <1>1 DEF Open, GoTo, Return, Idle, LeaseInv, TypeOK, Beat
<1>4. OneBeat' /\ Prompt' /\ \A q \in Pids : Alive(q)' /\ Claimed(q)' /\ Runs(q)'
  BY <1>1, <1>2, <1>3 DEF Open, worker, LeaseInv, OneBeat, Prompt, Alive, Claimed, Runs, InBeat
<1>5. \A q \in Pids : Held(q)'
  <2>1. CASE GoTo(p, "write")
    <3>1. beat'[p].at = "write"
      BY <2>1 DEF GoTo, LeaseInv, TypeOK, Beat
    <3> QED
      BY <1>2, <3>1 DEF Held, Open
  <2>2. CASE Return(p) /\ Mishap("open") /\ UNCHANGED lock
    <3>1. ASSUME leader[p] PROVE lock.pid = p /\ lock.age <= Slack(p)'
      <4>1. since[p] = 0 /\ lock.pid = p /\ lock.age <= Slack(p)
        BY <1>1, <3>1 DEF LeaseInv, Claimed, Held
      <4>2. beat'[p].at = "idle" /\ since'[p] = 0 /\ mishaps' = mishaps + 1
        BY <2>2, <4>1 DEF Return, Idle, Mishap, Open, worker, LeaseInv, TypeOK
      <4>3. Slack(p) = 0 + mishaps * Period + Period /\ Slack(p)' = 0 + (mishaps + 1) * Period + 0
        BY <1>1, <4>1, <4>2 DEF Slack
      <4>4. lock.age \in Nat /\ Period \in Nat
        BY LeaderAssumption DEF LeaseInv, TypeOK, Lock
      <4> QED
        BY <4>1, <4>3, <4>4, MishapSlack DEF LeaseInv
    <3> QED
      BY <1>2, <2>2, <3>1 DEF Held, Open
  <2> QED
    BY <2>1, <2>2 DEF Open
<1> QED
  BY <1>4, <1>5 DEF LeaseInv

LEMMA WriteLease ==
    ASSUME Calm, Calm', LeaseInv, NEW p \in Pids, Write(p), TypeOK'
    PROVE  LeaseInv'
<1>1. beat[p].at = "write" /\ InBeat(p) /\ status[p] = "up"
  BY InBeatAlone DEF Write, InBeat
<1>2. \A q \in Pids : q # p => /\ beat[q].at = "idle" /\ ~leader[q]
                               /\ beat'[q] = beat[q] /\ leader'[q] = leader[q]
  BY <1>1, InBeatAlone DEF Write, GoTo, Return, LeaseInv, TypeOK
<1>3. lock' = [pid |-> p, age |-> 0] /\ UNCHANGED <<status, since, inFlight, running, mishaps>>
  BY CalmMishap DEF Write, NoMishap, worker
<1>4. beat'[p].at \in {"check", "idle"} /\ (leader[p] => leader'[p])
  <2>1. CASE GoTo(p, "check") /\ UNCHANGED leader
    BY <2>1 DEF GoTo, LeaseInv, TypeOK, Beat
  <2>2. CASE Return(p) /\ leader' = [leader EXCEPT ![p] = TRUE]
    BY <2>2 DEF Return, Idle, LeaseInv, TypeOK
  <2> QED
    BY <2>1, <2>2, CalmMishap DEF Write
<1>5. OneBeat' /\ Prompt' /\ \A q \in Pids : Alive(q)' /\ Claimed(q)' /\ Runs(q)'
  BY <1>1, <1>2, <1>3, <1>4 DEF LeaseInv, OneBeat, Prompt, Alive, Claimed, Runs, InBeat
<1>6. Slack(p)' >= 0
  BY <1>3, MishapSlack, LeaderAssumption DEF Slack, LeaseInv, TypeOK
<1>7. \A q \in Pids : Held(q)'
  BY <1>2, <1>3, <1>6 DEF Held
<1> QED
  BY <1>5, <1>7 DEF LeaseInv

LEMMA CheckLease ==
    ASSUME Calm, Calm', LeaseInv, NEW p \in Pids, Check(p), TypeOK'
    PROVE  LeaseInv'
<1>1. beat[p].at = "check" /\ InBeat(p) /\ status[p] = "up" /\ lock = [pid |-> p, age |-> 0]
  BY InBeatAlone DEF Check, InBeat, LeaseInv, Claimed
<1>2. \A q \in Pids : q # p => /\ beat[q].at = "idle" /\ ~leader[q]
                               /\ beat'[q] = beat[q] /\ leader'[q] = leader[q]
  BY <1>1, InBeatAlone DEF Check, Return, LeaseInv, TypeOK
<1>3. leader'[p] /\ beat'[p].at = "idle" /\ UNCHANGED <<status, lock, since, inFlight, running, mishaps>>
  BY <1>1, CalmMishap DEF Check, Return, Idle, NoMishap, worker, LeaseInv, TypeOK
<1>4. OneBeat' /\ Prompt' /\ \A q \in Pids : Alive(q)' /\ Claimed(q)' /\ Runs(q)'
  BY <1>1, <1>2, <1>3 DEF LeaseInv, OneBeat, Prompt, Alive, Claimed, Runs, InBeat
<1>5. Slack(p)' >= 0
  BY <1>3, MishapSlack, LeaderAssumption DEF Slack, LeaseInv, TypeOK
<1>6. \A q \in Pids : Held(q)'
  BY <1>1, <1>2, <1>3, <1>5 DEF Held
<1> QED
  BY <1>4, <1>6 DEF LeaseInv

LEMMA JobLease ==
    ASSUME LeaseInv, NEW p \in Pids, RunJob(p) \/ FinishJob(p), TypeOK'
    PROVE  LeaseInv'
<1>1. UNCHANGED <<status, lock, since, beat, leader, mishaps>>
  BY DEF RunJob, FinishJob
<1>2. OneBeat' /\ Prompt' /\ \A q \in Pids : Alive(q)' /\ Held(q)' /\ Claimed(q)'
  BY <1>1 DEF LeaseInv, OneBeat, Prompt, Alive, Held, Claimed, InBeat, Slack
<1>3. \A q \in Pids : q # p => running'[q] = running[q] /\ inFlight'[q] = inFlight[q]
  BY DEF RunJob, FinishJob, LeaseInv, TypeOK
<1>4. Runs(p)'
  <2>1. running[p] \in Nat /\ running[p] = IF inFlight[p] THEN 1 ELSE 0
    BY DEF LeaseInv, TypeOK, Runs
  <2>2. CASE RunJob(p)
    <3>1. ~inFlight[p] /\ leader[p] /\ inFlight'[p]
      BY <2>2 DEF RunJob, MayRun, LeaseInv, TypeOK
    <3>2. running'[p] = running[p] + 1
      BY <2>2 DEF RunJob, LeaseInv, TypeOK
    <3> QED
      BY <1>1, <2>1, <3>1, <3>2 DEF Runs
  <2>3. CASE FinishJob(p)
    <3>1. running[p] > 0 /\ running'[p] = running[p] - 1
      BY <2>3 DEF FinishJob, LeaseInv, TypeOK
    <3>2. ~inFlight'[p]
      BY <2>3 DEF FinishJob, LeaseInv, TypeOK
    <3> QED
      BY <2>1, <3>1, <3>2 DEF Runs
  <2> QED
    BY <2>2, <2>3
<1>5. \A q \in Pids : Runs(q)'
  BY <1>1, <1>3, <1>4 DEF LeaseInv, Runs
<1> QED
  BY <1>2, <1>5 DEF LeaseInv

LEMMA BootLease ==
    ASSUME LeaseInv, NEW p \in Pids, Boot(p), TypeOK'
    PROVE  LeaseInv'
<1>1. ~InBeat(p) /\ ~leader[p]
  BY DEF Boot, LeaseInv, Alive
<1>2. \A q \in Pids : q # p => status'[q] = status[q] /\ since'[q] = since[q]
  BY DEF Boot, LeaseInv, TypeOK
<1>3. since'[p] = Period /\ status'[p] = "up" /\ Period \in Nat
  BY LeaderAssumption DEF Boot, LeaseInv, TypeOK
<1>4. UNCHANGED <<lock, beat, leader, inFlight, running, mishaps>>
  BY DEF Boot
<1>5. OneBeat' /\ Prompt'
  BY <1>2, <1>3, <1>4 DEF LeaseInv, OneBeat, Prompt, InBeat
<1>6. \A q \in Pids : Alive(q)' /\ Held(q)' /\ Claimed(q)' /\ Runs(q)'
  <2>1. ASSUME NEW q \in Pids, q # p PROVE Alive(q)' /\ Held(q)' /\ Claimed(q)' /\ Runs(q)'
    BY <1>2, <1>4, <2>1 DEF LeaseInv, Alive, Held, Claimed, Runs, InBeat, Slack
  <2>2. Alive(p)' /\ Held(p)' /\ Claimed(p)' /\ Runs(p)'
    BY <1>1, <1>3, <1>4 DEF LeaseInv, Alive, Held, Claimed, Runs, InBeat
  <2> QED
    BY <2>1, <2>2
<1> QED
  BY <1>5, <1>6 DEF LeaseInv

LEMMA DieLease ==
    ASSUME LeaseInv, NEW p \in Pids, Die(p), TypeOK'
    PROVE  LeaseInv'
<1>1. \A q \in Pids : q # p => /\ status'[q] = status[q] /\ leader'[q] = leader[q] /\ beat'[q] = beat[q]
                               /\ inFlight'[q] = inFlight[q] /\ running'[q] = running[q]
  BY DEF Die, Return, LeaseInv, TypeOK
<1>2. ~leader'[p] /\ ~inFlight'[p] /\ status'[p] = "dead"
  BY DEF Die, LeaseInv, TypeOK
<1>3. beat'[p].at = "idle" /\ running'[p] = 0 /\ UNCHANGED <<lock, since, mishaps>>
  BY DEF Die, Return, Idle, LeaseInv, TypeOK
<1>4. OneBeat' /\ Prompt'
  BY <1>1, <1>2, <1>3 DEF LeaseInv, OneBeat, Prompt, InBeat
<1>5. ASSUME NEW q \in Pids, q # p PROVE Alive(q)' /\ Held(q)' /\ Claimed(q)' /\ Runs(q)'
  BY <1>1, <1>2, <1>3, <1>5 DEF LeaseInv, Alive, Held, Claimed, Runs, InBeat, Slack
<1>6. Alive(p)' /\ Held(p)' /\ Claimed(p)' /\ Runs(p)'
  BY <1>2, <1>3 DEF Alive, Held, Claimed, Runs, InBeat
<1> QED
  BY <1>4, <1>5, <1>6 DEF LeaseInv

LEMMA TickLease ==
    ASSUME Calm, Calm', LeaseInv, Tick, TypeOK'
    PROVE  LeaseInv'
<1>1. UNCHANGED <<status, beat, leader, inFlight, running, mishaps>>
  BY CalmMishap DEF Tick, NoMishap
<1>2. \A p \in Pids : /\ ~InBeat(p) /\ beat[p].at = "idle"
                      /\ status[p] = "up" => since[p] < Period /\ since'[p] = since[p] + 1
  <2>1. \A p \in Pids : ~InBeat(p) /\ ~Late(p)
    BY CalmMishap DEF Tick, NoMishap
  <2>2. \A p \in Pids : since[p] \in Nat /\ (status[p] = "up" => since[p] < Period)
    BY <2>1, LeaderAssumption DEF Late, LeaseInv, TypeOK
  <2>3. \A p \in Pids : status[p] = "up" => since'[p] = since[p] + 1
    BY <2>2, LeaderAssumption DEF Tick, Older, LeaseInv, TypeOK
  <2> QED
    BY <2>1, <2>2, <2>3 DEF InBeat
<1>3. OneBeat' /\ Prompt' /\ \A p \in Pids : Alive(p)' /\ Claimed(p)' /\ Runs(p)'
  <2>1. Prompt'
    BY <1>1, <1>2, LeaderAssumption DEF Prompt, LeaseInv, TypeOK
  <2> QED
    BY <1>1, <1>2, <2>1 DEF LeaseInv, OneBeat, Alive, Claimed, Runs, InBeat
<1>4. ASSUME NEW p \in Pids, leader[p] PROVE lock'.pid = p /\ lock'.age <= Slack(p)'
  <2>1. lock.pid = p /\ lock.age <= Slack(p) /\ status[p] = "up"
    BY <1>2, <1>4 DEF LeaseInv, Held, Alive
  <2>2. Slack(p) = since[p] + mishaps * Period + 0 /\ Slack(p)' = since[p] + 1 + mishaps * Period + 0
    BY <1>1, <1>2, <2>1 DEF Slack
  <2>3. lock'.pid = p /\ lock'.age <= lock.age + 1
    BY <2>1, LeaderAssumption DEF Tick, Older, LeaseInv, TypeOK, Lock
  <2>4. lock.age \in Nat /\ lock'.age \in Nat /\ since[p] \in Nat
    BY DEF LeaseInv, TypeOK, Lock
  <2> QED
    BY <2>1, <2>2, <2>3, <2>4, MishapSlack DEF LeaseInv
<1>5. \A p \in Pids : Held(p)'
  BY <1>1, <1>4 DEF Held
<1> QED
  BY <1>3, <1>5 DEF LeaseInv

CalmInv == TypeOK /\ (Calm => LeaseInv)

LEMMA NextCalmInv ==
    ASSUME CalmInv, [Next]_vars
    PROVE  CalmInv'
<1>1. TypeOK'
  BY NextTypeOK DEF CalmInv
<1> SUFFICES ASSUME Calm' PROVE LeaseInv'
  BY <1>1 DEF CalmInv
<1>2. Calm /\ LeaseInv
  BY CalmBefore DEF CalmInv
<1>3. CASE UNCHANGED vars
  BY <1>1, <1>2, <1>3 DEF vars, LeaseInv, OneBeat, Prompt, Alive, Held, Claimed, Runs, InBeat, Slack
<1> QED
  BY <1>1, <1>2, <1>3, ReadLease, OpenLease, WriteLease, CheckLease, JobLease, BootLease, DieLease,
     TickLease DEF Next, Heartbeat

LEMMA CalmInvOneLeader ==
    ASSUME CalmInv
    PROVE  OneLeader
<1>1. SUFFICES ASSUME Calm, NEW p \in Pids, NEW q \in Pids, leader[p], leader[q] PROVE p = q
  BY DEF OneLeader
<1>2. LeaseInv
  BY <1>1 DEF CalmInv
<1>3. CASE InBeat(p) \/ InBeat(q)
  BY <1>1, <1>2, <1>3 DEF LeaseInv, Claimed
<1>4. CASE ~InBeat(p) /\ ~InBeat(q)
  BY <1>1, <1>2, <1>4, LeaderIsFresh
<1> QED
  BY <1>3, <1>4

\* At most one worker believes to lead, with any number of workers started and dying,
\* as long as heartbeats are atomic and prompt and the TTL outlasts the failed renewals.
THEOREM LeaderIsUnique == Spec => []OneLeader
<1>1. Init => CalmInv
  BY InitTypeOK, InitLeaseInv DEF CalmInv
<1>2. CalmInv /\ [Next]_vars => CalmInv'
  BY NextCalmInv
<1>3. CalmInv => OneLeader
  BY CalmInvOneLeader
<1> QED
  BY <1>1, <1>2, <1>3, PTL DEF Spec

\* So long a scheduled job never runs twice at a time, on one worker or on two.
THEOREM JobsAreExclusive == Spec => []JobsWhenCalm
<1>1. Init => CalmInv
  BY InitTypeOK, InitLeaseInv DEF CalmInv
<1>2. CalmInv /\ [Next]_vars => CalmInv'
  BY NextCalmInv
<1>3. CalmInv => JobsWhenCalm
  <2>1. ASSUME Calm, CalmInv, NEW p \in Pids, running[p] > 0
        PROVE  leader[p] /\ running[p] = 1
    BY <2>1 DEF CalmInv, LeaseInv, Runs
  <2> QED
    BY <2>1, CalmInvOneLeader DEF JobsWhenCalm, JobsOnOneInstance, OneLeader
<1> QED
  BY <1>1, <1>2, <1>3, PTL DEF Spec

-----------------------------------------------------------------------------
(* The exceptions of a shift: AttendanceExceptions, beside the leader.  Its clock, rows   *)
(* and counters are other variables, and its assumption a hypothesis of the theorems.      *)

CONSTANTS Jobs, LateGrace, NoShow, ShiftEnd, EarlyOut, MissedOut, Window, MaxMoves,
          MaxFaults, Horizon
VARIABLES now, record, exs, work, told, moves, faults

X == INSTANCE AttendanceExceptions

\* What the job and the punches find.
LEMMA DetectTypes ==
    /\ \A in, out \in BOOLEAN : X!Detect(in, out) \subseteq X!Types
    /\ X!EvaluateClockIn \subseteq X!Types /\ X!EvaluateClockOut \subseteq X!Types
    /\ \A in, out \in BOOLEAN, j \in Jobs : \A t \in X!Detect(in, out) : j \in X!Reporters(t)
    /\ \A t \in X!EvaluateClockIn : "in" \in X!Reporters(t)
    /\ \A t \in X!EvaluateClockOut : "out" \in X!Reporters(t)
BY DEF X!Reporters, X!Detect, X!EvaluateClockIn, X!EvaluateClockOut, X!Types

LEMMA ExceptionParts ==
    ASSUME X!TypeOK
    PROVE  /\ record.state \in {"none", "open", "closed"} /\ record.linked \in BOOLEAN
           /\ exs \in Seq(X!Exception) /\ work \in [X!Writers -> X!Work \cup {X!Idle}]
           /\ told \subseteq 1 .. Len(exs) /\ Len(exs) \in Nat
           /\ \A w \in X!Writers : X!Busy(w) => work[w] \in X!Work
BY DEF X!TypeOK, X!Record, X!Busy

\* A writer that begins, goes on or returns.
LEMMA WorkMoves ==
    ASSUME X!TypeOK, NEW w \in X!Writers, NEW x \in X!Work \cup {X!Idle},
           work' = [work EXCEPT ![w] = x]
    PROVE  /\ work' \in [X!Writers -> X!Work \cup {X!Idle}] /\ work'[w] = x
           /\ \A v \in X!Writers : v # w => work'[v] = work[v]
BY ExceptionParts

LEMMA ReportMoves ==
    ASSUME X!TypeOK, NEW w \in X!Writers, NEW types \in SUBSET X!Types, NEW ofShift \in BOOLEAN,
           NEW ofRecord \in BOOLEAN, X!Report(w, types, ofShift, ofRecord)
    PROVE  /\ work' \in [X!Writers -> X!Work \cup {X!Idle}]
           /\ \A v \in X!Writers : v # w => work'[v] = work[v]
           /\ X!At(w, "create")' => ~work'[w].ofShift
           /\ X!Busy(w)' => work'[w].types = types
<1>1. PICK x : x = IF types = {} THEN X!Idle
                   ELSE [pc |-> IF ofShift THEN "find" ELSE "create", types |-> types,
                         ofShift |-> ofShift, ofRecord |-> ofRecord]
  OBVIOUS
<1>2. work' = [work EXCEPT ![w] = x]
  BY <1>1 DEF X!Report
<1>3. x \in X!Work \cup {X!Idle}
  BY <1>1 DEF X!Work
<1>4. x = X!Idle \/ x.pc = "find" \/ ~x.ofShift
  BY <1>1
<1>5. x = X!Idle \/ x.types = types
  BY <1>1
<1> QED
  BY <1>2, <1>3, <1>4, <1>5, WorkMoves DEF X!At, X!Busy

\* Where rows, writers and the record are touched.
LEMMA NextKinds ==
    ASSUME [X!Next]_X!vars
    PROVE  \/ \E j \in Jobs : X!JobScan(j) \/ X!JobDies(j)
           \/ X!ClockIn \/ X!ClockInLink \/ X!ClockInAgain \/ X!ClockOut
           \/ \E w \in X!Writers : X!Find(w) \/ X!Create(w)
           \/ \E e \in DOMAIN exs : X!ResolveException(e)
           \/ X!ReviewRecord \/ X!Tick
           \/ UNCHANGED <<now, record, exs, work, told, moves, faults>>
BY DEF X!Next, X!vars

LEMMA MoveCounts ==
    ASSUME X!ExceptionsAssumption, X!TypeOK, X!Move
    PROVE  moves' \in 0 .. MaxMoves
BY DEF X!ExceptionsAssumption, X!TypeOK, X!Move

LEMMA FaultCounts ==
    ASSUME X!ExceptionsAssumption, X!TypeOK, X!Fault
    PROVE  faults' \in 0 .. MaxFaults /\ faults' = faults + 1
BY DEF X!ExceptionsAssumption, X!TypeOK, X!Fault

\* A writer at work knows what it found.
LEMMA WorkParts ==
    ASSUME X!TypeOK, NEW w \in X!Writers, NEW pc, X!At(w, pc)
    PROVE  /\ work[w] \in X!Work /\ work[w].pc = pc /\ work[w].types \subseteq X!Types
           /\ work[w].ofShift \in BOOLEAN /\ work[w].ofRecord \in BOOLEAN
<1>1. work[w] \in X!Work /\ work[w].pc = pc
  BY ExceptionParts DEF X!At, X!Busy
<1> QED
  BY <1>1 DEF X!Work

LEMMA FindMoves ==
    ASSUME X!TypeOK, NEW w \in X!Writers, X!Find(w)
    PROVE  /\ work' \in [X!Writers -> X!Work \cup {X!Idle}]
           /\ \A v \in X!Writers : v # w => work'[v] = work[v]
           /\ faults' = faults \/ X!Fault
           /\ faults' = faults /\ X!At(w, "create")' => work'[w].types \cap X!OpenTypes = {}
           /\ X!Busy(w)' => work'[w].types \subseteq work[w].types
<1>1. X!At(w, "find")
  BY DEF X!Find
<1>2. PICK fresh \in {X!Fresh(work[w].types), work[w].types} :
          /\ IF fresh = X!Fresh(work[w].types) THEN UNCHANGED faults
             ELSE w \in X!Punches /\ X!Fault
          /\ work' = [work EXCEPT ![w] =
                IF fresh = {} THEN X!Idle ELSE [@ EXCEPT !.pc = "create", !.types = fresh]]
  BY DEF X!Find
<1>3. PICK u : u = work[w]
  OBVIOUS
<1>4. u \in X!Work /\ u.types \subseteq X!Types /\ fresh \in SUBSET X!Types
  BY <1>1, <1>2, <1>3, WorkParts DEF X!Fresh
<1> DEFINE v == [u EXCEPT !.pc = "create", !.types = fresh]
<1>5. v \in X!Work /\ v.types = fresh
  <2>1. v = [pc |-> "create", types |-> fresh, ofShift |-> u.ofShift, ofRecord |-> u.ofRecord]
    <3> DEFINE n == [u EXCEPT !.pc = "create"]
    <3>1. n = [pc |-> "create", types |-> u.types, ofShift |-> u.ofShift, ofRecord |-> u.ofRecord]
      BY <1>4 DEF X!Work
    <3>2. [n EXCEPT !.types = fresh] =
             [pc |-> "create", types |-> fresh, ofShift |-> u.ofShift, ofRecord |-> u.ofRecord]
      <4> HIDE DEF n
      <4> QED
        BY <3>1
    <3> QED
      BY <3>2, Zenon
  <2>2. u.ofShift \in BOOLEAN /\ u.ofRecord \in BOOLEAN
    BY <1>4 DEF X!Work
  <2> HIDE DEF v
  <2> QED
    BY <1>4, <2>1, <2>2 DEF X!Work
<1>6. PICK x : x = IF fresh = {} THEN X!Idle ELSE v
  OBVIOUS
<1>7. work' = [work EXCEPT ![w] = x]
  BY <1>2, <1>3, <1>6
<1> HIDE DEF v
<1>8. x \in X!Work \cup {X!Idle} /\ (x # X!Idle => x.types = fresh)
  BY <1>5, <1>6
<1>9. work' \in [X!Writers -> X!Work \cup {X!Idle}] /\ work'[w] = x
      /\ \A k \in X!Writers : k # w => work'[k] = work[k]
  BY <1>7, <1>8, WorkMoves
<1>10. faults' = faults => fresh = X!Fresh(work[w].types) \/ X!Fault
  BY <1>2
<1>11. X!TypeOK /\ X!Fault => faults' # faults
  BY DEF X!TypeOK, X!Fault
<1>12. X!Fresh(work[w].types) \cap X!OpenTypes = {}
  BY DEF X!Fresh
<1>13. fresh \subseteq work[w].types
  BY <1>2 DEF X!Fresh
<1> QED
  BY <1>2, <1>8, <1>9, <1>10, <1>11, <1>12, <1>13 DEF X!At, X!Busy

\* A row that is created is the last one; the writer goes on with the types that are left.
Created(w, type) ==
    /\ type \in work[w].types
    /\ \/ /\ exs' = Append(exs, [type |-> type, open |-> TRUE,
                                 ofShift |-> work[w].ofShift, ofRecord |-> work[w].ofRecord])
          /\ told' \subseteq told \cup {Len(exs) + 1} /\ UNCHANGED faults
       \/ X!Fault /\ UNCHANGED <<exs, told>>

LEMMA CreateMoves ==
    ASSUME X!TypeOK, NEW w \in X!Writers, X!Create(w)
    PROVE  /\ X!At(w, "create")
           /\ work' \in [X!Writers -> X!Work \cup {X!Idle}]
           /\ \A v \in X!Writers : v # w => work'[v] = work[v]
           /\ \E type \in X!Types : Created(w, type)
                 /\ (X!Busy(w)' => work'[w].types = work[w].types \ {type}
                                   /\ work'[w].ofShift = work[w].ofShift)
<1>1. X!At(w, "create")
  BY DEF X!Create
<1>2. PICK type \in work[w].types :
          LET e == Len(exs) + 1
          IN  /\ \/ /\ exs' = Append(exs, [type |-> type, open |-> TRUE,
                                   ofShift |-> work[w].ofShift, ofRecord |-> work[w].ofRecord])
                    /\ told' = IF w \in Jobs /\ type \in {"late_arrival", "no_call_no_show"}
                               THEN told \cup {e} ELSE told
                    /\ UNCHANGED faults
                 \/ w \in X!Punches /\ X!Fault /\ UNCHANGED <<exs, told>>
              /\ work' = [work EXCEPT ![w] =
                    IF @.types = {type} THEN X!Idle ELSE [work[w] EXCEPT !.types = @ \ {type}]]
  BY DEF X!Create
<1>3. PICK u : u = work[w]
  OBVIOUS
<1>4. u \in X!Work /\ u.types \subseteq X!Types
  BY <1>1, <1>3, WorkParts
<1> DEFINE v == [u EXCEPT !.types = @ \ {type}]
<1>5. v \in X!Work /\ v.types = u.types \ {type} /\ v.ofShift = u.ofShift
  <2>1. v = [pc |-> u.pc, types |-> u.types \ {type}, ofShift |-> u.ofShift, ofRecord |-> u.ofRecord]
    BY <1>4 DEF X!Work
  <2>2. u.ofShift \in BOOLEAN /\ u.ofRecord \in BOOLEAN /\ u.pc \in {"link", "find", "create"}
    BY <1>4 DEF X!Work
  <2> HIDE DEF v
  <2> QED
    BY <1>4, <2>1, <2>2 DEF X!Work
<1>6. PICK x : x = IF u.types = {type} THEN X!Idle ELSE v
  OBVIOUS
<1>7. work' = [work EXCEPT ![w] = x]
  <2> DEFINE y == IF work[w].types = {type} THEN X!Idle
                  ELSE [work[w] EXCEPT !.types = work[w].types \ {type}]
  <2>1. work' = [work EXCEPT ![w] = y]
    BY <1>2
  <2>2. y = x
    BY <1>3, <1>6
  <2> HIDE DEF y
  <2> QED
    BY <2>1, <2>2
<1> HIDE DEF v
<1>8. x \in X!Work \cup {X!Idle} /\ (x # X!Idle => x = v)
  BY <1>5, <1>6
<1>9. work' \in [X!Writers -> X!Work \cup {X!Idle}] /\ work'[w] = x
      /\ \A k \in X!Writers : k # w => work'[k] = work[k]
  BY <1>7, <1>8, WorkMoves
<1>10. Created(w, type)
  BY <1>2 DEF Created
<1>11. type \in X!Types
  BY <1>3, <1>4
<1> QED
  BY <1>1, <1>3, <1>5, <1>8, <1>9, <1>10, <1>11 DEF X!Busy

LEMMA ExceptionClosed ==
    ASSUME NEW x \in X!Exception
    PROVE  /\ [x EXCEPT !.open = FALSE] \in X!Exception /\ ~[x EXCEPT !.open = FALSE].open
           /\ [x EXCEPT !.open = FALSE].type = x.type /\ [x EXCEPT !.open = FALSE].ofShift = x.ofShift
BY DEF X!Exception

\* A supervisor closes rows, and opens none.
Closes ==
    /\ exs' \in Seq(X!Exception) /\ Len(exs') = Len(exs)
    /\ \A e \in 1 .. Len(exs) : exs'[e].type = exs[e].type /\ exs'[e].ofShift = exs[e].ofShift
                                /\ (exs'[e].open => exs[e].open)

LEMMA ResolveCloses == ASSUME X!TypeOK, NEW e \in DOMAIN exs, X!ResolveException(e) PROVE Closes
<1> DEFINE x == [exs[e] EXCEPT !.open = FALSE]
<1>1. exs \in Seq(X!Exception) /\ DOMAIN exs = 1 .. Len(exs) /\ exs[e] \in X!Exception
  BY DEF X!TypeOK
<1>2. exs' = [exs EXCEPT ![e] = x]
  BY DEF X!ResolveException
<1>3. x \in X!Exception /\ ~x.open /\ x.type = exs[e].type /\ x.ofShift = exs[e].ofShift
  BY <1>1, ExceptionClosed
<1> HIDE DEF x
<1>4. exs' \in Seq(X!Exception) /\ Len(exs') = Len(exs)
  BY <1>1, <1>2, <1>3
<1>5. exs'[e] = x /\ \A f \in 1 .. Len(exs) : f # e => exs'[f] = exs[f]
  BY <1>1, <1>2
<1> QED
  BY <1>3, <1>4, <1>5 DEF Closes

LEMMA ReviewCloses == ASSUME X!TypeOK, X!ReviewRecord PROVE Closes
<1> DEFINE c(e) == [exs[e] EXCEPT !.open = FALSE]
           n(e) == IF exs[e].ofRecord THEN c(e) ELSE exs[e]
<1>1. exs \in Seq(X!Exception) /\ DOMAIN exs = 1 .. Len(exs) /\ Len(exs) \in Nat
  BY DEF X!TypeOK
<1>2. exs' = [e \in 1 .. Len(exs) |-> n(e)]
  BY <1>1 DEF X!ReviewRecord
<1>3. \A e \in 1 .. Len(exs) : n(e) \in X!Exception /\ (n(e).open => exs[e].open)
         /\ n(e).type = exs[e].type /\ n(e).ofShift = exs[e].ofShift
  <2> TAKE e \in 1 .. Len(exs)
  <2>1. exs[e] \in X!Exception
    BY <1>1
  <2>2. c(e) \in X!Exception /\ ~c(e).open /\ c(e).type = exs[e].type /\ c(e).ofShift = exs[e].ofShift
    BY <2>1, ExceptionClosed
  <2> HIDE DEF c
  <2> QED
    BY <2>1, <2>2
<1> HIDE DEF n
<1>4. exs' \in Seq(X!Exception) /\ Len(exs') = Len(exs)
  BY <1>1, <1>2, <1>3
<1>5. \A e \in 1 .. Len(exs) : exs'[e] = n(e)
  BY <1>2
<1> QED
  BY <1>3, <1>4, <1>5 DEF Closes

LEMMA CreatedTypes ==
    ASSUME X!ExceptionsAssumption, X!TypeOK, NEW w \in X!Writers, X!At(w, "create"),
           NEW type \in X!Types, Created(w, type)
    PROVE  exs' \in Seq(X!Exception) /\ told' \subseteq DOMAIN exs' /\ faults' \in 0 .. MaxFaults
<1>1. exs \in Seq(X!Exception) /\ told \subseteq 1 .. Len(exs) /\ faults \in 0 .. MaxFaults
  BY ExceptionParts DEF X!TypeOK
<1>2. CASE X!Fault /\ UNCHANGED <<exs, told>>
  BY <1>1, <1>2, FaultCounts
<1> DEFINE x == [type |-> type, open |-> TRUE,
                 ofShift |-> work[w].ofShift, ofRecord |-> work[w].ofRecord]
<1>3. x \in X!Exception
  BY WorkParts DEF X!Exception
<1> HIDE DEF x
<1>4. CASE exs' = Append(exs, x) /\ told' \subseteq told \cup {Len(exs) + 1} /\ UNCHANGED faults
  <2>1. exs' \in Seq(X!Exception) /\ Len(exs') = Len(exs) + 1 /\ DOMAIN exs' = 1 .. Len(exs) + 1
    BY <1>1, <1>3, <1>4
  <2> QED
    BY <1>1, <1>4, <2>1
<1> QED
  BY <1>2, <1>4 DEF Created, x

LEMMA NextExceptionTypes ==
    ASSUME X!ExceptionsAssumption, X!TypeOK, [X!Next]_X!vars
    PROVE  X!TypeOK'
<1> USE DEF X!TypeOK
<1>0. "in" \in X!Writers /\ "out" \in X!Writers /\ Jobs \subseteq X!Writers
  BY DEF X!Writers, X!Punches
<1>1. CASE \E j \in Jobs : X!JobScan(j) \/ X!JobDies(j)
  <2>1. PICK j \in Jobs : X!JobScan(j) \/ X!JobDies(j)
    BY <1>1
  <2>2. CASE X!JobScan(j)
    <3>1. X!Report(j, X!Detect(record.linked, record.state = "closed"), TRUE, record.linked)
          /\ UNCHANGED <<now, record, exs, told, moves, faults>>
      BY <2>2 DEF X!JobScan
    <3>2. record.linked \in BOOLEAN /\ X!Detect(record.linked, record.state = "closed") \in SUBSET X!Types
      BY ExceptionParts, DetectTypes
    <3>3. work' \in [X!Writers -> X!Work \cup {X!Idle}]
      BY <1>0, <3>1, <3>2, ReportMoves
    <3> QED
      BY <3>1, <3>3
  <2>3. CASE X!JobDies(j)
    <3>1. X!Fault /\ work' = [work EXCEPT ![j] = X!Idle] /\ UNCHANGED <<now, record, exs, told, moves>>
      BY <2>3 DEF X!JobDies, X!Return
    <3> QED
      BY <1>0, <3>1, FaultCounts, WorkMoves
  <2> QED
    BY <2>1, <2>2, <2>3
<1>2. CASE X!ClockIn
  <2> DEFINE x == [pc |-> "link", types |-> X!EvaluateClockIn, ofShift |-> TRUE, ofRecord |-> TRUE]
  <2>1. x \in X!Work
    BY DetectTypes DEF X!Work
  <2>2. work' = [work EXCEPT !["in"] = x] /\ record' \in X!Record /\ UNCHANGED <<now, exs, told, moves, faults>>
    BY <1>2 DEF X!ClockIn, X!Record
  <2> HIDE DEF x
  <2> QED
    BY <1>0, <2>1, <2>2, WorkMoves
<1>3. CASE X!ClockInLink
  <2>1. /\ X!At("in", "link") /\ X!Report("in", work["in"].types, TRUE, TRUE)
        /\ (record' = [record EXCEPT !.linked = TRUE] /\ UNCHANGED faults) \/ (X!Fault /\ UNCHANGED record)
        /\ UNCHANGED <<now, exs, told, moves>>
    BY <1>3 DEF X!ClockInLink
  <2>2. work["in"].types \in SUBSET X!Types
    BY <1>0, <2>1, WorkParts
  <2>3. work' \in [X!Writers -> X!Work \cup {X!Idle}]
    BY <1>0, <2>1, <2>2, ReportMoves
  <2>4. record' \in X!Record /\ faults' \in 0 .. MaxFaults
    BY <2>1, FaultCounts DEF X!Record
  <2> QED
    BY <2>1, <2>3, <2>4
<1>4. CASE X!ClockInAgain
  <2>1. X!Move /\ record' = [record EXCEPT !.state = "open"] /\ UNCHANGED <<now, exs, work, told, faults>>
    BY <1>4 DEF X!ClockInAgain
  <2>2. record' \in X!Record
    BY <2>1 DEF X!Record
  <2> QED
    BY <2>1, <2>2, MoveCounts
<1>5. CASE X!ClockOut
  <2>1. /\ record' = [record EXCEPT !.state = "closed"]
        /\ X!Report("out", X!EvaluateClockOut, record.linked, TRUE)
        /\ UNCHANGED <<now, exs, told, moves, faults>>
    BY <1>5 DEF X!ClockOut
  <2>2. record' \in X!Record /\ record.linked \in BOOLEAN
    BY <2>1 DEF X!Record
  <2>3. work' \in [X!Writers -> X!Work \cup {X!Idle}]
    BY <1>0, <2>1, <2>2, DetectTypes, ReportMoves
  <2> QED
    BY <2>1, <2>2, <2>3
<1>6. CASE \E w \in X!Writers : X!Find(w) \/ X!Create(w)
  <2>1. PICK w \in X!Writers : X!Find(w) \/ X!Create(w)
    BY <1>6
  <2>2. CASE X!Find(w)
    BY <2>2, FindMoves, FaultCounts DEF X!Find
  <2>3. CASE X!Create(w)
    <3>1. UNCHANGED <<now, record, moves>>
      BY <2>3 DEF X!Create
    <3>2. exs' \in Seq(X!Exception) /\ told' \subseteq DOMAIN exs' /\ faults' \in 0 .. MaxFaults
      BY <2>3, CreateMoves, CreatedTypes
    <3> QED
      BY <2>3, <3>1, <3>2, CreateMoves
  <2> QED
    BY <2>1, <2>2, <2>3
<1>7. CASE \E e \in DOMAIN exs : X!ResolveException(e)
  <2>1. X!Move /\ UNCHANGED <<now, record, work, told, faults>>
    BY <1>7 DEF X!ResolveException
  <2>2. exs' \in Seq(X!Exception) /\ Len(exs') = Len(exs)
    BY <1>7, ResolveCloses DEF Closes
  <2> QED
    BY <2>1, <2>2, MoveCounts
<1>8. CASE X!ReviewRecord
  <2>1. X!Move /\ UNCHANGED <<now, record, work, told, faults>>
    BY <1>8 DEF X!ReviewRecord
  <2>2. exs' \in Seq(X!Exception) /\ Len(exs') = Len(exs)
    BY <1>8, ReviewCloses DEF Closes
  <2> QED
    BY <2>1, <2>2, MoveCounts
<1>9. CASE X!Tick
  <2>1. now' \in 0 .. Horizon
    BY <1>9 DEF X!Tick, X!ExceptionsAssumption
  <2> QED
    BY <1>9, <2>1 DEF X!Tick
<1>10. CASE UNCHANGED <<now, record, exs, work, told, moves, faults>>
  BY <1>10
<1> QED
  BY <1>1, <1>2, <1>3, <1>4, <1>5, <1>6, <1>7, <1>8, <1>9, <1>10, NextKinds

-----------------------------------------------------------------------------
(* One open exception per type *)

\* Every writer reports its own types.
ReportsOwn == \A w \in X!Writers : X!Busy(w) => \A t \in work[w].types : w \in X!Reporters(t)

\* The open rows of a type, and the writers that found none and are about to create one.
Rows(t)  == {e \in 1 .. Len(exs) : exs[e].type = t /\ exs[e].open /\ exs[e].ofShift}
About(t) == {w \in X!Writers : X!At(w, "create") /\ work[w].ofShift /\ t \in work[w].types}

\* How many writers may be about to create a row of a type.
Crew(t) == Cardinality(X!Reporters(t))

\* A lookup that fails lets one writer more go on.
ExceptionsInv ==
    /\ X!TypeOK /\ ReportsOwn
    /\ \A t \in X!Types : Cardinality(Rows(t)) + Cardinality(About(t)) <= Crew(t) + faults

FewWriters == IsFiniteSet(Jobs)

LEMMA OpenTypesAre ==
    ASSUME X!TypeOK
    PROVE  \A type : type \in X!OpenTypes <=> Rows(type) # {}
<1>1. \A type : type \in X!OpenTypes <=>
              \E e \in 1 .. Len(exs) : exs[e].type = type /\ exs[e].open /\ exs[e].ofShift
  BY DEF X!TypeOK, X!OpenTypes
<1> QED
  BY <1>1 DEF Rows

LEMMA AFewWriters ==
    ASSUME FewWriters, NEW t, NEW A \in SUBSET X!Reporters(t)
    PROVE  /\ IsFiniteSet(A) /\ Cardinality(A) \in Nat
           /\ Cardinality(A) <= Crew(t) /\ Crew(t) \in Nat
<1>1. X!Reporters(t) \in {Jobs, Jobs \cup {"in"}, {"out"}}
  BY DEF X!Reporters
<1>2. IsFiniteSet(Jobs) /\ IsFiniteSet(Jobs \cup {"in"}) /\ IsFiniteSet({"out"})
  BY FS_AddElement, FS_Singleton DEF FewWriters
<1>3. IsFiniteSet(X!Reporters(t))
  BY <1>1, <1>2
<1> QED
  BY <1>3, FS_Subset, FS_CardinalityType DEF Crew

LEMMA AboutAre ==
    ASSUME ReportsOwn, NEW t
    PROVE  About(t) \subseteq X!Reporters(t)
BY DEF ReportsOwn, About, X!At, X!Busy

LEMMA FewAbout ==
    ASSUME FewWriters, ReportsOwn, NEW t
    PROVE  /\ IsFiniteSet(About(t)) /\ Cardinality(About(t)) \in Nat
           /\ Cardinality(About(t)) <= Crew(t) /\ Crew(t) \in Nat
BY AboutAre, AFewWriters

LEMMA FewRows ==
    ASSUME X!TypeOK, NEW t
    PROVE  IsFiniteSet(Rows(t)) /\ Cardinality(Rows(t)) \in Nat /\ faults \in Nat
<1>1. IsFiniteSet(1 .. Len(exs))
  BY ExceptionParts, FS_Interval
<1>2. IsFiniteSet(Rows(t))
  BY <1>1, FS_Subset DEF Rows
<1> QED
  BY <1>2, FS_CardinalityType DEF X!TypeOK

\* Rows that close, or stay, and writers that leave.
LEMMA NothingOpens ==
    ASSUME FewWriters, ExceptionsInv, X!TypeOK', ReportsOwn', Closes,
           \A t \in X!Types : About(t)' \subseteq About(t), faults' = faults \/ faults' = faults + 1
    PROVE  ExceptionsInv'
<1>1. ASSUME NEW t \in X!Types
      PROVE  Cardinality(Rows(t))' + Cardinality(About(t))' <= Crew(t) + faults'
  <2>1. Rows(t)' \subseteq Rows(t)
    BY DEF Rows, Closes
  <2>2. /\ IsFiniteSet(Rows(t)) /\ Cardinality(Rows(t)) \in Nat /\ faults \in Nat
        /\ IsFiniteSet(About(t)) /\ Cardinality(About(t)) \in Nat /\ Crew(t) \in Nat
    BY FewRows, FewAbout DEF ExceptionsInv
  <2>3. Cardinality(Rows(t)') <= Cardinality(Rows(t)) /\ Cardinality(Rows(t)') \in Nat
    BY <2>1, <2>2, FS_Subset, FS_CardinalityType
  <2>4. Cardinality(About(t)') <= Cardinality(About(t)) /\ Cardinality(About(t)') \in Nat
    BY <2>2, FS_Subset, FS_CardinalityType
  <2>5. Cardinality(Rows(t)) + Cardinality(About(t)) <= Crew(t) + faults
    BY DEF ExceptionsInv
  <2> QED
    BY <2>2, <2>3, <2>4, <2>5
<1>2. \A t : Crew(t)' = Crew(t)
  BY DEF Crew, X!Reporters
<1> QED
  BY <1>1, <1>2 DEF ExceptionsInv

LEMMA ClosesStays == ASSUME X!TypeOK, UNCHANGED exs PROVE Closes
BY ExceptionParts DEF Closes

\* A writer begins, goes on or returns; who has just found nothing open is not among them.
LEMMA WriterMoves ==
    ASSUME FewWriters, ExceptionsInv, X!TypeOK', UNCHANGED exs, NEW w \in X!Writers,
           \A v \in X!Writers : v # w => work'[v] = work[v],
           X!At(w, "create")' => ~work'[w].ofShift,
           X!Busy(w)' => \A t \in work'[w].types : w \in X!Reporters(t),
           faults' = faults \/ faults' = faults + 1
    PROVE  ExceptionsInv'
<1>1. ReportsOwn'
  BY DEF ExceptionsInv, ReportsOwn, X!Busy, X!Reporters
<1>2. \A t \in X!Types : About(t)' \subseteq About(t)
  BY DEF About, X!At
<1> QED
  BY <1>1, <1>2, ClosesStays, NothingOpens DEF ExceptionsInv

LEMMA WorkStays ==
    ASSUME FewWriters, ExceptionsInv, X!TypeOK', Closes, UNCHANGED <<work, faults>>
    PROVE  ExceptionsInv'
<1>1. ReportsOwn'
  BY DEF ExceptionsInv, ReportsOwn, X!Busy, X!Reporters
<1>2. \A t \in X!Types : About(t)' \subseteq About(t)
  BY DEF About, X!At
<1> QED
  BY <1>1, <1>2, NothingOpens

\* A writer that found a type missing is one of those that report it, and no row of it was open; a writer
\* whose lookup failed is one more.
LEMMA FindOnce ==
    ASSUME FewWriters, ExceptionsInv, X!TypeOK', ReportsOwn', NEW w \in X!Writers,
           X!Find(w)
    PROVE  ExceptionsInv'
<1>0. X!TypeOK /\ faults \in Nat /\ UNCHANGED exs
  BY DEF ExceptionsInv, X!TypeOK, X!Find
<1>1. /\ \A v \in X!Writers : v # w => work'[v] = work[v]
      /\ faults' = faults \/ faults' = faults + 1
      /\ faults' = faults /\ X!At(w, "create")' => work'[w].types \cap X!OpenTypes = {}
  BY <1>0, FindMoves DEF X!Fault
<1>2. ASSUME NEW t \in X!Types
      PROVE  Cardinality(Rows(t))' + Cardinality(About(t))' <= Crew(t) + faults'
  <2>1. Rows(t)' = Rows(t)
    BY <1>0 DEF Rows
  <2>2. /\ IsFiniteSet(Rows(t)) /\ Cardinality(Rows(t)) \in Nat
        /\ IsFiniteSet(About(t)) /\ Cardinality(About(t)) \in Nat /\ Crew(t) \in Nat
    BY <1>0, FewRows, FewAbout DEF ExceptionsInv
  <2>3. Cardinality(Rows(t)) + Cardinality(About(t)) <= Crew(t) + faults
    BY DEF ExceptionsInv
  <2>4. Cardinality(About(t)') \in Nat /\ Cardinality(About(t)') <= Crew(t)
    <3>1. About(t)' \in SUBSET X!Reporters(t)
      BY DEF ReportsOwn, About, X!At, X!Busy, X!Reporters
    <3> QED
      BY <3>1, AFewWriters
  <2>5. CASE faults' = faults /\ w \in About(t)'
    <3>1. t \notin X!OpenTypes
      BY <1>1, <2>5 DEF About
    <3>2. Cardinality(Rows(t)) = 0
      BY <1>0, <3>1, OpenTypesAre, FS_EmptySet
    <3> QED
      BY <1>0, <2>1, <2>2, <2>4, <2>5, <3>2
  <2>6. CASE faults' = faults /\ w \notin About(t)'
    <3>1. About(t)' \subseteq About(t)
      BY <1>1, <2>6 DEF About, X!At
    <3>2. Cardinality(About(t)') <= Cardinality(About(t))
      BY <2>2, <3>1, FS_Subset
    <3> QED
      BY <1>0, <2>1, <2>2, <2>3, <2>4, <2>6, <3>2
  <2>7. CASE faults' = faults + 1
    <3>1. About(t)' \subseteq About(t) \cup {w}
      BY <1>1 DEF About, X!At
    <3>2. /\ IsFiniteSet(About(t) \cup {w})
          /\ Cardinality(About(t) \cup {w}) <= Cardinality(About(t)) + 1
          /\ Cardinality(About(t) \cup {w}) \in Nat
      <4>1. /\ IsFiniteSet(About(t) \cup {w})
            /\ Cardinality(About(t) \cup {w}) =
                  IF w \in About(t) THEN Cardinality(About(t)) ELSE Cardinality(About(t)) + 1
        BY <2>2, FS_AddElement
      <4> QED
        BY <2>2, <4>1
    <3>3. Cardinality(About(t)') <= Cardinality(About(t)) + 1
      BY <2>2, <2>4, <3>1, <3>2, FS_Subset
    <3> QED
      BY <1>0, <2>1, <2>2, <2>3, <2>4, <2>7, <3>3
  <2> QED
    BY <1>1, <2>5, <2>6, <2>7
<1>3. \A t : Crew(t)' = Crew(t)
  BY DEF Crew, X!Reporters
<1> QED
  BY <1>2, <1>3 DEF ExceptionsInv

\* A writer that creates a row is no longer about to.
LEMMA CreateOnce ==
    ASSUME FewWriters, ExceptionsInv, X!TypeOK', ReportsOwn', NEW w \in X!Writers,
           X!Create(w)
    PROVE  ExceptionsInv'
<1>0. X!TypeOK /\ faults \in Nat /\ Len(exs) \in Nat /\ exs \in Seq(X!Exception)
  BY ExceptionParts DEF ExceptionsInv, X!TypeOK
<1>1. /\ X!At(w, "create") /\ \A v \in X!Writers : v # w => work'[v] = work[v]
  BY <1>0, CreateMoves
<1>2. PICK type \in X!Types :
         Created(w, type) /\ (X!Busy(w)' => work'[w].types = work[w].types \ {type}
                                            /\ work'[w].ofShift = work[w].ofShift)
  BY <1>0, CreateMoves
<1>3. \A t \in X!Types : About(t)' \subseteq About(t)
  BY <1>1, <1>2 DEF About, X!At, X!Busy
<1>4. w \notin About(type)'
  BY <1>2 DEF About, X!At, X!Busy
<1>5. CASE X!Fault /\ UNCHANGED <<exs, told>>
  BY <1>0, <1>3, <1>5, ClosesStays, NothingOpens DEF X!Fault
<1>6. CASE /\ exs' = Append(exs, [type |-> type, open |-> TRUE,
                                  ofShift |-> work[w].ofShift, ofRecord |-> work[w].ofRecord])
           /\ UNCHANGED faults
  <2>0. PICK n : n = Len(exs) + 1
    OBVIOUS
  <2>1. /\ Len(exs') = n /\ exs'[n].type = type /\ exs'[n].ofShift = work[w].ofShift
        /\ \A e \in 1 .. Len(exs) : exs'[e] = exs[e]
        /\ \A e \in 1 .. n : e \in 1 .. Len(exs) \/ e = n
    BY <1>0, <1>6, <2>0
  <2>2. ASSUME NEW t \in X!Types
        PROVE  Cardinality(Rows(t))' + Cardinality(About(t))' <= Crew(t) + faults'
    <3>1. /\ IsFiniteSet(Rows(t)) /\ Cardinality(Rows(t)) \in Nat
          /\ IsFiniteSet(About(t)) /\ Cardinality(About(t)) \in Nat /\ Crew(t) \in Nat
      BY <1>0, FewRows, FewAbout DEF ExceptionsInv
    <3>2. Cardinality(Rows(t)) + Cardinality(About(t)) <= Crew(t) + faults
      BY DEF ExceptionsInv
    <3>3. Rows(t)' \subseteq Rows(t) \cup {n}
      BY <2>1 DEF Rows
    <3>4. CASE n \notin Rows(t)'
      <4>1. Rows(t)' \subseteq Rows(t)
        BY <3>3, <3>4
      <4>2. /\ Cardinality(Rows(t)') <= Cardinality(Rows(t)) /\ Cardinality(Rows(t)') \in Nat
            /\ Cardinality(About(t)') <= Cardinality(About(t)) /\ Cardinality(About(t)') \in Nat
        BY <1>3, <3>1, <4>1, FS_Subset, FS_CardinalityType
      <4> QED
        BY <1>0, <1>6, <3>1, <3>2, <4>2
    <3>5. CASE n \in Rows(t)'
      <4>1. t = type /\ work[w].ofShift
        BY <2>1, <3>5 DEF Rows
      <4>2. w \in About(t) /\ About(t)' \subseteq About(t) \ {w}
        BY <1>1, <1>2, <1>3, <1>4, <4>1 DEF About, Created
      <4>3. /\ IsFiniteSet(About(t) \ {w})
            /\ Cardinality(About(t) \ {w}) = Cardinality(About(t)) - 1
        BY <3>1, <4>2, FS_RemoveElement
      <4>4. Cardinality(About(t)') <= Cardinality(About(t)) - 1 /\ Cardinality(About(t)') \in Nat
        BY <4>2, <4>3, FS_Subset, FS_CardinalityType
      <4>5. /\ IsFiniteSet(Rows(t) \cup {n})
            /\ Cardinality(Rows(t) \cup {n}) <= Cardinality(Rows(t)) + 1
            /\ Cardinality(Rows(t) \cup {n}) \in Nat
        <5>1. /\ IsFiniteSet(Rows(t) \cup {n})
              /\ Cardinality(Rows(t) \cup {n}) =
                    IF n \in Rows(t) THEN Cardinality(Rows(t)) ELSE Cardinality(Rows(t)) + 1
          BY <3>1, FS_AddElement
        <5> QED
          BY <3>1, <5>1
      <4>6. Cardinality(Rows(t)') <= Cardinality(Rows(t)) + 1 /\ Cardinality(Rows(t)') \in Nat
        BY <3>1, <3>3, <4>5, FS_Subset, FS_CardinalityType
      <4> QED
        BY <1>0, <1>6, <3>1, <3>2, <4>4, <4>6
    <3> QED
      BY <3>4, <3>5
  <2>3. \A t : Crew(t)' = Crew(t)
    BY DEF Crew, X!Reporters
  <2> QED
    BY <2>2, <2>3 DEF ExceptionsInv
<1> QED
  BY <1>2, <1>5, <1>6 DEF Created

LEMMA NextExceptions ==
    ASSUME X!ExceptionsAssumption, FewWriters, ExceptionsInv, [X!Next]_X!vars
    PROVE  ExceptionsInv'
<1>0. X!TypeOK /\ X!TypeOK'
  BY NextExceptionTypes DEF ExceptionsInv
<1>a. "in" \in X!Writers /\ "out" \in X!Writers /\ Jobs \subseteq X!Writers
  BY DEF X!Writers, X!Punches
<1>c. \A w \in X!Writers : X!Busy(w) => \A t \in work[w].types : w \in X!Reporters(t)
  BY DEF ExceptionsInv, ReportsOwn
<1>d. X!Fault => faults' = faults + 1
  BY DEF X!Fault
<1>1. CASE \E j \in Jobs : X!JobScan(j) \/ X!JobDies(j)
  <2>1. PICK j \in Jobs : X!JobScan(j) \/ X!JobDies(j)
    BY <1>1
  <2>2. CASE X!JobScan(j)
    <3>1. /\ X!Report(j, X!Detect(record.linked, record.state = "closed"), TRUE, record.linked)
          /\ UNCHANGED <<exs, faults>> /\ X!MayStart(j)
      BY <2>2 DEF X!JobScan
    <3>2. record.linked \in BOOLEAN /\ X!Detect(record.linked, record.state = "closed") \in SUBSET X!Types
      BY <1>0, ExceptionParts, DetectTypes
    <3>3. /\ \A v \in X!Writers : v # j => work'[v] = work[v]
          /\ X!At(j, "create")' => ~work'[j].ofShift
          /\ X!Busy(j)' => \A t \in work'[j].types : j \in X!Reporters(t)
      <4>1. PICK types \in SUBSET X!Types :
               types = X!Detect(record.linked, record.state = "closed")
        BY <3>2
      <4>2. \A t \in types : j \in X!Reporters(t)
        BY <3>2, <4>1, DetectTypes
      <4>3. /\ \A v \in X!Writers : v # j => work'[v] = work[v]
            /\ X!At(j, "create")' => ~work'[j].ofShift
            /\ X!Busy(j)' => work'[j].types = types
        BY <1>0, <1>a, <3>1, <3>2, <4>1, ReportMoves
      <4> QED
        BY <4>2, <4>3
    <3> QED
      BY <1>0, <1>a, <3>1, <3>3, WriterMoves
  <2>3. CASE X!JobDies(j)
    <3>1. X!Fault /\ work' = [work EXCEPT ![j] = X!Idle] /\ X!Busy(j) /\ UNCHANGED exs
      BY <2>3 DEF X!JobDies, X!Return
    <3>2. work'[j] = X!Idle /\ \A v \in X!Writers : v # j => work'[v] = work[v]
      BY <1>0, <1>a, <3>1, WorkMoves
    <3>3. ~X!At(j, "create")' /\ ~X!Busy(j)'
      BY <3>2 DEF X!At, X!Busy
    <3> QED
      BY <1>0, <1>a, <1>d, <3>1, <3>2, <3>3, WriterMoves
  <2> QED
    BY <2>1, <2>2, <2>3
<1>2. CASE X!ClockIn
  <2> DEFINE x == [pc |-> "link", types |-> X!EvaluateClockIn, ofShift |-> TRUE, ofRecord |-> TRUE]
  <2>1. x \in X!Work /\ x.pc # "create" /\ \A t \in x.types : "in" \in X!Reporters(t)
    BY DetectTypes DEF X!Work
  <2>2. work' = [work EXCEPT !["in"] = x] /\ UNCHANGED <<exs, faults>> /\ X!MayStart("in")
    BY <1>2 DEF X!ClockIn
  <2> HIDE DEF x
  <2>3. work'["in"] = x /\ \A v \in X!Writers : v # "in" => work'[v] = work[v]
    BY <1>0, <1>a, <2>1, <2>2, WorkMoves
  <2>4. ~X!At("in", "create")'
    BY <2>1, <2>3 DEF X!At
  <2> QED
    BY <1>0, <1>a, <2>1, <2>2, <2>3, <2>4, WriterMoves
<1>3. CASE X!ClockInLink
  <2>1. /\ X!At("in", "link") /\ X!Report("in", work["in"].types, TRUE, TRUE)
        /\ UNCHANGED faults \/ X!Fault
        /\ UNCHANGED exs
    BY <1>3 DEF X!ClockInLink
  <2>2. work["in"].types \in SUBSET X!Types
    BY <1>0, <1>a, <2>1, WorkParts
  <2>3. /\ \A v \in X!Writers : v # "in" => work'[v] = work[v]
        /\ X!At("in", "create")' => ~work'["in"].ofShift
        /\ X!Busy("in")' => work'["in"].types = work["in"].types
    BY <1>0, <1>a, <2>1, <2>2, ReportMoves
  <2>4. X!Busy("in")
    BY <2>1 DEF X!At, X!Busy
  <2> QED
    BY <1>0, <1>a, <1>c, <1>d, <2>1, <2>3, <2>4, WriterMoves
<1>4. CASE X!ClockInAgain
  BY <1>0, <1>4, ClosesStays, WorkStays DEF X!ClockInAgain
<1>5. CASE X!ClockOut
  <2>1. /\ X!Report("out", X!EvaluateClockOut, record.linked, TRUE)
        /\ UNCHANGED <<exs, faults>> /\ X!MayStart("out")
    BY <1>5 DEF X!ClockOut
  <2>2. record.linked \in BOOLEAN
    BY <1>0, ExceptionParts
  <2>3. /\ \A v \in X!Writers : v # "out" => work'[v] = work[v]
        /\ X!At("out", "create")' => ~work'["out"].ofShift
        /\ X!Busy("out")' => work'["out"].types = X!EvaluateClockOut
    BY <1>0, <1>a, <2>1, <2>2, DetectTypes, ReportMoves
  <2> QED
    BY <1>0, <1>a, <2>1, <2>3, DetectTypes, WriterMoves
<1>6. CASE \E w \in X!Writers : X!Find(w) \/ X!Create(w)
  <2>1. PICK w \in X!Writers : X!Find(w) \/ X!Create(w)
    BY <1>6
  <2>2. X!Busy(w)
    BY <2>1 DEF X!Find, X!Create, X!At, X!Busy
  <2>3. /\ \A v \in X!Writers : v # w => work'[v] = work[v]
        /\ X!Busy(w)' => work'[w].types \subseteq work[w].types
    BY <1>0, <2>1, FindMoves, CreateMoves
  <2>4. ReportsOwn'
    BY <1>c, <2>2, <2>3 DEF ReportsOwn, X!Busy, X!Reporters
  <2> QED
    BY <1>0, <2>1, <2>4, FindOnce, CreateOnce
<1>7. CASE \E e \in DOMAIN exs : X!ResolveException(e)
  <2>1. Closes
    BY <1>0, <1>7, ResolveCloses
  <2>2. UNCHANGED <<work, faults>>
    BY <1>7 DEF X!ResolveException
  <2> QED
    BY <1>0, <2>1, <2>2, WorkStays
<1>8. CASE X!ReviewRecord
  <2>1. Closes
    BY <1>0, <1>8, ReviewCloses
  <2>2. UNCHANGED <<work, faults>>
    BY <1>8 DEF X!ReviewRecord
  <2> QED
    BY <1>0, <2>1, <2>2, WorkStays
<1>9. CASE X!Tick
  BY <1>0, <1>9, ClosesStays, WorkStays DEF X!Tick
<1>10. CASE UNCHANGED <<now, record, exs, work, told, moves, faults>>
  BY <1>0, <1>10, ClosesStays, WorkStays
<1> QED
  BY <1>1, <1>2, <1>3, <1>4, <1>5, <1>6, <1>7, <1>8, <1>9, <1>10, NextKinds

LEMMA InitTypes == ASSUME X!ExceptionsAssumption, X!Init PROVE X!TypeOK
<1>1. /\ now = 0 /\ moves = 0 /\ faults = 0 /\ record = [state |-> "none", linked |-> FALSE]
      /\ exs = << >> /\ told = {} /\ work = [w \in X!Writers |-> X!Idle]
  BY DEF X!Init
<1> QED
  BY <1>1 DEF X!TypeOK, X!ExceptionsAssumption, X!Record

LEMMA InitExceptions == ASSUME X!ExceptionsAssumption, FewWriters, X!Init PROVE ExceptionsInv
<1>1. X!TypeOK /\ faults = 0 /\ exs = << >> /\ work = [w \in X!Writers |-> X!Idle]
  BY InitTypes DEF X!Init
<1>2. \A w \in X!Writers : ~X!Busy(w)
  BY <1>1 DEF X!Busy
<1>3. ReportsOwn
  BY <1>2 DEF ReportsOwn
<1>4. ASSUME NEW t \in X!Types
      PROVE  Cardinality(Rows(t)) + Cardinality(About(t)) <= Crew(t) + faults
  <2>1. Rows(t) = {} /\ About(t) = {}
    BY <1>1, <1>2 DEF Rows, About, X!At, X!Busy
  <2>2. Cardinality(Rows(t)) = 0 /\ Cardinality(About(t)) = 0 /\ Crew(t) \in Nat
    BY <1>3, <2>1, FewAbout, FS_EmptySet
  <2> QED
    BY <1>1, <2>2
<1> QED
  BY <1>1, <1>3, <1>4 DEF ExceptionsInv

LEMMA SameCardinality == \A S : X!Cardinality(S) = Cardinality(S)
BY DEF X!Cardinality, Cardinality

\* The open rows of a type are those of writers that found none, and those of failed lookups.
LEMMA CrewPerType ==
    ASSUME FewWriters, ExceptionsInv, NEW t \in X!Types
    PROVE  Cardinality({e \in DOMAIN exs : exs[e].type = t /\ exs[e].open /\ exs[e].ofShift})
              <= Crew(t) + faults
<1>1. {e \in DOMAIN exs : exs[e].type = t /\ exs[e].open /\ exs[e].ofShift} = Rows(t)
  BY DEF ExceptionsInv, X!TypeOK, Rows
<1>2. /\ Cardinality(Rows(t)) \in Nat /\ Cardinality(About(t)) \in Nat /\ Crew(t) \in Nat
      /\ faults \in Nat /\ Cardinality(Rows(t)) + Cardinality(About(t)) <= Crew(t) + faults
  BY FewRows, FewAbout DEF ExceptionsInv
<1>3. Cardinality(Rows(t)) <= Crew(t) + faults
  BY <1>2
<1> QED
  BY <1>1, <1>3

\* Type correctness of the exceptions of a shift, however many writers are at work.
THEOREM ExceptionTypes == X!ExceptionsAssumption => (X!Spec => []X!TypeOK)
<1> SUFFICES ASSUME X!ExceptionsAssumption PROVE X!Spec => []X!TypeOK
  OBVIOUS
<1>1. X!Init => X!TypeOK
  BY InitTypes
<1>2. X!TypeOK /\ [X!Next]_X!vars => X!TypeOK'
  BY NextExceptionTypes
<1> QED
  BY <1>1, <1>2, PTL DEF X!Spec

\* "At most one OPEN exception per (shiftId, type)" (models/attendanceException), as far as a
\* lookup before the create goes: however ticks and punches interleave, a type is open no
\* more often than there are writers that report it, and once more for each lookup that
\* failed; for any number of jobs, re-entries and reviews, and any thresholds.
THEOREM OneOpenException ==
    X!ExceptionsAssumption /\ IsFiniteSet(Jobs) => (X!Spec => []X!OneOpenPerType)
<1> SUFFICES ASSUME X!ExceptionsAssumption, IsFiniteSet(Jobs)
             PROVE  X!Spec => []X!OneOpenPerType
  OBVIOUS
<1>0. FewWriters
  BY DEF FewWriters
<1>1. X!Init => ExceptionsInv
  BY <1>0, InitExceptions
<1>2. ExceptionsInv /\ [X!Next]_X!vars => ExceptionsInv'
  BY <1>0, NextExceptions
<1>3. ExceptionsInv => X!OneOpenPerType
  BY <1>0, CrewPerType, SameCardinality DEF X!OneOpenPerType, Crew
<1> QED
  BY <1>1, <1>2, <1>3, PTL DEF X!Spec

=============================================================================
