-------------------------- MODULE SchedulerLeader --------------------------
(***************************************************************************)
(* Which worker process runs the scheduled jobs. The workers share a lock file *)
(* that holds the pid and the time of the leader's last heartbeat. Every worker *)
(* reads it when it boots and then every Period: the owner renews it, any other *)
(* claims it once it is older than Ttl. Reading, truncating, writing and reading *)
(* back are system calls of their own, so two workers may interleave there.     *)
(***************************************************************************)
EXTENDS Integers

CONSTANTS
    Pids,       \* one per worker ever started: pm2 restarts a worker under a new pid
    Null,
    Period,     \* between two heartbeats of a worker
    Ttl,        \* LEADER_TTL_MS: age at which the lock may be claimed
    Mishaps,    \* which may happen: "race", "stall", "open", "io"
    MaxMishaps  \* bound: how often

ASSUME LeaderAssumption ==
    /\ Period \in Nat \ {0} /\ Ttl \in Nat /\ Period < Ttl
    /\ Null \notin Pids
    /\ Mishaps \subseteq {"race", "stall", "open", "io"}
    /\ MaxMishaps \in Nat

VARIABLES
    status,   \* of each worker: not started, up, dead
    lock,     \* the lock file: owner and age; NoLock if missing, empty or garbage
    since,    \* time since the worker's heartbeat began, bounded by Ttl
    beat,     \* where the worker is within its heartbeat
    leader,   \* _amLeader of each worker
    inFlight, \* has the worker the job's name in its inFlight set?
    running,  \* ticks of the job running on the worker
    mishaps,  \* how many there were, and of which kinds
    kinds

worker == <<status, since, inFlight, running>>
vars   == <<status, lock, since, beat, leader, inFlight, running, mishaps, kinds>>

Lock   == [pid : Pids \cup {Null}, age : 0 .. Ttl]
NoLock == [pid |-> Null, age |-> 0]
Beat   == [at : {"idle", "open", "write", "check"}, claiming : BOOLEAN]
Idle   == [at |-> "idle", claiming |-> FALSE]

TypeOK ==
    /\ status \in [Pids -> {"new", "up", "dead"}]
    /\ lock \in Lock
    /\ since \in [Pids -> 0 .. Ttl]
    /\ beat \in [Pids -> Beat]
    /\ leader \in [Pids -> BOOLEAN]
    /\ inFlight \in [Pids -> BOOLEAN]
    /\ running \in [Pids -> Nat]
    /\ mishaps \in 0 .. MaxMishaps
    /\ kinds \subseteq Mishaps

Init ==
    /\ status = [p \in Pids |-> "new"]
    /\ lock = NoLock
    /\ since = [p \in Pids |-> 0]
    /\ beat = [p \in Pids |-> Idle]
    /\ leader = [p \in Pids |-> FALSE]
    /\ inFlight = [p \in Pids |-> FALSE]
    /\ running = [p \in Pids |-> 0]
    /\ mishaps = 0 /\ kinds = {}

Mishap(kind) ==
    /\ kind \in Mishaps /\ mishaps < MaxMishaps
    /\ mishaps' = mishaps + 1 /\ kinds' = kinds \cup {kind}
NoMishap == UNCHANGED <<mishaps, kinds>>

InBeat(p)    == beat[p].at # "idle"
GoTo(p, at)  == beat' = [beat EXCEPT ![p].at = at]
Return(p)    == beat' = [beat EXCEPT ![p] = Idle]

-----------------------------------------------------------------------------
(* _heartbeatLeader *)

\* Mutant: a lock is good for ever.
MutantFresh(owner) == owner.pid # Null
\* Mutant: a lock is good for one heartbeat only.
MutantFreshForOneBeat(owner) == owner.pid # Null /\ owner.age < Period
Fresh(owner) == owner.pid # Null /\ owner.age < Ttl

Renews(p, owner) == owner.pid = p

\* What the worker does about the lock it has read.
Decide(p, owner) ==
    \/ /\ Renews(p, owner) \/ ~Fresh(owner)
       /\ beat' = [beat EXCEPT ![p] = [at |-> "open", claiming |-> ~Renews(p, owner)]]
       /\ UNCHANGED leader
    \/ /\ ~Renews(p, owner) /\ Fresh(owner)
       /\ leader' = [leader EXCEPT ![p] = FALSE]
       /\ UNCHANGED beat

\* A heartbeat that begins while another worker is in its own is a race. A file that
\* cannot be read, or is empty because it is being written, counts as no lock.
Read(p) ==
    /\ status[p] = "up" /\ ~InBeat(p)
    /\ since[p] >= Period /\ since' = [since EXCEPT ![p] = 0]
    /\ \/ ~(\E q \in Pids : InBeat(q)) /\ Decide(p, lock) /\ NoMishap
       \/ (\E q \in Pids : InBeat(q)) /\ Decide(p, lock) /\ Mishap("race")
       \/ ~(\E q \in Pids : InBeat(q)) /\ Decide(p, NoLock) /\ Mishap("io")
    /\ UNCHANGED <<status, lock, inFlight, running>>

\* writeFileSync truncates the file, then writes it. A heartbeat that fails changes
\* nothing about leadership ("keep prior state on FS error").
Open(p) ==
    /\ beat[p].at = "open"
    /\ \/ lock' = NoLock /\ GoTo(p, "write") /\ NoMishap
       \/ Mishap("open") /\ Return(p) /\ UNCHANGED lock
    /\ UNCHANGED <<leader, worker>>

\* Who renews leads; who claims first looks whose claim is in the file.
Write(p) ==
    /\ beat[p].at = "write"
    /\ \/ /\ lock' = [pid |-> p, age |-> 0]
          /\ IF beat[p].claiming
             THEN GoTo(p, "check") /\ UNCHANGED leader
             ELSE Return(p) /\ leader' = [leader EXCEPT ![p] = TRUE]
          /\ NoMishap
       \/ Mishap("io") /\ Return(p) /\ UNCHANGED <<lock, leader>>
    /\ UNCHANGED worker

Check(p) ==
    /\ beat[p].at = "check"
    /\ \/ leader' = [leader EXCEPT ![p] = lock.pid = p] /\ NoMishap
       \/ leader' = [leader EXCEPT ![p] = FALSE] /\ Mishap("io")
    /\ Return(p)
    /\ UNCHANGED <<lock, worker>>

-----------------------------------------------------------------------------
(* nodeSetInterval, runJob *)

\* Mutant: a tick starts although the last one is still running.
MutantMayRun(p) == leader[p]
MayRun(p) == leader[p] /\ ~inFlight[p]

\* A timer fires: leadership is looked at now, and not again while the job runs.
RunJob(p) ==
    /\ status[p] = "up" /\ ~InBeat(p) /\ MayRun(p)
    /\ inFlight' = [inFlight EXCEPT ![p] = TRUE]
    /\ running' = [running EXCEPT ![p] = @ + 1]
    /\ UNCHANGED <<status, lock, since, beat, leader, mishaps, kinds>>

FinishJob(p) ==
    /\ running[p] > 0 /\ ~InBeat(p)
    /\ inFlight' = [inFlight EXCEPT ![p] = FALSE]
    /\ running' = [running EXCEPT ![p] = @ - 1]
    /\ UNCHANGED <<status, lock, since, beat, leader, mishaps, kinds>>

-----------------------------------------------------------------------------
(* pm2 and the clock *)

\* The first heartbeat comes with the start.
Boot(p) ==
    /\ status[p] = "new"
    /\ status' = [status EXCEPT ![p] = "up"]
    /\ since' = [since EXCEPT ![p] = Period]
    /\ UNCHANGED <<lock, beat, leader, inFlight, running, mishaps, kinds>>

\* A worker dies, with what it runs and wherever it is; another one is left or to come.
Die(p) ==
    /\ status[p] = "up" /\ \E q \in Pids \ {p} : status[q] # "dead"
    /\ status' = [status EXCEPT ![p] = "dead"]
    /\ leader' = [leader EXCEPT ![p] = FALSE]
    /\ inFlight' = [inFlight EXCEPT ![p] = FALSE]
    /\ running' = [running EXCEPT ![p] = 0]
    /\ Return(p)
    /\ UNCHANGED <<lock, since, mishaps, kinds>>

\* Mutant: ages grow past the bound.
MutantOlder(age) == age + 1
Older(age) == IF age < Ttl THEN age + 1 ELSE age

\* A worker whose event loop is blocked lets a heartbeat pass: a stall.
Late(p) == status[p] = "up" /\ since[p] >= Period

Tick ==
    /\ \A p \in Pids : ~InBeat(p)
    /\ \/ ~(\E p \in Pids : Late(p)) /\ NoMishap
       \/ (\E p \in Pids : Late(p)) /\ Mishap("stall")
    /\ lock' = [lock EXCEPT !.age = IF lock.pid = Null THEN @ ELSE Older(@)]
    /\ since' = [p \in Pids |-> IF status[p] = "up" THEN Older(since[p]) ELSE since[p]]
    /\ UNCHANGED <<status, beat, leader, inFlight, running>>

Heartbeat(p) == Read(p) \/ Open(p) \/ Write(p) \/ Check(p)

Next ==
    \/ \E p \in Pids : Heartbeat(p) \/ RunJob(p) \/ FinishJob(p) \/ Boot(p) \/ Die(p)
    \/ Tick

Spec == Init /\ [][Next]_vars

\* pm2 starts workers, timers fire, time passes; no job has to end.
Fairness == WF_vars(Tick) /\ \A p \in Pids : WF_vars(Heartbeat(p)) /\ WF_vars(Boot(p))
FairSpec == Spec /\ Fairness

-----------------------------------------------------------------------------
(* Properties *)

\* Heartbeats have been atomic and prompt so far, and the lock outlives the renewals
\* that could not open the file.
Calm == kinds \subseteq {"open"} /\ (mishaps + 1) * Period < Ttl

\* "whichever instance holds a fresh lock is leader": never two of them.
OneLeader == Calm => \A p, q \in Pids : leader[p] /\ leader[q] => p = q

\* "We must run scheduled jobs on ONE instance", and "a tick that runs longer than its
\* interval must NOT overlap the next one" (server, jobsMonitor).
JobsOnOneInstance ==
    \A p, q \in Pids : running[p] > 0 /\ running[q] > 0 => p = q /\ running[p] = 1

\* That is so as long as heartbeats do not interleave, stall or fail to read the file.
JobsWhenCalm == Calm => JobsOnOneInstance

\* "if it dies, another claims it after the TTL": once workers stop dying and files and
\* timers behave, one worker leads and stays leader, whatever went wrong before.
Settles == \E p \in Pids : <>[](leader[p] /\ \A q \in Pids : leader[q] => q = p)

=============================================================================
