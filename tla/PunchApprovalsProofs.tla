-------------------------- MODULE PunchApprovalsProofs --------------------------
(***************************************************************************)
(* No approval lets two punches through, and no second late request is opened,  *)
(* as long as the guard's app sends one request at a time and one supervisor      *)
(* decides.  Handlers check a request in one query and write it in a later one:    *)
(* the proof says what each of them still knows about the request it holds.         *)
(* When several are in flight, the excess is bounded by how many act at once.        *)
(***************************************************************************)
EXTENDS PunchApprovals, FiniteSetTheorems, TLAPS

\* One request of the guard and one decision in flight.
Serial ==
    /\ \A t, u \in Taps : t = u
    /\ \A s, r \in Supervisors : s = r

Holds(t, q) == tap[t] # Idle /\ tap[t].id = q

\* Whoever holds a request holds one that exists.
Types ==
    /\ TypeOK
    /\ \A s \in Supervisors : deciding[s] # Null => deciding[s] \in Ids
    /\ \A t \in Taps : tap[t] # Idle =>
          /\ tap[t].pc = "consume" => tap[t].id # Null
          /\ tap[t].id # Null => tap[t].id \in Ids

IsOpen(r) == r.status \in {"pending", "approved"}

\* A punch holds an approval of its own kind that somebody has decided; before the gate it
\* holds none.
Taken(t) ==
    /\ tap[t].pc \in {"create", "gate"} => tap[t].id = Null
    /\ tap[t].id # Null => /\ reqs[tap[t].id].kind = tap[t].kind
                           /\ reqs[tap[t].id].status # "pending"
    /\ tap[t].pc = "create" /\ tap[t].kind = "in" =>
          \A q \in Ids : reqs[q].kind = "in" => ~IsOpen(reqs[q])

\* What a supervisor is deciding is undecided, or was withdrawn meanwhile; no punch has
\* used it, or is about to.
Undecided(q) ==
    /\ reqs[q].status \in {"pending", "cancelled"}
    /\ reqs[q].kind = "in" => reqs[q].status = "pending"
    /\ uses[q] = 0
    /\ \A t \in Taps : ~Holds(t, q)

\* Only what has been decided is used.
Unused ==
    /\ \A q \in Ids : reqs[q].status = "pending" => uses[q] = 0
    /\ \A q \in 1 .. MaxReqs : q \notin Ids => uses[q] = 0

OneOpen ==
    \A q, r \in Ids :
        reqs[q].kind = "in" /\ reqs[r].kind = "in" /\ IsOpen(reqs[q]) /\ IsOpen(reqs[r]) => q = r

\* An approval that has let one punch through for every failure, and one more, is spent, or its
\* punch is about to spend it; a punch that holds one has that failure still to its credit.
Spent ==
    /\ \A q \in 1 .. MaxReqs : uses[q] <= 1 + faults
    /\ \A q \in Ids : reqs[q].status = "approved" /\ uses[q] > faults =>
          \E t \in Taps : Holds(t, q) /\ tap[t].pc = "consume" /\ tap[t].kind = "in"
    /\ \A t \in Taps : tap[t] # Idle /\ tap[t].id # Null =>
          /\ tap[t].pc = "punch" \/ tap[t].kind = "out" => uses[tap[t].id] <= faults
          /\ tap[t].pc = "punch" /\ tap[t].kind = "out" =>
                reqs[tap[t].id].status = "cancelled" \/ uses[tap[t].id] < faults

Inv ==
    /\ Types
    /\ \A t \in Taps : tap[t] # Idle => Taken(t)
    /\ \A s \in Supervisors : deciding[s] # Null => Undecided(deciding[s])
    /\ Unused /\ OneOpen
    /\ Spent

-----------------------------------------------------------------------------
(* Requests and taps, one step later *)

LEMMA Bounds ==
    ASSUME Types
    PROVE  /\ Len(reqs) \in Nat /\ Len(reqs) <= MaxReqs /\ MaxReqs \in Nat
           /\ \A q \in Ids : /\ q \in Nat /\ q \in 1 .. MaxReqs /\ reqs[q] \in Request
                             /\ reqs[q].kind \in Kinds /\ reqs[q].status \in Statuses
                             /\ reqs[q].expires \in Nat \cup {Null}
           /\ \A q \in 1 .. MaxReqs : uses[q] \in Nat
<1> DEFINE S == Request
<1>1. reqs \in Seq(S) /\ Len(reqs) <= MaxReqs /\ MaxReqs \in Nat /\ uses \in [1 .. MaxReqs -> Nat]
  BY ApprovalAssumption DEF Types, TypeOK
<1> HIDE DEF S
<1>2. Len(reqs) \in Nat /\ \A q \in 1 .. Len(reqs) : reqs[q] \in S /\ q \in Nat /\ q \in 1 .. MaxReqs
  BY <1>1
<1>3. \A r \in S : /\ r.kind \in Kinds /\ r.status \in Statuses /\ r.expires \in Nat \cup {Null}
                   /\ r \in Request
  BY DEF S, Request
<1>4. \A q \in 1 .. MaxReqs : uses[q] \in Nat
  BY <1>1
<1> QED
  BY <1>1, <1>2, <1>3, <1>4 DEF Ids

LEMMA TapParts ==
    ASSUME Types, NEW t \in Taps, tap[t] # Idle
    PROVE  /\ tap[t] \in Tap /\ tap[t].pc \in {"create", "gate", "punch", "consume"}
           /\ tap[t].kind \in Kinds /\ tap[t].id \in Ids \cup {Null}
           /\ tap[t].pc = "consume" => tap[t].id # Null
BY DEF Types, TypeOK, Tap

\* Everybody but t keeps his tap.
Others(t) == \A u \in Taps : u # t => tap'[u] = tap[u]

LEMMA TapMoves ==
    ASSUME Types, NEW t \in Taps, NEW pc \in {"create", "gate", "punch", "consume"},
           NEW k \in Kinds, NEW q \in Ids \cup {Null}, Step(t, pc, k, q)
    PROVE  /\ tap' \in [Taps -> Tap \cup {Idle}] /\ Others(t)
           /\ tap'[t] # Idle /\ tap'[t].pc = pc /\ tap'[t].kind = k /\ tap'[t].id = q
<1> DEFINE r == [pc |-> pc, kind |-> k, id |-> q]
<1>1. r \in Tap /\ r # Idle /\ r.pc = pc /\ r.kind = k /\ r.id = q
  BY Bounds DEF Tap, Idle
<1>2. tap' = [tap EXCEPT ![t] = r] /\ tap \in [Taps -> Tap \cup {Idle}]
  BY DEF Step, Types, TypeOK
<1> HIDE DEF r
<1> QED
  BY <1>1, <1>2 DEF Others

LEMMA TapReturns ==
    ASSUME Types, NEW t \in Taps, Return(t)
    PROVE  tap' \in [Taps -> Tap \cup {Idle}] /\ Others(t) /\ tap'[t] = Idle
BY DEF Return, Others, Types, TypeOK

\* One request is rewritten, the others stay.
Rewritten(q, r) ==
    /\ reqs' \in Seq(Request) /\ Len(reqs') = Len(reqs) /\ Ids' = Ids
    /\ reqs'[q] = r /\ \A x \in Ids : x # q => reqs'[x] = reqs[x]

LEMMA Rewrites ==
    ASSUME Types, NEW q \in Ids, NEW r \in Request, reqs' = [reqs EXCEPT ![q] = r]
    PROVE  Rewritten(q, r)
<1>1. reqs \in Seq(Request)
  BY DEF Types, TypeOK
<1>2. reqs' \in Seq(Request) /\ Len(reqs') = Len(reqs)
  BY <1>1 DEF Ids
<1>3. Ids' = Ids
  BY <1>2 DEF Ids
<1>4. reqs'[q] = r /\ \A x \in Ids : x # q => reqs'[x] = reqs[x]
  BY <1>1 DEF Ids
<1> QED
  BY <1>2, <1>3, <1>4 DEF Rewritten

LEMMA WithStatus ==
    ASSUME NEW r \in Request, NEW v \in Statuses
    PROVE  /\ [r EXCEPT !.status = v] \in Request
           /\ [r EXCEPT !.status = v].kind = r.kind /\ [r EXCEPT !.status = v].status = v
BY DEF Request

Decided(r, v, e) == [r EXCEPT !.status = v, !.expires = e]

LEMMA WithDecision ==
    ASSUME NEW r \in Request, NEW v \in Statuses, NEW e \in Nat \cup {Null}
    PROVE  /\ Decided(r, v, e) \in Request
           /\ Decided(r, v, e).kind = r.kind /\ Decided(r, v, e).status = v
<1> DEFINE n == [r EXCEPT !.status = v]
<1>1. n \in Request /\ n.kind = r.kind /\ n.status = v
  BY WithStatus
<1>2. /\ [n EXCEPT !.expires = e] \in Request
      /\ [n EXCEPT !.expires = e].kind = r.kind /\ [n EXCEPT !.expires = e].status = v
  <2> HIDE DEF n
  <2> QED
    BY <1>1 DEF Request
<1> QED
  BY <1>2, Zenon DEF Decided

-----------------------------------------------------------------------------
(* What each step does, and that it keeps the types *)

LEMMA InitTypes == Init => Types
<1> SUFFICES ASSUME Init PROVE Types
  OBVIOUS
<1>1. reqs = << >> /\ reqs \in Seq(Request) /\ Len(reqs) = 0
  BY DEF Init
<1>2. /\ now \in 0 .. Horizon /\ Len(reqs) <= MaxReqs /\ faults \in 0 .. MaxFaults
      /\ uses \in [1 .. MaxReqs -> Nat]
  BY <1>1, ApprovalAssumption DEF Init
<1>3. TypeOK
  BY <1>1, <1>2 DEF Init, TypeOK
<1> QED
  BY <1>3 DEF Init, Types

\* A tap moves and nothing else does, but perhaps the shift, requests and uses.
LEMMA TypesOfTap ==
    ASSUME Types, NEW t \in Taps, Others(t), tap' \in [Taps -> Tap \cup {Idle}],
           tap'[t] # Idle => /\ tap'[t].pc = "consume" => tap'[t].id # Null
                             /\ tap'[t].id # Null => tap'[t].id \in Ids,
           reqs' \in Seq(Request), Len(reqs') <= MaxReqs, Ids \subseteq Ids',
           uses' \in [1 .. MaxReqs -> Nat], onShift' \in BOOLEAN, faults' \in 0 .. MaxFaults,
           UNCHANGED <<now, deciding>>
    PROVE  Types'
<1>1. \A u \in Taps : tap'[u] # Idle => /\ tap'[u].pc = "consume" => tap'[u].id # Null
                                        /\ tap'[u].id # Null => tap'[u].id \in Ids
  BY DEF Others, Types
<1>2. /\ now' \in 0 .. Horizon /\ deciding' \in [Supervisors -> (1 .. MaxReqs) \cup {Null}]
      /\ \A s \in Supervisors : deciding'[s] # Null => deciding'[s] \in Ids
  BY DEF Types, TypeOK
<1> QED
  BY <1>1, <1>2 DEF Types, TypeOK

LEMMA Unmoved ==
    ASSUME Types, UNCHANGED <<reqs, uses>>
    PROVE  reqs' \in Seq(Request) /\ Len(reqs') <= MaxReqs /\ Ids' = Ids /\ uses' \in [1 .. MaxReqs -> Nat]
BY DEF Types, TypeOK, Ids

LEMMA FaultTypes ==
    ASSUME Types, faults < MaxFaults, faults' = faults + 1
    PROVE  faults' \in 0 .. MaxFaults /\ faults' # 0 /\ faults' = faults + 1
BY ApprovalAssumption DEF Types, TypeOK

LEMMA AskEffect ==
    ASSUME Types, NEW t \in Taps, NEW k \in Kinds, Ask(t, k) \/ PunchBegin(t, k)
    PROVE  /\ Types' /\ Others(t) /\ UNCHANGED <<reqs, uses, deciding, faults>>
           /\ tap[t] = Idle /\ tap'[t] # Idle /\ tap'[t].kind = k /\ tap'[t].id = Null
           /\ \/ tap'[t].pc = "gate"
              \/ tap'[t].pc = "create" /\ Open(k) = {}
<1>1. /\ tap[t] = Idle /\ UNCHANGED <<now, onShift, reqs, uses, deciding, faults>>
      /\ \E pc \in {"create", "gate"} : Step(t, pc, k, Null) /\ (pc = "create" => Open(k) = {})
  <2>1. CASE Ask(t, k)
    BY <2>1 DEF Ask, AskReuses
  <2>2. CASE PunchBegin(t, k)
    BY <2>2 DEF PunchBegin
  <2> QED
    BY <2>1, <2>2
<1>2. PICK pc \in {"create", "gate"} : Step(t, pc, k, Null) /\ (pc = "create" => Open(k) = {})
  BY <1>1
<1>3. /\ tap' \in [Taps -> Tap \cup {Idle}] /\ Others(t)
      /\ tap'[t] # Idle /\ tap'[t].pc = pc /\ tap'[t].kind = k /\ tap'[t].id = Null
  BY <1>2, TapMoves
<1>4. Types'
  BY <1>1, <1>2, <1>3, Unmoved, TypesOfTap DEF Types, TypeOK
<1> QED
  BY <1>1, <1>2, <1>3, <1>4

LEMMA CreateEffect ==
    ASSUME Types, NEW t \in Taps, AskCreate(t)
    PROVE  /\ Types' /\ Others(t) /\ UNCHANGED <<uses, deciding, faults>>
           /\ tap[t] # Idle /\ tap[t].pc = "create" /\ tap'[t] = Idle
           /\ Ids' = Ids \cup {Len(reqs) + 1} /\ Len(reqs) + 1 \notin Ids
           /\ Len(reqs) + 1 \in 1 .. MaxReqs
           /\ \A q \in Ids : reqs'[q] = reqs[q]
           /\ reqs'[Len(reqs) + 1].kind = tap[t].kind /\ reqs'[Len(reqs) + 1].status = "pending"
<1> DEFINE r == [kind |-> tap[t].kind, status |-> "pending", expires |-> Null]
<1>1. /\ tap[t] # Idle /\ tap[t].pc = "create" /\ Len(reqs) < MaxReqs
      /\ reqs' = Append(reqs, r) /\ Return(t) /\ UNCHANGED <<now, onShift, uses, deciding, faults>>
  BY DEF AskCreate, At
<1>2. r \in Request /\ r.kind = tap[t].kind /\ r.status = "pending"
  BY <1>1, TapParts DEF Request, Statuses
<1> HIDE DEF r
<1>3. reqs \in Seq(Request) /\ Len(reqs) \in Nat /\ MaxReqs \in Nat
  BY Bounds DEF Types, TypeOK
<1>4. /\ reqs' \in Seq(Request) /\ Len(reqs') = Len(reqs) + 1 /\ reqs'[Len(reqs) + 1] = r
      /\ \A q \in 1 .. Len(reqs) : reqs'[q] = reqs[q]
  BY <1>1, <1>2, <1>3
<1>5. /\ Ids' = Ids \cup {Len(reqs) + 1} /\ Len(reqs) + 1 \notin Ids
      /\ Len(reqs) + 1 \in 1 .. MaxReqs /\ Len(reqs') <= MaxReqs
  BY <1>1, <1>3, <1>4 DEF Ids
<1>6. tap' \in [Taps -> Tap \cup {Idle}] /\ Others(t) /\ tap'[t] = Idle
  BY <1>1, TapReturns
<1>7. Types'
  BY <1>1, <1>4, <1>5, <1>6, TypesOfTap DEF Types, TypeOK
<1> QED
  BY <1>1, <1>2, <1>4, <1>5, <1>6, <1>7 DEF Ids

LEMMA WithdrawEffect ==
    ASSUME Types, Withdraw
    PROVE  /\ Types' /\ Ids' = Ids /\ UNCHANGED <<uses, tap, deciding, faults>>
           /\ \A q \in Ids : /\ reqs'[q].kind = reqs[q].kind
                             /\ \/ reqs'[q].status = reqs[q].status
                                \/ /\ reqs[q].kind = "out" /\ reqs[q].status = "pending"
                                   /\ reqs'[q].status = "cancelled"
<1> DEFINE New(q) == IF reqs[q].kind = "out" /\ reqs[q].status = "pending"
                     THEN [reqs[q] EXCEPT !.status = "cancelled"] ELSE reqs[q]
<1>1. reqs' = [q \in Ids |-> New(q)] /\ UNCHANGED <<now, onShift, uses, tap, deciding, faults>>
  BY DEF Withdraw
<1>2. ASSUME NEW q \in Ids
      PROVE  /\ New(q) \in Request /\ New(q).kind = reqs[q].kind
             /\ \/ New(q).status = reqs[q].status
                \/ /\ reqs[q].kind = "out" /\ reqs[q].status = "pending"
                   /\ New(q).status = "cancelled"
  <2>1. reqs[q] \in Request /\ "cancelled" \in Statuses
    BY Bounds DEF Statuses
  <2> QED
    BY <2>1, WithStatus
<1> HIDE DEF New
<1>3. reqs' \in [1 .. Len(reqs) -> Request] /\ \A q \in Ids : reqs'[q] = New(q)
  BY <1>1, <1>2 DEF Ids
<1>4. Len(reqs) \in Nat
  BY Bounds
<1>5. reqs' \in Seq(Request) /\ Len(reqs') = Len(reqs)
  BY <1>3, <1>4
<1>6. Ids' = Ids
  BY <1>5 DEF Ids
<1>7. Types'
  BY <1>1, <1>5, <1>6 DEF Types, TypeOK
<1> QED
  BY <1>1, <1>2, <1>3, <1>6, <1>7

LEMMA LoadEffect ==
    ASSUME Types, NEW s \in Supervisors, DecideLoad(s)
    PROVE  /\ Types' /\ UNCHANGED <<reqs, uses, tap, faults>>
           /\ deciding'[s] \in Ids /\ reqs[deciding'[s]].status = "pending"
           /\ \A r \in Supervisors : r # s => deciding'[r] = deciding[r]
<1>1. PICK q \in Ids : reqs[q].status = "pending" /\ deciding' = [deciding EXCEPT ![s] = q]
  BY DEF DecideLoad
<1>2. UNCHANGED <<now, onShift, reqs, uses, tap, faults>> /\ Ids' = Ids
  BY DEF DecideLoad, Ids
<1>3. q \in 1 .. MaxReqs
  BY Bounds
<1>4. /\ deciding' \in [Supervisors -> (1 .. MaxReqs) \cup {Null}] /\ deciding'[s] = q
      /\ \A r \in Supervisors : r # s => deciding'[r] = deciding[r]
  BY <1>1, <1>3 DEF Types, TypeOK
<1>5. Types'
  BY <1>2, <1>4 DEF Types, TypeOK
<1> QED
  BY <1>1, <1>2, <1>4, <1>5

LEMMA DecideEffect ==
    ASSUME Types, NEW s \in Supervisors, DecideWrite(s)
    PROVE  /\ Types' /\ Ids' = Ids /\ UNCHANGED <<uses, tap, faults>>
           /\ deciding[s] \in Ids /\ deciding[s] # Null /\ deciding'[s] = Null
           /\ \A r \in Supervisors : r # s => deciding'[r] = deciding[r]
           /\ \A q \in Ids : q # deciding[s] => reqs'[q] = reqs[q]
           /\ reqs'[deciding[s]].kind = reqs[deciding[s]].kind
           /\ reqs'[deciding[s]].status \in {"approved", "rejected"}
<1> DEFINE q == deciding[s]
<1>1. q \in Ids /\ q # Null /\ UNCHANGED <<now, onShift, uses, tap, faults>>
      /\ deciding' = [deciding EXCEPT ![s] = Null]
  BY DEF DecideWrite, Types
<1>2. PICK d \in {"approved", "rejected"} :
          reqs' = [reqs EXCEPT ![q] = [reqs[q] EXCEPT !.status = d,
                      !.expires = IF d = "approved" /\ reqs[q].kind = "in"
                                  THEN now + Life ELSE reqs[q].expires]]
  BY DEF DecideWrite, Decision
<1> DEFINE e == IF d = "approved" /\ reqs[q].kind = "in" THEN now + Life ELSE reqs[q].expires
           r == Decided(reqs[q], d, e)
<1>3. e \in Nat \cup {Null} /\ d \in Statuses /\ reqs[q] \in Request
  BY <1>1, Bounds, ApprovalAssumption DEF Types, TypeOK, Statuses
<1>4. r \in Request /\ r.kind = reqs[q].kind /\ r.status = d
  <2> HIDE DEF e
  <2> QED
    BY <1>3, WithDecision
<1>5. reqs' = [reqs EXCEPT ![q] = r]
  BY <1>2 DEF Decided
<1> HIDE DEF r
<1>6. Rewritten(q, r)
  BY <1>1, <1>4, <1>5, Rewrites
<1>7. /\ deciding' \in [Supervisors -> (1 .. MaxReqs) \cup {Null}] /\ deciding'[s] = Null
      /\ \A x \in Supervisors : x # s => deciding'[x] = deciding[x]
  BY <1>1 DEF Types, TypeOK
<1>8. Types'
  BY <1>1, <1>6, <1>7 DEF Types, TypeOK, Rewritten
<1> QED
  BY <1>1, <1>4, <1>6, <1>7, <1>8 DEF Rewritten

LEMMA GateEffect ==
    ASSUME Types, NEW t \in Taps, PunchGate(t)
    PROVE  /\ Types' /\ Others(t) /\ UNCHANGED <<reqs, uses, deciding, faults>>
           /\ tap[t] # Idle /\ tap[t].pc = "gate"
           /\ \/ tap'[t] = Idle
              \/ tap'[t].pc = "punch" /\ tap'[t].id = Null
              \/ \E q \in Ids : /\ tap'[t].id = q /\ tap'[t].kind = tap[t].kind
                                /\ reqs[q].kind = tap[t].kind /\ reqs[q].status = "approved"
                                /\ tap'[t].pc = IF tap[t].kind = "out" THEN "consume" ELSE "punch"
<1>1. tap[t] # Idle /\ tap[t].pc = "gate" /\ UNCHANGED <<now, onShift, reqs, uses, deciding, faults>>
  BY DEF PunchGate, At
<1>2. tap[t].kind \in {"in", "out"}
  BY <1>1, TapParts DEF Kinds
<1>3. /\ reqs' \in Seq(Request) /\ Len(reqs') <= MaxReqs /\ Ids' = Ids
      /\ uses' \in [1 .. MaxReqs -> Nat] /\ onShift' \in BOOLEAN /\ faults' \in 0 .. MaxFaults
  BY <1>1, Unmoved DEF Types, TypeOK
<1>4. CASE Step(t, "punch", tap[t].kind, Null)
  <2>1. /\ tap' \in [Taps -> Tap \cup {Idle}] /\ Others(t)
        /\ tap'[t].pc = "punch" /\ tap'[t].id = Null
    BY <1>2, <1>4, TapMoves DEF Kinds
  <2>2. Types'
    BY <1>1, <1>3, <2>1, TypesOfTap
  <2> QED
    BY <1>1, <2>1, <2>2
<1>5. CASE Return(t)
  <2>1. tap' \in [Taps -> Tap \cup {Idle}] /\ Others(t) /\ tap'[t] = Idle
    BY <1>5, TapReturns
  <2>2. Types'
    BY <1>1, <1>3, <2>1, TypesOfTap
  <2> QED
    BY <1>1, <2>1, <2>2
<1>6. CASE \E q \in Unlocking(tap[t].kind) :
             Step(t, IF tap[t].kind = "out" THEN "consume" ELSE "punch", tap[t].kind, q)
  <2>1. PICK q \in Unlocking(tap[t].kind) :
             Step(t, IF tap[t].kind = "out" THEN "consume" ELSE "punch", tap[t].kind, q)
    BY <1>6
  <2>2. q \in Ids /\ reqs[q].kind = tap[t].kind /\ reqs[q].status = "approved"
    BY <1>2, <2>1 DEF Unlocking, Approved
  <2>3. /\ tap' \in [Taps -> Tap \cup {Idle}] /\ Others(t)
        /\ tap'[t].pc = (IF tap[t].kind = "out" THEN "consume" ELSE "punch")
        /\ tap'[t].kind = tap[t].kind /\ tap'[t].id = q
    <3>1. CASE tap[t].kind = "out"
      BY <1>2, <2>1, <2>2, <3>1, TapMoves DEF Kinds
    <3>2. CASE tap[t].kind # "out"
      BY <1>2, <2>1, <2>2, <3>2, TapMoves DEF Kinds
    <3> QED
      BY <3>1, <3>2
  <2>4. q # Null
    BY <2>2, Bounds, ApprovalAssumption
  <2>5. Types'
    BY <1>1, <1>3, <2>2, <2>3, <2>4, TypesOfTap
  <2> QED
    BY <1>1, <2>2, <2>3, <2>5
<1> QED
  BY <1>4, <1>5, <1>6 DEF PunchGate

LEMMA ConsumeEffect ==
    ASSUME Types, NEW t \in Taps, PunchConsume(t)
    PROVE  /\ Types' /\ Others(t) /\ UNCHANGED <<uses, deciding>> /\ Ids' = Ids
           /\ tap[t] # Idle /\ tap[t].pc = "consume" /\ tap[t].id \in Ids /\ tap[t].id # Null
           /\ tap[t].kind \in {"in", "out"}
           /\ \A q \in Ids : q # tap[t].id => reqs'[q] = reqs[q]
           /\ reqs'[tap[t].id].kind = reqs[tap[t].id].kind
           /\ \/ /\ UNCHANGED faults
                 /\ reqs'[tap[t].id].status = IF tap[t].kind = "in" THEN "used" ELSE "cancelled"
              \/ faults' = faults + 1 /\ UNCHANGED reqs
           /\ tap[t].kind = "in" => tap'[t] = Idle
           /\ tap[t].kind = "out" =>
                 tap'[t].pc = "punch" /\ tap'[t].kind = "out" /\ tap'[t].id = tap[t].id
<1> DEFINE k == tap[t].kind
           q == tap[t].id
           r == [reqs[q] EXCEPT !.status = Consumed(k)]
<1>1. /\ tap[t] # Idle /\ tap[t].pc = "consume" /\ UNCHANGED <<now, onShift, uses, deciding>>
      /\ \/ reqs' = [reqs EXCEPT ![q] = r] /\ UNCHANGED faults
         \/ faults < MaxFaults /\ faults' = faults + 1 /\ UNCHANGED reqs
      /\ IF k = "in" THEN Return(t) ELSE Step(t, "punch", k, q)
  BY DEF PunchConsume, At, BestEffort
<1>2. q \in Ids /\ q # Null /\ k \in Kinds /\ k \in {"in", "out"}
  BY <1>1, TapParts DEF Kinds
<1>3. Consumed(k) \in Statuses /\ Consumed(k) = IF k = "in" THEN "used" ELSE "cancelled"
  BY DEF Consumed, Statuses
<1>4. r \in Request /\ r.kind = reqs[q].kind /\ r.status = Consumed(k)
  BY <1>2, <1>3, Bounds, WithStatus
<1> HIDE DEF r
<1>5. /\ reqs' \in Seq(Request) /\ Len(reqs') <= MaxReqs /\ Ids' = Ids
      /\ \A x \in Ids : x # q => reqs'[x] = reqs[x]
      /\ reqs'[q].kind = reqs[q].kind
      /\ faults' \in 0 .. MaxFaults
      /\ \/ UNCHANGED faults /\ reqs'[q].status = Consumed(k)
         \/ faults' = faults + 1 /\ UNCHANGED reqs
  <2>1. CASE reqs' = [reqs EXCEPT ![q] = r] /\ UNCHANGED faults
    <3>1. Rewritten(q, r)
      BY <1>2, <1>4, <2>1, Rewrites
    <3> QED
      BY <1>4, <2>1, <3>1, Bounds DEF Rewritten, Types, TypeOK
  <2>2. CASE faults < MaxFaults /\ faults' = faults + 1 /\ UNCHANGED reqs
    <3>1. Ids' = Ids /\ faults' \in 0 .. MaxFaults
      BY <2>2, FaultTypes DEF Ids
    <3> QED
      BY <2>2, <3>1 DEF Types, TypeOK
  <2> QED
    BY <1>1, <2>1, <2>2
<1>6. /\ tap' \in [Taps -> Tap \cup {Idle}] /\ Others(t)
      /\ k = "in" => tap'[t] = Idle
      /\ k = "out" => tap'[t].pc = "punch" /\ tap'[t].kind = k /\ tap'[t].id = q
  BY <1>1, <1>2, TapMoves, TapReturns
<1>7. uses' \in [1 .. MaxReqs -> Nat] /\ onShift' \in BOOLEAN
  BY <1>1 DEF Types, TypeOK
<1>8. Types'
  <2>1. tap'[t] # Idle => tap'[t].pc = "punch" /\ tap'[t].id \in Ids
    BY <1>2, <1>6
  <2> QED
    BY <1>1, <1>5, <1>6, <1>7, <2>1, TypesOfTap
<1> QED
  BY <1>1, <1>2, <1>3, <1>5, <1>6, <1>8

LEMMA PunchEffect ==
    ASSUME Types, NEW t \in Taps, Punch(t)
    PROVE  /\ Types' /\ Others(t) /\ UNCHANGED <<reqs, deciding, faults>>
           /\ tap[t] # Idle /\ tap[t].pc = "punch"
           /\ \/ tap'[t] = Idle /\ UNCHANGED uses
              \/ /\ tap[t].id \in Ids /\ tap[t].id # Null
                 /\ uses' = [uses EXCEPT ![tap[t].id] = uses[tap[t].id] + 1]
                 /\ \/ tap'[t] = Idle /\ tap[t].kind = "out"
                    \/ /\ tap'[t] # Idle /\ tap'[t].pc = "consume" /\ tap[t].kind = "in"
                       /\ tap'[t].kind = "in" /\ tap'[t].id = tap[t].id
<1> DEFINE k == tap[t].kind
           q == tap[t].id
<1>1. tap[t] # Idle /\ tap[t].pc = "punch" /\ UNCHANGED <<now, reqs, deciding, faults>>
  BY DEF Punch, At
<1>2. q \in Ids \cup {Null} /\ k \in {"in", "out"}
  BY <1>1, TapParts DEF Kinds
<1>3. /\ reqs' \in Seq(Request) /\ Len(reqs') <= MaxReqs /\ Ids' = Ids /\ faults' \in 0 .. MaxFaults
  BY <1>1 DEF Types, TypeOK, Ids
<1>4. uses \in [1 .. MaxReqs -> Nat] /\ onShift \in BOOLEAN
  BY DEF Types, TypeOK
<1>5. CASE Return(t) /\ onShift' \in BOOLEAN /\ UNCHANGED uses
  <2>1. tap' \in [Taps -> Tap \cup {Idle}] /\ Others(t) /\ tap'[t] = Idle
    BY <1>5, TapReturns
  <2>2. Types'
    BY <1>1, <1>3, <1>4, <1>5, <2>1, TypesOfTap
  <2> QED
    BY <1>1, <1>5, <2>1, <2>2
<1>6. CASE /\ q # Null /\ onShift' \in BOOLEAN /\ uses' = [uses EXCEPT ![q] = uses[q] + 1]
           /\ IF k = "in" THEN Step(t, "consume", k, q) ELSE Return(t)
  <2>1. q \in Ids /\ q \in 1 .. MaxReqs /\ uses[q] \in Nat
    BY <1>2, <1>6, Bounds
  <2>2. uses' \in [1 .. MaxReqs -> Nat]
    BY <1>4, <1>6, <2>1
  <2>3. /\ tap' \in [Taps -> Tap \cup {Idle}] /\ Others(t)
        /\ \/ tap'[t] = Idle /\ k = "out"
           \/ tap'[t] # Idle /\ tap'[t].pc = "consume" /\ k = "in" /\ tap'[t].kind = "in" /\ tap'[t].id = q
    <3>1. CASE k = "in"
      BY <1>6, <2>1, <3>1, TapMoves DEF Kinds
    <3>2. CASE k = "out"
      BY <1>6, <3>2, TapReturns
    <3> QED
      BY <1>2, <3>1, <3>2
  <2>4. tap'[t] # Idle => tap'[t].id \in Ids /\ tap'[t].id # Null
    BY <1>6, <2>1, <2>3
  <2>5. Types'
    BY <1>1, <1>3, <1>6, <2>2, <2>3, <2>4, TypesOfTap
  <2> QED
    BY <1>1, <1>6, <2>1, <2>3, <2>5
<1>7. \/ Return(t) /\ onShift' \in BOOLEAN /\ UNCHANGED uses
      \/ /\ q # Null /\ onShift' \in BOOLEAN /\ uses' = [uses EXCEPT ![q] = uses[q] + 1]
         /\ IF k = "in" THEN Step(t, "consume", k, q) ELSE Return(t)
  <2>1. CASE k = "in" /\ onShift
    BY <1>4, <2>1 DEF Punch
  <2>2. CASE ~(k = "in" /\ onShift)
    <3>1. /\ onShift' = (k = "in")
          /\ uses' = IF q = Null THEN uses ELSE [uses EXCEPT ![q] = uses[q] + 1]
          /\ IF k = "in" /\ q # Null THEN Step(t, "consume", k, q) ELSE Return(t)
      BY <2>2 DEF Punch
    <3>2. onShift' \in BOOLEAN
      BY <3>1
    <3>3. CASE q = Null
      BY <3>1, <3>2, <3>3
    <3>4. CASE q # Null
      BY <3>1, <3>2, <3>4
    <3> QED
      BY <3>3, <3>4
  <2> QED
    BY <2>1, <2>2
<1> QED
  BY <1>5, <1>6, <1>7

LEMMA DiesEffect ==
    ASSUME Types, Dies
    PROVE  /\ Types' /\ UNCHANGED <<reqs, uses>> /\ faults' = faults + 1
           /\ \A t \in Taps : tap'[t] = tap[t] \/ tap'[t] = Idle
           /\ \A s \in Supervisors : deciding'[s] = deciding[s] \/ deciding'[s] = Null
<1>1. /\ UNCHANGED <<now, onShift, reqs, uses>> /\ faults' \in 0 .. MaxFaults
      /\ faults' = faults + 1 /\ Ids' = Ids
  BY FaultTypes DEF Dies, Ids
<1>2. /\ tap' \in [Taps -> Tap \cup {Idle}] /\ deciding' \in [Supervisors -> (1 .. MaxReqs) \cup {Null}]
      /\ \A t \in Taps : tap'[t] = tap[t] \/ tap'[t] = Idle
      /\ \A s \in Supervisors : deciding'[s] = deciding[s] \/ deciding'[s] = Null
  BY DEF Dies, Return, Types, TypeOK
<1>3. Types'
  BY <1>1, <1>2 DEF Types, TypeOK
<1> QED
  BY <1>1, <1>2, <1>3

LEMMA TickEffect ==
    ASSUME Types, Tick \/ UNCHANGED vars
    PROVE  Types' /\ UNCHANGED <<reqs, uses, tap, deciding, faults>>
<1>1. UNCHANGED <<onShift, reqs, uses, tap, deciding, faults>> /\ now' \in 0 .. Horizon
  BY ApprovalAssumption DEF Tick, vars, Types, TypeOK
<1>2. Ids' = Ids
  BY <1>1 DEF Ids
<1> QED
  BY <1>1, <1>2 DEF Types, TypeOK

LEMMA TypesStep == Types /\ [Next]_vars => Types'
<1> SUFFICES ASSUME Types, [Next]_vars PROVE Types'
  OBVIOUS
<1> QED
  BY AskEffect, CreateEffect, WithdrawEffect, LoadEffect, DecideEffect, GateEffect,
     ConsumeEffect, PunchEffect, DiesEffect, TickEffect DEF Next

\* Type correctness of the approvals, with any number of taps and supervisors at once and
\* with faults.
THEOREM TypeCorrect == Spec => []TypeOK
<1>1. Types => TypeOK
  BY DEF Types
<1> QED
  BY <1>1, InitTypes, TypesStep, PTL DEF Spec

-----------------------------------------------------------------------------
(* The invariant, one action at a time *)

LEMMA AlphabetOf ==
    ASSUME Types
    PROVE  /\ Null \notin Ids
           /\ \A s \in Supervisors : deciding[s] # Null => deciding[s] \in Ids
BY Bounds, ApprovalAssumption DEF Types

LEMMA Counts ==
    ASSUME Types
    PROVE  faults \in Nat /\ \A q \in Ids : q \in 1 .. MaxReqs /\ uses[q] \in Nat
BY Bounds, ApprovalAssumption DEF Types, TypeOK

LEMMA InitInv == Init => Inv
<1> SUFFICES ASSUME Init PROVE Inv
  OBVIOUS
<1>1. Ids = {}
  BY DEF Init, Ids
<1>2. (\A t \in Taps : tap[t] = Idle) /\ (\A s \in Supervisors : deciding[s] = Null)
  BY DEF Init
<1>3. Unused /\ OneOpen
  BY <1>1 DEF Init, Unused, OneOpen
<1>4. Spent
  BY <1>1, <1>2 DEF Init, Spent
<1> QED
  BY <1>2, <1>3, <1>4, InitTypes DEF Inv

\* The guard's app sends something: nothing is decided or used by it.
LEMMA AskInv ==
    ASSUME Serial, Inv, NEW t \in Taps, NEW k \in Kinds, Ask(t, k) \/ PunchBegin(t, k)
    PROVE  Inv'
<1>1. /\ Types' /\ UNCHANGED <<reqs, uses, deciding, faults>> /\ Ids' = Ids
      /\ tap[t] = Idle /\ tap'[t] # Idle /\ tap'[t].kind = k /\ tap'[t].id = Null
      /\ \/ tap'[t].pc = "gate"
         \/ tap'[t].pc = "create" /\ Open(k) = {}
  BY AskEffect DEF Inv, Ids
<1>2. \A u \in Taps : u = t
  BY DEF Serial
<1>3. Taken(t)'
  <2>1. Open("in") = {} => \A q \in Ids : reqs[q].kind = "in" => ~IsOpen(reqs[q])
    BY DEF Open, IsOpen
  <2> QED
    BY <1>1, <2>1 DEF Taken, IsOpen
<1>4. \A s \in Supervisors : deciding'[s] # Null => Undecided(deciding[s])'
  BY <1>1, <1>2 DEF Inv, Undecided, Holds
<1>5. Unused' /\ OneOpen'
  BY <1>1 DEF Inv, Unused, OneOpen, IsOpen
<1>6. Spent'
  BY <1>1, <1>2 DEF Inv, Spent, Holds
<1> QED
  BY <1>1, <1>2, <1>3, <1>4, <1>5, <1>6 DEF Inv

LEMMA CreateInv == ASSUME Serial, Inv, NEW t \in Taps, AskCreate(t) PROVE Inv'
<1> DEFINE n == Len(reqs) + 1
<1>1. /\ Types' /\ UNCHANGED <<uses, deciding, faults>>
      /\ tap[t] # Idle /\ tap[t].pc = "create" /\ tap'[t] = Idle
      /\ Ids' = Ids \cup {n} /\ n \notin Ids /\ n \in 1 .. MaxReqs
      /\ \A q \in Ids : reqs'[q] = reqs[q]
      /\ reqs'[n].kind = tap[t].kind /\ reqs'[n].status = "pending"
  BY CreateEffect DEF Inv
<1>2. \A u \in Taps : u = t
  BY DEF Serial
<1>3. Types
  BY DEF Inv
<1> HIDE DEF n
<1>4. \A s \in Supervisors : deciding'[s] # Null => Undecided(deciding[s])'
  BY <1>1, <1>2, <1>3, AlphabetOf DEF Inv, Undecided, Holds
<1>5. Unused'
  BY <1>1 DEF Inv, Unused
<1>6. OneOpen'
  <2>1. tap[t].kind = "in" => \A q \in Ids : reqs[q].kind = "in" => ~IsOpen(reqs[q])
    BY <1>1 DEF Inv, Taken
  <2>2. SUFFICES ASSUME NEW q \in Ids \cup {n}, NEW r \in Ids \cup {n},
                        reqs'[q].kind = "in", reqs'[r].kind = "in",
                        IsOpen(reqs'[q]), IsOpen(reqs'[r]), q # r
                 PROVE  FALSE
    BY <1>1 DEF OneOpen, IsOpen
  <2>3. CASE q \in Ids /\ r \in Ids
    BY <1>1, <2>2, <2>3 DEF Inv, OneOpen
  <2>4. CASE q = n \/ r = n
    BY <1>1, <2>1, <2>2, <2>4
  <2> QED
    BY <2>3, <2>4
<1>7. Spent'
  <2>1. Spent /\ tap' = [tap EXCEPT ![t] = Idle] /\ uses[n] = 0 /\ faults \in Nat
    BY <1>1, <1>3, Counts DEF Inv, Unused, AskCreate, Return
  <2>2. \A q \in Ids : reqs[q].status = "approved" => uses[q] <= faults
    BY <1>1, <1>2, <1>3, <2>1, Counts DEF Spent, Holds
  <2>3. \A q \in Ids' : reqs'[q].status = "approved" => uses'[q] <= faults'
    BY <1>1, <2>2
  <2>4. \A q \in Ids' : uses'[q] \in Nat
    BY <1>1, <1>3, <2>1, Counts
  <2> QED
    BY <1>1, <1>2, <2>1, <2>3, <2>4 DEF Spent
<1> QED
  BY <1>1, <1>2, <1>4, <1>5, <1>6, <1>7 DEF Inv

\* A withdrawal cancels what nobody has used and, a supervisor's load apart, nobody holds.
LEMMA WithdrawInv == ASSUME Serial, Inv, Withdraw PROVE Inv'
<1>1. /\ Types' /\ Ids' = Ids /\ UNCHANGED <<uses, tap, deciding, faults>>
      /\ \A q \in Ids : /\ reqs'[q].kind = reqs[q].kind
                        /\ \/ reqs'[q].status = reqs[q].status
                           \/ /\ reqs[q].kind = "out" /\ reqs[q].status = "pending"
                              /\ reqs'[q].status = "cancelled"
  BY WithdrawEffect DEF Inv
<1>2. Types
  BY DEF Inv
<1>3. ASSUME NEW t \in Taps, tap'[t] # Idle PROVE Taken(t)'
  <2>1. Taken(t) /\ tap[t].id \in Ids \cup {Null}
    BY <1>1, <1>2, <1>3, TapParts DEF Inv
  <2>2. \A q \in Ids : ~IsOpen(reqs[q]) => ~IsOpen(reqs'[q])
    BY <1>1 DEF IsOpen
  <2> QED
    BY <1>1, <2>1, <2>2 DEF Taken, IsOpen
<1>4. \A s \in Supervisors : deciding'[s] # Null => Undecided(deciding[s])'
  BY <1>1, <1>2, AlphabetOf DEF Inv, Undecided, Holds
<1>5. Unused'
  BY <1>1 DEF Inv, Unused
<1>6. OneOpen'
  BY <1>1 DEF Inv, OneOpen, IsOpen
<1>7. Spent'
  <2>1. Spent
    BY <1>1 DEF Inv
  <2>2. \A q \in Ids : reqs'[q].status = "approved" => reqs[q].status = "approved"
    BY <1>1
  <2>3. \A q \in Ids : reqs[q].status = "cancelled" => reqs'[q].status = "cancelled"
    BY <1>1
  <2>4. \A t \in Taps : tap[t] # Idle => tap[t].id \in Ids \cup {Null}
    BY <1>2, TapParts
  <2> QED
    BY <1>1, <2>1, <2>2, <2>3, <2>4 DEF Spent, Holds
<1> QED
  BY <1>1, <1>3, <1>4, <1>5, <1>6, <1>7 DEF Inv

LEMMA LoadInv == ASSUME Serial, Inv, NEW s \in Supervisors, DecideLoad(s) PROVE Inv'
<1>1. /\ Types' /\ UNCHANGED <<reqs, uses, tap, faults>> /\ Ids' = Ids
      /\ deciding'[s] \in Ids /\ reqs[deciding'[s]].status = "pending"
  BY LoadEffect DEF Inv, Ids
<1>2. \A r \in Supervisors : r = s
  BY DEF Serial
<1>3. \A t \in Taps : tap[t] # Idle => Taken(t)'
  BY <1>1 DEF Inv, Taken, IsOpen
<1>4. Undecided(deciding[s])'
  <2>1. \A t \in Taps : ~Holds(t, deciding'[s])
    BY <1>1, AlphabetOf DEF Inv, Taken, Holds
  <2> QED
    BY <1>1, <2>1 DEF Undecided, Holds, Inv, Unused
<1>5. Unused' /\ OneOpen' /\ Spent'
  BY <1>1 DEF Inv, Unused, OneOpen, IsOpen, Spent, Holds
<1> QED
  BY <1>1, <1>2, <1>3, <1>4, <1>5 DEF Inv

\* A decision falls on a request that no punch has used or holds.
LEMMA DecideInv == ASSUME Serial, Inv, NEW s \in Supervisors, DecideWrite(s) PROVE Inv'
<1> DEFINE d == deciding[s]
<1>1. /\ Types' /\ Ids' = Ids /\ UNCHANGED <<uses, tap, faults>>
      /\ d \in Ids /\ d # Null /\ deciding'[s] = Null
      /\ \A q \in Ids : q # d => reqs'[q] = reqs[q]
      /\ reqs'[d].kind = reqs[d].kind /\ reqs'[d].status \in {"approved", "rejected"}
  BY DecideEffect DEF Inv
<1>2. \A r \in Supervisors : r = s
  BY DEF Serial
<1>3. Undecided(d) /\ Types
  BY <1>1 DEF Inv
<1> HIDE DEF d
<1>4. ASSUME NEW t \in Taps, tap'[t] # Idle PROVE Taken(t)'
  <2>1. Taken(t) /\ tap[t].id # d
    BY <1>1, <1>3, <1>4 DEF Inv, Undecided, Holds
  <2>2. tap[t].id \in Ids \cup {Null}
    BY <1>1, <1>3, <1>4, TapParts
  <2>3. ASSUME tap[t].pc = "create", tap[t].kind = "in", NEW q \in Ids, reqs[q].kind = "in"
        PROVE  q # d
    <3>1. ~IsOpen(reqs[q])
      BY <2>1, <2>3 DEF Taken
    <3> QED
      BY <1>3, <2>3, <3>1 DEF Undecided, IsOpen
  <2>4. tap[t].pc = "create" /\ tap[t].kind = "in" =>
           \A q \in Ids : reqs'[q].kind = "in" => ~IsOpen(reqs'[q])
    BY <1>1, <2>1, <2>3 DEF Taken
  <2> QED
    BY <1>1, <2>1, <2>2, <2>4 DEF Taken, IsOpen
<1>5. Unused'
  BY <1>1 DEF Inv, Unused
<1>6. OneOpen'
  <2>1. \A q \in Ids : reqs'[q].kind = "in" /\ IsOpen(reqs'[q]) => reqs[q].kind = "in" /\ IsOpen(reqs[q])
    BY <1>1, <1>3 DEF Undecided, IsOpen
  <2> QED
    BY <1>1, <2>1 DEF Inv, OneOpen, IsOpen
<1>7. Spent'
  <2>1. Spent /\ uses[d] = 0 /\ \A t \in Taps : ~Holds(t, d)
    BY <1>1, <1>3 DEF Inv, Undecided
  <2>2. \A q \in Ids : reqs'[q].status = "approved" /\ uses'[q] > faults' =>
           \E t \in Taps : Holds(t, q)' /\ tap'[t].pc = "consume" /\ tap'[t].kind = "in"
    BY <1>1, <1>3, <2>1, Counts DEF Spent, Holds
  <2>3. ASSUME NEW t \in Taps, tap[t] # Idle, tap[t].id # Null
        PROVE  reqs'[tap[t].id] = reqs[tap[t].id]
    BY <1>1, <1>3, <2>1, <2>3, TapParts DEF Holds
  <2> QED
    BY <1>1, <2>1, <2>2, <2>3 DEF Spent
<1> QED
  BY <1>1, <1>2, <1>4, <1>5, <1>6, <1>7 DEF Inv

\* An approval that passes the gate has let nobody through yet.
LEMMA GateInv == ASSUME Serial, Inv, NEW t \in Taps, PunchGate(t) PROVE Inv'
<1>1. /\ Types' /\ UNCHANGED <<reqs, uses, deciding, faults>> /\ Ids' = Ids
      /\ tap[t] # Idle /\ tap[t].pc = "gate"
      /\ \/ tap'[t] = Idle
         \/ tap'[t].pc = "punch" /\ tap'[t].id = Null
         \/ \E q \in Ids : /\ tap'[t].id = q /\ tap'[t].kind = tap[t].kind
                           /\ reqs[q].kind = tap[t].kind /\ reqs[q].status = "approved"
                           /\ tap'[t].pc = IF tap[t].kind = "out" THEN "consume" ELSE "punch"
  BY GateEffect DEF Inv, Ids
<1>2. \A u \in Taps : u = t
  BY DEF Serial
<1>3. Null \notin Ids /\ tap[t].kind \in {"in", "out"}
  BY <1>1, AlphabetOf, TapParts DEF Inv, Kinds
<1>4. tap'[t] # Idle => Taken(t)'
  BY <1>1, <1>3 DEF Taken
<1>5. ASSUME NEW s \in Supervisors, deciding'[s] # Null PROVE Undecided(deciding[s])'
  <2>1. Undecided(deciding[s]) /\ deciding[s] \in Ids
    BY <1>1, <1>5, AlphabetOf DEF Inv
  <2>2. tap'[t] # Idle => tap'[t].id # deciding[s]
    BY <1>1, <1>3, <2>1 DEF Undecided
  <2> QED
    BY <1>1, <1>2, <2>1, <2>2 DEF Undecided, Holds
<1>6. Unused' /\ OneOpen'
  BY <1>1 DEF Inv, Unused, OneOpen, IsOpen
<1>7. Spent'
  <2>1. Spent /\ Types
    BY DEF Inv
  <2>2. \A q \in Ids : reqs[q].status = "approved" => uses[q] <= faults
    BY <1>1, <1>2, <2>1, Counts DEF Spent
  <2>3. tap'[t] # Idle /\ tap'[t].id # Null =>
           uses[tap'[t].id] <= faults /\ ~(tap'[t].pc = "punch" /\ tap'[t].kind = "out")
    BY <1>1, <1>3, <2>2
  <2>4. \A q \in Ids : uses[q] \in Nat /\ faults \in Nat
    BY <2>1, Counts
  <2> QED
    BY <1>1, <1>2, <2>1, <2>2, <2>3, <2>4 DEF Spent
<1> QED
  BY <1>1, <1>2, <1>4, <1>5, <1>6, <1>7 DEF Inv

LEMMA ConsumeInv == ASSUME Serial, Inv, NEW t \in Taps, PunchConsume(t) PROVE Inv'
<1> DEFINE c == tap[t].id
<1>1. /\ Types' /\ UNCHANGED <<uses, deciding>> /\ Ids' = Ids
      /\ tap[t] # Idle /\ tap[t].pc = "consume" /\ c \in Ids /\ c # Null
      /\ tap[t].kind \in {"in", "out"}
      /\ \A q \in Ids : q # c => reqs'[q] = reqs[q]
      /\ reqs'[c].kind = reqs[c].kind
      /\ \/ /\ UNCHANGED faults
            /\ reqs'[c].status = IF tap[t].kind = "in" THEN "used" ELSE "cancelled"
         \/ faults' = faults + 1 /\ UNCHANGED reqs
      /\ tap[t].kind = "in" => tap'[t] = Idle
      /\ tap[t].kind = "out" => tap'[t].pc = "punch" /\ tap'[t].kind = "out" /\ tap'[t].id = c
  BY ConsumeEffect DEF Inv
<1>2. \A u \in Taps : u = t
  BY DEF Serial
<1>3. Taken(t) /\ Types /\ Holds(t, c)
  BY <1>1 DEF Inv, Holds
<1>4. reqs[c].kind = tap[t].kind /\ reqs[c].status # "pending" /\ reqs'[c].status # "pending"
  BY <1>1, <1>3 DEF Taken
<1> HIDE DEF c
<1>5. tap'[t] # Idle => Taken(t)'
  BY <1>1, <1>4 DEF Taken
<1>6. ASSUME NEW s \in Supervisors, deciding'[s] # Null PROVE Undecided(deciding[s])'
  <2>1. Undecided(deciding[s]) /\ deciding[s] \in Ids /\ deciding[s] # c
    BY <1>1, <1>3, <1>6, AlphabetOf DEF Inv, Undecided
  <2>2. tap'[t] # Idle => tap'[t].id # deciding[s]
    BY <1>1, <2>1
  <2> QED
    BY <1>1, <1>2, <2>1, <2>2 DEF Undecided, Holds
<1>7. Unused'
  BY <1>1, <1>4 DEF Inv, Unused
<1>8. OneOpen'
  <2>1. \A q \in Ids : reqs'[q].kind = "in" /\ IsOpen(reqs'[q]) => reqs[q].kind = "in" /\ IsOpen(reqs[q])
    BY <1>1, <1>4 DEF IsOpen
  <2> QED
    BY <1>1, <2>1 DEF Inv, OneOpen, IsOpen
<1>9. Spent'
  <2>1. Spent /\ faults \in Nat /\ faults' \in Nat /\ faults' >= faults
    BY <1>1, <1>3, Counts DEF Inv
  <2>2. \A q \in 1 .. MaxReqs : uses[q] \in Nat
    BY <1>3, Bounds
  <2>3. \A q \in Ids : q \in 1 .. MaxReqs
    BY <1>3, Bounds
  <2>4. \A q \in 1 .. MaxReqs : uses'[q] <= 1 + faults'
    BY <1>1, <2>1, <2>2 DEF Spent
  <2>5. \A q \in Ids : reqs[q].status = "approved" /\ uses[q] > faults => q = c
    BY <1>2, <2>1 DEF Spent, Holds, c
  <2>6. tap[t].kind = "out" => uses[c] <= faults
    BY <1>1, <2>1 DEF Spent, c
  <2>7. \A q \in Ids : reqs'[q].status = "approved" => uses'[q] <= faults'
    BY <1>1, <2>1, <2>2, <2>3, <2>4, <2>5 DEF Spent
  <2>8. tap[t].kind = "out" => /\ uses'[c] <= faults'
                               /\ reqs'[c].status = "cancelled" \/ uses'[c] < faults'
    BY <1>1, <2>1, <2>2, <2>3, <2>6
  <2>9. \A q \in Ids : reqs'[q].status = "approved" => ~(uses'[q] > faults')
    BY <1>1, <2>1, <2>2, <2>3, <2>7
  <2> QED
    BY <1>1, <1>2, <2>4, <2>8, <2>9 DEF Spent
<1> QED
  BY <1>1, <1>2, <1>5, <1>6, <1>7, <1>8, <1>9 DEF Inv

\* The punch itself: the approval it holds has let nobody through before.
LEMMA PunchInv == ASSUME Serial, Inv, NEW t \in Taps, Punch(t) PROVE Inv'
<1> DEFINE c == tap[t].id
<1>1. /\ Types' /\ UNCHANGED <<reqs, deciding, faults>> /\ Ids' = Ids
      /\ tap[t] # Idle /\ tap[t].pc = "punch"
      /\ \/ tap'[t] = Idle /\ UNCHANGED uses
         \/ /\ c \in Ids /\ c # Null
            /\ uses' = [uses EXCEPT ![c] = uses[c] + 1]
            /\ \/ tap'[t] = Idle /\ tap[t].kind = "out"
               \/ /\ tap'[t] # Idle /\ tap'[t].pc = "consume" /\ tap[t].kind = "in"
                  /\ tap'[t].kind = "in" /\ tap'[t].id = c
  BY PunchEffect DEF Inv, Ids
<1>2. \A u \in Taps : u = t
  BY DEF Serial
<1>3. /\ Taken(t) /\ Types /\ uses \in [1 .. MaxReqs -> Nat] /\ \A q \in Ids : q \in 1 .. MaxReqs
  BY <1>1, Bounds DEF Inv, Types, TypeOK
<1>4. c \in Ids /\ c # Null => reqs[c].kind = tap[t].kind /\ reqs[c].status # "pending" /\ Holds(t, c)
  BY <1>1, <1>3 DEF Taken, Holds
<1>5. \A q \in 1 .. MaxReqs : q # c \/ c \notin Ids => uses'[q] = uses[q]
  BY <1>1, <1>3
<1> HIDE DEF c
<1>6. tap'[t] # Idle => Taken(t)'
  BY <1>1, <1>4 DEF Taken
<1>7. ASSUME NEW s \in Supervisors, deciding'[s] # Null PROVE Undecided(deciding[s])'
  <2>1. Undecided(deciding[s]) /\ deciding[s] \in Ids
    BY <1>1, <1>3, <1>7, AlphabetOf DEF Inv
  <2>2. c \in Ids /\ c # Null => deciding[s] # c
    BY <1>4, <2>1 DEF Undecided
  <2>3. uses'[deciding[s]] = uses[deciding[s]]
    BY <1>1, <1>3, <2>1, <2>2
  <2>4. ~Holds(t, deciding[s])'
    BY <1>1, <2>2 DEF Holds
  <2> QED
    BY <1>1, <1>2, <2>1, <2>3, <2>4 DEF Undecided
<1>8. Unused'
  <2>1. \A q \in Ids : reqs[q].status = "pending" => uses'[q] = uses[q]
    BY <1>1, <1>3, <1>4
  <2>2. \A q \in 1 .. MaxReqs : q \notin Ids => uses'[q] = uses[q]
    BY <1>5
  <2> QED
    BY <1>1, <2>1, <2>2 DEF Inv, Unused
<1>9. OneOpen'
  BY <1>1 DEF Inv, OneOpen, IsOpen
<1>10. Spent'
  <2>1. Spent /\ faults \in Nat /\ \A q \in 1 .. MaxReqs : uses[q] \in Nat
    BY <1>3, Counts, Bounds DEF Inv
  <2>2. \A q \in Ids : reqs[q].status = "approved" => ~(uses[q] > faults)
    BY <1>1, <1>2, <2>1 DEF Spent
  <2>3. CASE tap'[t] = Idle /\ UNCHANGED uses
    BY <1>1, <1>2, <2>1, <2>2, <2>3 DEF Spent
  <2>4. CASE c \in Ids /\ c # Null /\ uses' = [uses EXCEPT ![c] = uses[c] + 1]
    <3>1. c \in 1 .. MaxReqs /\ uses[c] \in Nat /\ uses[c] <= faults /\ uses'[c] = uses[c] + 1
      BY <1>1, <1>3, <2>1, <2>4 DEF Spent, c
    <3>2. \A q \in 1 .. MaxReqs : uses'[q] <= 1 + faults
      BY <1>3, <1>5, <2>1, <2>4, <3>1 DEF Spent
    <3>3. \A q \in Ids : reqs[q].status = "approved" /\ uses'[q] > faults => q = c
      BY <1>3, <1>5, <2>2
    <3>4. CASE tap'[t] = Idle /\ tap[t].kind = "out"
      <4>1. reqs[c].status = "cancelled" \/ ~(uses'[c] > faults)
        BY <1>1, <2>1, <2>4, <3>1, <3>4 DEF Spent, c
      <4>2. \A q \in Ids : reqs[q].status = "approved" => ~(uses'[q] > faults)
        BY <3>3, <4>1
      <4> QED
        BY <1>1, <1>2, <3>2, <3>4, <4>2 DEF Spent
    <3>5. CASE tap'[t] # Idle /\ tap'[t].pc = "consume" /\ tap'[t].kind = "in" /\ tap'[t].id = c
      BY <1>1, <1>2, <3>2, <3>3, <3>5 DEF Spent, Holds
    <3> QED
      BY <1>1, <2>4, <3>4, <3>5, <1>3 DEF c
  <2> QED
    BY <1>1, <2>3, <2>4
<1> QED
  BY <1>1, <1>2, <1>6, <1>7, <1>8, <1>9, <1>10 DEF Inv

LEMMA DiesInv == ASSUME Inv, Dies PROVE Inv'
<1>1. /\ Types' /\ UNCHANGED <<reqs, uses>> /\ faults' = faults + 1 /\ Ids' = Ids
      /\ \A t \in Taps : tap'[t] = tap[t] \/ tap'[t] = Idle
      /\ \A s \in Supervisors : deciding'[s] = deciding[s] \/ deciding'[s] = Null
  BY DiesEffect DEF Inv, Ids
<1>2. \A t \in Taps : tap'[t] # Idle => Taken(t)'
  BY <1>1 DEF Inv, Taken, IsOpen
<1>3. \A s \in Supervisors : deciding'[s] # Null => Undecided(deciding[s])'
  BY <1>1 DEF Inv, Undecided, Holds
<1>4. Unused' /\ OneOpen'
  BY <1>1 DEF Inv, Unused, OneOpen, IsOpen
<1>5. Spent'
  <2>1. Spent /\ faults \in Nat /\ \A q \in 1 .. MaxReqs : uses[q] \in Nat
    BY Counts, Bounds DEF Inv
  <2>2. \A q \in Ids : q \in 1 .. MaxReqs
    BY Bounds DEF Inv
  <2>3. (\A q \in 1 .. MaxReqs : uses[q] <= faults') /\ \A q \in Ids : ~(uses[q] > faults')
    BY <1>1, <2>1, <2>2 DEF Spent
  <2>4. \A q \in 1 .. MaxReqs : uses[q] <= 1 + faults'
    BY <1>1, <2>1, <2>3
  <2>5. ASSUME NEW t \in Taps, tap'[t] # Idle, tap'[t].id # Null
        PROVE  /\ tap[t] # Idle /\ tap[t] = tap'[t] /\ uses[tap[t].id] <= faults'
               /\ uses[tap[t].id] < faults \/ uses[tap[t].id] = faults => uses[tap[t].id] < faults'
    <3>1. tap[t] = tap'[t] /\ tap[t].id \in Ids
      BY <1>1, <2>5, TapParts DEF Inv
    <3> QED
      BY <1>1, <2>1, <2>2, <2>3, <2>5, <3>1
  <2>6. ASSUME NEW t \in Taps, tap'[t] # Idle, tap'[t].id # Null, tap'[t].pc = "punch"
        PROVE  reqs[tap[t].id].status = "cancelled" \/ uses[tap[t].id] < faults' \/ tap[t].kind # "out"
    <3>1. tap[t] = tap'[t] /\ tap[t].id \in Ids /\ uses[tap[t].id] <= faults
      BY <1>1, <2>1, <2>6, TapParts DEF Inv, Spent
    <3> QED
      BY <1>1, <2>1, <2>2, <3>1
  <2> QED
    BY <1>1, <2>3, <2>4, <2>5, <2>6 DEF Spent
<1> QED
  BY <1>1, <1>2, <1>3, <1>4, <1>5 DEF Inv

LEMMA TickInv == ASSUME Inv, Tick \/ UNCHANGED vars PROVE Inv'
<1>1. Types' /\ UNCHANGED <<reqs, uses, tap, deciding, faults>> /\ Ids' = Ids
  BY TickEffect DEF Inv, Ids
<1> QED
  BY <1>1 DEF Inv, Taken, Undecided, Holds, Unused, OneOpen, IsOpen, Spent

LEMMA InvStep == ASSUME Serial PROVE Inv /\ [Next]_vars => Inv'
<1> SUFFICES ASSUME Inv, [Next]_vars PROVE Inv'
  OBVIOUS
<1> QED
  BY AskInv, CreateInv, WithdrawInv, LoadInv, DecideInv, GateInv, ConsumeInv, PunchInv,
     DiesInv, TickInv DEF Next

-----------------------------------------------------------------------------
(* The properties *)

\* As long as the guard and one supervisor send one request at a time, a request lets one punch
\* through and one more for each failure, however often the guard asks, withdraws and punches.
THEOREM OneUsePerApproval == Serial => (Spec => []ApprovalUsedOnce)
<1> SUFFICES ASSUME Serial PROVE Spec => []ApprovalUsedOnce
  OBVIOUS
<1>1. Inv => ApprovalUsedOnce
  BY DEF Inv, Spent, ApprovalUsedOnce
<1>2. Inv /\ [Next]_vars => Inv'
  BY InvStep
<1> QED
  BY <1>1, <1>2, InitInv, PTL DEF Spec

\* Under the same assumption, with any faults, no second late clock-in request is opened.
THEOREM AskedOnce == Serial => (Spec => []OneOpenLateRequest)
<1> SUFFICES ASSUME Serial PROVE Spec => []OneOpenLateRequest
  OBVIOUS
<1>1. Inv => OneOpenLateRequest
  <2> SUFFICES ASSUME Inv PROVE Cardinality(Open("in")) <= 1
    BY DEF OneOpenLateRequest
  <2>1. \A q, r \in Open("in") : q = r
    BY DEF Inv, OneOpen, Open, IsOpen
  <2>2. CASE Open("in") = {}
    BY <2>2, FS_EmptySet
  <2>3. CASE Open("in") # {}
    <3>1. PICK q \in Open("in") : Open("in") = {q}
      BY <2>1, <2>3
    <3> QED
      BY <3>1, FS_Singleton
  <2> QED
    BY <2>2, <2>3
<1>2. Inv /\ [Next]_vars => Inv'
  BY InvStep
<1> QED
  BY <1>1, <1>2, InitInv, PTL DEF Spec

-----------------------------------------------------------------------------
(* However many requests are in flight: late requests per tap and supervisor *)

\* Late requests that are open, or that a supervisor may still write; and those about to be
\* created, by taps that saw none open.
InUse  == {q \in Ids : /\ reqs[q].kind = "in"
                       /\ IsOpen(reqs[q]) \/ \E s \in Supervisors : deciding[s] = q}
Asking == {t \in Taps : tap[t] # Idle /\ tap[t].pc = "create" /\ tap[t].kind = "in"}

\* A supervisor who could not open a closed late request by writing what he loaded.
Idler(s) == deciding[s] # Null =>
    reqs[deciding[s]].kind = "out" \/ reqs[deciding[s]].status = "pending"

Crowd ==
    /\ Types
    /\ \A t \in Taps : tap[t] # Idle /\ tap[t].id # Null => reqs[tap[t].id].status # "pending"
    /\ \E s \in Supervisors : Idler(s)
    /\ Cardinality(InUse) + Cardinality(Asking) < Cardinality(Taps) + Cardinality(Supervisors)

Finite  == IsFiniteSet(Taps) /\ IsFiniteSet(Supervisors)
Staffed == Finite /\ Supervisors # {}

LEMMA Countable ==
    ASSUME Staffed, Types
    PROVE  /\ IsFiniteSet(InUse) /\ IsFiniteSet(Asking)
           /\ Cardinality(InUse) \in Nat /\ Cardinality(Asking) \in Nat
           /\ Cardinality(Taps) \in Nat /\ Cardinality(Supervisors) \in Nat
           /\ Cardinality(Asking) <= Cardinality(Taps)
<1>1. IsFiniteSet(1 .. Len(reqs))
  BY Bounds, FS_Interval
<1>2. IsFiniteSet(InUse)
  BY <1>1, FS_Subset DEF InUse, Ids
<1>3. IsFiniteSet(Asking) /\ Cardinality(Asking) <= Cardinality(Taps)
  BY FS_Subset DEF Asking, Staffed, Finite
<1> QED
  BY <1>2, <1>3, FS_CardinalityType DEF Staffed, Finite

\* Nothing opens, nobody asks: the count does not grow.
LEMMA Shrinks ==
    ASSUME Staffed, Crowd, Types', InUse' \subseteq InUse, Asking' \subseteq Asking,
           \A t \in Taps : tap'[t] # Idle /\ tap'[t].id # Null =>
               reqs'[tap'[t].id].status # "pending",
           \E s \in Supervisors : Idler(s)'
    PROVE  Crowd'
<1>1. Types
  BY DEF Crowd
<1>2. /\ IsFiniteSet(InUse) /\ IsFiniteSet(Asking)
      /\ Cardinality(InUse) \in Nat /\ Cardinality(Asking) \in Nat
      /\ Cardinality(Taps) \in Nat /\ Cardinality(Supervisors) \in Nat
  BY <1>1, Countable
<1>3. Cardinality(InUse') <= Cardinality(InUse) /\ Cardinality(Asking') <= Cardinality(Asking)
  BY <1>2, FS_Subset
<1>4. Cardinality(InUse') \in Nat /\ Cardinality(Asking') \in Nat
  BY <1>2, FS_Subset, FS_CardinalityType
<1> QED
  BY <1>2, <1>3, <1>4 DEF Crowd

LEMMA InitCrowd == Staffed /\ Init => Crowd
<1> SUFFICES ASSUME Staffed, Init PROVE Crowd
  OBVIOUS
<1>1. Types /\ InUse = {} /\ Asking = {} /\ Cardinality({}) = 0
  BY InitTypes, FS_EmptySet DEF Init, InUse, Asking, Ids
<1>2. PICK s \in Supervisors : Idler(s)
  BY DEF Init, Idler, Staffed
<1>3. /\ Cardinality(Supervisors) \in Nat /\ Cardinality(Taps) \in Nat
      /\ Cardinality(Supervisors) # 0
  BY FS_CardinalityType, FS_EmptySet DEF Staffed, Finite
<1> QED
  BY <1>1, <1>2, <1>3 DEF Init, Crowd

\* Who sees no open request: only those being decided are in use, and one supervisor decides
\* none of them.
LEMMA CrowdAsk ==
    ASSUME Staffed, Crowd, NEW t \in Taps, NEW k \in Kinds, Ask(t, k) \/ PunchBegin(t, k)
    PROVE  Crowd'
<1>1. /\ Types' /\ Others(t) /\ UNCHANGED <<reqs, uses, deciding, faults>> /\ Ids' = Ids
      /\ tap[t] = Idle /\ tap'[t] # Idle /\ tap'[t].kind = k /\ tap'[t].id = Null
      /\ \/ tap'[t].pc = "gate"
         \/ tap'[t].pc = "create" /\ Open(k) = {}
  BY AskEffect DEF Crowd, Ids
<1>2. \A u \in Taps : tap'[u] # Idle /\ tap'[u].id # Null => reqs'[tap'[u].id].status # "pending"
  BY <1>1 DEF Crowd, Others
<1>3. PICK s \in Supervisors : Idler(s) /\ Idler(s)'
  BY <1>1 DEF Crowd, Idler
<1>4. InUse' = InUse
  BY <1>1 DEF InUse, IsOpen
<1>5. CASE tap'[t].pc = "gate" \/ k = "out"
  <2>1. Asking' \subseteq Asking
    BY <1>1, <1>5 DEF Asking, Others
  <2> QED
    BY <1>1, <1>2, <1>3, <1>4, <2>1, Shrinks
<1>6. CASE k = "in" /\ Open("in") = {}
  <2> DEFINE D == {deciding[u] : u \in Supervisors \ {s}}
  <2>1. InUse \subseteq D
    <3> SUFFICES ASSUME NEW q \in InUse PROVE q \in D
      OBVIOUS
    <3>1. q \in Ids /\ reqs[q].kind = "in" /\ ~IsOpen(reqs[q])
      BY <1>6 DEF InUse, Open, IsOpen
    <3>2. PICK u \in Supervisors : deciding[u] = q
      BY <3>1 DEF InUse
    <3>3. u # s
      BY <1>3, <3>1, <3>2, Bounds, ApprovalAssumption DEF Idler, IsOpen, Crowd
    <3> QED
      BY <3>2, <3>3
  <2>2. /\ IsFiniteSet(Supervisors \ {s})
        /\ Cardinality(Supervisors \ {s}) = Cardinality(Supervisors) - 1
    BY FS_RemoveElement DEF Staffed, Finite
  <2>3. IsFiniteSet(D) /\ Cardinality(D) <= Cardinality(Supervisors \ {s})
    <3> DEFINE f == [u \in Supervisors \ {s} |-> deciding[u]]
    <3>1. f \in Surjection(Supervisors \ {s}, D)
      BY DEF Surjection
    <3> HIDE DEF f, D
    <3> QED
      BY <2>2, <3>1, FS_Surjection
  <2>4. Cardinality(InUse) <= Cardinality(Supervisors) - 1
    <3> HIDE DEF D
    <3>1. Cardinality(InUse) <= Cardinality(D)
      BY <2>1, <2>3, FS_Subset
    <3> QED
      BY <2>2, <2>3, <3>1, Countable, FS_CardinalityType DEF Crowd
  <2>5. /\ Cardinality(InUse) \in Nat /\ Cardinality(Supervisors) \in Nat
        /\ Cardinality(Taps) \in Nat /\ Cardinality(Asking') \in Nat
        /\ Cardinality(Asking') <= Cardinality(Taps)
    <3>1. IsFiniteSet(Asking') /\ Cardinality(Asking') <= Cardinality(Taps)
      BY FS_Subset DEF Asking, Staffed, Finite
    <3> QED
      BY <3>1, Countable, FS_CardinalityType DEF Crowd
  <2> QED
    BY <1>1, <1>2, <1>3, <1>4, <2>4, <2>5 DEF Crowd
<1> QED
  BY <1>1, <1>5, <1>6 DEF Kinds

\* One tap less asks, one request more is open.
LEMMA CrowdCreate ==
    ASSUME Staffed, Crowd, NEW t \in Taps, AskCreate(t)
    PROVE  Crowd'
<1> DEFINE n == Len(reqs) + 1
<1>1. /\ Types' /\ Others(t) /\ UNCHANGED <<uses, deciding, faults>>
      /\ tap[t] # Idle /\ tap[t].pc = "create" /\ tap'[t] = Idle
      /\ Ids' = Ids \cup {n} /\ n \notin Ids
      /\ \A q \in Ids : reqs'[q] = reqs[q]
      /\ reqs'[n].kind = tap[t].kind /\ reqs'[n].status = "pending"
  BY CreateEffect DEF Crowd
<1> HIDE DEF n
<1>2. Types /\ Null \notin Ids
  BY AlphabetOf DEF Crowd
<1>3. ASSUME NEW u \in Taps, tap'[u] # Idle, tap'[u].id # Null
      PROVE  reqs'[tap'[u].id].status # "pending"
  <2>1. tap'[u] = tap[u]
    BY <1>1, <1>3 DEF Others
  <2> QED
    BY <1>1, <1>2, <1>3, <2>1, TapParts DEF Crowd
<1>4. PICK s \in Supervisors : Idler(s)
  BY DEF Crowd
<1>5. Idler(s)'
  BY <1>1, <1>2, <1>4, AlphabetOf DEF Idler
<1>6. n \notin InUse /\ \A q \in Ids : q \in InUse' <=> q \in InUse
  BY <1>1 DEF InUse, IsOpen
<1>7. CASE tap[t].kind = "in"
  <2>1. InUse' = InUse \cup {n} /\ Asking' = Asking \ {t} /\ t \in Asking
    BY <1>1, <1>6, <1>7 DEF InUse, IsOpen, Asking, Others
  <2>2. Cardinality(InUse') = Cardinality(InUse) + 1
    BY <1>2, <1>6, <2>1, Countable, FS_AddElement
  <2>3. Cardinality(Asking') = Cardinality(Asking) - 1
    BY <1>2, <2>1, Countable, FS_RemoveElement
  <2> QED
    BY <1>1, <1>2, <1>3, <1>5, <2>2, <2>3, Countable DEF Crowd
<1>8. CASE tap[t].kind # "in"
  <2>1. InUse' \subseteq InUse /\ Asking' \subseteq Asking
    BY <1>1, <1>6, <1>8 DEF InUse, Asking, Others
  <2> QED
    BY <1>1, <1>3, <1>5, <2>1, Shrinks
<1> QED
  BY <1>7, <1>8

LEMMA CrowdWithdraw == ASSUME Staffed, Crowd, Withdraw PROVE Crowd'
<1>1. /\ Types' /\ Ids' = Ids /\ UNCHANGED <<uses, tap, deciding, faults>>
      /\ \A q \in Ids : /\ reqs'[q].kind = reqs[q].kind
                        /\ \/ reqs'[q].status = reqs[q].status
                           \/ /\ reqs[q].kind = "out" /\ reqs[q].status = "pending"
                              /\ reqs'[q].status = "cancelled"
  BY WithdrawEffect DEF Crowd
<1>2. Types
  BY DEF Crowd
<1>3. \A t \in Taps : tap'[t] # Idle /\ tap'[t].id # Null => reqs'[tap'[t].id].status # "pending"
  BY <1>1, <1>2, TapParts DEF Crowd
<1>4. PICK s \in Supervisors : Idler(s)
  BY DEF Crowd
<1>5. Idler(s)'
  BY <1>1, <1>2, <1>4, AlphabetOf DEF Idler
<1>6. InUse' \subseteq InUse /\ Asking' \subseteq Asking
  BY <1>1 DEF InUse, Asking, IsOpen
<1> QED
  BY <1>1, <1>3, <1>5, <1>6, Shrinks

\* A supervisor's last load is of a request still pending; his write frees him.
LEMMA CrowdLoad == ASSUME Staffed, Crowd, NEW s \in Supervisors, DecideLoad(s) PROVE Crowd'
<1>1. /\ Types' /\ UNCHANGED <<reqs, uses, tap, faults>> /\ Ids' = Ids
      /\ deciding'[s] \in Ids /\ reqs[deciding'[s]].status = "pending"
      /\ \A r \in Supervisors : r # s => deciding'[r] = deciding[r]
  BY LoadEffect DEF Crowd, Ids
<1>2. Idler(s)'
  BY <1>1 DEF Idler
<1>3. InUse' \subseteq InUse /\ Asking' \subseteq Asking
  BY <1>1 DEF InUse, Asking, IsOpen
<1>4. \A t \in Taps : tap'[t] # Idle /\ tap'[t].id # Null => reqs'[tap'[t].id].status # "pending"
  BY <1>1 DEF Crowd
<1> QED
  BY <1>1, <1>2, <1>3, <1>4, Shrinks

LEMMA CrowdDecide == ASSUME Staffed, Crowd, NEW s \in Supervisors, DecideWrite(s) PROVE Crowd'
<1> DEFINE d == deciding[s]
<1>1. /\ Types' /\ Ids' = Ids /\ UNCHANGED <<uses, tap, faults>>
      /\ d \in Ids /\ d # Null /\ deciding'[s] = Null
      /\ \A r \in Supervisors : r # s => deciding'[r] = deciding[r]
      /\ \A q \in Ids : q # d => reqs'[q] = reqs[q]
      /\ reqs'[d].kind = reqs[d].kind /\ reqs'[d].status \in {"approved", "rejected"}
  BY DecideEffect DEF Crowd
<1>2. Types /\ Null \notin Ids
  BY AlphabetOf DEF Crowd
<1>3. \A t \in Taps : tap'[t] # Idle /\ tap'[t].id # Null => reqs'[tap'[t].id].status # "pending"
  <2> HIDE DEF d
  <2> QED
    BY <1>1, <1>2, TapParts DEF Crowd
<1>4. Idler(s)'
  BY <1>1 DEF Idler
<1>5. \A q \in InUse' : q \in InUse
  <2> SUFFICES ASSUME NEW q \in InUse' PROVE q \in InUse
    OBVIOUS
  <2>1. q \in Ids /\ reqs[q].kind = "in"
    BY <1>1 DEF InUse
  <2>2. CASE q = d
    BY <2>1, <2>2 DEF InUse
  <2>3. CASE q # d
    BY <1>1, <1>2, <2>1, <2>3 DEF InUse
  <2> QED
    BY <2>2, <2>3
<1>6. Asking' \subseteq Asking
  BY <1>1 DEF Asking
<1> QED
  BY <1>1, <1>3, <1>4, <1>5, <1>6, Shrinks

LEMMA CrowdGate == ASSUME Staffed, Crowd, NEW t \in Taps, PunchGate(t) PROVE Crowd'
<1>1. /\ Types' /\ Others(t) /\ UNCHANGED <<reqs, uses, deciding, faults>> /\ Ids' = Ids
      /\ tap[t] # Idle /\ tap[t].pc = "gate"
      /\ \/ tap'[t] = Idle
         \/ tap'[t].pc = "punch" /\ tap'[t].id = Null
         \/ \E q \in Ids : /\ tap'[t].id = q /\ tap'[t].kind = tap[t].kind
                           /\ reqs[q].kind = tap[t].kind /\ reqs[q].status = "approved"
                           /\ tap'[t].pc = IF tap[t].kind = "out" THEN "consume" ELSE "punch"
  BY GateEffect DEF Crowd, Ids
<1>2. \A u \in Taps : tap'[u] # Idle /\ tap'[u].id # Null => reqs'[tap'[u].id].status # "pending"
  BY <1>1 DEF Crowd, Others
<1>3. \E s \in Supervisors : Idler(s)'
  BY <1>1 DEF Crowd, Idler
<1>4. InUse' \subseteq InUse /\ Asking' \subseteq Asking
  BY <1>1 DEF InUse, Asking, IsOpen, Others
<1> QED
  BY <1>1, <1>2, <1>3, <1>4, Shrinks

LEMMA CrowdConsume == ASSUME Staffed, Crowd, NEW t \in Taps, PunchConsume(t) PROVE Crowd'
<1> DEFINE c == tap[t].id
<1>1. /\ Types' /\ Others(t) /\ UNCHANGED <<uses, deciding>> /\ Ids' = Ids
      /\ tap[t] # Idle /\ tap[t].pc = "consume" /\ c \in Ids /\ c # Null
      /\ tap[t].kind \in {"in", "out"}
      /\ \A q \in Ids : q # c => reqs'[q] = reqs[q]
      /\ reqs'[c].kind = reqs[c].kind
      /\ \/ /\ UNCHANGED faults
            /\ reqs'[c].status = IF tap[t].kind = "in" THEN "used" ELSE "cancelled"
         \/ faults' = faults + 1 /\ UNCHANGED reqs
      /\ tap[t].kind = "in" => tap'[t] = Idle
      /\ tap[t].kind = "out" => tap'[t].pc = "punch" /\ tap'[t].kind = "out" /\ tap'[t].id = c
  BY ConsumeEffect DEF Crowd
<1>2. Types /\ Null \notin Ids /\ reqs[c].status # "pending"
  BY <1>1, AlphabetOf DEF Crowd
<1> HIDE DEF c
<1>3. \A q \in Ids : reqs[q].status # "pending" => reqs'[q].status # "pending"
  BY <1>1
<1>4. ASSUME NEW u \in Taps, tap'[u] # Idle, tap'[u].id # Null
      PROVE  reqs'[tap'[u].id].status # "pending"
  <2>1. CASE u = t
    BY <1>1, <1>2, <1>3, <1>4, <2>1
  <2>2. CASE u # t
    <3>1. tap'[u] = tap[u] /\ tap[u].id \in Ids /\ reqs[tap[u].id].status # "pending"
      BY <1>1, <1>2, <1>4, <2>2, TapParts DEF Others, Crowd
    <3> QED
      BY <1>3, <3>1
  <2> QED
    BY <2>1, <2>2
<1>5. PICK s \in Supervisors : Idler(s)
  BY DEF Crowd
<1>6. Idler(s)'
  BY <1>1, <1>2, <1>5, AlphabetOf DEF Idler
<1>7. \A q \in Ids : reqs'[q].kind = reqs[q].kind /\ (IsOpen(reqs'[q]) => IsOpen(reqs[q]))
  BY <1>1 DEF IsOpen
<1>8. InUse' \subseteq InUse
  BY <1>1, <1>7 DEF InUse, IsOpen
<1>9. Asking' \subseteq Asking
  BY <1>1 DEF Asking, Others
<1> QED
  BY <1>1, <1>4, <1>6, <1>8, <1>9, Shrinks

LEMMA CrowdPunch == ASSUME Staffed, Crowd, NEW t \in Taps, Punch(t) PROVE Crowd'
<1>1. /\ Types' /\ Others(t) /\ UNCHANGED <<reqs, deciding, faults>> /\ Ids' = Ids
      /\ tap[t] # Idle
      /\ tap'[t] # Idle => tap'[t].pc = "consume" /\ tap'[t].id = tap[t].id
  BY PunchEffect DEF Crowd, Ids
<1>2. \A u \in Taps : tap'[u] # Idle /\ tap'[u].id # Null => reqs'[tap'[u].id].status # "pending"
  BY <1>1 DEF Crowd, Others
<1>3. \E s \in Supervisors : Idler(s)'
  BY <1>1 DEF Crowd, Idler
<1>4. InUse' \subseteq InUse /\ Asking' \subseteq Asking
  BY <1>1 DEF InUse, Asking, IsOpen, Others
<1> QED
  BY <1>1, <1>2, <1>3, <1>4, Shrinks

LEMMA CrowdRest == ASSUME Staffed, Crowd, Dies \/ Tick \/ UNCHANGED vars PROVE Crowd'
<1>1. /\ Types' /\ UNCHANGED <<reqs, uses>> /\ Ids' = Ids
      /\ \A t \in Taps : tap'[t] = tap[t] \/ tap'[t] = Idle
      /\ \A s \in Supervisors : deciding'[s] = deciding[s] \/ deciding'[s] = Null
  BY DiesEffect, TickEffect DEF Crowd, Ids
<1>2. \A u \in Taps : tap'[u] # Idle /\ tap'[u].id # Null => reqs'[tap'[u].id].status # "pending"
  BY <1>1 DEF Crowd
<1>3. \E s \in Supervisors : Idler(s)'
  BY <1>1 DEF Crowd, Idler
<1>4. InUse' \subseteq InUse
  BY <1>1, AlphabetOf DEF InUse, IsOpen, Crowd
<1>5. Asking' \subseteq Asking
  BY <1>1 DEF Asking
<1> QED
  BY <1>1, <1>2, <1>3, <1>4, <1>5, Shrinks

LEMMA CrowdStep == ASSUME Staffed PROVE Crowd /\ [Next]_vars => Crowd'
<1> SUFFICES ASSUME Crowd, [Next]_vars PROVE Crowd'
  OBVIOUS
<1> QED
  BY CrowdAsk, CrowdCreate, CrowdWithdraw, CrowdLoad, CrowdDecide, CrowdGate, CrowdConsume,
     CrowdPunch, CrowdRest DEF Next

\* With any number of taps and of supervisors at work at once, and any faults, fewer late
\* requests are open than there are taps and supervisors together: the checks that overlap let
\* through at most one request each, and one tap with one supervisor none twice.
THEOREM LateRequestsPerActor ==
    Staffed => (Spec => [](Cardinality(Open("in")) < Cardinality(Taps) + Cardinality(Supervisors)))
<1> SUFFICES ASSUME Staffed
             PROVE  Spec => [](Cardinality(Open("in")) < Cardinality(Taps) + Cardinality(Supervisors))
  OBVIOUS
<1>1. Crowd => Cardinality(Open("in")) < Cardinality(Taps) + Cardinality(Supervisors)
  <2> SUFFICES ASSUME Crowd
               PROVE  Cardinality(Open("in")) < Cardinality(Taps) + Cardinality(Supervisors)
    OBVIOUS
  <2>1. Open("in") \subseteq InUse
    BY DEF Open, InUse, IsOpen
  <2>2. IsFiniteSet(InUse) /\ Cardinality(InUse) \in Nat /\ Cardinality(Asking) \in Nat
    BY Countable DEF Crowd
  <2>3. Cardinality(Open("in")) <= Cardinality(InUse) /\ Cardinality(Open("in")) \in Nat
    BY <2>1, <2>2, FS_Subset, FS_CardinalityType
  <2> QED
    BY <2>2, <2>3, Countable DEF Crowd
<1>2. Crowd /\ [Next]_vars => Crowd'
  BY CrowdStep
<1> QED
  BY <1>1, <1>2, InitCrowd, PTL DEF Spec

-----------------------------------------------------------------------------
(* However many requests are in flight: punches per request, tap and supervisor *)

\* The punches that hold a request and are still to come; those that passed the gate with it and
\* neither came back nor failed to spend it; the supervisors who may still write it.
Punching(q) == {t \in Taps : Holds(t, q) /\ (tap[t].pc = "punch" \/ tap[t].kind = "out")}
Holding(q)  == {t \in Taps : Holds(t, q) /\ ~(tap[t].pc = "punch" /\ tap[t].kind = "out")}
Writing(q)  == {s \in Supervisors : deciding[s] = q}

\* Each supervisor approves a request at most once: he loads it pending, and a decided request is
\* never pending again.  Each approval lets each tap through once.
Approvals(q) == Cardinality(Supervisors) - Cardinality(Writing(q))
Granted(q)   == Cardinality(Taps) * Approvals(q)
Earlier(q)   == Cardinality(Taps) * (Approvals(q) - 1)

Passed(q) == uses[q] + Cardinality(Punching(q))

Ration(q) ==
    /\ reqs[q].status = "pending" => uses[q] = 0 /\ \A t \in Taps : ~Holds(t, q)
    /\ reqs[q].status = "approved" => Passed(q) <= Earlier(q) + faults + Cardinality(Holding(q))
    /\ reqs[q].status \notin {"pending", "approved"} => Passed(q) <= Granted(q) + faults

Rationed ==
    /\ Types
    /\ \A q \in 1 .. MaxReqs : q \notin Ids => uses[q] = 0
    /\ \A t \in Taps : tap[t] # Idle /\ tap[t].pc \in {"create", "gate"} => tap[t].id = Null
    /\ \A q \in Ids : Ration(q)

One(b) == IF b THEN 1 ELSE 0

\* A set changes by one element.
LEMMA OneMoves ==
    ASSUME NEW S, NEW T, NEW x, IsFiniteSet(S), \A y : y # x => (y \in S <=> y \in T)
    PROVE  /\ IsFiniteSet(T) /\ Cardinality(T) \in Nat /\ Cardinality(S) \in Nat
           /\ Cardinality(T) = Cardinality(S) - One(x \in S) + One(x \in T)
<1>1. Cardinality(S) \in Nat
  BY FS_CardinalityType
<1>2. CASE (x \in S <=> x \in T)
  <2>1. T = S
    BY <1>2
  <2> QED
    BY <1>1, <2>1 DEF One
<1>3. CASE x \in S /\ x \notin T
  <2>1. T = S \ {x}
    BY <1>3
  <2>2. IsFiniteSet(T) /\ Cardinality(T) = Cardinality(S) - 1
    BY <1>3, <2>1, FS_RemoveElement
  <2> QED
    BY <1>1, <1>3, <2>2, FS_CardinalityType DEF One
<1>4. CASE x \notin S /\ x \in T
  <2>1. T = S \cup {x}
    BY <1>4
  <2>2. IsFiniteSet(T) /\ Cardinality(T) = Cardinality(S) + 1
    BY <1>4, <2>1, FS_AddElement
  <2> QED
    BY <1>1, <1>4, <2>2, FS_CardinalityType DEF One
<1> QED
  BY <1>2, <1>3, <1>4

LEMMA Sizes ==
    ASSUME Finite, NEW q
    PROVE  /\ IsFiniteSet(Punching(q)) /\ IsFiniteSet(Holding(q)) /\ IsFiniteSet(Writing(q))
           /\ Cardinality(Taps) \in Nat /\ Cardinality(Supervisors) \in Nat
           /\ Cardinality(Punching(q)) \in Nat /\ Cardinality(Holding(q)) \in Nat
           /\ Cardinality(Holding(q)) <= Cardinality(Taps)
           /\ Approvals(q) \in Nat /\ Approvals(q) <= Cardinality(Supervisors)
           /\ Granted(q) \in Nat /\ Earlier(q) \in Int
           /\ Granted(q) = Earlier(q) + Cardinality(Taps)
           /\ Granted(q) <= Cardinality(Taps) * Cardinality(Supervisors)
<1>1. /\ IsFiniteSet(Punching(q)) /\ IsFiniteSet(Holding(q)) /\ IsFiniteSet(Writing(q))
      /\ Cardinality(Holding(q)) <= Cardinality(Taps)
      /\ Cardinality(Writing(q)) <= Cardinality(Supervisors)
  BY FS_Subset DEF Finite, Punching, Holding, Writing
<1>2. /\ Cardinality(Taps) \in Nat /\ Cardinality(Supervisors) \in Nat
      /\ Cardinality(Punching(q)) \in Nat /\ Cardinality(Holding(q)) \in Nat
      /\ Cardinality(Writing(q)) \in Nat
  BY <1>1, FS_CardinalityType DEF Finite
<1>3. Approvals(q) \in Nat /\ Approvals(q) <= Cardinality(Supervisors)
  BY <1>1, <1>2 DEF Approvals
<1>4. \A m, n, k \in Nat : n <= k => m * n \in Nat /\ m * (n - 1) \in Int
                                     /\ m * n = m * (n - 1) + m /\ m * n <= m * k
  OBVIOUS
<1> QED
  BY <1>1, <1>2, <1>3, <1>4 DEF Granted, Earlier

\* One tap moves: who else is punching or holding, and who writes, stays.
LEMMA TapCounts ==
    ASSUME Finite, Types, NEW t \in Taps, Others(t), UNCHANGED deciding, NEW q
    PROVE  /\ Granted(q)' = Granted(q) /\ Earlier(q)' = Earlier(q)
           /\ Cardinality(Punching(q)') =
                 Cardinality(Punching(q)) - One(t \in Punching(q)) + One(t \in Punching(q)')
           /\ Cardinality(Holding(q)') =
                 Cardinality(Holding(q)) - One(t \in Holding(q)) + One(t \in Holding(q)')
<1>1. Granted(q)' = Granted(q) /\ Earlier(q)' = Earlier(q)
  BY DEF Granted, Earlier, Approvals, Writing
<1>2. \A u : u # t => /\ u \in Punching(q) <=> u \in Punching(q)'
                      /\ u \in Holding(q) <=> u \in Holding(q)'
  BY DEF Punching, Holding, Holds, Others
<1>3. IsFiniteSet(Punching(q)) /\ IsFiniteSet(Holding(q))
  BY Sizes
<1> HIDE DEF Punching, Holding
<1> QED
  BY <1>1, <1>2, <1>3, OneMoves

\* One supervisor is done: one approval more is accounted for.
LEMMA WriterCounts ==
    ASSUME Finite, Types, NEW s \in Supervisors, deciding'[s] = Null, deciding[s] # Null,
           \A r \in Supervisors : r # s => deciding'[r] = deciding[r], NEW q \in Ids
    PROVE  /\ q # deciding[s] => Granted(q)' = Granted(q) /\ Earlier(q)' = Earlier(q)
           /\ q = deciding[s] => /\ Earlier(q)' = Granted(q)
                                 /\ Granted(q)' = Granted(q) + Cardinality(Taps)
<1>1. Null \notin Ids
  BY AlphabetOf
<1>2. CASE q # deciding[s]
  <2>1. Writing(q)' = Writing(q)
    BY <1>1, <1>2 DEF Writing
  <2> QED
    BY <1>2, <2>1 DEF Granted, Earlier, Approvals
<1>3. CASE q = deciding[s]
  <2>1. Writing(q)' = Writing(q) \ {s} /\ s \in Writing(q)
    BY <1>1, <1>3 DEF Writing
  <2>2. Cardinality(Writing(q)') = Cardinality(Writing(q)) - 1
    BY <2>1, Sizes, FS_RemoveElement
  <2>3. Cardinality(Writing(q)) \in Nat /\ Cardinality(Supervisors) \in Nat
        /\ Cardinality(Taps) \in Nat
    BY Sizes, FS_CardinalityType
  <2>4. Approvals(q)' = Approvals(q) + 1 /\ Approvals(q) \in Nat
    BY <2>2, <2>3, Sizes DEF Approvals
  <2>5. \A m, n \in Nat : m * ((n + 1) - 1) = m * n /\ m * (n + 1) = m * n + m
    OBVIOUS
  <2> QED
    BY <1>3, <2>3, <2>4, <2>5 DEF Granted, Earlier
<1> QED
  BY <1>2, <1>3

\* A decided request, approved or not, has let through no more than was granted.
LEMMA Within ==
    ASSUME Finite, Rationed, NEW q \in Ids, reqs[q].status # "pending"
    PROVE  Passed(q) <= Granted(q) + faults /\ Passed(q) \in Nat /\ faults \in Nat
<1>1. uses[q] \in Nat /\ faults \in Nat
  BY Counts DEF Rationed
<1> QED
  BY <1>1, Sizes DEF Rationed, Ration, Passed

LEMMA InitRation == Init => Rationed
<1> SUFFICES ASSUME Init PROVE Rationed
  OBVIOUS
<1>1. Types /\ Ids = {}
  BY InitTypes DEF Init, Ids
<1> QED
  BY <1>1 DEF Init, Rationed

\* A tap moves that held no request and holds none, or no other one; requests stay.
LEMMA RationOthers ==
    ASSUME Finite, Rationed, NEW t \in Taps, Others(t), UNCHANGED deciding, NEW q \in Ids,
           reqs'[q] = reqs[q], uses'[q] = uses[q], faults' \in Nat, faults' >= faults,
           ~Holds(t, q), ~Holds(t, q)'
    PROVE  Ration(q)'
<1>1. t \notin Punching(q) /\ t \notin Punching(q)' /\ t \notin Holding(q) /\ t \notin Holding(q)'
  BY DEF Punching, Holding
<1>2. /\ Granted(q)' = Granted(q) /\ Earlier(q)' = Earlier(q)
      /\ Cardinality(Punching(q)') = Cardinality(Punching(q))
      /\ Cardinality(Holding(q)') = Cardinality(Holding(q))
  <2> HIDE DEF Punching, Holding
  <2> QED
    BY <1>1, TapCounts, Sizes DEF One, Rationed
<1>3. Passed(q)' = Passed(q)
  BY <1>2 DEF Passed
<1>4. /\ Passed(q) \in Nat /\ Granted(q) \in Nat /\ Earlier(q) \in Int /\ faults \in Nat
      /\ Cardinality(Holding(q)) \in Nat
  BY Sizes, Counts DEF Passed, Rationed
<1>5. (\A u \in Taps : ~Holds(u, q)) => \A u \in Taps : ~Holds(u, q)'
  BY DEF Holds, Others
<1> QED
  BY <1>2, <1>3, <1>4, <1>5 DEF Ration, Rationed

LEMMA RationAsk ==
    ASSUME Finite, Rationed, NEW t \in Taps, NEW k \in Kinds, Ask(t, k) \/ PunchBegin(t, k)
    PROVE  Rationed'
<1>1. /\ Types' /\ Others(t) /\ UNCHANGED <<reqs, uses, deciding, faults>> /\ Ids' = Ids
      /\ tap[t] = Idle /\ tap'[t] # Idle /\ tap'[t].id = Null
  BY AskEffect DEF Rationed, Ids
<1>2. ASSUME NEW q \in Ids PROVE Ration(q)'
  <2>1. ~Holds(t, q) /\ ~Holds(t, q)' /\ faults' \in Nat /\ faults' >= faults
    BY <1>1, AlphabetOf, Counts DEF Holds, Rationed
  <2> QED
    BY <1>1, <2>1, RationOthers
<1>3. \A u \in Taps : tap'[u] # Idle /\ tap'[u].pc \in {"create", "gate"} => tap'[u].id = Null
  BY <1>1 DEF Rationed, Others
<1> QED
  BY <1>1, <1>2, <1>3 DEF Rationed

LEMMA RationCreate ==
    ASSUME Finite, Rationed, NEW t \in Taps, AskCreate(t)
    PROVE  Rationed'
<1>0. PICK n : n = Len(reqs) + 1
  OBVIOUS
<1>1. /\ Types' /\ Others(t) /\ UNCHANGED <<uses, deciding, faults>>
      /\ tap[t] # Idle /\ tap[t].pc = "create" /\ tap'[t] = Idle
      /\ Ids' = Ids \cup {n} /\ n \notin Ids /\ n \in 1 .. MaxReqs
      /\ \A q \in Ids : reqs'[q] = reqs[q]
      /\ reqs'[n].status = "pending"
  BY <1>0, CreateEffect DEF Rationed
<1>2. Types /\ Null \notin Ids
  BY AlphabetOf DEF Rationed
<1>3. ASSUME NEW q \in Ids PROVE Ration(q)'
  <2>1. ~Holds(t, q) /\ ~Holds(t, q)' /\ faults' \in Nat /\ faults' >= faults
    BY <1>1, <1>2, Counts DEF Holds, Rationed
  <2> QED
    BY <1>1, <2>1, RationOthers
<1>4. Ration(n)'
  <2>1. ASSUME NEW u \in Taps PROVE ~Holds(u, n)'
    <3>1. CASE u = t
      BY <1>1, <3>1 DEF Holds
    <3>2. CASE u # t
      BY <1>1, <1>2, <3>2, TapParts, ApprovalAssumption DEF Holds, Others
    <3> QED
      BY <3>1, <3>2
  <2> QED
    BY <1>1, <2>1 DEF Ration, Rationed
<1>5. \A u \in Taps : tap'[u] # Idle /\ tap'[u].pc \in {"create", "gate"} => tap'[u].id = Null
  BY <1>1 DEF Rationed, Others
<1> QED
  BY <1>1, <1>3, <1>4, <1>5 DEF Rationed

\* A tap that passes the gate with an approval holds it and is still to punch.
LEMMA RationGate ==
    ASSUME Finite, Rationed, NEW t \in Taps, PunchGate(t)
    PROVE  Rationed'
<1>1. /\ Types' /\ Others(t) /\ UNCHANGED <<reqs, uses, deciding, faults>> /\ Ids' = Ids
      /\ tap[t] # Idle /\ tap[t].pc = "gate"
      /\ \/ tap'[t] = Idle
         \/ tap'[t].pc = "punch" /\ tap'[t].id = Null
         \/ \E q \in Ids : /\ tap'[t].id = q /\ tap'[t].kind = tap[t].kind
                           /\ reqs[q].kind = tap[t].kind /\ reqs[q].status = "approved"
                           /\ tap'[t].pc = IF tap[t].kind = "out" THEN "consume" ELSE "punch"
  BY GateEffect DEF Rationed, Ids
<1>2. Types /\ Null \notin Ids /\ tap[t].id = Null /\ faults \in Nat
  BY <1>1, AlphabetOf, Counts DEF Rationed
<1>3. ASSUME NEW q \in Ids PROVE Ration(q)'
  <2>1. ~Holds(t, q)
    BY <1>2 DEF Holds
  <2>2. CASE ~Holds(t, q)'
    BY <1>1, <1>2, <2>1, <2>2, RationOthers
  <2>3. CASE Holds(t, q)'
    <3>1. /\ reqs[q].status = "approved" /\ reqs'[q] = reqs[q]
          /\ tap'[t].kind = "out" => tap'[t].pc = "consume"
          /\ tap'[t].kind # "out" => tap'[t].pc = "punch"
      BY <1>1, <1>2, <2>3 DEF Holds
    <3>2. /\ t \notin Punching(q) /\ t \notin Holding(q)
          /\ t \in Punching(q)' /\ t \in Holding(q)'
      BY <2>1, <2>3, <3>1 DEF Punching, Holding
    <3>3. /\ Earlier(q)' = Earlier(q)
          /\ Cardinality(Punching(q)') = Cardinality(Punching(q)) + 1
          /\ Cardinality(Holding(q)') = Cardinality(Holding(q)) + 1
      <4> HIDE DEF Punching, Holding
      <4> QED
        BY <1>1, <1>2, <3>2, TapCounts, Sizes DEF One
    <3>4. uses[q] \in Nat /\ uses'[q] = uses[q] /\ faults' = faults
      BY <1>1, <1>2, Counts
    <3> QED
      BY <1>2, <3>1, <3>3, <3>4, Sizes DEF Ration, Rationed, Passed
  <2> QED
    BY <2>2, <2>3
<1>4. \A u \in Taps : tap'[u] # Idle /\ tap'[u].pc \in {"create", "gate"} => tap'[u].id = Null
  BY <1>1 DEF Rationed, Others
<1> QED
  BY <1>1, <1>3, <1>4 DEF Rationed

\* Spent, the request has let through at most what was granted so far; not spent for a failure,
\* the tap may come again.
LEMMA RationConsume ==
    ASSUME Finite, Rationed, NEW t \in Taps, PunchConsume(t)
    PROVE  Rationed'
<1>0. PICK c : c = tap[t].id
  OBVIOUS
<1>1. /\ Types' /\ Others(t) /\ UNCHANGED <<uses, deciding>> /\ Ids' = Ids
      /\ tap[t] # Idle /\ tap[t].pc = "consume" /\ c \in Ids /\ c # Null
      /\ tap[t].kind \in {"in", "out"}
      /\ \A q \in Ids : q # c => reqs'[q] = reqs[q]
      /\ \/ /\ UNCHANGED faults
            /\ reqs'[c].status = IF tap[t].kind = "in" THEN "used" ELSE "cancelled"
         \/ faults' = faults + 1 /\ UNCHANGED reqs
      /\ tap[t].kind = "in" => tap'[t] = Idle
      /\ tap[t].kind = "out" => tap'[t].pc = "punch" /\ tap'[t].kind = "out" /\ tap'[t].id = c
  BY <1>0, ConsumeEffect DEF Rationed
<1>2. Types /\ Null \notin Ids /\ faults \in Nat /\ faults' \in Nat /\ faults' >= faults
  BY <1>1, AlphabetOf, Counts DEF Rationed
<1>3. Holds(t, c) /\ \A q : q # c => ~Holds(t, q) /\ ~Holds(t, q)'
  BY <1>0, <1>1 DEF Holds
<1>4. \A u \in Taps : tap'[u] # Idle /\ tap'[u].pc \in {"create", "gate"} => tap'[u].id = Null
  BY <1>1 DEF Rationed, Others
<1>5. \A q \in Ids : q # c => Ration(q)'
  BY <1>1, <1>2, <1>3, RationOthers
<1>6. Ration(c)'
  <2>1. reqs[c].status # "pending"
    BY <1>1, <1>3 DEF Rationed, Ration
  <2>2. /\ t \in Punching(c) <=> tap[t].kind = "out"
        /\ t \in Punching(c)' <=> tap[t].kind = "out"
        /\ t \in Holding(c) /\ t \notin Holding(c)'
    <3>1. tap[t].kind = "out" => tap'[t] # Idle
      BY <1>1 DEF Idle
    <3> QED
      BY <1>0, <1>1, <1>3, <3>1 DEF Punching, Holding, Holds
  <2>3. /\ Granted(c)' = Granted(c) /\ Earlier(c)' = Earlier(c)
        /\ Cardinality(Punching(c)') = Cardinality(Punching(c))
        /\ Cardinality(Holding(c)') = Cardinality(Holding(c)) - 1
    <3> HIDE DEF Punching, Holding
    <3> QED
      BY <1>1, <1>2, <2>2, TapCounts, Sizes DEF One
  <2>4. Passed(c)' = Passed(c) /\ Passed(c) \in Nat /\ Passed(c) <= Granted(c) + faults
    BY <1>1, <2>1, <2>3, Within DEF Passed
  <2>5. CASE /\ UNCHANGED faults
             /\ reqs'[c].status = IF tap[t].kind = "in" THEN "used" ELSE "cancelled"
    BY <2>3, <2>4, <2>5 DEF Ration
  <2>6. CASE faults' = faults + 1 /\ UNCHANGED reqs
    BY <1>1, <1>2, <2>1, <2>3, <2>4, <2>6, Sizes DEF Ration, Rationed
  <2> QED
    BY <1>1, <2>5, <2>6
<1> QED
  BY <1>1, <1>4, <1>5, <1>6 DEF Rationed

LEMMA RationPunch ==
    ASSUME Finite, Rationed, NEW t \in Taps, Punch(t)
    PROVE  Rationed'
<1>0. PICK c : c = tap[t].id
  OBVIOUS
<1>1. /\ Types' /\ Others(t) /\ UNCHANGED <<reqs, deciding, faults>> /\ Ids' = Ids
      /\ tap[t] # Idle /\ tap[t].pc = "punch"
      /\ \/ tap'[t] = Idle /\ UNCHANGED uses
         \/ /\ c \in Ids /\ c # Null
            /\ uses' = [uses EXCEPT ![c] = uses[c] + 1]
            /\ \/ tap'[t] = Idle /\ tap[t].kind = "out"
               \/ /\ tap'[t] # Idle /\ tap'[t].pc = "consume" /\ tap[t].kind = "in"
                  /\ tap'[t].kind = "in" /\ tap'[t].id = c
  BY <1>0, PunchEffect DEF Rationed, Ids
<1>2. /\ Types /\ Null \notin Ids /\ faults \in Nat /\ uses \in [1 .. MaxReqs -> Nat]
      /\ \A q \in Ids : q \in 1 .. MaxReqs
  BY AlphabetOf, Counts DEF Rationed, Types, TypeOK
<1>3. Holds(t, c) /\ \A q : q # c => ~Holds(t, q) /\ ~Holds(t, q)'
  BY <1>0, <1>1 DEF Holds
<1>4. \A u \in Taps : tap'[u] # Idle /\ tap'[u].pc \in {"create", "gate"} => tap'[u].id = Null
  BY <1>1 DEF Rationed, Others
<1>5. \A q \in 1 .. MaxReqs : q \notin Ids => uses'[q] = 0
  BY <1>1, <1>2 DEF Rationed
<1>6. ASSUME NEW q \in Ids, q # c PROVE Ration(q)'
  <2>1. uses'[q] = uses[q]
    BY <1>1, <1>2, <1>6
  <2> QED
    BY <1>1, <1>2, <1>3, <1>6, <2>1, RationOthers
<1>7. ASSUME c \in Ids PROVE Ration(c)'
  <2>1. reqs[c].status # "pending"
    BY <1>3, <1>7 DEF Rationed, Ration
  <2>2. /\ t \in Punching(c) /\ t \notin Punching(c)'
        /\ t \in Holding(c) <=> tap[t].kind # "out"
        /\ t \in Holding(c)' <=> tap'[t] # Idle
    BY <1>1, <1>3 DEF Punching, Holding, Holds
  <2>3. /\ Granted(c)' = Granted(c) /\ Earlier(c)' = Earlier(c)
        /\ Cardinality(Punching(c)') = Cardinality(Punching(c)) - 1
        /\ Cardinality(Holding(c)') =
              Cardinality(Holding(c)) - One(t \in Holding(c)) + One(t \in Holding(c)')
    <3> HIDE DEF Punching, Holding
    <3> QED
      BY <1>1, <1>2, <2>2, TapCounts, Sizes DEF One
  <2>4. /\ Cardinality(Holding(c)) \in Nat /\ Cardinality(Punching(c)) \in Nat
        /\ Granted(c) \in Nat /\ Earlier(c) \in Int /\ uses[c] \in Nat
        /\ Passed(c) <= Granted(c) + faults
    BY <1>2, <1>7, <2>1, Sizes, Within
  <2>5. CASE tap'[t] = Idle /\ UNCHANGED uses
    <3>1. Passed(c)' = Passed(c) - 1 /\ Passed(c) \in Nat
      BY <2>3, <2>4, <2>5 DEF Passed
    <3>2. Cardinality(Holding(c)') \in Int /\ Cardinality(Holding(c)') >= Cardinality(Holding(c)) - 1
      BY <2>3, <2>4 DEF One
    <3> QED
      BY <1>1, <1>2, <1>7, <2>1, <2>3, <2>4, <3>1, <3>2 DEF Ration, Rationed
  <2>6. CASE /\ uses' = [uses EXCEPT ![c] = uses[c] + 1]
             /\ \/ tap'[t] = Idle /\ tap[t].kind = "out"
                \/ tap'[t] # Idle /\ tap[t].kind = "in"
    <3>1. uses'[c] = uses[c] + 1
      BY <1>2, <1>7, <2>6
    <3>2. Passed(c)' = Passed(c) /\ Passed(c) \in Nat
      BY <2>3, <2>4, <3>1 DEF Passed
    <3>3. t \in Holding(c) <=> t \in Holding(c)'
      BY <2>2, <2>6
    <3>4. Cardinality(Holding(c)') = Cardinality(Holding(c))
      <4> HIDE DEF Holding
      <4> QED
        BY <2>3, <2>4, <3>3 DEF One
    <3> QED
      BY <1>1, <1>2, <1>7, <2>1, <2>3, <2>4, <3>2, <3>4 DEF Ration, Rationed
  <2> QED
    BY <1>1, <2>5, <2>6
<1> QED
  BY <1>1, <1>4, <1>5, <1>6, <1>7 DEF Rationed

LEMMA RationWithdraw == ASSUME Finite, Rationed, Withdraw PROVE Rationed'
<1>1. /\ Types' /\ Ids' = Ids /\ UNCHANGED <<uses, tap, deciding, faults>>
      /\ \A q \in Ids : \/ reqs'[q].status = reqs[q].status
                        \/ reqs[q].status = "pending" /\ reqs'[q].status = "cancelled"
  BY WithdrawEffect DEF Rationed
<1>2. ASSUME NEW q \in Ids PROVE Ration(q)'
  <2>1. /\ Granted(q)' = Granted(q) /\ Earlier(q)' = Earlier(q)
        /\ Passed(q)' = Passed(q) /\ Holding(q)' = Holding(q)
    BY <1>1 DEF Granted, Earlier, Approvals, Writing, Passed, Punching, Holding, Holds
  <2>2. CASE reqs'[q].status = reqs[q].status
    BY <1>1, <2>1, <2>2 DEF Ration, Rationed, Holds
  <2>3. CASE reqs[q].status = "pending" /\ reqs'[q].status = "cancelled"
    <3>1. uses[q] = 0 /\ Punching(q) = {}
      BY <2>3 DEF Rationed, Ration, Punching
    <3>2. Passed(q) = 0 /\ faults \in Nat
      BY <3>1, FS_EmptySet, Counts DEF Passed, Rationed
    <3> QED
      BY <1>1, <2>1, <2>3, <3>2, Sizes DEF Ration
  <2> QED
    BY <1>1, <2>2, <2>3
<1> QED
  BY <1>1, <1>2 DEF Rationed

\* Only a pending request is loaded: of a decided one nobody becomes a writer again.
LEMMA RationLoad == ASSUME Finite, Rationed, NEW s \in Supervisors, DecideLoad(s) PROVE Rationed'
<1>1. /\ Types' /\ UNCHANGED <<reqs, uses, tap, faults>> /\ Ids' = Ids
      /\ deciding[s] = Null /\ deciding'[s] \in Ids /\ reqs[deciding'[s]].status = "pending"
      /\ \A r \in Supervisors : r # s => deciding'[r] = deciding[r]
  BY LoadEffect DEF Rationed, Ids, DecideLoad
<1>2. ASSUME NEW q \in Ids PROVE Ration(q)'
  <2>1. Passed(q)' = Passed(q) /\ Holding(q)' = Holding(q)
    BY <1>1 DEF Passed, Punching, Holding, Holds
  <2>2. CASE reqs[q].status = "pending"
    BY <1>1, <2>2 DEF Ration, Rationed, Holds
  <2>3. CASE reqs[q].status # "pending"
    <3>1. Writing(q)' = Writing(q)
      BY <1>1, <2>3, AlphabetOf DEF Writing, Rationed
    <3> QED
      BY <1>1, <2>1, <2>3, <3>1 DEF Ration, Rationed, Granted, Earlier, Approvals
  <2> QED
    BY <2>2, <2>3
<1> QED
  BY <1>1, <1>2 DEF Rationed

LEMMA RationDecide == ASSUME Finite, Rationed, NEW s \in Supervisors, DecideWrite(s) PROVE Rationed'
<1>0. PICK d : d = deciding[s]
  OBVIOUS
<1>1. /\ Types' /\ Ids' = Ids /\ UNCHANGED <<uses, tap, faults>>
      /\ d \in Ids /\ d # Null /\ deciding'[s] = Null
      /\ \A r \in Supervisors : r # s => deciding'[r] = deciding[r]
      /\ \A q \in Ids : q # d => reqs'[q] = reqs[q]
      /\ reqs'[d].status \in {"approved", "rejected"}
  BY <1>0, DecideEffect DEF Rationed
<1>2. Types
  BY DEF Rationed
<1>3. \A q : Passed(q)' = Passed(q) /\ Holding(q)' = Holding(q)
  BY <1>1 DEF Passed, Punching, Holding, Holds
<1>4. ASSUME NEW q \in Ids, q # d PROVE Ration(q)'
  <2>1. Granted(q)' = Granted(q) /\ Earlier(q)' = Earlier(q)
    BY <1>0, <1>1, <1>2, <1>4, WriterCounts
  <2> QED
    BY <1>1, <1>3, <1>4, <2>1 DEF Ration, Rationed, Holds
<1>5. Ration(d)'
  <2>1. Earlier(d)' = Granted(d) /\ Granted(d)' = Granted(d) + Cardinality(Taps)
    BY <1>0, <1>1, <1>2, WriterCounts
  <2>2. Passed(d) <= Granted(d) + faults /\ Passed(d) \in Nat /\ faults \in Nat
    <3>1. CASE reqs[d].status = "pending"
      <4>1. uses[d] = 0 /\ Punching(d) = {}
        BY <1>1, <3>1 DEF Rationed, Ration, Punching
      <4>2. Passed(d) = 0 /\ faults \in Nat
        BY <1>2, <4>1, FS_EmptySet, Counts DEF Passed
      <4> QED
        BY <4>2, Sizes
    <3>2. CASE reqs[d].status # "pending"
      BY <1>1, <3>2, Within
    <3> QED
      BY <3>1, <3>2
  <2> QED
    BY <1>1, <1>3, <2>1, <2>2, Sizes DEF Ration
<1> QED
  BY <1>1, <1>4, <1>5 DEF Rationed

\* A handler dies: its tap may come again, for one failure more.
LEMMA RationDies == ASSUME Finite, Rationed, Dies PROVE Rationed'
<1>1. /\ Types' /\ UNCHANGED <<reqs, uses>> /\ faults' = faults + 1 /\ Ids' = Ids /\ Types
      /\ faults \in Nat /\ \A q \in Ids : uses[q] \in Nat
  BY DiesEffect, Counts DEF Rationed, Ids
<1>2. CASE \E t \in Taps : tap[t] # Idle /\ Return(t) /\ UNCHANGED deciding
  <2>1. PICK t \in Taps : tap[t] # Idle /\ Return(t) /\ UNCHANGED deciding
    BY <1>2
  <2>2. Others(t) /\ tap'[t] = Idle
    BY <1>1, <2>1, TapReturns
  <2>3. ASSUME NEW q \in Ids PROVE Ration(q)'
    <3>1. t \notin Punching(q)' /\ t \notin Holding(q)'
      BY <2>2 DEF Punching, Holding, Holds
    <3>2. /\ Granted(q)' = Granted(q) /\ Earlier(q)' = Earlier(q)
          /\ Cardinality(Punching(q)') <= Cardinality(Punching(q))
          /\ Cardinality(Punching(q)') \in Int
          /\ Cardinality(Holding(q)') \in Int
          /\ Cardinality(Holding(q)') >= Cardinality(Holding(q)) - 1
      <4> HIDE DEF Punching, Holding
      <4> QED
        BY <1>1, <2>1, <2>2, <3>1, TapCounts, Sizes DEF One
    <3>3. Passed(q)' <= Passed(q) /\ Passed(q)' \in Int /\ Passed(q) \in Int
      BY <1>1, <3>2, Sizes DEF Passed
    <3>4. (\A u \in Taps : ~Holds(u, q)) => \A u \in Taps : ~Holds(u, q)'
      BY <2>2 DEF Holds, Others
    <3> QED
      BY <1>1, <3>2, <3>3, <3>4, Sizes DEF Ration, Rationed
  <2>4. \A u \in Taps : tap'[u] # Idle /\ tap'[u].pc \in {"create", "gate"} => tap'[u].id = Null
    BY <2>2 DEF Rationed, Others
  <2> QED
    BY <1>1, <2>3, <2>4 DEF Rationed
<1>3. CASE \E s \in Supervisors : /\ deciding[s] # Null
                                  /\ deciding' = [deciding EXCEPT ![s] = Null]
                                  /\ UNCHANGED tap
  <2>1. PICK s \in Supervisors : /\ deciding[s] # Null
                                 /\ deciding' = [deciding EXCEPT ![s] = Null]
                                 /\ UNCHANGED tap
    BY <1>3
  <2>2. deciding'[s] = Null /\ \A r \in Supervisors : r # s => deciding'[r] = deciding[r]
    BY <1>1, <2>1 DEF Types, TypeOK
  <2>3. ASSUME NEW q \in Ids PROVE Ration(q)'
    <3>1. Passed(q)' = Passed(q) /\ Holding(q)' = Holding(q)
      BY <1>1, <2>1 DEF Passed, Punching, Holding, Holds
    <3>2. Passed(q) \in Nat
      BY <1>1, Sizes DEF Passed
    <3>3. Granted(q)' >= Granted(q) /\ Earlier(q)' >= Earlier(q)
          /\ Granted(q)' \in Int /\ Earlier(q)' \in Int
      BY <1>1, <2>1, <2>2, WriterCounts, Sizes
    <3> QED
      BY <1>1, <2>1, <3>1, <3>2, <3>3, Sizes DEF Ration, Rationed, Holds
  <2> QED
    BY <1>1, <2>1, <2>3 DEF Rationed
<1> QED
  BY <1>2, <1>3 DEF Dies

LEMMA RationRest == ASSUME Rationed, Tick \/ UNCHANGED vars PROVE Rationed'
<1>1. Types' /\ UNCHANGED <<reqs, uses, tap, deciding, faults>> /\ Ids' = Ids
  BY TickEffect DEF Rationed, Ids
<1> QED
  BY <1>1 DEF Rationed, Ration, Passed, Granted, Earlier, Approvals, Writing, Punching, Holding, Holds

LEMMA RationStep == ASSUME Finite PROVE Rationed /\ [Next]_vars => Rationed'
<1> SUFFICES ASSUME Rationed, [Next]_vars PROVE Rationed'
  OBVIOUS
<1> QED
  BY RationAsk, RationCreate, RationWithdraw, RationLoad, RationDecide, RationGate,
     RationConsume, RationPunch, RationDies, RationRest DEF Next

\* Whatever overlaps, a request lets at most one punch through for every tap and supervisor that
\* can hold it, and one more for each failure: a request that is used without end needs failures
\* without end.  One tap and one supervisor give OneUsePerApproval.
THEOREM UsesPerActor ==
    Finite => (Spec => [](\A q \in Ids :
        uses[q] <= Cardinality(Taps) * Cardinality(Supervisors) + faults))
<1> DEFINE Bounded == \A q \in Ids : uses[q] <= Cardinality(Taps) * Cardinality(Supervisors) + faults
<1> SUFFICES ASSUME Finite PROVE Spec => []Bounded
  OBVIOUS
<1>1. Rationed => Bounded
  <2> SUFFICES ASSUME Rationed, NEW q \in Ids
               PROVE  uses[q] <= Cardinality(Taps) * Cardinality(Supervisors) + faults
    OBVIOUS
  <2>1. uses[q] \in Nat /\ faults \in Nat
    BY Counts DEF Rationed
  <2>2. Cardinality(Taps) * Cardinality(Supervisors) \in Nat
    <3>1. \A m, n \in Nat : m * n \in Nat
      OBVIOUS
    <3> QED
      BY <3>1, Sizes
  <2>3. CASE reqs[q].status = "pending"
    BY <2>1, <2>2, <2>3 DEF Rationed, Ration
  <2>4. CASE reqs[q].status # "pending"
    BY <2>1, <2>2, <2>4, Within, Sizes DEF Passed
  <2> QED
    BY <2>3, <2>4
<1>2. Rationed /\ [Next]_vars => Rationed'
  BY RationStep
<1> HIDE DEF Bounded
<1> QED
  BY <1>1, <1>2, InitRation, PTL DEF Spec
=============================================================================
