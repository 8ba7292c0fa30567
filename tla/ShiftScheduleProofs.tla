-------------------------- MODULE ShiftScheduleProofs --------------------------
(***************************************************************************)
(* The shift schedule: its types, and what is left of "a guard can't be two places at   *)
(* once" when transactions overlap.  A transaction inserts what it found free when it    *)
(* began, beside the rows it has destroyed; no row of the guard has come in between     *)
(* unless another transaction of the same guard was in flight, and then the guard is in *)
(* "crossed".  That holds for all requests.  Where requests that create or delete        *)
(* assignments come one at a time, and nothing has failed, such a guard has an ad hoc   *)
(* row among the two, nothing stale is left once all is quiet, and nothing is missing   *)
(* but for the reasons named with NothingMissing.                                       *)
(***************************************************************************)
EXTENDS ShiftSchedule, TLAPS

Early == {"idle", "checked", "generating", "ended", "emptied"}

\* What a request on its way has noted.
Noted ==
    \A q \in Requests :
        /\ request[q].pc \in Early => request[q].station = Null
        /\ request[q].pc = "checked" => request[q].post # Null
        /\ request[q].pc \in {"ended", "emptied"} =>
              request[q].assignment # Null /\ post[request[q].assignment] # Null

\* A run goes on only while somebody waits for it.
Awaited ==
    \A st \in Stations : run[st].pc # "none" =>
        \E q \in Requests : request[q].pc = "waiting" /\ request[q].station = st

\* The calls of a station are those of its pass.
Owned == \A g \in generation : g.owner \in Stations => run[g.owner].pc = "pass"

\* Transactions in flight are of different assignments, and of different positions; of one
\* guard, he is known to be crossed.
Differ(g, h) == /\ g.assignment # h.assignment
                /\ post[g.assignment].position = Null
                   \/ post[g.assignment].position # post[h.assignment].position
Apart    == \A g, h \in Open : g # h => Differ(g, h)
Crossing == \A g, h \in Open : g # h /\ GuardOf(g) = GuardOf(h) => GuardOf(g) \in crossed

\* A transaction inserts what is free, but for the rows it has destroyed.
FreeFor(g) ==
    /\ g.pc = "commit" /\ g.slot # Null
    /\ GuardOf(g) \notin crossed =>
          \A s \in Live : s.guard = GuardOf(g) /\ Clash(s.slot, g.slot) => s \in g.purge
Free == \A g \in generation : g.insert => FreeFor(g)

Booking == \A s, t \in Live : s # t /\ s.guard = t.guard /\ Clash(s.slot, t.slot) => s.guard \in crossed

Types == TypeOK /\ Noted
Books == Apart /\ Crossing /\ Free /\ Booking
Base  == Types /\ Books /\ Awaited /\ Owned

\* Assignments keep their guard, place and position.
PostsKeep == \A b \in Assignments : post[b] # Null =>
    /\ post'[b] # Null /\ post'[b].guard = post[b].guard
    /\ post'[b].station = post[b].station /\ post'[b].position = post[b].position

Pcs == {"idle", "written", "waiting", "checked", "generating", "ended", "emptied", "done"}

LEMMA InitBase == Init => Base
<1> SUFFICES ASSUME Init PROVE Base
  OBVIOUS
<1>1. NotMade \in Request /\ NoRun \in Run
  BY DEF NotMade, Request, NoRun, Run
<1>2. TypeOK
  BY <1>1, ScheduleAssumption DEF Init, TypeOK
<1>3. \A q \in Requests : request[q] = NotMade
  BY DEF Init
<1>4. Noted
  BY <1>3 DEF Noted, NotMade
<1>5. Awaited /\ Owned
  BY DEF Init, Awaited, NoRun, Owned
<1>6. Books
  BY DEF Init, Books, Apart, Crossing, Open, Free, Booking, Live
<1> QED
  BY <1>2, <1>4, <1>5, <1>6 DEF Base, Types

-----------------------------------------------------------------------------
(* Records updated field by field *)

LEMMA RequestWithStation ==
    ASSUME NEW r \in Request, NEW pc \in Pcs, NEW st \in Stations \cup {Null}
    PROVE  [r EXCEPT !.pc = pc, !.station = st] =
              [pc |-> pc, station |-> st, post |-> r.post, assignment |-> r.assignment]
<1> DEFINE n == [r EXCEPT !.pc = pc]
<1>1. n = [pc |-> pc, station |-> r.station, post |-> r.post, assignment |-> r.assignment]
  BY DEF Request
<1>2. [n EXCEPT !.station = st] = [pc |-> pc, station |-> st, post |-> r.post, assignment |-> r.assignment]
  <2> HIDE DEF n
  <2> QED
    BY <1>1
<1> QED
  BY <1>2, Zenon

LEMMA RequestWithPost ==
    ASSUME NEW r \in Request, NEW pc \in Pcs, NEW x
    PROVE  [r EXCEPT !.pc = pc, !.post = x] =
              [pc |-> pc, station |-> r.station, post |-> x, assignment |-> r.assignment]
<1> DEFINE n == [r EXCEPT !.pc = pc]
<1>1. n = [pc |-> pc, station |-> r.station, post |-> r.post, assignment |-> r.assignment]
  BY DEF Request
<1>2. [n EXCEPT !.post = x] = [pc |-> pc, station |-> r.station, post |-> x, assignment |-> r.assignment]
  <2> HIDE DEF n
  <2> QED
    BY <1>1
<1> QED
  BY <1>2, Zenon

LEMMA RequestWithAssignment ==
    ASSUME NEW r \in Request, NEW pc \in Pcs, NEW a
    PROVE  [r EXCEPT !.pc = pc, !.assignment = a] =
              [pc |-> pc, station |-> r.station, post |-> r.post, assignment |-> a]
<1> DEFINE n == [r EXCEPT !.pc = pc]
<1>1. n = [pc |-> pc, station |-> r.station, post |-> r.post, assignment |-> r.assignment]
  BY DEF Request
<1>2. [n EXCEPT !.assignment = a] = [pc |-> pc, station |-> r.station, post |-> r.post, assignment |-> a]
  <2> HIDE DEF n
  <2> QED
    BY <1>1
<1> QED
  BY <1>2, Zenon

LEMMA RequestWithPc ==
    ASSUME NEW r \in Request, NEW pc \in Pcs
    PROVE  [r EXCEPT !.pc = pc] =
              [pc |-> pc, station |-> r.station, post |-> r.post, assignment |-> r.assignment]
BY DEF Request

LEMMA RequestParts ==
    ASSUME NEW r \in Request
    PROVE  /\ r.pc \in Pcs /\ r.station \in Stations \cup {Null} /\ r.post \in Post \cup {Null}
           /\ r.assignment \in Assignments \cup {Null}
BY DEF Request, Pcs

LEMMA CallWithSlot ==
    ASSUME NEW g \in Call, NEW pc, NEW x
    PROVE  [g EXCEPT !.pc = pc, !.slot = x] =
              [assignment |-> g.assignment, owner |-> g.owner, pc |-> pc, slot |-> x,
               insert |-> g.insert, purge |-> g.purge]
<1> DEFINE n == [g EXCEPT !.pc = pc]
<1>1. n = [assignment |-> g.assignment, owner |-> g.owner, pc |-> pc, slot |-> g.slot,
           insert |-> g.insert, purge |-> g.purge]
  BY DEF Call
<1>2. [n EXCEPT !.slot = x] = [assignment |-> g.assignment, owner |-> g.owner, pc |-> pc, slot |-> x,
                               insert |-> g.insert, purge |-> g.purge]
  <2> HIDE DEF n
  <2> QED
    BY <1>1
<1> QED
  BY <1>2, Zenon

LEMMA CallWithInsert ==
    ASSUME NEW g \in Call, NEW pc, NEW b, NEW P
    PROVE  [g EXCEPT !.pc = pc, !.insert = b, !.purge = P] =
              [assignment |-> g.assignment, owner |-> g.owner, pc |-> pc, slot |-> g.slot,
               insert |-> b, purge |-> P]
<1> DEFINE n == [g EXCEPT !.pc = pc]
           m == [n EXCEPT !.insert = b]
<1>1. n = [assignment |-> g.assignment, owner |-> g.owner, pc |-> pc, slot |-> g.slot,
           insert |-> g.insert, purge |-> g.purge]
  BY DEF Call
<1>2. m = [assignment |-> g.assignment, owner |-> g.owner, pc |-> pc, slot |-> g.slot,
           insert |-> b, purge |-> g.purge]
  <2> HIDE DEF n
  <2> QED
    BY <1>1
<1>3. [m EXCEPT !.purge = P] = [assignment |-> g.assignment, owner |-> g.owner, pc |-> pc,
                                 slot |-> g.slot, insert |-> b, purge |-> P]
  <2> HIDE DEF n, m
  <2> QED
    BY <1>2
<1> QED
  BY <1>3, Zenon

\* One request moves to a new record.
Moved(q, r) ==
    /\ request' \in [Requests -> Request] /\ request'[q] = r
    /\ \A p \in Requests : p # q => request'[p] = request[p]

LEMMA RequestMoves ==
    ASSUME NEW q \in Requests, NEW r \in Request, request \in [Requests -> Request],
           request' = [request EXCEPT ![q] = r]
    PROVE  Moved(q, r)
BY DEF Moved

LEMMA PcMoves ==
    ASSUME NEW q \in Requests, NEW pc \in Pcs, request \in [Requests -> Request],
           request' = [request EXCEPT ![q].pc = pc]
    PROVE  Moved(q, [pc |-> pc, station |-> request[q].station, post |-> request[q].post,
                     assignment |-> request[q].assignment])
<1> DEFINE r == [request[q] EXCEPT !.pc = pc]
           s == [pc |-> pc, station |-> request[q].station, post |-> request[q].post,
                 assignment |-> request[q].assignment]
<1>1. request[q] \in Request
  OBVIOUS
<1>2. r = s
  BY <1>1, RequestWithPc
<1>3. s \in Request
  <2> DEFINE o == request[q]
  <2>1. o.station \in Stations \cup {Null} /\ o.post \in Post \cup {Null}
        /\ o.assignment \in Assignments \cup {Null}
    BY <1>1, RequestParts
  <2> HIDE DEF o
  <2>2. [pc |-> pc, station |-> o.station, post |-> o.post, assignment |-> o.assignment] \in Request
    BY <2>1 DEF Request, Pcs
  <2> QED
    BY <2>2 DEF o
<1>4. request' = [request EXCEPT ![q] = r]
  OBVIOUS
<1> HIDE DEF r, s
<1>5. Moved(q, s)
  BY <1>2, <1>3, <1>4, RequestMoves
<1> QED
  BY <1>5 DEF s

-----------------------------------------------------------------------------
(* Steps that begin no transaction and insert nothing *)

LEMMA Basics ==
    ASSUME Base
    PROVE  /\ turno \in [Positions -> Slots \cup {Null}] /\ post \in [Assignments -> Post \cup {Null}]
           /\ shifts \subseteq Shift /\ run \in [Stations -> Run] /\ generation \subseteq Call
           /\ request \in [Requests -> Request] /\ crossed \subseteq Guards /\ faults \in 0 .. MaxFaults
           /\ Null \notin Stations /\ Null \notin Requests /\ Stations \cap Requests = {}
BY ScheduleAssumption DEF Base, Types, TypeOK

LEMMA CallParts ==
    ASSUME Base, NEW g \in generation
    PROVE  /\ g \in Call /\ g.assignment \in Assignments /\ post[g.assignment] # Null
           /\ g.owner \in Stations \cup Requests \cup {Null}
           /\ g.pc \in {"compute", "begin", "commit"} /\ g.slot \in Slots \cup {Null}
           /\ g.insert \in BOOLEAN /\ g.purge \in SUBSET Shift
BY DEF Base, Types, TypeOK, Call

\* The transactions in flight stay, or end; rows are only taken away.
LEMMA BooksStay ==
    ASSUME Base, PostsKeep, UNCHANGED crossed, \A s \in Live' : s \in Live,
           \A k \in generation' : k.pc = "commit" \/ k.insert => k \in generation
    PROVE  Books'
<1>1. \A k \in generation' : k.pc = "commit" \/ k.insert =>
         /\ k \in generation /\ GuardOf(k)' = GuardOf(k)
         /\ post'[k.assignment].position = post[k.assignment].position
  BY CallParts DEF PostsKeep, GuardOf
<1>2. \A k \in Open' : k \in Open
  BY DEF Open
<1>3. Apart'
  BY <1>1, <1>2 DEF Base, Books, Apart, Differ, Open
<1>4. Crossing'
  BY <1>1, <1>2 DEF Base, Books, Crossing, Open
<1>5. Free'
  BY <1>1 DEF Base, Books, Free, FreeFor
<1>6. Booking'
  BY DEF Base, Books, Booking
<1> QED
  BY <1>3, <1>4, <1>5, <1>6 DEF Books

\* Where assignments are as they were.
LEMMA SamePosts == ASSUME Base, UNCHANGED post PROVE PostsKeep
BY DEF PostsKeep

LEMMA FaultsType ==
    ASSUME Base, faults < MaxFaults, faults' = faults + 1
    PROVE  faults' \in 0 .. MaxFaults
<1>1. faults \in 0 .. MaxFaults /\ MaxFaults \in Nat
  BY Basics, ScheduleAssumption
<1> QED
  BY <1>1

\* One call moves to a new record, and is in no transaction.
LEMMA CallMoves ==
    ASSUME Base, NEW g \in generation, NEW h \in Call, h.assignment = g.assignment, h.owner = g.owner,
           Become(g, h), UNCHANGED <<rows, run, request, crossed>>, faults' \in 0 .. MaxFaults,
           ~h.insert, h.pc # "commit"
    PROVE  Base'
<1>1. generation' = (generation \ {g}) \cup {h} /\ UNCHANGED <<turno, post, shifts, run, request, crossed>>
  BY DEF Become, rows
<1>2. Types'
  BY <1>1, CallParts DEF Base, Types, TypeOK, Noted
<1>3. Awaited' /\ Owned'
  BY <1>1 DEF Base, Awaited, Owned
<1>4. \A k \in generation' : k.pc = "commit" \/ k.insert => k \in generation
  BY <1>1
<1>5. \A s \in Live' : s \in Live
  BY <1>1 DEF Live
<1>6. Books'
  BY <1>1, <1>4, <1>5, SamePosts, BooksStay
<1> QED
  BY <1>2, <1>3, <1>6 DEF Base

LEMMA ComputeStep == ASSUME Base, NEW g \in generation, Compute(g) PROVE Base'
<1>0. g \in Call
  BY CallParts
<1> DEFINE h == [assignment |-> g.assignment, owner |-> g.owner, pc |-> "begin",
                 slot |-> SlotOf(g.assignment), insert |-> g.insert, purge |-> g.purge]
<1>1. Become(g, h)
  <2>1. [g EXCEPT !.pc = "begin", !.slot = SlotOf(g.assignment)] = h
    BY <1>0, CallWithSlot
  <2> QED
    BY <2>1 DEF Compute
<1>2. SlotOf(g.assignment) \in Slots \cup {Null}
  <2>1. post[g.assignment] \in Post
    BY Basics, CallParts
  <2> QED
    BY <2>1, Basics DEF SlotOf, Post
<1>3. h \in Call
  BY <1>2, CallParts DEF Call
<1>4. ~g.insert
  BY DEF Compute, Base, Books, Free, FreeFor
<1>5. h.assignment = g.assignment /\ h.owner = g.owner /\ ~h.insert /\ h.pc # "commit"
  BY <1>4
<1>6. UNCHANGED <<rows, run, request, crossed, faults>> /\ faults \in 0 .. MaxFaults
  BY Basics DEF Compute
<1> HIDE DEF h
<1> QED
  BY <1>1, <1>3, <1>5, <1>6, CallMoves

LEMMA RetryStep == ASSUME Base, NEW g \in generation, Retry(g) PROVE Base'
<1>0. g \in Call
  BY CallParts
<1> DEFINE h == [assignment |-> g.assignment, owner |-> g.owner, pc |-> "begin",
                 slot |-> g.slot, insert |-> FALSE, purge |-> {}]
<1>1. Become(g, h)
  <2>1. [g EXCEPT !.pc = "begin", !.insert = FALSE, !.purge = {}] = h
    BY <1>0, CallWithInsert
  <2> QED
    BY <2>1 DEF Retry
<1>2. h \in Call
  BY CallParts DEF Call
<1>3. h.assignment = g.assignment /\ h.owner = g.owner /\ ~h.insert /\ h.pc # "commit"
  OBVIOUS
<1>4. UNCHANGED <<rows, run, request, crossed>> /\ faults' \in 0 .. MaxFaults
  BY FaultsType DEF Retry
<1> HIDE DEF h
<1> QED
  BY <1>1, <1>2, <1>3, <1>4, CallMoves

\* A run that goes into its next pass keeps its callers; one that ends answers them.
LEMMA NextPassStep ==
    ASSUME Base, NEW st \in Stations, run[st].pc # "none", NextPass(st)
    PROVE  /\ run' \in [Stations -> Run] /\ request' \in [Requests -> Request]
           /\ \A q \in Requests : request'[q] = request[q]
                 \/ (request[q].pc = "waiting" /\ request'[q].pc = "done")
           /\ Awaited'
<1>0. run \in [Stations -> Run] /\ request \in [Requests -> Request] /\ Awaited
  BY DEF Base, Types, TypeOK
<1>1. CASE run[st].dirty
  <2> DEFINE r == [pc |-> "load", dirty |-> FALSE]
  <2>1. run' = [run EXCEPT ![st] = r] /\ request' = request
    BY <1>1 DEF NextPass
  <2>2. r \in Run
    BY DEF Run
  <2> HIDE DEF r
  <2>3. run' \in [Stations -> Run] /\ \A u \in Stations : u # st => run'[u] = run[u]
    BY <1>0, <2>1, <2>2
  <2>4. \A u \in Stations : run'[u].pc # "none" => run[u].pc # "none"
    BY <2>3
  <2>5. Awaited'
    BY <1>0, <2>1, <2>4 DEF Awaited
  <2>6. \A q \in Requests : request'[q] = request[q]
    BY <2>1
  <2> QED
    BY <1>0, <2>1, <2>3, <2>5, <2>6
<1>2. CASE ~run[st].dirty
  <2>1. /\ run' = [run EXCEPT ![st] = NoRun]
        /\ request' = [q \in Requests |->
               IF request[q].pc = "waiting" /\ request[q].station = st
               THEN [request[q] EXCEPT !.pc = "done"] ELSE request[q]]
    BY <1>2 DEF NextPass
  <2>2. NoRun \in Run /\ NoRun.pc = "none"
    BY DEF NoRun, Run
  <2>3. \A q \in Requests : [request[q] EXCEPT !.pc = "done"] \in Request
                             /\ [request[q] EXCEPT !.pc = "done"].pc = "done"
    <3> TAKE q \in Requests
    <3>1. request[q] \in Request
      BY <1>0
    <3> QED
      BY <3>1 DEF Request
  <2>4. run' \in [Stations -> Run] /\ run'[st] = NoRun /\ \A u \in Stations : u # st => run'[u] = run[u]
    BY <1>0, <2>1, <2>2
  <2>5. \A q \in Requests : request'[q] =
           IF request[q].pc = "waiting" /\ request[q].station = st
           THEN [request[q] EXCEPT !.pc = "done"] ELSE request[q]
    BY <2>1
  <2>6. /\ request' \in [Requests -> Request]
        /\ \A q \in Requests : request'[q] = request[q]
              \/ (request[q].pc = "waiting" /\ request[q].station = st /\ request'[q].pc = "done")
    <3>1. DOMAIN request' = Requests /\ \A q \in Requests : request[q] \in Request
      BY <1>0, <2>1
    <3>2. \A q \in Requests : request'[q] \in Request
      BY <2>3, <2>5, <3>1
    <3>3. request' = [q \in Requests |-> request'[q]]
      BY <2>1
    <3>4. request' \in [Requests -> Request]
      BY <3>2, <3>3
    <3> QED
      BY <2>3, <2>5, <3>4
  <2>7. Awaited'
    BY <1>0, <2>2, <2>4, <2>6 DEF Awaited
  <2> QED
    BY <2>4, <2>6, <2>7
<1> QED
  BY <1>1, <1>2


-----------------------------------------------------------------------------
(* A transaction begins, commits, or fails *)

\* It begins beside others of other assignments and positions, and knows the rows there are.
LEMMA BeginStep == ASSUME Base, NEW g \in generation, Begin(g) PROVE Base'
<1>0. g \in Call
  BY CallParts
<1> DEFINE a == g.assignment
           found == g.slot # Null /\ Conflicts(a, g.slot) = {}
           h == [assignment |-> a, owner |-> g.owner, pc |-> "commit", slot |-> g.slot,
                 insert |-> found, purge |-> Purged(a)]
<1>1. generation' = (generation \ {g}) \cup {h}
  <2>1. [g EXCEPT !.pc = "commit", !.insert = found, !.purge = Purged(a)] = h
    BY <1>0, CallWithInsert
  <2> QED
    BY <2>1 DEF Begin, Become
<1>2. /\ g.pc = "begin" /\ \A k \in Open : k.assignment # a /\ (post[k.assignment].position = Null
                              \/ post[k.assignment].position # post[a].position)
      /\ crossed' = IF \E k \in Open : GuardOf(k) = GuardOf(g) THEN crossed \cup {GuardOf(g)} ELSE crossed
      /\ UNCHANGED <<turno, post, shifts, run, request, faults>>
  BY DEF Begin, rows
<1>3. h \in Call
  <2>1. Purged(a) \in SUBSET Shift
    BY Basics DEF Purged
  <2> QED
    BY <2>1, CallParts DEF Call
<1>4. /\ h.assignment = a /\ h.owner = g.owner /\ h.pc = "commit" /\ h.slot = g.slot
      /\ h.insert = found /\ h.purge = Purged(a)
  OBVIOUS
<1> HIDE DEF h
<1>5. GuardOf(h) = GuardOf(g) /\ GuardOf(g) \in Guards
  <2>1. post[a] \in Post
    BY Basics, CallParts
  <2> QED
    BY <1>4, <2>1 DEF GuardOf, Post
<1>6. Types'
  <2>1. generation' \subseteq Call /\ \A k \in generation' : post[k.assignment] # Null
    BY <1>1, <1>3, <1>4, CallParts
  <2>2. crossed' \subseteq Guards
    BY <1>2, <1>5, Basics
  <2> QED
    BY <1>2, <2>1, <2>2 DEF Base, Types, TypeOK, Noted
<1>7. Awaited' /\ Owned'
  BY <1>1, <1>2, <1>4 DEF Base, Awaited, Owned
<1>8. \A k \in Open' : k = h \/ k \in Open
  BY <1>1 DEF Open
<1>9. Apart'
  <2>1. \A k \in Open : Differ(k, h) /\ Differ(h, k)
    BY <1>2, <1>4 DEF Differ
  <2> QED
    BY <1>2, <1>8, <2>1 DEF Base, Books, Apart, Differ
<1>10. \A k : GuardOf(k)' = GuardOf(k)
  BY <1>2 DEF GuardOf
<1>11. Crossing'
  BY <1>2, <1>5, <1>8, <1>10 DEF Base, Books, Crossing
<1>12. Live' = Live
  BY <1>2 DEF Live
<1>13. Free'
  <2> SUFFICES ASSUME NEW k \in generation', k.insert PROVE FreeFor(k)'
    BY DEF Free
  <2>1. CASE k \in generation
    BY <1>2, <1>10, <1>12, <2>1 DEF Base, Books, Free, FreeFor
  <2>2. CASE k = h
    <3>1. g.slot # Null /\ Conflicts(a, g.slot) = {}
      BY <1>4, <2>2
    <3>2. \A s \in Live : s.guard = post[a].guard /\ Clash(s.slot, g.slot) => s \in Purged(a)
      <4> SUFFICES ASSUME NEW s \in Live, s.guard = post[a].guard, Clash(s.slot, g.slot), s \notin Purged(a)
                   PROVE  FALSE
        OBVIOUS
      <4>1. s.assignment # a
        BY DEF Live, Purged, Purges
      <4> QED
        BY <3>1, <4>1 DEF Conflicts, Live
    <3> QED
      BY <1>4, <1>10, <1>12, <2>2, <3>1, <3>2 DEF FreeFor, GuardOf
  <2> QED
    BY <1>1, <2>1, <2>2
<1>14. Booking'
  BY <1>2, <1>12 DEF Base, Books, Booking
<1> QED
  BY <1>6, <1>7, <1>9, <1>11, <1>13, <1>14 DEF Base, Books

\* The row that is inserted clashes with none that is kept, nor, unless the guard is crossed,
\* is it in the way of another transaction of his.
LEMMA CommitStep == ASSUME Base, NEW g \in generation, Commit(g) PROVE Base'
<1> DEFINE kept == shifts \ g.purge
           row == RowOf(g)
<1>1. /\ g.pc = "commit" /\ generation' = generation \ {g}
      /\ shifts' = kept \/ (g.insert /\ shifts' = kept \cup {row})
      /\ UNCHANGED <<turno, post, run, request, crossed, faults>>
  BY DEF Commit
<1>2. g.insert => FreeFor(g)
  BY DEF Base, Books, Free
<1>3. row.assignment = g.assignment /\ row.guard = GuardOf(g) /\ row.slot = g.slot
  BY DEF RowOf, RowAt, GuardOf
<1>4. g.insert => row \in Shift
  <2>1. post[g.assignment] \in Post
    BY Basics, CallParts
  <2> QED
    BY <1>2, <2>1, CallParts DEF FreeFor, RowOf, RowAt, Shift, Post
<1> HIDE DEF row
<1>5. TypeOK'
  <2>1. shifts' \subseteq Shift
    BY <1>1, <1>4, Basics
  <2>2. \A s \in shifts' : post[s.assignment] # Null /\ post[s.assignment].guard = s.guard
    <3> SUFFICES ASSUME NEW s \in shifts' PROVE post[s.assignment] # Null /\ post[s.assignment].guard = s.guard
      OBVIOUS
    <3>1. CASE s \in shifts
      BY <3>1 DEF Base, Types, TypeOK
    <3>2. CASE s = row
      BY <1>3, <3>2, CallParts DEF GuardOf
    <3> QED
      BY <1>1, <3>1, <3>2
  <2> QED
    BY <1>1, <2>1, <2>2 DEF Base, Types, TypeOK
<1>6. Noted' /\ Awaited' /\ Owned'
  BY <1>1 DEF Base, Types, Noted, Awaited, Owned
<1>7. \A s \in Live' : (s \in Live /\ s \notin g.purge) \/ (s = row /\ g.insert)
  BY <1>1 DEF Live
<1>8. \A k : GuardOf(k)' = GuardOf(k)
  BY <1>1 DEF GuardOf
<1>9. Apart' /\ Crossing'
  BY <1>1, <1>8 DEF Base, Books, Apart, Differ, Crossing, Open
<1>10. ASSUME g.insert, GuardOf(g) \notin crossed
       PROVE  \A s \in Live : s.guard = GuardOf(g) /\ s \notin g.purge =>
                 ~Clash(s.slot, row.slot) /\ ~Clash(row.slot, s.slot)
  <2>1. \A x, y : Clash(x, y) => Clash(y, x)
    BY DEF Clash
  <2> QED
    BY <1>2, <1>3, <1>10, <2>1 DEF FreeFor
<1>11. Free'
  <2> SUFFICES ASSUME NEW k \in generation, k # g, k.insert PROVE FreeFor(k)'
    BY <1>1 DEF Free
  <2>1. FreeFor(k)
    BY DEF Base, Books, Free
  <2>2. GuardOf(k) = GuardOf(g) => GuardOf(k) \in crossed
    BY <1>1, <2>1 DEF Base, Books, Crossing, Open, FreeFor
  <2> QED
    BY <1>1, <1>3, <1>7, <1>8, <2>1, <2>2 DEF FreeFor
<1>12. Booking'
  <2> SUFFICES ASSUME NEW s \in Live', NEW t \in Live', s # t, s.guard = t.guard, Clash(s.slot, t.slot),
                      s.guard \notin crossed
               PROVE  FALSE
    BY <1>1 DEF Booking
  <2>1. CASE s \in Live /\ t \in Live
    BY <2>1 DEF Base, Books, Booking
  <2>2. CASE s = row /\ g.insert /\ t \in Live /\ t \notin g.purge
    BY <1>3, <1>10, <2>2
  <2>3. CASE t = row /\ g.insert /\ s \in Live /\ s \notin g.purge
    BY <1>3, <1>10, <2>3
  <2> QED
    BY <1>7, <2>1, <2>2, <2>3
<1> QED
  BY <1>5, <1>6, <1>9, <1>11, <1>12 DEF Base, Types, Books


LEMMA FailStep == ASSUME Base, NEW g \in generation, Fail(g) PROVE Base'
<1>0. UNCHANGED <<turno, post, shifts, crossed>> /\ faults' \in 0 .. MaxFaults
  BY FaultsType DEF Fail, rows
<1>1. Live' = Live /\ \A k : GuardOf(k)' = GuardOf(k)
  BY <1>0 DEF Live, GuardOf
<1>2. CASE g.owner \notin Stations
  <2>1. generation' = generation \ {g} /\ UNCHANGED <<run, request>>
    BY <1>2 DEF Fail
  <2>2. Types' /\ Awaited' /\ Owned'
    BY <1>0, <2>1 DEF Base, Types, TypeOK, Noted, Awaited, Owned
  <2>3. Books'
    BY <1>0, <1>1, <2>1, SamePosts, BooksStay
  <2> QED
    BY <2>2, <2>3 DEF Base
<1>3. CASE g.owner \in Stations
  <2> DEFINE f(h) == IF h.owner = g.owner THEN [h EXCEPT !.owner = Null] ELSE h
  <2>1. generation' = {f(h) : h \in generation \ {g}} /\ NextPass(g.owner)
    BY <1>3 DEF Fail
  <2>2. \A h \in generation : /\ f(h) \in Call /\ f(h).assignment = h.assignment /\ f(h).slot = h.slot
                              /\ f(h).pc = h.pc /\ f(h).insert = h.insert /\ f(h).purge = h.purge
                              /\ f(h).owner \in Stations => f(h).owner = h.owner /\ h.owner # g.owner
                              /\ h.owner # g.owner => f(h) = h
    <3> TAKE h \in generation
    <3>1. h \in Call
      BY CallParts
    <3> QED
      BY <3>1, Basics DEF Call
  <2> HIDE DEF f
  <2>3. run[g.owner].pc # "none"
    BY <1>3 DEF Base, Owned
  <2>4. /\ run' \in [Stations -> Run] /\ request' \in [Requests -> Request] /\ Awaited'
        /\ \A q \in Requests : request'[q] = request[q]
              \/ (request[q].pc = "waiting" /\ request'[q].pc = "done")
    BY <1>3, <2>1, <2>3, NextPassStep
  <2>5. Noted'
    BY <1>0, <2>4 DEF Base, Types, Noted, Early
  <2>6. \A k \in generation' : \E h \in generation : k = f(h)
    BY <2>1
  <2>7. TypeOK'
    BY <1>0, <2>2, <2>4, <2>6 DEF Base, Types, TypeOK
  <2>8. Owned'
    <3>1. \A u \in Stations : u # g.owner => run'[u] = run[u]
      BY <1>3, <2>1, Basics DEF NextPass
    <3> QED
      BY <2>2, <2>6, <3>1 DEF Base, Owned
  <2>9. \A k, l \in Open' : k # l => \E h, i \in Open : h # i /\ k = f(h) /\ l = f(i)
    BY <2>2, <2>6 DEF Open
  <2>10. \A h \in generation : GuardOf(f(h)) = GuardOf(h)
    BY <2>2 DEF GuardOf
  <2>11. Apart'
    <3> SUFFICES ASSUME NEW k \in Open', NEW l \in Open', k # l PROVE Differ(k, l)'
      BY DEF Apart
    <3>1. PICK h \in Open, i \in Open : h # i /\ k = f(h) /\ l = f(i)
      BY <2>9
    <3>2. Differ(h, i) /\ k.assignment = h.assignment /\ l.assignment = i.assignment
      BY <2>2, <3>1 DEF Base, Books, Apart, Open
    <3> QED
      BY <1>0, <3>2 DEF Differ
  <2>12. Crossing'
    <3> SUFFICES ASSUME NEW k \in Open', NEW l \in Open', k # l, GuardOf(k) = GuardOf(l)
                 PROVE  GuardOf(k) \in crossed
      BY <1>0, <1>1 DEF Crossing
    <3>1. PICK h \in Open, i \in Open : h # i /\ k = f(h) /\ l = f(i)
      BY <2>9
    <3> QED
      BY <2>10, <3>1 DEF Base, Books, Crossing, Open
  <2>13. Free'
    <3> SUFFICES ASSUME NEW k \in generation', k.insert PROVE FreeFor(k)'
      BY DEF Free
    <3>1. PICK h \in generation : k = f(h)
      BY <2>6
    <3>2. /\ FreeFor(h) /\ GuardOf(k) = GuardOf(h)
          /\ k.pc = h.pc /\ k.slot = h.slot /\ k.purge = h.purge
      BY <2>2, <2>10, <3>1 DEF Base, Books, Free
    <3> QED
      BY <1>0, <1>1, <3>2 DEF FreeFor
  <2>14. Booking'
    BY <1>0, <1>1 DEF Base, Books, Booking
  <2> QED
    BY <2>4, <2>5, <2>7, <2>8, <2>11, <2>12, <2>13, <2>14 DEF Base, Types, Books
<1> QED
  BY <1>2, <1>3

-----------------------------------------------------------------------------
(* Requests and a station's run *)

LEMMA EditStep ==
    ASSUME Base, NEW q \in Requests, NEW p \in Positions, NEW slot \in Slots \cup {Null},
           EditPosition(q, p, slot)
    PROVE  Base'
<1> DEFINE r == [pc |-> "written", station |-> StationOf[p], post |-> request[q].post,
                 assignment |-> request[q].assignment]
<1>1. StationOf[p] \in Stations /\ request[q] \in Request
  BY Basics, ScheduleAssumption
<1>2. request[q].post \in Post \cup {Null} /\ request[q].assignment \in Assignments \cup {Null}
  BY <1>1, RequestParts
<1>3. [request[q] EXCEPT !.pc = "written", !.station = StationOf[p]] = r
  BY <1>1, RequestWithStation DEF Pcs
<1>4. request' = [request EXCEPT ![q] = [request[q] EXCEPT !.pc = "written", !.station = StationOf[p]]]
  BY DEF EditPosition
<1>5. r \in Request
  BY <1>1, <1>2 DEF Request
<1>6. r.pc = "written" /\ r.station # Null
  BY <1>1, Basics
<1> HIDE DEF r
<1>7. Moved(q, r)
  BY <1>3, <1>4, <1>5, Basics, RequestMoves
<1>8. /\ turno' = [turno EXCEPT ![p] = slot] /\ request[q].pc = "idle"
      /\ UNCHANGED <<post, shifts, run, generation, crossed, faults>>
  BY DEF EditPosition
<1>9. TypeOK'
  BY <1>7, <1>8, Basics DEF Base, Types, TypeOK, Moved
<1>10. Noted'
  BY <1>6, <1>7, <1>8 DEF Base, Types, Noted, Moved, Early
<1>11. Awaited' /\ Owned'
  BY <1>7, <1>8 DEF Base, Awaited, Owned, Moved
<1>12. Books'
  BY <1>8, SamePosts, BooksStay DEF Live
<1> QED
  BY <1>9, <1>10, <1>11, <1>12 DEF Base, Types

LEMMA JoinStep == ASSUME Base, NEW q \in Requests, JoinRun(q) PROVE Base'
<1> DEFINE st == request[q].station
           r  == [pc |-> "waiting", station |-> request[q].station, post |-> request[q].post,
                  assignment |-> request[q].assignment]
           u  == IF run[st].pc = "none" THEN [pc |-> "load", dirty |-> FALSE] ELSE Flagged(run[st])
<1>1. /\ request[q].pc = "written" /\ run' = [run EXCEPT ![st] = u]
      /\ UNCHANGED <<turno, post, shifts, generation, crossed, faults>>
  BY DEF JoinRun, rows
<1>2. Moved(q, r)
  BY Basics, PcMoves DEF JoinRun, Pcs
<1>3. request'[q].pc = "waiting" /\ request'[q].station = st
  BY <1>2 DEF Moved
<1>4. st \in Stations \cup {Null}
  BY Basics, RequestParts
<1>5. st \in Stations => u \in Run /\ (run[st].pc = "none" \/ u.pc = run[st].pc)
  <2> SUFFICES ASSUME st \in Stations PROVE u \in Run /\ (run[st].pc = "none" \/ u.pc = run[st].pc)
    OBVIOUS
  <2>1. run[st] \in Run
    BY Basics
  <2> QED
    BY <2>1 DEF Run, Flagged
<1> HIDE DEF u, r
<1>6. /\ run' \in [Stations -> Run] /\ \A v \in Stations : v # st => run'[v] = run[v]
      /\ st \in Stations => run[st].pc = "none" \/ run'[st].pc = run[st].pc
  BY <1>1, <1>4, <1>5, Basics
<1>7. TypeOK'
  BY <1>1, <1>2, <1>6 DEF Base, Types, TypeOK, Moved
<1>8. Noted'
  BY <1>1, <1>2, <1>3 DEF Base, Types, Noted, Moved, Early
<1>9. Awaited'
  BY <1>1, <1>2, <1>3, <1>6 DEF Base, Awaited, Moved
<1>10. Owned'
  BY <1>1, <1>6 DEF Base, Owned
<1>11. Books'
  BY <1>1, SamePosts, BooksStay DEF Live
<1> QED
  BY <1>7, <1>8, <1>9, <1>10, <1>11 DEF Base, Types

LEMMA LoadStep == ASSUME Base, NEW st \in Stations, LoadAssignments(st) PROVE Base'
<1> DEFINE B == {b \in Assignments : IsActive(b) /\ post[b].station = st}
           u == [run[st] EXCEPT !.pc = "pass"]
<1>1. /\ run[st].pc = "load" /\ run' = [run EXCEPT ![st] = u]
      /\ generation' = generation \cup {Called(a, st) : a \in B}
      /\ UNCHANGED <<turno, post, shifts, request, crossed, faults>>
  BY DEF LoadAssignments, rows
<1>2. u \in Run /\ u.pc = "pass"
  <2>1. run[st] \in Run
    BY Basics
  <2> QED
    BY <2>1 DEF Run
<1> HIDE DEF u
<1>3. /\ run' \in [Stations -> Run] /\ run'[st].pc = "pass"
      /\ \A v \in Stations : v # st => run'[v] = run[v]
  BY <1>1, <1>2, Basics
<1>4. \A a \in B : /\ Called(a, st) \in Call /\ post[Called(a, st).assignment] # Null
                   /\ Called(a, st).owner = st /\ Called(a, st).pc = "compute" /\ ~Called(a, st).insert
  BY DEF Called, Call, IsActive
<1> HIDE DEF B
<1>5. Types'
  BY <1>1, <1>3, <1>4 DEF Base, Types, TypeOK, Noted
<1>6. Awaited'
  BY <1>1, <1>3 DEF Base, Awaited
<1>7. Owned'
  BY <1>1, <1>3, <1>4 DEF Base, Owned
<1>8. Books'
  BY <1>1, <1>4, SamePosts, BooksStay DEF Live
<1> QED
  BY <1>5, <1>6, <1>7, <1>8 DEF Base

LEMMA EndStep == ASSUME Base, NEW st \in Stations, PassEnds(st) PROVE Base'
<1>1. /\ run[st].pc = "pass" /\ Calls(st) = {} /\ NextPass(st)
      /\ UNCHANGED <<turno, post, shifts, generation, crossed, faults>>
  BY DEF PassEnds, rows
<1>2. /\ run' \in [Stations -> Run] /\ request' \in [Requests -> Request] /\ Awaited'
      /\ \A q \in Requests : request'[q] = request[q]
            \/ (request[q].pc = "waiting" /\ request'[q].pc = "done")
  BY <1>1, NextPassStep
<1>3. \A u \in Stations : u # st => run'[u] = run[u]
  BY <1>1, Basics DEF NextPass
<1>4. Types'
  BY <1>1, <1>2 DEF Base, Types, TypeOK, Noted, Early
<1>5. Owned'
  BY <1>1, <1>3 DEF Base, Owned, Calls
<1>6. Books'
  BY <1>1, SamePosts, BooksStay DEF Live
<1> QED
  BY <1>2, <1>4, <1>5, <1>6 DEF Base

-----------------------------------------------------------------------------
(* Requests that create and delete assignments *)

LEMMA CreateStep ==
    ASSUME Base, NEW q \in Requests, NEW g \in Guards, NEW p \in Positions \cup {Null},
           NEW st \in Stations, NEW slot \in Slots \cup {Null}, Create(q, g, p, st, slot)
    PROVE  Base'
<1> DEFINE new == [status |-> "active", guard |-> g, station |-> st, position |-> p, slot |-> slot]
           r   == [pc |-> "checked", station |-> request[q].station, post |-> new,
                   assignment |-> request[q].assignment]
<1>1. /\ request[q].pc = "idle"
      /\ request' = [request EXCEPT ![q] = [request[q] EXCEPT !.pc = "checked", !.post = new]]
      /\ UNCHANGED <<turno, post, shifts, run, generation, crossed, faults>>
  BY DEF Create, rows
<1>2. new \in Post /\ new # Null
  <2>1. new \in Post
    BY DEF Post
  <2> QED
    BY <2>1, NullIsNoPost
<1> HIDE DEF new
<1>3. request[q] \in Request
  BY Basics
<1>4. request[q].station \in Stations \cup {Null} /\ request[q].assignment \in Assignments \cup {Null}
  BY <1>3, RequestParts
<1>5. [request[q] EXCEPT !.pc = "checked", !.post = new] = r
  BY <1>3, RequestWithPost DEF Pcs
<1>6. r \in Request
  BY <1>2, <1>4 DEF Request
<1>7. r.pc = "checked" /\ r.station = request[q].station /\ r.post = new
  OBVIOUS
<1> HIDE DEF r
<1>8. Moved(q, r)
  BY <1>1, <1>5, <1>6, Basics, RequestMoves
<1>9. TypeOK'
  BY <1>1, <1>8 DEF Base, Types, TypeOK, Moved
<1>10. Noted'
  BY <1>1, <1>2, <1>7, <1>8 DEF Base, Types, Noted, Moved, Early
<1>11. Awaited' /\ Owned'
  BY <1>1, <1>8 DEF Base, Awaited, Owned, Moved
<1>12. Books'
  BY <1>1, SamePosts, BooksStay DEF Live
<1> QED
  BY <1>9, <1>10, <1>11, <1>12 DEF Base, Types

\* Rows and requests refer to assignments that are there, and have the same guard.
LEMMA PostsStay ==
    ASSUME Base, PostsKeep
    PROVE  /\ \A s \in shifts : post'[s.assignment] # Null /\ post'[s.assignment].guard = s.guard
           /\ \A g \in generation : post'[g.assignment] # Null
           /\ \A q \in Requests : request[q].pc \in {"ended", "emptied"} =>
                 request[q].assignment # Null /\ post'[request[q].assignment] # Null
<1>1. \A s \in shifts : s.assignment \in Assignments /\ post[s.assignment] # Null
                        /\ post[s.assignment].guard = s.guard
  BY Basics DEF Shift, Base, Types, TypeOK
<1>2. \A q \in Requests : request[q].pc \in {"ended", "emptied"} =>
         request[q].assignment # Null /\ request[q].assignment \in Assignments
         /\ post[request[q].assignment] # Null
  BY Basics, RequestParts DEF Base, Types, Noted
<1> QED
  BY <1>1, <1>2, CallParts DEF PostsKeep

LEMMA InsertStep ==
    ASSUME Base, NEW q \in Requests, NEW a \in Assignments, Insert(q, a)
    PROVE  Base'
<1> DEFINE new == request[q].post
           r   == [pc |-> "generating", station |-> request[q].station, post |-> request[q].post,
                   assignment |-> request[q].assignment]
<1>1. /\ request[q].pc = "checked"
      /\ generation' = generation \cup {Called(a, q)}
      /\ UNCHANGED <<turno, shifts, run, crossed, faults>>
  BY DEF Insert
<1>2. Moved(q, r)
  BY Basics, PcMoves DEF Insert, Pcs
<1>3. r.pc = "generating" /\ r.station = request[q].station
  OBVIOUS
<1>4. new \in Post
  BY <1>1, Basics, RequestParts DEF Base, Types, Noted
<1>5. \/ post' = post /\ post[a] # Null
      \/ post[a] = Null /\ post' = [post EXCEPT ![a] = new]
  BY DEF Insert, Same, IsActive
<1> HIDE DEF r, new
<1>6. /\ post' \in [Assignments -> Post \cup {Null}] /\ post'[a] # Null
      /\ \A b \in Assignments : post[b] # Null => post'[b] = post[b]
  BY <1>4, <1>5, Basics, NullIsNoPost
<1>7. PostsKeep
  BY <1>6 DEF PostsKeep
<1>8. /\ Called(a, q) \in Call /\ Called(a, q).assignment = a /\ Called(a, q).owner = q
      /\ Called(a, q).pc = "compute" /\ ~Called(a, q).insert
  BY DEF Called, Call
<1>9. TypeOK'
  BY <1>1, <1>2, <1>6, <1>7, <1>8, PostsStay, Basics DEF TypeOK, Moved
<1>10. Noted'
  BY <1>1, <1>2, <1>3, <1>7, PostsStay DEF Base, Types, Noted, Moved, Early
<1>11. Awaited'
  BY <1>1, <1>2 DEF Base, Awaited, Moved
<1>12. Owned'
  BY <1>1, <1>8, Basics DEF Base, Owned
<1>13. Books'
  BY <1>1, <1>7, <1>8, BooksStay DEF Live
<1> QED
  BY <1>9, <1>10, <1>11, <1>12, <1>13 DEF Base, Types

LEMMA AnswerStep == ASSUME Base, NEW q \in Requests, Answer(q) PROVE Base'
<1> DEFINE r == [pc |-> "done", station |-> request[q].station, post |-> request[q].post,
                 assignment |-> request[q].assignment]
<1>1. request[q].pc = "generating" /\ UNCHANGED <<turno, post, shifts, run, generation, crossed, faults>>
  BY DEF Answer, rows
<1>2. Moved(q, r)
  BY Basics, PcMoves DEF Answer, Pcs
<1>3. r.pc = "done"
  OBVIOUS
<1> HIDE DEF r
<1>4. Types'
  BY <1>1, <1>2, <1>3 DEF Base, Types, TypeOK, Noted, Moved, Early
<1>5. Awaited' /\ Owned'
  BY <1>1, <1>2 DEF Base, Awaited, Owned, Moved
<1>6. Books'
  BY <1>1, SamePosts, BooksStay DEF Live
<1> QED
  BY <1>4, <1>5, <1>6 DEF Base

\* A status that is written keeps the rest of the assignment.
LEMMA StatusWritten ==
    ASSUME Base, NEW a \in Assignments, post[a] # Null, NEW status \in {"active", "ended", "deleted"},
           post' = [post EXCEPT ![a].status = status]
    PROVE  /\ post' \in [Assignments -> Post \cup {Null}] /\ PostsKeep
           /\ post'[a].status = status /\ post'[a].slot = post[a].slot
           /\ \A b \in Assignments : b # a => post'[b] = post[b]
<1> DEFINE new == [post[a] EXCEPT !.status = status]
<1>1. post[a] \in Post
  BY Basics
<1>2. new \in Post /\ new.guard = post[a].guard /\ new.station = post[a].station
      /\ new.position = post[a].position /\ new.slot = post[a].slot /\ new.status = status
  BY <1>1 DEF Post
<1>3. post' = [post EXCEPT ![a] = new]
  OBVIOUS
<1> HIDE DEF new
<1>4. post' \in [Assignments -> Post \cup {Null}]
  BY <1>2, <1>3, Basics
<1>5. post'[a] = new /\ \A b \in Assignments : b # a => post'[b] = post[b]
  BY <1>3, Basics
<1> QED
  BY <1>2, <1>4, <1>5, NullIsNoPost DEF PostsKeep

LEMMA EndAssignmentStep ==
    ASSUME Base, NEW q \in Requests, NEW a \in Assignments, EndAssignment(q, a)
    PROVE  Base'
<1> DEFINE r == [pc |-> "ended", station |-> request[q].station, post |-> request[q].post,
                 assignment |-> a]
<1>1. /\ request[q].pc = "idle" /\ post[a] # Null
      /\ post' = [post EXCEPT ![a].status = "ended"]
      /\ request' = [request EXCEPT ![q] = [request[q] EXCEPT !.pc = "ended", !.assignment = a]]
      /\ UNCHANGED <<turno, shifts, run, generation, crossed, faults>>
  BY DEF EndAssignment
<1>2. request[q] \in Request
  BY Basics
<1>3. request[q].station \in Stations \cup {Null} /\ request[q].post \in Post \cup {Null}
  BY <1>2, RequestParts
<1>4. [request[q] EXCEPT !.pc = "ended", !.assignment = a] = r
  BY <1>2, RequestWithAssignment DEF Pcs
<1>5. r \in Request
  BY <1>3 DEF Request
<1>6. r.pc = "ended" /\ r.station = request[q].station /\ r.assignment = a
  OBVIOUS
<1> HIDE DEF r
<1>7. Moved(q, r)
  BY <1>1, <1>4, <1>5, Basics, RequestMoves
<1>8. post' \in [Assignments -> Post \cup {Null}] /\ PostsKeep
  BY <1>1, StatusWritten
<1>9. TypeOK'
  BY <1>1, <1>7, <1>8, PostsStay, Basics DEF TypeOK, Moved
<1>10. Noted'
  <2>1. a # Null /\ post'[a] # Null
    BY <1>1, <1>8, ScheduleAssumption DEF PostsKeep
  <2> QED
    BY <1>1, <1>6, <1>7, <1>8, <2>1, PostsStay DEF Base, Types, Noted, Moved, Early
<1>11. Awaited' /\ Owned'
  BY <1>1, <1>7 DEF Base, Awaited, Owned, Moved
<1>12. Books'
  BY <1>1, <1>8, BooksStay DEF Live
<1> QED
  BY <1>9, <1>10, <1>11, <1>12 DEF Base, Types

LEMMA RemoveShiftsStep == ASSUME Base, NEW q \in Requests, RemoveShifts(q) PROVE Base'
<1> DEFINE R == Rows(request[q].assignment)
           f(s) == [s EXCEPT !.deleted = TRUE]
           r == [pc |-> "emptied", station |-> request[q].station, post |-> request[q].post,
                 assignment |-> request[q].assignment]
<1>1. /\ request[q].pc = "ended" /\ shifts' = (shifts \ R) \cup {f(s) : s \in R}
      /\ UNCHANGED <<turno, post, run, generation, crossed, faults>>
  BY DEF RemoveShifts
<1>2. Moved(q, r)
  BY Basics, PcMoves DEF RemoveShifts, Pcs
<1>3. r.pc = "emptied" /\ r.station = request[q].station /\ r.assignment = request[q].assignment
  OBVIOUS
<1>4. \A s \in shifts : /\ f(s) \in Shift /\ f(s).assignment = s.assignment /\ f(s).guard = s.guard
                       /\ f(s).deleted
  <2> TAKE s \in shifts
  <2>1. s \in Shift
    BY Basics
  <2> QED
    BY <2>1 DEF Shift
<1>5. R \subseteq shifts
  BY DEF Rows
<1> HIDE DEF r, R, f
<1>6. TypeOK'
  BY <1>1, <1>2, <1>4, <1>5 DEF Base, Types, TypeOK, Moved
<1>7. Noted'
  BY <1>1, <1>2, <1>3 DEF Base, Types, Noted, Moved, Early
<1>8. Awaited' /\ Owned'
  BY <1>1, <1>2 DEF Base, Awaited, Owned, Moved
<1>9. \A s \in Live' : s \in Live
  BY <1>1, <1>4, <1>5 DEF Live
<1>10. Books'
  BY <1>1, <1>9, SamePosts, BooksStay
<1> QED
  BY <1>6, <1>7, <1>8, <1>10 DEF Base, Types

LEMMA RemoveAssignmentStep == ASSUME Base, NEW q \in Requests, RemoveAssignment(q) PROVE Base'
<1> DEFINE a == request[q].assignment
           r == [pc |-> "done", station |-> request[q].station, post |-> request[q].post,
                 assignment |-> request[q].assignment]
<1>1. /\ request[q].pc = "emptied" /\ post' = [post EXCEPT ![a].status = "deleted"]
      /\ UNCHANGED <<turno, shifts, run, generation, crossed, faults>>
  BY DEF RemoveAssignment
<1>2. Moved(q, r)
  BY Basics, PcMoves DEF RemoveAssignment, Pcs
<1>3. r.pc = "done"
  OBVIOUS
<1>4. a \in Assignments /\ post[a] # Null
  BY <1>1, Basics, RequestParts DEF Base, Types, Noted
<1> HIDE DEF r, a
<1>5. post' \in [Assignments -> Post \cup {Null}] /\ PostsKeep
  BY <1>1, <1>4, StatusWritten
<1>6. TypeOK'
  BY <1>1, <1>2, <1>5, PostsStay, Basics DEF TypeOK, Moved
<1>7. Noted'
  BY <1>2, <1>3, <1>5, PostsStay DEF Base, Types, Noted, Moved, Early
<1>8. Awaited' /\ Owned'
  BY <1>1, <1>2 DEF Base, Awaited, Owned, Moved
<1>9. Books'
  BY <1>1, <1>5, BooksStay DEF Live
<1> QED
  BY <1>6, <1>7, <1>8, <1>9 DEF Base, Types

LEMMA NextBase == ASSUME Base, [Next]_vars PROVE Base'
<1>1. CASE \E q \in Requests, p \in Positions, slot \in Slots \cup {Null} : EditPosition(q, p, slot)
  BY <1>1, EditStep
<1>2. CASE \E q \in Requests, g \in Guards, p \in Positions \cup {Null}, st \in Stations,
              slot \in Slots \cup {Null} : Create(q, g, p, st, slot)
  BY <1>2, CreateStep
<1>3. CASE \E q \in Requests, a \in Assignments : Insert(q, a) \/ EndAssignment(q, a)
  BY <1>3, InsertStep, EndAssignmentStep
<1>4. CASE \E q \in Requests : JoinRun(q) \/ Answer(q) \/ RemoveShifts(q) \/ RemoveAssignment(q)
  BY <1>4, JoinStep, AnswerStep, RemoveShiftsStep, RemoveAssignmentStep
<1>5. CASE \E st \in Stations : LoadAssignments(st) \/ PassEnds(st)
  BY <1>5, LoadStep, EndStep
<1>6. CASE \E g \in generation : Compute(g) \/ Begin(g) \/ Commit(g) \/ Retry(g) \/ Fail(g)
  BY <1>6, ComputeStep, BeginStep, CommitStep, RetryStep, FailStep
<1>7. CASE UNCHANGED vars
  <2>1. UNCHANGED <<turno, post, shifts, run, generation, request, crossed, faults>>
    BY <1>7 DEF vars, rows
  <2>2. Types' /\ Awaited' /\ Owned'
    BY <2>1 DEF Base, Types, TypeOK, Noted, Awaited, Owned
  <2>3. Books'
    BY <2>1, SamePosts, BooksStay DEF Live
  <2> QED
    BY <2>2, <2>3 DEF Base
<1> QED
  BY <1>1, <1>2, <1>3, <1>4, <1>5, <1>6, <1>7 DEF Next

\* Type correctness of the schedule and of everything on its way.
THEOREM TypeCorrect == Spec => []TypeOK
<1>1. Base => TypeOK
  BY DEF Base, Types
<1>2. Base /\ [Next]_vars => Base'
  BY NextBase
<1> QED
  BY <1>1, <1>2, InitBase, PTL DEF Spec

-----------------------------------------------------------------------------
(* From here on, requests that create or delete come one at a time *)

Serial == Concurrent = FALSE

\* Such a request is the only one, and, where nothing has failed, nothing is being generated
\* until it generates itself.
Alone ==
    \A q \in Requests : Moving(q) =>
        /\ \A p \in Requests : Made(p) => p = q
        /\ faults = 0 /\ request[q].pc # "generating" => generation = {}

\* A request that is past the check of its kind.
LEMMA Mover ==
    ASSUME Base, Alone, NEW q \in Requests, request[q].pc \in {"checked", "generating", "ended", "emptied"}
    PROVE  /\ Moving(q) /\ \A p \in Requests : Made(p) => p = q
           /\ faults = 0 /\ request[q].pc # "generating" => generation = {}
<1>1. Moving(q)
  BY DEF Moving, Made, Base, Types, Noted, Early
<1> QED
  BY <1>1 DEF Alone

-----------------------------------------------------------------------------
(* Nothing stale.  A row whose time is no longer that of its position is on the way to be  *)
(* replaced: a call for its assignment is under way, or the edit that made it stale is      *)
(* still to be passed on to the run, or has flagged it.                                      *)

Fits(r) == r.position # Null => r.station = StationOf[r.position]
PostsFit ==
    /\ \A a \in Assignments : post[a] # Null => Fits(post[a])
    /\ \A q \in Requests : request[q].pc = "checked" =>
          Fits(request[q].post) /\ request[q].post.status = "active"

\* An edit of a position of the station that no pass has read yet, or not for certain.
PendingEdit(st) ==
    \/ \E q \in Requests : request[q].pc = "written" /\ request[q].station = st
    \/ run[st].dirty \/ run[st].pc = "load"
EditsStay == \A st \in Stations : PendingEdit(st) => PendingEdit(st)'

\* Calls are for active assignments, and belong to the station's pass or to the creator.
Employed == \A g \in generation : IsActive(g.assignment)
Owner(g) == \/ g.owner \in Stations /\ g.owner = post[g.assignment].station
            \/ g.owner \in Requests /\ request[g.owner].pc = "generating"
Owners   == \A g \in generation : Owner(g)

\* A row of an assignment that is not active is about to be removed.
LiveRows == \A s \in Live :
    \/ IsActive(s.assignment)
    \/ \E q \in Requests : request[q].pc = "ended" /\ request[q].assignment = s.assignment
Emptied  == \A q \in Requests : request[q].pc = "emptied" =>
    \A s \in Live : s.assignment # request[q].assignment

\* A time that was computed, or is in a row, is the time of now unless more is to come.
Timely(a, slot) == slot = SlotOf(a) \/ PendingEdit(post[a].station)
FreshCalls == \A g \in generation : g.pc # "compute" => Timely(g.assignment, g.slot)
FreshRows  == \A s \in Live :
    Timely(s.assignment, s.slot) \/ \E g \in generation : g.assignment = s.assignment

Fresh == Employed /\ Owners /\ LiveRows /\ Emptied /\ FreshCalls /\ FreshRows
Kept  == PostsFit /\ (faults = 0 => Fresh)

\* What the rows of the state are.
LEMMA RowParts ==
    ASSUME Base
    PROVE  /\ \A s \in shifts : s.assignment \in Assignments /\ post[s.assignment] # Null
           /\ \A g \in generation : g.assignment \in Assignments /\ post[g.assignment] # Null
           /\ \A a \in Assignments : post[a] # Null => post[a].station \in Stations
           /\ \A q \in Requests : request[q].station \in Stations \cup {Null}
<1>1. \A s \in shifts : s.assignment \in Assignments /\ post[s.assignment] # Null
  BY Basics DEF Shift, Base, Types, TypeOK
<1>2. \A g \in generation : g.assignment \in Assignments /\ post[g.assignment] # Null
  BY CallParts
<1>3. \A a \in Assignments : post[a] # Null => post[a].station \in Stations
  BY Basics DEF Post
<1>4. \A q \in Requests : request[q].station \in Stations \cup {Null}
  BY Basics, RequestParts
<1> QED
  BY <1>1, <1>2, <1>3, <1>4

\* Where nothing has failed, a call is for somebody who waits for it.
LEMMA Nobody ==
    ASSUME Base, Kept, faults = 0, \A o \in Requests : ~Made(o)
    PROVE  generation = {}
<1> SUFFICES ASSUME NEW g \in generation PROVE FALSE
  OBVIOUS
<1>1. Owner(g)
  BY DEF Kept, Fresh, Owners
<1>2. CASE g.owner \in Stations
  <2>1. run[g.owner].pc = "pass"
    BY <1>2 DEF Base, Owned
  <2> QED
    BY <1>2, <2>1 DEF Base, Awaited, Made
<1>3. CASE g.owner \in Requests /\ request[g.owner].pc = "generating"
  BY <1>3 DEF Made
<1> QED
  BY <1>1, <1>2, <1>3 DEF Owner

LEMMA FaultsOnlyGrow == ASSUME Base, [Next]_vars, faults' = 0 PROVE faults = 0 /\ ~\E g \in generation : Retry(g) \/ Fail(g)
<1>1. faults \in Nat
  BY Basics
<1>2. \A g \in generation : Retry(g) \/ Fail(g) => faults' = faults + 1
  BY DEF Retry, Fail
<1>3. CASE UNCHANGED faults
  BY <1>1, <1>2, <1>3
<1>4. CASE \E g \in generation : Retry(g) \/ Fail(g)
  BY <1>1, <1>2, <1>4
<1>5. UNCHANGED faults \/ \E g \in generation : Retry(g) \/ Fail(g)
  BY DEF Next, vars, EditPosition, Create, Insert, EndAssignment, JoinRun, Answer, RemoveShifts,
         RemoveAssignment, LoadAssignments, PassEnds, Compute, Begin, Commit
<1> QED
  BY <1>3, <1>4, <1>5

\* A time stays timely where the assignment keeps it and the station its edits.
LEMMA TimelyStays ==
    ASSUME NEW a, NEW slot, Timely(a, slot), post[a].station \in Stations, EditsStay,
           post'[a].station = post[a].station, SlotOf(a)' = SlotOf(a) \/ PendingEdit(post[a].station)'
    PROVE  Timely(a, slot)'
<1>1. CASE slot = SlotOf(a) /\ SlotOf(a)' = SlotOf(a)
  BY <1>1 DEF Timely
<1>2. CASE PendingEdit(post[a].station) \/ PendingEdit(post[a].station)'
  BY <1>2 DEF EditsStay, Timely
<1> QED
  BY <1>1, <1>2 DEF Timely

\* Steps that write no assignment and no row, and move no call.
LEMMA KeptStays ==
    ASSUME Base, Kept, UNCHANGED <<post, shifts, generation, faults>>, EditsStay,
           \A a \in Assignments : post[a] # Null => SlotOf(a)' = SlotOf(a) \/ PendingEdit(post[a].station)',
           \A q \in Requests : request'[q].pc = "checked" =>
              Fits(request'[q].post) /\ request'[q].post.status = "active",
           \A q \in Requests : request[q].pc = "ended" => request'[q] = request[q],
           \A q \in Requests : request'[q].pc = "emptied" => request'[q] = request[q],
           \A g \in generation : g.owner \in Requests /\ request[g.owner].pc = "generating" =>
              request'[g.owner].pc = "generating"
    PROVE  Kept'
<1>1. PostsFit'
  BY DEF Kept, PostsFit
<1>2. ASSUME faults = 0 PROVE Fresh'
  <2>1. Fresh
    BY <1>2 DEF Kept
  <2>2. \A a \in Assignments : \A slot : post[a] # Null /\ Timely(a, slot) => Timely(a, slot)'
    BY RowParts, TimelyStays
  <2>3. Employed' /\ Owners' /\ LiveRows' /\ Emptied'
    BY <2>1 DEF Fresh, Employed, Owners, Owner, LiveRows, Emptied, Live, IsActive
  <2>4. FreshCalls'
    BY <2>1, <2>2, RowParts DEF Fresh, FreshCalls
  <2>5. FreshRows'
    <3> SUFFICES ASSUME NEW s \in Live
                 PROVE  Timely(s.assignment, s.slot)' \/ \E g \in generation : g.assignment = s.assignment
      BY DEF FreshRows, Live
    <3>1. s.assignment \in Assignments /\ post[s.assignment] # Null
      BY RowParts DEF Live
    <3> QED
      BY <2>1, <2>2, <3>1 DEF Fresh, FreshRows
  <2> QED
    BY <2>3, <2>4, <2>5 DEF Fresh
<1> QED
  BY <1>1, <1>2 DEF Kept

\* What an edit, the request that joins a run, and the end of a pass leave to be read.
LEMMA EditEdits ==
    ASSUME Base, Serial, Kept, NEW q \in Requests, NEW p \in Positions, NEW slot \in Slots \cup {Null},
           EditPosition(q, p, slot)
    PROVE  /\ EditsStay
           /\ \A a \in Assignments : post[a] # Null =>
                 SlotOf(a)' = SlotOf(a) \/ PendingEdit(post[a].station)'
<1> DEFINE r == [request[q] EXCEPT !.pc = "written", !.station = StationOf[p]]
<1>1. /\ request[q].pc = "idle" /\ turno' = [turno EXCEPT ![p] = slot]
      /\ request' = [request EXCEPT ![q] = r]
      /\ UNCHANGED <<post, shifts, run, generation, faults>>
  BY DEF EditPosition
<1>2. request[q] \in Request /\ turno \in [Positions -> Slots \cup {Null}]
  BY Basics
<1>3. r.pc = "written" /\ r.station = StationOf[p]
  BY <1>2 DEF Request
<1> HIDE DEF r
<1>4. request'[q] = r /\ \A o \in Requests : o # q => request'[o] = request[o]
  BY <1>1, Basics
<1>5. EditsStay
  BY <1>1, <1>4 DEF EditsStay, PendingEdit
<1>6. PendingEdit(StationOf[p])'
  <2>1. request'[q].pc = "written" /\ request'[q].station = StationOf[p]
    BY <1>3, <1>4
  <2> QED
    BY <2>1 DEF PendingEdit
<1>7. \A a \in Assignments : post[a] # Null => SlotOf(a)' = SlotOf(a) \/ PendingEdit(post[a].station)'
  <2> SUFFICES ASSUME NEW a \in Assignments, post[a] # Null
               PROVE  SlotOf(a)' = SlotOf(a) \/ PendingEdit(post[a].station)'
    OBVIOUS
  <2>1. CASE post[a].position = p
    <3>1. post[a].station = StationOf[p] /\ post'[a] = post[a]
      <4>1. p # Null
        BY ScheduleAssumption
      <4> QED
        BY <1>1, <2>1, <4>1 DEF Kept, PostsFit, Fits
    <3> QED
      BY <1>6, <3>1 DEF PendingEdit
  <2>2. CASE post[a].position # p
    <3>1. post[a].position # Null => post[a].position \in Positions
      BY Basics DEF Post
    <3>2. SlotOf(a)' = SlotOf(a)
      BY <1>1, <1>2, <2>2, <3>1 DEF SlotOf
    <3> QED
      BY <3>2
  <2> QED
    BY <2>1, <2>2
<1> QED
  BY <1>5, <1>7

LEMMA EditKept ==
    ASSUME Base, Serial, Kept, NEW q \in Requests, NEW p \in Positions, NEW slot \in Slots \cup {Null},
           EditPosition(q, p, slot)
    PROVE  Kept'
<1> DEFINE r == [request[q] EXCEPT !.pc = "written", !.station = StationOf[p]]
<1>1. /\ request[q].pc = "idle" /\ turno' = [turno EXCEPT ![p] = slot]
      /\ request' = [request EXCEPT ![q] = r]
      /\ UNCHANGED <<post, shifts, run, generation, faults>>
  BY DEF EditPosition
<1>2. request[q] \in Request /\ turno \in [Positions -> Slots \cup {Null}]
  BY Basics
<1>3. r.pc = "written" /\ r.station = StationOf[p]
  BY <1>2 DEF Request
<1> HIDE DEF r
<1>4. request'[q] = r /\ \A o \in Requests : o # q => request'[o] = request[o]
  BY <1>1, Basics
<1>5. /\ \A o \in Requests : request'[o].pc = "checked" =>
            Fits(request'[o].post) /\ request'[o].post.status = "active"
      /\ \A o \in Requests : request[o].pc = "ended" => request'[o] = request[o]
      /\ \A o \in Requests : request'[o].pc = "emptied" => request'[o] = request[o]
      /\ \A g \in generation : g.owner \in Requests /\ request[g.owner].pc = "generating" =>
            request'[g.owner].pc = "generating"
  BY <1>1, <1>3, <1>4 DEF Kept, PostsFit
<1> QED
  BY <1>1, <1>5, EditEdits, KeptStays

LEMMA SameSlots == ASSUME UNCHANGED <<turno, post>> PROVE \A a \in Assignments : SlotOf(a)' = SlotOf(a)
BY DEF SlotOf

LEMMA JoinEdits == ASSUME Base, NEW q \in Requests, JoinRun(q) PROVE EditsStay
<1> DEFINE st == request[q].station
           r == [request[q] EXCEPT !.pc = "waiting"]
           u == IF run[st].pc = "none" THEN [pc |-> "load", dirty |-> FALSE] ELSE Flagged(run[st])
<1>1. /\ request[q].pc = "written" /\ run' = [run EXCEPT ![st] = u] /\ request' = [request EXCEPT ![q] = r]
      /\ UNCHANGED <<turno, post, shifts, generation, faults>>
  BY DEF JoinRun, rows
<1>2. request[q] \in Request
  BY Basics
<1>3. r.pc = "waiting"
  BY <1>2 DEF Request
<1> HIDE DEF r
<1>4. request'[q].pc = "waiting" /\ \A o \in Requests : o # q => request'[o] = request[o]
  BY <1>1, <1>3, Basics
<1>5. st \in Stations => u.dirty \/ u.pc = "load"
  <2> SUFFICES ASSUME st \in Stations PROVE u.dirty \/ u.pc = "load"
    OBVIOUS
  <2>1. run[st] \in Run
    BY Basics
  <2> QED
    BY <2>1 DEF Run, Flagged
<1> HIDE DEF u
<1>6. EditsStay
  <2> SUFFICES ASSUME NEW v \in Stations, PendingEdit(v) PROVE PendingEdit(v)'
    BY DEF EditsStay
  <2>1. CASE v = st
    <3>1. run'[v] = u
      BY <1>1, <2>1, Basics
    <3>2. run'[v].dirty \/ run'[v].pc = "load"
      BY <1>5, <2>1, <3>1
    <3> QED
      BY <3>2 DEF PendingEdit
  <2>2. CASE v # st
    <3>1. run'[v] = run[v]
      BY <1>1, <2>2, Basics
    <3> QED
      BY <1>4, <2>2, <3>1 DEF PendingEdit
  <2> QED
    BY <2>1, <2>2
<1> QED
  BY <1>6

LEMMA JoinKept == ASSUME Base, Kept, NEW q \in Requests, JoinRun(q) PROVE Kept'
<1> DEFINE r == [request[q] EXCEPT !.pc = "waiting"]
<1>1. /\ request[q].pc = "written" /\ request' = [request EXCEPT ![q] = r]
      /\ UNCHANGED <<turno, post, shifts, generation, faults>>
  BY DEF JoinRun, rows
<1>2. request[q] \in Request
  BY Basics
<1>3. r.pc = "waiting"
  BY <1>2 DEF Request
<1> HIDE DEF r
<1>4. request'[q].pc = "waiting" /\ \A o \in Requests : o # q => request'[o] = request[o]
  BY <1>1, <1>3, Basics
<1>5. \A a \in Assignments : SlotOf(a)' = SlotOf(a)
  BY <1>1, SameSlots
<1>6. /\ \A o \in Requests : request'[o].pc = "checked" =>
            Fits(request'[o].post) /\ request'[o].post.status = "active"
      /\ \A o \in Requests : request[o].pc = "ended" => request'[o] = request[o]
      /\ \A o \in Requests : request'[o].pc = "emptied" => request'[o] = request[o]
      /\ \A g \in generation : g.owner \in Requests /\ request[g.owner].pc = "generating" =>
            request'[g.owner].pc = "generating"
  BY <1>1, <1>4 DEF Kept, PostsFit
<1> QED
  BY <1>1, <1>5, <1>6, JoinEdits, KeptStays

LEMMA EndEdits == ASSUME Base, NEW st \in Stations, PassEnds(st) PROVE EditsStay
<1>1. /\ run[st].pc = "pass" /\ NextPass(st) /\ UNCHANGED <<turno, post, shifts, generation, faults>>
  BY DEF PassEnds, rows
<1>2. \A q \in Requests : request'[q] = request[q]
            \/ (request[q].pc = "waiting" /\ request'[q].pc = "done")
  BY <1>1, NextPassStep
<1>3. \A v \in Stations : v # st => run'[v] = run[v]
  BY <1>1, Basics DEF NextPass
<1>4. EditsStay
  <2> SUFFICES ASSUME NEW v \in Stations, PendingEdit(v) PROVE PendingEdit(v)'
    BY DEF EditsStay
  <2>1. CASE \E q \in Requests : request[q].pc = "written" /\ request[q].station = v
    BY <1>2, <2>1 DEF PendingEdit
  <2>2. CASE v # st
    BY <1>2, <1>3, <2>2 DEF PendingEdit
  <2>3. CASE v = st /\ run[v].dirty
    <3>1. run' = [run EXCEPT ![st] = [pc |-> "load", dirty |-> FALSE]]
      BY <1>1, <2>3 DEF NextPass
    <3>2. run'[v].pc = "load"
      BY <2>3, <3>1, Basics
    <3> QED
      BY <3>2 DEF PendingEdit
  <2> QED
    BY <1>1, <2>1, <2>2, <2>3 DEF PendingEdit
<1> QED
  BY <1>4

LEMMA EndKept == ASSUME Base, Kept, NEW st \in Stations, PassEnds(st) PROVE Kept'
<1>1. /\ run[st].pc = "pass" /\ NextPass(st) /\ UNCHANGED <<turno, post, shifts, generation, faults>>
  BY DEF PassEnds, rows
<1>2. \A q \in Requests : request'[q] = request[q]
            \/ (request[q].pc = "waiting" /\ request'[q].pc = "done")
  BY <1>1, NextPassStep
<1>3. \A a \in Assignments : SlotOf(a)' = SlotOf(a)
  BY <1>1, SameSlots
<1>4. /\ \A o \in Requests : request'[o].pc = "checked" =>
            Fits(request'[o].post) /\ request'[o].post.status = "active"
      /\ \A o \in Requests : request[o].pc = "ended" => request'[o] = request[o]
      /\ \A o \in Requests : request'[o].pc = "emptied" => request'[o] = request[o]
      /\ \A g \in generation : g.owner \in Requests /\ request[g.owner].pc = "generating" =>
            request'[g.owner].pc = "generating"
  BY <1>2 DEF Kept, PostsFit
<1> QED
  BY <1>1, <1>3, <1>4, EndEdits, KeptStays

LEMMA CreateKept ==
    ASSUME Base, Serial, Kept, NEW q \in Requests, NEW g \in Guards, NEW p \in Positions \cup {Null},
           NEW st \in Stations, NEW slot \in Slots \cup {Null}, Create(q, g, p, st, slot)
    PROVE  Kept'
<1> DEFINE new == [status |-> "active", guard |-> g, station |-> st, position |-> p, slot |-> slot]
           r   == [request[q] EXCEPT !.pc = "checked", !.post = new]
<1>1. /\ request[q].pc = "idle" /\ (\A o \in Requests : ~Made(o))
      /\ request' = [request EXCEPT ![q] = r]
      /\ p = Null \/ st = StationOf[p]
      /\ UNCHANGED <<turno, post, shifts, run, generation, faults>>
  BY DEF Create, MayMove, Serial, rows
<1>2. request[q] \in Request
  BY Basics
<1>3. r.pc = "checked" /\ r.post = new
  BY <1>2 DEF Request
<1>4. Fits(new) /\ new.status = "active"
  BY <1>1 DEF Fits
<1> HIDE DEF r, new
<1>5. request'[q] = r /\ \A o \in Requests : o # q => request'[o] = request[o]
  BY <1>1, Basics
<1>6. EditsStay
  BY <1>1, <1>5 DEF EditsStay, PendingEdit
<1>7. \A a \in Assignments : SlotOf(a)' = SlotOf(a)
  BY <1>1, SameSlots
<1>8. /\ \A o \in Requests : request'[o].pc = "checked" =>
            Fits(request'[o].post) /\ request'[o].post.status = "active"
      /\ \A o \in Requests : request[o].pc = "ended" => request'[o] = request[o]
      /\ \A o \in Requests : request'[o].pc = "emptied" => request'[o] = request[o]
      /\ \A h \in generation : h.owner \in Requests /\ request[h.owner].pc = "generating" =>
            request'[h.owner].pc = "generating"
  BY <1>1, <1>3, <1>4, <1>5 DEF Kept, PostsFit
<1> QED
  BY <1>1, <1>6, <1>7, <1>8, KeptStays

LEMMA AnswerKept == ASSUME Base, Kept, NEW q \in Requests, Answer(q) PROVE Kept'
<1> DEFINE r == [request[q] EXCEPT !.pc = "done"]
<1>1. /\ request[q].pc = "generating" /\ Calls(q) = {} /\ request' = [request EXCEPT ![q] = r]
      /\ UNCHANGED <<turno, post, shifts, run, generation, faults>>
  BY DEF Answer, rows
<1>2. request[q] \in Request
  BY Basics
<1>3. r.pc = "done"
  BY <1>2 DEF Request
<1> HIDE DEF r
<1>4. request'[q] = r /\ \A o \in Requests : o # q => request'[o] = request[o]
  BY <1>1, Basics
<1>5. EditsStay
  BY <1>1, <1>4 DEF EditsStay, PendingEdit
<1>6. \A a \in Assignments : SlotOf(a)' = SlotOf(a)
  BY <1>1, SameSlots
<1>7. \A h \in generation : h.owner # q
  BY <1>1 DEF Calls
<1>8. /\ \A o \in Requests : request'[o].pc = "checked" =>
            Fits(request'[o].post) /\ request'[o].post.status = "active"
      /\ \A o \in Requests : request[o].pc = "ended" => request'[o] = request[o]
      /\ \A o \in Requests : request'[o].pc = "emptied" => request'[o] = request[o]
      /\ \A h \in generation : h.owner \in Requests /\ request[h.owner].pc = "generating" =>
            request'[h.owner].pc = "generating"
  BY <1>1, <1>3, <1>4, <1>7 DEF Kept, PostsFit
<1> QED
  BY <1>1, <1>5, <1>6, <1>8, KeptStays

\* A pass has read all edits made before it, and calls every active assignment.
LEMMA LoadKept == ASSUME Base, Alone, Kept, NEW st \in Stations, LoadAssignments(st) PROVE Kept'
<1> DEFINE B == {b \in Assignments : IsActive(b) /\ post[b].station = st}
<1>1. /\ run[st].pc = "load" /\ run' = [run EXCEPT ![st].pc = "pass"]
      /\ generation' = generation \cup {Called(a, st) : a \in B}
      /\ UNCHANGED <<turno, post, shifts, request, faults>>
  BY DEF LoadAssignments, rows
<1>2. \A v \in Stations : v # st => run'[v] = run[v]
  BY <1>1, Basics
<1>3. \A o \in Requests : ~Moving(o)
  <2>1. PICK w \in Requests : request[w].pc = "waiting" /\ request[w].station = st
    BY <1>1 DEF Base, Awaited
  <2>2. Made(w) /\ ~Moving(w)
    BY <2>1, Basics DEF Made, Moving
  <2> QED
    BY <2>2 DEF Alone
<1>4. \A o \in Requests : request[o].pc \notin {"generating", "ended", "emptied"}
  BY <1>3, Mover
<1>5. \A a \in B : Called(a, st).assignment = a /\ Called(a, st).owner = st /\ Called(a, st).pc = "compute"
  BY DEF Called
<1>6. PostsFit'
  BY <1>1 DEF Kept, PostsFit
<1>7. \A v \in Stations : v # st /\ PendingEdit(v) => PendingEdit(v)'
  BY <1>1, <1>2 DEF PendingEdit
<1>8. \A a \in Assignments : \A slot : post[a] # Null /\ post[a].station # st /\ Timely(a, slot) => Timely(a, slot)'
  <2> SUFFICES ASSUME NEW a \in Assignments, NEW slot, post[a] # Null, post[a].station # st, Timely(a, slot)
               PROVE  Timely(a, slot)'
    OBVIOUS
  <2>1. SlotOf(a)' = SlotOf(a) /\ post'[a] = post[a] /\ post[a].station \in Stations
    BY <1>1, SameSlots, RowParts
  <2>2. PendingEdit(post[a].station) => PendingEdit(post[a].station)'
    BY <1>1, <1>7, <2>1 DEF PendingEdit
  <2> QED
    BY <2>1, <2>2 DEF Timely
<1>9. ASSUME faults = 0 PROVE Fresh'
  <2>1. Fresh
    BY <1>9 DEF Kept
  <2>2. \A g \in generation : post[g.assignment].station # st /\ g.owner = post[g.assignment].station
    <3> TAKE g \in generation
    <3>1. g.owner \in Stations /\ g.owner = post[g.assignment].station
      BY <1>4, <2>1 DEF Fresh, Owners, Owner
    <3>2. run[g.owner].pc = "pass"
      BY <3>1 DEF Base, Owned
    <3> QED
      BY <1>1, <3>1, <3>2
  <2>3. Employed'
    BY <1>1, <1>5, <2>1 DEF Fresh, Employed, IsActive
  <2>4. Owners'
    <3>1. \A g \in generation : Owner(g)'
      BY <1>1, <2>1 DEF Fresh, Owners, Owner
    <3>2. \A a \in B : Owner(Called(a, st))'
      BY <1>1, <1>5 DEF Owner
    <3> QED
      BY <1>1, <3>1, <3>2 DEF Owners
  <2>5. LiveRows' /\ Emptied'
    BY <1>1, <2>1 DEF Fresh, LiveRows, Emptied, Live, IsActive
  <2>6. FreshCalls'
    <3> SUFFICES ASSUME NEW g \in generation', g.pc # "compute"
                 PROVE  Timely(g.assignment, g.slot)'
      BY DEF FreshCalls
    <3>1. g \in generation
      BY <1>1, <1>5
    <3> QED
      BY <1>8, <2>1, <2>2, <3>1, RowParts DEF Fresh, FreshCalls
  <2>7. FreshRows'
    <3> SUFFICES ASSUME NEW s \in Live
                 PROVE  Timely(s.assignment, s.slot)' \/ \E g \in generation' : g.assignment = s.assignment
      BY <1>1 DEF FreshRows, Live
    <3>1. s.assignment \in Assignments /\ post[s.assignment] # Null
      BY RowParts DEF Live
    <3>2. CASE post[s.assignment].station = st
      <4>1. s.assignment \in B
        BY <1>4, <2>1, <3>1, <3>2 DEF Fresh, LiveRows
      <4>2. Called(s.assignment, st) \in generation'
        BY <1>1, <4>1
      <4> QED
        BY <1>5, <4>1, <4>2
    <3>3. CASE post[s.assignment].station # st
      <4>1. Timely(s.assignment, s.slot) \/ \E g \in generation : g.assignment = s.assignment
        BY <2>1 DEF Fresh, FreshRows
      <4> QED
        BY <1>1, <1>8, <3>1, <3>3, <4>1
    <3> QED
      BY <3>2, <3>3
  <2> QED
    BY <2>3, <2>4, <2>5, <2>6, <2>7 DEF Fresh
<1> QED
  BY <1>1, <1>6, <1>9 DEF Kept

\* Creating and deleting: the request has the schedule to itself.
LEMMA InsertKept ==
    ASSUME Base, Alone, Kept, NEW q \in Requests, NEW a \in Assignments, Insert(q, a)
    PROVE  Kept'
<1> DEFINE new == request[q].post
           r   == [request[q] EXCEPT !.pc = "generating"]
           g   == Called(a, q)
<1>1. /\ request[q].pc = "checked" /\ generation' = generation \cup {g}
      /\ request' = [request EXCEPT ![q] = r]
      /\ UNCHANGED <<turno, shifts, run, faults>>
  BY DEF Insert
<1>2. (faults = 0 => generation = {}) /\ \A o \in Requests : Made(o) => o = q
  BY <1>1, Mover
<1>3. request[q] \in Request
  BY Basics
<1>4. r.pc = "generating" /\ r.post = new
  BY <1>3 DEF Request
<1>5. Fits(new) /\ new.status = "active" /\ new # Null
  BY <1>1 DEF Kept, PostsFit, Base, Types, Noted
<1>6. \/ post' = post /\ IsActive(a)
      \/ post[a] = Null /\ post' = [post EXCEPT ![a] = new]
  BY DEF Insert, Same
<1>7. g.assignment = a /\ g.owner = q /\ g.pc = "compute"
  BY DEF Called
<1> HIDE DEF r, g, new
<1>8. request'[q] = r /\ \A o \in Requests : o # q => request'[o] = request[o]
  BY <1>1, Basics
<1>9. /\ \A b \in Assignments : post[b] # Null => post'[b] = post[b]
      /\ \A b \in Assignments : b # a => post'[b] = post[b]
      /\ post'[a] # Null /\ post'[a].status = "active" /\ (post[a] = Null => Fits(post'[a]))
  BY <1>5, <1>6, Basics DEF IsActive
<1>10. PostsFit'
  <2>1. \A b \in Assignments : post'[b] # Null => Fits(post'[b])
    BY <1>9 DEF Kept, PostsFit
  <2>2. \A o \in Requests : request'[o].pc # "checked"
    BY <1>2, <1>4, <1>8 DEF Made
  <2> QED
    BY <2>1, <2>2 DEF PostsFit
<1>11. EditsStay
  BY <1>1, <1>8 DEF EditsStay, PendingEdit
<1>12. ASSUME faults = 0 PROVE Fresh'
  <2>1. Fresh
    BY <1>12 DEF Kept
  <2>2. generation' = {g}
    BY <1>12, <1>1, <1>2
  <2>3. Employed' /\ FreshCalls'
    BY <1>7, <1>9, <2>2 DEF Employed, IsActive, FreshCalls
  <2>4. Owners'
    BY <1>4, <1>7, <1>8, <2>2 DEF Owners, Owner
  <2>5. \A s \in shifts : s.assignment \in Assignments /\ post'[s.assignment] = post[s.assignment]
                          /\ post[s.assignment] # Null
    BY <1>9, RowParts
  <2>6. \A o \in Requests : request[o].pc \notin {"ended", "emptied"} /\ request'[o].pc # "emptied"
    BY <1>12, <1>1, <1>2, <1>4, <1>8 DEF Made
  <2>7. LiveRows' /\ Emptied'
    BY <1>1, <2>1, <2>5, <2>6 DEF Fresh, LiveRows, Emptied, Live, IsActive
  <2>8. FreshRows'
    <3> SUFFICES ASSUME NEW s \in Live PROVE Timely(s.assignment, s.slot)'
      BY <1>1 DEF FreshRows, Live
    <3>1. Timely(s.assignment, s.slot)
      BY <1>12, <1>2, <2>1 DEF Fresh, FreshRows
    <3>2. SlotOf(s.assignment)' = SlotOf(s.assignment)
      BY <1>1, <2>5 DEF SlotOf, Live
    <3>3. post[s.assignment].station \in Stations /\ post'[s.assignment].station = post[s.assignment].station
      BY <2>5, RowParts DEF Live
    <3> QED
      BY <1>11, <3>1, <3>2, <3>3, TimelyStays
  <2> QED
    BY <2>3, <2>4, <2>7, <2>8 DEF Fresh
<1> QED
  BY <1>1, <1>10, <1>12 DEF Kept

\* A status that is written leaves station, position and slot.
LEMMA StatusKeeps ==
    ASSUME Base, UNCHANGED turno, NEW a \in Assignments, post[a] # Null,
           NEW status \in {"active", "ended", "deleted"},
           post' = [post EXCEPT ![a].status = status]
    PROVE  /\ \A b \in Assignments : b # a => post'[b] = post[b]
           /\ post'[a] # Null /\ (Fits(post[a]) => Fits(post'[a]))
           /\ \A b \in Assignments : post[b] # Null =>
                 SlotOf(b)' = SlotOf(b) /\ post'[b].station = post[b].station
<1> DEFINE new == [post[a] EXCEPT !.status = status]
<1>1. post[a] \in Post
  BY Basics
<1>2. new.station = post[a].station /\ new.position = post[a].position /\ new.slot = post[a].slot
  BY <1>1 DEF Post
<1>3. post'[a] = new /\ \A b \in Assignments : b # a => post'[b] = post[b]
  BY Basics
<1>4. post'[a] # Null
  BY StatusWritten DEF PostsKeep
<1> HIDE DEF new
<1>5. SlotOf(a)' = SlotOf(a)
  BY <1>2, <1>3 DEF SlotOf
<1>6. \A b \in Assignments : b # a => SlotOf(b)' = SlotOf(b)
  BY <1>3 DEF SlotOf
<1> QED
  BY <1>2, <1>3, <1>4, <1>5, <1>6 DEF Fits

LEMMA EndAssignmentKept ==
    ASSUME Base, Serial, Kept, NEW q \in Requests, NEW a \in Assignments, EndAssignment(q, a)
    PROVE  Kept'
<1> DEFINE r == [request[q] EXCEPT !.pc = "ended", !.assignment = a]
<1>1. /\ request[q].pc = "idle" /\ (\A o \in Requests : ~Made(o)) /\ post[a] # Null
      /\ post' = [post EXCEPT ![a].status = "ended"] /\ request' = [request EXCEPT ![q] = r]
      /\ UNCHANGED <<turno, shifts, run, generation, faults>>
  BY DEF EndAssignment, MayMove, Serial
<1>2. request[q] \in Request
  BY Basics
<1>3. r.pc = "ended" /\ r.assignment = a
  BY <1>2 DEF Request
<1> HIDE DEF r
<1>4. request'[q] = r /\ \A o \in Requests : o # q => request'[o] = request[o]
  BY <1>1, Basics
<1>5. /\ \A b \in Assignments : b # a => post'[b] = post[b]
      /\ post'[a] # Null /\ (Fits(post[a]) => Fits(post'[a]))
      /\ \A b \in Assignments : post[b] # Null =>
            SlotOf(b)' = SlotOf(b) /\ post'[b].station = post[b].station
  BY <1>1, StatusKeeps
<1>6. \A o \in Requests : request'[o].pc \notin {"checked", "emptied"} /\ request[o].pc # "ended"
  BY <1>1, <1>3, <1>4 DEF Made
<1>7. PostsFit'
  BY <1>1, <1>5, <1>6 DEF Kept, PostsFit
<1>8. EditsStay
  BY <1>1, <1>4 DEF EditsStay, PendingEdit
<1>9. ASSUME faults = 0 PROVE Fresh'
  <2>0. generation = {}
    BY <1>1, <1>9, Nobody
  <2>1. Fresh
    BY <1>9 DEF Kept
  <2>2. Employed' /\ Owners' /\ FreshCalls' /\ Emptied'
    BY <1>1, <1>6, <2>0 DEF Employed, Owners, FreshCalls, Emptied
  <2>3. LiveRows'
    <3> SUFFICES ASSUME NEW s \in Live
                 PROVE  IsActive(s.assignment)' \/ \E o \in Requests :
                           request'[o].pc = "ended" /\ request'[o].assignment = s.assignment
      BY <1>1 DEF LiveRows, Live
    <3>1. CASE s.assignment = a
      BY <1>3, <1>4, <3>1
    <3>2. CASE s.assignment # a
      <4>1. post'[s.assignment] = post[s.assignment]
        BY <1>5, <3>2, RowParts DEF Live
      <4>2. IsActive(s.assignment)
        BY <1>6, <2>1 DEF Fresh, LiveRows
      <4> QED
        BY <4>1, <4>2 DEF IsActive
    <3> QED
      BY <3>1, <3>2
  <2>4. FreshRows'
    <3> SUFFICES ASSUME NEW s \in Live PROVE Timely(s.assignment, s.slot)'
      BY <1>1 DEF FreshRows, Live
    <3>1. Timely(s.assignment, s.slot)
      BY <1>1, <2>0, <2>1 DEF Fresh, FreshRows
    <3>2. s.assignment \in Assignments /\ post[s.assignment] # Null /\ post[s.assignment].station \in Stations
      BY RowParts DEF Live
    <3> QED
      BY <1>5, <1>8, <3>1, <3>2, TimelyStays
  <2> QED
    BY <2>2, <2>3, <2>4 DEF Fresh
<1> QED
  BY <1>1, <1>7, <1>9 DEF Kept

LEMMA RemoveShiftsKept == ASSUME Base, Alone, Kept, NEW q \in Requests, RemoveShifts(q) PROVE Kept'
<1> DEFINE R == Rows(request[q].assignment)
           f(s) == [s EXCEPT !.deleted = TRUE]
           r == [request[q] EXCEPT !.pc = "emptied"]
<1>1. /\ request[q].pc = "ended" /\ shifts' = (shifts \ R) \cup {f(s) : s \in R}
      /\ request' = [request EXCEPT ![q] = r]
      /\ UNCHANGED <<turno, post, run, generation, faults>>
  BY DEF RemoveShifts
<1>2. (faults = 0 => generation = {}) /\ \A o \in Requests : Made(o) => o = q
  BY <1>1, Mover
<1>3. request[q] \in Request
  BY Basics
<1>4. r.pc = "emptied" /\ r.assignment = request[q].assignment
  BY <1>3 DEF Request
<1>5. \A s \in R : f(s).deleted /\ s \in shifts
  BY Basics DEF Shift, Rows
<1> HIDE DEF r, f
<1>6. request'[q] = r /\ \A o \in Requests : o # q => request'[o] = request[o]
  BY <1>1, Basics
<1>7. \A s \in Live' : s \in Live /\ s.assignment # request[q].assignment
  BY <1>1, <1>5 DEF Live, Rows
<1>8. \A o \in Requests : o # q => request[o].pc \notin {"checked", "ended", "emptied"}
  BY <1>2 DEF Made
<1>9. PostsFit'
  BY <1>1, <1>4, <1>6, <1>8 DEF Kept, PostsFit
<1>10. EditsStay
  BY <1>1, <1>6 DEF EditsStay, PendingEdit
<1>11. ASSUME faults = 0 PROVE Fresh'
  <2>1. Fresh
    BY <1>11 DEF Kept
  <2>2. Employed' /\ Owners' /\ FreshCalls'
    BY <1>11, <1>1, <1>2 DEF Employed, Owners, FreshCalls
  <2>3. Emptied'
    BY <1>4, <1>6, <1>7, <1>8 DEF Emptied
  <2>4. LiveRows'
    BY <1>1, <1>7, <1>8, <2>1 DEF Fresh, LiveRows, IsActive
  <2>5. FreshRows'
    <3> SUFFICES ASSUME NEW s \in Live' PROVE Timely(s.assignment, s.slot)'
      BY DEF FreshRows
    <3>1. Timely(s.assignment, s.slot)
      BY <1>11, <1>2, <1>7, <2>1 DEF Fresh, FreshRows
    <3>2. s.assignment \in Assignments /\ post[s.assignment].station \in Stations
      BY <1>7, RowParts DEF Live
    <3>3. SlotOf(s.assignment)' = SlotOf(s.assignment)
      BY <1>1, <3>2, SameSlots
    <3> QED
      BY <1>1, <1>10, <3>1, <3>2, <3>3, TimelyStays
  <2> QED
    BY <2>2, <2>3, <2>4, <2>5 DEF Fresh
<1> QED
  BY <1>1, <1>9, <1>11 DEF Kept

LEMMA RemoveAssignmentKept == ASSUME Base, Alone, Kept, NEW q \in Requests, RemoveAssignment(q) PROVE Kept'
<1> DEFINE r == [request[q] EXCEPT !.pc = "done"]
<1>0. PICK a : a = request[q].assignment
  OBVIOUS
<1>1. /\ request[q].pc = "emptied" /\ post' = [post EXCEPT ![a].status = "deleted"]
      /\ request' = [request EXCEPT ![q] = r]
      /\ UNCHANGED <<turno, shifts, run, generation, faults>>
  BY <1>0 DEF RemoveAssignment
<1>2. (faults = 0 => generation = {}) /\ \A o \in Requests : Made(o) => o = q
  BY <1>1, Mover
<1>3. request[q] \in Request
  BY Basics
<1>4. r.pc = "done"
  BY <1>3 DEF Request
<1>5. a \in Assignments /\ post[a] # Null
  BY <1>0, <1>1, Basics, RequestParts DEF Base, Types, Noted
<1> HIDE DEF r
<1>6. request'[q] = r /\ \A o \in Requests : o # q => request'[o] = request[o]
  BY <1>1, Basics
<1>7. /\ \A b \in Assignments : b # a => post'[b] = post[b]
      /\ post'[a] # Null /\ (Fits(post[a]) => Fits(post'[a]))
      /\ \A b \in Assignments : post[b] # Null =>
            SlotOf(b)' = SlotOf(b) /\ post'[b].station = post[b].station
  BY <1>1, <1>5, StatusKeeps
<1>8. \A o \in Requests : request'[o].pc \notin {"checked", "emptied"} /\ request[o].pc # "ended"
  BY <1>1, <1>2, <1>4, <1>6 DEF Made
<1>9. PostsFit'
  BY <1>5, <1>7, <1>8 DEF Kept, PostsFit
<1>10. EditsStay
  BY <1>1, <1>6 DEF EditsStay, PendingEdit
<1>11. ASSUME faults = 0 PROVE Fresh'
  <2>1. Fresh
    BY <1>11 DEF Kept
  <2>2. Employed' /\ Owners' /\ FreshCalls' /\ Emptied'
    BY <1>11, <1>1, <1>2, <1>8 DEF Employed, Owners, FreshCalls, Emptied
  <2>3. \A s \in Live : s.assignment # a /\ s.assignment \in Assignments /\ post[s.assignment] # Null
                        /\ post[s.assignment].station \in Stations
    BY <1>0, <1>1, <2>1, RowParts DEF Fresh, Emptied, Live
  <2>4. LiveRows'
    BY <1>1, <1>7, <1>8, <2>1, <2>3 DEF Fresh, LiveRows, Live, IsActive
  <2>5. FreshRows'
    <3> SUFFICES ASSUME NEW s \in Live PROVE Timely(s.assignment, s.slot)'
      BY <1>1 DEF FreshRows, Live
    <3>1. Timely(s.assignment, s.slot)
      BY <1>11, <1>2, <2>1 DEF Fresh, FreshRows
    <3> QED
      BY <1>7, <1>10, <2>3, <3>1, TimelyStays
  <2> QED
    BY <2>2, <2>4, <2>5 DEF Fresh
<1> QED
  BY <1>1, <1>9, <1>11 DEF Kept

-----------------------------------------------------------------------------
(* The rows a transaction has destroyed are those of its kind until it commits: nothing *)
(* else adds one, or changes what an assignment is.                                     *)

Locks(g) == Purged(g.assignment) \subseteq g.purge /\ \A s \in g.purge : Purges(g.assignment, s)
Held == faults = 0 => \A g \in Open : Locks(g)

\* Steps that begin no transaction and write no row.
LEMMA HeldStays ==
    ASSUME Held, UNCHANGED <<post, shifts, faults>>,
           \A k \in generation' : k.pc = "commit" => k \in generation
    PROVE  Held'
BY DEF Held, Open, Locks, Purged, Purges

LEMMA NextHeld == ASSUME Base, Alone, Serial, Kept, Held, [Next]_vars PROVE Held'
<1> SUFFICES ASSUME faults' = 0 PROVE \A k \in Open' : Locks(k)'
  BY DEF Held
<1>0. faults = 0 /\ ~\E g \in generation : Retry(g) \/ Fail(g)
  BY FaultsOnlyGrow
<1> USE <1>0
<1>1. ASSUME \E q \in Requests, p \in Positions, slot \in Slots \cup {Null} : EditPosition(q, p, slot)
      PROVE  Held'
  BY <1>1, HeldStays DEF EditPosition
<1>2. ASSUME \E q \in Requests, g \in Guards, p \in Positions \cup {Null}, st \in Stations,
                slot \in Slots \cup {Null} : Create(q, g, p, st, slot)
      PROVE  Held'
  BY <1>2, HeldStays DEF Create, rows
<1>3. ASSUME NEW q \in Requests, NEW a \in Assignments, Insert(q, a) PROVE Held'
  <2>1. generation = {} /\ generation' = generation \cup {Called(a, q)} /\ Called(a, q).pc = "compute"
    BY <1>3, Mover DEF Insert, Called
  <2> QED
    BY <2>1 DEF Held, Open
<1>4. ASSUME NEW q \in Requests, NEW a \in Assignments, EndAssignment(q, a) PROVE Held'
  <2>1. generation = {} /\ generation' = generation
    BY <1>4, Nobody DEF EndAssignment, MayMove, Serial
  <2> QED
    BY <2>1 DEF Held, Open
<1>5. ASSUME NEW q \in Requests, RemoveShifts(q) \/ RemoveAssignment(q) PROVE Held'
  <2>1. generation = {} /\ generation' = generation
    BY <1>5, Mover DEF RemoveShifts, RemoveAssignment
  <2> QED
    BY <2>1 DEF Held, Open
<1>6. ASSUME \E q \in Requests : JoinRun(q) \/ Answer(q) PROVE Held'
  BY <1>6, HeldStays DEF JoinRun, Answer, rows
<1>7. ASSUME NEW st \in Stations, LoadAssignments(st) \/ PassEnds(st) PROVE Held'
  <2>1. \A a : Called(a, st).pc = "compute"
    BY DEF Called
  <2> QED
    BY <1>7, <2>1, HeldStays DEF LoadAssignments, PassEnds, rows
<1>8. ASSUME NEW g \in generation, Compute(g) PROVE Held'
  <2>1. g \in Call
    BY CallParts
  <2>2. [g EXCEPT !.pc = "begin", !.slot = SlotOf(g.assignment)].pc = "begin"
    BY <2>1, CallWithSlot
  <2> QED
    BY <1>8, <2>2, HeldStays DEF Compute, Become, rows
<1>9. ASSUME NEW g \in generation, Begin(g) PROVE Held'
  <2>0. g \in Call
    BY CallParts
  <2>1. PICK h : h = [g EXCEPT !.pc = "commit",
                         !.insert = g.slot # Null /\ Conflicts(g.assignment, g.slot) = {},
                         !.purge = Purged(g.assignment)]
    OBVIOUS
  <2>2. h.assignment = g.assignment /\ h.purge = Purged(g.assignment)
    BY <2>0, <2>1, CallWithInsert
  <2>3. generation' = (generation \ {g}) \cup {h} /\ UNCHANGED <<post, shifts, faults>>
    BY <1>9, <2>1 DEF Begin, Become, rows
  <2>4. Locks(h)
    BY <2>2 DEF Locks, Purged
  <2>5. \A k : Locks(k) => Locks(k)'
    BY <2>3 DEF Locks, Purged, Purges
  <2>6. \A k \in Open' : Locks(k)
    BY <2>3, <2>4 DEF Held, Open
  <2> QED
    BY <2>5, <2>6 DEF Held
<1>10. ASSUME NEW g \in generation, Commit(g) PROVE Held'
  <2>1. /\ g.pc = "commit" /\ generation' = generation \ {g} /\ UNCHANGED <<post, faults>>
        /\ \A s \in shifts' : s \in shifts \/ s = RowOf(g)
    BY <1>10 DEF Commit
  <2>2. /\ RowOf(g).assignment = g.assignment /\ RowOf(g).position = post[g.assignment].position
    BY DEF RowOf, RowAt
  <2>3. post[g.assignment].status = "active"
    BY DEF Kept, Fresh, Employed, IsActive
  <2>4. ASSUME NEW k \in Open, k # g PROVE ~Purges(k.assignment, RowOf(g))
    <3>1. Differ(g, k) /\ Differ(k, g)
      BY <2>1, <2>4 DEF Base, Books, Apart, Open
    <3> QED
      BY <2>2, <2>3, <3>1 DEF Differ, Purges
  <2>5. \A k \in Open' : k \in Open /\ k # g
    BY <2>1 DEF Open
  <2>6. ASSUME NEW k \in Open' PROVE Locks(k)'
    <3>1. Locks(k) /\ ~Purges(k.assignment, RowOf(g))
      BY <2>4, <2>5 DEF Held
    <3>2. \A s : Purges(k.assignment, s)' <=> Purges(k.assignment, s)
      BY <2>1 DEF Purges
    <3> QED
      BY <2>1, <3>1, <3>2 DEF Locks, Purged
  <2> QED
    BY <2>6 DEF Held
<1>11. ASSUME UNCHANGED vars PROVE Held'
  BY <1>11, HeldStays DEF vars, rows
<1>12. Held'
  BY <1>1, <1>2, <1>3, <1>4, <1>5, <1>6, <1>7, <1>8, <1>9, <1>10, <1>11 DEF Next
<1> QED
  BY <1>12 DEF Held

-----------------------------------------------------------------------------
(* Transactions keep it *)

\* A call that goes on: it has the same assignment and owner, and its time is timely.
LEMMA CallKept ==
    ASSUME Base, Kept, NEW g \in generation, NEW h, h.assignment = g.assignment, h.owner = g.owner,
           Become(g, h), UNCHANGED <<rows, run, request, faults>>,
           faults = 0 /\ h.pc # "compute" => Timely(g.assignment, h.slot)
    PROVE  Kept'
<1>1. generation' = (generation \ {g}) \cup {h} /\ UNCHANGED <<turno, post, shifts, run, request, faults>>
  BY DEF Become, rows
<1>2. PostsFit'
  BY <1>1 DEF Kept, PostsFit
<1>3. \A a, slot : Timely(a, slot) => Timely(a, slot)'
  BY <1>1 DEF Timely, SlotOf, PendingEdit
<1>4. ASSUME faults = 0 PROVE Fresh'
  <2>1. Fresh
    BY <1>4 DEF Kept
  <2>2. Employed'
    BY <1>1, <2>1 DEF Fresh, Employed, IsActive
  <2>3. Owners'
    <3>1. \A k \in generation : Owner(k)'
      BY <1>1, <2>1 DEF Fresh, Owners, Owner
    <3>2. Owner(h)'
      BY <1>1, <2>1 DEF Fresh, Owners, Owner
    <3> QED
      BY <1>1, <3>1, <3>2 DEF Owners
  <2>4. LiveRows' /\ Emptied'
    BY <1>1, <2>1 DEF Fresh, LiveRows, Emptied, Live, IsActive
  <2>5. FreshCalls'
    <3> SUFFICES ASSUME NEW k \in generation', k.pc # "compute" PROVE Timely(k.assignment, k.slot)'
      BY DEF FreshCalls
    <3>1. Timely(k.assignment, k.slot)
      BY <1>1, <1>4, <2>1 DEF Fresh, FreshCalls
    <3> QED
      BY <1>3, <3>1
  <2>6. FreshRows'
    <3> SUFFICES ASSUME NEW s \in Live
                 PROVE  Timely(s.assignment, s.slot)' \/ \E k \in generation' : k.assignment = s.assignment
      BY <1>1 DEF FreshRows, Live
    <3>1. Timely(s.assignment, s.slot) \/ \E k \in generation : k.assignment = s.assignment
      BY <2>1 DEF Fresh, FreshRows
    <3>2. \A k \in generation : \E l \in generation' : l.assignment = k.assignment
      BY <1>1
    <3> QED
      BY <1>3, <3>1, <3>2
  <2> QED
    BY <2>2, <2>3, <2>4, <2>5, <2>6 DEF Fresh
<1> QED
  BY <1>1, <1>2, <1>4 DEF Kept

LEMMA ComputeKept == ASSUME Base, Kept, NEW g \in generation, Compute(g) PROVE Kept'
<1>1. PICK h : h = [g EXCEPT !.pc = "begin", !.slot = SlotOf(g.assignment)]
  OBVIOUS
<1>2. h.assignment = g.assignment /\ h.owner = g.owner /\ h.slot = SlotOf(g.assignment)
  BY <1>1, CallParts, CallWithSlot
<1>3. Become(g, h) /\ UNCHANGED <<rows, run, request, faults>>
  BY <1>1 DEF Compute
<1>4. Timely(g.assignment, h.slot)
  BY <1>2 DEF Timely
<1> QED
  BY <1>2, <1>3, <1>4, CallKept

LEMMA BeginKept == ASSUME Base, Kept, NEW g \in generation, Begin(g) PROVE Kept'
<1>1. PICK h : h = [g EXCEPT !.pc = "commit",
          !.insert = g.slot # Null /\ Conflicts(g.assignment, g.slot) = {},
          !.purge = Purged(g.assignment)]
  OBVIOUS
<1>2. h.assignment = g.assignment /\ h.owner = g.owner /\ h.slot = g.slot
  BY <1>1, CallParts, CallWithInsert
<1>3. Become(g, h) /\ UNCHANGED <<rows, run, request, faults>> /\ g.pc = "begin"
  BY <1>1 DEF Begin
<1>4. faults = 0 => Timely(g.assignment, h.slot)
  BY <1>2, <1>3 DEF Kept, Fresh, FreshCalls
<1> QED
  BY <1>2, <1>3, <1>4, CallKept

\* The row that is inserted has the time of its call; the rows of other assignments that
\* remain keep the calls that are to replace them.
LEMMA CommitKept == ASSUME Base, Alone, Kept, Held, NEW g \in generation, Commit(g) PROVE Kept'
<1> DEFINE kept == shifts \ g.purge
<1>1. /\ g.pc = "commit" /\ generation' = generation \ {g}
      /\ shifts' = kept \/ shifts' = kept \cup {RowOf(g)}
      /\ UNCHANGED <<turno, post, run, request, faults>>
  BY DEF Commit
<1>2. RowOf(g).assignment = g.assignment /\ RowOf(g).slot = g.slot
  BY DEF RowOf, RowAt
<1>3. faults = 0 => \A s \in Live' : (s \in Live /\ s.assignment # g.assignment)
                                     \/ (s.assignment = g.assignment /\ s.slot = g.slot)
  BY <1>1, <1>2 DEF Live, Held, Locks, Open, Purged, Purges
<1>4. PostsFit'
  BY <1>1 DEF Kept, PostsFit
<1>5. \A a, slot : Timely(a, slot) => Timely(a, slot)'
  BY <1>1 DEF Timely, SlotOf, PendingEdit
<1>6. ASSUME faults = 0 PROVE Fresh'
  <2>1. Fresh
    BY <1>6 DEF Kept
  <2>2. Employed'
    BY <1>1, <2>1 DEF Fresh, Employed, IsActive
  <2>3. Owners'
    BY <1>1, <2>1 DEF Fresh, Owners, Owner
  <2>4. FreshCalls'
    BY <1>1, <1>5, <2>1 DEF Fresh, FreshCalls
  <2>5. LiveRows'
    BY <1>1, <1>3, <1>6, <2>1 DEF Fresh, LiveRows, Employed, IsActive
  <2>6. Emptied'
    <3>1. \A q \in Requests : request[q].pc # "emptied"
      BY <1>6, Mover
    <3> QED
      BY <1>1, <3>1 DEF Emptied
  <2>7. FreshRows'
    <3> SUFFICES ASSUME NEW s \in Live'
                 PROVE  Timely(s.assignment, s.slot)' \/ \E k \in generation' : k.assignment = s.assignment
      BY DEF FreshRows
    <3>1. CASE s \in Live /\ s.assignment # g.assignment
      <4>1. Timely(s.assignment, s.slot) \/ \E k \in generation : k.assignment = s.assignment
        BY <2>1, <3>1 DEF Fresh, FreshRows
      <4> QED
        BY <1>1, <1>5, <3>1, <4>1
    <3>2. CASE s.assignment = g.assignment /\ s.slot = g.slot
      <4>1. Timely(g.assignment, g.slot)
        BY <1>1, <2>1 DEF Fresh, FreshCalls
      <4> QED
        BY <1>5, <3>2, <4>1
    <3> QED
      BY <1>3, <1>6, <3>1, <3>2
  <2> QED
    BY <2>2, <2>3, <2>4, <2>5, <2>6, <2>7 DEF Fresh
<1> QED
  BY <1>1, <1>4, <1>6 DEF Kept

\* A transaction that fails is one of the faults without which all this is claimed.
LEMMA FaultKept == ASSUME Base, Kept, NEW g \in generation, Retry(g) \/ Fail(g) PROVE Kept'
<1>1. faults' # 0 /\ UNCHANGED post
  <2>1. faults' = faults + 1 /\ UNCHANGED post
    BY DEF Retry, Fail, rows
  <2>2. faults \in Nat
    BY Basics
  <2> QED
    BY <2>1, <2>2
<1>2. \A q \in Requests : request'[q] = request[q]
            \/ (request[q].pc = "waiting" /\ request'[q].pc = "done")
  <2>1. CASE UNCHANGED request
    BY <2>1
  <2>2. CASE g.owner \in Stations /\ NextPass(g.owner)
    <3>1. run[g.owner].pc # "none"
      BY <2>2 DEF Base, Owned
    <3> QED
      BY <2>2, <3>1, NextPassStep
  <2> QED
    BY <2>1, <2>2 DEF Retry, Fail
<1>3. PostsFit'
  BY <1>1, <1>2 DEF Kept, PostsFit
<1> QED
  BY <1>1, <1>3 DEF Kept

LEMMA NextKept == ASSUME Base, Alone, Serial, Kept, Held, [Next]_vars PROVE Kept'
<1>1. CASE \E q \in Requests, p \in Positions, slot \in Slots \cup {Null} : EditPosition(q, p, slot)
  BY <1>1, EditKept
<1>2. CASE \E q \in Requests, g \in Guards, p \in Positions \cup {Null}, st \in Stations,
              slot \in Slots \cup {Null} : Create(q, g, p, st, slot)
  BY <1>2, CreateKept
<1>3. CASE \E q \in Requests, a \in Assignments : Insert(q, a) \/ EndAssignment(q, a)
  BY <1>3, InsertKept, EndAssignmentKept
<1>4. CASE \E q \in Requests : JoinRun(q) \/ Answer(q) \/ RemoveShifts(q) \/ RemoveAssignment(q)
  BY <1>4, JoinKept, AnswerKept, RemoveShiftsKept, RemoveAssignmentKept
<1>5. CASE \E st \in Stations : LoadAssignments(st) \/ PassEnds(st)
  BY <1>5, LoadKept, EndKept
<1>6. CASE \E g \in generation : Compute(g) \/ Begin(g) \/ Commit(g) \/ Retry(g) \/ Fail(g)
  BY <1>6, ComputeKept, BeginKept, CommitKept, FaultKept
<1>7. CASE UNCHANGED vars
  <2>1. UNCHANGED <<turno, post, shifts, run, generation, request, faults>>
    BY <1>7 DEF vars, rows
  <2>2. EditsStay /\ \A a \in Assignments : SlotOf(a)' = SlotOf(a)
    BY <2>1, SameSlots DEF EditsStay, PendingEdit
  <2>3. \A o \in Requests : request'[o].pc = "checked" =>
           Fits(request'[o].post) /\ request'[o].post.status = "active"
    BY <2>1 DEF Kept, PostsFit
  <2> QED
    BY <2>1, <2>2, <2>3, KeptStays
<1> QED
  BY <1>1, <1>2, <1>3, <1>4, <1>5, <1>6, <1>7 DEF Next

LEMMA InitKept == Init => Kept
<1> SUFFICES ASSUME Init PROVE Kept
  OBVIOUS
<1>1. \A q \in Requests : request[q].pc = "idle"
  BY DEF Init, NotMade
<1>2. PostsFit
  BY <1>1 DEF Init, PostsFit
<1>3. Fresh
  BY <1>1 DEF Init, Fresh, Employed, Owners, LiveRows, Emptied, FreshCalls, FreshRows, Live
<1> QED
  BY <1>2, <1>3 DEF Kept

LEMMA QuietIsFresh == Base /\ Kept => NothingStale
<1> SUFFICES ASSUME Base, Kept, Quiet, faults = 0, NEW s \in Live
             PROVE  IsActive(s.assignment) /\ s.slot = SlotOf(s.assignment)
  BY DEF NothingStale
<1>1. Fresh
  BY DEF Kept
<1>2. generation = {} /\ \A q \in Requests : request[q].pc \notin {"ended", "written"}
  BY DEF Quiet, Made
<1>3. IsActive(s.assignment)
  BY <1>1, <1>2 DEF Fresh, LiveRows
<1>4. post[s.assignment].station \in Stations
  BY RowParts DEF Live
<1>5. ~PendingEdit(post[s.assignment].station)
  BY <1>2, <1>4 DEF Quiet, NoRun, PendingEdit
<1> QED
  BY <1>1, <1>2, <1>3, <1>5 DEF Fresh, FreshRows, Timely

LEMMA NextAlone == ASSUME Base, Alone, Serial, Kept, [Next]_vars PROVE Alone'
<1>1. ASSUME NEW q \in Requests, NEW p \in Positions, NEW slot \in Slots \cup {Null}, EditPosition(q, p, slot)
      PROVE  Alone'
  <2> DEFINE r == [request[q] EXCEPT !.pc = "written", !.station = StationOf[p]]
  <2>1. /\ \A o \in Requests : ~Moving(o)
        /\ request' = [request EXCEPT ![q] = r]
    BY <1>1 DEF EditPosition, MayEdit, Serial
  <2>2. r.station = StationOf[p] /\ StationOf[p] # Null
    BY Basics, ScheduleAssumption DEF Request
  <2> HIDE DEF r
  <2>3. request'[q].station # Null /\ \A o \in Requests : o # q => request'[o] = request[o]
    BY <2>1, <2>2, Basics
  <2>4. \A o \in Requests : ~Moving(o)'
    BY <2>1, <2>3 DEF Moving, Made
  <2> QED
    BY <2>4 DEF Alone
<1>2. ASSUME NEW q \in Requests, NEW g \in Guards, NEW p \in Positions \cup {Null}, NEW st \in Stations,
             NEW slot \in Slots \cup {Null}, Create(q, g, p, st, slot)
      PROVE  Alone'
  <2>1. /\ \A o \in Requests : ~Made(o)
        /\ \A o \in Requests : o # q => request'[o] = request[o]
        /\ UNCHANGED <<generation, faults>>
    BY <1>2, Basics DEF Create, MayMove, Serial
  <2>2. faults = 0 => generation = {}
    BY <2>1, Nobody
  <2> QED
    BY <2>1, <2>2 DEF Alone, Moving, Made
<1>3. ASSUME NEW q \in Requests, NEW a \in Assignments, EndAssignment(q, a) PROVE Alone'
  <2>1. /\ \A o \in Requests : ~Made(o)
        /\ \A o \in Requests : o # q => request'[o] = request[o]
        /\ UNCHANGED <<generation, faults>>
    BY <1>3, Basics DEF EndAssignment, MayMove, Serial
  <2>2. faults = 0 => generation = {}
    BY <2>1, Nobody
  <2> QED
    BY <2>1, <2>2 DEF Alone, Moving, Made
<1>4. ASSUME NEW q \in Requests, NEW a \in Assignments, Insert(q, a) PROVE Alone'
  <2>1. request[q].pc = "checked" /\ request' = [request EXCEPT ![q].pc = "generating"]
    BY <1>4 DEF Insert
  <2>2. request'[q].pc = "generating" /\ \A o \in Requests : o # q => request'[o] = request[o]
    BY <2>1, Basics DEF Request
  <2>3. \A o \in Requests : Made(o) => o = q
    BY <2>1, Mover
  <2> QED
    BY <2>2, <2>3 DEF Alone, Moving, Made
<1>5. ASSUME NEW q \in Requests, Answer(q) \/ RemoveAssignment(q) PROVE Alone'
  <2>1. request[q].pc \in {"generating", "emptied"} /\ request' = [request EXCEPT ![q].pc = "done"]
    BY <1>5 DEF Answer, RemoveAssignment
  <2>2. request'[q].pc = "done" /\ \A o \in Requests : o # q => request'[o] = request[o]
    BY <2>1, Basics DEF Request
  <2>3. \A o \in Requests : Made(o) => o = q
    BY <2>1, Mover
  <2>4. \A o \in Requests : ~Made(o)'
    BY <2>2, <2>3 DEF Made
  <2> QED
    BY <2>4 DEF Alone, Moving
<1>6. ASSUME NEW q \in Requests, RemoveShifts(q) PROVE Alone'
  <2>1. /\ request[q].pc = "ended" /\ request' = [request EXCEPT ![q].pc = "emptied"]
        /\ UNCHANGED <<generation, faults>>
    BY <1>6 DEF RemoveShifts
  <2>2. \A o \in Requests : o # q => request'[o] = request[o]
    BY <2>1, Basics
  <2>3. (faults = 0 => generation = {}) /\ \A o \in Requests : Made(o) => o = q
    BY <2>1, Mover
  <2> QED
    BY <2>1, <2>2, <2>3 DEF Alone, Moving, Made
<1>7. ASSUME NEW q \in Requests, JoinRun(q) PROVE Alone'
  <2>1. /\ request[q].pc = "written" /\ request' = [request EXCEPT ![q].pc = "waiting"]
        /\ UNCHANGED <<generation, faults>>
    BY <1>7 DEF JoinRun
  <2>2. /\ request'[q].pc = "waiting" /\ request'[q].station = request[q].station
        /\ \A o \in Requests : o # q => request'[o] = request[o]
    BY <2>1, Basics DEF Request
  <2>3. \A o \in Requests : (Made(o)' <=> Made(o)) /\ (Moving(o)' => Moving(o))
    BY <2>1, <2>2 DEF Moving, Made
  <2>4. \A o \in Requests : request'[o].pc # "generating" => request[o].pc # "generating"
    BY <2>1, <2>2
  <2> QED
    BY <2>1, <2>3, <2>4 DEF Alone
<1>8. ASSUME NEW st \in Stations, LoadAssignments(st) PROVE Alone'
  <2>1. run[st].pc = "load" /\ UNCHANGED request
    BY <1>8 DEF LoadAssignments
  <2>2. PICK w \in Requests : request[w].pc = "waiting" /\ request[w].station = st
    BY <2>1 DEF Base, Awaited
  <2>3. \A o \in Requests : ~Moving(o)
    BY <2>2, Basics DEF Alone, Moving, Made
  <2> QED
    BY <2>1, <2>3 DEF Alone, Moving, Made
<1>9. ASSUME NEW st \in Stations, PassEnds(st) PROVE Alone'
  <2>1. run[st].pc # "none" /\ NextPass(st) /\ UNCHANGED <<generation, faults>>
    BY <1>9 DEF PassEnds
  <2>2. \A q \in Requests : request'[q] = request[q]
              \/ (request[q].pc = "waiting" /\ request'[q].pc = "done")
    BY <2>1, NextPassStep
  <2> QED
    BY <2>1, <2>2 DEF Alone, Moving, Made
<1>10. ASSUME NEW g \in generation, Compute(g) \/ Begin(g) \/ Commit(g) \/ Retry(g) PROVE Alone'
  <2>1. UNCHANGED request /\ (faults' = 0 => faults = 0)
    <3>1. faults \in Nat
      BY Basics
    <3> QED
      BY <1>10, <3>1 DEF Compute, Begin, Commit, Retry
  <2>2. \A o \in Requests : Moving(o) /\ faults = 0 => request[o].pc = "generating"
    BY DEF Alone
  <2> QED
    BY <2>1, <2>2 DEF Alone, Moving, Made
<1>11. ASSUME NEW g \in generation, Fail(g) PROVE Alone'
  <2>1. faults' # 0
    <3>1. faults \in Nat
      BY Basics
    <3> QED
      BY <1>11, <3>1 DEF Fail
  <2>2. \A q \in Requests : request'[q] = request[q]
              \/ (request[q].pc = "waiting" /\ request'[q].pc = "done")
    <3>1. CASE g.owner \in Stations
      <4>1. run[g.owner].pc # "none" /\ NextPass(g.owner)
        BY <1>11, <3>1 DEF Fail, Base, Owned
      <4> QED
        BY <3>1, <4>1, NextPassStep
    <3>2. CASE g.owner \notin Stations
      BY <1>11, <3>2 DEF Fail
    <3> QED
      BY <3>1, <3>2
  <2> QED
    BY <2>1, <2>2 DEF Alone, Moving, Made
<1>12. ASSUME UNCHANGED vars PROVE Alone'
  BY <1>12 DEF vars, Alone, Moving, Made
<1> QED
  BY <1>1, <1>2, <1>3, <1>4, <1>5, <1>6, <1>7, <1>8, <1>9, <1>10, <1>11, <1>12 DEF Next

\* What holds of one worker's schedule where requests that create or delete come one at a time.
Sound == Base /\ Alone /\ Kept /\ Held

LEMMA InitSound == Init => Sound
<1>1. Init => Alone
  BY DEF Init, Alone, Moving, Made, NotMade
<1>2. Init => Held
  BY DEF Init, Held, Open
<1> QED
  BY <1>1, <1>2, InitBase, InitKept DEF Sound

LEMMA NextSound == ASSUME Serial, Sound, [Next]_vars PROVE Sound'
BY NextBase, NextAlone, NextKept, NextHeld DEF Sound

\* Edits of a position in a burst are all in the schedule once they are answered
\* (regenerateStationShiftsSafe): when all is quiet, and no transaction has failed, no shift
\* is left of an assignment that is gone, nor at a time its position no longer has; for any
\* number of edits, stations, passes and assignments, with transactions that overlap.
THEOREM NothingIsStale == Serial => (Spec => []NothingStale)
<1> SUFFICES ASSUME Serial PROVE Spec => []NothingStale
  OBVIOUS
<1>1. Sound => NothingStale
  BY QuietIsFresh DEF Sound
<1>2. Sound /\ [Next]_vars => Sound'
  BY NextSound
<1> QED
  BY <1>1, <1>2, InitSound, PTL DEF Spec

-----------------------------------------------------------------------------
(* Nothing missing.  The assignment of a guard who is alone at the position and works ad *)
(* hoc nowhere has its row, or a call or an edit is under way that brings it, or a removed *)
(* row is in the way: such a guard has one active assignment only, so nothing conflicts with   *)
(* its row, and nobody else's transaction takes it away.                                  *)

Clear(a) == IsActive(a) /\ ~Displaced(a) /\ ~Mixed(a)

RowsMatch == \A s \in shifts : s.position = post[s.assignment].position
                               /\ s.station = post[s.assignment].station

\* One active rotation for each guard, also when the one that has been checked is there.
Rotation(a, g) == IsActive(a) /\ post[a].guard = g /\ post[a].position # Null
OneRotation ==
    /\ \A a, b \in Assignments : \A g : Rotation(a, g) /\ Rotation(b, g) => a = b
    /\ \A q \in Requests : request[q].pc = "checked" /\ request[q].post.position # Null =>
          \A b \in Assignments : Rotation(b, request[q].post.guard) =>
              post[b].position = request[q].post.position

\* An assignment that is being deleted has ended.
Leaving == \A q \in Requests : request[q].pc \in {"ended", "emptied"} =>
              post[request[q].assignment].status = "ended"

Orderly == RowsMatch /\ OneRotation /\ Leaving

\* The row is on its way, or there at the time of now.
Due(a) == PendingEdit(post[a].station) \/ \E g \in generation : g.assignment = a
Own(a) == \E s \in Live : s.assignment = a /\ s.slot = SlotOf(a)

Inserts == \A g \in generation :
              g.pc = "commit" /\ Clear(g.assignment) /\ g.slot # Null => g.insert
Placed  == \A a \in Assignments : Clear(a) /\ SlotOf(a) # Null => Due(a) \/ Own(a) \/ Blocked(a)

Filled == Orderly /\ (faults = 0 => Inserts /\ Placed)

LEMMA ClearBefore ==
    ASSUME PostsKeep, NEW a \in Assignments, Clear(a)', IsActive(a)
    PROVE  Clear(a)
<1>1. post[a] # Null /\ post'[a].guard = post[a].guard /\ post'[a].position = post[a].position
  BY DEF PostsKeep, IsActive
<1>2. Displaced(a) => Displaced(a)'
  BY <1>1 DEF PostsKeep, Displaced
<1>3. Mixed(a) => Mixed(a)'
  BY <1>1 DEF PostsKeep, Mixed
<1> QED
  BY <1>2, <1>3 DEF Clear

\* Where rows stay, and what is due stays due.
LEMMA PlacedStays ==
    ASSUME Base, Placed, PostsKeep,
           \A a \in Assignments : IsActive(a)' =>
              IF IsActive(a) THEN (Due(a) => Due(a)') ELSE Due(a)',
           \A a \in Assignments : IsActive(a)' /\ IsActive(a) => SlotOf(a)' = SlotOf(a) \/ Due(a)',
           \A b \in Assignments : post[b] # Null /\ post[b].status = "deleted" =>
              post'[b].status = "deleted",
           \A s \in Live : IsActive(s.assignment)' => s \in Live',
           \A s \in shifts : post[s.assignment].status = "deleted" => s \in shifts'
    PROVE  Placed'
<1> SUFFICES ASSUME NEW a \in Assignments, Clear(a)', SlotOf(a)' # Null, ~Due(a)'
             PROVE  Own(a)' \/ Blocked(a)'
  BY DEF Placed
<1>1. IsActive(a)' /\ IsActive(a) /\ ~Due(a) /\ SlotOf(a)' = SlotOf(a)
  BY DEF Clear
<1>2. Own(a) \/ Blocked(a)
  BY <1>1, ClearBefore DEF Placed
<1>3. CASE Own(a)
  <2>1. PICK s \in Live : s.assignment = a /\ s.slot = SlotOf(a)
    BY <1>3 DEF Own
  <2> QED
    BY <1>1, <2>1 DEF Own
<1>4. CASE Blocked(a)
  <2>0. post[a] # Null
    BY <1>1 DEF IsActive
  <2>1. PICK b \in Removed(a) : Displaced(b) \/ \E s \in Rows(b) : s.slot = SlotOf(a)
    BY <1>4 DEF Blocked
  <2>2. b \in Removed(a)' /\ post[b].status = "deleted" /\ post[b] # Null /\ b \in Assignments
    BY <2>0, <2>1 DEF Removed, PostsKeep
  <2>3. Displaced(b) => Displaced(b)'
    BY <2>2 DEF PostsKeep, Displaced
  <2>4. \A s \in Rows(b) : s \in Rows(b)'
    BY <2>2 DEF Rows
  <2> QED
    BY <1>1, <2>1, <2>2, <2>3, <2>4 DEF Blocked
<1> QED
  BY <1>2, <1>3, <1>4

\* Steps that write no assignment and no row.
LEMMA OrderlyStays ==
    ASSUME Orderly, UNCHANGED <<post, shifts>>,
           \A q \in Requests :
              request'[q].pc \in {"checked", "ended", "emptied"} => request'[q] = request[q]
    PROVE  Orderly'
BY DEF Orderly, RowsMatch, OneRotation, Rotation, Leaving, IsActive

LEMMA FilledStays ==
    ASSUME Base, Filled, Orderly', UNCHANGED <<post, shifts>>,
           \A a \in Assignments : IsActive(a) /\ Due(a) => Due(a)',
           \A a \in Assignments : IsActive(a) => SlotOf(a)' = SlotOf(a) \/ Due(a)',
           faults' = 0 => faults = 0 /\ Inserts'
    PROVE  Filled'
<1>1. ASSUME faults = 0 PROVE Placed'
  <2>1. PostsKeep
    BY DEF PostsKeep
  <2>2. Placed
    BY <1>1 DEF Filled
  <2>3. \A a \in Assignments : IsActive(a)' <=> IsActive(a)
    BY DEF IsActive
  <2>4. Live' = Live
    BY DEF Live
  <2> QED
    BY <2>1, <2>2, <2>3, <2>4, PlacedStays
<1> QED
  BY <1>1 DEF Filled

LEMMA SameCalls ==
    ASSUME UNCHANGED <<post, generation>>, Inserts
    PROVE  Inserts'
BY DEF Inserts, Clear, IsActive, Displaced, Mixed

\* And move no call.
LEMMA FilledAlone ==
    ASSUME Base, Filled, Orderly', UNCHANGED <<post, shifts, generation, faults>>, EditsStay,
           \A a \in Assignments : post[a] # Null => SlotOf(a)' = SlotOf(a) \/ PendingEdit(post[a].station)'
    PROVE  Filled'
<1>1. faults' = 0 => faults = 0 /\ Inserts'
  BY SameCalls DEF Filled
<1>2. \A a \in Assignments : IsActive(a) /\ Due(a) => Due(a)'
  <2> SUFFICES ASSUME NEW a \in Assignments, IsActive(a), Due(a) PROVE Due(a)'
    OBVIOUS
  <2>1. post[a].station \in Stations /\ post'[a] = post[a]
    BY RowParts DEF IsActive
  <2> QED
    BY <2>1 DEF Due, EditsStay, PendingEdit
<1>3. \A a \in Assignments : IsActive(a) => SlotOf(a)' = SlotOf(a) \/ Due(a)'
  BY DEF IsActive, Due, PendingEdit
<1> QED
  BY <1>1, <1>2, <1>3, FilledStays


LEMMA EditFilled ==
    ASSUME Base, Serial, Kept, Filled, NEW q \in Requests, NEW p \in Positions,
           NEW slot \in Slots \cup {Null}, EditPosition(q, p, slot)
    PROVE  Filled'
<1> DEFINE r == [request[q] EXCEPT !.pc = "written", !.station = StationOf[p]]
<1>1. /\ request' = [request EXCEPT ![q] = r]
      /\ UNCHANGED <<post, shifts, run, generation, faults>>
  BY DEF EditPosition
<1>2. r.pc = "written"
  BY Basics DEF Request
<1> HIDE DEF r
<1>3. request'[q] = r /\ \A o \in Requests : o # q => request'[o] = request[o]
  BY <1>1, Basics
<1>4. Orderly'
  BY <1>1, <1>2, <1>3, OrderlyStays DEF Filled
<1> QED
  BY <1>1, <1>4, EditEdits, FilledAlone

LEMMA JoinFilled == ASSUME Base, Filled, NEW q \in Requests, JoinRun(q) PROVE Filled'
<1> DEFINE r == [request[q] EXCEPT !.pc = "waiting"]
<1>1. /\ request' = [request EXCEPT ![q] = r]
      /\ UNCHANGED <<turno, post, shifts, generation, faults>>
  BY DEF JoinRun, rows
<1>2. r.pc = "waiting"
  BY Basics DEF Request
<1> HIDE DEF r
<1>3. request'[q] = r /\ \A o \in Requests : o # q => request'[o] = request[o]
  BY <1>1, Basics
<1>4. Orderly'
  BY <1>1, <1>2, <1>3, OrderlyStays DEF Filled
<1>5. \A a \in Assignments : SlotOf(a)' = SlotOf(a)
  BY <1>1, SameSlots
<1> QED
  BY <1>1, <1>4, <1>5, JoinEdits, FilledAlone

LEMMA EndFilled == ASSUME Base, Filled, NEW st \in Stations, PassEnds(st) PROVE Filled'
<1>1. /\ run[st].pc = "pass" /\ NextPass(st) /\ UNCHANGED <<turno, post, shifts, generation, faults>>
  BY DEF PassEnds, rows
<1>2. \A q \in Requests : request'[q] = request[q]
            \/ (request[q].pc = "waiting" /\ request'[q].pc = "done")
  BY <1>1, NextPassStep
<1>3. Orderly'
  BY <1>1, <1>2, OrderlyStays DEF Filled
<1>4. \A a \in Assignments : SlotOf(a)' = SlotOf(a)
  BY <1>1, SameSlots
<1> QED
  BY <1>1, <1>3, <1>4, EndEdits, FilledAlone

LEMMA AnswerFilled == ASSUME Base, Filled, NEW q \in Requests, Answer(q) PROVE Filled'
<1> DEFINE r == [request[q] EXCEPT !.pc = "done"]
<1>1. /\ request[q].pc = "generating" /\ request' = [request EXCEPT ![q] = r]
      /\ UNCHANGED <<turno, post, shifts, run, generation, faults>>
  BY DEF Answer, rows
<1>2. r.pc = "done"
  BY Basics DEF Request
<1> HIDE DEF r
<1>3. request'[q] = r /\ \A o \in Requests : o # q => request'[o] = request[o]
  BY <1>1, Basics
<1>4. Orderly'
  BY <1>1, <1>2, <1>3, OrderlyStays DEF Filled
<1>5. EditsStay
  BY <1>1, <1>3 DEF EditsStay, PendingEdit
<1>6. \A a \in Assignments : SlotOf(a)' = SlotOf(a)
  BY <1>1, SameSlots
<1> QED
  BY <1>1, <1>4, <1>5, <1>6, FilledAlone

\* The check refuses a second rotation of the guard.
LEMMA CreateFilled ==
    ASSUME Base, Serial, Filled, NEW q \in Requests, NEW g \in Guards, NEW p \in Positions \cup {Null},
           NEW st \in Stations, NEW slot \in Slots \cup {Null}, Create(q, g, p, st, slot)
    PROVE  Filled'
<1> DEFINE new == [status |-> "active", guard |-> g, station |-> st, position |-> p, slot |-> slot]
           r   == [request[q] EXCEPT !.pc = "checked", !.post = new]
<1>1. /\ request[q].pc = "idle" /\ (\A o \in Requests : ~Made(o))
      /\ request' = [request EXCEPT ![q] = r]
      /\ Allowed(g, p, st)
      /\ UNCHANGED <<turno, post, shifts, run, generation, faults>>
  BY DEF Create, MayMove, Serial, rows
<1>2. r.pc = "checked" /\ r.post = new
  BY Basics DEF Request
<1>3. new.guard = g /\ new.position = p
  OBVIOUS
<1> HIDE DEF r, new
<1>4. request'[q] = r /\ \A o \in Requests : o # q => request'[o] = request[o]
  BY <1>1, Basics
<1>5. \A o \in Requests : o # q => request'[o].pc \notin {"checked", "ended", "emptied"}
  BY <1>1, <1>4 DEF Made
<1>6. OneRotation'
  <2>1. p # Null => \A b \in Assignments : Rotation(b, g) => post[b].position = p
    BY <1>1 DEF Allowed, Rotation
  <2> QED
    BY <1>1, <1>2, <1>3, <1>4, <1>5, <2>1 DEF Filled, Orderly, OneRotation, Rotation, IsActive
<1>7. Orderly'
  BY <1>1, <1>2, <1>4, <1>5, <1>6 DEF Filled, Orderly, RowsMatch, Leaving
<1>8. EditsStay
  BY <1>1, <1>4 DEF EditsStay, PendingEdit
<1>9. \A a \in Assignments : SlotOf(a)' = SlotOf(a)
  BY <1>1, SameSlots
<1> QED
  BY <1>1, <1>7, <1>8, <1>9, FilledAlone

\* A pass calls every active assignment of its station.
LEMMA LoadFilled == ASSUME Base, Filled, NEW st \in Stations, LoadAssignments(st) PROVE Filled'
<1> DEFINE B == {b \in Assignments : IsActive(b) /\ post[b].station = st}
<1>1. /\ run' = [run EXCEPT ![st].pc = "pass"]
      /\ generation' = generation \cup {Called(a, st) : a \in B}
      /\ UNCHANGED <<turno, post, shifts, request, faults>>
  BY DEF LoadAssignments, rows
<1>2. \A v \in Stations : v # st => run'[v] = run[v]
  BY <1>1, Basics
<1>3. Orderly'
  BY <1>1, OrderlyStays DEF Filled
<1>4. \A a \in B : Called(a, st).assignment = a /\ Called(a, st).pc = "compute"
  BY DEF Called
<1>5. \A a \in Assignments : IsActive(a) /\ Due(a) => Due(a)'
  <2> SUFFICES ASSUME NEW a \in Assignments, IsActive(a), Due(a) PROVE Due(a)'
    OBVIOUS
  <2>1. CASE a \in B
    <3>1. Called(a, st) \in generation'
      BY <1>1, <2>1
    <3> QED
      BY <1>4, <2>1, <3>1 DEF Due
  <2>2. CASE a \notin B
    <3>1. post[a].station \in Stations \ {st}
      BY <2>2, RowParts DEF IsActive
    <3> QED
      BY <1>1, <1>2, <3>1 DEF Due, PendingEdit
  <2> QED
    BY <2>1, <2>2
<1>6. \A a \in Assignments : SlotOf(a)' = SlotOf(a)
  BY <1>1, SameSlots
<1>7. Inserts => Inserts'
  BY <1>1, <1>4 DEF Inserts, Clear, IsActive, Displaced, Mixed
<1> QED
  BY <1>1, <1>3, <1>5, <1>6, <1>7, FilledStays DEF Filled


\* A call that goes on brings the same assignment its row.
LEMMA CallFilled ==
    ASSUME Base, Filled, NEW g \in generation, NEW h, h.assignment = g.assignment,
           Become(g, h), UNCHANGED <<rows, run, request, faults>>,
           faults = 0 /\ h.pc = "commit" /\ Clear(h.assignment) /\ h.slot # Null => h.insert
    PROVE  Filled'
<1>1. generation' = (generation \ {g}) \cup {h} /\ UNCHANGED <<turno, post, shifts, run, request, faults>>
  BY DEF Become, rows
<1>2. Orderly'
  BY <1>1, OrderlyStays DEF Filled
<1>3. \A a \in Assignments : IsActive(a) /\ Due(a) => Due(a)'
  <2>1. \A k \in generation : \E l \in generation' : l.assignment = k.assignment
    BY <1>1
  <2> QED
    BY <1>1, <2>1 DEF Due, PendingEdit
<1>4. \A a \in Assignments : SlotOf(a)' = SlotOf(a)
  BY <1>1, SameSlots
<1>5. faults = 0 /\ Inserts => Inserts'
  BY <1>1 DEF Inserts, Clear, IsActive, Displaced, Mixed
<1> QED
  BY <1>1, <1>2, <1>3, <1>4, <1>5, FilledStays DEF Filled

LEMMA ComputeFilled == ASSUME Base, Filled, NEW g \in generation, Compute(g) PROVE Filled'
<1>1. PICK h : h = [g EXCEPT !.pc = "begin", !.slot = SlotOf(g.assignment)]
  OBVIOUS
<1>2. h.assignment = g.assignment /\ h.pc = "begin"
  BY <1>1, CallParts, CallWithSlot
<1>3. Become(g, h) /\ UNCHANGED <<rows, run, request, faults>>
  BY <1>1 DEF Compute
<1> QED
  BY <1>2, <1>3, CallFilled

\* The guard of a clear assignment has no other row that the transaction leaves.
LEMMA NoConflict ==
    ASSUME Base, Alone, Kept, Filled, faults = 0, generation # {}, NEW a \in Assignments, Clear(a), NEW slot
    PROVE  Conflicts(a, slot) = {}
<1> SUFFICES ASSUME NEW s \in Conflicts(a, slot) PROVE FALSE
  OBVIOUS
<1>1. /\ s \in Live /\ s \notin Purged(a) /\ s.guard = post[a].guard /\ s.assignment # a
      /\ s.assignment \in Assignments /\ post[s.assignment] # Null
      /\ post[s.assignment].guard = s.guard
  BY RowParts DEF Conflicts, Live, Base, Types, TypeOK
<1>2. IsActive(s.assignment)
  <2>1. \A q \in Requests : request[q].pc # "ended"
    BY Mover
  <2> QED
    BY <1>1, <2>1 DEF Kept, Fresh, LiveRows
<1>3. post[s.assignment].position # Null
  BY <1>1 DEF Clear, Mixed
<1>4. post[a].position # Null
  BY DEF Clear, Mixed, IsActive
<1> QED
  BY <1>1, <1>2, <1>3, <1>4 DEF Filled, Orderly, OneRotation, Rotation, Clear

LEMMA BeginFilled == ASSUME Base, Alone, Kept, Filled, NEW g \in generation, Begin(g) PROVE Filled'
<1>0. PICK found : found = (g.slot # Null /\ Conflicts(g.assignment, g.slot) = {})
  OBVIOUS
<1>1. PICK h : h = [g EXCEPT !.pc = "commit", !.insert = found, !.purge = Purged(g.assignment)]
  OBVIOUS
<1>2. h.assignment = g.assignment /\ h.slot = g.slot /\ h.insert = found
  BY <1>1, CallParts, CallWithInsert
<1>3. Become(g, h) /\ UNCHANGED <<rows, run, request, faults>>
  BY <1>0, <1>1 DEF Begin
<1>4. faults = 0 /\ Clear(g.assignment) => Conflicts(g.assignment, g.slot) = {}
  BY NoConflict, CallParts
<1> QED
  BY <1>0, <1>2, <1>3, <1>4, CallFilled

LEMMA FaultFilled == ASSUME Base, Filled, NEW g \in generation, Retry(g) \/ Fail(g) PROVE Filled'
<1>1. faults' # 0 /\ UNCHANGED <<post, shifts>>
  <2>1. faults' = faults + 1 /\ UNCHANGED <<post, shifts>>
    BY DEF Retry, Fail, rows
  <2>2. faults \in Nat
    BY Basics
  <2> QED
    BY <2>1, <2>2
<1>2. \A q \in Requests : request'[q] = request[q]
            \/ (request[q].pc = "waiting" /\ request'[q].pc = "done")
  <2>1. CASE UNCHANGED request
    BY <2>1
  <2>2. CASE g.owner \in Stations /\ NextPass(g.owner)
    <3>1. run[g.owner].pc # "none"
      BY <2>2 DEF Base, Owned
    <3> QED
      BY <2>2, <3>1, NextPassStep
  <2> QED
    BY <2>1, <2>2 DEF Retry, Fail
<1>3. Orderly'
  BY <1>1, <1>2, OrderlyStays DEF Filled
<1> QED
  BY <1>1, <1>3 DEF Filled

\* The new assignment is called, and is the guard's one rotation.
LEMMA InsertFilled ==
    ASSUME Base, Alone, Filled, NEW q \in Requests, NEW a \in Assignments, Insert(q, a)
    PROVE  Filled'
<1> DEFINE new == request[q].post
           r   == [request[q] EXCEPT !.pc = "generating"]
           g   == Called(a, q)
<1>1. /\ request[q].pc = "checked" /\ generation' = generation \cup {g}
      /\ request' = [request EXCEPT ![q] = r]
      /\ UNCHANGED <<turno, shifts, run, faults>>
  BY DEF Insert
<1>2. (faults = 0 => generation = {}) /\ \A o \in Requests : Made(o) => o = q
  BY <1>1, Mover
<1>3. r.pc = "generating"
  BY Basics DEF Request
<1>4. new # Null
  BY <1>1 DEF Base, Types, Noted
<1>5. \/ post' = post
      \/ /\ post[a] = Null /\ post' = [post EXCEPT ![a] = new]
         /\ \A b \in Assignments : ~Same(b, new)
  BY DEF Insert
<1>6. g.assignment = a /\ g.pc = "compute"
  BY DEF Called
<1>7. new.position # Null => \A b \in Assignments : Rotation(b, new.guard) => post[b].position = new.position
  BY <1>1 DEF Filled, Orderly, OneRotation
<1> HIDE DEF r, g, new
<1>8. request'[q] = r /\ \A o \in Requests : o # q => request'[o] = request[o]
  BY <1>1, Basics
<1>9. \A o \in Requests : request'[o].pc \notin {"checked", "ended", "emptied"}
  BY <1>1, <1>2, <1>3, <1>8 DEF Made
<1>10. /\ \A b \in Assignments : post[b] # Null => post'[b] = post[b]
       /\ \A b \in Assignments : b # a => post'[b] = post[b]
  BY <1>5, Basics
<1>11. PostsKeep
  BY <1>10 DEF PostsKeep
<1>12. OneRotation'
  <2>1. CASE post' = post
    BY <1>9, <2>1 DEF Filled, Orderly, OneRotation, Rotation, IsActive
  <2>2. CASE post[a] = Null /\ post' = [post EXCEPT ![a] = new] /\ \A b \in Assignments : ~Same(b, new)
    <3>1. post'[a] = new
      BY <2>2, Basics
    <3>2. \A b \in Assignments : b # a => \A h : Rotation(b, h)' => Rotation(b, h)
      BY <1>10 DEF Rotation, IsActive
    <3>3. \A b \in Assignments : b # a => \A h : ~(Rotation(a, h)' /\ Rotation(b, h)')
      <4> SUFFICES ASSUME NEW b \in Assignments, b # a, NEW h, Rotation(a, h)', Rotation(b, h)'
                   PROVE  FALSE
        OBVIOUS
      <4>1. new.position # Null /\ new.guard = h
        BY <3>1 DEF Rotation
      <4>2. Rotation(b, h)
        BY <3>2
      <4> QED
        BY <1>7, <2>2, <4>1, <4>2 DEF Same, Rotation
    <3>4. \A b, c \in Assignments : \A h : Rotation(b, h)' /\ Rotation(c, h)' => b = c
      <4> SUFFICES ASSUME NEW b \in Assignments, NEW c \in Assignments, NEW h,
                          Rotation(b, h)', Rotation(c, h)', b # c
                   PROVE  FALSE
        OBVIOUS
      <4>1. b # a /\ c # a
        BY <3>3
      <4> QED
        BY <3>2, <4>1 DEF Filled, Orderly, OneRotation
    <3> QED
      BY <1>9, <3>4 DEF OneRotation
  <2> QED
    BY <1>5, <2>1, <2>2
<1>13. Orderly'
  <2>1. RowsMatch'
    BY <1>1, <1>10, RowParts DEF Filled, Orderly, RowsMatch
  <2> QED
    BY <1>9, <1>12, <2>1 DEF Orderly, Leaving
<1>14. ASSUME faults = 0 PROVE Inserts' /\ Placed'
  <2>1. Inserts'
    BY <1>14, <1>1, <1>2, <1>6 DEF Inserts
  <2>2. Due(a)'
    BY <1>1, <1>6 DEF Due
  <2>3. \A b \in Assignments : IsActive(b)' =>
           IF IsActive(b) THEN (Due(b) => Due(b)') ELSE Due(b)'
    <3> SUFFICES ASSUME NEW b \in Assignments, b # a, IsActive(b)'
                 PROVE  IsActive(b) /\ (Due(b) => Due(b)')
      BY <2>2
    <3>1. post'[b] = post[b] /\ IsActive(b)
      BY <1>10 DEF IsActive
    <3>2. PendingEdit(post[b].station) => PendingEdit(post[b].station)'
      <4>1. \A o \in Requests : request[o].pc = "written" => request'[o] = request[o]
        BY <1>1, <1>8
      <4> QED
        BY <1>1, <3>1, <4>1 DEF PendingEdit
    <3> QED
      BY <1>1, <3>1, <3>2 DEF Due, PendingEdit
  <2>4. \A b \in Assignments : IsActive(b)' /\ IsActive(b) => SlotOf(b)' = SlotOf(b) \/ Due(b)'
    BY <1>1, <1>10 DEF IsActive, SlotOf
  <2>5. \A b \in Assignments : post[b] # Null /\ post[b].status = "deleted" => post'[b].status = "deleted"
    BY <1>10
  <2>6. Placed
    BY <1>14 DEF Filled
  <2> QED
    BY <1>1, <1>11, <2>1, <2>3, <2>4, <2>5, <2>6, PlacedStays DEF Live
<1> QED
  BY <1>1, <1>13, <1>14 DEF Filled

LEMMA EndAssignmentFilled ==
    ASSUME Base, Serial, Kept, Filled, NEW q \in Requests, NEW a \in Assignments, EndAssignment(q, a)
    PROVE  Filled'
<1> DEFINE r == [request[q] EXCEPT !.pc = "ended", !.assignment = a]
<1>1. /\ request[q].pc = "idle" /\ (\A o \in Requests : ~Made(o))
      /\ post[a] # Null /\ post[a].status # "deleted"
      /\ post' = [post EXCEPT ![a].status = "ended"] /\ request' = [request EXCEPT ![q] = r]
      /\ UNCHANGED <<turno, shifts, run, generation, faults>>
  BY DEF EndAssignment, MayMove, Serial
<1>2. r.pc = "ended" /\ r.assignment = a
  BY Basics DEF Request
<1> HIDE DEF r
<1>3. request'[q] = r /\ \A o \in Requests : o # q => request'[o] = request[o]
  BY <1>1, Basics
<1>4. /\ PostsKeep /\ post'[a].status = "ended"
      /\ \A b \in Assignments : b # a => post'[b] = post[b]
  BY <1>1, StatusWritten
<1>5. \A b \in Assignments : IsActive(b)' => b # a /\ IsActive(b)
  BY <1>4 DEF IsActive
<1>6. \A o \in Requests : o # q => request'[o].pc \notin {"checked", "ended", "emptied"}
  BY <1>1, <1>3 DEF Made
<1>7. Orderly'
  <2>1. RowsMatch'
    BY <1>1, <1>4, RowParts DEF Filled, Orderly, RowsMatch, PostsKeep
  <2>2. OneRotation'
    BY <1>2, <1>3, <1>4, <1>5, <1>6 DEF Filled, Orderly, OneRotation, Rotation
  <2>3. Leaving'
    BY <1>2, <1>3, <1>4, <1>6 DEF Leaving
  <2> QED
    BY <2>1, <2>2, <2>3 DEF Orderly
<1>8. ASSUME faults = 0 PROVE Inserts' /\ Placed'
  <2>0. generation = {}
    BY <1>1, <1>8, Nobody
  <2>1. Inserts'
    BY <1>1, <2>0 DEF Inserts
  <2>2. \A v : PendingEdit(v) => PendingEdit(v)'
    BY <1>1, <1>3 DEF PendingEdit
  <2>3. \A b \in Assignments : IsActive(b)' => IsActive(b) /\ (Due(b) => Due(b)') /\ SlotOf(b)' = SlotOf(b)
    BY <1>1, <1>4, <1>5, <2>2 DEF Due, PendingEdit, SlotOf
  <2>4. \A b \in Assignments : post[b] # Null /\ post[b].status = "deleted" => post'[b].status = "deleted"
    BY <1>1, <1>4
  <2>5. Placed
    BY <1>8 DEF Filled
  <2> QED
    BY <1>1, <1>4, <2>1, <2>3, <2>4, <2>5, PlacedStays DEF Live
<1> QED
  BY <1>1, <1>7, <1>8 DEF Filled

LEMMA RemoveShiftsFilled == ASSUME Base, Alone, Filled, NEW q \in Requests, RemoveShifts(q) PROVE Filled'
<1> DEFINE R == Rows(request[q].assignment)
           f(s) == [s EXCEPT !.deleted = TRUE]
           r == [request[q] EXCEPT !.pc = "emptied"]
<1>1. /\ request[q].pc = "ended" /\ shifts' = (shifts \ R) \cup {f(s) : s \in R}
      /\ request' = [request EXCEPT ![q] = r]
      /\ UNCHANGED <<turno, post, run, generation, faults>>
  BY DEF RemoveShifts
<1>2. (faults = 0 => generation = {}) /\ \A o \in Requests : Made(o) => o = q
  BY <1>1, Mover
<1>3. r.pc = "emptied" /\ r.assignment = request[q].assignment
  BY Basics DEF Request
<1>4. \A s \in R : /\ s \in shifts /\ s.assignment = request[q].assignment
                   /\ f(s).assignment = s.assignment /\ f(s).station = s.station
                   /\ f(s).position = s.position
  BY Basics DEF Shift, Rows
<1>5. \A s \in shifts \ R : s.assignment # request[q].assignment
  BY DEF Rows
<1> HIDE DEF r, f, R
<1>6. request'[q] = r /\ \A o \in Requests : o # q => request'[o] = request[o]
  BY <1>1, Basics
<1>7. \A o \in Requests : o # q => request'[o].pc \notin {"checked", "ended", "emptied"}
  BY <1>2, <1>6 DEF Made
<1>8. post[request[q].assignment].status = "ended"
  BY <1>1 DEF Filled, Orderly, Leaving
<1>9. Orderly'
  <2>1. RowsMatch'
    BY <1>1, <1>4 DEF Filled, Orderly, RowsMatch
  <2>2. OneRotation'
    BY <1>1, <1>3, <1>6, <1>7 DEF Filled, Orderly, OneRotation, Rotation, IsActive
  <2>3. Leaving'
    BY <1>1, <1>3, <1>6, <1>7, <1>8 DEF Leaving
  <2> QED
    BY <2>1, <2>2, <2>3 DEF Orderly
<1>10. ASSUME faults = 0 PROVE Inserts' /\ Placed'
  <2>1. Inserts'
    BY <1>10, <1>1, <1>2 DEF Inserts
  <2>2. \A v : PendingEdit(v) => PendingEdit(v)'
    BY <1>1, <1>6 DEF PendingEdit
  <2>3. \A b \in Assignments : IsActive(b)' => IsActive(b) /\ (Due(b) => Due(b)')
    BY <1>1, <2>2 DEF Due, PendingEdit, IsActive
  <2>4. \A s \in shifts : post[s.assignment].status # "ended" => s \in shifts'
    BY <1>1, <1>4, <1>8
  <2>5. Placed /\ PostsKeep /\ \A b \in Assignments : SlotOf(b)' = SlotOf(b)
    BY <1>1, <1>10, SameSlots DEF Filled, PostsKeep
  <2>6. \A s \in Live : IsActive(s.assignment)' => s \in Live'
    BY <1>1, <2>4 DEF Live, IsActive
  <2> QED
    BY <1>1, <2>1, <2>3, <2>4, <2>5, <2>6, PlacedStays
<1> QED
  BY <1>1, <1>9, <1>10 DEF Filled

LEMMA RemoveAssignmentFilled ==
    ASSUME Base, Alone, Filled, NEW q \in Requests, RemoveAssignment(q)
    PROVE  Filled'
<1> DEFINE r == [request[q] EXCEPT !.pc = "done"]
<1>0. PICK a : a = request[q].assignment
  OBVIOUS
<1>1. /\ request[q].pc = "emptied" /\ post' = [post EXCEPT ![a].status = "deleted"]
      /\ request' = [request EXCEPT ![q] = r]
      /\ UNCHANGED <<turno, shifts, run, generation, faults>>
  BY <1>0 DEF RemoveAssignment
<1>2. (faults = 0 => generation = {}) /\ \A o \in Requests : Made(o) => o = q
  BY <1>1, Mover
<1>3. r.pc = "done"
  BY Basics DEF Request
<1>4. a \in Assignments /\ post[a] # Null
  BY <1>0, <1>1, Basics, RequestParts DEF Base, Types, Noted
<1> HIDE DEF r
<1>5. request'[q] = r /\ \A o \in Requests : o # q => request'[o] = request[o]
  BY <1>1, Basics
<1>6. /\ PostsKeep /\ post'[a].status = "deleted"
      /\ \A b \in Assignments : b # a => post'[b] = post[b]
  BY <1>1, <1>4, StatusWritten
<1>7. \A b \in Assignments : IsActive(b)' => b # a /\ IsActive(b)
  BY <1>6 DEF IsActive
<1>8. \A o \in Requests : request'[o].pc \notin {"checked", "ended", "emptied"}
  BY <1>2, <1>3, <1>5 DEF Made
<1>9. Orderly'
  <2>1. RowsMatch'
    BY <1>1, <1>6, RowParts DEF Filled, Orderly, RowsMatch, PostsKeep
  <2>2. OneRotation'
    BY <1>6, <1>7, <1>8 DEF Filled, Orderly, OneRotation, Rotation
  <2> QED
    BY <1>8, <2>1, <2>2 DEF Orderly, Leaving
<1>10. ASSUME faults = 0 PROVE Inserts' /\ Placed'
  <2>1. Inserts'
    BY <1>10, <1>1, <1>2 DEF Inserts
  <2>2. \A v : PendingEdit(v) => PendingEdit(v)'
    BY <1>1, <1>5 DEF PendingEdit
  <2>3. \A b \in Assignments : IsActive(b)' => IsActive(b) /\ (Due(b) => Due(b)') /\ SlotOf(b)' = SlotOf(b)
    BY <1>1, <1>6, <1>7, <2>2 DEF Due, PendingEdit, SlotOf
  <2>4. \A b \in Assignments : post[b] # Null /\ post[b].status = "deleted" => post'[b].status = "deleted"
    BY <1>6
  <2>5. Placed
    BY <1>10 DEF Filled
  <2> QED
    BY <1>1, <1>6, <2>1, <2>3, <2>4, <2>5, PlacedStays DEF Live
<1> QED
  BY <1>1, <1>9, <1>10 DEF Filled

\* A guard with a clear assignment has no other active one.
LEMMA OneOfGuard ==
    ASSUME Filled, NEW a \in Assignments, Clear(a), NEW b \in Assignments, IsActive(b),
           post[b].guard = post[a].guard
    PROVE  b = a
<1>1. post[a].position # Null /\ post[b].position # Null
  BY DEF Clear, Mixed, IsActive
<1> QED
  BY <1>1 DEF Filled, Orderly, OneRotation, Rotation, Clear

\* A transaction brings its own assignment the row, and takes a row that is in place from
\* another, or one that is in the way, only where a second guard's row replaces it.
LEMMA CommitFilled ==
    ASSUME Base, Kept, Held, Filled, NEW g \in generation, Commit(g)
    PROVE  Filled'
<1>0. PICK b : b = g.assignment
  OBVIOUS
<1> DEFINE kept == shifts \ g.purge
<1>1. /\ g.pc = "commit" /\ generation' = generation \ {g}
      /\ shifts' = IF g.insert /\ ~Taken(RowOf(g), kept) THEN kept \cup {RowOf(g)} ELSE kept
      /\ UNCHANGED <<turno, post, run, request, faults>>
  BY <1>0 DEF Commit
<1>2. /\ RowOf(g).assignment = b /\ RowOf(g).guard = post[b].guard /\ RowOf(g).station = post[b].station
      /\ RowOf(g).position = post[b].position /\ RowOf(g).slot = g.slot /\ ~RowOf(g).deleted
  BY <1>0 DEF RowOf, RowAt
<1>3. b \in Assignments /\ post[b] # Null
  BY <1>0, CallParts
<1>4. \A s \in shifts : /\ s.assignment \in Assignments /\ post[s.assignment] # Null
                        /\ post[s.assignment].guard = s.guard
                        /\ post[s.assignment].status \in {"active", "ended", "deleted"}
  <2>1. \A c \in Assignments : post[c] # Null => post[c].status \in {"active", "ended", "deleted"}
    BY Basics DEF Post
  <2> QED
    BY <2>1, RowParts DEF Base, Types, TypeOK
<1>5. kept \subseteq shifts' /\ \A s \in shifts' : s \in shifts \/ s = RowOf(g)
  BY <1>1
<1>8. faults = 0 => \A s \in shifts : s \in kept <=> s \notin Purged(b)
  BY <1>0, <1>1 DEF Held, Locks, Open, Purged
<1> HIDE DEF kept
<1>6. Orderly'
  <2>1. RowsMatch'
    BY <1>1, <1>2, <1>5 DEF Filled, Orderly, RowsMatch
  <2> QED
    BY <1>1, <2>1 DEF Filled, Orderly, OneRotation, Rotation, Leaving, IsActive
<1>7. ASSUME faults = 0 PROVE Inserts' /\ Placed'
  <2>0. Fresh /\ Inserts /\ Placed
    BY <1>7 DEF Kept, Filled
  <2>1. Inserts'
    BY <1>1, <2>0 DEF Inserts, Clear, IsActive, Displaced, Mixed
  <2>2. IsActive(b)
    BY <1>0, <2>0 DEF Fresh, Employed
  <2>3. SUFFICES ASSUME NEW a \in Assignments, Clear(a), SlotOf(a) # Null, ~Due(a)'
                 PROVE  Own(a)' \/ Blocked(a)'
    BY <1>1, <2>1 DEF Placed, Clear, IsActive, Displaced, Mixed, SlotOf
  <2>4. SlotOf(a)' = SlotOf(a)
    BY <1>1, SameSlots
  <2>5. \A c : Displaced(c) => Displaced(c)'
    BY <1>1 DEF Displaced
  <2>6. ~PendingEdit(post[a].station) /\ \A h \in generation : h.assignment = a => h = g
    BY <1>1, <2>3 DEF Due, PendingEdit
  <2>7. CASE a = b
    <3>1. g.slot = SlotOf(a)
      BY <1>0, <1>1, <2>0, <2>6, <2>7 DEF Fresh, FreshCalls, Timely
    <3>2. g.insert
      BY <1>0, <1>1, <2>0, <2>3, <2>7, <3>1 DEF Inserts
    <3>3. CASE ~Taken(RowOf(g), kept)
      <4>1. RowOf(g) \in Live'
        BY <1>1, <1>2, <3>2, <3>3 DEF Live
      <4> QED
        BY <1>2, <2>4, <2>7, <3>1, <4>1 DEF Own
    <3>4. CASE Taken(RowOf(g), kept)
      <4>1. PICK s \in kept : s.guard = post[a].guard /\ s.station = post[a].station /\ s.slot = SlotOf(a)
        BY <1>2, <2>7, <3>1, <3>4 DEF Taken
      <4>2. s \in shifts /\ s \in shifts' /\ s \notin Purged(b)
        BY <1>5, <1>7, <1>8, <4>1 DEF kept
      <4>3. PICK c \in Assignments : c = s.assignment
        BY <1>4, <4>2
      <4>4. c # a /\ post[c] # Null /\ post[c].guard = post[a].guard /\ post[c].status # "ended"
        BY <1>4, <2>7, <4>1, <4>2, <4>3 DEF Purged, Purges
      <4>5. post[c].status = "deleted"
        <5>1. ~IsActive(c)
          BY <2>3, <4>4, OneOfGuard
        <5> QED
          BY <1>4, <4>2, <4>3, <4>4, <5>1 DEF IsActive
      <4>6. post[c].station = post[a].station
        BY <4>1, <4>2, <4>3 DEF Filled, Orderly, RowsMatch
      <4>7. c \in Removed(a)' /\ s \in Rows(c)'
        BY <1>1, <4>2, <4>3, <4>4, <4>5, <4>6 DEF Removed, Rows
      <4> QED
        BY <2>4, <4>1, <4>7 DEF Blocked
    <3> QED
      BY <3>3, <3>4
  <2>8. CASE a # b
    <3>0. /\ IsActive(a) /\ post[a] # Null /\ post[a].position # Null
          /\ post[b].guard # post[a].guard
      BY <1>3, <2>2, <2>3, <2>8, OneOfGuard DEF Clear, Mixed, IsActive
    <3>1. Own(a) \/ Blocked(a)
      <4>1. ~Due(a)
        <5>1. \A h \in generation : h.assignment # a
          BY <1>0, <2>6, <2>8
        <5> QED
          BY <2>6, <5>1 DEF Due
      <4> QED
        BY <2>0, <2>3, <4>1 DEF Placed
    <3>2. CASE Own(a)
      <4>1. PICK s \in Live : s.assignment = a /\ s.slot = SlotOf(a)
        BY <3>2 DEF Own
      <4>2. s \in shifts /\ ~s.deleted /\ s.position = post[a].position /\ s.guard = post[a].guard
        BY <1>4, <4>1 DEF Live, Filled, Orderly, RowsMatch
      <4>3. post[a].position # post[b].position
        BY <1>3, <2>3, <3>0 DEF Clear, Displaced
      <4>4. s \notin Purged(b)
        BY <2>8, <3>0, <4>1, <4>2, <4>3 DEF Purged, Purges
      <4>5. s \in Live'
        BY <1>5, <1>7, <1>8, <4>2, <4>4 DEF Live
      <4> QED
        BY <2>4, <4>1, <4>5 DEF Own
    <3>3. CASE Blocked(a)
      <4>1. PICK c \in Removed(a) : Displaced(c) \/ \E s \in Rows(c) : s.slot = SlotOf(a)
        BY <3>3 DEF Blocked
      <4>2. c \in Removed(a)' /\ c \in Assignments /\ post[c].status = "deleted"
            /\ post[c].guard = post[a].guard
        BY <1>1, <4>1 DEF Removed
      <4>3. CASE Displaced(c)
        BY <2>5, <4>2, <4>3 DEF Blocked
      <4>4. CASE \E s \in Rows(c) : s.slot = SlotOf(a)
        <5>1. PICK s \in Rows(c) : s.slot = SlotOf(a)
          BY <4>4
        <5>2. s \in shifts /\ s.assignment = c /\ s.position = post[c].position /\ s.guard = post[a].guard
          BY <1>4, <4>2, <5>1 DEF Rows, Filled, Orderly, RowsMatch
        <5>3. CASE s \in Purged(b)
          <6>1. c # b /\ post[s.assignment].status # "ended"
            BY <2>2, <4>2, <5>2 DEF IsActive
          <6>2. post[b].position # Null /\ post[c].position = post[b].position
            BY <5>2, <5>3, <6>1 DEF Purged, Purges
          <6>3. Displaced(c)
            BY <1>3, <3>0, <4>2, <6>2 DEF Displaced
          <6> QED
            BY <2>5, <4>2, <6>3 DEF Blocked
        <5>4. CASE s \notin Purged(b)
          <6>1. s \in Rows(c)'
            BY <1>5, <1>7, <1>8, <5>2, <5>4 DEF Rows
          <6> QED
            BY <2>4, <4>2, <5>1, <6>1 DEF Blocked
        <5> QED
          BY <5>3, <5>4
      <4> QED
        BY <4>1, <4>3, <4>4
    <3> QED
      BY <3>1, <3>2, <3>3
  <2> QED
    BY <2>7, <2>8
<1> QED
  BY <1>1, <1>6, <1>7 DEF Filled

LEMMA NextFilled == ASSUME Base, Alone, Serial, Kept, Held, Filled, [Next]_vars PROVE Filled'
<1>1. CASE \E q \in Requests, p \in Positions, slot \in Slots \cup {Null} : EditPosition(q, p, slot)
  BY <1>1, EditFilled
<1>2. CASE \E q \in Requests, g \in Guards, p \in Positions \cup {Null}, st \in Stations,
              slot \in Slots \cup {Null} : Create(q, g, p, st, slot)
  BY <1>2, CreateFilled
<1>3. CASE \E q \in Requests, a \in Assignments : Insert(q, a) \/ EndAssignment(q, a)
  BY <1>3, InsertFilled, EndAssignmentFilled
<1>4. CASE \E q \in Requests : JoinRun(q) \/ Answer(q) \/ RemoveShifts(q) \/ RemoveAssignment(q)
  BY <1>4, JoinFilled, AnswerFilled, RemoveShiftsFilled, RemoveAssignmentFilled
<1>5. CASE \E st \in Stations : LoadAssignments(st) \/ PassEnds(st)
  BY <1>5, LoadFilled, EndFilled
<1>6. CASE \E g \in generation : Compute(g) \/ Begin(g) \/ Commit(g) \/ Retry(g) \/ Fail(g)
  BY <1>6, ComputeFilled, BeginFilled, CommitFilled, FaultFilled
<1>7. CASE UNCHANGED vars
  <2>1. UNCHANGED <<turno, post, shifts, run, generation, request, faults>>
    BY <1>7 DEF vars, rows
  <2>2. EditsStay /\ \A a \in Assignments : SlotOf(a)' = SlotOf(a)
    BY <2>1, SameSlots DEF EditsStay, PendingEdit
  <2>3. Orderly'
    BY <2>1, OrderlyStays DEF Filled
  <2> QED
    BY <2>1, <2>2, <2>3, FilledAlone
<1> QED
  BY <1>1, <1>2, <1>3, <1>4, <1>5, <1>6, <1>7 DEF Next

LEMMA InitFilled == Init => Filled
<1> SUFFICES ASSUME Init PROVE Filled
  OBVIOUS
<1>1. \A q \in Requests : request[q].pc = "idle"
  BY DEF Init, NotMade
<1>2. Orderly
  BY <1>1 DEF Init, Orderly, RowsMatch, OneRotation, Rotation, IsActive, Leaving
<1>3. Inserts /\ Placed
  BY DEF Init, Inserts, Placed, Clear, IsActive
<1> QED
  BY <1>2, <1>3 DEF Filled

\* When all is quiet nothing is due any more: the row is there, or a removed one.
LEMMA QuietIsFilled == Base /\ Filled => NothingMissing
<1> SUFFICES ASSUME Base, Filled, Quiet, faults = 0, NEW a \in Assignments, IsActive(a), SlotOf(a) # Null,
                    ~Displaced(a), ~Mixed(a), ~Blocked(a)
             PROVE  Booked(a)
  BY DEF NothingMissing, Scheduled
<1>1. Clear(a) /\ Placed
  BY DEF Clear, Filled
<1>2. post[a].station \in Stations
  BY RowParts DEF IsActive
<1>3. ~Due(a)
  BY <1>2 DEF Due, Quiet, Made, NoRun, PendingEdit
<1>4. PICK s \in Live : s.assignment = a /\ s.slot = SlotOf(a)
  BY <1>1, <1>3 DEF Placed, Own
<1>5. s.guard = post[a].guard
  BY <1>4 DEF Live, Base, Types, TypeOK
<1> QED
  BY <1>4, <1>5 DEF Booked, Clash

-----------------------------------------------------------------------------
(* Two rows of one rotation: its transaction destroys the old one before it inserts. *)

Posted == faults = 0 => \A s, t \in Live :
    s.guard = t.guard /\ Null \notin {s.position, t.position} => s = t

LEMMA NextPosted == ASSUME Sound, Filled, Posted, [Next]_vars PROVE Posted'
<1> SUFFICES ASSUME faults' = 0, NEW s \in Live', NEW t \in Live', s.guard = t.guard,
                    s.position # Null, t.position # Null
             PROVE  s = t
  BY DEF Posted
<1>0. Base /\ Alone /\ Kept /\ Held
  BY DEF Sound
<1>1. faults = 0
  BY <1>0, FaultsOnlyGrow
<1>2. CASE s \in Live /\ t \in Live
  BY <1>1, <1>2 DEF Posted
<1>3. ASSUME NEW u \in Live', u \notin Live PROVE \E g \in generation : Commit(g) /\ u = RowOf(g)
  <2>1. CASE \E q \in Requests : RemoveShifts(q)
    <3>1. PICK q \in Requests : RemoveShifts(q)
      BY <2>1
    <3>2. \A w \in Rows(request[q].assignment) : [w EXCEPT !.deleted = TRUE].deleted
      BY <1>0, Basics DEF Shift, Rows
    <3> QED
      BY <1>3, <3>1, <3>2 DEF RemoveShifts, Live
  <2>2. CASE \E g \in generation : Commit(g)
    BY <1>3, <2>2 DEF Commit, Live
  <2>3. CASE UNCHANGED shifts
    BY <1>3, <2>3 DEF Live
  <2>4. UNCHANGED shifts \/ (\E q \in Requests : RemoveShifts(q)) \/ \E g \in generation : Commit(g)
    BY DEF Next, vars, rows, EditPosition, Create, Insert, EndAssignment, JoinRun, Answer,
           RemoveAssignment, LoadAssignments, PassEnds, Compute, Begin, Retry, Fail
  <2> QED
    BY <2>1, <2>2, <2>3, <2>4
<1>4. ASSUME NEW u \in Live', NEW w \in Live', u.guard = w.guard, u.position # Null, w.position # Null,
             u \notin Live
      PROVE  u = w
  <2>1. PICK g \in generation : Commit(g) /\ u = RowOf(g)
    BY <1>3, <1>4
  <2>2. /\ g.pc = "commit" /\ \A x \in shifts' : x = u \/ (x \in shifts /\ x \notin g.purge)
    BY <2>1 DEF Commit
  <2>3. u.guard = post[g.assignment].guard /\ u.position = post[g.assignment].position
    BY <2>1 DEF RowOf, RowAt
  <2>4. IsActive(g.assignment) /\ g.assignment \in Assignments
    BY <1>0, <1>1, CallParts DEF Kept, Fresh, Employed
  <2>5. SUFFICES ASSUME w # u PROVE FALSE
    OBVIOUS
  <2>6. w \in Live /\ w \in shifts /\ w \notin g.purge
    BY <2>2, <2>5 DEF Live
  <2>7. /\ w.assignment \in Assignments /\ post[w.assignment].guard = w.guard
        /\ w.position = post[w.assignment].position
    BY <1>0, <2>6, RowParts DEF Base, Types, TypeOK, Filled, Orderly, RowsMatch
  <2>8. IsActive(w.assignment)
    <3>1. \A q \in Requests : request[q].pc # "ended"
      BY <1>0, <1>1, Mover
    <3> QED
      BY <1>0, <1>1, <2>6, <3>1 DEF Kept, Fresh, LiveRows
  <2>9. w.assignment = g.assignment
    BY <1>4, <2>3, <2>4, <2>7, <2>8 DEF Filled, Orderly, OneRotation, Rotation
  <2>10. w \in g.purge
    BY <1>0, <1>1, <2>2, <2>6, <2>9 DEF Held, Locks, Open, Purged, Purges
  <2> QED
    BY <2>6, <2>10
<1> QED
  BY <1>2, <1>4

LEMMA NextAll == ASSUME Serial, Sound, Filled, Posted, [Next]_vars PROVE (Sound /\ Filled /\ Posted)'
BY NextSound, NextFilled, NextPosted DEF Sound

LEMMA InitPosted == Init => Posted
BY DEF Init, Posted, Live

\* "A guard can't be two places at once" (generateShiftsForAssignment): two of a guard's
\* transactions were in flight at once before he is, whatever overlaps and fails; and where
\* requests that create or delete come one at a time and nothing failed, one of the two rows
\* is ad hoc.  For any number of guards, stations, requests, passes, retries and failures.
THEOREM NobodyIsBookedTwice == Spec => []NoDoubleBooking
<1>1. CASE Serial
  <2>1. Sound /\ Filled /\ Posted => NoDoubleBooking
    <3> SUFFICES ASSUME Sound, Filled, Posted, NEW s \in Live, NEW t \in Live, s # t, s.guard = t.guard,
                        Clash(s.slot, t.slot)
                 PROVE  s.guard \in crossed /\ (faults > 0 \/ Null \in {s.position, t.position})
      BY DEF NoDoubleBooking
    <3>1. s.guard \in crossed
      BY DEF Sound, Base, Books, Booking
    <3>2. faults \in Nat
      BY Basics DEF Sound
    <3> QED
      BY <3>1, <3>2 DEF Posted
  <2>2. Sound /\ Filled /\ Posted /\ [Next]_vars => (Sound /\ Filled /\ Posted)'
    BY <1>1, NextAll
  <2> QED
    BY <2>1, <2>2, InitSound, InitFilled, InitPosted, PTL DEF Spec
<1>2. CASE ~Serial
  <2>1. Base => NoDoubleBooking
    BY <1>2, ScheduleAssumption DEF Serial, Base, Books, Booking, NoDoubleBooking
  <2>2. Base /\ [Next]_vars => Base'
    BY NextBase
  <2> QED
    BY <2>1, <2>2, InitBase, PTL DEF Spec
<1> QED
  BY <1>1, <1>2

\* The schedule is sound when all is quiet and no transaction has failed: nothing stale is
\* left, and no assignment lacks its shift but for the reasons named with NothingMissing.
\* For any number of guards, stations, positions, assignments and requests, with
\* transactions that overlap, where requests that create or delete come one at a time
\* (generateShiftsForAssignment, regenerateStationShiftsSafe).
THEOREM ScheduleSound == Serial => (Spec => []ScheduleIsSound)
<1> SUFFICES ASSUME Serial PROVE Spec => []ScheduleIsSound
  OBVIOUS
<1>1. Sound /\ Filled => ScheduleIsSound
  BY QuietIsFresh, QuietIsFilled DEF Sound, ScheduleIsSound
<1>2. Sound /\ Filled /\ [Next]_vars => (Sound /\ Filled)'
  BY NextSound, NextFilled DEF Sound
<1> QED
  BY <1>1, <1>2, InitSound, InitFilled, PTL DEF Spec
=============================================================================
