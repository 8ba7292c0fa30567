------------------------------ MODULE ShiftSchedule ------------------------------
(***************************************************************************)
(* The schedule of one tenant on one worker: assignments of guards to positions  *)
(* (or, ad hoc, to a station), the shifts generated from them, and the            *)
(* regeneration of a station's shifts after its positions change, which is        *)
(* coalesced: one pass at a time for each station, and one more when a request    *)
(* came in meanwhile.  The day has a few slots, and an assignment's rows are one   *)
(* row, in the slot of its position.  Relief assignments are not modelled.         *)
(***************************************************************************)
EXTENDS Integers, FiniteSets

CONSTANTS
    Guards,
    Stations,
    Positions,
    StationOf,     \* [Positions -> Stations]
    Slots,         \* times of the day, from start to end
    Overlaps,      \* pairs of slots that overlap
    Assignments,   \* bound: rows of guardAssignment
    Requests,      \* bound: requests, each made once
    Null,
    Concurrent,    \* may requests that create or delete overlap with others?
    MaxFaults      \* bound: transactions that fail

ASSUME ScheduleAssumption ==
    /\ StationOf \in [Positions -> Stations]
    /\ Null \notin Guards \cup Stations \cup Positions \cup Slots \cup Assignments \cup Requests
    /\ Overlaps \subseteq Slots \X Slots
    /\ Stations \cap Requests = {}
    /\ Concurrent \in BOOLEAN /\ MaxFaults \in Nat

VARIABLES
    turno,         \* the slot of each position; Null once it is deleted
    post,          \* the guardAssignment rows
    shifts,        \* the shift rows, the soft-deleted ones too
    run,           \* stationRegenInFlight, and how far its loop is
    generation,    \* calls of generateShiftsForAssignment
    request,
    crossed,       \* history: guards of whom two transactions were in flight at once
    faults

rows == <<turno, post, shifts>>
vars == <<rows, run, generation, request, crossed, faults>>

Post    == [status : {"active", "ended", "deleted"}, guard : Guards, station : Stations,
            position : Positions \cup {Null}, slot : Slots \cup {Null}]
ASSUME NullIsNoPost == Null \notin Post

Shift   == [assignment : Assignments, guard : Guards, station : Stations,
            position : Positions \cup {Null}, slot : Slots, deleted : BOOLEAN]
Run     == [pc : {"none", "load", "pass"}, dirty : BOOLEAN]
NoRun   == [pc |-> "none", dirty |-> FALSE]
\* A transaction has destroyed the rows "purge", which it locks, and of those to be
\* created it keeps what the rows it has read leave ("insert").
Call    == [assignment : Assignments, owner : Stations \cup Requests \cup {Null},
            pc : {"compute", "begin", "commit"}, slot : Slots \cup {Null}, insert : BOOLEAN,
            purge : SUBSET Shift]
Request == [pc : {"idle", "written", "waiting", "checked", "generating", "ended", "emptied", "done"},
            station : Stations \cup {Null}, post : Post \cup {Null},
            assignment : Assignments \cup {Null}]
NotMade == [pc |-> "idle", station |-> Null, post |-> Null, assignment |-> Null]

Clash(x, y) == x = y \/ <<x, y>> \in Overlaps \/ <<y, x>> \in Overlaps
Rows(a)     == {s \in shifts : s.assignment = a}
IsActive(a) == post[a] # Null /\ post[a].status = "active"
\* The slot computeShiftsForAssignment gives it now.
SlotOf(a)   == IF post[a].position = Null THEN post[a].slot ELSE turno[post[a].position]
Calls(o)    == {g \in generation : g.owner = o}
Open        == {g \in generation : g.pc = "commit"}
GuardOf(g)  == post[g.assignment].guard

TypeOK ==
    /\ turno \in [Positions -> Slots \cup {Null}]
    /\ post \in [Assignments -> Post \cup {Null}]
    /\ shifts \subseteq Shift
    /\ \A s \in shifts : post[s.assignment] # Null /\ post[s.assignment].guard = s.guard
    /\ run \in [Stations -> Run]
    /\ generation \subseteq Call
    /\ \A g \in generation : post[g.assignment] # Null
    /\ request \in [Requests -> Request]
    /\ crossed \subseteq Guards
    /\ faults \in 0 .. MaxFaults

Init ==
    /\ turno \in [Positions -> Slots]
    /\ post = [a \in Assignments |-> Null]
    /\ shifts = {}
    /\ run = [st \in Stations |-> NoRun]
    /\ generation = {}
    /\ request = [q \in Requests |-> NotMade]
    /\ crossed = {}
    /\ faults = 0

Made(q)   == request[q].pc \notin {"idle", "done"}
Moving(q) == Made(q) /\ request[q].station = Null
\* Otherwise position edits overlap with one another only.
MayEdit == Concurrent \/ \A q \in Requests : ~Moving(q)
MayMove == Concurrent \/ \A q \in Requests : ~Made(q)

Called(a, o) == [assignment |-> a, owner |-> o, pc |-> "compute", slot |-> Null, insert |-> FALSE,
                 purge |-> {}]
Become(g, h) == generation' = (generation \ {g}) \cup {h}

-----------------------------------------------------------------------------
(* stationPositionUpdate, stationPositionDelete, regenerateStationShiftsSafe *)

EditPosition(q, p, slot) ==
    /\ request[q].pc = "idle" /\ MayEdit
    /\ turno[p] # Null /\ slot # turno[p]
    /\ turno' = [turno EXCEPT ![p] = slot]
    /\ request' = [request EXCEPT ![q].pc = "written", ![q].station = StationOf[p]]
    /\ UNCHANGED <<post, shifts, run, generation, crossed, faults>>

\* A run in flight is flagged, and its promise shared.  Mutant: shared as it is.
MutantFlagged(r) == r
Flagged(r) == [r EXCEPT !.dirty = TRUE]

JoinRun(q) ==
    LET st == request[q].station IN
    /\ request[q].pc = "written"
    /\ run' = [run EXCEPT ![st] =
          IF @.pc = "none" THEN [pc |-> "load", dirty |-> FALSE] ELSE Flagged(@)]
    /\ request' = [request EXCEPT ![q].pc = "waiting"]
    /\ UNCHANGED <<rows, generation, crossed, faults>>

\* generateYearlyScheduleForStation: the active assignments, in one batch.
LoadAssignments(st) ==
    /\ run[st].pc = "load"
    /\ run' = [run EXCEPT ![st].pc = "pass"]
    /\ generation' = generation \cup
          {Called(a, st) : a \in {b \in Assignments : IsActive(b) /\ post[b].station = st}}
    /\ UNCHANGED <<rows, request, crossed, faults>>

\* The pass is over: another one if it was flagged, or the callers are answered.
NextPass(st) ==
    IF run[st].dirty
    THEN run' = [run EXCEPT ![st] = [pc |-> "load", dirty |-> FALSE]] /\ UNCHANGED request
    ELSE /\ run' = [run EXCEPT ![st] = NoRun]
         /\ request' = [q \in Requests |->
               IF request[q].pc = "waiting" /\ request[q].station = st
               THEN [request[q] EXCEPT !.pc = "done"] ELSE request[q]]

PassEnds(st) ==
    /\ run[st].pc = "pass" /\ Calls(st) = {}
    /\ NextPass(st)
    /\ UNCHANGED <<rows, generation, crossed, faults>>

-----------------------------------------------------------------------------
(* createAssignment *)

\* One active rotation for a guard: another one is refused, the same one used again.
\* Ad hoc: no active assignment at another station.
Allowed(g, p, st) ==
    \A a \in Assignments : IsActive(a) /\ post[a].guard = g =>
        IF p = Null THEN post[a].station = st
                    ELSE post[a].position \in {Null, p}

Create(q, g, p, st, slot) ==
    /\ request[q].pc = "idle" /\ MayMove
    /\ IF p = Null THEN slot # Null ELSE st = StationOf[p] /\ slot = Null
    /\ Allowed(g, p, st)
    /\ request' = [request EXCEPT ![q].pc = "checked", ![q].post =
          [status |-> "active", guard |-> g, station |-> st, position |-> p, slot |-> slot]]
    /\ UNCHANGED <<rows, run, generation, crossed, faults>>

Same(a, new) == IsActive(a) /\ new.position # Null
                /\ post[a].guard = new.guard /\ post[a].position = new.position

Insert(q, a) ==
    LET new == request[q].post IN
    /\ request[q].pc = "checked"
    /\ \/ Same(a, new) /\ UNCHANGED post
       \/ /\ \A b \in Assignments : ~Same(b, new)
          /\ post[a] = Null /\ post' = [post EXCEPT ![a] = new]
    /\ generation' = generation \cup {Called(a, q)}
    /\ request' = [request EXCEPT ![q].pc = "generating"]
    /\ UNCHANGED <<turno, shifts, run, crossed, faults>>

\* A generation that fails is logged and forgotten.
Answer(q) ==
    /\ request[q].pc = "generating" /\ Calls(q) = {}
    /\ request' = [request EXCEPT ![q].pc = "done"]
    /\ UNCHANGED <<rows, run, generation, crossed, faults>>

-----------------------------------------------------------------------------
(* guardAssignmentDelete: three writes *)

EndAssignment(q, a) ==
    /\ request[q].pc = "idle" /\ MayMove
    /\ post[a] # Null /\ post[a].status # "deleted"
    /\ post' = [post EXCEPT ![a].status = "ended"]
    /\ request' = [request EXCEPT ![q].pc = "ended", ![q].assignment = a]
    /\ UNCHANGED <<turno, shifts, run, generation, crossed, faults>>

\* The rows are soft-deleted: they keep their place in the unique index.  Rows a
\* transaction has destroyed are locked until it ends.
RemoveShifts(q) ==
    /\ request[q].pc = "ended"
    /\ \A g \in Open : g.purge \cap Rows(request[q].assignment) = {}
    /\ shifts' = (shifts \ Rows(request[q].assignment))
                 \cup {[s EXCEPT !.deleted = TRUE] : s \in Rows(request[q].assignment)}
    /\ request' = [request EXCEPT ![q].pc = "emptied"]
    /\ UNCHANGED <<turno, post, run, generation, crossed, faults>>

RemoveAssignment(q) ==
    /\ request[q].pc = "emptied"
    /\ post' = [post EXCEPT ![request[q].assignment].status = "deleted"]
    /\ request' = [request EXCEPT ![q].pc = "done"]
    /\ UNCHANGED <<turno, shifts, run, generation, crossed, faults>>

-----------------------------------------------------------------------------
(* generateShiftsForAssignment *)

\* The rows are computed first, outside the transaction.
Compute(g) ==
    /\ g.pc = "compute"
    /\ Become(g, [g EXCEPT !.pc = "begin", !.slot = SlotOf(g.assignment)])
    /\ UNCHANGED <<rows, run, request, crossed, faults>>

\* Rows of this assignment, of its position, and of the guard's ended assignments.
Purges(a, s) ==
    \/ s.assignment = a
    \/ post[a].position # Null /\ s.position = post[a].position
    \/ s.guard = post[a].guard /\ post[s.assignment].status = "ended"
Purged(a) == {s \in shifts : Purges(a, s)}

\* Rows of the guard's other assignments at that time.  Mutant: not looked for.
MutantConflicts(a, slot) == {}
Conflicts(a, slot) ==
    {s \in shifts \ Purged(a) :
        ~s.deleted /\ s.guard = post[a].guard /\ s.assignment # a /\ Clash(s.slot, slot)}

\* The transaction begins: it destroys and locks, and reads the guard's other rows as
\* committed by then.  Only what is destroyed keeps transactions apart: the rows, and for
\* an assignment or a position the place of the rows to be created.
Begin(g) ==
    /\ g.pc = "begin"
    /\ \A h \in Open :
          /\ h.assignment # g.assignment
          /\ post[h.assignment].position = Null
             \/ post[h.assignment].position # post[g.assignment].position
          /\ h.purge \cap Purged(g.assignment) = {}
    /\ Become(g, [g EXCEPT !.pc = "commit",
          !.insert = g.slot # Null /\ Conflicts(g.assignment, g.slot) = {},
          !.purge = Purged(g.assignment)])
    /\ crossed' = IF \E h \in Open : GuardOf(h) = GuardOf(g)
                  THEN crossed \cup {GuardOf(g)} ELSE crossed
    /\ UNCHANGED <<rows, run, request, faults>>

\* A row whose guard, station and time are taken, by a soft-deleted row too, is ignored.
\* Mutant: its time is read again from the position, which may be deleted by now.
RowAt(a, slot) == [assignment |-> a, guard |-> post[a].guard, station |-> post[a].station,
                   position |-> post[a].position, slot |-> slot, deleted |-> FALSE]
MutantRowOf(g) == RowAt(g.assignment, SlotOf(g.assignment))
RowOf(g) == RowAt(g.assignment, g.slot)
Taken(row, S) == \E s \in S : s.guard = row.guard /\ s.station = row.station /\ s.slot = row.slot

Commit(g) ==
    /\ g.pc = "commit"
    /\ LET kept == shifts \ g.purge IN
       shifts' = IF g.insert /\ ~Taken(RowOf(g), kept) THEN kept \cup {RowOf(g)} ELSE kept
    /\ generation' = generation \ {g}
    /\ UNCHANGED <<turno, post, run, request, crossed, faults>>

\* A deadlock: rolled back, and tried again with the same rows.
Retry(g) ==
    /\ g.pc = "commit" /\ faults < MaxFaults /\ faults' = faults + 1
    /\ Become(g, [g EXCEPT !.pc = "begin", !.insert = FALSE, !.purge = {}])
    /\ UNCHANGED <<rows, run, request, crossed>>

\* Given up.  The pass ends at once; the other calls of its batch go on by themselves.
Fail(g) ==
    /\ faults < MaxFaults /\ faults' = faults + 1
    /\ IF g.owner \in Stations
       THEN /\ generation' = {IF h.owner = g.owner THEN [h EXCEPT !.owner = Null] ELSE h :
                                 h \in generation \ {g}}
            /\ NextPass(g.owner)
       ELSE generation' = generation \ {g} /\ UNCHANGED <<run, request>>
    /\ UNCHANGED <<rows, crossed>>

-----------------------------------------------------------------------------
Next ==
    \/ \E q \in Requests, p \in Positions, slot \in Slots \cup {Null} : EditPosition(q, p, slot)
    \/ \E q \in Requests, g \in Guards, p \in Positions \cup {Null}, st \in Stations,
          slot \in Slots \cup {Null} : Create(q, g, p, st, slot)
    \/ \E q \in Requests, a \in Assignments : Insert(q, a) \/ EndAssignment(q, a)
    \/ \E q \in Requests : JoinRun(q) \/ Answer(q) \/ RemoveShifts(q) \/ RemoveAssignment(q)
    \/ \E st \in Stations : LoadAssignments(st) \/ PassEnds(st)
    \/ \E g \in generation : Compute(g) \/ Begin(g) \/ Commit(g) \/ Retry(g) \/ Fail(g)

Spec == Init /\ [][Next]_vars

-----------------------------------------------------------------------------
(* Properties *)

Live  == {s \in shifts : ~s.deleted}
Quiet == (\A q \in Requests : ~Made(q)) /\ generation = {} /\ \A st \in Stations : run[st] = NoRun

\* "A guard can't be two places at once" (generateShiftsForAssignment).  A transaction does
\* not see what another one in flight inserts, so a guard may be: then two of his were in
\* flight at once, and where requests that create or delete come one at a time and nothing
\* failed, one of the rows is ad hoc.
NoDoubleBooking ==
    \A s, t \in Live : s # t /\ s.guard = t.guard /\ Clash(s.slot, t.slot) =>
        /\ s.guard \in crossed
        /\ Concurrent \/ faults > 0 \/ Null \in {s.position, t.position}

\* No row of an assignment that is gone, none at a time its position no longer has: edits
\* of a position in a burst are all in the schedule once they are answered
\* (regenerateStationShiftsSafe).
NothingStale ==
    Quiet /\ faults = 0 =>
        \A s \in Live : IsActive(s.assignment) /\ s.slot = SlotOf(s.assignment)

\* An active assignment has its row, or its guard another one at that time.  Three things
\* may stand in the way: a row removed with an assignment before, even when a second guard's
\* rows at its position have replaced it since; a second guard at the same position, whose
\* rows replace those of the first; and an ad hoc assignment beside the rotation, since the
\* row that was dropped for the other's stays away when that one moves.
Booked(a)    == \E s \in Live : s.guard = post[a].guard /\ Clash(s.slot, SlotOf(a))
Displaced(a) == \E b \in Assignments : post[b] # Null /\ post[b].guard # post[a].guard
                   /\ post[a].position # Null /\ post[b].position = post[a].position
Mixed(a)     == \E b \in Assignments : post[b] # Null /\ post[b].guard = post[a].guard
                   /\ post[b].position = Null
Removed(a)   == {b \in Assignments : post[b] # Null /\ post[b].status = "deleted"
                   /\ post[b].guard = post[a].guard /\ post[b].station = post[a].station}
Blocked(a)   == \E b \in Removed(a) : Displaced(b) \/ \E s \in Rows(b) : s.slot = SlotOf(a)
Scheduled(a) == IsActive(a) /\ SlotOf(a) # Null => Booked(a) \/ Displaced(a) \/ Mixed(a)
NothingMissing ==
    Quiet /\ faults = 0 => \A a \in Assignments : Scheduled(a) \/ Blocked(a)

ScheduleIsSound == NothingStale /\ NothingMissing

\* "Generation hard-deletes (force) before recreating, so soft-deleted rows never linger to
\* block a re-create" (models/shift.ts): an assignment is never left without its row by one.
RemovedRowsDoNotBlock ==
    Quiet /\ faults = 0 => \A a \in Assignments : Scheduled(a)
=============================================================================
