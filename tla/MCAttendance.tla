---------------------------- MODULE MCAttendance ----------------------------
(* Attendance on a day of two stations: back-to-back shifts at the first one   *)
(* and a later shift at the second one.                                        *)
EXTENDS Attendance, TLC

CONSTANTS g1, a, b, early, late, other

MCSched ==
    [h \in {early, late, other} |->
        CASE h = early -> [guard |-> g1, station |-> a, start |-> 0, end |-> 1]
          [] h = late  -> [guard |-> g1, station |-> a, start |-> 2, end |-> 3]
          [] h = other -> [guard |-> g1, station |-> b, start |-> 2, end |-> 3]]

\* Records and workers are interchangeable.
Symmetry == Permutations(Records) \cup Permutations(Sweepers)

=============================================================================
