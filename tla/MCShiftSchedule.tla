---------------------------- MODULE MCShiftSchedule ----------------------------
(* Two stations with one position each, or one with both; a late shift runs into  *)
(* the night.  Requests, assignments and guards are interchangeable.               *)
EXTENDS ShiftSchedule, TLC

CONSTANTS p1, p2, st1, st2, day, night, late

MCStationOf  == [p \in {p1, p2} |-> IF p = p1 THEN st1 ELSE st2]
MCOneStation == [p \in {p1, p2} |-> st1]
MCOverlaps   == {<<late, night>>}

Symmetry == Permutations(Requests) \cup Permutations(Assignments) \cup Permutations(Guards)
=============================================================================
