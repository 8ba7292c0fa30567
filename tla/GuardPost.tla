------------------------------ MODULE GuardPost ------------------------------
(***************************************************************************)
(* What attendance promises, with the records left out: each guard is either  *)
(* at one station or off the clock, and passes through "off" between two       *)
(* stations.                                                                   *)
(***************************************************************************)
CONSTANTS Guards, Stations, Off

VARIABLE post   \* [Guards -> Stations \cup {Off}]

Init == post = [g \in Guards |-> Off]

Arrive(g) ==
    /\ post[g] = Off
    /\ \E s \in Stations : post' = [post EXCEPT ![g] = s]

Leave(g) ==
    /\ post[g] # Off
    /\ post' = [post EXCEPT ![g] = Off]

Next == \E g \in Guards : Arrive(g) \/ Leave(g)

Spec == Init /\ [][Next]_post
=============================================================================
