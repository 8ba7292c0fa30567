---------------------------- MODULE SignalReporting ----------------------------
(***************************************************************************)
(* What the central station promises a panel: a report it answers is stored,   *)
(* and every report is answered in the end.                                    *)
(***************************************************************************)
CONSTANT Reports

VARIABLES
    sent,       \* reports a panel has made
    stored,     \* reports that are in the database
    answered    \* reports that have had their ACK

reporting == <<sent, stored, answered>>

Init == sent = {} /\ stored = {} /\ answered = {}

Send(r) ==
    /\ r \notin sent /\ sent' = sent \cup {r}
    /\ UNCHANGED <<stored, answered>>

Store(r) ==
    /\ r \in sent \ stored /\ stored' = stored \cup {r}
    /\ UNCHANGED <<sent, answered>>

Answer(r) ==
    /\ r \in stored \ answered /\ answered' = answered \cup {r}
    /\ UNCHANGED <<sent, stored>>

Next == \E r \in Reports : Send(r) \/ Store(r) \/ Answer(r)

Safe == Init /\ [][Next]_reporting
Spec == Safe /\ \A r \in Reports : WF_reporting(Store(r)) /\ WF_reporting(Answer(r))
=============================================================================
