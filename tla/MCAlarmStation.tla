----------------------------- MODULE MCAlarmStation -----------------------------
(* The constants of the alarm runs: a burglary, its restore (in SIA a code of its  *)
(* own) and the NULL keep-alive of a DC-09 communicator, with the categories and     *)
(* priorities that the SIA table gives them.                                         *)
EXTENDS AlarmStation

MCKinds   == {"burglary", "restore", "linkTest"}
MCCode    == [k \in MCKinds |-> CASE k = "burglary" -> "BA" [] k = "restore" -> "BR" [] OTHER -> "NU"]

\* The rows of the SIA table for these codes; NU is not in it.
SiaCodes == [c \in {"BA", "BR"} |-> IF c = "BA" THEN [category |-> "burglary", priority |-> 2]
                                                 ELSE [category |-> "restore", priority |-> 4]]
MapSiaCode(c) == IF c \in DOMAIN SiaCodes THEN SiaCodes[c]
                 ELSE [category |-> "trouble", priority |-> 3]

MCCategory == [k \in MCKinds |-> MapSiaCode(MCCode[k]).category]
MCUrgency  == [k \in MCKinds |-> MapSiaCode(MCCode[k]).priority]
MCSla      == <<1, 1, 1, 2, 2>>
=============================================================================
