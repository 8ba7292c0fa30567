-------------------------- MODULE MCCommunicationWallet --------------------------
(* An operational message that may go by WhatsApp or SMS, and a critical alert that  *)
(* goes by push and SMS.                                                             *)
EXTENDS CommunicationWallet

CONSTANTS note, alert

MCPlan     == [m \in {note, alert} |-> IF m = note THEN <<"whatsapp", "sms">> ELSE <<"push", "sms">>]
MCEstimate == [c \in {"push", "whatsapp", "sms"} |-> IF c = "push" THEN 0 ELSE 2]
MCActual   == [c \in {"push", "whatsapp", "sms"} |->
                  CASE c = "push" -> {0} [] c = "whatsapp" -> {2} [] OTHER -> {1, 2, 3}]
=============================================================================
