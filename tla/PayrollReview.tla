--------------------------- MODULE PayrollReview ---------------------------
(***************************************************************************)
(* What administrators do to one attendance record: approve or reject it, ask  *)
(* for corrections, apply or refuse them, close the payroll period, and edit   *)
(* the tenant's nominaSettings, one blob every writer replaces as a whole.     *)
(* Each request loads its rows, checks them and writes in later queries.       *)
(***************************************************************************)
EXTENDS Integers, Sequences, FiniteSets

CONSTANTS
    Editors,    \* requests in flight from the CRM
    Null,
    MaxCorrs,   \* bound: corrections asked for
    MaxSaves,   \* bound: settings requests
    MaxPunches, \* bound: punches on the record
    MaxFaults   \* bound: failed queries and dying handlers

ASSUME PayrollAssumption ==
    /\ {MaxCorrs, MaxSaves, MaxPunches, MaxFaults} \subseteq Nat
    /\ Null \notin Nat

VARIABLES
    record,   \* the guardShift row
    corrs,    \* attendanceCorrection rows, in order of creation
    settings, \* the nominaSettings blob, as far as the lock goes
    request,  \* what each request has loaded and does next
    written,  \* how often each correction was written to the record
    saves, punches, faults

vars == <<record, corrs, settings, request, written, saves, punches, faults>>

Decisions   == {"approved", "rejected"}
Approvals   == Decisions \cup {"none", "pending"}
\* value: which correction the field comes from, 0 as it was punched
GuardShift  == [value : Nat, approvalStatus : Approvals, locked : BOOLEAN, open : BOOLEAN]
Correction  == [original : Nat, status : {"pending", "applied", "rejected"}]
Settings    == [lockAfterPayrollClose : BOOLEAN]
Defaults    == [lockAfterPayrollClose |-> TRUE]

Idle    == [pc |-> "idle"]
Request == [pc : {"load", "assert", "write", "flag", "finish", "read", "merge"},
            op : Decisions \cup {"correct", "apply", "refuse", "rates", "save", "close"},
            correction : Nat \cup {Null},
            seen : GuardShift \cup {Null},   \* the record as loaded
            draft : Settings \cup {Null}]    \* the settings to be stored

TypeOK ==
    /\ record \in GuardShift
    /\ corrs \in Seq(Correction) /\ Len(corrs) <= MaxCorrs
    /\ settings \in Settings
    /\ request \in [Editors -> Request \cup {Idle}]
    /\ written \in [1 .. MaxCorrs -> Nat]
    /\ saves \in 0 .. MaxSaves /\ punches \in 0 .. MaxPunches /\ faults \in 0 .. MaxFaults

Init ==
    /\ record = [value |-> 0, approvalStatus |-> "none", locked |-> FALSE, open |-> TRUE]
    /\ corrs = << >> /\ written = [c \in 1 .. MaxCorrs |-> 0]
    /\ settings = Defaults
    /\ request = [e \in Editors |-> Idle]
    /\ saves = 0 /\ punches = 0 /\ faults = 0

At(e, pc)    == request[e] # Idle /\ request[e].pc = pc
MayStart(e)  == request[e] = Idle
Return(e)    == request' = [request EXCEPT ![e] = Idle]
GoTo(e, pc)  == request' = [request EXCEPT ![e].pc = pc]
Start(e, op, pc, c, seen) ==
    request' = [request EXCEPT ![e] =
       [pc |-> pc, op |-> op, correction |-> c, seen |-> seen, draft |-> Null]]

\* Mutant: the lock is never looked at.
MutantAfterLoad(r) == "write"
\* assertNotLocked asks for the settings only of a record that is locked.
AfterLoad(r) == IF r.locked THEN "assert" ELSE "write"

-----------------------------------------------------------------------------
(* approve, reject, correct *)

Load(e, op) ==
    /\ MayStart(e) /\ Start(e, op, AfterLoad(record), Null, record)
    /\ UNCHANGED <<record, corrs, settings, written, saves, punches, faults>>

\* Settings that cannot be read count as the defaults.
AssertNotLocked(e) ==
    /\ At(e, "assert")
    /\ \/ /\ IF settings.lockAfterPayrollClose THEN Return(e) ELSE GoTo(e, "write")
          /\ UNCHANGED faults
       \/ faults < MaxFaults /\ faults' = faults + 1 /\ Return(e)
    /\ UNCHANGED <<record, corrs, settings, written, saves, punches>>

\* An update saves the fields that differ from what was loaded.
Saved(r, seen, approval) == IF seen.approvalStatus = approval THEN r
                            ELSE [r EXCEPT !.approvalStatus = approval]

SetApproval(e) ==
    /\ At(e, "write") /\ request[e].op \in Decisions
    /\ record' = Saved(record, request[e].seen, request[e].op)
    /\ Return(e)
    /\ UNCHANGED <<corrs, settings, written, saves, punches, faults>>

CorrectCreate(e) ==
    /\ At(e, "write") /\ request[e].op = "correct" /\ Len(corrs) < MaxCorrs
    /\ corrs' = Append(corrs, [original |-> request[e].seen.value, status |-> "pending"])
    /\ GoTo(e, "flag")
    /\ UNCHANGED <<record, settings, written, saves, punches, faults>>

CorrectFlag(e) ==
    /\ At(e, "flag")
    /\ record' = Saved(record, request[e].seen, "pending")
    /\ Return(e)
    /\ UNCHANGED <<corrs, settings, written, saves, punches, faults>>

-----------------------------------------------------------------------------
(* applyCorrection *)

\* Mutant: a correction is decided whatever its status.
MutantDecidable(c) == TRUE
Decidable(c) == corrs[c].status = "pending"

CorrectionLoad(e, op, c) ==
    /\ MayStart(e) /\ Decidable(c)
    /\ Start(e, op, IF op = "apply" THEN "load" ELSE "finish", c, Null)
    /\ UNCHANGED <<record, corrs, settings, written, saves, punches, faults>>

ApplyLoad(e) ==
    /\ At(e, "load")
    /\ request' = [request EXCEPT ![e].pc = AfterLoad(record), ![e].seen = record]
    /\ UNCHANGED <<record, corrs, settings, written, saves, punches, faults>>

ApplyWrite(e) ==
    /\ At(e, "write") /\ request[e].op = "apply"
    /\ LET c == request[e].correction
       IN  /\ record' = [record EXCEPT !.value = c]
           /\ written' = [written EXCEPT ![c] = @ + 1]
    /\ GoTo(e, "finish")
    /\ UNCHANGED <<corrs, settings, saves, punches, faults>>

\* Mutant: the decision is stored where the outcome belongs.
MutantOutcome(op) == IF op = "apply" THEN "approved" ELSE "rejected"
Outcome(op) == IF op = "apply" THEN "applied" ELSE "rejected"

CorrectionFinish(e) ==
    /\ At(e, "finish")
    /\ corrs' = [corrs EXCEPT ![request[e].correction].status = Outcome(request[e].op)]
    /\ Return(e)
    /\ UNCHANGED <<record, settings, written, saves, punches, faults>>

-----------------------------------------------------------------------------
(* closePeriod, saveSettings, saveGuardRates *)

\* One UPDATE over every record punched in before the cutoff, open ones too; this
\* record may lie behind the cutoff.
ClosePeriod(e) ==
    /\ MayStart(e) /\ saves < MaxSaves /\ saves' = saves + 1
    /\ record' \in {record, [record EXCEPT !.locked = TRUE]}
    /\ Start(e, "close", "read", Null, Null)
    /\ UNCHANGED <<corrs, settings, written, punches, faults>>

\* The rates are put into the blob as it is stored.
SaveGuardRates(e) ==
    /\ MayStart(e) /\ saves < MaxSaves /\ saves' = saves + 1
    /\ Start(e, "rates", "read", Null, Null)
    /\ UNCHANGED <<record, corrs, settings, written, punches, faults>>

\* What the client sends is merged over the defaults: the stored blob is not read, so the
\* body decides the switch, whatever has been stored since the client got its copy.
SaveSettings(e) ==
    /\ MayStart(e) /\ saves < MaxSaves /\ saves' = saves + 1
    /\ \E body \in Settings : request' = [request EXCEPT ![e] =
          [pc |-> "merge", op |-> "save", correction |-> Null, seen |-> Null, draft |-> body]]
    /\ UNCHANGED <<record, corrs, settings, written, punches, faults>>

SettingsRead(e) ==
    /\ At(e, "read")
    /\ \/ request' = [request EXCEPT ![e].pc = "merge", ![e].draft = settings] /\ UNCHANGED faults
       \/ /\ faults < MaxFaults /\ faults' = faults + 1
          /\ request' = [request EXCEPT ![e].pc = "merge", ![e].draft = Defaults]
    /\ UNCHANGED <<record, corrs, settings, written, saves, punches>>

\* The switch is stored as it was read or sent, the rates or the cutoff with it. A period
\* close that fails to store its cutoff only logs it.
SettingsWrite(e) ==
    /\ At(e, "merge")
    /\ \/ settings' = request[e].draft /\ UNCHANGED faults
       \/ faults < MaxFaults /\ faults' = faults + 1 /\ UNCHANGED settings
    /\ Return(e)
    /\ UNCHANGED <<record, corrs, written, saves, punches>>

-----------------------------------------------------------------------------
\* The guard's punches and the sweep reopen and close the record, locked or not.
Punch ==
    /\ punches < MaxPunches /\ punches' = punches + 1
    /\ record' = [record EXCEPT !.open = ~@]
    /\ UNCHANGED <<corrs, settings, request, written, saves, faults>>

Dies(e) ==
    /\ request[e] # Idle /\ faults < MaxFaults /\ faults' = faults + 1 /\ Return(e)
    /\ UNCHANGED <<record, corrs, settings, written, saves, punches>>

EditorStep(e) ==
    \/ \E op \in Decisions \cup {"correct"} : Load(e, op)
    \/ AssertNotLocked(e) \/ SetApproval(e) \/ CorrectCreate(e) \/ CorrectFlag(e)
    \/ \E op \in {"apply", "refuse"}, c \in DOMAIN corrs : CorrectionLoad(e, op, c)
    \/ ApplyLoad(e) \/ ApplyWrite(e) \/ CorrectionFinish(e)
    \/ ClosePeriod(e) \/ SaveGuardRates(e) \/ SaveSettings(e)
    \/ SettingsRead(e) \/ SettingsWrite(e) \/ Dies(e)

Next == (\E e \in Editors : EditorStep(e)) \/ Punch

Spec == Init /\ [][Next]_vars

-----------------------------------------------------------------------------
(* Properties *)

Closed == record.locked /\ settings.lockAfterPayrollClose

\* The requests that have been let through to write the record.
Passed == {e \in Editors : At(e, "write") \/ At(e, "flag")}

\* "Records edits/corrections/approvals are then rejected while lockAfterPayrollClose
\* is on": once a record is closed no request is let through to it any more. What still
\* changes it are requests let through before, never all that are in flight, each at most
\* once: a lone administrator cannot touch it (closePeriod, assertNotLocked).
ClosedIsReadOnly ==
    [][Closed =>
         /\ Passed # Editors /\ Passed' \subseteq Passed
         /\ \/ Passed' # Passed
            \/ /\ record'.value = record.value
               /\ record'.approvalStatus = record.approvalStatus]_vars

\* "the corrected value is applied only when approved": a correction recorded as applied is
\* on the record. Requests decide it side by side, and may die half way: it is entered no
\* more often than there are requests and failures, and if it ends up rejected once less,
\* so that a lone administrator never enters one that is refused (models/attendanceCorrection,
\* applyCorrection).
CorrectionsSettle ==
    \A c \in DOMAIN corrs :
        /\ written[c] <= Cardinality(Editors) + faults
        /\ corrs[c].status = "applied" => written[c] >= 1
        /\ corrs[c].status = "rejected" => written[c] < Cardinality(Editors) + faults

=============================================================================
