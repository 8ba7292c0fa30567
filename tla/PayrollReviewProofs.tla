------------------------ MODULE PayrollReviewProofs ------------------------
(***************************************************************************)
(* Proofs about module PayrollReview, for any number of editors, corrections,  *)
(* settings requests, punches and faults.                                      *)
(***************************************************************************)
EXTENDS PayrollReview, SequenceTheorems, FiniteSetTheorems, TLAPS

SettingsOps == {"rates", "save", "close"}

\* What a request at each point of its handler has loaded.
Fits(r) ==
    r # Idle =>
        /\ r.op \in {"apply", "refuse"} => r.correction \in DOMAIN corrs
        /\ r.pc = "load" => r.op = "apply"
        /\ r.pc = "finish" => r.op \in {"apply", "refuse"}
        /\ r.pc \in {"assert", "write"} =>
               /\ r.op \in Decisions \cup {"correct", "apply"}
               /\ r.seen \in GuardShift
        /\ r.pc = "flag" => r.op = "correct" /\ r.seen \in GuardShift
        /\ r.pc \in {"read", "merge"} => r.op \in SettingsOps
        /\ r.pc = "merge" => r.draft \in Settings

TypeInv == TypeOK /\ \A e \in Editors : Fits(request[e])

LEMMA BoundsAreNat ==
    MaxCorrs \in Nat /\ MaxSaves \in Nat /\ MaxPunches \in Nat /\ MaxFaults \in Nat
BY PayrollAssumption

LEMMA DefaultsType == Defaults \in Settings
BY DEF Defaults, Settings

\* A step that moves one request, keeps the rows typed and removes no correction.
LEMMA RequestStep ==
    ASSUME TypeInv, NEW e \in Editors,
           request' = [request EXCEPT ![e] = request'[e]],
           request'[e] \in Request \cup {Idle}, Fits(request[e])',
           DOMAIN corrs \subseteq DOMAIN corrs',
           record' \in GuardShift, corrs' \in Seq(Correction), Len(corrs') <= MaxCorrs,
           settings' \in Settings, written' \in [1 .. MaxCorrs -> Nat],
           saves' \in 0 .. MaxSaves, punches' \in 0 .. MaxPunches, faults' \in 0 .. MaxFaults
    PROVE  TypeInv'
<1>1. TypeOK'
  BY DEF TypeInv, TypeOK
<1>2. ASSUME NEW x \in Editors PROVE Fits(request[x])'
  <2>1. CASE x = e
    BY <2>1
  <2>2. CASE x # e
    <3>1. request'[x] = request[x] /\ Fits(request[x])
      BY <2>2 DEF TypeInv, TypeOK
    <3> QED
      BY <3>1 DEF Fits
  <2> QED
    BY <2>1, <2>2
<1> QED
  BY <1>1, <1>2 DEF TypeInv

\* The same when the step leaves everything but the request and the faults alone.
LEMMA RequestOnly ==
    ASSUME TypeInv, NEW e \in Editors,
           request' = [request EXCEPT ![e] = request'[e]],
           request'[e] \in Request \cup {Idle}, Fits(request[e])',
           UNCHANGED <<record, corrs, settings, written, saves, punches>>,
           faults' \in 0 .. MaxFaults
    PROVE  TypeInv'
BY RequestStep DEF TypeInv, TypeOK

\* A request that returns holds nothing.
LEMMA ReturnFits ==
    ASSUME TypeInv, NEW e \in Editors, Return(e)
    PROVE  /\ request' = [request EXCEPT ![e] = request'[e]]
           /\ request'[e] \in Request \cup {Idle} /\ Fits(request[e])'
<1>1. request' = [request EXCEPT ![e] = Idle] /\ request'[e] = Idle
  BY DEF Return, TypeInv, TypeOK
<1> QED
  BY <1>1 DEF Fits

LEMMA InitTypeInv == Init => TypeInv
BY BoundsAreNat, DefaultsType
   DEF Init, TypeInv, TypeOK, GuardShift, Correction, Approvals, Decisions, Fits, Idle

LEMMA StartType ==
    ASSUME NEW op \in Decisions \cup {"correct", "apply", "refuse"} \cup SettingsOps,
           NEW pc \in {"load", "assert", "write", "finish"},
           NEW c \in Nat \cup {Null}, NEW s \in GuardShift \cup {Null}
    PROVE  [pc |-> pc, op |-> op, correction |-> c, seen |-> s, draft |-> Null] \in Request
BY DEF Request, SettingsOps

LEMMA NextTypeInv == TypeInv /\ [Next]_vars => TypeInv'
<1> SUFFICES ASSUME TypeInv, [Next]_vars PROVE TypeInv'
  OBVIOUS
<1> USE BoundsAreNat
<1>0. /\ TypeOK
      /\ \A e \in Editors : request[e] # Idle => request[e] \in Request /\ Fits(request[e])
  BY DEF TypeInv, TypeOK
<1>1. ASSUME NEW e \in Editors, Return(e),
             UNCHANGED <<record, corrs, settings, written, saves, punches>>,
             faults' \in 0 .. MaxFaults
      PROVE  TypeInv'
  BY <1>1, ReturnFits, RequestOnly
<1>2. ASSUME NEW e \in Editors, NEW op \in Decisions \cup {"correct"}, Load(e, op)
      PROVE  TypeInv'
  <2> DEFINE r == [pc |-> AfterLoad(record), op |-> op, correction |-> Null,
                   seen |-> record, draft |-> Null]
  <2>1. AfterLoad(record) \in {"assert", "write"} /\ record \in GuardShift
    BY <1>0 DEF AfterLoad, TypeOK
  <2>2. r \in Request
    BY <2>1, StartType
  <2>3. request' = [request EXCEPT ![e] = r] /\ request'[e] = r
    BY <1>0, <1>2 DEF Load, Start, TypeOK
  <2>4. Fits(request[e])'
    BY <2>1, <2>3 DEF Fits, Decisions
  <2>5. faults' \in 0 .. MaxFaults
    BY <1>0, <1>2 DEF Load, TypeOK
  <2> HIDE DEF r
  <2> QED
    BY <1>2, <2>2, <2>3, <2>4, <2>5, RequestOnly DEF Load
<1>3. ASSUME NEW e \in Editors, AssertNotLocked(e) PROVE TypeInv'
  <2>1. faults' \in 0 .. MaxFaults
    BY <1>0, <1>3 DEF AssertNotLocked, TypeOK
  <2>2. CASE Return(e)
    BY <1>1, <1>3, <2>1, <2>2 DEF AssertNotLocked
  <2>3. CASE GoTo(e, "write")
    <3>1. /\ request' = [request EXCEPT ![e] = request'[e]]
          /\ request'[e] = [request[e] EXCEPT !.pc = "write"]
      BY <1>0, <2>3 DEF GoTo, TypeOK
    <3>2. request[e] \in Request /\ Fits(request[e]) /\ request[e].pc = "assert" /\ request[e] # Idle
      BY <1>0, <1>3 DEF AssertNotLocked, At
    <3>3. request'[e] \in Request
      BY <3>1, <3>2 DEF Request
    <3>4. Fits(request[e])'
      BY <1>3, <3>1, <3>2 DEF AssertNotLocked, Fits, Request, Decisions
    <3> QED
      BY <1>3, <2>1, <3>1, <3>3, <3>4, RequestOnly DEF AssertNotLocked
  <2> QED
    BY <1>3, <2>2, <2>3 DEF AssertNotLocked
<1>4. ASSUME NEW e \in Editors, SetApproval(e) PROVE TypeInv'
  <2>1. record' \in GuardShift
    BY <1>0, <1>4 DEF SetApproval, Saved, TypeOK, GuardShift, Approvals, Decisions
  <2> QED
    BY <1>0, <1>4, <2>1, ReturnFits, RequestStep DEF SetApproval, TypeOK
<1>5. ASSUME NEW e \in Editors, CorrectCreate(e) PROVE TypeInv'
  <2> DEFINE c == [original |-> request[e].seen.value, status |-> "pending"]
  <2>1. /\ request[e] \in Request /\ request[e].seen \in GuardShift
        /\ request[e] # Idle /\ request[e].op = "correct"
    BY <1>0, <1>5 DEF CorrectCreate, At, Fits
  <2>2. c \in Correction /\ corrs \in Seq(Correction) /\ Len(corrs) < MaxCorrs
    BY <1>0, <1>5, <2>1 DEF CorrectCreate, Correction, GuardShift, TypeOK
  <2>3. corrs' \in Seq(Correction) /\ Len(corrs') = Len(corrs) + 1
    BY <1>5, <2>2, AppendProperties DEF CorrectCreate
  <2>4. DOMAIN corrs \subseteq DOMAIN corrs' /\ Len(corrs') <= MaxCorrs
    BY <2>2, <2>3
  <2>5. /\ request' = [request EXCEPT ![e] = request'[e]]
        /\ request'[e] = [request[e] EXCEPT !.pc = "flag"]
    BY <1>0, <1>5 DEF CorrectCreate, GoTo, TypeOK
  <2>6. request'[e] \in Request
    BY <2>1, <2>5 DEF Request
  <2>7. Fits(request[e])'
    BY <2>1, <2>5 DEF Fits, Request
  <2>8. /\ record' \in GuardShift /\ settings' \in Settings /\ written' \in [1 .. MaxCorrs -> Nat]
        /\ saves' \in 0 .. MaxSaves /\ punches' \in 0 .. MaxPunches /\ faults' \in 0 .. MaxFaults
    BY <1>0, <1>5 DEF CorrectCreate, TypeOK
  <2> QED
    BY <2>3, <2>4, <2>5, <2>6, <2>7, <2>8, RequestStep
<1>6. ASSUME NEW e \in Editors, CorrectFlag(e) PROVE TypeInv'
  <2>1. record' \in GuardShift
    BY <1>0, <1>6 DEF CorrectFlag, Saved, TypeOK, GuardShift, Approvals
  <2> QED
    BY <1>0, <1>6, <2>1, ReturnFits, RequestStep DEF CorrectFlag, TypeOK
<1>7. ASSUME NEW e \in Editors, NEW op \in {"apply", "refuse"}, NEW c \in DOMAIN corrs,
             CorrectionLoad(e, op, c)
      PROVE  TypeInv'
  <2> DEFINE pc == IF op = "apply" THEN "load" ELSE "finish"
             r  == [pc |-> pc, op |-> op, correction |-> c, seen |-> Null, draft |-> Null]
  <2>1. c \in Nat
    BY <1>0, <1>7 DEF TypeOK
  <2>2. r \in Request
    BY <2>1, StartType
  <2>3. request' = [request EXCEPT ![e] = r] /\ request'[e] = r
    BY <1>0, <1>7 DEF CorrectionLoad, Start, TypeOK
  <2>4. Fits(request[e])'
    BY <1>7, <2>3 DEF Fits, CorrectionLoad
  <2>5. faults' \in 0 .. MaxFaults
    BY <1>0, <1>7 DEF CorrectionLoad, TypeOK
  <2> HIDE DEF r
  <2> QED
    BY <1>7, <2>2, <2>3, <2>4, <2>5, RequestOnly DEF CorrectionLoad
<1>8. ASSUME NEW e \in Editors, ApplyLoad(e) PROVE TypeInv'
  <2>1. /\ request[e] \in Request /\ request[e] # Idle /\ Fits(request[e])
        /\ request[e].op = "apply" /\ record \in GuardShift
    BY <1>0, <1>8 DEF ApplyLoad, At, Fits, TypeOK
  <2>2. AfterLoad(record) \in {"assert", "write"}
    BY DEF AfterLoad
  <2>3. /\ request' = [request EXCEPT ![e] = request'[e]]
        /\ request'[e] = [request[e] EXCEPT !.pc = AfterLoad(record), !.seen = record]
    BY <1>0, <1>8 DEF ApplyLoad, TypeOK
  <2>4. request'[e] \in Request
    BY <2>1, <2>2, <2>3 DEF Request
  <2>5. Fits(request[e])'
    <3>1. request'[e].op = "apply" /\ request'[e].pc \in {"assert", "write"}
      BY <2>1, <2>2, <2>3 DEF Request
    <3>2. request'[e].seen \in GuardShift
      BY <2>1, <2>3 DEF Request
    <3>3. request'[e].correction \in DOMAIN corrs'
      <4>1. request[e].correction \in DOMAIN corrs
        BY <2>1 DEF Fits
      <4>2. request'[e].correction = request[e].correction
        BY <2>1, <2>3 DEF Request
      <4>3. corrs' = corrs
        BY <1>8 DEF ApplyLoad
      <4> QED
        BY <4>1, <4>2, <4>3
    <3> QED
      BY <3>1, <3>2, <3>3 DEF Fits
  <2>6. faults' \in 0 .. MaxFaults
    BY <1>0, <1>8 DEF ApplyLoad, TypeOK
  <2> QED
    BY <1>8, <2>3, <2>4, <2>5, <2>6, RequestOnly DEF ApplyLoad
<1>9. ASSUME NEW e \in Editors, ApplyWrite(e) PROVE TypeInv'
  <2> DEFINE c == request[e].correction
  <2>1. /\ request[e] \in Request /\ request[e] # Idle
        /\ request[e].op = "apply" /\ c \in DOMAIN corrs
    BY <1>0, <1>9 DEF ApplyWrite, At, Fits
  <2>2. c \in 1 .. MaxCorrs
    BY <1>0, <2>1 DEF TypeOK
  <2>3. record' \in GuardShift /\ written' \in [1 .. MaxCorrs -> Nat]
    <3>1. record \in GuardShift /\ c \in Nat
      BY <1>0, <2>2 DEF TypeOK
    <3>2. record' \in GuardShift
      BY <1>9, <3>1 DEF ApplyWrite, GuardShift
    <3>3. written' \in [1 .. MaxCorrs -> Nat]
      BY <1>0, <1>9, <2>2 DEF ApplyWrite, TypeOK
    <3> QED
      BY <3>2, <3>3
  <2>4. /\ request' = [request EXCEPT ![e] = request'[e]]
        /\ request'[e] = [request[e] EXCEPT !.pc = "finish"]
    BY <1>0, <1>9 DEF ApplyWrite, GoTo, TypeOK
  <2>5. request'[e] \in Request
    BY <2>1, <2>4 DEF Request
  <2>6. Fits(request[e])'
    BY <1>9, <2>1, <2>4 DEF ApplyWrite, Fits, Request
  <2> QED
    BY <1>0, <1>9, <2>3, <2>4, <2>5, <2>6, RequestStep DEF ApplyWrite, TypeOK
<1>10. ASSUME NEW e \in Editors, CorrectionFinish(e) PROVE TypeInv'
  <2> DEFINE c == request[e].correction
  <2>1. c \in DOMAIN corrs /\ corrs \in Seq(Correction)
    BY <1>0, <1>10 DEF CorrectionFinish, At, Fits, TypeOK
  <2>2. corrs[c] \in Correction /\ Outcome(request[e].op) \in {"pending", "applied", "rejected"}
    BY <2>1 DEF Outcome
  <2>3. corrs' = [corrs EXCEPT ![c] = [corrs[c] EXCEPT !.status = Outcome(request[e].op)]]
    BY <1>10 DEF CorrectionFinish
  <2>4. [corrs[c] EXCEPT !.status = Outcome(request[e].op)] \in Correction
    BY <2>2 DEF Correction
  <2>5. corrs' \in Seq(Correction) /\ DOMAIN corrs' = DOMAIN corrs /\ Len(corrs') = Len(corrs)
    BY <2>1, <2>3, <2>4, ExceptSeq
  <2> QED
    BY <1>0, <1>10, <2>5, ReturnFits, RequestStep DEF CorrectionFinish, TypeOK
<1>11. ASSUME NEW e \in Editors, NEW op \in SettingsOps, NEW pc \in {"read", "merge"},
              NEW body \in Settings \cup {Null}, pc = "merge" => body \in Settings,
              request' = [request EXCEPT ![e] = [pc |-> pc, op |-> op, correction |-> Null,
                                                 seen |-> Null, draft |-> body]],
              record' \in GuardShift, saves' = saves + 1,
              saves < MaxSaves, UNCHANGED <<corrs, settings, written, punches, faults>>
      PROVE  TypeInv'
  <2> DEFINE r == [pc |-> pc, op |-> op, correction |-> Null, seen |-> Null, draft |-> body]
  <2>1. r \in Request
    BY DEF SettingsOps, Request
  <2>2. request' = [request EXCEPT ![e] = r] /\ request'[e] = r
    BY <1>0, <1>11 DEF TypeOK
  <2>3. Fits(request[e])'
    BY <1>11, <2>2 DEF Fits, SettingsOps
  <2>4. /\ corrs' \in Seq(Correction) /\ Len(corrs') <= MaxCorrs /\ settings' \in Settings
        /\ written' \in [1 .. MaxCorrs -> Nat] /\ DOMAIN corrs \subseteq DOMAIN corrs'
        /\ saves' \in 0 .. MaxSaves /\ punches' \in 0 .. MaxPunches /\ faults' \in 0 .. MaxFaults
    BY <1>0, <1>11 DEF TypeOK
  <2> HIDE DEF r
  <2> QED
    BY <1>11, <2>1, <2>2, <2>3, <2>4, RequestStep
<1>12. ASSUME NEW e \in Editors, ClosePeriod(e) \/ SaveGuardRates(e) \/ SaveSettings(e)
      PROVE  TypeInv'
  <2>1. record' \in GuardShift
    BY <1>0, <1>12 DEF ClosePeriod, SaveGuardRates, SaveSettings, TypeOK, GuardShift
  <2>2. CASE SaveSettings(e)
    <3>1. PICK body \in Settings : request' = [request EXCEPT ![e] =
            [pc |-> "merge", op |-> "save", correction |-> Null, seen |-> Null, draft |-> body]]
      BY <2>2 DEF SaveSettings
    <3>2. UNCHANGED <<corrs, settings, written, punches, faults>> /\ saves < MaxSaves /\ saves' = saves + 1
      BY <2>2 DEF SaveSettings
    <3> QED
      BY <1>11, <2>1, <3>1, <3>2 DEF SettingsOps
  <2>3. CASE ClosePeriod(e) \/ SaveGuardRates(e)
    <3>1. PICK op \in SettingsOps : request' = [request EXCEPT ![e] =
            [pc |-> "read", op |-> op, correction |-> Null, seen |-> Null, draft |-> Null]]
      BY <2>3 DEF ClosePeriod, SaveGuardRates, Start, SettingsOps
    <3>2. UNCHANGED <<corrs, settings, written, punches, faults>> /\ saves < MaxSaves /\ saves' = saves + 1
      BY <2>3 DEF ClosePeriod, SaveGuardRates
    <3> QED
      BY <1>11, <2>1, <3>1, <3>2
  <2> QED
    BY <1>12, <2>2, <2>3
<1>13. ASSUME NEW e \in Editors, SettingsRead(e) PROVE TypeInv'
  <2>1. PICK d \in {settings, Defaults} :
          request' = [request EXCEPT ![e].pc = "merge", ![e].draft = d]
    BY <1>13 DEF SettingsRead
  <2>2. /\ request[e] \in Request /\ request[e].op \in SettingsOps
        /\ request[e] # Idle /\ d \in Settings
    BY <1>0, <1>13, DefaultsType DEF SettingsRead, At, Fits, TypeOK
  <2>3. /\ request' = [request EXCEPT ![e] = request'[e]]
        /\ request'[e] = [request[e] EXCEPT !.pc = "merge", !.draft = d]
    BY <1>0, <2>1 DEF TypeOK
  <2>4. request'[e] \in Request
    BY <2>2, <2>3 DEF Request
  <2>5. Fits(request[e])'
    BY <2>2, <2>3 DEF Fits, Request, SettingsOps
  <2>6. faults' \in 0 .. MaxFaults
    BY <1>0, <1>13 DEF SettingsRead, TypeOK
  <2> QED
    BY <1>13, <2>3, <2>4, <2>5, <2>6, RequestOnly DEF SettingsRead
<1>14. ASSUME NEW e \in Editors, SettingsWrite(e) PROVE TypeInv'
  <2>1. request[e].draft \in Settings
    BY <1>0, <1>14 DEF SettingsWrite, At, Fits, TypeOK
  <2>2. settings' \in Settings /\ faults' \in 0 .. MaxFaults
    BY <1>0, <1>14, <2>1 DEF SettingsWrite, TypeOK
  <2> QED
    BY <1>0, <1>14, <2>2, ReturnFits, RequestStep DEF SettingsWrite, TypeOK
<1>15. ASSUME NEW e \in Editors, Dies(e) PROVE TypeInv'
  <2>1. faults' \in 0 .. MaxFaults
    BY <1>0, <1>15 DEF Dies, TypeOK
  <2> QED
    BY <1>1, <1>15, <2>1 DEF Dies
<1>16. ASSUME Punch PROVE TypeInv'
  <2>1. record' \in GuardShift /\ punches' \in 0 .. MaxPunches
    <3>1. record \in GuardShift /\ (~record.open) \in BOOLEAN
      BY <1>0 DEF TypeOK
    <3>2. \A b \in BOOLEAN : [record EXCEPT !.open = b] \in GuardShift
      BY <3>1 DEF GuardShift
    <3>3. punches' \in 0 .. MaxPunches
      BY <1>0, <1>16 DEF Punch, TypeOK
    <3> QED
      BY <1>16, <3>1, <3>2, <3>3 DEF Punch
  <2> QED
    BY <1>0, <1>16, <2>1 DEF Punch, TypeInv, TypeOK, Fits
<1>17. CASE UNCHANGED vars
  BY <1>17 DEF vars, TypeInv, TypeOK, Fits
<1> QED
  BY <1>2, <1>3, <1>4, <1>5, <1>6, <1>7, <1>8, <1>9, <1>10, <1>12, <1>13, <1>14, <1>15,
     <1>16, <1>17 DEF Next, EditorStep

\* Type correctness: no handler ever works on a correction that does not exist or
\* writes from a row it has not loaded.
THEOREM TypeCorrect == Spec => []TypeOK
<1>1. TypeInv => TypeOK
  BY DEF TypeInv
<1> QED
  BY <1>1, InitTypeInv, NextTypeInv, PTL DEF Spec

-----------------------------------------------------------------------------
(* The payroll lock *)

\* The step of a request lets nobody through to a record that is closed.
LEMMA NobodyPasses ==
    ASSUME TypeInv, NEW e \in Editors, EditorStep(e), Closed, e \in Passed'
    PROVE  e \in Passed /\ UNCHANGED record
<1>1. /\ request'[e] # Idle /\ request'[e].pc \in {"write", "flag"}
      /\ TypeOK /\ (request[e] # Idle => request[e] \in Request) /\ record.locked
  BY DEF Passed, At, TypeInv, TypeOK, Closed
<1>2. AfterLoad(record) = "assert"
  BY <1>1 DEF AfterLoad
<1>3. ASSUME NEW op \in Decisions \cup {"correct"}, Load(e, op) PROVE FALSE
  BY <1>1, <1>2, <1>3 DEF Load, Start, TypeOK
<1>4. ASSUME AssertNotLocked(e) PROVE FALSE
  <2>1. Return(e)
    <3>1. settings.lockAfterPayrollClose
      BY DEF Closed
    <3> QED
      BY <1>4, <3>1 DEF AssertNotLocked
  <2> QED
    BY <1>1, <2>1 DEF Return, TypeOK
<1>5. CASE CorrectCreate(e)
  BY <1>5 DEF CorrectCreate, Passed
<1>6. ASSUME ApplyLoad(e) PROVE FALSE
  <2>1. request'[e].pc = "assert"
    BY <1>1, <1>2, <1>6 DEF ApplyLoad, At, Request, TypeOK
  <2> QED
    BY <1>1, <2>1
<1>7. ASSUME Return(e) PROVE FALSE
  BY <1>1, <1>7 DEF Return, TypeOK
<1>8. ASSUME ApplyWrite(e) PROVE FALSE
  <2>1. request'[e].pc = "finish"
    BY <1>1, <1>8 DEF ApplyWrite, GoTo, At, Request, TypeOK
  <2> QED
    BY <1>1, <2>1
<1>9. ASSUME SettingsRead(e) PROVE FALSE
  <2>1. request'[e].pc = "merge"
    BY <1>1, <1>9 DEF SettingsRead, At, Request, TypeOK
  <2> QED
    BY <1>1, <2>1
<1>10. ASSUME ClosePeriod(e) \/ SaveGuardRates(e) \/ SaveSettings(e) PROVE FALSE
  <2>1. request'[e].pc \in {"read", "merge"}
    BY <1>1, <1>10 DEF ClosePeriod, SaveGuardRates, SaveSettings, Start, TypeOK
  <2> QED
    BY <1>1, <2>1
<1>11. ASSUME NEW op \in {"apply", "refuse"}, NEW c \in DOMAIN corrs, CorrectionLoad(e, op, c)
       PROVE  FALSE
  <2>1. request'[e].pc \in {"load", "finish"}
    BY <1>1, <1>11 DEF CorrectionLoad, Start, TypeOK
  <2> QED
    BY <1>1, <2>1
<1> QED
  BY <1>3, <1>4, <1>5, <1>6, <1>7, <1>8, <1>9, <1>10, <1>11
     DEF EditorStep, SetApproval, CorrectFlag, CorrectionFinish, SettingsWrite, Dies

\* Every step of a request leaves the other requests alone.
LEMMA OthersStay ==
    ASSUME TypeInv, NEW e \in Editors, EditorStep(e)
    PROVE  \A x \in Editors : x # e => request'[x] = request[x]
BY DEF EditorStep, Load, AssertNotLocked, SetApproval, CorrectCreate, CorrectFlag,
       CorrectionLoad, ApplyLoad, ApplyWrite, CorrectionFinish, ClosePeriod, SaveGuardRates,
       SettingsRead, SettingsWrite, SaveSettings, Dies, Start, GoTo, Return, TypeInv, TypeOK

\* What administrators decide is changed only by a request let through to write it.
LEMMA OnlyPassedWrite ==
    ASSUME TypeInv, NEW e \in Editors, EditorStep(e)
    PROVE  \/ record'.value = record.value /\ record'.approvalStatus = record.approvalStatus
           \/ e \in Passed
<1>1. record \in GuardShift
  BY DEF TypeInv, TypeOK
<1>2. CASE SetApproval(e) \/ CorrectFlag(e) \/ ApplyWrite(e)
  BY <1>2 DEF SetApproval, CorrectFlag, ApplyWrite, Passed
<1>3. CASE ClosePeriod(e)
  BY <1>1, <1>3 DEF ClosePeriod, GuardShift
<1>4. CASE UNCHANGED record
  BY <1>4
<1> QED
  BY <1>2, <1>3, <1>4 DEF EditorStep, Load, AssertNotLocked, CorrectCreate, CorrectionLoad,
         ApplyLoad, CorrectionFinish, SettingsRead, SettingsWrite, SaveGuardRates,
         SaveSettings, Dies

\* The request that closes the record has not been let through itself.
LockSeen == Closed => Passed # Editors

LEMMA NextLockSeen ==
    ASSUME TypeInv, LockSeen, [Next]_vars
    PROVE  LockSeen'
<1>1. CASE Punch \/ UNCHANGED vars
  <2>1. UNCHANGED <<request, settings>> /\ record'.locked = record.locked
    BY <1>1 DEF Punch, vars, TypeInv, TypeOK, GuardShift
  <2> QED
    BY <2>1 DEF LockSeen, Closed, Passed, At
<1>2. ASSUME NEW e \in Editors, EditorStep(e) PROVE LockSeen'
  <2>0. SUFFICES ASSUME Closed' PROVE Passed' # Editors
    BY DEF LockSeen
  <2>1. CASE Closed
    <3>1. PICK x \in Editors : x \notin Passed
      BY <2>1 DEF LockSeen, Passed
    <3>2. x \notin Passed'
      BY <1>2, <2>1, <3>1, NobodyPasses, OthersStay DEF Passed, At
    <3> QED
      BY <3>1, <3>2
  <2>2. CASE ~Closed
    <3>1. record'.locked # record.locked \/ settings' # settings
      BY <2>0, <2>2 DEF Closed
    <3>2. ASSUME SetApproval(e) \/ CorrectFlag(e) \/ ApplyWrite(e) PROVE FALSE
      <4>0. record \in GuardShift
        BY DEF TypeInv, TypeOK
      <4>1. UNCHANGED settings /\ record'.locked = record.locked
        <5>1. CASE SetApproval(e) \/ CorrectFlag(e)
          BY <4>0, <5>1 DEF SetApproval, CorrectFlag, Saved, GuardShift
        <5>2. CASE ApplyWrite(e)
          BY <4>0, <5>2 DEF ApplyWrite, GuardShift
        <5> QED
          BY <3>2, <5>1, <5>2
      <4> QED
        BY <3>1, <4>1
    <3>3. ClosePeriod(e) \/ SettingsWrite(e)
      <4>1. ASSUME UNCHANGED <<record, settings>> PROVE FALSE
        BY <3>1, <4>1
      <4>2. ASSUME NEW op, Load(e, op) PROVE FALSE
        BY <4>1, <4>2 DEF Load
      <4>2a. ASSUME NEW op, NEW d, CorrectionLoad(e, op, d) PROVE FALSE
        BY <4>1, <4>2a DEF CorrectionLoad
      <4>3. CASE AssertNotLocked(e) \/ CorrectCreate(e) \/ ApplyLoad(e) \/ CorrectionFinish(e)
        BY <4>1, <4>3 DEF AssertNotLocked, CorrectCreate, ApplyLoad, CorrectionFinish
      <4>4. CASE SettingsRead(e) \/ SaveGuardRates(e) \/ SaveSettings(e) \/ Dies(e)
        BY <4>1, <4>4 DEF SettingsRead, SaveGuardRates, SaveSettings, Dies
      <4> QED
        BY <1>2, <3>2, <4>2, <4>2a, <4>3, <4>4 DEF EditorStep
    <3>4. request'[e] = Idle \/ request'[e].pc = "read"
      BY <3>3 DEF ClosePeriod, SettingsWrite, Start, Return, TypeInv, TypeOK
    <3>5. e \notin Passed'
      BY <3>4 DEF Passed, At
    <3> QED
      BY <3>5
  <2> QED
    BY <2>1, <2>2
<1> QED
  BY <1>1, <1>2 DEF Next

LockInv == TypeInv /\ LockSeen

\* However the requests overlap, fail or die: once a record is closed nobody is let through to
\* it, and each change it still sees uses up a request let through before, of which there is
\* always one less than requests; with one administrator there are none (assertNotLocked).
THEOREM ReadOnlyWhenClosed == Spec => ClosedIsReadOnly
<1>1. Init => LockInv
  BY InitTypeInv DEF Init, LockInv, LockSeen, Closed
<1>2. LockInv /\ [Next]_vars => LockInv'
  BY NextTypeInv, NextLockSeen DEF LockInv
<1>3. ASSUME LockInv, [Next]_vars, Closed
      PROVE  /\ Passed # Editors /\ Passed' \subseteq Passed
             /\ \/ Passed' # Passed
                \/ record'.value = record.value /\ record'.approvalStatus = record.approvalStatus
  <2>1. Passed # Editors
    BY <1>3 DEF LockInv, LockSeen
  <2>2. CASE Punch \/ UNCHANGED vars
    <3>0. record \in GuardShift
      BY <1>3 DEF LockInv, TypeInv, TypeOK
    <3>1. /\ UNCHANGED request
          /\ record'.value = record.value /\ record'.approvalStatus = record.approvalStatus
      BY <2>2, <3>0 DEF Punch, vars, GuardShift
    <3> QED
      BY <2>1, <3>1 DEF Passed, At
  <2>3. ASSUME NEW e \in Editors, EditorStep(e)
        PROVE  /\ Passed' \subseteq Passed
               /\ \/ Passed' # Passed
                  \/ record'.value = record.value /\ record'.approvalStatus = record.approvalStatus
    <3>1. e \in Passed' => e \in Passed /\ UNCHANGED record
      BY <1>3, <2>3, NobodyPasses DEF LockInv
    <3>2. Passed' \subseteq Passed
      BY <1>3, <2>3, <3>1, OthersStay DEF LockInv, Passed, At
    <3>3. \/ record'.value = record.value /\ record'.approvalStatus = record.approvalStatus
          \/ e \in Passed
      BY <1>3, <2>3, OnlyPassedWrite DEF LockInv
    <3> QED
      BY <3>1, <3>2, <3>3
  <2> QED
    BY <1>3, <2>1, <2>2, <2>3 DEF Next
<1>4. LockInv /\ [Next]_vars =>
        [Closed =>
           /\ Passed # Editors /\ Passed' \subseteq Passed
           /\ \/ Passed' # Passed
              \/ /\ record'.value = record.value
                 /\ record'.approvalStatus = record.approvalStatus]_vars
  BY <1>3
<1> QED
  BY <1>1, <1>2, <1>4, PTL DEF Spec, ClosedIsReadOnly

-----------------------------------------------------------------------------
(* The corrections *)

\* Faults are only ever added.
LEMMA FaultsGrow ==
    ASSUME TypeInv, [Next]_vars
    PROVE  faults' = faults \/ faults' = faults + 1
<1>1. ASSUME NEW e \in Editors, EditorStep(e) PROVE faults' = faults \/ faults' = faults + 1
  BY <1>1 DEF EditorStep, Load, AssertNotLocked, SetApproval, CorrectCreate, CorrectFlag,
     CorrectionLoad, ApplyLoad, ApplyWrite, CorrectionFinish, ClosePeriod,
     SettingsRead, SettingsWrite, SaveGuardRates, SaveSettings, Dies
<1> QED
  BY <1>1 DEF Next, Punch, vars

\* The counts are numbers, and so are the rows they are kept for.
LEMMA CountsType ==
    ASSUME TypeInv
    PROVE  /\ faults \in Nat /\ DOMAIN corrs \subseteq 1 .. MaxCorrs
           /\ \A c \in 1 .. MaxCorrs : written[c] \in Nat
BY BoundsAreNat DEF TypeInv, TypeOK

\* The requests that will enter a correction, and those that have and must say so.
Applies(e, c) == request[e] # Idle /\ request[e].op = "apply" /\ request[e].correction = c
Before(c) == {e \in Editors : Applies(e, c) /\ request[e].pc # "finish"}
After(c)  == {e \in Editors : Applies(e, c) /\ request[e].pc = "finish"}

Status(c, s) == c \in DOMAIN corrs /\ corrs[c].status = s

\* While it is pending, who has entered a correction is still about to say so, or has died.
\* Once it is decided nobody takes it up, so only those already at it can enter it.
Tally(c) ==
    /\ c \notin DOMAIN corrs => written[c] = 0
    /\ Status(c, "pending") => written[c] <= Cardinality(After(c)) + faults
    /\ written[c] + Cardinality(Before(c)) <= Cardinality(Editors) + faults
    /\ After(c) # {} \/ Status(c, "applied") => written[c] >= 1

Tallied == TypeInv /\ \A c \in 1 .. MaxCorrs : Tally(c)

One(b) == IF b THEN 1 ELSE 0

\* A set changes by one element.
LEMMA OneMoves ==
    ASSUME NEW S, NEW T, NEW x, IsFiniteSet(S), \A y : y # x => (y \in S <=> y \in T)
    PROVE  Cardinality(T) = Cardinality(S) - One(x \in S) + One(x \in T)
<1>1. Cardinality(S) \in Nat
  BY FS_CardinalityType
<1>2. CASE x \in S <=> x \in T
  <2>1. T = S
    BY <1>2
  <2> QED
    BY <1>1, <2>1 DEF One
<1>3. CASE x \in S /\ x \notin T
  <2>1. T = S \ {x}
    BY <1>3
  <2>2. Cardinality(T) = Cardinality(S) - 1
    BY <1>3, <2>1, FS_RemoveElement
  <2> QED
    BY <1>1, <1>3, <2>2 DEF One
<1>4. CASE x \notin S /\ x \in T
  <2>1. T = S \cup {x}
    BY <1>4
  <2>2. Cardinality(T) = Cardinality(S) + 1
    BY <1>4, <2>1, FS_AddElement
  <2> QED
    BY <1>1, <1>4, <2>2 DEF One
<1> QED
  BY <1>2, <1>3, <1>4

\* Nobody is at a correction both before and after entering it.
LEMMA TallySizes ==
    ASSUME IsFiniteSet(Editors), NEW c
    PROVE  /\ IsFiniteSet(Before(c)) /\ IsFiniteSet(After(c)) /\ Cardinality(Editors) \in Nat
           /\ Cardinality(Before(c)) \in Nat /\ Cardinality(After(c)) \in Nat
           /\ Cardinality(Before(c)) + Cardinality(After(c)) <= Cardinality(Editors)
<1>1. IsFiniteSet(Before(c)) /\ IsFiniteSet(After(c))
  BY FS_Subset DEF Before, After
<1>2. Before(c) \cap After(c) = {} /\ Before(c) \cup After(c) \subseteq Editors
  BY DEF Before, After
<1>3. /\ Cardinality(Before(c) \cup After(c))
             = Cardinality(Before(c)) + Cardinality(After(c)) - Cardinality(Before(c) \cap After(c))
      /\ Cardinality(Before(c) \cup After(c)) <= Cardinality(Editors)
  BY <1>1, <1>2, FS_Union, FS_Subset
<1>4. Cardinality(Before(c) \cap After(c)) = 0
  BY <1>2, FS_EmptySet
<1>5. /\ Cardinality(Before(c)) \in Nat /\ Cardinality(After(c)) \in Nat
      /\ Cardinality(Editors) \in Nat
  BY <1>1, FS_CardinalityType
<1> QED
  BY <1>1, <1>3, <1>4, <1>5

\* The next values of the sizes, when one request moves.
LEMMA TallyMoves ==
    ASSUME IsFiniteSet(Editors), NEW e \in Editors, \A x \in Editors : x # e => request'[x] = request[x],
           NEW c
    PROVE  /\ Cardinality(Before(c)') =
                 Cardinality(Before(c)) - One(e \in Before(c)) + One(e \in Before(c)')
           /\ Cardinality(After(c)') =
                 Cardinality(After(c)) - One(e \in After(c)) + One(e \in After(c)')
           /\ Cardinality(Before(c)') \in Nat /\ Cardinality(After(c)') \in Nat
           /\ Cardinality(Before(c)') + Cardinality(After(c)') <= Cardinality(Editors)
<1>1. \A x : x # e => /\ x \in Before(c) <=> x \in Before(c)'
                      /\ x \in After(c) <=> x \in After(c)'
  BY DEF Before, After, Applies
<1>2. IsFiniteSet(Before(c)) /\ IsFiniteSet(After(c))
  BY TallySizes
<1>3. IsFiniteSet(Before(c)') /\ IsFiniteSet(After(c)')
  BY FS_Subset DEF Before, After
<1>4. Before(c)' \cap After(c)' = {} /\ Before(c)' \cup After(c)' \subseteq Editors
  BY DEF Before, After
<1> HIDE DEF Before, After
<1>5. /\ Cardinality(Before(c)' \cup After(c)')
             = Cardinality(Before(c)') + Cardinality(After(c)') - Cardinality(Before(c)' \cap After(c)')
      /\ Cardinality(Before(c)' \cup After(c)') <= Cardinality(Editors)
  BY <1>3, <1>4, FS_Union, FS_Subset
<1>6. Cardinality(Before(c)' \cap After(c)') = 0
  BY <1>4, FS_EmptySet
<1>7. Cardinality(Before(c)') \in Nat /\ Cardinality(After(c)') \in Nat
  BY <1>3, FS_CardinalityType
<1> QED
  BY <1>1, <1>2, <1>5, <1>6, <1>7, OneMoves

\* A request that enters nothing: it joins at a pending correction only, and whoever has
\* entered one and leaves has died.
LEMMA TallyStays ==
    ASSUME IsFiniteSet(Editors), TypeInv, NEW e \in Editors, NEW c \in 1 .. MaxCorrs, Tally(c),
           \A x \in Editors : x # e => request'[x] = request[x],
           UNCHANGED <<corrs, written>>, faults' \in {faults, faults + 1},
           e \in Before(c)' => e \in Before(c) \/ Status(c, "pending"),
           e \in After(c)' => e \in After(c),
           e \in After(c) /\ e \notin After(c)' => faults' = faults + 1
    PROVE  Tally(c)'
<1> DEFINE b == Cardinality(Before(c))  a == Cardinality(After(c))  n == Cardinality(Editors)
<1>1. faults \in Nat /\ written[c] \in Nat /\ b \in Nat /\ a \in Nat /\ n \in Nat
  BY TallySizes, CountsType
<1>2. /\ Cardinality(Before(c)') = b - One(e \in Before(c)) + One(e \in Before(c)')
      /\ Cardinality(After(c)') = a - One(e \in After(c)) + One(e \in After(c)')
      /\ Cardinality(Before(c)') \in Nat /\ Cardinality(After(c)') \in Nat
      /\ Cardinality(Before(c)') + Cardinality(After(c)') <= n
  BY TallyMoves
<1>3. a + faults <= Cardinality(After(c)') + faults'
  BY <1>1, <1>2 DEF One
<1>4. After(c)' # {} => After(c) # {}
  BY DEF After, Applies
<1>5. Status(c, "pending")' => written'[c] <= Cardinality(After(c)') + faults'
  BY <1>1, <1>2, <1>3 DEF Tally, Status
<1>6. written'[c] + Cardinality(Before(c)') <= n + faults'
  <2>1. CASE Status(c, "pending")
    BY <1>1, <1>2, <1>5, <2>1 DEF Status
  <2>2. CASE e \in Before(c)' => e \in Before(c)
    BY <1>1, <1>2, <2>2 DEF Tally, One
  <2> QED
    BY <2>1, <2>2
<1>7. After(c)' # {} \/ Status(c, "applied")' => written'[c] >= 1
  BY <1>4 DEF Tally, Status
<1> QED
  BY <1>5, <1>6, <1>7 DEF Tally

\* A step that leaves the corrections alone, for every correction at once.
LEMMA TallyRest ==
    ASSUME IsFiniteSet(Editors), Tallied, NEW e \in Editors, EditorStep(e),
           UNCHANGED <<corrs, written>>,
           \A c : e \in Before(c)' => e \in Before(c) \/ Status(c, "pending"),
           \A c : e \in After(c)' => e \in After(c),
           \A c : e \in After(c) /\ e \notin After(c)' => faults' = faults + 1
    PROVE  \A c \in 1 .. MaxCorrs : Tally(c)'
<1>1. /\ TypeInv /\ \A c \in 1 .. MaxCorrs : Tally(c)
      /\ \A x \in Editors : x # e => request'[x] = request[x]
  BY OthersStay DEF Tallied
<1>2. faults' \in {faults, faults + 1}
  BY FaultsGrow DEF Tallied, Next
<1> QED
  BY <1>1, <1>2, TallyStays

\* A correction that is asked for has not been entered, and nobody is at it.
LEMMA CreateTally ==
    ASSUME IsFiniteSet(Editors), Tallied, NEW e \in Editors, CorrectCreate(e)
    PROVE  \A c \in 1 .. MaxCorrs : Tally(c)'
<1> DEFINE row == [original |-> request[e].seen.value, status |-> "pending"]
<1>0. PICK new : new = Len(corrs) + 1
  OBVIOUS
<1>1. /\ corrs \in Seq(Correction) /\ Len(corrs) \in Nat
      /\ request[e] \in Request /\ request[e] # Idle /\ request[e].op = "correct"
      /\ corrs' = Append(corrs, row) /\ written' = written /\ faults' = faults
  BY DEF CorrectCreate, At, Tallied, TypeInv, TypeOK
<1>2. /\ DOMAIN corrs' = DOMAIN corrs \cup {new} /\ new \notin DOMAIN corrs
      /\ corrs'[new] = row /\ \A c \in DOMAIN corrs : corrs'[c] = corrs[c]
  BY <1>0, <1>1
<1>3. /\ \A x \in Editors : x # e => request'[x] = request[x]
      /\ request'[e].op = "correct"
  BY <1>1, OthersStay DEF CorrectCreate, GoTo, Request, Tallied, TypeInv, TypeOK
<1>4. \A c : e \notin Before(c) /\ e \notin After(c) /\ e \notin Before(c)' /\ e \notin After(c)'
  BY <1>1, <1>3 DEF Before, After, Applies
<1>5. ASSUME NEW c \in 1 .. MaxCorrs PROVE Tally(c)'
  <2>1. /\ Tally(c) /\ faults \in Nat /\ written[c] \in Nat
        /\ Cardinality(Before(c)) \in Nat /\ Cardinality(After(c)) \in Nat
    BY TallySizes, CountsType DEF Tallied
  <2>2. Cardinality(Before(c)') = Cardinality(Before(c)) /\ Cardinality(After(c)') = Cardinality(After(c))
    <3>1. /\ Cardinality(Before(c)') =
               Cardinality(Before(c)) - One(e \in Before(c)) + One(e \in Before(c)')
          /\ Cardinality(After(c)') =
               Cardinality(After(c)) - One(e \in After(c)) + One(e \in After(c)')
      BY <1>3, TallyMoves
    <3> QED
      BY <1>4, <2>1, <3>1 DEF One
  <2>3. After(c)' # {} => After(c) # {}
    BY <1>3, <1>4 DEF After, Applies
  <2>4. c \notin DOMAIN corrs' => c \notin DOMAIN corrs
    BY <1>2
  <2>5. CASE c = new
    <3>1. written[c] = 0 /\ ~Status(c, "applied")'
      BY <1>2, <2>1, <2>5 DEF Tally, Status
    <3> QED
      BY <1>1, <1>2, <2>1, <2>2, <2>3, <2>5, <3>1 DEF Tally
  <2>6. CASE c # new
    <3>1. \A t : Status(c, t)' <=> Status(c, t)
      BY <1>2, <2>6 DEF Status
    <3> QED
      BY <1>1, <2>1, <2>2, <2>3, <2>4, <3>1 DEF Tally
  <2> QED
    BY <2>5, <2>6
<1> QED
  BY <1>5

\* Entering a value moves the request from those before it to those after it.
LEMMA WriteTally ==
    ASSUME IsFiniteSet(Editors), Tallied, NEW e \in Editors, ApplyWrite(e)
    PROVE  \A c \in 1 .. MaxCorrs : Tally(c)'
<1>0. PICK d : d = request[e].correction
  OBVIOUS
<1>1. /\ request[e] \in Request /\ request[e] # Idle /\ request[e].op = "apply"
      /\ request[e].pc = "write" /\ d \in DOMAIN corrs
      /\ written \in [1 .. MaxCorrs -> Nat]
      /\ corrs' = corrs /\ faults' = faults /\ written' = [written EXCEPT ![d] = @ + 1]
  BY <1>0 DEF ApplyWrite, At, Tallied, TypeInv, TypeOK, Fits
<1>2. request'[e] = [request[e] EXCEPT !.pc = "finish"]
  BY <1>1 DEF ApplyWrite, GoTo, Tallied, TypeInv, TypeOK
<1>3. /\ request'[e] # Idle /\ request'[e].pc = "finish" /\ request'[e].op = "apply"
      /\ request'[e].correction = d
  <2>1. Idle \notin Request
    BY DEF Idle, Request
  <2> QED
    BY <1>0, <1>1, <1>2, <2>1 DEF Request
<1>4. \A x \in Editors : x # e => request'[x] = request[x]
  BY OthersStay DEF EditorStep, Tallied
<1>5. ASSUME NEW c \in 1 .. MaxCorrs PROVE Tally(c)'
  <2>1. /\ Tally(c) /\ faults \in Nat /\ written[c] \in Nat /\ Cardinality(Editors) \in Nat
        /\ Cardinality(Before(c)) \in Nat /\ Cardinality(After(c)) \in Nat
    BY TallySizes, CountsType DEF Tallied
  <2>2. /\ Cardinality(Before(c)') =
             Cardinality(Before(c)) - One(e \in Before(c)) + One(e \in Before(c)')
        /\ Cardinality(After(c)') =
             Cardinality(After(c)) - One(e \in After(c)) + One(e \in After(c)')
    BY <1>4, TallyMoves
  <2>3. \A t : Status(c, t)' <=> Status(c, t)
    BY <1>1 DEF Status
  <2>4. CASE c = d
    <3>1. /\ e \in Before(c) /\ e \notin Before(c)' /\ e \notin After(c) /\ e \in After(c)'
          /\ written'[c] = written[c] + 1
      BY <1>0, <1>1, <1>3, <2>4 DEF Before, After, Applies
    <3>2. /\ Cardinality(Before(c)') = Cardinality(Before(c)) - 1
          /\ Cardinality(After(c)') = Cardinality(After(c)) + 1
      BY <2>1, <2>2, <3>1 DEF One
    <3> QED
      BY <1>1, <2>1, <2>3, <2>4, <3>1, <3>2 DEF Tally
  <2>5. CASE c # d
    <3>1. /\ e \notin Before(c) /\ e \notin Before(c)' /\ e \notin After(c) /\ e \notin After(c)'
          /\ written'[c] = written[c]
      BY <1>0, <1>1, <1>3, <2>5 DEF Before, After, Applies
    <3>2. /\ Cardinality(Before(c)') = Cardinality(Before(c))
          /\ Cardinality(After(c)') = Cardinality(After(c))
      BY <2>1, <2>2, <3>1 DEF One
    <3>3. After(c)' # {} => After(c) # {}
      BY <1>4, <3>1 DEF After, Applies
    <3> QED
      BY <1>1, <2>1, <2>3, <3>1, <3>2, <3>3 DEF Tally
  <2> QED
    BY <2>4, <2>5
<1> QED
  BY <1>5

\* Once the outcome is stored the correction is pending no more.
LEMMA FinishTally ==
    ASSUME IsFiniteSet(Editors), Tallied, NEW e \in Editors, CorrectionFinish(e)
    PROVE  \A c \in 1 .. MaxCorrs : Tally(c)'
<1>0. PICK d : d = request[e].correction
  OBVIOUS
<1>1. /\ request[e] # Idle /\ request[e].pc = "finish" /\ request[e].op \in {"apply", "refuse"}
      /\ d \in DOMAIN corrs /\ corrs \in Seq(Correction) /\ corrs[d] \in Correction
      /\ written' = written /\ faults' = faults /\ request'[e] = Idle
  BY <1>0 DEF CorrectionFinish, Return, At, Tallied, TypeInv, TypeOK, Fits
<1>2. /\ DOMAIN corrs' = DOMAIN corrs
      /\ corrs'[d].status = Outcome(request[e].op)
      /\ \A c \in DOMAIN corrs : c # d => corrs'[c] = corrs[c]
  BY <1>0, <1>1 DEF CorrectionFinish, Correction
<1>3. \A x \in Editors : x # e => request'[x] = request[x]
  BY OthersStay DEF EditorStep, Tallied
<1>4. ASSUME NEW c \in 1 .. MaxCorrs PROVE Tally(c)'
  <2>1. /\ Tally(c) /\ faults \in Nat /\ written[c] \in Nat /\ Cardinality(Editors) \in Nat
        /\ Cardinality(Before(c)) \in Nat /\ Cardinality(After(c)) \in Nat
    BY TallySizes, CountsType DEF Tallied
  <2>2. /\ Cardinality(Before(c)') =
             Cardinality(Before(c)) - One(e \in Before(c)) + One(e \in Before(c)')
        /\ Cardinality(After(c)') =
             Cardinality(After(c)) - One(e \in After(c)) + One(e \in After(c)')
    BY <1>3, TallyMoves
  <2>3. e \notin Before(c) /\ e \notin Before(c)' /\ e \notin After(c)'
    BY <1>1 DEF Before, After, Applies
  <2>4. Cardinality(Before(c)') = Cardinality(Before(c))
    BY <2>1, <2>2, <2>3 DEF One
  <2>5. After(c)' # {} => After(c) # {}
    BY <1>3, <2>3 DEF After, Applies
  <2>6. CASE c = d
    <3>1. Status(c, "applied")' => After(c) # {}
      BY <1>0, <1>1, <1>2, <2>6 DEF Status, Outcome, After, Applies
    <3>2. ~Status(c, "pending")'
      BY <1>2, <2>6 DEF Status, Outcome
    <3> QED
      BY <1>1, <1>2, <2>1, <2>4, <2>5, <2>6, <3>1, <3>2 DEF Tally
  <2>7. CASE c # d
    <3>1. e \notin After(c)
      BY <1>0, <2>7 DEF After, Applies
    <3>2. Cardinality(After(c)') = Cardinality(After(c))
      BY <2>1, <2>2, <2>3, <3>1 DEF One
    <3>3. \A t : Status(c, t)' <=> Status(c, t)
      BY <1>2, <2>7 DEF Status
    <3> QED
      BY <1>1, <1>2, <2>1, <2>4, <2>5, <3>2, <3>3 DEF Tally
  <2> QED
    BY <2>6, <2>7
<1> QED
  BY <1>4

LEMMA EditorTally ==
    ASSUME IsFiniteSet(Editors), Tallied, NEW e \in Editors, EditorStep(e)
    PROVE  \A c \in 1 .. MaxCorrs : Tally(c)'
<1>1. /\ TypeInv /\ TypeOK /\ (request[e] # Idle => request[e] \in Request)
      /\ (request[e] # Idle => Fits(request[e]))
  BY DEF Tallied, TypeInv, TypeOK
<1>2. ASSUME UNCHANGED <<corrs, written>>, request'[e] = Idle \/ request'[e].op # "apply",
             ~At(e, "finish") \/ faults' = faults + 1
      PROVE  \A c \in 1 .. MaxCorrs : Tally(c)'
  <2>1. \A c : e \notin Before(c)' /\ e \notin After(c)'
    BY <1>2 DEF Before, After, Applies
  <2>2. \A c : e \in After(c) => At(e, "finish")
    BY DEF After, Applies, At
  <2> QED
    BY <1>2, <2>1, <2>2, TallyRest
<1>3. ASSUME UNCHANGED <<corrs, written>>, request[e] # Idle, request[e].pc # "finish",
             request'[e].pc # "finish", request'[e].op = request[e].op,
             request'[e].correction = request[e].correction
      PROVE  \A c \in 1 .. MaxCorrs : Tally(c)'
  <2>1. \A c : /\ e \in Before(c)' => e \in Before(c)
               /\ e \notin After(c)' /\ e \notin After(c)
    BY <1>3 DEF Before, After, Applies
  <2> QED
    BY <1>3, <2>1, TallyRest
<1>4. ASSUME NEW op \in Decisions \cup {"correct"}, Load(e, op) PROVE \A c \in 1 .. MaxCorrs : Tally(c)'
  <2>1. request'[e].op = op /\ ~At(e, "finish") /\ UNCHANGED <<corrs, written>>
    BY <1>1, <1>4 DEF Load, MayStart, Start, At, TypeOK
  <2> QED
    BY <1>2, <2>1 DEF Decisions
<1>5. CASE ClosePeriod(e) \/ SaveGuardRates(e) \/ SaveSettings(e)
  <2>1. /\ request'[e].op # "apply" /\ ~At(e, "finish") /\ UNCHANGED <<corrs, written>>
    BY <1>1, <1>5 DEF ClosePeriod, SaveGuardRates, SaveSettings, MayStart, Start, At, TypeOK
  <2> QED
    BY <1>2, <2>1
<1>6. CASE AssertNotLocked(e)
  <2>1. /\ request[e] # Idle /\ request[e].pc = "assert" /\ request[e] \in Request
        /\ ~At(e, "finish") /\ UNCHANGED <<corrs, written>>
    BY <1>1, <1>6 DEF AssertNotLocked, At
  <2>2. CASE Return(e)
    <3>1. request'[e] = Idle
      BY <1>1, <2>2 DEF Return, TypeOK
    <3> QED
      BY <1>2, <2>1, <3>1
  <2>3. CASE GoTo(e, "write")
    <3>1. /\ request'[e].pc = "write" /\ request'[e].op = request[e].op
          /\ request'[e].correction = request[e].correction
      BY <1>1, <2>1, <2>3 DEF GoTo, TypeOK, Request
    <3> QED
      BY <1>3, <2>1, <3>1
  <2> QED
    BY <1>6, <2>2, <2>3 DEF AssertNotLocked
<1>7. CASE SetApproval(e) \/ CorrectFlag(e) \/ SettingsWrite(e)
  <2>1. Return(e) /\ ~At(e, "finish") /\ UNCHANGED <<corrs, written>>
    BY <1>7 DEF SetApproval, CorrectFlag, SettingsWrite, At
  <2>2. request'[e] = Idle
    BY <1>1, <2>1 DEF Return, TypeOK
  <2> QED
    BY <1>2, <2>1, <2>2
<1>8. CASE ApplyLoad(e)
  <2>1. /\ request[e] # Idle /\ request[e].pc = "load" /\ request[e] \in Request
        /\ UNCHANGED <<corrs, written>>
    BY <1>1, <1>8 DEF ApplyLoad, At
  <2>2. /\ request'[e].pc = AfterLoad(record) /\ AfterLoad(record) # "finish"
        /\ request'[e].op = request[e].op
        /\ request'[e].correction = request[e].correction
    BY <1>1, <1>8, <2>1 DEF ApplyLoad, TypeOK, Request, AfterLoad
  <2> QED
    BY <1>3, <2>1, <2>2
<1>9. CASE SettingsRead(e)
  <2>1. /\ request[e] \in Request /\ Fits(request[e]) /\ request[e].pc = "read"
        /\ request[e] # Idle /\ ~At(e, "finish") /\ UNCHANGED <<corrs, written>>
    BY <1>1, <1>9 DEF SettingsRead, At
  <2>2. PICK d : request' = [request EXCEPT ![e].pc = "merge", ![e].draft = d]
    BY <1>9 DEF SettingsRead
  <2>3. request'[e].op = request[e].op
    BY <1>1, <2>1, <2>2 DEF TypeOK, Request
  <2>4. request'[e].op # "apply"
    BY <2>1, <2>3 DEF Fits, SettingsOps
  <2> QED
    BY <1>2, <2>1, <2>4
<1>10. ASSUME NEW op \in {"apply", "refuse"}, NEW d \in DOMAIN corrs, CorrectionLoad(e, op, d)
       PROVE  \A c \in 1 .. MaxCorrs : Tally(c)'
  <2>1. /\ request[e] = Idle /\ corrs[d].status = "pending" /\ UNCHANGED <<corrs, written>>
        /\ request'[e].correction = d /\ request'[e].op = op
        /\ request'[e].pc = (IF op = "apply" THEN "load" ELSE "finish")
    BY <1>1, <1>10 DEF CorrectionLoad, MayStart, Decidable, Start, TypeOK
  <2>2. \A c : e \in Before(c)' => Status(c, "pending")
    BY <1>10, <2>1 DEF Before, Applies, Status
  <2>3. \A c : e \notin After(c)' /\ e \notin After(c)
    BY <2>1 DEF After, Applies
  <2> QED
    BY <2>1, <2>2, <2>3, TallyRest
<1>11. CASE Dies(e)
  <2>1. request'[e] = Idle /\ faults' = faults + 1 /\ UNCHANGED <<corrs, written>>
    BY <1>1, <1>11 DEF Dies, Return, TypeOK
  <2> QED
    BY <1>2, <2>1
<1>12. CASE CorrectCreate(e) \/ ApplyWrite(e) \/ CorrectionFinish(e)
  BY <1>12, CreateTally, WriteTally, FinishTally
<1> QED
  BY <1>4, <1>5, <1>6, <1>7, <1>8, <1>9, <1>10, <1>11, <1>12 DEF EditorStep

LEMMA NextTallied ==
    ASSUME IsFiniteSet(Editors), Tallied, [Next]_vars
    PROVE  Tallied'
<1>1. TypeInv'
  BY NextTypeInv DEF Tallied
<1>2. ASSUME NEW e \in Editors, EditorStep(e) PROVE \A c \in 1 .. MaxCorrs : Tally(c)'
  BY <1>2, EditorTally
<1>3. CASE Punch \/ UNCHANGED vars
  <2>1. UNCHANGED <<corrs, request, written, faults>>
    BY <1>3 DEF Punch, vars
  <2>2. \A c : Tally(c)' <=> Tally(c)
    BY <2>1 DEF Tally, Before, After, Applies, Status
  <2> QED
    BY <1>1, <2>2 DEF Tallied
<1> QED
  BY <1>1, <1>2, <1>3 DEF Tallied, Next

(* A correction that is refused *)

\* The requests that are going to record a correction as rejected.
Refusing(c) ==
    {e \in Editors : request[e] # Idle /\ request[e].op = "refuse" /\ request[e].correction = c}

\* Whoever refuses a correction is not at entering it: one entry less.
Refusal(c) ==
    Status(c, "rejected") \/ Refusing(c) # {} =>
        written[c] + Cardinality(Before(c)) < Cardinality(Editors) + faults

Settling == Tallied /\ \A c \in 1 .. MaxCorrs : Refusal(c)

\* A request that is not at entering a correction leaves room.
LEMMA RefusalRoom ==
    ASSUME IsFiniteSet(Editors), NEW x \in Editors, NEW B \in SUBSET Editors,
           NEW A \in SUBSET Editors, x \notin B, x \notin A, B \cap A = {}
    PROVE  Cardinality(B) + Cardinality(A) < Cardinality(Editors)
<1>2. IsFiniteSet(B) /\ IsFiniteSet(A) /\ IsFiniteSet(B \cup A)
  BY FS_Subset, FS_Union
<1>3. Cardinality(B \cup A) = Cardinality(B) + Cardinality(A) - Cardinality(B \cap A)
  BY <1>2, FS_Union
<1>4. Cardinality(B \cap A) = 0
  BY FS_EmptySet
<1>5. /\ IsFiniteSet(B \cup A \cup {x})
      /\ Cardinality((B \cup A) \cup {x}) = Cardinality(B \cup A) + 1
  BY <1>2, FS_AddElement
<1>6. Cardinality((B \cup A) \cup {x}) <= Cardinality(Editors)
  <2>1. (B \cup A) \cup {x} \subseteq Editors
    OBVIOUS
  <2> QED
    BY <2>1, FS_Subset
<1>7. /\ Cardinality(B) \in Nat /\ Cardinality(A) \in Nat
      /\ Cardinality(B \cup A) \in Nat /\ Cardinality(Editors) \in Nat
  BY <1>2, FS_CardinalityType
<1> QED
  BY <1>3, <1>4, <1>5, <1>6, <1>7

\* What a step does to a correction that is not pending once it is over: nobody joins
\* those at it, it is entered by who was about to, and rejected by who was about to.
LEMMA Decided ==
    ASSUME Tallied, NEW e \in Editors, EditorStep(e), NEW c \in 1 .. MaxCorrs,
           ~Status(c, "pending")', c \in DOMAIN corrs'
    PROVE  /\ written'[c] + One(e \in Before(c)') <= written[c] + One(e \in Before(c))
           /\ e \in Refusing(c)' => e \in Refusing(c)
           /\ Status(c, "rejected")' => Status(c, "rejected") \/ e \in Refusing(c)
<1>1. /\ TypeInv /\ TypeOK /\ (request[e] # Idle => request[e] \in Request)
      /\ (request[e] # Idle => Fits(request[e])) /\ Idle \notin Request
      /\ written[c] \in Nat
  BY CountsType DEF Tallied, TypeInv, TypeOK, Idle, Request
<1>2. ASSUME UNCHANGED <<corrs, written>>,
             request'[e] = Idle \/ request'[e].op \notin {"apply", "refuse"}
      PROVE  /\ written'[c] + One(e \in Before(c)') <= written[c] + One(e \in Before(c))
             /\ e \in Refusing(c)' => e \in Refusing(c)
             /\ Status(c, "rejected")' => Status(c, "rejected") \/ e \in Refusing(c)
  BY <1>1, <1>2 DEF Before, Applies, Refusing, Status, One
<1>3. ASSUME UNCHANGED <<corrs, written>>, request[e] # Idle, request[e].pc # "finish",
             request'[e].op = request[e].op, request'[e].correction = request[e].correction
      PROVE  /\ written'[c] + One(e \in Before(c)') <= written[c] + One(e \in Before(c))
             /\ e \in Refusing(c)' => e \in Refusing(c)
             /\ Status(c, "rejected")' => Status(c, "rejected") \/ e \in Refusing(c)
  <2>1. /\ e \in Before(c)' => e \in Before(c)
        /\ e \in Refusing(c)' => e \in Refusing(c)
    BY <1>3 DEF Before, Applies, Refusing
  <2>2. Status(c, "rejected")' => Status(c, "rejected")
    BY <1>3 DEF Status
  <2> QED
    BY <1>1, <1>3, <2>1, <2>2 DEF One
<1>4. CASE \E op \in Decisions \cup {"correct"} : Load(e, op)
  <2>1. PICK op \in Decisions \cup {"correct"} : Load(e, op)
    BY <1>4
  <2>2. request'[e].op = op /\ UNCHANGED <<corrs, written>>
    BY <1>1, <2>1 DEF Load, Start, TypeOK
  <2> QED
    BY <1>2, <2>2 DEF Decisions
<1>5. CASE ClosePeriod(e) \/ SaveGuardRates(e) \/ SaveSettings(e)
  <2>1. request'[e].op \notin {"apply", "refuse"} /\ UNCHANGED <<corrs, written>>
    BY <1>1, <1>5 DEF ClosePeriod, SaveGuardRates, SaveSettings, Start, TypeOK
  <2> QED
    BY <1>2, <2>1
<1>6. CASE AssertNotLocked(e)
  <2>1. /\ request[e] # Idle /\ request[e].pc = "assert" /\ request[e] \in Request
        /\ UNCHANGED <<corrs, written>>
    BY <1>1, <1>6 DEF AssertNotLocked, At
  <2>2. CASE Return(e)
    <3>1. request'[e] = Idle
      BY <1>1, <2>2 DEF Return, TypeOK
    <3> QED
      BY <1>2, <2>1, <3>1
  <2>3. CASE GoTo(e, "write")
    <3>1. request'[e].op = request[e].op /\ request'[e].correction = request[e].correction
      BY <1>1, <2>1, <2>3 DEF GoTo, TypeOK, Request
    <3> QED
      BY <1>3, <2>1, <3>1
  <2> QED
    BY <1>6, <2>2, <2>3 DEF AssertNotLocked
<1>7. CASE SetApproval(e) \/ CorrectFlag(e) \/ SettingsWrite(e) \/ Dies(e)
  <2>1. Return(e) /\ UNCHANGED <<corrs, written>>
    BY <1>7 DEF SetApproval, CorrectFlag, SettingsWrite, Dies
  <2>2. request'[e] = Idle
    BY <1>1, <2>1 DEF Return, TypeOK
  <2> QED
    BY <1>2, <2>1, <2>2
<1>8. CASE ApplyLoad(e)
  <2>1. /\ request[e] # Idle /\ request[e].pc = "load" /\ request[e] \in Request
        /\ UNCHANGED <<corrs, written>>
    BY <1>1, <1>8 DEF ApplyLoad, At
  <2>2. request'[e].op = request[e].op /\ request'[e].correction = request[e].correction
    BY <1>1, <1>8, <2>1 DEF ApplyLoad, TypeOK, Request
  <2> QED
    BY <1>3, <2>1, <2>2
<1>9. CASE SettingsRead(e)
  <2>1. /\ request[e] \in Request /\ Fits(request[e]) /\ request[e].pc = "read"
        /\ request[e] # Idle /\ UNCHANGED <<corrs, written>>
    BY <1>1, <1>9 DEF SettingsRead, At
  <2>2. PICK d : request' = [request EXCEPT ![e].pc = "merge", ![e].draft = d]
    BY <1>9 DEF SettingsRead
  <2>3. request'[e].op = request[e].op
    BY <1>1, <2>1, <2>2 DEF TypeOK, Request
  <2>4. request'[e].op \notin {"apply", "refuse"}
    BY <2>1, <2>3 DEF Fits, SettingsOps
  <2> QED
    BY <1>2, <2>1, <2>4
<1>10. CASE \E op \in {"apply", "refuse"}, d \in DOMAIN corrs : CorrectionLoad(e, op, d)
  <2>1. PICK op \in {"apply", "refuse"}, d \in DOMAIN corrs : CorrectionLoad(e, op, d)
    BY <1>10
  <2>2. /\ corrs[d].status = "pending" /\ UNCHANGED <<corrs, written>>
        /\ request'[e].correction = d
    BY <1>1, <2>1 DEF CorrectionLoad, Decidable, Start, TypeOK
  <2>3. c # d
    BY <2>2 DEF Status
  <2>4. e \notin Before(c)' /\ e \notin Refusing(c)' /\ (Status(c, "rejected")' => Status(c, "rejected"))
    BY <2>2, <2>3 DEF Before, Applies, Refusing, Status
  <2> QED
    BY <1>1, <2>2, <2>4 DEF One
<1>11. CASE CorrectCreate(e)
  <2>1. /\ request[e] # Idle /\ request[e].op = "correct" /\ corrs \in Seq(Correction)
        /\ request[e] \in Request /\ written' = written
        /\ corrs' = Append(corrs, [original |-> request[e].seen.value, status |-> "pending"])
    BY <1>1, <1>11 DEF CorrectCreate, At, TypeOK
  <2>2. request'[e].op = "correct"
    BY <1>1, <1>11, <2>1 DEF CorrectCreate, GoTo, Request, TypeOK
  <2>3. c \in DOMAIN corrs /\ corrs'[c] = corrs[c]
    <3>1. c # Len(corrs) + 1
      BY <2>1 DEF Status
    <3> QED
      BY <2>1, <3>1
  <2>4. e \notin Before(c)' /\ e \notin Refusing(c)' /\ (Status(c, "rejected")' => Status(c, "rejected"))
    BY <2>2, <2>3 DEF Before, Applies, Refusing, Status
  <2> QED
    BY <1>1, <2>1, <2>4 DEF One
<1>12. CASE ApplyWrite(e)
  <2>0. PICK d : d = request[e].correction
    OBVIOUS
  <2>1. /\ request[e] \in Request /\ request[e] # Idle /\ request[e].op = "apply"
        /\ request[e].pc = "write" /\ written \in [1 .. MaxCorrs -> Nat]
        /\ corrs' = corrs /\ written' = [written EXCEPT ![d] = @ + 1]
    BY <1>1, <1>12, <2>0 DEF ApplyWrite, At, TypeOK
  <2>2. request'[e].pc = "finish" /\ request'[e].op = "apply"
    BY <1>1, <1>12, <2>1 DEF ApplyWrite, GoTo, Request, TypeOK
  <2>3. /\ e \notin Before(c)' /\ e \notin Refusing(c)'
        /\ (Status(c, "rejected")' => Status(c, "rejected"))
    BY <2>1, <2>2 DEF Before, Applies, Refusing, Status
  <2>4. CASE c = d
    <3>1. e \in Before(c) /\ written'[c] = written[c] + 1
      BY <2>0, <2>1, <2>4 DEF Before, Applies
    <3> QED
      BY <1>1, <2>3, <3>1 DEF One
  <2>5. CASE c # d
    <3>1. written'[c] = written[c]
      BY <2>1, <2>5
    <3> QED
      BY <1>1, <2>3, <3>1 DEF One
  <2> QED
    BY <2>4, <2>5
<1>13. CASE CorrectionFinish(e)
  <2>0. PICK d : d = request[e].correction
    OBVIOUS
  <2>1. /\ request[e] # Idle /\ request[e].op \in {"apply", "refuse"}
        /\ d \in DOMAIN corrs /\ corrs \in Seq(Correction) /\ corrs[d] \in Correction
        /\ written' = written /\ request'[e] = Idle
    BY <1>1, <1>13, <2>0 DEF CorrectionFinish, Return, At, TypeOK, Fits
  <2>2. /\ corrs'[d].status = Outcome(request[e].op) /\ DOMAIN corrs' = DOMAIN corrs
        /\ \A k \in DOMAIN corrs : k # d => corrs'[k] = corrs[k]
    BY <1>13, <2>0, <2>1 DEF CorrectionFinish, Correction
  <2>3. Status(c, "rejected")' => Status(c, "rejected") \/ e \in Refusing(c)
    <3>1. CASE c = d
      BY <2>0, <2>1, <2>2, <3>1 DEF Status, Outcome, Refusing
    <3>2. CASE c # d
      BY <2>2, <3>2 DEF Status
    <3> QED
      BY <3>1, <3>2
  <2>4. e \notin Before(c)' /\ e \notin Refusing(c)'
    BY <2>1 DEF Before, Applies, Refusing
  <2> QED
    BY <1>1, <2>1, <2>3, <2>4 DEF One
<1> QED
  BY <1>4, <1>5, <1>6, <1>7, <1>8, <1>9, <1>10, <1>11, <1>12, <1>13 DEF EditorStep

LEMMA NextSettling ==
    ASSUME IsFiniteSet(Editors), Settling, [Next]_vars
    PROVE  Settling'
<1>0. Tallied' /\ TypeInv /\ TypeInv'
  BY NextTallied, NextTypeInv DEF Settling, Tallied
<1>1. CASE Punch \/ UNCHANGED vars
  <2>1. UNCHANGED <<corrs, request, written, faults>>
    BY <1>1 DEF Punch, vars
  <2>2. \A c : Refusal(c)' <=> Refusal(c)
    BY <2>1 DEF Refusal, Refusing, Before, Applies, Status
  <2> QED
    BY <1>0, <2>2 DEF Settling
<1>2. ASSUME NEW e \in Editors, EditorStep(e), NEW c \in 1 .. MaxCorrs PROVE Refusal(c)'
  <2>1. SUFFICES ASSUME Status(c, "rejected")' \/ Refusing(c)' # {}
                 PROVE  written'[c] + Cardinality(Before(c)') < Cardinality(Editors) + faults'
    BY DEF Refusal
  <2>2. /\ \A x \in Editors : x # e => request'[x] = request[x]
        /\ faults' \in {faults, faults + 1}
    BY <1>0, <1>2, OthersStay, FaultsGrow DEF Next
  <2>3. /\ written[c] \in Nat /\ written'[c] \in Nat /\ faults \in Nat /\ faults' \in Nat
        /\ Cardinality(Editors) \in Nat /\ Cardinality(Before(c)) \in Nat
    BY <1>0, CountsType, TallySizes, FS_CardinalityType DEF TypeInv, TypeOK
  <2>4. /\ Cardinality(Before(c)') =
             Cardinality(Before(c)) - One(e \in Before(c)) + One(e \in Before(c)')
        /\ Cardinality(Before(c)') \in Nat /\ Cardinality(After(c)') \in Nat
    BY <2>2, TallyMoves
  <2>5. CASE Status(c, "pending")'
    <3>1. PICK x \in Editors : x \in Refusing(c)'
      BY <2>1, <2>5 DEF Status, Refusing
    <3>2. Cardinality(Before(c)') + Cardinality(After(c)') < Cardinality(Editors)
      <4>1. /\ Before(c)' \in SUBSET Editors /\ After(c)' \in SUBSET Editors
            /\ x \notin Before(c)' /\ x \notin After(c)' /\ Before(c)' \cap After(c)' = {}
        BY <3>1 DEF Before, After, Applies, Refusing
      <4> HIDE DEF Before, After
      <4> QED
        BY <4>1, RefusalRoom
    <3>3. written'[c] <= Cardinality(After(c)') + faults'
      BY <1>0, <2>5 DEF Tallied, Tally
    <3> QED
      BY <2>3, <2>4, <3>2, <3>3
  <2>6. CASE ~Status(c, "pending")'
    <3>1. c \in DOMAIN corrs'
      BY <1>0, <2>1 DEF Status, Refusing, TypeInv, Fits
    <3>2. /\ written'[c] + One(e \in Before(c)') <= written[c] + One(e \in Before(c))
          /\ e \in Refusing(c)' => e \in Refusing(c)
          /\ Status(c, "rejected")' => Status(c, "rejected") \/ e \in Refusing(c)
      BY <1>2, <2>6, <3>1, Decided DEF Settling
    <3>3. Status(c, "rejected") \/ Refusing(c) # {}
      BY <2>1, <2>2, <3>2 DEF Refusing
    <3>4. written[c] + Cardinality(Before(c)) < Cardinality(Editors) + faults
      BY <3>3 DEF Settling, Refusal
    <3> QED
      BY <2>2, <2>3, <2>4, <3>2, <3>4 DEF One
  <2> QED
    BY <2>5, <2>6
<1> QED
  BY <1>0, <1>1, <1>2 DEF Settling, Next

\* However requests overlap and whatever fails: a correction recorded as applied is on the
\* record, one is entered no more often than there are requests and failures together, and one
\* recorded as rejected less often than that; with a single administrator, applied once and
\* never refused and applied, but for what a failure costs (applyCorrection, which checks the
\* status before it awaits).
THEOREM CorrectionsOnce ==
    ASSUME IsFiniteSet(Editors)
    PROVE  Spec => []CorrectionsSettle
<1>1. Init => Settling
  <2>1. SUFFICES ASSUME Init, NEW c \in 1 .. MaxCorrs PROVE TypeInv /\ Tally(c) /\ Refusal(c)
    BY InitTypeInv DEF Settling, Tallied
  <2>2. Before(c) = {} /\ After(c) = {} /\ Refusing(c) = {} /\ ~\E t : Status(c, t)
    BY <2>1 DEF Init, Before, After, Applies, Refusing, Status
  <2>3. Cardinality(Before(c)) = 0 /\ Cardinality(Editors) \in Nat
    BY <2>2, FS_EmptySet, FS_CardinalityType
  <2>4. written[c] = 0 /\ faults = 0
    BY <2>1 DEF Init
  <2> QED
    BY <2>1, <2>2, <2>3, <2>4, InitTypeInv DEF Tally, Refusal
<1>2. Settling => CorrectionsSettle
  <2>1. SUFFICES ASSUME Settling, NEW c \in DOMAIN corrs
                 PROVE  /\ written[c] <= Cardinality(Editors) + faults
                        /\ corrs[c].status = "applied" => written[c] >= 1
                        /\ corrs[c].status = "rejected" => written[c] < Cardinality(Editors) + faults
    BY DEF CorrectionsSettle
  <2>2. /\ Tally(c) /\ Refusal(c) /\ faults \in Nat /\ written[c] \in Nat
        /\ Cardinality(Before(c)) \in Nat /\ Cardinality(Editors) \in Nat
    BY <2>1, CountsType, TallySizes DEF Settling, Tallied
  <2> QED
    BY <2>1, <2>2 DEF Tally, Refusal, Status
<1>3. Settling /\ [Next]_vars => Settling'
  BY NextSettling
<1> QED
  BY <1>1, <1>2, <1>3, PTL DEF Spec

=============================================================================
