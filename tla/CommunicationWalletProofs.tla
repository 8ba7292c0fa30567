------------------------ MODULE CommunicationWalletProofs ------------------------
(***************************************************************************)
(* CommunicationWallet for any plans, prices, messages, recharges and faults:   *)
(* its types, why a tenant that did not opt in never owes more than the segments  *)
(* that exceeded an estimate, why the log is the ledger, why every message that   *)
(* was sent is paid for, and why a recharge arrives.                             *)
(***************************************************************************)
EXTENDS CommunicationWallet, FiniteSetTheorems, WellFoundedInduction, TLAPS

\* The recharge that holds the row has read the balance as it is; the others hold nothing.
Locked ==
    \A h \in Handlers : credit[h] # Idle => lock = h /\ credit[h].base = balance

Inv == TypeOK /\ Locked /\ NoOverdraft

LEMMA CreditIsNotIdle == Idle \notin Credit
BY WalletAssumption DEF Idle, Credit

LEMMA PlanType ==
    ASSUME NEW m \in Messages
    PROVE  /\ Plan[m] \in Seq(DOMAIN Estimate) /\ Len(Plan[m]) \in Nat \ {0}
           /\ DOMAIN Plan[m] = 1 .. Len(Plan[m])
           /\ \A i \in DOMAIN Plan[m] : Plan[m][i] \in DOMAIN Estimate
BY WalletAssumption

LEMMA ChannelType ==
    ASSUME TypeOK, NEW m \in Messages, attempt[m].pc # "done"
    PROVE  /\ Channel(m) \in DOMAIN Estimate /\ Estimate[Channel(m)] \in Nat
           /\ Actual[Channel(m)] \in SUBSET Nat
BY PlanType, WalletAssumption DEF TypeOK, Channel

\* What the attempts have to be, and how a step of one of them keeps it.
Attempts == /\ attempt \in [Messages -> Attempt]
            /\ \A m \in Messages : attempt[m].pc # "done" => attempt[m].step \in DOMAIN Plan[m]

LEMMA AttemptStep ==
    ASSUME TypeOK, NEW m \in Messages, NEW x \in Attempt,
           x.pc # "done" => x.step \in DOMAIN Plan[m],
           attempt' = [attempt EXCEPT ![m] = x]
    PROVE  Attempts'
<1>1. attempt' \in [Messages -> Attempt]
  BY DEF TypeOK
<1>2. ASSUME NEW n \in Messages, attempt'[n].pc # "done" PROVE attempt'[n].step \in DOMAIN Plan[n]
  BY <1>2 DEF TypeOK
<1> QED
  BY <1>1, <1>2 DEF Attempts

LEMMA GotoType ==
    ASSUME TypeOK, NEW m \in Messages, attempt[m].pc # "done",
           NEW pc \in {"gate", "reserve", "send", "refund", "settle", "done"}, Goto(m, pc)
    PROVE  Attempts'
<1> DEFINE x == [attempt[m] EXCEPT !.pc = pc]
<1>1. x \in Attempt /\ x.step = attempt[m].step
  BY DEF TypeOK, Attempt
<1>2. attempt' = [attempt EXCEPT ![m] = x]
  BY DEF TypeOK, Goto
<1>3. x.step \in DOMAIN Plan[m]
  BY <1>1 DEF TypeOK
<1> HIDE DEF x
<1> QED
  BY <1>1, <1>2, <1>3, AttemptStep

LEMMA GoOnType ==
    ASSUME TypeOK, NEW m \in Messages, attempt[m].pc # "done", NEW success, GoOn(m, success)
    PROVE  Attempts'
<1>0. attempt[m] \in Attempt /\ attempt[m].step \in 1 .. Len(Plan[m]) /\ Len(Plan[m]) \in Nat
  BY PlanType DEF TypeOK
<1>1. CASE (success /\ m \notin Critical) \/ AtEnd(m)
  <2> DEFINE x == [attempt[m] EXCEPT !.pc = "done", !.held = 0]
  <2>1. x \in Attempt /\ x.pc = "done"
    BY <1>0 DEF Attempt
  <2>2. attempt' = [attempt EXCEPT ![m] = x]
    BY <1>1 DEF GoOn
  <2> HIDE DEF x
  <2> QED
    BY <2>1, <2>2, AttemptStep
<1>2. CASE ~((success /\ m \notin Critical) \/ AtEnd(m))
  <2> DEFINE x == [attempt[m] EXCEPT !.pc = "gate", !.held = 0, !.step = attempt[m].step + 1]
  <2>0. attempt[m].step + 1 \in Nat
    BY <1>0
  <2>1. x \in Attempt /\ x.step = attempt[m].step + 1
    BY <1>0, <2>0 DEF Attempt
  <2>2. x.step \in DOMAIN Plan[m]
    BY <1>0, <1>2, <2>1, PlanType DEF AtEnd
  <2>5. attempt' = [attempt EXCEPT ![m] = x]
    BY <1>2 DEF GoOn
  <2> HIDE DEF x
  <2> QED
    BY <2>1, <2>2, <2>5, AttemptStep
<1> QED
  BY <1>1, <1>2

-----------------------------------------------------------------------------
LEMMA InitInv == Init => Inv
<1> SUFFICES ASSUME Init PROVE Inv
  OBVIOUS
<1>1. \A m \in Messages : 1 \in DOMAIN Plan[m]
  BY PlanType
<1>2. TypeOK
  <2>1. attempt \in [Messages -> Attempt] /\ \A m \in Messages : attempt[m].step = 1
    BY DEF Init, Attempt
  <2>2. \A m \in Messages : attempt[m].step \in DOMAIN Plan[m]
    BY <1>1, <2>1
  <2>3. payment \in [Sessions -> Payment]
    BY DEF Init, Payment
  <2>4. balance \in Int /\ lock = Null /\ clock \in 0 .. Horizon
        /\ deliveries \in 0 .. MaxDeliveries /\ faults \in 0 .. MaxFaults
    BY WalletAssumption DEF Init
  <2>5. Null \notin Handlers
    BY WalletAssumption DEF Handlers
  <2> QED
    BY <2>1, <2>2, <2>3, <2>4, <2>5 DEF Init, TypeOK
<1>3. Locked /\ NoOverdraft
  BY WalletAssumption DEF Init, Locked, NoOverdraft
<1> QED
  BY <1>2, <1>3 DEF Inv

LEMMA FaultType ==
    ASSUME TypeOK, Fault
    PROVE  faults' \in 0 .. MaxFaults
BY WalletAssumption DEF TypeOK, Fault

\* A step of a message: it touches the balance only while nobody holds the row.
LEMMA SendStep ==
    ASSUME Inv, Attempts', UNCHANGED <<settings, lock, recharge>>,
           balance' \in Int, RowIsFree \/ balance' = balance,
           accepted' \subseteq Messages \X DOMAIN Estimate,
           billed' \in Nat, extra' \in Nat, faults' \in 0 .. MaxFaults,
           ~overdraft => balance' >= -extra'
    PROVE  Inv'
<1>1. TypeOK'
  BY DEF Inv, TypeOK, Attempts, settings, recharge
<1>2. Locked'
  <2> SUFFICES ASSUME NEW h \in Handlers, credit[h] # Idle
               PROVE  lock' = h /\ credit[h].base = balance'
    BY DEF Locked, recharge
  <2>1. lock = h /\ credit[h].base = balance
    BY DEF Inv, Locked
  <2>2. ~RowIsFree
    BY <2>1, WalletAssumption DEF RowIsFree, Handlers
  <2> QED
    BY <2>1, <2>2
<1> QED
  BY <1>1, <1>2 DEF Inv, NoOverdraft, settings

\* A step of a recharge, of Stripe or of the job.
LEMMA RechargeStep ==
    ASSUME Inv, UNCHANGED <<settings, sending>>,
           balance' \in Int, balance' >= balance,
           lock' \in Handlers \cup {Null}, credited' \subseteq Sessions,
           payment' \in [Sessions -> Payment], credit' \in [Handlers -> Credit \cup {Idle}],
           \A h \in Handlers : lock' = h => credit'[h] # Idle,
           todo' \subseteq Sessions, swept' \in BOOLEAN, clock' \in 0 .. Horizon,
           deliveries' \in 0 .. MaxDeliveries, faults' \in 0 .. MaxFaults,
           Locked'
    PROVE  Inv'
<1>1. TypeOK'
  BY DEF Inv, TypeOK, settings, sending
<1>2. extra \in Nat /\ balance \in Int
  BY DEF Inv, TypeOK
<1> QED
  BY <1>1, <1>2 DEF Inv, NoOverdraft, settings, sending

LEMMA InvFacts ==
    ASSUME Inv
    PROVE  /\ TypeOK /\ balance \in Int /\ extra \in Nat /\ billed \in Nat
           /\ accepted \subseteq Messages \X DOMAIN Estimate
           /\ faults \in 0 .. MaxFaults /\ (~overdraft => balance >= -extra)
BY DEF Inv, TypeOK, NoOverdraft

\* One step of the message router.
LEMMA MessageSteps ==
    ASSUME Inv, NEW m \in Messages,
           \/ Skip(m) \/ Gate(m) \/ Reserve(m) \/ ReserveFails(m) \/ SendOk(m) \/ SendFails(m)
           \/ Refund(m) \/ Settle(m) \/ SenderDies(m)
    PROVE  Inv'
<1> USE InvFacts
<1>0. attempt[m].pc # "done" => attempt[m] \in Attempt /\ Channel(m) \in DOMAIN Estimate
                               /\ Estimate[Channel(m)] \in Nat /\ Actual[Channel(m)] \in SUBSET Nat
  BY ChannelType DEF TypeOK
<1>1. CASE Skip(m)
  <2>1. Attempts'
    BY <1>1, GoOnType DEF Skip, At
  <2> QED
    BY <1>1, <2>1, SendStep DEF Skip, wallet
<1>2. CASE Gate(m)
  <2>1. Attempts'
    BY <1>2, GotoType DEF Gate, At
  <2> QED
    BY <1>2, <2>1, SendStep DEF Gate, wallet
<1>3. CASE Reserve(m)
  <2> DEFINE cents == Estimate[Channel(m)]
             x == [attempt[m] EXCEPT !.pc = "send", !.held = cents]
  <2>0. attempt[m].pc = "reserve" /\ cents \in Nat
    BY <1>0, <1>3 DEF Reserve, At
  <2>1. CASE Covers(cents) /\ balance' = balance - cents /\ attempt' = [attempt EXCEPT ![m] = x]
    <3>1. x \in Attempt /\ x.step \in DOMAIN Plan[m]
      BY <2>0, <1>0 DEF Attempt, TypeOK
    <3> HIDE DEF x
    <3>2. Attempts'
      BY <2>1, <3>1, AttemptStep
    <3>3. ~overdraft => balance' >= -extra
      BY <2>0, <2>1 DEF Covers
    <3> HIDE DEF cents
    <3> QED
      BY <1>3, <2>0, <2>1, <3>2, <3>3, SendStep DEF Reserve
  <2>2. CASE Unreserved(m) /\ UNCHANGED balance
    <3>1. Attempts'
      BY <2>0, <2>2, GotoType, GoOnType DEF Unreserved
    <3> QED
      BY <1>3, <2>2, <3>1, SendStep DEF Reserve
  <2> QED
    BY <1>3, <2>1, <2>2 DEF Reserve
<1>4. CASE ReserveFails(m)
  <2>1. Attempts'
    BY <1>4, GotoType, GoOnType DEF ReserveFails, Unreserved, At
  <2> QED
    BY <1>4, <2>1, FaultType, SendStep DEF ReserveFails, wallet
<1>5. CASE SendOk(m)
  <2>0. attempt[m].pc = "send" /\ accepted' \subseteq Messages \X DOMAIN Estimate
    BY <1>0, <1>5 DEF SendOk, At
  <2>1. CASE GoOn(m, TRUE)
    <3>1. Attempts'
      BY <2>0, <2>1, GoOnType
    <3> QED
      BY <1>5, <2>0, <3>1, SendStep DEF SendOk, wallet
  <2>2. ASSUME NEW cost \in Actual[Channel(m)],
               attempt' = [attempt EXCEPT ![m].pc = "settle", ![m].cost = cost]
        PROVE  Inv'
    <3> DEFINE x == [attempt[m] EXCEPT !.pc = "settle", !.cost = cost]
    <3>1. cost \in Nat /\ attempt' = [attempt EXCEPT ![m] = x]
      BY <1>0, <2>0, <2>2 DEF TypeOK
    <3>2. x \in Attempt /\ x.step \in DOMAIN Plan[m]
      BY <1>0, <2>0, <3>1 DEF Attempt, TypeOK
    <3> HIDE DEF x
    <3>3. Attempts'
      BY <3>1, <3>2, AttemptStep
    <3> QED
      BY <1>5, <2>0, <3>3, SendStep DEF SendOk, wallet
  <2> QED
    BY <1>5, <2>1, <2>2 DEF SendOk
<1>6. CASE SendFails(m)
  <2>1. Attempts'
    BY <1>6, GotoType, GoOnType DEF SendFails, At
  <2> QED
    BY <1>6, <2>1, SendStep DEF SendFails, wallet
<1>7. CASE Refund(m)
  <2>0. attempt[m].pc = "refund" /\ attempt[m].held \in Nat
    BY <1>0, <1>7 DEF Refund, At, Attempt
  <2>1. Attempts'
    BY <1>7, <2>0, GoOnType DEF Refund
  <2>2. /\ balance' \in Int /\ balance' >= balance /\ (RowIsFree \/ balance' = balance)
        /\ faults' \in 0 .. MaxFaults
    BY <1>7, <2>0, FaultType DEF Refund, Refunded
  <2>3. UNCHANGED <<settings, lock, accepted, billed, extra, recharge>>
    BY <1>7 DEF Refund
  <2> QED
    BY <2>1, <2>2, <2>3, SendStep
<1>8. CASE Settle(m)
  <2> DEFINE held == attempt[m].held
             cost == attempt[m].cost
  <2>0. attempt[m].pc = "settle" /\ held \in Nat /\ cost \in Nat
    BY <1>0, <1>8 DEF Settle, At, Attempt
  <2>1. Attempts' /\ UNCHANGED <<settings, lock, accepted, recharge>>
    BY <1>8, <2>0, GoOnType DEF Settle
  <2> HIDE DEF held, cost
  <2>2. CASE /\ RowIsFree \/ cost = held
             /\ balance' = balance - (cost - held)
             /\ billed' = billed + cost
             /\ extra' = extra + (IF cost > held THEN cost - held ELSE 0)
             /\ UNCHANGED faults
    <3>1. /\ balance' \in Int /\ (RowIsFree \/ balance' = balance)
          /\ billed' \in Nat /\ extra' \in Nat /\ (~overdraft => balance' >= -extra')
      BY <2>0, <2>2
    <3> QED
      BY <2>1, <2>2, <3>1, SendStep
  <2>3. CASE billed' = billed + held /\ UNCHANGED <<balance, extra>> /\ Fault
    BY <2>0, <2>1, <2>3, FaultType, SendStep
  <2> QED
    BY <1>8, <2>2, <2>3 DEF Settle, held, cost
<1>9. CASE SenderDies(m)
  <2>1. Attempts'
    BY <1>9, GotoType DEF SenderDies
  <2> QED
    BY <1>9, <2>1, FaultType, SendStep DEF SenderDies, wallet
<1> QED
  BY <1>1, <1>2, <1>3, <1>4, <1>5, <1>6, <1>7, <1>8, <1>9

-----------------------------------------------------------------------------
LEMMA RechargeFacts ==
    ASSUME Inv
    PROVE  /\ TypeOK /\ balance \in Int /\ lock \in Handlers \cup {Null} /\ credited \subseteq Sessions
           /\ payment \in [Sessions -> Payment] /\ credit \in [Handlers -> Credit \cup {Idle}]
           /\ (\A h \in Handlers : lock = h => credit[h] # Idle)
           /\ todo \subseteq Sessions /\ swept \in BOOLEAN /\ clock \in 0 .. Horizon
           /\ deliveries \in 0 .. MaxDeliveries /\ faults \in 0 .. MaxFaults /\ Locked
           /\ Null \notin Handlers /\ Horizon \in Nat /\ MaxDeliveries \in Nat /\ Amount \in Nat
BY WalletAssumption DEF Inv, TypeOK, Handlers

\* A step that leaves the wallet and the recharges under way alone.
LEMMA StripeStep ==
    ASSUME Inv, UNCHANGED <<settings, wallet, sending, credited, credit>>,
           payment' \in [Sessions -> Payment], todo' \subseteq Sessions, swept' \in BOOLEAN,
           clock' \in 0 .. Horizon, deliveries' \in 0 .. MaxDeliveries, faults' \in 0 .. MaxFaults
    PROVE  Inv'
<1>1. Locked'
  BY RechargeFacts DEF Locked, wallet
<1> QED
  BY <1>1, RechargeFacts, RechargeStep DEF wallet

LEMMA PaymentSteps ==
    ASSUME Inv, NEW s \in Sessions, Checkout(s) \/ Complete(s) \/ PayLate(s)
    PROVE  Inv'
<1>0. payment[s] \in Payment /\ clock \in Nat
  BY RechargeFacts
<1> DEFINE a == [payment[s] EXCEPT !.state = "open", !.opened = clock]
           b == [payment[s] EXCEPT !.state = "paid", !.hooked = TRUE, !.paid = clock]
           c == [payment[s] EXCEPT !.state = "completed"]
           d == [payment[s] EXCEPT !.state = "paid", !.paid = clock]
<1>1. a \in Payment /\ b \in Payment /\ c \in Payment /\ d \in Payment
  BY <1>0 DEF Payment
<1>2. \E x \in {a, b, c, d} : payment' = [payment EXCEPT ![s] = x]
  BY DEF Checkout, Complete, PayLate
<1> HIDE DEF a, b, c, d
<1>3. payment' \in [Sessions -> Payment]
  BY <1>1, <1>2, RechargeFacts
<1> QED
  BY <1>3, RechargeFacts, StripeStep DEF Checkout, Complete, PayLate

\* creditWalletFromRecharge begins when nobody holds the row.
LEMMA BeginType ==
    ASSUME Inv, NEW h \in Handlers, NEW s \in Sessions, Begin(h, s), UNCHANGED balance
    PROVE  /\ lock' = h /\ credit' \in [Handlers -> Credit \cup {Idle}]
           /\ (\A g \in Handlers : lock' = g => credit'[g] # Idle)
           /\ Locked'
<1> DEFINE x == [session |-> s, base |-> balance, found |-> s \in credited]
<1>1. x \in Credit /\ x.base = balance
  BY RechargeFacts DEF Credit
<1>2. credit' = [credit EXCEPT ![h] = x] /\ lock' = h /\ lock = Null
  BY DEF Begin, MayBegin, RowIsFree
<1> HIDE DEF x
<1>3. \A g \in Handlers : credit[g] = Idle
  BY <1>2, RechargeFacts DEF Locked
<1>4. x # Idle
  BY <1>1, CreditIsNotIdle
<1>5. \A g \in Handlers : credit'[g] = IF g = h THEN x ELSE Idle
  BY <1>2, <1>3, RechargeFacts
<1>6. Locked'
  BY <1>1, <1>2, <1>5 DEF Locked
<1> QED
  BY <1>1, <1>2, <1>4, <1>5, <1>6, RechargeFacts

\* And its end lets the row go.
LEMMA EndType ==
    ASSUME Inv, NEW h \in Handlers, credit[h] # Idle, credit' = [credit EXCEPT ![h] = Idle],
           lock' = IF lock = h THEN Null ELSE lock
    PROVE  /\ lock = h /\ credit[h] \in Credit /\ credit[h].base = balance
           /\ lock' = Null /\ credit' \in [Handlers -> Credit \cup {Idle}]
           /\ (\A g \in Handlers : lock' = g => credit'[g] # Idle)
           /\ Locked'
<1>1. lock = h /\ credit[h] \in Credit /\ credit[h].base = balance
  BY RechargeFacts DEF Locked
<1>2. \A g \in Handlers : credit'[g] = Idle
  BY <1>1, RechargeFacts DEF Locked
<1>3. Locked'
  BY <1>2 DEF Locked
<1> QED
  BY <1>1, <1>2, <1>3, RechargeFacts

LEMMA CreditSteps ==
    ASSUME Inv, NEW h \in Handlers, CreditCommit(h) \/ CreditFails(h)
    PROVE  Inv'
<1>0. /\ credit[h] # Idle /\ credit' = [credit EXCEPT ![h] = Idle]
      /\ lock' = IF lock = h THEN Null ELSE lock
      /\ UNCHANGED <<settings, sending, payment, todo, swept, clock, deliveries>>
  BY DEF CreditCommit, CreditFails
<1>1. CASE CreditCommit(h)
  <2>1. balance' \in {balance, balance + Amount} /\ credited' \subseteq Sessions
    BY <1>0, <1>1, EndType, RechargeFacts DEF CreditCommit, Credit
  <2>2. balance' \in Int /\ balance' >= balance /\ UNCHANGED faults
    BY <1>1, <2>1, RechargeFacts DEF CreditCommit
  <2> QED
    BY <1>0, <2>1, <2>2, EndType, RechargeFacts, RechargeStep
<1>2. CASE CreditFails(h)
  <2>1. UNCHANGED <<balance, credited>> /\ faults' \in 0 .. MaxFaults /\ balance >= balance
    BY <1>2, FaultType, RechargeFacts DEF CreditFails
  <2> QED
    BY <1>0, <2>1, EndType, RechargeFacts, RechargeStep
<1> QED
  BY <1>1, <1>2

LEMMA BeginSteps ==
    ASSUME Inv, NEW s \in Sessions, JobCredit(s) \/ \E h \in Hooks : Webhook(h, s)
    PROVE  Inv'
<1>0. balance >= balance
  BY RechargeFacts
<1>1. CASE JobCredit(s)
  <2>1. Begin(Job, s) /\ UNCHANGED balance /\ Job \in Handlers
    BY <1>1 DEF JobCredit, Handlers
  <2>2. /\ todo' \subseteq Sessions
        /\ UNCHANGED <<settings, sending, credited, payment, swept, clock, deliveries, faults>>
    BY <1>1, RechargeFacts DEF JobCredit
  <2> QED
    BY <1>0, <2>1, <2>2, BeginType, RechargeFacts, RechargeStep
<1>2. ASSUME NEW h \in Hooks, Webhook(h, s) PROVE Inv'
  <2>1. Begin(h, s) /\ UNCHANGED balance /\ h \in Handlers
    BY <1>2 DEF Webhook, Handlers
  <2>2. /\ deliveries' \in 0 .. MaxDeliveries
        /\ UNCHANGED <<settings, sending, credited, payment, todo, swept, clock, faults>>
    BY <1>2, RechargeFacts DEF Webhook
  <2> QED
    BY <1>0, <2>1, <2>2, BeginType, RechargeFacts, RechargeStep
<1> QED
  BY <1>1, <1>2

LEMMA JobSteps ==
    ASSUME Inv, JobScan \/ JobFails \/ NextPeriod
    PROVE  Inv'
<1>1. CASE JobScan
  BY <1>1, RechargeFacts, StripeStep DEF JobScan, wallet
<1>2. CASE JobFails
  BY <1>2, RechargeFacts, FaultType, StripeStep DEF JobFails, wallet
<1>3. CASE NextPeriod
  <2>a. clock \in 0 .. Horizon /\ Horizon \in Nat
    BY RechargeFacts
  <2>b. clock < Horizon /\ clock' = clock + 1 /\ swept' = FALSE
    BY <1>3 DEF NextPeriod
  <2>c. clock' \in 0 .. Horizon
    BY <2>a, <2>b
  <2>1. clock' \in 0 .. Horizon /\ swept' \in BOOLEAN
    BY <2>b, <2>c
  <2>2. UNCHANGED <<settings, wallet, sending, credited, payment, credit, todo, deliveries, faults>>
    BY <1>3 DEF NextPeriod
  <2> QED
    BY <2>1, <2>2, RechargeFacts, StripeStep DEF wallet
<1> QED
  BY <1>1, <1>2, <1>3

LEMMA NextInv == ASSUME Inv, [Next]_vars PROVE Inv'
<1>1. CASE \E m \in Messages :
              \/ Skip(m) \/ Gate(m) \/ Reserve(m) \/ ReserveFails(m) \/ SendOk(m) \/ SendFails(m)
              \/ Refund(m) \/ Settle(m) \/ SenderDies(m)
  BY <1>1, MessageSteps
<1>2. CASE \E s \in Sessions : Checkout(s) \/ Complete(s) \/ PayLate(s)
  BY <1>2, PaymentSteps
<1>3. CASE \E s \in Sessions : JobCredit(s) \/ \E h \in Hooks : Webhook(h, s)
  BY <1>3, BeginSteps
<1>4. CASE \E h \in Handlers : CreditCommit(h) \/ CreditFails(h)
  BY <1>4, CreditSteps
<1>5. CASE JobScan \/ JobFails \/ NextPeriod
  BY <1>5, JobSteps
<1>6. CASE UNCHANGED vars
  <2>1. UNCHANGED <<settings, wallet, sending, credited, credit>>
    BY <1>6 DEF vars, recharge
  <2>2. UNCHANGED <<payment, todo, swept, clock, deliveries, faults>>
    BY <1>6 DEF vars, recharge
  <2> QED
    BY <2>1, <2>2, RechargeFacts, StripeStep
<1> QED
  BY <1>1, <1>2, <1>3, <1>4, <1>5, <1>6 DEF Next

\* Type correctness, in particular that no message goes past the end of its plan.
THEOREM TypeCorrect == Spec => []TypeOK
<1>1. Inv => TypeOK
  BY DEF Inv
<1> QED
  BY <1>1, InitInv, NextInv, PTL DEF Spec

\* A tenant that did not opt in owes no more than the segments that exceeded an estimate
\* (debitWallet), however messages, recharges and failures interleave: the debit and its
\* check are one transaction, and a recharge adds to the balance that it has locked.
THEOREM NobodyOverdraws == Spec => []NoOverdraft
<1>1. Inv => NoOverdraft
  BY DEF Inv
<1> QED
  BY <1>1, InitInv, NextInv, PTL DEF Spec

-----------------------------------------------------------------------------
(* Sums over finite sets.  A set of counterexamples has a smallest member: the library's  *)
(* induction theorems take the property as an operator, which the provers do not.          *)

LEMMA SmallestSet ==
    ASSUME NEW S, IsFiniteSet(S), NEW Bad, Bad \subseteq SUBSET S, Bad # {}
    PROVE  \E T \in Bad : \A U \in SUBSET T : U # T => U \notin Bad
<1>1. Bad \subseteq FiniteSubsetsOf(S)
  BY FS_FiniteSubsetsOfFinite
<1>2. PICK T \in Bad : \A U \in Bad : ~(<<U, T>> \in StrictSubsetOrdering(S))
  BY <1>1, WFMin, FS_StrictSubsetOrderingWellFounded
<1>3. \A U \in SUBSET T : U # T /\ U \in Bad => <<U, T>> \in StrictSubsetOrdering(S)
  BY DEF StrictSubsetOrdering
<1>4. \A U \in SUBSET T : U # T => U \notin Bad
  BY <1>2, <1>3
<1> QED
  BY <1>4

Some(s) == CHOOSE x \in s : TRUE
Adds(h, f, S) == h = [s \in SUBSET S |-> IF s = {} THEN 0 ELSE f[Some(s)] + h[s \ {Some(s)}]]

LEMMA SumUnfolds ==
    ASSUME NEW f, NEW S
    PROVE  SumFunctionOnSet(f, S) = (CHOOSE h : Adds(h, f, S))[S]
BY DEF SumFunctionOnSet, FoldFunctionOnSet, MapThenFoldSet, Adds, Some

LEMMA SomeIsIn == ASSUME NEW s, s # {} PROVE Some(s) \in s
BY DEF Some

LEMMA AddsAgree ==
    ASSUME NEW f, NEW g, NEW S, NEW T \in SUBSET S, IsFiniteSet(T), NEW h, NEW k,
           Adds(h, f, S), Adds(k, g, T), \A x \in T : f[x] = g[x]
    PROVE  \A U \in SUBSET T : h[U] = k[U]
<1> DEFINE Bad == {U \in SUBSET T : h[U] # k[U]}
<1> SUFFICES ASSUME Bad # {} PROVE FALSE
  OBVIOUS
<1>1. PICK U \in Bad : \A V \in SUBSET U : V # U => V \notin Bad
  <2>1. Bad \subseteq SUBSET T
    OBVIOUS
  <2> HIDE DEF Bad
  <2> QED
    BY <2>1, SmallestSet
<1>2. U \in SUBSET S /\ U \in SUBSET T
  OBVIOUS
<1>3. h[U] = IF U = {} THEN 0 ELSE f[Some(U)] + h[U \ {Some(U)}]
  BY <1>2 DEF Adds
<1>4. k[U] = IF U = {} THEN 0 ELSE g[Some(U)] + k[U \ {Some(U)}]
  BY <1>2 DEF Adds
<1>5. CASE U = {}
  BY <1>3, <1>4, <1>5
<1>6. CASE U # {}
  <2>1. Some(U) \in U
    BY <1>6, SomeIsIn
  <2>2. f[Some(U)] = g[Some(U)]
    BY <1>2, <2>1
  <2>3. h[U \ {Some(U)}] = k[U \ {Some(U)}]
    BY <1>1, <1>2, <2>1
  <2> QED
    BY <1>3, <1>4, <2>2, <2>3
<1> QED
  BY <1>5, <1>6

LEMMA AddsExists ==
    ASSUME NEW f, NEW S, IsFiniteSet(S)
    PROVE  \E h : Adds(h, f, S)
<1> DEFINE Has(T) == \E h : Adds(h, f, T)
           Bad    == {T \in SUBSET S : ~Has(T)}
           sum(T) == CHOOSE h : Adds(h, f, T)
<1> SUFFICES ASSUME Bad # {} PROVE FALSE
  OBVIOUS
<1>1. PICK T \in Bad : \A V \in SUBSET T : V # T => V \notin Bad
  <2>1. Bad \subseteq SUBSET S
    OBVIOUS
  <2> HIDE DEF Bad
  <2> QED
    BY <2>1, SmallestSet
<1>2. \A V \in SUBSET T : V # T => Adds(sum(V), f, V)
  <2> SUFFICES ASSUME NEW V \in SUBSET T, V # T PROVE Adds(sum(V), f, V)
    OBVIOUS
  <2>1. Has(V)
    BY <1>1
  <2> QED
    BY <2>1
<1> HIDE DEF sum
<1>3. \A V \in SUBSET T, W \in SUBSET T : V # T /\ W \in SUBSET V => sum(V)[W] = sum(W)[W]
  <2> SUFFICES ASSUME NEW V \in SUBSET T, V # T, NEW W \in SUBSET V PROVE sum(V)[W] = sum(W)[W]
    OBVIOUS
  <2>1. Adds(sum(V), f, V) /\ Adds(sum(W), f, W) /\ IsFiniteSet(W)
    BY <1>2, FS_Subset
  <2> QED
    BY <2>1, AddsAgree
<1> DEFINE H == [U \in SUBSET T |-> IF U = {} THEN 0 ELSE f[Some(U)] + sum(U \ {Some(U)})[U \ {Some(U)}]]
<1>4. \A V \in SUBSET T : V # T => H[V] = sum(V)[V]
  <2> SUFFICES ASSUME NEW V \in SUBSET T, V # T PROVE H[V] = sum(V)[V]
    OBVIOUS
  <2> DEFINE W == V \ {Some(V)}
  <2>1. sum(V)[V] = IF V = {} THEN 0 ELSE f[Some(V)] + sum(V)[W]
    BY <1>2 DEF Adds
  <2>2. sum(V)[W] = sum(W)[W]
    BY <1>3
  <2> QED
    BY <2>1, <2>2
<1>5. \A U \in SUBSET T : U # {} => H[U \ {Some(U)}] = sum(U \ {Some(U)})[U \ {Some(U)}]
  <2> TAKE U \in SUBSET T
  <2> HAVE U # {}
  <2>1. U \ {Some(U)} # T /\ U \ {Some(U)} \in SUBSET T
    BY SomeIsIn
  <2> HIDE DEF H
  <2> QED
    BY <1>4, <2>1
<1>6. H = [U \in SUBSET T |-> IF U = {} THEN 0 ELSE f[Some(U)] + H[U \ {Some(U)}]]
  <2>1. \A U \in SUBSET T : (IF U = {} THEN 0 ELSE f[Some(U)] + sum(U \ {Some(U)})[U \ {Some(U)}])
                          = (IF U = {} THEN 0 ELSE f[Some(U)] + H[U \ {Some(U)}])
    <3> HIDE DEF H
    <3> QED
      BY <1>5
  <2> DEFINE a(U) == IF U = {} THEN 0 ELSE f[Some(U)] + sum(U \ {Some(U)})[U \ {Some(U)}]
             b(U) == IF U = {} THEN 0 ELSE f[Some(U)] + H[U \ {Some(U)}]
  <2>2. H = [U \in SUBSET T |-> a(U)]
    OBVIOUS
  <2>3. \A U \in SUBSET T : a(U) = b(U)
    BY <2>1
  <2> HIDE DEF H, a, b
  <2>4. H = [U \in SUBSET T |-> b(U)]
    BY <2>2, <2>3
  <2> QED
    BY <2>4 DEF b
<1>7. Adds(H, f, T)
  BY <1>6 DEF Adds
<1> QED
  BY <1>1, <1>7

LEMMA SumAdds ==
    ASSUME NEW f, NEW S, IsFiniteSet(S)
    PROVE  \E h : Adds(h, f, S) /\ SumFunctionOnSet(f, S) = h[S]
<1>1. Adds(CHOOSE h : Adds(h, f, S), f, S)
  BY AddsExists
<1> QED
  BY <1>1, SumUnfolds

\* A sum depends on the values it adds only.
LEMMA SumSame ==
    ASSUME NEW f, NEW g, NEW S, IsFiniteSet(S), \A x \in S : f[x] = g[x]
    PROVE  SumFunctionOnSet(f, S) = SumFunctionOnSet(g, S)
<1>1. PICK h : Adds(h, f, S) /\ SumFunctionOnSet(f, S) = h[S]
  BY SumAdds
<1>2. PICK k : Adds(k, g, S) /\ SumFunctionOnSet(g, S) = k[S]
  BY SumAdds
<1>3. S \in SUBSET S
  OBVIOUS
<1>4. \A U \in SUBSET S : h[U] = k[U]
  BY <1>1, <1>2, <1>3, AddsAgree
<1> QED
  BY <1>1, <1>2, <1>3, <1>4

LEMMA SumEmpty == ASSUME NEW f PROVE SumFunctionOnSet(f, {}) = 0
<1>1. PICK h : Adds(h, f, {}) /\ SumFunctionOnSet(f, {}) = h[{}]
  BY SumAdds, FS_EmptySet
<1> QED
  BY <1>1 DEF Adds

LEMMA SumStep ==
    ASSUME NEW f, NEW S, IsFiniteSet(S), S # {}
    PROVE  SumFunctionOnSet(f, S) = f[Some(S)] + SumFunctionOnSet(f, S \ {Some(S)})
<1> DEFINE R == S \ {Some(S)}
<1>1. R \in SUBSET S /\ IsFiniteSet(R)
  BY FS_Subset
<1>2. PICK h : Adds(h, f, S) /\ SumFunctionOnSet(f, S) = h[S]
  BY SumAdds
<1>3. PICK k : Adds(k, f, R) /\ SumFunctionOnSet(f, R) = k[R]
  BY <1>1, SumAdds
<1>4. h[S] = f[Some(S)] + h[R]
  BY <1>2 DEF Adds
<1> HIDE DEF R
<1>5. h[R] = k[R]
  BY <1>1, <1>2, <1>3, AddsAgree
<1> QED
  BY <1>2, <1>3, <1>4, <1>5 DEF R

LEMMA SumType ==
    ASSUME NEW f, NEW S, IsFiniteSet(S), \A x \in S : f[x] \in Int
    PROVE  SumFunctionOnSet(f, S) \in Int
<1> DEFINE Bad == {T \in SUBSET S : SumFunctionOnSet(f, T) \notin Int}
<1> SUFFICES ASSUME Bad # {} PROVE FALSE
  OBVIOUS
<1>1. PICK T \in Bad : \A V \in SUBSET T : V # T => V \notin Bad
  <2>1. Bad \subseteq SUBSET S
    OBVIOUS
  <2> HIDE DEF Bad
  <2> QED
    BY <2>1, SmallestSet
<1>2. T # {}
  <2>1. SumFunctionOnSet(f, {}) \in Int
    BY SumEmpty
  <2>2. SumFunctionOnSet(f, T) \notin Int
    BY <1>1
  <2> QED
    BY <2>1, <2>2
<1>3. Some(T) \in T /\ f[Some(T)] \in Int /\ IsFiniteSet(T)
  BY <1>2, SomeIsIn, FS_Subset
<1>4. SumFunctionOnSet(f, T \ {Some(T)}) \in Int
  BY <1>1, <1>3
<1> QED
  BY <1>1, <1>2, <1>3, <1>4, SumStep

\* Any element may be taken out of a sum.
LEMMA SumRemove ==
    ASSUME NEW f, NEW S, IsFiniteSet(S), \A y \in S : f[y] \in Int
    PROVE  \A x \in S : SumFunctionOnSet(f, S) = f[x] + SumFunctionOnSet(f, S \ {x})
<1> DEFINE Sm(T) == SumFunctionOnSet(f, T)
           Bad   == {T \in SUBSET S : \E x \in T : Sm(T) # f[x] + Sm(T \ {x})}
<1>0. \A T \in SUBSET S : /\ Sm(T) \in Int
                          /\ T # {} => Some(T) \in T /\ Sm(T) = f[Some(T)] + Sm(T \ {Some(T)})
  BY FS_Subset, SumType, SumStep, SomeIsIn
<1> HIDE DEF Sm
<1> SUFFICES ASSUME Bad # {} PROVE FALSE
  BY DEF Sm
<1>1. PICK T \in Bad : \A V \in SUBSET T : V # T => V \notin Bad
  <2>1. Bad \subseteq SUBSET S
    OBVIOUS
  <2> HIDE DEF Bad
  <2> QED
    BY <2>1, SmallestSet
<1>2. PICK x \in T : Sm(T) # f[x] + Sm(T \ {x})
  BY <1>1
<1> DEFINE c == Some(T)
<1>3. T \in SUBSET S /\ c \in T /\ Sm(T) = f[c] + Sm(T \ {c})
  BY <1>0, <1>1, <1>2
<1> HIDE DEF c
<1>4. c # x
  BY <1>2, <1>3
<1>5. \A V \in SUBSET T : \A y \in V : V # T => Sm(V) = f[y] + Sm(V \ {y})
  BY <1>1
<1>6. Sm(T \ {c}) = f[x] + Sm((T \ {c}) \ {x})
  BY <1>3, <1>4, <1>5
<1>7. Sm(T \ {x}) = f[c] + Sm((T \ {x}) \ {c})
  BY <1>3, <1>4, <1>5
<1>8. (T \ {x}) \ {c} = (T \ {c}) \ {x}
  OBVIOUS
<1>9. PICK r \in Int : r = Sm((T \ {c}) \ {x})
  BY <1>0, <1>3
<1>10. f[c] \in Int /\ f[x] \in Int
  BY <1>3
<1>11. Sm(T) = f[c] + (f[x] + r)
  BY <1>3, <1>6, <1>9
<1>12. Sm(T \ {x}) = f[c] + r
  BY <1>7, <1>8, <1>9
<1> QED
  BY <1>2, <1>9, <1>10, <1>11, <1>12

\* One value of a sum changes.
LEMMA SumUpdate ==
    ASSUME NEW f, NEW g, NEW S, IsFiniteSet(S), NEW x \in S,
           \A y \in S : f[y] \in Int /\ g[y] \in Int /\ (y # x => g[y] = f[y])
    PROVE  SumFunctionOnSet(g, S) = SumFunctionOnSet(f, S) + (g[x] - f[x])
<1> DEFINE a == SumFunctionOnSet(f, S)
           b == SumFunctionOnSet(g, S)
           r == SumFunctionOnSet(f, S \ {x})
           q == SumFunctionOnSet(g, S \ {x})
<1>1. IsFiniteSet(S \ {x})
  BY FS_RemoveElement
<1>2. a = f[x] + r /\ b = g[x] + q /\ r \in Int
  BY <1>1, SumRemove, SumType
<1>3. q = r
  BY <1>1, SumSame
<1> HIDE DEF a, b, r, q
<1>4. b = a + (g[x] - f[x])
  BY <1>2, <1>3
<1> QED
  BY <1>4 DEF a, b

\* One element comes in, unless it is there.
LEMMA SumInsert ==
    ASSUME NEW f, NEW S, IsFiniteSet(S), NEW x, \A y \in S \cup {x} : f[y] \in Int
    PROVE  SumFunctionOnSet(f, S \cup {x}) = SumFunctionOnSet(f, S) + (IF x \in S THEN 0 ELSE f[x])
<1> DEFINE a == SumFunctionOnSet(f, S)
           b == SumFunctionOnSet(f, S \cup {x})
<1>1. a \in Int /\ f[x] \in Int
  BY SumType
<1>2. CASE x \in S
  <2>1. S \cup {x} = S
    BY <1>2
  <2> QED
    BY <1>1, <1>2, <2>1
<1>3. CASE x \notin S
  <2>1. IsFiniteSet(S \cup {x}) /\ (S \cup {x}) \ {x} = S
    BY <1>3, FS_AddElement
  <2>2. b = f[x] + SumFunctionOnSet(f, (S \cup {x}) \ {x})
    BY <2>1, SumRemove
  <2>3. b = f[x] + a
    BY <2>1, <2>2
  <2> HIDE DEF a, b
  <2>4. b = a + f[x]
    BY <1>1, <2>3
  <2> QED
    BY <1>3, <2>4 DEF a, b
<1> QED
  BY <1>2, <1>3

\* A sum of zeros.
LEMMA SumOfZeros ==
    ASSUME NEW f, NEW S, IsFiniteSet(S), \A x \in S : f[x] = 0
    PROVE  SumFunctionOnSet(f, S) = 0
<1> DEFINE Sm(T) == SumFunctionOnSet(f, T)
           Bad   == {T \in SUBSET S : Sm(T) # 0}
<1>0. Sm({}) = 0 /\ \A T \in SUBSET S : T # {} => Some(T) \in T /\ Sm(T) = f[Some(T)] + Sm(T \ {Some(T)})
  BY FS_Subset, SumEmpty, SumStep, SomeIsIn
<1> HIDE DEF Sm
<1> SUFFICES ASSUME Bad # {} PROVE FALSE
  BY DEF Sm
<1>1. PICK T \in Bad : \A V \in SUBSET T : V # T => V \notin Bad
  <2>1. Bad \subseteq SUBSET S
    OBVIOUS
  <2> HIDE DEF Bad
  <2> QED
    BY <2>1, SmallestSet
<1>2. T # {}
  BY <1>0, <1>1
<1>3. Sm(T) = f[Some(T)] + Sm(T \ {Some(T)}) /\ Some(T) \in T
  BY <1>0, <1>2
<1>4. Sm(T \ {Some(T)}) = 0
  BY <1>1, <1>3
<1> QED
  BY <1>1, <1>3, <1>4

\* A sum of naturals is one.
LEMMA SumOfNaturals ==
    ASSUME NEW f, NEW S, IsFiniteSet(S), \A x \in S : f[x] \in Nat
    PROVE  SumFunctionOnSet(f, S) \in Nat
<1> DEFINE Sm(T) == SumFunctionOnSet(f, T)
           Bad   == {T \in SUBSET S : Sm(T) \notin Nat}
<1>0. Sm({}) = 0 /\ \A T \in SUBSET S : T # {} => Some(T) \in T /\ Sm(T) = f[Some(T)] + Sm(T \ {Some(T)})
  BY FS_Subset, SumEmpty, SumStep, SomeIsIn
<1> HIDE DEF Sm
<1> SUFFICES ASSUME Bad # {} PROVE FALSE
  BY DEF Sm
<1>1. PICK T \in Bad : \A V \in SUBSET T : V # T => V \notin Bad
  <2>1. Bad \subseteq SUBSET S
    OBVIOUS
  <2> HIDE DEF Bad
  <2> QED
    BY <2>1, SmallestSet
<1>2. T # {}
  <2>1. Sm(T) \notin Nat /\ Sm({}) \in Nat
    BY <1>0, <1>1
  <2> QED
    BY <2>1
<1>3. Sm(T) = f[Some(T)] + Sm(T \ {Some(T)}) /\ Some(T) \in T /\ f[Some(T)] \in Nat
  BY <1>0, <1>2
<1>4. Sm(T \ {Some(T)}) \in Nat
  BY <1>1, <1>3
<1> QED
  BY <1>1, <1>3, <1>4

-----------------------------------------------------------------------------
(* The ledger *)

\* Whoever is crediting has seen whether the ledger has the session, and nobody else can
\* have written it since.
Found == \A h \in Handlers : credit[h] # Idle =>
            credit[h].found = (credit[h].session \in credited)

\* What a message holds: the estimate of the channel it is at, from the reservation to the
\* refund or the settlement, and nothing before.  Without a reservation it goes on to send
\* where no wallet is required or the channel is free.
ReservedOf(m) ==
    /\ attempt[m].pc \in {"gate", "reserve"} \/ (attempt[m].pc = "done" /\ faults = 0) =>
          attempt[m].held = 0
    /\ attempt[m].pc \in {"send", "refund", "settle"} => attempt[m].held \in {0, Estimate[Channel(m)]}
    /\ attempt[m].pc = "send" /\ required /\ attempt[m].held = 0 => Estimate[Channel(m)] = 0
    /\ attempt[m].pc = "settle" => attempt[m].held # 0 /\ attempt[m].cost \in Actual[Channel(m)]
Reserved == \A m \in Messages : ReservedOf(m)

\* What of it may still come back.
Back(m) ==
    IF attempt[m].pc \in {"send", "refund"} THEN attempt[m].held
    ELSE IF attempt[m].pc = "settle" THEN attempt[m].held - Cheapest[<<m, Channel(m)>>]
    ELSE 0
Slack == [m \in Messages |-> Back(m)]

HeldSum  == SumFunctionOnSet(Held, Messages)
SlackSum == SumFunctionOnSet(Slack, Messages)
BillSum  == SumFunctionOnSet(Cheapest, accepted)

\* NoUnbilledSend, with what may still come back counted against the balance.
PaidFor == required => balance + SlackSum + BillSum <= Opening + Recharged

Books == Found /\ Reserved /\ PaidFor
         /\ IsFiniteSet(accepted) /\ IsFiniteSet(credited)

\* What the log says the wallet should hold beyond its balance.  A step leaves it as it is, or
\* fails and loses what a reservation took.
Short == Opening + Recharged - billed - HeldSum - balance
Recorded ==
    \/ Short' = Short
    \/ faults' = faults + 1 /\ \E c \in DOMAIN Estimate : Short' = Short + Estimate[c]

\* A set of numbers has a least one.
LEMMA LeastNatural ==
    ASSUME NEW S, S \subseteq Nat, S # {}
    PROVE  \E a \in S : \A b \in S : a <= b
<1>1. PICK n \in S : TRUE
  OBVIOUS
<1> DEFINE Bad == {0 .. k : k \in {l \in S : l <= n}}
<1>2. n \in Nat /\ 0 \in Int /\ n \in Int
  OBVIOUS
<1>3. IsFiniteSet(0 .. n)
  BY <1>2, FS_Interval
<1>8. 0 .. n \in Bad /\ Bad # {} /\ Bad \subseteq SUBSET (0 .. n)
  <2>1. \A k \in S : k <= n => 0 .. k \subseteq 0 .. n
    BY <1>2
  <2>2. n <= n
    BY <1>2
  <2> QED
    BY <2>1, <2>2
<1> HIDE DEF Bad
<1>4. PICK T \in Bad : \A U \in SUBSET T : U # T => U \notin Bad
  <2> DEFINE D == 0 .. n
  <2>1. IsFiniteSet(D) /\ Bad \subseteq SUBSET D /\ Bad # {}
    BY <1>3, <1>8
  <2> HIDE DEF D
  <2> QED
    BY <2>1, SmallestSet
<1>5. PICK a \in S : a <= n /\ T = 0 .. a
  BY DEF Bad
<1>6. ASSUME NEW b \in S, b < a PROVE FALSE
  <2>1. b \in Nat /\ a \in Nat
    OBVIOUS
  <2>2. 0 .. b \in SUBSET (0 .. a) /\ a \notin 0 .. b /\ a \in 0 .. a
    BY <1>6, <2>1
  <2>3. 0 .. b \in Bad
    BY <1>2, <1>5, <1>6, <2>1 DEF Bad
  <2> QED
    BY <1>4, <1>5, <2>2, <2>3
<1>7. \A b \in S : a \in Nat /\ b \in Nat
  OBVIOUS
<1> QED
  BY <1>6, <1>7

LEMMA CheapestIs ==
    ASSUME NEW m \in Messages, NEW c \in DOMAIN Estimate
    PROVE  /\ Cheapest[<<m, c>>] \in Nat /\ Cheapest[<<m, c>>] <= Estimate[c]
           /\ \A cost \in Actual[c] : Cheapest[<<m, c>>] <= cost
<1> DEFINE costs == Actual[c] \cup {Estimate[c]}
<1>1. costs \subseteq Nat /\ Estimate[c] \in costs
  BY WalletAssumption
<1>2. Cheapest[<<m, c>>] = CHOOSE e \in costs : \A d \in costs : e <= d
  BY DEF Cheapest
<1>3. Actual[c] \subseteq costs
  OBVIOUS
<1> HIDE DEF costs
<1>4. \E e \in costs : \A d \in costs : e <= d
  BY <1>1, LeastNatural
<1>5. Cheapest[<<m, c>>] \in costs /\ \A d \in costs : Cheapest[<<m, c>>] <= d
  BY <1>2, <1>4
<1> QED
  BY <1>1, <1>3, <1>5

\* What the sums add is numbers, and nothing that may come back is owed.
AddNumbers ==
    /\ \A m \in Messages : Held[m] = attempt[m].held /\ Held[m] \in Nat
    /\ \A m \in Messages : Slack[m] = Back(m) /\ Back(m) \in Nat
    /\ \A a \in accepted : Cheapest[a] \in Nat

LEMMA Addends == TypeOK /\ Reserved => AddNumbers
<1> SUFFICES ASSUME TypeOK, Reserved PROVE AddNumbers
  OBVIOUS
<1>1. \A m \in Messages : attempt[m].held \in Nat
  BY DEF TypeOK, Attempt
<1>2. ASSUME NEW m \in Messages PROVE Back(m) \in Nat
  <2>1. CASE attempt[m].pc = "settle"
    <3>1. Channel(m) \in DOMAIN Estimate /\ Estimate[Channel(m)] \in Nat
      BY <2>1, ChannelType
    <3>2. attempt[m].held = Estimate[Channel(m)]
      BY <2>1 DEF Reserved, ReservedOf
    <3>3. Cheapest[<<m, Channel(m)>>] \in Nat /\ Cheapest[<<m, Channel(m)>>] <= Estimate[Channel(m)]
      BY <3>1, CheapestIs
    <3>4. Back(m) = Estimate[Channel(m)] - Cheapest[<<m, Channel(m)>>]
      BY <2>1, <3>2 DEF Back
    <3> QED
      BY <3>1, <3>3, <3>4
  <2>2. CASE attempt[m].pc # "settle"
    BY <1>1, <2>2 DEF Back
  <2> QED
    BY <2>1, <2>2
<1>3. ASSUME NEW a \in accepted PROVE Cheapest[a] \in Nat
  <2>1. PICK m \in Messages, c \in DOMAIN Estimate : a = <<m, c>>
    BY DEF TypeOK
  <2> QED
    BY <2>1, CheapestIs
<1> QED
  BY <1>1, <1>2, <1>3 DEF AddNumbers, Held, Slack

LEMMA SumTypes ==
    ASSUME TypeOK, Books
    PROVE  HeldSum \in Int /\ SlackSum \in Int /\ BillSum \in Int
BY Addends, SumType, WalletAssumption DEF AddNumbers, Books, HeldSum, SlackSum, BillSum

\* One message moves: the sums over the messages change by what it holds.
LEMMA SumsMove ==
    ASSUME TypeOK, TypeOK', Reserved, Reserved', NEW m \in Messages,
           \A n \in Messages : n # m => attempt'[n] = attempt[n]
    PROVE  /\ HeldSum' = HeldSum + (attempt'[m].held - attempt[m].held)
           /\ SlackSum' = SlackSum + (Back(m)' - Back(m))
<1>1. /\ \A n \in Messages : Held[n] = attempt[n].held /\ Held[n] \in Nat
      /\ \A n \in Messages : Slack[n] = Back(n) /\ Back(n) \in Nat
      /\ IsFiniteSet(Messages)
  BY Addends, WalletAssumption DEF AddNumbers
<1>a. AddNumbers'
  BY Addends, PTL
<1>2. /\ \A n \in Messages : Held'[n] = attempt'[n].held /\ Held'[n] \in Nat
      /\ \A n \in Messages : Slack'[n] = Back(n)' /\ Back(n)' \in Nat
  BY <1>a DEF AddNumbers
<1>3. \A n \in Messages : n # m => Back(n)' = Back(n)
  BY DEF Back, Channel
<1>4. HeldSum' = HeldSum + (Held'[m] - Held[m])
  <2>1. \A n \in Messages : Held[n] \in Int /\ Held'[n] \in Int /\ (n # m => Held'[n] = Held[n])
    BY <1>1, <1>2
  <2> QED
    BY <1>1, <2>1, SumUpdate DEF HeldSum
<1>5. SlackSum' = SlackSum + (Slack'[m] - Slack[m])
  <2>1. \A n \in Messages : Slack[n] \in Int /\ Slack'[n] \in Int /\ (n # m => Slack'[n] = Slack[n])
    BY <1>1, <1>2, <1>3
  <2> QED
    BY <1>1, <2>1, SumUpdate DEF SlackSum
<1> QED
  BY <1>1, <1>2, <1>4, <1>5

LEMMA RechargedType == ASSUME Books PROVE Opening \in Int /\ Recharged \in Int
<1>1. Cardinality(credited) \in Nat /\ Opening \in Nat /\ Amount \in Nat
  BY FS_CardinalityType, WalletAssumption DEF Books
<1> QED
  BY <1>1 DEF Recharged

\* What leaves the balance is billed, held or lost.
LEMMA BalanceMoves ==
    ASSUME NEW b \in Int, NEW c \in Int, NEW d \in Int, NEW e \in Int, NEW h \in Int, NEW k \in Int,
           NEW p \in Int, NEW q, NEW o \in Int, NEW r \in Int, NEW x \in Int,
           c + e + k + x = b + d + h, q = p + (k - h)
    PROVE  o + r - e - q - c = (o + r - d - p - b) + x
OBVIOUS

LEMMA MessageKept ==
    ASSUME Inv, Inv', Books, NEW m \in Messages,
           \A n \in Messages : n # m => attempt'[n] = attempt[n],
           UNCHANGED <<settings, credited, credit>>, IsFiniteSet(accepted'), BillSum' \in Int,
           ReservedOf(m)', faults' = 0 => faults = 0,
           NEW x, x = 0 \/ (faults' = faults + 1 /\ \E c \in DOMAIN Estimate : x = Estimate[c]),
           balance' + billed' + attempt'[m].held + x = balance + billed + attempt[m].held,
           required => balance' + Back(m)' + BillSum' <= balance + Back(m) + BillSum
    PROVE  Books' /\ Recorded
<1>1. TypeOK /\ TypeOK' /\ balance \in Int /\ balance' \in Int /\ billed \in Nat /\ billed' \in Nat
  BY DEF Inv, TypeOK
<1>2. Reserved'
  <2>1. \A n \in Messages : n # m => ReservedOf(n)'
    BY DEF Books, Reserved, ReservedOf, Channel, settings
  <2> QED
    BY <2>1 DEF Reserved
<1>3. /\ HeldSum' = HeldSum + (attempt'[m].held - attempt[m].held)
      /\ SlackSum' = SlackSum + (Back(m)' - Back(m))
  BY <1>1, <1>2, SumsMove DEF Books
<1>4. HeldSum \in Int /\ SlackSum \in Int /\ BillSum \in Int
  BY <1>1, SumTypes
<1>5. Back(m) \in Nat /\ Back(m)' \in Nat /\ attempt[m].held \in Nat /\ attempt'[m].held \in Nat
  <2>1. Back(m) \in Nat /\ attempt[m].held \in Nat
    BY <1>1, Addends DEF Books, AddNumbers
  <2>a. AddNumbers'
    BY <1>1, <1>2, Addends, PTL
  <2>2. Back(m)' \in Nat /\ attempt'[m].held \in Nat
    BY <2>a DEF AddNumbers
  <2> QED
    BY <2>1, <2>2
<1>6. Recharged' = Recharged
  BY DEF Recharged
<1>7. Recorded
  <2>1. x \in Int
    BY WalletAssumption
  <2>2. Opening \in Int /\ Recharged \in Int
    BY RechargedType
  <2> DEFINE h == attempt[m].held
             k == attempt'[m].held
             b == balance  c == balance'  d == billed  e == billed'  p == HeldSum  q == HeldSum'
  <2>3. /\ b \in Int /\ c \in Int /\ d \in Int /\ e \in Int /\ p \in Int /\ h \in Int /\ k \in Int
        /\ c + e + k + x = b + d + h /\ q = p + (k - h)
    BY <1>1, <1>3, <1>4, <1>5
  <2> HIDE DEF h, k, b, c, d, e, p, q
  <2>4. Opening + Recharged - e - q - c = (Opening + Recharged - d - p - b) + x
    BY <2>1, <2>2, <2>3, BalanceMoves
  <2>5. Short' = Short + x /\ Short \in Int
    <3>1. Short = Opening + Recharged - d - p - b /\ Short' = Opening + Recharged - e - q - c
      BY <1>6 DEF Short, b, c, d, e, p, q
    <3> QED
      BY <2>2, <2>3, <2>4, <3>1
  <2> QED
    BY <2>5 DEF Recorded
<1>8. PaidFor'
  <2> SUFFICES ASSUME required PROVE balance' + SlackSum' + BillSum' <= Opening + Recharged
    BY <1>6 DEF PaidFor, settings
  <2>1. balance + SlackSum + BillSum <= Opening + Recharged
    BY DEF Books, PaidFor
  <2>2. Opening \in Int /\ Recharged \in Int
    BY RechargedType
  <2> QED
    BY <1>1, <1>3, <1>4, <1>5, <2>1, <2>2
<1>9. Found'
  BY DEF Books, Found
<1> QED
  BY <1>2, <1>7, <1>8, <1>9 DEF Books

LEMMA GoOnIs ==
    ASSUME TypeOK, NEW m \in Messages, NEW success, GoOn(m, success)
    PROVE  /\ \A n \in Messages : n # m => attempt'[n] = attempt[n]
           /\ attempt'[m].held = 0 /\ attempt'[m].pc \in {"gate", "done"}
           /\ ReservedOf(m)' /\ Back(m)' = 0
<1>1. attempt[m] \in Attempt /\ attempt \in [Messages -> Attempt]
  BY DEF TypeOK
<1>2. /\ \A n \in Messages : n # m => attempt'[n] = attempt[n]
      /\ attempt'[m].held = 0 /\ attempt'[m].pc \in {"gate", "done"}
  BY <1>1 DEF GoOn, Attempt
<1> QED
  BY <1>2 DEF ReservedOf, Back

LEMMA GotoIs ==
    ASSUME TypeOK, NEW m \in Messages, NEW pc, Goto(m, pc)
    PROVE  /\ \A n \in Messages : n # m => attempt'[n] = attempt[n]
           /\ attempt'[m].pc = pc /\ attempt'[m].held = attempt[m].held
           /\ attempt'[m].cost = attempt[m].cost /\ Channel(m)' = Channel(m)
<1>1. attempt[m] \in Attempt /\ attempt \in [Messages -> Attempt]
  BY DEF TypeOK
<1>2. attempt'[m].step = attempt[m].step /\ attempt'[m].pc = pc /\ attempt'[m].held = attempt[m].held
      /\ attempt'[m].cost = attempt[m].cost
  BY <1>1 DEF Goto, Attempt
<1> QED
  BY <1>1, <1>2 DEF Goto, Channel

\* Numbers in the books, for the arithmetic of the steps.
LEMMA BookTypes ==
    ASSUME TypeOK, Books, NEW m \in Messages
    PROVE  /\ balance \in Int /\ billed \in Nat /\ BillSum \in Int /\ Back(m) \in Nat
           /\ attempt[m].held \in Nat /\ ReservedOf(m) /\ IsFiniteSet(accepted)
           /\ (UNCHANGED accepted => BillSum' = BillSum)
<1>1. Back(m) \in Nat /\ attempt[m].held \in Nat
  BY Addends DEF Books, AddNumbers
<1> QED
  BY <1>1, SumTypes DEF TypeOK, Books, BillSum, Reserved

LEMMA MovesOn ==
    ASSUME Inv, Inv', Books, NEW m \in Messages, NEW success, GoOn(m, success),
           UNCHANGED <<settings, credited, credit, accepted>>, faults' = 0 => faults = 0,
           NEW x, x = 0 \/ (faults' = faults + 1 /\ \E c \in DOMAIN Estimate : x = Estimate[c]),
           balance' + billed' + x = balance + billed + attempt[m].held,
           required => balance' <= balance + Back(m)
    PROVE  Books' /\ Recorded
<1>1. /\ TypeOK /\ balance \in Int /\ billed \in Nat /\ BillSum \in Int /\ Back(m) \in Nat
      /\ attempt[m].held \in Nat /\ IsFiniteSet(accepted') /\ BillSum' = BillSum
      /\ balance' \in Int /\ billed' \in Nat
  BY BookTypes DEF Inv, TypeOK
<1>2. /\ \A n \in Messages : n # m => attempt'[n] = attempt[n]
      /\ attempt'[m].held = 0 /\ ReservedOf(m)' /\ Back(m)' = 0
  BY <1>1, GoOnIs
<1>3. balance' + billed' + attempt'[m].held + x = balance + billed + attempt[m].held
  <2>1. x \in Int
    BY WalletAssumption
  <2> QED
    BY <1>1, <1>2, <2>1
<1>4. required => balance' + Back(m)' + BillSum' <= balance + Back(m) + BillSum
  BY <1>1, <1>2
<1> QED
  BY <1>1, <1>2, <1>3, <1>4, MessageKept

\* The money stays where it is.
LEMMA Stays ==
    ASSUME Inv, Inv', Books, NEW m \in Messages, NEW pc, Goto(m, pc), ReservedOf(m)',
           UNCHANGED <<settings, credited, credit, accepted, balance, billed>>,
           faults' = 0 => faults = 0, required => Back(m)' <= Back(m)
    PROVE  Books' /\ Recorded
<1>1. /\ TypeOK /\ balance \in Int /\ billed \in Nat /\ BillSum \in Int /\ Back(m) \in Nat
      /\ attempt[m].held \in Nat /\ IsFiniteSet(accepted') /\ BillSum' = BillSum
      /\ balance' = balance /\ billed' = billed
  BY BookTypes DEF Inv
<1>2. /\ \A n \in Messages : n # m => attempt'[n] = attempt[n]
      /\ attempt'[m].held = attempt[m].held
  BY <1>1, GotoIs
<1>5. Back(m)' \in Nat
  <2>1. Reserved'
    <3>1. \A n \in Messages : n # m => ReservedOf(n)'
      BY <1>2 DEF Books, Reserved, ReservedOf, Channel, settings
    <3> QED
      BY <3>1 DEF Reserved
  <2>2. AddNumbers'
    BY <2>1, Addends, PTL DEF Inv
  <2> QED
    BY <2>2 DEF AddNumbers
<1>3. balance' + billed' + attempt'[m].held + 0 = balance + billed + attempt[m].held
  BY <1>1, <1>2
<1>4. required => balance' + Back(m)' + BillSum' <= balance + Back(m) + BillSum
  BY <1>1, <1>5
<1> QED
  BY <1>1, <1>2, <1>3, <1>4, MessageKept

LEMMA NoFaultYet ==
    ASSUME TypeOK, Fault
    PROVE  faults' # 0 /\ faults' = faults + 1
BY WalletAssumption DEF TypeOK, Fault

LEMMA UnreservedKept ==
    ASSUME Inv, Inv', Books, NEW m \in Messages, attempt[m].pc = "reserve", Unreserved(m),
           UNCHANGED <<settings, credited, credit, accepted, balance, billed>>,
           faults' = 0 => faults = 0
    PROVE  Books' /\ Recorded
<1>0. TypeOK /\ ReservedOf(m) /\ attempt[m].held = 0 /\ Back(m) = 0
      /\ balance \in Int /\ billed \in Nat
  BY BookTypes DEF Inv, ReservedOf, Back
<1>1. CASE GoOn(m, FALSE)
  <2>1. /\ balance' + billed' + 0 = balance + billed + attempt[m].held
        /\ required => balance' <= balance + Back(m)
    BY <1>0
  <2> QED
    BY <1>1, <2>1, MovesOn
<1>2. CASE ~required /\ Goto(m, "send")
  <2>1. ReservedOf(m)' /\ Back(m)' = 0
    BY <1>0, <1>2, GotoIs DEF ReservedOf, Back, settings
  <2> QED
    BY <1>0, <1>2, <2>1, Stays
<1> QED
  BY <1>1, <1>2 DEF Unreserved

LEMMA GateKept ==
    ASSUME Inv, Inv', Books, NEW m \in Messages, Gate(m)
    PROVE  Books' /\ Recorded
<1>0. /\ TypeOK /\ ReservedOf(m) /\ attempt[m].pc = "gate" /\ attempt[m].held = 0 /\ Back(m) = 0
      /\ Estimate[Channel(m)] \in Nat
  BY BookTypes, ChannelType DEF Inv, ReservedOf, Back, Gate, At
<1>1. PICK pc \in {"reserve", "send"} : Goto(m, pc) /\ (pc = "send" => Estimate[Channel(m)] = 0)
  <2>1. CASE Estimate[Channel(m)] > 0
    BY <2>1 DEF Gate
  <2>2. CASE ~(Estimate[Channel(m)] > 0)
    <3>1. Estimate[Channel(m)] = 0
      BY <1>0, <2>2
    <3> QED
      BY <2>2, <3>1 DEF Gate
  <2> QED
    BY <2>1, <2>2
<1>2. ReservedOf(m)' /\ Back(m)' = 0
  BY <1>0, <1>1, GotoIs DEF ReservedOf, Back
<1>3. UNCHANGED <<settings, credited, credit, accepted, balance, billed, faults>>
  BY DEF Gate, wallet, recharge
<1> QED
  BY <1>0, <1>1, <1>2, <1>3, Stays

LEMMA ReserveKept ==
    ASSUME Inv, Inv', Books, NEW m \in Messages, Reserve(m)
    PROVE  Books' /\ Recorded
<1> DEFINE cents == Estimate[Channel(m)]
<1>0. /\ TypeOK /\ ReservedOf(m) /\ attempt[m].pc = "reserve" /\ attempt[m].held = 0 /\ Back(m) = 0
      /\ cents \in Nat /\ balance \in Int /\ billed \in Nat /\ BillSum \in Int
      /\ IsFiniteSet(accepted)
  BY BookTypes, ChannelType DEF Inv, ReservedOf, Back, Reserve, At
<1>1. UNCHANGED <<settings, credited, credit, accepted, billed, faults>>
  BY DEF Reserve, recharge
<1>2. CASE balance' = balance - cents
           /\ attempt' = [attempt EXCEPT ![m].pc = "send", ![m].held = cents]
  <2>1. /\ \A n \in Messages : n # m => attempt'[n] = attempt[n]
        /\ attempt'[m].pc = "send" /\ attempt'[m].held = cents /\ Channel(m)' = Channel(m)
    BY <1>0, <1>2 DEF TypeOK, Attempt, Channel
  <2>2. ReservedOf(m)' /\ Back(m)' = cents
    BY <2>1 DEF ReservedOf, Back
  <2>3. BillSum' = BillSum
    BY <1>1 DEF BillSum
  <2> HIDE DEF cents
  <2>4. balance' + billed' + attempt'[m].held + 0 = balance + billed + attempt[m].held
    BY <1>0, <1>1, <1>2, <2>1
  <2>5. balance' + Back(m)' + BillSum' <= balance + Back(m) + BillSum
    BY <1>0, <1>1, <1>2, <2>2, <2>3
  <2> QED
    BY <1>0, <1>1, <2>1, <2>2, <2>3, <2>4, <2>5, MessageKept
<1>3. CASE Unreserved(m) /\ UNCHANGED balance
  BY <1>0, <1>1, <1>3, UnreservedKept
<1> QED
  BY <1>2, <1>3 DEF Reserve

\* The provider takes a message: its cheapest bill comes out of what was reserved for it,
\* or is nothing.
LEMMA SendOkKept ==
    ASSUME Inv, Inv', Books, NEW m \in Messages, SendOk(m)
    PROVE  Books' /\ Recorded
<1> DEFINE a == <<m, Channel(m)>>
           least == Cheapest[a]
<1>0. /\ TypeOK /\ ReservedOf(m) /\ attempt[m].pc = "send" /\ Back(m) = attempt[m].held
      /\ attempt[m].held \in Nat /\ balance \in Int /\ billed \in Nat /\ BillSum \in Int
      /\ IsFiniteSet(accepted) /\ Channel(m) \in DOMAIN Estimate /\ Estimate[Channel(m)] \in Nat
      /\ accepted' = accepted \cup {a}
  BY BookTypes, ChannelType DEF Inv, Back, SendOk, At
<1>1. UNCHANGED <<settings, credited, credit, balance, billed, faults>>
  BY DEF SendOk, wallet, recharge
<1>2. least \in Nat /\ least <= Estimate[Channel(m)]
  BY <1>0, CheapestIs
<1>3. BillSum' = BillSum + (IF a \in accepted THEN 0 ELSE least)
  <2>1. \A b \in accepted \cup {a} : Cheapest[b] \in Int
    BY <1>0, <1>2, Addends DEF AddNumbers, Books
  <2> HIDE DEF a
  <2> QED
    BY <1>0, <2>1, SumInsert DEF BillSum
<1>4. IsFiniteSet(accepted')
  BY <1>0, FS_AddElement
<1> HIDE DEF least
<1>5. BillSum' \in Int /\ BillSum' <= BillSum + least
  BY <1>0, <1>2, <1>3
<1>6. CASE attempt[m].held = 0 /\ GoOn(m, TRUE)
  <2>1. /\ \A n \in Messages : n # m => attempt'[n] = attempt[n]
        /\ attempt'[m].held = 0 /\ ReservedOf(m)' /\ Back(m)' = 0
    BY <1>0, <1>6, GoOnIs
  <2>2. required => least = 0
    BY <1>0, <1>2, <1>6 DEF ReservedOf
  <2>3. balance' + billed' + attempt'[m].held + 0 = balance + billed + attempt[m].held
    BY <1>0, <1>1, <1>6, <2>1
  <2>4. required => balance' + Back(m)' + BillSum' <= balance + Back(m) + BillSum
    <3> SUFFICES ASSUME required PROVE balance' + Back(m)' + BillSum' <= balance + Back(m) + BillSum
      OBVIOUS
    <3>1. balance' = balance /\ Back(m) = 0 /\ Back(m)' = 0
      BY <1>0, <1>1, <1>6, <2>1
    <3>2. BillSum' <= BillSum
      BY <1>0, <1>5, <2>2
    <3>3. balance \in Int /\ BillSum \in Int /\ BillSum' \in Int
      BY <1>0, <1>5
    <3>4. balance' + Back(m)' = balance + Back(m) /\ balance + Back(m) \in Int
      BY <3>1, <3>3
    <3> QED
      BY <3>2, <3>3, <3>4
  <2> QED
    BY <1>1, <1>4, <1>5, <2>1, <2>3, <2>4, MessageKept
<1>7. ASSUME attempt[m].held # 0, NEW cost \in Actual[Channel(m)],
             attempt' = [attempt EXCEPT ![m].pc = "settle", ![m].cost = cost]
      PROVE  Books' /\ Recorded
  <2>1. /\ \A n \in Messages : n # m => attempt'[n] = attempt[n]
        /\ attempt'[m].pc = "settle" /\ attempt'[m].held = attempt[m].held
        /\ attempt'[m].cost = cost /\ Channel(m)' = Channel(m)
    BY <1>0, <1>7 DEF TypeOK, Attempt, Channel
  <2>2. ReservedOf(m)' /\ Back(m)' = attempt[m].held - least
    BY <1>0, <1>7, <2>1 DEF ReservedOf, Back, least
  <2>3. balance' + billed' + attempt'[m].held + 0 = balance + billed + attempt[m].held
    BY <1>0, <1>1, <2>1
  <2>4. balance' + Back(m)' + BillSum' <= balance + Back(m) + BillSum
    BY <1>0, <1>1, <1>2, <1>5, <2>2
  <2> QED
    BY <1>1, <1>4, <1>5, <2>1, <2>2, <2>3, <2>4, MessageKept
<1> QED
  BY <1>6, <1>7 DEF SendOk

LEMMA SendFailsKept ==
    ASSUME Inv, Inv', Books, NEW m \in Messages, SendFails(m)
    PROVE  Books' /\ Recorded
<1>0. /\ TypeOK /\ ReservedOf(m) /\ attempt[m].pc = "send" /\ Back(m) = attempt[m].held
      /\ attempt[m].held \in Nat /\ balance \in Int /\ billed \in Nat
  BY BookTypes DEF Inv, Back, SendFails, At
<1>1. UNCHANGED <<settings, credited, credit, accepted, balance, billed, faults>>
  BY DEF SendFails, wallet, recharge
<1>2. CASE attempt[m].held = 0 /\ GoOn(m, FALSE)
  <2>1. /\ balance' + billed' + 0 = balance + billed + attempt[m].held
        /\ balance' <= balance + Back(m)
    BY <1>0, <1>1, <1>2
  <2> QED
    BY <1>1, <1>2, <2>1, MovesOn
<1>3. CASE Goto(m, "refund")
  <2>1. ReservedOf(m)' /\ Back(m)' = Back(m)
    BY <1>0, <1>3, GotoIs DEF ReservedOf, Back
  <2> QED
    BY <1>0, <1>1, <1>3, <2>1, Stays
<1> QED
  BY <1>2, <1>3 DEF SendFails

LEMMA RefundKept ==
    ASSUME Inv, Inv', Books, NEW m \in Messages, Refund(m)
    PROVE  Books' /\ Recorded
<1>0. /\ TypeOK /\ attempt[m].pc = "refund" /\ Back(m) = attempt[m].held
      /\ attempt[m].held \in Nat /\ balance \in Int /\ billed \in Nat
      /\ attempt[m].held \in {0, Estimate[Channel(m)]} /\ Channel(m) \in DOMAIN Estimate
  BY BookTypes, ChannelType DEF Inv, Back, Refund, At, ReservedOf
<1>1. UNCHANGED <<settings, credited, credit, accepted, billed>> /\ GoOn(m, FALSE)
  BY DEF Refund, recharge
<1>2. \/ balance' = balance + attempt[m].held /\ faults' = faults
      \/ balance' = balance /\ faults' # 0 /\ faults' = faults + 1
  BY <1>0, NoFaultYet DEF Refund, Refunded
<1>3. /\ required => balance' <= balance + Back(m)
      /\ faults' = 0 => faults = 0
  BY <1>0, <1>1, <1>2
<1>4. CASE balance' = balance + attempt[m].held
  <2>1. balance' + billed' + 0 = balance + billed + attempt[m].held
    BY <1>0, <1>1, <1>4
  <2> QED
    BY <1>1, <1>3, <2>1, MovesOn
<1>5. CASE balance' = balance /\ faults' = faults + 1
  <2>1. PICK x : x = attempt[m].held
    OBVIOUS
  <2>2. balance' + billed' + x = balance + billed + attempt[m].held
    BY <1>0, <1>1, <1>5, <2>1
  <2>3. x = 0 \/ (faults' = faults + 1 /\ \E c \in DOMAIN Estimate : x = Estimate[c])
    BY <1>0, <1>5, <2>1
  <2> QED
    BY <1>1, <1>3, <2>2, <2>3, MovesOn
<1> QED
  BY <1>2, <1>4, <1>5

LEMMA SettleKept ==
    ASSUME Inv, Inv', Books, NEW m \in Messages, Settle(m)
    PROVE  Books' /\ Recorded
<1> DEFINE held == attempt[m].held
           cost == attempt[m].cost
           least == Cheapest[<<m, Channel(m)>>]
<1>0. /\ TypeOK /\ ReservedOf(m) /\ attempt[m].pc = "settle" /\ Back(m) = held - least
      /\ held \in Nat /\ balance \in Int /\ billed \in Nat /\ Channel(m) \in DOMAIN Estimate
      /\ Back(m) \in Nat
  BY BookTypes, ChannelType DEF Inv, Back, Settle, At
<1>1. UNCHANGED <<settings, credited, credit, accepted>> /\ GoOn(m, TRUE)
  BY DEF Settle, recharge
<1>2. cost \in Nat /\ least \in Nat /\ least <= cost
  <2>1. cost \in Actual[Channel(m)] /\ cost \in Nat
    BY <1>0 DEF ReservedOf, TypeOK, Attempt
  <2> QED
    BY <1>0, <2>1, CheapestIs
<1>3. \/ /\ balance' = balance - (cost - held) /\ billed' = billed + cost
         /\ faults' = faults
      \/ billed' = billed + held /\ balance' = balance /\ faults' # 0
  BY <1>0, NoFaultYet DEF Settle
<1> HIDE DEF held, cost, least
<1>4. /\ balance' + billed' + 0 = balance + billed + held
      /\ required => balance' <= balance + Back(m)
      /\ faults' = 0 => faults = 0
  BY <1>0, <1>2, <1>3
<1> QED
  BY <1>1, <1>4, MovesOn DEF held

\* No step of a message loses a charge or a reservation.
LEMMA MessageBooks ==
    ASSUME Inv, Inv', Books, NEW m \in Messages,
           \/ Skip(m) \/ Gate(m) \/ Reserve(m) \/ ReserveFails(m) \/ SendOk(m) \/ SendFails(m)
           \/ Refund(m) \/ Settle(m) \/ SenderDies(m)
    PROVE  Books' /\ Recorded
<1>0. TypeOK /\ balance \in Int /\ billed \in Nat /\ ReservedOf(m) /\ attempt[m].held \in Nat
      /\ Back(m) \in Nat
  BY BookTypes DEF Inv
<1>1. CASE Skip(m)
  <2>1. /\ UNCHANGED <<settings, credited, credit, accepted, balance, billed, faults>>
        /\ GoOn(m, FALSE) /\ attempt[m].held = 0
    BY <1>0, <1>1 DEF Skip, At, wallet, recharge, ReservedOf
  <2>2. balance' + billed' + 0 = balance + billed + attempt[m].held /\ balance' <= balance + Back(m)
    BY <1>0, <2>1
  <2> QED
    BY <2>1, <2>2, MovesOn
<1>2. CASE ReserveFails(m)
  <2>1. /\ UNCHANGED <<settings, credited, credit, accepted, balance, billed>>
        /\ attempt[m].pc = "reserve" /\ Unreserved(m) /\ faults' # 0
    BY <1>0, <1>2, NoFaultYet DEF ReserveFails, At, wallet, recharge
  <2> QED
    BY <2>1, UnreservedKept
<1>3. CASE SenderDies(m)
  <2>1. /\ UNCHANGED <<settings, credited, credit, accepted, balance, billed>>
        /\ Goto(m, "done") /\ faults' # 0
    BY <1>0, <1>3, NoFaultYet DEF SenderDies, wallet, recharge
  <2>2. ReservedOf(m)' /\ Back(m)' = 0
    BY <1>0, <2>1, GotoIs DEF ReservedOf, Back
  <2>3. Back(m)' <= Back(m)
    BY <1>0, <2>2
  <2> QED
    BY <2>1, <2>2, <2>3, Stays
<1> QED
  BY <1>1, <1>2, <1>3, GateKept, ReserveKept, SendOkKept, SendFailsKept, RefundKept, SettleKept

-----------------------------------------------------------------------------
\* What a recharge adds to the balance it adds to the ledger.
LEMMA LedgerMoves ==
    ASSUME NEW b \in Int, NEW c \in Int, NEW r \in Int, NEW q \in Int, NEW o \in Int,
           NEW d \in Int, NEW h \in Int, NEW t \in Int, NEW u \in Int, c - q = b - r
    PROVE  /\ o + q - d - h - c = o + r - d - h - b
           /\ b + t + u <= o + r => c + t + u <= o + q
OBVIOUS

\* A step of Stripe, of the job or of a recharge leaves the messages alone.
LEMMA RechargeKept ==
    ASSUME Inv, Inv', Books, UNCHANGED <<settings, sending>>, faults' = 0 => faults = 0, Found',
           IsFiniteSet(credited'), balance' - Recharged' = balance - Recharged
    PROVE  Books' /\ Recorded
<1>0. /\ TypeOK /\ TypeOK' /\ balance \in Int /\ balance' \in Int /\ billed \in Int
      /\ HeldSum \in Int /\ SlackSum \in Int /\ BillSum \in Int
      /\ Opening \in Int /\ Recharged \in Int
  BY SumTypes, RechargedType DEF Inv, TypeOK
<1>1. Recharged' \in Int
  BY <1>0, FS_CardinalityType, WalletAssumption DEF Recharged
<1>2. /\ HeldSum' = HeldSum /\ SlackSum' = SlackSum /\ BillSum' = BillSum /\ billed' = billed
      /\ accepted' = accepted
  <2>1. attempt' = attempt /\ accepted' = accepted /\ billed' = billed
    BY DEF sending
  <2>2. Held' = Held
    BY <2>1 DEF Held
  <2>3. \A m \in Messages : Back(m)' = Back(m)
    BY <2>1 DEF Back, Channel
  <2>4. Slack' = Slack
    BY <2>3 DEF Slack
  <2> QED
    BY <2>1, <2>2, <2>4 DEF HeldSum, SlackSum, BillSum
<1>3. Reserved'
  BY DEF Books, Reserved, ReservedOf, Channel, sending, settings
<1> DEFINE b == balance  c == balance'  r == Recharged  q == Recharged'
           d == billed   h == HeldSum   t == SlackSum   u == BillSum
<1>4. /\ b \in Int /\ c \in Int /\ r \in Int /\ q \in Int /\ d \in Int /\ h \in Int
      /\ t \in Int /\ u \in Int /\ Opening \in Int /\ c - q = b - r
  BY <1>0, <1>1
<1> HIDE DEF b, c, r, q, d, h, t, u
<1>5. /\ Opening + q - d - h - c = Opening + r - d - h - b
      /\ b + t + u <= Opening + r => c + t + u <= Opening + q
  BY <1>4, LedgerMoves
<1>6. Recorded /\ PaidFor'
  <2>1. Recorded
    BY <1>2, <1>5 DEF Recorded, Short, b, c, r, q, d, h
  <2>2. PaidFor'
    BY <1>2, <1>5 DEF Books, PaidFor, settings, b, c, r, q, t, u
  <2> QED
    BY <2>1, <2>2
<1> QED
  BY <1>2, <1>3, <1>6 DEF Books

LEMMA BalanceStays ==
    ASSUME Inv, Inv', Books, UNCHANGED <<settings, sending, balance, credited>>,
           faults' = 0 => faults = 0, Found'
    PROVE  Books' /\ Recorded
<1>1. balance' - Recharged' = balance - Recharged /\ IsFiniteSet(credited')
  BY DEF Recharged, Books
<1> QED
  BY <1>1, RechargeKept

\* The row is free when a recharge begins, and what it reads of the ledger is true.
LEMMA BeginFound ==
    ASSUME Inv, NEW h \in Handlers, NEW s \in Sessions, Begin(h, s), UNCHANGED credited
    PROVE  Found'
<1>1. \A g \in Handlers : credit[g] = Idle
  BY RechargeFacts DEF Locked, Begin, MayBegin, RowIsFree
<1>2. \A g \in Handlers : credit'[g] = IF g = h
          THEN [session |-> s, base |-> balance, found |-> s \in credited] ELSE Idle
  BY <1>1, RechargeFacts DEF Begin
<1> QED
  BY <1>2 DEF Found

\* And when it ends, nobody else has seen anything.
LEMMA EndFound ==
    ASSUME Inv, NEW h \in Handlers, credit[h] # Idle, credit' = [credit EXCEPT ![h] = Idle]
    PROVE  Found'
<1>1. \A g \in Handlers : credit'[g] = Idle
  BY RechargeFacts DEF Locked
<1> QED
  BY <1>1 DEF Found

\* creditWalletFromRecharge adds the amount and the ledger row together, once per session.
LEMMA CommitBooks ==
    ASSUME Inv, Inv', Books, NEW h \in Handlers, CreditCommit(h)
    PROVE  Books' /\ Recorded
<1>0. /\ UNCHANGED <<settings, sending, faults>> /\ credit[h] # Idle
      /\ credit' = [credit EXCEPT ![h] = Idle] /\ lock' = IF lock = h THEN Null ELSE lock
  BY DEF CreditCommit
<1>1. Found'
  BY <1>0, EndFound
<1>2. credit[h].base = balance /\ credit[h].found = (credit[h].session \in credited)
  BY <1>0, EndType DEF Books, Found
<1>3. CASE credit[h].found
  BY <1>0, <1>1, <1>3, BalanceStays DEF CreditCommit
<1>4. CASE ~credit[h].found
  <2> DEFINE s == credit[h].session
             n == Cardinality(credited)
  <2>1. balance' = balance + Amount /\ credited' = credited \cup {s} /\ s \notin credited
    BY <1>2, <1>4 DEF CreditCommit
  <2>2. IsFiniteSet(credited') /\ Cardinality(credited') = n + 1 /\ n \in Nat
    BY <2>1, FS_AddElement, FS_CardinalityType DEF Books
  <2>3. Recharged' = Amount * (n + 1) /\ Recharged = Amount * n
    BY <2>2 DEF Recharged
  <2>4. balance \in Int /\ Amount \in Nat
    BY RechargeFacts
  <2> HIDE DEF n
  <2>5. Amount * (n + 1) = Amount * n + Amount /\ Amount * n \in Int
    BY <2>2, <2>4
  <2>6. balance' - Recharged' = balance - Recharged
    BY <2>1, <2>3, <2>4, <2>5
  <2> QED
    BY <1>0, <1>1, <2>2, <2>6, RechargeKept
<1> QED
  BY <1>3, <1>4

LEMMA RechargeBooks ==
    ASSUME Inv, Inv', Books,
           \/ \E s \in Sessions : \/ Checkout(s) \/ Complete(s) \/ PayLate(s) \/ JobCredit(s)
                                  \/ \E h \in Hooks : Webhook(h, s)
           \/ \E h \in Handlers : CreditCommit(h) \/ CreditFails(h)
           \/ JobScan \/ JobFails \/ NextPeriod \/ UNCHANGED vars
    PROVE  Books' /\ Recorded
<1>1. CASE \/ \E s \in Sessions : Checkout(s) \/ Complete(s) \/ PayLate(s)
           \/ JobScan \/ JobFails \/ NextPeriod \/ UNCHANGED vars
  <2>1. /\ UNCHANGED <<settings, sending, balance, credited, credit>>
        /\ (faults' = 0 => faults = 0)
    BY <1>1, NoFaultYet
       DEF Inv, Checkout, Complete, PayLate, JobScan, JobFails, NextPeriod, vars, wallet, recharge
  <2>2. Found'
    BY <2>1 DEF Books, Found
  <2> QED
    BY <2>1, <2>2, BalanceStays
<1>2. CASE \E s \in Sessions : JobCredit(s)
  <2> PICK s \in Sessions : JobCredit(s)
    BY <1>2
  <2>1. Begin(Job, s) /\ UNCHANGED <<settings, sending, balance, credited, faults>> /\ Job \in Handlers
    BY DEF JobCredit, Handlers
  <2> QED
    BY <2>1, BeginFound, BalanceStays
<1>3. CASE \E s \in Sessions : \E h \in Hooks : Webhook(h, s)
  <2> PICK s \in Sessions, h \in Hooks : Webhook(h, s)
    BY <1>3
  <2>1. Begin(h, s) /\ UNCHANGED <<settings, sending, balance, credited, faults>> /\ h \in Handlers
    BY DEF Webhook, Handlers
  <2> QED
    BY <2>1, BeginFound, BalanceStays
<1>4. CASE \E h \in Handlers : CreditFails(h)
  <2> PICK h \in Handlers : CreditFails(h)
    BY <1>4
  <2>1. /\ UNCHANGED <<settings, sending, balance, credited>> /\ faults' # 0
        /\ credit[h] # Idle /\ credit' = [credit EXCEPT ![h] = Idle]
    BY NoFaultYet DEF CreditFails, Inv
  <2> QED
    BY <2>1, EndFound, BalanceStays
<1> QED
  BY <1>1, <1>2, <1>3, <1>4, CommitBooks

LEMMA InitBooks == Init => Books
<1> SUFFICES ASSUME Init PROVE Books
  OBVIOUS
<1>1. TypeOK
  BY InitInv DEF Inv
<1>2. Found
  BY DEF Init, Found
<1>3. \A m \in Messages : attempt[m].pc = "gate" /\ attempt[m].held = 0
  BY DEF Init
<1>4. Reserved
  BY <1>3 DEF Reserved, ReservedOf
<1>5. \A m \in Messages : Held[m] = 0 /\ Slack[m] = 0
  BY <1>3 DEF Held, Slack, Back
<1>6. HeldSum = 0 /\ SlackSum = 0
  BY <1>5, SumOfZeros, WalletAssumption DEF HeldSum, SlackSum
<1>7. BillSum = 0 /\ IsFiniteSet(accepted) /\ IsFiniteSet(credited) /\ Cardinality(credited) = 0
  BY SumEmpty, FS_EmptySet DEF Init, BillSum
<1>8. Recharged = 0 /\ balance = Opening /\ billed = 0 /\ Opening \in Nat
  BY <1>7, WalletAssumption DEF Recharged, Init
<1>9. PaidFor
  BY <1>6, <1>7, <1>8 DEF PaidFor
<1> QED
  BY <1>2, <1>4, <1>7, <1>9 DEF Books

LEMMA NextBooks == ASSUME Inv, Inv', Books, [Next]_vars PROVE Books' /\ Recorded
<1>1. CASE \E m \in Messages :
              \/ Skip(m) \/ Gate(m) \/ Reserve(m) \/ ReserveFails(m) \/ SendOk(m) \/ SendFails(m)
              \/ Refund(m) \/ Settle(m) \/ SenderDies(m)
  BY <1>1, MessageBooks
<1> QED
  BY <1>1, RechargeBooks DEF Next

\* Faults are only ever added.
LEMMA FaultsStep == ASSUME [Next]_vars PROVE faults' = faults \/ faults' = faults + 1
BY DEF Next, Skip, Gate, Reserve, ReserveFails, SendOk, SendFails, Refund, Settle, SenderDies,
       Checkout, Complete, PayLate, JobCredit, Webhook, CreditCommit, CreditFails, JobScan, JobFails,
       NextPeriod, Fault, vars

LEMMA InitLedger == Init => LogIsLedger
<1> SUFFICES ASSUME Init PROVE LogIsLedger
  OBVIOUS
<1>1. HeldSum = 0
  <2>1. \A m \in Messages : Held[m] = 0
    BY DEF Init, Held
  <2> QED
    BY <2>1, SumOfZeros, WalletAssumption DEF HeldSum
<1>2. Recharged = 0 /\ billed = 0 /\ balance = Opening /\ Opening \in Nat /\ faults = 0
  BY FS_EmptySet, WalletAssumption DEF Recharged, Init
<1>3. Short = 0
  BY <1>1, <1>2 DEF Short
<1>4. \A c \in DOMAIN Estimate : 0 * Estimate[c] = 0
  BY WalletAssumption
<1> QED
  BY <1>2, <1>3, <1>4 DEF LogIsLedger, Short, HeldSum

LEMMA NextLedger ==
    ASSUME Inv, Books, LogIsLedger, Recorded, faults' = faults \/ faults' = faults + 1
    PROVE  LogIsLedger'
<1>1. /\ Short \in Int /\ faults \in Nat
      /\ \A c \in DOMAIN Estimate : Estimate[c] \in Nat
  <2>1. /\ balance \in Int /\ billed \in Nat /\ HeldSum \in Int /\ faults \in Nat
        /\ Opening \in Int /\ Recharged \in Int
    BY SumTypes, RechargedType, WalletAssumption DEF Inv, TypeOK
  <2> QED
    BY <2>1, WalletAssumption DEF Short
<1>2. /\ Short >= 0 /\ (faults = 0 => Short = 0)
      /\ \A c \in DOMAIN Estimate : Dearest(c) => Short <= faults * Estimate[c]
  BY DEF LogIsLedger, Short, HeldSum
<1>3. \A n, e \in Nat : (n + 1) * e = n * e + e /\ n * e \in Nat
  OBVIOUS
<1>4. /\ Short' >= 0 /\ (faults' = 0 => Short' = 0)
      /\ \A c \in DOMAIN Estimate : Dearest(c) => Short' <= faults' * Estimate[c]
  <2>1. CASE Short' = Short
    <3>1. \A c \in DOMAIN Estimate : faults * Estimate[c] <= faults' * Estimate[c]
                                      /\ faults' * Estimate[c] \in Nat
      BY <1>1, <1>3
    <3>2. faults' = 0 => faults = 0
      BY <1>1
    <3>3. ASSUME NEW c \in DOMAIN Estimate, Dearest(c) PROVE Short' <= faults' * Estimate[c]
      <4>1. faults * Estimate[c] \in Nat /\ faults * Estimate[c] <= faults' * Estimate[c]
            /\ faults' * Estimate[c] \in Nat /\ Short <= faults * Estimate[c]
        BY <1>1, <1>2, <1>3, <3>1, <3>3
      <4> QED
        BY <1>1, <2>1, <4>1
    <3> QED
      BY <1>2, <2>1, <3>2, <3>3
  <2>2. ASSUME faults' = faults + 1, NEW d \in DOMAIN Estimate, Short' = Short + Estimate[d]
        PROVE  /\ Short' >= 0 /\ (faults' = 0 => Short' = 0)
               /\ \A c \in DOMAIN Estimate : Dearest(c) => Short' <= faults' * Estimate[c]
    <3>1. ASSUME NEW c \in DOMAIN Estimate, Dearest(c) PROVE Short' <= faults' * Estimate[c]
      <4>1. Estimate[d] <= Estimate[c] /\ Short <= faults * Estimate[c]
        BY <1>2, <3>1 DEF Dearest
      <4>2. faults' * Estimate[c] = faults * Estimate[c] + Estimate[c] /\ faults * Estimate[c] \in Nat
        BY <1>1, <1>3, <2>2
      <4> QED
        BY <1>1, <2>2, <4>1, <4>2
    <3> QED
      BY <1>1, <1>2, <2>2, <3>1
  <2> QED
    BY <2>1, <2>2 DEF Recorded
<1> QED
  BY <1>4 DEF LogIsLedger, Short, HeldSum, Dearest

\* "The communicationLog is the ledger" (debitWallet): the balance is what the recharges
\* brought in, less what was billed and what is reserved, however reservations, refunds,
\* settlements and recharges interleave, and each failure costs the tenant at most the dearest
\* reservation.
THEOREM LogBalances == Spec => []LogIsLedger
<1>1. Inv /\ Inv' /\ Books /\ LogIsLedger /\ [Next]_vars => Books' /\ LogIsLedger'
  BY NextBooks, NextLedger, FaultsStep
<1> QED
  BY <1>1, InitInv, NextInv, InitBooks, InitLedger, PTL DEF Spec

\* "A crash between send and debit can never produce an unbilled paid send" (attemptChannel):
\* where a wallet is required, what was paid in covers the balance and the cheapest bill of
\* every message the provider has taken, whatever fails and wherever a sender dies.
THEOREM SendsArePaid == Spec => []NoUnbilledSend
<1>1. Inv /\ Books => NoUnbilledSend
  <2> SUFFICES ASSUME Inv, Books, required PROVE balance <= Opening + Recharged - BillSum
    BY DEF NoUnbilledSend, BillSum
  <2>1. SlackSum \in Nat
    BY Addends, SumOfNaturals, WalletAssumption DEF Inv, Books, AddNumbers, SlackSum
  <2>2. /\ balance \in Int /\ BillSum \in Int /\ Opening \in Int /\ Recharged \in Int
        /\ balance + SlackSum + BillSum <= Opening + Recharged
    BY SumTypes, RechargedType DEF Inv, TypeOK, Books, PaidFor
  <2> QED
    BY <2>1, <2>2
<1> QED
  BY <1>1, InitInv, NextInv, InitBooks, NextBooks, PTL DEF Spec

-----------------------------------------------------------------------------
(* Recharges *)

Open(s) == payment[s].state = "paid" /\ s \notin credited

\* The job of this period is through with a session.
Tried(s) == swept /\ s \notin todo /\ ~(credit[Job] # Idle /\ credit[Job].session = s)

\* A paid session that nobody has credited has cost the job a failure in every period since
\* the one it was paid in, as long as it is in the window.
OwedOf(s) ==
    /\ payment[s].state # "none" => payment[s].opened <= clock
    /\ Open(s) =>
         /\ payment[s].opened <= payment[s].paid /\ payment[s].paid <= clock
         /\ payment[s].paid < clock /\ clock <= payment[s].opened + Lookback =>
              /\ faults + 1 >= clock - payment[s].paid
              /\ Tried(s) => faults >= clock - payment[s].paid
         /\ payment[s].opened + Lookback < clock /\ payment[s].paid <= payment[s].opened + Lookback =>
              faults >= payment[s].opened + Lookback - payment[s].paid
Owed == \A s \in Sessions : OwedOf(s)

LEMMA OwedTypes ==
    ASSUME Inv, NEW s \in Sessions
    PROVE  /\ payment[s].opened \in Nat /\ payment[s].paid \in Nat /\ clock \in Nat
           /\ faults \in Nat /\ Lookback \in Nat
BY WalletAssumption DEF Inv, TypeOK, Payment

LEMMA FaultsGrow ==
    ASSUME Inv, faults' = faults \/ Fault
    PROVE  faults' >= faults /\ faults' \in Nat
BY WalletAssumption DEF Inv, TypeOK, Fault

\* A step within a period: the job is through with a session that is still open and in its
\* window only by a failure.
LEMMA OwedStays ==
    ASSUME Inv, NEW s \in Sessions, OwedOf(s), UNCHANGED clock, payment'[s] = payment[s],
           faults' = faults \/ Fault, Open(s)' => Open(s),
           Open(s)' /\ clock <= payment[s].opened + Lookback /\ Tried(s)' => Tried(s) \/ Fault
    PROVE  OwedOf(s)'
<1>0. /\ payment[s].opened \in Nat /\ payment[s].paid \in Nat /\ clock \in Nat
      /\ faults \in Nat /\ Lookback \in Nat /\ faults' \in Nat /\ faults' >= faults
  BY OwedTypes, FaultsGrow
<1>1. CASE ~Open(s)'
  BY <1>1 DEF OwedOf
<1>2. CASE Open(s)'
  <2> DEFINE opened == payment[s].opened
             paid   == payment[s].paid
  <2>1. /\ opened <= paid /\ paid <= clock
        /\ paid < clock /\ clock <= opened + Lookback =>
              faults + 1 >= clock - paid /\ (Tried(s) => faults >= clock - paid)
        /\ opened + Lookback < clock /\ paid <= opened + Lookback =>
              faults >= opened + Lookback - paid
    BY <1>2 DEF OwedOf
  <2>2. clock <= opened + Lookback /\ Tried(s)' => Tried(s) \/ faults' = faults + 1
    BY <1>2 DEF Fault
  <2>3. payment'[s].opened = opened /\ payment'[s].paid = paid /\ clock' = clock
        /\ payment'[s].state = payment[s].state
    OBVIOUS
  <2>7. opened \in Int /\ paid \in Int
    BY <1>0
  <2>8. payment'[s].state # "none" => opened <= clock
    BY <2>3 DEF OwedOf
  <2> HIDE DEF opened, paid
  <2>4. ASSUME paid < clock, clock <= opened + Lookback
        PROVE  faults' + 1 >= clock - paid
    <3> DEFINE f == faults  g == faults'  c == clock
    <3>1. f + 1 >= c - paid
      BY <2>1, <2>4
    <3>2. f \in Int /\ g \in Int /\ c \in Int /\ g >= f
      BY <1>0
    <3> HIDE DEF f, g, c
    <3>3. g + 1 >= c - paid
      BY <2>7, <3>1, <3>2
    <3> QED
      BY <3>3 DEF g, c
  <2>5. ASSUME paid < clock, clock <= opened + Lookback, Tried(s)'
        PROVE  faults' >= clock - paid
    <3>1. CASE Tried(s)
      <4>1. faults >= clock - paid
        BY <2>1, <2>5, <3>1
      <4> QED
        BY <1>0, <2>7, <4>1
    <3>2. CASE faults' = faults + 1
      <4>1. faults + 1 >= clock - paid
        BY <2>1, <2>5
      <4> QED
        BY <3>2, <4>1
    <3> QED
      BY <2>2, <2>5, <3>1, <3>2
  <2>6. ASSUME opened + Lookback < clock, paid <= opened + Lookback
        PROVE  faults' >= opened + Lookback - paid
    <3>1. faults >= opened + Lookback - paid
      BY <2>1, <2>6
    <3> QED
      BY <1>0, <2>7, <3>1
  <2> QED
    BY <2>1, <2>3, <2>4, <2>5, <2>6, <2>8 DEF OwedOf
<1> QED
  BY <1>1, <1>2

\* A payment arrives in the period in which it is made.
LEMMA PaymentOwed ==
    ASSUME Inv, NEW s \in Sessions, OwedOf(s), UNCHANGED <<clock, credited, swept, todo, credit, faults>>,
           NEW t \in Sessions, Checkout(t) \/ Complete(t) \/ PayLate(t)
    PROVE  OwedOf(s)'
<1>0. /\ payment[s].opened \in Nat /\ payment[s].paid \in Nat /\ clock \in Nat
      /\ faults \in Nat /\ Lookback \in Nat /\ payment[s] \in Payment
      /\ payment \in [Sessions -> Payment]
  BY OwedTypes DEF Inv, TypeOK
<1>1. CASE s # t
  <2>1. payment'[s] = payment[s]
    BY <1>0, <1>1 DEF Checkout, Complete, PayLate
  <2>2. (Open(s)' => Open(s)) /\ (Tried(s)' => Tried(s))
    BY <2>1 DEF Open, Tried
  <2> QED
    BY <2>1, <2>2, OwedStays
<1>2. CASE s = t /\ Checkout(s)
  <2>1. payment'[s].state = "open" /\ payment'[s].opened = clock
    BY <1>0, <1>2 DEF Checkout, Payment
  <2> QED
    BY <1>0, <2>1 DEF OwedOf, Open
<1>3. CASE s = t /\ (Complete(s) \/ PayLate(s))
  <2>1. payment'[s].opened = payment[s].opened /\ payment[s].state # "none"
    BY <1>0, <1>3 DEF Complete, PayLate, Payment
  <2>2. payment[s].opened <= clock
    BY <2>1 DEF OwedOf
  <2>3. payment'[s].state = "completed" \/ (payment'[s].state = "paid" /\ payment'[s].paid = clock)
    BY <1>0, <1>3 DEF Complete, PayLate, Payment
  <2>4. CASE payment'[s].state = "completed"
    BY <2>1, <2>2, <2>4 DEF OwedOf, Open
  <2>5. CASE payment'[s].state = "paid" /\ payment'[s].paid = clock
    <3>1. ~(clock < clock) /\ ~(payment[s].opened + Lookback < clock /\ clock <= payment[s].opened + Lookback)
          /\ clock <= clock
      BY <1>0
    <3> QED
      BY <2>1, <2>2, <2>5, <3>1 DEF OwedOf
  <2> QED
    BY <2>3, <2>4, <2>5
<1> QED
  BY <1>1, <1>2, <1>3

\* The period ends: its job has been through with every session.
LEMMA PeriodOwed ==
    ASSUME Inv, NEW s \in Sessions, OwedOf(s), NextPeriod
    PROVE  OwedOf(s)'
<1> DEFINE opened == payment[s].opened
           paid   == payment[s].paid
<1>0. /\ opened \in Nat /\ paid \in Nat /\ clock \in Nat /\ faults \in Nat /\ Lookback \in Nat
  BY OwedTypes
<1>1. /\ payment'[s] = payment[s] /\ clock' = clock + 1 /\ faults' = faults
      /\ Tried(s) /\ ~Tried(s)' /\ (Open(s)' <=> Open(s))
  BY DEF NextPeriod, Tried, Open
<1>2. payment[s].state # "none" => opened <= clock
  BY DEF OwedOf
<1>3. ASSUME Open(s)
      PROVE  /\ opened <= paid /\ paid <= clock
             /\ paid < clock /\ clock <= opened + Lookback => faults >= clock - paid
             /\ opened + Lookback < clock /\ paid <= opened + Lookback =>
                  faults >= opened + Lookback - paid
  BY <1>1, <1>3 DEF OwedOf
<1>4. payment'[s].opened = opened /\ payment'[s].paid = paid /\ payment'[s].state = payment[s].state
  BY <1>1
<1> HIDE DEF opened, paid
<1>5. ASSUME Open(s)
      PROVE  /\ opened <= paid /\ paid <= clock + 1
             /\ clock + 1 <= opened + Lookback => faults + 1 >= clock + 1 - paid
             /\ opened + Lookback < clock + 1 /\ paid <= opened + Lookback =>
                  faults >= opened + Lookback - paid
  <2>1. opened <= paid /\ paid <= clock
    BY <1>3, <1>5
  <2>2. ASSUME clock + 1 <= opened + Lookback PROVE faults + 1 >= clock + 1 - paid
    <3>1. CASE paid = clock
      BY <1>0, <3>1
    <3>2. CASE paid # clock
      <4>1. paid < clock /\ clock <= opened + Lookback
        BY <1>0, <2>1, <2>2, <3>2
      <4>2. faults >= clock - paid
        BY <1>3, <1>5, <4>1
      <4> QED
        BY <1>0, <4>2
    <3> QED
      BY <3>1, <3>2
  <2>3. ASSUME opened + Lookback < clock + 1, paid <= opened + Lookback
        PROVE  faults >= opened + Lookback - paid
    <3>1. CASE opened + Lookback < clock
      BY <1>3, <1>5, <2>3, <3>1
    <3>2. CASE ~(opened + Lookback < clock)
      <4>1. opened + Lookback = clock
        BY <1>0, <2>3, <3>2
      <4>2. CASE paid = clock
        BY <1>0, <4>1, <4>2
      <4>3. CASE paid # clock
        <5>1. paid < clock /\ clock <= opened + Lookback
          BY <1>0, <2>1, <4>1, <4>3
        <5>2. faults >= clock - paid
          BY <1>3, <1>5, <5>1
        <5> QED
          BY <1>0, <4>1, <5>2
      <4> QED
        BY <4>2, <4>3
    <3> QED
      BY <3>1, <3>2
  <2> QED
    BY <1>0, <2>1, <2>2, <2>3
<1>6. payment'[s].state # "none" => opened <= clock + 1
  BY <1>0, <1>2, <1>4
<1>7. CASE ~Open(s)
  BY <1>1, <1>4, <1>6, <1>7 DEF OwedOf
<1>8. CASE Open(s)
  <2>1. clock' = clock + 1 /\ faults' = faults /\ ~Tried(s)'
    BY <1>1
  <2> DEFINE c == clock'  f == faults'
  <2>4. /\ opened <= paid /\ paid <= clock + 1
        /\ clock + 1 <= opened + Lookback => faults + 1 >= clock + 1 - paid
        /\ opened + Lookback < clock + 1 /\ paid <= opened + Lookback =>
             faults >= opened + Lookback - paid
    BY <1>5, <1>8
  <2>5. c = clock + 1 /\ f = faults
    BY <2>1
  <2>6. clock + 1 - paid = (clock + 1) - paid
    BY <1>0
  <2> HIDE DEF c, f
  <2>7. /\ opened <= paid /\ paid <= c
        /\ c <= opened + Lookback => f + 1 >= c - paid
        /\ opened + Lookback < c /\ paid <= opened + Lookback =>
             f >= opened + Lookback - paid
    BY <2>4, <2>5, <2>6
  <2>2. /\ opened <= paid /\ paid <= clock'
        /\ paid < clock' /\ clock' <= opened + Lookback => faults' + 1 >= clock' - paid
        /\ opened + Lookback < clock' /\ paid <= opened + Lookback =>
             faults' >= opened + Lookback - paid
    BY <2>7 DEF c, f
  <2>3. payment'[s].state # "none" => opened <= clock'
    BY <1>6, <2>1
  <2> QED
    BY <1>4, <2>1, <2>2, <2>3 DEF OwedOf
<1> QED
  BY <1>7, <1>8

\* The steps of a recharge and of the job.
LEMMA CreditOwed ==
    ASSUME Inv, Books, NEW s \in Sessions, OwedOf(s),
           NEW h \in Handlers, CreditCommit(h) \/ CreditFails(h)
    PROVE  OwedOf(s)'
<1>0. /\ UNCHANGED <<clock, payment, todo, swept>> /\ credit[h] # Idle
      /\ credit' = [credit EXCEPT ![h] = Idle] /\ Job \in Handlers
      /\ credit \in [Handlers -> Credit \cup {Idle}]
  BY RechargeFacts DEF CreditCommit, CreditFails, Handlers
<1>1. CASE CreditFails(h)
  BY <1>0, <1>1, OwedStays DEF CreditFails, Open
<1>2. CASE CreditCommit(h)
  <2>1. faults' = faults /\ credited \subseteq credited' /\ credit[h].session \in credited'
    BY <1>0, <1>2 DEF CreditCommit, Books, Found
  <2>2. Open(s)' => Open(s) /\ credit[h].session # s
    BY <1>0, <2>1 DEF Open
  <2>3. Open(s)' /\ Tried(s)' => Tried(s)
    BY <1>0, <2>2 DEF Tried
  <2> QED
    BY <1>0, <2>1, <2>2, <2>3, OwedStays
<1> QED
  BY <1>1, <1>2

LEMMA JobOwed ==
    ASSUME Inv, NEW s \in Sessions, OwedOf(s),
           \/ JobScan \/ JobFails
           \/ \E t \in Sessions : JobCredit(t) \/ \E h \in Hooks : Webhook(h, t)
    PROVE  OwedOf(s)'
<1>0. /\ credit \in [Handlers -> Credit \cup {Idle}] /\ Job \in Handlers /\ Job \notin Hooks
  BY RechargeFacts, WalletAssumption DEF Handlers
<1>1. CASE JobScan
  <2>1. /\ UNCHANGED <<clock, payment, credited, faults>>
        /\ todo' = {t \in Sessions : Listed(t)}
    BY <1>1 DEF JobScan
  <2>2. Open(s)' => Open(s)
    BY <2>1 DEF Open
  <2>3. Open(s)' /\ clock <= payment[s].opened + Lookback => ~Tried(s)'
    <3>1. payment[s].opened \in Nat /\ clock \in Nat /\ Lookback \in Nat
      BY OwedTypes
    <3>2. clock <= payment[s].opened + Lookback => clock - payment[s].opened <= Lookback
      BY <3>1
    <3> QED
      BY <2>1, <2>2, <3>2 DEF Tried, Listed, Open
  <2> QED
    BY <2>1, <2>2, <2>3, OwedStays
<1>2. CASE JobFails
  BY <1>2, OwedStays DEF JobFails, Open
<1>3. ASSUME NEW t \in Sessions, JobCredit(t) PROVE OwedOf(s)'
  <2>1. /\ UNCHANGED <<clock, payment, credited, faults, swept>> /\ credit[Job] = Idle
        /\ todo' = todo \ {t}
        /\ credit' = [credit EXCEPT ![Job] =
                        [session |-> t, base |-> balance, found |-> t \in credited]]
    BY <1>3 DEF JobCredit, Begin
  <2>2. credit'[Job] = [session |-> t, base |-> balance, found |-> t \in credited]
    BY <1>0, <2>1
  <2>3. credit'[Job] # Idle /\ credit'[Job].session = t
    <3>1. credit'[Job] \in Credit
      BY <2>2, RechargeFacts DEF Credit
    <3> QED
      BY <2>2, <3>1, CreditIsNotIdle
  <2>4. (Open(s)' => Open(s)) /\ (Tried(s)' => Tried(s))
    BY <2>1, <2>3 DEF Open, Tried
  <2> QED
    BY <2>1, <2>4, OwedStays
<1>4. ASSUME NEW t \in Sessions, NEW h \in Hooks, Webhook(h, t) PROVE OwedOf(s)'
  <2>1. /\ UNCHANGED <<clock, payment, credited, faults, swept, todo>>
        /\ credit'[Job] = credit[Job]
    BY <1>0, <1>4 DEF Webhook, Begin
  <2>2. (Open(s)' => Open(s)) /\ (Tried(s)' => Tried(s))
    BY <2>1 DEF Open, Tried
  <2> QED
    BY <2>1, <2>2, OwedStays
<1> QED
  BY <1>1, <1>2, <1>3, <1>4

LEMMA NextOwed == ASSUME Inv, Books, Owed, [Next]_vars PROVE Owed'
<1> SUFFICES ASSUME NEW s \in Sessions PROVE OwedOf(s)'
  BY DEF Owed
<1>0. OwedOf(s)
  BY DEF Owed
<1>1. CASE \/ \E m \in Messages :
                \/ Skip(m) \/ Gate(m) \/ Reserve(m) \/ ReserveFails(m) \/ SendOk(m) \/ SendFails(m)
                \/ Refund(m) \/ Settle(m) \/ SenderDies(m)
           \/ UNCHANGED vars
  <2>1. UNCHANGED recharge /\ (faults' = faults \/ Fault)
    BY <1>1 DEF Skip, Gate, Reserve, ReserveFails, SendOk, SendFails, Refund, Settle, SenderDies, vars
  <2>2. UNCHANGED <<clock, payment, credited, swept, todo, credit>>
    BY <2>1 DEF recharge
  <2>3. (Open(s)' => Open(s)) /\ (Tried(s)' => Tried(s))
    BY <2>2 DEF Open, Tried
  <2> QED
    BY <1>0, <2>1, <2>2, <2>3, OwedStays
<1>2. CASE \E t \in Sessions : Checkout(t) \/ Complete(t) \/ PayLate(t)
  <2> PICK t \in Sessions : Checkout(t) \/ Complete(t) \/ PayLate(t)
    BY <1>2
  <2>1. UNCHANGED <<clock, credited, swept, todo, credit, faults>>
    BY DEF Checkout, Complete, PayLate
  <2> QED
    BY <1>0, <2>1, PaymentOwed
<1> QED
  BY <1>0, <1>1, <1>2, PeriodOwed, CreditOwed, JobOwed DEF Next

LEMMA InitOwed == Init => Owed
<1> SUFFICES ASSUME Init, NEW s \in Sessions PROVE OwedOf(s)
  BY DEF Owed
<1>1. payment[s].state = "none"
  BY DEF Init
<1> QED
  BY <1>1 DEF OwedOf, Open

\* A recharge that is paid while the reconciliation job has more runs left to find it than
\* calls fail is in the wallet when it leaves the job's window (reconcileRechargeSessions),
\* whether its webhook comes once, often or never.
THEOREM RechargesArrive == Spec => []RechargeArrives
<1>1. Inv /\ Owed => RechargeArrives
  <2> SUFFICES ASSUME Inv, Owed, NEW s \in Sessions, PaidInTime(s), s \notin credited,
                      clock - payment[s].opened > Lookback
               PROVE  FALSE
    BY DEF RechargeArrives
  <2> DEFINE opened == payment[s].opened
             paid   == payment[s].paid
  <2>1. opened \in Nat /\ paid \in Nat /\ clock \in Nat /\ faults \in Nat /\ Lookback \in Nat
    BY OwedTypes
  <2>2. Open(s) /\ paid - opened + faults < Lookback
    BY DEF PaidInTime, Open
  <2>3. opened + Lookback < clock /\ paid <= opened + Lookback =>
          faults >= opened + Lookback - paid
    BY <2>2 DEF Owed, OwedOf
  <2>4. clock - opened > Lookback
    OBVIOUS
  <2> HIDE DEF opened, paid
  <2>5. opened + Lookback < clock /\ paid <= opened + Lookback
    BY <2>1, <2>2, <2>4
  <2> QED
    BY <2>1, <2>2, <2>3, <2>5
<1> QED
  BY <1>1, InitInv, NextInv, InitBooks, NextBooks, InitOwed, NextOwed, PTL DEF Spec
=============================================================================
