--------------------------- MODULE CommunicationWallet ---------------------------
(***************************************************************************)
(* The prepaid wallet of one tenant: the router reserves the estimate of each   *)
(* paid message, sends it and settles; recharges paid at Stripe are credited     *)
(* by the webhook, however often it is delivered, and by a reconciliation job    *)
(* for those it missed.  debitWallet and creditWallet are one transaction on a   *)
(* locked row each and one step here; the recharge's transaction locks, looks     *)
(* for the ledger row and writes, and is two.                                    *)
(***************************************************************************)
EXTENDS Integers, Sequences, FiniteSets, Functions

CONSTANTS
    Messages,
    Plan,          \* [Messages -> Seq(channels)] buildChannelPlan
    Critical,      \* messages with intent.critical (and not an OTP)
    Estimate,      \* [channels -> Nat] cost of the estimated segments; 0 is a free channel
    Actual,        \* [channels -> SUBSET Nat] what the segments sent may cost
    Sessions,      \* Stripe checkout sessions with a recharge
    Amount,        \* what a session pays for
    Lookback,      \* LOOKBACK_HOURS, in periods of the reconciliation job
    Hooks,         \* webhook requests in flight
    Job,           \* the reconciliation job, as a holder of the row lock
    Null,
    Opening,       \* balance at the start
    MaxDeliveries, \* bound: deliveries of webhook events
    MaxFaults,     \* bound: calls that fail, handlers that die
    Horizon        \* bound: periods

ASSUME WalletAssumption ==
    /\ IsFiniteSet(Messages) /\ DOMAIN Plan = Messages /\ Critical \subseteq Messages
    /\ \A m \in Messages : Plan[m] \in Seq(DOMAIN Estimate) \ {<< >>}
    /\ \A c \in DOMAIN Estimate : Estimate[c] \in Nat /\ Actual[c] \in SUBSET Nat
    /\ Amount \in Nat \ {0} /\ Lookback \in Nat /\ Opening \in Nat
    /\ MaxDeliveries \in Nat /\ MaxFaults \in Nat /\ Horizon \in Nat
    /\ Job \notin Hooks /\ Null \notin Hooks \cup {Job} \cup Sessions

VARIABLES
    required,     \* wallet_required_for_paid_channels
    overdraft,    \* allow_negative_communications_balance
    balance,
    lock,         \* the recharge that holds the wallet row
    attempt,      \* each message on its way through its plan
    accepted,     \* <<message, channel>> the provider reported as sent
    billed,       \* the sum of billedAmountCents over messages in communicationLog
    extra,        \* the part of it for segments beyond the estimate
    credited,     \* sessions with a ledger row in communicationLog
    payment,      \* Stripe's side of each session
    credit,       \* the recharge each webhook request, or the job, is crediting
    todo,         \* paid sessions the job has listed and not credited yet
    swept,        \* the job has run in this period
    clock, deliveries, faults

settings == <<required, overdraft>>
wallet   == <<balance, lock>>
sending  == <<attempt, accepted, billed, extra>>
recharge == <<credited, payment, credit, todo, swept, clock, deliveries>>
vars     == <<settings, wallet, sending, recharge, faults>>

Handlers == Hooks \cup {Job}
Attempt  == [pc : {"gate", "reserve", "send", "refund", "settle", "done"},
             step : Nat, held : Nat, cost : Nat]
Payment  == [state : {"none", "open", "completed", "paid"}, hooked : BOOLEAN,
             opened : Nat, paid : Nat]
Idle     == [session |-> Null]
Credit   == [session : Sessions, base : Int, found : BOOLEAN]

TypeOK ==
    /\ required \in BOOLEAN /\ overdraft \in BOOLEAN
    /\ balance \in Int /\ lock \in Handlers \cup {Null}
    /\ attempt \in [Messages -> Attempt]
    /\ \A m \in Messages : attempt[m].pc # "done" => attempt[m].step \in DOMAIN Plan[m]
    /\ accepted \subseteq Messages \X DOMAIN Estimate
    /\ billed \in Nat /\ extra \in Nat
    /\ credited \subseteq Sessions
    /\ payment \in [Sessions -> Payment]
    /\ credit \in [Handlers -> Credit \cup {Idle}]
    /\ \A h \in Handlers : lock = h => credit[h] # Idle
    /\ todo \subseteq Sessions /\ swept \in BOOLEAN
    /\ clock \in 0 .. Horizon /\ deliveries \in 0 .. MaxDeliveries
    /\ faults \in 0 .. MaxFaults

Init ==
    /\ required \in BOOLEAN /\ overdraft \in BOOLEAN
    /\ balance = Opening /\ lock = Null
    /\ attempt = [m \in Messages |-> [pc |-> "gate", step |-> 1, held |-> 0, cost |-> 0]]
    /\ accepted = {} /\ billed = 0 /\ extra = 0
    /\ credited = {}
    /\ payment = [s \in Sessions |-> [state |-> "none", hooked |-> FALSE, opened |-> 0, paid |-> 0]]
    /\ credit = [h \in Handlers |-> Idle]
    /\ todo = {} /\ swept = FALSE
    /\ clock = 0 /\ deliveries = 0 /\ faults = 0

Fault == faults < MaxFaults /\ faults' = faults + 1

\* The row lock: a recharge that has begun keeps the others out.
RowIsFree == lock = Null

-----------------------------------------------------------------------------
(* attemptChannel *)

Channel(m)  == Plan[m][attempt[m].step]
At(m, pc)   == attempt[m].pc = pc
Goto(m, pc) == attempt' = [attempt EXCEPT ![m].pc = pc]

\* Mutant: one channel too many.
MutantAtEnd(m) == attempt[m].step > Len(Plan[m])
AtEnd(m) == attempt[m].step = Len(Plan[m])

\* The cascade stops after the first success, unless the message is critical.
GoOn(m, success) ==
    attempt' = [attempt EXCEPT ![m] =
        IF (success /\ m \notin Critical) \/ AtEnd(m)
        THEN [@ EXCEPT !.pc = "done", !.held = 0]
        ELSE [@ EXCEPT !.pc = "gate", !.held = 0, !.step = attempt[m].step + 1]]

\* No recipient, a disabled channel or provider; or a balance below the estimate.
Skip(m) ==
    /\ At(m, "gate") /\ GoOn(m, FALSE)
    /\ UNCHANGED <<settings, wallet, accepted, billed, extra, recharge, faults>>

GatePasses(m) ==
    \/ ~required \/ Estimate[Channel(m)] = 0
    \/ balance >= Estimate[Channel(m)]
    \/ m \in Critical /\ overdraft

Gate(m) ==
    /\ At(m, "gate") /\ GatePasses(m)
    /\ Goto(m, IF Estimate[Channel(m)] > 0 THEN "reserve" ELSE "send")
    /\ UNCHANGED <<settings, wallet, accepted, billed, extra, recharge, faults>>

\* debitWallet: the tenant's setting is enough, whatever the message.  Mutant: no check.
MutantCovers(cents) == TRUE
Covers(cents) == balance >= cents \/ overdraft

\* Without a reservation the message goes out unbilled, or not at all.
MutantUnreserved(m) == Goto(m, "send")
Unreserved(m) == IF required THEN GoOn(m, FALSE) ELSE Goto(m, "send")

Reserve(m) ==
    /\ At(m, "reserve") /\ RowIsFree
    /\ LET cents == Estimate[Channel(m)] IN
       \/ /\ Covers(cents)
          /\ balance' = balance - cents
          /\ attempt' = [attempt EXCEPT ![m].pc = "send", ![m].held = cents]
       \/ /\ ~Covers(cents)
          /\ Unreserved(m)
          /\ UNCHANGED balance
    /\ UNCHANGED <<settings, lock, accepted, billed, extra, recharge, faults>>

\* The debit throws.
ReserveFails(m) ==
    /\ At(m, "reserve") /\ Fault
    /\ Unreserved(m)
    /\ UNCHANGED <<settings, wallet, accepted, billed, extra, recharge>>

SendOk(m) ==
    /\ At(m, "send")
    /\ accepted' = accepted \cup {<<m, Channel(m)>>}
    /\ IF attempt[m].held = 0
       THEN GoOn(m, TRUE)
       ELSE \E cost \in Actual[Channel(m)] :
               attempt' = [attempt EXCEPT ![m].pc = "settle", ![m].cost = cost]
    /\ UNCHANGED <<settings, wallet, billed, extra, recharge, faults>>

SendFails(m) ==
    /\ At(m, "send")
    /\ IF attempt[m].held = 0 THEN GoOn(m, FALSE) ELSE Goto(m, "refund")
    /\ UNCHANGED <<settings, wallet, accepted, billed, extra, recharge, faults>>

\* Mutant: the refund is left to someone else.
MutantRefunded(m) == balance
Refunded(m) == balance + attempt[m].held

Refund(m) ==
    /\ At(m, "refund")
    /\ \/ RowIsFree /\ balance' = Refunded(m) /\ UNCHANGED faults
       \/ Fault /\ UNCHANGED balance
    /\ GoOn(m, FALSE)
    /\ UNCHANGED <<settings, lock, accepted, billed, extra, recharge>>

\* The reservation becomes the cost of what was sent; extra segments are owed.
Settle(m) ==
    LET held == attempt[m].held
        cost == attempt[m].cost
    IN  /\ At(m, "settle")
        /\ \/ /\ RowIsFree \/ cost = held
              /\ balance' = balance - (cost - held)
              /\ billed' = billed + cost
              /\ extra' = extra + (IF cost > held THEN cost - held ELSE 0)
              /\ UNCHANGED faults
           \/ /\ cost # held /\ Fault
              /\ billed' = billed + held
              /\ UNCHANGED <<balance, extra>>
        /\ GoOn(m, TRUE)
        /\ UNCHANGED <<settings, lock, accepted, recharge>>

SenderDies(m) ==
    /\ attempt[m].pc \in {"gate", "reserve", "send", "refund", "settle"} /\ Fault
    /\ Goto(m, "done")
    /\ UNCHANGED <<settings, wallet, accepted, billed, extra, recharge>>

-----------------------------------------------------------------------------
(* Stripe *)

Checkout(s) ==
    /\ payment[s].state = "none"
    /\ payment' = [payment EXCEPT ![s].state = "open", ![s].opened = clock]
    /\ UNCHANGED <<settings, wallet, sending, credited, credit, todo, swept, clock,
                   deliveries, faults>>

\* A card pays at once; other methods complete the session unpaid and pay later.
Complete(s) ==
    /\ payment[s].state = "open"
    /\ \/ payment' = [payment EXCEPT ![s].state = "paid", ![s].hooked = TRUE, ![s].paid = clock]
       \/ payment' = [payment EXCEPT ![s].state = "completed"]
    /\ UNCHANGED <<settings, wallet, sending, credited, credit, todo, swept, clock,
                   deliveries, faults>>

PayLate(s) ==
    /\ payment[s].state = "completed"
    /\ payment' = [payment EXCEPT ![s].state = "paid", ![s].paid = clock]
    /\ UNCHANGED <<settings, wallet, sending, credited, credit, todo, swept, clock,
                   deliveries, faults>>

-----------------------------------------------------------------------------
(* creditWalletFromRecharge *)

\* The row is locked first; then the ledger is searched.  Mutant: no lock.
MutantMayBegin == TRUE
MayBegin == RowIsFree

Begin(h, s) ==
    /\ MayBegin /\ lock' = h
    /\ credit' = [credit EXCEPT ![h] = [session |-> s, base |-> balance, found |-> s \in credited]]

CreditCommit(h) ==
    /\ credit[h] # Idle
    /\ LET s == credit[h].session IN
       IF credit[h].found
       THEN UNCHANGED <<balance, credited>>
       ELSE /\ balance' = credit[h].base + Amount
            /\ credited' = credited \cup {s}
    /\ credit' = [credit EXCEPT ![h] = Idle]
    /\ lock' = IF lock = h THEN Null ELSE lock
    /\ UNCHANGED <<settings, sending, payment, todo, swept, clock, deliveries, faults>>

\* The transaction rolls back; the request fails, the job goes on with the next one.
CreditFails(h) ==
    /\ credit[h] # Idle /\ Fault
    /\ credit' = [credit EXCEPT ![h] = Idle]
    /\ lock' = IF lock = h THEN Null ELSE lock
    /\ UNCHANGED <<settings, balance, sending, credited, payment, todo, swept, clock, deliveries>>

\* checkout.session.completed, delivered as often as Stripe likes, or never.
Webhook(h, s) ==
    /\ payment[s].hooked
    /\ credit[h] = Idle
    /\ deliveries < MaxDeliveries /\ deliveries' = deliveries + 1
    /\ Begin(h, s)
    /\ UNCHANGED <<settings, balance, sending, credited, payment, todo, swept, clock, faults>>

-----------------------------------------------------------------------------
(* reconcileRechargeSessions *)

\* Mutant: only sessions of the last period are listed.
MutantListed(s) == payment[s].state = "paid" /\ clock - payment[s].opened <= 0
Listed(s) == payment[s].state = "paid" /\ clock - payment[s].opened <= Lookback

JobScan ==
    /\ ~swept /\ swept' = TRUE
    /\ todo' = {s \in Sessions : Listed(s)}
    /\ UNCHANGED <<settings, wallet, sending, credited, payment, credit, clock, deliveries, faults>>

JobCredit(s) ==
    /\ s \in todo /\ credit[Job] = Idle
    /\ Begin(Job, s)
    /\ todo' = todo \ {s}
    /\ UNCHANGED <<settings, balance, sending, credited, payment, swept, clock, deliveries, faults>>

\* Stripe does not answer, there is no leader, or the worker dies.
JobFails ==
    /\ ~swept \/ todo # {}
    /\ Fault
    /\ swept' = TRUE /\ todo' = {}
    /\ UNCHANGED <<settings, wallet, sending, credited, payment, credit, clock, deliveries>>

\* The next period: the job of the last one is over.
NextPeriod ==
    /\ clock < Horizon /\ clock' = clock + 1
    /\ swept /\ todo = {} /\ credit[Job] = Idle
    /\ swept' = FALSE
    /\ UNCHANGED <<settings, wallet, sending, credited, payment, credit, todo, deliveries, faults>>

-----------------------------------------------------------------------------
Next ==
    \/ \E m \in Messages :
          \/ Skip(m) \/ Gate(m) \/ Reserve(m) \/ ReserveFails(m) \/ SendOk(m) \/ SendFails(m)
          \/ Refund(m) \/ Settle(m) \/ SenderDies(m)
    \/ \E s \in Sessions : Checkout(s) \/ Complete(s) \/ PayLate(s) \/ JobCredit(s)
    \/ \E h \in Hooks, s \in Sessions : Webhook(h, s)
    \/ \E h \in Handlers : CreditCommit(h) \/ CreditFails(h)
    \/ JobScan \/ JobFails \/ NextPeriod

Spec == Init /\ [][Next]_vars

-----------------------------------------------------------------------------
(* Properties *)

Recharged == Amount * Cardinality(credited)
Held      == [m \in Messages |-> attempt[m].held]

\* "The communicationLog is the ledger" (debitWallet): the balance is what its recharge
\* rows brought in, less what its messages were billed and what is reserved for them.  No
\* debit, credit or recharge is lost; a refund that fails loses one reservation at most.
Dearest(c) == \A d \in DOMAIN Estimate : Estimate[d] <= Estimate[c]
LogIsLedger ==
    LET short == Opening + Recharged - billed - SumFunctionOnSet(Held, Messages) - balance
    IN  /\ short >= 0 /\ (faults = 0 => short = 0)
        /\ \A c \in DOMAIN Estimate : Dearest(c) => short <= faults * Estimate[c]

\* "A crash between send and debit can never produce an unbilled paid send" (attemptChannel):
\* where a wallet is required, the balance never holds more than was paid in less the
\* cheapest bill of every message the provider has taken, whatever fails.
Cheapest == [a \in Messages \X DOMAIN Estimate |->
                LET costs == Actual[a[2]] \cup {Estimate[a[2]]}
                IN  CHOOSE c \in costs : \A d \in costs : c <= d]
NoUnbilledSend ==
    required => balance <= Opening + Recharged - SumFunctionOnSet(Cheapest, accepted)

\* A tenant that did not opt in owes no more than the segments that exceeded an estimate,
\* also when two messages pass the gate with a balance for one (debitWallet).
NoOverdraft == ~overdraft => balance >= -extra

\* A recharge paid while the job still had more runs to find it than there were failures
\* is in the wallet when it leaves the job's window, with or without its webhook.
PaidInTime(s) == payment[s].state = "paid"
                 /\ payment[s].paid - payment[s].opened + faults < Lookback
RechargeArrives ==
    \A s \in Sessions : PaidInTime(s) /\ clock - payment[s].opened > Lookback => s \in credited

\* "Negative balance is allowed only for CRITICAL sends AND when the tenant opted in"
\* (attemptChannel): a reservation for any other message leaves the balance at 0 or more.
\* It does not hold: README, section 6.
OnlyCriticalOverdraws ==
    [][\A m \in Messages \ Critical :
          attempt'[m].held > attempt[m].held => balance' >= 0]_vars
=============================================================================
