--------------------------- MODULE RazorpayBilling ---------------------------
(***************************************************************************)
(* Razorpay billing of one company with one local subscription row:        *)
(* the webhook endpoint (app/payments/webhooks/router.py), its event       *)
(* claims (app/payments/billing_extras.py), the invoice ledger             *)
(* (invoices/repository.py), the browser's verify call, cancellation and   *)
(* the hourly reconciliation (subscriptions/service.py).                   *)
(*                                                                         *)
(* A handler is one webhook or verify request with its own database        *)
(* session; each of its steps is one commit, and any other request, a      *)
(* crash or a failure may come between two of them. Razorpay itself is     *)
(* external: it is modelled by the events it sends.                        *)
(***************************************************************************)
EXTENDS Integers, FiniteSets

CONSTANTS
    Handlers,       \* requests being served at the same time
    MaxCycles,      \* bound: billing cycles of the subscription
    OrderPays,      \* payments of one-time orders
    Reported,       \* cycles whose payment is reported as captured, like
                    \* any other, besides being charged
    NoPay,          \* "no payment" / "no order"
    NoEvent,        \* a handler with nothing to do
    BodyEventIds,   \* does the webhook body carry "event_id"?
    FaultKinds,     \* bound: which of crash, raise, claim, cancel may happen
    MaxFaults       \* bound: how many of them

Cycles   == 1..MaxCycles
Payments == Cycles \cup OrderPays    \* cycle c is paid by payment c

(* An event is named by its type and the cycle or the payment it is about.  *)
SubscriptionTypes == {"activated", "charged", "pending", "halted", "cancelled"}
Event  == [type : SubscriptionTypes, ref : Cycles]
            \cup [type : {"captured"}, ref : Payments]
Verify == [type : {"verify"}, ref : OrderPays]

ASSUME BillingAssumption ==
    /\ MaxCycles \in Nat \ {0} /\ MaxFaults \in Nat
    /\ BodyEventIds \in BOOLEAN /\ Reported \subseteq Cycles
    /\ OrderPays \cap Int = {} /\ NoPay \notin Payments
    /\ NoEvent \notin Event \cup Verify

VARIABLES
    remote,     \* the subscription at Razorpay: status, cycles paid, ending
    orders,     \* one-time orders: none, created, paid
    emitted,    \* events Razorpay has sent at least once
    acked,      \* events answered 200
    claimed,    \* event ids with a billing_webhook_events row
    processed,  \* those whose row says processed
    row,        \* the subscriptions row
    plan,       \* companies.plan: free or paid
    balance,    \* companies.credits_balance, in grants
    invoices,   \* payments with an invoice (unique index)
    pc, ev,     \* each handler's next step and its event
    fresh,      \* did this handler create the invoice ("created")?
    seen,       \* the balance it read
    rec,        \* reconcile_razorpay_subscriptions: step and fetched status
    faults,     \* faults so far
    granted,    \* history: credit grants per payment
    applied,    \* history: events some handler carried out to the end
    swallowed,  \* history: events whose claim, plan sync or grant failed
                \* and which were answered 200 all the same
    dropped     \* history: payments whose handler died or failed between
                \* the new invoice and the grant

provider == <<remote, orders, emitted>>
claims   == <<claimed, processed>>
company  == <<plan, balance>>
handler  == <<pc, ev, fresh, seen>>
history  == <<granted, applied, swallowed, dropped>>
vars     == <<provider, acked, claims, row, company, invoices, handler, rec,
              faults, history>>

RemoteStatus == {"created", "active", "pending", "halted", "cancelled"}
RowStatus    == {"INCOMPLETE", "ACTIVE", "PAST_DUE", "UNPAID", "CANCELLED"}
Live         == {"ACTIVE", "PAST_DUE"}       \* _ACTIVE_STATUSES
Steps        == {"idle", "insert", "row", "invoice", "sync", "grantRead",
                 "grantWrite", "downgrade", "mark", "logged", "fail"}

RecIdle == [at |-> "idle", status |-> "created", cycle |-> 0]

Init ==
    /\ remote = [status |-> "created", cycle |-> 0, ending |-> FALSE]
    /\ orders = [p \in OrderPays |-> "none"]
    /\ emitted = {} /\ acked = {} /\ claimed = {} /\ processed = {}
    /\ row = [status |-> "INCOMPLETE", period |-> 0, ending |-> FALSE,
              payment |-> NoPay, order |-> NoPay]
    /\ plan = "free" /\ balance = 0
    /\ invoices = {}
    /\ pc = [h \in Handlers |-> "idle"]
    /\ ev = [h \in Handlers |-> NoEvent]
    /\ fresh = [h \in Handlers |-> FALSE]
    /\ seen = [h \in Handlers |-> 0]
    /\ rec = RecIdle
    /\ faults = 0
    /\ granted = [p \in Payments |-> 0]
    /\ applied = {} /\ swallowed = {} /\ dropped = {}

Fault(kind) == kind \in FaultKinds /\ faults < MaxFaults /\ faults' = faults + 1
NoFault     == UNCHANGED faults

-----------------------------------------------------------------------------
(* Razorpay (external). A cycle ends with a charge, a failed charge or the  *)
(* scheduled cancellation; retries of a failed charge succeed or give up.   *)

Emit(types, c) == emitted' = emitted \cup {[type |-> t, ref |-> c] : t \in types}

Charges(c) == {"charged"} \cup {t \in {"captured"} : c \in Reported}

RemoteActivate ==
    /\ remote.status = "created"
    /\ remote' = [remote EXCEPT !.status = "active", !.cycle = 1]
    /\ Emit({"activated"} \cup Charges(1), 1)
    /\ UNCHANGED orders

(* The next cycle's charge goes through, at once or after a failure.        *)
RemoteCharge ==
    /\ remote.status \in {"active", "pending"} /\ remote.cycle < MaxCycles
    /\ remote.status = "active" => ~remote.ending
    /\ remote' = [remote EXCEPT !.status = "active", !.cycle = @ + 1]
    /\ Emit(Charges(remote.cycle + 1), remote.cycle + 1)
    /\ UNCHANGED orders

RemoteDecline ==
    /\ remote.status = "active" /\ ~remote.ending
    /\ remote' = [remote EXCEPT !.status = "pending"]
    /\ Emit({"pending"}, remote.cycle)
    /\ UNCHANGED orders

RemoteHalt ==
    /\ remote.status = "pending"
    /\ remote' = [remote EXCEPT !.status = "halted"]
    /\ Emit({"halted"}, remote.cycle)
    /\ UNCHANGED orders

RemoteCancel ==
    /\ remote.status = "active" /\ remote.ending
    /\ remote' = [remote EXCEPT !.status = "cancelled"]
    /\ Emit({"cancelled"}, remote.cycle)
    /\ UNCHANGED orders

PayOrder(p) ==
    /\ orders[p] = "created"
    /\ orders' = [orders EXCEPT ![p] = "paid"]
    /\ Emit({"captured"}, p)
    /\ UNCHANGED remote

Razorpay ==
    /\ \/ RemoteActivate \/ RemoteCharge \/ RemoteDecline
       \/ RemoteHalt \/ RemoteCancel
       \/ \E p \in OrderPays : PayOrder(p)
    /\ UNCHANGED <<acked, claims, row, company, invoices, handler, rec, faults,
                   history>>

-----------------------------------------------------------------------------
(* The customer: create_razorpay_order on the existing row, and             *)
(* cancel_subscription, which swallows a failed call to Razorpay.           *)

CreateOrder(p) ==
    /\ orders[p] = "none" /\ row.status \in Live \cup {"INCOMPLETE"}
    /\ orders' = [orders EXCEPT ![p] = "created"]
    /\ row' = [row EXCEPT !.payment = p, !.order = p]
    /\ UNCHANGED <<remote, emitted, acked, claims, company, invoices, handler,
                   rec, faults, history>>

CancelSubscription ==
    /\ row.status \in Live
    /\ \/ NoFault         /\ remote' = [remote EXCEPT !.ending = TRUE]
       \/ Fault("cancel") /\ UNCHANGED remote
    /\ row' = [row EXCEPT !.ending = TRUE]
    /\ UNCHANGED <<orders, emitted, acked, claims, company, invoices, handler,
                   rec, history>>

-----------------------------------------------------------------------------
(* A webhook request: claim, work, mark.                                    *)

(* Mutant: the claim is keyed by the event's type and subject even when the *)
(* provider says two events are distinct.                                   *)
CoarseKey(e) ==
    IF e.type \in {"charged", "captured"} THEN [type |-> "payment", ref |-> e.ref]
    ELSE [type |-> "subscription", ref |-> 0]

(* event_id, or the payment's id, or the subscription's id.                 *)
Key(e) ==
    IF BodyEventIds THEN e
    ELSE IF e.type \in {"charged", "captured"} THEN [type |-> "payment", ref |-> e.ref]
    ELSE [type |-> "subscription", ref |-> 0]

Goto(h, step) == pc' = [pc EXCEPT ![h] = step]

Done(h) ==
    /\ Goto(h, "idle")
    /\ ev' = [ev EXCEPT ![h] = NoEvent]
    /\ fresh' = [fresh EXCEPT ![h] = FALSE]
    /\ seen' = [seen EXCEPT ![h] = 0]

(* claim_webhook_event, first half: a processed event is acknowledged, an   *)
(* unprocessed claim is taken over (no lock), a new one will be inserted.   *)
Receive(h, e) ==
    /\ pc[h] = "idle" /\ e \in emitted
    /\ IF Key(e) \in processed
       THEN acked' = acked \cup {e} /\ UNCHANGED <<pc, ev>>
       ELSE /\ Goto(h, IF Key(e) \in claimed THEN "row" ELSE "insert")
            /\ ev' = [ev EXCEPT ![h] = e]
            /\ UNCHANGED acked
    /\ UNCHANGED <<provider, claims, row, company, invoices, fresh, seen, rec,
                   faults, history>>

(* Second half: the unique constraint lets one insert through. The loser,   *)
(* and an insert that fails for any other reason, answer "duplicate" (200). *)
InsertClaim(h) ==
    /\ pc[h] = "insert"
    /\ \/ /\ Key(ev[h]) \notin claimed /\ NoFault
          /\ claimed' = claimed \cup {Key(ev[h])}
          /\ Goto(h, "row") /\ UNCHANGED <<acked, ev, fresh, seen, swallowed>>
       \/ /\ \/ Key(ev[h]) \in claimed /\ NoFault /\ UNCHANGED swallowed
             \/ Key(ev[h]) \notin claimed /\ Fault("claim")
                /\ swallowed' = swallowed \cup {ev[h]}
          /\ acked' = acked \cup {ev[h]}
          /\ Done(h) /\ UNCHANGED claimed
    /\ UNCHANGED <<provider, processed, row, company, invoices, rec, granted,
                   applied, dropped>>

(* verify_razorpay_payment: a payment already invoiced is answered at once; *)
(* otherwise its order must still be the row's.                             *)
StartVerify(h, p) ==
    /\ pc[h] = "idle" /\ orders[p] = "paid"
    /\ p \notin invoices /\ p \in {row.payment, row.order}
    /\ Goto(h, "row")
    /\ ev' = [ev EXCEPT ![h] = [type |-> "verify", ref |-> p]]
    /\ UNCHANGED <<provider, acked, claims, row, company, invoices, fresh, seen,
                   rec, faults, history>>

(* A payment of the subscription may come without the notes that name the   *)
(* company; nothing is done for it then.                                    *)
Unnamed(e) == e.type = "captured" /\ e.ref \in Cycles

(* The subscriptions row each event writes, and the step that follows.      *)
Activated(r)  == [r EXCEPT !.status = "ACTIVE"]

(* Mutant: the period recorded is the next one.                             *)
ChargedNext(r, c) ==
    [r EXCEPT !.status = "ACTIVE", !.period = c + 1, !.payment = NoPay]

Charged(r, c) == [r EXCEPT !.status = "ACTIVE", !.period = c, !.payment = NoPay]
Pending(r)    == [r EXCEPT !.status = "PAST_DUE"]
Halted(r)     == [r EXCEPT !.status = "UNPAID"]
Cancelled(r)  == [r EXCEPT !.status = "CANCELLED", !.ending = FALSE]
Paid(r)       == [r EXCEPT !.status = "ACTIVE", !.payment = NoPay]

UpdateRow(h) ==
    /\ pc[h] = "row"
    /\ LET e == ev[h] IN
       \/ /\ e.type = "activated"
          /\ \E c \in {row.period, e.ref} : row' = [Activated(row) EXCEPT !.period = c]
          /\ Goto(h, "sync")
       \/ e.type = "charged"   /\ row' = Charged(row, e.ref) /\ Goto(h, "invoice")
       \/ e.type = "pending"   /\ row' = Pending(row)        /\ Goto(h, "mark")
       \/ e.type = "halted"    /\ row' = Halted(row)         /\ Goto(h, "downgrade")
       \/ e.type = "cancelled" /\ row' = Cancelled(row)      /\ Goto(h, "downgrade")
       \/ e.type = "verify"    /\ row' = Paid(row)           /\ Goto(h, "invoice")
       \/ /\ e.type = "captured"
          /\ IF row.status \in Live \/ row.payment = e.ref
             THEN row' = Paid(row) /\ Goto(h, "invoice")
             ELSE UNCHANGED row /\ Goto(h, "mark")
       \/ Unnamed(e) /\ UNCHANGED row /\ Goto(h, "mark")
    /\ UNCHANGED <<provider, acked, claims, company, invoices, ev, fresh, seen,
                   rec, faults, history>>

(* Mutants: the result of the insert is read as "an invoice exists"; the    *)
(* insert is rolled back.                                                   *)
CreatedMeansExists(p) == p \in invoices
InvoiceRolledBack(p) == invoices

(* create_idempotent_by_payment_id returns (invoice, created).              *)
Created(p) == p \notin invoices
WithInvoice(p) == invoices \cup {p}

CreateInvoice(h) ==
    /\ pc[h] = "invoice"
    /\ LET p == ev[h].ref IN
         /\ invoices' = WithInvoice(p)
         /\ fresh' = [fresh EXCEPT ![h] = Created(p)]
         /\ Goto(h, IF Created(p) \/ ev[h].type = "charged" THEN "sync" ELSE "mark")
    /\ UNCHANGED <<provider, acked, claims, row, company, ev, seen, rec, faults,
                   history>>

(* _sync_company_plan_metadata                                              *)
SyncPlan(h) ==
    /\ pc[h] = "sync"
    /\ plan' = "paid"
    /\ Goto(h, IF fresh[h] THEN "grantRead" ELSE "mark")
    /\ UNCHANGED <<provider, acked, claims, row, balance, invoices, ev, fresh,
                   seen, rec, faults, history>>

(* _grant_plan_credits reads the balance, without a lock, and writes the    *)
(* sum.                                                                     *)
GrantRead(h) ==
    /\ pc[h] = "grantRead"
    /\ seen' = [seen EXCEPT ![h] = balance]
    /\ Goto(h, "grantWrite")
    /\ UNCHANGED <<provider, acked, claims, row, company, invoices, ev, fresh,
                   rec, faults, history>>

GrantWrite(h) ==
    /\ pc[h] = "grantWrite"
    /\ balance' = seen[h] + 1
    /\ granted' = [granted EXCEPT ![ev[h].ref] = @ + 1]
    /\ fresh' = [fresh EXCEPT ![h] = FALSE]
    /\ Goto(h, "mark")
    /\ UNCHANGED <<provider, acked, claims, row, plan, invoices, ev, seen, rec,
                   faults, applied, swallowed, dropped>>

(* _downgrade_to_free                                                       *)
Downgrade(h) ==
    /\ pc[h] = "downgrade"
    /\ plan' = "free"
    /\ Goto(h, "mark")
    /\ UNCHANGED <<provider, acked, claims, row, balance, invoices, ev, fresh,
                   seen, rec, faults, history>>

(* mark_webhook_processed and the 200, also after a failure that was only   *)
(* logged. A verify call just returns.                                      *)
MarkProcessed(h) ==
    /\ pc[h] \in {"mark", "logged"}
    /\ IF ev[h] \in Verify
       THEN UNCHANGED <<acked, processed, applied>>
       ELSE /\ processed' = processed \cup {Key(ev[h])}
            /\ acked' = acked \cup {ev[h]}
            /\ applied' = IF pc[h] = "mark" THEN applied \cup {ev[h]} ELSE applied
    /\ Done(h)
    /\ UNCHANGED <<provider, claimed, row, company, invoices, rec, faults, granted,
                   swallowed, dropped>>

(* A request that stops with a new invoice leaves its payment uncredited:   *)
(* whoever comes next finds the invoice.                                    *)
Drop(h) == dropped' = IF fresh[h] THEN dropped \cup {ev[h].ref} ELSE dropped

(* Errors of the plan sync and of the grant are logged, in a webhook, and   *)
(* the event is marked processed.                                           *)
Swallow(h) ==
    /\ pc[h] \in {"sync", "grantRead", "grantWrite"} /\ ev[h] \notin Verify
    /\ swallowed' = swallowed \cup {ev[h]}
    /\ fresh' = [fresh EXCEPT ![h] = FALSE]
    /\ Goto(h, "logged")
    /\ UNCHANGED <<ev, seen>>

(* In a verify call, and in every other step of a webhook, a step that      *)
(* raises fails the request.                                                *)
Abort(h) ==
    /\ \/ ev[h] \in Verify /\ Done(h)
       \/ /\ ev[h] \notin Verify
          /\ pc[h] \notin {"sync", "grantRead", "grantWrite"}
          /\ Goto(h, "fail") /\ UNCHANGED <<ev, fresh, seen>>
    /\ UNCHANGED swallowed

StepRaises(h) ==
    /\ pc[h] \in {"row", "invoice", "sync", "grantRead", "grantWrite",
                  "downgrade", "mark", "logged"}
    /\ Fault("raise")
    /\ Swallow(h) \/ Abort(h)
    /\ Drop(h)
    /\ UNCHANGED <<provider, acked, claims, row, company, invoices, rec,
                   granted, applied>>

(* mark_webhook_failed reopens the claim, even one another request has      *)
(* meanwhile finished; the 500 makes Razorpay send the event again. On a    *)
(* broken session the write is lost.                                        *)
MarkFailed(h) ==
    /\ pc[h] = "fail"
    /\ \/ processed' = processed \ {Key(ev[h])}
       \/ UNCHANGED processed
    /\ Done(h)
    /\ UNCHANGED <<provider, acked, claimed, row, company, invoices, rec, faults,
                   history>>

HandlerCrash(h) ==
    /\ pc[h] # "idle" /\ Fault("crash")
    /\ Done(h) /\ Drop(h)
    /\ UNCHANGED <<provider, acked, claims, row, company, invoices, rec,
                   granted, applied, swallowed>>

-----------------------------------------------------------------------------
(* reconcile_razorpay_subscriptions: select the lapsed row, fetch the       *)
(* subscription, write what it says.                                        *)

(* Cycles that are over: while Razorpay is active the last paid one runs.   *)
Ended == IF remote.status = "active" THEN remote.cycle - 1 ELSE remote.cycle

RecSelect ==
    /\ rec.at = "idle"
    /\ row.status \in Live /\ row.period # 0 /\ row.period <= Ended
    /\ rec' = [rec EXCEPT !.at = "fetch"]
    /\ UNCHANGED <<provider, acked, claims, row, company, invoices, handler,
                   faults, history>>

RecFetch ==
    /\ rec.at = "fetch"
    /\ rec' = [at |-> "apply", status |-> remote.status, cycle |-> remote.cycle]
    /\ UNCHANGED <<provider, acked, claims, row, company, invoices, handler,
                   faults, history>>

(* Mutants: a subscription Razorpay is still trying to charge is given up;  *)
(* a cancelled one is not.                                                  *)
EagerDead == {"pending", "halted", "cancelled"}
HaltedOnly == {"halted"}

(* The remote statuses on which the company is downgraded; "cancelled"      *)
(* stands for "completed" and "expired" too.                                *)
DeadStatuses == {"halted", "cancelled"}

RecApply ==
    /\ rec.at = "apply"
    /\ row' = [row EXCEPT
                 !.status = IF rec.status = "active" THEN "ACTIVE"
                            ELSE IF rec.status = "cancelled" THEN "CANCELLED"
                            ELSE IF rec.status \in DeadStatuses THEN "UNPAID"
                            ELSE IF rec.status = "pending" THEN "PAST_DUE" ELSE @,
                 !.period = IF rec.status = "active" THEN rec.cycle ELSE @]
    /\ rec' = IF rec.status \in DeadStatuses
              THEN [RecIdle EXCEPT !.at = "downgrade"] ELSE RecIdle
    /\ UNCHANGED <<provider, acked, claims, company, invoices, handler, faults,
                   history>>

RecDowngrade ==
    /\ rec.at = "downgrade"
    /\ plan' = "free"
    /\ rec' = RecIdle
    /\ UNCHANGED <<provider, acked, claims, row, balance, invoices, handler,
                   faults, history>>

(* The fetch fails, or the scheduler dies: the next tick starts over.       *)
RecCrash ==
    /\ rec.at # "idle" /\ Fault("crash")
    /\ rec' = RecIdle
    /\ UNCHANGED <<provider, acked, claims, row, company, invoices, handler,
                   history>>

-----------------------------------------------------------------------------
Work(h) ==
    \/ InsertClaim(h) \/ UpdateRow(h) \/ CreateInvoice(h) \/ SyncPlan(h)
    \/ GrantRead(h) \/ GrantWrite(h) \/ Downgrade(h)
    \/ MarkProcessed(h) \/ MarkFailed(h)

Reconcile == RecSelect \/ RecFetch \/ RecApply \/ RecDowngrade

Next ==
    \/ Razorpay \/ CancelSubscription
    \/ \E p \in OrderPays : CreateOrder(p)
    \/ \E h \in Handlers :
         \/ \E e \in emitted : Receive(h, e)
         \/ \E p \in OrderPays : StartVerify(h, p)
         \/ Work(h) \/ StepRaises(h) \/ HandlerCrash(h)
    \/ Reconcile \/ RecCrash

Spec == Init /\ [][Next]_vars

(* A request runs to its end, Razorpay sends a charge again until it is     *)
(* answered 200 (nothing is assumed of its other events), and the scheduler *)
(* ticks.                                                                   *)
Fairness ==
    /\ \A h \in Handlers : WF_vars(Work(h))
    /\ \A e \in Event : e.type = "charged" =>
         SF_vars(\E h \in Handlers : e \notin acked /\ Receive(h, e))
    /\ WF_vars(Reconcile)

FairSpec == Spec /\ Fairness

-----------------------------------------------------------------------------
(* Properties                                                               *)

Row == [status : RowStatus, period : 0..MaxCycles, ending : BOOLEAN,
        payment : OrderPays \cup {NoPay}, order : OrderPays \cup {NoPay}]

Keys == Event \cup [type : {"payment"}, ref : Payments]
              \cup [type : {"subscription"}, ref : {0}]

TypeOK ==
    /\ remote \in [status : RemoteStatus, cycle : 0..MaxCycles, ending : BOOLEAN]
    /\ orders \in [OrderPays -> {"none", "created", "paid"}]
    /\ emitted \subseteq Event /\ acked \subseteq Event /\ applied \subseteq Event
    /\ swallowed \subseteq Event /\ dropped \subseteq Payments
    /\ claimed \subseteq Keys /\ processed \subseteq Keys
    /\ row \in Row
    /\ plan \in {"free", "paid"}
    /\ balance \in Nat /\ faults \in Nat
    /\ invoices \subseteq Payments
    /\ pc \in [Handlers -> Steps]
    /\ ev \in [Handlers -> Event \cup Verify \cup {NoEvent}]
    /\ fresh \in [Handlers -> BOOLEAN]
    /\ seen \in [Handlers -> Nat]
    /\ rec \in [at : {"idle", "fetch", "apply", "downgrade"},
                status : RemoteStatus, cycle : 0..MaxCycles]
    /\ granted \in [Payments -> Nat]

Quiet == \A h \in Handlers : pc[h] = "idle"

(* One payment grants its credits at most once, whoever handles it: a       *)
(* webhook, its retry, a concurrent duplicate or the browser's verify call. *)
GrantedOnce == \A p \in Payments : granted[p] <= 1

(* The requests implement the ledger: invoiced once, credited once, and the *)
(* credit only after the invoice.                                           *)
Ledger == INSTANCE PaymentLedger WITH invoiced <- invoices, credits <- granted

LedgerRefined == Ledger!Spec

(* Carried out to the end; for a charge that includes the credits, unless   *)
(* the request that invoiced it stopped before its grant.                   *)
CarriedOut(e) ==
    /\ e \in applied
    /\ e.type = "charged" => granted[e.ref] = 1 \/ e.ref \in dropped

(* An event answered 200 has been carried out, once no request is at work,  *)
(* or the failure of its claim, plan sync or grant was swallowed: Razorpay  *)
(* will not send it again.                                                  *)
AckedIsApplied ==
    Quiet => \A e \in acked : CarriedOut(e) \/ e \in swallowed

(* The company loses its plan only when Razorpay has halted or cancelled    *)
(* the subscription: never while a failed charge is still being retried.    *)
DowngradeIsFinal ==
    [][plan = "paid" /\ plan' = "free" =>
          remote.status \in {"halted", "cancelled"}]_vars

(* Without ids of their own, a payment's two events share one claim: when   *)
(* captured comes first and is carried out, charged is a duplicate.         *)
Shadowed(c) == ~BodyEventIds /\ [type |-> "captured", ref |-> c] \in applied

(* Every charge of the subscription ends up granting its credits, unless it *)
(* was answered as a duplicate of its payment's captured event, or a failure*)
(* was swallowed.                                                           *)
EveryChargeCredited ==
    \A c \in Cycles :
        LET e == [type |-> "charged", ref |-> c]
        IN  e \in emitted ~>
                \/ granted[c] = 1
                \/ e \in acked /\ (e \in swallowed \/ Shadowed(c))

(* A webhook that was dropped is made good: a subscription that has ended    *)
(* at Razorpay while the row still calls a charged cycle live loses the     *)
(* paid plan, through reconciliation if nothing else.                       *)
DroppedIsRepaired ==
    (remote.status \in {"halted", "cancelled"} /\ row.status \in Live /\ row.period # 0)
        ~> plan = "free"

(* _grant_plan_credits "must run exactly once per payment"                  *)
(* (docs/billing/razorpay-recurring.md:81-82): a charge whose event is      *)
(* marked processed has granted its credits.                                *)
ProcessedIsCredited ==
    Quiet => \A c \in Cycles :
                Key([type |-> "charged", ref |-> c]) \in processed => granted[c] = 1
=============================================================================
