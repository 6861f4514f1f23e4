----------------------- MODULE RazorpayBilling_proofs -----------------------
(* Proofs about RazorpayBilling, for every set of handlers and one-time     *)
(* orders, every number of cycles and faults, with and without event ids.   *)
EXTENDS RazorpayBilling, TLAPS

(* Razorpay's final word on a subscription.                                 *)
Over == {"halted", "cancelled"}

(* A handler at work holds an event Razorpay has sent, or a verify call,    *)
(* which makes no claim.                                                    *)
InHand ==
    \A h \in Handlers :
        /\ pc[h] # "idle" => ev[h] \in emitted \cup Verify
        /\ pc[h] = "insert" => ev[h] \in emitted

(* What events and their claim keys look like.                              *)
LEMMA EventFacts ==
    ASSUME NEW e \in Event \cup Verify
    PROVE  /\ e.ref \in Payments /\ e # NoEvent
           /\ e.type \in {"activated", "charged"} => e.ref \in Cycles
           /\ e \in Verify => e.type = "verify" /\ e.ref \in OrderPays
           /\ e \in Event => e.type # "verify"
           /\ e.type = "captured" => e.ref \in Payments
  BY BillingAssumption DEF Event, Verify, Payments, SubscriptionTypes

LEMMA KeyType ==
    ASSUME NEW e \in Event
    PROVE  Key(e) \in Keys
<1>1. e.ref \in Payments
  BY EventFacts
<1> QED
  BY <1>1 DEF Key, Keys

(* The row's updates keep it well formed.                                   *)
LEMMA RowUpdates ==
    ASSUME NEW r \in Row, NEW c \in 0..MaxCycles
    PROVE  /\ [Activated(r) EXCEPT !.period = c] \in Row
           /\ Charged(r, c) \in Row /\ Pending(r) \in Row /\ Halted(r) \in Row
           /\ Cancelled(r) \in Row /\ Paid(r) \in Row
  BY DEF Row, RowStatus, Activated, Charged, Pending, Halted, Cancelled, Paid

LEMMA CycleRange == Cycles \subseteq 0..MaxCycles /\ Cycles \subseteq Payments
  BY BillingAssumption DEF Cycles, Payments

(* Emitting well-formed events.                                             *)
LEMMA EmitType ==
    ASSUME emitted \subseteq Event,
           NEW T, NEW c, Emit(T, c),
           \/ T \subseteq SubscriptionTypes \cup {"captured"} /\ c \in Cycles
           \/ T = {"captured"} /\ c \in OrderPays
    PROVE  emitted' \subseteq Event /\ emitted \subseteq emitted'
  BY DEF Emit, Event, Payments

LEMMA ChargeTypes == \A c : Charges(c) \subseteq SubscriptionTypes \cup {"captured"}
  BY DEF Charges, SubscriptionTypes

-----------------------------------------------------------------------------
(* Typing                                                                   *)

(* The handlers' part of the state.                                         *)
HandlerType ==
    /\ pc \in [Handlers -> Steps]
    /\ ev \in [Handlers -> Event \cup Verify \cup {NoEvent}]
    /\ fresh \in [Handlers -> BOOLEAN]
    /\ seen \in [Handlers -> Nat]
    /\ InHand

LEMMA DoneType ==
    ASSUME HandlerType, emitted' = emitted, NEW h \in Handlers, Done(h)
    PROVE  HandlerType'
  BY DEF HandlerType, InHand, Done, Goto, Steps

LEMMA GotoType ==
    ASSUME HandlerType, emitted' = emitted, NEW h \in Handlers,
           NEW s \in Steps \ {"insert"}, Goto(h, s), pc[h] # "idle",
           UNCHANGED ev,
           fresh' \in [Handlers -> BOOLEAN], seen' \in [Handlers -> Nat]
    PROVE  HandlerType'
  BY DEF HandlerType, InHand, Goto

(* A handler that begins.                                                   *)
LEMMA StartType ==
    ASSUME HandlerType, emitted' = emitted, emitted \subseteq Event,
           NEW h \in Handlers, NEW s \in Steps, Goto(h, s),
           NEW e \in emitted \cup Verify, s = "insert" => e \in emitted, ev' = [ev EXCEPT ![h] = e],
           UNCHANGED <<fresh, seen>>
    PROVE  HandlerType'
  BY DEF HandlerType, InHand, Goto

(* Razorpay's part of the state.                                            *)
ProviderType ==
    /\ remote \in [status : RemoteStatus, cycle : 0..MaxCycles, ending : BOOLEAN]
    /\ orders \in [OrderPays -> {"none", "created", "paid"}]
    /\ emitted \subseteq Event

(* Once Razorpay has moved, the cycle it has reached is a cycle.            *)
CycleReached == remote.status # "created" => remote.cycle \in Cycles

LEMMA RazorpayType ==
    ASSUME ProviderType, CycleReached, Razorpay
    PROVE  ProviderType' /\ CycleReached' /\ emitted \subseteq emitted'
<1> USE BillingAssumption
<1>1. CASE RemoteActivate
  <2>1. /\ 1 \in Cycles
        /\ {"activated"} \cup Charges(1) \subseteq SubscriptionTypes \cup {"captured"}
    BY ChargeTypes DEF Cycles, SubscriptionTypes
  <2>2. emitted' \subseteq Event /\ emitted \subseteq emitted'
    BY <1>1, <2>1, EmitType DEF RemoteActivate, ProviderType
  <2> QED
    BY <1>1, <2>1, <2>2, CycleRange DEF RemoteActivate, ProviderType, CycleReached, RemoteStatus
<1>2. CASE RemoteCharge
  <2>1. /\ remote.cycle + 1 \in Cycles
        /\ Charges(remote.cycle + 1) \subseteq SubscriptionTypes \cup {"captured"}
    BY <1>2, ChargeTypes DEF RemoteCharge, ProviderType, Cycles
  <2>2. emitted' \subseteq Event /\ emitted \subseteq emitted'
    BY <1>2, <2>1, EmitType DEF RemoteCharge, ProviderType
  <2> QED
    BY <1>2, <2>1, <2>2, CycleRange DEF RemoteCharge, ProviderType, CycleReached, RemoteStatus
<1>3. ASSUME NEW old \in RemoteStatus \ {"created"},
             NEW new \in {"pending", "halted", "cancelled"},
             remote.status = old, remote' = [remote EXCEPT !.status = new],
             Emit({new}, remote.cycle), UNCHANGED orders
      PROVE  ProviderType' /\ CycleReached' /\ emitted \subseteq emitted'
  <2>1. remote.cycle \in Cycles /\ {new} \subseteq SubscriptionTypes \cup {"captured"}
    BY <1>3 DEF CycleReached, SubscriptionTypes
  <2>2. emitted' \subseteq Event /\ emitted \subseteq emitted'
    BY <1>3, <2>1, EmitType DEF ProviderType
  <2> QED
    BY <1>3, <2>1, <2>2 DEF ProviderType, CycleReached, RemoteStatus
<1>4. CASE RemoteDecline \/ RemoteHalt \/ RemoteCancel
  BY <1>3, <1>4 DEF RemoteDecline, RemoteHalt, RemoteCancel, RemoteStatus
<1>5. ASSUME NEW p \in OrderPays, PayOrder(p)
      PROVE  ProviderType' /\ CycleReached' /\ emitted \subseteq emitted'
  <2>1. emitted' \subseteq Event /\ emitted \subseteq emitted'
    BY <1>5, EmitType DEF PayOrder, ProviderType
  <2> QED
    BY <1>5, <2>1 DEF PayOrder, ProviderType, CycleReached
<1> QED
  BY <1>1, <1>2, <1>4, <1>5 DEF Razorpay

(* What the company is charged, told and owed.                              *)
CompanyType ==
    /\ acked \subseteq Event /\ applied \subseteq Event
    /\ swallowed \subseteq Event /\ dropped \subseteq Payments
    /\ claimed \subseteq Keys /\ processed \subseteq Keys
    /\ row \in Row
    /\ plan \in {"free", "paid"}
    /\ balance \in Nat /\ faults \in Nat
    /\ invoices \subseteq Payments
    /\ rec \in [at : {"idle", "fetch", "apply", "downgrade"},
                status : RemoteStatus, cycle : 0..MaxCycles]
    /\ granted \in [Payments -> Nat]

Typed == ProviderType /\ CycleReached /\ HandlerType /\ CompanyType

LEMMA TypedIsTypeOK == Typed => TypeOK
  BY DEF Typed, ProviderType, HandlerType, CompanyType, TypeOK

LEMMA FaultType ==
    ASSUME faults \in Nat, NEW k, Fault(k) \/ NoFault
    PROVE  faults' \in Nat
  BY DEF Fault, NoFault

(* The event in a busy handler's hand, as the steps use it.                 *)
LEMMA Hand ==
    ASSUME Typed, NEW h \in Handlers, pc[h] # "idle"
    PROVE  /\ ev[h] \in Event \cup Verify
           /\ ev[h].ref \in Payments
           /\ ev[h] \notin Verify => ev[h] \in emitted /\ Key(ev[h]) \in Keys
<1>1. ev[h] \in emitted \cup Verify /\ emitted \subseteq Event
  BY DEF Typed, HandlerType, ProviderType, InHand
<1> QED
  BY <1>1, EventFacts, KeyType

(* A request's own steps keep everything in its type.                       *)
LEMMA WorkType ==
    ASSUME Typed, NEW h \in Handlers, Work(h) \/ StepRaises(h) \/ HandlerCrash(h)
    PROVE  Typed'
<1> USE DEF provider, claims, company, handler, history
<1>0. /\ UNCHANGED provider /\ pc[h] # "idle" /\ HandlerType /\ CompanyType
  <2>1. pc[h] # "idle" /\ UNCHANGED provider
    BY DEF Work, InsertClaim, UpdateRow, CreateInvoice, SyncPlan, GrantRead,
           GrantWrite, Downgrade, MarkProcessed, MarkFailed, StepRaises, HandlerCrash
  <2> QED
    BY <2>1 DEF Typed
<1>1. ProviderType' /\ CycleReached' /\ emitted' = emitted
  BY <1>0 DEF Typed, ProviderType, CycleReached
<1>2. /\ ev[h] \in Event \cup Verify /\ ev[h].ref \in Payments
      /\ ev[h] \notin Verify => ev[h] \in Event /\ Key(ev[h]) \in Keys
  BY <1>0, Hand DEF Typed, ProviderType
<1> SUFFICES HandlerType' /\ CompanyType'
  BY <1>1 DEF Typed
<1>3. {"row", "invoice", "sync", "grantRead", "grantWrite", "downgrade", "mark",
       "logged", "fail", "idle"} \subseteq Steps \ {"insert"}
  BY DEF Steps
<1>4. CASE InsertClaim(h)
  <2>1. ev[h] \in Event /\ Key(ev[h]) \in Keys
    BY <1>0, <1>4, KeyType DEF InsertClaim, HandlerType, InHand, Typed, ProviderType
  <2>2. HandlerType'
    <3>1. CASE Goto(h, "row") /\ UNCHANGED <<acked, ev, fresh, seen>>
      BY <3>1, <1>0, <1>1, <1>3, GotoType DEF HandlerType
    <3>2. CASE Done(h)
      BY <3>2, <1>0, <1>1, DoneType
    <3> QED
      BY <1>4, <3>1, <3>2 DEF InsertClaim
  <2>3. faults' \in Nat
    BY <1>4, <1>0, FaultType DEF InsertClaim, CompanyType
  <2>4. acked' \subseteq Event /\ claimed' \subseteq Keys /\ swallowed' \subseteq Event
    BY <1>4, <1>0, <2>1 DEF InsertClaim, CompanyType
  <2> QED
    BY <1>4, <1>0, <2>2, <2>3, <2>4 DEF InsertClaim, CompanyType
<1>5. CASE UpdateRow(h)
  <2>1. row' \in Row
    <3>1. row \in Row /\ row.period \in 0..MaxCycles
      BY <1>0 DEF CompanyType, Row
    <3>2. ev[h].type \in {"activated", "charged"} => ev[h].ref \in 0..MaxCycles
      BY <1>2, EventFacts, CycleRange
    <3>3. /\ Pending(row) \in Row /\ Halted(row) \in Row
          /\ Cancelled(row) \in Row /\ Paid(row) \in Row
      BY <3>1, RowUpdates
    <3>4. \A c \in {row.period, ev[h].ref} :
             ev[h].type = "activated" => [Activated(row) EXCEPT !.period = c] \in Row
      BY <3>1, <3>2, RowUpdates
    <3>5. ev[h].type = "charged" => Charged(row, ev[h].ref) \in Row
      BY <3>1, <3>2, RowUpdates
    <3> QED
      BY <1>5, <3>1, <3>3, <3>4, <3>5 DEF UpdateRow
  <2>2. \E s \in Steps \ {"insert"} : Goto(h, s)
    BY <1>5, <1>3 DEF UpdateRow
  <2>3. HandlerType'
    BY <1>5, <1>0, <1>1, <2>2, GotoType DEF UpdateRow, HandlerType
  <2> QED
    BY <1>5, <1>0, <2>1, <2>3 DEF UpdateRow, CompanyType
<1>6. CASE CreateInvoice(h)
  <2>1. fresh' \in [Handlers -> BOOLEAN] /\ invoices' \subseteq Payments
    BY <1>6, <1>0, <1>2 DEF CreateInvoice, Created, WithInvoice, HandlerType, CompanyType
  <2>2. \E s \in Steps \ {"insert"} : Goto(h, s)
    BY <1>6, <1>3 DEF CreateInvoice
  <2>3. HandlerType'
    BY <1>6, <1>0, <1>1, <2>1, <2>2, GotoType DEF CreateInvoice, HandlerType
  <2> QED
    BY <1>6, <1>0, <2>1, <2>3 DEF CreateInvoice, CompanyType
<1>7. CASE SyncPlan(h) \/ Downgrade(h)
  <2>1. \E s \in Steps \ {"insert"} : Goto(h, s)
    BY <1>7, <1>3 DEF SyncPlan, Downgrade
  <2>2. HandlerType'
    BY <1>7, <1>0, <1>1, <2>1, GotoType DEF SyncPlan, Downgrade, HandlerType
  <2> QED
    BY <1>7, <1>0, <2>2 DEF SyncPlan, Downgrade, CompanyType
<1>8. CASE GrantRead(h)
  <2>1. seen' \in [Handlers -> Nat] /\ Goto(h, "grantWrite")
    BY <1>8, <1>0 DEF GrantRead, HandlerType, CompanyType
  <2>2. HandlerType'
    BY <1>8, <1>0, <1>1, <1>3, <2>1, GotoType DEF GrantRead, HandlerType
  <2> QED
    BY <1>8, <1>0, <2>2 DEF GrantRead, CompanyType
<1>9. CASE GrantWrite(h)
  <2>1. fresh' \in [Handlers -> BOOLEAN] /\ Goto(h, "mark")
    BY <1>9, <1>0 DEF GrantWrite, HandlerType
  <2>2. HandlerType'
    BY <1>9, <1>0, <1>1, <1>3, <2>1, GotoType DEF GrantWrite, HandlerType
  <2>3. balance' \in Nat /\ granted' \in [Payments -> Nat]
    BY <1>9, <1>0, <1>2 DEF GrantWrite, HandlerType, CompanyType
  <2> QED
    BY <1>9, <1>0, <2>2, <2>3 DEF GrantWrite, CompanyType
<1>10. CASE MarkProcessed(h)
  <2>1. HandlerType'
    BY <1>10, <1>0, <1>1, DoneType DEF MarkProcessed
  <2>2. acked' \subseteq Event /\ applied' \subseteq Event /\ processed' \subseteq Keys
    BY <1>10, <1>0, <1>2 DEF MarkProcessed, CompanyType
  <2> QED
    BY <1>10, <1>0, <2>1, <2>2 DEF MarkProcessed, CompanyType
<1>11. CASE StepRaises(h)
  <2>1. /\ UNCHANGED <<acked, claimed, processed, row, plan, balance, invoices, rec, granted,
                      applied>>
        /\ faults' \in Nat /\ dropped' \subseteq Payments
    BY <1>11, <1>0, <1>2, FaultType DEF StepRaises, Drop, CompanyType
  <2>2. CASE Swallow(h)
    <3>1. fresh' \in [Handlers -> BOOLEAN]
      BY <2>2, <1>0 DEF Swallow, HandlerType
    <3>2. HandlerType'
      BY <2>2, <3>1, <1>0, <1>1, <1>3, GotoType DEF Swallow, HandlerType
    <3>3. swallowed' \subseteq Event
      BY <2>2, <1>0, <1>2 DEF Swallow, CompanyType
    <3> QED
      BY <2>1, <3>2, <3>3, <1>0 DEF CompanyType
  <2>3. CASE Abort(h)
    <3>1. ASSUME Done(h)
          PROVE  HandlerType'
      BY <3>1, <1>0, <1>1, DoneType
    <3>2. ASSUME Goto(h, "fail"), UNCHANGED <<ev, fresh, seen>>
          PROVE  HandlerType'
      BY <3>2, <1>0, <1>1, <1>3, GotoType DEF HandlerType
    <3>3. HandlerType'
      BY <2>3, <3>1, <3>2 DEF Abort
    <3> QED
      BY <2>1, <2>3, <3>3, <1>0 DEF Abort, CompanyType
  <2> QED
    BY <1>11, <2>2, <2>3 DEF StepRaises
<1>12. CASE MarkFailed(h)
  BY <1>12, <1>0, <1>1, DoneType DEF MarkFailed, CompanyType
<1>13. CASE HandlerCrash(h)
  <2>1. HandlerType'
    BY <1>13, <1>0, <1>1, DoneType DEF HandlerCrash
  <2>2. faults' \in Nat /\ dropped' \subseteq Payments
    BY <1>13, <1>0, <1>2, FaultType DEF HandlerCrash, Drop, CompanyType
  <2> QED
    BY <1>13, <2>1, <2>2, <1>0 DEF HandlerCrash, CompanyType
<1> QED
  BY <1>4, <1>5, <1>6, <1>7, <1>8, <1>9, <1>10, <1>11, <1>12, <1>13 DEF Work

(* The provider, the customer and the reconciliation leave the requests be. *)
LEMMA OthersType ==
    ASSUME Typed,
           \/ Razorpay \/ CancelSubscription \/ Reconcile \/ RecCrash
           \/ \E p \in OrderPays : CreateOrder(p)
    PROVE  Typed' /\ emitted \subseteq emitted' /\ UNCHANGED handler
<1> USE DEF provider, claims, company, handler, history
<1>1. ProviderType /\ CycleReached /\ HandlerType /\ CompanyType
  BY DEF Typed
<1>2. ASSUME emitted \subseteq emitted', UNCHANGED <<pc, ev, fresh, seen>>
      PROVE  HandlerType'
  BY <1>1, <1>2 DEF HandlerType, InHand
<1>3. CASE Razorpay
  <2>1. ProviderType' /\ CycleReached' /\ emitted \subseteq emitted'
    BY <1>1, <1>3, RazorpayType
  <2>2. UNCHANGED <<pc, ev, fresh, seen>> /\ CompanyType'
    BY <1>1, <1>3 DEF Razorpay, CompanyType
  <2> QED
    BY <1>2, <2>1, <2>2 DEF Typed
<1>4. CASE CancelSubscription
  <2>1. row' \in Row /\ faults' \in Nat
    BY <1>1, <1>4, FaultType DEF CancelSubscription, CompanyType, Row
  <2>2. ProviderType' /\ CycleReached'
    BY <1>1, <1>4 DEF CancelSubscription, ProviderType, CycleReached
  <2>3. UNCHANGED <<emitted, pc, ev, fresh, seen>> /\ CompanyType'
    BY <1>1, <1>4, <2>1 DEF CancelSubscription, CompanyType
  <2> QED
    BY <1>2, <2>2, <2>3 DEF Typed
<1>5. ASSUME NEW p \in OrderPays, CreateOrder(p)
      PROVE  Typed' /\ emitted \subseteq emitted' /\ UNCHANGED handler
  <2>1. row' \in Row
    BY <1>1, <1>5 DEF CreateOrder, CompanyType, Row
  <2>2. ProviderType' /\ CycleReached'
    BY <1>1, <1>5 DEF CreateOrder, ProviderType, CycleReached
  <2>3. UNCHANGED <<emitted, pc, ev, fresh, seen>> /\ CompanyType'
    BY <1>1, <1>5, <2>1 DEF CreateOrder, CompanyType
  <2> QED
    BY <1>2, <2>2, <2>3 DEF Typed
<1>6. CASE Reconcile \/ RecCrash
  <2>1. UNCHANGED provider /\ UNCHANGED handler
    BY <1>6 DEF Reconcile, RecSelect, RecFetch, RecApply, RecDowngrade, RecCrash
  <2>2. ProviderType' /\ CycleReached' /\ HandlerType'
    BY <1>1, <1>2, <2>1 DEF ProviderType, CycleReached
  <2>3. RecIdle \in [at : {"idle", "fetch", "apply", "downgrade"},
                     status : RemoteStatus, cycle : 0..MaxCycles]
    BY BillingAssumption DEF RecIdle, RemoteStatus
  <2>4. CompanyType'
    <3>1. CASE RecSelect
      BY <1>1, <3>1 DEF RecSelect, CompanyType
    <3>2. CASE RecFetch
      BY <1>1, <3>2 DEF RecFetch, CompanyType, ProviderType
    <3>3. CASE RecApply
      <4>1. row' \in Row
        BY <1>1, <3>3 DEF RecApply, CompanyType, Row, RowStatus
      <4>2. [RecIdle EXCEPT !.at = "downgrade"]
              \in [at : {"idle", "fetch", "apply", "downgrade"},
                   status : RemoteStatus, cycle : 0..MaxCycles]
        BY <2>3
      <4> QED
        BY <1>1, <2>3, <3>3, <4>1, <4>2 DEF RecApply, CompanyType
    <3>4. CASE RecDowngrade
      BY <1>1, <2>3, <3>4 DEF RecDowngrade, CompanyType
    <3>5. CASE RecCrash
      BY <1>1, <2>3, <3>5, FaultType DEF RecCrash, CompanyType
    <3> QED
      BY <1>6, <3>1, <3>2, <3>3, <3>4, <3>5 DEF Reconcile
  <2> QED
    BY <2>1, <2>2, <2>4 DEF Typed
<1> QED
  <2>1. ASSUME UNCHANGED <<pc, ev, fresh, seen>> PROVE UNCHANGED handler
    BY <2>1
  <2>2. CASE Razorpay
    BY <1>1, <1>3, <2>2, RazorpayType DEF Razorpay
  <2>3. CASE CancelSubscription
    BY <1>4, <2>3 DEF CancelSubscription
  <2>4. CASE Reconcile \/ RecCrash
    BY <1>6, <2>4
  <2> QED
    BY <1>5, <2>2, <2>3, <2>4

(* A request begins.                                                        *)
LEMMA StartsType ==
    ASSUME Typed, NEW h \in Handlers,
           \/ \E e \in emitted : Receive(h, e)
           \/ \E p \in OrderPays : StartVerify(h, p)
    PROVE  Typed'
<1> USE DEF provider, claims, company, history
<1>1. ProviderType /\ CycleReached /\ HandlerType /\ CompanyType
  BY DEF Typed
<1>2. UNCHANGED provider
  BY DEF Receive, StartVerify
<1>3. ProviderType' /\ CycleReached' /\ emitted' = emitted /\ emitted \subseteq Event
  BY <1>1, <1>2 DEF ProviderType, CycleReached
<1>4. {"row", "insert"} \subseteq Steps
  BY DEF Steps
<1>5. ASSUME NEW e \in emitted, Receive(h, e) PROVE HandlerType' /\ CompanyType'
  <2>1. HandlerType'
    <3>1. CASE UNCHANGED <<pc, ev>>
      BY <1>1, <1>3, <1>5, <3>1 DEF Receive, HandlerType, InHand
    <3>2. CASE /\ Goto(h, IF Key(e) \in claimed THEN "row" ELSE "insert")
               /\ ev' = [ev EXCEPT ![h] = e]
      <4>1. UNCHANGED <<fresh, seen>>
        BY <1>5 DEF Receive
      <4> QED
        BY <1>1, <1>3, <1>4, <3>2, <4>1, StartType
    <3> QED
      BY <1>5, <3>1, <3>2 DEF Receive
  <2>2. acked' \subseteq Event
    BY <1>1, <1>3, <1>5 DEF Receive, CompanyType
  <2> QED
    BY <1>1, <1>5, <2>1, <2>2 DEF Receive, CompanyType
<1>6. ASSUME NEW p \in OrderPays, StartVerify(h, p) PROVE HandlerType' /\ CompanyType'
  <2>1. [type |-> "verify", ref |-> p] \in Verify
    BY DEF Verify
  <2>2. HandlerType'
    BY <1>1, <1>3, <1>4, <1>6, <2>1, StartType DEF StartVerify
  <2> QED
    BY <1>1, <1>6, <2>2 DEF StartVerify, CompanyType
<1> QED
  BY <1>3, <1>5, <1>6 DEF Typed

(* Every step of the system keeps every variable in its type.               *)
LEMMA TypeStep == Typed /\ [Next]_vars => Typed'
<1> SUFFICES ASSUME Typed, [Next]_vars PROVE Typed'
  OBVIOUS
<1>1. CASE UNCHANGED vars
  BY <1>1 DEF vars, provider, claims, company, handler, history, Typed, ProviderType,
     CycleReached, HandlerType, InHand, CompanyType
<1>2. CASE Next
  BY <1>2, OthersType, StartsType, WorkType DEF Next
<1> QED
  BY <1>1, <1>2

LEMMA TypeInit == Init => Typed
<1> SUFFICES ASSUME Init PROVE Typed
  OBVIOUS
<1> USE BillingAssumption DEF Init
<1>1. ProviderType /\ CycleReached
  BY DEF ProviderType, CycleReached, RemoteStatus
<1>2. HandlerType
  BY DEF HandlerType, InHand, Steps
<1>3. CompanyType
  BY DEF CompanyType, Row, RowStatus, RecIdle, RemoteStatus
<1> QED
  BY <1>1, <1>2, <1>3 DEF Typed

(* The state of the billing code stays well formed: statuses, periods and   *)
(* cycles in range, claims and invoices of real events and payments.        *)
THEOREM TypeCorrect == Spec => []TypeOK
<1>1. Spec => []Typed
  BY TypeInit, TypeStep, PTL DEF Spec
<1> QED
  BY <1>1, TypedIsTypeOK, PTL

-----------------------------------------------------------------------------
(* The ledger                                                               *)

(* A handler is fresh from the moment it created the invoice until it has   *)
(* granted: its payment is invoiced and uncredited, and nobody else's.      *)
FreshSteps == {"sync", "grantRead", "grantWrite"}

FreshOwns ==
    \A h \in Handlers : fresh[h] =>
        /\ pc[h] \in FreshSteps
        /\ ev[h].ref \in invoices /\ granted[ev[h].ref] = 0

FreshAlone ==
    \A g, h \in Handlers : fresh[g] /\ fresh[h] /\ g # h => ev[g].ref # ev[h].ref

GrantsFresh == \A h \in Handlers : pc[h] \in {"grantRead", "grantWrite"} => fresh[h]

CreditedOnce ==
    \A p \in Payments : granted[p] = 0 \/ (granted[p] = 1 /\ p \in invoices)

LedgerSafe == FreshOwns /\ FreshAlone /\ GrantsFresh /\ CreditedOnce

(* A handler gives up its freshness, or never had it, and grants nothing.   *)
LEMMA StaleStep ==
    ASSUME Typed, LedgerSafe, NEW h \in Handlers, NEW s \in Steps, Goto(h, s),
           s \notin {"grantRead", "grantWrite"},
           fresh' = [fresh EXCEPT ![h] = FALSE],
           NEW e \in Event \cup Verify \cup {NoEvent}, ev' = [ev EXCEPT ![h] = e],
           UNCHANGED <<invoices, granted>>
    PROVE  LedgerSafe'
  BY DEF Typed, HandlerType, LedgerSafe, FreshOwns, FreshAlone, GrantsFresh,
         CreditedOnce, Goto

(* A handler keeps its freshness and its event on the way to the grant, or  *)
(* is not fresh and does not grant.                                         *)
LEMMA SteadyStep ==
    ASSUME Typed, LedgerSafe, NEW h \in Handlers, NEW s \in Steps, Goto(h, s),
           IF fresh[h] THEN s \in FreshSteps ELSE s \notin {"grantRead", "grantWrite"},
           UNCHANGED <<fresh, ev, invoices, granted>>
    PROVE  LedgerSafe'
  BY DEF Typed, HandlerType, LedgerSafe, FreshOwns, FreshAlone, GrantsFresh,
         CreditedOnce, Goto

LEMMA DoneLedger ==
    ASSUME Typed, LedgerSafe, NEW h \in Handlers, Done(h),
           UNCHANGED <<invoices, granted>>
    PROVE  LedgerSafe'
<1>1. "idle" \in Steps
  BY DEF Steps
<1> QED
  BY <1>1, StaleStep DEF Done

(* The first handler to insert a payment's invoice becomes its only owner.  *)
LEMMA CreateLedger ==
    ASSUME Typed, LedgerSafe, NEW h \in Handlers, CreateInvoice(h)
    PROVE  LedgerSafe'
<1> DEFINE p == ev[h].ref
<1>1. /\ pc[h] = "invoice" /\ p \in Payments /\ ~fresh[h]
      /\ UNCHANGED <<ev, granted>> /\ invoices' = invoices \cup {p}
      /\ fresh' = [fresh EXCEPT ![h] = p \notin invoices]
      /\ granted \in [Payments -> Nat]
      /\ fresh \in [Handlers -> BOOLEAN] /\ pc \in [Handlers -> Steps]
  BY Hand DEF CreateInvoice, Created, WithInvoice, LedgerSafe, FreshOwns, FreshSteps,
     company, Typed, HandlerType, CompanyType, history
<1>2. /\ pc' = [pc EXCEPT ![h] = pc'[h]] /\ pc'[h] \in {"sync", "mark"}
      /\ p \notin invoices => pc'[h] = "sync"
  BY <1>1 DEF CreateInvoice, Created, Goto
<1>3. p \notin invoices => granted[p] = 0
  BY <1>1 DEF LedgerSafe, CreditedOnce
<1>4. FreshOwns'
  BY <1>1, <1>2, <1>3 DEF LedgerSafe, FreshOwns, FreshSteps
<1>5. FreshAlone'
  BY <1>1 DEF LedgerSafe, FreshOwns, FreshAlone
<1>6. GrantsFresh'
  BY <1>1, <1>2 DEF LedgerSafe, GrantsFresh
<1>7. CreditedOnce'
  BY <1>1 DEF LedgerSafe, CreditedOnce
<1> QED
  BY <1>4, <1>5, <1>6, <1>7 DEF LedgerSafe

(* Its owner's grant is the payment's first.                                *)
LEMMA GrantLedger ==
    ASSUME Typed, LedgerSafe, NEW h \in Handlers, GrantWrite(h)
    PROVE  LedgerSafe' /\ Ledger!Grant(ev[h].ref) /\ ev[h].ref \in Payments
<1> DEFINE p == ev[h].ref
<1>1. /\ pc[h] = "grantWrite" /\ p \in Payments
      /\ UNCHANGED <<ev, invoices>> /\ pc' = [pc EXCEPT ![h] = "mark"]
      /\ fresh' = [fresh EXCEPT ![h] = FALSE]
      /\ granted' = [granted EXCEPT ![p] = @ + 1]
      /\ granted \in [Payments -> Nat]
      /\ fresh \in [Handlers -> BOOLEAN] /\ pc \in [Handlers -> Steps]
  BY Hand DEF GrantWrite, Goto, Typed, HandlerType, CompanyType
<1>2. fresh[h] /\ p \in invoices /\ granted[p] = 0
  BY <1>1 DEF LedgerSafe, GrantsFresh, FreshOwns
<1>3. granted' = [granted EXCEPT ![p] = 1]
  BY <1>1, <1>2
<1>4. FreshOwns'
  BY <1>1, <1>2, <1>3 DEF LedgerSafe, FreshOwns, FreshAlone
<1>5. FreshAlone' /\ GrantsFresh' /\ CreditedOnce'
  BY <1>1, <1>2, <1>3 DEF LedgerSafe, FreshAlone, GrantsFresh, CreditedOnce
<1> QED
  BY <1>1, <1>2, <1>3, <1>4, <1>5 DEF LedgerSafe, Ledger!Grant

(* Every step but the insert of a new invoice and the grant leaves the      *)
(* ledger alone, and those two are its own steps.                           *)
LEMMA LedgerStep ==
    ASSUME Typed, LedgerSafe, [Next]_vars
    PROVE  LedgerSafe' /\ [Ledger!Next]_<<invoices, granted>>
<1> USE DEF claims, company, handler, history
<1>0. ASSUME UNCHANGED <<pc, ev, fresh, invoices, granted>>
      PROVE  LedgerSafe' /\ [Ledger!Next]_<<invoices, granted>>
  BY <1>0 DEF LedgerSafe, FreshOwns, FreshAlone, GrantsFresh, CreditedOnce
<1>1. CASE UNCHANGED vars
  BY <1>0, <1>1 DEF vars
<1>2. CASE \/ Razorpay \/ CancelSubscription \/ Reconcile \/ RecCrash
           \/ \E p \in OrderPays : CreateOrder(p)
  <2>1. UNCHANGED <<pc, ev, fresh, invoices, granted>>
    BY <1>2 DEF Razorpay, CancelSubscription, Reconcile, RecSelect, RecFetch, RecApply,
       RecDowngrade, RecCrash, CreateOrder
  <2> QED
    BY <1>0, <2>1
<1>3. ASSUME NEW h \in Handlers, NEW e \in emitted, Receive(h, e)
      PROVE  LedgerSafe' /\ [Ledger!Next]_<<invoices, granted>>
  <2>1. UNCHANGED <<fresh, invoices, granted>> /\ pc[h] = "idle" /\ ~fresh[h]
    BY <1>3 DEF Receive, LedgerSafe, FreshOwns, FreshSteps
  <2>2. CASE UNCHANGED <<pc, ev>>
    BY <1>0, <2>1, <2>2
  <2>3. CASE /\ Goto(h, IF Key(e) \in claimed THEN "row" ELSE "insert")
             /\ ev' = [ev EXCEPT ![h] = e]
    <3>1. e \in Event /\ {"row", "insert"} \subseteq Steps
      BY DEF Typed, ProviderType, Steps
    <3>2. fresh' = [fresh EXCEPT ![h] = FALSE]
      BY <2>1 DEF Typed, HandlerType
    <3> QED
      BY <2>1, <2>3, <3>1, <3>2, StaleStep
  <2> QED
    BY <1>3, <2>2, <2>3 DEF Receive
<1>4. ASSUME NEW h \in Handlers, NEW p \in OrderPays, StartVerify(h, p)
      PROVE  LedgerSafe' /\ [Ledger!Next]_<<invoices, granted>>
  <2>1. UNCHANGED <<fresh, invoices, granted>> /\ pc[h] = "idle" /\ ~fresh[h]
    BY <1>4 DEF StartVerify, LedgerSafe, FreshOwns, FreshSteps
  <2>2. [type |-> "verify", ref |-> p] \in Verify /\ "row" \in Steps
    BY DEF Verify, Steps
  <2>3. fresh' = [fresh EXCEPT ![h] = FALSE]
    BY <2>1 DEF Typed, HandlerType
  <2> QED
    BY <1>4, <2>1, <2>2, <2>3, StaleStep DEF StartVerify
<1>5. ASSUME NEW h \in Handlers, Work(h) \/ StepRaises(h) \/ HandlerCrash(h)
      PROVE  LedgerSafe' /\ [Ledger!Next]_<<invoices, granted>>
  <2>0. /\ {"idle", "row", "invoice", "sync", "grantRead", "grantWrite", "downgrade",
             "mark", "logged", "fail"} \subseteq Steps
        /\ fresh[h] => pc[h] \in FreshSteps
        /\ ev[h] \in Event \cup Verify \cup {NoEvent}
        /\ ev = [ev EXCEPT ![h] = ev[h]]
    BY DEF Steps, LedgerSafe, FreshOwns, Typed, HandlerType
  <2>1. CASE CreateInvoice(h)
    <3>1. ev[h].ref \in Payments /\ UNCHANGED granted
      BY <2>1, Hand DEF CreateInvoice
    <3>2. CASE ev[h].ref \in invoices
      BY <2>1, <3>1, <3>2, CreateLedger DEF CreateInvoice, WithInvoice
    <3>3. CASE ev[h].ref \notin invoices
      <4>1. Ledger!Invoice(ev[h].ref)
        BY <2>1, <3>1, <3>3 DEF CreateInvoice, WithInvoice, Ledger!Invoice
      <4> QED
        BY <2>1, <3>1, <4>1, CreateLedger DEF Ledger!Next
    <3> QED
      BY <3>2, <3>3
  <2>2. CASE GrantWrite(h)
    BY <2>2, GrantLedger DEF Ledger!Next
  <2>3. CASE ~CreateInvoice(h) /\ ~GrantWrite(h)
    <3>1. UNCHANGED <<invoices, granted>>
      BY <1>5, <2>3 DEF Work, InsertClaim, UpdateRow, SyncPlan, GrantRead, Downgrade,
         MarkProcessed, MarkFailed, StepRaises, HandlerCrash
    <3>2. CASE Done(h)
      BY <3>1, <3>2, DoneLedger
    <3>3. CASE InsertClaim(h) \/ UpdateRow(h) \/ Downgrade(h)
      <4>1. ~fresh[h]
        BY <2>0, <3>3 DEF InsertClaim, UpdateRow, Downgrade, FreshSteps
      <4>2. \/ Done(h)
            \/ /\ UNCHANGED <<fresh, ev>>
               /\ \E s \in Steps \ {"grantRead", "grantWrite"} : Goto(h, s)
        BY <2>0, <3>3 DEF InsertClaim, UpdateRow, Downgrade
      <4> QED
        BY <3>1, <3>2, <4>1, <4>2, SteadyStep
    <3>4. CASE SyncPlan(h) \/ GrantRead(h)
      <4>1. /\ UNCHANGED <<fresh, ev>>
            /\ \E s \in Steps :
                 /\ Goto(h, s)
                 /\ IF fresh[h] THEN s \in FreshSteps
                    ELSE s \notin {"grantRead", "grantWrite"}
        BY <2>0, <3>4 DEF SyncPlan, GrantRead, FreshSteps, LedgerSafe, GrantsFresh
      <4> QED
        BY <3>1, <4>1, SteadyStep
    <3>5. CASE MarkProcessed(h) \/ MarkFailed(h) \/ HandlerCrash(h)
      BY <3>2, <3>5 DEF MarkProcessed, MarkFailed, HandlerCrash
    <3>6. CASE StepRaises(h)
      <4>1. CASE Swallow(h)
        BY <2>0, <3>1, <4>1, StaleStep DEF Swallow
      <4>2. CASE /\ pc[h] \notin FreshSteps /\ Goto(h, "fail") /\ UNCHANGED <<ev, fresh>>
        BY <2>0, <3>1, <4>2, SteadyStep
      <4> QED
        BY <3>2, <3>6, <4>1, <4>2 DEF StepRaises, Abort, FreshSteps
    <3> QED
      BY <1>5, <2>3, <3>3, <3>4, <3>5, <3>6 DEF Work
  <2> QED
    BY <2>1, <2>2, <2>3
<1> QED
  BY <1>1, <1>2, <1>3, <1>4, <1>5 DEF Next

LEMMA LedgerInit == Init => LedgerSafe /\ Ledger!Init
  BY DEF Init, LedgerSafe, FreshOwns, FreshAlone, GrantsFresh, CreditedOnce, Ledger!Init

(* No payment is ever credited twice, however many requests handle it,      *)
(* whatever crashes, raises or is redelivered.                              *)
THEOREM CreditsOnce == Spec => []GrantedOnce
<1>1. Typed /\ LedgerSafe /\ [Next]_vars => Typed' /\ LedgerSafe'
  BY TypeStep, LedgerStep
<1>2. Init => Typed /\ LedgerSafe
  BY TypeInit, LedgerInit
<1>3. LedgerSafe => GrantedOnce
  BY DEF LedgerSafe, CreditedOnce, GrantedOnce
<1> QED
  BY <1>1, <1>2, <1>3, PTL DEF Spec

(* The requests together implement the payment ledger: every step is a      *)
(* step of PaymentLedger or leaves it unchanged.                            *)
THEOREM ImplementsLedger == Spec => LedgerRefined
<1>1. Typed /\ LedgerSafe /\ [Next]_vars => Typed' /\ LedgerSafe'
  BY TypeStep, LedgerStep
<1>2. Init => Typed /\ LedgerSafe /\ Ledger!Init
  BY TypeInit, LedgerInit
<1>3. Typed /\ LedgerSafe /\ [Next]_vars => [Ledger!Next]_(Ledger!ledger)
  BY LedgerStep DEF Ledger!ledger
<1> QED
  BY <1>1, <1>2, <1>3, PTL DEF Spec, LedgerRefined, Ledger!Spec

-----------------------------------------------------------------------------
(* The downgrade                                                            *)

(* Whoever is about to downgrade, or holds the reason to, knows it from     *)
(* Razorpay's final word.                                                   *)
EventsKnow == \A e \in emitted : e.type \in Over => remote.status \in Over
HandlersKnow == \A h \in Handlers : pc[h] = "downgrade" => ev[h].type \in Over
ReconcileKnows ==
    /\ rec.at = "downgrade" => remote.status \in Over
    /\ rec.at = "apply" /\ rec.status \in DeadStatuses => remote.status \in Over

EndSafe == EventsKnow /\ HandlersKnow /\ ReconcileKnows

(* Razorpay never takes its final word back, and says it in time.           *)
LEMMA RazorpayEnd ==
    ASSUME Typed, EndSafe, Razorpay
    PROVE  EndSafe'
<1>1. remote.status \in Over => remote'.status \in Over
  BY DEF Razorpay, RemoteActivate, RemoteCharge, RemoteDecline, RemoteHalt, RemoteCancel,
     PayOrder, Over
<1>2. \A e \in emitted' \ emitted : e.type \in Over => remote'.status \in Over
  <2>1. remote \in [status : RemoteStatus, cycle : 0..MaxCycles, ending : BOOLEAN]
    BY DEF Typed, ProviderType
  <2>2. CASE RemoteHalt \/ RemoteCancel
    BY <2>1, <2>2 DEF RemoteHalt, RemoteCancel, Over
  <2>3. CASE \/ RemoteActivate \/ RemoteCharge \/ RemoteDecline
             \/ \E p \in OrderPays : PayOrder(p)
    BY <2>3 DEF RemoteActivate, RemoteCharge, Charges, RemoteDecline, PayOrder, Emit, Over
  <2> QED
    BY <2>2, <2>3 DEF Razorpay
<1>3. UNCHANGED <<pc, ev, rec>>
  BY DEF Razorpay, handler
<1> QED
  BY <1>1, <1>2, <1>3 DEF EndSafe, EventsKnow, HandlersKnow, ReconcileKnows

(* The other steps leave Razorpay's status and events alone.                *)
LEMMA EndStep ==
    ASSUME Typed, EndSafe, [Next]_vars
    PROVE  EndSafe'
<1> USE DEF provider, claims, company, handler, history
<1>1. CASE Razorpay
  BY <1>1, RazorpayEnd
<1>2. ASSUME UNCHANGED <<remote, emitted>>, HandlersKnow', ReconcileKnows'
      PROVE  EndSafe'
  BY <1>2 DEF EndSafe, EventsKnow
<1>3. ASSUME UNCHANGED <<pc, ev>> PROVE HandlersKnow'
  BY <1>3 DEF EndSafe, HandlersKnow
<1>4. ASSUME UNCHANGED <<rec, remote>> PROVE ReconcileKnows'
  BY <1>4 DEF EndSafe, ReconcileKnows
<1>5. CASE UNCHANGED vars
  BY <1>2, <1>3, <1>4, <1>5 DEF vars
<1>6. ASSUME NEW p \in OrderPays, CreateOrder(p) PROVE EndSafe'
  BY <1>2, <1>3, <1>4, <1>6 DEF CreateOrder
<1>7. CASE CancelSubscription
  <2>1. remote'.status = remote.status /\ UNCHANGED <<emitted, pc, ev, rec>>
    BY <1>7 DEF CancelSubscription, Typed, ProviderType
  <2> QED
    BY <2>1 DEF EndSafe, EventsKnow, HandlersKnow, ReconcileKnows
<1>8. CASE Reconcile \/ RecCrash
  <2>1. UNCHANGED <<remote, emitted, pc, ev>>
    BY <1>8 DEF Reconcile, RecSelect, RecFetch, RecApply, RecDowngrade, RecCrash
  <2>2. ReconcileKnows'
    BY <1>8, <2>1 DEF Reconcile, RecSelect, RecFetch, RecApply, RecDowngrade, RecCrash,
       RecIdle, EndSafe, ReconcileKnows, DeadStatuses, Over, Typed, CompanyType
  <2> QED
    BY <1>2, <1>3, <2>1, <2>2
<1>9. ASSUME NEW h \in Handlers,
             \/ \E e \in emitted : Receive(h, e)
             \/ \E p \in OrderPays : StartVerify(h, p)
             \/ Work(h) \/ StepRaises(h) \/ HandlerCrash(h)
      PROVE  EndSafe'
  <2>1. UNCHANGED <<remote, emitted, rec>>
    BY <1>9 DEF Receive, StartVerify, Work, InsertClaim, UpdateRow, CreateInvoice, SyncPlan,
       GrantRead, GrantWrite, Downgrade, MarkProcessed, MarkFailed, StepRaises, HandlerCrash
  <2> SUFFICES HandlersKnow'
    BY <1>2, <1>4, <2>1
  <2>2. pc \in [Handlers -> Steps] /\ ev \in [Handlers -> Event \cup Verify \cup {NoEvent}]
    BY DEF Typed, HandlerType
  <2>3. ASSUME NEW s, Goto(h, s), \A g \in Handlers \ {h} : ev'[g] = ev[g],
               s = "downgrade" => ev'[h].type \in Over
        PROVE  HandlersKnow'
    BY <2>2, <2>3 DEF Goto, EndSafe, HandlersKnow
  <2>4. CASE Done(h)
    BY <2>2, <2>3, <2>4 DEF Done
  <2>5. CASE UpdateRow(h)
    <3>1. /\ UNCHANGED ev
          /\ \E s \in Steps : Goto(h, s) /\ (s = "downgrade" => ev[h].type \in Over)
      BY <2>5 DEF UpdateRow, Unnamed, Over, Steps
    <3> QED
      BY <2>3, <3>1
  <2>6. CASE \/ \E e \in emitted : Receive(h, e)
             \/ \E p \in OrderPays : StartVerify(h, p)
    BY <1>3, <2>2, <2>3, <2>6 DEF Receive, StartVerify
  <2>7. CASE \/ InsertClaim(h) \/ CreateInvoice(h) \/ SyncPlan(h) \/ GrantRead(h)
             \/ GrantWrite(h) \/ Downgrade(h) \/ StepRaises(h)
    <3>1. Done(h) \/ (UNCHANGED ev /\ \E s \in Steps \ {"downgrade"} : Goto(h, s))
      BY <2>7 DEF InsertClaim, CreateInvoice, SyncPlan, GrantRead, GrantWrite, Downgrade,
         StepRaises, Swallow, Abort, Steps
    <3> QED
      BY <2>3, <2>4, <3>1
  <2>8. CASE MarkProcessed(h) \/ MarkFailed(h) \/ HandlerCrash(h)
    BY <2>4, <2>8 DEF MarkProcessed, MarkFailed, HandlerCrash
  <2> QED
    BY <1>9, <2>5, <2>6, <2>7, <2>8 DEF Work
<1> QED
  BY <1>1, <1>5, <1>6, <1>7, <1>8, <1>9 DEF Next

LEMMA EndInit == Init => EndSafe
  BY DEF Init, EndSafe, EventsKnow, HandlersKnow, ReconcileKnows, RecIdle

(* A step that takes the paid plan away has Razorpay's final word for it.   *)
LEMMA DowngradeStep ==
    ASSUME Typed, EndSafe, Next, plan = "paid", plan' = "free"
    PROVE  remote.status \in Over
<1> USE DEF company
<1>1. (\E h \in Handlers : Downgrade(h)) \/ RecDowngrade
  BY DEF Next, Razorpay, CancelSubscription, CreateOrder, Receive, StartVerify, Work,
     InsertClaim, UpdateRow, CreateInvoice, SyncPlan, GrantRead, GrantWrite, MarkProcessed,
     MarkFailed, StepRaises, HandlerCrash, Reconcile, RecSelect, RecFetch, RecApply, RecCrash
<1>2. CASE RecDowngrade
  BY <1>2 DEF RecDowngrade, EndSafe, ReconcileKnows
<1>3. ASSUME NEW h \in Handlers, Downgrade(h) PROVE remote.status \in Over
  <2>1. pc[h] = "downgrade" /\ ev[h].type \in Over /\ ev[h] \in Event \cup Verify
    BY <1>3, Hand DEF Downgrade, EndSafe, HandlersKnow
  <2>2. ev[h] \notin Verify
    BY <2>1 DEF Verify, Over
  <2>3. ev[h] \in emitted
    BY <2>1, <2>2, Hand
  <2> QED
    BY <2>1, <2>3 DEF EndSafe, EventsKnow
<1> QED
  BY <1>1, <1>2, <1>3

(* The company never loses its plan while Razorpay is still retrying a      *)
(* failed charge, through a webhook or through reconciliation.              *)
THEOREM DowngradesAreFinal == Spec => DowngradeIsFinal
<1>1. Typed /\ EndSafe /\ [Next]_vars => Typed' /\ EndSafe'
  BY TypeStep, EndStep
<1>2. Init => Typed /\ EndSafe
  BY TypeInit, EndInit
<1>3. Typed /\ EndSafe /\ [Next]_vars =>
        [plan = "paid" /\ plan' = "free" => remote.status \in {"halted", "cancelled"}]_vars
  BY DowngradeStep DEF Over
<1> QED
  BY <1>1, <1>2, <1>3, PTL DEF Spec, DowngradeIsFinal
-----------------------------------------------------------------------------
(* What a 200 promises                                                      *)

(* A charge is carried out past its invoice, and an invoice is credited, or *)
(* about to be by the request that made it, or that request has stopped.    *)
Invoiced == {"sync", "grantRead", "grantWrite", "mark"}

PaidSafe ==
    /\ \A h \in Handlers :
          pc[h] \in Invoiced /\ ev[h].type = "charged" => ev[h].ref \in invoices
    /\ \A e \in applied : e.type = "charged" => e.ref \in invoices
    /\ \A p \in invoices : \/ granted[p] = 1 \/ p \in dropped
                           \/ \E h \in Handlers : fresh[h] /\ ev[h].ref = p

(* A request that keeps its freshness, or gives it up and says so.          *)
LEMMA PaidMove ==
    ASSUME Typed, PaidSafe, NEW h \in Handlers, UNCHANGED <<invoices, granted>>,
           dropped \subseteq dropped',
           \A g \in Handlers : g # h => /\ pc'[g] = pc[g] /\ ev'[g] = ev[g]
                                        /\ fresh'[g] = fresh[g],
           \/ fresh[h] => ev[h].ref \in dropped'
           \/ fresh'[h] = fresh[h] /\ ev'[h] = ev[h],
           pc'[h] \in Invoiced /\ ev'[h].type = "charged" => ev'[h].ref \in invoices,
           applied' = applied \/ (pc[h] = "mark" /\ applied' = applied \cup {ev[h]})
    PROVE  PaidSafe'
<1>1. \A g \in Handlers :
          pc'[g] \in Invoiced /\ ev'[g].type = "charged" => ev'[g].ref \in invoices'
  BY DEF PaidSafe
<1>2. \A e \in applied' : e.type = "charged" => e.ref \in invoices'
  BY DEF PaidSafe, Invoiced
<1>3. ASSUME NEW p \in invoices'
      PROVE  \/ granted'[p] = 1 \/ p \in dropped'
             \/ \E g \in Handlers : fresh'[g] /\ ev'[g].ref = p
  <2>1. CASE granted[p] = 1 \/ p \in dropped
    BY <2>1
  <2>2. ASSUME NEW g \in Handlers, fresh[g], ev[g].ref = p
        PROVE  p \in dropped' \/ \E f \in Handlers : fresh'[f] /\ ev'[f].ref = p
    BY <2>2
  <2> QED
    BY <1>3, <2>1, <2>2 DEF PaidSafe
<1> QED
  BY <1>1, <1>2, <1>3 DEF PaidSafe

LEMMA PaidStep ==
    ASSUME Typed, LedgerSafe, EndSafe, PaidSafe, [Next]_vars
    PROVE  PaidSafe'
<1> USE DEF claims, company, handler, history
<1>0. /\ pc \in [Handlers -> Steps] /\ fresh \in [Handlers -> BOOLEAN]
      /\ ev \in [Handlers -> Event \cup Verify \cup {NoEvent}]
      /\ granted \in [Payments -> Nat]
      /\ \A h \in Handlers : fresh[h] => pc[h] \in FreshSteps
  BY DEF Typed, HandlerType, CompanyType, LedgerSafe, FreshOwns
<1>1. ASSUME UNCHANGED <<pc, ev, fresh, invoices, granted, applied, dropped>> PROVE PaidSafe'
  BY <1>1 DEF PaidSafe
<1>2. CASE \/ Razorpay \/ CancelSubscription \/ Reconcile \/ RecCrash \/ UNCHANGED vars
           \/ \E p \in OrderPays : CreateOrder(p)
  BY <1>1, <1>2 DEF Razorpay, CancelSubscription, Reconcile, RecSelect, RecFetch, RecApply,
     RecDowngrade, RecCrash, CreateOrder, vars
<1>3. ASSUME NEW h \in Handlers,
             \/ \E e \in emitted : Receive(h, e)
             \/ \E p \in OrderPays : StartVerify(h, p)
      PROVE  PaidSafe'
  <2>1. UNCHANGED <<fresh, invoices, granted, applied, dropped>> /\ ~fresh[h]
    BY <1>0, <1>3 DEF Receive, StartVerify, FreshSteps
  <2>2. pc'[h] \notin Invoiced
    BY <1>0, <1>3 DEF Receive, StartVerify, Goto, Invoiced
  <2>3. \A g \in Handlers : g # h => pc'[g] = pc[g] /\ ev'[g] = ev[g]
    BY <1>0, <1>3 DEF Receive, StartVerify, Goto
  <2> QED
    BY <2>1, <2>2, <2>3, PaidMove
<1>4. ASSUME NEW h \in Handlers, CreateInvoice(h) PROVE PaidSafe'
  <2> DEFINE p == ev[h].ref
  <2>1. /\ pc[h] = "invoice" /\ ~fresh[h] /\ UNCHANGED <<ev, granted, applied, dropped>>
        /\ invoices' = invoices \cup {p} /\ fresh'[h] = (p \notin invoices)
        /\ \A g \in Handlers : g # h => pc'[g] = pc[g] /\ fresh'[g] = fresh[g]
    BY <1>0, <1>4 DEF CreateInvoice, WithInvoice, Created, Goto, FreshSteps
  <2>2. ASSUME NEW q \in invoices'
        PROVE  \/ granted'[q] = 1 \/ q \in dropped'
               \/ \E g \in Handlers : fresh'[g] /\ ev'[g].ref = q
    <3>1. CASE q \in invoices
      BY <2>1, <3>1 DEF PaidSafe
    <3>2. CASE q \notin invoices
      BY <2>1, <2>2, <3>2
    <3> QED
      BY <3>1, <3>2
  <2>3. \A g \in Handlers :
           pc'[g] \in Invoiced /\ ev'[g].type = "charged" => ev'[g].ref \in invoices'
    BY <2>1 DEF PaidSafe
  <2> QED
    BY <2>1, <2>2, <2>3 DEF PaidSafe
<1>5. ASSUME NEW h \in Handlers, GrantWrite(h) PROVE PaidSafe'
  <2> DEFINE p == ev[h].ref
  <2>1. /\ pc[h] = "grantWrite" /\ UNCHANGED <<ev, invoices, applied, dropped>>
        /\ pc'[h] = "mark" /\ fresh'[h] = FALSE
        /\ \A g \in Handlers : g # h => pc'[g] = pc[g] /\ fresh'[g] = fresh[g]
    BY <1>0, <1>5 DEF GrantWrite, Goto
  <2>2. granted'[p] = 1 /\ \A q \in Payments : q # p => granted'[q] = granted[q]
    BY <1>5, GrantLedger DEF Ledger!Grant, Typed, CompanyType
  <2>3. invoices \subseteq Payments
    BY DEF Typed, CompanyType
  <2>4. ASSUME NEW q \in invoices'
        PROVE  \/ granted'[q] = 1 \/ q \in dropped'
               \/ \E g \in Handlers : fresh'[g] /\ ev'[g].ref = q
    <3>1. CASE q = p
      BY <2>2, <3>1
    <3>2. CASE q # p
      BY <2>1, <2>2, <2>3, <2>4, <3>2 DEF PaidSafe
    <3> QED
      BY <3>1, <3>2
  <2>5. \A g \in Handlers :
           pc'[g] \in Invoiced /\ ev'[g].type = "charged" => ev'[g].ref \in invoices'
    BY <2>1 DEF PaidSafe, Invoiced
  <2> QED
    BY <2>1, <2>4, <2>5 DEF PaidSafe
<1>6. ASSUME NEW h \in Handlers,
             \/ InsertClaim(h) \/ UpdateRow(h) \/ SyncPlan(h) \/ GrantRead(h) \/ Downgrade(h)
             \/ MarkProcessed(h) \/ MarkFailed(h) \/ StepRaises(h) \/ HandlerCrash(h)
      PROVE  PaidSafe'
  <2>1. /\ UNCHANGED <<invoices, granted>> /\ dropped \subseteq dropped'
        /\ applied' = applied \/ (pc[h] = "mark" /\ applied' = applied \cup {ev[h]})
    BY <1>6 DEF InsertClaim, UpdateRow, SyncPlan, GrantRead, Downgrade, MarkProcessed,
       MarkFailed, StepRaises, HandlerCrash, Drop
  <2>2. \A g \in Handlers : g # h => /\ pc'[g] = pc[g] /\ ev'[g] = ev[g]
                                     /\ fresh'[g] = fresh[g]
    BY <1>0, <1>6 DEF InsertClaim, UpdateRow, SyncPlan, GrantRead, Downgrade, MarkProcessed,
       MarkFailed, StepRaises, Swallow, Abort, HandlerCrash, Done, Goto
  <2>3. CASE StepRaises(h) \/ HandlerCrash(h)
    <3>1. fresh[h] => ev[h].ref \in dropped'
      BY <2>3 DEF StepRaises, HandlerCrash, Drop
    <3>2. pc'[h] \notin Invoiced
      BY <1>0, <2>3 DEF StepRaises, Swallow, Abort, HandlerCrash, Done, Goto, Invoiced
    <3> QED
      BY <2>1, <2>2, <3>1, <3>2, PaidMove
  <2>4. CASE InsertClaim(h) \/ MarkProcessed(h) \/ MarkFailed(h)
    <3>1. ~fresh[h]
      BY <1>0, <2>4 DEF InsertClaim, MarkProcessed, MarkFailed, FreshSteps
    <3>2. pc'[h] \notin Invoiced
      BY <1>0, <2>4 DEF InsertClaim, MarkProcessed, MarkFailed, Done, Goto, Invoiced
    <3> QED
      BY <2>1, <2>2, <3>1, <3>2, PaidMove
  <2>5. CASE UpdateRow(h) \/ SyncPlan(h) \/ GrantRead(h) \/ Downgrade(h)
    <3>1. UNCHANGED <<fresh, ev>>
      BY <2>5 DEF UpdateRow, SyncPlan, GrantRead, Downgrade
    <3>2. pc'[h] \in Invoiced /\ ev'[h].type = "charged" => ev'[h].ref \in invoices
      <4>1. CASE UpdateRow(h) /\ ev[h].type = "charged"
        BY <1>0, <4>1 DEF UpdateRow, Unnamed, Goto, Invoiced
      <4>2. CASE SyncPlan(h) \/ GrantRead(h)
        BY <1>0, <3>1, <4>2 DEF SyncPlan, GrantRead, PaidSafe, Invoiced
      <4>3. CASE Downgrade(h)
        <5>1. ev[h].type \in Over
          BY <4>3 DEF Downgrade, EndSafe, HandlersKnow
        <5> QED
          BY <3>1, <5>1 DEF Over
      <4> QED
        BY <2>5, <3>1, <4>1, <4>2, <4>3
    <3> QED
      BY <2>1, <2>2, <3>1, <3>2, PaidMove
  <2> QED
    BY <1>6, <2>3, <2>4, <2>5
<1> QED
  BY <1>2, <1>3, <1>4, <1>5, <1>6 DEF Next, Work

(* With an id of its own in the body, an event is claimed as itself.        *)
LEMMA OwnKey == BodyEventIds => \A e : Key(e) = e
  BY DEF Key

(* The steps in which a request carries an event whose claim it holds.      *)
Carrying == {"row", "invoice", "sync", "grantRead", "grantWrite", "downgrade", "mark"}

(* Everything but a request's own steps leaves the answers alone.           *)
LEMMA OthersAnswer ==
    ASSUME \/ Razorpay \/ CancelSubscription \/ Reconcile \/ RecCrash
           \/ \E p \in OrderPays : CreateOrder(p)
           \/ UNCHANGED vars
    PROVE  UNCHANGED <<acked, claimed, processed, applied, swallowed, pc, ev>>
  BY DEF Razorpay, CancelSubscription, Reconcile, RecSelect, RecFetch, RecApply, RecDowngrade,
         RecCrash, CreateOrder, vars, claims, handler, history

(* The steps of a request that answer nothing: it goes on with its event,   *)
(* gives it up, or swallows its failure.                                    *)
LEMMA SilentStep ==
    ASSUME Typed, NEW h \in Handlers,
           \/ UpdateRow(h) \/ CreateInvoice(h) \/ SyncPlan(h) \/ GrantRead(h)
           \/ GrantWrite(h) \/ Downgrade(h) \/ StepRaises(h) \/ HandlerCrash(h)
    PROVE  /\ UNCHANGED <<acked, claimed, processed, applied>>
           /\ \/ /\ StepRaises(h) \/ HandlerCrash(h)
                 /\ \/ Done(h) \/ Goto(h, "fail")
                    \/ /\ Goto(h, "logged") /\ UNCHANGED ev
                       /\ swallowed' = swallowed \cup {ev[h]} /\ ev[h] \notin Verify
              \/ /\ pc[h] \in Carrying /\ UNCHANGED ev
                 /\ \E s \in Carrying : Goto(h, s)
           /\ swallowed \subseteq swallowed'
           /\ pc' = [pc EXCEPT ![h] = pc'[h]] /\ pc'[h] # "insert"
<1> USE DEF claims, company, handler, history
<1>1. UNCHANGED <<acked, claimed, processed, applied>>
  BY DEF UpdateRow, CreateInvoice, SyncPlan, GrantRead, GrantWrite, Downgrade, StepRaises,
     HandlerCrash
<1>2. CASE \/ UpdateRow(h) \/ CreateInvoice(h) \/ SyncPlan(h) \/ GrantRead(h)
           \/ GrantWrite(h) \/ Downgrade(h)
  <2>1. /\ pc[h] \in Carrying /\ UNCHANGED <<ev, swallowed>>
        /\ \E s \in Carrying : Goto(h, s)
    BY <1>2 DEF UpdateRow, CreateInvoice, SyncPlan, GrantRead, GrantWrite, Downgrade, Carrying
  <2> QED
    BY <1>1, <2>1 DEF Goto, Carrying, Typed, HandlerType
<1>3. CASE StepRaises(h) \/ HandlerCrash(h)
  <2>1. /\ \/ Done(h) \/ Goto(h, "fail")
           \/ /\ Goto(h, "logged") /\ UNCHANGED ev
              /\ swallowed' = swallowed \cup {ev[h]} /\ ev[h] \notin Verify
        /\ swallowed \subseteq swallowed'
    BY <1>3 DEF StepRaises, Swallow, Abort, HandlerCrash
  <2> QED
    BY <1>1, <1>3, <2>1 DEF Done, Goto, Typed, HandlerType
<1> QED
  BY <1>2, <1>3

(* One request at a time: a request about to insert its claim finds none,   *)
(* so "duplicate" is only the answer to a claim that failed, and what is    *)
(* marked processed was carried out, or swallowed.                          *)
TurnSafe ==
    /\ acked \cup processed \subseteq applied \cup swallowed
    /\ \A h \in Handlers : /\ pc[h] = "insert" => ev[h] \notin claimed
                           /\ pc[h] = "logged" => ev[h] \in swallowed

OneAtATime == \A g, h \in Handlers : g = h

LEMMA TurnStep ==
    ASSUME BodyEventIds, OneAtATime, Typed, TurnSafe, [Next]_vars
    PROVE  TurnSafe'
<1> USE OwnKey DEF claims, company, handler, history
<1>0. pc \in [Handlers -> Steps] /\ ev \in [Handlers -> Event \cup Verify \cup {NoEvent}]
  BY DEF Typed, HandlerType
<1>1. CASE UNCHANGED <<acked, claimed, processed, applied, swallowed, pc, ev>>
  BY <1>1 DEF TurnSafe
<1>2. ASSUME NEW h \in Handlers, NEW e \in emitted, Receive(h, e) PROVE TurnSafe'
  BY <1>0, <1>2 DEF Receive, Goto, TurnSafe, OneAtATime
<1>3. ASSUME NEW h \in Handlers, NEW p \in OrderPays, StartVerify(h, p) PROVE TurnSafe'
  BY <1>0, <1>3 DEF StartVerify, Goto, TurnSafe, OneAtATime
<1>4. ASSUME NEW h \in Handlers, InsertClaim(h) PROVE TurnSafe'
  <2>1. /\ pc[h] = "insert" /\ ev[h] \notin claimed /\ UNCHANGED <<processed, applied>>
        /\ pc'[h] \notin {"insert", "logged"}
        /\ swallowed \subseteq swallowed'
        /\ acked' = acked \/ (acked' = acked \cup {ev[h]} /\ ev[h] \in swallowed')
    BY <1>0, <1>4 DEF InsertClaim, Done, Goto, TurnSafe
  <2> QED
    BY <2>1 DEF TurnSafe, OneAtATime
<1>5. ASSUME NEW h \in Handlers, MarkProcessed(h) PROVE TurnSafe'
  <2>1. /\ pc'[h] = "idle" /\ UNCHANGED swallowed /\ applied \subseteq applied'
        /\ acked' \subseteq acked \cup {ev[h]} /\ processed' \subseteq processed \cup {ev[h]}
        /\ ev[h] \in Verify => acked' = acked /\ processed' = processed
        /\ ev[h] \in Verify \/ ev[h] \in applied' \/ pc[h] = "logged"
    BY <1>0, <1>5 DEF MarkProcessed, Done, Goto
  <2>2. ev[h] \in Verify \/ ev[h] \in applied' \cup swallowed'
    BY <2>1 DEF TurnSafe
  <2> QED
    BY <2>1, <2>2 DEF TurnSafe, OneAtATime
<1>6. ASSUME NEW h \in Handlers, MarkFailed(h) PROVE TurnSafe'
  BY <1>0, <1>6 DEF MarkFailed, Done, Goto, TurnSafe, OneAtATime
<1>7. ASSUME NEW h \in Handlers,
             \/ UpdateRow(h) \/ CreateInvoice(h) \/ SyncPlan(h) \/ GrantRead(h)
             \/ GrantWrite(h) \/ Downgrade(h) \/ StepRaises(h) \/ HandlerCrash(h)
      PROVE  TurnSafe'
  <2>1. /\ UNCHANGED <<acked, claimed, processed, applied>> /\ swallowed \subseteq swallowed'
        /\ pc'[h] # "insert"
    BY <1>7, SilentStep
  <2>2. pc'[h] = "logged" => ev'[h] \in swallowed'
    BY <1>0, <1>7, SilentStep DEF Done, Goto, Carrying
  <2> QED
    BY <2>1, <2>2 DEF TurnSafe, OneAtATime
<1> QED
  BY <1>1, <1>2, <1>3, <1>4, <1>5, <1>6, <1>7, OthersAnswer DEF Next, Work

(* At rest, a charge that was carried out has been credited or dropped.     *)
LEMMA AppliedIsCarriedOut ==
    ASSUME LedgerSafe, PaidSafe, Quiet, NEW e \in applied
    PROVE  CarriedOut(e)
<1>1. \A h \in Handlers : ~fresh[h]
  BY DEF LedgerSafe, FreshOwns, FreshSteps, Quiet
<1> QED
  BY <1>1 DEF PaidSafe, CarriedOut

Sound == Typed /\ LedgerSafe /\ EndSafe /\ PaidSafe

LEMMA SoundInit == Init => Sound
<1>1. Init => PaidSafe
  BY DEF Init, PaidSafe, Invoiced
<1> QED
  BY <1>1, TypeInit, LedgerInit, EndInit DEF Sound

LEMMA SoundStep == Sound /\ [Next]_vars => Sound'
  BY TypeStep, LedgerStep, EndStep, PaidStep DEF Sound

(* Served one at a time, an event that was answered 200 has been carried    *)
(* out, a charge to its credits, whatever crashes and raises in between: a  *)
(* claim that was left unfinished is taken over by the next delivery, never *)
(* called a duplicate. What is excepted is named: a swallowed failure, and  *)
(* a payment whose request stopped between its invoice and its grant.       *)
THEOREM AckedAppliedInTurn ==
    ASSUME BodyEventIds, OneAtATime
    PROVE  Spec => []AckedIsApplied
<1>1. Init => Sound /\ TurnSafe
  BY SoundInit DEF Init, TurnSafe
<1>2. Sound /\ TurnSafe /\ [Next]_vars => Sound' /\ TurnSafe'
  BY SoundStep, TurnStep DEF Sound
<1>3. Sound /\ TurnSafe => AckedIsApplied
  BY AppliedIsCarriedOut DEF Sound, TurnSafe, AckedIsApplied
<1> QED
  BY <1>1, <1>2, <1>3, PTL DEF Spec

(* Many requests, none of which dies: what was claimed or answered has been *)
(* carried out, or a request is still carrying it, or its claim failed.     *)
RaceSafe ==
    /\ processed \subseteq applied
    /\ \A h \in Handlers : pc[h] \notin {"fail", "logged"}
    /\ \A e \in acked \cup claimed :
          \/ e \in applied \cup swallowed
          \/ \E h \in Handlers : pc[h] \in Carrying /\ ev[h] = e

(* A verify call makes no claim.                                            *)
LEMMA VerifyUnclaimed == Typed => (acked \cup claimed) \cap Verify = {}
  BY DEF Typed, CompanyType, Keys, Event, Verify, SubscriptionTypes

LEMMA RaceStep ==
    ASSUME BodyEventIds, FaultKinds \cap {"crash", "raise"} = {},
           Typed, RaceSafe, [Next]_vars
    PROVE  RaceSafe'
<1> USE OwnKey DEF claims, company, handler, history
<1>0. pc \in [Handlers -> Steps] /\ ev \in [Handlers -> Event \cup Verify \cup {NoEvent}]
  BY DEF Typed, HandlerType
<1>1. CASE UNCHANGED <<acked, claimed, processed, applied, swallowed, pc, ev>>
  BY <1>1 DEF RaceSafe
<1>2. ASSUME NEW h \in Handlers, NEW e \in emitted, Receive(h, e) PROVE RaceSafe'
  <2>1. pc[h] \notin Carrying /\ UNCHANGED <<claimed, processed, applied, swallowed>>
    BY <1>2 DEF Receive, Carrying
  <2>2. \A g \in Handlers : pc[g] \in Carrying => pc'[g] = pc[g] /\ ev'[g] = ev[g]
    BY <1>0, <1>2, <2>1 DEF Receive, Goto
  <2>3. acked' = acked \/ (acked' = acked \cup {e} /\ e \in applied)
    BY <1>2 DEF Receive, RaceSafe
  <2>4. \A g \in Handlers : pc'[g] \notin {"fail", "logged"}
    BY <1>0, <1>2 DEF Receive, Goto, RaceSafe
  <2> QED
    BY <2>1, <2>2, <2>3, <2>4 DEF RaceSafe
<1>3. ASSUME NEW h \in Handlers, NEW p \in OrderPays, StartVerify(h, p) PROVE RaceSafe'
  <2>1. pc[h] \notin Carrying /\ UNCHANGED <<acked, claimed, processed, applied, swallowed>>
    BY <1>3 DEF StartVerify, Carrying
  <2>2. \A g \in Handlers : pc[g] \in Carrying => pc'[g] = pc[g] /\ ev'[g] = ev[g]
    BY <1>0, <1>3, <2>1 DEF StartVerify, Goto
  <2>3. \A g \in Handlers : pc'[g] \notin {"fail", "logged"}
    BY <1>0, <1>3 DEF StartVerify, Goto, RaceSafe
  <2> QED
    BY <2>1, <2>2, <2>3 DEF RaceSafe
<1>4. ASSUME NEW h \in Handlers, InsertClaim(h) PROVE RaceSafe'
  <2>1. pc[h] \notin Carrying /\ UNCHANGED <<processed, applied>>
        /\ swallowed \subseteq swallowed'
    BY <1>4 DEF InsertClaim, Carrying
  <2>2. \A g \in Handlers :
           /\ pc[g] \in Carrying => pc'[g] = pc[g] /\ ev'[g] = ev[g]
           /\ pc'[g] \notin {"fail", "logged"}
    BY <1>0, <1>4, <2>1 DEF InsertClaim, Done, Goto, RaceSafe
  <2>3. CASE claimed' = claimed \cup {ev[h]} /\ Goto(h, "row") /\ UNCHANGED <<acked, ev>>
    <3>1. pc'[h] \in Carrying /\ ev'[h] = ev[h]
      BY <1>0, <2>3 DEF Goto, Carrying
    <3> QED
      BY <2>1, <2>2, <2>3, <3>1 DEF RaceSafe
  <2>4. CASE /\ ev[h] \in claimed \cup swallowed'
             /\ acked' = acked \cup {ev[h]} /\ UNCHANGED claimed
    BY <2>1, <2>2, <2>4 DEF RaceSafe
  <2> QED
    BY <1>4, <2>3, <2>4 DEF InsertClaim
<1>5. ASSUME NEW h \in Handlers, MarkProcessed(h) PROVE RaceSafe'
  <2>1. /\ \A g \in Handlers : /\ g # h => pc'[g] = pc[g] /\ ev'[g] = ev[g]
                               /\ pc'[g] \notin {"fail", "logged"}
        /\ pc[h] = "mark" /\ UNCHANGED swallowed
    BY <1>0, <1>5 DEF MarkProcessed, Done, Goto, RaceSafe
  <2>2. \A e \in acked \cup claimed : ev[h] = e => ev[h] \notin Verify
    BY VerifyUnclaimed
  <2>3. CASE ev[h] \in Verify
    BY <1>5, <2>1, <2>2, <2>3 DEF MarkProcessed, RaceSafe
  <2>4. CASE ev[h] \notin Verify
    BY <1>5, <2>1, <2>4 DEF MarkProcessed, RaceSafe
  <2> QED
    BY <2>3, <2>4
<1>6. ASSUME NEW h \in Handlers, MarkFailed(h) PROVE FALSE
  BY <1>6 DEF MarkFailed, RaceSafe
<1>7. ASSUME NEW h \in Handlers, StepRaises(h) \/ HandlerCrash(h) PROVE FALSE
  BY <1>7 DEF StepRaises, HandlerCrash, Fault
<1>8. ASSUME NEW h \in Handlers,
             \/ UpdateRow(h) \/ CreateInvoice(h) \/ SyncPlan(h) \/ GrantRead(h)
             \/ GrantWrite(h) \/ Downgrade(h)
      PROVE  RaceSafe'
  <2>1. /\ UNCHANGED <<acked, claimed, processed, applied, ev>>
        /\ swallowed \subseteq swallowed'
        /\ \E s \in Carrying : Goto(h, s)
    BY <1>7, <1>8, SilentStep
  <2>2. pc'[h] \in Carrying /\ \A g \in Handlers : g # h => pc'[g] = pc[g]
    BY <1>0, <2>1 DEF Goto
  <2>3. pc'[h] \notin {"fail", "logged"}
    BY <2>2 DEF Carrying
  <2> QED
    BY <2>1, <2>2, <2>3 DEF RaceSafe
<1> QED
  BY <1>1, <1>2, <1>3, <1>4, <1>5, <1>6, <1>7, <1>8, OthersAnswer DEF Next, Work

(* However many requests race for an event, and for its payment with the    *)
(* browser, once they have all answered the event has been carried out, a   *)
(* charge to its credits: a duplicate is answered only while its rival is   *)
(* at work, or when the claim could not be written.                         *)
THEOREM AckedAppliedInRaces ==
    ASSUME BodyEventIds, FaultKinds \cap {"crash", "raise"} = {}
    PROVE  Spec => []AckedIsApplied
<1>1. Init => Sound /\ RaceSafe
  BY SoundInit DEF Init, RaceSafe
<1>2. Sound /\ RaceSafe /\ [Next]_vars => Sound' /\ RaceSafe'
  BY SoundStep, RaceStep DEF Sound
<1>3. Sound /\ RaceSafe => AckedIsApplied
  BY AppliedIsCarriedOut DEF Sound, RaceSafe, AckedIsApplied, Quiet, Carrying
<1> QED
  BY <1>1, <1>2, <1>3, PTL DEF Spec
=============================================================================
