--------------------------- MODULE PaymentLedger ---------------------------
(***************************************************************************)
(* What the billing code promises about money                              *)
(* (docs/billing/razorpay-recurring.md, section 2): a payment is invoiced  *)
(* at most once, and its plan credits are granted at most once, after the  *)
(* invoice. Who does it (a webhook, its retry, a concurrent duplicate, the *)
(* browser's verify call) is not visible here.                             *)
(***************************************************************************)
EXTENDS Naturals

CONSTANT Payments       \* Razorpay payment ids (pay_...)

VARIABLES
    invoiced,           \* payments that have an invoice
    credits             \* how often each payment's plan credits were granted

ledger == <<invoiced, credits>>

Init ==
    /\ invoiced = {}
    /\ credits = [p \in Payments |-> 0]

Invoice(p) ==
    /\ p \notin invoiced
    /\ invoiced' = invoiced \cup {p}
    /\ UNCHANGED credits

Grant(p) ==
    /\ p \in invoiced /\ credits[p] = 0
    /\ credits' = [credits EXCEPT ![p] = 1]
    /\ UNCHANGED invoiced

Next == \E p \in Payments : Invoice(p) \/ Grant(p)

Spec == Init /\ [][Next]_ledger
=============================================================================
