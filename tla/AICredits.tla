----------------------------- MODULE AICredits -----------------------------
(***************************************************************************)
(* The prepaid credits of one company in the AI gateway                    *)
(* (app/ai/service.py: chat, generate): an upfront reservation under the   *)
(* company's row lock, the ai_requests row, the provider call, the         *)
(* settlement or the refund, and the credit grant of the billing code that *)
(* reads and writes the same balance without the lock.                     *)
(*                                                                         *)
(* SELECT ... FOR UPDATE and the commit that ends its transaction are two  *)
(* steps, with the row lock held between them.  A refused call keeps the   *)
(* lock until its session is closed, which needs another turn of the event *)
(* loop; every SELECT and COMMIT blocks the loop it runs on.  A database   *)
(* error leaves the SQLAlchemy session unusable: whatever the handler does *)
(* next with it fails as well.                                             *)
(*                                                                         *)
(* Costs are floats, the balance is Numeric(10, 4): each debit, settlement *)
(* and refund is rounded when it is stored.                                *)
(***************************************************************************)
EXTENDS Integers, FiniteSets, FiniteSetsExt

CONSTANTS
    Calls,        \* requests to /ai/chat and /ai/generate
    Grants,       \* charges that top the balance up
    Loop,         \* calls and grants served by the one API process; each
                  \* other one is served by a process of its own
    Scale,        \* fine units of cost in one stored unit of the balance
    Estimates,    \* what a call may be estimated to cost, in fine units
    Actuals,      \* what it may turn out to cost, in fine units
    Credits,      \* what a grant adds, in stored units
    Start,        \* the balance at the beginning, in stored units
    FaultKinds,   \* faults that may strike
    MaxFaults,    \* bound: how many strike
    None          \* nobody

AllFaults == {"provider", "db", "invalid", "crash"}

ASSUME CreditsAssumption ==
    /\ Estimates \subseteq Nat /\ Actuals \subseteq Nat
    /\ Credits \in Nat /\ Start \in Nat /\ MaxFaults \in Nat
    /\ Scale \in Nat \ {0}
    /\ Loop \subseteq Calls \cup Grants
    /\ FaultKinds \subseteq AllFaults
    /\ Calls \cap Grants = {}
    /\ None \notin Calls
    /\ IsFiniteSet(Calls) /\ IsFiniteSet(Grants)

VARIABLES
    balance,    \* companies.credits_balance, in stored units
    holder,     \* the call whose transaction holds the row lock, or None
    hung,       \* the API process's loop waits for a lock that only it can
                \* release
    pc,         \* where each call and each grant stands, or how it ended
    seen,       \* the balance each one read last
    upfront,    \* what each call reserved
    actual,     \* what each call cost
    row,        \* each call's ai_requests row
    settled,    \* calls whose settlement was committed
    short,      \* total by which calls cost more than they reserved
    writes,     \* rounded writes of the balance so far
    lapses,     \* "overlap": a grant wrote over a change it had not read
    faults      \* faults so far

history == <<settled, short, writes, lapses>>
request == <<upfront, actual, row>>
vars == <<balance, holder, hung, pc, seen, request, history, faults>>

Procs == Calls \cup Grants

(* Steps before the reservation, with it, and after the settlement.         *)
Before == {"idle", "debit", "debiting", "close", "refused"}
During == {"create", "call", "settle", "settling"}
After  == {"record", "reply"}
Repay  == {"refund", "refunding"}
Ended  == {"refused", "done", "unrecorded", "stranded", "failed"}
Steps  == Before \cup During \cup After \cup Repay \cup Ended \cup {"fail"}

Locking == [debit |-> "debiting", settle |-> "settling", refund |-> "refunding"]

Holding == {"debiting", "close", "settling", "refunding"}

(* PostgreSQL rounds to the nearest stored value, half away from zero.      *)
Nearest(x) == (2 * x + Scale) \div (2 * Scale)
Stored(x)  == IF x >= 0 THEN Nearest(x) ELSE -Nearest(-x)

(* A process whose loop hangs does nothing more.                            *)
Runs(p) == ~(hung /\ p \in Loop)

Fault(kind) ==
    /\ kind \in FaultKinds /\ faults < MaxFaults
    /\ faults' = faults + 1

NoFault == UNCHANGED faults

Goto(p, step) == pc' = [pc EXCEPT ![p] = step]

Init ==
    /\ balance = Start
    /\ holder = None
    /\ hung = FALSE
    /\ pc = [p \in Procs |-> "idle"]
    /\ seen = [p \in Procs |-> 0]
    /\ upfront = [c \in Calls |-> 0]
    /\ actual = [c \in Calls |-> 0]
    /\ row = [c \in Calls |-> "none"]
    /\ settled = {}
    /\ short = 0
    /\ writes = 0
    /\ lapses = {}
    /\ faults = 0

-----------------------------------------------------------------------------
(* The reservation *)

(* credits_balance is set to x, in fine units, and committed.               *)
Write(x) == balance' = Stored(x) /\ writes' = writes + 1

Ask(c) ==
    /\ pc[c] = "idle" /\ Runs(c) /\ NoFault
    /\ upfront' \in {[upfront EXCEPT ![c] = e] : e \in Estimates}
    /\ Goto(c, "debit")
    /\ UNCHANGED <<balance, holder, hung, seen, actual, row, history>>

(* SELECT ... FOR UPDATE of the company's row.                              *)
Lock(c, step) ==
    /\ pc[c] = step
    /\ \/ /\ holder = None /\ NoFault
          /\ holder' = c
          /\ seen' = [seen EXCEPT ![c] = balance]
          /\ Goto(c, Locking[step])
       \/ /\ Fault("db")
          /\ Goto(c, IF step = "debit" THEN "refused" ELSE "stranded")
          /\ UNCHANGED <<holder, seen>>
    /\ UNCHANGED <<balance, request, history>>

(* Mutant: any positive balance will do. *)
DebitPositive(c) ==
    /\ pc[c] = "debiting" /\ seen[c] > 0 /\ NoFault
    /\ holder' = None
    /\ Write(Scale * seen[c] - upfront[c])
    /\ Goto(c, "create")
    /\ UNCHANGED <<seen, request, settled, short, lapses>>

(* 402 unless the balance covers the estimate; the refusal leaves its       *)
(* transaction open.                                                        *)
Debit(c) ==
    /\ pc[c] = "debiting"
    /\ \/ /\ Scale * seen[c] >= upfront[c] /\ NoFault
          /\ holder' = None
          /\ Write(Scale * seen[c] - upfront[c])
          /\ Goto(c, "create")
       \/ /\ Scale * seen[c] < upfront[c] /\ NoFault
          /\ Goto(c, "close")
          /\ UNCHANGED <<balance, writes, holder>>
       \/ /\ Fault("db")
          /\ holder' = None
          /\ Goto(c, "refused")
          /\ UNCHANGED <<balance, writes>>
    /\ UNCHANGED <<seen, request, settled, short, lapses>>

(* Mutant: the session of a refused call is never closed. *)
CloseNot(c) ==
    /\ pc[c] = "close" /\ NoFault
    /\ Goto(c, "refused")
    /\ UNCHANGED <<balance, holder, seen, request, history>>

(* get_db closes the session of the refused call.                           *)
Close(c) ==
    /\ pc[c] = "close" /\ NoFault
    /\ holder' = None
    /\ Goto(c, "refused")
    /\ UNCHANGED <<balance, seen, request, history>>

(* Somebody else on the loop asks for the row first, and waits for the lock *)
(* with the loop that was to close the session.                             *)
Hang(p) ==
    /\ p \in Loop /\ Runs(p)
    /\ pc[p] \in DOMAIN Locking \cup {"add"}
    /\ holder \in Loop /\ pc[holder] = "close"
    /\ hung' = TRUE
    /\ UNCHANGED <<balance, holder, pc, seen, request, history, faults>>

(* AIRepository.create_request, outside the try: its failure strands the    *)
(* reservation.  The row's status starts as the column's default, SUCCESS. *)
Create(c) ==
    /\ pc[c] = "create"
    /\ \/ /\ row' = [row EXCEPT ![c] = "SUCCESS"]
          /\ Goto(c, "call") /\ NoFault
       \/ Fault("db") /\ Goto(c, "stranded") /\ UNCHANGED row
    /\ UNCHANGED <<balance, holder, seen, upfront, actual, history>>

-----------------------------------------------------------------------------
(* The provider call, the settlement and its records *)

(* What a call cost beyond its estimate.                                    *)
Excess(c) == IF actual[c] > upfront[c] THEN actual[c] - upfront[c] ELSE 0

(* Mutant: a failed call is marked before it is refunded. *)
CallMarking(c) ==
    /\ pc[c] = "call" /\ Fault("provider")
    /\ row' = [row EXCEPT ![c] = "FAILED"]
    /\ Goto(c, "refund")
    /\ UNCHANGED <<balance, holder, seen, upfront, actual, history>>

(* The providers, their retries and fallbacks: one answers, or none.        *)
Call(c) ==
    /\ pc[c] = "call"
    /\ \/ /\ actual' \in {[actual EXCEPT ![c] = a] : a \in Actuals}
          /\ Goto(c, "settle") /\ NoFault
       \/ Fault("provider") /\ Goto(c, "refund") /\ UNCHANGED actual
    /\ UNCHANGED <<balance, holder, seen, upfront, row, history>>

(* Mutant: the reservation is not given back. *)
SettleForgetting(c) ==
    /\ pc[c] = "settling" /\ NoFault
    /\ holder' = None
    /\ Write(Scale * seen[c] - actual[c])
    /\ settled' = settled \cup {c}
    /\ short' = short + Excess(c)
    /\ Goto(c, "record")
    /\ UNCHANGED <<seen, request, lapses>>

(* The reservation is replaced by the cost.                                 *)
Settle(c) ==
    /\ pc[c] = "settling"
    /\ holder' = None
    /\ \/ /\ Write(Scale * seen[c] + (upfront[c] - actual[c]))
          /\ settled' = settled \cup {c}
          /\ short' = short + Excess(c)
          /\ Goto(c, "record") /\ NoFault
       \/ /\ Fault("db") /\ Goto(c, "stranded")
          /\ UNCHANGED <<balance, writes, settled, short>>
    /\ UNCHANGED <<seen, request, lapses>>

(* update_request with the cost; the usage meter's failure is swallowed.    *)
Record(c) ==
    /\ pc[c] = "record"
    /\ \/ /\ row' = [row EXCEPT ![c] = "CHARGED"]
          /\ Goto(c, "reply") /\ NoFault
       \/ Fault("db") /\ Goto(c, "unrecorded") /\ UNCHANGED row
    /\ UNCHANGED <<balance, holder, seen, upfront, actual, history>>

(* The response is built inside the try: one the schema rejects (a null     *)
(* content) is handled like a failed call, after the settlement.           *)
Reply(c) ==
    /\ pc[c] = "reply"
    /\ \/ Goto(c, "done") /\ NoFault
       \/ Fault("invalid") /\ Goto(c, "refund")
    /\ UNCHANGED <<balance, holder, seen, request, history>>

-----------------------------------------------------------------------------
(* The refund *)

Refund(c) ==
    /\ pc[c] = "refunding"
    /\ holder' = None
    /\ \/ Write(Scale * seen[c] + upfront[c]) /\ Goto(c, "fail") /\ NoFault
       \/ Fault("db") /\ Goto(c, "stranded") /\ UNCHANGED <<balance, writes>>
    /\ UNCHANGED <<seen, request, settled, short, lapses>>

FailRow(c) ==
    /\ pc[c] = "fail"
    /\ Goto(c, "failed")
    /\ \/ row' = [row EXCEPT ![c] = "FAILED"] /\ NoFault
       \/ Fault("db") /\ UNCHANGED row
    /\ UNCHANGED <<balance, holder, seen, upfront, actual, history>>

(* What becomes of a call or a grant whose process dies. A grant that has   *)
(* only read may be asked for again.                                        *)
Killed(p) ==
    CASE pc[p] = "add"                -> "idle"
      [] pc[p] \in Before \ {"idle"}  -> "refused"
      [] pc[p] \in During \cup Repay  -> "stranded"
      [] pc[p] \in After              -> "unrecorded"
      [] pc[p] = "fail"               -> "failed"
      [] OTHER                        -> pc[p]

Mates(c) == IF c \in Loop THEN Loop ELSE {c}

(* Mutant: the dead transaction keeps its row lock. *)
CrashHolding(c) ==
    /\ pc[c] \notin Ended \cup {"idle"} /\ Fault("crash")
    /\ pc' = [p \in Procs |-> IF p \in Mates(c) THEN Killed(p) ELSE pc[p]]
    /\ UNCHANGED <<balance, holder, hung, seen, request, history>>

(* The process of call c dies: its open transactions are rolled back.       *)
Crash(c) ==
    /\ pc[c] \notin Ended \cup {"idle"} /\ Fault("crash")
    /\ pc' = [p \in Procs |-> IF p \in Mates(c) THEN Killed(p) ELSE pc[p]]
    /\ holder' = IF holder \in Mates(c) THEN None ELSE holder
    /\ hung' = (hung /\ c \notin Loop)
    /\ UNCHANGED <<balance, seen, request, history>>

-----------------------------------------------------------------------------
(* SubscriptionService._grant_plan_credits *)

GrantRead(g) ==
    /\ pc[g] = "idle" /\ Runs(g) /\ NoFault
    /\ seen' = [seen EXCEPT ![g] = balance]
    /\ Goto(g, "add")
    /\ UNCHANGED <<balance, holder, hung, request, history>>

(* The UPDATE waits for the row lock and writes what it computed before, in *)
(* Decimal.                                                                 *)
GrantWrite(g) ==
    /\ pc[g] = "add" /\ holder = None /\ Runs(g) /\ NoFault
    /\ balance' = seen[g] + Credits
    /\ lapses' = IF balance # seen[g] THEN lapses \cup {"overlap"} ELSE lapses
    /\ Goto(g, "granted")
    /\ UNCHANGED <<holder, hung, seen, request, settled, short, writes>>

-----------------------------------------------------------------------------
AcquireRow(c) == \E step \in DOMAIN Locking : Lock(c, step)

Serve(c) ==
    /\ Runs(c)
    /\ \/ AcquireRow(c) \/ Debit(c) \/ Close(c) \/ Create(c) \/ Call(c)
       \/ Settle(c) \/ Record(c) \/ Reply(c) \/ Refund(c) \/ FailRow(c)
    /\ UNCHANGED hung

Next ==
    \/ \E c \in Calls : Ask(c) \/ Serve(c) \/ Crash(c)
    \/ \E g \in Grants : GrantRead(g) \/ GrantWrite(g)
    \/ \E p \in Loop : Hang(p)

Spec == Init /\ [][Next]_vars

(* A handler that runs goes on, unless its loop hangs, and PostgreSQL grants*)
(* a row lock in turn.                                                      *)
FairSpec ==
    /\ Spec
    /\ \A c \in Calls : SF_vars(Serve(c) /\ NoFault)
    /\ \A g \in Grants : WF_vars(GrantWrite(g))

-----------------------------------------------------------------------------
(* Properties *)

(* Every variable has its type; a call holds the row between its SELECT and *)
(* its commit, or the end of its session, and nobody else does.            *)
TypeOK ==
    /\ balance \in Int
    /\ holder \in Calls \cup {None}
    /\ pc \in [Procs -> Steps \cup {"add", "granted"}]
    /\ seen \in [Procs -> Int]
    /\ upfront \in [Calls -> Estimates \cup {0}]
    /\ actual \in [Calls -> Actuals \cup {0}]
    /\ row \in [Calls -> {"none", "SUCCESS", "CHARGED", "FAILED"}]
    /\ settled \subseteq Calls
    /\ short \in Nat /\ writes \in Nat
    /\ hung \in BOOLEAN
    /\ lapses \subseteq {"overlap"}
    /\ faults \in 0..MaxFaults
    /\ \A c \in Calls : holder = c <=> pc[c] \in Holding

(* What the balance owes to a call: the reservation while it is out, the    *)
(* cost once it is settled, nothing before the one and after a refund.     *)
Owed(c) ==
    (IF pc[c] \in {"create", "call", "settle", "settling", "refund",
                   "refunding", "stranded"} /\ c \notin settled
     THEN upfront[c] ELSE 0)
    + (IF c \in settled THEN actual[c] ELSE 0)
    - (IF c \in settled /\ pc[c] \in {"fail", "failed"} THEN upfront[c] ELSE 0)

(* No credits appear or vanish: the balance is what was granted less what   *)
(* each call owes, the reservations of dead calls and the second refund of *)
(* a rejected response included, to within half a stored unit for each     *)
(* rounded write, until a grant overwrites a change.                       *)
Conserved ==
    lapses = {} =>
        LET granted == Credits * Cardinality({g \in Grants : pc[g] = "granted"})
            error   == Scale * balance
                       - (Scale * (Start + granted) - MapThenSumSet(Owed, Calls))
        IN  2 * error \in -(Scale * writes) .. Scale * writes

(* Inside a locked section the balance read is the balance. *)
FreshRead == \A c \in Calls : pc[c] \in Holding => seen[c] = balance

(* Calls cannot spend credits the company has not got: the balance goes     *)
(* below zero by no more than calls cost beyond their estimates, and half a *)
(* stored unit for each rounded write.                                      *)
NoOverdraft == 2 * (Scale * balance + short) + Scale * writes >= 0

(* The request's row tells the truth about the credits: a cost is written   *)
(* after the settlement, FAILED after the refund.                          *)
RowTells ==
    \A c \in Calls :
        /\ row[c] = "CHARGED" => c \in settled
        /\ row[c] = "FAILED"  => pc[c] = "failed"
        /\ pc[c] = "done"     => row[c] = "CHARGED"

(* Every call ends, whoever dies with the row locked, unless the API        *)
(* process hangs: it does when a call is refused and another one asks for   *)
(* the row before the refused one's session is closed.                      *)
EveryCallEnds == \A c \in Calls : pc[c] = "debit" ~> pc[c] \in Ended \/ hung
=============================================================================
