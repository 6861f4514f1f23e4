-------------------------- MODULE AICredits_proofs --------------------------
(* Proofs about AICredits, for every set of calls and grants, every price   *)
(* and every value of the bounds.                                           *)
EXTENDS AICredits, Sums

(* What a step of one process does to the steps of all.                     *)
LEMMA GotoType ==
    ASSUME NEW p \in Procs, NEW s \in Steps \cup {"add", "granted"},
           pc \in [Procs -> Steps \cup {"add", "granted"}], Goto(p, s)
    PROVE  /\ pc' \in [Procs -> Steps \cup {"add", "granted"}]
           /\ pc'[p] = s
           /\ \A q \in Procs : q # p => pc'[q] = pc[q]
  BY DEF Goto

LEMMA FaultType ==
    ASSUME faults \in 0..MaxFaults, NEW k, Fault(k) \/ NoFault
    PROVE  faults' \in 0..MaxFaults
  BY CreditsAssumption DEF Fault, NoFault

LEMMA Members == \A c \in Calls : c \in Procs /\ c # None
  BY CreditsAssumption DEF Procs

-----------------------------------------------------------------------------
(* Rounding                                                                 *)

LEMMA Division ==
    ASSUME NEW a \in Int, NEW b \in Nat \ {0}
    PROVE  a \div b \in Int /\ b * (a \div b) <= a /\ a < b * (a \div b) + b
  OBVIOUS

LEMMA Products ==
    ASSUME NEW a \in Int, NEW b \in Int
    PROVE  /\ a * b \in Int /\ (2 * a) * b = 2 * (a * b)
           /\ a * (-b) = -(a * b) /\ a * (b + 1) = a * b + a
           /\ a \in Nat /\ b \in Nat => a * b \in Nat
  OBVIOUS

LEMMA NearestIsNear ==
    ASSUME NEW x \in Int
    PROVE  /\ Nearest(x) \in Int /\ Scale * Nearest(x) \in Int
           /\ 2 * (Scale * Nearest(x) - x) \in -Scale .. Scale
<1> DEFINE a == 2 * x + Scale
           n == Nearest(x)
<1>1. Scale \in Nat \ {0} /\ 2 * Scale \in Nat \ {0} /\ a \in Int
  BY CreditsAssumption
<1>2. n = a \div (2 * Scale)
  BY DEF Nearest
<1> HIDE DEF a, n
<1>3. n \in Int /\ (2 * Scale) * n <= a /\ a < (2 * Scale) * n + 2 * Scale
  BY <1>1, <1>2, Division
<1>4. (2 * Scale) * n = 2 * (Scale * n) /\ Scale * n \in Int
  BY <1>1, <1>3, Products
<1>5. 2 * (Scale * n) <= a /\ a < 2 * (Scale * n) + 2 * Scale
  BY <1>3, <1>4
<1>6. 2 * (Scale * n) <= 2 * x + Scale /\ 2 * x + Scale < 2 * (Scale * n) + 2 * Scale
  BY <1>5 DEF a
<1>7. 2 * (Scale * n - x) \in -Scale .. Scale
  BY <1>1, <1>4, <1>6
<1> QED
  BY <1>3, <1>4, <1>7 DEF n

(* A stored value is within half a stored unit of the exact one.            *)
LEMMA StoredIsNear ==
    ASSUME NEW x \in Int
    PROVE  /\ Stored(x) \in Int /\ Scale * Stored(x) \in Int
           /\ 2 * (Scale * Stored(x) - x) \in -Scale .. Scale
<1>1. CASE x >= 0
  BY <1>1, NearestIsNear DEF Stored
<1>2. CASE ~(x >= 0)
  <2> DEFINE n == Nearest(-x)
  <2>1. n \in Int /\ Scale * n \in Int /\ 2 * (Scale * n - (-x)) \in -Scale .. Scale
    BY NearestIsNear
  <2>2. Stored(x) = -n
    BY <1>2 DEF Stored
  <2> HIDE DEF n
  <2>3. Scale \in Nat /\ Scale * (-n) = -(Scale * n)
    BY <2>1, Products, CreditsAssumption
  <2> QED
    BY <2>1, <2>2, <2>3
<1> QED
  BY <1>1, <1>2

(* What a rounded write does to the balance and to the bound of its error.  *)
LEMMA Rounded ==
    ASSUME TypeOK, NEW x \in Int, Write(x)
    PROVE  /\ balance' \in Int /\ writes' \in Nat
           /\ Scale * balance' \in Int /\ Scale * writes' = Scale * writes + Scale
           /\ 2 * (Scale * balance' - x) \in -Scale .. Scale
  BY StoredIsNear, Products, CreditsAssumption DEF Write, TypeOK

LEMMA Units ==
    ASSUME TypeOK
    PROVE  /\ Scale \in Nat \ {0} /\ Scale * balance \in Int /\ Scale * writes \in Nat
           /\ \A p \in Procs : Scale * seen[p] \in Int
  BY Products, CreditsAssumption DEF TypeOK

-----------------------------------------------------------------------------
(* Typing, and the row lock                                                 *)

LEMMA TypeInit == Init => TypeOK
<1> SUFFICES ASSUME Init PROVE TypeOK
  OBVIOUS
<1>1. "idle" \in Steps \ Holding
  BY DEF Steps, Before, Holding
<1>2. \A c \in Calls : holder = c <=> pc[c] \in Holding
  BY <1>1, Members DEF Init
<1>3. pc \in [Procs -> Steps \cup {"add", "granted"}] /\ seen \in [Procs -> Int]
  BY <1>1 DEF Init
<1>4. balance \in Int /\ faults \in 0..MaxFaults /\ short \in Nat /\ writes \in Nat
  BY CreditsAssumption DEF Init
<1>5. /\ upfront \in [Calls -> Estimates \cup {0}]
      /\ actual \in [Calls -> Actuals \cup {0}]
      /\ row \in [Calls -> {"none", "SUCCESS", "CHARGED", "FAILED"}]
  BY DEF Init
<1>6. /\ settled \subseteq Calls /\ lapses \subseteq {"overlap"}
      /\ holder \in Calls \cup {None} /\ hung \in BOOLEAN
  BY DEF Init
<1> QED
  BY <1>2, <1>3, <1>4, <1>5, <1>6 DEF TypeOK

LEMMA LockType ==
    ASSUME TypeOK, NEW c \in Calls, AcquireRow(c), hung' = hung
    PROVE  TypeOK'
<1> USE DEF request, history
<1> PICK step \in DOMAIN Locking : Lock(c, step)
  BY DEF AcquireRow
<1>1. step \in {"debit", "settle", "refund"} /\ Locking[step] \in Holding
      /\ step \notin Holding /\ pc[c] = step
  BY DEF Locking, Holding, Lock
<1>2. Locking[step] \in Steps
  BY <1>1 DEF Holding, Steps, Before, During, Repay
<1>3. c \in Procs /\ c # None
  BY Members
<1>4. CASE holder = None /\ holder' = c /\ seen' = [seen EXCEPT ![c] = balance]
           /\ Goto(c, Locking[step])
  <2>1. pc' \in [Procs -> Steps \cup {"add", "granted"}] /\ pc'[c] = Locking[step]
        /\ \A q \in Procs : q # c => pc'[q] = pc[q]
    BY <1>2, <1>3, <1>4, GotoType DEF TypeOK
  <2>2. \A d \in Calls : holder' = d <=> pc'[d] \in Holding
    BY <1>1, <1>4, <2>1, Members DEF TypeOK
  <2> QED
    BY <1>3, <1>4, <2>1, <2>2, FaultType DEF Lock, TypeOK
<1>5. CASE /\ UNCHANGED <<holder, seen>>
           /\ Goto(c, IF step = "debit" THEN "refused" ELSE "stranded")
  <2>1. pc' \in [Procs -> Steps \cup {"add", "granted"}] /\ pc'[c] \notin Holding
        /\ \A q \in Procs : q # c => pc'[q] = pc[q]
    BY <1>3, <1>5, GotoType DEF TypeOK, Holding, Steps, Ended
  <2>2. \A d \in Calls : holder' = d <=> pc'[d] \in Holding
    BY <1>1, <1>5, <2>1, Members DEF TypeOK
  <2> QED
    BY <1>5, <2>1, <2>2, FaultType DEF Lock, TypeOK
<1> QED
  BY <1>4, <1>5 DEF Lock

(* A step out of the locked section, with the commit or the rollback.       *)
LEMMA Release ==
    ASSUME TypeOK, NEW c \in Calls, pc[c] \in Holding, holder' = None,
           NEW s \in Steps \ Holding, Goto(c, s)
    PROVE  /\ holder' \in Calls \cup {None}
           /\ pc' \in [Procs -> Steps \cup {"add", "granted"}]
           /\ \A d \in Calls : holder' = d <=> pc'[d] \in Holding
<1>1. pc' \in [Procs -> Steps \cup {"add", "granted"}] /\ pc'[c] = s
      /\ \A q \in Procs : q # c => pc'[q] = pc[q]
  BY GotoType, Members DEF TypeOK
<1> QED
  BY <1>1, Members DEF TypeOK

(* A step outside the locked sections.                                      *)
LEMMA Onward ==
    ASSUME TypeOK, NEW c \in Calls, pc[c] \notin Holding, holder' = holder,
           NEW s \in Steps \ Holding, Goto(c, s)
    PROVE  /\ holder' \in Calls \cup {None}
           /\ pc' \in [Procs -> Steps \cup {"add", "granted"}]
           /\ \A d \in Calls : holder' = d <=> pc'[d] \in Holding
<1>1. pc' \in [Procs -> Steps \cup {"add", "granted"}] /\ pc'[c] = s
      /\ \A q \in Procs : q # c => pc'[q] = pc[q]
  BY GotoType, Members DEF TypeOK
<1> QED
  BY <1>1, Members DEF TypeOK

LEMMA Numbers ==
    ASSUME TypeOK, NEW c \in Calls
    PROVE  /\ upfront[c] \in Nat /\ actual[c] \in Nat
           /\ seen[c] \in Int
<1>1. upfront[c] \in Estimates \cup {0} /\ actual[c] \in Actuals \cup {0}
  BY DEF TypeOK
<1>2. seen[c] \in Int
  BY Members DEF TypeOK
<1>3. Estimates \cup {0} \subseteq Nat /\ Actuals \cup {0} \subseteq Nat
  BY CreditsAssumption
<1> QED
  BY <1>1, <1>2, <1>3

LEMMA ServeType ==
    ASSUME TypeOK, NEW c \in Calls, Serve(c) \/ Ask(c)
    PROVE  TypeOK'
<1> USE DEF Steps, Before, During, After, Repay, Ended, request, history
<1>0. hung' = hung
  BY DEF Ask, Serve
<1>1. CASE Ask(c)
  BY <1>0, <1>1, Onward, FaultType DEF Ask, TypeOK, Holding
<1>2. CASE AcquireRow(c)
  BY <1>0, <1>2, LockType
<1>3. CASE Debit(c)
  <2>1. balance' \in Int /\ writes' \in Nat
    <3>1. Scale * seen[c] - upfront[c] \in Int
      BY Numbers, Units, Members
    <3> QED
      BY <1>3, <3>1, Rounded DEF Debit, TypeOK
  <2>2. CASE Goto(c, "close") /\ UNCHANGED holder
    <3>1. pc[c] \in Holding
      BY <1>3 DEF Debit, Holding
    <3>2. pc' \in [Procs -> Steps \cup {"add", "granted"}] /\ pc'[c] = "close"
          /\ \A q \in Procs : q # c => pc'[q] = pc[q]
      BY <2>2, GotoType, Members DEF TypeOK
    <3>3. \A d \in Calls : holder' = d <=> pc'[d] \in Holding
      BY <2>2, <3>1, <3>2, Members DEF TypeOK, Holding
    <3> QED
      BY <1>0, <1>3, <2>1, <2>2, <3>2, <3>3, FaultType DEF Debit, TypeOK
  <2>3. CASE ~(Goto(c, "close") /\ UNCHANGED holder)
    BY <1>0, <1>3, <2>1, <2>3, Release, FaultType DEF Debit, TypeOK, Holding
  <2> QED
    BY <2>2, <2>3
<1>4. CASE Create(c)
  BY <1>0, <1>4, Onward, FaultType DEF Create, TypeOK, Holding
<1>5. CASE Call(c)
  BY <1>0, <1>5, Onward, FaultType DEF Call, TypeOK, Holding
<1>6. CASE Settle(c)
  <2>1. balance' \in Int /\ writes' \in Nat
    <3>1. Scale * seen[c] + (upfront[c] - actual[c]) \in Int
      BY Numbers, Units, Members
    <3> QED
      BY <1>6, <3>1, Rounded DEF Settle, TypeOK
  <2>2. short' \in Nat /\ settled' \subseteq Calls
    BY <1>6, Numbers DEF Settle, Excess, TypeOK
  <2> QED
    BY <1>0, <1>6, <2>1, <2>2, Release, FaultType DEF Settle, TypeOK, Holding
<1>7. CASE Record(c)
  BY <1>0, <1>7, Onward, FaultType DEF Record, TypeOK, Holding
<1>8. CASE Reply(c)
  BY <1>0, <1>8, Onward, FaultType DEF Reply, TypeOK, Holding
<1>9. CASE Refund(c)
  <2>1. balance' \in Int /\ writes' \in Nat
    <3>1. Scale * seen[c] + upfront[c] \in Int
      BY Numbers, Units, Members
    <3> QED
      BY <1>9, <3>1, Rounded DEF Refund, TypeOK
  <2> QED
    BY <1>0, <1>9, <2>1, Release, FaultType DEF Refund, TypeOK, Holding
<1>10. CASE FailRow(c)
  BY <1>0, <1>10, Onward, FaultType DEF FailRow, TypeOK, Holding
<1>11. CASE Close(c)
  BY <1>0, <1>11, Release, FaultType DEF Close, TypeOK, Holding
<1> QED
  BY <1>1, <1>2, <1>3, <1>4, <1>5, <1>6, <1>7, <1>8, <1>9, <1>10, <1>11
  DEF Serve

(* What a crash makes of each handler of the process.                       *)
LEMMA CrashSteps ==
    ASSUME TypeOK, NEW c \in Calls, Crash(c)
    PROVE  /\ pc' \in [Procs -> Steps \cup {"add", "granted"}]
           /\ \A p \in Procs : \/ p \notin Mates(c) /\ pc'[p] = pc[p]
                               \/ p \in Mates(c) /\ pc'[p] = Killed(p)
           /\ \A p \in Procs : Killed(p) \notin Holding
<1>1. \A p \in Procs : Killed(p) \in (Steps \cup {"add", "granted"}) \ Holding
  BY DEF TypeOK, Killed, Steps, Before, During, After, Repay, Ended, Holding
<1>2. pc' = [p \in Procs |-> IF p \in Mates(c) THEN Killed(p) ELSE pc[p]]
  BY DEF Crash
<1> HIDE DEF Killed, Mates
<1> QED
  BY <1>1, <1>2 DEF TypeOK

LEMMA CrashType ==
    ASSUME TypeOK, NEW c \in Calls, Crash(c)
    PROVE  TypeOK'
<1>1. pc' \in [Procs -> Steps \cup {"add", "granted"}]
  BY CrashSteps
<1>2. holder' \in Calls \cup {None}
  BY DEF Crash, TypeOK
<1>3. \A d \in Calls : holder' = d <=> pc'[d] \in Holding
  <2> SUFFICES ASSUME NEW d \in Calls PROVE holder' = d <=> pc'[d] \in Holding
    OBVIOUS
  <2>1. CASE d \in Mates(c)
    BY <2>1, CrashSteps, Members DEF Crash
  <2>2. CASE d \notin Mates(c)
    BY <2>2, CrashSteps, Members DEF Crash, TypeOK
  <2> QED
    BY <2>1, <2>2
<1> QED
  BY <1>1, <1>2, <1>3, FaultType DEF Crash, TypeOK, request, history

LEMMA HangType ==
    ASSUME TypeOK, NEW p \in Loop, Hang(p)
    PROVE  TypeOK'
  BY DEF Hang, TypeOK, request, history

LEMMA GrantType ==
    ASSUME TypeOK, NEW g \in Grants, GrantRead(g) \/ GrantWrite(g)
    PROVE  TypeOK'
<1> USE DEF request, history
<1>1. g \in Procs /\ g \notin Calls
  BY CreditsAssumption DEF Procs
<1>2. \E s \in {"add", "granted"} : Goto(g, s)
  BY DEF GrantRead, GrantWrite
<1>3. pc' \in [Procs -> Steps \cup {"add", "granted"}]
      /\ \A q \in Procs : q # g => pc'[q] = pc[q]
  BY <1>1, <1>2, GotoType DEF TypeOK
<1>4. \A d \in Calls : holder' = d <=> pc'[d] \in Holding
  BY <1>1, <1>3, Members DEF GrantRead, GrantWrite, TypeOK
<1>5. seen[g] + Credits \in Int
  BY <1>1, CreditsAssumption DEF TypeOK
<1>6. CASE GrantRead(g)
  BY <1>3, <1>4, <1>6, FaultType DEF GrantRead, TypeOK
<1>7. CASE GrantWrite(g)
  BY <1>3, <1>4, <1>5, <1>7, FaultType DEF GrantWrite, TypeOK
<1> QED
  BY <1>6, <1>7

LEMMA TypeStep == TypeOK /\ [Next]_vars => TypeOK'
<1> SUFFICES ASSUME TypeOK, [Next]_vars PROVE TypeOK'
  OBVIOUS
<1>1. CASE UNCHANGED vars
  BY <1>1 DEF vars, request, history, TypeOK
<1>2. CASE Next
  BY <1>2, ServeType, CrashType, HangType, GrantType DEF Next
<1> QED
  BY <1>1, <1>2

(* The balance, the lock and every handler keep their types, and the row    *)
(* lock is held exactly between a handler's SELECT and its commit.          *)
THEOREM TypeCorrect == Spec => []TypeOK
  BY TypeInit, TypeStep, PTL DEF Spec
-----------------------------------------------------------------------------
(* Locked reads are fresh                                                   *)

(* Only the holder of the row lock, or a grant that waited for it, changes  *)
(* the balance.                                                             *)
LEMMA WhoWrites ==
    ASSUME TypeOK, Next, balance' # balance
    PROVE  \/ \E c \in Calls : holder = c /\ holder' = None
           \/ holder = None /\ holder' = None
<1>1. ASSUME NEW c \in Calls, Ask(c) \/ Serve(c) \/ Crash(c)
      PROVE  holder = c /\ holder' = None
  <2>1. Debit(c) \/ Settle(c) \/ Refund(c)
    BY <1>1 DEF Serve, AcquireRow, Lock, Ask, Close, Create, Call, Record, Reply, FailRow, Crash
  <2>2. pc[c] \in Holding /\ holder' = None
    BY <2>1 DEF Debit, Settle, Refund, Holding
  <2> QED
    BY <2>2 DEF TypeOK
<1>2. ASSUME NEW g \in Grants, GrantRead(g) \/ GrantWrite(g)
      PROVE  holder = None /\ holder' = None
  BY <1>2 DEF GrantRead, GrantWrite
<1>3. ASSUME NEW p \in Loop, Hang(p) PROVE FALSE
  BY <1>3 DEF Hang
<1> QED
  BY <1>1, <1>2, <1>3 DEF Next

(* Entering a locked section reads the balance; inside, nothing changes     *)
(* what was read.                                                           *)
LEMMA WhoReads ==
    ASSUME TypeOK, TypeOK', Next, NEW c \in Calls, pc'[c] \in Holding
    PROVE  \/ seen'[c] = balance /\ balance' = balance
           \/ pc[c] \in Holding /\ seen'[c] = seen[c]
<1>1. ASSUME NEW d \in Calls, AcquireRow(d)
      PROVE  \/ seen'[c] = balance /\ balance' = balance
             \/ pc[c] \in Holding /\ seen'[c] = seen[c]
  <2>1. PICK step \in DOMAIN Locking : Lock(d, step)
    BY <1>1 DEF AcquireRow
  <2>2. Goto(d, Locking[step]) \/ pc'[d] \in {"refused", "stranded"}
    BY <2>1, Members DEF Lock, Goto, TypeOK
  <2>3. CASE c = d
    BY <2>1, <2>2, <2>3, Members DEF Lock, Holding, TypeOK
  <2>4. CASE c # d
    BY <2>1, <2>4, Members DEF Lock, Goto, TypeOK
  <2> QED
    BY <2>3, <2>4
<1>2. ASSUME NEW d \in Calls, Ask(d) \/ Debit(d) \/ Close(d) \/ Create(d) \/ Call(d)
             \/ Settle(d) \/ Record(d) \/ Reply(d) \/ Refund(d) \/ FailRow(d)
      PROVE  pc[c] \in Holding /\ seen'[c] = seen[c]
  <2>1. seen' = seen
    BY <1>2 DEF Ask, Debit, Close, Create, Call, Settle, Record, Reply, Refund, FailRow
  <2>2. \/ \E s \in Steps \ Holding : Goto(d, s)
        \/ pc[d] \in Holding /\ Goto(d, "close")
    BY <1>2 DEF Ask, Debit, Close, Create, Call, Settle, Record, Reply, Refund, FailRow,
       Steps, Before, During, After, Repay, Ended, Holding
  <2> QED
    BY <2>1, <2>2, Members DEF Goto, TypeOK
<1>4. ASSUME NEW d \in Calls, Crash(d)
      PROVE  pc[c] \in Holding /\ seen'[c] = seen[c]
  BY <1>4, CrashSteps, Members DEF Crash
<1>5. ASSUME NEW p \in Loop, Hang(p)
      PROVE  pc[c] \in Holding /\ seen'[c] = seen[c]
  BY <1>5 DEF Hang
<1>3. ASSUME NEW g \in Grants, GrantRead(g) \/ GrantWrite(g)
      PROVE  pc[c] \in Holding /\ seen'[c] = seen[c]
  <2>1. c # g
    BY CreditsAssumption
  <2> QED
    BY <1>3, <2>1, Members DEF GrantRead, GrantWrite, Goto, TypeOK
<1> QED
  BY <1>1, <1>2, <1>3, <1>4, <1>5 DEF Next, Serve

LEMMA FreshStep == TypeOK /\ FreshRead /\ [Next]_vars => FreshRead'
<1> SUFFICES ASSUME TypeOK, FreshRead, [Next]_vars, NEW c \in Calls, pc'[c] \in Holding
             PROVE  seen'[c] = balance'
  BY DEF FreshRead
<1>1. CASE UNCHANGED vars
  BY <1>1 DEF vars, FreshRead
<1>2. CASE Next
  <2>1. TypeOK'
    BY TypeStep
  <2>2. holder' = c
    BY <2>1 DEF TypeOK
  <2>3. balance' = balance
    BY <1>2, <2>2, WhoWrites, Members
  <2> QED
    BY <1>2, <2>1, <2>3, WhoReads DEF FreshRead
<1> QED
  BY <1>1, <1>2

(* What a call computes with between its SELECT ... FOR UPDATE and its      *)
(* commit is the balance in the database: no debit, settlement or refund    *)
(* overwrites another.                                                      *)
THEOREM LockedReadsAreFresh == Spec => []FreshRead
<1>1. Init => FreshRead
  BY Members DEF Init, FreshRead, Holding
<1> QED
  BY <1>1, TypeInit, TypeStep, FreshStep, PTL DEF Spec
-----------------------------------------------------------------------------
(* Nothing is spent that is not there                                       *)

(* The part of NoOverdraft that bounds what a grant has read, which it may  *)
(* still write back.                                                        *)
Funded ==
    /\ NoOverdraft
    /\ \A g \in Grants :
           pc[g] = "add" => 2 * (Scale * seen[g] + short) + Scale * writes >= 0

(* What a call's step writes, and what it makes of the bound.               *)
LEMMA CallFunds ==
    ASSUME TypeOK, FreshRead, NoOverdraft, NEW c \in Calls, Ask(c) \/ Serve(c)
    PROVE  /\ NoOverdraft'
           /\ short' \in Nat /\ short' >= short
           /\ Scale * writes' \in Nat /\ Scale * writes' >= Scale * writes
<1>1. /\ short \in Nat /\ actual[c] \in Nat /\ upfront[c] \in Nat
      /\ Scale * seen[c] \in Int /\ Scale * balance \in Int
      /\ Scale \in Nat /\ Scale * writes \in Nat
      /\ 2 * (Scale * balance + short) + Scale * writes >= 0
  BY Numbers, Units, Members DEF TypeOK, NoOverdraft
<1>2. CASE UNCHANGED <<balance, short, writes>>
  BY <1>1, <1>2 DEF NoOverdraft
<1>3. ASSUME NEW x \in Int, NEW k \in Nat, Write(x), short' = short + k,
             x + k >= 0 \/ x + k >= Scale * balance
      PROVE  /\ NoOverdraft'
             /\ short' \in Nat /\ short' >= short
             /\ Scale * writes' \in Nat /\ Scale * writes' >= Scale * writes
  <2>1. /\ Scale * balance' \in Int /\ Scale * writes' = Scale * writes + Scale
        /\ 2 * (Scale * balance' - x) \in -Scale .. Scale
    BY <1>3, Rounded
  <2>2. 2 * (Scale * balance' + short') + Scale * writes' >= 0
    <3>1. 2 * (Scale * balance') >= 2 * x - Scale
      BY <1>1, <2>1
    <3>2. 2 * (Scale * balance') + Scale * writes' >= 2 * x + Scale * writes
      BY <1>1, <2>1, <3>1
    <3> QED
      BY <1>1, <1>3, <2>1, <3>2
  <2> QED
    BY <1>1, <1>3, <2>1, <2>2 DEF NoOverdraft
<1>4. CASE Debit(c) /\ ~UNCHANGED <<balance, short, writes>>
  BY <1>1, <1>3, <1>4 DEF Debit
<1>5. CASE Settle(c) /\ ~UNCHANGED <<balance, short, writes>>
  <2>1. seen[c] = balance
    BY <1>5 DEF Settle, FreshRead, Holding
  <2>2. /\ Excess(c) \in Nat /\ Scale * seen[c] + (upfront[c] - actual[c]) \in Int
        /\ Scale * seen[c] + (upfront[c] - actual[c]) + Excess(c) >= Scale * balance
    BY <1>1, <2>1 DEF Excess
  <2>3. Write(Scale * seen[c] + (upfront[c] - actual[c])) /\ short' = short + Excess(c)
    BY <1>5 DEF Settle
  <2> QED
    BY <1>3, <2>2, <2>3
<1>6. CASE Refund(c) /\ ~UNCHANGED <<balance, short, writes>>
  <2>1. seen[c] = balance
    BY <1>6 DEF Refund, FreshRead, Holding
  <2>2. Write(Scale * seen[c] + upfront[c]) /\ short' = short + 0
    BY <1>1, <1>6 DEF Refund
  <2>3. /\ Scale * seen[c] + upfront[c] \in Int
        /\ Scale * seen[c] + upfront[c] + 0 >= Scale * balance
    BY <1>1, <2>1
  <2> QED
    BY <1>3, <2>2, <2>3
<1>7. CASE ~(Debit(c) \/ Settle(c) \/ Refund(c))
  <2>1. UNCHANGED <<balance, short, writes>>
    BY <1>7 DEF Ask, Serve, AcquireRow, Lock, Close, Create, Call, Record, Reply, FailRow,
       history
  <2> QED
    BY <1>2, <2>1
<1> QED
  BY <1>2, <1>4, <1>5, <1>6, <1>7

LEMMA FundedStep == TypeOK /\ FreshRead /\ Funded /\ [Next]_vars => Funded'
<1> SUFFICES ASSUME TypeOK, FreshRead, Funded, [Next]_vars PROVE Funded'
  OBVIOUS
<1>0. /\ short \in Nat /\ Scale * writes \in Nat /\ Scale * balance \in Int
      /\ \A g \in Grants : g \in Procs /\ Scale * seen[g] \in Int
  BY Units DEF TypeOK, Procs
<1>1. CASE UNCHANGED <<balance, pc, seen, short, writes>>
  BY <1>1 DEF Funded, NoOverdraft
<1>2. ASSUME NEW c \in Calls, Ask(c) \/ Serve(c)
      PROVE  Funded'
  <2>1. \A g \in Grants : g # c
    BY CreditsAssumption
  <2>2. \A g \in Grants : pc'[g] = pc[g] /\ seen'[g] = seen[g]
    BY <1>0, <1>2, <2>1 DEF Serve, AcquireRow, Lock, Ask, Close, Create, Call, Record, Reply,
       FailRow, Debit, Settle, Refund, Goto, TypeOK
  <2> QED
    BY <1>0, <1>2, <2>2, CallFunds DEF Funded
<1>3. ASSUME NEW c \in Calls, Crash(c)
      PROVE  Funded'
  <2>1. /\ seen' = seen /\ balance' = balance /\ short' = short /\ writes' = writes
        /\ \A g \in Grants : pc'[g] = "add" => pc[g] = "add"
    BY <1>0, <1>3, CrashSteps DEF Crash, history, Killed
  <2> QED
    BY <2>1 DEF Funded, NoOverdraft
<1>4. ASSUME NEW g \in Grants, GrantRead(g)
      PROVE  Funded'
  <2>1. g \in Procs /\ short' = short /\ balance' = balance /\ writes' = writes
    BY <1>4 DEF GrantRead, Procs, history
  <2>2. \A h \in Grants : pc'[h] = "add" => seen'[h] = balance \/ (pc[h] = "add" /\ seen'[h] = seen[h])
    BY <1>4, <2>1 DEF GrantRead, Goto, TypeOK, Procs
  <2> QED
    BY <2>1, <2>2 DEF Funded, NoOverdraft
<1>5. ASSUME NEW g \in Grants, GrantWrite(g)
      PROVE  Funded'
  <2>1. /\ g \in Procs /\ short' = short /\ seen' = seen /\ writes' = writes
        /\ pc[g] = "add" /\ balance' = seen[g] + Credits
    BY <1>5 DEF GrantWrite, Procs
  <2>2. seen[g] \in Int /\ Credits \in Nat /\ Scale \in Nat
    BY <2>1, CreditsAssumption DEF TypeOK
  <2>3. /\ Scale * balance' = Scale * seen[g] + Scale * Credits
        /\ Scale * Credits \in Nat
    BY <2>1, <2>2
  <2>4. 2 * (Scale * balance' + short') + Scale * writes' >= 0
    BY <1>0, <2>1, <2>3 DEF Funded
  <2>5. \A h \in Grants : pc'[h] = "add" => pc[h] = "add"
    BY <1>5, <2>1 DEF GrantWrite, Goto, TypeOK, Procs
  <2> QED
    BY <2>1, <2>4, <2>5 DEF Funded, NoOverdraft
<1> QED
  BY <1>1, <1>2, <1>3, <1>4, <1>5 DEF Next, vars, history, Hang

(* Calls cannot spend credits the company has not got: however many run at  *)
(* once, the balance falls below zero only by what calls cost beyond their  *)
(* estimates and by half a stored unit for each rounded write, even when    *)
(* grants overwrite each other's or a call's change.                        *)
THEOREM OverdraftIsBounded == Spec => []NoOverdraft
<1>1. Init => TypeOK /\ FreshRead /\ Funded
  <2> SUFFICES ASSUME Init PROVE TypeOK /\ FreshRead /\ Funded
    OBVIOUS
  <2>1. /\ balance = Start /\ short = 0 /\ writes = 0 /\ Start \in Nat
        /\ Scale \in Nat /\ Scale * Start \in Nat /\ Scale * 0 = 0
    BY CreditsAssumption, Products DEF Init
  <2>2. \A g \in Grants : pc[g] = "idle"
    BY DEF Init, Procs
  <2>3. FreshRead
    BY Members DEF Init, FreshRead, Holding
  <2> QED
    BY <2>1, <2>2, <2>3, TypeInit DEF Funded, NoOverdraft
<1>2. Funded => NoOverdraft
  BY DEF Funded
<1> QED
  BY <1>1, <1>2, TypeStep, FreshStep, FundedStep, PTL DEF Spec

-----------------------------------------------------------------------------
(* The request's row tells the truth                                        *)

(* What a call past its settlement has behind it.                           *)
Behind ==
    \A c \in Calls :
        /\ pc[c] \in After => c \in settled
        /\ pc[c] = "reply"  => row[c] = "CHARGED"

LEMMA RowStep == TypeOK /\ RowTells /\ Behind /\ [Next]_vars => RowTells' /\ Behind'
<1> SUFFICES ASSUME TypeOK, RowTells, Behind, [Next]_vars PROVE RowTells' /\ Behind'
  OBVIOUS
<1> USE DEF RowTells, Behind, After, request, history
<1>1. CASE UNCHANGED vars
  BY <1>1 DEF vars
<1>2. ASSUME NEW c \in Calls, Ask(c) \/ Serve(c)
      PROVE  RowTells' /\ Behind'
  <2>1. /\ \A d \in Calls : d # c => pc'[d] = pc[d] /\ row'[d] = row[d]
        /\ settled \subseteq settled'
    BY <1>2, Members DEF Serve, AcquireRow, Lock, Ask, Close, Create, Call, Record, Reply,
       FailRow, Debit, Settle, Refund, Goto, TypeOK
  <2>2. /\ row'[c] = "CHARGED" => c \in settled'
        /\ row'[c] = "FAILED" => pc'[c] = "failed"
        /\ pc'[c] = "done" => row'[c] = "CHARGED"
        /\ pc'[c] \in After => c \in settled'
        /\ pc'[c] = "reply" => row'[c] = "CHARGED"
    <3> USE Members DEF Goto, TypeOK
    <3>1. CASE Ask(c) \/ AcquireRow(c)
      BY <3>1 DEF Ask, AcquireRow, Lock, Locking
    <3>2. CASE Debit(c) \/ Close(c) \/ Settle(c) \/ Refund(c)
      BY <3>2 DEF Debit, Close, Settle, Refund
    <3>3. CASE Create(c) \/ Call(c)
      BY <3>3 DEF Create, Call
    <3>4. CASE Record(c) \/ Reply(c)
      BY <3>4 DEF Record, Reply
    <3>5. CASE FailRow(c)
      BY <3>5 DEF FailRow
    <3> QED
      BY <1>2, <3>1, <3>2, <3>3, <3>4, <3>5 DEF Serve
  <2> QED
    BY <2>1, <2>2
<1>3. ASSUME NEW g \in Grants, GrantRead(g) \/ GrantWrite(g)
      PROVE  RowTells' /\ Behind'
  <2>1. \A c \in Calls : c # g
    BY CreditsAssumption
  <2>2. \A c \in Calls : pc'[c] = pc[c]
    BY <1>3, <2>1, Members DEF GrantRead, GrantWrite, Goto, TypeOK
  <2>3. row' = row /\ settled' = settled
    BY <1>3 DEF GrantRead, GrantWrite
  <2> QED
    BY <2>2, <2>3
<1>4. ASSUME NEW d \in Calls, Crash(d)
      PROVE  RowTells' /\ Behind'
  <2>1. row' = row /\ settled' = settled
    BY <1>4 DEF Crash
  <2>2. \A c \in Calls : pc'[c] = pc[c] \/ pc'[c] = Killed(c)
    BY <1>4, CrashSteps, Members
  <2>3. \A c \in Calls : /\ pc[c] = "failed" => Killed(c) = "failed"
                         /\ Killed(c) = "done" => pc[c] = "done"
                         /\ Killed(c) \notin After
    BY Members DEF Killed, Before, During, Repay, TypeOK
  <2> QED
    BY <2>1, <2>2, <2>3
<1>5. ASSUME NEW p \in Loop, Hang(p)
      PROVE  RowTells' /\ Behind'
  BY <1>5 DEF Hang
<1> QED
  BY <1>1, <1>2, <1>3, <1>4, <1>5 DEF Next

(* A row that shows a cost belongs to a settled call, one marked FAILED to  *)
(* a refunded one, and every call answered with success shows its cost.     *)
THEOREM RowsTellTheTruth == Spec => []RowTells
<1>1. Init => RowTells /\ Behind
  BY Members DEF Init, RowTells, Behind, After
<1> QED
  BY <1>1, TypeInit, TypeStep, RowStep, PTL DEF Spec

-----------------------------------------------------------------------------
(* No credits appear or vanish                                              *)

Debts  == [c \in Calls |-> Owed(c)]
Paid   == {g \in Grants : pc[g] = "granted"}

(* What is owed is a sum, whatever the order in which it is taken.          *)
LEMMA OwedIsSum == MapThenSumSet(Owed, Calls) = SumOf(Debts, Calls)
  BY DEF MapThenSumSet, MapThenFoldSet, SumOf, Sums, First, Debts

LEMMA OwedType == TypeOK => Debts \in [Calls -> Int]
<1> SUFFICES ASSUME TypeOK PROVE Debts \in [Calls -> Int]
  OBVIOUS
<1>1. ASSUME NEW c \in Calls PROVE Owed(c) \in Int
  BY Numbers DEF Owed
<1> QED
  BY <1>1 DEF Debts

LEMMA OwedTypeNext == TypeOK' => (Debts \in [Calls -> Int])'
  BY OwedType, PTL

(* A call is settled between its settlement and its end.                    *)
Settlement ==
    \A c \in Calls :
        /\ pc[c] \in Steps
        /\ pc[c] \in Before \cup During => c \notin settled
        /\ pc[c] \in After => c \in settled

(* One step's share of the rounding.                                        *)
Within(error) == 2 * error \in -(Scale * writes' - Scale * writes)
                               .. Scale * writes' - Scale * writes

LEMMA Exactly ==
    ASSUME TypeOK, balance' = balance, writes' = writes, NEW d \in Int, d = 0
    PROVE  Within(Scale * balance' - (Scale * balance - d))
  BY Units DEF Within

LEMMA Nearly ==
    ASSUME TypeOK, NEW d \in Int, Write(Scale * balance - d)
    PROVE  Within(Scale * balance' - (Scale * balance - d))
  BY Units, Rounded DEF Within

(* What a step of a call takes from the balance is what it owes more, to    *)
(* the rounding.                                                            *)
LEMMA Balanced ==
    ASSUME TypeOK, FreshRead, Settlement, NEW c \in Calls, Ask(c) \/ Serve(c)
    PROVE  /\ Within(Scale * balance' - (Scale * balance - (Owed(c)' - Owed(c))))
           /\ lapses' = lapses
           /\ pc'[c] \in Before \cup During => c \notin settled'
           /\ pc'[c] \in After => c \in settled'
<1> DEFINE more == Owed(c)' - Owed(c)
           Good == /\ lapses' = lapses
                   /\ pc'[c] \in Before \cup During => c \notin settled'
                   /\ pc'[c] \in After => c \in settled'
<1>0. /\ upfront[c] \in Nat /\ actual[c] \in Nat /\ seen[c] \in Int /\ balance \in Int
      /\ pc[c] \in Steps \cup {"add", "granted"}
      /\ pc[c] \in Holding => seen[c] = balance
  BY Numbers, Members DEF TypeOK, FreshRead
<1>1. /\ pc[c] \in Steps
      /\ pc[c] \in Before \cup During => c \notin settled
      /\ pc[c] \in After => c \in settled
  BY DEF Settlement
<1>a. SUFFICES Good /\ ( \/ balance' = balance /\ writes' = writes /\ more = 0
                         \/ more \in Int /\ Write(Scale * balance - more))
  <2>1. CASE balance' = balance /\ writes' = writes /\ more = 0
    BY <1>a, <2>1, Exactly
  <2>2. CASE more \in Int /\ Write(Scale * balance - more)
    BY <1>a, <2>2, Nearly
  <2> QED
    BY <1>a, <2>1, <2>2
<1> USE <1>0, <1>1, Members DEF Before, During, After, request, history
<1>2. CASE Ask(c)
  BY <1>2 DEF Ask, Owed, Goto, TypeOK
<1>3. CASE AcquireRow(c)
  <2>1. PICK step \in {"debit", "settle", "refund"} : Lock(c, step)
    BY <1>3 DEF AcquireRow, Locking
  <2>2. /\ balance' = balance /\ upfront' = upfront /\ actual' = actual /\ settled' = settled
        /\ lapses' = lapses /\ writes' = writes /\ pc[c] = step
        /\ pc'[c] = Locking[step] \/ pc'[c] = IF step = "debit" THEN "refused" ELSE "stranded"
    BY <2>1 DEF Lock, Goto, TypeOK
  <2>3. CASE step = "debit"
    BY <2>2, <2>3 DEF Owed, Locking
  <2>4. CASE step = "settle"
    BY <2>2, <2>4 DEF Owed, Locking
  <2>5. CASE step = "refund"
    BY <2>2, <2>5 DEF Owed, Locking
  <2> QED
    BY <2>3, <2>4, <2>5
<1>b. Scale * balance \in Int
  BY Units
<1>4. CASE Debit(c)
  <2>1. pc[c] = "debiting" /\ seen[c] = balance
    BY <1>4 DEF Debit, Holding
  <2>2. CASE Write(Scale * seen[c] - upfront[c]) /\ Goto(c, "create")
    <3>1. more = upfront[c] /\ Good
      BY <1>4, <2>1, <2>2 DEF Debit, Owed, Goto, TypeOK
    <3> QED
      BY <2>1, <2>2, <3>1
  <2>3. CASE pc'[c] \in {"close", "refused"} /\ UNCHANGED <<balance, writes>>
    BY <1>4, <2>1, <2>3 DEF Debit, Owed
  <2> QED
    BY <1>4, <2>2, <2>3 DEF Debit, Goto, TypeOK
<1>12. CASE Close(c)
  BY <1>12 DEF Close, Owed, Goto, TypeOK
<1>5. CASE Create(c)
  BY <1>5 DEF Create, Owed, Goto, TypeOK
<1>6. CASE Call(c)
  BY <1>6 DEF Call, Owed, Goto, TypeOK
<1>7. CASE Settle(c)
  <2>1. pc[c] = "settling" /\ seen[c] = balance
    BY <1>7 DEF Settle, Holding
  <2>2. CASE Write(Scale * seen[c] + (upfront[c] - actual[c])) /\ Goto(c, "record")
                /\ settled' = settled \cup {c}
    <3>1. more = actual[c] - upfront[c] /\ Good
      BY <1>7, <2>1, <2>2 DEF Settle, Owed, Goto, TypeOK
    <3>2. Scale * seen[c] + (upfront[c] - actual[c]) = Scale * balance - more
      BY <1>b, <2>1, <3>1
    <3> QED
      BY <2>2, <3>1, <3>2
  <2>3. CASE Goto(c, "stranded") /\ UNCHANGED <<balance, writes, settled, short>>
    BY <1>7, <2>1, <2>3 DEF Settle, Owed, Goto, TypeOK
  <2> QED
    BY <1>7, <2>2, <2>3 DEF Settle
<1>8. CASE Record(c)
  BY <1>8 DEF Record, Owed, Goto, TypeOK
<1>9. CASE Reply(c)
  BY <1>9 DEF Reply, Owed, Goto, TypeOK
<1>10. CASE Refund(c)
  <2>1. pc[c] = "refunding" /\ seen[c] = balance
    BY <1>10 DEF Refund, Holding
  <2>2. CASE Write(Scale * seen[c] + upfront[c]) /\ Goto(c, "fail")
    <3>1. more = -upfront[c] /\ Good
      BY <1>10, <2>1, <2>2 DEF Refund, Owed, Goto, TypeOK
    <3>2. Scale * seen[c] + upfront[c] = Scale * balance - more
      BY <1>b, <2>1, <3>1
    <3> QED
      BY <2>2, <3>1, <3>2
  <2>3. CASE Goto(c, "stranded") /\ UNCHANGED <<balance, writes>>
    BY <1>10, <2>1, <2>3 DEF Refund, Owed, Goto, TypeOK
  <2> QED
    BY <1>10, <2>2, <2>3 DEF Refund
<1>11. CASE FailRow(c)
  BY <1>11 DEF FailRow, Owed, Goto, TypeOK
<1> QED
  BY <1>2, <1>3, <1>4, <1>5, <1>6, <1>7, <1>8, <1>9, <1>10, <1>11, <1>12 DEF Serve

(* Nothing else is owed more, or granted, by that step.                     *)
LEMMA OthersOwe ==
    ASSUME TypeOK, NEW c \in Calls, Ask(c) \/ Serve(c)
    PROVE  /\ \A d \in Calls : d # c => Owed(d)' = Owed(d) /\ pc'[d] = pc[d]
                                        /\ (d \in settled' <=> d \in settled)
           /\ Paid' = Paid
           /\ pc'[c] \in Steps
<1>1. PICK s \in Steps : Goto(c, s)
  <2>1. CASE AcquireRow(c)
    BY <2>1 DEF AcquireRow, Lock, Locking, Steps, Ended, During, Before, Repay
  <2> QED
    BY <2>1 DEF Ask, Serve, Close, Create, Call, Record, Reply, FailRow, Debit, Settle, Refund,
       Steps, Before, During, After, Repay, Ended
<1>2. \A d \in Procs : d # c => pc'[d] = pc[d]
  BY <1>1 DEF Goto, TypeOK
<1>3. \A d \in Calls : d # c => /\ upfront'[d] = upfront[d] /\ actual'[d] = actual[d]
                                /\ d \in settled' <=> d \in settled
  BY DEF Ask, Serve, AcquireRow, Lock, Close, Create, Call, Record, Reply, FailRow, Debit,
     Settle, Refund, TypeOK, request, history
<1>4. \A g \in Grants : g \in Procs /\ g # c
  BY CreditsAssumption DEF Procs
<1>5. pc'[c] = s
  BY <1>1, Members DEF Goto, TypeOK
<1> QED
  BY <1>1, <1>2, <1>3, <1>4, <1>5, Members DEF Owed, Paid

(* What a crash leaves behind is owed as before.                            *)
LEMMA CrashOwes ==
    ASSUME TypeOK, Settlement, NEW c \in Calls, Crash(c)
    PROVE  /\ \A d \in Calls : Owed(d)' = Owed(d)
           /\ UNCHANGED <<balance, writes, lapses, Paid>>
           /\ Settlement'
<1>1. UNCHANGED <<balance, upfront, actual, settled, lapses, writes>>
  BY DEF Crash, request, history
<1>2. ASSUME NEW d \in Calls
      PROVE  /\ Owed(d)' = Owed(d)
             /\ pc'[d] \in Steps
             /\ pc'[d] \in Before \cup During => d \notin settled'
             /\ pc'[d] \in After => d \in settled'
  <2>1. /\ pc[d] \in Steps
        /\ pc[d] \in Before \cup During => d \notin settled
        /\ pc[d] \in After => d \in settled
    BY DEF Settlement
  <2>2. pc'[d] = pc[d] \/ pc'[d] = Killed(d)
    BY CrashSteps, Members
  <2>3. CASE pc'[d] = pc[d]
    BY <1>1, <2>1, <2>3 DEF Owed
  <2>4. CASE pc'[d] = Killed(d)
    <3>1. CASE pc[d] \in Before \ {"idle"}
      <4>1. pc'[d] = "refused"
        BY <2>4, <3>1 DEF Killed, Before, During, Repay, After
      <4> QED
        BY <1>1, <2>1, <3>1, <4>1 DEF Owed, Before, After, Steps, During
    <3>2. CASE pc[d] \in During \cup Repay
      <4>1. pc'[d] = "stranded"
        BY <2>4, <3>2 DEF Killed, Before, During, Repay, After
      <4> QED
        BY <1>1, <2>1, <3>2, <4>1 DEF Owed, Before, During, After, Repay, Steps, Ended
    <3>3. CASE pc[d] \in After
      <4>1. pc'[d] = "unrecorded"
        BY <2>4, <3>3 DEF Killed, Before, During, Repay, After
      <4> QED
        BY <1>1, <2>1, <3>3, <4>1 DEF Owed, Before, During, After, Steps, Ended
    <3>4. CASE pc[d] = "fail"
      <4>1. pc'[d] = "failed"
        BY <2>4, <3>4 DEF Killed, Before, During, Repay, After
      <4> QED
        BY <1>1, <2>1, <3>4, <4>1 DEF Owed, Before, During, After, Steps, Ended
    <3>5. CASE pc[d] \in Ended \cup {"idle"} /\ pc[d] # "refused"
      <4>1. pc'[d] = pc[d]
        BY <2>4, <3>5 DEF Killed, Before, During, Repay, After, Ended
      <4> QED
        BY <2>3, <4>1
    <3> QED
      BY <2>1, <3>1, <3>2, <3>3, <3>4, <3>5 DEF Steps, Before
  <2> QED
    BY <2>2, <2>3, <2>4
<1>3. Paid' = Paid
  <2>1. \A g \in Grants : g \in Procs /\ (pc'[g] = pc[g] \/ pc'[g] = Killed(g))
    BY CrashSteps DEF Procs
  <2>2. \A g \in Grants : Killed(g) = "granted" <=> pc[g] = "granted"
    BY DEF Killed, Before, During, Repay, After
  <2> QED
    BY <2>1, <2>2 DEF Paid
<1> QED
  BY <1>1, <1>2, <1>3 DEF Settlement

LEMMA GrantsOwe ==
    ASSUME TypeOK, NEW g \in Grants, GrantRead(g) \/ GrantWrite(g)
    PROVE  /\ \A d \in Calls : Owed(d)' = Owed(d) /\ pc'[d] = pc[d]
           /\ settled' = settled
           /\ writes' = writes
           /\ GrantRead(g) => Paid' = Paid /\ balance' = balance /\ lapses' = lapses
           /\ GrantWrite(g) => /\ Paid' = Paid \cup {g} /\ g \notin Paid
                               /\ lapses' = {} => lapses = {} /\ balance' = balance + Credits
<1>1. \A d \in Procs : d # g => pc'[d] = pc[d]
  BY DEF GrantRead, GrantWrite, Goto, TypeOK
<1>2. \A d \in Calls : d \in Procs /\ d # g
  BY CreditsAssumption DEF Procs
<1>3. g \in Procs /\ \A h \in Grants : h \in Procs
  BY DEF Procs
<1>4. /\ GrantRead(g) => pc[g] = "idle" /\ pc'[g] = "add"
      /\ GrantWrite(g) => pc[g] = "add" /\ pc'[g] = "granted"
  BY <1>3 DEF GrantRead, GrantWrite, Goto, TypeOK
<1>5. \A d \in Calls : Owed(d)' = Owed(d) /\ pc'[d] = pc[d]
  BY <1>1, <1>2 DEF GrantRead, GrantWrite, Owed, request, history
<1>6. settled' = settled /\ writes' = writes
  BY DEF GrantRead, GrantWrite, history
<1>7. GrantRead(g) => Paid' = Paid /\ balance' = balance /\ lapses' = lapses
  BY <1>1, <1>3, <1>4 DEF GrantRead, Paid, history
<1>8. GrantWrite(g) => Paid' = Paid \cup {g} /\ g \notin Paid
  BY <1>1, <1>3, <1>4 DEF Paid
<1>9. GrantWrite(g) /\ lapses' = {} => lapses = {} /\ balance' = balance + Credits
  BY DEF GrantWrite
<1> QED
  BY <1>5, <1>6, <1>7, <1>8, <1>9

LEMMA SettlementStep ==
    TypeOK /\ FreshRead /\ Settlement /\ [Next]_vars => Settlement'
<1> SUFFICES ASSUME TypeOK, FreshRead, Settlement, [Next]_vars PROVE Settlement'
  OBVIOUS
<1>1. CASE UNCHANGED <<pc, settled>>
  BY <1>1 DEF Settlement
<1>2. ASSUME NEW c \in Calls, Ask(c) \/ Serve(c) PROVE Settlement'
  BY <1>2, Balanced, OthersOwe DEF Settlement
<1>3. ASSUME NEW c \in Calls, Crash(c) PROVE Settlement'
  BY <1>3, CrashOwes
<1>4. ASSUME NEW g \in Grants, GrantRead(g) \/ GrantWrite(g) PROVE Settlement'
  BY <1>4, GrantsOwe DEF Settlement
<1> QED
  BY <1>1, <1>2, <1>3, <1>4 DEF Next, Hang, vars, history

(* The balance, with the debts as one sum.                                  *)
Error ==
    Scale * balance
    - (Scale * (Start + Credits * Cardinality(Paid)) - SumOf(Debts, Calls))

Balance == lapses = {} => 2 * Error \in -(Scale * writes) .. Scale * writes

LEMMA BalanceIsConserved == Balance <=> Conserved
  BY OwedIsSum DEF Balance, Error, Conserved, Paid

LEMMA PaidType == IsFiniteSet(Paid) /\ Cardinality(Paid) \in Nat
<1>1. IsFiniteSet(Paid)
  BY CreditsAssumption, FS_Subset DEF Paid
<1> QED
  BY <1>1, FS_CardinalityType

LEMMA BalanceStep ==
    ASSUME TypeOK, TypeOK', FreshRead, Settlement, Balance, [Next]_vars
    PROVE  Balance'
<1>0. /\ Debts \in [Calls -> Int] /\ Debts' \in [Calls -> Int]
      /\ IsFiniteSet(Calls) /\ balance \in Int /\ balance' \in Int
      /\ Credits \in Nat /\ Start \in Nat /\ Scale \in Nat /\ Scale * writes \in Nat
      /\ Scale * balance \in Int /\ Scale * balance' \in Int
      /\ Scale * writes' \in Int
  BY OwedType, OwedTypeNext, Units, CreditsAssumption, Products DEF TypeOK
<1> DEFINE owed == SumOf(Debts, Calls)
           granted == Scale * (Start + Credits * Cardinality(Paid))
<1>a. owed \in Int /\ granted \in Int
  <2>1. Cardinality(Paid) \in Nat
    BY PaidType
  <2>2. Credits * Cardinality(Paid) \in Nat
    BY <1>0, <2>1, Products
  <2> QED
    BY <1>0, <2>2, SumType, Products
<1>b. Error = Scale * balance - (granted - owed)
  BY DEF Error
<1>1. ASSUME UNCHANGED <<Paid, balance, writes, lapses>>,
             \A d \in Calls : Owed(d)' = Owed(d)
      PROVE  Balance'
  <2>1. Debts' = Debts
    BY <1>1 DEF Debts
  <2> QED
    BY <1>1, <2>1 DEF Balance, Error
<1>2. CASE UNCHANGED vars
  <2>1. UNCHANGED <<Paid, balance, writes, lapses>>
    BY <1>2 DEF vars, history, Paid
  <2>2. \A d \in Calls : Owed(d)' = Owed(d)
    BY <1>2 DEF vars, request, history, Owed
  <2> QED
    BY <1>1, <2>1, <2>2
<1>3. ASSUME NEW c \in Calls, Ask(c) \/ Serve(c) PROVE Balance'
  <2>1. \A d \in Calls : d # c => Debts'[d] = Debts[d]
    BY <1>3, OthersOwe DEF Debts
  <2> DEFINE more == Debts'[c] - Debts[c]
  <2>2. more \in Int /\ owed' = owed + more
    BY <1>0, <2>1, SumChanges
  <2>3. Within(Scale * balance' - (Scale * balance - more)) /\ lapses' = lapses
    BY <1>3, Balanced DEF Debts
  <2>4. granted' = granted
    BY <1>3, OthersOwe
  <2>5. Error' = Scale * balance' - (granted - (owed + more))
    BY <2>2, <2>4 DEF Error
  <2> HIDE DEF more, owed, granted
  <2>6. ASSUME lapses' = {} PROVE 2 * Error' \in -(Scale * writes') .. Scale * writes'
    <3> DEFINE was == Scale * balance - (granted - owed)
               step == Scale * balance' - (Scale * balance - more)
    <3>1. was \in Int /\ step \in Int /\ Error' = was + step
      BY <1>0, <1>a, <2>2, <2>5
    <3>2. 2 * was \in -(Scale * writes) .. Scale * writes
      BY <1>b, <2>3, <2>6 DEF Balance
    <3>3. 2 * step \in -(Scale * writes' - Scale * writes) .. Scale * writes' - Scale * writes
      BY <2>3 DEF Within
    <3> HIDE DEF was, step
    <3> QED
      BY <1>0, <3>1, <3>2, <3>3
  <2> QED
    BY <2>6 DEF Balance
<1>4. ASSUME NEW c \in Calls, Crash(c) PROVE Balance'
  BY <1>1, <1>4, CrashOwes
<1>5. ASSUME NEW p \in Loop, Hang(p) PROVE Balance'
  <2>1. UNCHANGED <<Paid, balance, writes, lapses>>
    BY <1>5 DEF Hang, history, Paid
  <2>2. \A d \in Calls : Owed(d)' = Owed(d)
    BY <1>5 DEF Hang, request, history, Owed
  <2> QED
    BY <1>1, <2>1, <2>2
<1>6. ASSUME NEW g \in Grants, GrantRead(g) PROVE Balance'
  BY <1>1, <1>6, GrantsOwe
<1>7. ASSUME NEW g \in Grants, GrantWrite(g) PROVE Balance'
  <2>1. /\ Paid' = Paid \cup {g} /\ g \notin Paid /\ writes' = writes
        /\ lapses' = {} => lapses = {} /\ balance' = balance + Credits
    BY <1>7, GrantsOwe
  <2>2. Cardinality(Paid) \in Nat /\ Cardinality(Paid') = Cardinality(Paid) + 1
    BY <2>1, PaidType, FS_AddElement
  <2> DEFINE n == Cardinality(Paid)
  <2>3. granted' = Scale * (Start + Credits * (n + 1))
    BY <2>2
  <2>4. Scale * (Start + Credits * (n + 1)) = Scale * (Start + Credits * n) + Scale * Credits
    <3>1. n \in Nat /\ Credits * (n + 1) = Credits * n + Credits /\ Credits * n \in Nat
      BY <1>0, <2>2, Products
    <3> DEFINE m == Start + Credits * n
    <3>2. m \in Int /\ Start + Credits * (n + 1) = m + Credits
      BY <1>0, <3>1
    <3> HIDE DEF m, n
    <3>3. Scale * (m + Credits) = Scale * m + Scale * Credits
      BY <1>0, <3>2
    <3> QED
      BY <3>2, <3>3 DEF m
  <2>5. granted' = granted + Scale * Credits
    BY <2>3, <2>4
  <2>6. Scale * (balance + Credits) = Scale * balance + Scale * Credits
        /\ Scale * Credits \in Int
    BY <1>0
  <2>7. owed' = owed
    BY <1>7, GrantsOwe DEF Debts
  <2>8. Error' = Scale * balance' - ((granted + Scale * Credits) - owed)
    BY <2>5, <2>7 DEF Error
  <2> HIDE DEF owed, granted
  <2>9. ASSUME lapses' = {} PROVE Error' = Error /\ lapses = {}
    BY <1>0, <1>a, <1>b, <2>1, <2>6, <2>8, <2>9
  <2> QED
    BY <2>1, <2>9 DEF Balance
<1> QED
  BY <1>2, <1>3, <1>4, <1>5, <1>6, <1>7 DEF Next

(* No credits appear or vanish, however many calls and grants run, fail,    *)
(* are refunded or die: the balance is what was granted less what each call *)
(* owes, to within half a stored unit for each rounded write, until a grant *)
(* overwrites a change it had not read.                                     *)
THEOREM CreditsAreConserved == Spec => []Conserved
<1>1. Init => FreshRead /\ Settlement /\ Balance
  <2> SUFFICES ASSUME Init PROVE FreshRead /\ Settlement /\ Balance
    OBVIOUS
  <2>1. FreshRead /\ Settlement
    BY Members DEF Init, FreshRead, Holding, Settlement, Steps, Before, During, After
  <2>2. Paid = {} /\ \A c \in Calls : Debts[c] = 0
    BY Members DEF Init, Paid, Debts, Owed, Procs
  <2>3. Debts \in [Calls -> Int]
    BY TypeInit, OwedType
  <2>4. SumOf(Debts, Calls) = 0 /\ Cardinality(Paid) = 0
    BY <2>2, <2>3, SumOfNothing, FS_EmptySet, CreditsAssumption
  <2>5. /\ balance = Start /\ writes = 0 /\ Start \in Nat /\ Credits \in Nat
        /\ Scale \in Nat /\ Scale * Start \in Int
    BY CreditsAssumption, Products DEF Init
  <2>6. Credits * 0 = 0 /\ Scale * 0 = 0 /\ Start + 0 = Start
    BY <2>5
  <2>7. Error = Scale * Start - (Scale * Start - 0)
    BY <2>4, <2>5, <2>6 DEF Error
  <2>8. 2 * Error \in -(Scale * writes) .. Scale * writes
    BY <2>5, <2>6, <2>7
  <2> QED
    BY <2>1, <2>8 DEF Balance
<1> QED
  BY <1>1, TypeInit, TypeStep, FreshStep, SettlementStep, BalanceStep, BalanceIsConserved, PTL
  DEF Spec
=============================================================================
