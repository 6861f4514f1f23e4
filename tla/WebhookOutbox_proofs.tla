------------------------ MODULE WebhookOutbox_proofs ------------------------
(* Proofs about WebhookOutbox, for every set of deliveries, workers and     *)
(* requests and every value of the bounds.                                  *)
EXTENDS WebhookOutbox, TLAPS

(* Adding one job to a bag adds it to the bag's elements, and removing one  *)
(* adds nothing: what thtwaat:jobs:delayed and :dead hold.                  *)
LEMMA BagAdd ==
    ASSUME NEW B, NEW j
    PROVE  BagToSet(B (+) SetToBag({j})) = BagToSet(B) \cup {j}
  BY DEF BagToSet, SetToBag, (+)

LEMMA BagRemove ==
    ASSUME NEW B, NEW j
    PROVE  BagToSet(B (-) SetToBag({j})) \subseteq BagToSet(B)
  BY DEF BagToSet, SetToBag, (-)

LEMMA BagEmpty == BagToSet(EmptyBag) = {}
  BY DEF BagToSet, EmptyBag, SetToBag

-----------------------------------------------------------------------------
(* Typing                                                                   *)

(* The steps at which a process holds a job.                                *)
BusySteps == {"repush", "push", "mark", "attempt", "post", "delivered",
              "bury", "ackDead", "delay", "ackFailed"}

HandHeld == \A p \in Procs : pc[p] \in BusySteps => hand[p] \in Job

(* Every row update keeps the row well formed.                              *)
LEMMA RowUpdates ==
    ASSUME NEW r \in Row, NEW n \in Nat
    PROVE  /\ MarkQueued(r) \in Row
           /\ MarkAttempt(r, n) \in Row
           /\ MarkDelivered(r, n) \in Row
           /\ MarkFailed(r, n) \in Row
           /\ MarkDead(r, n) \in Row
<1>1. Larger(n, r.attempts) \in Nat
  BY DEF Row, Larger
<1>2. MarkQueued(r) \in Row
  BY DEF Row, Open, MarkQueued
<1>3. MarkAttempt(r, n) \in Row
  BY <1>1 DEF Row, Open, MarkAttempt
<1>4. ASSUME NEW s \in {"failed", "dead", "delivered"} PROVE Settle(r, s, n) \in Row
  BY <1>1 DEF Row, Open, Settle
<1> QED
  BY <1>2, <1>3, <1>4 DEF MarkDelivered, MarkFailed, MarkDead

LEMMA RedriveAttemptType ==
    ASSUME NEW r \in Row
    PROVE  RedriveAttempt(r) \in Nat \ {0}
<1>1. r.attempts \in Nat
  BY DEF Row
<1> QED
  BY <1>1 DEF RedriveAttempt, Larger

(* A committed update touches one row and spends at most one fault.         *)
LEMMA CommitType ==
    ASSUME TypeOK, NEW d \in Deliveries, NEW new \in Row, Commit(d, new)
    PROVE  row' \in [Deliveries -> Row] /\ faults' \in Nat
  BY OutboxAssumption DEF TypeOK, Commit, Fault, NoFault

(* What a process that is about to act on its job holds.                    *)
LEMMA HeldJob ==
    ASSUME NEW j \in Job
    PROVE  /\ j.d \in Deliveries /\ j.attempt \in Nat \ {0} /\ j # NoJob
           /\ [j EXCEPT !.attempt = @ + 1] \in Job
  BY OutboxAssumption DEF Job

LEMMA JobsType ==
    ASSUME NEW s \in Seq(Job), NEW j \in Job
    PROVE  Append(s, j) \in Seq(Job)
  OBVIOUS

LEMMA CutType ==
    ASSUME NEW s \in Seq(Job), NEW i \in 1..Len(s)
    PROVE  SubSeq(s, 1, i - 1) \o SubSeq(s, i + 1, Len(s)) \in Seq(Job)
<1>1. SubSeq(s, 1, i - 1) \in Seq(Job) /\ SubSeq(s, i + 1, Len(s)) \in Seq(Job)
  OBVIOUS
<1> QED
  BY <1>1

(* A process moves to a step with the right thing in hand.                  *)
Control == /\ pc \in [Procs -> WorkerSteps \cup RequestSteps]
           /\ hand \in [Procs -> Job \cup {NoJob}]
           /\ HandHeld

LEMMA Moves ==
    ASSUME Control, NEW p \in Procs,
           NEW s \in WorkerSteps \cup RequestSteps, Goto(p, s),
           NEW j \in Job \cup {NoJob},
           Take(p, j) \/ (UNCHANGED hand /\ j = hand[p]),
           s \in BusySteps => j \in Job
    PROVE  Control'
  BY DEF Control, HandHeld, Goto, Take

LEMMA Finishes ==
    ASSUME Control, NEW w \in Workers, Finish(w)
    PROVE  Control'
<1>1. w \in Procs /\ "promote" \in WorkerSteps /\ "promote" \notin BusySteps
  BY DEF Procs, WorkerSteps, BusySteps
<1> QED
  BY <1>1, Moves DEF Finish

(* One step keeps every variable in its type and a job in busy hands.       *)
LEMMA TypeStep == TypeOK /\ HandHeld /\ [Next]_vars => TypeOK' /\ HandHeld'
<1> SUFFICES ASSUME TypeOK, HandHeld, [Next]_vars
             PROVE  TypeOK' /\ HandHeld'
  OBVIOUS
<1>0. Control /\ \A w \in Workers : w \in Procs
  BY DEF TypeOK, Control, Procs
<1> USE OutboxAssumption DEF rows, redis, process, budget, history
<1>1. ASSUME NEW d \in Deliveries, Record(d) PROVE TypeOK' /\ HandHeld'
  <2>1. [Absent EXCEPT !.status = "pending"] \in Row
    BY DEF Absent, Row, Open
  <2>2. row' \in [Deliveries -> Row] /\ faults' \in Nat
    BY <1>1, <2>1, CommitType DEF Record
  <2> QED
    BY <1>1, <2>2 DEF Record, TypeOK, HandHeld
<1>2. ASSUME NEW d \in Deliveries, PushFirst(d) PROVE TypeOK' /\ HandHeld'
  <2>1. [d |-> d, attempt |-> 1, manual |-> FALSE] \in Job
    BY DEF Job
  <2>2. jobs' \in Seq(Job)
    <3> DEFINE new == [d |-> d, attempt |-> 1, manual |-> FALSE]
    <3>1. jobs' = Append(jobs, new) \/ jobs' = jobs
      BY <1>2 DEF PushFirst
    <3> HIDE DEF new
    <3>2. new \in Job /\ jobs \in Seq(Job)
      BY <2>1 DEF new, TypeOK
    <3>3. Append(jobs, new) \in Seq(Job)
      BY <3>2, JobsType
    <3> QED
      BY <3>1, <3>2, <3>3
  <2>3. faults' \in Nat
    BY <1>2 DEF PushFirst, Fault, NoFault, TypeOK
  <2> QED
    BY <1>2, <2>2, <2>3 DEF PushFirst, TypeOK, HandHeld
<1>3. ASSUME NEW d \in Deliveries, MarkFirst(d) PROVE TypeOK' /\ HandHeld'
  BY <1>3, RowUpdates DEF MarkFirst, Commit, Fault, NoFault, TypeOK, HandHeld
<1>4. ASSUME NEW d \in Deliveries, ProducerCrash(d) PROVE TypeOK' /\ HandHeld'
  BY <1>4 DEF ProducerCrash, Fault, TypeOK, HandHeld
<1>5. ASSUME NEW d \in Deliveries, Tick(d) PROVE TypeOK' /\ HandHeld'
  <2>1. [row[d] EXCEPT !.stale = TRUE] \in Row
    <3>1. row[d] \in Row
      BY DEF TypeOK
    <3> QED
      BY <3>1 DEF Row
  <2>2. row' \in [Deliveries -> Row]
    BY <1>5, <2>1 DEF Tick, TypeOK
  <2> QED
    BY <1>5, <2>2 DEF Tick, TypeOK, HandHeld
<1>6. ASSUME NEW s \in HookStates, SetHook(s) PROVE TypeOK' /\ HandHeld'
  BY <1>6 DEF SetHook, TypeOK, HandHeld
<1>7. ASSUME NEW w \in Workers, PromoteTake(w) PROVE TypeOK' /\ HandHeld'
  <2>1. PICK j \in BagToSet(delayed) :
           delayed' = delayed (-) SetToBag({j}) /\ Take(w, j)
    BY <1>7 DEF PromoteTake
  <2>2. j \in Job /\ BagToSet(delayed') \subseteq Job
    BY <2>1, BagRemove DEF TypeOK
  <2>3. Control'
    BY <1>0, <1>7, <2>1, <2>2, Moves DEF PromoteTake, WorkerSteps
  <2> QED
    BY <1>7, <2>2, <2>3 DEF PromoteTake, TypeOK, Control
<1>8. ASSUME NEW w \in Workers, PromotePush(w) PROVE TypeOK' /\ HandHeld'
  <2>1. hand[w] \in Job
    BY <1>0, <1>8 DEF PromotePush, HandHeld, BusySteps
  <2>2. jobs' \in Seq(Job) /\ faults' \in Nat
    <3>1. Append(jobs, hand[w]) \in Seq(Job)
      BY <2>1, JobsType DEF TypeOK
    <3>2. jobs' = Append(jobs, hand[w]) \/ jobs' = jobs
      BY <1>8 DEF PromotePush
    <3>3. faults' \in Nat
      BY <1>8 DEF PromotePush, Fault, NoFault, TypeOK
    <3> QED
      BY <3>1, <3>2, <3>3 DEF TypeOK
  <2>3. Control'
    BY <1>0, <1>8, Finishes DEF PromotePush, Finish
  <2> QED
    BY <1>8, <2>2, <2>3 DEF PromotePush, TypeOK, Control
<1>9. ASSUME NEW w \in Workers, RedriveQuery(w) PROVE TypeOK' /\ HandHeld'
  <2>1. Control'
    BY <1>0, <1>9, Moves DEF RedriveQuery, WorkerSteps, BusySteps, Control
  <2>2. todo' \in [Workers -> SUBSET (Deliveries \X Row)]
    BY <1>9 DEF RedriveQuery, TypeOK
  <2> QED
    BY <1>9, <2>1, <2>2 DEF RedriveQuery, TypeOK, Control
<1>10. ASSUME NEW w \in Workers, RedriveRow(w) PROVE TypeOK' /\ HandHeld'
  <2>0. PICK t \in todo[w] : \E r \in {t[2], row[t[1]]} :
           LET n == RedriveAttempt(r) IN
             \/ NoFault /\ UNCHANGED <<row, hand, pc>>
             \/ Commit(t[1], MarkDead(row[t[1]], n)) /\ UNCHANGED <<hand, pc>>
             \/ /\ NoFault /\ UNCHANGED row /\ Goto(w, "push")
                /\ Take(w, [d |-> t[1], attempt |-> n, manual |-> FALSE])
    BY <1>10 DEF RedriveRow
  <2>1. PICK r \in {t[2], row[t[1]]} :
           LET n == RedriveAttempt(r) IN
             \/ NoFault /\ UNCHANGED <<row, hand, pc>>
             \/ Commit(t[1], MarkDead(row[t[1]], n)) /\ UNCHANGED <<hand, pc>>
             \/ /\ NoFault /\ UNCHANGED row /\ Goto(w, "push")
                /\ Take(w, [d |-> t[1], attempt |-> n, manual |-> FALSE])
    BY <2>0
  <2>2. t[1] \in Deliveries /\ r \in Row /\ row[t[1]] \in Row
    BY <2>1 DEF TypeOK
  <2>3. RedriveAttempt(r) \in Nat \ {0}
    BY <2>2, RedriveAttemptType
  <2>4. MarkDead(row[t[1]], RedriveAttempt(r)) \in Row
    BY <2>2, <2>3, RowUpdates
  <2>5. row' \in [Deliveries -> Row] /\ faults' \in Nat
    BY <2>1, <2>2, <2>4, CommitType DEF NoFault, TypeOK
  <2>6. [d |-> t[1], attempt |-> RedriveAttempt(r), manual |-> FALSE] \in Job
    BY <2>2, <2>3 DEF Job
  <2>7. CASE UNCHANGED <<hand, pc>>
    BY <2>7, <1>0, <2>5, <1>10 DEF RedriveRow, TypeOK, HandHeld
  <2>8. CASE /\ Goto(w, "push")
             /\ Take(w, [d |-> t[1], attempt |-> RedriveAttempt(r), manual |-> FALSE])
    <3>1. Control'
      BY <2>8, <1>0, <2>6, Moves DEF WorkerSteps
    <3> QED
      BY <1>10, <2>5, <3>1 DEF RedriveRow, TypeOK, Control
  <2> QED
    BY <2>1, <2>7, <2>8
<1>11. ASSUME NEW w \in Workers, RedriveDone(w) PROVE TypeOK' /\ HandHeld'
  <2>1. Control'
    BY <1>0, <1>11, Moves DEF RedriveDone, WorkerSteps, BusySteps, Control
  <2> QED
    BY <1>11, <2>1 DEF RedriveDone, TypeOK, Control
<1>12. ASSUME NEW p \in Procs, Push(p) PROVE TypeOK' /\ HandHeld'
  <2>1. hand[p] \in Job
    BY <1>12 DEF Push, HandHeld, BusySteps
  <2>2. jobs' \in Seq(Job) /\ faults' \in Nat
    <3>1. Append(jobs, hand[p]) \in Seq(Job)
      BY <2>1, JobsType DEF TypeOK
    <3>2. jobs' = Append(jobs, hand[p]) \/ jobs' = jobs
      BY <1>12 DEF Push
    <3>3. faults' \in Nat
      BY <1>12 DEF Push, Fault, NoFault, TypeOK
    <3> QED
      BY <3>1, <3>2, <3>3 DEF TypeOK
  <2>3. Home(p) \in (WorkerSteps \cup RequestSteps) \ BusySteps
    BY DEF Home, WorkerSteps, RequestSteps, BusySteps
  <2>4. Control'
    <3>1. CASE Goto(p, "mark") /\ UNCHANGED hand
      BY <3>1, <1>0, <2>1, Moves DEF WorkerSteps
    <3>2. CASE Goto(p, Home(p)) /\ Take(p, NoJob)
      BY <3>2, <1>0, <2>3, Moves
    <3> QED
      BY <1>12, <3>1, <3>2 DEF Push
  <2> QED
    BY <1>12, <2>2, <2>4 DEF Push, TypeOK, Control
<1>13. ASSUME NEW p \in Procs, Mark(p) PROVE TypeOK' /\ HandHeld'
  <2>1. hand[p].d \in Deliveries
    BY <1>13, HeldJob DEF Mark, HandHeld, BusySteps
  <2>2. row' \in [Deliveries -> Row] /\ faults' \in Nat
    BY <1>13, <2>1, RowUpdates, CommitType DEF Mark, TypeOK
  <2>3. Home(p) \in (WorkerSteps \cup RequestSteps) \ BusySteps
    BY DEF Home, WorkerSteps, RequestSteps, BusySteps
  <2>4. Control'
    BY <1>13, <1>0, <2>3, Moves DEF Mark
  <2> QED
    BY <1>13, <2>2, <2>4 DEF Mark, TypeOK, Control
<1>14. ASSUME NEW w \in Workers, Pop(w) PROVE TypeOK' /\ HandHeld'
  <2>1. Head(jobs) \in Job /\ jobs' \in Seq(Job)
    BY <1>14 DEF Pop, TypeOK
  <2>2. Control'
    BY <1>14, <1>0, <2>1, Moves DEF Pop, WorkerSteps
  <2> QED
    BY <1>14, <2>1, <2>2 DEF Pop, TypeOK, Control
<1>15. ASSUME NEW w \in Workers, PopTimeout(w) PROVE TypeOK' /\ HandHeld'
  <2>1. Control'
    BY <1>0, <1>15, Moves DEF PopTimeout, WorkerSteps, BusySteps, Control
  <2> QED
    BY <1>15, <2>1 DEF PopTimeout, TypeOK, Control
<1>16. ASSUME NEW w \in Workers, AckAttempt(w) PROVE TypeOK' /\ HandHeld'
  <2>1. hand[w] \in Job /\ hand[w].d \in Deliveries /\ hand[w].attempt \in Nat
    BY <1>16, <1>0, HeldJob DEF AckAttempt, HandHeld, BusySteps
  <2>2. row' \in [Deliveries -> Row] /\ faults' \in Nat
    <3>1. MarkAttempt(row[hand[w].d], hand[w].attempt) \in Row
      BY <2>1, RowUpdates DEF TypeOK
    <3> QED
      BY <1>16, <2>1, <3>1 DEF AckAttempt, Fault, NoFault, TypeOK
  <2>3. unlogged' \in [Deliveries -> BOOLEAN]
    BY <1>16, <2>1 DEF AckAttempt, TypeOK
  <2>4. Control'
    BY <1>16, <1>0, <2>1, Moves DEF AckAttempt, WorkerSteps
  <2> QED
    BY <1>16, <2>2, <2>3, <2>4 DEF AckAttempt, TypeOK, Control
<1>17. ASSUME NEW w \in Workers, Post(w) PROVE TypeOK' /\ HandHeld'
  <2>1. hand[w] \in Job /\ hand[w].d \in Deliveries
    BY <1>17, <1>0, HeldJob DEF Post, HandHeld, BusySteps
  <2>2. PICK s \in {"delivered", "bury", "delay"} : Goto(w, s)
    BY <1>17 DEF Post, Verdict
  <2>3. Control'
    BY <1>17, <1>0, <2>1, <2>2, Moves DEF Post, WorkerSteps
  <2>4. received' \in [Deliveries -> BOOLEAN] /\ rejected' \in [Deliveries -> BOOLEAN]
    BY <1>17, <2>1 DEF Post, TypeOK
  <2> QED
    BY <1>17, <2>3, <2>4 DEF Post, TypeOK, Control
<1>18. ASSUME NEW w \in Workers, AckDelivered(w) PROVE TypeOK' /\ HandHeld'
  <2>1. hand[w].d \in Deliveries /\ hand[w].attempt \in Nat
    BY <1>18, <1>0, HeldJob DEF AckDelivered, HandHeld, BusySteps
  <2>2. row' \in [Deliveries -> Row] /\ faults' \in Nat
    BY <1>18, <2>1, RowUpdates, CommitType DEF AckDelivered, TypeOK
  <2> QED
    BY <1>18, <1>0, <2>2, Finishes DEF AckDelivered, TypeOK, Control
<1>19. ASSUME NEW w \in Workers, Bury(w) PROVE TypeOK' /\ HandHeld'
  <2>1. hand[w] \in Job
    BY <1>19, <1>0 DEF Bury, HandHeld, BusySteps
  <2>2. BagToSet(dead') \subseteq Job
    <3>1. BagToSet(dead (+) SetToBag({hand[w]})) = BagToSet(dead) \cup {hand[w]}
      BY BagAdd
    <3>2. dead' = dead (+) SetToBag({hand[w]}) \/ dead' = dead
      BY <1>19 DEF Bury
    <3> QED
      BY <2>1, <3>1, <3>2 DEF TypeOK
  <2>3. Control'
    BY <1>19, <1>0, <2>1, Moves DEF Bury, WorkerSteps
  <2> QED
    BY <1>19, <2>2, <2>3 DEF Bury, Fault, NoFault, TypeOK, Control
<1>20. ASSUME NEW w \in Workers, AckDead(w) PROVE TypeOK' /\ HandHeld'
  <2>1. hand[w].d \in Deliveries /\ hand[w].attempt \in Nat
    BY <1>20, <1>0, HeldJob DEF AckDead, HandHeld, BusySteps
  <2>2. row' \in [Deliveries -> Row] /\ faults' \in Nat
    BY <1>20, <2>1, RowUpdates, CommitType DEF AckDead, TypeOK
  <2> QED
    BY <1>20, <1>0, <2>2, Finishes DEF AckDead, TypeOK, Control
<1>21. ASSUME NEW w \in Workers, Delay(w) PROVE TypeOK' /\ HandHeld'
  <2>1. hand[w] \in Job /\ [hand[w] EXCEPT !.attempt = @ + 1] \in Job
    BY <1>21, <1>0, HeldJob DEF Delay, HandHeld, BusySteps
  <2>2. BagToSet(delayed') \subseteq Job /\ BagToSet(dead') \subseteq Job
    <3> DEFINE next == [hand[w] EXCEPT !.attempt = @ + 1]
    <3>1. /\ BagToSet(delayed (+) SetToBag({next})) = BagToSet(delayed) \cup {next}
          /\ BagToSet(dead (+) SetToBag({hand[w]})) = BagToSet(dead) \cup {hand[w]}
      BY BagAdd
    <3>2. /\ delayed' = delayed (+) SetToBag({next}) \/ delayed' = delayed
          /\ dead' = dead (+) SetToBag({hand[w]}) \/ dead' = dead
      BY <1>21 DEF Delay
    <3>3. next \in Job /\ hand[w] \in Job
      BY <2>1
    <3> HIDE DEF next
    <3> QED
      BY <3>1, <3>2, <3>3 DEF TypeOK
  <2>3. Control'
    <3>1. CASE Goto(w, "ackFailed") /\ UNCHANGED hand
      BY <3>1, <1>0, <2>1, Moves DEF WorkerSteps
    <3>2. CASE Finish(w)
      BY <3>2, <1>0, Finishes
    <3> QED
      BY <1>21, <3>1, <3>2 DEF Delay
  <2> QED
    BY <1>21, <2>2, <2>3 DEF Delay, Fault, NoFault, TypeOK, Control
<1>22. ASSUME NEW w \in Workers, AckFailed(w) PROVE TypeOK' /\ HandHeld'
  <2>1. hand[w].d \in Deliveries /\ hand[w].attempt \in Nat
    BY <1>22, <1>0, HeldJob DEF AckFailed, HandHeld, BusySteps
  <2>2. row' \in [Deliveries -> Row] /\ faults' \in Nat
    BY <1>22, <2>1, RowUpdates, CommitType DEF AckFailed, TypeOK
  <2> QED
    BY <1>22, <1>0, <2>2, Finishes DEF AckFailed, TypeOK, Control
<1>23. ASSUME NEW w \in Workers, WorkerCrash(w) PROVE TypeOK' /\ HandHeld'
  BY <1>23, <1>0, Finishes DEF WorkerCrash, Fault, TypeOK, Control
<1>24. ASSUME NEW q \in Requests, NEW d \in Deliveries, RetryRead(q, d)
       PROVE  TypeOK' /\ HandHeld'
  <2>1. [d |-> d, attempt |-> row[d].attempts + 1, manual |-> TRUE] \in Job
    BY DEF TypeOK, Row, Job
  <2>2. Control'
    BY <1>24, <1>0, <2>1, Moves DEF RetryRead, Procs, WorkerSteps
  <2> QED
    BY <1>24, <2>2 DEF RetryRead, Intervene, TypeOK, Control
<1>25. ASSUME RetryDead PROVE TypeOK' /\ HandHeld'
  <2>1. PICK j \in BagToSet(dead) :
           /\ dead' = dead (-) SetToBag({j})
           /\ \/ NoFault /\ jobs' = Append(jobs, j)
              \/ Fault   /\ UNCHANGED jobs
    BY <1>25 DEF RetryDead
  <2>2. BagToSet(dead') \subseteq Job
    BY <2>1, BagRemove DEF TypeOK
  <2>3. jobs' \in Seq(Job)
    <3>1. Append(jobs, j) \in Seq(Job)
      BY JobsType DEF TypeOK
    <3>2. jobs' = Append(jobs, j) \/ jobs' = jobs
      BY <2>1
    <3> QED
      BY <3>1, <3>2 DEF TypeOK
  <2>4. faults' \in Nat /\ manuals' \in Nat
    BY <1>25, <2>1 DEF RetryDead, Intervene, Fault, NoFault, TypeOK
  <2> QED
    BY <1>25, <2>2, <2>3, <2>4 DEF RetryDead, TypeOK, HandHeld
<1>26. ASSUME CancelJob PROVE TypeOK' /\ HandHeld'
  <2>1. jobs' \in Seq(Job)
    <3>1. jobs \in Seq(Job)
      BY DEF TypeOK
    <3>2. \A i \in 1..Len(jobs) :
             SubSeq(jobs, 1, i - 1) \o SubSeq(jobs, i + 1, Len(jobs)) \in Seq(Job)
      BY <3>1, CutType
    <3>3. \/ jobs' = jobs
          \/ \E i \in 1..Len(jobs) :
                jobs' = SubSeq(jobs, 1, i - 1) \o SubSeq(jobs, i + 1, Len(jobs))
      BY <1>26 DEF CancelJob
    <3> QED
      BY <3>1, <3>2, <3>3
  <2>2. BagToSet(dead') \subseteq Job
    BY <1>26, BagRemove DEF CancelJob, TypeOK
  <2> QED
    BY <1>26, <2>1, <2>2 DEF CancelJob, Intervene, TypeOK, HandHeld
<1>27. CASE UNCHANGED vars
  BY <1>27 DEF vars, TypeOK, HandHeld
<1> QED
  BY <1>0, <1>1, <1>2, <1>3, <1>4, <1>5, <1>6, <1>7, <1>8, <1>9, <1>10, <1>11, <1>12,
     <1>13, <1>14, <1>15, <1>16, <1>17, <1>18, <1>19, <1>20, <1>21, <1>22, <1>23,
     <1>24, <1>25, <1>26, <1>27
  DEF Next, Produce, WorkerStep, Procs

(* Every variable keeps its type, and a process that acts on a job has one. *)
THEOREM TypeCorrect == Spec => [](TypeOK /\ HandHeld)
<1>1. Init => TypeOK /\ HandHeld
  <2> SUFFICES ASSUME Init PROVE TypeOK /\ HandHeld
    OBVIOUS
  <2>1. Absent \in Row /\ << >> \in Seq(Job)
    BY DEF Absent, Row
  <2> QED
    BY <2>1, BagEmpty DEF Init, TypeOK, HandHeld, BusySteps, HookStates, Procs,
                          WorkerSteps, RequestSteps
<1> QED
  BY <1>1, TypeStep, PTL DEF Spec

-----------------------------------------------------------------------------
(* Safety. The invariants the runs check are not inductive: a worker about  *)
(* to write "delivered" must already know that the endpoint processed the   *)
(* delivery, one about to write "dead" that the endpoint refused it or its  *)
(* attempts ran out, and so on.                                             *)

ProcSafe(p) ==
    /\ pc[p] = "delivered" => received[hand[p].d]
    /\ pc[p] \in {"bury", "ackDead"} =>
          rejected[hand[p].d] \/ hand[p].attempt >= MaxAttempts
    /\ pc[p] = "delay" => hand[p].attempt < MaxAttempts
    /\ pc[p] = "post" =>
          unlogged[hand[p].d] \/ hand[p].attempt <= row[hand[p].d].attempts
    /\ hand[p] # NoJob => WithinBudget(hand[p])

RowSafe(d) ==
    /\ row[d].status = "delivered" => received[d]
    /\ row[d].status = "dead" => rejected[d] \/ row[d].attempts >= MaxAttempts
    /\ producer[d] = "idle" => row[d] = Absent

QueueSafe ==
    /\ \A i \in 1..Len(jobs) : WithinBudget(jobs[i])
    /\ \A j \in BagToSet(delayed) \cup BagToSet(dead) : WithinBudget(j)

Safe ==
    /\ \A p \in Procs : ProcSafe(p)
    /\ \A d \in Deliveries : RowSafe(d)
    /\ QueueSafe

Inv == TypeOK /\ HandHeld /\ Safe

(* What no step ever does: lower an attempt count or forget the past.       *)
Monotone ==
    \A d \in Deliveries :
        /\ row'[d].attempts >= row[d].attempts
        /\ received[d] => received'[d]
        /\ rejected[d] => rejected'[d]
        /\ unlogged[d] => unlogged'[d]

(* A process the step does not touch stays safe.                            *)
LEMMA ProcFrame ==
    ASSUME Inv, Monotone, NEW p \in Procs, pc'[p] = pc[p], hand'[p] = hand[p],
           row' \in [Deliveries -> Row]
    PROVE  ProcSafe(p)'
<1>1. ProcSafe(p)
  BY DEF Inv, Safe
<1>2. CASE pc[p] \in BusySteps
  <2>1. hand[p].d \in Deliveries /\ hand[p].attempt \in Nat
    BY <1>2, HeldJob DEF Inv, HandHeld
  <2>2. row[hand[p].d].attempts \in Nat /\ row'[hand[p].d].attempts \in Nat
    BY <2>1 DEF Inv, TypeOK, Row
  <2> QED
    BY <1>1, <2>1, <2>2 DEF ProcSafe, Monotone, WithinBudget
<1>3. CASE pc[p] \notin BusySteps
  BY <1>1, <1>3 DEF ProcSafe, BusySteps, WithinBudget
<1> QED
  BY <1>2, <1>3

(* A process moves to a step that claims nothing about its job.             *)
LEMMA QuietMove ==
    ASSUME Inv, Monotone, row' \in [Deliveries -> Row],
           NEW p \in Procs, NEW s, Goto(p, s),
           s \notin {"delivered", "bury", "ackDead", "delay", "post"},
           NEW j, Take(p, j) \/ (UNCHANGED hand /\ j = hand[p]),
           j # NoJob => WithinBudget(j)
    PROVE  \A q \in Procs : ProcSafe(q)'
<1>1. /\ pc'[p] = s /\ hand'[p] = j
      /\ \A q \in Procs \ {p} : pc'[q] = pc[q] /\ hand'[q] = hand[q]
  BY DEF Inv, TypeOK, Goto, Take
<1>2. ProcSafe(p)'
  BY <1>1 DEF ProcSafe, WithinBudget
<1> QED
  BY <1>1, <1>2, ProcFrame

(* Rows the step does not touch stay safe.                                  *)
LEMMA RowFrame ==
    ASSUME Inv, UNCHANGED row,
           \A d \in Deliveries : producer'[d] = "idle" => producer[d] = "idle",
           \A d \in Deliveries : (received[d] => received'[d]) /\ (rejected[d] => rejected'[d])
    PROVE  \A d \in Deliveries : RowSafe(d)'
  BY DEF Inv, Safe, RowSafe, Absent

(* Each update raises the attempt count to the job's at least, and leaves a *)
(* missing row missing.                                                     *)
LEMMA RowValues ==
    ASSUME NEW r \in Row, NEW n \in Nat
    PROVE  /\ MarkQueued(r).attempts >= r.attempts
           /\ MarkAttempt(r, n).attempts >= r.attempts
           /\ r.status # "absent" => MarkAttempt(r, n).attempts >= n
           /\ \A s \in {"delivered", "failed", "dead"} :
                  /\ Settle(r, s, n).attempts >= r.attempts
                  /\ Settle(r, s, n).status \in {s, "absent"}
                  /\ Settle(r, s, n).status = s => Settle(r, s, n).attempts >= n
           /\ MarkQueued(r).status \in {"delivered", "dead"} => MarkQueued(r) = r
           /\ MarkAttempt(r, n).status \in {"delivered", "dead"} =>
                 MarkAttempt(r, n).status = r.status
           /\ r = Absent => /\ MarkQueued(r) = Absent
                            /\ MarkAttempt(r, n) = Absent
                            /\ \A s \in {"delivered", "failed", "dead"} :
                                   Settle(r, s, n) = Absent
<1>1. r.attempts \in Nat /\ Larger(n, r.attempts) >= n /\ Larger(n, r.attempts) >= r.attempts
  BY DEF Row, Larger
<1>2. /\ MarkQueued(r).attempts >= r.attempts
      /\ MarkQueued(r).status \in {"delivered", "dead"} => MarkQueued(r) = r
  BY <1>1 DEF MarkQueued, Row, Open
<1>3. /\ MarkAttempt(r, n).attempts >= r.attempts
      /\ r.status # "absent" => MarkAttempt(r, n).attempts >= n
      /\ MarkAttempt(r, n).status \in {"delivered", "dead"} =>
            MarkAttempt(r, n).status = r.status
  BY <1>1 DEF MarkAttempt
<1>4. ASSUME NEW s \in {"delivered", "failed", "dead"}
      PROVE  /\ Settle(r, s, n).attempts >= r.attempts
             /\ Settle(r, s, n).status \in {s, "absent"}
             /\ Settle(r, s, n).status = s => Settle(r, s, n).attempts >= n
  BY <1>1 DEF Settle
<1>5. ASSUME r = Absent
      PROVE  /\ MarkQueued(r) = Absent /\ MarkAttempt(r, n) = Absent
             /\ \A s \in {"delivered", "failed", "dead"} : Settle(r, s, n) = Absent
  BY <1>5 DEF Absent, MarkQueued, MarkAttempt, Settle
<1> QED
  BY <1>2, <1>3, <1>4, <1>5

(* A commit of a row that is itself justified keeps every row safe.         *)
LEMMA CommitSafe ==
    ASSUME Inv, UNCHANGED history, NEW d \in Deliveries, NEW new \in Row,
           Commit(d, new), new.attempts >= row[d].attempts,
           new.status = "delivered" => received[d],
           new.status = "dead" => rejected[d] \/ new.attempts >= MaxAttempts,
           producer'[d] = "idle" => new = Absent,
           \A e \in Deliveries : producer'[e] = "idle" => producer[e] = "idle"
    PROVE  Monotone /\ \A e \in Deliveries : RowSafe(e)'
<1>1. UNCHANGED <<received, rejected, unlogged>>
  BY DEF history
<1>2. \A e \in Deliveries : row'[e] = row[e] \/ (e = d /\ row'[e] = new)
  BY DEF Commit, Inv, TypeOK
<1>3. \A e \in Deliveries : row[e].attempts \in Nat /\ RowSafe(e)
  BY DEF Inv, Safe, TypeOK, Row
<1>4. Monotone
  BY <1>1, <1>2, <1>3 DEF Monotone
<1>5. \A e \in Deliveries : RowSafe(e)'
  BY <1>1, <1>2, <1>3 DEF RowSafe, Absent
<1> QED
  BY <1>4, <1>5

(* The list operations keep every queued job within the budget.             *)
AllWithin(s) == \A i \in 1..Len(s) : WithinBudget(s[i])

LEMMA ListWithin ==
    ASSUME NEW s \in Seq(Job), AllWithin(s)
    PROVE  /\ \A j \in Job : WithinBudget(j) => AllWithin(Append(s, j))
           /\ s # << >> => AllWithin(Tail(s)) /\ WithinBudget(Head(s))
           /\ \A i \in 1..Len(s) :
                 AllWithin(SubSeq(s, 1, i - 1) \o SubSeq(s, i + 1, Len(s)))
<1>1. ASSUME NEW j \in Job, WithinBudget(j) PROVE AllWithin(Append(s, j))
  <2>1. Len(Append(s, j)) = Len(s) + 1 /\ Append(s, j)[Len(s) + 1] = j
    OBVIOUS
  <2>2. \A i \in 1..Len(s) : Append(s, j)[i] = s[i]
    OBVIOUS
  <2> QED
    BY <1>1, <2>1, <2>2 DEF AllWithin
<1>2. ASSUME s # << >> PROVE AllWithin(Tail(s)) /\ WithinBudget(Head(s))
  <2>1. Len(Tail(s)) = Len(s) - 1 /\ Len(s) >= 1 /\ Head(s) = s[1]
    BY <1>2
  <2>2. \A i \in 1..Len(Tail(s)) : Tail(s)[i] = s[i + 1]
    BY <1>2
  <2> QED
    BY <2>1, <2>2 DEF AllWithin
<1>3. ASSUME NEW i \in 1..Len(s)
      PROVE  AllWithin(SubSeq(s, 1, i - 1) \o SubSeq(s, i + 1, Len(s)))
  <2> DEFINE a == SubSeq(s, 1, i - 1)
             b == SubSeq(s, i + 1, Len(s))
  <2>1. a \in Seq(Job) /\ b \in Seq(Job) /\ Len(a) = i - 1 /\ Len(b) = Len(s) - i
    OBVIOUS
  <2>2. AllWithin(a) /\ AllWithin(b)
    BY <2>1 DEF AllWithin
  <2> HIDE DEF a, b
  <2>3. Len(a \o b) = Len(a) + Len(b)
    BY <2>1
  <2>4. \A k \in 1..Len(a \o b) :
           (a \o b)[k] = IF k <= Len(a) THEN a[k] ELSE b[k - Len(a)]
    BY <2>1
  <2>5. ASSUME NEW k \in 1..Len(a \o b) PROVE WithinBudget((a \o b)[k])
    <3>1. CASE k <= Len(a)
      <4>1. k \in 1..Len(a) /\ (a \o b)[k] = a[k]
        BY <2>1, <2>4, <3>1
      <4> QED
        BY <2>2, <4>1 DEF AllWithin
    <3>2. CASE ~(k <= Len(a))
      <4>1. k - Len(a) \in 1..Len(b) /\ (a \o b)[k] = b[k - Len(a)]
        BY <2>1, <2>3, <2>4, <3>2
      <4> QED
        BY <2>2, <4>1 DEF AllWithin
    <3> QED
      BY <3>1, <3>2
  <2>6. AllWithin(a \o b)
    BY <2>5 DEF AllWithin
  <2> QED
    BY <2>6 DEF a, b
<1> QED
  BY <1>1, <1>2, <1>3

(* Steps that change neither a row nor the history.                         *)
LEMMA StillRows ==
    ASSUME Inv, UNCHANGED row, UNCHANGED history,
           \A d \in Deliveries : producer'[d] = "idle" => producer[d] = "idle"
    PROVE  /\ Monotone
           /\ \A d \in Deliveries : RowSafe(d)'
           /\ row' \in [Deliveries -> Row]
<1>1. \A d \in Deliveries : row[d].attempts \in Nat
  BY DEF Inv, TypeOK, Row
<1>2. row' \in [Deliveries -> Row]
  BY DEF Inv, TypeOK
<1> QED
  BY <1>1, <1>2, RowFrame DEF Monotone, history

(* Steps that change no process.                                            *)
LEMMA StillProcs ==
    ASSUME Inv, Monotone, row' \in [Deliveries -> Row], UNCHANGED <<pc, hand>>
    PROVE  \A p \in Procs : ProcSafe(p)'
  BY ProcFrame

LEMMA StillQueues ==
    ASSUME Inv, UNCHANGED redis
    PROVE  QueueSafe'
  BY DEF Inv, Safe, QueueSafe, redis, WithinBudget

(* One step of the pipeline keeps the invariant.                            *)
LEMMA SafeStep == Inv /\ [Next]_vars => Safe'
<1> SUFFICES ASSUME Inv, [Next]_vars PROVE Safe'
  OBVIOUS
<1> USE DEF rows, process, budget
<1>0. /\ TypeOK' /\ row' \in [Deliveries -> Row]
      /\ \A p \in Procs : pc[p] \in BusySteps =>
            hand[p] \in Job /\ hand[p].d \in Deliveries /\ hand[p].attempt \in Nat
      /\ AllWithin(jobs) /\ jobs \in Seq(Job)
      /\ \A w \in Workers : w \in Procs
      /\ \A d \in Deliveries : row[d] \in Row /\ RowSafe(d)
      /\ \A p \in Procs : ProcSafe(p)
  BY TypeStep, HeldJob DEF Inv, Safe, QueueSafe, AllWithin, HandHeld, TypeOK, Procs
<1>1. ASSUME NEW d \in Deliveries, Record(d) PROVE Safe'
  <2>1. [Absent EXCEPT !.status = "pending"] \in Row
    BY DEF Absent, Row, Open
  <2>2. row[d] = Absent
    BY <1>0, <1>1 DEF Record, RowSafe
  <2>3. Monotone /\ \A e \in Deliveries : RowSafe(e)'
    BY <1>1, <2>1, <2>2, CommitSafe DEF Record, Absent, Inv, TypeOK
  <2> QED
    BY <1>0, <1>1, <2>3, StillProcs, StillQueues DEF Record, Safe
<1>2. ASSUME NEW d \in Deliveries, PushFirst(d) PROVE Safe'
  <2>1. Monotone /\ \A e \in Deliveries : RowSafe(e)'
    BY <1>2, StillRows DEF PushFirst, Inv, TypeOK
  <2>2. [d |-> d, attempt |-> 1, manual |-> FALSE] \in Job
    BY DEF Job
  <2>3. WithinBudget([d |-> d, attempt |-> 1, manual |-> FALSE])
    BY OutboxAssumption DEF WithinBudget
  <2>4. AllWithin(jobs')
    BY <1>0, <1>2, <2>2, <2>3, ListWithin DEF PushFirst
  <2>5. QueueSafe'
    BY <1>2, <2>4 DEF PushFirst, QueueSafe, AllWithin, Inv, Safe, WithinBudget
  <2> QED
    BY <1>0, <1>2, <2>1, <2>5, StillProcs DEF PushFirst, Safe
<1>3. ASSUME NEW d \in Deliveries, MarkFirst(d) PROVE Safe'
  <2>1. /\ MarkQueued(row[d]) \in Row
        /\ MarkQueued(row[d]).attempts >= row[d].attempts
        /\ MarkQueued(row[d]).status \in {"delivered", "dead"} =>
              MarkQueued(row[d]) = row[d]
    BY <1>0, RowUpdates, RowValues
  <2>2. Monotone /\ \A e \in Deliveries : RowSafe(e)'
    BY <1>0, <1>3, <2>1, CommitSafe DEF MarkFirst, RowSafe, Inv, TypeOK
  <2> QED
    BY <1>0, <1>3, <2>2, StillProcs, StillQueues DEF MarkFirst, Safe
<1>4. ASSUME NEW d \in Deliveries, ProducerCrash(d) PROVE Safe'
  <2>1. Monotone /\ \A e \in Deliveries : RowSafe(e)'
    BY <1>4, StillRows DEF ProducerCrash, Inv, TypeOK
  <2> QED
    BY <1>0, <1>4, <2>1, StillProcs, StillQueues DEF ProducerCrash, Safe
<1>5. ASSUME NEW d \in Deliveries, Tick(d) PROVE Safe'
  <2>1. \A e \in Deliveries :
           /\ row'[e].status = row[e].status /\ row'[e].attempts = row[e].attempts
           /\ e # d => row'[e] = row[e]
    BY <1>0, <1>5 DEF Tick, Inv, TypeOK, Row
  <2>2. producer[d] # "idle"
    BY <1>0, <1>5 DEF Tick, RowSafe, Absent, Open
  <2>3. \A e \in Deliveries : row[e].attempts \in Nat
    BY <1>0 DEF Row
  <2>4. Monotone
    BY <1>5, <2>1, <2>3 DEF Tick, Monotone, history
  <2>5. \A e \in Deliveries : RowSafe(e)'
    BY <1>0, <1>5, <2>1, <2>2 DEF Tick, RowSafe, history, Absent
  <2> QED
    BY <1>0, <1>5, <2>4, <2>5, StillProcs, StillQueues DEF Tick, Safe
<1>6. ASSUME NEW s \in HookStates, SetHook(s) PROVE Safe'
  BY <1>0, <1>6, StillRows, StillProcs, StillQueues DEF SetHook, Safe
<1>7. ASSUME NEW w \in Workers, PromoteTake(w) PROVE Safe'
  <2>1. PICK j \in BagToSet(delayed) :
           delayed' = delayed (-) SetToBag({j}) /\ Take(w, j)
    BY <1>7 DEF PromoteTake
  <2>2. WithinBudget(j)
    BY DEF Inv, Safe, QueueSafe
  <2>3. Monotone /\ \A e \in Deliveries : RowSafe(e)'
    BY <1>7, StillRows DEF PromoteTake
  <2>4. \A q \in Procs : ProcSafe(q)'
    BY <1>0, <1>7, <2>1, <2>2, <2>3, QuietMove DEF PromoteTake
  <2>5. QueueSafe'
    BY <1>7, <2>1, BagRemove DEF PromoteTake, Inv, Safe, QueueSafe, WithinBudget
  <2> QED
    BY <2>3, <2>4, <2>5 DEF Safe
<1>8. ASSUME NEW w \in Workers, PromotePush(w) PROVE Safe'
  <2>1. hand[w] \in Job /\ WithinBudget(hand[w])
    BY <1>0, <1>8, HeldJob DEF PromotePush, BusySteps, ProcSafe
  <2>2. Monotone /\ \A e \in Deliveries : RowSafe(e)'
    BY <1>8, StillRows DEF PromotePush
  <2>3. \A q \in Procs : ProcSafe(q)'
    BY <1>0, <1>8, <2>2, QuietMove DEF PromotePush
  <2>4. AllWithin(jobs')
    <3>1. AllWithin(Append(jobs, hand[w]))
      BY <1>0, <2>1, ListWithin
    <3>2. jobs' = Append(jobs, hand[w]) \/ jobs' = jobs
      BY <1>8 DEF PromotePush
    <3> QED
      BY <1>0, <3>1, <3>2
  <2>5. QueueSafe'
    BY <1>8, <2>4 DEF PromotePush, Inv, Safe, QueueSafe, AllWithin, WithinBudget
  <2> QED
    BY <2>2, <2>3, <2>5 DEF Safe
<1>9. ASSUME NEW w \in Workers, RedriveQuery(w) PROVE Safe'
  <2>1. Monotone /\ \A e \in Deliveries : RowSafe(e)'
    BY <1>9, StillRows DEF RedriveQuery
  <2>2. \A q \in Procs : ProcSafe(q)'
    BY <1>0, <1>9, <2>1, QuietMove DEF RedriveQuery, ProcSafe
  <2> QED
    BY <1>9, <2>1, <2>2, StillQueues DEF RedriveQuery, Safe
<1>10. ASSUME NEW w \in Workers, RedriveRow(w) PROVE Safe'
  <2>0. PICK t \in todo[w] : \E r \in {t[2], row[t[1]]} :
           LET n == RedriveAttempt(r) IN
             \/ NoFault /\ UNCHANGED <<row, hand, pc>>
             \/ /\ n > MaxAttempts
                /\ Commit(t[1], MarkDead(row[t[1]], n)) /\ UNCHANGED <<hand, pc>>
             \/ /\ n <= MaxAttempts
                /\ NoFault /\ UNCHANGED row /\ Goto(w, "push")
                /\ Take(w, [d |-> t[1], attempt |-> n, manual |-> FALSE])
    BY <1>10 DEF RedriveRow
  <2>1. PICK r \in {t[2], row[t[1]]} :
           LET n == RedriveAttempt(r) IN
             \/ NoFault /\ UNCHANGED <<row, hand, pc>>
             \/ /\ n > MaxAttempts
                /\ Commit(t[1], MarkDead(row[t[1]], n)) /\ UNCHANGED <<hand, pc>>
             \/ /\ n <= MaxAttempts
                /\ NoFault /\ UNCHANGED row /\ Goto(w, "push")
                /\ Take(w, [d |-> t[1], attempt |-> n, manual |-> FALSE])
    BY <2>0
  <2> DEFINE n == RedriveAttempt(r)
             d == t[1]
  <2>2. d \in Deliveries /\ n \in Nat \ {0} /\ row[d] \in Row
    BY <2>1, RedriveAttemptType DEF Inv, TypeOK
  <2>3. QueueSafe'
    BY <1>10, StillQueues DEF RedriveRow
  <2>4. CASE UNCHANGED <<row, hand, pc>>
    <3>1. Monotone /\ \A e \in Deliveries : RowSafe(e)'
      BY <1>10, <2>4, StillRows DEF RedriveRow
    <3> QED
      BY <1>0, <2>3, <2>4, <3>1, StillProcs DEF Safe
  <2>5. CASE n > MaxAttempts /\ Commit(d, MarkDead(row[d], n)) /\ UNCHANGED <<hand, pc>>
    <3> DEFINE new == MarkDead(row[d], n)
    <3>1. /\ new \in Row /\ new.attempts >= row[d].attempts
          /\ new.status \in {"dead", "absent"}
          /\ new.status = "dead" => new.attempts >= MaxAttempts
          /\ row[d] = Absent => new = Absent
      <4>1. /\ new \in Row /\ new.attempts >= row[d].attempts
            /\ new.status \in {"dead", "absent"}
            /\ new.status = "dead" => new.attempts >= n
            /\ row[d] = Absent => new = Absent
        BY <2>2, RowUpdates, RowValues DEF MarkDead
      <4>2. new.attempts \in Nat
        BY <4>1 DEF Row
      <4> QED
        BY <2>2, <2>5, <4>1, <4>2, OutboxAssumption
    <3> HIDE DEF new
    <3>2. /\ UNCHANGED history /\ UNCHANGED producer
          /\ producer[d] = "idle" => row[d] = Absent
      BY <1>0, <1>10, <2>2 DEF RedriveRow, RowSafe
    <3>3. Commit(d, new)
      BY <2>5 DEF new
    <3>4. Monotone /\ \A e \in Deliveries : RowSafe(e)'
      BY <2>2, <3>1, <3>2, <3>3, CommitSafe
    <3> QED
      BY <1>0, <2>3, <2>5, <3>4, StillProcs DEF Safe
  <2>6. CASE /\ n <= MaxAttempts /\ UNCHANGED row /\ Goto(w, "push")
             /\ Take(w, [d |-> d, attempt |-> n, manual |-> FALSE])
    <3>1. Monotone /\ \A e \in Deliveries : RowSafe(e)'
      BY <1>10, <2>6, StillRows DEF RedriveRow
    <3>2. WithinBudget([d |-> d, attempt |-> n, manual |-> FALSE])
      BY <2>6 DEF WithinBudget
    <3>3. \A q \in Procs : ProcSafe(q)'
      BY <1>0, <2>6, <3>1, <3>2, QuietMove
    <3> QED
      BY <2>3, <3>1, <3>3 DEF Safe
  <2> QED
    BY <2>1, <2>4, <2>5, <2>6
<1>11. ASSUME NEW w \in Workers, RedriveDone(w) PROVE Safe'
  <2>1. Monotone /\ \A e \in Deliveries : RowSafe(e)'
    BY <1>11, StillRows DEF RedriveDone
  <2>2. \A q \in Procs : ProcSafe(q)'
    BY <1>0, <1>11, <2>1, QuietMove DEF RedriveDone, ProcSafe
  <2> QED
    BY <1>11, <2>1, <2>2, StillQueues DEF RedriveDone, Safe
<1>12. ASSUME NEW p \in Procs, Push(p) PROVE Safe'
  <2>1. hand[p] \in Job /\ WithinBudget(hand[p])
    BY <1>0, <1>12, HeldJob DEF Push, BusySteps, ProcSafe
  <2>2. Monotone /\ \A e \in Deliveries : RowSafe(e)'
    BY <1>12, StillRows DEF Push
  <2>3. \A q \in Procs : ProcSafe(q)'
    <3>1. CASE Goto(p, "mark") /\ UNCHANGED hand
      BY <1>0, <2>1, <2>2, <3>1, QuietMove
    <3>2. CASE Goto(p, Home(p)) /\ Take(p, NoJob)
      BY <1>0, <2>2, <3>2, QuietMove DEF Home
    <3> QED
      BY <1>12, <3>1, <3>2 DEF Push
  <2>4. AllWithin(jobs')
    <3>1. AllWithin(Append(jobs, hand[p]))
      BY <1>0, <2>1, ListWithin
    <3>2. jobs' = Append(jobs, hand[p]) \/ jobs' = jobs
      BY <1>12 DEF Push
    <3> QED
      BY <1>0, <3>1, <3>2
  <2>5. QueueSafe'
    BY <1>12, <2>4 DEF Push, Inv, Safe, QueueSafe, AllWithin, WithinBudget
  <2> QED
    BY <2>2, <2>3, <2>5 DEF Safe
<1>13. ASSUME NEW p \in Procs, Mark(p) PROVE Safe'
  <2>1. hand[p].d \in Deliveries
    BY <1>0, <1>13 DEF Mark, BusySteps
  <2> DEFINE r == row[hand[p].d]
  <2>2. /\ MarkQueued(r) \in Row /\ MarkQueued(r).attempts >= r.attempts
        /\ MarkQueued(r).status \in {"delivered", "dead"} => MarkQueued(r) = r
        /\ r = Absent => MarkQueued(r) = Absent
    BY <1>0, <2>1, RowUpdates, RowValues
  <2>3. Monotone /\ \A e \in Deliveries : RowSafe(e)'
    BY <1>0, <1>13, <2>1, <2>2, CommitSafe DEF Mark, RowSafe
  <2>4. \A q \in Procs : ProcSafe(q)'
    BY <1>0, <1>13, <2>3, QuietMove DEF Mark, Home
  <2> QED
    BY <1>13, <2>3, <2>4, StillQueues DEF Mark, Safe
<1>14. ASSUME NEW w \in Workers, Pop(w) PROVE Safe'
  <2>1. WithinBudget(Head(jobs)) /\ AllWithin(jobs')
    BY <1>0, <1>14, ListWithin DEF Pop
  <2>2. Monotone /\ \A e \in Deliveries : RowSafe(e)'
    BY <1>14, StillRows DEF Pop
  <2>3. \A q \in Procs : ProcSafe(q)'
    BY <1>0, <1>14, <2>1, <2>2, QuietMove DEF Pop
  <2>4. QueueSafe'
    BY <1>14, <2>1 DEF Pop, Inv, Safe, QueueSafe, AllWithin, WithinBudget
  <2> QED
    BY <2>2, <2>3, <2>4 DEF Safe
<1>15. ASSUME NEW w \in Workers, PopTimeout(w) PROVE Safe'
  <2>1. Monotone /\ \A e \in Deliveries : RowSafe(e)'
    BY <1>15, StillRows DEF PopTimeout
  <2>2. \A q \in Procs : ProcSafe(q)'
    BY <1>0, <1>15, <2>1, QuietMove DEF PopTimeout, ProcSafe
  <2> QED
    BY <1>15, <2>1, <2>2, StillQueues DEF PopTimeout, Safe
<1>16. ASSUME NEW w \in Workers, AckAttempt(w) PROVE Safe'
  <2> DEFINE d == hand[w].d
             n == hand[w].attempt
             new == MarkAttempt(row[d], n)
  <2>1. d \in Deliveries /\ n \in Nat /\ hand[w] \in Job /\ row[d] \in Row
    BY <1>0, <1>16 DEF AckAttempt, BusySteps
  <2>2. /\ new \in Row /\ new.attempts >= row[d].attempts
        /\ row[d].status # "absent" => new.attempts >= n
        /\ new.status \in {"delivered", "dead"} => new.status = row[d].status
        /\ row[d] = Absent => new = Absent
    BY <2>1, RowUpdates, RowValues
  <2> HIDE DEF new
  <2>3. /\ UNCHANGED <<producer, received, rejected, hand>>
        /\ \/ row' = [row EXCEPT ![d] = new] /\ (row[d].status = "absent" => unlogged'[d])
           \/ UNCHANGED row /\ unlogged'[d]
        /\ unlogged[d] => unlogged'[d]
        /\ \A e \in Deliveries \ {d} : unlogged'[e] = unlogged[e]
    BY <1>16, <2>1 DEF AckAttempt, Inv, TypeOK, new
  <2>4. \A e \in Deliveries : row'[e] = row[e] \/ (e = d /\ row'[e] = new)
    BY <2>3 DEF Inv, TypeOK
  <2>5. \A e \in Deliveries : row[e].attempts \in Nat /\ row'[e].attempts \in Nat
    BY <1>0 DEF Row
  <2>6. Monotone
    BY <2>2, <2>3, <2>4, <2>5 DEF Monotone
  <2>7. \A e \in Deliveries : RowSafe(e)'
    <3> SUFFICES ASSUME NEW e \in Deliveries PROVE RowSafe(e)'
      OBVIOUS
    <3>1. CASE row'[e] = row[e]
      BY <1>0, <2>3, <3>1 DEF RowSafe, Absent
    <3>2. CASE e = d /\ row'[e] = new
      BY <1>0, <2>1, <2>2, <2>3, <2>5, <3>2, OutboxAssumption DEF RowSafe, Absent
    <3> QED
      BY <2>4, <3>1, <3>2
  <2>8. ProcSafe(w)'
    <3>1. pc'[w] = "post" /\ hand'[w] = hand[w] /\ WithinBudget(hand[w])
      BY <1>0, <1>16, <2>1, <2>3, HeldJob DEF AckAttempt, Goto, ProcSafe, Inv, TypeOK
    <3>2. unlogged'[d] \/ n <= row'[d].attempts
      BY <2>1, <2>2, <2>3, <2>4, <2>5 DEF Inv, TypeOK
    <3> QED
      BY <3>1, <3>2 DEF ProcSafe, WithinBudget
  <2>9. \A q \in Procs \ {w} : ProcSafe(q)'
    BY <1>0, <1>16, <2>3, <2>6, ProcFrame DEF AckAttempt, Goto, Inv, TypeOK
  <2> QED
    BY <1>16, <2>7, <2>8, <2>9, StillQueues DEF AckAttempt, Safe
<1>17. ASSUME NEW w \in Workers, Post(w) PROVE Safe'
  <2> DEFINE j == hand[w]
  <2>1. /\ j \in Job /\ j.d \in Deliveries /\ j.attempt \in Nat /\ WithinBudget(j)
    BY <1>0, <1>17, HeldJob DEF Post, BusySteps, ProcSafe
  <2>2. /\ UNCHANGED <<row, producer, redis, hand, unlogged>>
        /\ \A e \in Deliveries : (received[e] => received'[e]) /\ (rejected[e] => rejected'[e])
    BY <1>17, <2>1 DEF Post, Inv, TypeOK
  <2>3. \A e \in Deliveries : row[e].attempts \in Nat
    BY <1>0 DEF Row
  <2>4. Monotone /\ \A e \in Deliveries : RowSafe(e)'
    BY <2>2, <2>3, RowFrame DEF Monotone
  <2>5. \/ Goto(w, "delivered") /\ received'[j.d]
        \/ Goto(w, Verdict(j, TRUE))
        \/ Goto(w, Verdict(j, FALSE)) /\ rejected'[j.d]
    BY <1>17, <2>1 DEF Post, Inv, TypeOK
  <2>6. \/ pc'[w] = "delivered" /\ received'[j.d]
        \/ pc'[w] = "delay" /\ j.attempt < MaxAttempts
        \/ pc'[w] = "bury" /\ (rejected'[j.d] \/ j.attempt >= MaxAttempts)
    BY <1>0, <2>1, <2>5, OutboxAssumption DEF Goto, Verdict, Inv, TypeOK
  <2>7. ProcSafe(w)'
    BY <2>1, <2>2, <2>6 DEF ProcSafe, WithinBudget
  <2>8. \A q \in Procs \ {w} : ProcSafe(q)'
    BY <1>0, <2>2, <2>4, <2>5, ProcFrame DEF Goto, Inv, TypeOK
  <2> QED
    BY <2>2, <2>4, <2>7, <2>8, StillQueues DEF Safe
<1>18. ASSUME NEW w \in Workers, AckDelivered(w) PROVE Safe'
  <2> DEFINE d == hand[w].d
             new == MarkDelivered(row[d], hand[w].attempt)
  <2>1. d \in Deliveries /\ hand[w].attempt \in Nat /\ row[d] \in Row /\ received[d]
    BY <1>0, <1>18 DEF AckDelivered, BusySteps, ProcSafe
  <2>2. /\ new \in Row /\ new.attempts >= row[d].attempts
        /\ new.status \in {"delivered", "absent"} /\ (row[d] = Absent => new = Absent)
    BY <2>1, RowUpdates, RowValues DEF MarkDelivered
  <2>3. /\ Commit(d, new) /\ UNCHANGED <<producer, history, redis>>
        /\ Goto(w, "promote") /\ Take(w, NoJob)
    BY <1>18 DEF AckDelivered, Finish
  <2> HIDE DEF new
  <2>4. Monotone /\ \A e \in Deliveries : RowSafe(e)'
    BY <1>0, <2>1, <2>2, <2>3, CommitSafe DEF RowSafe
  <2>5. \A q \in Procs : ProcSafe(q)'
    BY <1>0, <2>3, <2>4, QuietMove
  <2> QED
    BY <2>3, <2>4, <2>5, StillQueues DEF Safe
<1>19. ASSUME NEW w \in Workers, Bury(w) PROVE Safe'
  <2>1. hand[w] \in Job /\ WithinBudget(hand[w])
    BY <1>0, <1>19, HeldJob DEF Bury, BusySteps, ProcSafe
  <2>2. Monotone /\ \A e \in Deliveries : RowSafe(e)'
    BY <1>19, StillRows DEF Bury
  <2>3. pc'[w] = "ackDead" /\ \A q \in Procs \ {w} : pc'[q] = pc[q]
    BY <1>0, <1>19 DEF Bury, Goto, Inv, TypeOK
  <2>4. ProcSafe(w)'
    BY <1>0, <1>19, <2>3 DEF Bury, ProcSafe, WithinBudget, history
  <2>5. \A q \in Procs \ {w} : ProcSafe(q)'
    BY <1>0, <1>19, <2>2, <2>3, ProcFrame DEF Bury
  <2>6. QueueSafe'
    <3>1. BagToSet(dead (+) SetToBag({hand[w]})) = BagToSet(dead) \cup {hand[w]}
      BY BagAdd
    <3>2. dead' = dead (+) SetToBag({hand[w]}) \/ dead' = dead
      BY <1>19 DEF Bury
    <3> QED
      BY <1>19, <2>1, <3>1, <3>2 DEF Bury, Inv, Safe, QueueSafe, WithinBudget
  <2> QED
    BY <2>2, <2>4, <2>5, <2>6 DEF Safe
<1>20. ASSUME NEW w \in Workers, AckDead(w) PROVE Safe'
  <2> DEFINE d == hand[w].d
             n == hand[w].attempt
             new == MarkDead(row[d], n)
  <2>1. /\ d \in Deliveries /\ n \in Nat /\ row[d] \in Row
        /\ rejected[d] \/ n >= MaxAttempts
    BY <1>0, <1>20 DEF AckDead, BusySteps, ProcSafe
  <2>2. /\ new \in Row /\ new.attempts >= row[d].attempts
        /\ new.status \in {"dead", "absent"} /\ (row[d] = Absent => new = Absent)
        /\ new.status = "dead" => new.attempts >= n
    BY <2>1, RowUpdates, RowValues DEF MarkDead
  <2>3. /\ Commit(d, new) /\ UNCHANGED <<producer, history, redis>>
        /\ Goto(w, "promote") /\ Take(w, NoJob)
    BY <1>20 DEF AckDead, Finish
  <2> HIDE DEF new
  <2>4. new.attempts \in Nat
    BY <2>2 DEF Row
  <2>5. new.status = "dead" => rejected[d] \/ new.attempts >= MaxAttempts
    BY <2>1, <2>2, <2>4, OutboxAssumption
  <2>6. Monotone /\ \A e \in Deliveries : RowSafe(e)'
    BY <1>0, <2>1, <2>2, <2>3, <2>5, CommitSafe DEF RowSafe
  <2>7. \A q \in Procs : ProcSafe(q)'
    BY <1>0, <2>3, <2>6, QuietMove
  <2> QED
    BY <2>3, <2>6, <2>7, StillQueues DEF Safe
<1>21. ASSUME NEW w \in Workers, Delay(w) PROVE Safe'
  <2> DEFINE next == [hand[w] EXCEPT !.attempt = @ + 1]
  <2>1. /\ hand[w] \in Job /\ hand[w].attempt \in Nat /\ WithinBudget(hand[w])
        /\ hand[w].attempt < MaxAttempts
    BY <1>0, <1>21, HeldJob DEF Delay, BusySteps, ProcSafe
  <2>2. WithinBudget(next)
    BY <2>1, OutboxAssumption DEF WithinBudget, Job
  <2>3. Monotone /\ \A e \in Deliveries : RowSafe(e)'
    BY <1>21, StillRows DEF Delay
  <2>4. \A q \in Procs : ProcSafe(q)'
    <3>1. CASE Goto(w, "ackFailed") /\ UNCHANGED hand
      BY <1>0, <2>1, <2>3, <3>1, QuietMove
    <3>2. CASE Finish(w)
      BY <1>0, <2>3, <3>2, QuietMove DEF Finish
    <3> QED
      BY <1>21, <3>1, <3>2 DEF Delay
  <2>5. QueueSafe'
    <3>1. /\ BagToSet(delayed (+) SetToBag({next})) = BagToSet(delayed) \cup {next}
          /\ BagToSet(dead (+) SetToBag({hand[w]})) = BagToSet(dead) \cup {hand[w]}
      BY BagAdd
    <3>2. /\ delayed' = delayed (+) SetToBag({next}) \/ delayed' = delayed
          /\ dead' = dead (+) SetToBag({hand[w]}) \/ dead' = dead
          /\ jobs' = jobs
      BY <1>21 DEF Delay
    <3> HIDE DEF next
    <3> QED
      BY <2>1, <2>2, <3>1, <3>2 DEF Inv, Safe, QueueSafe, WithinBudget
  <2> QED
    BY <2>3, <2>4, <2>5 DEF Safe
<1>22. ASSUME NEW w \in Workers, AckFailed(w) PROVE Safe'
  <2> DEFINE d == hand[w].d
             new == MarkFailed(row[d], hand[w].attempt)
  <2>1. d \in Deliveries /\ hand[w].attempt \in Nat /\ row[d] \in Row
    BY <1>0, <1>22 DEF AckFailed, BusySteps
  <2>2. /\ new \in Row /\ new.attempts >= row[d].attempts
        /\ new.status \in {"failed", "absent"} /\ (row[d] = Absent => new = Absent)
    BY <2>1, RowUpdates, RowValues DEF MarkFailed
  <2>3. /\ Commit(d, new) /\ UNCHANGED <<producer, history, redis>>
        /\ Goto(w, "promote") /\ Take(w, NoJob)
    BY <1>22 DEF AckFailed, Finish
  <2> HIDE DEF new
  <2>4. Monotone /\ \A e \in Deliveries : RowSafe(e)'
    BY <1>0, <2>1, <2>2, <2>3, CommitSafe DEF RowSafe
  <2>5. \A q \in Procs : ProcSafe(q)'
    BY <1>0, <2>3, <2>4, QuietMove
  <2> QED
    BY <2>3, <2>4, <2>5, StillQueues DEF Safe
<1>23. ASSUME NEW w \in Workers, WorkerCrash(w) PROVE Safe'
  <2>1. Monotone /\ \A e \in Deliveries : RowSafe(e)'
    BY <1>23, StillRows DEF WorkerCrash
  <2>2. \A q \in Procs : ProcSafe(q)'
    BY <1>0, <1>23, <2>1, QuietMove DEF WorkerCrash, Finish
  <2> QED
    BY <1>23, <2>1, <2>2, StillQueues DEF WorkerCrash, Safe
<1>24. ASSUME NEW q \in Requests, NEW d \in Deliveries, RetryRead(q, d) PROVE Safe'
  <2>1. Monotone /\ \A e \in Deliveries : RowSafe(e)'
    BY <1>24, StillRows DEF RetryRead
  <2>2. WithinBudget([d |-> d, attempt |-> row[d].attempts + 1, manual |-> TRUE])
    BY DEF WithinBudget
  <2>3. \A p \in Procs : ProcSafe(p)'
    BY <1>0, <1>24, <2>1, <2>2, QuietMove DEF RetryRead, Procs
  <2> QED
    BY <1>24, <2>1, <2>3, StillQueues DEF RetryRead, Safe
<1>25. ASSUME RetryDead PROVE Safe'
  <2>1. PICK j \in BagToSet(dead) :
           /\ dead' = dead (-) SetToBag({j})
           /\ jobs' = Append(jobs, j) \/ jobs' = jobs
    BY <1>25 DEF RetryDead
  <2>2. Monotone /\ \A e \in Deliveries : RowSafe(e)'
    BY <1>25, StillRows DEF RetryDead
  <2>3. AllWithin(jobs')
    <3>1. j \in Job /\ WithinBudget(j)
      BY DEF Inv, TypeOK, Safe, QueueSafe
    <3>2. AllWithin(Append(jobs, j))
      BY <1>0, <3>1, ListWithin
    <3> QED
      BY <1>0, <2>1, <3>2
  <2>4. QueueSafe'
    BY <1>25, <2>1, <2>3, BagRemove DEF RetryDead, Inv, Safe, QueueSafe, AllWithin, WithinBudget
  <2> QED
    BY <1>0, <1>25, <2>2, <2>4, StillProcs DEF RetryDead, Safe
<1>26. ASSUME CancelJob PROVE Safe'
  <2>1. Monotone /\ \A e \in Deliveries : RowSafe(e)'
    BY <1>26, StillRows DEF CancelJob
  <2>2. AllWithin(jobs')
    BY <1>0, <1>26, ListWithin DEF CancelJob
  <2>3. BagToSet(dead') \subseteq BagToSet(dead)
    BY <1>26, BagRemove DEF CancelJob
  <2>4. QueueSafe'
    BY <1>26, <2>2, <2>3 DEF CancelJob, Inv, Safe, QueueSafe, AllWithin, WithinBudget
  <2> QED
    BY <1>0, <1>26, <2>1, <2>4, StillProcs DEF CancelJob, Safe
<1>27. CASE UNCHANGED vars
  BY <1>0, <1>27, StillRows, StillProcs, StillQueues DEF vars, Safe
<1> QED
  BY <1>0, <1>1, <1>2, <1>3, <1>4, <1>5, <1>6, <1>7, <1>8, <1>9, <1>10, <1>11, <1>12,
     <1>13, <1>14, <1>15, <1>16, <1>17, <1>18, <1>19, <1>20, <1>21, <1>22, <1>23,
     <1>24, <1>25, <1>26, <1>27
  DEF Inv, Next, Produce, WorkerStep, Procs

(* The strengthened invariant holds of every reachable state.               *)
LEMMA Invariant == Spec => []Inv
<1>1. Init => Safe
  <2> SUFFICES ASSUME Init PROVE Safe
    OBVIOUS
  <2>1. \A p \in Procs : ProcSafe(p)
    BY DEF Init, ProcSafe, Procs
  <2>2. \A d \in Deliveries : RowSafe(d)
    BY DEF Init, RowSafe, Absent
  <2>3. QueueSafe
    BY BagEmpty DEF Init, QueueSafe
  <2> QED
    BY <2>1, <2>2, <2>3 DEF Safe
<1>2. (TypeOK /\ HandHeld) /\ Safe /\ [Next]_vars => Safe'
  BY SafeStep DEF Inv
<1> QED
  BY <1>1, <1>2, TypeCorrect, PTL DEF Spec, Inv

(* A row says "delivered" only after the endpoint processed the delivery.   *)
THEOREM Honest == Spec => []DeliveredIsHonest
<1>1. Inv => DeliveredIsHonest
  BY DEF Inv, Safe, RowSafe, DeliveredIsHonest
<1> QED
  BY <1>1, Invariant, PTL

(* A row is dead only after a permanent refusal or the last attempt.        *)
THEOREM Justified == Spec => []DeadIsJustified
<1>1. Inv => DeadIsJustified
  BY DEF Inv, Safe, RowSafe, DeadIsJustified
<1> QED
  BY <1>1, Invariant, PTL

(* A row shows an attempt before it is posted, or its record was lost.      *)
THEOREM Ahead == Spec => []WrittenAhead
<1>1. Inv => WrittenAhead
  BY DEF Inv, Safe, ProcSafe, WrittenAhead, Procs
<1> QED
  BY <1>1, Invariant, PTL

(* Only a manual retry produces a job past WEBHOOK_MAX_ATTEMPTS.            *)
THEOREM Budgeted == Spec => []OverBudgetIsManual
<1>1. Inv => OverBudgetIsManual
  BY DEF Inv, Safe, QueueSafe, ProcSafe, OverBudgetIsManual
<1> QED
  BY <1>1, Invariant, PTL
=============================================================================
