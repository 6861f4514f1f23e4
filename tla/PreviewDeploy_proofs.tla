------------------------ MODULE PreviewDeploy_proofs ------------------------
(* Proofs about PreviewDeploy, for every number of generations, jobs, closes *)
(* and faults. The deployment runs one worker (docker-compose), which the    *)
(* theorems beyond typing assume.                                           *)
EXTENDS PreviewDeploy, TLAPS

Deploying == {"begin", "build", "guard", "start", "record", "bind", "ready", "cut"}
Steps     == {"idle", "stop", "unbind", "close"} \cup Deploying

LEMMA GotoType ==
    ASSUME NEW w \in Workers, NEW s \in Steps, pc \in [Workers -> Steps], Goto(w, s)
    PROVE  /\ pc' \in [Workers -> Steps]
           /\ pc'[w] = s
           /\ \A v \in Workers : v # w => pc'[v] = pc[v]
  BY DEF Goto

LEMMA FaultType ==
    ASSUME faults \in Nat, NEW k, Fault(k) \/ NoFault
    PROVE  faults' \in Nat
  BY DEF Fault, NoFault

(* Everything typing needs of the two intervals.                             *)
LEMMA RangeType ==
    /\ 0 \in OrNull /\ Generations \subseteq OrNull
    /\ OrNull \ {0} \subseteq Generations /\ 0 \notin Generations
    /\ \A g \in OrNull : g < MaxGeneration => g + 1 \in Generations
    /\ \A g \in OrNull : g \in Int /\ g >= 0
  BY PreviewAssumption DEF OrNull, Generations

LEMMA IdleType == Idle \in Memory /\ Teardown \in Job
  BY PreviewAssumption DEF Idle, Memory, Teardown, Job, OrNull, Generations

LEMMA DoneType ==
    ASSUME NEW w \in Workers, pc \in [Workers -> Steps], mem \in [Workers -> Memory], Done(w)
    PROVE  /\ pc' \in [Workers -> Steps] /\ mem' \in [Workers -> Memory]
           /\ pc'[w] = "idle" /\ mem'[w] = Idle
           /\ \A v \in Workers : v # w => pc'[v] = pc[v] /\ mem'[v] = mem[v]
  BY GotoType, IdleType DEF Done, Steps

-----------------------------------------------------------------------------
(* Typing                                                                   *)

(* A worker that deploys has a generation's job in hand.                    *)
Shape ==
    \A w \in Workers : pc[w] \in Deploying => mem[w].job.generation \in Generations

TypeInv == TypeOK /\ Shape

LEMMA TypeInit == Init => TypeInv
<1> SUFFICES ASSUME Init PROVE TypeInv
  OBVIOUS
<1>1. row \in Row
  BY RangeType DEF Init, Row, Statuses
<1>2. mem \in [Workers -> Memory] /\ \A w \in Workers : pc[w] = "idle"
  BY IdleType DEF Init
<1>3. jobs \in Seq(Job) /\ delayed \subseteq Job
  BY DEF Init
<1>4. root \in OrNull /\ proxy \in OrNull /\ shown \in OrNull
  BY RangeType DEF Init
<1>5. TypeOK
  BY <1>1, <1>2, <1>3, <1>4 DEF Init, TypeOK, Hook, NoHook
<1> QED
  BY <1>2, <1>5 DEF TypeInv, Shape, Deploying

LEMMA JobType ==
    ASSUME NEW j \in Job
    PROVE  j.generation \in OrNull /\ (j # Teardown => j.generation \in Generations)
<1>1. CASE j \in [kind : {"deploy"}, generation : Generations]
  BY <1>1, RangeType
<1>2. CASE j \in [kind : {"teardown"}, generation : {0}]
  <2>1. j.kind = "teardown" /\ j.generation = 0 /\ j = [kind |-> j.kind, generation |-> j.generation]
    BY <1>2
  <2> QED
    BY <2>1, RangeType DEF Teardown
<1> QED
  BY <1>1, <1>2 DEF Job

LEMMA WebhookType ==
    ASSUME TypeInv, Advance \/ AdvanceCommit \/ Close \/ Tick \/ Sweep
    PROVE  TypeInv'
<1> USE DEF TypeInv, webhook
<1>1. CASE Advance
  <2>1. hook' \in Hook
    BY <1>1 DEF Advance, Hook, TypeOK, Row
  <2> QED
    BY <1>1, <2>1 DEF Advance, TypeOK, Shape, vhost, disk, queue, process, budget, history
<1>5. CASE AdvanceCommit
  <2>1. row.generation + 1 \in Generations
    BY <1>5, RangeType DEF AdvanceCommit, TypeOK, Row
  <2>2. Advanced \in Row
    <3>1. row.generation + 1 \in OrNull /\ "queued" \in Statuses
      BY <2>1, RangeType DEF Statuses
    <3> QED
      BY <3>1 DEF Advanced, TypeOK, Row, Hook
  <2>3. Deploy(row.generation + 1) \in Job
    BY <2>1 DEF Deploy, Job
  <2>4. jobs' \in Seq(Job)
    BY <1>5, <2>3 DEF AdvanceCommit, TypeOK
  <2>5. row' \in Row /\ expired' \in BOOLEAN /\ overtaken' \in BOOLEAN
    <3>1. Advanced.torn \in BOOLEAN
      BY <2>2 DEF Row
    <3> QED
      BY <1>5, <2>2, <3>1 DEF AdvanceCommit, TypeOK
  <2>6. hook' \in Hook
    BY <1>5 DEF AdvanceCommit, NoHook, Hook
  <2> QED
    BY <1>5, <2>4, <2>5, <2>6, FaultType DEF AdvanceCommit, TypeOK, Shape, vhost, disk, process, history
<1>2. CASE Close
  <2>1. jobs' \in Seq(Job)
    BY <1>2, IdleType DEF Close, TypeOK
  <2>2. closes' \in Nat
    BY <1>2 DEF Close, TypeOK
  <2> QED
    BY <1>2, <2>1, <2>2, FaultType DEF Close, TypeOK, Shape, vhost, disk, process, history
<1>3. CASE Tick
  BY <1>3 DEF Tick, TypeOK, Shape, vhost, disk, queue, process, budget, history
<1>4. CASE Sweep
  BY <1>4, IdleType DEF Sweep, TypeOK, Shape, record, vhost, disk, process, budget, history
<1> QED
  BY <1>1, <1>2, <1>3, <1>4, <1>5

LEMMA PromoteType ==
    ASSUME TypeInv, Promote
    PROVE  TypeInv'
<1>1. PICK j \in delayed : delayed' = delayed \ {j} /\ jobs' = Append(jobs, j)
  BY DEF Promote
<1>2. jobs' \in Seq(Job) /\ delayed' \subseteq Job
  BY <1>1 DEF TypeInv, TypeOK
<1> QED
  BY <1>2 DEF Promote, TypeInv, TypeOK, Shape, record, webhook, vhost, disk, process, budget, history

LEMMA RetryType ==
    ASSUME TypeInv, NEW w \in Workers, Retry(w)
    PROVE  delayed' \subseteq Job
  BY DEF Retry, TypeInv, TypeOK, Memory

LEMMA LostType ==
    ASSUME TypeInv, NEW w \in Workers
    PROVE  Lost(w) \subseteq Generations
<1>1. mem[w].container \in OrNull /\ mem[w].previousContainer \in OrNull
  BY DEF TypeInv, TypeOK, Memory
<1> QED
  BY <1>1, RangeType DEF Lost

LEMMA FailType ==
    ASSUME TypeInv, NEW w \in Workers, NEW S \in SUBSET Generations, Fail(w, S)
    PROVE  /\ row' \in Row
           /\ running' \subseteq Generations /\ dirs' \subseteq Generations
           /\ happened' \subseteq {"unbound", "cut"} /\ strays' \subseteq Generations
           /\ pc' \in [Workers -> Steps] /\ mem' \in [Workers -> Memory]
           /\ pc'[w] = "idle" /\ mem'[w] = Idle
           /\ \A v \in Workers : v # w => pc'[v] = pc[v] /\ mem'[v] = mem[v]
<1>1. row' \in Row
  BY DEF Fail, TypeInv, TypeOK, Row, Statuses
<1>2. happened' \subseteq {"unbound", "cut"} /\ strays' \subseteq Generations
  BY DEF Fail, Record, TypeInv, TypeOK
<1>3. Done(w) /\ pc \in [Workers -> Steps]
  BY DEF Fail, TypeInv, TypeOK, Steps, Deploying
<1> QED
  BY <1>1, <1>2, <1>3, DoneType DEF Fail, TypeInv, TypeOK

LEMMA DeployType ==
    ASSUME TypeInv, NEW w \in Workers,
           Begin(w) \/ Progress(w) \/ Build(w) \/ Guard(w) \/ Start(w)
    PROVE  TypeInv'
<1> USE DEF TypeInv, webhook, Steps, Deploying
<1>0. pc \in [Workers -> Steps]
  BY DEF TypeOK
<1>1. Refreshed(w) \in Memory /\ Refreshed(w).job = mem[w].job
  BY DEF Refreshed, TypeOK, Memory, Row
<1>2. CASE Begin(w)
  <2>1. CASE Done(w) /\ UNCHANGED <<row, delayed>>
    BY <1>0, <1>2, <2>1, DoneType, FaultType
    DEF Begin, TypeOK, Shape, vhost, disk, history
  <2>2. CASE /\ row' = [row EXCEPT !.status = "building"]
             /\ mem' = [mem EXCEPT ![w] =
                   [Refreshed(w) EXCEPT !.previousContainer = row.container,
                                        !.previousPath = row.path]]
             /\ Goto(w, "build")
             /\ UNCHANGED delayed
    <3>1. row' \in Row
      BY <2>2 DEF TypeOK, Row, Statuses
    <3>2. mem' \in [Workers -> Memory] /\ \A v \in Workers : mem'[v].job = mem[v].job
      BY <1>1, <2>2 DEF TypeOK, Memory, Row
    <3>3. pc' \in [Workers -> Steps] /\ \A v \in Workers : v # w => pc'[v] = pc[v]
      BY <1>0, <2>2, GotoType
    <3>4. mem[w].job.generation \in Generations /\ faults' \in Nat
      BY <1>2, FaultType DEF Begin, TypeOK, Shape
    <3>5. TypeOK'
      BY <1>2, <2>2, <3>1, <3>2, <3>3, <3>4 DEF Begin, TypeOK, vhost, disk, history
    <3>6. Shape'
      BY <3>2, <3>3, <3>4 DEF Shape
    <3> QED
      BY <3>5, <3>6
  <2>3. CASE Retry(w) /\ UNCHANGED row
    BY <1>0, <1>2, <2>3, RetryType, DoneType, FaultType
    DEF Begin, Retry, TypeOK, Shape, vhost, disk, history
  <2> QED
    BY <1>2, <2>1, <2>2, <2>3 DEF Begin
<1>3. CASE Progress(w)
  BY <1>1, <1>3 DEF Progress, TypeOK, Shape, record, vhost, disk, queue, budget, history
<1>4. CASE Build(w)
  <2>1. CASE FailPreview(w)
    BY <1>0, <1>4, <2>1, FailType, FaultType DEF Build, FailPreview, TypeOK, Shape, vhost, queue
  <2>2. CASE /\ dirs' = dirs \cup {mem[w].job.generation}
             /\ \E f \in Frameworks : mem' = [mem EXCEPT ![w].node = (f = "nextjs")]
             /\ Goto(w, "guard")
             /\ UNCHANGED <<row, running, history>>
    <3>1. mem' \in [Workers -> Memory] /\ \A v \in Workers : mem'[v].job = mem[v].job
      <4>1. PICK b \in BOOLEAN : mem' = [mem EXCEPT ![w].node = b]
        BY <2>2
      <4> QED
        BY <4>1 DEF TypeOK, Memory
    <3>2. dirs' \subseteq Generations
      BY <1>4, <2>2 DEF Build, TypeOK, Shape
    <3> QED
      BY <1>0, <1>4, <2>2, <3>1, <3>2, GotoType, FaultType
      DEF Build, TypeOK, Shape, vhost, queue, history
  <2> QED
    BY <1>4, <2>1, <2>2 DEF Build
<1>5. CASE Guard(w)
  <2>1. CASE Done(w) /\ dirs' = dirs \ {mem[w].job.generation}
               /\ happened' \in {happened, happened \cup {"cut"}}
    BY <1>0, <1>5, <2>1, DoneType DEF Guard, TypeOK, Shape, record, vhost, queue, budget
  <2>2. CASE Goto(w, IF mem[w].node THEN "start" ELSE "bind") /\ UNCHANGED <<dirs, mem, happened>>
    BY <1>0, <1>5, <2>2, GotoType DEF Guard, TypeOK, Shape, record, vhost, queue, budget
  <2> QED
    BY <1>5, <2>1, <2>2 DEF Guard, Record
<1>6. CASE Start(w)
  <2>0. mem[w].job.generation \in Generations
    BY <1>6 DEF Start, Shape
  <2>1. CASE \E S \in SUBSET Generations : Fail(w, S)
    BY <1>0, <1>6, <2>1, FailType, FaultType DEF Start, FailPreview, TypeOK, Shape, vhost, queue
  <2>2. CASE /\ running' = running \cup {mem[w].job.generation}
             /\ mem' = [mem EXCEPT ![w].container = mem[w].job.generation]
             /\ Goto(w, "record")
             /\ UNCHANGED <<row, dirs, history>>
    <3>1. mem' \in [Workers -> Memory] /\ \A v \in Workers : mem'[v].job = mem[v].job
      <4>1. mem[w].job.generation \in OrNull
        BY <2>0, RangeType
      <4> QED
        BY <4>1, <2>2 DEF TypeOK, Memory
    <3> QED
      BY <1>0, <1>6, <2>0, <2>2, <3>1, GotoType, FaultType
      DEF Start, TypeOK, Shape, vhost, queue, history
  <2>3. running \cup {mem[w].job.generation} \in SUBSET Generations
        /\ running \ {mem[w].job.generation} \in SUBSET Generations
        /\ running \in SUBSET Generations
    BY <2>0 DEF TypeOK
  <2> QED
    BY <1>6, <2>1, <2>2, <2>3 DEF Start, FailPreview
<1> QED
  BY <1>2, <1>3, <1>4, <1>5, <1>6

LEMMA CutoverType ==
    ASSUME TypeInv, NEW w \in Workers,
           RecordContainer(w) \/ Bind(w) \/ Ready(w) \/ Cut(w) \/ Raise(w)
    PROVE  TypeInv'
<1> USE DEF TypeInv, webhook, Steps, Deploying
<1>0. pc \in [Workers -> Steps] /\ mem[w] \in Memory
  BY DEF TypeOK
<1>1. CASE RecordContainer(w)
  <2>1. row' \in Row
    BY <1>0, <1>1 DEF RecordContainer, TypeOK, Row, Memory
  <2> QED
    BY <1>0, <1>1, <2>1, GotoType DEF RecordContainer, TypeOK, Shape, vhost, disk, queue, budget, history
<1>2. CASE Bind(w)
  <2>1. CASE Switch(w) /\ UNCHANGED happened
    <3>0. mem[w].job.generation \in OrNull /\ mem[w].container \in OrNull /\ 0 \in OrNull
      BY <1>0, <1>2, RangeType DEF Bind, Shape, Memory
    <3>1. root' \in OrNull /\ proxy' \in OrNull /\ shown' \in OrNull /\ domain' \in BOOLEAN
      BY <2>1, <3>0 DEF Switch, TypeOK
    <3> QED
      BY <1>0, <1>2, <2>1, <3>1, GotoType, FaultType
      DEF Bind, TypeOK, Shape, record, disk, queue
  <2>2. CASE Record("unbound") /\ UNCHANGED vhost
    <3>1. happened' \subseteq {"unbound", "cut"}
      BY <2>2 DEF Record, TypeOK
    <3>2. faults' \in Nat
      BY <1>2, FaultType DEF Bind, TypeOK
    <3> QED
      BY <1>0, <1>2, <2>2, <3>1, <3>2, GotoType
      DEF Bind, TypeOK, Shape, record, vhost, disk, queue
  <2> QED
    BY <1>2, <2>1, <2>2 DEF Bind
<1>3. CASE Ready(w)
  <2>1. row' \in Row
    BY <1>0, <1>3, JobType DEF Ready, TypeOK, Row, Memory, Statuses
  <2> QED
    BY <1>0, <1>3, <2>1, GotoType DEF Ready, TypeOK, Shape, vhost, disk, queue, budget, history
<1>4. CASE Cut(w)
  BY <1>0, <1>4, DoneType DEF Cut, TypeOK, Shape, record, vhost, queue, budget, history
<1>5. CASE Raise(w)
  <2>1. strays' \subseteq Generations
    BY <1>0, <1>5, LostType DEF Raise, TypeOK
  <2> QED
    BY <1>0, <1>5, <2>1, RetryType, DoneType, FaultType
    DEF Raise, Retry, TypeOK, Shape, record, vhost, disk
<1> QED
  BY <1>1, <1>2, <1>3, <1>4, <1>5

LEMMA WorkerType ==
    ASSUME TypeInv, NEW w \in Workers,
           Take(w) \/ TeardownStop(w) \/ TeardownUnbind(w) \/ TeardownClose(w) \/ Crash(w)
    PROVE  TypeInv'
<1> USE DEF TypeInv, webhook, Steps, Deploying
<1>0. pc \in [Workers -> Steps] /\ mem[w] \in Memory
  BY DEF TypeOK
<1>1. CASE Take(w)
  <2>1. Head(jobs) \in Job /\ Tail(jobs) \in Seq(Job)
    BY <1>1 DEF Take, TypeOK
  <2>2. [Idle EXCEPT !.job = Head(jobs)] \in Memory
        /\ [Idle EXCEPT !.job = Head(jobs)].job = Head(jobs)
    BY <2>1, IdleType DEF Idle, Memory
  <2> QED
    BY <1>0, <1>1, <2>1, <2>2, JobType, GotoType
    DEF Take, TypeOK, Shape, record, vhost, disk, budget, history
<1>2. CASE TeardownStop(w)
  <2>1. CASE Done(w) /\ UNCHANGED running
    BY <1>0, <1>2, <2>1, DoneType DEF TeardownStop, TypeOK, Shape, record, vhost, queue, budget, history
  <2>2. CASE running' = running \ {row.container} /\ Goto(w, "unbind") /\ UNCHANGED mem
    BY <1>0, <1>2, <2>2, GotoType DEF TeardownStop, TypeOK, Shape, record, vhost, queue, budget, history
  <2> QED
    BY <1>2, <2>1, <2>2 DEF TeardownStop
<1>3. CASE TeardownUnbind(w)
  <2>1. CASE domain' = FALSE /\ root' = 0 /\ proxy' = 0 /\ shown' = 0 /\ UNCHANGED happened
    <3>1. /\ pc' \in [Workers -> Steps] /\ mem' = mem /\ faults' \in Nat
          /\ pc'[w] = "close" /\ \A v \in Workers : v # w => pc'[v] = pc[v]
      BY <1>0, <1>3, GotoType, FaultType DEF TeardownUnbind, TypeOK
    <3>2. domain' \in BOOLEAN /\ root' \in OrNull /\ proxy' \in OrNull /\ shown' \in OrNull
      BY <2>1, RangeType
    <3> QED
      BY <1>3, <2>1, <3>1, <3>2 DEF TeardownUnbind, TypeOK, Shape, record, disk, queue
  <2>2. CASE Record("unbound") /\ UNCHANGED vhost
    <3>1. happened' \subseteq {"unbound", "cut"}
      BY <2>2 DEF Record, TypeOK
    <3>2. faults' \in Nat
      BY <1>3, FaultType DEF TeardownUnbind, TypeOK
    <3> QED
      BY <1>0, <1>3, <2>2, <3>1, <3>2, GotoType
      DEF TeardownUnbind, TypeOK, Shape, record, vhost, disk, queue
  <2> QED
    BY <1>3, <2>1, <2>2 DEF TeardownUnbind
<1>4. CASE TeardownClose(w)
  <2>1. CASE /\ row' = [row EXCEPT !.status = "torn_down", !.torn = TRUE,
                                   !.container = 0, !.path = 0]
             /\ Done(w)
             /\ UNCHANGED delayed
    <3>0. 0 \in OrNull /\ "torn_down" \in Statuses
      BY RangeType DEF Statuses
    <3>1. row' \in Row
      BY <2>1, <3>0 DEF TypeOK, Row
    <3> QED
      BY <1>0, <1>4, <2>1, <3>1, DoneType, FaultType
      DEF TeardownClose, TypeOK, Shape, vhost, history
  <2>2. CASE Retry(w) /\ UNCHANGED row
    BY <1>0, <1>4, <2>2, RetryType, DoneType, FaultType
    DEF TeardownClose, Retry, TypeOK, Shape, vhost, history
  <2> QED
    BY <1>4, <2>1, <2>2 DEF TeardownClose
<1>5. CASE Crash(w)
  <2>1. strays' \subseteq Generations
    BY <1>0, <1>5, LostType DEF Crash, TypeOK
  <2>2. happened' \subseteq {"unbound", "cut"}
    BY <1>5 DEF Crash, Record, TypeOK
  <2> QED
    BY <1>0, <1>5, <2>1, <2>2, DoneType, FaultType
    DEF Crash, TypeOK, Shape, record, vhost, disk, queue
<1> QED
  BY <1>1, <1>2, <1>3, <1>4, <1>5

LEMMA TypeStep == TypeInv /\ [Next]_vars => TypeInv'
<1> SUFFICES ASSUME TypeInv, [Next]_vars PROVE TypeInv'
  OBVIOUS
<1>1. CASE UNCHANGED vars
  BY <1>1 DEF TypeInv, TypeOK, Shape, vars, record, webhook, vhost, disk, queue, process, budget, history
<1>2. CASE Next
  BY <1>2, WebhookType, PromoteType, DeployType, CutoverType, WorkerType DEF Next, WorkerStep
<1> QED
  BY <1>1, <1>2

(* The variables have their types, for any number of workers, generations,  *)
(* jobs and faults.                                                         *)
THEOREM TypeCorrect == Spec => []TypeOK
<1>1. TypeInv => TypeOK
  BY DEF TypeInv
<1> QED
  BY <1>1, TypeInit, TypeStep, PTL DEF Spec

-----------------------------------------------------------------------------
(* The single worker's part of the invariants                               *)

OneWorker == \E w \in Workers : Workers = {w}

(* What the worker holds, and what it has put there, at each of its steps.  *)
Owns(w) ==
    /\ pc[w] \in {"idle", "begin", "stop", "unbind", "close"} =>
          mem[w].container = 0 /\ mem[w].previousContainer = 0
    /\ pc[w] \in {"build", "guard", "start"} => mem[w].container = 0
    /\ pc[w] \in {"build", "guard", "start", "record"} =>
          mem[w].previousContainer = row.container
    /\ pc[w] \in {"start", "record"} => mem[w].node
    /\ pc[w] = "record" =>
          mem[w].container = mem[w].job.generation /\ mem[w].container \in running
    /\ pc[w] \in {"bind", "ready", "cut"} =>
          IF mem[w].node
          THEN mem[w].container = row.container /\ row.container \in running
          ELSE mem[w].container = 0 /\ mem[w].previousContainer = row.container
    /\ pc[w] \in {"guard", "start", "record", "bind", "ready", "cut"} =>
          mem[w].job.generation \in dirs
    /\ pc[w] \in {"unbind", "close"} => row.container \notin running

Named(w) ==
    \A c \in running \ strays :
        c \in {row.container, mem[w].container, mem[w].previousContainer}

Owning == \A w \in Workers : Owns(w) /\ Named(w)

(* Where the vhost points after each step, unless a mishap has happened.    *)
Points(w) ==
    /\ pc[w] # "unbind" => Served
    /\ pc[w] \in {"ready", "cut"} =>
          IF mem[w].node
          THEN proxy = mem[w].container /\ root = 0
          ELSE root = mem[w].job.generation
    /\ pc[w] = "close" => proxy = 0 /\ root = 0

Pointing == happened = {} => \A w \in Workers : Points(w)

(* The vhost's generation is behind the job's, which is behind the row's.   *)
Ordered ==
    /\ shown <= row.generation
    /\ \A w \in Workers :
          pc[w] \in Deploying \ {"begin"} =>
             shown <= mem[w].job.generation /\ mem[w].job.generation <= row.generation

(* What happens elsewhere moves the row's generation, and nothing else here. *)
LEMMA Elsewhere ==
    ASSUME TypeInv, Advance \/ AdvanceCommit \/ Close \/ Tick \/ Sweep \/ Promote
    PROVE  /\ UNCHANGED <<vhost, disk, process, history>>
           /\ row'.container = row.container
           /\ row.generation \in Int /\ row'.generation \in Int
           /\ row.generation <= row'.generation
<1>1. row.generation \in Int
  BY RangeType DEF TypeInv, TypeOK, Row
<1>2. CASE AdvanceCommit
  <2>1. Advanced.container = row.container /\ Advanced.generation = row.generation + 1
    BY DEF Advanced, TypeInv, TypeOK, Row
  <2> QED
    BY <1>1, <1>2, <2>1 DEF AdvanceCommit, disk
<1>3. CASE Advance \/ Close \/ Tick \/ Sweep \/ Promote
  BY <1>1, <1>3 DEF Advance, Close, Tick, Sweep, Promote, record, disk, vhost, process, history
<1> QED
  BY <1>2, <1>3

(* The only worker's step and memory after the two usual endings.           *)
LEMMA Going ==
    ASSUME TypeInv, NEW w \in Workers, NEW s, Goto(w, s)
    PROVE  pc'[w] = s
  BY DEF Goto, TypeInv, TypeOK

LEMMA Ending ==
    ASSUME TypeInv, NEW w \in Workers, Done(w)
    PROVE  /\ pc'[w] = "idle" /\ mem'[w].container = 0
           /\ mem'[w].previousContainer = 0
  BY DEF Done, Goto, Idle, TypeInv, TypeOK

-----------------------------------------------------------------------------
(* Containers                                                               *)

LEMMA OwnInit == Init => Owning
  BY DEF Init, Owning, Owns, Named, Idle

(* A job that ends leaves nothing it alone knew of.                         *)
LEMMA OwnFail ==
    ASSUME TypeInv, Owning, NEW w \in Workers, NEW S, Fail(w, S),
           pc[w] \in {"build", "start"}
    PROVE  Owns(w)' /\ Named(w)'
<1>1. pc'[w] = "idle" /\ mem'[w].container = 0 /\ mem'[w].previousContainer = 0
  BY Ending DEF Fail
<1>2. row'.container = row.container
  BY DEF Fail, TypeInv, TypeOK, Row
<1>3. Named(w)'
  <2> SUFFICES ASSUME NEW c \in running' \ strays' PROVE FALSE
    BY DEF Named
  <2>1. c \in running \ strays /\ c # row.container
    BY DEF Fail
  <2>2. c \in {row.container, 0} /\ c # 0
    BY <2>1, RangeType DEF Owning, Named, Owns, TypeInv, TypeOK
  <2> QED
    BY <2>1, <2>2
<1> QED
  BY <1>1, <1>3 DEF Owns

LEMMA OwnDeploy ==
    ASSUME TypeInv, Owning, NEW w \in Workers,
           Begin(w) \/ Progress(w) \/ Build(w) \/ Guard(w) \/ Start(w)
    PROVE  Owns(w)' /\ Named(w)'
<1>0. Owns(w) /\ Named(w) /\ mem[w] \in Memory /\ row \in Row
  BY DEF Owning, TypeInv, TypeOK
<1>1. CASE Begin(w)
  <2>1. CASE Done(w) /\ UNCHANGED row
    BY <1>0, <1>1, <2>1, Ending DEF Begin, Owns, Named, disk, history
  <2>2. CASE /\ row' = [row EXCEPT !.status = "building"]
             /\ mem' = [mem EXCEPT ![w] =
                   [Refreshed(w) EXCEPT !.previousContainer = row.container,
                                        !.previousPath = row.path]]
             /\ Goto(w, "build")
    <3>1. row'.container = row.container
      BY <1>0, <2>2 DEF Row
    <3>2. mem'[w].container = mem[w].container /\ mem'[w].previousContainer = row.container
      BY <1>0, <2>2 DEF Refreshed, Memory, TypeInv, TypeOK
    <3>3. pc'[w] = "build"
      BY <2>2, Going
    <3> QED
      BY <1>0, <1>1, <3>1, <3>2, <3>3 DEF Begin, Owns, Named, disk, history
  <2> QED
    BY <1>1, <2>1, <2>2 DEF Begin, Retry
<1>2. CASE Progress(w)
  <2>1. /\ mem'[w].container = mem[w].container
        /\ mem'[w].previousContainer = mem[w].previousContainer
    BY <1>0, <1>2 DEF Progress, Refreshed, Memory, TypeInv, TypeOK
  <2> QED
    BY <1>0, <1>2, <2>1 DEF Progress, Owns, Named, record, disk, history
<1>3. CASE Build(w)
  <2>1. CASE FailPreview(w)
    BY <1>3, <2>1, OwnFail DEF Build, FailPreview
  <2>2. CASE /\ dirs' = dirs \cup {mem[w].job.generation}
             /\ \E f \in Frameworks : mem' = [mem EXCEPT ![w].node = (f = "nextjs")]
             /\ Goto(w, "guard")
             /\ UNCHANGED <<row, running, history>>
    <3>1. /\ mem'[w].container = mem[w].container
          /\ mem'[w].previousContainer = mem[w].previousContainer
          /\ mem'[w].job = mem[w].job
      BY <1>0, <2>2 DEF Memory, TypeInv, TypeOK
    <3>2. pc'[w] = "guard" /\ mem'[w].job.generation \in dirs'
      BY <2>2, <3>1, Going
    <3> QED
      BY <1>0, <1>3, <2>2, <3>1, <3>2 DEF Build, Owns, Named, history
  <2> QED
    BY <1>3, <2>1, <2>2 DEF Build
<1>4. CASE Guard(w)
  <2>1. CASE Done(w)
    <3>1. \A c \in running \ strays : c = row.container
      <4>1. \A c \in running : c # 0
        BY RangeType DEF TypeInv, TypeOK
      <4> QED
        BY <1>0, <1>4, <4>1 DEF Guard, Owns, Named
    <3> QED
      BY <1>4, <2>1, <3>1, Ending DEF Guard, Owns, Named, record
  <2>2. CASE Goto(w, IF mem[w].node THEN "start" ELSE "bind") /\ UNCHANGED <<dirs, mem>>
    <3>1. pc'[w] = IF mem[w].node THEN "start" ELSE "bind"
      BY <2>2, Going
    <3> QED
      BY <1>0, <1>4, <2>2, <3>1 DEF Guard, Owns, Named, record
  <2> QED
    BY <1>4, <2>1, <2>2 DEF Guard
<1>5. CASE Start(w)
  <2>1. CASE \E S : Fail(w, S)
    BY <1>5, <2>1, OwnFail DEF Start
  <2>2. CASE /\ running' = running \cup {mem[w].job.generation}
             /\ mem' = [mem EXCEPT ![w].container = mem[w].job.generation]
             /\ Goto(w, "record")
             /\ UNCHANGED <<row, dirs, history>>
    <3>1. /\ mem'[w].container = mem[w].job.generation
          /\ mem'[w].previousContainer = mem[w].previousContainer
          /\ mem'[w].job = mem[w].job /\ mem'[w].node = mem[w].node
      BY <1>0, <2>2 DEF Memory, TypeInv, TypeOK
    <3>2. pc'[w] = "record"
      BY <2>2, Going
    <3>3. Named(w)'
      <4>1. mem[w].container = 0 /\ strays' = strays /\ row' = row
        BY <1>0, <1>5, <2>2 DEF Start, Owns, history
      <4>2. \A c \in running : c # 0
        BY RangeType DEF TypeInv, TypeOK
      <4> QED
        BY <1>0, <2>2, <3>1, <4>1, <4>2 DEF Named
    <3> QED
      BY <1>0, <1>5, <2>2, <3>1, <3>2, <3>3 DEF Start, Owns
  <2> QED
    BY <1>5, <2>1, <2>2 DEF Start, FailPreview
<1> QED
  BY <1>1, <1>2, <1>3, <1>4, <1>5

LEMMA OwnCutover ==
    ASSUME TypeInv, Owning, NEW w \in Workers,
           RecordContainer(w) \/ Bind(w) \/ Ready(w) \/ Cut(w)
    PROVE  Owns(w)' /\ Named(w)'
<1>0. Owns(w) /\ Named(w) /\ mem[w] \in Memory /\ row \in Row
  BY DEF Owning, TypeInv, TypeOK
<1>1. CASE RecordContainer(w)
  <2>1. row'.container = mem[w].container
    BY <1>0, <1>1 DEF RecordContainer, Row
  <2>2. pc'[w] = "bind"
    BY <1>1, Going DEF RecordContainer
  <2> QED
    BY <1>0, <1>1, <2>1, <2>2 DEF RecordContainer, Owns, Named, disk, history
<1>2. CASE Bind(w)
  <2>1. pc'[w] = "ready" /\ UNCHANGED <<row, running, dirs, mem, strays>>
    BY <1>2, Going DEF Bind, record, disk
  <2> QED
    BY <1>0, <1>2, <2>1 DEF Bind, Owns, Named
<1>3. CASE Ready(w)
  <2>1. row'.container = row.container
    BY <1>0, <1>3 DEF Ready, Row
  <2>2. pc'[w] = "cut"
    BY <1>3, Going DEF Ready
  <2> QED
    BY <1>0, <1>3, <2>1, <2>2 DEF Ready, Owns, Named, disk, history
<1>4. CASE Cut(w)
  <2>1. \A c \in running' \ strays' : c = row.container
    <3>1. \A c \in running : c # 0
      BY RangeType DEF TypeInv, TypeOK
    <3> QED
      BY <1>0, <1>4, <3>1 DEF Cut, Owns, Named, history
  <2> QED
    BY <1>4, <2>1, Ending DEF Cut, Owns, Named, record
<1> QED
  BY <1>1, <1>2, <1>3, <1>4

LEMMA OwnRest ==
    ASSUME TypeInv, Owning, NEW w \in Workers,
           \/ Take(w) \/ TeardownStop(w) \/ TeardownUnbind(w) \/ TeardownClose(w)
           \/ Raise(w) \/ Crash(w)
    PROVE  Owns(w)' /\ Named(w)'
<1>0. /\ Owns(w) /\ Named(w) /\ mem[w] \in Memory /\ row \in Row
      /\ \A c \in running : c # 0
  BY RangeType DEF Owning, TypeInv, TypeOK
<1>1. CASE Take(w)
  <2>1. mem'[w].container = 0 /\ mem'[w].previousContainer = 0
    BY <1>1 DEF Take, Idle, TypeInv, TypeOK
  <2>2. pc'[w] \in {"stop", "begin"}
    BY <1>1, Going DEF Take
  <2> QED
    BY <1>0, <1>1, <2>1, <2>2 DEF Take, Owns, Named, record, disk, history
<1>2. CASE TeardownStop(w)
  <2>1. CASE Done(w) /\ UNCHANGED running
    BY <1>0, <1>2, <2>1, Ending DEF TeardownStop, Owns, Named, record, history
  <2>2. CASE running' = running \ {row.container} /\ Goto(w, "unbind") /\ UNCHANGED mem
    BY <1>0, <1>2, <2>2, Going DEF TeardownStop, Owns, Named, record, history
  <2> QED
    BY <1>2, <2>1, <2>2 DEF TeardownStop
<1>3. CASE TeardownUnbind(w)
  <2>1. pc'[w] = "close"
    BY <1>3, Going DEF TeardownUnbind
  <2> QED
    BY <1>0, <1>3, <2>1 DEF TeardownUnbind, Owns, Named, record, disk
<1>4. CASE TeardownClose(w)
  <2>1. Done(w) /\ UNCHANGED <<running, strays>>
    BY <1>4 DEF TeardownClose, Retry, history
  <2>2. running \ strays = {}
    BY <1>0, <1>4 DEF TeardownClose, Owns, Named
  <2> QED
    BY <2>1, <2>2, Ending DEF Owns, Named
<1>5. CASE Raise(w) \/ Crash(w)
  <2>1. Done(w) /\ UNCHANGED <<row, running>> /\ strays' = strays \cup Lost(w)
    BY <1>5 DEF Raise, Crash, Retry, record, disk
  <2>2. \A c \in running \ strays' : c = row.container
    BY <1>0, <2>1 DEF Lost, Named
  <2> QED
    BY <2>1, <2>2, Ending DEF Owns, Named
<1> QED
  BY <1>1, <1>2, <1>3, <1>4, <1>5

LEMMA OwnStep == OneWorker /\ TypeInv /\ Owning /\ [Next]_vars => Owning'
<1> SUFFICES ASSUME OneWorker, TypeInv, Owning, [Next]_vars PROVE Owning'
  OBVIOUS
<1>1. CASE UNCHANGED vars
  BY <1>1 DEF Owning, Owns, Named, vars, record, disk, process, history
<1>2. CASE Advance \/ AdvanceCommit \/ Close \/ Tick \/ Sweep \/ Promote
  BY <1>2, Elsewhere DEF Owning, Owns, Named, disk, process, history
<1>3. CASE \E w \in Workers : WorkerStep(w) \/ Progress(w) \/ Raise(w) \/ Crash(w)
  BY <1>3, OwnDeploy, OwnCutover, OwnRest DEF OneWorker, WorkerStep, Owning
<1> QED
  BY <1>1, <1>2, <1>3 DEF Next

(* With one worker no container runs that nobody knows of, but those an      *)
(* error or a crash abandoned: preview_service.py:281-492, 510-590.          *)
THEOREM ContainersAreNamed == OneWorker => (Spec => []NoOrphan)
<1> SUFFICES ASSUME OneWorker PROVE Spec => []NoOrphan
  OBVIOUS
<1>1. Owning => NoOrphan
  BY DEF OneWorker, Owning, Named, NoOrphan
<1> QED
  BY <1>1, TypeInit, TypeStep, OwnInit, OwnStep, PTL DEF Spec

-----------------------------------------------------------------------------
(* Generations                                                              *)

LEMMA OrderInit == Init => Ordered
  BY DEF Init, Ordered, Deploying

(* A step of the worker keeps its generation, or takes up the row's.        *)
LEMMA OrderStep ==
    ASSUME OneWorker, TypeInv, Ordered, [Next]_vars
    PROVE  Ordered' /\ (shown' >= shown \/ shown' = 0)
<1>0. /\ shown \in Int /\ row.generation \in Int /\ shown >= 0 /\ row.generation >= 0
      /\ \A w \in Workers : mem[w].job.generation \in Int /\ mem[w].job.generation >= 0
  <2>1. shown \in OrNull /\ row.generation \in OrNull
    BY DEF TypeInv, TypeOK, Row
  <2>2. ASSUME NEW w \in Workers PROVE mem[w].job.generation \in OrNull
    BY JobType DEF TypeInv, TypeOK, Memory
  <2> QED
    BY <2>1, <2>2, RangeType
<1>1. CASE UNCHANGED vars
  BY <1>0, <1>1 DEF Ordered, vars, record, vhost, process
<1>2. CASE Advance \/ AdvanceCommit \/ Close \/ Tick \/ Sweep \/ Promote
  BY <1>0, <1>2, Elsewhere DEF Ordered, vhost, process
<1>3. CASE \E w \in Workers : WorkerStep(w) \/ Progress(w) \/ Raise(w) \/ Crash(w)
  <2>1. PICK w \in Workers : Workers = {w}
    BY DEF OneWorker
  <2>2. WorkerStep(w) \/ Progress(w) \/ Raise(w) \/ Crash(w)
    BY <1>3, <2>1
  <2>3. row'.generation = row.generation
    <3>1. row \in Row
      BY DEF TypeInv, TypeOK
    <3> QED
      BY <2>2, <3>1
      DEF WorkerStep, Take, Begin, Build, Guard, Start, RecordContainer, Bind, Ready, Cut,
          TeardownStop, TeardownUnbind, TeardownClose, Progress, Raise, Crash,
          FailPreview, Fail, record, history, Row
  <2>4. CASE Take(w) \/ Guard(w) \/ TeardownStop(w) \/ Raise(w) \/ Crash(w) \/ TeardownClose(w) \/ Cut(w)
    <3>1. UNCHANGED shown
      BY <2>4 DEF Take, Guard, TeardownStop, Raise, Crash, TeardownClose, Cut, vhost
    <3>2. pc'[w] \in Deploying \ {"begin"} => mem'[w] = mem[w] /\ pc[w] \in Deploying \ {"begin"}
      BY <2>4, Going, Ending
      DEF Take, Guard, TeardownStop, Raise, Crash, TeardownClose, Cut, Retry, Deploying
    <3> QED
      BY <1>0, <2>1, <2>3, <3>1, <3>2 DEF Ordered
  <2>5. CASE Progress(w) \/ Build(w) \/ Start(w) \/ RecordContainer(w) \/ Ready(w)
    <3>1. UNCHANGED shown
      BY <2>5 DEF Progress, Build, Start, RecordContainer, Ready, vhost
    <3>2. mem[w] \in Memory /\ pc[w] \in Deploying \ {"begin"}
      BY <2>5 DEF Progress, Build, Start, RecordContainer, Ready, TypeInv, TypeOK, Deploying
    <3>3. pc'[w] = "idle" \/ mem'[w].job = mem[w].job
      <4>1. CASE Done(w)
        BY <4>1, Ending
      <4>2. CASE Progress(w) \/ RecordContainer(w) \/ Ready(w)
        <5>1. Refreshed(w).job = mem[w].job
          BY <3>2 DEF Refreshed, Memory
        <5> QED
          BY <4>2, <5>1 DEF Progress, RecordContainer, Ready, TypeInv, TypeOK
      <4>3. CASE \E f \in Frameworks : mem' = [mem EXCEPT ![w].node = (f = "nextjs")]
        BY <3>2, <4>3 DEF Memory, TypeInv, TypeOK
      <4>4. CASE mem' = [mem EXCEPT ![w].container = mem[w].job.generation]
        BY <3>2, <4>4 DEF Memory, TypeInv, TypeOK
      <4> QED
        BY <2>5, <4>1, <4>2, <4>3, <4>4 DEF Build, Start, FailPreview, Fail
    <3> QED
      BY <1>0, <2>1, <2>3, <3>1, <3>2, <3>3 DEF Ordered, Deploying
  <2>6. CASE Begin(w)
    <3>1. UNCHANGED shown
      BY <2>6 DEF Begin, vhost
    <3>2. \/ pc'[w] = "idle"
          \/ mem'[w].job = mem[w].job /\ row.generation = mem[w].job.generation
      <4>1. CASE Done(w)
        BY <4>1, Ending
      <4>2. CASE mem' = [mem EXCEPT ![w] =
                    [Refreshed(w) EXCEPT !.previousContainer = row.container,
                                         !.previousPath = row.path]]
        <5>1. mem[w] \in Memory
          BY DEF TypeInv, TypeOK
        <5>2. mem'[w].job = mem[w].job
          BY <4>2, <5>1 DEF Refreshed, Memory, TypeInv, TypeOK
        <5> QED
          BY <2>6, <4>1, <5>2 DEF Begin, Retry
      <4> QED
        BY <2>6, <4>1, <4>2 DEF Begin, Retry
    <3> QED
      BY <1>0, <2>1, <2>3, <3>1, <3>2 DEF Ordered, Deploying
  <2>7. CASE Bind(w)
    <3>1. UNCHANGED mem /\ pc[w] \in Deploying \ {"begin"}
      BY <2>7 DEF Bind, Deploying
    <3>2. shown' = shown \/ shown' = mem[w].job.generation
      BY <2>7 DEF Bind, Switch, vhost
    <3> QED
      BY <1>0, <2>1, <2>3, <3>1, <3>2 DEF Ordered
  <2>8. CASE TeardownUnbind(w)
    <3>1. pc'[w] = "close" /\ (shown' = shown \/ shown' = 0)
      BY <2>8, Going DEF TeardownUnbind, vhost
    <3> QED
      BY <1>0, <2>1, <2>3, <3>1 DEF Ordered, Deploying
  <2> QED
    BY <2>2, <2>4, <2>5, <2>6, <2>7, <2>8 DEF WorkerStep
<1> QED
  BY <1>1, <1>2, <1>3 DEF Next

(* With one worker the vhost never goes back to an older generation: the     *)
(* jobs of the queue run one after the other, each pinned to its own.        *)
THEOREM NewerIsShown == OneWorker => (Spec => GenerationsAdvance)
<1> SUFFICES ASSUME OneWorker PROVE Spec => GenerationsAdvance
  OBVIOUS
<1>1. TypeInv /\ Ordered /\ [Next]_vars => Ordered'
  BY OrderStep
<1>2. TypeInv /\ Ordered /\ [Next]_vars => [shown' >= shown \/ shown' = 0]_shown
  BY OrderStep
<1> QED
  BY <1>1, <1>2, TypeInit, TypeStep, OrderInit, PTL DEF Spec, GenerationsAdvance

-----------------------------------------------------------------------------
(* What is served                                                           *)

LEMMA PointInit == Init => Pointing
  BY DEF Init, Pointing, Points, Served

(* Nothing that goes when a job fails was served, or it is recorded.        *)
LEMMA PointFail ==
    ASSUME TypeInv, Owning, Pointing, NEW w \in Workers, NEW S, Fail(w, S),
           running \ {mem[w].job.generation} \subseteq S, UNCHANGED vhost,
           pc[w] \in {"build", "start"}, happened' = {}
    PROVE  Points(w)'
<1>1. happened = {} /\ proxy \notin running \ running' /\ root # mem[w].job.generation
  BY DEF Fail, Record
<1>2. Served
  BY <1>1 DEF Pointing, Points
<1>3. Served'
  BY <1>1, <1>2 DEF Served, Fail, vhost
<1> QED
  BY <1>3, Ending DEF Points, Fail

LEMMA PointDeploy ==
    ASSUME TypeInv, Owning, Pointing, NEW w \in Workers, happened' = {},
           Begin(w) \/ Progress(w) \/ Build(w) \/ Guard(w) \/ Start(w)
    PROVE  Points(w)'
<1>1. CASE Begin(w) \/ Progress(w)
  <2>1. UNCHANGED <<vhost, disk, happened>> /\ Served
    BY <1>1 DEF Begin, Progress, history, Pointing, Points
  <2>2. pc'[w] \in {"idle", "build"}
    BY <1>1, Going, Ending DEF Begin, Retry, Progress
  <2> QED
    BY <2>1, <2>2 DEF Points, Served, vhost, disk
<1>2. CASE Build(w)
  <2>1. CASE FailPreview(w)
    BY <1>2, <2>1, PointFail DEF Build, FailPreview
  <2>2. CASE /\ dirs' = dirs \cup {mem[w].job.generation}
             /\ Goto(w, "guard")
             /\ UNCHANGED <<running, history>>
    <3>1. Served
      BY <1>2, <2>2 DEF Build, history, Pointing, Points
    <3> QED
      BY <1>2, <2>2, <3>1, Going DEF Build, vhost, Points, Served
  <2> QED
    BY <1>2, <2>1, <2>2 DEF Build
<1>3. CASE Guard(w)
  <2>1. happened = {}
    BY <1>3 DEF Guard, Record
  <2>2. Served /\ UNCHANGED <<vhost, running>>
    BY <1>3, <2>1 DEF Guard, Pointing, Points
  <2>3. pc'[w] \in {"idle", "start", "bind"}
    BY <1>3, Going, Ending DEF Guard
  <2>4. \/ dirs' = dirs
        \/ dirs' = dirs \ {mem[w].job.generation} /\ root # mem[w].job.generation
    <3>1. CASE UNCHANGED dirs
      BY <3>1
    <3>2. CASE /\ dirs' = dirs \ {mem[w].job.generation}
               /\ IF root = mem[w].job.generation THEN Record("cut") ELSE UNCHANGED happened
      BY <3>2 DEF Record
    <3> QED
      BY <1>3, <3>1, <3>2 DEF Guard
  <2> QED
    BY <2>2, <2>3, <2>4 DEF Points, Served, vhost
<1>4. CASE Start(w)
  <2>1. CASE \E S : Fail(w, S) /\ running \ {mem[w].job.generation} \subseteq S
    BY <1>4, <2>1, PointFail DEF Start
  <2>2. CASE /\ running' = running \cup {mem[w].job.generation}
             /\ Goto(w, "record")
             /\ UNCHANGED <<row, dirs, history>>
    <3>1. Served
      BY <1>4, <2>2 DEF Start, history, Pointing, Points
    <3> QED
      BY <1>4, <2>2, <3>1, Going DEF Start, vhost, Points, Served
  <2>3. running \ {mem[w].job.generation} \subseteq running \cup {mem[w].job.generation}
    OBVIOUS
  <2> QED
    BY <1>4, <2>1, <2>2, <2>3 DEF Start, FailPreview
<1> QED
  BY <1>1, <1>2, <1>3, <1>4

LEMMA PointCutover ==
    ASSUME TypeInv, Owning, Pointing, NEW w \in Workers, happened' = {},
           RecordContainer(w) \/ Bind(w) \/ Ready(w) \/ Cut(w)
    PROVE  Points(w)'
<1>0. happened = {} /\ Owns(w) /\ mem[w].container \in OrNull
  BY DEF RecordContainer, Bind, Ready, Cut, Record, history, Owning, TypeInv, TypeOK, Memory
<1>1. Served
  BY <1>0 DEF RecordContainer, Bind, Ready, Cut, Pointing, Points
<1>2. CASE RecordContainer(w)
  BY <1>1, <1>2, Going DEF RecordContainer, Points, Served, vhost, disk
<1>3. CASE Bind(w)
  <2>1. Switch(w) /\ pc'[w] = "ready" /\ UNCHANGED <<running, dirs, mem>>
    BY <1>3, Going DEF Bind, Record, disk
  <2>2. CASE mem[w].node
    <3>1. mem[w].container \in running /\ mem[w].container # 0
      BY <1>0, <1>3, <2>2, RangeType DEF Bind, Owns, TypeInv, TypeOK
    <3> QED
      BY <2>1, <2>2, <3>1 DEF Switch, Points, Served
  <2>3. CASE ~mem[w].node
    <3>1. mem[w].job.generation \in dirs
      BY <1>0, <1>3 DEF Bind, Owns
    <3> QED
      BY <1>1, <2>1, <2>3, <3>1 DEF Switch, Points, Served
  <2> QED
    BY <2>2, <2>3
<1>4. CASE Ready(w)
  <2>1. Points(w)
    BY <1>0 DEF Pointing
  <2> QED
    BY <1>4, <2>1, Going DEF Ready, Points, Served, vhost, disk
<1>5. CASE Cut(w)
  <2>1. Points(w) /\ pc'[w] = "idle" /\ UNCHANGED vhost
    BY <1>0, <1>5, Ending DEF Cut, Pointing
  <2>2. CASE mem[w].node
    <3>1. proxy = row.container /\ row.container \in running /\ proxy # 0
      BY <1>0, <1>5, <2>1, <2>2, RangeType DEF Cut, Owns, Points, TypeInv, TypeOK
    <3> QED
      BY <1>5, <2>1, <3>1 DEF Cut, Points, Served, vhost
  <2>3. CASE ~mem[w].node
    <3>1. running' = running /\ root = mem[w].job.generation
      BY <1>0, <1>5, <2>1, <2>3 DEF Cut, Owns, Points
    <3> QED
      BY <1>1, <1>5, <2>1, <3>1 DEF Cut, Points, Served, vhost
  <2> QED
    BY <2>2, <2>3
<1> QED
  BY <1>2, <1>3, <1>4, <1>5

LEMMA PointRest ==
    ASSUME TypeInv, Owning, Pointing, NEW w \in Workers, happened' = {},
           \/ Take(w) \/ TeardownStop(w) \/ TeardownUnbind(w) \/ TeardownClose(w)
           \/ Raise(w) \/ Crash(w)
    PROVE  Points(w)'
<1>0. happened = {} /\ Points(w)
  BY DEF Take, TeardownStop, TeardownUnbind, TeardownClose, Raise, Crash, Record, history, Pointing
<1>1. CASE Take(w)
  <2>1. pc'[w] \in {"stop", "begin"}
    BY <1>1, Going DEF Take
  <2> QED
    BY <1>0, <1>1, <2>1 DEF Take, Points, Served, vhost, disk
<1>2. CASE TeardownStop(w)
  <2>1. \/ pc'[w] = "unbind"
        \/ pc'[w] = "idle" /\ running' = running
    <3>1. CASE Done(w) /\ UNCHANGED running
      BY <3>1, Ending
    <3>2. CASE Goto(w, "unbind")
      BY <3>2, Going
    <3> QED
      BY <1>2, <3>1, <3>2 DEF TeardownStop
  <2> QED
    BY <1>0, <1>2, <2>1 DEF TeardownStop, Points, Served, vhost
<1>3. CASE TeardownUnbind(w)
  <2>1. pc'[w] = "close" /\ root' = 0 /\ proxy' = 0
    BY <1>3, Going DEF TeardownUnbind, Record
  <2> QED
    BY <2>1 DEF Points, Served
<1>4. CASE TeardownClose(w)
  <2>1. pc'[w] = "idle" /\ root = 0 /\ proxy = 0
    BY <1>0, <1>4, Ending DEF TeardownClose, Retry, Points
  <2> QED
    BY <1>4, <2>1 DEF TeardownClose, Points, Served, vhost
<1>5. CASE Raise(w) \/ Crash(w)
  <2>1. pc'[w] = "idle" /\ UNCHANGED <<vhost, disk>>
    BY <1>5, Ending DEF Raise, Crash, Retry
  <2>2. Served
    BY <1>0, <1>5 DEF Raise, Crash, Record, Points
  <2> QED
    BY <2>1, <2>2 DEF Points, Served, vhost, disk
<1> QED
  BY <1>1, <1>2, <1>3, <1>4, <1>5

LEMMA PointStep == OneWorker /\ TypeInv /\ Owning /\ Pointing /\ [Next]_vars => Pointing'
<1> SUFFICES ASSUME OneWorker, TypeInv, Owning, Pointing, [Next]_vars, happened' = {}
             PROVE  \A w \in Workers : Points(w)'
  BY DEF Pointing
<1>1. CASE UNCHANGED vars
  BY <1>1 DEF Pointing, Points, Served, vars, vhost, disk, process, history
<1>2. CASE Advance \/ AdvanceCommit \/ Close \/ Tick \/ Sweep \/ Promote
  BY <1>2, Elsewhere DEF Pointing, Points, Served, vhost, disk, process, history
<1>3. CASE \E w \in Workers : WorkerStep(w) \/ Progress(w) \/ Raise(w) \/ Crash(w)
  BY <1>3, PointDeploy, PointCutover, PointRest DEF OneWorker, WorkerStep
<1> QED
  BY <1>1, <1>2, <1>3 DEF Next

(* With one worker the vhost points at something that is there, unless an    *)
(* update of it was lost or a generation failed while its own row named what *)
(* was served.                                                               *)
THEOREM ServedIsUp == OneWorker => (Spec => []ServedIsThere)
<1> SUFFICES ASSUME OneWorker PROVE Spec => []ServedIsThere
  OBVIOUS
<1>1. Pointing => ServedIsThere
  BY DEF OneWorker, Pointing, Points, ServedIsThere
<1> QED
  BY <1>1, TypeInit, TypeStep, OwnInit, OwnStep, PointInit, PointStep, PTL DEF Spec
=============================================================================
