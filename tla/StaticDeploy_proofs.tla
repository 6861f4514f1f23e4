------------------------- MODULE StaticDeploy_proofs -------------------------
(* Proofs about StaticDeploy, for any sets of requests and any number of     *)
(* faults: typing, one pipeline per idempotency key, the order in which      *)
(* deployments take the site over, who answers for each container, that what *)
(* is served stays up, and that the current row is the one served.           *)
EXTENDS StaticDeploy, FiniteSetTheorems, WellFoundedInduction, TLAPS

OrNone   == Procs \cup {None}
Mishaps  == {"overlap", "discarded", "failed", "unbound", "misrestored", "overtaken", "late",
             "revived"}

-----------------------------------------------------------------------------
(* Typing                                                                   *)

(* Which requests reach the steps that are for some of them only.           *)
Shape ==
    \A p \in Procs :
        /\ pc[p] \in {"enqueue", "delayed"} => p \in Pushes
        /\ pc[p] = "claim" => p \in Keyed
        /\ pc[p] = "env" => p \in Rollbacks
        /\ p \in Rollbacks /\ pc[p] \in {"clear", "version", "insert"} =>
              mem[p].target \in Procs

TypeInv == TypeOK /\ Shape

LEMMA GotoType ==
    ASSUME TypeOK, NEW p \in Procs, NEW s \in Steps, Goto(p, s)
    PROVE  /\ pc' \in [Procs -> Steps] /\ pc'[p] = s
           /\ \A q \in Procs : q # p => pc'[q] = pc[q]
  BY DEF Goto, TypeOK

LEMMA FaultType ==
    ASSUME TypeOK, NEW k, Fault(k) \/ NoFault
    PROVE  faults' \in Nat
  BY DEF Fault, NoFault, TypeOK

LEMMA RecordType ==
    ASSUME TypeOK, NEW k \in Mishaps, Record(k) \/ UNCHANGED happened
    PROVE  happened' \subseteq Mishaps
  BY DEF Record, TypeOK, Mishaps

LEMMA BeginType ==
    ASSUME TypeOK, NEW p \in Procs, Begin(p)
    PROVE  happened' \subseteq Mishaps
  BY RecordType DEF Begin, Mishaps

LEMMA FailType ==
    ASSUME TypeOK, NEW p \in Procs, NEW S \in SUBSET Procs, Fail(p, S)
    PROVE  /\ rows' \in [Procs -> Row] /\ running' \subseteq Procs
           /\ happened' \subseteq Mishaps
           /\ pc' \in [Procs -> Steps] /\ pc'[p] = "restore"
           /\ \A q \in Procs : q # p => pc'[q] = pc[q]
<1>1. rows' \in [Procs -> Row]
  <2>1. rows[p] \in Row /\ mem[p].container \in OrNone
    BY DEF TypeOK, Memory, OrNone
  <2> QED
    BY <2>1 DEF Fail, TypeOK, Row, Statuses, OrNone
<1>2. happened' \subseteq Mishaps
  BY DEF Fail, TypeOK, Mishaps
<1> QED
  BY <1>1, <1>2, GotoType DEF Fail, Steps

LEMMA FailRowType ==
    ASSUME TypeOK, NEW p \in Procs, FailRow(p)
    PROVE  /\ rows' \in [Procs -> Row] /\ running' \subseteq Procs
           /\ happened' \subseteq Mishaps
           /\ pc' \in [Procs -> Steps] /\ pc'[p] = "restore"
           /\ \A q \in Procs : q # p => pc'[q] = pc[q]
<1>1. running \ {mem[p].container} \in SUBSET Procs
  BY DEF TypeOK
<1> QED
  BY <1>1, FailType DEF FailRow

(* A row, field by field.                                                    *)
LEMMA RowType ==
    ASSUME NEW r \in Row
    PROVE  /\ \A t \in Statuses : [r EXCEPT !.status = t] \in Row
           /\ \A b \in BOOLEAN : [r EXCEPT !.current = b] \in Row
           /\ \A b \in BOOLEAN : [r EXCEPT !.built = b] \in Row
           /\ \A b \in BOOLEAN : [r EXCEPT !.node = b] \in Row
  BY DEF Row

(* The hostname a push carries on is all it takes note of when it starts.   *)
LEMMA CarriedType ==
    ASSUME TypeOK, NEW p \in Procs
    PROVE  Carried(p) \in Hosts
<1>1. {rows[r].host : r \in Newest(Completed \ {p})} \ {None} \subseteq Hosts
  BY DEF TypeOK, Row, Newest, Completed, Existing
<1> QED
  BY <1>1, DeployAssumption DEF Carried

LEMMA RunMemory ==
    ASSUME TypeOK, NEW p \in Procs,
           UNCHANGED mem \/ mem' = [mem EXCEPT ![p].host = Carried(p)]
    PROVE  /\ mem'[p].container = mem[p].container /\ mem'[p].other = mem[p].other
           /\ mem'[p].target = mem[p].target /\ mem'[p].cleared = mem[p].cleared
           /\ mem'[p].version = mem[p].version
           /\ \A q \in Procs : q # p => mem'[q] = mem[q]
  BY DEF TypeOK, Memory

LEMMA StillServed == UNCHANGED vhost => UNCHANGED Served
  BY DEF vhost, Served

(* Memory, field by field.                                                   *)
LEMMA MemoryType ==
    ASSUME NEW m \in Memory
    PROVE  /\ \A S \in SUBSET Procs : [m EXCEPT !.cleared = S] \in Memory
           /\ \A n \in Nat : [m EXCEPT !.version = n] \in Memory
           /\ \A b \in BOOLEAN : [m EXCEPT !.active = b] \in Memory
           /\ \A q \in OrNone : [m EXCEPT !.target = q] \in Memory
           /\ \A q \in OrNone : [m EXCEPT !.container = q] \in Memory
           /\ \A q \in OrNone : [m EXCEPT !.other = q] \in Memory
  BY DEF Memory, OrNone

LEMMA RowFact == NoRow \in Row /\ Blank \in Memory
  BY DEF NoRow, Row, Statuses, Blank, Memory

LEMMA TypeInit == Init => TypeOK
<1> SUFFICES ASSUME Init PROVE TypeOK
  OBVIOUS
<1>1. rows \in [Procs -> Row] /\ mem \in [Procs -> Memory]
  BY RowFact DEF Init
<1>2. key \in KeyRecord
  BY DEF Init, NoKey, KeyRecord
<1> QED
  BY <1>1, <1>2, DeployAssumption DEF Init, TypeOK, Steps, Resting

LEMMA TopType ==
    ASSUME TypeOK
    PROVE  TopVersion \in Nat
<1>1. CASE Newest(Existing) = {}
  BY <1>1 DEF TopVersion
<1>2. CASE Newest(Existing) # {}
  <2>1. (CHOOSE r \in Newest(Existing) : TRUE) \in Procs
    BY <1>2 DEF Newest, Existing
  <2> QED
    BY <1>2, <2>1 DEF TopVersion, TypeOK, Row
<1> QED
  BY <1>1, <1>2

LEMMA CreateType ==
    ASSUME TypeInv, NEW p \in Procs,
           \/ UploadBegin(p) \/ PushBegin(p) \/ RollbackBegin(p)
           \/ Clear(p) \/ Version(p) \/ Insert(p)
    PROVE  TypeOK'
<1> USE DEF TypeInv, site, vhost, history, queue
<1>0. {"clear", "done", "version", "insert", "claim", "build", "enqueue", "env"} \subseteq Steps
  BY DEF Steps, Resting
<1>1. CASE UploadBegin(p)
  BY <1>0, <1>1, BeginType, GotoType DEF UploadBegin, TypeOK, Mishaps
<1>2. CASE PushBegin(p)
  BY <1>0, <1>2, BeginType, GotoType DEF PushBegin, TypeOK, Mishaps
<1>3. CASE RollbackBegin(p)
  <2>1. mem' \in [Procs -> Memory]
    <3>1. CASE \E c \in Newest(Current), t \in Completed :
                  mem' = [mem EXCEPT ![p].other = c, ![p].target = t]
      <4>1. PICK c \in Procs, t \in Procs : mem' = [mem EXCEPT ![p].other = c, ![p].target = t]
        BY <3>1 DEF Newest, Current, Completed, Existing
      <4>2. [mem[p] EXCEPT !.other = c] \in Memory
        BY MemoryType DEF TypeOK, OrNone
      <4>3. [[mem[p] EXCEPT !.other = c] EXCEPT !.target = t] \in Memory
        BY <4>2, MemoryType DEF OrNone
      <4>4. [mem[p] EXCEPT !.other = c, !.target = t] \in Memory
        BY <4>3
      <4> QED
        BY <4>1, <4>4 DEF TypeOK
    <3> QED
      BY <1>3, <3>1 DEF RollbackBegin, TypeOK
  <2>2. Goto(p, "clear") \/ Goto(p, "done")
    BY <1>3 DEF RollbackBegin
  <2> QED
    BY <1>0, <1>3, <2>1, <2>2, BeginType, GotoType DEF RollbackBegin, TypeOK, Mishaps
<1>4. CASE Clear(p)
  <2>1. mem' \in [Procs -> Memory]
    <3>1. [mem[p] EXCEPT !.cleared = Current] \in Memory
      BY MemoryType DEF Current, Existing, TypeOK
    <3> QED
      BY <1>4, <3>1 DEF Clear, TypeOK
  <2> QED
    BY <1>0, <1>4, <2>1, GotoType DEF Clear, TypeOK
<1>5. CASE Version(p)
  <2>1. mem' \in [Procs -> Memory]
    <3>1. mem[p].cleared \cap Current \in SUBSET Procs /\ TopVersion + 1 \in Nat
      BY TopType DEF TypeOK, Memory
    <3>2. [mem[p] EXCEPT !.cleared = mem[p].cleared \cap Current] \in Memory
      BY <3>1, MemoryType DEF TypeOK
    <3>3. [[mem[p] EXCEPT !.cleared = mem[p].cleared \cap Current]
              EXCEPT !.version = TopVersion + 1] \in Memory
      BY <3>1, <3>2, MemoryType
    <3>4. [mem[p] EXCEPT !.cleared = mem[p].cleared \cap Current,
                         !.version = TopVersion + 1] \in Memory
      BY <3>3
    <3> QED
      BY <1>5, <3>4 DEF Version, TypeOK
  <2> QED
    BY <1>0, <1>5, <2>1, GotoType DEF Version, TypeOK
<1>6. CASE Insert(p)
  <2>1. mem' \in [Procs -> Memory]
    <3>1. [mem[p] EXCEPT !.cleared = {}] \in Memory
      BY MemoryType DEF TypeOK
    <3> QED
      BY <1>6, <3>1 DEF Insert, TypeOK
  <2>2. Inserted(p) \in Row
    <3>1. (IF p \in Rollbacks THEN rows[mem[p].target] ELSE NoRow) \in Row
      BY <1>6, RowFact DEF Insert, TypeOK, Shape
    <3> QED
      BY <3>1 DEF Inserted, TypeOK, Row, Statuses, Memory
  <2>3. AfterInsert(p) \in {"claim", "build", "enqueue", "env"}
    BY DeployAssumption DEF AfterInsert, Procs
  <2>4. CASE rows' = [r \in Procs |->
                         IF r = p THEN Inserted(p)
                         ELSE [rows[r] EXCEPT !.current = @ /\ r \notin mem[p].cleared]]
    <3>1. \A r \in Procs : [rows[r] EXCEPT !.current = @ /\ r \notin mem[p].cleared] \in Row
      BY DEF TypeOK, Row
    <3>2. rows' \in [Procs -> Row]
      BY <2>2, <2>4, <3>1
    <3> QED
      BY <1>0, <1>6, <2>1, <2>3, <3>2, GotoType DEF Insert, TypeOK
  <2>5. CASE UNCHANGED rows
    BY <1>0, <1>6, <2>1, <2>3, <2>5, GotoType DEF Insert, TypeOK
  <2> QED
    BY <1>6, <2>4, <2>5 DEF Insert
<1> QED
  BY <1>1, <1>2, <1>3, <1>4, <1>5, <1>6

LEMMA KeyType ==
    ASSUME TypeInv, KeyExpires \/ KeyPurged \/ \E p \in Procs : Claim(p) \/ Discard(p)
    PROVE  TypeOK'
<1> USE DEF TypeInv, site, vhost, history, queue
<1>1. CASE KeyExpires
  <2>1. key' \in KeyRecord
    BY <1>1 DEF KeyExpires, TypeOK, KeyRecord
  <2> QED
    BY <1>1, <2>1, FaultType DEF KeyExpires, TypeOK
<1>2. CASE KeyPurged
  BY <1>2 DEF KeyPurged, NoKey, KeyRecord, TypeOK
<1>3. ASSUME NEW p \in Procs, Claim(p) PROVE TypeOK'
  <2>1. key' \in KeyRecord
    BY <1>3 DEF Claim, TypeOK, KeyRecord
  <2>2. runs' \subseteq Keyed
    <3>1. p \in Keyed
      BY <1>3 DEF Claim, Shape
    <3> QED
      BY <1>3, <3>1 DEF Claim, TypeOK
  <2>3. "build" \in Steps /\ "discard" \in Steps
    BY DEF Steps
  <2> QED
    BY <1>3, <2>1, <2>2, <2>3, GotoType DEF Claim, TypeOK
<1>4. ASSUME NEW p \in Procs, Discard(p) PROVE TypeOK'
  <2>1. rows' \in [Procs -> Row]
    BY <1>4, RowFact DEF Discard, TypeOK
  <2>2. "done" \in Steps /\ happened' \subseteq Mishaps
    BY <1>4, RecordType DEF Discard, Steps, Resting, Mishaps
  <2> QED
    BY <1>4, <2>1, <2>2, GotoType DEF Discard, TypeOK, Mishaps
<1> QED
  BY <1>1, <1>2, <1>3, <1>4

LEMMA QueueType ==
    ASSUME TypeInv,
           WorkerTake \/ \E p \in Procs : Enqueue(p) \/ Raise(p) \/ Promote(p) \/ Crash(p)
    PROVE  TypeOK'
<1> USE DEF TypeInv, site, vhost, history, queue
<1>0. {"queued", "run", "delayed", "crashed"} \subseteq Steps
  BY DEF Steps, Resting
<1>1. CASE WorkerTake
  <2>1. Head(jobs) \in Pushes /\ Tail(jobs) \in Seq(Pushes)
    BY <1>1 DEF WorkerTake, TypeOK
  <2>2. Head(jobs) \in Procs
    BY <2>1 DEF Procs
  <2>3. [Blank EXCEPT !.container = rows[Head(jobs)].container] \in Memory
    BY <2>2, RowFact DEF TypeOK, Row, Memory
  <2>4. mem' \in [Procs -> Memory]
    BY <1>1, <2>2, <2>3 DEF WorkerTake, TypeOK
  <2> QED
    BY <1>0, <1>1, <2>1, <2>2, <2>4, BeginType, GotoType DEF WorkerTake, TypeOK, Mishaps
<1>2. ASSUME NEW p \in Procs, Enqueue(p) PROVE TypeOK'
  <2>1. CASE FailRow(p) /\ UNCHANGED jobs
    <3>1. faults' \in Nat /\ happened' \subseteq Mishaps
      BY <1>2, <2>1, FailRowType, FaultType DEF Enqueue
    <3> QED
      BY <1>2, <2>1, <3>1, FailRowType DEF Enqueue, TypeOK, Mishaps
  <2>2. CASE jobs' = Append(jobs, p) /\ Goto(p, "queued") /\ UNCHANGED <<rows, running, happened>>
    <3>1. p \in Pushes
      BY <1>2 DEF Enqueue, Shape
    <3>2. jobs' \in Seq(Pushes)
      BY <2>2, <3>1 DEF TypeOK
    <3> QED
      BY <1>0, <1>2, <2>2, <3>2, GotoType, FaultType DEF Enqueue, TypeOK
  <2> QED
    BY <1>2, <2>1, <2>2 DEF Enqueue
<1>3. ASSUME NEW p \in Procs, Raise(p) PROVE TypeOK'
  <2>1. happened' \subseteq Mishaps
    BY <1>3, RecordType DEF Raise, Mishaps
  <2> QED
    BY <1>0, <1>3, <2>1, GotoType, FaultType DEF Raise, TypeOK, Mishaps
<1>4. ASSUME NEW p \in Procs, Promote(p) PROVE TypeOK'
  <2>1. jobs' \in Seq(Pushes)
    BY <1>4 DEF Promote, Shape, TypeOK
  <2> QED
    BY <1>0, <1>4, <2>1, GotoType DEF Promote, TypeOK
<1>5. ASSUME NEW p \in Procs, Crash(p) PROVE TypeOK'
  BY <1>0, <1>5, GotoType, FaultType DEF Crash, TypeOK
<1> QED
  BY <1>1, <1>2, <1>3, <1>4, <1>5

LEMMA PipelineType ==
    ASSUME TypeInv, NEW p \in Procs,
           RunStart(p) \/ Env(p) \/ Build(p) \/ Check(p) \/ Limit(p) \/ Start(p)
    PROVE  TypeOK'
<1> USE DEF TypeInv, site, vhost, history, queue
<1>0. {"done", "build", "start", "bind", "check", "limit", "record"} \subseteq Steps
  BY DEF Steps, Resting
<1>1. ASSUME Yield(p)
      PROVE  rows' \in [Procs -> Row] /\ pc' \in [Procs -> Steps]
  <2>1. rows' \in [Procs -> Row]
    <3>1. "completed" \in Statuses /\ rows[p] \in Row
      BY DEF Statuses, TypeOK
    <3>2. [rows[p] EXCEPT !.status = "completed"] \in Row
      BY <3>1, RowType
    <3>3. [[rows[p] EXCEPT !.status = "completed"] EXCEPT !.current = FALSE] \in Row
      BY <3>2, RowType
    <3>4. [rows[p] EXCEPT !.status = "completed", !.current = FALSE] \in Row
      BY <3>3
    <3> QED
      BY <1>1, <3>4 DEF Yield, TypeOK
  <2> QED
    BY <1>0, <1>1, <2>1, GotoType DEF Yield
<1>2. CASE RunStart(p)
  <2>1. CASE Yield(p) /\ UNCHANGED mem
    BY <1>1, <1>2, <2>1, RecordType DEF RunStart, TypeOK, Mishaps
  <2>2. CASE /\ Goto(p, "build") /\ UNCHANGED rows
             /\ mem' = [mem EXCEPT ![p].host = Carried(p)]
    <3>1. mem' \in [Procs -> Memory]
      BY <2>2, CarriedType DEF TypeOK, Memory
    <3> QED
      BY <1>0, <1>2, <2>2, <3>1, GotoType, RecordType DEF RunStart, TypeOK, Mishaps
  <2> QED
    BY <1>2, <2>1, <2>2 DEF RunStart
<1>3. CASE Env(p)
  <2>1. CASE FailRow(p)
    <3>1. faults' \in Nat
      BY <1>3, FaultType DEF Env
    <3> QED
      BY <1>3, <2>1, <3>1, FailRowType DEF Env, TypeOK, Mishaps
  <2>2. CASE Goto(p, IF rows[p].node THEN "start" ELSE "bind") /\ UNCHANGED <<rows, running, happened>>
    BY <1>0, <1>3, <2>2, GotoType, FaultType DEF Env, TypeOK
  <2> QED
    BY <1>3, <2>1, <2>2 DEF Env
<1>4. CASE Build(p)
  <2>1. CASE FailRow(p)
    <3>1. faults' \in Nat
      BY <1>4, FaultType DEF Build
    <3> QED
      BY <1>4, <2>1, <3>1, FailRowType DEF Build, TypeOK, Mishaps
  <2>2. CASE /\ rows' = [rows EXCEPT ![p].status = "queued", ![p].built = TRUE,
                                     ![p].node = (p \in Nextjs)]
             /\ Goto(p, "check")
             /\ UNCHANGED <<running, happened>>
    <3>1. /\ "queued" \in Statuses /\ rows[p] \in Row
          /\ (p \in Nextjs) \in BOOLEAN
      BY DEF Statuses, TypeOK
    <3>2. [rows[p] EXCEPT !.status = "queued"] \in Row
      BY <3>1, RowType
    <3>3. [[rows[p] EXCEPT !.status = "queued"] EXCEPT !.built = TRUE] \in Row
      BY <3>2, RowType
    <3>4. [[[rows[p] EXCEPT !.status = "queued"] EXCEPT !.built = TRUE]
              EXCEPT !.node = (p \in Nextjs)] \in Row
      BY <3>1, <3>3, RowType
    <3>5. [rows[p] EXCEPT !.status = "queued", !.built = TRUE, !.node = (p \in Nextjs)] \in Row
      BY <3>4
    <3>6. rows' \in [Procs -> Row]
      BY <2>2, <3>5 DEF TypeOK
    <3> QED
      BY <1>0, <1>4, <2>2, <3>6, GotoType, FaultType DEF Build, TypeOK
  <2> QED
    BY <1>4, <2>1, <2>2 DEF Build
<1>5. CASE Check(p)
  <2>0. seen' \in [Procs -> Nat]
    BY <1>5, TopType DEF Check, TypeOK
  <2>1. CASE Yield(p)
    BY <1>1, <1>5, <2>0, <2>1 DEF Check, TypeOK
  <2>2. CASE Goto(p, IF rows[p].node THEN "limit" ELSE "record") /\ UNCHANGED rows
    BY <1>0, <1>5, <2>0, <2>2, GotoType DEF Check, TypeOK
  <2> QED
    BY <1>5, <2>1, <2>2 DEF Check
<1>6. CASE Limit(p)
  <2>1. CASE FailRow(p) /\ UNCHANGED mem
    BY <1>6, <2>1, FailRowType DEF Limit, TypeOK, Mishaps
  <2>2. CASE /\ \/ UNCHANGED mem
                \/ \E r \in Newest(Completed \ {p}) : mem' = [mem EXCEPT ![p].other = r]
             /\ Goto(p, "start")
             /\ UNCHANGED <<rows, running, happened>>
    <3>1. mem' \in [Procs -> Memory]
      <4>1. ASSUME NEW r \in Newest(Completed \ {p}), mem' = [mem EXCEPT ![p].other = r]
            PROVE  mem' \in [Procs -> Memory]
        <5>1. r \in OrNone
          BY DEF Newest, Completed, Existing, OrNone
        <5>2. [mem[p] EXCEPT !.other = r] \in Memory
          BY <5>1, MemoryType DEF TypeOK
        <5> QED
          BY <4>1, <5>2 DEF TypeOK
      <4> QED
        BY <2>2, <4>1 DEF TypeOK
    <3> QED
      BY <1>0, <1>6, <2>2, <3>1, GotoType DEF Limit, TypeOK
  <2> QED
    BY <1>6, <2>1, <2>2 DEF Limit
<1>7. CASE Start(p)
  <2>1. CASE \E S \in SUBSET Procs : Fail(p, S) /\ UNCHANGED mem
    <3>1. faults' \in Nat
      BY <1>7, FaultType DEF Start
    <3> QED
      BY <1>7, <2>1, <3>1, FailType DEF Start, TypeOK, Mishaps
  <2>2. CASE /\ NoFault
             /\ \E c \in IF Reusable(p) = {} THEN {p} ELSE Reusable(p) :
                   /\ mem' = [mem EXCEPT ![p].container = c]
                   /\ running' = running \cup {c}
             /\ Goto(p, "record")
             /\ UNCHANGED <<rows, happened>>
    <3>1. PICK c \in Procs : /\ mem' = [mem EXCEPT ![p].container = c]
                             /\ running' = running \cup {c}
      BY <2>2 DEF Reusable, TypeOK
    <3>2. [mem[p] EXCEPT !.container = c] \in Memory
      BY MemoryType DEF TypeOK, OrNone
    <3>3. mem' \in [Procs -> Memory] /\ running' \subseteq Procs
      BY <3>1, <3>2 DEF TypeOK
    <3> QED
      BY <1>0, <1>7, <2>2, <3>3, GotoType, FaultType DEF Start, TypeOK
  <2>3. /\ running \ {mem[p].container} \in SUBSET Procs
        /\ running \cup {p} \in SUBSET Procs /\ running \ {p} \in SUBSET Procs
    BY DEF TypeOK
  <2> QED
    BY <1>7, <2>1, <2>2, <2>3 DEF Start, FailRow
<1> QED
  BY <1>2, <1>3, <1>4, <1>5, <1>6, <1>7

LEMMA HostType ==
    ASSUME TypeOK, NEW p \in Procs, NEW h \in HostOf(p)
    PROVE  h \in Hosts \cup {None}
<1>1. rows[p] \in Row /\ mem[p] \in Memory
  BY DEF TypeOK
<1>2. p \in Custom \/ p \in Uploads \ Custom \/ p \in Pushes \/ p \in Rollbacks
  BY DEF Procs
<1>3. HostOf(p) \subseteq Hosts \cup {rows[p].host, mem[p].host}
  <2>1. CASE p \in Custom \/ p \in Uploads \ Custom
    <3>1. CASE p \in Custom
      BY <3>1, DeployAssumption DEF HostOf
    <3>2. CASE p \in Uploads \ Custom
      BY <3>2, DeployAssumption DEF HostOf
    <3> QED
      BY <2>1, <3>1, <3>2
  <2>2. CASE p \in Pushes
    BY <2>2, DeployAssumption DEF HostOf
  <2>3. CASE p \in Rollbacks
    BY <2>3, DeployAssumption DEF HostOf
  <2> QED
    BY <1>2, <2>1, <2>2, <2>3
<1> QED
  BY <1>1, <1>3 DEF Row, Memory

LEMMA ActivateType ==
    ASSUME TypeInv, NEW p \in Procs,
           RecordRow(p) \/ Bind(p) \/ Finish(p) \/ Stop(p) \/ Restore(p) \/ Rewrite(p)
    PROVE  TypeOK'
<1> USE DEF TypeInv, site, vhost, history, queue
<1>0. {"done", "bind", "finish", "stop", "rewrite"} \subseteq Steps
  BY DEF Steps, Resting
<1>1. CASE RecordRow(p)
  <2>1. mem[p].container \in OrNone /\ rows[p] \in Row
    BY DEF TypeOK, Memory, OrNone
  <2>2. CASE FailRow(p)
    BY <1>1, <2>2, FailRowType, FaultType DEF RecordRow, TypeOK, Mishaps
  <2>3. CASE /\ \E h \in HostOf(p) :
                   rows' = [rows EXCEPT ![p].container = mem[p].container, ![p].host = h]
             /\ Goto(p, "bind") /\ NoFault
             /\ UNCHANGED <<running, happened>>
    <3>1. PICK h \in HostOf(p) :
             rows' = [rows EXCEPT ![p].container = mem[p].container, ![p].host = h]
      BY <2>3
    <3>2. h \in Hosts \cup {None}
      BY HostType
    <3>3. rows' \in [Procs -> Row]
      BY <2>1, <3>1, <3>2 DEF TypeOK, Row, OrNone
    <3> QED
      BY <1>0, <1>1, <2>3, <3>3, GotoType, FaultType DEF RecordRow, TypeOK
  <2> QED
    BY <1>1, <2>2, <2>3 DEF RecordRow
<1>2. CASE Bind(p)
  <2>0. faults' \in Nat
    BY <1>2, FaultType DEF Bind
  <2>1. mem' \in [Procs -> Memory]
    <3>1. \A b \in BOOLEAN : [mem[p] EXCEPT !.active = b] \in Memory
      BY MemoryType DEF TypeOK
    <3>2. \A b \in BOOLEAN : [mem EXCEPT ![p].active = b] \in [Procs -> Memory]
      BY <3>1 DEF TypeOK
    <3> QED
      BY <1>2, <3>2 DEF Bind, TypeOK
  <2>2. /\ root' \in [Hosts -> OrNone] /\ proxy' \in [Hosts -> OrNone]
        /\ bound' \in OrNone /\ home' \in Hosts \cup {None}
        /\ happened' \subseteq Mishaps
    <3>1. CASE Switch(p)
      <4>1. happened' \subseteq Mishaps
        BY <3>1, RecordType DEF Switch, Mishaps
      <4> QED
        BY <3>1, <4>1 DEF Switch, TypeOK, Memory, Row, OrNone
    <3>2. CASE Record("unbound") /\ UNCHANGED vhost
      BY <3>2, RecordType DEF TypeOK, Mishaps, OrNone
    <3> QED
      BY <1>2, <3>1, <3>2 DEF Bind
  <2> QED
    BY <1>0, <1>2, <2>0, <2>1, <2>2, GotoType DEF Bind, TypeOK, Mishaps, OrNone
<1>3. CASE Finish(p)
  <2>1. PICK t \in {"completed", "provisioning_ssl"} : rows' = [rows EXCEPT ![p].status = t]
    BY <1>3 DEF Finish
  <2>2. rows' \in [Procs -> Row]
    <3>1. t \in Statuses /\ rows[p] \in Row
      BY DEF Statuses, TypeOK
    <3>2. [rows[p] EXCEPT !.status = t] \in Row
      BY <3>1, RowType
    <3> QED
      BY <2>1, <3>2 DEF TypeOK
  <2> QED
    BY <1>0, <1>3, <2>2, GotoType DEF Finish, TypeOK
<1>4. CASE Stop(p)
  <2>1. CASE FailRow(p)
    BY <1>4, <2>1, FailRowType DEF Stop, TypeOK, Mishaps
  <2>2. CASE /\ \E S : running' = running \ S
             /\ Goto(p, "done")
             /\ UNCHANGED <<rows, happened>>
    BY <1>0, <1>4, <2>2, GotoType DEF Stop, TypeOK
  <2> QED
    BY <1>4, <2>1, <2>2 DEF Stop
<1>5. CASE Restore(p)
  <2>1. mem' \in [Procs -> Memory]
    <3>1. ASSUME NEW r \in Newest(Completed \ {p}), mem' = [mem EXCEPT ![p].other = r]
          PROVE  mem' \in [Procs -> Memory]
      <4>1. r \in OrNone
        BY DEF Newest, Completed, Existing, OrNone
      <4>2. [mem[p] EXCEPT !.other = r] \in Memory
        BY <4>1, MemoryType DEF TypeOK
      <4> QED
        BY <3>1, <4>2 DEF TypeOK
    <3> QED
      BY <1>5, <3>1 DEF Restore, TypeOK
  <2>2. happened' \subseteq Mishaps
    BY <1>5, RecordType DEF Restore, Mishaps
  <2>3. Goto(p, "done") \/ Goto(p, "rewrite")
    BY <1>5 DEF Restore
  <2> QED
    BY <1>0, <1>5, <2>1, <2>2, <2>3, GotoType DEF Restore, TypeOK, Mishaps
<1>6. CASE Rewrite(p)
  <2>1. rows' \in [Procs -> Row]
    <3>1. CASE mem[p].other \in Procs
      <4>1. [rows[mem[p].other] EXCEPT !.current = TRUE] \in Row
        BY <3>1, RowType DEF TypeOK
      <4> QED
        BY <1>6, <3>1, <4>1 DEF Rewrite, TypeOK
    <3>2. CASE mem[p].other \notin Procs
      BY <1>6, <3>2 DEF Rewrite, TypeOK
    <3> QED
      BY <3>1, <3>2
  <2> QED
    BY <1>0, <1>6, <2>1, GotoType DEF Rewrite, TypeOK
<1> QED
  BY <1>1, <1>2, <1>3, <1>4, <1>5, <1>6

(* One process moves at a time; the worker's take moves the job's.          *)
LEMMA OthersWait ==
    ASSUME TypeInv, NEW p \in Procs, Step(p) \/ Raise(p) \/ Crash(p)
    PROVE  \A q \in Procs : q # p => pc'[q] = pc[q] /\ mem'[q] = mem[q] /\ seen'[q] = seen[q]
<1> USE DEF TypeInv, TypeOK, Goto, history
<1>1. CASE UploadBegin(p) \/ PushBegin(p) \/ RollbackBegin(p) \/ Clear(p) \/ Version(p) \/ Insert(p)
  BY <1>1 DEF UploadBegin, PushBegin, RollbackBegin, Clear, Version, Insert
<1>2. CASE Claim(p) \/ Discard(p) \/ Enqueue(p) \/ Promote(p) \/ Raise(p) \/ Crash(p)
  BY <1>2 DEF Claim, Discard, Enqueue, FailRow, Fail, Promote, Raise, Crash
<1>3. CASE RunStart(p) \/ Env(p) \/ Build(p) \/ Check(p)
  BY <1>3 DEF RunStart, Env, Build, Check, Yield, FailRow, Fail
<1>4. CASE Limit(p) \/ Start(p)
  BY <1>4 DEF Limit, Start, FailRow, Fail
<1>5. CASE RecordRow(p) \/ Bind(p) \/ Finish(p) \/ Stop(p) \/ Restore(p) \/ Rewrite(p)
  BY <1>5 DEF RecordRow, Bind, Finish, Stop, Restore, Rewrite, FailRow, Fail
<1> QED
  BY <1>1, <1>2, <1>3, <1>4, <1>5 DEF Step

(* Where each step leads.                                                   *)
LEMMA Leads ==
    ASSUME TypeInv, NEW p \in Procs, Step(p) \/ Raise(p) \/ Crash(p)
    PROVE  /\ pc'[p] \in {"enqueue", "delayed"} => p \in Pushes
           /\ pc'[p] = "claim" => p \in Keyed
           /\ pc'[p] = "env" => p \in Rollbacks
           /\ pc'[p] \in {"clear", "version", "insert"} =>
                 UploadBegin(p) \/ PushBegin(p) \/ RollbackBegin(p) \/ Clear(p) \/ Version(p)
<1> USE DEF TypeInv, TypeOK, Goto
<1>1. CASE UploadBegin(p) \/ PushBegin(p) \/ RollbackBegin(p) \/ Clear(p) \/ Version(p)
  BY <1>1 DEF UploadBegin, PushBegin, RollbackBegin, Clear, Version
<1>2. CASE Insert(p)
  <2>1. pc'[p] \in {"done", AfterInsert(p)}
    BY <1>2 DEF Insert
  <2>2. /\ AfterInsert(p) \in {"claim", "build", "enqueue", "env"}
        /\ AfterInsert(p) = "claim" => p \in Keyed
        /\ AfterInsert(p) = "enqueue" => p \in Pushes
        /\ AfterInsert(p) = "env" => p \in Rollbacks
    BY DeployAssumption DEF AfterInsert, Procs
  <2> QED
    BY <2>1, <2>2
<1>3. CASE Claim(p) \/ Discard(p) \/ Enqueue(p) \/ Promote(p) \/ Raise(p) \/ Crash(p)
  BY <1>3 DEF Claim, Discard, Enqueue, FailRow, Fail, Promote, Raise, Crash
<1>4. CASE RunStart(p) \/ Env(p) \/ Build(p) \/ Check(p)
  BY <1>4 DEF RunStart, Env, Build, Check, Yield, FailRow, Fail
<1>5. CASE Limit(p) \/ Start(p)
  BY <1>5 DEF Limit, Start, FailRow, Fail
<1>6. CASE RecordRow(p) \/ Bind(p) \/ Finish(p) \/ Stop(p) \/ Restore(p) \/ Rewrite(p)
  BY <1>6 DEF RecordRow, Bind, Finish, Stop, Restore, Rewrite, FailRow, Fail
<1> QED
  BY <1>1, <1>2, <1>3, <1>4, <1>5, <1>6 DEF Step

(* What the worker's take does to the job it takes.                         *)
LEMMA Taken ==
    ASSUME TypeInv, WorkerTake
    PROVE  \E h \in Pushes :
              /\ h = Head(jobs) /\ pc'[h] = "run"
              /\ \A q \in Procs : q # h => pc'[q] = pc[q] /\ mem'[q] = mem[q]
<1>1. Head(jobs) \in Pushes
  BY DEF WorkerTake, TypeInv, TypeOK
<1> QED
  BY <1>1 DEF WorkerTake, Goto, TypeInv, TypeOK, Procs

LEMMA ShapeStep == TypeInv /\ [Next]_vars => Shape'
<1> SUFFICES ASSUME TypeInv, [Next]_vars PROVE Shape'
  OBVIOUS
<1>1. CASE UNCHANGED vars \/ AllDone \/ KeyExpires \/ KeyPurged
  BY <1>1 DEF TypeInv, Shape, vars, AllDone, KeyExpires, KeyPurged
<1>2. CASE WorkerTake
  BY <1>2, Taken, DeployAssumption DEF TypeInv, Shape
<1>3. ASSUME NEW p \in Procs, Step(p) \/ Raise(p) \/ Crash(p) PROVE Shape'
  <2>1. p \in Rollbacks /\ pc'[p] \in {"clear", "version", "insert"} => mem'[p].target \in Procs
    <3>1. CASE UploadBegin(p) \/ PushBegin(p)
      BY <3>1, DeployAssumption DEF UploadBegin, PushBegin
    <3>2. CASE RollbackBegin(p)
      <4>1. CASE \E c \in Newest(Current), t \in Completed :
                    mem' = [mem EXCEPT ![p].other = c, ![p].target = t]
        BY <4>1 DEF Completed, Existing, TypeInv, TypeOK, Memory
      <4>2. CASE Goto(p, "done")
        BY <4>2 DEF Goto, TypeInv, TypeOK
      <4> QED
        BY <3>2, <4>1, <4>2 DEF RollbackBegin
    <3>3. CASE Clear(p) \/ Version(p)
      <4>1. mem'[p].target = mem[p].target
        BY <3>3 DEF Clear, Version, TypeInv, TypeOK, Memory
      <4> QED
        BY <3>3, <4>1 DEF Clear, Version, TypeInv, Shape
    <3> QED
      BY <1>3, <3>1, <3>2, <3>3, Leads
  <2> QED
    BY <1>3, <2>1, Leads, OthersWait DEF TypeInv, Shape
<1> QED
  BY <1>1, <1>2, <1>3 DEF Next

LEMMA TypeStep == TypeInv /\ [Next]_vars => TypeInv'
<1> SUFFICES ASSUME TypeInv, [Next]_vars PROVE TypeInv'
  OBVIOUS
<1>1. CASE UNCHANGED vars \/ AllDone
  BY <1>1 DEF TypeInv, TypeOK, Shape, AllDone, vars, site, vhost, queue, history
<1>2. CASE KeyExpires \/ KeyPurged \/ WorkerTake
  BY <1>2, KeyType, QueueType, ShapeStep DEF TypeInv
<1>3. CASE \E p \in Procs : Step(p) \/ Raise(p) \/ Crash(p)
  BY <1>3, CreateType, KeyType, QueueType, PipelineType, ActivateType, ShapeStep DEF Step, TypeInv
<1> QED
  BY <1>1, <1>2, <1>3 DEF Next

LEMMA InitInv == Init => TypeInv
  BY TypeInit DEF TypeInv, Shape, Init

(* What has happened so far has not.                                        *)
LEMMA HappenedStays == TypeInv /\ [Next]_vars => happened \subseteq happened'
<1> SUFFICES ASSUME TypeInv, [Next]_vars PROVE happened \subseteq happened'
  OBVIOUS
<1> USE DEF Record, history
<1>1. CASE UNCHANGED vars \/ AllDone \/ KeyExpires \/ KeyPurged
  BY <1>1 DEF AllDone, KeyExpires, KeyPurged, vars
<1>2. CASE WorkerTake
  BY <1>2 DEF WorkerTake, Begin
<1>3. ASSUME NEW p \in Procs, Step(p) \/ Raise(p) \/ Crash(p) PROVE happened \subseteq happened'
  <2>1. CASE \/ UploadBegin(p) \/ PushBegin(p) \/ RollbackBegin(p) \/ Clear(p) \/ Version(p)
             \/ Insert(p) \/ Claim(p) \/ Discard(p) \/ Enqueue(p) \/ Promote(p) \/ Raise(p) \/ Crash(p)
    BY <2>1 DEF UploadBegin, PushBegin, RollbackBegin, Clear, Version, Insert, Claim, Discard, Enqueue,
                FailRow, Fail, Promote, Raise, Crash, Begin
  <2>2. CASE RunStart(p) \/ Env(p) \/ Build(p) \/ Check(p) \/ Limit(p) \/ Start(p)
    BY <2>2 DEF RunStart, Env, Build, Check, Limit, Start, FailRow, Fail
  <2>3. CASE RecordRow(p) \/ Bind(p) \/ Finish(p) \/ Stop(p) \/ Restore(p) \/ Rewrite(p)
    BY <2>3 DEF RecordRow, Bind, Switch, Finish, Stop, Restore, Rewrite, FailRow, Fail
  <2> QED
    BY <1>3, <2>1, <2>2, <2>3 DEF Step
<1> QED
  BY <1>1, <1>2, <1>3 DEF Next

(* The variables have their types, for any sets of requests.                *)
THEOREM TypeCorrect == Spec => []TypeOK
<1>1. TypeInv => TypeOK
  BY DEF TypeInv
<1> QED
  BY <1>1, InitInv, TypeStep, PTL DEF Spec

-----------------------------------------------------------------------------
(* The idempotency key                                                      *)

(* The pipeline that was started is the record's.                           *)
KeyHeld == runs \subseteq (IF key.state = "fresh" THEN {key.row} ELSE {})

LEMMA KeyStep == KeyHeld /\ [Next]_vars => KeyHeld'
<1> SUFFICES ASSUME KeyHeld, [Next]_vars PROVE KeyHeld'
  OBVIOUS
<1> USE DEF KeyHeld, site, history
<1>1. CASE UNCHANGED vars \/ AllDone
  BY <1>1 DEF AllDone, vars
<1>2. CASE KeyExpires
  BY <1>2 DEF KeyExpires
<1>3. CASE KeyPurged
  BY <1>3 DEF KeyPurged, NoKey
<1>4. CASE WorkerTake
  BY <1>4 DEF WorkerTake
<1>5. ASSUME NEW p \in Procs, Step(p) \/ Raise(p) \/ Crash(p) PROVE KeyHeld'
  <2>1. CASE Claim(p)
    BY <2>1 DEF Claim
  <2>2. CASE ~Claim(p)
    <3>1. UNCHANGED <<key, runs>>
      BY <1>5, <2>2
      DEF Step, Raise, Crash, UploadBegin, PushBegin, RollbackBegin, Clear, Version, Insert,
          Discard, Enqueue, RunStart, Build, Check, Limit, Env, Start, RecordRow, Bind,
          Finish, Stop, Restore, Rewrite, Promote
    <3> QED
      BY <3>1
  <2> QED
    BY <2>1, <2>2
<1> QED
  BY <1>1, <1>2, <1>3, <1>4, <1>5 DEF Next

(* The unique insert of the key's record lets one upload run, however many   *)
(* carry the key and however their lookups interleave: service.py:146-232.   *)
THEOREM KeyRunsOnce == Spec => []OneRunPerKey
<1>1. Init => KeyHeld
  BY DEF Init, KeyHeld
<1>2. KeyHeld => OneRunPerKey
  <2> SUFFICES ASSUME KeyHeld PROVE Cardinality(runs) <= 1
    BY DEF OneRunPerKey
  <2>1. runs = {} \/ runs = {key.row}
    BY DEF KeyHeld
  <2>2. Cardinality({}) = 0
    BY FS_EmptySet
  <2>3. Cardinality({key.row}) = 1
    BY FS_Singleton
  <2>4. CASE runs = {}
    BY <2>2, <2>4
  <2>5. CASE runs = {key.row}
    BY <2>3, <2>5
  <2> QED
    BY <2>1, <2>4, <2>5
<1> QED
  BY <1>1, <1>2, KeyStep, PTL DEF Spec

-----------------------------------------------------------------------------
(* The numbering of versions                                                *)

(* No number below n is missing.                                            *)
Filled(n) == \A k \in 1..(n - 1) : \E r \in Existing : rows[r].version = k

Unique == \A r, q \in Existing : r # q => rows[r].version # rows[q].version

Gapless == \A r \in Existing : Filled(rows[r].version)
Bounded == \E n \in Nat : \A r \in Existing : rows[r].version <= n
Numbered == Unique /\ Gapless /\ Bounded

(* Which rows there are, and their versions, stay.                          *)
Kept ==
    \A r \in Procs :
        /\ rows'[r].status = "none" <=> rows[r].status = "none"
        /\ rows'[r].version = rows[r].version

(* Bounded versions have a newest.                                           *)
LEMMA NewestIs ==
    ASSUME TypeInv, Bounded, NEW S \in SUBSET Existing, S # {}
    PROVE  Newest(S) # {}
<1>0. \A q \in S : q \in Procs /\ rows[q].version \in Nat
  BY DEF Existing, TypeInv, TypeOK, Row
<1>1. PICK n \in Nat : \A q \in S : rows[q].version <= n
  BY DEF Bounded
<1> DEFINE N == {n - rows[q].version : q \in S}
           R == OpToRel(<, Nat)
<1>2. N \subseteq Nat /\ N # {}
  BY <1>0, <1>1
<1>3. IsWellFoundedOn(R, Nat)
  BY NatLessThanWellFounded
<1>4. \A i, j \in Nat : i < j => <<i, j>> \in R
  BY DEF OpToRel
<1> HIDE DEF R
<1>5. PICK m \in N : \A i \in N : ~ (<<i, m>> \in R)
  BY <1>2, <1>3, WFMin
<1>6. PICK r \in S : m = n - rows[r].version
  BY <1>5
<1>7. ASSUME NEW q \in S PROVE rows[q].version <= rows[r].version
  <2>1. n - rows[q].version \in N /\ ~(n - rows[q].version < m)
    BY <1>2, <1>4, <1>5
  <2> QED
    BY <1>0, <1>6, <2>1
<1> QED
  BY <1>7 DEF Newest

(* The version a new row gets follows the ones that are there.              *)
LEMMA TopFilled ==
    ASSUME TypeInv, Gapless
    PROVE  TopVersion \in Nat /\ Filled(TopVersion + 1)
<1>1. TopVersion \in Nat
  BY TopType DEF TypeInv
<1>2. CASE Newest(Existing) = {}
  BY <1>2 DEF TopVersion, Filled
<1>3. CASE Newest(Existing) # {}
  <2>1. PICK n \in Newest(Existing) : TopVersion = rows[n].version
    BY <1>3 DEF TopVersion
  <2>2. n \in Existing /\ Filled(TopVersion)
    BY <2>1 DEF Gapless, Newest
  <2>3. ASSUME NEW k \in 1..TopVersion
        PROVE  \E q \in Existing : rows[q].version = k
    <3>1. CASE k = TopVersion
      BY <2>1, <2>2, <3>1
    <3>2. CASE k # TopVersion
      <4>1. k \in 1..(TopVersion - 1)
        BY <1>1, <3>2
      <4> QED
        BY <2>2, <4>1 DEF Filled
    <3> QED
      BY <3>1, <3>2
  <2> QED
    BY <1>1, <2>3 DEF Filled
<1> QED
  BY <1>2, <1>3

(* A new row that takes a number nobody has is the newest.                  *)
LEMMA NewIsNewest ==
    ASSUME TypeInv, Numbered, NEW p \in Procs, NEW v \in Nat, v >= 1, Filled(v),
           rows[p].status = "none", \A r \in Existing : rows[r].version # v,
           rows'[p].status # "none", rows'[p].version = v,
           \A q \in Procs : q # p => /\ rows'[q].version = rows[q].version
                                     /\ rows'[q].status = rows[q].status
    PROVE  /\ \A q \in Existing : rows[q].version < v
           /\ Existing' = Existing \cup {p} /\ Numbered'
           /\ \A n : Filled(n) => Filled(n)'
<1>0. p \notin Existing /\ \A q \in Existing : rows[q].version \in Nat /\ q \in Procs /\ q # p
  BY DEF TypeInv, TypeOK, Row, Existing
<1>1. \A q \in Existing : rows[q].version < v
  <2> SUFFICES ASSUME NEW q \in Existing, rows[q].version > v PROVE FALSE
    BY <1>0
  <2>1. Filled(rows[q].version) /\ v \in 1..(rows[q].version - 1)
    BY <1>0 DEF Numbered, Gapless
  <2> QED
    BY <2>1 DEF Filled
<1>2. Existing' = Existing \cup {p}
  BY <1>0 DEF Existing
<1>3. \A n : Filled(n) => Filled(n)'
  <2> SUFFICES ASSUME NEW n, Filled(n), NEW k \in 1..(n - 1)
               PROVE  \E r \in Existing' : rows'[r].version = k
    BY DEF Filled
  <2>1. PICK r \in Existing : rows[r].version = k
    BY DEF Filled
  <2> QED
    BY <1>0, <1>2, <2>1
<1>4. Unique'
  BY <1>0, <1>1, <1>2 DEF Numbered, Unique
<1>5. Gapless'
  <2> SUFFICES ASSUME NEW r \in Existing' PROVE Filled(rows[r].version)'
    BY DEF Gapless
  <2>1. Filled(rows'[r].version)
    BY <1>0, <1>2 DEF Numbered, Gapless
  <2>2. \A n : n = rows'[r].version /\ Filled(n) => Filled(rows[r].version)'
    BY <1>3 DEF Filled
  <2> QED
    BY <2>1, <2>2
<1>6. Bounded'
  BY <1>0, <1>1, <1>2 DEF Bounded
<1> QED
  BY <1>1, <1>2, <1>3, <1>4, <1>5, <1>6 DEF Numbered

(* A step that keeps the rows keeps the numbering.                          *)
LEMMA KeptNumbers ==
    ASSUME TypeInv, Numbered, Kept
    PROVE  Existing' = Existing /\ Numbered' /\ \A n : Filled(n) => Filled(n)'
<1>1. Existing' = Existing
  BY DEF Existing, Kept
<1>2. \A r \in Existing : rows'[r].version = rows[r].version
  BY DEF Existing, Kept
<1>3. \A n : Filled(n) => Filled(n)'
  BY <1>1, <1>2 DEF Filled
<1>4. Unique' /\ Bounded'
  BY <1>1, <1>2 DEF Numbered, Unique, Bounded
<1>5. Gapless'
  BY <1>1, <1>2 DEF Numbered, Gapless, Filled
<1> QED
  BY <1>1, <1>3, <1>4, <1>5 DEF Numbered

-----------------------------------------------------------------------------
(* The order of deployments                                                 *)

Clean == happened \cap {"failed", "discarded"} = {}

(* The steps at which a process has its row.                                *)
HasRow == {"claim", "enqueue", "queued", "delayed", "run", "env", "build", "check", "limit",
           "start", "record", "bind", "finish", "stop", "restore", "rewrite"}

(* The newest row is current.                                               *)
TopIsCurrent ==
    \/ Existing = {}
    \/ \E r \in Existing :
          rows[r].current /\ \A q \in Existing : rows[q].version <= rows[r].version

Versions == Unique /\ Gapless /\ TopIsCurrent

(* A process has a row, or does not yet; the version it is about to insert  *)
(* follows the ones that are there; past its check, none was newer then.    *)
Control(p) ==
    /\ pc[p] \in {"idle", "clear", "version", "insert"} => rows[p].status = "none"
    /\ pc[p] \in HasRow => rows[p].status # "none"
    /\ pc[p] = "insert" => mem[p].version >= 1 /\ Filled(mem[p].version)
    /\ p \in Uploads \cup Pushes /\ pc[p] \in {"limit", "start", "record", "bind"} =>
          seen[p] <= rows[p].version

Referred ==
    /\ \A i \in 1..Len(jobs) : rows[jobs[i]].status # "none"
    /\ bound # None => rows[bound].status # "none"

OrderInv == Clean => Versions /\ Referred /\ \A p \in Procs : Control(p)

LEMMA OrderInit == Init => OrderInv
<1> SUFFICES ASSUME Init PROVE Versions /\ Referred /\ \A p \in Procs : Control(p)
  BY DEF OrderInv
<1>1. Existing = {}
  BY DEF Init, Existing, NoRow
<1>2. Versions
  BY <1>1 DEF Versions, Unique, Gapless, TopIsCurrent
<1>3. Referred
  BY DEF Init, Referred
<1>4. \A p \in Procs : Control(p)
  BY DEF Init, NoRow, Control, HasRow
<1> QED
  BY <1>2, <1>3, <1>4

(* Nobody is dropped whom nobody newer replaces.                            *)
Yields ==
    \A r \in Existing :
        rows[r].current => \/ rows'[r].current
                           \/ \E q \in Existing : rows[q].version > rows[r].version

LEMMA VersionsNumbered == ASSUME TypeInv, Versions PROVE Numbered
<1>1. \A r \in Existing : rows[r].version \in Nat
  BY DEF Existing, TypeInv, TypeOK, Row
<1> QED
  BY <1>1 DEF Versions, TopIsCurrent, Numbered, Bounded

LEMMA KeptVersions ==
    ASSUME TypeInv, Versions, Kept, Yields
    PROVE  /\ Versions' /\ Existing' = Existing
           /\ \A q \in Procs : mem'[q] = mem[q] /\ Filled(mem[q].version) => Filled(mem[q].version)'
<1>1. Existing' = Existing /\ Numbered' /\ \A n : Filled(n) => Filled(n)'
  BY KeptNumbers, VersionsNumbered
<1>2. \A r \in Existing : rows'[r].version = rows[r].version /\ rows[r].version \in Nat
  BY DEF Existing, Kept, TypeInv, TypeOK, Row
<1>3. ASSUME NEW q \in Procs, mem'[q] = mem[q], Filled(mem[q].version)
      PROVE  Filled(mem[q].version)'
  BY <1>1, <1>3 DEF Filled
<1>4. TopIsCurrent'
  <2>1. CASE Existing = {}
    BY <1>1, <2>1 DEF TopIsCurrent
  <2>2. CASE Existing # {}
    <3>1. PICK r \in Existing :
             rows[r].current /\ \A q \in Existing : rows[q].version <= rows[r].version
      BY <2>2 DEF Versions, TopIsCurrent
    <3>2. rows'[r].current
      BY <1>2, <3>1 DEF Yields
    <3> QED
      BY <1>1, <1>2, <3>1, <3>2 DEF TopIsCurrent
  <2> QED
    BY <2>1, <2>2
<1> QED
  BY <1>1, <1>3, <1>4 DEF Numbered, Versions

LEMMA KeptControl ==
    ASSUME TypeInv, Versions, Kept, Yields, NEW q \in Procs, Control(q),
           pc'[q] = pc[q], mem'[q] = mem[q], seen'[q] = seen[q]
    PROVE  Control(q)'
<1>1. Filled(mem[q].version) => Filled(mem[q].version)'
  BY KeptVersions
<1> QED
  BY <1>1 DEF Kept, Control

LEMMA KeptReferred ==
    ASSUME TypeInv, Kept, Referred, bound \in Procs \cup {None}, UNCHANGED <<jobs, bound>>
    PROVE  Referred'
<1>1. \A i \in 1..Len(jobs) : jobs[i] \in Procs
  BY DEF TypeInv, TypeOK, Procs
<1> QED
  BY <1>1 DEF Kept, Referred

(* The version a new row gets follows the ones that are there.              *)
LEMMA TopFollows ==
    ASSUME TypeInv, Versions
    PROVE  /\ TopVersion \in Nat /\ Filled(TopVersion + 1)
           /\ \A q \in Existing : rows[q].version <= TopVersion
           /\ \/ Existing = {} /\ TopVersion = 0
              \/ \E r \in Newest(Current) : rows[r].version = TopVersion
<1>1. TopVersion \in Nat /\ Filled(TopVersion + 1)
  BY TopFilled DEF Versions
<1>2. CASE Existing = {}
  BY <1>1, <1>2 DEF TopVersion, Newest
<1>3. CASE Existing # {}
  <2>1. PICK r \in Existing :
           rows[r].current /\ \A q \in Existing : rows[q].version <= rows[r].version
    BY <1>3 DEF Versions, TopIsCurrent
  <2>2. r \in Newest(Existing) /\ r \in Newest(Current)
    BY <2>1 DEF Newest, Current
  <2>3. PICK n \in Newest(Existing) : TopVersion = rows[n].version
    BY <2>2 DEF TopVersion
  <2>4. \A q \in Existing : rows[q].version \in Nat
    BY DEF Existing, TypeInv, TypeOK, Row
  <2>5. rows[r].version = rows[n].version
    BY <2>1, <2>2, <2>3, <2>4 DEF Newest
  <2> QED
    BY <1>1, <2>1, <2>2, <2>3, <2>5
<1> QED
  BY <1>2, <1>3

LEMMA OrderInsert ==
    ASSUME TypeInv, Versions, Referred, \A q \in Procs : Control(q),
           NEW p \in Procs, Insert(p)
    PROVE  Versions' /\ Referred' /\ \A q \in Procs : Control(q)'
<1> DEFINE v == mem[p].version
<1>0. /\ v \in Nat /\ v >= 1 /\ Filled(v) /\ rows[p].status = "none"
      /\ pc[p] = "insert" /\ p \notin Existing
      /\ \A q \in Existing : rows[q].version \in Nat /\ q \in Procs /\ q # p
  BY DEF Insert, Control, TypeInv, TypeOK, Memory, Row, Existing
<1>1. \A q \in Procs : q # p => pc'[q] = pc[q] /\ mem'[q] = mem[q] /\ seen'[q] = seen[q]
  BY OthersWait DEF Step
<1>2. mem'[p].version = v
  BY DEF Insert, TypeInv, TypeOK, Memory
<1>3. CASE Goto(p, "done") /\ UNCHANGED rows
  <2>1. Kept /\ Yields
    BY <1>3 DEF Kept, Yields
  <2>2. Control(p)'
    BY <1>3 DEF Goto, Control, HasRow, TypeInv, TypeOK
  <2>3. Referred'
    BY <2>1, KeptReferred DEF Insert, queue, vhost, TypeInv, TypeOK
  <2> QED
    BY <1>1, <2>1, <2>2, <2>3, KeptVersions, KeptControl
<1>4. CASE /\ \A r \in Existing : rows[r].version # v
           /\ rows' = [r \in Procs |->
                         IF r = p THEN Inserted(p)
                         ELSE [rows[r] EXCEPT !.current = @ /\ r \notin mem[p].cleared]]
           /\ Goto(p, AfterInsert(p))
  <2>2. /\ rows'[p].status = "queued" /\ rows'[p].version = v /\ rows'[p].current
        /\ \A q \in Procs : q # p => /\ rows'[q].version = rows[q].version
                                     /\ rows'[q].status = rows[q].status
    <3>1. (IF p \in Rollbacks THEN rows[mem[p].target] ELSE NoRow) \in Row
      BY RowFact, <1>0 DEF TypeInv, TypeOK, Shape
    <3>2. /\ Inserted(p).status = "queued" /\ Inserted(p).version = v /\ Inserted(p).current
      BY <3>1 DEF Inserted, Row
    <3>3. \A q \in Procs : rows[q] \in Row
      BY DEF TypeInv, TypeOK
    <3> QED
      BY <1>4, <3>2, <3>3 DEF Row
  <2>3. /\ \A q \in Existing : rows[q].version < v
        /\ Existing' = Existing \cup {p} /\ Numbered'
        /\ \A n : Filled(n) => Filled(n)'
    BY <1>0, <1>4, <2>2, NewIsNewest, VersionsNumbered
  <2>8. TopIsCurrent'
    <3>1. p \in Existing' /\ \A q \in Existing' : rows'[q].version <= rows'[p].version
      BY <1>0, <2>2, <2>3
    <3> QED
      BY <2>2, <3>1 DEF TopIsCurrent
  <2>9. ASSUME NEW q \in Procs, q # p PROVE Control(q)'
    <3>1. pc[q] = "insert" => Filled(mem[q].version)'
      BY <1>1, <2>3, <2>9 DEF Control, Filled
    <3> QED
      BY <1>1, <2>2, <2>9, <3>1 DEF Control
  <2>10. Control(p)'
    <3>1. AfterInsert(p) \in {"claim", "build", "enqueue", "env"}
      BY DeployAssumption DEF AfterInsert, Procs
    <3> QED
      BY <1>4, <2>2, <3>1 DEF Goto, Control, HasRow, TypeInv, TypeOK
  <2>11. Referred'
    <3>1. UNCHANGED <<jobs, bound>>
      BY DEF Insert, queue, vhost
    <3>2. \A i \in 1..Len(jobs) : jobs[i] \in Procs
      BY DEF TypeInv, TypeOK, Procs
    <3> QED
      BY <2>2, <3>1, <3>2 DEF Referred, TypeInv, TypeOK
  <2> QED
    BY <2>3, <2>8, <2>9, <2>10, <2>11 DEF Numbered, Versions
<1> QED
  BY <1>3, <1>4 DEF Insert, Existing

LEMMA OrderCreate ==
    ASSUME TypeInv, Versions, Referred, NEW p \in Procs, Control(p), Clean',
           \/ UploadBegin(p) \/ PushBegin(p) \/ RollbackBegin(p) \/ Clear(p) \/ Version(p)
           \/ Claim(p) \/ Discard(p) \/ Enqueue(p) \/ Promote(p) \/ Raise(p) \/ Crash(p)
    PROVE  Kept /\ Yields /\ Control(p)' /\ Referred'
<1> USE DEF site, vhost, queue, history
<1>1. UNCHANGED <<rows, bound>>
  BY DEF UploadBegin, PushBegin, RollbackBegin, Clear, Version, Claim, Discard, Enqueue,
         FailRow, Fail, Record, Promote, Raise, Crash, Clean
<1>2. Kept /\ Yields
  BY <1>1 DEF Kept, Yields
<1>3. CASE UploadBegin(p) \/ PushBegin(p) \/ RollbackBegin(p) \/ Clear(p)
  <2>1. pc'[p] \in {"done", "clear", "version"} /\ rows[p].status = "none"
    BY <1>3
    DEF UploadBegin, PushBegin, RollbackBegin, Clear, Goto, Control, TypeInv, TypeOK
  <2>2. Control(p)'
    BY <1>1, <2>1 DEF Control, HasRow
  <2> QED
    BY <1>2, <1>3, <2>2, KeptReferred
    DEF UploadBegin, PushBegin, RollbackBegin, Clear, TypeInv, TypeOK
<1>4. CASE Version(p)
  <2>1. pc'[p] = "insert" /\ rows[p].status = "none"
    BY <1>4 DEF Version, Goto, Control, TypeInv, TypeOK
  <2>2. mem'[p].version = TopVersion + 1
    BY <1>4 DEF Version, TypeInv, TypeOK, Memory
  <2>3. TopVersion + 1 >= 1 /\ \A k \in 1..TopVersion : \E r \in Existing : rows[r].version = k
    BY TopFollows DEF Filled
  <2>4. Filled(mem[p].version)'
    BY <1>1, <2>2, <2>3, TopFollows DEF Filled, Existing
  <2>5. Control(p)'
    BY <1>1, <2>1, <2>2, <2>3, <2>4 DEF Control, HasRow
  <2> QED
    BY <1>2, <1>4, <2>5, KeptReferred DEF Version, TypeInv, TypeOK
<1>5. CASE Claim(p) \/ Raise(p) \/ Crash(p)
  <2>1. \/ pc'[p] \in {"discard", "crashed"}
        \/ pc'[p] \in {"build", "delayed"} /\ pc[p] \in HasRow
    BY <1>5 DEF Claim, Raise, Crash, Goto, HasRow, TypeInv, TypeOK
  <2>2. Control(p)'
    BY <1>1, <2>1 DEF Control, HasRow
  <2>3. Referred'
    BY <1>2, <1>5, KeptReferred DEF Claim, Raise, Crash, TypeInv, TypeOK
  <2> QED
    BY <1>2, <2>2, <2>3
<1>6. CASE Discard(p)
  BY <1>6 DEF Discard, Record, Clean
<1>7. CASE Enqueue(p) \/ Promote(p)
  <2>1. jobs' = Append(jobs, p) /\ Goto(p, "queued")
    BY <1>7 DEF Enqueue, Promote, FailRow, Fail, Clean
  <2>2. rows[p].status # "none"
    BY <1>7 DEF Enqueue, Promote, Control, HasRow
  <2>3. Control(p)'
    BY <1>1, <2>1, <2>2 DEF Goto, Control, HasRow, TypeInv, TypeOK
  <2>4. Referred'
    <3>1. jobs \in Seq(Pushes) /\ p \in Pushes
      BY <1>7 DEF Enqueue, Promote, TypeInv, TypeOK, Shape
    <3>2. Len(jobs') = Len(jobs) + 1 /\ Len(jobs) \in Nat
      BY <2>1, <3>1
    <3>3. ASSUME NEW i \in 1..Len(jobs') PROVE rows[jobs'[i]].status # "none"
      <4>1. CASE i = Len(jobs) + 1
        <5>1. jobs'[i] = p
          BY <2>1, <3>1, <4>1
        <5> QED
          BY <2>2, <5>1
      <4>2. CASE i # Len(jobs) + 1
        <5>1. i \in 1..Len(jobs)
          BY <3>2, <4>2
        <5>2. jobs'[i] = jobs[i]
          BY <2>1, <3>1, <5>1
        <5> QED
          BY <5>1, <5>2 DEF Referred
      <4> QED
        BY <4>1, <4>2
    <3> QED
      BY <1>1, <3>3 DEF Referred
  <2> QED
    BY <1>2, <2>3, <2>4
<1> QED
  BY <1>3, <1>4, <1>5, <1>6, <1>7

LEMMA OrderPipeline ==
    ASSUME TypeInv, Versions, Referred, NEW p \in Procs, Control(p), Clean',
           \/ RunStart(p) \/ Env(p) \/ Build(p) \/ Check(p) \/ Limit(p) \/ Start(p)
    PROVE  Kept /\ Yields /\ Control(p)' /\ Referred'
<1> USE DEF site, vhost, queue, history
<1>0. /\ rows[p].status # "none" /\ p \in Existing /\ rows[p] \in Row
      /\ \A q \in Procs : rows[q].version \in Nat
  BY DEF RunStart, Env, Build, Check, Limit, Start, Control, HasRow, Existing, TypeInv, TypeOK, Row
<1>1. ASSUME Superseded(p), Yield(p) PROVE Kept /\ Yields /\ Control(p)'
  <2>1. Kept
    BY <1>0, <1>1 DEF Yield, Kept, TypeInv, TypeOK, Row
  <2>2. Yields
    <3>1. \E q \in Existing : rows[q].version > rows[p].version
      BY <1>1 DEF Superseded, Newest, Current
    <3>2. \A r \in Procs : r # p => rows'[r] = rows[r]
      BY <1>1 DEF Yield, TypeInv, TypeOK
    <3> QED
      BY <3>1, <3>2 DEF Yields, Existing
  <2>3. pc'[p] = "done"
    BY <1>1 DEF Yield, Goto, TypeInv, TypeOK
  <2> QED
    BY <2>1, <2>2, <2>3 DEF Control, HasRow
<1>2. ASSUME UNCHANGED rows PROVE Kept /\ Yields
  BY <1>2 DEF Kept, Yields
<1>3. CASE RunStart(p)
  <2>1. CASE Superseded(p) /\ Yield(p)
    BY <1>1, <1>3, <2>1, KeptReferred DEF RunStart, TypeInv, TypeOK
  <2>2. CASE Goto(p, "build") /\ UNCHANGED rows
    BY <1>0, <1>2, <1>3, <2>2, KeptReferred DEF RunStart, Goto, Control, HasRow, TypeInv, TypeOK
  <2> QED
    BY <1>3, <2>1, <2>2 DEF RunStart
<1>4. CASE Env(p)
  <2>1. UNCHANGED rows /\ Goto(p, IF rows[p].node THEN "start" ELSE "bind") /\ pc[p] = "env"
    BY <1>4 DEF Env, FailRow, Fail, Clean
  <2>2. p \notin Uploads \cup Pushes
    BY <2>1, DeployAssumption DEF TypeInv, Shape
  <2>3. pc'[p] \in {"start", "bind"}
    BY <2>1 DEF Goto, TypeInv, TypeOK
  <2>4. Control(p)'
    BY <1>0, <2>1, <2>2, <2>3 DEF Control, HasRow
  <2>5. Referred'
    BY <1>2, <1>4, <2>1, KeptReferred DEF Env, TypeInv, TypeOK
  <2> QED
    BY <1>2, <2>1, <2>4, <2>5
<1>5. CASE Build(p)
  <2>1. /\ rows' = [rows EXCEPT ![p].status = "queued", ![p].built = TRUE,
                                ![p].node = (p \in Nextjs)]
        /\ Goto(p, "check")
    BY <1>5 DEF Build, FailRow, Fail, Clean
  <2>2. /\ \A r \in Procs : r # p => rows'[r] = rows[r]
        /\ rows'[p].status = "queued" /\ rows'[p].version = rows[p].version
        /\ rows'[p].current = rows[p].current
    BY <1>0, <2>1 DEF TypeInv, TypeOK, Row
  <2>3. Kept /\ Yields
    BY <1>0, <2>2 DEF Kept, Yields, Existing
  <2>4. Control(p)'
    BY <2>1, <2>2 DEF Goto, Control, HasRow, TypeInv, TypeOK
  <2> QED
    BY <1>5, <2>3, <2>4, KeptReferred DEF Build, TypeInv, TypeOK
<1>6. CASE Check(p)
  <2>0. seen'[p] = TopVersion
    BY <1>6 DEF Check, TypeInv, TypeOK
  <2>1. CASE Superseded(p) /\ Yield(p)
    BY <1>1, <1>6, <2>1, KeptReferred DEF Check, TypeInv, TypeOK
  <2>2. CASE /\ ~Superseded(p) /\ UNCHANGED rows
             /\ Goto(p, IF rows[p].node THEN "limit" ELSE "record")
    <3>1. TopVersion <= rows[p].version
      <4>1. PICK r \in Newest(Current) : rows[r].version = TopVersion
        BY <1>0, TopFollows
      <4>2. r \in Procs
        BY DEF Newest, Current, Existing
      <4> QED
        BY <1>0, <2>2, <4>1, <4>2 DEF Superseded
    <3> QED
      BY <1>0, <1>2, <1>6, <2>0, <2>2, <3>1, KeptReferred
      DEF Check, Goto, Control, HasRow, TypeInv, TypeOK
  <2> QED
    BY <1>6, <2>1, <2>2 DEF Check
<1>7. CASE Limit(p) \/ Start(p)
  <2>1. UNCHANGED <<rows, seen, jobs, bound>> /\ pc'[p] \in {"start", "record"}
        /\ pc[p] \in {"limit", "start"}
    BY <1>7 DEF Limit, Start, FailRow, Fail, Goto, Clean, TypeInv, TypeOK
  <2>2. Kept /\ Yields
    BY <1>2, <2>1
  <2> QED
    BY <1>0, <2>1, <2>2, KeptReferred DEF Control, HasRow, TypeInv, TypeOK
<1> QED
  BY <1>3, <1>4, <1>5, <1>6, <1>7

LEMMA OrderActivate ==
    ASSUME TypeInv, Versions, Referred, NEW p \in Procs, Control(p), Clean',
           \/ RecordRow(p) \/ Bind(p) \/ Finish(p) \/ Stop(p) \/ Restore(p) \/ Rewrite(p)
    PROVE  Kept /\ Yields /\ Control(p)' /\ Referred'
<1> USE DEF site, vhost, queue, history
<1>0. /\ rows[p].status # "none" /\ p \in Existing /\ rows[p] \in Row
      /\ \A q \in Procs : rows[q] \in Row
  BY DEF RecordRow, Bind, Finish, Stop, Restore, Rewrite, Control, HasRow, Existing, TypeInv, TypeOK
<1>1. ASSUME UNCHANGED rows PROVE Kept /\ Yields
  BY <1>1 DEF Kept, Yields
<1>7. CASE RecordRow(p) /\ FailRow(p)
  BY <1>7 DEF FailRow, Fail, Clean
<1>2. CASE \/ RecordRow(p) /\ ~FailRow(p)
         \/ Finish(p)
  <2>1. /\ \A r \in Procs : r # p => rows'[r] = rows[r]
        /\ rows'[p].status # "none" /\ rows'[p].version = rows[p].version
        /\ rows'[p].current = rows[p].current
    <3>1. CASE Finish(p)
      BY <1>0, <3>1 DEF Finish, TypeInv, TypeOK, Row
    <3>2. CASE RecordRow(p) /\ ~FailRow(p)
      <4>1. PICK h \in HostOf(p) :
               rows' = [rows EXCEPT ![p].container = mem[p].container, ![p].host = h]
        BY <3>2 DEF RecordRow
      <4> QED
        BY <1>0, <4>1 DEF TypeInv, TypeOK, Row
    <3> QED
      BY <1>2, <3>1, <3>2
  <2>2. Kept /\ Yields
    BY <1>0, <2>1 DEF Kept, Yields, Existing
  <2>3. Control(p)'
    BY <1>2, <2>1 DEF RecordRow, Finish, Goto, Control, HasRow, TypeInv, TypeOK
  <2> QED
    BY <1>2, <2>2, <2>3, KeptReferred DEF RecordRow, Finish, TypeInv, TypeOK
<1>3. CASE Bind(p)
  <2>1. UNCHANGED <<rows, jobs>> /\ pc'[p] = "finish" /\ bound' \in {bound, p}
    BY <1>3 DEF Bind, Switch, Goto, TypeInv, TypeOK
  <2>2. Control(p)'
    BY <1>0, <2>1 DEF Control, HasRow
  <2>3. Referred'
    BY <1>0, <2>1 DEF Referred
  <2> QED
    BY <1>1, <2>1, <2>2, <2>3
<1>4. CASE Stop(p) \/ Restore(p)
  <2>1. UNCHANGED <<rows, jobs, bound>> /\ pc'[p] \in {"done", "rewrite"}
    BY <1>4 DEF Stop, Restore, FailRow, Fail, Goto, Clean, TypeInv, TypeOK
  <2>2. Control(p)'
    BY <1>0, <2>1 DEF Control, HasRow
  <2> QED
    BY <1>1, <2>1, <2>2, KeptReferred DEF TypeInv, TypeOK
<1>5. CASE Rewrite(p)
  <2>1. \A r \in Procs : /\ rows'[r].status = rows[r].status /\ rows'[r].version = rows[r].version
                         /\ rows[r].current => rows'[r].current
    BY <1>0, <1>5 DEF Rewrite, TypeInv, TypeOK, Row
  <2>2. Kept /\ Yields
    BY <2>1 DEF Kept, Yields, Existing
  <2>3. pc'[p] = "done"
    BY <1>5 DEF Rewrite, Goto, TypeInv, TypeOK
  <2>4. Control(p)'
    BY <2>3 DEF Control, HasRow
  <2> QED
    BY <1>5, <2>2, <2>4, KeptReferred DEF Rewrite, TypeInv, TypeOK
<1> QED
  BY <1>2, <1>3, <1>4, <1>5, <1>7

LEMMA OrderTake ==
    ASSUME TypeInv, Versions, Referred, \A q \in Procs : Control(q), WorkerTake
    PROVE  Versions' /\ Referred' /\ \A q \in Procs : Control(q)'
<1>0. UNCHANGED <<rows, seen, bound>> /\ jobs # << >> /\ jobs \in Seq(Pushes) /\ jobs' = Tail(jobs)
  BY DEF WorkerTake, site, vhost, TypeInv, TypeOK
<1>1. Kept /\ Yields
  BY <1>0 DEF Kept, Yields
<1>2. PICK h \in Pushes : /\ h = Head(jobs) /\ pc'[h] = "run"
                          /\ \A q \in Procs : q # h => pc'[q] = pc[q] /\ mem'[q] = mem[q]
  BY Taken
<1>3. rows[h].status # "none"
  <2>1. 1 \in 1..Len(jobs) /\ h = jobs[1]
    BY <1>0, <1>2
  <2> QED
    BY <2>1 DEF Referred
<1>4. Control(h)'
  BY <1>0, <1>2, <1>3 DEF Control, HasRow
<1>5. Referred'
  <2>1. ASSUME NEW i \in 1..Len(jobs') PROVE rows[jobs'[i]].status # "none"
    <3>1. i + 1 \in 1..Len(jobs) /\ jobs'[i] = jobs[i + 1]
      BY <1>0, <2>1
    <3> QED
      BY <3>1 DEF Referred
  <2> QED
    BY <1>0, <2>1 DEF Referred
<1> QED
  BY <1>0, <1>1, <1>2, <1>4, <1>5, KeptVersions, KeptControl

LEMMA OrderStep == TypeInv /\ OrderInv /\ [Next]_vars => OrderInv'
<1> SUFFICES ASSUME TypeInv, OrderInv, [Next]_vars, Clean'
             PROVE  Versions' /\ Referred' /\ \A q \in Procs : Control(q)'
  BY DEF OrderInv
<1>1. CASE UNCHANGED vars \/ AllDone \/ KeyExpires \/ KeyPurged
  <2>1. UNCHANGED <<rows, pc, mem, seen, jobs, bound, happened>>
    BY <1>1 DEF AllDone, KeyExpires, KeyPurged, vars, site, vhost, queue, history
  <2>2. Versions /\ Referred /\ \A q \in Procs : Control(q)
    BY <2>1 DEF OrderInv, Clean
  <2>3. Kept /\ Yields
    BY <2>1 DEF Kept, Yields
  <2> QED
    BY <2>1, <2>2, <2>3, KeptVersions, KeptControl, KeptReferred DEF TypeInv, TypeOK
<1>2. CASE WorkerTake
  <2>1. Clean
    BY <1>2 DEF WorkerTake, Begin, Record, Clean
  <2> QED
    BY <1>2, <2>1, OrderTake DEF OrderInv
<1>3. ASSUME NEW p \in Procs, Step(p) \/ Raise(p) \/ Crash(p)
      PROVE  Versions' /\ Referred' /\ \A q \in Procs : Control(q)'
  <2>1. happened \subseteq happened'
    <3>1. CASE UploadBegin(p) \/ PushBegin(p) \/ RollbackBegin(p) \/ Clear(p) \/ Version(p)
      BY <3>1 DEF UploadBegin, PushBegin, RollbackBegin, Clear, Version, Begin, Record, history
    <3>2. CASE Insert(p) \/ Claim(p) \/ Discard(p) \/ Enqueue(p) \/ Promote(p) \/ Raise(p) \/ Crash(p)
      BY <3>2 DEF Insert, Claim, Discard, Enqueue, FailRow, Fail, Promote, Raise, Crash, Record, history
    <3>3. CASE RunStart(p) \/ Env(p) \/ Build(p) \/ Check(p) \/ Limit(p) \/ Start(p)
      BY <3>3 DEF RunStart, Env, Build, Check, Limit, Start, FailRow, Fail, Record, history
    <3>4. CASE RecordRow(p) \/ Bind(p) \/ Finish(p) \/ Stop(p) \/ Restore(p) \/ Rewrite(p)
      BY <3>4
      DEF RecordRow, Bind, Switch, Finish, Stop, Restore, Rewrite, FailRow, Fail, Record, history
    <3> QED
      BY <1>3, <3>1, <3>2, <3>3, <3>4 DEF Step
  <2>2. Versions /\ Referred /\ \A q \in Procs : Control(q)
    BY <2>1 DEF OrderInv, Clean
  <2>3. CASE Insert(p)
    BY <2>2, <2>3, OrderInsert
  <2>4. CASE ~Insert(p)
    <3>1. Kept /\ Yields /\ Control(p)' /\ Referred'
      BY <1>3, <2>2, <2>4, OrderCreate, OrderPipeline, OrderActivate DEF Step
    <3> QED
      BY <1>3, <2>2, <3>1, OthersWait, KeptVersions, KeptControl
  <2> QED
    BY <2>3, <2>4
<1> QED
  BY <1>1, <1>2, <1>3 DEF Next

(* Only a switch of the vhost moves it to another deployment.               *)
LEMMA OrderAction ==
    ASSUME TypeInv, OrderInv, [Next]_vars, NEW p \in Uploads \cup Pushes,
           bound' = p, bound \notin {p, None}, Clean
    PROVE  rows[bound].version < rows[p].version \/ rows[bound].version > seen[p]
<1>1. Bind(p)
  <2>1. ASSUME NEW q \in Procs, Step(q) \/ Raise(q) \/ Crash(q), ~Bind(q) PROVE UNCHANGED bound
    BY <2>1
    DEF Step, Raise, Crash, UploadBegin, PushBegin, RollbackBegin, Clear, Version, Insert, Claim,
        Discard, Enqueue, RunStart, Build, Check, Limit, Env, Start, RecordRow,
        Finish, Stop, Restore, Rewrite, Promote, vhost
  <2>2. \E q \in Procs : Bind(q)
    BY <2>1 DEF Next, WorkerTake, KeyExpires, KeyPurged, AllDone, vars, vhost
  <2>3. \A q \in Procs : Bind(q) => bound' \in {bound, q}
    BY DEF Bind, Switch, vhost
  <2> QED
    BY <2>2, <2>3
<1>2. /\ Control(p) /\ pc[p] = "bind" /\ Unique
      /\ bound \in Existing /\ p \in Existing
      /\ rows[bound].version \in Nat /\ rows[p].version \in Nat /\ seen[p] \in Nat
  BY <1>1
  DEF Bind, OrderInv, Versions, Referred, Control, HasRow, Existing, Procs, TypeInv, TypeOK, Row
<1>3. seen[p] <= rows[p].version /\ rows[bound].version # rows[p].version
  BY <1>2 DEF Control, Unique
<1> QED
  BY <1>2, <1>3

(* However deployments overlap, an older one takes the site over from a      *)
(* newer one only if the newer one did not exist when the older one checked: *)
(* the guard of service.py:260-290 sees every row there is, since the newest *)
(* row is current as long as none has failed or been discarded.              *)
THEOREM NewerWins == Spec => OlderYields
<1>1. TypeInv /\ OrderInv /\ [Next]_vars =>
         [\A p \in Uploads \cup Pushes :
             bound' = p /\ bound \notin {p, None} /\ happened \cap {"failed", "discarded"} = {}
                => rows[bound].version < rows[p].version \/ rows[bound].version > seen[p]]_vars
  BY OrderAction DEF Clean
<1> QED
  BY <1>1, InitInv, TypeStep, OrderInit, OrderStep, PTL DEF Spec, OlderYields

-----------------------------------------------------------------------------
(* The containers                                                           *)

Live == {"completed", "provisioning_ssl"}

(* The steps at which a process has no row yet; at which the row names the  *)
(* container the process has in memory; at which the row is queued.         *)
Rowless == {"idle", "clear", "version", "insert"}
Agreed  == {"claim", "discard", "enqueue", "queued", "delayed", "run", "env", "build", "check",
            "limit", "start", "bind", "finish", "stop", "restore", "rewrite"}
Pending == {"claim", "discard", "enqueue", "env", "check", "limit", "start", "record", "bind",
            "finish"}

(* What a process knows of its container, and its row says of it.           *)
Owns(p) ==
    /\ pc[p] \in Rowless => rows[p].status = "none" /\ mem[p].container = None
    /\ pc[p] \in Agreed => mem[p].container = rows[p].container
    /\ pc[p] \in {"claim", "discard"} => mem[p].container = None
    /\ pc[p] \in {"limit", "start"} => rows[p].node
    /\ pc[p] = "record" /\ ~rows[p].node => mem[p].container = rows[p].container
    /\ pc[p] \in Pending => rows[p].status = "queued"
    /\ pc[p] = "stop" => rows[p].status \in Live
    /\ p \notin Rollbacks => mem[p].container \in {None, p} /\ rows[p].container \in {None, p}
    /\ p \in Rollbacks =>
          /\ pc[p] \in {"env", "start"} => mem[p].container = None
          /\ pc[p] \notin {"claim", "discard", "enqueue", "queued", "delayed", "run", "build",
                           "check", "limit"}

(* A job is that of a queued push, and there is one for each.               *)
QueueHeld ==
    /\ \A i \in 1..Len(jobs) : pc[jobs[i]] = "queued"
    /\ \A i, j \in 1..Len(jobs) : jobs[i] = jobs[j] => i = j

(* The row of a process, or the process itself, answers for container c.    *)
Names(p, c) ==
    \/ rows[p].status \in Live /\ rows[p].container = c
    \/ mem[p].container = c /\ pc[p] \notin {"done", "restore", "rewrite"}

Prompt == "late" \notin happened

Owned    == \A p \in Procs : Owns(p)
Answered == \A c \in running : \E p \in Procs : Names(p, c)
OwnInv   == Prompt => Owned /\ QueueHeld /\ Answered

LEMMA OwnInit == Init => OwnInv
<1> SUFFICES ASSUME Init PROVE Owned /\ QueueHeld /\ Answered
  BY DEF OwnInv
<1>1. Owned
  BY DEF Init, NoRow, Blank, Owned, Owns, Rowless, Agreed, Pending
<1> QED
  BY <1>1 DEF Init, QueueHeld, Answered

(* What a step of one process leaves of the rows of the others.             *)
LEMMA OthersKeep ==
    ASSUME TypeInv, NEW p \in Procs, Step(p) \/ Raise(p) \/ Crash(p)
    PROVE  \A q \in Procs : q # p =>
              /\ rows'[q].status = rows[q].status /\ rows'[q].node = rows[q].node
              /\ rows'[q].container = rows[q].container
<1> USE DEF TypeInv, TypeOK, site
<1>1. CASE Insert(p)
  <2>1. \A q \in Procs : rows[q] \in Row
    OBVIOUS
  <2> QED
    BY <1>1, <2>1 DEF Insert, Row
<1>2. CASE Rewrite(p)
  <2>1. \A q \in Procs : rows[q] \in Row
    OBVIOUS
  <2> QED
    BY <1>2, <2>1 DEF Rewrite, Row
<1>3. CASE \/ UploadBegin(p) \/ PushBegin(p) \/ RollbackBegin(p) \/ Clear(p) \/ Version(p)
           \/ Claim(p) \/ Discard(p) \/ Enqueue(p) \/ Promote(p) \/ Raise(p) \/ Crash(p)
  BY <1>3 DEF UploadBegin, PushBegin, RollbackBegin, Clear, Version, Claim, Discard, Enqueue,
              FailRow, Fail, Promote, Raise, Crash
<1>4. CASE RunStart(p) \/ Env(p) \/ Build(p) \/ Check(p) \/ Limit(p) \/ Start(p)
  BY <1>4 DEF RunStart, Env, Build, Check, Limit, Start, Yield, FailRow, Fail
<1>5. CASE RecordRow(p) \/ Bind(p) \/ Finish(p) \/ Stop(p) \/ Restore(p)
  BY <1>5 DEF RecordRow, Bind, Finish, Stop, Restore, FailRow, Fail
<1> QED
  BY <1>1, <1>2, <1>3, <1>4, <1>5 DEF Step

LEMMA LateStays == TypeInv /\ [Next]_vars /\ Prompt' => Prompt
  BY HappenedStays DEF Prompt

(* After a step of p, p owns what it should, and answers for the containers *)
(* it answered for or has started.                                          *)
Keeps(p) ==
    /\ Owns(p)'
    /\ \A c \in running' : c \notin running \/ Names(p, c) => Names(p, c)'

(* A row that fails takes the container its process knew with it.           *)
LEMMA FailKeeps ==
    ASSUME TypeInv, NEW p \in Procs, Owns(p), NEW S \in SUBSET running, Fail(p, S),
           mem[p].container \notin S, UNCHANGED mem,
           rows[p].status \in Live => rows[p].container = mem[p].container
    PROVE  Keeps(p)
<1>1. /\ rows'[p].status = "failed" /\ rows'[p].container = mem[p].container
      /\ pc'[p] = "restore" /\ running' = S /\ mem' = mem
  BY DEF Fail, Goto, TypeInv, TypeOK, Row
<1>2. Owns(p)'
  BY <1>1 DEF Owns, Rowless, Agreed, Pending
<1>3. \A c \in running' : c \in running /\ c # mem[p].container
  BY <1>1
<1>4. \A c \in running' : ~Names(p, c)
  BY <1>3 DEF Names
<1> QED
  BY <1>2, <1>3, <1>4 DEF Keeps

LEMMA FailRowKeeps ==
    ASSUME TypeInv, NEW p \in Procs, Owns(p), FailRow(p), UNCHANGED mem, pc[p] \in Agreed
    PROVE  Keeps(p)
<1>1. running \ {mem[p].container} \in SUBSET running
  OBVIOUS
<1>2. rows[p].container = mem[p].container
  BY DEF Owns
<1> QED
  BY <1>1, <1>2, FailKeeps DEF FailRow

(* Nothing of the row and the container changes.                            *)
LEMMA SameKeeps ==
    ASSUME TypeInv, NEW p \in Procs, Owns(p), running' \subseteq running,
           mem'[p].container = mem[p].container,
           rows'[p].status = rows[p].status, rows'[p].container = rows[p].container,
           rows'[p].node = rows[p].node,
           pc'[p] # "done" \/ mem[p].container = None
               \/ (rows[p].status \in Live /\ rows[p].container = mem[p].container)
               \/ pc[p] \in {"restore", "rewrite"},
           pc'[p] \in {"restore", "rewrite"} => pc[p] \in {"restore", "rewrite"},
           Owns(p)'
    PROVE  Keeps(p)
<1>1. None \notin running'
  BY DeployAssumption DEF TypeInv, TypeOK
<1> QED
  BY <1>1 DEF Keeps, Names

LEMMA CreateKeeps ==
    ASSUME TypeInv, NEW p \in Procs, Owns(p), Prompt',
           \/ UploadBegin(p) \/ PushBegin(p) \/ RollbackBegin(p) \/ Clear(p) \/ Version(p)
           \/ Insert(p) \/ Claim(p) \/ Discard(p) \/ Enqueue(p) \/ Promote(p) \/ Raise(p) \/ Crash(p)
    PROVE  Keeps(p)
<1> USE DEF site, vhost, queue, history, Goto
<1>0. /\ rows[p] \in Row /\ mem[p] \in Memory
      /\ \A q \in Uploads \cup Pushes : q \notin Rollbacks
  BY DeployAssumption DEF TypeInv, TypeOK
<1>1. CASE \/ UploadBegin(p) \/ PushBegin(p) \/ RollbackBegin(p) \/ Clear(p) \/ Version(p)
  <2>1. /\ pc[p] \in Rowless /\ rows[p].status = "none" /\ mem[p].container = None
        /\ pc'[p] \in {"done", "clear", "version", "insert"} /\ UNCHANGED <<rows, running>>
    BY <1>1 DEF UploadBegin, PushBegin, RollbackBegin, Clear, Version, Owns, Rowless, TypeInv, TypeOK
  <2>2. mem'[p].container = mem[p].container
    <3>1. CASE RollbackBegin(p)
      <4>1. CASE \E c \in Newest(Current), t \in Completed :
                    mem' = [mem EXCEPT ![p].other = c, ![p].target = t]
        <5>1. PICK c, t : mem' = [mem EXCEPT ![p].other = c, ![p].target = t]
          BY <4>1
        <5>2. mem'[p] = [mem[p] EXCEPT !.other = c, !.target = t]
          BY <5>1 DEF TypeInv, TypeOK
        <5> QED
          BY <1>0, <5>2 DEF Memory
      <4>2. CASE UNCHANGED mem
        BY <4>2
      <4> QED
        BY <3>1, <4>1, <4>2 DEF RollbackBegin
    <3>2. CASE ~RollbackBegin(p)
      BY <1>0, <1>1, <3>2 DEF UploadBegin, PushBegin, Clear, Version, TypeInv, TypeOK, Memory
    <3> QED
      BY <3>1, <3>2
  <2>3. Owns(p)'
    BY <2>1, <2>2 DEF Owns, Rowless, Agreed, Pending
  <2> QED
    BY <2>1, <2>2, <2>3, SameKeeps
<1>2. CASE Insert(p)
  <2>1. /\ rows[p].status = "none" /\ mem[p].container = None /\ mem'[p].container = None
        /\ running' = running
    BY <1>0, <1>2 DEF Insert, Owns, Rowless, TypeInv, TypeOK, Memory
  <2>2. CASE UNCHANGED rows /\ pc'[p] = "done"
    <3>1. Owns(p)'
      BY <2>1, <2>2 DEF Owns, Rowless, Agreed, Pending
    <3> QED
      BY <2>1, <2>2, <3>1, SameKeeps
  <2>3. CASE rows'[p] = Inserted(p) /\ pc'[p] = AfterInsert(p)
    <3>1. rows'[p].status = "queued" /\ rows'[p].container = None
      <4>1. (IF p \in Rollbacks THEN rows[mem[p].target] ELSE NoRow) \in Row
        BY <1>2, RowFact DEF Insert, TypeInv, TypeOK, Shape
      <4> QED
        BY <2>3, <4>1 DEF Inserted, Row
    <3>2. /\ pc'[p] \in {"claim", "build", "enqueue", "env"}
          /\ p \in Rollbacks => pc'[p] = "env"
      BY <1>0, <2>3, DeployAssumption DEF AfterInsert, Procs
    <3>3. Owns(p)'
      BY <2>1, <3>1, <3>2 DEF Owns, Rowless, Agreed, Pending
    <3>4. None \notin running
      BY DeployAssumption DEF TypeInv, TypeOK
    <3> QED
      BY <2>1, <3>3, <3>4 DEF Keeps, Names, Live
  <2>4. \/ UNCHANGED rows /\ pc'[p] = "done"
        \/ rows'[p] = Inserted(p) /\ pc'[p] = AfterInsert(p)
    BY <1>2 DEF Insert, TypeInv, TypeOK
  <2> QED
    BY <2>2, <2>3, <2>4
<1>3. CASE Claim(p)
  <2>1. /\ pc[p] = "claim" /\ pc'[p] \in {"build", "discard"} /\ UNCHANGED <<rows, mem, running>>
    BY <1>3 DEF Claim, TypeInv, TypeOK
  <2>2. Owns(p)'
    BY <2>1 DEF Owns, Rowless, Agreed, Pending
  <2> QED
    BY <2>1, <2>2, SameKeeps
<1>4. CASE Discard(p)
  <2>1. /\ pc[p] = "discard" /\ pc'[p] = "done" /\ UNCHANGED <<mem, running>> /\ rows'[p] = NoRow
    BY <1>4 DEF Discard, TypeInv, TypeOK
  <2>2. rows[p].status = "queued" /\ mem[p].container = None /\ p \notin Rollbacks
    BY <2>1 DEF Owns, Pending
  <2>3. Owns(p)'
    BY <2>1, <2>2 DEF Owns, Rowless, Agreed, Pending, NoRow
  <2>4. \A c \in running' : c \in running /\ ~Names(p, c)
    BY <2>1, <2>2, DeployAssumption DEF Names, Live, TypeInv, TypeOK
  <2> QED
    BY <2>3, <2>4 DEF Keeps
<1>5. CASE Enqueue(p)
  <2>1. CASE FailRow(p)
    BY <1>5, <2>1, FailRowKeeps DEF Enqueue, Agreed
  <2>2. CASE Goto(p, "queued") /\ UNCHANGED <<rows, running>>
    <3>1. /\ pc[p] = "enqueue" /\ pc'[p] = "queued" /\ UNCHANGED mem
      BY <1>5, <2>2 DEF Enqueue, TypeInv, TypeOK
    <3>2. Owns(p)'
      BY <2>2, <3>1 DEF Owns, Rowless, Agreed, Pending
    <3> QED
      BY <2>2, <3>1, <3>2, SameKeeps
  <2> QED
    BY <1>5, <2>1, <2>2 DEF Enqueue
<1>6. CASE Promote(p)
  <2>1. /\ pc[p] = "delayed" /\ pc'[p] = "queued" /\ UNCHANGED <<rows, mem, running>>
    BY <1>6 DEF Promote, TypeInv, TypeOK
  <2>2. Owns(p)'
    BY <2>1 DEF Owns, Rowless, Agreed, Pending
  <2> QED
    BY <2>1, <2>2, SameKeeps
<1>7. CASE Raise(p)
  <2>1. /\ pc'[p] = "delayed" /\ UNCHANGED <<rows, mem, running>> /\ p \in Pushes
        /\ pc[p] \in Agreed \/ (pc[p] = "record" /\ ~rows[p].node)
    BY <1>7 DEF Raise, Prompt, Record, Agreed, TypeInv, TypeOK
  <2>2. Owns(p)'
    BY <1>0, <2>1 DEF Owns, Rowless, Agreed, Pending
  <2> QED
    BY <2>1, <2>2, SameKeeps
<1>8. CASE Crash(p)
  <2>1. /\ pc'[p] = "crashed" /\ UNCHANGED <<rows, mem, running>>
    BY <1>8 DEF Crash, TypeInv, TypeOK
  <2>2. Owns(p)'
    BY <2>1 DEF Owns, Rowless, Agreed, Pending
  <2> QED
    BY <2>1, <2>2, SameKeeps
<1> QED
  BY <1>1, <1>2, <1>3, <1>4, <1>5, <1>6, <1>7, <1>8

LEMMA PipelineKeeps ==
    ASSUME TypeInv, NEW p \in Procs, Owns(p), Prompt',
           RunStart(p) \/ Env(p) \/ Build(p) \/ Check(p) \/ Limit(p) \/ Start(p)
    PROVE  Keeps(p)
<1> USE DEF site, vhost, queue, history, Goto
<1>0. rows[p] \in Row /\ mem[p] \in Memory /\ running \subseteq Procs /\ None \notin running
  BY DeployAssumption DEF TypeInv, TypeOK
<1>1. ASSUME Yield(p), UNCHANGED <<mem, running>>, pc[p] \in Agreed
      PROVE  Keeps(p)
  <2>1. /\ rows'[p].status = "completed" /\ rows'[p].container = rows[p].container
        /\ pc'[p] = "done" /\ mem[p].container = rows[p].container
    BY <1>0, <1>1 DEF Yield, Owns, Row, TypeInv, TypeOK
  <2>2. Owns(p)'
    BY <1>1, <2>1 DEF Owns, Rowless, Agreed, Pending
  <2>3. \A c \in running' : c \in running /\ (Names(p, c) => Names(p, c)')
    BY <1>1, <2>1 DEF Names, Live
  <2> QED
    BY <2>2, <2>3 DEF Keeps
<1>2. CASE RunStart(p)
  <2>1. pc[p] = "run" /\ UNCHANGED running
        /\ mem'[p].container = mem[p].container
    BY <1>2, RunMemory DEF RunStart, TypeInv
  <2>2. CASE Yield(p) /\ UNCHANGED mem
    BY <1>1, <2>1, <2>2 DEF Agreed
  <2>3. CASE Goto(p, "build") /\ UNCHANGED rows
    <3>1. pc'[p] = "build"
      BY <2>3 DEF TypeInv, TypeOK
    <3>2. Owns(p)'
      BY <2>1, <2>3, <3>1 DEF Owns, Rowless, Agreed, Pending
    <3> QED
      BY <2>1, <2>3, <3>1, <3>2, SameKeeps
  <2> QED
    BY <1>2, <2>2, <2>3 DEF RunStart
<1>3. CASE Env(p)
  <2>1. pc[p] = "env" /\ UNCHANGED mem
    BY <1>3 DEF Env
  <2>2. CASE FailRow(p)
    BY <2>1, <2>2, FailRowKeeps DEF Agreed
  <2>3. CASE Goto(p, IF rows[p].node THEN "start" ELSE "bind") /\ UNCHANGED <<rows, running>>
    <3>1. pc'[p] \in {"start", "bind"}
      BY <2>3 DEF TypeInv, TypeOK
    <3>2. Owns(p)'
      BY <2>1, <2>3, <3>1 DEF Owns, Rowless, Agreed, Pending
    <3> QED
      BY <2>1, <2>3, <3>1, <3>2, SameKeeps
  <2> QED
    BY <1>3, <2>2, <2>3 DEF Env
<1>4. CASE Build(p)
  <2>1. pc[p] = "build" /\ UNCHANGED mem
    BY <1>4 DEF Build
  <2>2. CASE FailRow(p)
    BY <2>1, <2>2, FailRowKeeps DEF Agreed
  <2>3. CASE /\ rows' = [rows EXCEPT ![p].status = "queued", ![p].built = TRUE,
                                     ![p].node = (p \in Nextjs)]
             /\ Goto(p, "check")
             /\ UNCHANGED running
    <3>1. rows'[p] = [rows[p] EXCEPT !.status = "queued", !.built = TRUE, !.node = (p \in Nextjs)]
      BY <2>3 DEF TypeInv, TypeOK
    <3>2. /\ pc'[p] = "check" /\ rows'[p].status = "queued"
          /\ rows'[p].container = rows[p].container /\ mem[p].container = rows[p].container
      BY <1>0, <2>1, <2>3, <3>1 DEF Row, Owns, Agreed, TypeInv, TypeOK
    <3>3. Owns(p)'
      BY <2>1, <3>2 DEF Owns, Rowless, Agreed, Pending
    <3>4. \A c \in running' : c \in running /\ (Names(p, c) => Names(p, c)')
      BY <2>1, <2>3, <3>2 DEF Names
    <3> QED
      BY <3>3, <3>4 DEF Keeps
  <2> QED
    BY <1>4, <2>2, <2>3 DEF Build
<1>5. CASE Check(p)
  <2>1. pc[p] = "check" /\ UNCHANGED <<mem, running>>
    BY <1>5 DEF Check
  <2>2. CASE Yield(p)
    BY <1>1, <2>1, <2>2 DEF Agreed
  <2>3. CASE Goto(p, IF rows[p].node THEN "limit" ELSE "record") /\ UNCHANGED rows
    <3>1. pc'[p] \in {"limit", "record"}
      BY <2>3 DEF TypeInv, TypeOK
    <3>2. Owns(p)'
      BY <2>1, <2>3, <3>1 DEF Owns, Rowless, Agreed, Pending
    <3> QED
      BY <2>1, <2>3, <3>1, <3>2, SameKeeps
  <2> QED
    BY <1>5, <2>2, <2>3 DEF Check
<1>6. CASE Limit(p)
  <2>1. pc[p] = "limit"
    BY <1>6 DEF Limit
  <2>2. CASE FailRow(p) /\ UNCHANGED mem
    BY <2>1, <2>2, FailRowKeeps DEF Agreed
  <2>3. CASE /\ \/ UNCHANGED mem
                \/ \E r \in Newest(Completed \ {p}) : mem' = [mem EXCEPT ![p].other = r]
             /\ Goto(p, "start")
             /\ UNCHANGED <<rows, running>>
    <3>1. pc'[p] = "start" /\ mem'[p].container = mem[p].container
      BY <1>0, <2>3 DEF Memory, TypeInv, TypeOK
    <3>2. Owns(p)'
      BY <2>1, <2>3, <3>1 DEF Owns, Rowless, Agreed, Pending
    <3> QED
      BY <2>1, <2>3, <3>1, <3>2, SameKeeps
  <2> QED
    BY <1>6, <2>2, <2>3 DEF Limit
<1>7. CASE Start(p)
  <2>1. /\ pc[p] = "start" /\ rows[p].status = "queued"
        /\ mem[p].container = rows[p].container /\ mem[p].container \in {None, p}
        /\ p \in Rollbacks => mem[p].container = None
    BY <1>7 DEF Start, Owns, Agreed, Pending
  <2>2. CASE \E c \in IF Reusable(p) = {} THEN {p} ELSE Reusable(p) :
                /\ Reusable(p) # {} \/ p \notin running
                /\ mem' = [mem EXCEPT ![p].container = c]
                /\ running' = running \cup {c}
                /\ Goto(p, "record") /\ UNCHANGED rows
    <3>1. PICK c \in Procs :
             /\ (c = p /\ p \notin running) \/ p \in Rollbacks
             /\ mem' = [mem EXCEPT ![p].container = c]
             /\ running' = running \cup {c}
             /\ Goto(p, "record") /\ UNCHANGED rows
      BY <1>0, <2>2 DEF Reusable
    <3>2. pc'[p] = "record" /\ mem'[p].container = c
      BY <1>0, <3>1 DEF Memory, TypeInv, TypeOK
    <3>3. Owns(p)'
      <4>1. rows[p].node
        BY <2>1 DEF Owns
      <4>2. p \notin Rollbacks => c = p /\ rows[p].container \in {None, p}
        BY <3>1 DEF Owns
      <4> QED
        BY <2>1, <3>1, <3>2, <4>1, <4>2 DEF Owns, Rowless, Agreed, Pending
    <3>4. \A d \in running' : d \notin running \/ Names(p, d) => Names(p, d)'
      BY <1>0, <2>1, <3>1, <3>2 DEF Names, Live
    <3> QED
      BY <3>3, <3>4 DEF Keeps
  <2>3. CASE FailRow(p) /\ UNCHANGED mem
    BY <2>1, <2>3, FailRowKeeps DEF Agreed
  <2>4. CASE Fail(p, running \cup {p}) /\ p \notin running
    BY <2>4 DEF Fail, Prompt
  <2>5. CASE Fail(p, running \ {p}) /\ UNCHANGED mem
    <3>1. running \ {p} \in SUBSET running /\ mem[p].container \notin running \ {p}
      BY <1>0, <2>1
    <3> QED
      BY <2>1, <2>5, <3>1, FailKeeps
  <2> QED
    BY <1>7, <2>2, <2>3, <2>4, <2>5 DEF Start
<1> QED
  BY <1>2, <1>3, <1>4, <1>5, <1>6, <1>7

LEMMA ActivateKeeps ==
    ASSUME TypeInv, NEW p \in Procs, Owns(p), Prompt',
           RecordRow(p) \/ Bind(p) \/ Finish(p) \/ Stop(p) \/ Restore(p) \/ Rewrite(p)
    PROVE  Keeps(p)
<1> USE DEF site, vhost, queue, history, Goto
<1>0. /\ rows[p] \in Row /\ mem[p] \in Memory /\ running \subseteq Procs /\ None \notin running
      /\ p \in Procs /\ DOMAIN rows = Procs /\ DOMAIN mem = Procs
  BY DeployAssumption DEF TypeInv, TypeOK
<1>1. CASE RecordRow(p)
  <2>1. pc[p] = "record" /\ UNCHANGED mem /\ rows[p].status = "queued"
    BY <1>1 DEF RecordRow, Owns, Pending
  <2>2. CASE FailRow(p)
    <3>1. running \ {mem[p].container} \in SUBSET running
      BY <1>0
    <3> QED
      BY <1>0, <2>1, <2>2, <3>1, FailKeeps DEF FailRow, Live
  <2>3. CASE /\ \E h \in HostOf(p) :
                   rows' = [rows EXCEPT ![p].container = mem[p].container, ![p].host = h]
             /\ Goto(p, "bind") /\ UNCHANGED running
    <3>1. pc'[p] = "bind"
      BY <2>3 DEF TypeInv, TypeOK
    <3>2. PICK h \in HostOf(p) :
             rows'[p] = [rows[p] EXCEPT !.container = mem[p].container, !.host = h]
      BY <1>0, <2>3
    <3>3. rows'[p].status = "queued" /\ rows'[p].container = mem[p].container
      BY <1>0, <2>1, <3>2 DEF Row
    <3>4. Owns(p)'
      BY <2>1, <3>1, <3>3 DEF Owns, Rowless, Agreed, Pending
    <3>5. \A c \in running' : c \in running /\ (Names(p, c) => Names(p, c)')
      BY <2>1, <2>3, <3>1 DEF Names, Live
    <3> QED
      BY <3>4, <3>5 DEF Keeps
  <2> QED
    BY <1>1, <2>2, <2>3 DEF RecordRow
<1>2. CASE Bind(p)
  <2>1. pc[p] = "bind" /\ pc'[p] = "finish" /\ UNCHANGED <<rows, running>>
    BY <1>2 DEF Bind, TypeInv, TypeOK
  <2>2. mem'[p].container = mem[p].container
    <3>1. mem' = mem \/ \E b \in BOOLEAN : mem' = [mem EXCEPT ![p].active = b]
      BY <1>2 DEF Bind
    <3> QED
      BY <1>0, <3>1 DEF Memory
  <2>3. Owns(p)'
    BY <2>1, <2>2 DEF Owns, Rowless, Agreed, Pending
  <2> QED
    BY <2>1, <2>2, <2>3, SameKeeps
<1>3. CASE Finish(p)
  <2>1. /\ pc[p] = "finish" /\ pc'[p] \in {"stop", "done"} /\ UNCHANGED <<mem, running>>
        /\ mem[p].container = rows[p].container
    BY <1>3 DEF Finish, Owns, Agreed, TypeInv, TypeOK
  <2>2. PICK s \in Live : rows' = [rows EXCEPT ![p].status = s]
    BY <1>3 DEF Finish, Live
  <2>3. rows'[p].status \in Live /\ rows'[p].container = rows[p].container
    BY <1>0, <2>2 DEF Row
  <2>4. Owns(p)'
    BY <2>1, <2>3 DEF Owns, Rowless, Agreed, Pending
  <2>5. \A c \in running' : c \in running /\ (Names(p, c) => Names(p, c)')
    BY <2>1, <2>3 DEF Names
  <2> QED
    BY <2>4, <2>5 DEF Keeps
<1>4. CASE Stop(p)
  <2>1. /\ pc[p] = "stop" /\ UNCHANGED mem /\ rows[p].status \in Live
        /\ mem[p].container = rows[p].container
    BY <1>4 DEF Stop, Owns, Agreed
  <2>2. CASE FailRow(p)
    BY <2>1, <2>2, FailRowKeeps DEF Agreed
  <2>3. CASE running' \subseteq running /\ Goto(p, "done") /\ UNCHANGED rows
    <3>1. pc'[p] = "done"
      BY <2>3 DEF TypeInv, TypeOK
    <3>2. Owns(p)'
      BY <2>1, <2>3, <3>1 DEF Owns, Rowless, Agreed, Pending
    <3> QED
      BY <2>1, <2>3, <3>1, <3>2, SameKeeps
  <2> QED
    BY <1>4, <2>2, <2>3 DEF Stop
<1>5. CASE Restore(p)
  <2>1. /\ pc[p] = "restore" /\ pc'[p] \in {"done", "rewrite"} /\ UNCHANGED <<rows, running>>
    BY <1>5 DEF Restore, TypeInv, TypeOK
  <2>2. mem'[p].container = mem[p].container
    <3>1. mem' = mem \/ \E r : mem' = [mem EXCEPT ![p].other = r]
      BY <1>5 DEF Restore
    <3> QED
      BY <1>0, <3>1 DEF Memory
  <2>3. Owns(p)'
    BY <2>1, <2>2 DEF Owns, Rowless, Agreed, Pending
  <2> QED
    BY <2>1, <2>2, <2>3, SameKeeps
<1>6. CASE Rewrite(p)
  <2>1. pc[p] = "rewrite" /\ pc'[p] = "done" /\ UNCHANGED <<mem, running>>
    BY <1>6 DEF Rewrite, TypeInv, TypeOK
  <2>2. /\ rows'[p].status = rows[p].status /\ rows'[p].container = rows[p].container
        /\ rows'[p].node = rows[p].node
    <3>1. rows'[p] = rows[p] \/ rows'[p] = [rows[p] EXCEPT !.current = TRUE]
      BY <1>0, <1>6 DEF Rewrite
    <3> QED
      BY <1>0, <3>1 DEF Row
  <2>3. Owns(p)'
    BY <2>1, <2>2 DEF Owns, Rowless, Agreed, Pending
  <2> QED
    BY <2>1, <2>2, <2>3, SameKeeps
<1> QED
  BY <1>1, <1>2, <1>3, <1>4, <1>5, <1>6

(* The queue: a job is put in for a push that has none, and taken out.      *)
LEMMA QueueStep ==
    ASSUME TypeInv, QueueHeld, [Next]_vars
    PROVE  QueueHeld'
<1> USE DEF queue, Goto
<1>0. jobs \in Seq(Pushes) /\ \A i \in 1..Len(jobs) : jobs[i] \in Procs
  BY DEF TypeInv, TypeOK, Procs
<1>1. CASE UNCHANGED vars \/ AllDone \/ KeyExpires \/ KeyPurged
  BY <1>1 DEF AllDone, KeyExpires, KeyPurged, vars, QueueHeld
<1>2. CASE WorkerTake
  <2>1. /\ jobs # << >> /\ jobs' = Tail(jobs)
        /\ \A q \in Procs : q # jobs[1] => pc'[q] = pc[q]
    BY <1>0, <1>2, Taken DEF WorkerTake
  <2>2. /\ Len(jobs') = Len(jobs) - 1
        /\ \A i \in 1..Len(jobs') : jobs'[i] = jobs[i + 1] /\ i + 1 \in 1..Len(jobs) /\ i + 1 # 1
    BY <1>0, <2>1
  <2>3. \A i \in 1..Len(jobs') : jobs'[i] # jobs[1]
    <3>1. 1 \in 1..Len(jobs)
      BY <1>0, <2>1
    <3> QED
      BY <2>2, <3>1 DEF QueueHeld
  <2>4. \A i \in 1..Len(jobs') : pc'[jobs'[i]] = "queued"
    BY <1>0, <2>1, <2>2, <2>3 DEF QueueHeld
  <2>5. \A i, j \in 1..Len(jobs') : jobs'[i] = jobs'[j] => i = j
    <3> SUFFICES ASSUME NEW i \in 1..Len(jobs'), NEW j \in 1..Len(jobs'), jobs'[i] = jobs'[j]
                 PROVE  i = j
      OBVIOUS
    <3>1. i + 1 = j + 1
      BY <2>2 DEF QueueHeld
    <3> QED
      BY <1>0, <2>2, <3>1
  <2> QED
    BY <2>4, <2>5 DEF QueueHeld
<1>3. ASSUME NEW p \in Procs, Step(p) \/ Raise(p) \/ Crash(p) PROVE QueueHeld'
  <2>0. \A q \in Procs : q # p => pc'[q] = pc[q]
    BY <1>3, OthersWait
  <2>1. CASE jobs' = Append(jobs, p) /\ pc[p] # "queued" /\ Goto(p, "queued")
    <3>1. /\ Len(jobs') = Len(jobs) + 1 /\ jobs'[Len(jobs) + 1] = p
          /\ \A i \in 1..Len(jobs) : jobs'[i] = jobs[i]
          /\ pc'[p] = "queued" /\ Len(jobs) \in Nat
      BY <1>0, <1>3, <2>1 DEF TypeInv, TypeOK
    <3>2. \A i \in 1..Len(jobs) : jobs[i] # p
      BY <2>1 DEF QueueHeld
    <3>3. \A i \in 1..Len(jobs') : i \in 1..Len(jobs) \/ i = Len(jobs) + 1
      BY <3>1
    <3>4. \A i \in 1..Len(jobs') : pc'[jobs'[i]] = "queued"
      BY <1>0, <2>0, <3>1, <3>2, <3>3 DEF QueueHeld
    <3>5. \A i, j \in 1..Len(jobs') : jobs'[i] = jobs'[j] => i = j
      BY <3>1, <3>2, <3>3 DEF QueueHeld
    <3> QED
      BY <3>4, <3>5 DEF QueueHeld
  <2>2. CASE UNCHANGED jobs /\ pc[p] # "queued"
    <3>1. \A i \in 1..Len(jobs) : jobs[i] # p
      BY <2>2 DEF QueueHeld
    <3> QED
      BY <1>0, <2>0, <2>2, <3>1 DEF QueueHeld
  <2>3. pc[p] # "queued"
    BY <1>3 DEF Step, Raise, Crash, AtWork, Resting, UploadBegin, PushBegin, RollbackBegin, Clear,
       Version, Insert, Claim, Discard, Enqueue, RunStart, Build, Check, Limit, Env, Start,
       RecordRow, Bind, Finish, Stop, Restore, Rewrite, Promote
  <2>4. UNCHANGED jobs \/ (jobs' = Append(jobs, p) /\ Goto(p, "queued"))
    BY <1>3 DEF Step, Raise, Crash, UploadBegin, PushBegin, RollbackBegin, Clear,
       Version, Insert, Claim, Discard, Enqueue, RunStart, Build, Check, Limit, Env, Start,
       RecordRow, Bind, Finish, Stop, Restore, Rewrite, Promote
  <2> QED
    BY <2>1, <2>2, <2>3, <2>4
<1> QED
  BY <1>1, <1>2, <1>3 DEF Next

LEMMA OwnStep == TypeInv /\ OwnInv /\ [Next]_vars => OwnInv'
<1> SUFFICES ASSUME TypeInv, OwnInv, [Next]_vars, Prompt'
             PROVE  Owned' /\ QueueHeld' /\ Answered'
  BY DEF OwnInv
<1>0. Prompt /\ Owned /\ QueueHeld /\ Answered /\ QueueHeld'
  BY LateStays, QueueStep DEF OwnInv
<1>1. CASE UNCHANGED vars \/ AllDone \/ KeyExpires \/ KeyPurged
  <2>1. UNCHANGED <<rows, pc, mem, running>>
    BY <1>1 DEF AllDone, KeyExpires, KeyPurged, vars, site
  <2>2. Owned' /\ Answered'
    BY <1>0, <2>1 DEF Owned, Owns, Answered, Names
  <2> QED
    BY <1>0, <2>2
<1>2. CASE WorkerTake
  <2>1. PICK h \in Procs :
           /\ h = Head(jobs) /\ jobs # << >> /\ pc'[h] = "run"
           /\ mem'[h] = [Blank EXCEPT !.container = rows[h].container]
           /\ \A q \in Procs : q # h => pc'[q] = pc[q] /\ mem'[q] = mem[q]
           /\ UNCHANGED <<rows, running>>
    BY <1>2, Taken DEF WorkerTake, site, TypeInv, TypeOK, Procs
  <2>2. pc[h] = "queued"
    <3>1. jobs \in Seq(Pushes) /\ 1 \in 1..Len(jobs) /\ h = jobs[1]
      BY <2>1 DEF TypeInv, TypeOK
    <3> QED
      BY <1>0, <3>1 DEF QueueHeld
  <2>3. Owns(h) /\ mem[h].container = rows[h].container /\ mem'[h].container = rows[h].container
    BY <1>0, <2>1, <2>2 DEF Owned, Owns, Agreed, Blank
  <2>4. Owns(h)'
    BY <2>1, <2>2, <2>3 DEF Owns, Rowless, Agreed, Pending
  <2>5. \A q \in Procs : q # h => Owns(q)'
    BY <1>0, <2>1 DEF Owned, Owns
  <2>6. \A q \in Procs, c \in running : Names(q, c) => Names(q, c)'
    BY <2>1, <2>2, <2>3 DEF Names
  <2>7. Owned'
    BY <2>4, <2>5 DEF Owned
  <2>8. Answered'
    BY <1>0, <2>1, <2>6 DEF Answered
  <2> QED
    BY <1>0, <2>7, <2>8
<1>3. ASSUME NEW p \in Procs, Step(p) \/ Raise(p) \/ Crash(p)
      PROVE  Owned' /\ Answered'
  <2>1. Keeps(p)
    BY <1>0, <1>3, CreateKeeps, PipelineKeeps, ActivateKeeps DEF Step, Owned
  <2>2. \A q \in Procs : q # p => Owns(q)' /\ \A c : Names(q, c) => Names(q, c)'
    BY <1>0, <1>3, OthersWait, OthersKeep DEF Owned, Owns, Names
  <2>3. Owned'
    BY <2>1, <2>2 DEF Keeps, Owned
  <2>4. Answered'
    <3> SUFFICES ASSUME NEW c \in running' PROVE \E q \in Procs : Names(q, c)'
      BY DEF Answered
    <3>1. CASE c \notin running \/ Names(p, c)
      BY <2>1, <3>1 DEF Keeps
    <3>2. CASE c \in running /\ ~Names(p, c)
      BY <1>0, <2>2, <3>2 DEF Answered
    <3> QED
      BY <3>1, <3>2
  <2> QED
    BY <2>3, <2>4
<1> QED
  BY <1>0, <1>1, <1>2, <1>3 DEF Next

(* No container is left running that nobody answers for: service.py's       *)
(* pipeline, its failures, its retries by the worker and rollbacks that     *)
(* reuse a container, with any number of them failing or dying.             *)
THEOREM ContainersAnswered == Spec => []Accounted
<1>1. OwnInv => Accounted
  <2> SUFFICES ASSUME OwnInv, Prompt PROVE \A c \in running : \E p \in Procs :
                 \/ rows[p].status \in {"completed", "provisioning_ssl"} /\ rows[p].container = c
                 \/ mem[p].container = c /\ pc[p] # "done"
    BY DEF Accounted, Prompt
  <2> QED
    BY DEF OwnInv, Answered, Names, Live
<1> QED
  BY <1>1, InitInv, TypeStep, OwnInit, OwnStep, PTL DEF Spec

-----------------------------------------------------------------------------
(* Zero-downtime cutover                                                    *)

(* None of the mishaps ServedIsUp excuses.                                  *)
Spared == happened \cap {"unbound", "overlap", "revived"} = {}

(* The steps at which a row has not completed, and those at which a rollback*)
(* holds the rows it goes between.                                          *)
Unended == Rowless \cup Pending \cup {"build"}
Going   == {"clear", "version", "insert", "env", "start", "record", "bind", "finish", "stop"}

(* What a process at its step is and knows of its container: only a         *)
(* rollback has one that is not its own.                                    *)
Poised(p) ==
    /\ pc[p] \in Unended => rows[p].status # "completed"
    /\ pc[p] = "stop" => mem[p].container # None /\ mem[p].other # None
    /\ pc[p] \in {"record", "bind"} => mem[p].container \in running \cup {None}
    /\ p \notin Rollbacks =>
          /\ {mem[p].container, rows[p].container} \subseteq {None} \cup ({p} \cap Nextjs)
          /\ pc[p] = "check" => (rows[p].node <=> p \in Nextjs)
          /\ pc[p] \in {"limit", "start"} => p \in Nextjs
    /\ p \in Rollbacks =>
          /\ pc[p] \in Rowless \cup {"env", "start"} => mem[p].container = None
          /\ pc[p] \notin {"claim", "discard", "enqueue", "queued", "delayed", "run", "build",
                           "check", "limit"}

(* The rows a process refers to: a deployment to a completed one, a rollback*)
(* to the one it goes back to and the current one.                          *)
Refers(p) ==
    /\ p \notin Rollbacks => mem[p].other \in {None} \cup Completed
    /\ p \in Rollbacks /\ pc[p] \in Going =>
          mem[p].target \in Completed /\ mem[p].other \in Existing

(* What a step of p does to the rows, the containers and the virtual host.  *)
Lasts(p) ==
    /\ rows[p].status = "completed" =>
          rows'[p].status = "completed" /\ rows'[p].container = rows[p].container
    /\ rows[p].status # "none" => rows'[p].status # "none" \/ pc[p] = "discard"

Takes(p) ==
    /\ rows'[p].container \in {None, rows[p].container, mem[p].container}
    /\ \/ mem'[p].container = mem[p].container
       \/ /\ pc[p] = "start" /\ pc'[p] = "record"
          /\ mem'[p].container \in {p, rows[mem[p].target].container} \cap running'

Points(p) ==
    /\ p \notin Rollbacks => mem'[p].other \in {mem[p].other} \cup Completed
    /\ p \in Rollbacks /\ pc'[p] \in Going =>
          \/ /\ pc[p] \in Going
             /\ mem'[p].target = mem[p].target /\ mem'[p].other = mem[p].other
          \/ mem'[p].target \in Completed /\ mem'[p].other \in Existing

Stops(p) ==
    \/ running \subseteq running'
    \/ /\ pc[p] \notin Resting
       /\ running \ running' \subseteq {mem[p].container, p} \ {Served}
    \/ /\ pc[p] = "stop"
       /\ running' = running \ ({rows[mem[p].other].container} \ {mem[p].container})

Binds(p) ==
    /\ Served' # Served =>
          /\ pc[p] = "bind" /\ running' = running
          /\ Served' \in {None, mem[p].container}
    /\ pc'[p] \in {"finish", "stop"} /\ mem'[p].container # None =>
          /\ mem'[p].other = mem[p].other /\ mem'[p].container = mem[p].container
          /\ \/ pc[p] = "finish"
             \/ pc[p] = "bind" /\ Served' = mem[p].container

Moves(p) == Poised(p)' /\ Lasts(p) /\ Takes(p) /\ Points(p) /\ Stops(p) /\ Binds(p)

LEMMA ProcFacts ==
    ASSUME TypeInv, NEW p \in Procs
    PROVE  /\ rows[p] \in Row /\ mem[p] \in Memory /\ running \subseteq Procs
           /\ None \notin running /\ p # None /\ None \notin Procs
           /\ DOMAIN rows = Procs /\ DOMAIN mem = Procs /\ DOMAIN pc = Procs
           /\ \A q \in Uploads \cup Pushes : q \notin Rollbacks
           /\ p \in Uploads \cup Pushes \/ p \in Rollbacks
  BY DeployAssumption DEF TypeInv, TypeOK, Procs

(* A step that changes neither the containers nor the virtual host.         *)
LEMMA SameMoves ==
    ASSUME TypeInv, NEW p \in Procs, Poised(p), Poised(p)',
           UNCHANGED <<running, Served>>,
           rows'[p].status = rows[p].status, rows'[p].container = rows[p].container,
           mem'[p].container = mem[p].container, mem'[p].other = mem[p].other,
           mem'[p].target = mem[p].target,
           p \in Rollbacks /\ pc'[p] \in Going => pc[p] \in Going,
           pc'[p] \notin {"finish", "stop"}
    PROVE  Moves(p)
  BY DEF Moves, Lasts, Takes, Points, Stops, Binds

(* A row that fails: what it served is lost, or it served nothing.          *)
LEMMA FailMoves ==
    ASSUME TypeInv, NEW p \in Procs, Poised(p), Spared', NEW S \in SUBSET Procs, Fail(p, S),
           UNCHANGED <<mem, Served>>, pc[p] \notin Resting, rows[p].status # "completed",
           running \ S \subseteq {mem[p].container, p}
    PROVE  Moves(p)
<1>1. /\ rows'[p].status = "failed" /\ rows'[p].container = mem[p].container
      /\ pc'[p] = "restore" /\ running' = S
      /\ Served \notin running \ S
  <2>1. rows'[p] = [rows[p] EXCEPT !.status = "failed", !.current = FALSE,
                                   !.container = mem[p].container]
    BY ProcFacts DEF Fail
  <2>2. rows'[p].status = "failed" /\ rows'[p].container = mem[p].container
    BY <2>1, ProcFacts DEF Row
  <2> QED
    BY <2>2, ProcFacts DEF Fail, Goto, Spared
<1>2. Poised(p)'
  BY <1>1 DEF Poised, Unended, Rowless, Pending
<1> QED
  BY <1>1, <1>2 DEF Moves, Lasts, Takes, Points, Stops, Binds, Going

LEMMA FailRowMoves ==
    ASSUME TypeInv, NEW p \in Procs, Poised(p), Spared', FailRow(p),
           UNCHANGED <<mem, Served>>, pc[p] \notin Resting, rows[p].status # "completed"
    PROVE  Moves(p)
<1>1. /\ running \ {mem[p].container} \in SUBSET Procs
      /\ running \ (running \ {mem[p].container}) \subseteq {mem[p].container, p}
  BY ProcFacts
<1> QED
  BY <1>1, FailMoves DEF FailRow

LEMMA CreateMoves ==
    ASSUME TypeInv, NEW p \in Procs, Poised(p), Refers(p), Spared',
           \/ UploadBegin(p) \/ PushBegin(p) \/ RollbackBegin(p) \/ Clear(p) \/ Version(p)
           \/ Insert(p) \/ Claim(p) \/ Discard(p) \/ Enqueue(p) \/ Promote(p) \/ Raise(p) \/ Crash(p)
    PROVE  Moves(p)
<1> USE StillServed DEF site, vhost, queue, history, Goto
<1>0. rows[p] \in Row /\ mem[p] \in Memory /\ DOMAIN rows = Procs /\ DOMAIN mem = Procs /\ DOMAIN pc = Procs
  BY ProcFacts
<1>1. CASE UploadBegin(p) \/ PushBegin(p) \/ Clear(p) \/ Version(p)
  <2>1. /\ pc[p] \in Rowless /\ pc'[p] \in {"done", "clear", "version", "insert"}
        /\ pc[p] = "idle" => p \notin Rollbacks
        /\ UNCHANGED <<rows, running, Served>>
    BY <1>0, <1>1, ProcFacts DEF UploadBegin, PushBegin, Clear, Version, Rowless
  <2>2. /\ mem'[p].container = mem[p].container /\ mem'[p].other = mem[p].other
        /\ mem'[p].target = mem[p].target
    BY <1>0, <1>1 DEF UploadBegin, PushBegin, Clear, Version, Memory
  <2>3. Poised(p)'
    BY <2>1, <2>2 DEF Poised, Unended, Rowless, Pending
  <2>4. pc[p] \in Going \/ p \notin Rollbacks
    BY <2>1 DEF Rowless, Going
  <2> QED
    BY <2>1, <2>2, <2>3, <2>4 DEF Moves, Lasts, Takes, Points, Stops, Binds
<1>2. CASE RollbackBegin(p)
  <2>1. p \in Rollbacks /\ pc[p] = "idle" /\ UNCHANGED <<rows, running, Served>>
    BY <1>2 DEF RollbackBegin
  <2>2. CASE \E c \in Newest(Current), t \in Completed :
                mem' = [mem EXCEPT ![p].other = c, ![p].target = t] /\ Goto(p, "clear")
    <3>1. PICK c \in Existing, t \in Completed :
             mem' = [mem EXCEPT ![p].other = c, ![p].target = t] /\ Goto(p, "clear")
      BY <2>2 DEF Newest, Current
    <3>2. mem'[p] = [mem[p] EXCEPT !.other = c, !.target = t]
      BY <1>0, <3>1
    <3>3. c \in Procs /\ t \in Procs
      BY DEF Existing, Completed
    <3>4. mem'[p].other = c /\ mem'[p].target = t /\ mem'[p].container = mem[p].container
      BY <1>0, <3>2, <3>3 DEF Memory
    <3>5. pc'[p] = "clear"
      BY <1>0, <3>1
    <3>6. Poised(p)'
      BY <2>1, <3>4, <3>5 DEF Poised, Unended, Rowless, Pending
    <3> QED
      BY <2>1, <3>1, <3>4, <3>5, <3>6 DEF Moves, Lasts, Takes, Points, Stops, Binds
  <2>3. CASE Goto(p, "done") /\ UNCHANGED mem
    <3>1. pc'[p] = "done"
      BY <1>0, <2>3
    <3>2. Poised(p)'
      BY <2>1, <2>3, <3>1 DEF Poised, Unended, Rowless, Pending
    <3> QED
      BY <2>1, <2>3, <3>1, <3>2, SameMoves DEF Going
  <2> QED
    BY <1>2, <2>2, <2>3 DEF RollbackBegin
<1>3. CASE Insert(p)
  <2>1. /\ pc[p] = "insert" /\ UNCHANGED <<running, Served>>
        /\ mem'[p].container = mem[p].container /\ mem'[p].other = mem[p].other
        /\ mem'[p].target = mem[p].target /\ rows[p].status # "completed"
    BY <1>0, <1>3 DEF Insert, Memory, Poised, Unended, Rowless
  <2>2. CASE UNCHANGED rows /\ pc'[p] = "done"
    <3>1. Poised(p)'
      BY <2>1, <2>2 DEF Poised, Unended, Rowless, Pending
    <3> QED
      BY <2>1, <2>2, <3>1, SameMoves DEF Going
  <2>3. CASE rows'[p] = Inserted(p) /\ pc'[p] = AfterInsert(p)
    <3>1. rows'[p].status = "queued" /\ rows'[p].container = None
      <4>1. (IF p \in Rollbacks THEN rows[mem[p].target] ELSE NoRow) \in Row
        BY <2>1, RowFact DEF TypeInv, TypeOK, Shape
      <4> QED
        BY <2>3, <4>1 DEF Inserted, Row
    <3>2. /\ pc'[p] \in {"claim", "build", "enqueue", "env"}
          /\ p \in Rollbacks => pc'[p] = "env"
      BY <2>3, DeployAssumption DEF AfterInsert, Procs
    <3>3. Poised(p)'
      BY <2>1, <3>1, <3>2 DEF Poised, Unended, Rowless, Pending
    <3> QED
      BY <2>1, <3>1, <3>2, <3>3 DEF Moves, Lasts, Takes, Points, Stops, Binds, Going
  <2>4. \/ UNCHANGED rows /\ pc'[p] = "done"
        \/ rows'[p] = Inserted(p) /\ pc'[p] = AfterInsert(p)
    BY <1>0, <1>3 DEF Insert
  <2> QED
    BY <2>2, <2>3, <2>4
<1>4. CASE Claim(p) \/ Promote(p)
  <2>1. /\ pc[p] \in {"claim", "delayed"} /\ UNCHANGED <<rows, mem, running, Served>>
        /\ pc'[p] \in IF pc[p] = "claim" THEN {"build", "discard"} ELSE {"queued"}
    BY <1>0, <1>4 DEF Claim, Promote
  <2>2. Poised(p)'
    BY <2>1 DEF Poised, Unended, Rowless, Pending
  <2> QED
    BY <2>1, <2>2, SameMoves DEF Going
<1>5. CASE Discard(p)
  <2>1. /\ pc[p] = "discard" /\ pc'[p] = "done" /\ UNCHANGED <<mem, running, Served>>
        /\ rows'[p].status = "none" /\ rows'[p].container = None
        /\ rows[p].status # "completed"
    BY <1>0, <1>5 DEF Discard, NoRow, Poised, Unended, Pending
  <2>2. Poised(p)'
    BY <2>1 DEF Poised, Unended, Rowless, Pending
  <2> QED
    BY <2>1, <2>2 DEF Moves, Lasts, Takes, Points, Stops, Binds, Going
<1>6. CASE Enqueue(p)
  <2>1. pc[p] = "enqueue" /\ UNCHANGED <<mem, Served>> /\ rows[p].status # "completed"
    BY <1>6 DEF Enqueue, Poised, Unended, Pending
  <2>2. CASE FailRow(p)
    BY <2>1, <2>2, FailRowMoves DEF Resting
  <2>3. CASE Goto(p, "queued") /\ UNCHANGED <<rows, running>>
    <3>1. pc'[p] = "queued"
      BY <1>0, <2>3
    <3>2. Poised(p)'
      BY <2>1, <2>3, <3>1 DEF Poised, Unended, Rowless, Pending
    <3> QED
      BY <2>1, <2>3, <3>1, <3>2, SameMoves DEF Going
  <2> QED
    BY <1>6, <2>2, <2>3 DEF Enqueue
<1>7. CASE Raise(p) \/ Crash(p)
  <2>1. /\ UNCHANGED <<rows, mem, running, Served>>
        /\ pc'[p] = "crashed" \/ (pc'[p] = "delayed" /\ p \notin Rollbacks)
    BY <1>0, <1>7, ProcFacts DEF Raise, Crash
  <2>2. Poised(p)'
    BY <2>1 DEF Poised, Unended, Rowless, Pending
  <2> QED
    BY <2>1, <2>2, SameMoves DEF Going
<1> QED
  BY <1>1, <1>2, <1>3, <1>4, <1>5, <1>6, <1>7

LEMMA PipelineMoves ==
    ASSUME TypeInv, NEW p \in Procs, Poised(p), Refers(p), Spared',
           RunStart(p) \/ Env(p) \/ Build(p) \/ Check(p) \/ Limit(p) \/ Start(p)
    PROVE  Moves(p)
<1> USE StillServed DEF site, vhost, queue, history, Goto
<1>0. rows[p] \in Row /\ mem[p] \in Memory /\ DOMAIN rows = Procs /\ DOMAIN mem = Procs /\ DOMAIN pc = Procs
  BY ProcFacts
<1>1. ASSUME Yield(p), UNCHANGED <<mem, running, Served>>
      PROVE  Moves(p)
  <2>1. rows'[p] = [rows[p] EXCEPT !.status = "completed", !.current = FALSE] /\ pc'[p] = "done"
    BY <1>0, <1>1 DEF Yield
  <2>2. rows'[p].status = "completed" /\ rows'[p].container = rows[p].container
    BY <1>0, <2>1 DEF Row
  <2>3. Poised(p)'
    BY <1>1, <2>1, <2>2 DEF Poised, Unended, Rowless, Pending
  <2> QED
    BY <1>1, <2>1, <2>2, <2>3 DEF Moves, Lasts, Takes, Points, Stops, Binds, Going
<1>2. CASE RunStart(p)
  <2>1. /\ pc[p] = "run" /\ UNCHANGED <<running, Served>>
        /\ mem'[p].container = mem[p].container /\ mem'[p].other = mem[p].other
        /\ mem'[p].target = mem[p].target
    BY <1>2, RunMemory DEF RunStart, TypeInv
  <2>2. CASE Yield(p) /\ UNCHANGED mem
    BY <1>1, <2>1, <2>2
  <2>3. CASE /\ Goto(p, "build") /\ UNCHANGED rows
             /\ rows[p].status \in {"completed", "failed"} => Record("revived")
    <3>1. pc'[p] = "build" /\ rows[p].status # "completed"
      BY <1>0, <2>3 DEF Record, Spared
    <3>2. Poised(p)'
      BY <2>1, <2>3, <3>1 DEF Poised, Unended, Rowless, Pending
    <3> QED
      BY <2>1, <2>3, <3>1, <3>2, SameMoves DEF Going
  <2> QED
    BY <1>2, <2>2, <2>3 DEF RunStart
<1>3. CASE Env(p)
  <2>1. pc[p] = "env" /\ p \in Rollbacks /\ UNCHANGED <<mem, Served>> /\ rows[p].status # "completed"
    BY <1>3 DEF Env, Poised, Unended, Pending, TypeInv, Shape
  <2>2. CASE FailRow(p)
    BY <2>1, <2>2, FailRowMoves DEF Resting
  <2>3. CASE Goto(p, IF rows[p].node THEN "start" ELSE "bind") /\ UNCHANGED <<rows, running>>
    <3>1. pc'[p] \in {"start", "bind"}
      BY <1>0, <2>3
    <3>2. Poised(p)'
      BY <2>1, <2>3, <3>1 DEF Poised, Unended, Rowless, Pending
    <3> QED
      BY <2>1, <2>3, <3>1, <3>2, SameMoves DEF Going
  <2> QED
    BY <1>3, <2>2, <2>3 DEF Env
<1>4. CASE Build(p)
  <2>1. pc[p] = "build" /\ UNCHANGED <<mem, Served>> /\ rows[p].status # "completed" /\ p \notin Rollbacks
    BY <1>4 DEF Build, Poised, Unended
  <2>2. CASE FailRow(p)
    BY <2>1, <2>2, FailRowMoves DEF Resting
  <2>3. CASE /\ rows' = [rows EXCEPT ![p].status = "queued", ![p].built = TRUE,
                                     ![p].node = (p \in Nextjs)]
             /\ Goto(p, "check")
             /\ UNCHANGED running
    <3>1. rows'[p] = [rows[p] EXCEPT !.status = "queued", !.built = TRUE, !.node = (p \in Nextjs)]
      BY <1>0, <2>3
    <3>2. /\ pc'[p] = "check" /\ rows'[p].status = "queued"
          /\ rows'[p].container = rows[p].container /\ (rows'[p].node <=> p \in Nextjs)
      BY <1>0, <2>3, <3>1 DEF Row
    <3>3. Poised(p)'
      BY <2>1, <2>3, <3>2 DEF Poised, Unended, Rowless, Pending
    <3> QED
      BY <2>1, <2>3, <3>2, <3>3 DEF Moves, Lasts, Takes, Points, Stops, Binds, Going
  <2> QED
    BY <1>4, <2>2, <2>3 DEF Build
<1>5. CASE Check(p)
  <2>1. pc[p] = "check" /\ UNCHANGED <<mem, running, Served>> /\ p \notin Rollbacks
    BY <1>5 DEF Check, Poised
  <2>2. CASE Yield(p)
    BY <1>1, <2>1, <2>2
  <2>3. CASE Goto(p, IF rows[p].node THEN "limit" ELSE "record") /\ UNCHANGED rows
    <3>1. pc'[p] = IF rows[p].node THEN "limit" ELSE "record"
      BY <1>0, <2>3
    <3>2. Poised(p)'
      BY <2>1, <2>3, <3>1 DEF Poised, Unended, Rowless, Pending
    <3> QED
      BY <2>1, <2>3, <3>1, <3>2, SameMoves DEF Going
  <2> QED
    BY <1>5, <2>2, <2>3 DEF Check
<1>6. CASE Limit(p)
  <2>1. pc[p] = "limit" /\ UNCHANGED Served /\ rows[p].status # "completed" /\ p \notin Rollbacks
    BY <1>6 DEF Limit, Poised, Unended, Pending
  <2>2. CASE FailRow(p) /\ UNCHANGED mem
    BY <2>1, <2>2, FailRowMoves DEF Resting
  <2>3. CASE /\ \/ UNCHANGED mem
                \/ \E r \in Newest(Completed \ {p}) : mem' = [mem EXCEPT ![p].other = r]
             /\ Goto(p, "start")
             /\ UNCHANGED <<rows, running>>
    <3>1. pc'[p] = "start" /\ mem'[p].container = mem[p].container
      BY <1>0, <2>3 DEF Memory
    <3>2. mem'[p].other \in {mem[p].other} \cup Completed
      <4>1. CASE \E r \in Newest(Completed \ {p}) : mem' = [mem EXCEPT ![p].other = r]
        <5>1. PICK r \in Completed : mem' = [mem EXCEPT ![p].other = r]
          BY <4>1 DEF Newest
        <5> QED
          BY <1>0, <5>1 DEF Memory
      <4> QED
        BY <2>3, <4>1
    <3>3. Poised(p)'
      BY <2>1, <2>3, <3>1 DEF Poised, Unended, Rowless, Pending
    <3> QED
      BY <2>1, <2>3, <3>1, <3>2, <3>3 DEF Moves, Lasts, Takes, Points, Stops, Binds, Going
  <2> QED
    BY <1>6, <2>2, <2>3 DEF Limit
<1>7. CASE Start(p)
  <2>1. pc[p] = "start" /\ UNCHANGED Served /\ rows[p].status # "completed"
    BY <1>7 DEF Start, Poised, Unended, Pending
  <2>2. CASE \E c \in IF Reusable(p) = {} THEN {p} ELSE Reusable(p) :
                /\ mem' = [mem EXCEPT ![p].container = c]
                /\ running' = running \cup {c}
                /\ Goto(p, "record") /\ UNCHANGED rows
    <3>1. PICK c \in Procs :
             /\ c = p \/ (p \in Rollbacks /\ c = rows[mem[p].target].container)
             /\ mem' = [mem EXCEPT ![p].container = c]
             /\ running' = running \cup {c}
             /\ Goto(p, "record") /\ UNCHANGED rows
      BY <2>2, ProcFacts DEF Reusable
    <3>2. mem'[p] = [mem[p] EXCEPT !.container = c]
      BY <1>0, <3>1
    <3>3. /\ pc'[p] = "record" /\ mem'[p].container = c
          /\ mem'[p].other = mem[p].other /\ mem'[p].target = mem[p].target
      BY <1>0, <3>1, <3>2 DEF Memory
    <3>4. Poised(p)'
      BY <2>1, <3>1, <3>3 DEF Poised, Unended, Rowless, Pending
    <3> QED
      BY <2>1, <3>1, <3>3, <3>4 DEF Moves, Lasts, Takes, Points, Stops, Binds, Going
  <2>3. ASSUME NEW S \in SUBSET Procs, running \ S \subseteq {mem[p].container, p},
               Fail(p, S), UNCHANGED mem
        PROVE  Moves(p)
    BY <2>1, <2>3, FailMoves DEF Resting
  <2>4. /\ {running \ {mem[p].container}, running \cup {p}, running \ {p}} \subseteq SUBSET Procs
        /\ running \ (running \ {mem[p].container}) \subseteq {mem[p].container, p}
        /\ running \ (running \cup {p}) \subseteq {mem[p].container, p}
        /\ running \ (running \ {p}) \subseteq {mem[p].container, p}
    BY ProcFacts
  <2> QED
    BY <1>7, <2>2, <2>3, <2>4 DEF Start, FailRow
<1> QED
  BY <1>2, <1>3, <1>4, <1>5, <1>6, <1>7

LEMMA ActivateMoves ==
    ASSUME TypeInv, NEW p \in Procs, Poised(p), Refers(p), Spared',
           RecordRow(p) \/ Bind(p) \/ Finish(p) \/ Stop(p) \/ Restore(p) \/ Rewrite(p)
    PROVE  Moves(p)
<1> USE StillServed DEF site, vhost, queue, history, Goto
<1>0. rows[p] \in Row /\ mem[p] \in Memory /\ DOMAIN rows = Procs /\ DOMAIN mem = Procs /\ DOMAIN pc = Procs
  BY ProcFacts
<1>1. CASE RecordRow(p)
  <2>1. pc[p] = "record" /\ UNCHANGED <<mem, Served>> /\ rows[p].status # "completed"
    BY <1>1 DEF RecordRow, Poised, Unended, Pending
  <2>2. CASE FailRow(p)
    BY <2>1, <2>2, FailRowMoves DEF Resting
  <2>3. CASE /\ \E h \in HostOf(p) :
                   rows' = [rows EXCEPT ![p].container = mem[p].container, ![p].host = h]
             /\ Goto(p, "bind") /\ UNCHANGED running
    <3>1. PICK h \in HostOf(p) :
             rows'[p] = [rows[p] EXCEPT !.container = mem[p].container, !.host = h]
      BY <1>0, <2>3
    <3>2. rows'[p].status = rows[p].status /\ rows'[p].container = mem[p].container
      BY <1>0, <3>1 DEF Row
    <3>3. pc'[p] = "bind"
      BY <1>0, <2>3
    <3>4. Poised(p)'
      BY <2>1, <2>3, <3>2, <3>3 DEF Poised, Unended, Rowless, Pending
    <3> QED
      BY <2>1, <2>3, <3>2, <3>3, <3>4 DEF Moves, Lasts, Takes, Points, Stops, Binds, Going
  <2> QED
    BY <1>1, <2>2, <2>3 DEF RecordRow
<1>2. CASE Bind(p)
  <2>1. pc[p] = "bind" /\ pc'[p] = "finish" /\ UNCHANGED <<rows, running>> /\ rows[p].status # "completed"
    BY <1>0, <1>2 DEF Bind, Poised, Unended, Pending
  <2>2. /\ mem'[p].container = mem[p].container /\ mem'[p].other = mem[p].other
        /\ mem'[p].target = mem[p].target
    <3>1. mem' = mem \/ \E b \in BOOLEAN : mem' = [mem EXCEPT ![p].active = b]
      BY <1>2 DEF Bind
    <3> QED
      BY <1>0, <3>1 DEF Memory
  <2>3. Switch(p) /\ rows[p].host \in Hosts
    BY <1>0, <1>2 DEF Bind, Record, Spared, Row
  <2>4. /\ mem[p].container = None => Served' \in {Served, None}
        /\ mem[p].container # None => Served' = mem[p].container
    <3>1. CASE mem[p].container = None
      BY <2>3, <3>1 DEF Switch, Served
    <3>2. CASE mem[p].container # None
      <4>1. home' = rows[p].host /\ proxy' = [proxy EXCEPT ![rows[p].host] = mem[p].container]
        BY <2>3, <3>2 DEF Switch
      <4>2. proxy'[rows[p].host] = mem[p].container
        BY <2>3, <4>1 DEF TypeInv, TypeOK
      <4> QED
        BY <2>3, <3>2, <4>1, <4>2, DeployAssumption DEF Served
    <3> QED
      BY <3>1, <3>2
  <2>5. Poised(p)'
    BY <2>1, <2>2 DEF Poised, Unended, Rowless, Pending
  <2> QED
    BY <2>1, <2>2, <2>4, <2>5 DEF Moves, Lasts, Takes, Points, Stops, Binds, Going
<1>3. CASE Finish(p)
  <2>1. /\ pc[p] = "finish" /\ UNCHANGED <<mem, running, Served>>
        /\ pc'[p] = IF mem[p].container # None /\ mem[p].other # None THEN "stop" ELSE "done"
        /\ rows[p].status # "completed"
    BY <1>0, <1>3 DEF Finish, Poised, Unended, Pending
  <2>2. PICK s \in Live : rows' = [rows EXCEPT ![p].status = s]
    BY <1>3 DEF Finish, Live
  <2>3. rows'[p].container = rows[p].container /\ rows'[p].status # "none"
    BY <1>0, <2>2 DEF Row, Live
  <2>4. Poised(p)'
    BY <2>1, <2>3 DEF Poised, Unended, Rowless, Pending
  <2> QED
    BY <2>1, <2>3, <2>4 DEF Moves, Lasts, Takes, Points, Stops, Binds, Going
<1>4. CASE Stop(p)
  <2>1. pc[p] = "stop" /\ UNCHANGED <<mem, Served>>
    BY <1>4 DEF Stop
  <2>2. rows[mem[p].other].status # "none"
    BY <2>1 DEF Poised, Refers, Completed, Existing, Going
  <2>3. /\ running' = running \ ({rows[mem[p].other].container} \ {mem[p].container})
        /\ pc'[p] = "done" /\ UNCHANGED rows
    BY <1>0, <1>4, <2>2 DEF Stop
  <2>4. Poised(p)'
    BY <2>1, <2>3 DEF Poised, Unended, Rowless, Pending
  <2> QED
    BY <2>1, <2>3, <2>4 DEF Moves, Lasts, Takes, Points, Stops, Binds, Going
<1>5. CASE Restore(p)
  <2>1. /\ pc[p] = "restore" /\ pc'[p] \in {"done", "rewrite"} /\ UNCHANGED <<rows, running, Served>>
    BY <1>0, <1>5 DEF Restore
  <2>2. \/ mem' = mem
        \/ \E r \in Completed : mem' = [mem EXCEPT ![p].other = r]
    BY <1>5 DEF Restore, Newest
  <2>3. mem'[p].container = mem[p].container /\ mem'[p].other \in {mem[p].other} \cup Completed
    <3>1. CASE \E r \in Completed : mem' = [mem EXCEPT ![p].other = r]
      <4>1. PICK r \in Completed : mem' = [mem EXCEPT ![p].other = r]
        BY <3>1
      <4> QED
        BY <1>0, <4>1 DEF Memory
    <3> QED
      BY <2>2, <3>1
  <2>4. Poised(p)'
    BY <2>1, <2>3 DEF Poised, Unended, Rowless, Pending
  <2> QED
    BY <2>1, <2>3, <2>4 DEF Moves, Lasts, Takes, Points, Stops, Binds, Going
<1>6. CASE Rewrite(p)
  <2>1. pc[p] = "rewrite" /\ pc'[p] = "done" /\ UNCHANGED <<mem, running, Served>>
    BY <1>0, <1>6 DEF Rewrite
  <2>2. rows'[p].status = rows[p].status /\ rows'[p].container = rows[p].container
    <3>1. rows'[p] = rows[p] \/ rows'[p] = [rows[p] EXCEPT !.current = TRUE]
      BY <1>0, <1>6 DEF Rewrite
    <3> QED
      BY <1>0, <3>1 DEF Row
  <2>3. Poised(p)'
    BY <2>1, <2>2 DEF Poised, Unended, Rowless, Pending
  <2> QED
    BY <2>1, <2>2, <2>3, SameMoves DEF Going
<1> QED
  BY <1>1, <1>2, <1>3, <1>4, <1>5, <1>6

(* What the processes are to each other: a rollback is at work alone, and   *)
(* what it reuses is the container of a completed deployment; the container *)
(* of the row a deployment replaced is not the one that is served.          *)
Alone == \A p, q \in AtWork : p \in Rollbacks => q = p

Reused ==
    \A r \in Rollbacks : {rows[r].container, mem[r].container} \subseteq {None, r} \cup Completed

Switched(p) ==
    pc[p] \in {"finish", "stop"} /\ mem[p].container # None =>
       IF p \in Rollbacks THEN Served = mem[p].container
       ELSE mem[p].other # None => Served \notin {rows[mem[p].other].container} \ {None}

Up == Served \in running \cup {None}

Serves == /\ Alone /\ Reused /\ Up
          /\ \A p \in Procs : Poised(p) /\ Refers(p) /\ Switched(p)

ServeInv == Spared => Serves

(* A completed row names the container of a completed deployment, or of a   *)
(* rollback.                                                                *)
LEMMA Owner ==
    ASSUME TypeInv, Serves, NEW o \in Completed, NEW q \in Procs \ Rollbacks,
           rows[o].container = q
    PROVE  q \in Completed
<1>1. o \in Procs /\ q # None /\ o # None
  BY ProcFacts DEF Completed, Existing
<1>2. CASE o \in Rollbacks
  BY <1>1, <1>2 DEF Serves, Reused
<1>3. CASE o \notin Rollbacks
  BY <1>1, <1>3 DEF Serves, Poised
<1> QED
  BY <1>2, <1>3

LEMMA AtWorkIs == \A p \in Procs : p \in AtWork <=> pc[p] \notin Resting
  BY DEF AtWork

(* Who begins to work finds nobody it must not overlap with.                *)
LEMMA BeginsAlone ==
    ASSUME TypeInv, Alone, NEW p \in Procs, Spared', Begin(p),
           \A q \in Procs : q # p => pc'[q] = pc[q]
    PROVE  Alone'
<1>1. /\ p \in Rollbacks => AtWork = {}
      /\ AtWork \cap Rollbacks = {}
  BY DEF Begin, Record, Spared
<1>2. AtWork' \subseteq AtWork \cup {p}
  BY DEF AtWork
<1> QED
  BY <1>1, <1>2 DEF Alone

LEMMA AloneStep ==
    ASSUME TypeInv, Alone, NEW p \in Procs, Spared', Step(p) \/ Raise(p) \/ Crash(p)
    PROVE  Alone'
<1>1. \A q \in Procs : q # p => pc'[q] = pc[q]
  BY OthersWait
<1>2. CASE UploadBegin(p) \/ PushBegin(p) \/ RollbackBegin(p)
  BY <1>1, <1>2, BeginsAlone DEF UploadBegin, PushBegin, RollbackBegin
<1>3. CASE ~(UploadBegin(p) \/ PushBegin(p) \/ RollbackBegin(p))
  <2>1. pc[p] \notin Resting \/ pc'[p] \in Resting
    BY <1>3 DEF Step, Raise, Crash, Clear, Version, Insert, Claim, Discard, Enqueue, RunStart,
       Build, Check, Limit, Env, Start, RecordRow, Bind, Finish, Stop, Restore, Rewrite,
       Promote, Goto, Resting, TypeInv, TypeOK
  <2>2. AtWork' \subseteq AtWork
    BY <1>1, <2>1 DEF AtWork
  <2> QED
    BY <2>2 DEF Alone
<1> QED
  BY <1>2, <1>3

(* After a step of p.                                                       *)
LEMMA ServeStep ==
    ASSUME TypeInv, Serves, NEW p \in Procs, Spared', Step(p) \/ Raise(p) \/ Crash(p)
    PROVE  Serves'
<1>1. Moves(p)
  BY CreateMoves, PipelineMoves, ActivateMoves DEF Step, Serves
<1>2. \A q \in Procs : q # p =>
         /\ pc'[q] = pc[q] /\ mem'[q] = mem[q]
         /\ rows'[q].status = rows[q].status /\ rows'[q].node = rows[q].node
         /\ rows'[q].container = rows[q].container
  BY OthersWait, OthersKeep
<1>3. \A r \in Completed : r \in Completed' /\ rows'[r].container = rows[r].container
  BY <1>1, <1>2 DEF Moves, Lasts, Completed, Existing
<1>4. Alone'
  BY AloneStep DEF Serves
<1>5. \A q \in AtWork : p \in AtWork /\ q # p => p \notin Rollbacks /\ q \notin Rollbacks
  BY DEF Serves, Alone
<1>6. Reused'
  <2>1. ASSUME NEW r \in Rollbacks, r # p
        PROVE  {rows'[r].container, mem'[r].container} \subseteq {None, r} \cup Completed'
    BY <1>2, <1>3, <2>1 DEF Serves, Reused, Procs
  <2>2. ASSUME p \in Rollbacks
        PROVE  {rows'[p].container, mem'[p].container} \subseteq {None, p} \cup Completed'
    <3>1. rows'[p].container \in {None, p} \cup Completed'
      BY <1>1, <1>3, <2>2 DEF Moves, Takes, Serves, Reused
    <3>2. CASE mem'[p].container = mem[p].container
      BY <1>3, <2>2, <3>1, <3>2 DEF Serves, Reused
    <3>3. CASE pc[p] = "start" /\ mem'[p].container \in {p, rows[mem[p].target].container}
      <4> DEFINE t == mem[p].target
      <4>1. t \in Completed
        BY <2>2, <3>3 DEF Serves, Refers, Going
      <4>2. rows[t].container \in {None} \cup Completed
        BY <4>1 DEF Serves, Reused, Poised, Completed, Existing
      <4> QED
        BY <1>3, <3>1, <3>3, <4>2
    <3> QED
      BY <1>1, <3>2, <3>3 DEF Moves, Takes
  <2> QED
    BY <2>1, <2>2 DEF Reused
<1>7. ASSUME NEW q \in Procs PROVE Refers(q)'
  <2>1. \A r \in Existing : r \in Existing' \/ (r = p /\ pc[p] = "discard")
    BY <1>1, <1>2 DEF Moves, Lasts, Existing
  <2>2. CASE q = p
    <3>1. p \notin Rollbacks => mem'[p].other \in {None} \cup Completed'
      BY <1>1, <1>3 DEF Moves, Points, Serves, Refers
    <3>2. ASSUME p \in Rollbacks, pc'[p] \in Going
          PROVE  mem'[p].target \in Completed' /\ mem'[p].other \in Existing'
      <4>1. mem'[p].target \in Completed /\ mem'[p].other \in Existing
        BY <1>1, <3>2 DEF Moves, Points, Serves, Refers
      <4>2. pc[p] # "discard"
        BY <3>2 DEF Serves, Poised
      <4> QED
        BY <1>3, <2>1, <4>1, <4>2
    <3> QED
      BY <2>2, <3>1, <3>2 DEF Refers
  <2>3. CASE q # p
    <3>1. q \notin Rollbacks => mem'[q].other \in {None} \cup Completed'
      BY <1>2, <1>3, <2>3 DEF Serves, Refers
    <3>2. ASSUME q \in Rollbacks, pc'[q] \in Going
          PROVE  mem'[q].target \in Completed' /\ mem'[q].other \in Existing'
      <4>1. mem'[q].target \in Completed /\ mem'[q].other \in Existing /\ q \in AtWork
        BY <1>2, <2>3, <3>2, AtWorkIs DEF Serves, Refers, Going, Resting
      <4>2. pc[p] # "discard"
        BY <1>5, <2>3, <3>2, <4>1, AtWorkIs DEF Resting
      <4> QED
        BY <1>3, <2>1, <4>1, <4>2
    <3> QED
      BY <3>1, <3>2 DEF Refers
  <2> QED
    BY <2>2, <2>3
<1>8. ASSUME NEW q \in Procs PROVE Poised(q)'
  <2>1. CASE q = p
    BY <1>1, <2>1 DEF Moves
  <2>2. CASE q # p
    <3>1. ASSUME pc[q] \in {"record", "bind"}, mem[q].container \in running
          PROVE  mem[q].container \in running'
      <4>1. q \in AtWork
        BY <3>1, AtWorkIs DEF Resting
      <4>2. q \notin Completed
        BY <3>1 DEF Serves, Poised, Unended, Pending, Completed
      <4>3. CASE pc[p] \notin Resting /\ running \ running' \subseteq {mem[p].container, p}
        <5>1. p \in AtWork /\ p \notin Rollbacks /\ q \notin Rollbacks
          BY <1>5, <2>2, <4>1, <4>3, AtWorkIs
        <5>2. mem[q].container = q /\ mem[p].container \in {None, p}
          BY <3>1, <5>1, ProcFacts DEF Serves, Poised
        <5> QED
          BY <2>2, <3>1, <4>3, <5>2, ProcFacts
      <4>4. CASE /\ pc[p] = "stop"
                 /\ running' = running \ ({rows[mem[p].other].container} \ {mem[p].container})
        <5>1. p \in AtWork /\ p \notin Rollbacks /\ q \notin Rollbacks
          BY <1>5, <2>2, <4>1, <4>4, AtWorkIs DEF Resting
        <5>2. mem[q].container = q /\ mem[p].other \in Completed
          BY <3>1, <4>4, <5>1, ProcFacts DEF Serves, Poised, Refers
        <5>3. rows[mem[p].other].container # q
          BY <4>2, <5>1, <5>2, Owner
        <5> QED
          BY <3>1, <4>4, <5>2, <5>3
      <4> QED
        BY <1>1, <3>1, <4>3, <4>4 DEF Moves, Stops
    <3> QED
      BY <1>2, <2>2, <3>1 DEF Serves, Poised
  <2> QED
    BY <2>1, <2>2
<1>9. ASSUME NEW q \in Procs PROVE Switched(q)'
  <2>1. CASE q = p
    <3> SUFFICES ASSUME pc'[p] \in {"finish", "stop"}, mem'[p].container # None
                 PROVE  IF p \in Rollbacks THEN Served' = mem'[p].container
                        ELSE mem'[p].other # None =>
                                Served' \notin {rows'[mem'[p].other].container} \ {None}
      BY <2>1 DEF Switched
    <3>1. /\ mem'[p].other = mem[p].other /\ mem'[p].container = mem[p].container
          /\ \/ pc[p] = "finish" /\ Served' = Served
             \/ pc[p] = "bind" /\ Served' = mem[p].container
      BY <1>1 DEF Moves, Binds
    <3>2. CASE p \in Rollbacks
      BY <3>1, <3>2 DEF Serves, Switched
    <3>3. CASE p \notin Rollbacks /\ mem[p].other # None
      <4>1. /\ mem[p].other \in Completed
            /\ rows'[mem[p].other].container = rows[mem[p].other].container
        BY <1>3, <3>3 DEF Serves, Refers
      <4>2. CASE pc[p] = "finish" /\ Served' = Served
        BY <3>1, <3>3, <4>1, <4>2 DEF Serves, Switched
      <4>3. CASE pc[p] = "bind" /\ Served' = mem[p].container
        <5>1. mem[p].container = p /\ p \notin Completed
          BY <3>1, <3>3, <4>3 DEF Serves, Poised, Unended, Pending, Completed
        <5>2. rows[mem[p].other].container # p
          BY <3>3, <4>1, <5>1, Owner
        <5> QED
          BY <3>1, <3>3, <4>1, <4>3, <5>1, <5>2
      <4> QED
        BY <3>1, <4>2, <4>3
    <3> QED
      BY <3>1, <3>2, <3>3
  <2>2. CASE q # p
    <3> SUFFICES ASSUME pc[q] \in {"finish", "stop"}, mem[q].container # None
                 PROVE  IF q \in Rollbacks THEN Served' = mem[q].container
                        ELSE mem[q].other # None =>
                                Served' \notin {rows'[mem[q].other].container} \ {None}
      BY <1>2, <2>2 DEF Switched
    <3>1. q \in AtWork
      BY AtWorkIs DEF Resting
    <3>2. ASSUME Served' # Served
          PROVE  /\ p \notin Rollbacks /\ q \notin Rollbacks
                 /\ Served' \in {None, p} /\ p \notin Completed
      <4>1. pc[p] = "bind" /\ Served' \in {None, mem[p].container}
        BY <1>1, <3>2 DEF Moves, Binds
      <4>2. p \notin Rollbacks /\ q \notin Rollbacks
        BY <1>5, <2>2, <3>1, <4>1, AtWorkIs DEF Resting
      <4> QED
        BY <4>1, <4>2 DEF Serves, Poised, Unended, Pending, Completed
    <3>3. CASE q \in Rollbacks
      BY <3>2, <3>3 DEF Serves, Switched
    <3>4. CASE q \notin Rollbacks /\ mem[q].other # None
      <4>1. /\ mem[q].other \in Completed
            /\ rows'[mem[q].other].container = rows[mem[q].other].container
        BY <1>3, <3>4 DEF Serves, Refers
      <4>2. CASE Served' = Served
        BY <3>4, <4>1, <4>2 DEF Serves, Switched
      <4>3. CASE Served' # Served
        BY <3>2, <4>1, <4>3, Owner
      <4> QED
        BY <4>2, <4>3
    <3> QED
      BY <3>3, <3>4
  <2> QED
    BY <2>1, <2>2
<1>10. Up'
  <2>1. CASE Served' # Served
    BY <1>1, <2>1 DEF Moves, Binds, Serves, Poised, Up
  <2>2. CASE Served' = Served /\ Served \in running
    <3>1. CASE /\ pc[p] = "stop"
               /\ running' = running \ ({rows[mem[p].other].container} \ {mem[p].container})
      BY <2>2, <3>1 DEF Serves, Switched, Poised, Up
    <3> QED
      BY <1>1, <2>2, <3>1 DEF Moves, Stops, Up
  <2> QED
    BY <2>1, <2>2 DEF Serves, Up
<1> QED
  BY <1>4, <1>6, <1>7, <1>8, <1>9, <1>10 DEF Serves

LEMMA ServeTake ==
    ASSUME TypeInv, Serves, WorkerTake, Spared'
    PROVE  Serves'
<1>1. PICK h \in Pushes :
         /\ h = Head(jobs) /\ pc'[h] = "run"
         /\ \A q \in Procs : q # h => pc'[q] = pc[q] /\ mem'[q] = mem[q]
  BY Taken
<1>2. h \in Procs /\ h \notin Rollbacks
  BY DeployAssumption DEF Procs
<1>3. /\ UNCHANGED <<rows, Served, running>> /\ Begin(h)
      /\ mem'[h] = [Blank EXCEPT !.container = rows[h].container]
  BY <1>1, <1>2, StillServed DEF WorkerTake, site, vhost, TypeInv, TypeOK
<1>4. mem'[h].container = rows[h].container /\ mem'[h].other = None
  BY <1>3 DEF Blank
<1>5. Alone'
  BY <1>1, <1>2, <1>3, BeginsAlone DEF Serves
<1>6. UNCHANGED <<Completed, Existing>>
  BY <1>3 DEF Completed, Existing
<1>7. Poised(h)' /\ Refers(h)' /\ Switched(h)'
  BY <1>1, <1>2, <1>3, <1>4 DEF Serves, Poised, Refers, Switched, Unended, Rowless, Pending
<1>8. \A q \in Procs : q # h => Poised(q)' /\ Refers(q)' /\ Switched(q)'
  BY <1>1, <1>3, <1>6 DEF Serves, Poised, Refers, Switched
<1>9. Reused' /\ Up'
  BY <1>1, <1>2, <1>3, <1>6 DEF Serves, Reused, Up, Procs
<1> QED
  BY <1>5, <1>7, <1>8, <1>9 DEF Serves

LEMMA ServeNext == TypeInv /\ ServeInv /\ [Next]_vars => ServeInv'
<1> SUFFICES ASSUME TypeInv, ServeInv, [Next]_vars, Spared' PROVE Serves'
  BY DEF ServeInv
<1>1. Serves
  BY HappenedStays DEF ServeInv, Spared
<1>2. CASE UNCHANGED vars \/ AllDone \/ KeyExpires \/ KeyPurged
  <2>1. UNCHANGED <<rows, pc, mem, running, Served>>
    BY <1>2, StillServed DEF AllDone, KeyExpires, KeyPurged, vars, site, vhost
  <2>2. UNCHANGED <<AtWork, Completed, Existing>>
    BY <2>1 DEF AtWork, Completed, Existing
  <2> QED
    BY <1>1, <2>1, <2>2 DEF Serves, Alone, Reused, Up, Poised, Refers, Switched
<1> QED
  BY <1>1, <1>2, ServeStep, ServeTake DEF Next

LEMMA ServeInit == Init => ServeInv
<1> SUFFICES ASSUME Init PROVE Serves
  BY DEF ServeInv
<1>1. AtWork = {}
  BY DEF Init, AtWork, Resting
<1>2. \A p \in Procs : Poised(p) /\ Refers(p) /\ Switched(p)
  BY DEF Init, NoRow, Blank, Poised, Refers, Switched, Unended, Rowless, Pending, Going
<1>3. Reused
  BY DEF Init, NoRow, Blank, Reused, Procs
<1> QED
  BY <1>1, <1>2, <1>3 DEF Init, Serves, Alone, Up, Served

(* The container the site's hostname is served by runs, whatever deployments*)
(* overlap, fail, time out, are run again or are abandoned: a deployment    *)
(* stops only what a completed one left, after it has switched its hostname,*)
(* and none that has yet to complete serves it. It says nothing of a        *)
(* hostname that deployments have left for another.                         *)
THEOREM ServedStaysUp == Spec => []ServedIsUp
<1>1. ServeInv => ServedIsUp
  BY DEF ServeInv, Spared, Serves, Up, ServedIsUp
<1> QED
  BY <1>1, InitInv, TypeStep, ServeInit, ServeNext, PTL DEF Spec

-----------------------------------------------------------------------------
(* Which row is current                                                     *)

(* None of the mishaps CurrentIsBound excuses, and no process has crashed.  *)
Calm == /\ happened \cap {"misrestored", "unbound", "overtaken", "discarded", "revived"} = {}
        /\ \A p \in Procs : pc[p] # "crashed"

(* The steps at which a deployment has its row and is still to switch the   *)
(* host, and those at which one that failed owes a restore.                 *)
Ahead == {"claim", "discard", "enqueue", "queued", "delayed", "run", "env", "build", "check",
          "limit", "start", "record", "bind"}
Owing == {"restore", "delayed", "queued", "run"}

(* p's row is no newer than the one served.                                 *)
Atop(p) == bound # None /\ rows[p].version <= rows[bound].version

(* What has become of a row, by the step of its process.                    *)
Fate(p) ==
    /\ pc[p] \in Rowless => rows[p].status = "none"
    /\ pc[p] \notin Rowless \cup {"done"} => rows[p].status # "none"
    /\ pc[p] \in Pending \cup {"build"} => rows[p].status \notin {"completed", "failed"}
    /\ pc[p] \in {"restore", "rewrite"} => rows[p].status = "failed"
    /\ rows[p].status \in {"none", "failed"} => ~rows[p].current
    /\ bound = p => /\ rows[p].status # "none"
                    /\ rows[p].status = "failed" => pc[p] \in Owing
    /\ pc[p] \in {"finish", "stop"} \/ (rows[p].current /\ pc[p] \notin Ahead) => Atop(p)

(* The version about to be inserted follows those that are there; a failed  *)
(* row hands over to the one that is served, which it is newer than.        *)
Due(p) ==
    /\ pc[p] = "insert" => mem[p].version >= 1 /\ Filled(mem[p].version)
    /\ pc[p] = "rewrite" =>
          /\ mem[p].other \in Completed /\ pc[mem[p].other] = "done" /\ Atop(mem[p].other)
          /\ rows[mem[p].other].version < rows[p].version

(* The rows that are neither completed nor failed: whoever clears one of    *)
(* them clears the older ones too.                                          *)
Open(r) == rows[r].status \in {"queued", "provisioning_ssl"}

Older(c, d) == Open(c) /\ Open(d) /\ rows[c].current /\ rows[c].version < rows[d].version

Whole == \A c, d \in Procs : Older(c, d) => rows[d].current

Clears(p) ==
    pc[p] \in {"version", "insert"} =>
       /\ mem[p].cleared \subseteq Existing
       /\ \A d \in mem[p].cleared, c \in Procs : Older(c, d) => c \in mem[p].cleared

Settled == /\ Numbered /\ Whole
           /\ \A p \in Procs : Fate(p) /\ Due(p) /\ Clears(p)

(* Whoever is served or is about to be has given way to nobody, or to one as*)
(* new who is current, or about to be again, or who failed and will restore.*)
Heirs == {p \in Procs : pc[p] \in Ahead} \cup ({bound} \ {None})

Failing(r) == rows[r].status = "failed" /\ pc[r] \in Owing
Stands(r)   == rows[r].current \/ \E x \in Procs : pc[x] = "rewrite" /\ mem[x].other = r
Sure(r)    == Failing(r) \/ (r \in Heirs /\ Stands(r))
InCharge   == \A t \in Heirs : \E r \in Procs : Sure(r) /\ rows[t].version <= rows[r].version

(* Or nothing is current, and nobody is at work on a row.                   *)
Bare == Current = {} /\ \A q \in Procs : pc[q] \in Rowless \cup {"done"}

CurrentInv == QueueHeld /\ (Calm => Settled /\ (InCharge \/ Bare))

-----------------------------------------------------------------------------
(* What a step of p that creates no row does to the rows and to the host: a *)
(* row becomes current again only after it completed, and the host rises.   *)
Even(p) ==
    /\ Kept /\ pc[p] # "done"
    /\ \A q \in Procs :
          /\ Open(q)' => Open(q) /\ (rows'[q].current <=> rows[q].current)
          /\ rows'[q].current =>
                \/ rows[q].current
                \/ q # p /\ q \in Completed /\ pc[q] = "done" /\ Atop(q)
          /\ q # p => pc'[q] = pc[q] /\ mem'[q] = mem[q] /\ rows'[q].status = rows[q].status
    /\ \/ bound' = bound
       \/ bound' = p /\ (bound = None \/ rows[bound].version <= rows[p].version)

LEMMA Rises ==
    ASSUME TypeInv, NEW p \in Procs, Even(p), NEW q \in Procs, Atop(q)
    PROVE  Atop(q)'
<1>1. \A r \in Procs : rows'[r].version = rows[r].version /\ rows[r].version \in Nat
  BY DEF Even, Kept, TypeInv, TypeOK, Row
<1>2. bound \in Procs /\ bound' \in Procs /\ None \notin Procs
  BY ProcFacts DEF Even, Atop, TypeInv, TypeOK
<1> QED
  BY <1>1, <1>2 DEF Even, Atop

LEMMA EvenKeeps ==
    ASSUME TypeInv, Settled, NEW p \in Procs, Even(p), Fate(p)', Due(p)', Clears(p)'
    PROVE  Settled'
<1>1. Existing' = Existing /\ Numbered' /\ \A n : Filled(n) => Filled(n)'
  BY KeptNumbers DEF Settled, Even
<1>2. \A c, d \in Procs : Older(c, d)' => Older(c, d)
  BY DEF Even, Kept, Older
<1>3. Whole'
  <2> SUFFICES ASSUME NEW c \in Procs, NEW d \in Procs, Older(c, d)' PROVE rows'[d].current
    BY DEF Whole
  <2>1. rows[d].current /\ Open(d)'
    BY <1>2 DEF Settled, Whole, Older
  <2> QED
    BY <2>1 DEF Even
<1>4. ASSUME NEW q \in Procs, q # p PROVE Fate(q)' /\ Due(q)' /\ Clears(q)'
  <2>0. pc'[q] = pc[q] /\ mem'[q] = mem[q] /\ rows'[q].status = rows[q].status
    BY <1>4 DEF Even
  <2>1. Atop(q) => Atop(q)'
    BY Rises
  <2>2. rows'[q].current => rows[q].current \/ (q \in Completed /\ pc[q] = "done" /\ Atop(q))
    BY DEF Even
  <2>3. bound' = q => bound = q
    BY <1>4 DEF Even
  <2>4. Fate(q)
    BY DEF Settled
  <2>5. Fate(q)'
    BY <2>0, <2>1, <2>2, <2>3, <2>4 DEF Fate, Completed
  <2>6. Due(q)'
    <3>1. pc[q] = "insert" => Filled(mem[q].version)'
      <4>1. pc[q] = "insert" => Filled(mem[q].version)
        BY DEF Settled, Due
      <4> QED
        BY <1>1, <2>0, <4>1 DEF Filled
    <3>2. ASSUME pc[q] = "rewrite"
          PROVE  /\ mem[q].other \in Completed' /\ pc'[mem[q].other] = "done" /\ Atop(mem[q].other)'
                 /\ rows'[mem[q].other].version < rows'[q].version
      <4>0. PICK o \in Procs : o = mem[q].other
        BY <3>2 DEF Settled, Due, Completed, Existing
      <4>1. /\ o \in Completed /\ pc[o] = "done" /\ Atop(o)
            /\ rows[o].version < rows[q].version
        BY <3>2, <4>0 DEF Settled, Due
      <4>2. o # p
        BY <4>1 DEF Even
      <4>3. pc'[o] = "done" /\ rows'[o].status = rows[o].status
        BY <4>1, <4>2 DEF Even
      <4>4. Atop(o)'
        BY <4>1, Rises
      <4>5. mem'[q].other = o
        BY <2>0, <4>0
      <4>6. rows'[o].version < rows'[q].version /\ o \in Completed'
        BY <1>1, <4>1, <4>2, <4>3 DEF Even, Kept, Completed
      <4> QED
        BY <2>0, <4>0, <4>3, <4>4, <4>5, <4>6 DEF Atop
    <3> QED
      BY <2>0, <3>1, <3>2 DEF Settled, Due
  <2>7. Clears(q)'
    <3> SUFFICES ASSUME pc[q] \in {"version", "insert"}
                 PROVE  /\ mem[q].cleared \subseteq Existing
                        /\ \A d \in mem[q].cleared, c \in Procs : Older(c, d)' => c \in mem[q].cleared
      BY <1>1, <2>0 DEF Clears
    <3> QED
      BY <1>2 DEF Settled, Clears, Existing
  <2> QED
    BY <2>5, <2>6, <2>7
<1> QED
  BY <1>1, <1>3, <1>4 DEF Settled

(* Who is in charge stays so when each heir was one, or is no newer than one*)
(* who was, and each one that could be relied on has a successor.           *)
LEMMA ChargePasses ==
    ASSUME TypeInv, Kept, InCharge, bound' \in OrNone,
           \A t \in Heirs' : \/ Sure(t)'
                             \/ \E u \in Heirs : rows[t].version <= rows[u].version,
           \A r \in Procs : Sure(r) => \E s \in Procs : Sure(s)' /\ rows[r].version <= rows[s].version
    PROVE  InCharge'
<1>1. /\ \A r \in Procs : rows'[r].version = rows[r].version /\ rows[r].version \in Nat
      /\ Heirs \subseteq Procs /\ Heirs' \subseteq Procs
  BY DEF Kept, Heirs, TypeInv, TypeOK, Row, OrNone
<1> SUFFICES ASSUME NEW t \in Heirs'
             PROVE  \E s \in Procs : Sure(s)' /\ rows'[t].version <= rows'[s].version
  BY DEF InCharge
<1>2. CASE Sure(t)'
  BY <1>1, <1>2
<1>3. CASE \E u \in Heirs : rows[t].version <= rows[u].version
  <2>1. PICK u \in Heirs : rows[t].version <= rows[u].version
    BY <1>3
  <2>2. PICK r \in Procs : Sure(r) /\ rows[u].version <= rows[r].version
    BY DEF InCharge
  <2>3. PICK s \in Procs : Sure(s)' /\ rows[r].version <= rows[s].version
    BY <2>2
  <2>4. t \in Procs /\ u \in Procs
    BY <1>1
  <2>5. rows[t].version <= rows[s].version
    BY <1>1, <2>1, <2>2, <2>3, <2>4
  <2> QED
    BY <1>1, <2>3, <2>4, <2>5
<1> QED
  BY <1>2, <1>3
(* A step of p that leaves the host where it is.                            *)
LEMMA StepsOn ==
    ASSUME TypeInv, Settled, InCharge, NEW p \in Procs, Even(p), Fate(p)', Due(p)', Clears(p)',
           bound' = bound,
           \A q \in Procs : q # p /\ rows[q].current => rows'[q].current,
           p \in Heirs' => Sure(p)' \/ p \in Heirs \/ Atop(p),
           \A r \in Procs : Sure(r) /\ (r = p \/ (pc[p] = "rewrite" /\ mem[p].other = r)) =>
              \E s \in Procs : Sure(s)' /\ rows[r].version <= rows[s].version
    PROVE  Settled' /\ InCharge'
<1>1. Settled'
  BY EvenKeeps
<1>2. bound' \in OrNone /\ \A r \in Procs : rows[r].version \in Nat /\ rows[r].version <= rows[r].version
  BY DEF TypeInv, TypeOK, OrNone, Row
<1>3. ASSUME NEW t \in Heirs'
      PROVE  Sure(t)' \/ \E u \in Heirs : rows[t].version <= rows[u].version
  <2>1. CASE t = p
    <3>1. Atop(p) => bound \in Heirs
      BY DEF Atop, Heirs
    <3> QED
      BY <1>2, <1>3, <2>1, <3>1 DEF Atop
  <2>2. CASE t # p
    <3>1. t \in Heirs /\ t \in Procs
      BY <1>2, <1>3, <2>2 DEF Heirs, Even, OrNone
    <3> QED
      BY <1>2, <3>1
  <2> QED
    BY <2>1, <2>2
<1>4. ASSUME NEW r \in Procs, Sure(r)
      PROVE  \E s \in Procs : Sure(s)' /\ rows[r].version <= rows[s].version
  <2>1. CASE r = p \/ (pc[p] = "rewrite" /\ mem[p].other = r)
    BY <1>4, <2>1
  <2>2. CASE r # p /\ ~ (pc[p] = "rewrite" /\ mem[p].other = r)
    <3>1. Failing(r) => Failing(r)'
      BY <2>2 DEF Even, Failing
    <3>2. r \in Heirs => r \in Heirs'
      BY <2>2 DEF Even, Heirs
    <3>3. Stands(r) => Stands(r)'
      BY <2>2 DEF Even, Stands
    <3> QED
      BY <1>2, <1>4, <3>1, <3>2, <3>3 DEF Sure
  <2> QED
    BY <2>1, <2>2
<1>5. InCharge'
  BY <1>2, <1>3, <1>4, ChargePasses DEF Even
<1> QED
  BY <1>1, <1>5

(* Before it has a row, a process disturbs nobody.                          *)
LEMMA RowlessOn ==
    ASSUME TypeInv, Settled, InCharge \/ Bare, NEW p \in Procs, UNCHANGED <<rows, bound>>,
           pc[p] \in Rowless, pc'[p] \in Rowless \cup {"done"}, Due(p)', Clears(p)',
           \A q \in Procs : q # p => pc'[q] = pc[q] /\ mem'[q] = mem[q]
    PROVE  Settled' /\ (InCharge' \/ Bare')
<1>1. Even(p)
  BY DEF Even, Kept, Open, Rowless
<1>2. Fate(p)'
  BY DEF Settled, Fate, Rowless, Pending
<1>3. CASE InCharge
  <2>1. p \notin Heirs
    BY DEF Settled, Fate, Heirs, Rowless, Ahead
  <2>2. p \notin Heirs' /\ ~Sure(p)
    BY <2>1 DEF Heirs, Rowless, Ahead, Sure, Failing, Owing
  <2>3. pc[p] # "rewrite"
    BY DEF Rowless
  <2> QED
    BY <1>1, <1>2, <1>3, <2>2, <2>3, StepsOn
<1>4. CASE Bare
  <2>1. Bare'
    BY <1>4 DEF Bare, Current, Existing
  <2> QED
    BY <1>1, <1>2, <2>1, EvenKeeps
<1> QED
  BY <1>3, <1>4

(* On its way to the host, a deployment stays an heir.                      *)
LEMMA AheadOn ==
    ASSUME TypeInv, Settled, InCharge \/ Bare, NEW p \in Procs, bound' = bound,
           pc[p] \in Ahead, pc'[p] \in Ahead,
           rows'[p].version = rows[p].version, rows'[p].current <=> rows[p].current,
           \/ rows'[p].status = rows[p].status
           \/ rows'[p].status = "queued" /\ Open(p),
           pc'[p] \in Pending \cup {"build"} => rows'[p].status \notin {"completed", "failed"},
           rows[p].status = "failed" => pc'[p] \in Owing \/ pc[p] \notin Owing,
           \A q \in Procs : q # p => pc'[q] = pc[q] /\ mem'[q] = mem[q] /\ rows'[q] = rows[q]
    PROVE  Settled' /\ InCharge'
<1>1. InCharge
  BY DEF Bare, Ahead, Rowless
<1>2. Fate(p) /\ rows[p].status # "none"
  BY DEF Settled, Fate, Ahead, Rowless
<1>3. Even(p)
  BY <1>2 DEF Even, Kept, Open, Ahead
<1>4. Fate(p)'
  BY <1>2 DEF Fate, Open, Ahead, Owing, Rowless, Pending
<1>5. Due(p)' /\ Clears(p)'
  BY DEF Due, Clears, Ahead
<1>6. p \in Heirs /\ p \in Heirs'
  BY DEF Heirs
<1>7. Sure(p) => Sure(p)'
  BY <1>2, <1>6 DEF Sure, Failing, Stands, Ahead, Open
<1>8. rows[p].version <= rows[p].version /\ pc[p] # "rewrite"
  BY DEF TypeInv, TypeOK, Row, Ahead
<1> QED
  BY <1>1, <1>3, <1>4, <1>5, <1>6, <1>7, <1>8, StepsOn
(* A row that fails is still answered for, by its restore.                  *)
LEMMA FailOn ==
    ASSUME TypeInv, Settled, InCharge \/ Bare, NEW p \in Procs, NEW S, Fail(p, S),
           bound' = bound, mem' = mem, pc[p] \in Ahead \cup {"stop"}
    PROVE  Settled' /\ InCharge'
<1>1. /\ rows'[p].status = "failed" /\ ~rows'[p].current /\ rows'[p].version = rows[p].version
      /\ pc'[p] = "restore"
      /\ \A q \in Procs : q # p => pc'[q] = pc[q] /\ mem'[q] = mem[q] /\ rows'[q] = rows[q]
  <2>1. rows'[p] = [rows[p] EXCEPT !.status = "failed", !.current = FALSE,
                                   !.container = mem[p].container]
    BY ProcFacts DEF Fail
  <2>2. rows'[p].status = "failed" /\ ~rows'[p].current /\ rows'[p].version = rows[p].version
    BY <2>1, ProcFacts DEF Row
  <2> QED
    BY <2>2, ProcFacts DEF Fail, Goto
<1>2. InCharge
  BY DEF Bare, Ahead, Rowless
<1>3. Fate(p) /\ rows[p].status # "none"
  BY DEF Settled, Fate, Ahead, Rowless
<1>4. Even(p)
  BY <1>1, <1>3 DEF Even, Kept, Open, Ahead
<1>5. Fate(p)' /\ Due(p)' /\ Clears(p)'
  BY <1>1 DEF Fate, Due, Clears, Owing, Rowless, Pending
<1>6. Sure(p)'
  BY <1>1 DEF Sure, Failing, Owing
<1>7. rows[p].version <= rows[p].version /\ pc[p] # "rewrite"
  BY DEF TypeInv, TypeOK, Row, Ahead
<1> QED
  BY <1>1, <1>2, <1>4, <1>5, <1>6, <1>7, StepsOn

(* A deployment gives way to a newer one that is current.                   *)
LEMMA YieldOn ==
    ASSUME TypeInv, Settled, InCharge \/ Bare, NEW p \in Procs, Superseded(p), Yield(p),
           bound' = bound, mem' = mem, pc[p] \in {"run", "check"}
    PROVE  Settled' /\ InCharge'
<1>1. /\ rows'[p].status = "completed" /\ ~rows'[p].current /\ rows'[p].version = rows[p].version
      /\ pc'[p] = "done"
      /\ \A q \in Procs : q # p => pc'[q] = pc[q] /\ mem'[q] = mem[q] /\ rows'[q] = rows[q]
  <2>1. rows'[p] = [rows[p] EXCEPT !.status = "completed", !.current = FALSE]
    BY ProcFacts DEF Yield
  <2>2. rows'[p].status = "completed" /\ ~rows'[p].current /\ rows'[p].version = rows[p].version
    BY <2>1, ProcFacts DEF Row
  <2> QED
    BY <2>2, ProcFacts DEF Yield, Goto
<1>2. InCharge
  BY DEF Bare, Rowless
<1>3. Fate(p) /\ rows[p].status # "none"
  BY DEF Settled, Fate, Rowless
<1>4. Even(p)
  BY <1>1, <1>3 DEF Even, Kept, Open
<1>5. Fate(p)' /\ Due(p)' /\ Clears(p)'
  BY <1>1 DEF Fate, Due, Clears, Owing, Rowless, Pending
<1>6. p \in Heirs
  BY DEF Heirs, Ahead
<1>7. \A r \in Procs : rows[r].version \in Nat
  BY DEF TypeInv, TypeOK, Row
<1>8. \A r \in Procs : r # p /\ Sure(r) => Sure(r)'
  BY <1>1 DEF Sure, Failing, Heirs, Stands
<1>9. \E s \in Procs : Sure(s)' /\ rows[p].version <= rows[s].version
  <2>1. PICK c \in Procs : c # p /\ rows[c].current /\ rows[c].version > rows[p].version
    BY DEF Superseded, Newest, Current, Existing
  <2>2. CASE c \in Heirs
    BY <1>7, <1>8, <2>1, <2>2 DEF Sure, Stands
  <2>3. CASE c \notin Heirs
    <3>1. Atop(c)
      BY <2>1, <2>3 DEF Settled, Fate, Heirs
    <3>2. bound \in Heirs /\ bound \in Procs
      BY <3>1 DEF Atop, Heirs, TypeInv, TypeOK
    <3>3. PICK r \in Procs : Sure(r) /\ rows[bound].version <= rows[r].version
      BY <1>2, <3>2 DEF InCharge
    <3>4. rows[p].version < rows[r].version
      BY <1>7, <2>1, <3>1, <3>2, <3>3 DEF Atop
    <3> QED
      BY <1>7, <1>8, <3>3, <3>4
  <2> QED
    BY <2>2, <2>3
<1> QED
  BY <1>1, <1>2, <1>4, <1>5, <1>6, <1>9, StepsOn

(* Past the host, a deployment has nothing to answer for but being served.  *)
LEMMA ServedOn ==
    ASSUME TypeInv, Settled, InCharge \/ Bare, NEW p \in Procs, bound' = bound,
           pc[p] \in {"finish", "stop"}, pc'[p] \in {"stop", "done"},
           rows'[p].version = rows[p].version, rows'[p].current <=> rows[p].current,
           rows'[p].status = rows[p].status \/ (pc[p] = "finish" /\ rows'[p].status \in Live),
           \A q \in Procs : q # p => pc'[q] = pc[q] /\ mem'[q] = mem[q] /\ rows'[q] = rows[q]
    PROVE  Settled' /\ InCharge'
<1>1. InCharge
  BY DEF Bare, Rowless
<1>2. Fate(p) /\ rows[p].status # "none" /\ Atop(p) /\ rows[p].status \in Statuses
  BY ProcFacts DEF Settled, Fate, Rowless, Row
<1>3. Even(p)
  BY <1>2 DEF Even, Kept, Open, Fate, Pending, Statuses, Live
<1>4. Atop(p)'
  BY <1>2, <1>3, Rises
<1>5. Fate(p)'
  BY <1>2, <1>4 DEF Fate, Owing, Rowless, Pending, Live
<1>6. Due(p)' /\ Clears(p)'
  BY DEF Due, Clears
<1>7. Sure(p) => Sure(p)'
  BY DEF Sure, Failing, Stands, Owing, Heirs, Ahead
<1>8. rows[p].version <= rows[p].version /\ pc[p] # "rewrite"
  BY DEF TypeInv, TypeOK, Row
<1> QED
  BY <1>1, <1>2, <1>3, <1>5, <1>6, <1>7, <1>8, StepsOn

(* A job that is delayed after the switch, or in the middle of a restore.   *)
LEMMA DelayOn ==
    ASSUME TypeInv, Settled, InCharge \/ Bare, NEW p \in Procs, UNCHANGED <<rows, mem, bound>>,
           pc[p] \in {"finish", "stop", "restore", "rewrite"}, Goto(p, "delayed")
    PROVE  Settled' /\ InCharge'
<1>1. pc'[p] = "delayed" /\ \A q \in Procs : q # p => pc'[q] = pc[q]
  BY ProcFacts DEF Goto
<1>2. InCharge
  BY DEF Bare, Rowless
<1>3. Fate(p) /\ rows[p].status # "none"
  BY DEF Settled, Fate, Rowless
<1>4. Even(p)
  BY <1>1 DEF Even, Kept, Open
<1>5. Fate(p)' /\ Due(p)' /\ Clears(p)'
  BY <1>1, <1>3 DEF Fate, Due, Clears, Owing, Rowless, Pending, Ahead
<1>6. Sure(p)' \/ Atop(p)
  BY <1>1, <1>3 DEF Fate, Sure, Failing, Owing
<1>7. Sure(p) => Sure(p)'
  <2>1. CASE pc[p] \in {"finish", "stop"}
    BY <1>1, <2>1 DEF Sure, Failing, Stands, Owing, Heirs, Ahead
  <2>2. CASE pc[p] \in {"restore", "rewrite"}
    BY <1>1, <1>3, <2>2 DEF Fate, Sure, Failing, Owing
  <2> QED
    BY <2>1, <2>2
<1>8. \A r \in Procs : rows[r].version \in Nat
  BY DEF TypeInv, TypeOK, Row
<1>9. ASSUME pc[p] = "rewrite"
      PROVE  Sure(p)' /\ mem[p].other \in Procs /\ rows[mem[p].other].version <= rows[p].version
  <2>1. Sure(p)'
    BY <1>1, <1>3, <1>9 DEF Fate, Sure, Failing, Owing
  <2>2. mem[p].other \in Procs /\ rows[mem[p].other].version < rows[p].version
    BY <1>9 DEF Settled, Due, Completed, Existing
  <2> QED
    BY <1>8, <2>1, <2>2
<1>10. \A r \in Procs : Sure(r) /\ (r = p \/ (pc[p] = "rewrite" /\ mem[p].other = r)) =>
          \E s \in Procs : Sure(s)' /\ rows[r].version <= rows[s].version
  BY <1>7, <1>8, <1>9
<1> QED
  BY <1>2, <1>4, <1>5, <1>6, <1>10, StepsOn
(* The host moves to p, and to nobody older.                                *)
LEMMA BindOn ==
    ASSUME TypeInv, Settled, InCharge \/ Bare, NEW p \in Procs, UNCHANGED rows, bound' = p,
           bound = None \/ rows[bound].version <= rows[p].version,
           pc[p] = "bind", pc'[p] = "finish",
           \A q \in Procs : q # p => pc'[q] = pc[q] /\ mem'[q] = mem[q]
    PROVE  Settled' /\ InCharge'
<1>1. InCharge
  BY DEF Bare, Rowless
<1>2. Fate(p) /\ rows[p].status # "none"
  BY DEF Settled, Fate, Rowless
<1>3. Even(p)
  BY DEF Even, Kept, Open
<1>4. \A r \in Procs : rows[r].version \in Nat /\ r # None
  BY DeployAssumption DEF TypeInv, TypeOK, Row
<1>5. Fate(p)' /\ Due(p)' /\ Clears(p)'
  BY <1>2, <1>4 DEF Fate, Due, Clears, Owing, Rowless, Pending, Ahead, Atop
<1>6. Settled'
  BY <1>3, <1>5, EvenKeeps
<1>7. p \in Heirs /\ p \in Heirs'
  BY <1>4 DEF Heirs, Ahead
<1>8. \A t \in Heirs' : t \in Heirs /\ t \in Procs
  BY <1>7 DEF Heirs
<1>9. ASSUME NEW r \in Procs, Sure(r), r # bound \/ r = p PROVE Sure(r)'
  <2>1. CASE r = p
    BY <1>7, <1>9, <2>1 DEF Sure, Failing, Stands, Owing
  <2>2. CASE r # p
    <3>1. r \in Heirs => r \in Heirs'
      BY <1>9, <2>2 DEF Heirs
    <3> QED
      BY <1>9, <2>2, <3>1 DEF Sure, Failing, Stands
  <2> QED
    BY <2>1, <2>2
<1>10. ASSUME NEW r \in Procs, Sure(r)
       PROVE  \E s \in Procs : Sure(s)' /\ rows[r].version <= rows[s].version
  <2>1. CASE r # bound \/ r = p
    BY <1>4, <1>9, <1>10, <2>1
  <2>2. CASE r = bound /\ r # p
    <3>1. rows[bound].version < rows[p].version
      <4>1. bound \in Existing /\ p \in Existing /\ bound # None
        BY <1>2, <1>4, <1>10, <2>2 DEF Settled, Fate, Existing
      <4> QED
        BY <1>4, <1>10, <2>2, <4>1 DEF Settled, Numbered, Unique
    <3>2. PICK w \in Procs : Sure(w) /\ rows[p].version <= rows[w].version
      BY <1>1, <1>7 DEF InCharge
    <3>3. w # bound /\ rows[bound].version <= rows[w].version
      BY <1>4, <1>10, <2>2, <3>1, <3>2
    <3> QED
      BY <1>9, <2>2, <3>2, <3>3
  <2> QED
    BY <2>1, <2>2
<1>11. InCharge'
  BY <1>1, <1>3, <1>4, <1>8, <1>10, ChargePasses DEF Even, OrNone
<1> QED
  BY <1>6, <1>11

(* The completed row that is served is current again.                       *)
LEMMA RewriteOn ==
    ASSUME TypeInv, Settled, InCharge \/ Bare, NEW p \in Procs, pc[p] = "rewrite",
           rows' = [rows EXCEPT ![mem[p].other].current = TRUE],
           Goto(p, "done"), UNCHANGED <<mem, bound>>
    PROVE  Settled' /\ InCharge'
<1>1. InCharge
  BY DEF Bare, Rowless
<1>2. Fate(p) /\ rows[p].status = "failed"
  BY DEF Settled, Fate
<1>3. PICK o \in Procs : o = mem[p].other
  BY DEF Settled, Due, Completed, Existing
<1>4. o \in Completed /\ pc[o] = "done" /\ Atop(o) /\ o # p
  BY <1>3 DEF Settled, Due
<1>5. pc'[p] = "done" /\ \A q \in Procs : q # p => pc'[q] = pc[q]
  BY ProcFacts DEF Goto
<1>6. /\ rows'[o].status = rows[o].status /\ rows'[o].version = rows[o].version /\ rows'[o].current
      /\ \A q \in Procs : q # o => rows'[q] = rows[q]
  <2>1. rows'[o] = [rows[o] EXCEPT !.current = TRUE]
    BY <1>3, ProcFacts
  <2> QED
    BY <1>3, <2>1, ProcFacts DEF Row
<1>7. Even(p)
  BY <1>4, <1>5, <1>6 DEF Even, Kept, Open, Completed
<1>8. Fate(p)' /\ Due(p)' /\ Clears(p)'
  BY <1>2, <1>4, <1>5, <1>6 DEF Fate, Due, Clears, Owing, Rowless, Pending
<1>9. ~Sure(p) /\ p \notin Heirs'
  BY <1>2, <1>5 DEF Fate, Sure, Failing, Owing, Heirs, Ahead
<1>10. Sure(o) => Sure(o)'
  BY <1>4, <1>5, <1>6 DEF Sure, Failing, Heirs, Stands, Completed
<1>11. rows[o].version <= rows[o].version
  BY DEF TypeInv, TypeOK, Row
<1>12. \A q \in Procs : q # p /\ rows[q].current => rows'[q].current
  BY <1>6
<1> QED
  BY <1>1, <1>3, <1>7, <1>8, <1>9, <1>10, <1>11, <1>12, StepsOn

(* The restore of a row that failed, with nobody else at work, finds the    *)
(* row that is served, current or not, or none that has completed.          *)
LEMMA RestoreOn ==
    ASSUME TypeInv, Settled, InCharge \/ Bare, NEW p \in Procs, Restore(p),
           AtWork = {p}, Waiting = {}, bound # p, Newest(Completed \ {p}) \subseteq {bound},
           \A q \in Procs : pc[q] # "crashed"
    PROVE  Settled' /\ (InCharge' \/ Bare')
<1> DEFINE previous == Newest(Completed \ {p})
<1>1. /\ InCharge /\ pc[p] = "restore" /\ UNCHANGED <<rows, bound>>
      /\ \A q \in Procs : q # p => pc'[q] = pc[q] /\ mem'[q] = mem[q]
  <2>1. pc[p] = "restore" /\ UNCHANGED <<rows, bound>>
    BY DEF Restore, site, vhost
  <2>2. InCharge
    BY <2>1 DEF Bare, Rowless
  <2> QED
    BY <2>1, <2>2, OthersWait DEF Step
<1>2. Fate(p) /\ rows[p].status = "failed"
  BY <1>1 DEF Settled, Fate
<1>3. \A q \in Procs : q # p => pc[q] \in {"idle", "done"}
  BY DEF AtWork, Waiting, Resting
<1>4. \A r \in Procs : rows[r].version \in Nat /\ r # None
  BY DeployAssumption DEF TypeInv, TypeOK, Row
<1>5. Heirs = {bound} \ {None}
  BY <1>1, <1>3 DEF Heirs, Ahead
<1>6. Even(p)
  BY <1>1 DEF Even, Kept, Open
<1>7. CASE pc'[p] = "done"
  <2>1. Fate(p)' /\ Due(p)' /\ Clears(p)'
    BY <1>1, <1>2, <1>7 DEF Fate, Due, Clears, Rowless, Pending
  <2>2. Settled'
    BY <1>6, <2>1, EvenKeeps
  <2>3. Heirs' = {bound} \ {None}
    BY <1>1, <1>3, <1>7 DEF Heirs, Ahead
  <2>4. CASE bound = None \/ rows[bound].current
    <3>1. bound # None => Sure(bound)' /\ bound \in Procs
      BY <1>1, <2>3, <2>4 DEF Sure, Stands, TypeInv, TypeOK
    <3> QED
      BY <1>1, <1>4, <2>2, <2>3, <3>1 DEF InCharge
  <2>5. CASE bound # None /\ ~rows[bound].current /\ \A r \in previous : rows[r].current
    <3>1. bound \in Procs /\ Fate(bound) /\ pc[bound] = "done"
      BY <1>3, <2>5 DEF Settled, Fate, Rowless, TypeInv, TypeOK
    <3>2. previous = {}
      BY <2>5
    <3>3. Completed \ {p} = {}
      BY <3>2, NewestIs DEF Settled, Numbered, Completed
    <3>4. Open(bound)
      <4>1. rows[bound].status \in Statuses
        BY <3>1, ProcFacts DEF Row
      <4>2. bound \in Existing /\ rows[bound].status # "failed"
        BY <3>1 DEF Fate, Existing, Owing
      <4> QED
        BY <3>1, <3>3, <4>1, <4>2 DEF Open, Statuses, Completed, Existing
    <3>5. ASSUME NEW c \in Current PROVE FALSE
      <4>1. c \in Procs /\ rows[c].current /\ rows[c].status # "none" /\ Fate(c)
        BY DEF Current, Existing, Settled
      <4>2. c # p /\ c # bound
        BY <1>2, <2>5, <4>1 DEF Fate
      <4>3. pc[c] = "done" /\ Atop(c)
        BY <1>3, <4>1, <4>2 DEF Fate, Rowless, Ahead
      <4>4. rows[c].version < rows[bound].version
        <5>1. c \in Existing /\ bound \in Existing
          BY <3>1, <4>1 DEF Fate, Existing
        <5> QED
          BY <1>4, <3>1, <4>1, <4>2, <4>3, <5>1 DEF Settled, Numbered, Unique, Atop
      <4>5. Open(c)
        <5>1. rows[c].status \in Statuses
          BY <4>1, ProcFacts DEF Row
        <5> QED
          BY <3>3, <4>1, <4>2, <5>1 DEF Open, Statuses, Fate, Completed, Existing
      <4> QED
        BY <2>5, <3>1, <3>4, <4>1, <4>4, <4>5 DEF Settled, Whole, Older
    <3>6. Bare'
      <4>1. Current' = Current
        BY <1>1 DEF Current, Existing
      <4> QED
        BY <1>1, <1>3, <1>7, <3>5, <4>1 DEF Bare, Rowless
    <3> QED
      BY <2>2, <3>6
  <2>6. \A r \in previous : rows[r].current
    BY <1>7, ProcFacts DEF Restore, Goto
  <2> QED
    BY <2>4, <2>5, <2>6
<1>8. CASE pc'[p] # "done"
  <2>1. PICK o \in previous : mem' = [mem EXCEPT ![p].other = o] /\ pc'[p] = "rewrite"
    BY <1>8, ProcFacts DEF Restore, Goto
  <2>2. /\ o = bound /\ o \in Completed /\ o \in Procs /\ bound # None
        /\ ~ \A r \in previous : rows[r].current
    BY <1>4, <1>8, <2>1, ProcFacts DEF Restore, Goto, Newest, Completed, Existing
  <2>3. ~rows[bound].current
    BY <2>2
  <2>4. mem'[p].other = bound
    <3>1. mem'[p] = [mem[p] EXCEPT !.other = o]
      BY <2>1, ProcFacts
    <3> QED
      BY <2>2, <3>1, ProcFacts DEF Memory
  <2>5. pc[bound] = "done"
    BY <1>3, <2>2 DEF Settled, Fate, Rowless
  <2>6. rows[bound].version < rows[p].version
    <3>1. PICK w \in Procs : Sure(w) /\ rows[bound].version <= rows[w].version
      BY <1>1, <1>5, <2>2 DEF InCharge
    <3>2. ~Stands(bound)
      <4> SUFFICES ASSUME NEW x \in Procs, pc[x] = "rewrite" PROVE FALSE
        BY <2>3 DEF Stands
      <4> QED
        BY <1>1, <1>3
    <3>3. Failing(w)
      BY <1>5, <3>1, <3>2 DEF Sure
    <3>4. w = p
      BY <1>3, <3>3 DEF Failing, Owing
    <3>5. bound \in Existing /\ p \in Existing
      BY <1>2, <2>2 DEF Existing, Completed
    <3> QED
      BY <1>4, <2>2, <3>1, <3>4, <3>5 DEF Settled, Numbered, Unique
  <2>7. Fate(p)' /\ Clears(p)'
    BY <1>1, <1>2, <2>1 DEF Fate, Clears, Rowless, Pending, Ahead
  <2>8. Due(p)'
    BY <1>1, <1>4, <2>1, <2>2, <2>4, <2>5, <2>6 DEF Due, Atop, Completed, Existing
  <2>9. Settled'
    BY <1>6, <2>7, <2>8, EvenKeeps
  <2>10. Heirs' = {bound}
    BY <1>1, <1>3, <2>1, <2>2 DEF Heirs, Ahead
  <2>11. Sure(bound)'
    <3>1. bound \in Heirs' /\ Stands(bound)'
      BY <1>1, <2>1, <2>4, <2>10 DEF Stands
    <3> QED
      BY <1>1, <3>1 DEF Sure
  <2>12. InCharge'
    BY <1>1, <1>4, <2>2, <2>10, <2>11 DEF InCharge
  <2> QED
    BY <2>9, <2>12
<1> QED
  BY <1>7, <1>8
(* A new row is the newest, and current: it takes charge.                   *)
LEMMA InsertOn ==
    ASSUME TypeInv, Settled, NEW p \in Procs, Insert(p), pc'[p] # "done"
    PROVE  Settled' /\ InCharge'
<1> DEFINE v == mem[p].version
           K == mem[p].cleared
<1>1. /\ pc[p] = "insert" /\ bound' = bound /\ \A r \in Existing : rows[r].version # v
      /\ rows' = [r \in Procs |-> IF r = p THEN Inserted(p)
                                  ELSE [rows[r] EXCEPT !.current = @ /\ r \notin K]]
      /\ pc'[p] \in {"claim", "build", "enqueue", "env"}
      /\ \A q \in Procs : q # p => pc'[q] = pc[q] /\ mem'[q] = mem[q]
  <2>1. AfterInsert(p) \in {"claim", "build", "enqueue", "env"}
    BY DeployAssumption DEF AfterInsert, Procs
  <2>2. \A q \in Procs : q # p => pc'[q] = pc[q] /\ mem'[q] = mem[q]
    BY OthersWait DEF Step
  <2> QED
    BY <2>1, <2>2, ProcFacts DEF Insert, Goto, vhost
<1>2. /\ v \in Nat /\ v >= 1 /\ Filled(v) /\ rows[p].status = "none" /\ bound # p
      /\ K \subseteq Existing
      /\ \A d \in K, c \in Procs : Older(c, d) => c \in K
  BY <1>1, ProcFacts DEF Settled, Due, Fate, Clears, Rowless, Memory
<1>3. /\ rows'[p].status = "queued" /\ rows'[p].version = v /\ rows'[p].current
      /\ \A q \in Procs : q # p => /\ rows'[q].version = rows[q].version
                                   /\ rows'[q].status = rows[q].status
                                   /\ rows'[q].current <=> rows[q].current /\ q \notin K
  <2>1. (IF p \in Rollbacks THEN rows[mem[p].target] ELSE NoRow) \in Row
    BY RowFact, <1>1 DEF TypeInv, TypeOK, Shape
  <2>2. Inserted(p).status = "queued" /\ Inserted(p).version = v /\ Inserted(p).current
    BY <2>1 DEF Inserted, Row
  <2>3. \A q \in Procs : rows[q] \in Row
    BY DEF TypeInv, TypeOK
  <2> QED
    BY <1>1, <2>2, <2>3 DEF Row
<1>4. /\ \A q \in Existing : rows[q].version < v
      /\ Existing' = Existing \cup {p} /\ Numbered'
      /\ \A n : Filled(n) => Filled(n)'
  BY <1>1, <1>2, <1>3, NewIsNewest DEF Settled
<1> HIDE DEF v, K
<1>5. \A q \in Procs : q # p /\ Open(q)' => rows[q].version < v /\ q \in Existing
  BY <1>3, <1>4 DEF Open, Existing
<1>6. \A r \in Procs : rows[r].version \in Nat /\ r # None
  BY DeployAssumption DEF TypeInv, TypeOK, Row
<1>7. ASSUME NEW c \in Procs, NEW d \in Procs, d # p, Older(c, d)'
      PROVE  c # p /\ Older(c, d) /\ c \notin K
  <2>1. rows'[d].version < v
    BY <1>3, <1>5, <1>7 DEF Older
  <2>2. c # p
    BY <1>2, <1>3, <1>6, <1>7, <2>1 DEF Older
  <2> QED
    BY <1>3, <1>7, <2>2 DEF Older, Open
<1>8. Whole'
  <2> SUFFICES ASSUME NEW c \in Procs, NEW d \in Procs, Older(c, d)' PROVE rows'[d].current
    BY DEF Whole
  <2>1. CASE d = p
    BY <1>3, <2>1
  <2>2. CASE d # p
    <3>1. Older(c, d) /\ c \notin K
      BY <1>7, <2>2
    <3> QED
      BY <1>2, <1>3, <2>2, <3>1 DEF Settled, Whole
  <2> QED
    BY <2>1, <2>2
<1>9. Fate(p)' /\ Due(p)' /\ Clears(p)'
  BY <1>1, <1>2, <1>3 DEF Fate, Due, Clears, Rowless, Pending, Ahead
<1>10. ASSUME NEW q \in Procs, q # p PROVE Fate(q)' /\ Due(q)' /\ Clears(q)'
  <2>0. /\ pc'[q] = pc[q] /\ mem'[q] = mem[q] /\ Fate(q) /\ Due(q) /\ Clears(q)
        /\ rows'[q].status = rows[q].status
        /\ rows'[q].current => rows[q].current
    BY <1>1, <1>3, <1>10 DEF Settled
  <2>1. bound' = bound /\ \A r \in Procs : r # p /\ Atop(r) => Atop(r)'
    <3>1. bound' = bound /\ bound \in Procs \cup {None} /\ bound # p
      BY <1>1, <1>2 DEF TypeInv, TypeOK
    <3>2. \A r \in Procs : r # p => rows'[r].version = rows[r].version
      BY <1>3
    <3> QED
      BY <3>1, <3>2 DEF Atop
  <2>2. Fate(q)'
    BY <1>10, <2>0, <2>1 DEF Fate
  <2>3. pc[q] = "insert" => Filled(mem[q].version)'
    BY <1>4, <2>0 DEF Due, Filled
  <2>4. ASSUME pc[q] = "rewrite"
        PROVE  /\ mem'[q].other \in Completed' /\ pc'[mem'[q].other] = "done" /\ Atop(mem[q].other)'
               /\ rows'[mem'[q].other].version < rows'[q].version
    <3>1. PICK o \in Procs : o = mem[q].other
      BY <2>0, <2>4 DEF Due, Completed, Existing
    <3>2. o \in Completed /\ pc[o] = "done" /\ Atop(o) /\ rows[o].version < rows[q].version /\ o # p
      BY <1>1, <2>0, <2>4, <3>1 DEF Due
    <3>3. o \in Completed' /\ pc'[o] = "done" /\ Atop(o)' /\ rows'[o].version < rows'[q].version
      BY <1>1, <1>3, <1>10, <2>1, <3>2 DEF Completed, Existing
    <3> QED
      BY <2>0, <3>1, <3>3 DEF Atop
  <2>5. Due(q)'
    BY <2>0, <2>3, <2>4 DEF Due
  <2>6. Clears(q)'
    <3> SUFFICES ASSUME pc[q] \in {"version", "insert"}
                 PROVE  /\ mem[q].cleared \subseteq Existing'
                        /\ \A d \in mem[q].cleared, c \in Procs : Older(c, d)' => c \in mem[q].cleared
      BY <2>0 DEF Clears
    <3>1. \A d \in mem[q].cleared : d \in Existing /\ d \in Procs /\ d # p
      BY <1>2, <2>0 DEF Clears, Existing
    <3> QED
      BY <1>4, <1>7, <2>0, <3>1 DEF Clears
  <2> QED
    BY <2>2, <2>5, <2>6
<1>11. Settled'
  BY <1>4, <1>8, <1>9, <1>10 DEF Settled
<1>12. Sure(p)'
  BY <1>1, <1>3, <1>6 DEF Sure, Stands, Heirs, Ahead
<1>13. ASSUME NEW t \in Heirs' PROVE rows'[t].version <= rows'[p].version
  <2>1. CASE t = p
    BY <1>2, <1>3, <2>1
  <2>2. CASE t # p
    <3>1. t \in Procs /\ Fate(t) /\ (pc[t] \in Ahead \/ bound = t)
      BY <1>1, <1>13, <2>2 DEF Heirs, Settled, TypeInv, TypeOK
    <3>2. t \in Existing
      BY <3>1 DEF Fate, Existing, Ahead, Rowless
    <3> QED
      BY <1>2, <1>3, <1>4, <1>6, <2>2, <3>1, <3>2
  <2> QED
    BY <2>1, <2>2
<1> QED
  BY <1>11, <1>12, <1>13 DEF InCharge
(* The steps of a process, by what they come to.                            *)
LEMMA CreateOn ==
    ASSUME TypeInv, Settled, InCharge \/ Bare, NEW p \in Procs, Calm',
           \/ UploadBegin(p) \/ PushBegin(p) \/ RollbackBegin(p) \/ Clear(p) \/ Version(p)
           \/ Insert(p) \/ Claim(p) \/ Discard(p) \/ Enqueue(p) \/ Promote(p) \/ Raise(p) \/ Crash(p)
    PROVE  Settled' /\ (InCharge' \/ Bare')
<1> USE DEF site, vhost, queue, history, Goto
<1>0. /\ rows[p] \in Row /\ mem[p] \in Memory /\ DOMAIN rows = Procs /\ DOMAIN mem = Procs /\ DOMAIN pc = Procs
      /\ \A q \in Procs : q # p => pc'[q] = pc[q] /\ mem'[q] = mem[q]
  BY ProcFacts, OthersWait DEF Step
<1>1. CASE UploadBegin(p) \/ PushBegin(p) \/ RollbackBegin(p)
  <2>1. /\ pc[p] = "idle" /\ pc'[p] \in {"done", "clear"} /\ UNCHANGED <<rows, bound>>
    BY <1>0, <1>1 DEF UploadBegin, PushBegin, RollbackBegin
  <2>2. Due(p)' /\ Clears(p)'
    BY <2>1 DEF Due, Clears
  <2> QED
    BY <1>0, <2>1, <2>2, RowlessOn DEF Rowless
<1>2. CASE Clear(p)
  <2>1. /\ pc[p] = "clear" /\ pc'[p] = "version" /\ UNCHANGED <<rows, bound>>
        /\ mem'[p].cleared = Current
    <3>1. mem'[p] = [mem[p] EXCEPT !.cleared = Current]
      BY <1>0, <1>2 DEF Clear
    <3> QED
      BY <1>0, <1>2, <3>1 DEF Clear, Memory
  <2>2. Due(p)' /\ Clears(p)'
    BY <2>1 DEF Due, Clears, Older, Open, Current, Existing
  <2> QED
    BY <1>0, <2>1, <2>2, RowlessOn DEF Rowless
<1>3. CASE Version(p)
  <2>1. /\ pc[p] = "version" /\ pc'[p] = "insert" /\ UNCHANGED <<rows, bound>>
        /\ mem'[p].cleared = mem[p].cleared \cap Current /\ mem'[p].version = TopVersion + 1
    <3>1. mem'[p] = [mem[p] EXCEPT !.cleared = @ \cap Current, !.version = TopVersion + 1]
      BY <1>0, <1>3 DEF Version
    <3> QED
      BY <1>0, <1>3, <3>1 DEF Version, Memory
  <2>2. TopVersion \in Nat /\ Filled(TopVersion + 1)
    BY TopFilled DEF Settled, Numbered
  <2>3. Due(p)'
    BY <2>1, <2>2 DEF Due, Filled, Existing
  <2>4. Clears(p)'
    <3>1. /\ mem[p].cleared \subseteq Existing
          /\ \A d \in mem[p].cleared, c \in Procs : Older(c, d) => c \in mem[p].cleared
      BY <2>1 DEF Settled, Clears
    <3> QED
      BY <2>1, <3>1 DEF Clears, Older, Open, Current, Existing
  <2> QED
    BY <1>0, <2>1, <2>3, <2>4, RowlessOn DEF Rowless
<1>4. CASE Insert(p)
  <2>1. CASE pc'[p] # "done"
    BY <1>4, <2>1, InsertOn
  <2>2. CASE pc'[p] = "done"
    <3>1. AfterInsert(p) \in {"claim", "build", "enqueue", "env"}
      BY DeployAssumption DEF AfterInsert, Procs
    <3>2. pc[p] = "insert" /\ UNCHANGED <<rows, bound>>
      BY <1>0, <1>4, <2>2, <3>1 DEF Insert
    <3>3. Due(p)' /\ Clears(p)'
      BY <2>2 DEF Due, Clears
    <3> QED
      BY <1>0, <2>2, <3>2, <3>3, RowlessOn DEF Rowless
  <2> QED
    BY <2>1, <2>2
<1>5. CASE Claim(p) \/ Promote(p)
  <2>1. /\ pc[p] \in {"claim", "delayed"} /\ UNCHANGED <<rows, bound>>
        /\ pc'[p] \in IF pc[p] = "claim" THEN {"build", "discard"} ELSE {"queued"}
        /\ Fate(p)
    BY <1>0, <1>5 DEF Claim, Promote, Settled
  <2> QED
    BY <1>0, <2>1, AheadOn DEF Fate, Ahead, Owing, Pending
<1>6. CASE Discard(p)
  BY <1>6 DEF Discard, Record, Calm
<1>7. CASE Enqueue(p)
  <2>1. pc[p] = "enqueue" /\ bound' = bound /\ mem' = mem /\ Fate(p)
    BY <1>7 DEF Enqueue, Settled
  <2>2. CASE FailRow(p)
    BY <2>1, <2>2, FailOn DEF FailRow, Ahead
  <2>3. CASE UNCHANGED rows /\ Goto(p, "queued")
    BY <1>0, <2>1, <2>3, AheadOn DEF Fate, Ahead, Owing, Pending
  <2> QED
    BY <1>7, <2>2, <2>3 DEF Enqueue
<1>8. CASE Raise(p)
  <2>1. /\ UNCHANGED <<rows, mem, bound>> /\ Goto(p, "delayed") /\ Fate(p)
        /\ pc[p] \in {"run", "build", "check", "limit", "record", "finish", "stop", "restore", "rewrite"}
    BY <1>8 DEF Raise, Settled
  <2>2. CASE pc[p] \in {"finish", "stop", "restore", "rewrite"}
    BY <2>1, <2>2, DelayOn
  <2>3. CASE pc[p] \in {"run", "build", "check", "limit", "record"}
    BY <1>0, <2>1, <2>3, AheadOn DEF Fate, Ahead, Owing, Pending
  <2> QED
    BY <2>1, <2>2, <2>3
<1>9. CASE Crash(p)
  BY <1>0, <1>9 DEF Crash, Calm
<1> QED
  BY <1>1, <1>2, <1>3, <1>4, <1>5, <1>6, <1>7, <1>8, <1>9

LEMMA PipelineOn ==
    ASSUME TypeInv, Settled, InCharge \/ Bare, NEW p \in Procs, Calm',
           RunStart(p) \/ Env(p) \/ Build(p) \/ Check(p) \/ Limit(p) \/ Start(p)
    PROVE  Settled' /\ InCharge'
<1> USE DEF site, vhost, queue, history, Goto
<1>0. /\ rows[p] \in Row /\ DOMAIN rows = Procs /\ DOMAIN pc = Procs /\ Fate(p)
      /\ \A q \in Procs : q # p => pc'[q] = pc[q] /\ mem'[q] = mem[q]
  BY ProcFacts, OthersWait DEF Step, Settled
<1>1. CASE RunStart(p)
  <2>1. pc[p] = "run" /\ UNCHANGED bound
    BY <1>1 DEF RunStart
  <2>2. CASE Superseded(p) /\ Yield(p) /\ UNCHANGED mem
    BY <2>1, <2>2, YieldOn
  <2>3. CASE UNCHANGED rows /\ Goto(p, "build") /\ rows[p].status \notin {"completed", "failed"}
    BY <1>0, <2>1, <2>3, AheadOn DEF Ahead, Owing, Pending
  <2> QED
    BY <1>1, <2>2, <2>3 DEF RunStart, Record, Calm
<1>2. CASE Env(p)
  <2>1. pc[p] = "env" /\ UNCHANGED <<mem, bound>>
    BY <1>2 DEF Env
  <2>2. CASE FailRow(p)
    BY <2>1, <2>2, FailOn DEF FailRow, Ahead
  <2>3. CASE UNCHANGED rows /\ pc'[p] \in {"start", "bind"}
    BY <1>0, <2>1, <2>3, AheadOn DEF Fate, Ahead, Owing, Pending
  <2> QED
    BY <1>0, <1>2, <2>2, <2>3 DEF Env
<1>3. CASE Build(p)
  <2>1. pc[p] = "build" /\ UNCHANGED <<mem, bound>>
    BY <1>3 DEF Build
  <2>2. CASE FailRow(p)
    BY <2>1, <2>2, FailOn DEF FailRow, Ahead
  <2>3. CASE /\ rows' = [rows EXCEPT ![p].status = "queued", ![p].built = TRUE,
                                     ![p].node = (p \in Nextjs)]
             /\ Goto(p, "check")
    <3>1. rows'[p] = [rows[p] EXCEPT !.status = "queued", !.built = TRUE, !.node = (p \in Nextjs)]
      BY <1>0, <2>3
    <3>2. /\ rows'[p].status = "queued" /\ rows'[p].version = rows[p].version
          /\ rows'[p].current = rows[p].current
      BY <1>0, <3>1 DEF Row
    <3>3. Open(p)
      BY <1>0, <2>1 DEF Fate, Open, Rowless, Row, Statuses
    <3>4. pc'[p] = "check" /\ \A q \in Procs : q # p => rows'[q] = rows[q]
      BY <1>0, <2>3
    <3> QED
      BY <1>0, <2>1, <3>2, <3>3, <3>4, AheadOn DEF Ahead, Owing, Pending
  <2> QED
    BY <1>3, <2>2, <2>3 DEF Build
<1>4. CASE Check(p)
  <2>1. pc[p] = "check" /\ UNCHANGED <<mem, bound>>
    BY <1>4 DEF Check
  <2>2. CASE Superseded(p) /\ Yield(p)
    BY <2>1, <2>2, YieldOn
  <2>3. CASE UNCHANGED rows /\ pc'[p] \in {"limit", "record"}
    BY <1>0, <2>1, <2>3, AheadOn DEF Fate, Ahead, Owing, Pending
  <2> QED
    BY <1>0, <1>4, <2>2, <2>3 DEF Check
<1>5. CASE Limit(p) \/ Start(p)
  <2>1. pc[p] \in {"limit", "start"} /\ bound' = bound
    BY <1>5 DEF Limit, Start
  <2>2. CASE (\E S : Fail(p, S)) /\ UNCHANGED mem
    BY <2>1, <2>2, FailOn DEF Ahead
  <2>3. CASE UNCHANGED rows /\ pc'[p] \in {"start", "record"}
    BY <1>0, <2>1, <2>3, AheadOn DEF Fate, Ahead, Owing, Pending
  <2> QED
    BY <1>0, <1>5, <2>2, <2>3 DEF Limit, Start, FailRow
<1> QED
  BY <1>1, <1>2, <1>3, <1>4, <1>5

LEMMA ActivateOn ==
    ASSUME TypeInv, Settled, InCharge \/ Bare, NEW p \in Procs, Calm', Calm,
           RecordRow(p) \/ Bind(p) \/ Finish(p) \/ Stop(p) \/ Restore(p) \/ Rewrite(p)
    PROVE  Settled' /\ (InCharge' \/ Bare')
<1> USE DEF site, vhost, queue, history
<1>0. /\ rows[p] \in Row /\ DOMAIN rows = Procs /\ DOMAIN pc = Procs /\ Fate(p)
      /\ \A q \in Procs : q # p => pc'[q] = pc[q] /\ mem'[q] = mem[q]
  BY ProcFacts, OthersWait DEF Step, Settled
<1>1. CASE RecordRow(p)
  <2>1. pc[p] = "record" /\ UNCHANGED <<mem, bound>>
    BY <1>1 DEF RecordRow
  <2>2. CASE FailRow(p)
    BY <2>1, <2>2, FailOn DEF FailRow, Ahead
  <2>3. CASE /\ \E h \in HostOf(p) :
                   rows' = [rows EXCEPT ![p].container = mem[p].container, ![p].host = h]
             /\ Goto(p, "bind")
    <3>1. PICK h \in HostOf(p) :
             rows' = [rows EXCEPT ![p].container = mem[p].container, ![p].host = h]
      BY <2>3
    <3>2. /\ rows'[p] = [rows[p] EXCEPT !.container = mem[p].container, !.host = h]
          /\ \A q \in Procs : q # p => rows'[q] = rows[q]
      BY <1>0, <3>1
    <3>3. /\ rows'[p].status = rows[p].status /\ rows'[p].version = rows[p].version
          /\ rows'[p].current = rows[p].current
      BY <1>0, <3>2 DEF Row
    <3>4. pc'[p] = "bind"
      BY <1>0, <2>3 DEF Goto
    <3> QED
      BY <1>0, <2>1, <3>2, <3>3, <3>4, AheadOn DEF Fate, Ahead, Owing, Pending
  <2> QED
    BY <1>1, <2>2, <2>3 DEF RecordRow
<1>2. CASE Bind(p)
  <2>1. Switch(p) /\ "overtaken" \notin happened'
    BY <1>2 DEF Bind, Record, Calm
  <2>2. bound' = p /\ ~(bound # None /\ rows[bound].version > rows[p].version)
    BY <2>1 DEF Switch, Record
  <2>3. bound = None \/ rows[bound].version <= rows[p].version
    BY <2>2 DEF TypeInv, TypeOK, Row
  <2>4. pc[p] = "bind" /\ pc'[p] = "finish" /\ UNCHANGED rows
    BY <1>0, <1>2 DEF Bind, Goto
  <2> QED
    BY <1>0, <2>2, <2>3, <2>4, BindOn
<1>3. CASE Finish(p)
  <2>1. PICK s \in Live : rows' = [rows EXCEPT ![p].status = s]
    BY <1>3 DEF Finish, Live
  <2>2. /\ rows'[p].status \in Live /\ rows'[p].version = rows[p].version
        /\ rows'[p].current = rows[p].current
        /\ \A q \in Procs : q # p => rows'[q] = rows[q]
    BY <1>0, <2>1 DEF Row
  <2>3. pc[p] = "finish" /\ pc'[p] \in {"stop", "done"} /\ bound' = bound
    BY <1>0, <1>3 DEF Finish, Goto
  <2> QED
    BY <1>0, <2>2, <2>3, ServedOn
<1>4. CASE Stop(p)
  <2>1. pc[p] = "stop" /\ UNCHANGED <<mem, bound>>
    BY <1>4 DEF Stop
  <2>2. CASE FailRow(p)
    BY <2>1, <2>2, FailOn DEF FailRow
  <2>3. CASE UNCHANGED rows /\ Goto(p, "done")
    BY <1>0, <2>1, <2>3, ServedOn DEF Goto
  <2> QED
    BY <1>4, <2>2, <2>3 DEF Stop
<1>5. CASE Restore(p)
  <2>1. /\ AtWork = {p} /\ Waiting = {} /\ bound # p
        /\ Newest(Completed \ {p}) \subseteq {bound}
    BY <1>5 DEF Restore, Record, Calm
  <2> QED
    BY <1>5, <2>1, RestoreOn DEF Calm
<1>6. CASE Rewrite(p)
  BY <1>6, RewriteOn DEF Rewrite
<1> QED
  BY <1>1, <1>2, <1>3, <1>4, <1>5, <1>6

LEMMA CalmStays == TypeInv /\ QueueHeld /\ [Next]_vars /\ Calm' => Calm
<1> SUFFICES ASSUME TypeInv, QueueHeld, [Next]_vars, NEW q \in Procs, pc[q] = "crashed"
             PROVE  pc'[q] = "crashed"
  BY HappenedStays DEF Calm
<1>1. CASE UNCHANGED vars \/ AllDone \/ KeyExpires \/ KeyPurged
  BY <1>1 DEF AllDone, KeyExpires, KeyPurged, vars
<1>2. CASE WorkerTake
  <2>1. PICK h \in Pushes :
           h = Head(jobs) /\ \A r \in Procs : r # h => pc'[r] = pc[r] /\ mem'[r] = mem[r]
    BY <1>2, Taken
  <2>2. pc[h] = "queued"
    <3>1. jobs \in Seq(Pushes) /\ jobs # << >>
      BY <1>2 DEF WorkerTake, TypeInv, TypeOK
    <3>2. 1 \in 1..Len(jobs) /\ h = jobs[1]
      BY <2>1, <3>1
    <3> QED
      BY <3>2 DEF QueueHeld
  <2> QED
    BY <2>1, <2>2
<1>3. ASSUME NEW p \in Procs, Step(p) \/ Raise(p) \/ Crash(p) PROVE pc'[q] = "crashed"
  <2>1. pc[p] # "crashed"
    BY <1>3 DEF Step, Raise, Crash, AtWork, Resting, UploadBegin, PushBegin, RollbackBegin, Clear,
       Version, Insert, Claim, Discard, Enqueue, RunStart, Build, Check, Limit, Env, Start,
       RecordRow, Bind, Finish, Stop, Restore, Rewrite, Promote
  <2> QED
    BY <1>3, <2>1, OthersWait
<1> QED
  BY <1>1, <1>2, <1>3 DEF Next

LEMMA TakeOn ==
    ASSUME TypeInv, QueueHeld, Settled, InCharge \/ Bare, WorkerTake
    PROVE  Settled' /\ InCharge'
<1>1. PICK h \in Procs :
         /\ h = Head(jobs) /\ pc'[h] = "run" /\ UNCHANGED <<rows, bound>>
         /\ \A q \in Procs : q # h => pc'[q] = pc[q] /\ mem'[q] = mem[q]
  BY Taken DEF WorkerTake, site, vhost, Procs
<1>2. pc[h] = "queued"
  <2>1. jobs \in Seq(Pushes) /\ jobs # << >>
    BY DEF WorkerTake, TypeInv, TypeOK
  <2>2. 1 \in 1..Len(jobs) /\ h = jobs[1]
    BY <1>1, <2>1
  <2> QED
    BY <2>2 DEF QueueHeld
<1> QED
  BY <1>1, <1>2, AheadOn DEF Ahead, Owing, Pending

LEMMA CurrentNext == TypeInv /\ CurrentInv /\ [Next]_vars => CurrentInv'
<1> SUFFICES ASSUME TypeInv, CurrentInv, [Next]_vars, Calm'
             PROVE  Settled' /\ (InCharge' \/ Bare')
  BY QueueStep DEF CurrentInv
<1>0. Calm /\ QueueHeld /\ Settled /\ (InCharge \/ Bare)
  BY CalmStays DEF CurrentInv
<1>1. CASE UNCHANGED vars \/ AllDone \/ KeyExpires \/ KeyPurged
  <2>1. UNCHANGED <<rows, pc, mem, bound>>
    BY <1>1 DEF AllDone, KeyExpires, KeyPurged, vars, site, vhost
  <2>2. UNCHANGED <<Existing, Completed, Current, Heirs>>
    BY <2>1 DEF Existing, Completed, Current, Heirs
  <2>3. Settled'
    <3>1. Numbered'
      BY <1>0, <2>1, <2>2 DEF Settled, Numbered, Unique, Gapless, Bounded, Filled
    <3>2. Whole' /\ \A p \in Procs : Fate(p)' /\ Due(p)' /\ Clears(p)'
      BY <1>0, <2>1, <2>2
      DEF Settled, Whole, Older, Open, Fate, Due, Clears, Atop, Filled
    <3> QED
      BY <3>1, <3>2 DEF Settled
  <2>4. InCharge' \/ Bare'
    BY <1>0, <2>1, <2>2 DEF InCharge, Sure, Failing, Stands, Bare
  <2> QED
    BY <2>3, <2>4
<1>2. CASE WorkerTake
  BY <1>0, <1>2, TakeOn
<1>3. ASSUME NEW p \in Procs, Step(p) \/ Raise(p) \/ Crash(p)
      PROVE  Settled' /\ (InCharge' \/ Bare')
  BY <1>0, <1>3, CreateOn, PipelineOn, ActivateOn DEF Step
<1> QED
  BY <1>1, <1>2, <1>3 DEF Next

LEMMA CurrentInit == Init => CurrentInv
<1> SUFFICES ASSUME Init PROVE QueueHeld /\ Settled /\ Bare
  BY DEF CurrentInv
<1>1. Existing = {}
  BY DEF Init, Existing, NoRow
<1>2. Numbered
  BY <1>1 DEF Numbered, Unique, Gapless, Bounded
<1>3. \A p \in Procs : /\ rows[p].status = "none" /\ ~rows[p].current /\ pc[p] = "idle"
                       /\ bound # p
  BY DeployAssumption DEF Init, NoRow, Procs
<1>4. Whole /\ \A p \in Procs : Fate(p) /\ Due(p) /\ Clears(p)
  BY <1>3 DEF Whole, Older, Open, Fate, Due, Clears, Rowless, Pending
<1>5. QueueHeld /\ Bare
  BY <1>1, <1>3 DEF Init, QueueHeld, Bare, Current, Rowless
<1> QED
  BY <1>2, <1>4, <1>5 DEF Settled

(* At rest the row the API reports as current is the one the virtual host   *)
(* was last switched to.                                                    *)
THEOREM CurrentIsServed == Spec => []CurrentIsBound
<1>1. TypeInv /\ CurrentInv => CurrentIsBound
  <2> SUFFICES ASSUME TypeInv, CurrentInv, \A p \in Procs : pc[p] \in {"idle", "done"}, Calm,
                      NEW n \in Newest(Current)
               PROVE  n = bound
    BY DEF CurrentIsBound, Calm
  <2>1. n \in Current /\ n \in Procs /\ Settled /\ Fate(n) /\ InCharge
    BY DEF CurrentInv, Bare, Newest, Current, Existing, Settled
  <2>2. Atop(n)
    BY <2>1 DEF Fate, Current, Ahead
  <2>3. bound \in Procs /\ Heirs = {bound} /\ bound # None
    BY <2>2 DEF Atop, Heirs, Ahead, TypeInv, TypeOK
  <2>4. PICK r \in Procs : Sure(r) /\ rows[bound].version <= rows[r].version
    BY <2>1, <2>3 DEF InCharge
  <2>5. r = bound /\ rows[bound].current
    BY <2>3, <2>4 DEF Sure, Failing, Stands, Owing
  <2>6. bound \in Existing
    BY <2>1, <2>3 DEF Settled, Fate, Existing
  <2>7. rows[bound].version = rows[n].version
    BY <2>1, <2>2, <2>3, <2>5, <2>6 DEF Newest, Current, Atop, TypeInv, TypeOK, Row
  <2> QED
    BY <2>1, <2>6, <2>7 DEF Settled, Numbered, Unique, Current
<1> QED
  BY <1>1, InitInv, TypeStep, CurrentInit, CurrentNext, PTL DEF Spec
=============================================================================
