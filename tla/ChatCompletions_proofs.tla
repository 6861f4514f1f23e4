----------------------- MODULE ChatCompletions_proofs -----------------------
(* Proofs about ChatCompletions, for every set of requests and bodies, every *)
(* limit and every value of the bounds.                                     *)
EXTENDS ChatCompletions, FiniteSetTheorems, TLAPS

Steps == {"idle"} \cup Active \cup Endings

(* What a step of one request does to the steps of all.                     *)
LEMMA GotoType ==
    ASSUME NEW r \in Requests, NEW s \in Steps, pc \in [Requests -> Steps], Goto(r, s)
    PROVE  /\ pc' \in [Requests -> Steps]
           /\ pc'[r] = s
           /\ \A q \in Requests : q # r => pc'[q] = pc[q]
  BY DEF Goto

LEMMA FaultType ==
    ASSUME faults \in 0..MaxFaults, NEW k, Fault(k) \/ NoFault
    PROVE  faults' \in 0..MaxFaults
  BY ChatAssumption DEF Fault, NoFault

-----------------------------------------------------------------------------
(* Typing                                                                   *)

(* What the types rest on: who has a body, an execution, a provider.        *)
Shape ==
    \A r \in Requests :
        /\ pc[r] # "idle" => body[r] \in Bodies
        /\ pc[r] \in {"log", "meter", "keep"} => r \in whole
        /\ pc[r] = "stream" => chain[r] \in 1..MaxChain

TypeInv == TypeOK /\ Shape

LEMMA TypeInit == Init => TypeInv
  BY ChatAssumption DEF Init, TypeInv, TypeOK, Shape, Windows

LEMMA LookupType ==
    ASSUME TypeInv, NEW r \in Requests, Lookup(r)
    PROVE  TypeInv'
<1> USE DEF TypeInv, Steps, Active, Waiting, Running, Endings
<1>1. CASE Begin(r)
  <2>1. PICK b \in Bodies : body' = [body EXCEPT ![r] = b]
    BY <1>1 DEF Begin
  <2>2. TypeOK'
    BY <1>1, <2>1, FaultType, GotoType DEF Begin, TypeOK, process, redis, history
  <2>3. Shape'
    BY <1>1, <2>1, GotoType DEF Begin, TypeOK, Shape, process, redis, history
  <2> QED
    BY <2>2, <2>3
<1>2. CASE Load(r)
  <2>1. TypeOK'
    BY <1>2, FaultType, GotoType DEF Load, Meet, Judged, TypeOK, Record, redis, history
  <2>2. Shape'
    BY <1>2, GotoType DEF Load, Meet, Judged, TypeOK, Shape, redis, history
  <2> QED
    BY <2>1, <2>2
<1>3. CASE Claim(r)
  <2>1. PICK s \in {"rpm", "reload"} : Goto(r, s)
    BY <1>3 DEF Claim
  <2>2. body[r] \in Bodies
    BY <1>3 DEF Claim, Shape
  <2>3. lock' \in Record \cup {None}
    BY <1>3, <2>2 DEF Claim, TypeOK, Record
  <2>4. faults' \in 0..MaxFaults
    BY <1>3, FaultType DEF Claim, TypeOK
  <2>5. pc' \in [Requests -> Steps]
    BY <2>1, GotoType DEF TypeOK
  <2>6. TypeOK'
    BY <1>3, <2>3, <2>4, <2>5 DEF Claim, TypeOK, history
  <2>7. Shape'
    BY <1>3, GotoType DEF Claim, TypeOK, Shape, history
  <2> QED
    BY <2>6, <2>7
<1>4. CASE Reload(r)
  <2>1. TypeOK'
    BY <1>4, FaultType, GotoType DEF Reload, Meet, Judged, TypeOK, Record, redis
  <2>2. Shape'
    BY <1>4, GotoType DEF Reload, Meet, Judged, TypeOK, Shape, redis
  <2> QED
    BY <2>1, <2>2
<1> QED
  BY <1>1, <1>2, <1>3, <1>4 DEF Lookup

LEMMA LimitType ==
    ASSUME TypeInv, NEW r \in Requests, Limit(r) \/ Admit(r)
    PROVE  TypeInv'
<1> USE DEF TypeInv, Steps, Active, Waiting, Running, Endings
<1>1. ASSUME NEW w \in Windows, NEW next \in {"rpd", "admit"}, Enforce(r, w, next)
      PROVE  TypeInv'
  <2>1. used' \in [Windows -> Nat]
    BY <1>1 DEF Enforce, TypeOK
  <2>2. TypeOK'
    BY <1>1, <2>1, FaultType, GotoType DEF Enforce, TypeOK, history
  <2>3. Shape'
    BY <1>1, GotoType DEF Enforce, TypeOK, Shape, history, Windows
  <2> QED
    BY <2>2, <2>3
<1>2. CASE Admit(r)
  <2>1. TypeOK'
    BY <1>2, FaultType, GotoType DEF Admit, TypeOK, redis, history
  <2>2. Shape'
    BY <1>2, GotoType DEF Admit, TypeOK, Shape, redis, history
  <2> QED
    BY <2>1, <2>2
<1> QED
  BY <1>1, <1>2 DEF Limit, Windows

LEMMA ExecuteType ==
    ASSUME TypeInv, NEW r \in Requests, Execute(r)
    PROVE  TypeInv'
<1> USE DEF TypeInv, Steps, Active, Waiting, Running, Endings
<1>1. CASE Run(r)
  <2>1. PICK s \in {"abandon", "store", "infer"} : Goto(r, s)
    BY <1>1 DEF Run
  <2>2. pc' \in [Requests -> Steps]
    BY <2>1, GotoType DEF TypeOK
  <2>3. answer' \in [Requests -> Requests \cup {None}]
    BY <1>1 DEF Run, TypeOK, Shape
  <2>4. faults' \in 0..MaxFaults
    BY <1>1, FaultType DEF Run, TypeOK
  <2>5. TypeOK'
    BY <1>1, <2>2, <2>3, <2>4 DEF Run, TypeOK, redis, history
  <2>6. Shape'
    BY <1>1, GotoType DEF Run, TypeOK, Shape, redis, history
  <2> QED
    BY <2>5, <2>6
<1>2. CASE Infer(r)
  <2>1. PICK s \in {"log", "abandon"} : Goto(r, s)
    BY <1>2 DEF Infer
  <2>2. pc' \in [Requests -> Steps]
    BY <2>1, GotoType DEF TypeOK
  <2>3. /\ answer' \in [Requests -> Requests \cup {None}]
        /\ whole \subseteq whole' /\ whole' \subseteq Requests
    BY <1>2 DEF Infer, TypeOK
  <2>4. faults' \in 0..MaxFaults
    BY <1>2, FaultType DEF Infer, TypeOK
  <2>5. TypeOK'
    BY <1>2, <2>2, <2>3, <2>4 DEF Infer, TypeOK, redis
  <2>6. Shape'
    BY <1>2, GotoType DEF Infer, TypeOK, Shape, redis
  <2> QED
    BY <2>5, <2>6
<1>3. CASE Log(r)
  <2>1. PICK s \in {"meter", "abandon"} : Goto(r, s)
    BY <1>3 DEF Log
  <2>2. pc' \in [Requests -> Steps]
    BY <2>1, GotoType DEF TypeOK
  <2>3. wasted' \subseteq whole /\ faults' \in 0..MaxFaults
    BY <1>3, FaultType DEF Log, TypeOK, Shape
  <2>4. TypeOK'
    BY <1>3, <2>2, <2>3 DEF Log, TypeOK, redis
  <2>5. Shape'
    BY <1>3, <2>1, GotoType DEF Log, TypeOK, Shape, redis
  <2> QED
    BY <2>4, <2>5
<1>4. CASE Meter(r)
  <2>1. PICK s \in {"keep", "store", "abandon"} : Goto(r, s)
    BY <1>4 DEF Meter
  <2>2. pc' \in [Requests -> Steps]
    BY <2>1, GotoType DEF TypeOK
  <2>3. /\ metered' \subseteq whole /\ wasted' \subseteq whole
        /\ faults' \in 0..MaxFaults
    BY <1>4, FaultType DEF Meter, TypeOK, Shape
  <2>4. TypeOK'
    BY <1>4, <2>2, <2>3 DEF Meter, TypeOK, redis
  <2>5. Shape'
    BY <1>4, <2>1, GotoType DEF Meter, TypeOK, Shape, redis
  <2> QED
    BY <2>4, <2>5
<1>5. CASE Keep(r)
  <2>1. cached' \in [Bodies -> Requests \cup {None}]
    BY <1>5 DEF Keep, TypeOK
  <2>2. TypeOK'
    BY <1>5, <2>1, FaultType, GotoType DEF Keep, TypeOK, history
  <2>3. Shape'
    BY <1>5, GotoType DEF Keep, TypeOK, Shape, history
  <2> QED
    BY <2>2, <2>3
<1> QED
  BY <1>1, <1>2, <1>3, <1>4, <1>5 DEF Execute

LEMMA StreamType ==
    ASSUME TypeInv, NEW r \in Requests, Stream(r)
    PROVE  TypeInv'
<1> USE DEF TypeInv, Steps, Active, Waiting, Running, Endings
<1>1. CASE Resolve(r)
  <2>1. PICK n \in 0..MaxChain : chain' = [chain EXCEPT ![r] = n]
    BY <1>1 DEF Resolve
  <2>2. TypeOK'
    BY <1>1, <2>1, FaultType, GotoType DEF Resolve, TypeOK, redis, history
  <2>3. Shape'
    BY <1>1, <2>1, GotoType, ChatAssumption DEF Resolve, TypeOK, Shape, redis, history
  <2> QED
    BY <2>2, <2>3
<1>2. CASE Frame(r)
  <2>1. TypeOK'
    BY <1>2, FaultType DEF Frame, TypeOK, Shape, redis, history
  <2>2. Shape'
    BY <1>2 DEF Frame, TypeOK, Shape, redis, history
  <2> QED
    BY <2>1, <2>2
<1>3. CASE StreamFails(r)
  <2>1. chain' \in [Requests -> 0..MaxChain]
        /\ (pc'[r] = "stream" => chain'[r] \in 1..MaxChain)
    BY <1>3, GotoType, ChatAssumption DEF StreamFails, TypeOK, Shape
  <2>2. TypeOK'
    BY <1>3, <2>1, FaultType, GotoType DEF StreamFails, TypeOK, Shape, redis
  <2>3. Shape'
    BY <1>3, <2>1, GotoType DEF StreamFails, TypeOK, Shape, redis
  <2> QED
    BY <2>2, <2>3
<1>4. CASE StreamEnds(r)
  <2>1. TypeOK'
    BY <1>4, FaultType, GotoType DEF StreamEnds, TypeOK, redis
  <2>2. Shape'
    BY <1>4, GotoType DEF StreamEnds, TypeOK, Shape, redis
  <2> QED
    BY <2>1, <2>2
<1>5. CASE StreamLeft(r) \/ Finalize(r)
  <2>1. TypeOK'
    BY <1>5, FaultType, GotoType DEF StreamLeft, Finalize, TypeOK, redis, history
  <2>2. Shape'
    BY <1>5, GotoType DEF StreamLeft, Finalize, TypeOK, Shape, redis, history
  <2> QED
    BY <2>1, <2>2
<1> QED
  BY <1>1, <1>2, <1>3, <1>4, <1>5 DEF Stream

LEMMA EndType ==
    ASSUME TypeInv, NEW r \in Requests, Store(r) \/ Abandon(r) \/ Cancel(r) \/ Crash(r)
    PROVE  TypeInv'
<1> USE DEF TypeInv, Steps, Active, Waiting, Running, Endings
<1>1. TypeOK'
  <2>1. CASE Store(r)
    <3>1. PICK s \in {"answered", "unsaved"} : Goto(r, s)
      BY <2>1 DEF Store
    <3>2. pc' \in [Requests -> Steps]
      BY <3>1, GotoType DEF TypeOK
    <3>3. body[r] \in Bodies /\ answer[r] \in Requests \cup {None}
      BY <2>1 DEF Store, Shape, TypeOK
    <3>4. lock' \in Record \cup {None}
      BY <2>1, <3>3 DEF Store, TypeOK, Record
    <3>5. faults' \in 0..MaxFaults
      BY <2>1, FaultType DEF Store, TypeOK
    <3> QED
      BY <2>1, <3>2, <3>4, <3>5 DEF Store, TypeOK, history
  <2>2. CASE Abandon(r)
    BY <2>2, FaultType, GotoType DEF Abandon, TypeOK, history
  <2>3. CASE Cancel(r) \/ Crash(r)
    BY <2>3, FaultType, GotoType DEF Cancel, Crash, TypeOK, redis, history
  <2> QED
    BY <2>1, <2>2, <2>3
<1>2. Shape'
  BY GotoType DEF Store, Abandon, Cancel, Crash, TypeOK, Shape, redis, history
<1> QED
  BY <1>1, <1>2

LEMMA TimeType ==
    ASSUME TypeInv,
           Expire \/ (\E b \in Bodies : CacheExpires(b)) \/ (\E w \in Windows : WindowEnds(w))
    PROVE  TypeInv'
<1> USE DEF TypeInv
<1>1. CASE Expire
  BY <1>1, FaultType DEF Expire, TypeOK, Shape, process
<1>2. ASSUME NEW b \in Bodies, CacheExpires(b)
      PROVE  TypeInv'
  BY <1>2, FaultType DEF CacheExpires, TypeOK, Shape, process, history
<1>3. ASSUME NEW w \in Windows, WindowEnds(w)
      PROVE  TypeInv'
  BY <1>3, FaultType DEF WindowEnds, TypeOK, Shape, process, history
<1> QED
  BY <1>1, <1>2, <1>3

LEMMA TypeStep == TypeInv /\ [Next]_vars => TypeInv'
<1> SUFFICES ASSUME TypeInv, [Next]_vars PROVE TypeInv'
  OBVIOUS
<1>1. CASE UNCHANGED vars
  BY <1>1 DEF TypeInv, TypeOK, Shape, vars, process, redis, history
<1>2. CASE Next
  BY <1>2, LookupType, LimitType, ExecuteType, StreamType, EndType, TimeType DEF Next
<1> QED
  BY <1>1, <1>2

(* The variables have their types, whatever requests, bodies and faults:    *)
(* in particular only executions that completed are metered.                *)
THEOREM TypeCorrect == Spec => []TypeOK
<1>1. TypeInv => TypeOK
  BY DEF TypeInv
<1> QED
  BY <1>1, TypeInit, TypeStep, PTL DEF Spec

-----------------------------------------------------------------------------
(* The steps of one request                                                 *)

Serve(r) == Lookup(r) \/ Limit(r) \/ Admit(r) \/ Execute(r) \/ Stream(r)
               \/ Store(r) \/ Abandon(r) \/ Cancel(r) \/ Crash(r)

(* Time: the key, a cached response or a rate window ends.                  *)
Lapse == Expire \/ (\E b \in Bodies : CacheExpires(b))
                \/ (\E w \in Windows : WindowEnds(w))

LEMMA NextSteps == Next <=> (\E r \in Requests : Serve(r)) \/ Lapse
  BY DEF Next, Serve, Lapse

-----------------------------------------------------------------------------
(* One voice                                                                *)

Speaks ==
    \A r \in Requests :
        /\ \E v \in Nat : voices[r] \subseteq {v}
        /\ pc[r] = "stream" => voices[r] \subseteq {chain[r]}
        /\ pc[r] \in {"idle", "resolve"} \cup Waiting => voices[r] = {}

(* No step but a frame touches the voices, and none but the resolution and  *)
(* the fallback, both before the first frame, the chain.                    *)
LEMMA QuietStep ==
    ASSUME TypeInv, Speaks, NEW r \in Requests, voices' = voices, pc' \in [Requests -> Steps],
           \A q \in Requests : q # r => pc'[q] = pc[q] /\ chain'[q] = chain[q],
           pc'[r] = "stream" => voices[r] \subseteq {chain'[r]},
           pc'[r] \in {"idle", "resolve"} \cup Waiting => pc[r] \in {"idle"} \cup Waiting
    PROVE  Speaks'
  BY DEF Speaks, Waiting

LEMMA SpeaksInit == Init => Speaks
  BY DEF Init, Speaks

LEMMA SpeaksServe ==
    ASSUME TypeInv, Speaks, NEW r \in Requests, Serve(r)
    PROVE  Speaks'
<1> USE DEF TypeInv, TypeOK, Steps, Active, Waiting, Running, Endings
<1>1. CASE Frame(r)
  <2>1. voices[r] \subseteq {chain[r]} /\ chain[r] \in Nat
    BY <1>1 DEF Frame, Speaks
  <2>2. voices'[r] \subseteq {chain[r]} /\ \A q \in Requests : q # r => voices'[q] = voices[q]
    BY <1>1, <2>1 DEF Frame
  <2> QED
    BY <1>1, <2>1, <2>2 DEF Frame, Speaks
<1>2. CASE Lookup(r)
  <2>1. CASE Begin(r)
    BY <2>1, GotoType, QuietStep DEF Begin
  <2>2. CASE Load(r)
    BY <2>2, GotoType, QuietStep DEF Load, Meet, Judged
  <2>3. CASE Claim(r)
    BY <2>3, GotoType, QuietStep DEF Claim
  <2>4. CASE Reload(r)
    BY <2>4, GotoType, QuietStep DEF Reload, Meet, Judged
  <2> QED
    BY <1>2, <2>1, <2>2, <2>3, <2>4 DEF Lookup
<1>3. CASE Limit(r) \/ Admit(r)
  <2>1. CASE Limit(r)
    BY <2>1, GotoType, QuietStep DEF Limit, Enforce
  <2>2. CASE Admit(r)
    BY <2>2, GotoType, QuietStep DEF Admit
  <2> QED
    BY <1>3, <2>1, <2>2
<1>4. CASE Execute(r)
  BY <1>4, GotoType, QuietStep DEF Execute, Run, Infer, Log, Meter, Keep
<1>5. CASE Resolve(r)
  <2>1. voices[r] = {}
    BY <1>5 DEF Resolve, Speaks
  <2> QED
    BY <1>5, <2>1, GotoType, QuietStep DEF Resolve
<1>6. CASE StreamFails(r)
  <2>1. CASE voices[r] = {} /\ chain' = [chain EXCEPT ![r] = @ - 1]
             /\ Goto(r, IF chain[r] = 1 THEN "abandon" ELSE "stream")
    BY <1>6, <2>1, GotoType, QuietStep DEF StreamFails
  <2>2. CASE Goto(r, "finalize") /\ UNCHANGED chain
    BY <1>6, <2>2, GotoType, QuietStep DEF StreamFails
  <2> QED
    BY <1>6, <2>1, <2>2 DEF StreamFails
<1>7. CASE StreamEnds(r) \/ StreamLeft(r) \/ Finalize(r)
  BY <1>7, GotoType, QuietStep DEF StreamEnds, StreamLeft, Finalize
<1>8. CASE Store(r) \/ Abandon(r) \/ Cancel(r) \/ Crash(r)
  BY <1>8, GotoType, QuietStep DEF Store, Abandon, Cancel, Crash
<1> QED
  BY <1>1, <1>2, <1>3, <1>4, <1>5, <1>6, <1>7, <1>8 DEF Serve, Stream

LEMMA SpeaksStep == TypeInv /\ Speaks /\ [Next]_vars => Speaks'
<1> SUFFICES ASSUME TypeInv, Speaks, [Next]_vars PROVE Speaks'
  OBVIOUS
<1>1. CASE UNCHANGED <<process, voices>>
  BY <1>1 DEF Speaks, process
<1>2. ASSUME NEW r \in Requests, Serve(r) PROVE Speaks'
  BY <1>2, SpeaksServe
<1>3. CASE Lapse
  BY <1>1, <1>3 DEF Lapse, Expire, CacheExpires, WindowEnds, process
<1> QED
  BY <1>1, <1>2, <1>3, NextSteps DEF vars, process

(* A client never sees frames of two providers in one stream, however the   *)
(* providers of its chain fail.                                             *)
THEOREM Monologue == Spec => []OneVoice
<1>1. TypeInv /\ Speaks => OneVoice
  <2> SUFFICES ASSUME Speaks, NEW r \in Requests PROVE Cardinality(voices[r]) <= 1
    BY DEF OneVoice
  <2>1. PICK v \in Nat : voices[r] \subseteq {v}
    BY DEF Speaks
  <2>2. voices[r] = {} \/ voices[r] = {v}
    BY <2>1
  <2>3. Cardinality({}) = 0 /\ Cardinality({v}) = 1
    BY FS_EmptySet, FS_Singleton
  <2> QED
    BY <2>2, <2>3
<1> QED
  BY <1>1, TypeInit, TypeStep, SpeaksInit, SpeaksStep, PTL DEF Spec
-----------------------------------------------------------------------------
(* The key                                                                  *)

(* Past the claim, up to the end of the execution.                          *)
Past == Running \cup {"rpm", "rpd", "admit"}

(* The record is of the body of the request that set it, and that request   *)
(* is at work or ended in one of the ways that release nothing; unless the  *)
(* key lost its hold, whoever is past the claim is the one that set it.     *)
Held ==
    /\ lock # None => pc[lock.by] # "idle" /\ lock.body = body[lock.by]
    /\ LockIsHeld
    /\ lapses \cap {"overtaken", "unlocked"} = {} =>
          \A r \in Requests : pc[r] \in Past =>
              lock # None /\ lock.by = r /\ lock.status = "in_progress"

LEMMA HeldInit == Init => Held
  BY DEF Init, Held, LockIsHeld, Past, Running

(* A step that leaves the record alone.                                     *)
LEMMA KeepingStep ==
    ASSUME TypeInv, Held, NEW r \in Requests, lock' = lock, body' = body, lapses' = lapses,
           pc' \in [Requests -> Steps], \A q \in Requests : q # r => pc'[q] = pc[q],
           pc[r] \in Active, pc'[r] # "idle",
           pc'[r] \in Past => pc[r] \in Past,
           pc'[r] \in Active \cup {"refused", "cancelled", "crashed", "busy", "unsaved",
                                   "unfinalized", "unreleased"}
             \/ (lock # None => lock.by # r \/ lock.status # "in_progress")
    PROVE  Held'
  BY DEF TypeInv, TypeOK, Record, Held, LockIsHeld

LEMMA HeldServe ==
    ASSUME TypeInv, Held, NEW r \in Requests, Serve(r)
    PROVE  Held'
<1> USE DEF TypeInv, TypeOK, Steps, Active, Waiting, Running, Endings, Past
<1>1. CASE Begin(r)
  BY <1>1, GotoType DEF Begin, Held, LockIsHeld, Record, redis, history
<1>2. CASE Load(r)
  <2>1. CASE Meet(r)
    <3>1. lock # None => lock.by # r \/ Judged(r) \in {"replayed", "busy"}
      BY <2>1 DEF Held, Judged, Record
    <3>2. Judged(r) = "replayed" => lock.status # "in_progress"
      BY DEF Judged
    <3>3. Judged(r) \in {"conflict", "replayed", "busy"}
      BY DEF Judged
    <3> QED
      BY <1>2, <2>1, <3>1, <3>2, <3>3, GotoType, KeepingStep DEF Load, Meet, redis, history
  <2>2. CASE Goto(r, "claim")
    BY <1>2, <2>2, GotoType, KeepingStep DEF Load, redis, history
  <2> QED
    BY <1>2, <2>1, <2>2 DEF Load
<1>3. CASE Claim(r)
  <2>1. CASE lock' = lock /\ Goto(r, "reload")
    BY <1>3, <2>1, GotoType, KeepingStep DEF Claim, history
  <2>2. CASE /\ lock = None
             /\ lock' = [status |-> "in_progress", body |-> body[r], by |-> r,
                         response |-> None]
             /\ Goto(r, "rpm") \/ Goto(r, "reload")
    <3>1. PICK s \in {"rpm", "reload"} : Goto(r, s)
      BY <2>2
    <3>2. pc' \in [Requests -> Steps] /\ pc'[r] = s
          /\ \A q \in Requests : q # r => pc'[q] = pc[q]
      BY <3>1, GotoType
    <3>3. lock'.by = r /\ lock'.body = body[r] /\ lock'.status = "in_progress"
      BY <2>2
    <3>4. body' = body /\ lapses' = lapses
      BY <1>3 DEF Claim, history
    <3>5. body[r] \in Bodies
      BY <1>3 DEF Claim, Shape
    <3>6. lock' \in Record
      BY <2>2, <3>5 DEF Record
    <3>7. lock' # None
      BY <3>6, ChatAssumption
    <3> QED
      BY <2>2, <3>2, <3>3, <3>4, <3>7 DEF Held, LockIsHeld
  <2> QED
    BY <1>3, <2>1, <2>2 DEF Claim
<1>4. CASE Reload(r)
  <2>1. CASE Meet(r) /\ UNCHANGED lapses
    <3>1. lock # None => lock.by # r \/ Judged(r) \in {"replayed", "busy"}
      BY <2>1 DEF Held, Judged, Record
    <3>2. Judged(r) = "replayed" => lock.status # "in_progress"
      BY DEF Judged
    <3>3. Judged(r) \in {"conflict", "replayed", "busy"}
      BY DEF Judged
    <3> QED
      BY <1>4, <2>1, <3>1, <3>2, <3>3, GotoType, KeepingStep DEF Reload, Meet, redis
  <2>2. CASE Goto(r, "rpm") /\ lapses' = lapses \cup {"unlocked"}
    BY <1>4, <2>2, GotoType DEF Reload, Held, LockIsHeld, Record, redis
  <2> QED
    BY <1>4, <2>1, <2>2 DEF Reload
<1>5. CASE Limit(r) \/ Admit(r)
  <2>1. CASE Limit(r)
    BY <2>1, GotoType, KeepingStep DEF Limit, Enforce, history
  <2>2. CASE Admit(r)
    BY <2>2, GotoType, KeepingStep DEF Admit, redis, history
  <2> QED
    BY <1>5, <2>1, <2>2
<1>6. CASE Execute(r)
  BY <1>6, GotoType, KeepingStep DEF Execute, Run, Infer, Log, Meter, Keep, redis, history
<1>7. CASE Stream(r)
  <2>1. CASE Resolve(r) \/ StreamEnds(r) \/ StreamLeft(r) \/ Finalize(r)
    BY <2>1, GotoType, KeepingStep DEF Resolve, StreamEnds, StreamLeft, Finalize, redis, history
  <2>2. CASE Frame(r)
    BY <2>2 DEF Frame, Held, LockIsHeld, redis, history
  <2>3. CASE StreamFails(r)
    BY <2>3, GotoType, KeepingStep DEF StreamFails, redis, history
  <2> QED
    BY <1>7, <2>1, <2>2, <2>3 DEF Stream
<1>8. CASE Cancel(r) \/ Crash(r)
  BY <1>8, GotoType, KeepingStep DEF Cancel, Crash, redis, history
<1>9. CASE Store(r)
  <2>1. CASE lock' = lock /\ Goto(r, "unsaved")
    BY <1>9, <2>1, GotoType, KeepingStep DEF Store, history
  <2>2. CASE /\ lock' = [status |-> "completed", body |-> body[r], by |-> r,
                         response |-> answer[r]]
             /\ Goto(r, "answered")
    BY <1>9, <2>2, GotoType DEF Store, Held, LockIsHeld, history
  <2> QED
    BY <1>9, <2>1, <2>2 DEF Store
<1>10. CASE Abandon(r)
  <2>1. CASE lock' = lock /\ Goto(r, "unreleased")
    BY <1>10, <2>1, GotoType, KeepingStep DEF Abandon, history
  <2>2. CASE lock' = None
    BY <1>10, <2>2, GotoType DEF Abandon, Held, LockIsHeld, history
  <2> QED
    BY <1>10, <2>1, <2>2 DEF Abandon
<1> QED
  BY <1>1, <1>2, <1>3, <1>4, <1>5, <1>6, <1>7, <1>8, <1>9, <1>10 DEF Serve, Lookup

LEMMA HeldStep == TypeInv /\ Held /\ [Next]_vars => Held'
<1> SUFFICES ASSUME TypeInv, Held, [Next]_vars PROVE Held'
  OBVIOUS
<1>1. CASE UNCHANGED <<lock, body, pc, lapses>>
  BY <1>1 DEF Held, LockIsHeld
<1>2. ASSUME NEW r \in Requests, Serve(r) PROVE Held'
  BY <1>2, HeldServe
<1>3. CASE Expire
  BY <1>3 DEF Expire, Held, LockIsHeld, Past, Running, Active, process, TypeInv, TypeOK
<1>4. CASE Lapse
  BY <1>1, <1>3, <1>4 DEF Lapse, CacheExpires, WindowEnds, process, history
<1> QED
  BY <1>1, <1>2, <1>4, NextSteps DEF vars, process, redis, history

LEMMA HeldAlways == Spec => [](TypeInv /\ Held)
  BY TypeInit, TypeStep, HeldInit, HeldStep, PTL DEF Spec

(* An in-progress record is one of a request at work or of one that ended   *)
(* without releasing it; a failed execution always released its key.        *)
THEOREM KeysAreHeld == Spec => []LockIsHeld
<1>1. Held => LockIsHeld
  BY DEF Held
<1> QED
  BY <1>1, HeldAlways, PTL

(* Two requests under one key do not execute at once, unless the record     *)
(* expired under one or one went on without it after a lost race.           *)
THEOREM Exclusion == Spec => []OneInFlight
<1>1. Held => OneInFlight
  <2> SUFFICES ASSUME Held, lapses \cap {"overtaken", "unlocked"} = {}
               PROVE  Cardinality({r \in Requests : pc[r] \in Running}) <= 1
    BY DEF OneInFlight
  <2> DEFINE S == {r \in Requests : pc[r] \in Running}
  <2>1. \A r \in S : r = lock.by
    BY DEF Held, Past
  <2>2. S = {} \/ S = {lock.by}
    BY <2>1
  <2>3. Cardinality({}) = 0 /\ Cardinality({lock.by}) = 1
    BY FS_EmptySet, FS_Singleton
  <2> QED
    BY <2>2, <2>3
<1> QED
  BY <1>1, HeldAlways, PTL

(* A stored answer is neither deleted nor replaced before it expires, unless*)
(* a request runs without holding the key.                                  *)
THEOREM AnswersAreKept == Spec => StoredIsKept
<1>1. TypeInv /\ Held /\ [Next]_vars =>
        [lock # None /\ lock.status = "completed" =>
            \/ lock' = lock
            \/ lock' = None /\ pc' = pc
            \/ lapses \cap {"overtaken", "unlocked"} # {}]_vars
  <2> SUFFICES ASSUME TypeInv, Held, [Next]_vars, lock # None, lock.status = "completed",
                      lapses \cap {"overtaken", "unlocked"} = {}
               PROVE  lock' = lock \/ (lock' = None /\ pc' = pc)
    OBVIOUS
  <2>1. \A r \in Requests : pc[r] \notin Past
    BY DEF Held
  <2>2. ASSUME NEW r \in Requests, Serve(r) PROVE lock' = lock
    <3>1. ~Store(r) /\ ~Abandon(r)
      BY <2>1 DEF Store, Abandon, Past, Running
    <3>2. CASE Claim(r)
      BY <3>2 DEF Claim
    <3> QED
      BY <2>2, <3>1, <3>2 DEF Serve, Lookup, Begin, Load, Reload, Limit, Enforce, Admit,
         Execute, Run, Infer, Log, Meter, Keep, Stream, Resolve, Frame, StreamFails, StreamEnds,
         StreamLeft, Finalize, Cancel, Crash, redis
  <2>3. CASE Lapse
    BY <2>3 DEF Lapse, Expire, CacheExpires, WindowEnds, process
  <2> QED
    BY <2>2, <2>3, NextSteps DEF vars, redis
<1> QED
  BY <1>1, HeldAlways, PTL DEF Spec, StoredIsKept
-----------------------------------------------------------------------------
(* The bill                                                                 *)

(* Where an execution may stand whose answer was produced and kept, and     *)
(* where one whose answer was thrown away.                                  *)
Spent  == {"log", "meter", "keep", "store", "finalize", "answered", "unsaved",
           "unfinalized", "crashed"}
Thrown == {"abandon", "error", "unreleased", "crashed"}

(* A metered execution is past the meter, and was not thrown away.          *)
Spending ==
    /\ \A r \in wasted : pc[r] \in Thrown
    /\ \A r \in Kept : pc[r] \in Spent
    /\ \A r \in metered : r \notin wasted /\ pc[r] \notin {"log", "meter"}

LEMMA SpendingInit == Init => Spending
  BY DEF Init, Spending, Kept

(* A step that produces, meters and throws away nothing.                    *)
LEMMA SparingStep ==
    ASSUME TypeInv, Spending, NEW r \in Requests,
           UNCHANGED <<metered, wasted, whole, truncated>>,
           \A q \in Requests : q # r => pc'[q] = pc[q],
           pc[r] \in Spent => pc'[r] \in Spent,
           pc[r] \in Thrown => pc'[r] \in Thrown,
           pc'[r] \in {"log", "meter"} => pc[r] \in {"log", "meter"}
    PROVE  Spending'
  BY DEF Spending, Kept, TypeInv, TypeOK

LEMMA SpendingServe ==
    ASSUME TypeInv, Spending, NEW r \in Requests, Serve(r)
    PROVE  Spending'
<1> USE DEF TypeInv, TypeOK, Steps, Active, Waiting, Running, Endings, Spent, Thrown
<1>1. CASE Lookup(r) \/ Limit(r) \/ Admit(r)
  <2>1. UNCHANGED <<metered, wasted, whole, truncated>>
    BY <1>1 DEF Lookup, Begin, Load, Claim, Reload, Limit, Enforce, Admit, history
  <2>2. pc[r] \in {"idle"} \cup Waiting
    BY <1>1 DEF Lookup, Begin, Load, Claim, Reload, Limit, Enforce, Admit
  <2>3. PICK s \in Steps \ {"log", "meter"} : Goto(r, s)
    BY <1>1 DEF Lookup, Begin, Load, Claim, Reload, Meet, Judged, Limit, Enforce, Admit
  <2> QED
    BY <2>1, <2>2, <2>3, GotoType, SparingStep
<1>2. CASE Run(r) \/ Keep(r)
  <2>1. UNCHANGED <<metered, wasted, whole, truncated>>
    BY <1>2 DEF Run, Keep, history
  <2>2. /\ pc[r] \in {"run", "keep"}
        /\ pc[r] = "keep" => Goto(r, "store")
    BY <1>2 DEF Run, Keep
  <2>3. PICK s \in {"abandon", "store", "infer"} : Goto(r, s)
    BY <1>2 DEF Run, Keep
  <2>4. pc'[r] = s /\ \A q \in Requests : q # r => pc'[q] = pc[q]
    BY <2>3, GotoType
  <2>5. pc[r] = "keep" => pc'[r] = "store"
    BY <2>2, GotoType
  <2> QED
    BY <2>1, <2>2, <2>4, <2>5, SparingStep
<1>3. CASE Infer(r)
  <2>1. r \notin Kept /\ r \notin metered /\ r \notin wasted
    BY <1>3 DEF Infer, Spending, Kept
  <2>2. CASE Goto(r, "log") /\ whole' = whole \cup {r}
    BY <1>3, <2>1, <2>2, GotoType DEF Infer, Spending, Kept
  <2>3. CASE Goto(r, "abandon") /\ UNCHANGED <<whole, answer>>
    BY <1>3, <2>3, GotoType, SparingStep DEF Infer
  <2> QED
    BY <1>3, <2>2, <2>3 DEF Infer
<1>4. CASE Log(r) \/ Meter(r)
  <2>1. r \notin metered /\ r \notin wasted
    BY <1>4 DEF Log, Meter, Spending
  <2>2. CASE Goto(r, "abandon") /\ wasted' = wasted \cup {r} /\ metered' = metered
    BY <1>4, <2>1, <2>2, GotoType DEF Log, Meter, Spending, Kept
  <2>3. CASE Goto(r, "meter") /\ UNCHANGED <<wasted, metered>>
    BY <1>4, <2>3, GotoType, SparingStep DEF Log, Meter
  <2>4. ASSUME NEW s \in {"keep", "store"}, Goto(r, s), wasted' = wasted,
               metered' \in {metered, metered \cup {r}}
        PROVE  Spending'
    BY <1>4, <2>1, <2>4, GotoType DEF Log, Meter, Spending, Kept
  <2> QED
    BY <1>4, <2>2, <2>3, <2>4 DEF Log, Meter
<1>5. CASE Resolve(r) \/ StreamLeft(r) \/ Finalize(r)
  BY <1>5, GotoType, SparingStep DEF Resolve, StreamLeft, Finalize, history
<1>6. CASE Frame(r)
  BY <1>6 DEF Frame, Spending, Kept, history
<1>7. CASE StreamFails(r) \/ StreamEnds(r)
  <2>1. r \notin Kept /\ r \notin metered /\ r \notin wasted
    BY <1>7 DEF StreamFails, StreamEnds, Spending, Kept
  <2>2. CASE /\ Goto(r, "finalize") /\ UNCHANGED <<metered, wasted>>
             /\ whole' \cup truncated' = whole \cup truncated \cup {r}
    BY <2>1, <2>2, GotoType DEF Spending, Kept
  <2>3. CASE Goto(r, IF chain[r] = 1 THEN "abandon" ELSE "stream")
             /\ UNCHANGED <<metered, wasted, whole, truncated>>
    BY <1>7, <2>3, GotoType, SparingStep DEF StreamFails, StreamEnds
  <2> QED
    BY <1>7, <2>2, <2>3 DEF StreamFails, StreamEnds
<1>8. CASE Store(r) \/ Abandon(r) \/ Cancel(r) \/ Crash(r)
  BY <1>8, GotoType, SparingStep DEF Store, Abandon, Cancel, Crash, history
<1> QED
  BY <1>1, <1>2, <1>3, <1>4, <1>5, <1>6, <1>7, <1>8 DEF Serve, Execute, Stream

LEMMA SpendingStep == TypeInv /\ Spending /\ [Next]_vars => Spending'
<1> SUFFICES ASSUME TypeInv, Spending, [Next]_vars PROVE Spending'
  OBVIOUS
<1>1. CASE UNCHANGED <<pc, metered, wasted, whole, truncated>>
  BY <1>1 DEF Spending, Kept
<1>2. ASSUME NEW r \in Requests, Serve(r) PROVE Spending'
  BY <1>2, SpendingServe
<1>3. CASE Lapse
  BY <1>1, <1>3 DEF Lapse, Expire, CacheExpires, WindowEnds, process, history
<1> QED
  BY <1>1, <1>2, <1>3, NextSteps DEF vars, process, redis, history

(* While the key has never lapsed, an execution that was not thrown away is *)
(* that of the record.                                                      *)
Billed == lapses = {} => \A r \in Kept : lock # None /\ lock.by = r

LEMMA BilledInit == Init => Billed
  BY DEF Init, Billed, Kept

LEMMA BilledServe ==
    ASSUME TypeInv, Held, Spending, Billed, NEW r \in Requests, Serve(r), lapses' = {}
    PROVE  Billed'
<1> USE DEF TypeInv, TypeOK, Steps, Active, Waiting, Running, Endings, Past
<1>1. lapses = {}
  BY DEF Serve, Lookup, Begin, Load, Claim, Reload, Limit, Enforce, Admit, Execute, Run,
     Infer, Log, Meter, Keep, Stream, Resolve, Frame, StreamFails, StreamEnds, StreamLeft,
     Finalize, Store, Abandon, Cancel, Crash, history
<1>2. \A q \in Kept : lock # None /\ lock.by = q
  BY <1>1 DEF Billed
<1>3. pc[r] \in Past => lock # None /\ lock.by = r
  BY <1>1 DEF Held
<1>4. CASE lock' = lock /\ Kept' \subseteq Kept
  BY <1>2, <1>4 DEF Billed
<1>5. CASE pc[r] \in Past /\ lock' = lock /\ Kept' \subseteq Kept \cup {r}
  BY <1>2, <1>3, <1>5 DEF Billed
<1>6. CASE Store(r)
  <2>1. Kept' = Kept /\ Kept \subseteq {r}
    BY <1>2, <1>3, <1>6 DEF Store, Kept, history
  <2>2. lock' # None /\ lock'.by = r
    <3>1. CASE lock' = lock
      BY <1>3, <1>6, <3>1 DEF Store
    <3>2. CASE lock' = [status |-> "completed", body |-> body[r], by |-> r,
                        response |-> answer[r]]
      <4>1. lock' \in Record
        BY <1>6, <3>2 DEF Store, Record, Shape
      <4> QED
        BY <3>2, <4>1, ChatAssumption
    <3> QED
      BY <1>6, <3>1, <3>2 DEF Store
  <2> QED
    BY <2>1, <2>2 DEF Billed
<1>7. CASE Abandon(r)
  <2>1. Kept' = Kept /\ pc[r] \in {"abandon", "gone"}
    BY <1>7 DEF Abandon, Kept, history
  <2>2. r \notin Kept
    BY <2>1 DEF Spending, Spent
  <2>3. Kept = {}
    BY <1>2, <1>3, <2>1, <2>2
  <2> QED
    BY <2>1, <2>3 DEF Billed
<1>8. CASE Claim(r)
  <2>1. Kept' = Kept
    BY <1>8 DEF Claim, Kept, history
  <2>2. lock' = lock \/ lock = None
    BY <1>8 DEF Claim
  <2> QED
    BY <1>2, <2>1, <2>2 DEF Billed
<1>9. CASE Lookup(r) \/ Limit(r) \/ Admit(r)
  BY <1>4, <1>8, <1>9 DEF Lookup, Begin, Load, Reload, Limit, Enforce, Admit, redis,
     history, Kept
<1>10. CASE Execute(r)
  <2>1. CASE Infer(r)
    BY <1>5, <2>1 DEF Infer, redis, Kept
  <2> QED
    BY <1>4, <1>10, <2>1 DEF Execute, Run, Log, Meter, Keep, redis, history, Kept
<1>11. CASE Stream(r)
  <2>1. CASE StreamFails(r) \/ StreamEnds(r)
    BY <1>5, <2>1 DEF StreamFails, StreamEnds, redis, Kept
  <2> QED
    BY <1>4, <1>11, <2>1 DEF Stream, Resolve, Frame, StreamLeft, Finalize, redis,
       history, Kept
<1>12. CASE Cancel(r) \/ Crash(r)
  BY <1>4, <1>12 DEF Cancel, Crash, redis, history, Kept
<1> QED
  BY <1>6, <1>7, <1>9, <1>10, <1>11, <1>12 DEF Serve

LEMMA BilledStep == TypeInv /\ Held /\ Spending /\ Billed /\ [Next]_vars => Billed'
<1> SUFFICES ASSUME TypeInv, Held, Spending, Billed, [Next]_vars, lapses' = {} PROVE Billed'
  BY DEF Billed
<1>1. CASE UNCHANGED <<lock, wasted, whole, truncated, lapses>>
  BY <1>1 DEF Billed, Kept
<1>2. ASSUME NEW r \in Requests, Serve(r) PROVE Billed'
  BY <1>2, BilledServe
<1>3. CASE Lapse
  <2>1. ~Expire
    BY DEF Expire
  <2> QED
    BY <1>1, <1>3, <2>1 DEF Lapse, CacheExpires, WindowEnds, process, history
<1> QED
  BY <1>1, <1>2, <1>3, NextSteps DEF vars, process, redis, history

(* However often a request is retried under its key, at most one execution  *)
(* is not thrown away, as long as the record has not expired and no request *)
(* went on without it; and only such a one is ever metered, whatever the    *)
(* log, the quota and the meter refuse or fail.                             *)
THEOREM OneBill == Spec => []BilledOnce
<1>1. TypeInv /\ Spending /\ Billed => BilledOnce
  <2> SUFFICES ASSUME TypeInv, Spending, Billed PROVE BilledOnce
    OBVIOUS
  <2>1. metered \subseteq Kept
    BY DEF Spending, Kept, TypeInv, TypeOK
  <2>2. ASSUME lapses = {} PROVE Cardinality(Kept) <= 1
    <3>1. Kept = {} \/ Kept = {lock.by}
      BY <2>2 DEF Billed
    <3>2. Cardinality({}) = 0 /\ Cardinality({lock.by}) = 1
      BY FS_EmptySet, FS_Singleton
    <3> QED
      BY <3>1, <3>2
  <2> QED
    BY <2>1, <2>2 DEF BilledOnce
<1> QED
  BY <1>1, HeldAlways, SpendingInit, SpendingStep, BilledInit, BilledStep, PTL DEF Spec

-----------------------------------------------------------------------------
(* The answers                                                              *)

Produced == whole \cup truncated

(* What a record, the cache or a request about to answer holds was produced *)
(* by an execution of the same body.                                        *)
Answers ==
    /\ \A r \in Requests : pc[r] = "idle" => r \notin Produced
    /\ lock # None /\ lock.status = "completed" =>
          lock.response \in Produced /\ body[lock.response] = lock.body
    /\ \A b \in Bodies : cached[b] # None => cached[b] \in whole /\ body[cached[b]] = b
    /\ \A r \in Requests : pc[r] \in {"log", "meter", "keep"} =>
          r \in whole /\ answer[r] = r
    /\ \A r \in Requests : pc[r] \in {"store", "finalize", "replayed"} =>
          answer[r] \in Produced /\ body[answer[r]] = body[r]

LEMMA AnswersInit == Init => Answers
  BY DEF Init, Answers, Produced

(* A step that produces nothing and stores nothing.                         *)
LEMMA IdleStep ==
    ASSUME TypeInv, Answers, NEW r \in Requests, lock' = lock, cached' = cached, body' = body,
           whole' = whole, truncated' = truncated,
           pc' \in [Requests -> Steps],
           \A q \in Requests : q # r => pc'[q] = pc[q] /\ answer'[q] = answer[q],
           pc'[r] \notin {"idle", "log"},
           pc'[r] \in {"meter", "keep"} =>
              pc[r] \in {"log", "meter"} /\ answer'[r] = answer[r],
           pc'[r] \in {"store", "finalize", "replayed"} =>
              answer'[r] \in Produced /\ body[answer'[r]] = body[r]
    PROVE  Answers'
  BY DEF Answers, Produced

LEMMA AnswersServe ==
    ASSUME TypeInv, Held, Answers, NEW r \in Requests, Serve(r)
    PROVE  Answers'
<1> USE DEF TypeInv, TypeOK, Steps, Active, Waiting, Running, Endings
<1>0. Judged(r) \in {"conflict", "replayed", "busy"}
      /\ (lock # None /\ Judged(r) = "replayed"
            => lock.response \in Produced /\ body[lock.response] = body[r])
  <2>1. Judged(r) \in {"conflict", "replayed", "busy"}
    BY DEF Judged
  <2>2. Judged(r) = "replayed" => lock.body = body[r] /\ lock.status = "completed"
    BY DEF Judged
  <2> QED
    BY <2>1, <2>2 DEF Answers
<1>1. CASE Begin(r)
  <2>1. r \notin Produced /\ \A q \in Produced : body'[q] = body[q]
    BY <1>1 DEF Begin, Answers, Produced
  <2>2. \A q \in Requests : q # r => body'[q] = body[q]
    BY <1>1 DEF Begin
  <2>3. pc'[r] = "load" /\ \A q \in Requests : q # r => pc'[q] = pc[q]
    BY <1>1, GotoType DEF Begin
  <2> QED
    BY <1>1, <2>1, <2>2, <2>3 DEF Begin, Answers, Produced, redis, history
<1>2. CASE Load(r)
  BY <1>0, <1>2, GotoType, IdleStep DEF Load, Meet, redis, history
<1>3. CASE Claim(r)
  <2>1. CASE lock' = lock
    BY <1>3, <2>1, GotoType, IdleStep DEF Claim, history
  <2>2. CASE lock' = [status |-> "in_progress", body |-> body[r], by |-> r,
                      response |-> None]
    BY <1>3, <2>2, GotoType DEF Claim, Answers, Produced, history
  <2> QED
    BY <1>3, <2>1, <2>2 DEF Claim
<1>4. CASE Reload(r)
  BY <1>0, <1>4, GotoType, IdleStep DEF Reload, Meet, redis, history
<1>5. CASE Limit(r) \/ Admit(r)
  BY <1>5, GotoType, IdleStep DEF Limit, Enforce, Admit, redis, history
<1>6. CASE Run(r)
  <2>1. body[r] \in Bodies
    BY <1>6 DEF Run, Shape
  <2>2. cached[body[r]] # None => cached[body[r]] \in Produced /\ body[cached[body[r]]] = body[r]
    BY <2>1 DEF Answers, Produced
  <2> QED
    BY <1>6, <2>2, GotoType, IdleStep DEF Run, redis, history
<1>7. CASE Infer(r)
  <2>1. CASE Goto(r, "abandon") /\ UNCHANGED <<whole, answer>>
    BY <1>7, <2>1, GotoType, IdleStep DEF Infer, redis
  <2>2. CASE Goto(r, "log") /\ whole' = whole \cup {r} /\ answer' = [answer EXCEPT ![r] = r]
    BY <1>7, <2>2, GotoType DEF Infer, Answers, Produced, redis
  <2> QED
    BY <1>7, <2>1, <2>2 DEF Infer
<1>8. CASE Log(r)
  BY <1>8, GotoType, IdleStep DEF Log, redis
<1>9. CASE Meter(r)
  <2>1. answer[r] \in Produced /\ body[answer[r]] = body[r]
    BY <1>9 DEF Meter, Answers, Produced
  <2> QED
    BY <1>9, <2>1, GotoType, IdleStep DEF Meter, redis
<1>17. CASE Keep(r)
  <2>1. r \in whole /\ answer[r] = r /\ body[r] \in Bodies
    BY <1>17 DEF Keep, Answers, Shape
  <2>2. \A b \in Bodies : cached'[b] = cached[b] \/ (b = body[r] /\ cached'[b] = r)
    BY <1>17 DEF Keep
  <2>3. pc'[r] = "store" /\ \A q \in Requests : q # r => pc'[q] = pc[q]
    BY <1>17, GotoType DEF Keep
  <2> QED
    BY <1>17, <2>1, <2>2, <2>3 DEF Keep, Answers, Produced, history
<1>10. CASE Resolve(r) \/ StreamLeft(r) \/ Finalize(r)
  <2>1. pc[r] = "finalize" => answer[r] \in Produced /\ body[answer[r]] = body[r]
    BY DEF Answers
  <2> QED
    BY <1>10, <2>1, GotoType, IdleStep DEF Resolve, StreamLeft, Finalize, redis, history
<1>11. CASE Frame(r)
  BY <1>11 DEF Frame, Answers, Produced, redis, history
<1>12. CASE StreamFails(r)
  <2>1. CASE UNCHANGED <<answer, truncated>> /\ Goto(r, IF chain[r] = 1 THEN "abandon" ELSE "stream")
    BY <1>12, <2>1, GotoType, IdleStep DEF StreamFails, redis
  <2>2. CASE Goto(r, "finalize") /\ truncated' = truncated \cup {r}
             /\ answer' = [answer EXCEPT ![r] = r]
    BY <1>12, <2>2, GotoType DEF StreamFails, Answers, Produced, redis
  <2> QED
    BY <1>12, <2>1, <2>2 DEF StreamFails
<1>13. CASE StreamEnds(r)
  BY <1>13, GotoType DEF StreamEnds, Answers, Produced, redis
<1>14. CASE Store(r)
  <2>1. answer[r] \in Produced /\ body[answer[r]] = body[r]
    BY <1>14 DEF Store, Answers
  <2>2. pc'[r] \in {"answered", "unsaved"} /\ \A q \in Requests : q # r => pc'[q] = pc[q]
    BY <1>14, GotoType DEF Store
  <2>3. lock' = lock \/ (lock'.response = answer[r] /\ lock'.body = body[r])
    BY <1>14 DEF Store
  <2> QED
    BY <1>14, <2>1, <2>2, <2>3 DEF Store, Answers, Produced, history
<1>15. CASE Abandon(r)
  BY <1>15, GotoType DEF Abandon, Answers, Produced, history
<1>16. CASE Cancel(r) \/ Crash(r)
  BY <1>16, GotoType, IdleStep DEF Cancel, Crash, redis, history
<1> QED
  BY <1>1, <1>2, <1>3, <1>4, <1>5, <1>6, <1>7, <1>8, <1>9, <1>10, <1>11, <1>12, <1>13,
     <1>14, <1>15, <1>16, <1>17 DEF Serve, Lookup, Execute, Stream

LEMMA AnswersStep == TypeInv /\ Held /\ Answers /\ [Next]_vars => Answers'
<1> SUFFICES ASSUME TypeInv, Held, Answers, [Next]_vars PROVE Answers'
  OBVIOUS
<1>1. ASSUME NEW r \in Requests, Serve(r) PROVE Answers'
  BY <1>1, AnswersServe
<1>2. CASE Lapse
  BY <1>2 DEF Lapse, Expire, CacheExpires, WindowEnds, process, history, Answers, Produced,
              TypeInv, TypeOK
<1>3. CASE UNCHANGED vars
  BY <1>3 DEF vars, process, redis, history, Answers, Produced
<1> QED
  BY <1>1, <1>2, <1>3, NextSteps

(* A replay gives back what an execution of the very same body produced,    *)
(* through whatever caches, retries and expiries it went.                   *)
THEOREM ReplaysAreFaithful == Spec => []ReplayIsFaithful
<1>1. Answers => ReplayIsFaithful
  BY DEF Answers, Produced, ReplayIsFaithful
<1> QED
  BY <1>1, HeldAlways, AnswersInit, AnswersStep, PTL DEF Spec
=============================================================================
