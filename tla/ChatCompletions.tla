-------------------------- MODULE ChatCompletions --------------------------
(***************************************************************************)
(* POST /v1/chat/completions with an Idempotency-Key                       *)
(* (app/openai_compat): the key's record in Redis, the tenant's rate       *)
(* windows, the response cache, the JSON, buffered-SSE and true-SSE paths, *)
(* and the log and usage rows they commit.                                 *)
(*                                                                         *)
(* One tenant, one key: records of different keys never meet.  A request   *)
(* carries one body; a retry is another request with the same body.        *)
(* Requests may be served by different API processes, so every Redis       *)
(* command, commit and provider call is a step of its own.  A response is  *)
(* named by the request whose execution produced it.                       *)
(***************************************************************************)
EXTENDS Naturals, FiniteSets

CONSTANTS
    Requests,     \* requests that carry the key
    Bodies,       \* request bodies (what request_hash tells apart)
    Streams,      \* bodies with stream = true
    Unsafe,       \* bodies the prompt guard refuses
    Cacheable,    \* JSON bodies with temperature 0
    MinuteLimit,  \* the plan's requests per minute
    DayLimit,     \* and per day
    MaxChain,     \* bound: providers in a stream's fallback chain
    FaultKinds,   \* faults that may strike
    MaxFaults,    \* bound: how many strike
    None          \* no record, no response, no body

Windows == {"rpm", "rpd"}

Limits == [rpm |-> MinuteLimit, rpd |-> DayLimit]

AllFaults == {"redis", "provider", "db", "cancel", "crash", "expiry"}

Record == [status : {"in_progress", "completed"}, body : Bodies,
           by : Requests, response : Requests \cup {None}]

ASSUME ChatAssumption ==
    /\ Streams \subseteq Bodies /\ Unsafe \subseteq Bodies
    /\ Cacheable \subseteq Bodies \ Streams
    /\ MinuteLimit \in Nat /\ DayLimit \in Nat
    /\ MaxChain \in Nat /\ MaxFaults \in Nat
    /\ FaultKinds \subseteq AllFaults
    /\ None \notin Requests \cup Bodies \cup Record

VARIABLES
    streaming,   \* the deployment's SSE path: off, buffered or true
    lock,        \* the key's record in Redis, or None
    cached,      \* the response cache: body -> response or None
    used,        \* the counters of the current minute and day
    pc,          \* where each request stands, or how it ended
    body,        \* what each request asks
    answer,      \* the response each request has in hand
    chain,       \* providers its stream may still try
    voices,      \* providers whose frames its client has seen
    metered,     \* executions recorded in the usage meter, wholly or in part
    wasted,      \* executions whose answer was thrown away: their log failed
                 \* or the meter refused them
    whole,       \* executions whose provider call completed
    truncated,   \* executions whose stream broke after a frame
    lapses,      \* how the key lost its hold: aged, overtaken, unlocked
    faults       \* faults so far

process == <<pc, body, answer, chain, voices>>
redis   == <<lock, cached, used>>
history == <<metered, wasted, whole, truncated, lapses>>
vars    == <<streaming, redis, process, history, faults>>

(* STREAM_ENABLED = false; the stub or the gateway behind it otherwise.     *)
StreamModes == {"off", "buffered", "true"}

Waiting == {"load", "claim", "reload", "rpm", "rpd", "admit"}
Running == {"run", "infer", "log", "meter", "keep", "resolve",
            "stream", "finalize", "abandon", "gone", "store"}
Active  == Waiting \cup Running
Endings == {"replayed", "answered", "conflict", "busy", "refused", "error",
            "cancelled", "crashed", "unsaved", "unfinalized", "unreleased"}

Fault(kind) ==
    /\ kind \in FaultKinds /\ faults < MaxFaults
    /\ faults' = faults + 1

NoFault == UNCHANGED faults

Goto(r, step) == pc' = [pc EXCEPT ![r] = step]

Init ==
    /\ streaming \in StreamModes
    /\ lock = None
    /\ cached = [b \in Bodies |-> None]
    /\ used = [w \in Windows |-> 0]
    /\ pc = [r \in Requests |-> "idle"]
    /\ body = [r \in Requests |-> None]
    /\ answer = [r \in Requests |-> None]
    /\ chain = [r \in Requests |-> 0]
    /\ voices = [r \in Requests |-> {}]
    /\ metered = {} /\ wasted = {} /\ whole = {} /\ truncated = {} /\ lapses = {}
    /\ faults = 0

-----------------------------------------------------------------------------
(* IdempotencyStore.begin_or_lookup *)

Begin(r) ==
    /\ pc[r] = "idle"
    /\ Goto(r, "load")
    /\ body' \in {[body EXCEPT ![r] = b] : b \in Bodies}
    /\ NoFault
    /\ UNCHANGED <<streaming, redis, answer, chain, voices, history>>

(* Mutant: the stored hash is not compared. *)
JudgedByKey(r) == IF lock.status = "completed" THEN "replayed" ELSE "busy"

(* What a record found under the key makes of the request. *)
Judged(r) ==
    IF lock.body # body[r] THEN "conflict"
    ELSE IF lock.status = "completed" THEN "replayed" ELSE "busy"

(* Mutant: the conflict is raised inside the try that abandons the key. *)
MeetAbandoning(r) ==
    /\ lock # None
    /\ Goto(r, IF Judged(r) = "conflict" THEN "abandon" ELSE Judged(r))
    /\ answer' = IF Judged(r) = "replayed"
                 THEN [answer EXCEPT ![r] = lock.response] ELSE answer

Meet(r) ==
    /\ lock # None
    /\ Goto(r, Judged(r))
    /\ answer' = IF Judged(r) = "replayed"
                 THEN [answer EXCEPT ![r] = lock.response] ELSE answer

Load(r) ==
    /\ pc[r] = "load"
    /\ \/ Meet(r) /\ NoFault
       \/ lock = None /\ Goto(r, "claim") /\ NoFault /\ UNCHANGED answer
       \/ Fault("redis") /\ Goto(r, "claim") /\ UNCHANGED answer
    /\ UNCHANGED <<streaming, redis, body, chain, voices, history>>

(* Mutant: a plain SET. *)
ClaimOver(r) ==
    /\ pc[r] = "claim" /\ NoFault
    /\ lock' = [status |-> "in_progress", body |-> body[r], by |-> r,
                response |-> None]
    /\ Goto(r, "rpm")
    /\ UNCHANGED <<streaming, cached, used, body, answer, chain, voices, history>>

(* SET NX.  A lost reply leaves the record set and the request unaware. *)
Claim(r) ==
    LET mine == [status |-> "in_progress", body |-> body[r], by |-> r,
                 response |-> None]
    IN /\ pc[r] = "claim"
       /\ \/ lock = None /\ lock' = mine /\ Goto(r, "rpm") /\ NoFault
          \/ lock # None /\ Goto(r, "reload") /\ NoFault /\ UNCHANGED lock
          \/ /\ Fault("redis") /\ Goto(r, "reload")
             /\ lock' \in IF lock = None THEN {None, mine} ELSE {lock}
       /\ UNCHANGED <<streaming, cached, used, body, answer, chain, voices, history>>

(* After a lost race: no record means Redis is taken to be flaky and the    *)
(* request goes on without holding the key.                                *)
Reload(r) ==
    /\ pc[r] = "reload"
    /\ \/ Meet(r) /\ NoFault /\ UNCHANGED lapses
       \/ /\ \/ lock = None /\ NoFault
             \/ Fault("redis")
          /\ Goto(r, "rpm") /\ UNCHANGED answer
          /\ lapses' = lapses \cup {"unlocked"}
    /\ UNCHANGED <<streaming, redis, body, chain, voices, metered, wasted, whole,
                   truncated>>

-----------------------------------------------------------------------------
(* OpenAICompatRateLimiter.enforce, and the checks before a stream *)

(* One INCR per window, the minute first; a refused request still counts.   *)
(* A Redis error lets the request through.                                 *)
Enforce(r, w, next) ==
    /\ pc[r] = w
    /\ \/ /\ used' = [used EXCEPT ![w] = @ + 1]
          /\ Goto(r, IF used'[w] > Limits[w] THEN "refused" ELSE next)
          /\ NoFault
       \/ /\ Fault("redis") /\ Goto(r, "admit")
          /\ used' \in {used, [used EXCEPT ![w] = @ + 1]}
    /\ UNCHANGED <<streaming, lock, cached, body, answer, chain, voices, history>>

Admit(r) ==
    /\ pc[r] = "admit"
    /\ Goto(r, CASE body[r] \notin Streams       -> "run"
                 [] streaming = "off"            -> "refused"
                 [] body[r] \in Unsafe           -> "refused"
                 [] streaming = "true"           -> "resolve"
                 [] OTHER                        -> "infer")
    /\ NoFault
    /\ UNCHANGED <<streaming, redis, body, answer, chain, voices, history>>

-----------------------------------------------------------------------------
(* create_completion and build_stream_material *)

(* Mutant: a cache hit is metered. *)
RunMetered(r) ==
    /\ pc[r] = "run" /\ NoFault
    /\ body[r] \notin Unsafe
    /\ Goto(r, IF cached[body[r]] = None THEN "infer" ELSE "meter")
    /\ UNCHANGED <<streaming, redis, body, answer, chain, voices, history>>

(* The JSON path's guard and its response cache. *)
Run(r) ==
    /\ pc[r] = "run"
    /\ LET hit == body[r] \in Cacheable /\ cached[body[r]] # None
       IN \/ /\ body[r] \in Unsafe
             /\ Goto(r, "abandon") /\ NoFault /\ UNCHANGED answer
          \/ /\ body[r] \notin Unsafe /\ hit
             /\ answer' = [answer EXCEPT ![r] = cached[body[r]]]
             /\ Goto(r, "store") /\ NoFault
          \/ /\ body[r] \notin Unsafe
             /\ \/ ~hit /\ NoFault
                \/ hit /\ Fault("redis")
             /\ Goto(r, "infer") /\ UNCHANGED answer
    /\ UNCHANGED <<streaming, redis, body, chain, voices, history>>

(* The provider call; a failure is logged, mapped and raised. *)
Infer(r) ==
    /\ pc[r] = "infer"
    /\ \/ /\ Goto(r, "log") /\ NoFault
          /\ whole' = whole \cup {r}
          /\ answer' = [answer EXCEPT ![r] = r]
       \/ Fault("provider") /\ Goto(r, "abandon") /\ UNCHANGED <<whole, answer>>
    /\ UNCHANGED <<streaming, redis, body, chain, voices, metered, wasted,
                   truncated, lapses>>

(* Mutant: usage is recorded before the log. *)
LogMetered(r) ==
    /\ pc[r] = "log"
    /\ metered' = metered \cup {r}
    /\ \/ Goto(r, "store") /\ NoFault /\ UNCHANGED wasted
       \/ Fault("db") /\ Goto(r, "abandon") /\ wasted' = wasted \cup {r}
    /\ UNCHANGED <<streaming, redis, body, answer, chain, voices, whole,
                   truncated, lapses>>

(* _persist_log: its failure fails the request. *)
Log(r) ==
    /\ pc[r] = "log"
    /\ \/ Goto(r, "meter") /\ NoFault /\ UNCHANGED wasted
       \/ Fault("db") /\ Goto(r, "abandon") /\ wasted' = wasted \cup {r}
    /\ UNCHANGED <<streaming, redis, body, answer, chain, voices, metered, whole,
                   truncated, lapses>>

(* record_completion_usage checks the month's quota first: used up, by this *)
(* or by the tenant's other traffic, it raises a 429 that fails the request *)
(* though the provider has answered. Any other failure is swallowed, with   *)
(* some of the usage rows committed or none.                                *)
Meter(r) ==
    /\ pc[r] = "meter"
    /\ LET kept == IF body[r] \in Cacheable THEN "keep" ELSE "store"
       IN \/ /\ metered' = metered \cup {r}
             /\ Goto(r, kept) /\ NoFault /\ UNCHANGED wasted
          \/ /\ metered' \in {metered, metered \cup {r}}
             /\ Goto(r, kept) /\ Fault("db") /\ UNCHANGED wasted
          \/ /\ wasted' = wasted \cup {r}
             /\ Goto(r, "abandon") /\ NoFault /\ UNCHANGED metered
    /\ UNCHANGED <<streaming, redis, body, answer, chain, voices, whole,
                   truncated, lapses>>

(* The response cache; its failure is swallowed. *)
Keep(r) ==
    LET kept == [cached EXCEPT ![body[r]] = r]
    IN /\ pc[r] = "keep"
       /\ Goto(r, "store")
       /\ \/ cached' = kept /\ NoFault
          \/ cached' \in {cached, kept} /\ Fault("redis")
       /\ UNCHANGED <<streaming, lock, used, body, answer, chain, voices, history>>

-----------------------------------------------------------------------------
(* _true_stream_and_store over StreamEngine.aiter_sse *)

(* The chain of healthy providers; none healthy is an error. *)
Resolve(r) ==
    /\ pc[r] = "resolve" /\ NoFault
    /\ chain' \in {[chain EXCEPT ![r] = n] : n \in 0..MaxChain}
    /\ Goto(r, IF chain'[r] = 0 THEN "abandon" ELSE "stream")
    /\ UNCHANGED <<streaming, redis, body, answer, voices, history>>

Frame(r) ==
    /\ pc[r] = "stream" /\ NoFault
    /\ chain[r] \notin voices[r]
    /\ voices' = [voices EXCEPT ![r] = @ \cup {chain[r]}]
    /\ UNCHANGED <<streaming, redis, pc, body, answer, chain, history>>

(* The provider fails or times out: before the first frame the next one is  *)
(* tried, after it the client gets an error frame and what was received is  *)
(* the result.                                                             *)
StreamFails(r) ==
    /\ pc[r] = "stream" /\ Fault("provider")
    /\ \/ /\ voices[r] = {}
          /\ chain' = [chain EXCEPT ![r] = @ - 1]
          /\ Goto(r, IF chain[r] = 1 THEN "abandon" ELSE "stream")
          /\ UNCHANGED <<answer, truncated>>
       \/ /\ voices[r] # {}
          /\ Goto(r, "finalize")
          /\ truncated' = truncated \cup {r}
          /\ answer' = [answer EXCEPT ![r] = r]
          /\ UNCHANGED chain
    /\ UNCHANGED <<streaming, redis, body, voices, metered, wasted, whole, lapses>>

StreamEnds(r) ==
    /\ pc[r] = "stream" /\ NoFault
    /\ Goto(r, "finalize")
    /\ whole' = whole \cup {r}
    /\ answer' = [answer EXCEPT ![r] = r]
    /\ UNCHANGED <<streaming, redis, body, chain, voices, metered, wasted,
                   truncated, lapses>>

(* The engine sees the client leave, or finds the queue full and the client *)
(* gone: the result is marked cancelled.                                   *)
StreamLeft(r) ==
    /\ pc[r] = "stream" /\ Fault("cancel")
    /\ Goto(r, "gone")
    /\ UNCHANGED <<streaming, redis, body, answer, chain, voices, history>>

(* finalize_true_stream runs outside the try: its failure releases nothing. *)
Finalize(r) ==
    /\ pc[r] = "finalize"
    /\ \/ Goto(r, "store") /\ NoFault
       \/ Fault("db") /\ Goto(r, "unfinalized")
    /\ UNCHANGED <<streaming, redis, body, answer, chain, voices, history>>

-----------------------------------------------------------------------------
(* complete, abandon, and what cuts a request short *)

Store(r) ==
    /\ pc[r] = "store"
    /\ \/ /\ lock' = [status |-> "completed", body |-> body[r], by |-> r,
                      response |-> answer[r]]
          /\ Goto(r, "answered") /\ NoFault
       \/ Fault("redis") /\ Goto(r, "unsaved") /\ UNCHANGED lock
    /\ UNCHANGED <<streaming, cached, used, body, answer, chain, voices, history>>

(* Mutant: a failed execution keeps the key. *)
AbandonNothing(r) ==
    /\ pc[r] \in {"abandon", "gone"} /\ NoFault
    /\ Goto(r, IF pc[r] = "gone" THEN "cancelled" ELSE "error")
    /\ UNCHANGED <<streaming, redis, body, answer, chain, voices, history>>

(* DEL, whoever holds the key by now. *)
Abandon(r) ==
    /\ pc[r] \in {"abandon", "gone"}
    /\ \/ lock' = None /\ NoFault
          /\ Goto(r, IF pc[r] = "gone" THEN "cancelled" ELSE "error")
       \/ Fault("redis") /\ Goto(r, "unreleased") /\ UNCHANGED lock
    /\ UNCHANGED <<streaming, cached, used, body, answer, chain, voices, history>>

(* A disconnect cancels the response generator: CancelledError and          *)
(* GeneratorExit pass by "except Exception".                               *)
Cancel(r) ==
    /\ pc[r] \in {"resolve", "stream", "infer"} /\ body[r] \in Streams
    /\ Fault("cancel") /\ Goto(r, "cancelled")
    /\ UNCHANGED <<streaming, redis, body, answer, chain, voices, history>>

Crash(r) ==
    /\ pc[r] \in Active
    /\ Fault("crash") /\ Goto(r, "crashed")
    /\ UNCHANGED <<streaming, redis, body, answer, chain, voices, history>>

(* The record reaches its TTL, as a rule long after its request ended. *)
Expire ==
    /\ lock # None /\ lock' = None
    /\ \/ pc[lock.by] \in Active /\ Fault("expiry")
          /\ lapses' = lapses \cup {"overtaken"}
       \/ pc[lock.by] \notin Active /\ NoFault
          /\ lapses' = lapses \cup {"aged"}
    /\ UNCHANGED <<streaming, cached, used, process, metered, wasted, whole,
                   truncated>>

CacheExpires(b) ==
    /\ cached[b] # None /\ NoFault
    /\ cached' = [cached EXCEPT ![b] = None]
    /\ UNCHANGED <<streaming, lock, used, process, history>>

WindowEnds(w) ==
    /\ used[w] # 0 /\ NoFault
    /\ used' = [used EXCEPT ![w] = 0]
    /\ UNCHANGED <<streaming, lock, cached, process, history>>

Limit(r) == Enforce(r, "rpm", "rpd") \/ Enforce(r, "rpd", "admit")

Lookup(r) == Begin(r) \/ Load(r) \/ Claim(r) \/ Reload(r)

Execute(r) == Run(r) \/ Infer(r) \/ Log(r) \/ Meter(r) \/ Keep(r)

Stream(r) == \/ Resolve(r) \/ Frame(r) \/ StreamFails(r) \/ StreamEnds(r)
             \/ StreamLeft(r) \/ Finalize(r)

Next ==
    \/ \E r \in Requests :
          \/ Lookup(r) \/ Limit(r) \/ Admit(r) \/ Execute(r) \/ Stream(r)
          \/ Store(r) \/ Abandon(r) \/ Cancel(r) \/ Crash(r)
    \/ Expire
    \/ \E b \in Bodies : CacheExpires(b)
    \/ \E w \in Windows : WindowEnds(w)

Spec == Init /\ [][Next]_vars

-----------------------------------------------------------------------------
(* Properties *)

(* Every variable has its type; a response in hand is an execution's.       *)
TypeOK ==
    /\ streaming \in StreamModes
    /\ lock \in Record \cup {None}
    /\ cached \in [Bodies -> Requests \cup {None}]
    /\ used \in [Windows -> Nat]
    /\ pc \in [Requests -> {"idle"} \cup Active \cup Endings]
    /\ body \in [Requests -> Bodies \cup {None}]
    /\ answer \in [Requests -> Requests \cup {None}]
    /\ chain \in [Requests -> 0..MaxChain]
    /\ voices \in [Requests -> SUBSET (1..MaxChain)]
    /\ metered \subseteq whole /\ wasted \subseteq whole
    /\ whole \subseteq Requests /\ truncated \subseteq Requests
    /\ lapses \subseteq {"aged", "overtaken", "unlocked"}
    /\ faults \in 0..MaxFaults

(* A replay gives back what an execution of the very same body produced:    *)
(* complete, or cut short in mid-stream, but never a failed call's.         *)
ReplayIsFaithful ==
    \A r \in Requests : pc[r] = "replayed" =>
        /\ answer[r] \in whole \cup truncated
        /\ body[answer[r]] = body[r]

(* Requests under one key do not run at once, unless the first one outlived *)
(* its record, or one went on without the key after a lost race.            *)
OneInFlight ==
    lapses \cap {"overtaken", "unlocked"} = {} =>
        Cardinality({r \in Requests : pc[r] \in Running}) <= 1

(* Executions whose answer, complete or cut short, was not thrown away.     *)
Kept == (whole \cup truncated) \ wasted

(* Only an answer that was kept is billed, and requests under one key keep  *)
(* at most one, as long as the record has not expired and nobody went on    *)
(* without the key. One whose log failed, or that the meter refused, is not *)
(* billed, but the key is free again and the retry calls the provider anew. *)
BilledOnce ==
    /\ metered \subseteq Kept
    /\ lapses = {} => Cardinality(Kept) <= 1

(* An in-progress record is one of a request at work, or of one that ended  *)
(* in a way that releases nothing until the TTL: refused by the limiter or  *)
(* before a stream, cancelled, crashed, or with a Redis command or the      *)
(* stream's log write lost.  A failed execution always released its key.    *)
LockIsHeld ==
    lock # None /\ lock.status = "in_progress" =>
        pc[lock.by] \in Active \cup {"refused", "cancelled", "crashed", "busy",
                                     "unsaved", "unfinalized", "unreleased"}

(* A stored answer stands until it expires: no request deletes or replaces  *)
(* it, unless a request runs without holding the key.                       *)
StoredIsKept ==
    [][lock # None /\ lock.status = "completed" =>
          \/ lock' = lock
          \/ lock' = None /\ pc' = pc
          \/ lapses \cap {"overtaken", "unlocked"} # {}]_vars

(* A client never sees frames of two providers in one stream. *)
OneVoice == \A r \in Requests : Cardinality(voices[r]) <= 1
=============================================================================
