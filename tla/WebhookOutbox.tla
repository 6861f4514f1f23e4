--------------------------- MODULE WebhookOutbox ---------------------------
(***************************************************************************)
(* The outgoing-webhook pipeline: the producer that dual-writes a durable  *)
(* outbox row and a Redis job (app/openai_compat/notify.py), the row's     *)
(* status updates and the redrive sweep (app/webhooks/outbox.py), the      *)
(* Redis lists (app/monitoring/queue.py), the worker loop                  *)
(* (scripts/worker.py) and the dashboard's "retry" (webhooks/service.py).  *)
(*                                                                         *)
(* A step is one Redis command, one committed row update or one HTTP POST. *)
(* Anything may happen between two of them: another worker's step, a crash *)
(* of the process, or a soft failure of the next command.                  *)
(***************************************************************************)
EXTENDS Integers, Sequences, FiniteSets, Bags

CONSTANTS
    Deliveries,     \* delivery ids (whdel_...), one outbox row each
    Workers,        \* scripts/worker.py processes
    Requests,       \* concurrent POST .../deliveries/{id}/retry requests
    NoJob,          \* "no job in hand"
    MaxAttempts,    \* settings.WEBHOOK_MAX_ATTEMPTS
    MaxJobs,        \* bound: live Redis jobs beyond which no redrive or retry is pushed
    MaxManual,      \* bound: operator interventions (retry, retry_dead, cancel)
    HookChanges,    \* bound: the states SetHook may put the webhook in
    MaxFaults       \* bound: crashes and failed Redis or Postgres writes

Job == [d : Deliveries, attempt : Nat \ {0}, manual : BOOLEAN]

ASSUME OutboxAssumption ==
    /\ MaxAttempts \in Nat \ {0}
    /\ MaxJobs \in Nat /\ MaxManual \in Nat /\ MaxFaults \in Nat
    /\ NoJob \notin Job
    /\ Workers \cap Requests = {}

VARIABLES
    row,        \* webhook_deliveries: status, attempts, stale
    hook,       \* the webhooks row: active, inactive or deleted
    producer,   \* where enqueue_webhook_dispatch is for each delivery
    jobs,       \* thtwaat:jobs, a list
    delayed,    \* thtwaat:jobs:delayed, a bag (each member carries a timestamp)
    dead,       \* thtwaat:jobs:dead, a bag
    pc,         \* where each worker and each retry request is
    hand,       \* the job it is working on
    todo,       \* rows list_redrive_candidates returned, not yet redriven
    faults,     \* faults so far
    manuals,    \* operator interventions so far
    received,   \* history: the endpoint has processed the delivery
    rejected,   \* history: the endpoint (or the URL guard) refused it for good
    unlogged    \* history: an attempt was started that its row never recorded

rows    == <<row, hook, producer>>
redis   == <<jobs, delayed, dead>>
process == <<pc, hand, todo>>
budget  == <<faults, manuals>>
history == <<received, rejected, unlogged>>
vars    == <<rows, redis, process, budget, history>>

Procs == Workers \cup Requests

HookStates == {"active", "inactive", "deleted"}
Open == {"pending", "queued", "failed"}     \* statuses redrive looks at
Row  == [status : {"absent", "delivered", "dead"} \cup Open,
         attempts : Nat, stale : BOOLEAN]

WorkerSteps  == {"promote", "repush", "redrive", "push", "mark", "pop",
                 "attempt", "post", "delivered", "bury", "ackDead",
                 "delay", "ackFailed"}
RequestSteps == {"idle", "push", "mark"}

Larger(m, n) == IF m > n THEN m ELSE n

Absent == [status |-> "absent", attempts |-> 0, stale |-> FALSE]

Init ==
    /\ row = [d \in Deliveries |-> Absent]
    /\ hook = "active"
    /\ producer = [d \in Deliveries |-> "idle"]
    /\ jobs = << >>
    /\ delayed = EmptyBag
    /\ dead = EmptyBag
    /\ pc = [p \in Procs |-> IF p \in Workers THEN "promote" ELSE "idle"]
    /\ hand = [p \in Procs |-> NoJob]
    /\ todo = [w \in Workers |-> {}]
    /\ faults = 0
    /\ manuals = 0
    /\ received = [d \in Deliveries |-> FALSE]
    /\ rejected = [d \in Deliveries |-> FALSE]
    /\ unlogged = [d \in Deliveries |-> FALSE]

-----------------------------------------------------------------------------
(* Faults: every soft failure and every crash spends one of MaxFaults.      *)

Fault   == faults < MaxFaults /\ faults' = faults + 1
NoFault == UNCHANGED faults

Intervene == manuals < MaxManual /\ manuals' = manuals + 1

(* Live copies of jobs, for the MaxJobs bound.                              *)
Outstanding == Len(jobs) + BagCardinality(delayed)
                 + Cardinality({p \in Procs : hand[p] # NoJob})

-----------------------------------------------------------------------------
(* Row updates. Each reads the row, writes it and commits; a missing row    *)
(* is left alone. SQLAlchemy emits no UPDATE when nothing changed, so only  *)
(* a real change refreshes updated_at.                                      *)

MarkQueued(r) ==
    IF r.status \in {"pending", "failed"}
    THEN [r EXCEPT !.status = "queued", !.stale = FALSE]
    ELSE r

(* Mutant: the attempt number is written only when the status changes.      *)
MarkAttemptOnStatus(r, n) ==
    IF r.status \in {"pending", "failed"}
    THEN [status |-> "queued", attempts |-> Larger(n, r.attempts), stale |-> FALSE]
    ELSE r

MarkAttempt(r, n) ==
    IF r.status = "absent" THEN r
    ELSE [status   |-> IF r.status \in {"pending", "failed"} THEN "queued" ELSE r.status,
          attempts |-> Larger(n, r.attempts),
          stale    |-> r.stale /\ r.status \notin {"pending", "failed"} /\ n <= r.attempts]

Settle(r, status, n) ==
    IF r.status = "absent" THEN r
    ELSE [status |-> status, attempts |-> Larger(n, r.attempts), stale |-> FALSE]

MarkDelivered(r, n) == Settle(r, "delivered", n)
MarkFailed(r, n)    == Settle(r, "failed", n)
MarkDead(r, n)      == Settle(r, "dead", n)

(* One soft-failing commit: the row is updated, or the exception is logged. *)
Commit(d, new) ==
    \/ NoFault /\ row' = [row EXCEPT ![d] = new]
    \/ Fault   /\ UNCHANGED row

-----------------------------------------------------------------------------
(* Producer: enqueue_webhook_dispatch, run in the request that completed.   *)

Record(d) ==
    /\ producer[d] = "idle" /\ hook = "active"
    /\ Commit(d, [Absent EXCEPT !.status = "pending"])
    /\ producer' = [producer EXCEPT ![d] = "push"]
    /\ UNCHANGED <<hook, redis, process, manuals, history>>

PushFirst(d) ==
    /\ producer[d] = "push"
    /\ \/ /\ NoFault
          /\ jobs' = Append(jobs, [d |-> d, attempt |-> 1, manual |-> FALSE])
          /\ producer' = [producer EXCEPT ![d] = "mark"]
       \/ /\ Fault
          /\ producer' = [producer EXCEPT ![d] = "done"]
          /\ UNCHANGED jobs
    /\ UNCHANGED <<row, hook, delayed, dead, process, manuals, history>>

MarkFirst(d) ==
    /\ producer[d] = "mark"
    /\ Commit(d, MarkQueued(row[d]))
    /\ producer' = [producer EXCEPT ![d] = "done"]
    /\ UNCHANGED <<hook, redis, process, manuals, history>>

ProducerCrash(d) ==
    /\ producer[d] \in {"push", "mark"} /\ Fault
    /\ producer' = [producer EXCEPT ![d] = "done"]
    /\ UNCHANGED <<row, hook, redis, process, manuals, history>>

(* The customer toggles or deletes the webhook. Deleting it sets            *)
(* webhook_deliveries.webhook_id to NULL.                                   *)
SetHook(state) ==
    /\ hook # "deleted" /\ hook # state /\ state \in HookChanges
    /\ hook' = state
    /\ UNCHANGED <<row, producer, redis, process, budget, history>>

(* Wall-clock time: an open row has been left untouched for longer than     *)
(* WEBHOOK_OUTBOX_STALE_SECONDS (120 s). The longest back-off before the    *)
(* last attempt is 2^4 s, so a stale failed row is also past                *)
(* next_attempt_at.                                                         *)
Tick(d) ==
    /\ row[d].status \in Open /\ ~row[d].stale
    /\ row' = [row EXCEPT ![d].stale = TRUE]
    /\ UNCHANGED <<hook, producer, redis, process, budget, history>>

-----------------------------------------------------------------------------
(* Worker loop, part 1: promote_due_jobs. A delayed job may be due at any   *)
(* time; it is removed from the ZSET before it is pushed on the list.       *)

Goto(p, step)    == pc' = [pc EXCEPT ![p] = step]
Take(p, job)     == hand' = [hand EXCEPT ![p] = job]
Home(p)          == IF p \in Workers THEN "redrive" ELSE "idle"

PromoteTake(w) ==
    /\ pc[w] = "promote"
    /\ \E j \in BagToSet(delayed) :
          /\ delayed' = delayed (-) SetToBag({j})
          /\ Take(w, j)
    /\ Goto(w, "repush")
    /\ UNCHANGED <<rows, jobs, dead, todo, budget, history>>

(* A failed RPUSH is swallowed by promote_due_jobs: the job is gone.        *)
PromotePush(w) ==
    /\ pc[w] = "repush"
    /\ \/ NoFault /\ jobs' = Append(jobs, hand[w])
       \/ Fault   /\ UNCHANGED jobs
    /\ Take(w, NoJob)
    /\ Goto(w, "promote")
    /\ UNCHANGED <<rows, delayed, dead, todo, manuals, history>>

(* Part 2: redrive_stuck_deliveries. The candidates are read in one query.  *)

(* Mutant: queued rows are trusted to have a job.                           *)
StuckUnqueued(r) == r.status \in {"pending", "failed"} /\ r.stale

Stuck(r) == r.status \in Open /\ r.stale

RedriveQuery(w) ==
    /\ pc[w] = "promote"
    /\ todo' = [todo EXCEPT ![w] =
                  {<<d, row[d]>> : d \in {x \in Deliveries : Stuck(row[x])}}]
    /\ Goto(w, "redrive")
    /\ UNCHANGED <<rows, redis, hand, budget, history>>

(* Mutant: the attempt is not advanced before the job is built.             *)
RedriveSameAttempt(r) == r.attempts

(* build_redis_job_from_outbox: a queued row replays its attempt.           *)
RedriveAttempt(r) ==
    IF r.status = "queued" THEN Larger(r.attempts, 1) ELSE r.attempts + 1

(* The row object is as the query loaded it or, after a commit expired the  *)
(* session, as it is now. A deleted webhook has left webhook_id NULL, which *)
(* build_redis_job_from_outbox does not skip.                               *)
RedriveRow(w) ==
    /\ pc[w] = "redrive"
    /\ \E t \in todo[w] :
        /\ todo' = [todo EXCEPT ![w] = @ \ {t}]
        /\ \E r \in {t[2], row[t[1]]} :
             LET d == t[1]
                 n == RedriveAttempt(r)
             IN  \/ /\ hook = "inactive" \/ Outstanding >= MaxJobs
                    /\ NoFault
                    /\ UNCHANGED <<row, hand, pc>>
                 \/ /\ hook # "inactive" /\ n > MaxAttempts
                    /\ Commit(d, MarkDead(row[d], n))
                    /\ UNCHANGED <<hand, pc>>
                 \/ /\ hook # "inactive" /\ n <= MaxAttempts
                    /\ Outstanding < MaxJobs
                    /\ NoFault
                    /\ Take(w, [d |-> d, attempt |-> n, manual |-> FALSE])
                    /\ Goto(w, "push")
                    /\ UNCHANGED row
    /\ UNCHANGED <<hook, producer, redis, manuals, history>>

RedriveDone(w) ==
    /\ pc[w] = "redrive" /\ todo[w] = {}
    /\ Goto(w, "pop")
    /\ UNCHANGED <<rows, redis, hand, todo, budget, history>>

-----------------------------------------------------------------------------
(* Dashboard: WebhookService.retry_delivery reads the row, then enqueues.   *)

RetryRead(q, d) ==
    /\ pc[q] = "idle"
    /\ row[d].status \in {"failed", "dead", "pending"}
    /\ hook # "inactive"
    /\ Outstanding < MaxJobs /\ Intervene
    /\ Take(q, [d |-> d, attempt |-> row[d].attempts + 1, manual |-> TRUE])
    /\ Goto(q, "push")
    /\ UNCHANGED <<rows, redis, todo, faults, history>>

(* enqueue, for a redrive or a retry; when Redis refuses, the row is left   *)
(* as it was.                                                               *)
Push(p) ==
    /\ pc[p] = "push"
    /\ \/ /\ NoFault
          /\ jobs' = Append(jobs, hand[p])
          /\ Goto(p, "mark")
          /\ UNCHANGED hand
       \/ /\ Fault
          /\ Goto(p, Home(p))
          /\ Take(p, NoJob)
          /\ UNCHANGED jobs
    /\ UNCHANGED <<rows, delayed, dead, todo, manuals, history>>

(* mark_delivery_queued, after the job may already have been consumed.      *)
Mark(p) ==
    /\ pc[p] = "mark"
    /\ Commit(hand[p].d, MarkQueued(row[hand[p].d]))
    /\ Goto(p, Home(p))
    /\ Take(p, NoJob)
    /\ UNCHANGED <<hook, producer, redis, todo, manuals, history>>

(* Queue administration: retry_dead moves one dead-letter job back to the   *)
(* list (LREM, then RPUSH, which may fail), cancel_job drops one.           *)
RetryDead ==
    /\ Intervene /\ Outstanding < MaxJobs
    /\ \E j \in BagToSet(dead) :
          /\ dead' = dead (-) SetToBag({j})
          /\ \/ NoFault /\ jobs' = Append(jobs, j)
             \/ Fault   /\ UNCHANGED jobs
    /\ UNCHANGED <<rows, delayed, process, history>>

CancelJob ==
    /\ Intervene
    /\ \/ /\ \E i \in 1..Len(jobs) :
               jobs' = SubSeq(jobs, 1, i - 1) \o SubSeq(jobs, i + 1, Len(jobs))
          /\ UNCHANGED dead
       \/ /\ \E j \in BagToSet(dead) : dead' = dead (-) SetToBag({j})
          /\ UNCHANGED jobs
    /\ UNCHANGED <<rows, delayed, process, faults, history>>

-----------------------------------------------------------------------------
(* Worker loop, part 3: BLPOP and process_job("webhook.dispatch").          *)

Pop(w) ==
    /\ pc[w] = "pop" /\ jobs # << >>
    /\ Take(w, Head(jobs))
    /\ jobs' = Tail(jobs)
    /\ Goto(w, "attempt")
    /\ UNCHANGED <<rows, delayed, dead, todo, budget, history>>

PopTimeout(w) ==
    /\ pc[w] = "pop" /\ jobs = << >>
    /\ Goto(w, "promote")
    /\ UNCHANGED <<rows, redis, hand, todo, budget, history>>

AckAttempt(w) ==
    /\ pc[w] = "attempt"
    /\ LET d == hand[w].d IN
         \/ /\ NoFault
            /\ row' = [row EXCEPT ![d] = MarkAttempt(@, hand[w].attempt)]
            /\ unlogged' = [unlogged EXCEPT ![d] = @ \/ row[d].status = "absent"]
         \/ /\ Fault
            /\ unlogged' = [unlogged EXCEPT ![d] = TRUE]
            /\ UNCHANGED row
    /\ Goto(w, "post")
    /\ UNCHANGED <<hook, producer, redis, hand, todo, manuals,
                   received, rejected>>

(* Mutants: the budget is one short, one long, or running out of attempts   *)
(* falls through to the success acknowledgement.                            *)
VerdictEarly(j, retryable) ==
    IF ~retryable \/ j.attempt + 1 >= MaxAttempts THEN "bury" ELSE "delay"

VerdictLate(j, retryable) ==
    IF ~retryable \/ j.attempt > MaxAttempts THEN "bury" ELSE "delay"

VerdictSuccess(j, retryable) ==
    IF ~retryable \/ j.attempt >= MaxAttempts THEN "delivered" ELSE "delay"

(* _handle_webhook_failure: give up, or try again later.                    *)
Verdict(j, retryable) ==
    IF ~retryable \/ j.attempt >= MaxAttempts THEN "bury" ELSE "delay"

(* deliver_webhook: a 2xx; a retryable error or a timeout, which may hide a *)
(* request the endpoint has processed; or a permanent error.                *)
Post(w) ==
    /\ pc[w] = "post"
    /\ LET j == hand[w] IN
           \/ /\ received' = [received EXCEPT ![j.d] = TRUE]
              /\ Goto(w, "delivered")
              /\ UNCHANGED rejected
           \/ /\ \/ received' = [received EXCEPT ![j.d] = TRUE]
                 \/ UNCHANGED received
              /\ Goto(w, Verdict(j, TRUE))
              /\ UNCHANGED rejected
           \/ /\ rejected' = [rejected EXCEPT ![j.d] = TRUE]
              /\ Goto(w, Verdict(j, FALSE))
              /\ UNCHANGED received
    /\ UNCHANGED <<rows, redis, hand, todo, budget, unlogged>>

Finish(w) == Goto(w, "promote") /\ Take(w, NoJob)

AckDelivered(w) ==
    /\ pc[w] = "delivered"
    /\ Commit(hand[w].d, MarkDelivered(row[hand[w].d], hand[w].attempt))
    /\ Finish(w)
    /\ UNCHANGED <<hook, producer, redis, todo, manuals, history>>

(* dead_letter never raises: the row goes dead even if the push fails.      *)
Bury(w) ==
    /\ pc[w] = "bury"
    /\ \/ NoFault /\ dead' = dead (+) SetToBag({hand[w]})
       \/ Fault   /\ UNCHANGED dead
    /\ Goto(w, "ackDead")
    /\ UNCHANGED <<rows, jobs, delayed, hand, todo, manuals, history>>

AckDead(w) ==
    /\ pc[w] = "ackDead"
    /\ Commit(hand[w].d, MarkDead(row[hand[w].d], hand[w].attempt))
    /\ Finish(w)
    /\ UNCHANGED <<hook, producer, redis, todo, manuals, history>>

(* enqueue_delayed raises when Redis fails: the loop then pushes the job on *)
(* the dead list and leaves the row queued.                                 *)
Delay(w) ==
    /\ pc[w] = "delay"
    /\ \/ /\ NoFault
          /\ delayed' = delayed (+) SetToBag({[hand[w] EXCEPT !.attempt = @ + 1]})
          /\ Goto(w, "ackFailed")
          /\ UNCHANGED <<dead, hand>>
       \/ /\ Fault
          /\ dead' = dead (+) SetToBag({hand[w]})
          /\ Finish(w)
          /\ UNCHANGED delayed
    /\ UNCHANGED <<rows, jobs, todo, manuals, history>>

AckFailed(w) ==
    /\ pc[w] = "ackFailed"
    /\ Commit(hand[w].d, MarkFailed(row[hand[w].d], hand[w].attempt))
    /\ Finish(w)
    /\ UNCHANGED <<hook, producer, redis, todo, manuals, history>>

(* The process dies and is restarted by the container runtime; whatever it  *)
(* held in memory is gone.                                                  *)
WorkerCrash(w) ==
    /\ Fault
    /\ Finish(w)
    /\ todo' = [todo EXCEPT ![w] = {}]
    /\ UNCHANGED <<rows, redis, manuals, history>>

-----------------------------------------------------------------------------
Produce(d) == Record(d) \/ PushFirst(d) \/ MarkFirst(d)

WorkerStep(w) ==
    \/ PromoteTake(w) \/ PromotePush(w) \/ RedriveQuery(w)
    \/ RedriveRow(w) \/ RedriveDone(w) \/ Push(w) \/ Mark(w)
    \/ Pop(w) \/ PopTimeout(w) \/ AckAttempt(w) \/ Post(w)
    \/ AckDelivered(w) \/ Bury(w) \/ AckDead(w)
    \/ Delay(w) \/ AckFailed(w)

Next ==
    \/ \E d \in Deliveries : Produce(d) \/ ProducerCrash(d) \/ Tick(d)
    \/ \E s \in HookStates : SetHook(s)
    \/ \E w \in Workers : WorkerStep(w) \/ WorkerCrash(w)
    \/ \E q \in Requests : Push(q) \/ Mark(q) \/ \E d \in Deliveries : RetryRead(q, d)
    \/ RetryDead \/ CancelJob

Spec == Init /\ [][Next]_vars

(* Workers and time never stop; a request thread runs to its end. A delayed *)
(* job's ready_at passes, so a worker that keeps polling the ZSET at last   *)
(* finds it due: strong fairness.                                           *)
Fairness ==
    /\ \A w \in Workers : WF_vars(WorkerStep(w)) /\ SF_vars(PromoteTake(w))
    /\ \A q \in Requests : WF_vars(Push(q) \/ Mark(q))
    /\ \A d \in Deliveries :
          WF_vars(PushFirst(d) \/ MarkFirst(d)) /\ WF_vars(Tick(d))

FairSpec == Spec /\ Fairness

-----------------------------------------------------------------------------
(* Properties                                                               *)

TypeOK ==
    /\ row \in [Deliveries -> Row]
    /\ hook \in HookStates
    /\ producer \in [Deliveries -> {"idle", "push", "mark", "done"}]
    /\ jobs \in Seq(Job)
    /\ BagToSet(delayed) \subseteq Job
    /\ BagToSet(dead) \subseteq Job
    /\ pc \in [Procs -> WorkerSteps \cup RequestSteps]
    /\ hand \in [Procs -> Job \cup {NoJob}]
    /\ todo \in [Workers -> SUBSET (Deliveries \X Row)]
    /\ faults \in Nat /\ manuals \in Nat
    /\ received \in [Deliveries -> BOOLEAN]
    /\ rejected \in [Deliveries -> BOOLEAN]
    /\ unlogged \in [Deliveries -> BOOLEAN]

(* A row says "delivered" only if the endpoint has really processed that    *)
(* delivery, whatever crashed, was redriven or was retried in between.      *)
DeliveredIsHonest ==
    \A d \in Deliveries : row[d].status = "delivered" => received[d]

(* A delivery is given up only after the endpoint refused it for good or    *)
(* its attempts reached WEBHOOK_MAX_ATTEMPTS.                               *)
DeadIsJustified ==
    \A d \in Deliveries :
        row[d].status = "dead" => rejected[d] \/ row[d].attempts >= MaxAttempts

(* Attempts are written ahead: unless the attempt acknowledgement was lost, *)
(* when a worker POSTs attempt n its row already shows at least n, so a     *)
(* redrive after a crash never restarts the count.                          *)
WrittenAhead ==
    \A w \in Workers :
        pc[w] = "post" =>
            LET j == hand[w] IN unlogged[j.d] \/ j.attempt <= row[j.d].attempts

(* Only an operator's retry may exceed the attempt budget: no back-off,     *)
(* redrive or replay produces a job numbered past WEBHOOK_MAX_ATTEMPTS.     *)
WithinBudget(j) == j.attempt <= MaxAttempts \/ j.manual

OverBudgetIsManual ==
    /\ \A i \in 1..Len(jobs) : WithinBudget(jobs[i])
    /\ \A j \in BagToSet(delayed) \cup BagToSet(dead) : WithinBudget(j)
    /\ \A p \in Procs : hand[p] # NoJob => WithinBudget(hand[p])

(* Every recorded delivery is eventually delivered or dead, provided the    *)
(* webhook does not end up disabled: redrive brings back what a crash or    *)
(* a lost Redis command dropped.                                            *)
EventuallySettled ==
    <>[](hook # "inactive") =>
        \A d \in Deliveries :
            row[d].status # "absent" ~> row[d].status \in {"delivered", "dead"}
=============================================================================
