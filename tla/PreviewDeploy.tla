---------------------------- MODULE PreviewDeploy ----------------------------
(***************************************************************************)
(* The preview environment of one pull request                             *)
(* (app/static_sites/preview_service.py): the webhooks that advance its    *)
(* generation or close it (github_webhook_router.py), the expiry sweep     *)
(* (scripts/scheduler.py), the worker's deploy and teardown jobs           *)
(* (scripts/worker.py), the virtual host, directories and Next.js          *)
(* containers of its generations.                                          *)
(*                                                                         *)
(* A webhook handler is a coroutine without an await, so that one runs at  *)
(* a time in the API's process; the worker's process may commit between    *)
(* its read of the row and its commit. A worker's step is one commit,      *)
(* container command, vhost update or file tree; anything may happen       *)
(* between two of them. Generations number the directories and containers; *)
(* 0 stands for NULL.                                                      *)
(***************************************************************************)
EXTENDS Integers, Sequences, FiniteSets

CONSTANTS
    Workers,        \* scripts/worker.py processes
    Frameworks,     \* what a build may turn out to be: static, nextjs
    MaxGeneration,  \* bound: opened, synchronize and reopened events
    MaxCloses,      \* bound: closed events and owners' manual teardowns
    MaxJobs,        \* bound: jobs beyond which nothing more is requested
    FaultKinds,     \* the kinds of fault an instance explores
    MaxFaults       \* bound: faults

ASSUME PreviewAssumption ==
    /\ Frameworks \subseteq {"static", "nextjs"}
    /\ MaxGeneration \in Nat /\ MaxCloses \in Nat
    /\ MaxJobs \in Nat /\ MaxFaults \in Nat

VARIABLES
    row,        \* static_site_preview_deployments, the pull request's row
    expired,    \* its expires_at has passed
    pr,         \* the pull request: none, open, closed
    hook,       \* the webhook handler: what it has read of the row
    overtaken,  \* history: a teardown came between its read and its commit
    domain,     \* the CompanyDomain row of the preview's hostname exists
    root,       \* its static_root_path: a generation's directory
    proxy,      \* its runtime_proxy_target: a generation's container
    running,    \* the containers that run
    dirs,       \* the directories that exist
    jobs,       \* static_site.preview_* jobs on the Redis list
    delayed,    \* the ones waiting to be retried
    pc,         \* where each worker is
    mem,        \* what it holds in memory
    faults,     \* faults so far
    closes,     \* closed events and manual teardowns so far
    happened,   \* history: the kinds of mishap so far
    strays,     \* history: containers an error or a crash left behind
    shown       \* history: the generation the vhost was last switched to

webhook == <<hook, overtaken>>
record  == <<row, expired, pr, webhook>>
vhost   == <<domain, root, proxy, shown>>
disk    == <<running, dirs>>
queue   == <<jobs, delayed>>
process == <<pc, mem>>
budget  == <<faults, closes>>
history == <<happened, strays>>
vars    == <<record, vhost, disk, queue, process, budget, history>>

Generations == 1..MaxGeneration
OrNull      == 0..MaxGeneration

Statuses == {"none", "queued", "building", "ready", "failed", "torn_down"}

Row == [generation : OrNull, status : Statuses, torn : BOOLEAN,
        container : OrNull, path : OrNull]

(* What create_or_advance decides by: torn_down_at and the status as read.  *)
Hook   == [busy : BOOLEAN, torn : BOOLEAN, queued : BOOLEAN]
NoHook == [busy |-> FALSE, torn |-> FALSE, queued |-> FALSE]

(* A deploy job pins its generation; a teardown job pins nothing.           *)
Job      == [kind : {"deploy"}, generation : Generations]
               \cup [kind : {"teardown"}, generation : {0}]
Deploy(g) == [kind |-> "deploy", generation |-> g]
Teardown  == [kind |-> "teardown", generation |-> 0]

(* seen: the row as the session's last refresh loaded it; previous: what    *)
(* the generation before had; container: the one this job has started.      *)
Memory == [job : Job, seenGeneration : OrNull, seenTorn : BOOLEAN,
           node : BOOLEAN, container : OrNull,
           previousContainer : OrNull, previousPath : OrNull]

Idle == [job |-> Teardown, seenGeneration |-> 0, seenTorn |-> FALSE,
         node |-> FALSE, container |-> 0,
         previousContainer |-> 0, previousPath |-> 0]

Init ==
    /\ row = [generation |-> 0, status |-> "none", torn |-> FALSE,
              container |-> 0, path |-> 0]
    /\ expired = FALSE
    /\ pr = "none"
    /\ hook = NoHook /\ overtaken = FALSE
    /\ domain = FALSE
    /\ root = 0
    /\ proxy = 0
    /\ running = {}
    /\ dirs = {}
    /\ jobs = << >>
    /\ delayed = {}
    /\ pc = [w \in Workers |-> "idle"]
    /\ mem = [w \in Workers |-> Idle]
    /\ faults = 0
    /\ closes = 0
    /\ happened = {}
    /\ strays = {}
    /\ shown = 0

-----------------------------------------------------------------------------
Fault(kind) ==
    /\ kind \in FaultKinds /\ faults < MaxFaults
    /\ faults' = faults + 1
NoFault == UNCHANGED faults

Goto(w, step) == pc' = [pc EXCEPT ![w] = step]
Record(kind)  == happened' = happened \cup {kind}

(* The job is over, whatever came of it.                                    *)
Done(w) ==
    /\ Goto(w, "idle")
    /\ mem' = [mem EXCEPT ![w] = Idle]

(* The containers only the job at work knew of.                             *)
Lost(w) == {mem[w].container, mem[w].previousContainer} \ {0, row.container}

Active == row.generation > 0 /\ ~row.torn

-----------------------------------------------------------------------------
(* Webhooks and time.                                                       *)

(* opened, synchronize, reopened: create_or_advance reads the row.          *)
Advance ==
    /\ ~hook.busy
    /\ row.generation < MaxGeneration /\ Len(jobs) < MaxJobs
    /\ pr' = "open"
    /\ hook' = [busy |-> TRUE, torn |-> row.torn, queued |-> row.status = "queued"]
    /\ UNCHANGED <<row, expired, overtaken, vhost, disk, queue, process, budget, history>>

(* Only the columns it changes are written: torn_down_at is cleared if it   *)
(* was read set, and the status is left alone if it was read queued. Nobody *)
(* else writes the generation.                                              *)
Advanced ==
    [row EXCEPT !.generation = @ + 1,
                !.status = IF hook.queued THEN @ ELSE "queued",
                !.torn = @ /\ ~hook.torn]

(* Its commit and the deploy job. A failed enqueue leaves the row queued and*)
(* is answered 503, a failed commit leaves it as it was.                    *)
AdvanceCommit ==
    /\ hook.busy /\ row.generation < MaxGeneration /\ Len(jobs) < MaxJobs
    /\ hook' = NoHook
    /\ \/ /\ row' = Advanced
          /\ expired' = FALSE
          /\ overtaken' = Advanced.torn
          /\ \/ NoFault /\ jobs' = Append(jobs, Deploy(row.generation + 1))
             \/ Fault("enqueue") /\ UNCHANGED jobs
       \/ Fault("error") /\ UNCHANGED <<row, expired, overtaken, jobs>>
    /\ UNCHANGED <<pr, vhost, disk, delayed, process, closes, history>>

(* closed, or the owner's manual teardown.                                  *)
Close ==
    /\ pr = "open" /\ closes < MaxCloses /\ Len(jobs) < MaxJobs
    /\ closes' = closes + 1
    /\ pr' = "closed"
    /\ \/ ~Active /\ NoFault /\ UNCHANGED jobs
       \/ Active /\ NoFault /\ jobs' = Append(jobs, Teardown)
       \/ Active /\ Fault("enqueue") /\ UNCHANGED jobs
    /\ UNCHANGED <<row, expired, webhook, vhost, disk, delayed, process, history>>

(* PREVIEW_DEPLOYMENT_TTL_HOURS without an event.                           *)
Tick ==
    /\ Active /\ ~expired
    /\ expired' = TRUE
    /\ UNCHANGED <<row, pr, webhook, vhost, disk, queue, process, budget, history>>

(* Mutant: only a preview that became ready expires.                        *)
SweepReady ==
    /\ Active /\ expired /\ row.status = "ready" /\ Len(jobs) < MaxJobs
    /\ jobs' = Append(jobs, Teardown)
    /\ UNCHANGED <<record, vhost, disk, delayed, process, budget, history>>

(* Mutant: a closed pull request is left to its webhook.                    *)
SweepOpen ==
    /\ Active /\ expired /\ pr = "open" /\ Len(jobs) < MaxJobs
    /\ jobs' = Append(jobs, Teardown)
    /\ UNCHANGED <<record, vhost, disk, delayed, process, budget, history>>

(* The scheduler's sweep enqueues a teardown every time it runs.            *)
Sweep ==
    /\ Active /\ expired /\ Len(jobs) < MaxJobs
    /\ jobs' = Append(jobs, Teardown)
    /\ UNCHANGED <<record, vhost, disk, delayed, process, budget, history>>

-----------------------------------------------------------------------------
(* The worker's queue.                                                      *)

Take(w) ==
    /\ pc[w] = "idle" /\ jobs # << >>
    /\ mem' = [mem EXCEPT ![w] = [Idle EXCEPT !.job = Head(jobs)]]
    /\ jobs' = Tail(jobs)
    /\ Goto(w, IF Head(jobs) = Teardown THEN "stop" ELSE "begin")
    /\ UNCHANGED <<record, vhost, disk, delayed, budget, history>>

(* An exception that leaves the service: _handle_studio_job_failure.        *)
Retry(w) ==
    /\ delayed' = delayed \cup {mem[w].job}
    /\ Done(w)

Promote ==
    /\ \E j \in delayed :
          /\ delayed' = delayed \ {j}
          /\ jobs' = Append(jobs, j)
    /\ UNCHANGED <<record, vhost, disk, process, budget, history>>

-----------------------------------------------------------------------------
(* run_preview_deploy.                                                      *)

(* A commit refreshes the row the job holds.                                *)
Refreshed(w) == [mem[w] EXCEPT !.seenGeneration = row.generation,
                               !.seenTorn = row.torn]

(* _fail stops the container the row names, which until the new one has     *)
(* started is the previous generation's, and removes the new directory.     *)
Fail(w, stillRunning) ==
    /\ row' = [row EXCEPT !.status = "failed"]
    /\ running' = stillRunning \ {row.container}
    /\ dirs' = dirs \ {mem[w].job.generation}
    /\ strays' = strays \cup (stillRunning \ running)
    /\ IF proxy \in running \ running' \/ root = mem[w].job.generation
       THEN Record("cut")
       ELSE UNCHANGED happened
    /\ Done(w)

FailPreview(w) == Fail(w, running)

(* Mutant: the generation is not compared when the job starts.              *)
BeginAny(w) ==
    /\ pc[w] = "begin"
    /\ \/ /\ NoFault
          /\ row' = [row EXCEPT !.status = "building"]
          /\ mem' = [mem EXCEPT ![w] =
                [Refreshed(w) EXCEPT !.seenGeneration = mem[w].job.generation,
                                     !.previousContainer = row.container,
                                     !.previousPath = row.path]]
          /\ Goto(w, "build")
          /\ UNCHANGED delayed
       \/ /\ Fault("error")
          /\ Retry(w)
          /\ UNCHANGED row
    /\ UNCHANGED <<expired, pr, webhook, vhost, disk, jobs, closes, history>>

(* Guard #1: a torn-down preview or another generation is skipped.          *)
Begin(w) ==
    /\ pc[w] = "begin"
    /\ \/ /\ row.torn \/ row.generation # mem[w].job.generation
          /\ NoFault
          /\ Done(w)
          /\ UNCHANGED <<row, delayed>>
       \/ /\ ~row.torn /\ row.generation = mem[w].job.generation
          /\ NoFault
          /\ row' = [row EXCEPT !.status = "building"]
          /\ mem' = [mem EXCEPT ![w] =
                [Refreshed(w) EXCEPT !.previousContainer = row.container,
                                     !.previousPath = row.path]]
          /\ Goto(w, "build")
          /\ UNCHANGED delayed
       \/ /\ ~row.torn /\ row.generation = mem[w].job.generation
          /\ Fault("error")
          /\ Retry(w)
          /\ UNCHANGED row
    /\ UNCHANGED <<expired, pr, webhook, vhost, disk, jobs, closes, history>>

(* A stage callback commits during the build: only some frameworks do.      *)
Progress(w) ==
    /\ pc[w] = "build" /\ mem[w] # Refreshed(w)
    /\ mem' = [mem EXCEPT ![w] = Refreshed(w)]
    /\ UNCHANGED <<record, vhost, disk, queue, pc, budget, history>>

Build(w) ==
    /\ pc[w] = "build"
    /\ \/ /\ NoFault
          /\ dirs' = dirs \cup {mem[w].job.generation}
          /\ \E f \in Frameworks : mem' = [mem EXCEPT ![w].node = (f = "nextjs")]
          /\ Goto(w, "guard")
          /\ UNCHANGED <<row, running, history>>
       \/ /\ Fault("build")
          /\ FailPreview(w)
    /\ UNCHANGED <<expired, pr, webhook, vhost, queue, closes>>

(* Guard #2 queries the row again, but the session returns the object it    *)
(* holds, as its last refresh left it. A stale build's directory is removed,*)
(* even where an earlier attempt at that generation went live.              *)
Guard(w) ==
    /\ pc[w] = "guard"
    /\ IF mem[w].seenTorn \/ mem[w].seenGeneration # mem[w].job.generation
       THEN /\ dirs' = dirs \ {mem[w].job.generation}
            /\ IF root = mem[w].job.generation THEN Record("cut") ELSE UNCHANGED happened
            /\ Done(w)
       ELSE /\ Goto(w, IF mem[w].node THEN "start" ELSE "bind")
            /\ UNCHANGED <<dirs, mem, happened>>
    /\ UNCHANGED <<record, vhost, running, queue, budget, strays>>

(* The company's limit, then start_runtime. A failed start leaves nothing   *)
(* behind, except that the orchestrator may get the container healthy after *)
(* the caller's timeout. Run again while the generation's container is up,  *)
(* the name conflict removes it, and the job fails.                         *)
Start(w) ==
    /\ pc[w] = "start"
    /\ \/ /\ mem[w].job.generation \notin running
          /\ NoFault
          /\ running' = running \cup {mem[w].job.generation}
          /\ mem' = [mem EXCEPT ![w].container = mem[w].job.generation]
          /\ Goto(w, "record")
          /\ UNCHANGED <<row, dirs, history>>
       \/ /\ mem[w].job.generation \notin running
          /\ \/ Fault("start") /\ FailPreview(w)
             \/ Fault("late") /\ Fail(w, running \cup {mem[w].job.generation})
       \/ /\ mem[w].job.generation \in running
          /\ NoFault
          /\ Fail(w, running \ {mem[w].job.generation})
    /\ UNCHANGED <<expired, pr, webhook, vhost, queue, closes>>

RecordContainer(w) ==
    /\ pc[w] = "record"
    /\ row' = [row EXCEPT !.container = mem[w].container]
    /\ Goto(w, "bind")
    /\ UNCHANGED <<expired, pr, webhook, vhost, disk, queue, mem, budget, history>>

Switch(w) ==
    /\ IF mem[w].node
       THEN proxy' = mem[w].container /\ root' = 0
       ELSE root' = mem[w].job.generation /\ UNCHANGED proxy
    /\ domain' = TRUE
    /\ shown' = mem[w].job.generation

(* The first generation to get here creates the domain row; a later one     *)
(* repoints the row that exists. A failure of either is swallowed, and a    *)
(* repoint without a row does nothing.                                      *)
First(w) == mem[w].previousPath = 0 /\ mem[w].previousContainer = 0

Bind(w) ==
    /\ pc[w] = "bind"
    /\ \/ /\ First(w) \/ domain
          /\ NoFault
          /\ Switch(w)
          /\ UNCHANGED happened
       \/ /\ IF First(w) \/ domain THEN Fault("bind") ELSE NoFault
          /\ Record("unbound")
          /\ UNCHANGED vhost
    /\ Goto(w, "ready")
    /\ UNCHANGED <<record, disk, queue, mem, closes, strays>>

(* Mutant: a status the column's comment does not list.                     *)
ReadyLive(w) ==
    /\ pc[w] = "ready"
    /\ row' = [row EXCEPT !.path = mem[w].job.generation, !.status = "live"]
    /\ Goto(w, "cut")
    /\ UNCHANGED <<expired, pr, webhook, vhost, disk, queue, mem, budget, history>>

Ready(w) ==
    /\ pc[w] = "ready"
    /\ row' = [row EXCEPT !.path = mem[w].job.generation, !.status = "ready"]
    /\ Goto(w, "cut")
    /\ UNCHANGED <<expired, pr, webhook, vhost, disk, queue, mem, budget, history>>

(* Mutant: the previous container is not stopped.                           *)
CutDirectory(w) ==
    /\ pc[w] = "cut"
    /\ dirs' = dirs \ ({mem[w].previousPath} \ {mem[w].job.generation})
    /\ Done(w)
    /\ UNCHANGED <<record, vhost, running, queue, budget, history>>

(* Mutant: the previous container is stopped even when the row keeps it.    *)
CutAlways(w) ==
    /\ pc[w] = "cut"
    /\ running' = running \ {mem[w].previousContainer}
    /\ dirs' = dirs \ ({mem[w].previousPath} \ {mem[w].job.generation})
    /\ Done(w)
    /\ UNCHANGED <<record, vhost, queue, budget, history>>

(* Only now the previous generation's container and directory go.           *)
Cut(w) ==
    /\ pc[w] = "cut"
    /\ running' = running \ ({mem[w].previousContainer} \ {row.container})
    /\ dirs' = dirs \ ({mem[w].previousPath} \ {mem[w].job.generation})
    /\ Done(w)
    /\ UNCHANGED <<record, vhost, queue, budget, history>>

(* A commit raises on the way to ready. The session is of no use until it   *)
(* is rolled back, so the catch-all's _fail raises too and the job is run   *)
(* again later, when the row may name this attempt's own container as the   *)
(* previous one.                                                            *)
Raise(w) ==
    /\ pc[w] \in {"build", "record", "bind", "ready"} /\ Fault("error")
    /\ strays' = strays \cup Lost(w)
    /\ Retry(w)
    /\ UNCHANGED <<record, vhost, disk, jobs, closes, happened>>

-----------------------------------------------------------------------------
(* teardown.                                                                *)

TeardownStop(w) ==
    /\ pc[w] = "stop"
    /\ IF row.torn
       THEN Done(w) /\ UNCHANGED running
       ELSE /\ running' = running \ {row.container}
            /\ Goto(w, "unbind")
            /\ UNCHANGED mem
    /\ UNCHANGED <<record, vhost, dirs, queue, budget, history>>

(* The vhost and the domain row; a failure is logged and leaves them.       *)
TeardownUnbind(w) ==
    /\ pc[w] = "unbind"
    /\ \/ /\ NoFault
          /\ domain' = FALSE
          /\ root' = 0 /\ proxy' = 0 /\ shown' = 0
          /\ UNCHANGED happened
       \/ /\ Fault("unbind")
          /\ Record("unbound")
          /\ UNCHANGED vhost
    /\ Goto(w, "close")
    /\ UNCHANGED <<record, disk, queue, mem, closes, strays>>

(* The preview's whole tree, if the row names a directory in it; then the   *)
(* row, or the exception that has the job retried.                          *)
TeardownClose(w) ==
    /\ pc[w] = "close"
    /\ dirs' = IF row.path = 0 THEN dirs ELSE {}
    /\ \/ /\ NoFault
          /\ row' = [row EXCEPT !.status = "torn_down", !.torn = TRUE,
                                !.container = 0, !.path = 0]
          /\ Done(w)
          /\ UNCHANGED delayed
       \/ /\ Fault("error")
          /\ Retry(w)
          /\ UNCHANGED row
    /\ UNCHANGED <<expired, pr, webhook, vhost, running, jobs, closes, history>>

(* The worker dies; BLPOP has already taken its job.                        *)
Crash(w) ==
    /\ pc[w] # "idle" /\ Fault("crash")
    /\ strays' = strays \cup Lost(w)
    /\ IF pc[w] \in {"unbind", "close"} THEN Record("unbound") ELSE UNCHANGED happened
    /\ Done(w)
    /\ UNCHANGED <<record, vhost, disk, queue, closes>>

-----------------------------------------------------------------------------
WorkerStep(w) ==
    \/ Take(w) \/ Begin(w) \/ Build(w) \/ Guard(w) \/ Start(w)
    \/ RecordContainer(w) \/ Bind(w) \/ Ready(w) \/ Cut(w)
    \/ TeardownStop(w) \/ TeardownUnbind(w) \/ TeardownClose(w)

Next ==
    \/ Advance \/ AdvanceCommit \/ Close \/ Tick \/ Sweep \/ Promote
    \/ \E w \in Workers : WorkerStep(w) \/ Progress(w) \/ Raise(w) \/ Crash(w)

Spec == Init /\ [][Next]_vars

(* Workers poll the queue for ever, the scheduler runs, time passes.        *)
Fairness ==
    /\ WF_vars(Tick) /\ WF_vars(Sweep) /\ WF_vars(Promote)
    /\ \A w \in Workers : WF_vars(WorkerStep(w))

FairSpec == Spec /\ Fairness

-----------------------------------------------------------------------------
(* Properties                                                               *)

TypeOK ==
    /\ row \in Row
    /\ expired \in BOOLEAN
    /\ pr \in {"none", "open", "closed"}
    /\ hook \in Hook /\ overtaken \in BOOLEAN
    /\ domain \in BOOLEAN
    /\ root \in OrNull /\ proxy \in OrNull /\ shown \in OrNull
    /\ running \subseteq Generations
    /\ dirs \subseteq Generations
    /\ jobs \in Seq(Job) /\ delayed \subseteq Job
    /\ pc \in [Workers -> {"idle", "begin", "build", "guard", "start", "record",
                           "bind", "ready", "cut", "stop", "unbind", "close"}]
    /\ mem \in [Workers -> Memory]
    /\ faults \in Nat /\ closes \in Nat
    /\ happened \subseteq {"unbound", "cut"}
    /\ strays \subseteq Generations

(* No container is left behind: one that runs is named by the row, is in    *)
(* the hands of the job at work, or was abandoned by an error or a crash.   *)
NoOrphan ==
    \A c \in running \ strays :
        \/ c = row.container
        \/ \E w \in Workers : c \in {mem[w].container, mem[w].previousContainer}

(* What the virtual host points at exists: a running container or, failing  *)
(* one, a directory, unless a vhost update was lost, a generation failed    *)
(* while its own row named what was served, or a teardown is at work.       *)
Served ==
    IF proxy # 0 THEN proxy \in running ELSE root \in dirs \cup {0}

ServedIsThere ==
    \/ happened # {}
    \/ \E w \in Workers : pc[w] = "unbind"
    \/ Served

(* The generation a visitor sees never goes back to an older one, whatever  *)
(* is delayed and retried.                                                  *)
GenerationsAdvance == [][shown' >= shown \/ shown' = 0]_shown

(* No preview stays queued or building: a lost job ends with the sweep. The *)
(* one exception is the row a teardown committed to between the last        *)
(* webhook's read and its commit: it is queued and torn down at once, so    *)
(* that its job is skipped, the sweep passes it over and a close finds      *)
(* nothing to do.                                                           *)
NeverStuck ==
    row.status \in {"queued", "building"} ~>
       row.status \in {"ready", "failed", "torn_down"} \/ overtaken

(* A closed pull request's preview, if it has one, is torn down, whatever   *)
(* fails on the way, unless the pull request is opened again.               *)
ClosedIsTornDown == pr = "closed" ~> ~Active \/ pr = "open"

(* preview_service.py:278: "the previous generation's artifact/runtime      *)
(* stays up and serving this preview's hostname until the NEW generation    *)
(* passes its own health check".                                            *)
PreviousStaysUp ==
    [][\A w \in Workers :
          pc[w] \in {"build", "start"} /\ proxy # 0 /\ proxy \in running
             => proxy \in running']_vars
=============================================================================
