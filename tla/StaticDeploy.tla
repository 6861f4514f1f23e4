---------------------------- MODULE StaticDeploy ----------------------------
(***************************************************************************)
(* The deployments of one site (app/static_sites/service.py): uploads,     *)
(* GitHub pushes and rollbacks, the worker that builds the pushes, the     *)
(* rows they share (static_sites/repository.py), the virtual hosts they    *)
(* switch (ssl/manager.py), one for each hostname a deployment asks for,   *)
(* and the Next.js containers they start and stop, which are the site's.   *)
(*                                                                         *)
(* Every request is a process that runs once, in any API process. A step   *)
(* is one SQL statement or commit, one container command, one vhost        *)
(* update; clear_current_deployments holds its row locks until the commit  *)
(* of create_deployment. The stages that only save progress are left out.  *)
(***************************************************************************)
EXTENDS Integers, Sequences, FiniteSets

CONSTANTS
    Uploads,        \* POST .../deployments requests (deploy_upload)
    Pushes,         \* GitHub push webhooks (create_github_deployment)
    Rollbacks,      \* POST .../rollback requests
    Keyed,          \* the uploads that carry one and the same Idempotency-Key
    Redelivered,    \* the pushes of one and the same commit
    Hosts,          \* hostnames
    FreeHost,       \* the site's free subdomain
    Custom,         \* the uploads that ask for a custom domain
    Nextjs,         \* uploads and pushes whose source is a Next.js project
    None,           \* NULL
    MaxRuntimes,    \* settings.NEXTJS_MAX_RUNTIMES_PER_COMPANY
    FaultKinds,     \* the kinds of fault an instance explores
    MaxFaults       \* bound: faults

Procs == Uploads \cup Pushes \cup Rollbacks

ASSUME DeployAssumption ==
    /\ Uploads \cap Pushes = {}
    /\ Uploads \cap Rollbacks = {}
    /\ Pushes \cap Rollbacks = {}
    /\ Keyed \subseteq Uploads
    /\ Redelivered \subseteq Pushes
    /\ Nextjs \subseteq Uploads \cup Pushes
    /\ FreeHost \in Hosts /\ Custom \subseteq Uploads
    /\ None \notin Procs \cup Hosts
    /\ MaxRuntimes \in Nat /\ MaxFaults \in Nat

VARIABLES
    rows,       \* static_site_deployments: the row each process created
    root,       \* each hostname's static_root_path: whose directory
    proxy,      \* its runtime_proxy_target: the container, named after its row
    running,    \* the containers that run
    key,        \* the static_site_upload_idempotency record of the shared key
    jobs,       \* static_site.github_deploy jobs on the Redis list
    worker,     \* the push the worker took last
    pc,         \* where each process is
    mem,        \* what each process holds in memory
    faults,     \* faults so far
    happened,   \* history: the kinds of mishap so far
    runs,       \* history: pipelines started under the key since it was last free
    seen,       \* history: the highest version when the process last checked
    bound,      \* history: the process that last switched a vhost
    home        \* history: the hostname deployments have gone to without a
                \* break since its vhost got the container it proxies to

site    == <<rows, key>>
vhost   == <<root, proxy, bound, home>>
history == <<happened, runs, seen>>
queue   == <<jobs, worker>>
vars    == <<site, vhost, running, queue, pc, mem, faults, history>>

Statuses == {"none", "queued", "completed", "provisioning_ssl", "failed"}

Row == [status : Statuses, version : Nat, current : BOOLEAN,
        built : BOOLEAN, node : BOOLEAN, host : Hosts \cup {None},
        container : Procs \cup {None}]

NoRow == [status |-> "none", version |-> 0, current |-> FALSE,
          built |-> FALSE, node |-> FALSE, host |-> None,
          container |-> None]

(* cleared: the rows the clear has seen, then locked; target: the row a     *)
(* rollback goes back to; container: the one started or reused; other: the  *)
(* row whose container is to be stopped, or that is to be current again;    *)
(* active: the certificate is active; host: the hostname a push carries on. *)
Memory == [cleared : SUBSET Procs, version : Nat, active : BOOLEAN,
           target : Procs \cup {None}, container : Procs \cup {None},
           other : Procs \cup {None}, host : Hosts \cup {None}]

Blank == [cleared |-> {}, version |-> 0, active |-> FALSE,
          target |-> None, container |-> None, other |-> None, host |-> None]

(* The key's record: absent, younger than its 24 hours, or older and not    *)
(* yet purged by the scheduler.                                             *)
KeyRecord == [row : Procs \cup {None}, state : {"absent", "fresh", "expired"}]
NoKey     == [row |-> None, state |-> "absent"]

Init ==
    /\ rows = [p \in Procs |-> NoRow]
    /\ root = [h \in Hosts |-> None]
    /\ proxy = [h \in Hosts |-> None]
    /\ running = {}
    /\ key = NoKey
    /\ jobs = << >>
    /\ worker = None
    /\ pc = [p \in Procs |-> "idle"]
    /\ mem = [p \in Procs |-> Blank]
    /\ faults = 0
    /\ happened = {}
    /\ runs = {}
    /\ seen = [p \in Procs |-> 0]
    /\ bound = None
    /\ home = None

-----------------------------------------------------------------------------
(* Queries.                                                                 *)

Existing  == {r \in Procs : rows[r].status # "none"}
Current   == {r \in Existing : rows[r].current}
Completed == {r \in Existing : rows[r].status = "completed"}

(* ORDER BY version DESC ... first(): empty when there is no such row.      *)
Newest(S) == {r \in S : \A q \in S : rows[q].version <= rows[r].version}

TopVersion == IF Newest(Existing) = {} THEN 0
              ELSE rows[CHOOSE r \in Newest(Existing) : TRUE].version

(* The rows that own a container, for the company's limit. A row keeps its  *)
(* runtime_container_id when the container is stopped.                      *)
Counted == {r \in Completed : rows[r].container # None}

(* The container the site's hostname is served by, if any.                  *)
Served == IF home = None THEN None ELSE proxy[home]

(* _mark_if_superseded: get_current_deployment returns a newer row.         *)
Superseded(p) ==
    \E r \in Newest(Current) : r # p /\ rows[r].version > rows[p].version

(* The rows an open transaction has cleared and not yet committed.          *)
LockedBy(q) == IF pc[q] = "insert" THEN mem[q].cleared ELSE {}
Free(S, p)  == \A q \in Procs \ {p} : S \cap LockedBy(q) = {}

-----------------------------------------------------------------------------
Fault(kind) ==
    /\ kind \in FaultKinds /\ faults < MaxFaults
    /\ faults' = faults + 1
NoFault == UNCHANGED faults

Goto(p, step) == pc' = [pc EXCEPT ![p] = step]
Record(kind)  == happened' = happened \cup {kind}

(* A process is at work from its first read to its last write; a queued     *)
(* push waits for the worker.                                               *)
Resting == {"idle", "queued", "delayed", "done", "crashed"}
AtWork  == {p \in Procs : pc[p] \notin Resting}
Waiting == {p \in Procs : pc[p] \in {"queued", "delayed"}}

(* A rollback overlaps with another request.                                *)
Begin(p) ==
    IF (p \in Rollbacks /\ AtWork # {}) \/ AtWork \cap Rollbacks # {}
    THEN Record("overlap")
    ELSE UNCHANGED happened

-----------------------------------------------------------------------------
(* Creating the row.                                                        *)

(* deploy_upload: a known key returns the deployment it made.               *)
UploadBegin(p) ==
    /\ p \in Uploads /\ pc[p] = "idle"
    /\ IF p \in Keyed /\ key.state = "fresh"
       THEN Goto(p, "done")
       ELSE Goto(p, "clear")
    /\ Begin(p)
    /\ UNCHANGED <<site, vhost, running, queue, mem, faults, runs, seen>>

(* _handle_push: the commit that is already current is not built again.     *)
PushBegin(p) ==
    /\ p \in Pushes /\ pc[p] = "idle"
    /\ IF p \in Redelivered /\ Newest(Current) \cap Redelivered # {}
       THEN Goto(p, "done")
       ELSE Goto(p, "clear")
    /\ Begin(p)
    /\ UNCHANGED <<site, vhost, running, queue, mem, faults, runs, seen>>

(* rollback: the current row, and a completed one whose files are there;    *)
(* anything else is answered 400.                                           *)
RollbackBegin(p) ==
    /\ p \in Rollbacks /\ pc[p] = "idle"
    /\ \/ \E c \in Newest(Current), t \in Completed :
             /\ rows[t].built
             /\ mem' = [mem EXCEPT ![p].other = c, ![p].target = t]
             /\ Goto(p, "clear")
       \/ /\ Goto(p, "done")
          /\ UNCHANGED mem
    /\ Begin(p)
    /\ UNCHANGED <<site, vhost, running, queue, faults, runs, seen>>

(* clear_current_deployments: the UPDATE sees the rows current when it      *)
(* starts; it waits for their locks and clears those still current.         *)
Clear(p) ==
    /\ pc[p] = "clear"
    /\ mem' = [mem EXCEPT ![p].cleared = Current]
    /\ Goto(p, "version")
    /\ UNCHANGED <<site, vhost, running, queue, faults, history>>

(* The locks are granted, then next_deployment_version is read.             *)
Version(p) ==
    /\ pc[p] = "version" /\ Free(mem[p].cleared, p)
    /\ mem' = [mem EXCEPT ![p].cleared = @ \cap Current,
                          ![p].version = TopVersion + 1]
    /\ Goto(p, "insert")
    /\ UNCHANGED <<site, vhost, running, queue, faults, history>>

(* create_deployment commits the clear and the new current row, or the      *)
(* unique (site_id, version) refuses it and both are rolled back: a 500.    *)
Inserted(p) ==
    [(IF p \in Rollbacks THEN rows[mem[p].target] ELSE NoRow)
        EXCEPT !.status = "queued", !.version = mem[p].version,
               !.current = TRUE, !.container = None]

AfterInsert(p) == CASE p \in Keyed           -> "claim"
                    [] p \in Uploads \ Keyed -> "build"
                    [] p \in Pushes          -> "enqueue"
                    [] p \in Rollbacks       -> "env"

Insert(p) ==
    /\ pc[p] = "insert"
    /\ IF \E r \in Existing : rows[r].version = mem[p].version
       THEN /\ Goto(p, "done")
            /\ UNCHANGED rows
       ELSE /\ rows' = [r \in Procs |->
                           IF r = p THEN Inserted(p)
                           ELSE [rows[r] EXCEPT !.current = @ /\ r \notin mem[p].cleared]]
            /\ Goto(p, AfterInsert(p))
    /\ mem' = [mem EXCEPT ![p].cleared = {}]
    /\ UNCHANGED <<key, vhost, running, queue, faults, history>>

(* Mutant: the key is looked up instead of claimed by a unique insert.      *)
ClaimByLookup(p) ==
    /\ pc[p] = "claim"
    /\ key' = [row |-> p, state |-> "fresh"]
    /\ runs' = runs \cup {p}
    /\ Goto(p, "build")
    /\ UNCHANGED <<rows, vhost, running, queue, mem, faults, happened, seen>>

(* claim_idempotency_key: one insert wins; an expired record that the       *)
(* scheduler has not purged still refuses it.                               *)
Claim(p) ==
    /\ pc[p] = "claim"
    /\ IF key.state = "absent"
       THEN /\ key' = [row |-> p, state |-> "fresh"]
            /\ runs' = runs \cup {p}
            /\ Goto(p, "build")
       ELSE /\ Goto(p, "discard")
            /\ UNCHANGED <<key, runs>>
    /\ UNCHANGED <<rows, vhost, running, queue, mem, faults, happened, seen>>

(* delete_deployment: the loser answers with the winner's row or, when the  *)
(* record has expired, fails on the row it has just deleted.                *)
Discard(p) ==
    /\ pc[p] = "discard"
    /\ rows' = [rows EXCEPT ![p] = NoRow]
    /\ Record("discarded")
    /\ Goto(p, "done")
    /\ UNCHANGED <<key, vhost, running, queue, mem, faults, runs, seen>>

(* No pipeline lasts 24 hours; the scheduler purges once a day.             *)
KeyExpires ==
    /\ key.state = "fresh" /\ AtWork = {} /\ Fault("expiry")
    /\ key' = [key EXCEPT !.state = "expired"]
    /\ runs' = {}
    /\ UNCHANGED <<rows, vhost, running, queue, pc, mem, happened, seen>>

KeyPurged ==
    /\ key.state = "expired"
    /\ key' = NoKey
    /\ UNCHANGED <<rows, vhost, running, queue, pc, mem, faults, history>>

-----------------------------------------------------------------------------
(* Failing a row.                                                           *)

(* Mutant: the failed row's container is left running.                      *)
FailAndLeak(p) ==
    /\ rows' = [rows EXCEPT ![p].status = "failed", ![p].current = FALSE,
                            ![p].container = mem[p].container]
    /\ Record("failed")
    /\ Goto(p, "restore")
    /\ UNCHANGED running

(* Mutant: the failed row stays current.                                    *)
FailStillCurrent(p) ==
    /\ rows' = [rows EXCEPT ![p].status = "failed", ![p].container = mem[p].container]
    /\ running' = running \ {mem[p].container}
    /\ Record("failed")
    /\ Goto(p, "restore")

(* _fail: the row gives up being current, and then hands currency to the    *)
(* newest completed row. The virtual host is not switched back. "late": a   *)
(* container has been started that no row names.                            *)
Fail(p, stillRunning) ==
    /\ rows' = [rows EXCEPT ![p].status = "failed", ![p].current = FALSE,
                            ![p].container = mem[p].container]
    /\ running' = stillRunning
    /\ happened' = happened \cup {"failed"}
          \cup (IF Served \in running \ stillRunning THEN {"unbound"} ELSE {})
          \cup (IF stillRunning \subseteq running THEN {} ELSE {"late"})
    /\ Goto(p, "restore")

(* It stops the container the row names.                                    *)
FailRow(p) == Fail(p, running \ {mem[p].container})

(* The newest other completed row becomes current, unless it is.            *)
(* "misrestored": another request was at work or waiting, the failed row    *)
(* was itself served, or the row restored is not the one served.            *)
Restore(p) ==
    /\ pc[p] = "restore"
    /\ LET previous == Newest(Completed \ {p})
       IN  /\ IF \A r \in previous : rows[r].current
              THEN /\ Goto(p, "done")
                   /\ UNCHANGED mem
              ELSE /\ \E r \in previous : mem' = [mem EXCEPT ![p].other = r]
                   /\ Goto(p, "rewrite")
           /\ IF AtWork = {p} /\ Waiting = {} /\ bound # p /\ previous \subseteq {bound}
              THEN UNCHANGED happened
              ELSE Record("misrestored")
    /\ UNCHANGED <<site, vhost, running, queue, faults, runs, seen>>

Rewrite(p) ==
    /\ pc[p] = "rewrite" /\ Free({mem[p].other}, p)
    /\ rows' = [rows EXCEPT ![mem[p].other].current = TRUE]
    /\ Goto(p, "done")
    /\ UNCHANGED <<key, vhost, running, queue, mem, faults, history>>

-----------------------------------------------------------------------------
(* GitHub: the job, and the worker that takes one at a time.                *)

Enqueue(p) ==
    /\ pc[p] = "enqueue"
    /\ \/ /\ NoFault
          /\ jobs' = Append(jobs, p)
          /\ Goto(p, "queued")
          /\ UNCHANGED <<rows, running, happened>>
       \/ /\ Fault("enqueue")
          /\ FailRow(p)
          /\ UNCHANGED jobs
    /\ UNCHANGED <<key, vhost, worker, mem, runs, seen>>

WorkerTake ==
    /\ jobs # << >>
    /\ worker \in {None} \cup {p \in Pushes : pc[p] \in Resting}
    /\ jobs' = Tail(jobs)
    /\ worker' = Head(jobs)
    /\ mem' = [mem EXCEPT ![Head(jobs)] =
                  [Blank EXCEPT !.container = rows[Head(jobs)].container]]
    /\ Goto(Head(jobs), "run")
    /\ Begin(Head(jobs))
    /\ UNCHANGED <<site, vhost, running, faults, runs, seen>>

(* A write to Postgres raises. The session is of no use until it is rolled  *)
(* back, so _fail raises too and the exception reaches the worker, which    *)
(* delays the job and later runs the pipeline of the same row again.        *)
Raise(p) ==
    /\ p \in Pushes
    /\ pc[p] \in {"run", "build", "check", "limit", "record", "finish", "stop",
                  "restore", "rewrite"}
    /\ Fault("error")
    /\ IF pc[p] = "record" /\ rows[p].node THEN Record("late") ELSE UNCHANGED happened
    /\ Goto(p, "delayed")
    /\ UNCHANGED <<site, vhost, running, queue, mem, runs, seen>>

Promote(p) ==
    /\ pc[p] = "delayed"
    /\ jobs' = Append(jobs, p)
    /\ Goto(p, "queued")
    /\ UNCHANGED <<site, vhost, running, worker, mem, faults, history>>

(* Mutant: a superseded row gets a status of its own.                       *)
YieldSuperseded(p) ==
    /\ rows' = [rows EXCEPT ![p].status = "superseded", ![p].current = FALSE]
    /\ Goto(p, "done")

(* _mark_if_superseded ends the row completed, never activated.             *)
Yield(p) ==
    /\ rows' = [rows EXCEPT ![p].status = "completed", ![p].current = FALSE]
    /\ Goto(p, "done")

(* A push goes to the newest completed row's custom domain, if it has one.  *)
Carried(p) ==
    LET hosts == {rows[r].host : r \in Newest(Completed \ {p})} \ {None}
    IN  IF hosts = {} THEN FreeHost ELSE CHOOSE h \in hosts : TRUE

(* run_github_deploy: superseded while it waited, or built. "revived": the  *)
(* row had already completed or failed.                                     *)
RunStart(p) ==
    /\ pc[p] = "run"
    /\ IF Superseded(p)
       THEN Yield(p) /\ UNCHANGED <<mem, happened>>
       ELSE /\ Goto(p, "build")
            /\ mem' = [mem EXCEPT ![p].host = Carried(p)]
            /\ UNCHANGED rows
            /\ IF rows[p].status \in {"completed", "failed"}
               THEN Record("revived") ELSE UNCHANGED happened
    /\ UNCHANGED <<key, vhost, running, queue, faults, runs, seen>>

-----------------------------------------------------------------------------
(* _run_pipeline, and the activation half of rollback.                      *)

(* A rollback copies its target's environment, or fails.                    *)
Env(p) ==
    /\ pc[p] = "env"
    /\ \/ /\ NoFault
          /\ Goto(p, IF rows[p].node THEN "start" ELSE "bind")
          /\ UNCHANGED <<rows, running, happened>>
       \/ /\ Fault("build")
          /\ FailRow(p)
    /\ UNCHANGED <<key, vhost, queue, mem, runs, seen>>

(* Fetching, unpacking and building; a failure ends the row.                *)
Build(p) ==
    /\ pc[p] = "build"
    /\ \/ /\ NoFault
          /\ rows' = [rows EXCEPT ![p].status = "queued", ![p].built = TRUE,
                                  ![p].node = (p \in Nextjs)]
          /\ Goto(p, "check")
          /\ UNCHANGED <<running, happened>>
       \/ /\ Fault("build")
          /\ FailRow(p)
    /\ UNCHANGED <<key, vhost, queue, mem, runs, seen>>

(* Mutant: the guard is not repeated after the build.                       *)
CheckNothing(p) ==
    /\ pc[p] = "check"
    /\ seen' = [seen EXCEPT ![p] = TopVersion]
    /\ Goto(p, IF rows[p].node THEN "limit" ELSE "record")
    /\ UNCHANGED <<rows, key, vhost, running, queue, mem, faults, happened, runs>>

(* The stale-commit guard after the build.                                  *)
Check(p) ==
    /\ pc[p] = "check"
    /\ seen' = [seen EXCEPT ![p] = TopVersion]
    /\ IF Superseded(p)
       THEN Yield(p)
       ELSE /\ Goto(p, IF rows[p].node THEN "limit" ELSE "record")
            /\ UNCHANGED rows
    /\ UNCHANGED <<key, vhost, running, queue, mem, faults, happened, runs>>

(* The row whose container will be stopped is the newest completed one,     *)
(* read here; then the company's limit.                                     *)
Limit(p) ==
    /\ pc[p] = "limit"
    /\ IF Cardinality(Counted) >= MaxRuntimes
       THEN /\ FailRow(p)
            /\ UNCHANGED mem
       ELSE /\ \/ /\ Newest(Completed \ {p}) = {}
                  /\ UNCHANGED mem
               \/ \E r \in Newest(Completed \ {p}) :
                     mem' = [mem EXCEPT ![p].other = r]
            /\ Goto(p, "start")
            /\ UNCHANGED <<rows, running, happened>>
    /\ UNCHANGED <<key, vhost, queue, faults, runs, seen>>

(* start_runtime names the container after the row; a rollback reuses its   *)
(* target's container while that runs.                                      *)
Reusable(p) ==
    IF p \in Rollbacks THEN running \cap {rows[mem[p].target].container} ELSE {}

(* Mutant: the replaced version is stopped before the new one starts.       *)
StopThenStart(p) ==
    /\ pc[p] = "start" /\ NoFault
    /\ mem' = [mem EXCEPT ![p].container = p]
    /\ running' = {p} \cup
          IF mem[p].other = None THEN running
          ELSE running \ {rows[mem[p].other].container}
    /\ Goto(p, "record")
    /\ UNCHANGED <<rows, happened, key, vhost, queue, runs, seen>>

(* A failed start leaves no container behind, except that the orchestrator  *)
(* may get one healthy after the caller's timeout. A row run again while    *)
(* its container is up has the name conflict remove it, and fails.          *)
Start(p) ==
    /\ pc[p] = "start"
    /\ \/ /\ Reusable(p) # {} \/ p \notin running
          /\ NoFault
          /\ \E c \in IF Reusable(p) = {} THEN {p} ELSE Reusable(p) :
                /\ mem' = [mem EXCEPT ![p].container = c]
                /\ running' = running \cup {c}
          /\ Goto(p, "record")
          /\ UNCHANGED <<rows, happened>>
       \/ /\ Reusable(p) = {} /\ p \notin running
          /\ \/ Fault("start") /\ FailRow(p)
             \/ Fault("late") /\ Fail(p, running \cup {p})
          /\ UNCHANGED mem
       \/ /\ Reusable(p) = {} /\ p \in running
          /\ NoFault
          /\ Fail(p, running \ {p})
          /\ UNCHANGED mem
    /\ UNCHANGED <<key, vhost, queue, runs, seen>>

(* The hostname of an upload's request, of a push or of a copied row.       *)
HostOf(p) == CASE p \in Custom            -> Hosts \ {FreeHost}
               [] p \in Uploads \ Custom -> {FreeHost}
               [] p \in Pushes            -> {mem[p].host}
               [] p \in Rollbacks         -> {rows[p].host}

(* The container, then the hostname; resolving it may raise, which the      *)
(* catch-all turns into a failed row.                                       *)
RecordRow(p) ==
    /\ pc[p] = "record"
    /\ \/ /\ NoFault
          /\ \E h \in HostOf(p) :
                rows' = [rows EXCEPT ![p].container = mem[p].container, ![p].host = h]
          /\ Goto(p, "bind")
          /\ UNCHANGED <<running, happened>>
       \/ /\ p \notin Rollbacks /\ Fault("hostname")
          /\ FailRow(p)
    /\ UNCHANGED <<key, vhost, queue, mem, runs, seen>>

(* The hostname's vhost. set_runtime_proxy_target clears the static root;   *)
(* set_static_root leaves the proxy target, which generate_vhost prefers.   *)
Switch(p) ==
    LET h == rows[p].host
    IN  /\ IF mem[p].container # None
           THEN /\ proxy' = [proxy EXCEPT ![h] = mem[p].container]
                /\ root' = [root EXCEPT ![h] = None]
                /\ home' = h
           ELSE /\ root' = [root EXCEPT ![h] = p]
                /\ home' = IF home = h THEN h ELSE None
                /\ UNCHANGED proxy
        /\ bound' = p
        /\ IF bound # None /\ rows[bound].version > rows[p].version
           THEN Record("overtaken")
           ELSE UNCHANGED happened

(* bind_hostname_and_ssl, or the repoint of a rollback. Both swallow every  *)
(* exception; an upload's hostname may also still wait for its DNS record   *)
(* or its certificate. A rollback to a row that was never given a hostname  *)
(* switches nothing.                                                        *)
Bind(p) ==
    /\ pc[p] = "bind"
    /\ \/ /\ rows[p].host # None /\ NoFault
          /\ Switch(p)
          /\ mem' = [mem EXCEPT ![p].active = TRUE]
       \/ /\ rows[p].host # None /\ p \notin Rollbacks /\ Fault("pending")
          /\ Switch(p)
          /\ UNCHANGED mem
       \/ /\ \/ rows[p].host # None /\ Fault("bind")
             \/ rows[p].host = None /\ NoFault
          /\ \E b \in BOOLEAN : mem' = [mem EXCEPT ![p].active = b]
          /\ Record("unbound")
          /\ UNCHANGED vhost
    /\ Goto(p, "finish")
    /\ UNCHANGED <<site, running, queue, runs, seen>>

Finish(p) ==
    /\ pc[p] = "finish"
    /\ rows' = [rows EXCEPT ![p].status =
                   IF mem[p].active \/ p \in Rollbacks
                   THEN "completed" ELSE "provisioning_ssl"]
    /\ Goto(p, IF mem[p].container # None /\ mem[p].other # None THEN "stop" ELSE "done")
    /\ UNCHANGED <<key, vhost, running, queue, mem, faults, history>>

(* The replaced version's container is stopped last. A rollback's row to    *)
(* stop may have been discarded meanwhile: reading it raises.               *)
Stop(p) ==
    /\ pc[p] = "stop"
    /\ LET old == rows[mem[p].other]
       IN  IF old.status = "none"
           THEN FailRow(p)
           ELSE /\ running' = running \ ({old.container} \ {mem[p].container})
                /\ Goto(p, "done")
                /\ UNCHANGED <<rows, happened>>
    /\ UNCHANGED <<key, vhost, queue, mem, faults, runs, seen>>

(* The process dies, or a request's write to Postgres raises and _fail's    *)
(* with it: the row and its container stay as they are, the row locks are   *)
(* released. BLPOP has already taken a job.                                 *)
Crash(p) ==
    /\ p \in AtWork /\ Fault("crash")
    /\ Goto(p, "crashed")
    /\ UNCHANGED <<site, vhost, running, queue, mem, history>>

-----------------------------------------------------------------------------
Step(p) ==
    \/ UploadBegin(p) \/ PushBegin(p) \/ RollbackBegin(p)
    \/ Clear(p) \/ Version(p) \/ Insert(p) \/ Claim(p) \/ Discard(p)
    \/ Enqueue(p) \/ RunStart(p) \/ Build(p) \/ Check(p) \/ Limit(p)
    \/ Env(p) \/ Start(p) \/ RecordRow(p) \/ Bind(p) \/ Finish(p) \/ Stop(p)
    \/ Restore(p) \/ Rewrite(p) \/ Promote(p)

(* Every request has been answered and every job taken.                     *)
AllDone == (\A p \in Procs : pc[p] \in {"done", "crashed"}) /\ UNCHANGED vars

Next ==
    \/ \E p \in Procs : Step(p) \/ Raise(p) \/ Crash(p)
    \/ WorkerTake \/ KeyExpires \/ KeyPurged \/ AllDone

Spec == Init /\ [][Next]_vars

-----------------------------------------------------------------------------
(* Properties                                                               *)

Steps == Resting \cup {"clear", "version", "insert", "claim", "discard", "enqueue",
                       "run", "env", "build", "check", "limit", "start", "record", "bind",
                       "finish", "stop", "restore", "rewrite"}

TypeOK ==
    /\ rows \in [Procs -> Row]
    /\ root \in [Hosts -> Procs \cup {None}] /\ proxy \in [Hosts -> Procs \cup {None}]
    /\ running \subseteq Procs
    /\ key \in KeyRecord
    /\ jobs \in Seq(Pushes) /\ worker \in Pushes \cup {None}
    /\ pc \in [Procs -> Steps]
    /\ mem \in [Procs -> Memory]
    /\ faults \in Nat
    /\ happened \subseteq {"overlap", "discarded", "failed", "unbound",
                           "misrestored", "overtaken", "late", "revived"}
    /\ runs \subseteq Keyed
    /\ seen \in [Procs -> Nat]
    /\ bound \in Procs \cup {None} /\ home \in Hosts \cup {None}

(* However often a request is retried, and however the retries interleave,  *)
(* one idempotency key starts one pipeline for as long as its record lives. *)
OneRunPerKey == Cardinality(runs) <= 1

(* Zero-downtime cutover: the container the site's hostname is served by    *)
(* runs, whatever deployments overlap, fail or are abandoned, unless a vhost*)
(* update was lost, a rollback overlapped with another request, a row failed*)
(* that was being served or a row that had ended was built again. A hostname*)
(* the site's deployments have left for another one is served by a container*)
(* the site no longer keeps, until one is started for it again.             *)
ServedIsUp ==
    Served \in running \cup {None} \/ happened \cap {"unbound", "overlap", "revived"} # {}

(* Every container that runs is one that a completed or provisioning row    *)
(* names, or that a process that has not ended, or has crashed, has started,*)
(* unless a start was reported too late or its record was lost.             *)
Accounted ==
    \/ "late" \in happened
    \/ \A c \in running :
          \E p \in Procs :
            \/ rows[p].status \in {"completed", "provisioning_ssl"}
                 /\ rows[p].container = c
            \/ mem[p].container = c /\ pc[p] # "done"

(* A deployment takes the site over from a newer one only if the newer one  *)
(* did not exist yet when the older checked, or something had failed or     *)
(* been discarded.                                                          *)
OlderYields ==
    [][\A p \in Uploads \cup Pushes :
          bound' = p /\ bound \notin {p, None} /\ happened \cap {"failed", "discarded"} = {}
             => rows[bound].version < rows[p].version \/ rows[bound].version > seen[p]]_vars

(* At rest the row the API reports as current is the one a virtual host     *)
(* was last switched to, unless a row failed while another deployment was   *)
(* at work, while it was itself served or while the newest completed row    *)
(* was not the one served, a vhost update was lost, a newer deployment was  *)
(* overtaken, a duplicate was discarded, a row that had ended was built     *)
(* again or a process crashed.                                              *)
CurrentIsBound ==
    \/ \E p \in Procs : pc[p] \notin {"idle", "done"}
    \/ happened \cap {"misrestored", "unbound", "overtaken", "discarded", "revived"} # {}
    \/ Newest(Current) \subseteq {bound}
=============================================================================
