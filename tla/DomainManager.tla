--------------------------- MODULE DomainManager ---------------------------
(***************************************************************************)
(* One hostname of a company, from its registration to a served and        *)
(* renewed certificate (app/domains/service.py, app/ssl/manager.py): the   *)
(* DNS check, the ACME order, the activation that writes the virtual host, *)
(* the deployments that point the virtual host at their content, and the   *)
(* scheduler and worker that drive all this without a person.              *)
(*                                                                         *)
(* Requests and the worker each work on an object loaded in their own      *)
(* SQLAlchemy session.  Nothing is locked: a save writes the columns whose *)
(* value differs from the loaded one and loads the row again.  One step is *)
(* one commit, one DNS or ACME call, one read or one vhost file written.   *)
(***************************************************************************)
EXTENDS Integers

CONSTANTS
    Free,         \* a *.thtwaat.com name, registered as verified
    Requests,     \* API requests: portal, operations, deployments
    Worker,       \* the job worker
    Directories,  \* contents that deployments bind: directories ...
    Containers,   \* ... and Next.js containers
    Proxy,        \* no content: the vhost proxies to the API
    None,         \* nothing
    MaxTries,     \* max_attempts of a domain.auto_progress job
    FaultKinds,   \* faults that may strike
    MaxFaults     \* bound: how many strike

AllFaults == {"acme", "files", "crash"}

ASSUME DomainAssumption ==
    /\ Free \in BOOLEAN
    /\ Worker \notin Requests
    /\ None \notin Directories \cup Containers \cup {Proxy}
    /\ MaxTries \in Nat \ {0} /\ MaxFaults \in Nat
    /\ FaultKinds \subseteq AllFaults

VARIABLES
    row,        \* the company_domains row but for ...
    content,    \* ... its static_root_path and runtime_proxy_target (root, proxy) ...
    expiry,     \* ... and its ssl_expires_at, seen from today; "none" while NULL
    vhost,      \* what the virtual host file serves; None while there is none
    jobs,       \* jobs in thtwaat:jobs and its delayed set
    job,        \* the job in the worker's hands
    pc,         \* where each request and the worker stand
    mem,        \* the object in each one's session: the row as last loaded
    op,         \* what each one is doing
    seen,       \* the content each one is about to write into the vhost
    crossed,    \* those whose content another binding has since replaced
    lag,        \* the vhost missed a binding by a race or a crash
    faults      \* faults so far

session == <<pc, mem, op>>
queue   == <<jobs, job>>
host    == <<content, vhost, seen, crossed, lag>>
vars    == <<row, content, expiry, vhost, jobs, job, pc, mem, op, seen, crossed, lag,
             faults>>

Procs    == Requests \cup {Worker}
Targets  == Directories \cup Containers
Contents == Targets \cup {Proxy}

Columns == [root : Directories \cup {None}, proxy : Containers \cup {None}]
Unbound == [root |-> None, proxy |-> None]

Sweep    == {"PENDING", "DNS_PENDING", "SSL_PENDING"}   \* list_active_for_progress
Statuses == Sweep \cup {"LIVE", "FAILED", "gone"}
Ssl      == {"NONE", "PENDING", "REQUESTING", "ACTIVE", "RENEWING", "FAILED", "EXPIRED"}
Row      == [status : Statuses, ssl : Ssl, verified : BOOLEAN, cert : BOOLEAN]

Progress(n) == [kind |-> "progress", attempt |-> n]
Renew       == [kind |-> "renew", attempt |-> 1]
Job         == {Renew} \cup {Progress(n) : n \in 1..MaxTries}

ASSUME NoneIsNoJob == None \notin Job

There == row.status # "gone"

Registered(status, ssl, verified) ==
    [status |-> status, ssl |-> ssl, verified |-> verified, cert |-> FALSE]

Blank == Registered("PENDING", "NONE", FALSE)

(* create, or create_free_subdomain with the job it enqueues or fails to.   *)
Init ==
    /\ row = IF Free THEN Registered("SSL_PENDING", "PENDING", TRUE)
                     ELSE Blank
    /\ jobs \in IF Free THEN {{}, {Progress(1)}} ELSE {{}}
    /\ content = Unbound
    /\ expiry = "none"
    /\ job = None
    /\ vhost = None
    /\ pc = [p \in Procs |-> "idle"]
    /\ mem = [p \in Procs |-> Blank]
    /\ op = [p \in Procs |-> "none"]
    /\ seen = [p \in Procs |-> Proxy]
    /\ crossed = {}
    /\ lag = FALSE
    /\ faults = 0

-----------------------------------------------------------------------------
(* Sessions, jobs and faults                                                *)

Fault(kind) ==
    /\ kind \in FaultKinds /\ faults < MaxFaults
    /\ faults' = faults + 1

NoFault == UNCHANGED faults

(* A session starts: loading the row and committing a first change to it is *)
(* one step.                                                                *)
Open(p, new, what, step) ==
    /\ row' = new
    /\ mem' = [mem EXCEPT ![p] = new]
    /\ op' = [op EXCEPT ![p] = what]
    /\ pc' = [pc EXCEPT ![p] = step]

Close(p) ==
    /\ mem' = [mem EXCEPT ![p] = Blank]
    /\ op' = [op EXCEPT ![p] = "none"]
    /\ pc' = [pc EXCEPT ![p] = "idle"]

(* Mutant: the whole object is written. *)
MergeAll(old, new) == new

(* The unit of work: an UPDATE of the columns that differ from the object   *)
(* as it was loaded.                                                        *)
Merge(old, new) ==
    [status   |-> IF new.status   = old.status   THEN row.status   ELSE new.status,
     ssl      |-> IF new.ssl      = old.ssl      THEN row.ssl      ELSE new.ssl,
     verified |-> IF new.verified = old.verified THEN row.verified ELSE new.verified,
     cert     |-> IF new.cert     = old.cert     THEN row.cert     ELSE new.cert]

Save(p, new) == There /\ row' = Merge(mem[p], new)

(* After a save the object is loaded again.                                 *)
Go(p, what, step) ==
    /\ mem' = [mem EXCEPT ![p] = row']
    /\ op' = [op EXCEPT ![p] = what]
    /\ pc' = [pc EXCEPT ![p] = step]

Goto(p, step) ==
    /\ pc' = [pc EXCEPT ![p] = step]
    /\ UNCHANGED <<row, mem, op>>

(* Mutant: the worker forgets that its job is done. *)
ReturnKeeping(p) == Close(p) /\ UNCHANGED queue

(* The handler returns.                                                     *)
Return(p) ==
    /\ Close(p)
    /\ job' = IF p = Worker THEN None ELSE job
    /\ UNCHANGED jobs

(* The handler raises: a request is answered with an error; the worker      *)
(* tries a domain.auto_progress job again later and gives any other up.     *)
Raise(p) ==
    /\ Close(p)
    /\ job' = IF p = Worker THEN None ELSE job
    /\ jobs' = IF p = Worker /\ job.kind = "progress" /\ job.attempt < MaxTries
               THEN jobs \cup {Progress(job.attempt + 1)} ELSE jobs

(* A save of a deleted row raises StaleDataError.                           *)
RaiseGone(p) == ~There /\ NoFault /\ Raise(p) /\ UNCHANGED row

-----------------------------------------------------------------------------
(* The DNS check                                                            *)

(* verify, up to its first commit. *)
Verify(p, what) ==
    Open(p, [row EXCEPT !.status = "DNS_PENDING"], what, "lookup")

(* The record is found: a request_ssl goes on with its order.               *)
Found(p) ==
    /\ pc[p] = "lookup" /\ NoFault
    /\ Save(p, [mem[p] EXCEPT !.status = "SSL_PENDING", !.ssl = "PENDING",
                              !.verified = TRUE])
    /\ IF op[p] = "oneclick" THEN Go(p, "order", "request") /\ UNCHANGED queue
                             ELSE Return(p)
    /\ UNCHANGED <<expiry, host>>

(* It is not found, or the resolver fails: a person's check fails the       *)
(* domain (outside the simulation mode), the scheduler's leaves it for the  *)
(* next sweep.                                                              *)
Missed(p) ==
    /\ pc[p] = "lookup" /\ NoFault
    /\ Save(p, [mem[p] EXCEPT !.status = IF op[p] = "auto" THEN "DNS_PENDING" ELSE "FAILED"])
    /\ Return(p)
    /\ UNCHANGED <<expiry, host>>

Lookup(p) ==
    \/ Found(p) \/ Missed(p)
    \/ pc[p] = "lookup" /\ RaiseGone(p) /\ UNCHANGED <<expiry, host>>

-----------------------------------------------------------------------------
(* The certificate                                                          *)

Requesting(r) == [r EXCEPT !.ssl = "REQUESTING", !.status = "SSL_PENDING"]

(* request_ssl of a row that needs no DNS check, up to its first commit.    *)
Order(p) == Open(p, Requesting(row), "order", "issue")

(* The same after the DNS check or a binding, in their session.             *)
Request(p) ==
    /\ pc[p] = "request" /\ UNCHANGED <<expiry, host>>
    /\ \/ Save(p, Requesting(mem[p])) /\ NoFault /\ Go(p, "order", "issue") /\ UNCHANGED queue
       \/ RaiseGone(p)

StartRenew(p) == Open(p, [row EXCEPT !.ssl = "RENEWING"], "order", "issue")

(* The ACME order: a certificate, a certificate whose files are missing, or *)
(* a failure, which is recorded.                                            *)
Issue(p) ==
    /\ pc[p] = "issue" /\ UNCHANGED <<expiry, host>>
    /\ \/ NoFault /\ Goto(p, "reread") /\ UNCHANGED queue
       \/ /\ Fault("files")
          /\ Goto(p, IF mem[p].cert THEN "reread" ELSE "bare")
          /\ UNCHANGED queue
       \/ /\ Fault("acme")
          /\ Save(p, [mem[p] EXCEPT !.ssl = "FAILED"])
          /\ Raise(p)
       \/ RaiseGone(p)

(* generate_vhost prefers the container to the directory, and either to the *)
(* API.                                                                     *)
Preferred ==
    IF content.proxy # None THEN content.proxy
    ELSE IF content.root # None THEN content.root ELSE Proxy

(* The vhost written, and nginx reloaded.                                   *)
Write(p) ==
    /\ vhost' = seen[p]
    /\ lag' = (p \in crossed)
    /\ crossed' = crossed \ {p}
    /\ seen' = [seen EXCEPT ![p] = Proxy]

(* Mutant: the content is that of a domain nobody has deployed to. *)
RereadDefault(p) ==
    /\ pc[p] = "reread" /\ NoFault
    /\ seen' = [seen EXCEPT ![p] = Proxy]
    /\ Goto(p, "write")
    /\ UNCHANGED <<queue, content, expiry, vhost, crossed, lag>>

(* _activate: the content is read again (of a deleted row, what the object  *)
(* had) ...                                                                 *)
Reread(p) ==
    /\ pc[p] = "reread" /\ NoFault
    /\ \E c \in IF There THEN {Preferred} ELSE Contents : seen' = [seen EXCEPT ![p] = c]
    /\ Goto(p, "write")
    /\ UNCHANGED <<queue, content, expiry, vhost, crossed, lag>>

(* ... the vhost is written ...                                             *)
WriteVhost(p) ==
    /\ pc[p] = "write" /\ NoFault
    /\ Write(p)
    /\ Goto(p, "save")
    /\ UNCHANGED <<queue, content, expiry>>

(* ... and the row is saved, with a new expiry date whatever it was.        *)
Active(p) ==
    [mem[p] EXCEPT !.ssl = "ACTIVE", !.status = "LIVE", !.cert = @ \/ pc[p] = "save"]

Activate(p) ==
    /\ pc[p] \in {"save", "bare"} /\ NoFault /\ UNCHANGED host
    /\ \/ Save(p, Active(p)) /\ expiry' = "fresh" /\ Return(p)
       \/ RaiseGone(p) /\ UNCHANGED expiry

-----------------------------------------------------------------------------
(* Deployments bind their content                                           *)

Holding == {"write", "save", "rewrite"}

Again == IF ~Free /\ row.status = "LIVE" /\ row.ssl # "ACTIVE" THEN {"again"} ELSE {}

(* set_runtime_proxy_target clears the directory; set_static_root leaves    *)
(* the container.                                                           *)
Bound(c) ==
    IF c \in Containers THEN [root |-> None, proxy |-> c]
                        ELSE [content EXCEPT !.root = c]

(* The row is saved, and the vhost written only if there is a certificate.  *)
(* A deployment to a custom domain that is live without an active           *)
(* certificate then requests one.                                           *)
Bind(p, c) ==
    /\ pc[p] = "idle" /\ p \in Requests /\ There /\ NoFault
    /\ content' = Bound(c)
    /\ \/ /\ row.cert
          /\ \E what \in {"bind"} \cup Again : Open(p, row, what, "rewrite")
          /\ seen' = [seen EXCEPT ![p] = Preferred']
          /\ UNCHANGED lag
       \/ /\ ~row.cert
          /\ lag' = (lag \/ \E q \in Procs : pc[q] = "save")
          /\ UNCHANGED <<row, session, seen>>
       \/ /\ ~row.cert
          /\ \E what \in Again : Open(p, row, what, "request")
          /\ lag' = (lag \/ \E q \in Procs : pc[q] = "save")
          /\ UNCHANGED seen
    /\ crossed' = crossed \cup {q \in Procs : pc[q] \in {"write", "rewrite"}}
    /\ UNCHANGED <<queue, expiry, vhost>>

Rewrite(p) ==
    /\ pc[p] = "rewrite" /\ NoFault
    /\ Write(p)
    /\ \/ op[p] = "again" /\ Goto(p, "request")
       \/ op[p] = "bind" /\ Close(p) /\ UNCHANGED row
    /\ UNCHANGED <<queue, content, expiry>>

-----------------------------------------------------------------------------
(* People                                                                   *)

NeedsDns == ~row.verified /\ row.status \notin {"SSL_PENDING", "LIVE"}

(* verify, or retry_verification of a row that is not live.                 *)
AskVerify(p) == Verify(p, "verify")

AskRequest(p) == IF NeedsDns THEN Verify(p, "oneclick") ELSE Order(p)

Ask(p) ==
    /\ pc[p] = "idle" /\ p \in Requests /\ There /\ NoFault
    /\ AskVerify(p) \/ AskRequest(p) \/ StartRenew(p)
    /\ UNCHANGED <<queue, expiry, host>>

(* delete: the row goes, the vhost stays.                                   *)
Delete ==
    /\ There /\ \E p \in Requests : pc[p] = "idle"
    /\ row' = Registered("gone", "NONE", FALSE) /\ expiry' = "none" /\ content' = Unbound
    /\ UNCHANGED <<queue, session, vhost, seen, crossed, lag, faults>>

-----------------------------------------------------------------------------
(* Scheduler, worker and time                                               *)

(* Mutant: a certificate is marked when it is due. *)
MarkDue ==
    IF expiry \in {"due", "past"} /\ row.ssl \notin {"EXPIRED", "NONE"}
    THEN [row EXCEPT !.ssl = "EXPIRED"] ELSE row

(* mark_expired; the status page does the same for its domain.              *)
MarkExpired ==
    IF expiry = "past" /\ row.ssl \notin {"EXPIRED", "NONE"}
    THEN [row EXCEPT !.ssl = "EXPIRED"] ELSE row

(* Mutant: the sweep forgets the domains that wait for a certificate. *)
TickVerifyOnly ==
    /\ There
    /\ row' = MarkExpired
    /\ jobs' = jobs \cup (IF row'.ssl = "ACTIVE" /\ expiry = "due" THEN {Renew} ELSE {})
                    \cup (IF row'.status \in Sweep \ {"SSL_PENDING"} THEN {Progress(1)} ELSE {})
    /\ UNCHANGED <<job, expiry, session, host, faults>>

(* An hour has passed: mark_expired, check_expiring, the sweep.             *)
Tick ==
    /\ There
    /\ row' = MarkExpired
    /\ jobs' = jobs \cup (IF row'.ssl = "ACTIVE" /\ expiry = "due" THEN {Renew} ELSE {})
                    \cup (IF row'.status \in Sweep THEN {Progress(1)} ELSE {})
    /\ UNCHANGED <<job, expiry, session, host, faults>>

(* The status page marks an expired certificate as well.                    *)
ReadStatus ==
    /\ There /\ row' = MarkExpired
    /\ UNCHANGED <<queue, expiry, session, host, faults>>

(* The worker takes a job; progress dispatches on the row's status.         *)
Pop(j) ==
    /\ pc[Worker] = "idle" /\ j \in jobs /\ NoFault
    /\ UNCHANGED <<expiry, host>>
    /\ \/ /\ j.kind = "progress" /\ row.status \in {"PENDING", "DNS_PENDING"}
          /\ Verify(Worker, "auto")
          /\ job' = j /\ jobs' = jobs \ {j}
       \/ /\ j.kind = "progress" /\ row.status = "SSL_PENDING"
          /\ Order(Worker)
          /\ job' = j /\ jobs' = jobs \ {j}
       \/ /\ j.kind = "renew" /\ There
          /\ StartRenew(Worker)
          /\ job' = j /\ jobs' = jobs \ {j}
       \/ /\ j.kind = "progress" /\ row.status \in {"LIVE", "FAILED"}
          /\ jobs' = jobs \ {j}
          /\ UNCHANGED <<row, job, session>>
       \/ /\ ~There
          /\ jobs' = (jobs \ {j}) \cup
                     (IF j.kind = "progress" /\ j.attempt < MaxTries
                      THEN {Progress(j.attempt + 1)} ELSE {})
          /\ UNCHANGED <<row, job, session>>

Crash(p) ==
    /\ pc[p] # "idle" /\ Fault("crash")
    /\ Return(p)
    /\ seen' = [seen EXCEPT ![p] = Proxy]
    /\ crossed' = crossed \ {p}
    /\ lag' = (lag \/ pc[p] = "rewrite")
    /\ UNCHANGED <<row, content, expiry, vhost>>

(* A certificate comes within 30 days of its end, two months after whatever *)
(* was at work then, and to its end: by then the hourly ticks and their     *)
(* jobs have done what they can.                                            *)
Over == jobs = {} /\ \A p \in Procs : pc[p] = "idle"

Age ==
    /\ There /\ Over
    /\ \/ expiry = "fresh" /\ expiry' = "due"
       \/ /\ expiry = "due" /\ row.ssl # "ACTIVE" /\ row.status \notin Sweep
          /\ expiry' = "past"
    /\ UNCHANGED <<row, queue, session, host, faults>>

Step(p) ==
    \/ Lookup(p) \/ Request(p) \/ Issue(p) \/ Reread(p) \/ WriteVhost(p)
    \/ Activate(p) \/ Rewrite(p)

Next ==
    \/ \E p \in Procs : Step(p) \/ Ask(p) \/ Crash(p) \/ \E c \in Targets : Bind(p, c)
    \/ Delete \/ Tick \/ ReadStatus \/ Age
    \/ \E j \in Job : Pop(j)

Spec == Init /\ [][Next]_vars

(* The scheduler ticks, the queue is first in, first out, whoever has       *)
(* started goes on, and a record that is looked for again and again is      *)
(* published in the end.                                                    *)
Fairness ==
    /\ WF_vars(Tick)
    /\ \A j \in Job : SF_vars(Pop(j))
    /\ \A p \in Procs : WF_vars(Step(p))
    /\ SF_vars(Found(Worker))

FairSpec == Spec /\ Fairness

-----------------------------------------------------------------------------
(* Properties                                                               *)

Steps == {"idle", "lookup", "request", "issue", "reread", "write", "save", "bare",
          "rewrite"}
Ops   == {"none", "auto", "verify", "oneclick", "order", "bind", "again"}

TypeOK ==
    /\ row \in Row /\ content \in Columns /\ expiry \in {"none", "fresh", "due", "past"}
    /\ vhost \in Contents \cup {None}
    /\ jobs \subseteq Job /\ job \in Job \cup {None}
    /\ pc \in [Procs -> Steps]
    /\ mem \in [Procs -> Row]
    /\ op \in [Procs -> Ops]
    /\ seen \in [Procs -> Contents]
    /\ crossed \subseteq Procs
    /\ lag \in BOOLEAN
    /\ faults \in 0..MaxFaults
    /\ pc[Worker] # "idle" <=> job # None

(* The last content bound: a container clears the directory.                *)
Latest == IF content.root # None THEN content.root ELSE Preferred

(* A directory bound after a container, whose column nothing clears.        *)
Hidden == content.root # None /\ content.proxy # None

(* A binding is picked up, also one made while a certificate is on order:   *)
(* with a certificate, and no vhost about to be written, the vhost serves   *)
(* the content bound last, unless it is a directory hidden by a container,  *)
(* which is then what is served.  The named races apart: the binding came   *)
(* between the last read of the content and the save of the certificate,    *)
(* two bindings crossed, or one died.                                       *)
PickedUp ==
    There /\ row.cert /\ (\A p \in Procs : pc[p] \notin Holding) =>
        \/ vhost = IF Hidden THEN content.proxy ELSE Latest
        \/ lag

AtWork == \E r \in Requests : pc[r] # "idle"

(* A domain gets its certificate, or a person's check has failed it,        *)
(* whatever crashes or is refused on the way, unless a person takes it up   *)
(* again: once people leave it alone, the scheduler and the worker do it.   *)
EventuallyLive ==
    row.status \in Sweep ~> row.status \in {"LIVE", "FAILED", "gone"} \/ AtWork

(* A certificate near its end, or past it, is replaced once people leave    *)
(* the domain alone, unless something failed on the way or, after another   *)
(* check had passed, a person's DNS check failed the domain.                *)
RenewedInTime ==
    expiry \in {"due", "past"} ~>
        \/ expiry = "fresh" \/ row.status = "gone"
        \/ row.status = "FAILED" /\ row.ssl # "ACTIVE"
        \/ faults > 0 \/ AtWork
=============================================================================
