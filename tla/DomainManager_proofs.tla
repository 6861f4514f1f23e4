----------------------- MODULE DomainManager_proofs -----------------------
(* Proofs about DomainManager, for every set of requests and contents, free *)
(* and custom hostnames, and every number of tries and faults.              *)
EXTENDS DomainManager, TLAPS

(* Rows and sessions, and what a step of one process leaves of the others.  *)
Sessions == pc \in [Procs -> Steps] /\ mem \in [Procs -> Row] /\ op \in [Procs -> Ops]

Moves(p, step) ==
    /\ Sessions'
    /\ pc'[p] = step
    /\ \A q \in Procs : q # p => pc'[q] = pc[q]

LEMMA Blanks ==
    /\ Blank \in Row
    /\ Blank.status # "gone" /\ ~Blank.cert
    /\ Registered("SSL_PENDING", "PENDING", TRUE) \in Row
    /\ ~Registered("SSL_PENDING", "PENDING", TRUE).cert
    /\ Registered("gone", "NONE", FALSE) \in Row
    /\ Registered("gone", "NONE", FALSE).status = "gone"
  BY DEF Blank, Registered, Row, Statuses, Sweep, Ssl

LEMMA GotoMoves ==
    ASSUME Sessions, row \in Row, NEW p \in Procs, NEW s \in Steps, Goto(p, s)
    PROVE  Moves(p, s) /\ row' = row
  BY DEF Goto, Moves, Sessions

LEMMA CloseMoves ==
    ASSUME Sessions, NEW p \in Procs, Close(p)
    PROVE  Moves(p, "idle")
  BY Blanks DEF Close, Moves, Sessions, Steps, Ops

LEMMA GoMoves ==
    ASSUME Sessions, row' \in Row, NEW p \in Procs, NEW o \in Ops, NEW s \in Steps,
           Go(p, o, s)
    PROVE  Moves(p, s)
  BY DEF Go, Moves, Sessions

LEMMA OpenMoves ==
    ASSUME Sessions, NEW p \in Procs, NEW r \in Row, NEW o \in Ops, NEW s \in Steps,
           Open(p, r, o, s)
    PROVE  Moves(p, s) /\ row' = r
  BY DEF Open, Moves, Sessions

(* A save keeps the row a row, and a certificate where it was unless the    *)
(* object got or lost one.                                                  *)
LEMMA SaveKeeps ==
    ASSUME Sessions, row \in Row, NEW p \in Procs, NEW new \in Row,
           new.status # "gone", Save(p, new)
    PROVE  /\ row' \in Row
           /\ There /\ There'
           /\ new.cert = mem[p].cert => row'.cert = row.cert
<1>1. mem[p] \in Row
  BY DEF Sessions
<1>2. /\ row'.status = (IF new.status = mem[p].status THEN row.status ELSE new.status)
      /\ row'.cert = (IF new.cert = mem[p].cert THEN row.cert ELSE new.cert)
      /\ row' \in Row
  BY <1>1 DEF Save, Merge, Row
<1> QED
  BY <1>2 DEF Save, There

-----------------------------------------------------------------------------
(* What a step may do to the row, the sessions and the queue                *)

Tidy == pc[Worker] # "idle" <=> job # None

(* The part of the type invariant the steps of a session touch.             *)
Base ==
    /\ row \in Row /\ Sessions
    /\ jobs \subseteq Job /\ job \in Job \cup {None} /\ Tidy
    /\ faults \in 0..MaxFaults

(* Whatever happens, a deleted row stays deleted, and a certificate comes   *)
(* from an activation.                                                      *)
Lasting == (There' => There) /\ (row'.cert => row.cert \/ \E q \in Procs : pc[q] = "save")

LEMMA FaultType ==
    ASSUME faults \in 0..MaxFaults, NEW k, Fault(k) \/ NoFault
    PROVE  faults' \in 0..MaxFaults
  BY DomainAssumption DEF Fault, NoFault

LEMMA Members == Worker \in Procs /\ Worker \notin Requests /\ Requests \subseteq Procs
  BY DomainAssumption DEF Procs

LEMMA JobsAreJobs ==
    /\ Renew \in Job /\ Progress(1) \in Job
    /\ \A j \in Job : j.kind = "progress" /\ j.attempt < MaxTries
                        => Progress(j.attempt + 1) \in Job
<1>1. Renew \in Job /\ Progress(1) \in Job
  BY DomainAssumption DEF Job
<1>2. ASSUME NEW j \in Job, j.kind = "progress", j.attempt < MaxTries
      PROVE  Progress(j.attempt + 1) \in Job
  <2>1. PICK n \in 1..MaxTries : j = Progress(n)
    BY <1>2 DEF Job, Renew
  <2>2. j.attempt = n
    BY <2>1 DEF Progress
  <2> QED
    BY <1>2, <2>2, DomainAssumption DEF Job
<1> QED
  BY <1>1, <1>2

(* How a handler ends.                                                      *)
LEMMA ReturnEnds ==
    ASSUME Base, NEW p \in Procs, Return(p)
    PROVE  /\ Moves(p, "idle")
           /\ jobs' \subseteq Job /\ job' \in Job \cup {None} /\ Tidy'
<1>1. Moves(p, "idle")
  BY CloseMoves DEF Return, Base
<1>2. p = Worker => job' = None
  BY DEF Return
<1>3. p # Worker => job' = job /\ pc'[Worker] = pc[Worker]
  BY <1>1, Members DEF Return, Moves
<1> QED
  BY <1>1, <1>2, <1>3, Members DEF Return, Base, Tidy, Moves

LEMMA RaiseEnds ==
    ASSUME Base, NEW p \in Procs, pc[p] # "idle", Raise(p)
    PROVE  /\ Moves(p, "idle")
           /\ jobs' \subseteq Job /\ job' \in Job \cup {None} /\ Tidy'
<1>1. Moves(p, "idle")
  BY CloseMoves DEF Raise, Base
<1>2. p = Worker => job' = None /\ job \in Job
  BY DEF Raise, Base, Tidy
<1>3. p # Worker => job' = job /\ pc'[Worker] = pc[Worker]
  BY <1>1, Members DEF Raise, Moves
<1>4. jobs' \subseteq Job
  BY <1>2, JobsAreJobs DEF Raise, Base
<1> QED
  BY <1>1, <1>2, <1>3, <1>4, Members DEF Base, Tidy, Moves

(* A step that leaves the job alone must not start or end the worker's.     *)
LEMMA Stays ==
    ASSUME Base, NEW p \in Procs, NEW s \in Steps \ {"idle"}, Moves(p, s),
           UNCHANGED queue, pc[p] # "idle" \/ p \in Requests
    PROVE  jobs' \subseteq Job /\ job' \in Job \cup {None} /\ Tidy'
<1>1. pc'[Worker] # "idle" <=> pc[Worker] # "idle"
  <2>1. CASE p = Worker
    BY <2>1, Members DEF Moves
  <2>2. CASE p # Worker
    BY <2>2, Members DEF Moves
  <2> QED
    BY <2>1, <2>2
<1> QED
  BY <1>1 DEF Base, Tidy, queue

-----------------------------------------------------------------------------
(* The virtual host                                                         *)

About == {"write", "rewrite"}

(* Those whose content was replaced are about to write.                     *)
Marked == \A p \in crossed : pc[p] \in About

(* The others are about to write what the row prefers.                      *)
Current == There => \A p \in Procs : pc[p] \in About /\ p \notin crossed => seen[p] = Preferred

(* A certificate that is there or about to be saved goes with the right     *)
(* virtual host, or with a binding about to write it.                       *)
Shown ==
    There /\ (row.cert \/ \E q \in Procs : pc[q] = "save") /\ ~lag =>
        \/ vhost = Preferred
        \/ \E p \in Procs : pc[p] = "rewrite" /\ p \notin crossed

HostType ==
    /\ content \in Columns /\ vhost \in Contents \cup {None}
    /\ seen \in [Procs -> Contents] /\ crossed \subseteq Procs /\ lag \in BOOLEAN

LEMMA PreferredType ==
    ASSUME content \in Columns
    PROVE  Preferred \in Contents
  BY DEF Columns, Preferred, Contents, Targets

(* What is preferred hangs on the columns alone.                            *)
LEMMA PreferredStays == content' = content => Preferred' = Preferred
  BY DEF Preferred

(* Only requests bind.                                                      *)
Binders == pc[Worker] # "rewrite"

HostInv == Marked /\ Current /\ Shown /\ Binders

(* A step that does not touch the virtual host.                             *)
Aside ==
    /\ UNCHANGED host
    /\ \A q \in Procs : /\ pc'[q] \in {"write", "save", "rewrite"} => pc'[q] = pc[q]
                        /\ pc[q] \in About => pc'[q] = pc[q]

LEMMA AsideKeeps == HostType /\ HostInv /\ Aside /\ Lasting => HostType' /\ HostInv'
<1> SUFFICES ASSUME HostType, HostInv, Aside, Lasting
             PROVE  HostType' /\ HostInv'
  OBVIOUS
<1>1. HostType'
  BY DEF HostType, Aside, host
<1>2. Marked'
  BY DEF HostType, HostInv, Marked, Aside, host
<1>6. Preferred' = Preferred
  BY PreferredStays DEF Aside, host
<1>3. Current'
  BY <1>6 DEF HostInv, Current, Aside, host, About, Lasting
<1>4. Shown'
  <2>1. (row'.cert \/ \E q \in Procs : pc'[q] = "save")
          => (row.cert \/ \E q \in Procs : pc[q] = "save")
    BY DEF Lasting, Aside
  <2>2. \A q \in Procs : pc[q] = "rewrite" => pc'[q] = "rewrite"
    BY DEF Aside, About
  <2> QED
    BY <1>6, <2>1, <2>2 DEF HostInv, Shown, Aside, host, Lasting
<1>5. Binders'
  BY Members DEF HostInv, Binders, Aside
<1> QED
  BY <1>1, <1>2, <1>3, <1>4, <1>5 DEF HostInv

LEMMA MoveAside ==
    ASSUME NEW p \in Procs, NEW s \in {"idle", "lookup", "request", "issue", "reread", "bare"},
           pc[p] \notin About, Moves(p, s), UNCHANGED host
    PROVE  Aside
  BY DEF Aside, Moves, About

-----------------------------------------------------------------------------
(* The steps that leave the virtual host alone                              *)

LEMMA GoneStep ==
    ASSUME Base, NEW p \in Procs, pc[p] \notin {"idle", "write", "rewrite"}, RaiseGone(p),
           UNCHANGED host
    PROVE  Base' /\ Lasting /\ Aside
<1>1. Moves(p, "idle") /\ jobs' \subseteq Job /\ job' \in Job \cup {None} /\ Tidy'
  BY RaiseEnds DEF RaiseGone
<1>2. row' = row
  BY DEF RaiseGone
<1> QED
  BY <1>1, <1>2, MoveAside, FaultType DEF RaiseGone, Base, Moves, Lasting, There, About

LEMMA FoundStep ==
    ASSUME Base, NEW p \in Procs, Found(p)
    PROVE  Base' /\ Lasting /\ Aside
<1> DEFINE new == [mem[p] EXCEPT !.status = "SSL_PENDING", !.ssl = "PENDING",
                                 !.verified = TRUE]
<1>1. new \in Row /\ new.status # "gone" /\ new.cert = mem[p].cert
  BY DEF Base, Sessions, Row, Statuses, Sweep, Ssl
<1>2. row' \in Row /\ There /\ row'.cert = row.cert
  BY <1>1, SaveKeeps DEF Found, Base
<1>3. CASE Go(p, "order", "request") /\ UNCHANGED queue
  <2>1. Moves(p, "request")
    BY <1>2, <1>3, GoMoves DEF Base, Ops, Steps
  <2>2. jobs' \subseteq Job /\ job' \in Job \cup {None} /\ Tidy'
    BY <1>3, <2>1, Stays DEF Found, Steps
  <2> QED
    BY <1>2, <2>1, <2>2, MoveAside, FaultType DEF Found, Base, Moves, Lasting, About
<1>4. CASE Return(p)
  BY <1>2, <1>4, ReturnEnds, MoveAside, FaultType DEF Found, Base, Moves, Lasting, About
<1> QED
  BY <1>3, <1>4 DEF Found

LEMMA MissedStep ==
    ASSUME Base, NEW p \in Procs, Missed(p)
    PROVE  Base' /\ Lasting /\ Aside
<1> DEFINE new == [mem[p] EXCEPT !.status = IF op[p] = "auto" THEN "DNS_PENDING" ELSE "FAILED"]
<1>1. new \in Row /\ new.status # "gone" /\ new.cert = mem[p].cert
  BY DEF Base, Sessions, Row, Statuses, Sweep
<1>2. row' \in Row /\ There /\ row'.cert = row.cert
  BY <1>1, SaveKeeps DEF Missed, Base
<1> QED
  BY <1>2, ReturnEnds, MoveAside, FaultType DEF Missed, Base, Moves, Lasting, About

LEMMA LookupStep ==
    ASSUME Base, NEW p \in Procs, Lookup(p)
    PROVE  Base' /\ Lasting /\ Aside
  BY FoundStep, MissedStep, GoneStep DEF Lookup

LEMMA RequestStep ==
    ASSUME Base, NEW p \in Procs, Request(p)
    PROVE  Base' /\ Lasting /\ Aside
<1>1. CASE RaiseGone(p)
  BY <1>1, GoneStep DEF Request
<1>2. CASE Save(p, Requesting(mem[p])) /\ NoFault /\ Go(p, "order", "issue") /\ UNCHANGED queue
  <2>1. /\ Requesting(mem[p]) \in Row /\ Requesting(mem[p]).status # "gone"
        /\ Requesting(mem[p]).cert = mem[p].cert
    BY DEF Requesting, Base, Sessions, Row, Statuses, Sweep, Ssl
  <2>2. row' \in Row /\ There /\ row'.cert = row.cert
    BY <1>2, <2>1, SaveKeeps DEF Base
  <2>3. Moves(p, "issue")
    BY <1>2, <2>2, GoMoves DEF Base, Ops, Steps
  <2>4. jobs' \subseteq Job /\ job' \in Job \cup {None} /\ Tidy'
    BY <1>2, <2>3, Stays DEF Request, Steps
  <2> QED
    BY <1>2, <2>2, <2>3, <2>4, MoveAside, FaultType DEF Request, Base, Moves, Lasting, About
<1> QED
  BY <1>1, <1>2 DEF Request

LEMMA IssueStep ==
    ASSUME Base, NEW p \in Procs, Issue(p)
    PROVE  Base' /\ Lasting /\ Aside
<1>0. pc[p] = "issue" /\ UNCHANGED host
  BY DEF Issue
<1>1. CASE NoFault /\ Goto(p, "reread") /\ UNCHANGED queue
  <2>1. Moves(p, "reread") /\ row' = row
    BY <1>1, GotoMoves DEF Base, Steps
  <2> QED
    BY <1>0, <1>1, <2>1, Stays, MoveAside, FaultType DEF Base, Moves, Lasting, About, There, Steps
<1>2. CASE /\ Fault("files")
           /\ Goto(p, IF mem[p].cert THEN "reread" ELSE "bare")
           /\ UNCHANGED queue
  <2>1. PICK s \in {"reread", "bare"} : Goto(p, s)
    BY <1>2
  <2>2. Moves(p, s) /\ row' = row
    BY <2>1, GotoMoves DEF Base, Steps
  <2> QED
    BY <1>0, <1>2, <2>2, Stays, MoveAside, FaultType DEF Base, Moves, Lasting, About, There, Steps
<1>3. CASE Fault("acme") /\ Save(p, [mem[p] EXCEPT !.ssl = "FAILED"]) /\ Raise(p)
  <2>1. CASE mem[p].status # "gone"
    <3> DEFINE new == [mem[p] EXCEPT !.ssl = "FAILED"]
    <3>1. new \in Row /\ new.status # "gone" /\ new.cert = mem[p].cert
      BY <2>1 DEF Base, Sessions, Row, Ssl
    <3>2. row' \in Row /\ There /\ row'.cert = row.cert
      BY <1>3, <3>1, SaveKeeps DEF Base
    <3> QED
      BY <1>0, <1>3, <3>2, RaiseEnds, MoveAside, FaultType DEF Base, Moves, Lasting, About
  <2>2. CASE mem[p].status = "gone"
    <3> DEFINE new == [mem[p] EXCEPT !.ssl = "FAILED"]
    <3>1. mem[p] \in Row /\ new.status = mem[p].status /\ new.cert = mem[p].cert /\ new \in Row
      BY DEF Base, Sessions, Row, Ssl
    <3>2. row' = Merge(mem[p], new) /\ There
      BY <1>3 DEF Save
    <3>3. row' \in Row /\ row'.cert = row.cert
      BY <3>1, <3>2 DEF Merge, Row, Base
    <3> QED
      BY <1>0, <1>3, <3>2, <3>3, RaiseEnds, MoveAside, FaultType DEF Base, Moves, Lasting, About
  <2> QED
    BY <2>1, <2>2
<1>4. CASE RaiseGone(p)
  BY <1>0, <1>4, GoneStep
<1> QED
  BY <1>1, <1>2, <1>3, <1>4 DEF Issue

LEMMA ActivateStep ==
    ASSUME Base, NEW p \in Procs, Activate(p)
    PROVE  Base' /\ Lasting /\ Aside
<1>0. pc[p] \in {"save", "bare"} /\ UNCHANGED host
  BY DEF Activate
<1>1. CASE RaiseGone(p)
  BY <1>0, <1>1, GoneStep
<1>2. CASE NoFault /\ Save(p, Active(p)) /\ Return(p)
  <2>1. /\ Active(p) \in Row /\ Active(p).status # "gone"
        /\ pc[p] = "bare" => Active(p).cert = mem[p].cert
    BY <1>0 DEF Active, Base, Sessions, Row, Statuses, Sweep, Ssl
  <2>2. row' \in Row /\ There /\ (pc[p] = "bare" => row'.cert = row.cert)
    BY <1>2, <2>1, SaveKeeps DEF Base
  <2>3. Lasting
    BY <1>0, <2>2 DEF Lasting
  <2> QED
    BY <1>0, <1>2, <2>2, <2>3, ReturnEnds, MoveAside, FaultType DEF Base, Moves, About
<1> QED
  BY <1>1, <1>2 DEF Activate

LEMMA Opened ==
    ASSUME Base, NEW p \in Requests, NEW r \in Row, NEW o \in Ops, NEW s \in Steps \ {"idle"},
           There, r.cert = row.cert, Open(p, r, o, s), NoFault, UNCHANGED queue
    PROVE  Base' /\ Lasting /\ Moves(p, s)
<1>1. p \in Procs
  BY Members
<1>2. Moves(p, s) /\ row' = r
  BY <1>1, OpenMoves DEF Base
<1>3. jobs' \subseteq Job /\ job' \in Job \cup {None} /\ Tidy'
  BY <1>1, <1>2, Stays
<1> QED
  BY <1>2, <1>3, FaultType DEF Base, Moves, Lasting

LEMMA AskStep ==
    ASSUME Base, NEW p \in Procs, Ask(p)
    PROVE  Base' /\ Lasting /\ Aside
<1>0. pc[p] = "idle" /\ p \in Requests /\ There /\ NoFault /\ UNCHANGED queue /\ UNCHANGED host
  BY DEF Ask
<1>1. ASSUME NEW o \in Ops, Verify(p, o)
      PROVE  Base' /\ Lasting /\ Aside
  <2>1. [row EXCEPT !.status = "DNS_PENDING"] \in Row
        /\ [row EXCEPT !.status = "DNS_PENDING"].cert = row.cert
    BY DEF Base, Row, Statuses, Sweep
  <2> QED
    BY <1>0, <1>1, <2>1, Opened, MoveAside DEF Verify, Steps, About
<1>2. CASE Order(p)
  <2>1. Requesting(row) \in Row /\ Requesting(row).cert = row.cert
    BY DEF Requesting, Base, Row, Statuses, Sweep, Ssl
  <2> QED
    BY <1>0, <1>2, <2>1, Opened, MoveAside DEF Order, Steps, Ops, About
<1>3. CASE StartRenew(p)
  <2>1. [row EXCEPT !.ssl = "RENEWING"] \in Row
        /\ [row EXCEPT !.ssl = "RENEWING"].cert = row.cert
    BY DEF Base, Row, Ssl
  <2> QED
    BY <1>0, <1>3, <2>1, Opened, MoveAside DEF StartRenew, Steps, Ops, About
<1> QED
  BY <1>1, <1>2, <1>3 DEF Ask, AskVerify, AskRequest, Ops

(* The job's own session: opened as the job is taken.                       *)
LEMMA Taken ==
    ASSUME Base, NEW j \in Job, NEW r \in Row, NEW o \in Ops, NEW s \in Steps \ {"idle"},
           There, r.cert = row.cert, Open(Worker, r, o, s), NoFault,
           job' = j, jobs' = jobs \ {j}
    PROVE  Base' /\ Lasting /\ Moves(Worker, s)
<1>1. Moves(Worker, s) /\ row' = r
  BY Members, OpenMoves DEF Base
<1>2. Tidy'
  BY <1>1, NoneIsNoJob DEF Tidy, Moves
<1> QED
  BY <1>1, <1>2, FaultType DEF Base, Moves, Lasting

LEMMA PopStep ==
    ASSUME Base, NEW j \in Job, Pop(j)
    PROVE  Base' /\ Lasting /\ Aside
<1>0. pc[Worker] = "idle" /\ NoFault /\ UNCHANGED host
  BY DEF Pop
<1>1. CASE /\ row.status \in {"PENDING", "DNS_PENDING"}
           /\ Verify(Worker, "auto") /\ job' = j /\ jobs' = jobs \ {j}
  <2>1. [row EXCEPT !.status = "DNS_PENDING"] \in Row
        /\ [row EXCEPT !.status = "DNS_PENDING"].cert = row.cert
    BY DEF Base, Row, Statuses, Sweep
  <2> QED
    BY <1>0, <1>1, <2>1, Taken, MoveAside, Members DEF Verify, Steps, Ops, About, There
<1>2. CASE /\ row.status = "SSL_PENDING"
           /\ Order(Worker) /\ job' = j /\ jobs' = jobs \ {j}
  <2>1. Requesting(row) \in Row /\ Requesting(row).cert = row.cert
    BY DEF Requesting, Base, Row, Statuses, Sweep, Ssl
  <2> QED
    BY <1>0, <1>2, <2>1, Taken, MoveAside, Members DEF Order, Steps, Ops, About, There
<1>3. CASE There /\ StartRenew(Worker) /\ job' = j /\ jobs' = jobs \ {j}
  <2>1. [row EXCEPT !.ssl = "RENEWING"] \in Row
        /\ [row EXCEPT !.ssl = "RENEWING"].cert = row.cert
    BY DEF Base, Row, Ssl
  <2> QED
    BY <1>0, <1>3, <2>1, Taken, MoveAside, Members DEF StartRenew, Steps, Ops, About
<1>4. ASSUME jobs' \subseteq Job, UNCHANGED <<row, job, session>>
      PROVE  Base' /\ Lasting /\ Aside
  BY <1>0, <1>4, FaultType DEF Base, Sessions, Tidy, session, Lasting, There, Aside, About
<1>5. jobs \ {j} \subseteq Job
  BY DEF Base
<1>6. CASE UNCHANGED <<row, job, session>>
  BY <1>4, <1>5, <1>6, JobsAreJobs DEF Pop, Verify, Order, StartRenew
<1> QED
  BY <1>1, <1>2, <1>3, <1>6 DEF Pop

-----------------------------------------------------------------------------
(* The steps that write or bind the virtual host                            *)

Both == Base /\ HostType /\ HostInv

LEMMA RereadStep ==
    ASSUME Both, NEW p \in Procs, Reread(p)
    PROVE  Both'
<1>1. Moves(p, "write") /\ row' = row
  BY GotoMoves DEF Both, Base, Reread, Steps
<1>2. Base'
  BY <1>1, Stays, FaultType DEF Both, Base, Reread, Moves, Steps
<1>3. PICK c \in Contents : seen' = [seen EXCEPT ![p] = c] /\ (There => c = Preferred)
  BY PreferredType DEF Reread, Both, HostType
<1>9. Preferred' = Preferred
  BY PreferredStays DEF Reread
<1>4. HostType'
  BY <1>3 DEF Reread, Both, HostType
<1>5. Marked'
  BY <1>1 DEF Reread, Both, HostType, HostInv, Marked, Moves, About
<1>6. Current'
  BY <1>1, <1>3, <1>9 DEF Reread, Both, HostType, HostInv, Current, Moves, About, There
<1>7. Shown'
  BY <1>1, <1>9 DEF Reread, Both, HostInv, Shown, Moves, There
<1>8. Binders'
  BY <1>1, Members DEF Both, HostInv, Binders, Moves
<1> QED
  BY <1>2, <1>4, <1>5, <1>6, <1>7, <1>8 DEF Both, HostInv

(* What generate_vhost leaves, whichever step called it.                    *)
LEMMA WriteKeeps ==
    ASSUME Both, NEW p \in Procs, pc[p] \in About, Write(p),
           NEW s \in Steps \ About, Moves(p, s), row' = row, content' = content
    PROVE  HostType' /\ HostInv'
<1>1. HostType'
  BY DEF Both, HostType, Write, Contents
<1>2. Marked'
  BY DEF Both, HostType, HostInv, Marked, Write, Moves
<1>6. Preferred' = Preferred
  BY PreferredStays
<1>3. Current'
  BY <1>6 DEF Both, HostType, HostInv, Current, Write, Moves, There, About
<1>4. Shown'
  <2> SUFFICES ASSUME There, p \notin crossed PROVE vhost' = Preferred'
    BY DEF Shown, Write, There
  <2> QED
    BY <1>6 DEF Both, HostInv, Current, Write
<1>5. Binders'
  BY Members DEF Both, HostInv, Binders, Moves, About
<1> QED
  BY <1>1, <1>2, <1>3, <1>4, <1>5 DEF HostInv

LEMMA WriteVhostStep ==
    ASSUME Both, NEW p \in Procs, WriteVhost(p)
    PROVE  Both'
<1>1. Moves(p, "save") /\ row' = row
  BY GotoMoves DEF Both, Base, WriteVhost, Steps
<1>2. Base'
  BY <1>1, Stays, FaultType DEF Both, Base, WriteVhost, Moves, Steps
<1> QED
  BY <1>1, <1>2, WriteKeeps DEF WriteVhost, Both, About, Steps

LEMMA RewriteStep ==
    ASSUME Both, NEW p \in Procs, Rewrite(p)
    PROVE  Both'
<1>0. p # Worker
  BY DEF Both, HostInv, Binders, Rewrite
<1>1. PICK s \in {"idle", "request"} : Moves(p, s)
  BY GotoMoves, CloseMoves DEF Both, Base, Rewrite, Steps
<1>2. row' = row
  BY DEF Rewrite, Goto
<1>3. pc'[Worker] = pc[Worker]
  BY <1>0, <1>1, Members DEF Moves
<1>4. Base'
  BY <1>1, <1>2, <1>3, FaultType DEF Both, Base, Rewrite, Moves, Tidy, queue
<1> QED
  BY <1>1, <1>2, <1>4, WriteKeeps DEF Rewrite, Both, About, Steps

LEMMA BindStep ==
    ASSUME Both, NEW p \in Procs, NEW c \in Targets, Bind(p, c)
    PROVE  Both'
<1>0. /\ pc[p] = "idle" /\ p \in Requests /\ p # Worker /\ There /\ NoFault
      /\ content' = Bound(c) /\ UNCHANGED <<queue, vhost>>
      /\ crossed' = crossed \cup {q \in Procs : pc[q] \in About}
  BY Members DEF Bind, About
<1>1. \/ /\ row.cert /\ Moves(p, "rewrite") /\ row' = row
         /\ seen' = [seen EXCEPT ![p] = Preferred'] /\ UNCHANGED lag
      \/ /\ ~row.cert /\ row' = row /\ UNCHANGED seen
         /\ lag' = (lag \/ \E q \in Procs : pc[q] = "save")
         /\ UNCHANGED session \/ Moves(p, "request")
  <2>1. ASSUME NEW what \in {"bind"} \cup Again, NEW s \in {"rewrite", "request"},
               Open(p, row, what, s)
        PROVE  Moves(p, s) /\ row' = row
    <3>1. what \in Ops /\ s \in Steps
      BY DEF Again, Ops, Steps
    <3> QED
      BY <2>1, <3>1, OpenMoves DEF Both, Base
  <2>2. CASE /\ row.cert
             /\ \E what \in {"bind"} \cup Again : Open(p, row, what, "rewrite")
             /\ seen' = [seen EXCEPT ![p] = Preferred']
             /\ UNCHANGED lag
    BY <2>1, <2>2
  <2>3. CASE /\ ~row.cert
             /\ lag' = (lag \/ \E q \in Procs : pc[q] = "save")
             /\ UNCHANGED <<row, session, seen>>
    BY <2>3
  <2>4. CASE /\ ~row.cert
             /\ \E what \in Again : Open(p, row, what, "request")
             /\ lag' = (lag \/ \E q \in Procs : pc[q] = "save")
             /\ UNCHANGED seen
    BY <2>1, <2>4
  <2> QED
    BY <2>2, <2>3, <2>4 DEF Bind
<1>2. row' = row /\ Sessions' /\ (\A q \in Procs : q # p => pc'[q] = pc[q])
      /\ pc'[p] \in {"idle", "request", "rewrite"}
  BY <1>0, <1>1 DEF Moves, session, Both, Base, Sessions
<1>3. pc'[Worker] = pc[Worker]
  BY <1>0, <1>2, Members
<1>4. Base'
  BY <1>0, <1>2, <1>3, FaultType DEF Both, Base, Tidy, queue
<1>10. content' \in Columns
  BY <1>0, DomainAssumption DEF Bound, Both, HostType, Columns, Targets
<1>11. Preferred' \in Contents
  BY <1>10 DEF Columns, Preferred, Contents, Targets
<1>5. HostType'
  BY <1>0, <1>1, <1>10, <1>11 DEF Both, HostType
<1>6. Marked'
  BY <1>0, <1>2 DEF Both, HostType, HostInv, Marked, About
<1>7. Current'
  <2> SUFFICES ASSUME NEW q \in Procs, pc'[q] \in About, q \notin crossed'
               PROVE  seen'[q] = Preferred'
    BY DEF Current
  <2>1. q = p
    BY <1>0, <1>2 DEF About
  <2>2. pc'[p] = "rewrite"
    BY <1>2, <2>1 DEF About
  <2>3. seen' = [seen EXCEPT ![p] = Preferred']
    BY <1>0, <1>1, <2>2 DEF Moves, session
  <2> QED
    BY <1>0, <2>1, <2>3 DEF Both, HostType
<1>8. Shown'
  <2>1. CASE row.cert
    <3>1. pc'[p] = "rewrite" /\ p \notin crossed'
      BY <1>0, <1>1, <2>1 DEF Moves, Both, HostInv, Marked, About
    <3> QED
      BY <3>1 DEF Shown
  <2>2. CASE ~row.cert
    <3>1. \A q \in Procs : pc'[q] = "save" => pc[q] = "save"
      BY <1>2
    <3> QED
      BY <1>1, <1>2, <2>2, <3>1 DEF Shown
  <2> QED
    BY <2>1, <2>2
<1>9. Binders'
  BY <1>3 DEF Both, HostInv, Binders
<1> QED
  BY <1>4, <1>5, <1>6, <1>7, <1>8, <1>9 DEF Both, HostInv

LEMMA CrashStep ==
    ASSUME Both, NEW p \in Procs, Crash(p)
    PROVE  Both'
<1>1. Moves(p, "idle") /\ jobs' \subseteq Job /\ job' \in Job \cup {None} /\ Tidy'
  BY ReturnEnds DEF Both, Crash
<1>2. /\ row' = row /\ content' = content /\ vhost' = vhost
      /\ seen' = [seen EXCEPT ![p] = Proxy] /\ crossed' = crossed \ {p}
      /\ lag' = (lag \/ pc[p] = "rewrite")
  BY DEF Crash
<1>3. Base'
  BY <1>1, <1>2, FaultType DEF Both, Base, Crash, Moves
<1>4. HostType'
  BY <1>2 DEF Both, HostType, Contents
<1>5. Marked'
  BY <1>1, <1>2 DEF Both, HostType, HostInv, Marked, Moves
<1>9. Preferred' = Preferred
  BY <1>2, PreferredStays
<1>6. Current'
  BY <1>1, <1>2, <1>9 DEF Both, HostType, HostInv, Current, Moves, There, About
<1>7. Shown'
  <2> SUFFICES ASSUME There, row.cert \/ \E q \in Procs : pc'[q] = "save", ~lag, pc[p] # "rewrite"
               PROVE  vhost = Preferred \/ \E q \in Procs : pc'[q] = "rewrite" /\ q \notin crossed'
    BY <1>2, <1>9 DEF Shown, There, Both, HostType
  <2>1. \A q \in Procs : pc'[q] = "save" => pc[q] = "save"
    BY <1>1 DEF Moves
  <2>2. \A q \in Procs : pc[q] = "rewrite" => pc'[q] = "rewrite"
    BY <1>1 DEF Moves
  <2> QED
    BY <1>2, <2>1, <2>2 DEF Both, HostInv, Shown
<1>8. Binders'
  BY <1>1, Members DEF Both, HostInv, Binders, Moves
<1> QED
  BY <1>3, <1>4, <1>5, <1>6, <1>7, <1>8 DEF Both, HostInv

-----------------------------------------------------------------------------
(* Scheduler, deletion, time                                                *)

LEMMA DeleteStep == Both /\ Delete => Both'
<1> SUFFICES ASSUME Both, Delete PROVE Both'
  OBVIOUS
<1>1. /\ row' \in Row /\ ~There' /\ content' = Unbound
      /\ UNCHANGED <<queue, session, vhost, seen, crossed, lag, faults>>
  BY Blanks DEF Delete, There
<1>2. Base'
  BY <1>1 DEF Both, Base, Sessions, Tidy, queue, session
<1>3. HostType' /\ HostInv'
  BY <1>1 DEF Both, HostType, HostInv, Marked, Current, Shown, Binders, Columns, Unbound, session
<1> QED
  BY <1>2, <1>3 DEF Both

LEMMA MarkedRow ==
    ASSUME row \in Row, There, row' = MarkExpired
    PROVE  row' \in Row /\ There' /\ row'.cert = row.cert
  BY DEF MarkExpired, Row, Ssl, There

LEMMA ClockStep ==
    ASSUME Both, Tick \/ ReadStatus \/ Age
    PROVE  Base' /\ Lasting /\ Aside
<1>1. row' \in Row /\ Lasting
  BY MarkedRow DEF Both, Base, Tick, ReadStatus, Age, Lasting, There
<1>2. jobs' \subseteq Job
  BY JobsAreJobs DEF Both, Base, Tick, ReadStatus, Age, queue
<1>3. UNCHANGED <<job, session, host, faults>>
  BY DEF Tick, ReadStatus, Age, queue
<1> QED
  BY <1>1, <1>2, <1>3 DEF Both, Base, Sessions, Tidy, session, Aside

-----------------------------------------------------------------------------
(* The theorems                                                             *)

LEMMA BothInit == Init => Both
<1> SUFFICES ASSUME Init PROVE Both
  OBVIOUS
<1>1. row \in Row /\ ~row.cert
  BY Blanks DEF Init
<1>2. jobs \subseteq Job
  BY JobsAreJobs, DomainAssumption DEF Init
<1>3. Sessions /\ \A q \in Procs : pc[q] = "idle"
  BY Blanks DEF Init, Sessions, Steps, Ops
<1>4. Base
  <2>1. Tidy
    BY <1>3, Members DEF Init, Tidy
  <2>2. faults \in 0..MaxFaults /\ job = None
    BY DomainAssumption DEF Init
  <2> QED
    BY <1>1, <1>2, <1>3, <2>1, <2>2 DEF Base
<1>5. HostType /\ HostInv
  BY <1>1, <1>3, Members DEF Init, HostType, Columns, Unbound, Contents, HostInv, Marked, Current, Shown, Binders, About
<1> QED
  BY <1>4, <1>5 DEF Both

LEMMA BothStep == Both /\ [Next]_vars => Both'
<1> SUFFICES ASSUME Both, [Next]_vars PROVE Both'
  OBVIOUS
<1>0. ASSUME Base' /\ Lasting /\ Aside
      PROVE  Both'
  BY <1>0, AsideKeeps DEF Both
<1>1. ASSUME NEW p \in Procs, Step(p)
      PROVE  Both'
  BY <1>0, <1>1, LookupStep, RequestStep, IssueStep, RereadStep, WriteVhostStep,
     ActivateStep, RewriteStep DEF Step, Both
<1>2. ASSUME NEW p \in Procs, Ask(p)
      PROVE  Both'
  BY <1>0, <1>2, AskStep DEF Both
<1>3. ASSUME NEW p \in Procs, Crash(p)
      PROVE  Both'
  BY <1>3, CrashStep
<1>4. ASSUME NEW p \in Procs, NEW c \in Targets, Bind(p, c)
      PROVE  Both'
  BY <1>4, BindStep
<1>5. CASE Delete
  BY <1>5, DeleteStep
<1>6. CASE Tick \/ ReadStatus \/ Age
  BY <1>0, <1>6, ClockStep
<1>7. ASSUME NEW j \in Job, Pop(j)
      PROVE  Both'
  BY <1>0, <1>7, PopStep DEF Both
<1>8. CASE UNCHANGED vars
  BY <1>8, PreferredStays DEF vars, Both, Base, Sessions, Tidy, HostType, HostInv, Marked,
     Current, Shown, Binders, There
<1> QED
  BY <1>1, <1>2, <1>3, <1>4, <1>5, <1>6, <1>7, <1>8 DEF Next

(* What the fields not in Both do.                                          *)
ExpiryType == expiry \in {"none", "fresh", "due", "past"}

LEMMA ExpiryStep == ExpiryType /\ [Next]_vars => ExpiryType'
  BY DEF ExpiryType, Next, Step, Lookup, Found, Missed, Request, Issue, Reread, WriteVhost,
     Activate, Rewrite, Ask, Crash, Bind, Delete, Tick, ReadStatus, Age, Pop, vars

(* The columns, sessions, jobs and vhost keep their shape, and the worker   *)
(* holds a job exactly while it is at work.                                 *)
THEOREM TypeCorrect == Spec => []TypeOK
<1>1. Init => Both /\ ExpiryType
  BY BothInit DEF Init, ExpiryType
<1>2. Both /\ ExpiryType /\ [Next]_vars => Both' /\ ExpiryType'
  BY BothStep, ExpiryStep
<1>3. Both /\ ExpiryType => TypeOK
  BY DEF Both, Base, Sessions, Tidy, HostType, ExpiryType, TypeOK
<1> QED
  BY <1>1, <1>2, <1>3, PTL DEF Spec

(* Once there is a certificate and nobody is about to write it, the vhost   *)
(* serves what the last deployment bound, whoever ordered, renewed, checked *)
(* or died meanwhile (manager.py:178-197), but for the three named races    *)
(* and for a directory bound after a container, which stays hidden by it    *)
(* (manager.py:228-247, nginx_gen.py:184-189).                              *)
THEOREM BindingsArePickedUp == Spec => []PickedUp
<1>1. Both => PickedUp
  <2> SUFFICES ASSUME Both, There, row.cert, \A p \in Procs : pc[p] \notin Holding, ~lag
               PROVE  vhost = IF Hidden THEN content.proxy ELSE Latest
    BY DEF PickedUp
  <2>1. vhost = Preferred
    BY DEF Both, HostInv, Shown, Holding
  <2>2. Preferred = IF Hidden THEN content.proxy ELSE Latest
    BY DEF Preferred, Hidden, Latest
  <2> QED
    BY <2>1, <2>2
<1> QED
  BY <1>1, BothInit, BothStep, PTL DEF Spec
=============================================================================
