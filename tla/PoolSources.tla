----------------------------- MODULE PoolSources -----------------------------
(***************************************************************************)
(* Which sites are clients and which are content-pool sources: the site    *)
(* routes, pool_source_policy.py and the pool ingestion task.              *)
(*                                                                         *)
(* A request is a READ COMMITTED transaction. An upload works through its  *)
(* rows with the inserts uncommitted; the operator's requests load the     *)
(* site first, unlocked, and write later only the columns that differ from *)
(* what they loaded. The crawl task locks the row it changes.              *)
(***************************************************************************)
EXTENDS Integers, Sequences, FiniteSets

CONSTANTS
    Sites,          \* (tenant, base_url) pairs a site row may have
    Same,           \* the pairs on one property: _same_property of their URLs
    Listed,         \* those whose domain POOL_ALLOWED_DOMAINS admits
    Requests,       \* request slots
    Crawlers,       \* pool ingestion jobs in flight
    Threshold,      \* pool_quarantine_failure_threshold
    MaxCalls        \* bound: requests and crawls

ASSUME PoolAssumptions ==
    /\ Same \subseteq Sites \X Sites
    /\ \A s \in Sites : <<s, s>> \in Same
    /\ \A s, t \in Sites : <<s, t>> \in Same => <<t, s>> \in Same
    /\ Listed \subseteq Sites
    /\ Threshold \in Nat \ {0} /\ MaxCalls \in Nat

VARIABLES
    site,       \* site[s]: the committed row of s, or NoRow
    req,        \* req[r]: the transaction of request r
    pbnLock,    \* holders of the advisory lock of the PBN check
    crawl,      \* crawl[c]: what pool ingestion c is doing
    targets,    \* targets[s]: statuses of suggestions that link to s
    streak,     \* streak[s]: failures of s recorded since the last success or reactivation
    calls

poolVars == <<site, req, pbnLock, crawl, targets, streak, calls>>

NoRow == [id |-> 0, platform |-> "none", approved |-> FALSE, quarantined |-> FALSE, failures |-> 0]
NewRow(id, platform) == [NoRow EXCEPT !.id = id, !.platform = platform]
NoRequest == [at |-> "idle", op |-> "none", rows |-> <<>>, made |-> {}, on |-> 0, seen |-> NoRow]
NoCrawl == [at |-> "idle", on |-> 0, id |-> 0]

Pool(row) == row.platform = "pool"
Client(row) == row.platform \notin {"pool", "none"}
Rewritten(old, new, now) == IF old = new THEN now ELSE new

NewCall == calls < MaxCalls /\ calls' = calls + 1
Done(r) == req' = [req EXCEPT ![r] = NoRequest]

-----------------------------------------------------------------------------
(* require_no_pbn_conflict                                                 *)

\* Mutant: the check takes no lock.
LockUnasked(r) == pbnLock' = pbnLock

\* The lock is granted to one transaction at a time and kept to its end.
TakeLock(r) == pbnLock \subseteq {r} /\ pbnLock' = {r}

Made(r) == {row[1] : row \in req[r].made}

\* The rows request r can see: the committed ones and its own.
Visible(r) ==
    [s \in Sites |-> IF s \in Made(r)
                     THEN NewRow(calls, (CHOOSE row \in req[r].made : row[1] = s)[2])
                     ELSE site[s]]

Conflicts(r, s, asPool) ==
    \E t \in Sites : /\ <<s, t>> \in Same
                     /\ IF asPool THEN Client(Visible(r)[t])
                        ELSE Pool(Visible(r)[t]) /\ Visible(r)[t].approved

-----------------------------------------------------------------------------
(* create_site and bulk_create_sites: rows are (site, platform) pairs.     *)

Upload(r, rows) ==
    /\ req[r].at = "idle"
    /\ NewCall
    /\ req' = [req EXCEPT ![r] = [NoRequest EXCEPT !.at = "rows", !.op = "create", !.rows = rows]]
    /\ UNCHANGED <<site, pbnLock, crawl, targets, streak>>

\* An insert waits for another transaction's uncommitted row of the same key.
InsertWaits(r, s) == \E q \in Requests \ {r} : s \in Made(q)

NextRow(r, inserted) ==
    req' = [req EXCEPT ![r].rows = Tail(@),
                       ![r].made = IF inserted THEN @ \cup {Head(req[r].rows)} ELSE @]

\* A pool row is inserted unapproved and needs no check; a row that exists,
\* or collides with a property of the other kind, is reported and skipped.
UploadRow(r) ==
    LET s == Head(req[r].rows)[1]
        platform == Head(req[r].rows)[2]
        exists == Visible(r)[s] # NoRow
        refused == platform # "pool" /\ Conflicts(r, s, FALSE)
    IN  /\ req[r].at = "rows"
        /\ req[r].rows # <<>>
        /\ IF exists \/ platform = "pool" THEN UNCHANGED pbnLock ELSE TakeLock(r)
        /\ ~exists /\ ~refused => ~InsertWaits(r, s)
        /\ NextRow(r, ~exists /\ ~refused)
        /\ UNCHANGED <<site, crawl, targets, streak, calls>>

UploadCommit(r) ==
    /\ req[r].at = "rows"
    /\ req[r].rows = <<>>
    /\ site' = Visible(r)
    /\ pbnLock' = pbnLock \ {r}
    /\ Done(r)
    /\ UNCHANGED <<crawl, targets, streak, calls>>

\* A client row waits for the lock, a pool row for an uncommitted row of its
\* key: the database ends one of two transactions that wait for each other.
WaitsFor(r, q) ==
    LET s == Head(req[r].rows)[1]
    IN  /\ req[r].at = "rows" /\ req[r].rows # <<>> /\ q # r
        /\ \/ q \in pbnLock /\ Head(req[r].rows)[2] # "pool"
           \/ s \in Made(q)

DeadlockAbort(r) ==
    /\ \E q \in Requests : WaitsFor(r, q) /\ WaitsFor(q, r)
    /\ pbnLock' = pbnLock \ {r}
    /\ Done(r)
    /\ UNCHANGED <<site, crawl, targets, streak, calls>>

-----------------------------------------------------------------------------
(* approve, revoke, reactivate, delete: load, and write by what was loaded. *)

Load(r, op, s) ==
    /\ req[r].at = "idle"
    /\ site[s] # NoRow
    /\ op # "delete" => Pool(site[s])
    /\ op = "approve" => s \in Listed
    /\ op = "reactivate" => site[s].approved /\ s \in Listed
    /\ NewCall
    /\ req' = [req EXCEPT ![r] = [NoRequest EXCEPT !.at = IF op = "approve" THEN "check" ELSE "write",
                  !.op = op, !.on = s, !.seen = site[s]]]
    /\ UNCHANGED <<site, pbnLock, crawl, targets, streak>>

ApproveCheck(r) ==
    /\ req[r].at = "check"
    /\ TakeLock(r) /\ ~Conflicts(r, req[r].on, TRUE)
    /\ req' = [req EXCEPT ![r].at = "write"]
    /\ UNCHANGED <<site, crawl, targets, streak, calls>>

ApproveRefused(r) ==
    /\ req[r].at = "check"
    /\ pbnLock \subseteq {r} /\ Conflicts(r, req[r].on, TRUE)
    /\ UNCHANGED pbnLock
    /\ Done(r)
    /\ UNCHANGED <<site, crawl, targets, streak, calls>>

Expire(s, statuses) == targets' = [targets EXCEPT ![s] = @ \ statuses]

\* The row may have been deleted, and another made in its place, meanwhile.
Write(r) ==
    LET s == req[r].on
        old == req[r].seen
        set(row, field, value) == [row EXCEPT ![field] = Rewritten(old[field], value, @)]
    IN  /\ req[r].at = "write"
        /\ site[s].id = old.id
        /\ \/ /\ req[r].op = "approve"
              /\ site' = [site EXCEPT ![s] = set(@, "approved", TRUE)]
              /\ UNCHANGED <<targets, streak>>
           \/ /\ req[r].op = "revoke"
              /\ site' = [site EXCEPT ![s] = set(@, "approved", FALSE)]
              /\ Expire(s, {"pending", "approved"})
              /\ UNCHANGED streak
           \/ /\ req[r].op = "reactivate"
              /\ site' = [site EXCEPT ![s] = set(set(@, "failures", 0), "quarantined", FALSE)]
              /\ streak' = [streak EXCEPT ![s] = 0]
              /\ UNCHANGED targets
           \/ /\ req[r].op = "delete"
              /\ site' = [site EXCEPT ![s] = NoRow]
              /\ targets' = [targets EXCEPT ![s] = {}]
              /\ streak' = [streak EXCEPT ![s] = 0]
        /\ pbnLock' = pbnLock \ {r}
        /\ Done(r)
        /\ UNCHANGED <<crawl, calls>>

WriteNothing(r) ==
    /\ req[r].at = "write"
    /\ site[req[r].on].id # req[r].seen.id
    /\ pbnLock' = pbnLock \ {r}
    /\ Done(r)
    /\ UNCHANGED <<site, crawl, targets, streak, calls>>

-----------------------------------------------------------------------------
(* ingest_pool_site: only a source that may be fetched is; the outcome of  *)
(* the last attempt is recorded under the row's lock, after the job ended. *)

Fetchable(row, s) == Pool(row) /\ row.approved /\ ~row.quarantined /\ s \in Listed

CrawlStart(c, s) ==
    /\ crawl[c].at = "idle"
    /\ Fetchable(site[s], s)
    /\ NewCall
    /\ crawl' = [crawl EXCEPT ![c] = [at |-> "fetch", on |-> s, id |-> site[s].id]]
    /\ UNCHANGED <<site, req, pbnLock, targets, streak>>

CrawlEnd(c) == crawl' = [crawl EXCEPT ![c] = NoCrawl]

CrawlGone(c) ==
    /\ crawl[c].at = "fetch"
    /\ site[crawl[c].on].id # crawl[c].id
    /\ CrawlEnd(c)
    /\ UNCHANGED <<site, req, pbnLock, targets, streak, calls>>

CrawlSucceeds(c) ==
    LET s == crawl[c].on
    IN  /\ crawl[c].at = "fetch"
        /\ site[s].id = crawl[c].id
        /\ site' = [site EXCEPT ![s].failures = 0]
        /\ streak' = [streak EXCEPT ![s] = 0]
        /\ CrawlEnd(c)
        /\ UNCHANGED <<req, pbnLock, targets, calls>>

\* Mutant: the limit must be passed, not reached.
BeyondThreshold(failures) == failures > Threshold

ShouldQuarantine(failures) == failures >= Threshold

CrawlFails(c) ==
    LET s == crawl[c].on
        n == site[s].failures + 1
    IN  /\ crawl[c].at = "fetch"
        /\ site[s].id = crawl[c].id
        /\ site' = [site EXCEPT ![s].failures = n,
                                ![s].quarantined = @ \/ ShouldQuarantine(n)]
        /\ IF ShouldQuarantine(n) THEN Expire(s, {"pending"}) ELSE UNCHANGED targets
        /\ streak' = [streak EXCEPT ![s] = @ + 1]
        /\ CrawlEnd(c)
        /\ UNCHANGED <<req, pbnLock, calls>>

\* The job ends and nobody is told: it was refused (PoolSourcePolicyError), failed
\* otherwise than in a fetch, was killed, or the error of recording the failure
\* was swallowed.
CrawlUnrecorded(c) ==
    /\ crawl[c].at = "fetch"
    /\ CrawlEnd(c)
    /\ UNCHANGED <<site, req, pbnLock, targets, streak, calls>>

\* Editors and analyses work on links to s meanwhile; the analysis reads which
\* sources it may link to, and an editor approves what is pending.
Target(s) ==
    /\ Pool(site[s])
    /\ \/ /\ Fetchable(site[s], s) /\ "pending" \notin targets[s]
          /\ targets' = [targets EXCEPT ![s] = @ \cup {"pending"}]
       \/ /\ "pending" \in targets[s]
          /\ targets' = [targets EXCEPT ![s] = (@ \ {"pending"}) \cup {"approved"}]
    /\ UNCHANGED <<site, req, pbnLock, crawl, streak, calls>>

-----------------------------------------------------------------------------
Uploads ==
    LET rows == Sites \X {"pool", "wordpress"}
    IN  {<<x>> : x \in rows} \cup {<<x, y>> : x \in rows, y \in rows}

PoolInit ==
    /\ site = [s \in Sites |-> NoRow]
    /\ req = [r \in Requests |-> NoRequest]
    /\ pbnLock = {}
    /\ crawl = [c \in Crawlers |-> NoCrawl]
    /\ targets = [s \in Sites |-> {}]
    /\ streak = [s \in Sites |-> 0]
    /\ calls = 0

PoolNext ==
    \/ \E r \in Requests, rows \in Uploads : Upload(r, rows)
    \/ \E r \in Requests, s \in Sites, op \in {"approve", "revoke", "reactivate", "delete"} :
          Load(r, op, s)
    \/ \E r \in Requests : \/ UploadRow(r) \/ UploadCommit(r) \/ DeadlockAbort(r)
                           \/ ApproveCheck(r) \/ ApproveRefused(r) \/ Write(r) \/ WriteNothing(r)
    \/ \E c \in Crawlers, s \in Sites : CrawlStart(c, s)
    \/ \E c \in Crawlers : CrawlSucceeds(c) \/ CrawlFails(c) \/ CrawlGone(c) \/ CrawlUnrecorded(c)
    \/ \E s \in Sites : Target(s)

PoolSpec == PoolInit /\ [][PoolNext]_poolVars

-----------------------------------------------------------------------------
(* Properties                                                              *)

\* The PBN rule: no property is at once a client's site and an approved link
\* target, in whatever order sites are created and sources approved, revoked
\* and deleted, and with both checks running at the same time.
NoPrivateNetwork ==
    \A s, t \in Sites :
        Client(site[s]) /\ Pool(site[t]) /\ site[t].approved => <<s, t>> \notin Same

\* A source with Threshold recorded failures in a row, with no success and no
\* reactivation between them, is quarantined: reactivations that write by an old
\* reading and jobs that end out of order lose none of them.
FailuresQuarantine ==
    \A s \in Sites : streak[s] >= Threshold => site[s].quarantined
==============================================================================
