------------------------- MODULE SuggestionGeneration -------------------------
(***************************************************************************)
(* The analysis of a site: generate_suggestions and what it calls          *)
(* (embedding, graph snapshot, ranking, the external search), beside the   *)
(* editors, operators and crawls that change what it has read.             *)
(*                                                                         *)
(* An analysis holds the advisory lock of its site on a connection of its  *)
(* own and works in a session that commits many times: after each          *)
(* embedding batch, after the graph, after every source article. What it   *)
(* read at the start (allowed targets, counts, graph) it keeps to the end; *)
(* what is eligible it asks anew for every source. Scores are arbitrary,   *)
(* so a ranking is any choice of eligible targets that fits the slots.     *)
(***************************************************************************)
EXTENDS Integers, FiniteSets

CONSTANTS
    Customers,      \* sites whose articles get suggestions
    Pools,          \* content-pool sources
    Articles,       \* article ids, of all sites
    SiteOf,         \* SiteOf[a]: the site of article a
    Pages,          \* web pages a search may return
    Jobs,           \* analyses: one execution of the task each
    Readers,        \* requests for a site's graph
    Scopes,         \* articles a job may be asked for: all of them, or one
    Cap,            \* hybrid_max_suggestions_per_article
    LifetimeCap,    \* hybrid_max_lifetime_links_per_article
    SiteCap,        \* hybrid_max_active_suggestions_per_site
    SourceLimit,    \* hybrid_max_sources_per_run
    MaxChanges,     \* bound: steps of editors, operators and crawls
    MaxFaults,      \* bound: failures and kills
    None

Targets == Articles \cup Pages
OwnedBy(s) == {a \in Articles : SiteOf[a] = s}
Sources == {a \in Articles : SiteOf[a] \in Customers}

\* Links that could be proposed: inside the site, into the pool, to the web.
Pairs == {p \in Sources \X Targets :
            /\ p[1] # p[2]
            /\ p[2] \in Pages \/ SiteOf[p[2]] \in Pools \cup {SiteOf[p[1]]}}

ASSUME GenerationAssumptions ==
    /\ Articles \cup Pools \subseteq Nat
    /\ IsFiniteSet(Articles) /\ IsFiniteSet(Pages) /\ None \notin Jobs \cup Readers
    /\ Articles \cap Pages = {} /\ Customers \cap Pools = {} /\ Jobs \cap Readers = {}
    /\ SiteOf \in [Articles -> Customers \cup Pools]
    /\ Cap \in Nat /\ LifetimeCap \in Nat /\ SiteCap \in Nat /\ SourceLimit \in Nat
    /\ MaxChanges \in Nat /\ MaxFaults \in Nat

VARIABLES
    active,     \* articles that are active
    version,    \* version[s]: the last ingestion run of s that succeeded
    enabled,    \* customers whose policy allows external links
    trusted,    \* pools that are approved and not quarantined
    row,        \* row[p]: status of the latest suggestion of the pair
    fresh,      \* pairs whose row has only moved forward since its generation
    embedded,   \* articles that have an embedding
    graph,      \* graph snapshots, as <<site, nodes, version>>
    lock,       \* lock[s]: holder of the analysis lock of s
    glock,      \* glock[s]: holder of the graph lock of s
    job,        \* what each analysis knows
    changes,    \* changes made so far
    faults      \* faults so far

vars == <<active, version, enabled, trusted, row, fresh, embedded, graph, lock,
          glock, job, changes, faults>>

world == <<active, version, enabled, trusted>>

-----------------------------------------------------------------------------
ACTIVE_STATUSES == {"pending", "approved", "applying"}
LIFETIME_STATUSES == ACTIVE_STATUSES \cup {"applied"}
Statuses == LIFETIME_STATUSES \cup {"none", "expired", "rejected", "failed"}

RowsOf(a, statuses) == {p \in Pairs : p[1] = a /\ row[p] \in statuses}

\* external_target_context: own active articles, and those of the pool that
\* the site's policy and the source's state let through.
AllowedTargets(s) ==
    {a \in active : \/ SiteOf[a] = s
                    \/ s \in enabled /\ SiteOf[a] \in trusted}

\* Mutant: a pair that was turned down once is proposed again.
EligibleAgain(a, allowed) ==
    {t \in allowed \cap active \cap embedded :
        /\ <<a, t>> \in Pairs
        /\ SiteOf[t] = SiteOf[a] \/ SiteOf[t] \in trusted
        /\ row[<<a, t>>] \notin LIFETIME_STATUSES
        /\ <<t, a>> \in Pairs => row[<<t, a>>] \notin LIFETIME_STATUSES}

\* TOP_K_SQL and _PILOT_ELIGIBILITY_SQL, asked for each source.
Eligible(a, allowed) ==
    {t \in allowed \cap active \cap embedded :
        /\ <<a, t>> \in Pairs
        /\ a \in embedded
        /\ SiteOf[t] = SiteOf[a] \/ SiteOf[t] \in trusted
        /\ row[<<a, t>>] \in {"none", "expired"}
        /\ <<t, a>> \in Pairs => row[<<t, a>>] \notin LIFETIME_STATUSES}

Least(S) == CHOOSE a \in S : \A b \in S : a <= b

-----------------------------------------------------------------------------
(* One analysis                                                            *)

Idle == [pc |-> "idle", site |-> None, scope |-> {}, compare |-> FALSE, allowed |-> {},
         at |-> None, missing |-> {}, nodes |-> {}, snapshot |-> None, create |-> FALSE, pools |-> {}, todo |-> {},
         used |-> [a \in Sources |-> 0], ever |-> [a \in Sources |-> 0],
         slots |-> 0, ranked |-> 0, staged |-> {}]

Done == [Idle EXCEPT !.pc = "done"]

LockFree(s) == lock[s] = None

Begin(j, s, scope, compare) ==
    /\ job[j].pc = "idle"
    /\ scope = Articles \/ (~compare /\ scope \subseteq OwnedBy(s))
    /\ LockFree(s)
    /\ lock' = [lock EXCEPT ![s] = j]
    /\ job' = [job EXCEPT ![j] = [Idle EXCEPT
                  !.pc = "embed", !.site = s, !.at = s, !.scope = scope,
                  !.compare = compare, !.allowed = AllowedTargets(s)]]
    /\ UNCHANGED <<world, row, fresh, embedded, graph, glock, changes, faults>>

\* _embed_missing: read what has no embedding, encode, write and commit.
EmbedRead(j) ==
    /\ job[j].pc = "embed"
    /\ job' = [job EXCEPT ![j].pc = "encode",
                          ![j].missing = (OwnedBy(job[j].at) \cap active) \ embedded]
    /\ UNCHANGED <<world, row, fresh, embedded, graph, lock, glock, changes, faults>>

EmbedWrite(j) ==
    LET own == job[j].at = job[j].site
    IN  /\ job[j].pc = "encode"
        /\ embedded' = embedded \cup job[j].missing
        /\ job' = [job EXCEPT ![j].pc = IF own THEN "graph" ELSE "pools",
                              ![j].missing = {}, ![j].at = None]
        /\ lock' = IF own THEN lock ELSE [lock EXCEPT ![job[j].at] = None]
        /\ UNCHANGED <<world, row, fresh, graph, glock, changes, faults>>

\* ensure_graph_snapshot: the articles are read in one statement, the links
\* and the run they belong to in later ones; the lock ends with the commit.
GraphNodes(j) ==
    /\ job[j].pc = "graph"
    /\ glock[job[j].site] = None
    /\ glock' = [glock EXCEPT ![job[j].site] = j]
    /\ job' = [job EXCEPT ![j].pc = "links", ![j].nodes = OwnedBy(job[j].site) \cap active]
    /\ UNCHANGED <<world, row, fresh, embedded, graph, lock, changes, faults>>

GraphLinks(j) ==
    LET snapshot == <<job[j].site, job[j].nodes, version[job[j].site]>>
    IN  /\ job[j].pc = "links"
        /\ job' = [job EXCEPT ![j].pc = "store", ![j].snapshot = snapshot,
                              ![j].create = snapshot \notin graph]
        /\ UNCHANGED <<world, row, fresh, embedded, graph, lock, glock, changes, faults>>

GraphStore(j) ==
    LET s == job[j].site
    IN  /\ job[j].pc = "store"
        /\ graph' = graph \cup {job[j].snapshot}
        /\ glock' = [glock EXCEPT ![s] = None]
        /\ job' = IF j \in Readers THEN [job EXCEPT ![j] = Done]
                  ELSE [job EXCEPT ![j].pc = "pools", ![j].nodes = {}, ![j].create = FALSE,
                           ![j].snapshot = None,
                           ![j].pools = {SiteOf[a] : a \in job[j].allowed} \ {s}]
        /\ UNCHANGED <<world, row, fresh, embedded, lock, changes, faults>>

\* The pools are embedded one after another, each under its own lock.
PoolLock(j) ==
    LET q == Least(job[j].pools)
    IN  /\ job[j].pc = "pools" /\ job[j].pools # {}
        /\ LockFree(q)
        /\ lock' = [lock EXCEPT ![q] = j]
        /\ job' = [job EXCEPT ![j].pc = "embed", ![j].at = q, ![j].pools = @ \ {q}]
        /\ UNCHANGED <<world, row, fresh, embedded, graph, glock, changes, faults>>

\* The articles to work on and every count are read once, for the whole run.
Count(j) ==
    LET own == OwnedBy(job[j].site)
        sources == own \cap active \cap job[j].scope
        used == [a \in Sources |-> Cardinality(RowsOf(a, ACTIVE_STATUSES))]
        open == Cardinality(UNION {RowsOf(a, ACTIVE_STATUSES) : a \in own})
        room == IF Cardinality(sources) * Cap < SiteCap
                THEN Cardinality(sources) * Cap ELSE SiteCap
    IN  /\ job[j].pc = "pools" /\ job[j].pools = {}
        /\ job' = [job EXCEPT ![j].pc = "source",
                      ![j].todo = sources, ![j].used = used,
                      ![j].ever = [a \in Sources |-> Cardinality(RowsOf(a, LIFETIME_STATUSES))],
                      ![j].slots = IF room > open THEN room - open ELSE 0]
        /\ UNCHANGED <<world, row, fresh, embedded, graph, lock, glock, changes, faults>>

Remaining(j, a) ==
    LET queue == Cap - job[j].used[a]
        life == LifetimeCap - job[j].ever[a]
        least == IF queue < life THEN queue ELSE life
    IN  IF least < job[j].slots THEN least ELSE job[j].slots

Exhausted(j) == ~job[j].compare /\ (job[j].slots = 0 \/ job[j].ranked = SourceLimit)

\* A comparison writes nothing; a source without room is passed over.
SkipSource(j) ==
    LET a == Least(job[j].todo)
    IN  /\ job[j].pc = "source" /\ job[j].todo # {}
        /\ job[j].compare \/ Remaining(j, a) <= 0
        /\ job[j].compare \/ job[j].slots > 0
        /\ job' = [job EXCEPT ![j].todo = @ \ {a}]
        /\ UNCHANGED <<world, row, fresh, embedded, graph, lock, glock, changes, faults>>

\* The ranking, hybrid or the cosine fallback, cut down by thresholds, graph
\* and feedback to at most the remaining slots.
Rank(j, chosen) ==
    LET a == Least(job[j].todo)
    IN  /\ job[j].pc = "source" /\ job[j].todo # {}
        /\ ~job[j].compare /\ ~Exhausted(j)
        /\ Remaining(j, a) > 0
        /\ chosen \subseteq Eligible(a, job[j].allowed)
        /\ Cardinality(chosen) <= Remaining(j, a)
        /\ job' = [job EXCEPT ![j].pc = "gap", ![j].at = a, ![j].ranked = @ + 1,
                      ![j].staged = {a} \X chosen]
        /\ UNCHANGED <<world, row, fresh, embedded, graph, lock, glock, changes, faults>>

\* fill_external_suggestion_gap: nothing is asked when the site's policy says
\* no; a search may fail, and what it returns is filtered.
Gap(j, found) ==
    LET a == job[j].at
    IN  /\ job[j].pc = "gap"
        /\ found \subseteq {u \in Pages : row[<<a, u>>] \in {"none", "expired"}}
        /\ found # {} => job[j].site \in enabled
        /\ Cardinality(found) + Cardinality(job[j].staged) <= Remaining(j, a)
        /\ job' = [job EXCEPT ![j].pc = "commit", ![j].staged = @ \cup ({a} \X found)]
        /\ UNCHANGED <<world, row, fresh, embedded, graph, lock, glock, changes, faults>>

\* Mutant: what a source took is not taken off the site's room.
CommitUnspent(j) ==
    LET new == job[j].staged
    IN  /\ job[j].pc = "commit"
        /\ row' = [p \in Pairs |-> IF p \in new THEN "pending" ELSE row[p]]
        /\ fresh' = fresh \cup new
        /\ job' = [job EXCEPT ![j].pc = "source", ![j].staged = {}, ![j].at = None, ![j].todo = @ \ {job[j].at}]
        /\ UNCHANGED <<world, embedded, graph, lock, glock, changes, faults>>

CommitSource(j) ==
    LET new == job[j].staged
    IN  /\ job[j].pc = "commit"
        /\ row' = [p \in Pairs |-> IF p \in new THEN "pending" ELSE row[p]]
        /\ fresh' = fresh \cup new
        /\ job' = [job EXCEPT ![j].pc = "source", ![j].staged = {}, ![j].at = None,
                      ![j].todo = @ \ {job[j].at}, ![j].slots = @ - Cardinality(new)]
        /\ UNCHANGED <<world, embedded, graph, lock, glock, changes, faults>>

\* Mutant: the lock belongs to a pooled connection and outlives the failure.
KeepLocks(j, f) == f

Unlocked(j, f) == [s \in DOMAIN f |-> IF f[s] = j THEN None ELSE f[s]]

Finish(j) ==
    /\ job[j].pc = "source"
    /\ job[j].todo = {} \/ Exhausted(j)
    /\ lock' = Unlocked(j, lock)
    /\ job' = [job EXCEPT ![j] = Done]
    /\ UNCHANGED <<world, row, fresh, embedded, graph, glock, changes, faults>>

\* An error or a kill: the open transaction is lost, the locks are released.
Fail(j) ==
    /\ job[j].pc \notin {"idle", "done"}
    /\ faults < MaxFaults
    /\ faults' = faults + 1
    /\ lock' = Unlocked(j, lock)
    /\ glock' = Unlocked(j, glock)
    /\ job' = [job EXCEPT ![j] = Done]
    /\ UNCHANGED <<world, row, fresh, embedded, graph, changes>>

\* get_graph_summary and simulate_graph_application store a snapshot too.
Summary(r, s) ==
    /\ job[r].pc = "idle"
    /\ glock[s] = None
    /\ glock' = [glock EXCEPT ![s] = r]
    /\ job' = [job EXCEPT ![r].pc = "links", ![r].site = s, ![r].nodes = OwnedBy(s) \cap active]
    /\ UNCHANGED <<world, row, fresh, embedded, graph, lock, changes, faults>>

-----------------------------------------------------------------------------
(* Everybody else. MaxChanges bounds them.                                 *)

Change ==
    /\ changes < MaxChanges
    /\ changes' = changes + 1
    /\ UNCHANGED <<embedded, graph, lock, glock, job, faults>>

\* Editors decide, publications end. A decision may be revised; a row that
\* was rejected or has failed is not fresh any more, even if it comes back.
Decide(p, s) ==
    /\ Change
    /\ row[p] \in {"pending", "approved", "rejected", "failed"}
    /\ s \in {"approved", "rejected", "applied", "failed"} \ {row[p]}
    /\ row' = [row EXCEPT ![p] = s]
    /\ fresh' = IF s \in {"rejected", "failed"} THEN fresh \ {p} ELSE fresh
    /\ UNCHANGED world

Expire(gone) ==
    /\ row' = [p \in Pairs |-> IF p \in gone THEN "expired" ELSE row[p]]
    /\ fresh' = fresh \ gone

\* update_external_link_policy switches external links on or off.
SetPolicy(s) ==
    /\ Change
    /\ enabled' = IF s \in enabled THEN enabled \ {s} ELSE enabled \cup {s}
    /\ Expire({p \in Pairs : /\ SiteOf[p[1]] = s /\ s \in enabled
                             /\ p[2] \in Pages \/ SiteOf[p[2]] \in Pools
                             /\ row[p] \in {"pending", "approved"}})
    /\ UNCHANGED <<active, version, trusted>>

\* A pool source is approved, or revoked with what was proposed from it.
SetTrust(q) ==
    /\ Change
    /\ trusted' = IF q \in trusted THEN trusted \ {q} ELSE trusted \cup {q}
    /\ Expire({p \in Pairs : /\ p[2] \in Articles /\ SiteOf[p[2]] = q /\ q \in trusted
                             /\ row[p] \in {"pending", "approved"}})
    /\ UNCHANGED <<active, version, enabled>>

\* A crawl of site s is promoted (SiteContent): its active articles are `now'.
Promote(s, now) ==
    /\ Change
    /\ active' = (active \ OwnedBy(s)) \cup now
    /\ version' = [version EXCEPT ![s] = @ + 1]
    /\ Expire({p \in Pairs : /\ p[1] \notin active' \/ p[2] \in Articles \ active'
                             /\ row[p] = "pending"})
    /\ UNCHANGED <<enabled, trusted>>

-----------------------------------------------------------------------------
Init ==
    /\ active = Articles
    /\ version = [s \in Customers \cup Pools |-> 1]
    /\ enabled = Customers
    /\ trusted = Pools
    /\ row = [p \in Pairs |-> "none"]
    /\ fresh = {}
    /\ embedded = {}
    /\ graph = {}
    /\ lock = [s \in Customers \cup Pools |-> None]
    /\ glock = [s \in Customers |-> None]
    /\ job = [j \in Jobs \cup Readers |-> Idle]
    /\ changes = 0
    /\ faults = 0

Step(j) ==
    \/ EmbedRead(j) \/ EmbedWrite(j)
    \/ GraphNodes(j) \/ GraphLinks(j) \/ GraphStore(j)
    \/ PoolLock(j) \/ Count(j)
    \/ SkipSource(j) \/ CommitSource(j)
    \/ \E chosen \in SUBSET Articles : Rank(j, chosen)
    \/ \E found \in SUBSET Pages : Gap(j, found)
    \/ Finish(j)

Start(j) ==
    \E s \in Customers, scope \in Scopes, compare \in BOOLEAN : Begin(j, s, scope, compare)

ReaderStep(r) == GraphLinks(r) \/ GraphStore(r)

Others ==
    \/ \E p \in Pairs, s \in Statuses : Decide(p, s)
    \/ \E s \in Customers : SetPolicy(s)
    \/ \E q \in Pools : SetTrust(q)
    \/ \E s \in Customers : \E now \in SUBSET OwnedBy(s) : Promote(s, now)

Next ==
    \/ \E j \in Jobs : Start(j) \/ Step(j)
    \/ \E j \in Jobs : Fail(j)
    \/ \E r \in Readers, s \in Customers : Summary(r, s)
    \/ \E r \in Readers : ReaderStep(r)
    \/ Others

Spec == Init /\ [][Next]_vars

-----------------------------------------------------------------------------
(* Properties                                                              *)

TypeOK ==
    /\ active \subseteq Articles /\ embedded \subseteq Articles
    /\ enabled \subseteq Customers /\ trusted \subseteq Pools
    /\ row \in [Pairs -> Statuses]
    /\ fresh \subseteq {p \in Pairs : row[p] \in LIFETIME_STATUSES}
    /\ \A s \in DOMAIN lock : lock[s] \in Jobs \cup {None}
    /\ \A j \in Jobs \cup Readers : job[j].slots \in Nat /\ job[j].staged \subseteq Pairs

\* However often a site is analysed, and whatever editors and publications do
\* meanwhile, what the analyses have proposed and nobody has turned down stays
\* within the limits: open rows and links per article, open rows per site. The
\* counts are read once per run, so this rests on the lock and on the running
\* count of free slots.
QueueBounded ==
    /\ \A a \in Sources :
          /\ Cardinality(fresh \cap RowsOf(a, ACTIVE_STATUSES)) <= Cap
          /\ Cardinality(fresh \cap RowsOf(a, LIFETIME_STATUSES)) <= LifetimeCap
    /\ \A s \in Customers :
          Cardinality({p \in fresh : SiteOf[p[1]] = s /\ row[p] \in ACTIVE_STATUSES}) <= SiteCap

\* A pair that an analysis is about to insert has no live suggestion: no
\* constraint of the table says so, and two analyses that ranked the same
\* source at once would both have found the pair free. Nor is the reverse of
\* a link proposed as well, by a later source of the same run or a later run.
PairStaysFree ==
    /\ \A j \in Jobs : \A p \in job[j].staged : row[p] \in {"none", "expired"}
    /\ \A p \in fresh : <<p[2], p[1]>> \notin fresh

\* Nobody waits for ever: whoever holds a pool's or a graph's lock that
\* another one waits for is at work, neither waiting itself nor gone. So the
\* chains site, pool and site, graph never close to a cycle.
Holder(j) ==
    CASE job[j].pc = "pools" /\ job[j].pools # {} -> lock[Least(job[j].pools)]
      [] job[j].pc = "graph" -> glock[job[j].site]
      [] OTHER -> None

NoStandstill ==
    \A j \in Jobs : Holder(j) # None =>
        /\ job[Holder(j)].pc \notin {"idle", "done"}
        /\ Holder(Holder(j)) = None

\* config.py: a standing bound on how many links may ever be added to one
\* article.
LifetimeBound ==
    \A a \in Sources : Cardinality(RowsOf(a, LIFETIME_STATUSES)) <= LifetimeCap

\* GraphSnapshot: one reproducible view of the accepted graph, that is, the
\* snapshot of the latest run shows the articles of that run.
SnapshotShowsItsRun ==
    \A x \in graph : x[3] = version[x[1]] => x[2] = OwnedBy(x[1]) \cap active
==============================================================================
