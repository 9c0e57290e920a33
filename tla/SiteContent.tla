----------------------------- MODULE SiteContent -----------------------------
(***************************************************************************)
(* The content of one site: ingestion_service.py and crawl_snapshot.py.    *)
(*                                                                         *)
(* Crawls and imports of a site exclude each other by a session lock held  *)
(* on a connection of its own. Whoever holds it stages its writes in one   *)
(* open transaction (txn): nobody else sees them until the commit that     *)
(* validates, resolves the links and promotes. Articles are rows that are  *)
(* never deleted; a row is found again by the post's id in WordPress or by *)
(* its URL, and either may have changed hands since the last crawl.        *)
(***************************************************************************)
EXTENDS Integers, Sequences, FiniteSets

CONSTANTS
    Callers,        \* jobs and requests that ingest this site
    Posts,          \* post ids in WordPress (Article.external_id)
    Urls,           \* page addresses, as compared inside one snapshot
    Outbound,       \* sets of addresses that one article may link to
    Redirect,       \* Redirect[u]: where the connector finds a link to u
    Pool,           \* TRUE for a content-pool source
    Tracked,        \* the suggestions that are followed, as pairs of rows
    MaxRows,        \* bound: article rows
    MaxItems,       \* bound: articles of one crawl or import
    MaxRuns,        \* bound: runs
    RatioNum,       \* ingestion_min_previous_ratio as a fraction
    RatioDen,
    None            \* no post id, no caller

ASSUME ContentAssumptions ==
    /\ MaxRows \in Nat /\ MaxItems \in Nat /\ MaxRuns \in Nat
    /\ RatioNum \in Nat /\ RatioDen \in Nat \ {0} /\ RatioNum <= RatioDen
    /\ Outbound \subseteq SUBSET Urls
    /\ Redirect \in [Urls -> Urls]
    /\ \A i \in 1..MaxRows : <<"url-swap", i>> \notin Urls
    /\ Pool \in BOOLEAN
    /\ None \notin Posts \cup Callers
    /\ Tracked \subseteq {p \in (1..MaxRows) \X (1..MaxRows) : p[1] # p[2]}

VARIABLES
    row,        \* articles: sequence of rows, a row's id is its place
    link,       \* active internal links, as pairs of row ids
    run,        \* ingestion_runs: sequence of [kind, status, count]
    holder,     \* who holds the site's ingestion lock
    txn,        \* the holder's transaction and its CrawlSnapshot
    status,     \* status of the tracked suggestions
    picked      \* suggestions an analysis has chosen and not yet committed

vars == <<row, link, run, holder, txn, status, picked>>

RowIds == 1..MaxRows
RunStatuses == {"running", "succeeded", "failed"}
Kinds == {"crawl", "import", "replace"}
SuggestionStatuses == {"none", "pending", "applying", "expired"}
Rows == [ext : Posts \cup {None}, url : Urls, active : BOOLEAN]
IngestionRuns == [kind : Kinds, status : RunStatuses, count : 0..MaxRows]
Items == [ext : Posts \cup {None}, url : Urls, out : Outbound]
Transactions ==
    [row : Seq(Rows), staged : SUBSET RowIds, ids : [Urls -> 0..MaxRows],
     out : SUBSET (RowIds \X Urls), seen : SUBSET Urls, n : Nat]

Active == {i \in DOMAIN row : row[i].active}

NoTxn == [row |-> <<>>, staged |-> {}, ids |-> [u \in Urls |-> 0],
          out |-> {}, seen |-> {}, n |-> 0]

-----------------------------------------------------------------------------
(* Finding and writing one article: _upsert_article.                       *)

ByUrl(rows, item) == {i \in DOMAIN rows : rows[i].url = item.url}
ByExternalId(rows, item) ==
    {i \in DOMAIN rows : item.ext # None /\ rows[i].ext = item.ext}

\* The row an item is written to; a page nobody has seen gets a new one.
RowOf(rows, item) ==
    CASE ByExternalId(rows, item) # {} -> CHOOSE i \in ByExternalId(rows, item) : TRUE
      [] ByExternalId(rows, item) = {} /\ ByUrl(rows, item) # {} ->
            CHOOSE i \in ByUrl(rows, item) : TRUE
      [] OTHER -> Len(rows) + 1

\* Mutant: the row that has the URL keeps it.
KeepUrls(rows, item) == rows

\* When the post and the URL are found in two rows, the row that has the URL
\* takes over the address the post had, in three statements: it is parked, the
\* post's row takes the URL, and the parked row takes the address that is free.
Parked(i) == <<"url-swap", i>>

ParkUrl(rows, item) ==
    [i \in DOMAIN rows |->
        IF i \in ByUrl(rows, item) \ ByExternalId(rows, item)
        THEN [rows[i] EXCEPT !.url = Parked(i)] ELSE rows[i]]

TakeUrl(rows, item) ==
    [i \in DOMAIN rows |->
        IF i \in ByExternalId(rows, item)
        THEN [rows[i] EXCEPT !.url = item.url] ELSE ParkUrl(rows, item)[i]]

SwapUrls(rows, item) ==
    LET post == ByExternalId(rows, item)
        page == ByUrl(rows, item)
    IN  [i \in DOMAIN rows |->
            IF post # {} /\ i \in page \ post
            THEN [rows[i] EXCEPT !.url = rows[CHOOSE p \in post : TRUE].url]
            ELSE rows[i]]

UpsertArticle(rows, item) ==
    LET id == RowOf(rows, item)
        old == SwapUrls(rows, item)
        base == IF id > Len(rows)
                THEN Append(old, [ext |-> None, url |-> item.url, active |-> FALSE])
                ELSE old
    IN  [base EXCEPT ![id] = [url |-> item.url, active |-> @.active,
                              ext |-> IF item.ext # None THEN item.ext ELSE @.ext]]

-----------------------------------------------------------------------------
(* One snapshot: what has been staged, and when it may become the view.    *)

\* Articles of the last run that succeeded, whatever kind of run it was.
PreviousCount ==
    LET done == {i \in DOMAIN run : run[i].status = "succeeded"}
    IN  IF done = {} THEN 0 ELSE run[CHOOSE i \in done : \A j \in done : j <= i].count

Enough(n, last) == last = 0 \/ n * RatioDen >= last * RatioNum

\* Mutant: only an empty crawl is refused.
NotEmpty(t) == t.staged # {}

Complete(t) == t.staged # {} /\ Enough(Cardinality(t.staged), PreviousCount)

\* A link counts when its address, or where the connector says that leads, is
\* an article of this snapshot.
Target(t, u) == IF t.ids[u] # 0 THEN t.ids[u] ELSE t.ids[Redirect[u]]

\* Mutant: an address resolves to whatever row has it.
ResolveAnywhere(t) ==
    {<<o[1], i>> : o \in t.out, i \in DOMAIN t.row} \cap
        {p \in t.staged \X DOMAIN t.row : p[1] # p[2]}

ResolveLinks(t) ==
    {<<o[1], Target(t, o[2])>> : o \in t.out} \cap
        {p \in t.staged \X t.staged : p[1] # p[2]}

\* _reconcile_snapshot: seen rows are the view, the rest leaves it.
Promoted(t) == [i \in DOMAIN t.row |-> [t.row[i] EXCEPT !.active = (i \in t.staged)]]

Expired(t) ==
    [p \in Tracked |->
        IF status[p] = "pending" /\ ~(p[1] \in t.staged /\ p[2] \in t.staged)
        THEN "expired" ELSE status[p]]

-----------------------------------------------------------------------------
(* Callers                                                                 *)

\* The run that the holder opened, which a refused caller's row may follow.
RunOf == CHOOSE i \in DOMAIN run :
            /\ run[i].status = "running"
            /\ \A j \in DOMAIN run : run[j].status = "running" => j <= i

EndRun(i, s, n) == run' = [run EXCEPT ![i].status = s, ![i].count = n]

Release == holder' = None /\ txn' = NoTxn

Begin(c, kind) ==
    /\ holder = None
    /\ Len(run) < MaxRuns
    /\ Pool => kind = "crawl"
    /\ run' = Append(run, [kind |-> kind, status |-> "running", count |-> 0])
    /\ holder' = c
    /\ txn' = [NoTxn EXCEPT !.row = row]
    /\ UNCHANGED <<row, link, status, picked>>

\* A crawl that meets the lock leaves a failed run; an import only answers 409.
Refused(c) ==
    /\ holder \notin {None, c}
    /\ Len(run) < MaxRuns
    /\ run' = Append(run, [kind |-> "crawl", status |-> "failed", count |-> 0])
    /\ UNCHANGED <<row, link, holder, txn, status, picked>>

\* One article of the connector, or one accepted row of an import. An import
\* knows no post ids; it and a pool source keep the first item of an address.
Stage(c, item) ==
    LET kind == run[RunOf].kind
        id == RowOf(txn.row, item)
        rows == UpsertArticle(txn.row, item)
        once == kind # "crawl" \/ Pool
    IN  /\ holder = c
        /\ txn.n < MaxItems
        /\ id <= MaxRows
        /\ kind # "crawl" => item.ext = None
        /\ once => item.url \notin txn.seen
        /\ txn' = [row |-> IF kind = "import" THEN [rows EXCEPT ![id].active = TRUE] ELSE rows,
                   staged |-> txn.staged \cup {id},
                   ids |-> [txn.ids EXCEPT ![item.url] = id],
                   out |-> txn.out \cup ({id} \X item.out),
                   seen |-> IF once THEN txn.seen \cup {item.url} ELSE {},
                   n |-> txn.n + 1]
        /\ UNCHANGED <<row, link, run, holder, status, picked>>

\* An import row that is refused after its address was noted (HTTP status,
\* noindex, size): a later row with that address counts as a duplicate.
SkipRow(c, u) ==
    /\ holder = c
    /\ run[RunOf].kind # "crawl"
    /\ u \notin txn.seen
    /\ txn' = [txn EXCEPT !.seen = @ \cup {u}]
    /\ UNCHANGED <<row, link, run, holder, status, picked>>

\* validate_completeness, resolve_links, promote, commit.
FinishReplace(c) ==
    /\ holder = c
    /\ run[RunOf].kind # "import"
    /\ Complete(txn)
    /\ row' = Promoted(txn)
    /\ link' = ResolveLinks(txn)
    /\ status' = Expired(txn)
    /\ EndRun(RunOf, "succeeded", Cardinality(txn.staged))
    /\ Release
    /\ UNCHANGED picked

\* A partial import: nothing is validated and nothing is retired.
FinishImport(c) ==
    /\ holder = c
    /\ run[RunOf].kind = "import"
    /\ row' = txn.row
    /\ link' = link \cup ResolveLinks(txn)
    /\ EndRun(RunOf, "succeeded", Cardinality(txn.staged))
    /\ Release
    /\ UNCHANGED <<status, picked>>

\* An incomplete crawl, a limit, the deadline or a connector's error: the
\* transaction is rolled back and the run is recorded as failed.
Fail(c) ==
    /\ holder = c
    /\ EndRun(RunOf, "failed", 0)
    /\ Release
    /\ UNCHANGED <<row, link, status, picked>>

\* The process dies: its connections end, so do the lock and the transaction.
Kill(c) ==
    /\ holder = c
    /\ Release
    /\ UNCHANGED <<row, link, run, status, picked>>

\* The handler of the interrupted job closes the run; an import has no job.
SettleRun(i) ==
    /\ run[i].status = "running" /\ run[i].kind = "crawl"
    /\ holder = None \/ i # RunOf
    /\ EndRun(i, "failed", 0)
    /\ UNCHANGED <<row, link, holder, txn, status, picked>>

-----------------------------------------------------------------------------
(* Those who work on the view meanwhile. An analysis chooses among active  *)
(* articles, under a lock that is not the ingestion lock, and commits      *)
(* later; a publication claims a suggestion.                               *)

Pick(p) ==
    /\ p \in Active \X Active
    /\ p \notin link
    /\ status[p] \in {"none", "expired"}
    /\ picked' = picked \cup {p}
    /\ UNCHANGED <<row, link, run, holder, txn, status>>

Propose(p) ==
    /\ p \in picked
    /\ picked' = picked \ {p}
    /\ status' = [status EXCEPT ![p] = "pending"]
    /\ UNCHANGED <<row, link, run, holder, txn>>

Claim(p) ==
    /\ status[p] = "pending"
    /\ status' = [status EXCEPT ![p] = "applying"]
    /\ UNCHANGED <<row, link, run, holder, txn, picked>>

-----------------------------------------------------------------------------
Init ==
    /\ row = <<>>
    /\ link = {}
    /\ run = <<>>
    /\ holder = None
    /\ txn = NoTxn
    /\ status = [p \in Tracked |-> "none"]
    /\ picked = {}

Ingest(c) ==
    \/ \E kind \in Kinds : Begin(c, kind)
    \/ Refused(c)
    \/ \E item \in Items : Stage(c, item)
    \/ \E u \in Urls : SkipRow(c, u)
    \/ FinishReplace(c)
    \/ FinishImport(c)
    \/ Fail(c)
    \/ Kill(c)

Next ==
    \/ \E c \in Callers : Ingest(c)
    \/ \E i \in DOMAIN run : SettleRun(i)
    \/ \E p \in Tracked : Pick(p) \/ Propose(p) \/ Claim(p)

Spec == Init /\ [][Next]_vars

-----------------------------------------------------------------------------
(* Properties                                                              *)

TypeOK ==
    /\ row \in Seq(Rows) /\ Len(row) <= MaxRows
    /\ link \subseteq RowIds \X RowIds
    /\ run \in Seq(IngestionRuns) /\ Len(run) <= MaxRuns
    /\ holder \in Callers \cup {None}
    /\ txn \in Transactions /\ Len(txn.row) <= MaxRows /\ txn.staged \subseteq DOMAIN txn.row
    /\ status \in [Tracked -> SuggestionStatuses]
    /\ picked \subseteq Tracked

UniqueRows(rows) ==
    \A i, j \in DOMAIN rows :
        i # j => /\ rows[i].url # rows[j].url
                 /\ rows[i].ext = None \/ rows[i].ext # rows[j].ext

\* No two rows of the site share an address or a post id, neither in the view
\* nor halfway through a crawl nor after any statement of the next upsert:
\* whatever moved between two crawls (a renamed post, two posts that swapped
\* slugs, a slug reused by another post), the upsert never runs into the unique
\* constraints of articles.
IdentitiesUnique ==
    /\ UniqueRows(row) /\ UniqueRows(txn.row)
    /\ \A e \in Posts, u \in Urls :
          LET item == [ext |-> e, url |-> u]
          IN  ByExternalId(txn.row, item) # {} =>
                  UniqueRows(ParkUrl(txn.row, item)) /\ UniqueRows(TakeUrl(txn.row, item))

\* Every active link joins two active articles: promotion and partial imports
\* never leave a link hanging on a page that left the view.
LinksJoinActive == link \subseteq Active \X Active

\* The readers' view of the site (ActiveView) is implemented: the active
\* articles and links change only in one step, by a complete snapshot or by an
\* extension, and a promotion retires what waits on pages that are gone.
View == INSTANCE ActiveView WITH
    Article <- RowIds,
    active <- Active,
    last <- PreviousCount,
    waiting <- {p \in Tracked : status[p] = "pending"}

ViewIsPromised == View!Spec

\* The comment at the ingestion lock says that it is shared with
\* suggestion_service: an analysis would then never propose a link to a page
\* that a crawl retired after the analysis had chosen it.
ProposedOnActive ==
    [][\A p \in Tracked :
          status[p] # "pending" /\ status'[p] = "pending" => p \in Active \X Active]_vars
==============================================================================
