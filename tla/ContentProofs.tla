---------------------------- MODULE ContentProofs ----------------------------
(***************************************************************************)
(* The site's content, for any number of callers, posts, addresses, rows   *)
(* and runs: identities never collide, links join active articles, and the *)
(* readers' view (ActiveView) is implemented.                              *)
(***************************************************************************)
EXTENDS SiteContent, FiniteSetTheorems, TLAPS

------------------------------------------------------------------------------
(* The upsert *)

(* The row that is written exists, or is the next one; it is the row with  *)
(* the post's id, or without one the row with the address.                 *)
LEMMA RowOfFact ==
    ASSUME NEW rows \in Seq(Rows), NEW item \in Items
    PROVE  /\ RowOf(rows, item) \in 1..(Len(rows) + 1)
           /\ ByExternalId(rows, item) # {} => RowOf(rows, item) \in ByExternalId(rows, item)
           /\ ByExternalId(rows, item) = {} /\ ByUrl(rows, item) # {} =>
                  RowOf(rows, item) \in ByUrl(rows, item)
           /\ ByExternalId(rows, item) = {} /\ ByUrl(rows, item) = {} =>
                  RowOf(rows, item) = Len(rows) + 1
  <1>1. ByExternalId(rows, item) \subseteq 1..Len(rows) /\ ByUrl(rows, item) \subseteq 1..Len(rows)
    BY DEF ByExternalId, ByUrl
  <1>2. Len(rows) \in Nat
    OBVIOUS
  <1>3. CASE ByExternalId(rows, item) # {}
    <2>1. RowOf(rows, item) = CHOOSE i \in ByExternalId(rows, item) : TRUE
      BY <1>3 DEF RowOf
    <2>2. RowOf(rows, item) \in ByExternalId(rows, item)
      BY <2>1, <1>3
    <2>. QED BY <1>1, <1>2, <1>3, <2>2
  <1>4. CASE ByExternalId(rows, item) = {} /\ ByUrl(rows, item) # {}
    <2>1. RowOf(rows, item) = CHOOSE i \in ByUrl(rows, item) : TRUE
      BY <1>4 DEF RowOf
    <2>2. RowOf(rows, item) \in ByUrl(rows, item)
      BY <2>1, <1>4
    <2>. QED BY <1>1, <1>2, <1>4, <2>2
  <1>5. CASE ByExternalId(rows, item) = {} /\ ByUrl(rows, item) = {}
    <2>1. RowOf(rows, item) = Len(rows) + 1
      BY <1>5 DEF RowOf
    <2>. QED BY <1>2, <1>5, <2>1
  <1>. QED BY <1>3, <1>4, <1>5

(* What the upsert returns, row by row. *)
LEMMA UpsertFact ==
    ASSUME NEW rows \in Seq(Rows), NEW item \in Items, UniqueRows(rows),
           NEW id, id = RowOf(rows, item),
           NEW new, new = UpsertArticle(rows, item)
    PROVE  /\ new \in Seq(Rows)
           /\ Len(new) = IF id > Len(rows) THEN Len(rows) + 1 ELSE Len(rows)
           /\ id \in DOMAIN new
           /\ \A i \in DOMAIN rows : new[i].active = rows[i].active
           /\ id > Len(rows) => new[id].active = FALSE
           /\ UniqueRows(new)
  <1> DEFINE post == ByExternalId(rows, item)
             page == ByUrl(rows, item)
             old == SwapUrls(rows, item)
             fresh == [ext |-> None, url |-> item.url, active |-> FALSE]
             base == IF id > Len(rows) THEN Append(old, fresh) ELSE old
  <1>1. id \in 1..(Len(rows) + 1) /\ Len(rows) \in Nat
    BY RowOfFact
  <1>2. \A i \in DOMAIN rows : rows[i] \in Rows
    OBVIOUS
  <1>3. item.url \in Urls /\ item.ext \in Posts \cup {None}
    BY DEF Items
  <1>4. \A i \in DOMAIN rows : /\ rows[i].url \in Urls /\ rows[i].ext \in Posts \cup {None}
                               /\ rows[i].active \in BOOLEAN
    BY <1>2 DEF Rows
  <1>5. post # {} => id \in post /\ \A p \in post : p = id
    BY RowOfFact DEF UniqueRows, ByExternalId
  <1>6. \A q \in page : page = {q}
    BY DEF UniqueRows, ByUrl
  <1>7. DOMAIN old = 1..Len(rows) /\ \A i \in 1..Len(rows) :
            old[i] = IF post # {} /\ i \in page \ {id} THEN [rows[i] EXCEPT !.url = rows[id].url]
                     ELSE rows[i]
    <2>1. post # {} => (CHOOSE p \in post : TRUE) = id
      BY <1>5
    <2>2. DOMAIN rows = 1..Len(rows)
      OBVIOUS
    <2>3. old = [i \in DOMAIN rows |->
                    IF post # {} /\ i \in page \ post
                    THEN [rows[i] EXCEPT !.url = rows[CHOOSE p \in post : TRUE].url]
                    ELSE rows[i]]
      BY DEF SwapUrls
    <2>. QED BY <2>1, <2>2, <2>3, <1>5
  <1>8. old \in Seq(Rows) /\ Len(old) = Len(rows)
    <2>1. \A i \in 1..Len(rows) : old[i] \in Rows
      <3> SUFFICES ASSUME NEW i \in 1..Len(rows) PROVE old[i] \in Rows
        OBVIOUS
      <3>1. CASE post # {} /\ i \in page \ {id}
        <4>1. \A r \in Rows, u \in Urls : [r EXCEPT !.url = u] \in Rows
          BY DEF Rows
        <4>2. id \in DOMAIN rows
          BY <3>1, <1>5 DEF ByExternalId
        <4>3. old[i] = [rows[i] EXCEPT !.url = rows[id].url]
          BY <1>7, <3>1
        <4>. QED BY <4>1, <4>2, <4>3, <1>2, <1>4
      <3>2. CASE ~(post # {} /\ i \in page \ {id})
        BY <1>7, <1>2, <3>2
      <3>. QED BY <3>1, <3>2
    <2>2. DOMAIN old = 1..Len(rows) /\ Len(rows) \in Nat
      BY <1>7, <1>1
    <2>3. old = [i \in 1..Len(rows) |-> old[i]]
      BY <2>2 DEF SwapUrls
    <2>. QED BY <2>1, <2>2, <2>3
  <1>9. \A i \in 1..Len(rows) :
            /\ old[i].active = rows[i].active /\ old[i].ext = rows[i].ext
            /\ old[i].url = IF post # {} /\ i \in page \ {id} THEN rows[id].url ELSE rows[i].url
    BY <1>7, <1>2 DEF Rows
  <1>10. fresh \in Rows
    BY <1>3 DEF Rows
  <1> HIDE DEF old, post, page
  <1>11. /\ base \in Seq(Rows) /\ id \in DOMAIN base
         /\ Len(base) = IF id > Len(rows) THEN Len(rows) + 1 ELSE Len(rows)
         /\ \A i \in 1..Len(rows) : base[i] = old[i]
         /\ id > Len(rows) => base[id] = fresh
    BY <1>1, <1>8, <1>10
  <1>12. new = [base EXCEPT ![id] = [url |-> item.url, active |-> @.active,
                                     ext |-> IF item.ext # None THEN item.ext ELSE @.ext]]
    BY DEF UpsertArticle, old
  <1> HIDE DEF base
  <1>13. /\ DOMAIN new = DOMAIN base
         /\ \A i \in DOMAIN base : i # id => new[i] = base[i]
         /\ new[id] = [url |-> item.url, active |-> base[id].active,
                       ext |-> IF item.ext # None THEN item.ext ELSE base[id].ext]
    BY <1>11, <1>12
  <1>14. base[id] \in Rows
    BY <1>11
  <1>15. /\ new[id] \in Rows /\ new[id].url = item.url /\ new[id].active = base[id].active
         /\ new[id].ext = IF item.ext # None THEN item.ext ELSE base[id].ext
    BY <1>13, <1>14, <1>3 DEF Rows
  <1>16. new \in Seq(Rows) /\ Len(new) = Len(base)
    BY <1>11, <1>12, <1>13, <1>15
  <1>17. \A i \in DOMAIN rows : new[i].active = rows[i].active
    BY <1>9, <1>11, <1>13, <1>15
  <1>18. id > Len(rows) => new[id].active = FALSE
    BY <1>11, <1>15
  <1>19. UniqueRows(new)
    <2>1. \A i \in DOMAIN new : i # id => i \in 1..Len(rows) /\ new[i].ext = rows[i].ext
      BY <1>1, <1>9, <1>11, <1>13
    <2>2. \A i \in DOMAIN new : i # id =>
              new[i].url = IF post # {} /\ i \in page THEN rows[id].url ELSE rows[i].url
      BY <1>1, <1>9, <1>11, <1>13
    <2>3. post # {} => id \in 1..Len(rows)
      BY <1>5 DEF post, ByExternalId
    <2>4. \A i, j \in 1..Len(rows) : i # j => rows[i].url # rows[j].url
      BY DEF UniqueRows
    <2>5. \A i \in 1..Len(rows) : i \in page <=> rows[i].url = item.url
      BY DEF page, ByUrl
    <2>6. \A i \in 1..Len(rows) : i \in post <=> item.ext # None /\ rows[i].ext = item.ext
      BY DEF post, ByExternalId
    <2>7. \A i \in DOMAIN new : i # id => new[i].url # item.url
      <3> SUFFICES ASSUME NEW i \in DOMAIN new, i # id PROVE new[i].url # item.url
        OBVIOUS
      <3>1. CASE post # {} /\ i \in page
        BY <3>1, <2>1, <2>2, <2>3, <2>4, <2>5
      <3>2. CASE i \notin page
        BY <3>2, <2>1, <2>2, <2>5
      <3>3. CASE post = {} /\ i \in page
        BY <3>3, <2>1, <1>6, RowOfFact DEF post, page
      <3>. QED BY <3>1, <3>2, <3>3
    <2>8. \A i, j \in DOMAIN new : i # id /\ j # id /\ i # j => new[i].url # new[j].url
      BY <2>1, <2>2, <2>3, <2>4, <2>5
    <2>9. \A i \in DOMAIN new : i # id => new[i].ext = None \/ new[i].ext # new[id].ext
      <3> SUFFICES ASSUME NEW i \in DOMAIN new, i # id, new[i].ext # None
                   PROVE  new[i].ext # new[id].ext
        OBVIOUS
      <3>1. CASE item.ext # None
        BY <3>1, <1>5, <1>15, <2>1, <2>6
      <3>2. CASE item.ext = None /\ id \in 1..Len(rows)
        BY <3>2, <1>9, <1>11, <1>15, <2>1 DEF UniqueRows
      <3>3. CASE item.ext = None /\ id \notin 1..Len(rows)
        BY <3>3, <1>1, <1>11, <1>15, <2>1
      <3>. QED BY <3>1, <3>2, <3>3
    <2>10. \A i, j \in DOMAIN new : i # id /\ j # id /\ i # j =>
              new[i].ext = None \/ new[i].ext # new[j].ext
      BY <2>1 DEF UniqueRows
    <2>. QED BY <1>15, <2>7, <2>8, <2>9, <2>10 DEF UniqueRows
  <1>. QED BY <1>11, <1>13, <1>16, <1>17, <1>18, <1>19

------------------------------------------------------------------------------
(* Runs: the one the holder opened, and the last one that succeeded.       *)

Succeeded(runs) == {i \in DOMAIN runs : runs[i].status = "succeeded"}
Greatest(S) == CHOOSE i \in S : \A j \in S : j <= i
LastCount(runs) == IF Succeeded(runs) = {} THEN 0 ELSE runs[Greatest(Succeeded(runs))].count
NewestRunning(runs) ==
    CHOOSE i \in DOMAIN runs : /\ runs[i].status = "running"
                               /\ \A j \in DOMAIN runs : runs[j].status = "running" => j <= i

(* Run r is in progress, and only refused callers have come since. *)
Current(runs, r) ==
    /\ r \in DOMAIN runs
    /\ runs[r].status = "running"
    /\ \A j \in DOMAIN runs : j > r => runs[j].status = "failed"

LEMMA CurrentIsNewest ==
    ASSUME NEW runs \in Seq(IngestionRuns), NEW r \in DOMAIN runs, Current(runs, r)
    PROVE  NewestRunning(runs) = r
  <1>1. \A j \in DOMAIN runs : runs[j].status = "running" => j <= r
    BY DEF Current
  <1>2. \A i \in DOMAIN runs :
            /\ runs[i].status = "running"
            /\ \A j \in DOMAIN runs : runs[j].status = "running" => j <= i
            => i = r
    BY <1>1 DEF Current
  <1>. QED BY <1>1, <1>2 DEF Current, NewestRunning

LEMMA GreatestFact ==
    ASSUME NEW S, S \subseteq Nat, NEW i \in S, \A j \in S : j <= i
    PROVE  Greatest(S) = i
  <1>1. \A k \in S : (\A j \in S : j <= k) => k = i
    OBVIOUS
  <1>. QED BY <1>1 DEF Greatest

(* The last count depends on the runs that succeeded and on nothing else. *)
LEMMA LastCountSame ==
    ASSUME NEW old, NEW new, Succeeded(new) = Succeeded(old),
           \A i \in Succeeded(old) : new[i].count = old[i].count,
           Succeeded(old) # {} => Greatest(Succeeded(old)) \in Succeeded(old)
    PROVE  LastCount(new) = LastCount(old)
BY DEF LastCount

------------------------------------------------------------------------------
(* The inductive invariant *)

Identities == UniqueRows(row) /\ UniqueRows(txn.row)

(* Nothing is staged without the lock, and its holder has a run. *)
HolderHasRun ==
    /\ holder = None => txn = NoTxn
    /\ holder # None => \E r \in DOMAIN run : Current(run, r)

(* Staging keeps the view's rows in place; only a partial import makes a   *)
(* row active before the commit.                                           *)
StagedOnView ==
    holder # None =>
        /\ Len(row) <= Len(txn.row)
        /\ \A i \in DOMAIN txn.row :
              txn.row[i].active <=>
                  \/ i \in DOMAIN row /\ row[i].active
                  \/ run[RunOf].kind = "import" /\ i \in txn.staged

(* One of the runs that succeeded is the last one. *)
LastSucceeded ==
    Succeeded(run) # {} => \E i \in Succeeded(run) : \A j \in Succeeded(run) : j <= i

Inv == TypeOK /\ Identities /\ HolderHasRun /\ StagedOnView /\ LinksJoinActive /\ LastSucceeded

LEMMA RunOfFact ==
    ASSUME TypeOK, NEW r \in DOMAIN run, Current(run, r)
    PROVE  RunOf = r
  <1>1. RunOf = NewestRunning(run)
    BY DEF RunOf, NewestRunning
  <1>. QED BY <1>1, CurrentIsNewest DEF TypeOK

LEMMA NoTxnType ==
    /\ NoTxn \in Transactions /\ NoTxn.row = <<>> /\ NoTxn.staged = {}
    /\ UniqueRows(NoTxn.row)
  <1>1. NoTxn = [row |-> <<>>, staged |-> {}, ids |-> [u \in Urls |-> 0],
                 out |-> {}, seen |-> {}, n |-> 0]
    BY DEF NoTxn
  <1>2. [u \in Urls |-> 0] \in [Urls -> 0..MaxRows]
    BY ContentAssumptions
  <1>3. <<>> \in Seq(Rows)
    OBVIOUS
  <1>4. NoTxn \in Transactions
    BY <1>1, <1>2, <1>3 DEF Transactions
  <1>. QED BY <1>1, <1>4 DEF UniqueRows

LEMMA InitInv == Init => Inv
  <1> SUFFICES ASSUME Init PROVE Inv
    OBVIOUS
  <1> USE DEF Init
  <1>1. TypeOK
    BY NoTxnType, ContentAssumptions DEF TypeOK, SuggestionStatuses
  <1>2. Identities /\ LinksJoinActive
    BY NoTxnType DEF Identities, UniqueRows, LinksJoinActive
  <1>3. HolderHasRun /\ StagedOnView /\ LastSucceeded
    BY DEF HolderHasRun, StagedOnView, LastSucceeded, Succeeded
  <1>. QED BY <1>1, <1>2, <1>3 DEF Inv

(* The runs after an append of a run that did not succeed. *)
LEMMA AppendRun ==
    ASSUME Inv, Len(run) < MaxRuns,
           NEW new \in IngestionRuns, new.status # "succeeded",
           run' = Append(run, new)
    PROVE  /\ run' \in Seq(IngestionRuns) /\ Len(run') <= MaxRuns
           /\ DOMAIN run' = 1..(Len(run) + 1) /\ DOMAIN run = 1..Len(run) /\ Len(run) \in Nat
           /\ run'[Len(run) + 1] = new
           /\ \A i \in DOMAIN run : run'[i] = run[i]
           /\ Succeeded(run') = Succeeded(run)
           /\ LastSucceeded'
           /\ LastCount(run') = LastCount(run)
  <1>1. run \in Seq(IngestionRuns) /\ Len(run) \in Nat /\ MaxRuns \in Nat
    BY ContentAssumptions DEF Inv, TypeOK
  <1>2. /\ run' \in Seq(IngestionRuns) /\ Len(run') = Len(run) + 1
        /\ run'[Len(run) + 1] = new
        /\ \A i \in 1..Len(run) : run'[i] = run[i]
    BY <1>1
  <1>3. Succeeded(run') = Succeeded(run)
    BY <1>1, <1>2 DEF Succeeded
  <1>4. LastSucceeded'
    BY <1>3 DEF Inv, LastSucceeded
  <1>5. Succeeded(run) # {} => Greatest(Succeeded(run)) \in Succeeded(run)
    BY DEF Inv, LastSucceeded, Greatest
  <1>6. LastCount(run') = LastCount(run)
    <2>1. \A i \in Succeeded(run) : run'[i].count = run[i].count
      BY <1>1, <1>2 DEF Succeeded
    <2>. QED BY <1>3, <1>5, <2>1, LastCountSame
  <1>. QED BY <1>1, <1>2, <1>3, <1>4, <1>6

(* The runs after one that was in progress is recorded as failed. *)
LEMMA FailRun ==
    ASSUME Inv, NEW i \in DOMAIN run, run[i].status = "running", EndRun(i, "failed", 0)
    PROVE  /\ run' \in Seq(IngestionRuns) /\ Len(run') <= MaxRuns
           /\ DOMAIN run' = DOMAIN run
           /\ run'[i].status = "failed"
           /\ \A j \in DOMAIN run : j # i => run'[j] = run[j]
           /\ LastSucceeded'
           /\ LastCount(run') = LastCount(run)
  <1>1. run \in Seq(IngestionRuns) /\ Len(run) <= MaxRuns /\ run[i] \in IngestionRuns
    BY DEF Inv, TypeOK
  <1>2. run' = [run EXCEPT ![i] = [run[i] EXCEPT !.status = "failed", !.count = 0]]
    BY DEF EndRun
  <1>3. [run[i] EXCEPT !.status = "failed", !.count = 0] \in IngestionRuns
    <2>1. 0 \in 0..MaxRows
      BY ContentAssumptions
    <2>. QED BY <1>1, <2>1 DEF IngestionRuns, RunStatuses
  <1>4. run'[i] = [run[i] EXCEPT !.status = "failed", !.count = 0]
    BY <1>1, <1>2
  <1>5. run'[i].status = "failed"
    BY <1>1, <1>4 DEF IngestionRuns
  <1>6. /\ run' \in Seq(IngestionRuns) /\ Len(run') = Len(run) /\ DOMAIN run' = DOMAIN run
        /\ \A j \in DOMAIN run : j # i => run'[j] = run[j]
    BY <1>1, <1>2, <1>3
  <1>7. Succeeded(run') = Succeeded(run) /\ i \notin Succeeded(run)
    BY <1>5, <1>6 DEF Succeeded
  <1>8. LastSucceeded'
    BY <1>7 DEF Inv, LastSucceeded
  <1>9. Succeeded(run) # {} => Greatest(Succeeded(run)) \in Succeeded(run)
    BY DEF Inv, LastSucceeded, Greatest
  <1>10. LastCount(run') = LastCount(run)
    <2>1. \A j \in Succeeded(run) : run'[j].count = run[j].count
      BY <1>6, <1>7 DEF Succeeded
    <2>. QED BY <1>7, <1>9, <2>1, LastCountSame
  <1>. QED BY <1>1, <1>5, <1>6, <1>8, <1>10

(* The runs after the holder's own succeeded with n articles. *)
LEMMA SucceedRun ==
    ASSUME Inv, NEW r \in DOMAIN run, Current(run, r), NEW n \in 0..MaxRows,
           EndRun(r, "succeeded", n)
    PROVE  /\ run' \in Seq(IngestionRuns) /\ Len(run') <= MaxRuns
           /\ LastSucceeded'
           /\ LastCount(run') = n
  <1>1. run \in Seq(IngestionRuns) /\ Len(run) <= MaxRuns /\ run[r] \in IngestionRuns
    BY DEF Inv, TypeOK
  <1>2. run' = [run EXCEPT ![r] = [run[r] EXCEPT !.status = "succeeded", !.count = n]]
    BY DEF EndRun
  <1>3. [run[r] EXCEPT !.status = "succeeded", !.count = n] \in IngestionRuns
    BY <1>1 DEF IngestionRuns, RunStatuses
  <1>4. run'[r] = [run[r] EXCEPT !.status = "succeeded", !.count = n]
    BY <1>1, <1>2
  <1>5. run'[r].status = "succeeded" /\ run'[r].count = n
    BY <1>1, <1>4 DEF IngestionRuns
  <1>6. /\ run' \in Seq(IngestionRuns) /\ Len(run') = Len(run) /\ DOMAIN run' = DOMAIN run
        /\ \A j \in DOMAIN run : j # r => run'[j] = run[j]
    BY <1>1, <1>2, <1>3
  <1>7. r \in Succeeded(run') /\ Succeeded(run') \subseteq Nat /\ \A j \in Succeeded(run') : j <= r
    BY <1>1, <1>5, <1>6 DEF Succeeded, Current
  <1>8. Greatest(Succeeded(run')) = r
    BY <1>7, GreatestFact
  <1>. QED BY <1>1, <1>5, <1>6, <1>7, <1>8 DEF LastSucceeded, LastCount

------------------------------------------------------------------------------
(* Each step keeps the invariant. *)

(* What a release leaves. *)
LEMMA ReleaseFact ==
    ASSUME Inv, Release
    PROVE  /\ holder' \in Callers \cup {None} /\ txn' \in Transactions
           /\ Len(txn'.row) <= MaxRows /\ txn'.staged \subseteq DOMAIN txn'.row
           /\ UniqueRows(txn'.row) /\ HolderHasRun' /\ StagedOnView'
  <1>1. holder' = None /\ txn' = NoTxn
    BY DEF Release
  <1>2. Len(<<>>) <= MaxRows
    BY ContentAssumptions
  <1>. QED BY <1>1, <1>2, NoTxnType DEF HolderHasRun, StagedOnView

LEMMA BeginInv ==
    ASSUME Inv, NEW c \in Callers, NEW kind \in Kinds, Begin(c, kind)
    PROVE  Inv'
  <1> DEFINE new == [kind |-> kind, status |-> "running", count |-> 0]
  <1>1. /\ holder = None /\ Len(run) < MaxRuns
        /\ run' = Append(run, new)
        /\ holder' = c
        /\ txn' = [NoTxn EXCEPT !.row = row]
        /\ UNCHANGED <<row, link, status, picked>>
    BY DEF Begin
  <1>2. new \in IngestionRuns /\ new.status # "succeeded"
    <2>1. 0 \in 0..MaxRows
      BY ContentAssumptions
    <2>. QED BY <2>1 DEF IngestionRuns, RunStatuses
  <1>3. /\ run' \in Seq(IngestionRuns) /\ Len(run') <= MaxRuns
        /\ DOMAIN run' = 1..(Len(run) + 1) /\ Len(run) \in Nat
        /\ run'[Len(run) + 1] = new /\ LastSucceeded'
    BY <1>1, <1>2, AppendRun
  <1>4. Current(run', Len(run) + 1) /\ Len(run) + 1 \in DOMAIN run'
    BY <1>3 DEF Current
  <1>5. txn' \in Transactions /\ txn'.row = row /\ txn'.staged = {}
    BY <1>1, NoTxnType DEF Transactions, Inv, TypeOK
  <1>6. TypeOK'
    BY <1>1, <1>3, <1>5 DEF Inv, TypeOK
  <1>7. Identities'
    BY <1>1, <1>5 DEF Inv, Identities
  <1>8. HolderHasRun'
    BY <1>1, <1>4, ContentAssumptions DEF HolderHasRun
  <1>9. StagedOnView'
    BY <1>1, <1>5 DEF StagedOnView, Inv, TypeOK
  <1>10. LinksJoinActive'
    BY <1>1 DEF Inv, LinksJoinActive, Active
  <1>. QED BY <1>3, <1>6, <1>7, <1>8, <1>9, <1>10 DEF Inv

(* A step of the runs alone that leaves the holder's run in progress. *)
LEMMA RunsOnly ==
    ASSUME Inv, UNCHANGED <<row, link, holder, txn, status, picked>>,
           run' \in Seq(IngestionRuns), Len(run') <= MaxRuns, LastSucceeded',
           \A r \in DOMAIN run : Current(run, r) /\ holder # None =>
               r \in DOMAIN run' /\ Current(run', r) /\ run'[r] = run[r]
    PROVE  Inv'
  <1>1. TypeOK'
    BY DEF Inv, TypeOK
  <1>2. Identities' /\ LinksJoinActive'
    BY DEF Inv, Identities, LinksJoinActive, Active
  <1>3. HolderHasRun'
    BY DEF Inv, HolderHasRun
  <1>4. StagedOnView'
    <2>1. CASE holder = None
      BY <2>1 DEF StagedOnView
    <2>2. CASE holder # None
      <3>1. PICK r \in DOMAIN run : Current(run, r)
        BY <2>2 DEF Inv, HolderHasRun
      <3>2. RunOf = r
        BY <3>1, RunOfFact DEF Inv
      <3>3. RunOf' = NewestRunning(run')
        BY DEF RunOf, NewestRunning
      <3>4. RunOf' = r /\ run'[r] = run[r]
        BY <2>2, <3>1, <3>3, CurrentIsNewest
      <3>. QED BY <2>2, <3>2, <3>4 DEF Inv, StagedOnView
    <2>. QED BY <2>1, <2>2
  <1>. QED BY <1>1, <1>2, <1>3, <1>4 DEF Inv

LEMMA RefusedInv ==
    ASSUME Inv, NEW c \in Callers, Refused(c)
    PROVE  Inv'
  <1> DEFINE new == [kind |-> "crawl", status |-> "failed", count |-> 0]
  <1>1. /\ Len(run) < MaxRuns /\ run' = Append(run, new)
        /\ UNCHANGED <<row, link, holder, txn, status, picked>>
    BY DEF Refused
  <1>2. new \in IngestionRuns /\ new.status = "failed"
    <2>1. 0 \in 0..MaxRows
      BY ContentAssumptions
    <2>. QED BY <2>1 DEF IngestionRuns, RunStatuses, Kinds
  <1> HIDE DEF new
  <1>3. /\ run' \in Seq(IngestionRuns) /\ Len(run') <= MaxRuns
        /\ DOMAIN run' = 1..(Len(run) + 1) /\ DOMAIN run = 1..Len(run) /\ Len(run) \in Nat
        /\ run'[Len(run) + 1] = new /\ LastSucceeded'
        /\ \A i \in DOMAIN run : run'[i] = run[i]
    BY <1>1, <1>2, AppendRun
  <1>4. \A r \in DOMAIN run : Current(run, r) =>
            r \in DOMAIN run' /\ Current(run', r) /\ run'[r] = run[r]
    BY <1>2, <1>3 DEF Current
  <1>. QED BY <1>1, <1>3, <1>4, RunsOnly

LEMMA SettleRunInv ==
    ASSUME Inv, NEW i \in DOMAIN run, SettleRun(i)
    PROVE  Inv'
  <1>1. /\ run[i].status = "running" /\ (holder = None \/ i # RunOf)
        /\ EndRun(i, "failed", 0)
        /\ UNCHANGED <<row, link, holder, txn, status, picked>>
    BY DEF SettleRun
  <1>2. /\ run' \in Seq(IngestionRuns) /\ Len(run') <= MaxRuns
        /\ DOMAIN run' = DOMAIN run /\ run'[i].status = "failed" /\ LastSucceeded'
        /\ \A j \in DOMAIN run : j # i => run'[j] = run[j]
    BY <1>1, FailRun
  <1>3. ASSUME NEW r \in DOMAIN run, Current(run, r), holder # None
        PROVE  r \in DOMAIN run' /\ Current(run', r) /\ run'[r] = run[r]
    <2>1. r # i
      BY <1>1, <1>3, RunOfFact DEF Inv
    <2>. QED BY <1>2, <1>3, <2>1 DEF Current
  <1>. QED BY <1>1, <1>2, <1>3, RunsOnly

LEMMA FailInv ==
    ASSUME Inv, NEW c \in Callers, Fail(c)
    PROVE  Inv'
  <1>1. /\ holder = c /\ EndRun(RunOf, "failed", 0) /\ Release
        /\ UNCHANGED <<row, link, status, picked>>
    BY DEF Fail
  <1>2. PICK r \in DOMAIN run : Current(run, r)
    BY <1>1, ContentAssumptions DEF Inv, HolderHasRun
  <1>3. RunOf = r /\ run[r].status = "running"
    BY <1>2, RunOfFact DEF Inv, Current
  <1>4. run' \in Seq(IngestionRuns) /\ Len(run') <= MaxRuns /\ LastSucceeded'
    BY <1>1, <1>3, FailRun
  <1>. QED BY <1>1, <1>4, ReleaseFact DEF Inv, TypeOK, Identities, LinksJoinActive, Active

LEMMA KillInv ==
    ASSUME Inv, NEW c \in Callers, Kill(c)
    PROVE  Inv'
  <1>1. Release /\ UNCHANGED <<row, link, run, status, picked>>
    BY DEF Kill
  <1>2. LastSucceeded'
    BY <1>1 DEF Inv, LastSucceeded, Succeeded
  <1>. QED BY <1>1, <1>2, ReleaseFact DEF Inv, TypeOK, Identities, LinksJoinActive, Active

LEMMA StageInv ==
    ASSUME Inv, NEW c \in Callers, NEW item \in Items, Stage(c, item)
    PROVE  Inv'
  <1> DEFINE kind == run[RunOf].kind
             id == RowOf(txn.row, item)
             rows == UpsertArticle(txn.row, item)
             once == kind # "crawl" \/ Pool
             import == kind = "import"
             next == IF import THEN [rows EXCEPT ![id].active = TRUE] ELSE rows
  <1>1. /\ holder = c /\ id <= MaxRows
        /\ txn' = [row |-> next,
                   staged |-> txn.staged \cup {id},
                   ids |-> [txn.ids EXCEPT ![item.url] = id],
                   out |-> txn.out \cup ({id} \X item.out),
                   seen |-> IF once THEN txn.seen \cup {item.url} ELSE {},
                   n |-> txn.n + 1]
        /\ UNCHANGED <<row, link, run, holder, status, picked>>
    BY DEF Stage
  <1>2. /\ txn \in Transactions /\ txn.row \in Seq(Rows) /\ txn.staged \subseteq DOMAIN txn.row
        /\ Len(txn.row) <= MaxRows /\ UniqueRows(txn.row) /\ MaxRows \in Nat /\ holder # None
    BY <1>1, ContentAssumptions DEF Inv, TypeOK, Identities, Transactions
  <1>3. /\ rows \in Seq(Rows)
        /\ Len(rows) = IF id > Len(txn.row) THEN Len(txn.row) + 1 ELSE Len(txn.row)
        /\ id \in DOMAIN rows
        /\ \A i \in DOMAIN txn.row : rows[i].active = txn.row[i].active
        /\ id > Len(txn.row) => rows[id].active = FALSE
        /\ UniqueRows(rows)
    BY <1>2, UpsertFact
  <1>4. id \in 1..(Len(txn.row) + 1)
    BY <1>2, RowOfFact
  <1> HIDE DEF rows, id, kind
  <1>5. /\ next \in Seq(Rows) /\ Len(next) = Len(rows) /\ DOMAIN next = DOMAIN rows
        /\ \A i \in DOMAIN rows :
              /\ next[i].url = rows[i].url /\ next[i].ext = rows[i].ext
              /\ next[i].active <=> rows[i].active \/ (import /\ i = id)
    <2>1. CASE ~import
      BY <2>1, <1>3
    <2>2. CASE import
      <3>1. \A r \in Rows : /\ [r EXCEPT !.active = TRUE] \in Rows
                            /\ [r EXCEPT !.active = TRUE].url = r.url
                            /\ [r EXCEPT !.active = TRUE].ext = r.ext
                            /\ [r EXCEPT !.active = TRUE].active
        BY DEF Rows
      <3>2. \A i \in DOMAIN rows : rows[i] \in Rows
        BY <1>3
      <3>3. next = [rows EXCEPT ![id] = [rows[id] EXCEPT !.active = TRUE]]
        BY <2>2
      <3>4. /\ next \in Seq(Rows) /\ Len(next) = Len(rows) /\ DOMAIN next = DOMAIN rows
            /\ next[id] = [rows[id] EXCEPT !.active = TRUE]
            /\ \A i \in DOMAIN rows : i # id => next[i] = rows[i]
        <4>1. PICK r \in Rows : r = [rows[id] EXCEPT !.active = TRUE]
          BY <1>3, <3>1, <3>2
        <4>2. next = [rows EXCEPT ![id] = r]
          BY <3>3, <4>1
        <4>. HIDE DEF next
        <4>. QED BY <1>3, <4>1, <4>2
      <3>. QED BY <1>3, <2>2, <3>1, <3>2, <3>4
    <2>. QED BY <2>1, <2>2
  <1> HIDE DEF next
  <1>6. UniqueRows(next)
    BY <1>3, <1>5 DEF UniqueRows
  <1>7. txn' \in Transactions
    <2>1. id \in RowIds /\ id \in 0..MaxRows
      BY <1>1, <1>2, <1>4 DEF RowIds
    <2>2. item.url \in Urls /\ item.out \subseteq Urls
      BY ContentAssumptions DEF Items
    <2>3. /\ txn.staged \in SUBSET RowIds /\ txn.ids \in [Urls -> 0..MaxRows]
          /\ txn.out \in SUBSET (RowIds \X Urls) /\ txn.seen \in SUBSET Urls /\ txn.n \in Nat
      BY <1>2 DEF Transactions
    <2>4. [txn.ids EXCEPT ![item.url] = id] \in [Urls -> 0..MaxRows]
      BY <2>1, <2>3
    <2>5. txn.out \cup ({id} \X item.out) \in SUBSET (RowIds \X Urls)
      BY <2>1, <2>2, <2>3
    <2>6. txn.staged \cup {id} \in SUBSET RowIds
      BY <2>1, <2>3
    <2>7. (IF once THEN txn.seen \cup {item.url} ELSE {}) \in SUBSET Urls
      BY <2>2, <2>3
    <2>8. txn.n + 1 \in Nat
      BY <2>3
    <2>. HIDE DEF once
    <2>. QED BY <1>1, <1>5, <2>4, <2>5, <2>6, <2>7, <2>8 DEF Transactions
  <1>8. txn'.row = next /\ txn'.staged = txn.staged \cup {id}
    BY <1>1
  <1>9. DOMAIN txn.row = 1..Len(txn.row) /\ DOMAIN rows = 1..Len(rows) /\ Len(txn.row) \in Nat
    BY <1>2, <1>3
  <1>10. DOMAIN txn.row \subseteq DOMAIN rows /\ Len(txn.row) <= Len(rows) /\ Len(rows) <= MaxRows
    BY <1>1, <1>2, <1>3, <1>4, <1>9
  <1>11. TypeOK'
    BY <1>1, <1>2, <1>3, <1>5, <1>7, <1>8, <1>10 DEF Inv, TypeOK
  <1>12. Identities'
    BY <1>1, <1>6, <1>8 DEF Inv, Identities
  <1>13. HolderHasRun'
    BY <1>1, <1>2 DEF Inv, HolderHasRun
  <1>14. StagedOnView'
    <2>1. /\ Len(row) <= Len(txn.row)
          /\ \A i \in DOMAIN txn.row :
                txn.row[i].active <=> \/ i \in DOMAIN row /\ row[i].active
                                      \/ import /\ i \in txn.staged
      BY <1>2 DEF Inv, StagedOnView, kind
    <2>2. row \in Seq(Rows) /\ Len(row) \in Nat /\ Len(rows) \in Nat
      BY <1>3 DEF Inv, TypeOK
    <2>3. Len(row') <= Len(txn'.row)
      BY <1>1, <1>5, <1>8, <1>9, <1>10, <2>1, <2>2
    <2>4. RunOf' = RunOf /\ run' = run
      BY <1>1 DEF RunOf
    <2>5. ASSUME NEW i \in DOMAIN txn'.row
          PROVE  txn'.row[i].active <=> \/ i \in DOMAIN row' /\ row'[i].active
                                        \/ import /\ i \in txn'.staged
      <3>1. CASE i \in DOMAIN txn.row
        BY <1>1, <1>3, <1>5, <1>8, <2>1, <2>5, <3>1
      <3>2. CASE i \notin DOMAIN txn.row
        <4>1. i = id /\ id > Len(txn.row) /\ i \notin txn.staged /\ i \notin DOMAIN row
          BY <1>2, <1>3, <1>4, <1>5, <1>8, <1>9, <2>1, <2>2, <2>5, <3>2
        <4>. QED BY <1>1, <1>3, <1>5, <1>8, <4>1
      <3>. QED BY <3>1, <3>2
    <2>. QED BY <2>3, <2>4, <2>5 DEF StagedOnView, kind
  <1>15. LinksJoinActive' /\ LastSucceeded'
    BY <1>1 DEF Inv, LinksJoinActive, Active, LastSucceeded, Succeeded
  <1>. QED BY <1>11, <1>12, <1>13, <1>14, <1>15 DEF Inv

LEMMA SkipRowInv ==
    ASSUME Inv, NEW c \in Callers, NEW u \in Urls, SkipRow(c, u)
    PROVE  Inv'
  <1>1. /\ holder = c /\ txn' = [txn EXCEPT !.seen = txn.seen \cup {u}]
        /\ UNCHANGED <<row, link, run, holder, status, picked>>
    BY DEF SkipRow
  <1>2. txn \in Transactions /\ holder # None
    BY <1>1, ContentAssumptions DEF Inv, TypeOK
  <1>3. txn' \in Transactions /\ txn'.row = txn.row /\ txn'.staged = txn.staged
    BY <1>1, <1>2 DEF Transactions
  <1>4. TypeOK' /\ Identities'
    BY <1>1, <1>3 DEF Inv, TypeOK, Identities
  <1>5. HolderHasRun' /\ StagedOnView'
    BY <1>1, <1>2, <1>3 DEF Inv, HolderHasRun, StagedOnView, RunOf
  <1>6. LinksJoinActive' /\ LastSucceeded'
    BY <1>1 DEF Inv, LinksJoinActive, Active, LastSucceeded, Succeeded
  <1>. QED BY <1>4, <1>5, <1>6 DEF Inv

(* How many articles a transaction has staged. *)
LEMMA StagedCount ==
    ASSUME Inv
    PROVE  IsFiniteSet(txn.staged) /\ Cardinality(txn.staged) \in 0..MaxRows
  <1>1. txn.staged \subseteq 1..MaxRows /\ MaxRows \in Nat
    BY ContentAssumptions DEF Inv, TypeOK, Transactions, RowIds
  <1>2. IsFiniteSet(1..MaxRows) /\ Cardinality(1..MaxRows) = MaxRows
    BY <1>1, FS_Interval
  <1>3. IsFiniteSet(txn.staged) /\ Cardinality(txn.staged) <= MaxRows
    BY <1>1, <1>2, FS_Subset
  <1>. QED BY <1>1, <1>3, FS_CardinalityType

(* The rows and links of a snapshot that becomes the view. *)
LEMMA PromotedFact ==
    ASSUME Inv
    PROVE  /\ Promoted(txn) \in Seq(Rows) /\ Len(Promoted(txn)) = Len(txn.row)
           /\ UniqueRows(Promoted(txn))
           /\ {i \in DOMAIN Promoted(txn) : Promoted(txn)[i].active} = txn.staged
           /\ ResolveLinks(txn) \subseteq {p \in txn.staged \X txn.staged : p[1] # p[2]}
           /\ ResolveLinks(txn) \subseteq RowIds \X RowIds
  <1>1. txn.row \in Seq(Rows) /\ txn.staged \subseteq DOMAIN txn.row /\ UniqueRows(txn.row)
    BY DEF Inv, TypeOK, Transactions, Identities
  <1>2. /\ \A r \in Rows : /\ [r EXCEPT !.active = TRUE] \in Rows
                           /\ [r EXCEPT !.active = TRUE].active
                           /\ [r EXCEPT !.active = TRUE].url = r.url
                           /\ [r EXCEPT !.active = TRUE].ext = r.ext
        /\ \A r \in Rows : /\ [r EXCEPT !.active = FALSE] \in Rows
                           /\ ~[r EXCEPT !.active = FALSE].active
                           /\ [r EXCEPT !.active = FALSE].url = r.url
                           /\ [r EXCEPT !.active = FALSE].ext = r.ext
    BY DEF Rows
  <1>3. Promoted(txn) = [i \in 1..Len(txn.row) |-> [txn.row[i] EXCEPT !.active = (i \in txn.staged)]]
    BY <1>1 DEF Promoted
  <1>4. \A i \in 1..Len(txn.row) : txn.row[i] \in Rows
    BY <1>1
  <1>5. ASSUME NEW i \in 1..Len(txn.row)
        PROVE  /\ Promoted(txn)[i] \in Rows /\ (Promoted(txn)[i].active <=> i \in txn.staged)
               /\ Promoted(txn)[i].url = txn.row[i].url /\ Promoted(txn)[i].ext = txn.row[i].ext
    <2>1. Promoted(txn)[i] = [txn.row[i] EXCEPT !.active = (i \in txn.staged)]
      BY <1>3, Zenon
    <2>2. CASE i \in txn.staged
      <3>1. Promoted(txn)[i] = [txn.row[i] EXCEPT !.active = TRUE]
        BY <2>1, <2>2, Zenon
      <3>. QED BY <1>2, <1>4, <2>2, <3>1
    <2>3. CASE i \notin txn.staged
      <3>1. Promoted(txn)[i] = [txn.row[i] EXCEPT !.active = FALSE]
        <4>1. (i \in txn.staged) = FALSE
          BY <2>3
        <4>. QED BY <2>1, <4>1, Zenon
      <3>. QED BY <1>2, <1>4, <2>3, <3>1
    <2>. QED BY <2>2, <2>3
  <1>6. Promoted(txn) \in Seq(Rows) /\ Len(Promoted(txn)) = Len(txn.row)
    <2>1. DOMAIN Promoted(txn) = 1..Len(txn.row)
      BY <1>3
    <2>2. Promoted(txn) = [i \in 1..Len(txn.row) |-> Promoted(txn)[i]]
      BY <1>3, <2>1, Zenon
    <2>3. Len(txn.row) \in Nat
      BY <1>1
    <2>. QED BY <1>5, <2>2, <2>3
  <1>7. DOMAIN Promoted(txn) = 1..Len(txn.row)
    BY <1>3
  <1>8. UniqueRows(Promoted(txn))
    BY <1>1, <1>5, <1>7 DEF UniqueRows
  <1>9. {i \in DOMAIN Promoted(txn) : Promoted(txn)[i].active} = txn.staged
    BY <1>1, <1>5, <1>7
  <1>10. ResolveLinks(txn) \subseteq {p \in txn.staged \X txn.staged : p[1] # p[2]}
    BY DEF ResolveLinks
  <1>11. txn.staged \subseteq RowIds
    BY DEF Inv, TypeOK, Transactions
  <1>. QED BY <1>6, <1>8, <1>9, <1>10, <1>11

LEMMA FinishReplaceInv ==
    ASSUME Inv, NEW c \in Callers, FinishReplace(c)
    PROVE  Inv' /\ LastCount(run') = Cardinality(txn.staged)
  <1>1. /\ holder = c /\ row' = Promoted(txn) /\ link' = ResolveLinks(txn)
        /\ status' = Expired(txn) /\ EndRun(RunOf, "succeeded", Cardinality(txn.staged))
        /\ Release /\ picked' = picked
    BY DEF FinishReplace
  <1>2. PICK r \in DOMAIN run : Current(run, r)
    BY <1>1, ContentAssumptions DEF Inv, HolderHasRun
  <1>3. RunOf = r
    BY <1>2, RunOfFact DEF Inv
  <1>4. /\ run' \in Seq(IngestionRuns) /\ Len(run') <= MaxRuns /\ LastSucceeded'
        /\ LastCount(run') = Cardinality(txn.staged)
    BY <1>1, <1>2, <1>3, StagedCount, SucceedRun
  <1>5. status' \in [Tracked -> SuggestionStatuses]
    BY <1>1 DEF Expired, Inv, TypeOK, SuggestionStatuses
  <1>6. row' \in Seq(Rows) /\ Len(row') <= MaxRows /\ link' \subseteq RowIds \X RowIds
    BY <1>1, PromotedFact DEF Inv, TypeOK
  <1>7. TypeOK'
    BY <1>1, <1>4, <1>5, <1>6, ReleaseFact DEF Inv, TypeOK
  <1>8. Identities'
    BY <1>1, PromotedFact, ReleaseFact DEF Identities
  <1>9. Active' = txn.staged
    BY <1>1, PromotedFact DEF Active
  <1>10. LinksJoinActive'
    BY <1>1, <1>9, PromotedFact DEF LinksJoinActive
  <1>. QED BY <1>1, <1>4, <1>7, <1>8, <1>10, ReleaseFact DEF Inv

(* A partial import adds what it staged to the active articles. *)
LEMMA ImportActive ==
    ASSUME Inv, NEW c \in Callers, FinishImport(c)
    PROVE  Active' = Active \cup txn.staged
  <1>1. holder # None /\ row' = txn.row /\ run[RunOf].kind = "import"
    BY ContentAssumptions DEF FinishImport
  <1>2. /\ row \in Seq(Rows) /\ txn.row \in Seq(Rows) /\ Len(row) <= Len(txn.row)
        /\ txn.staged \subseteq DOMAIN txn.row
        /\ \A i \in DOMAIN txn.row :
              txn.row[i].active <=> (i \in DOMAIN row /\ row[i].active) \/ i \in txn.staged
    BY <1>1 DEF Inv, TypeOK, StagedOnView, Transactions
  <1>3. DOMAIN row \subseteq DOMAIN txn.row
    BY <1>2
  <1>. QED BY <1>1, <1>2, <1>3 DEF Active

LEMMA FinishImportInv ==
    ASSUME Inv, NEW c \in Callers, FinishImport(c)
    PROVE  Inv' /\ LastCount(run') = Cardinality(txn.staged)
  <1>1. /\ holder = c /\ row' = txn.row /\ link' = link \cup ResolveLinks(txn)
        /\ EndRun(RunOf, "succeeded", Cardinality(txn.staged))
        /\ Release /\ UNCHANGED <<status, picked>>
    BY DEF FinishImport
  <1>2. PICK r \in DOMAIN run : Current(run, r)
    BY <1>1, ContentAssumptions DEF Inv, HolderHasRun
  <1>3. RunOf = r
    BY <1>2, RunOfFact DEF Inv
  <1>4. /\ run' \in Seq(IngestionRuns) /\ Len(run') <= MaxRuns /\ LastSucceeded'
        /\ LastCount(run') = Cardinality(txn.staged)
    BY <1>1, <1>2, <1>3, StagedCount, SucceedRun
  <1>5. row' \in Seq(Rows) /\ Len(row') <= MaxRows /\ link' \subseteq RowIds \X RowIds
    BY <1>1, PromotedFact DEF Inv, TypeOK, Transactions
  <1>6. TypeOK'
    BY <1>1, <1>4, <1>5, ReleaseFact DEF Inv, TypeOK
  <1>7. Identities'
    BY <1>1, ReleaseFact DEF Inv, Identities
  <1>8. LinksJoinActive'
    BY <1>1, ImportActive, PromotedFact DEF Inv, LinksJoinActive
  <1>. QED BY <1>1, <1>4, <1>6, <1>7, <1>8, ReleaseFact DEF Inv

(* Analyses and publications touch neither rows nor runs. *)
LEMMA OthersInv ==
    ASSUME Inv, NEW p \in Tracked, Pick(p) \/ Propose(p) \/ Claim(p)
    PROVE  Inv'
  <1>1. UNCHANGED <<row, link, run, holder, txn>>
    BY DEF Pick, Propose, Claim
  <1>2. status' \in [Tracked -> SuggestionStatuses] /\ picked' \subseteq Tracked
    BY DEF Pick, Propose, Claim, Inv, TypeOK, SuggestionStatuses
  <1>3. TypeOK'
    BY <1>1, <1>2 DEF Inv, TypeOK
  <1>4. Identities' /\ HolderHasRun' /\ StagedOnView'
    BY <1>1 DEF Inv, Identities, HolderHasRun, StagedOnView, RunOf
  <1>5. LinksJoinActive' /\ LastSucceeded'
    BY <1>1 DEF Inv, LinksJoinActive, Active, LastSucceeded, Succeeded
  <1>. QED BY <1>3, <1>4, <1>5 DEF Inv

LEMMA NextInv == Inv /\ [Next]_vars => Inv'
  <1> SUFFICES ASSUME Inv, [Next]_vars PROVE Inv'
    OBVIOUS
  <1>1. ASSUME NEW c \in Callers, Ingest(c) PROVE Inv'
    BY <1>1, BeginInv, RefusedInv, StageInv, SkipRowInv, FinishReplaceInv, FinishImportInv,
       FailInv, KillInv DEF Ingest
  <1>2. ASSUME NEW i \in DOMAIN run, SettleRun(i) PROVE Inv'
    BY <1>2, SettleRunInv
  <1>3. ASSUME NEW p \in Tracked, Pick(p) \/ Propose(p) \/ Claim(p) PROVE Inv'
    BY <1>3, OthersInv
  <1>4. CASE UNCHANGED vars
    <2>1. TypeOK' /\ Identities'
      BY <1>4 DEF vars, Inv, TypeOK, Identities
    <2>2. HolderHasRun' /\ StagedOnView'
      BY <1>4 DEF vars, Inv, HolderHasRun, StagedOnView, RunOf
    <2>3. LinksJoinActive' /\ LastSucceeded'
      BY <1>4 DEF vars, Inv, LinksJoinActive, Active, LastSucceeded, Succeeded
    <2>. QED BY <2>1, <2>2, <2>3 DEF Inv
  <1>. QED BY <1>1, <1>2, <1>3, <1>4 DEF Next

LEMMA Invariant == Spec => []Inv
BY InitInv, NextInv, PTL DEF Spec

(* The variables of a site's content keep their types: rows, transactions  *)
(* and runs stay within what articles and ingestion_runs can hold.         *)
THEOREM ContentTypeCorrect == Spec => []TypeOK
  <1>1. Inv => TypeOK
    BY DEF Inv
  <1>. QED BY <1>1, Invariant, PTL

(* The statements of a swap, each by itself. *)
LEMMA SwapFact ==
    ASSUME NEW rows \in Seq(Rows), Len(rows) <= MaxRows, UniqueRows(rows), NEW e \in Posts, NEW u \in Urls,
           NEW item, item = [ext |-> e, url |-> u]
    PROVE  UniqueRows(ParkUrl(rows, item)) /\ UniqueRows(TakeUrl(rows, item))
  <1> DEFINE post == ByExternalId(rows, item)
             page == ByUrl(rows, item)
             parked == ParkUrl(rows, item)
             taken == TakeUrl(rows, item)
  <1>1. /\ DOMAIN rows = 1..Len(rows) /\ Len(rows) \in Nat
        /\ \A i \in DOMAIN rows : rows[i].url \in Urls
    <2>1. DOMAIN rows = 1..Len(rows) /\ Len(rows) \in Nat /\ \A i \in DOMAIN rows : rows[i] \in Rows
      OBVIOUS
    <2>. QED BY <2>1 DEF Rows
  <1>2. \A i \in DOMAIN rows : Parked(i) \notin Urls
    <2>1. \A i \in DOMAIN rows : i \in 1..MaxRows
      BY <1>1, ContentAssumptions
    <2>. QED BY <2>1, ContentAssumptions DEF Parked
  <1>3. \A i, j \in DOMAIN rows : i # j => Parked(i) # Parked(j)
    BY DEF Parked
  <1>4. item.ext = e /\ item.url = u /\ e # None
    BY ContentAssumptions
  <1>5. /\ \A i \in DOMAIN rows : i \in post <=> rows[i].ext = e
        /\ \A i \in DOMAIN rows : i \in page <=> rows[i].url = u
    BY <1>4 DEF ByExternalId, ByUrl
  <1>6. /\ DOMAIN parked = DOMAIN rows
        /\ \A i \in DOMAIN rows : /\ parked[i].ext = rows[i].ext
                                  /\ parked[i].url = IF i \in page /\ i \notin post THEN Parked(i) ELSE rows[i].url
    BY DEF ParkUrl, Rows
  <1>7. /\ DOMAIN taken = DOMAIN rows
        /\ \A i \in DOMAIN rows : /\ taken[i].ext = rows[i].ext
                                  /\ taken[i].url = IF i \in post THEN u ELSE parked[i].url
    BY <1>4, <1>6 DEF TakeUrl, Rows
  <1> HIDE DEF post, page, parked, taken
  <1>8. UniqueRows(parked)
    BY <1>1, <1>2, <1>3, <1>6 DEF UniqueRows
  <1>9. ASSUME NEW i \in DOMAIN rows, NEW j \in DOMAIN rows, i # j
        PROVE  taken[i].url # taken[j].url /\ (taken[i].ext = None \/ taken[i].ext # taken[j].ext)
    <2>1. ~(i \in post /\ j \in post)
      BY <1>4, <1>5, <1>9 DEF UniqueRows
    <2>2. \A k \in DOMAIN rows : k \notin post => parked[k].url # u
      BY <1>1, <1>2, <1>5, <1>6
    <2>3. parked[i].url # parked[j].url
      BY <1>6, <1>8, <1>9 DEF UniqueRows
    <2>. QED BY <1>7, <1>9, <2>1, <2>2, <2>3 DEF UniqueRows
  <1>10. UniqueRows(taken)
    BY <1>7, <1>9 DEF UniqueRows
  <1>. QED BY <1>8, <1>10 DEF parked, taken

(* _upsert_article never meets the unique constraints of articles: no two  *)
(* rows share an address or a post id, in the view, while staging or after *)
(* any statement of a swap.                                                *)
THEOREM IdentitiesNeverCollide == Spec => []IdentitiesUnique
  <1>1. Inv => IdentitiesUnique
    <2> SUFFICES ASSUME Inv PROVE IdentitiesUnique
      OBVIOUS
    <2>1. UniqueRows(row) /\ UniqueRows(txn.row) /\ txn.row \in Seq(Rows) /\ Len(txn.row) <= MaxRows
      BY DEF Inv, Identities, TypeOK, Transactions
    <2>. QED BY <2>1, SwapFact DEF IdentitiesUnique
  <1>. QED BY <1>1, Invariant, PTL

(* Promotions and partial imports leave no link on a page that is gone.    *)
THEOREM LinksStayInView == Spec => []LinksJoinActive
  <1>1. Inv => LinksJoinActive
    BY DEF Inv
  <1>. QED BY <1>1, Invariant, PTL

------------------------------------------------------------------------------
(* The refinement of ActiveView *)

Waiting == {p \in Tracked : status[p] = "pending"}

LEMMA ViewInit == Init => View!Init
  <1> SUFFICES ASSUME Init PROVE View!Init
    OBVIOUS
  <1>1. Active = {} /\ link = {}
    BY DEF Init, Active
  <1>2. PreviousCount = 0
    BY DEF Init, PreviousCount
  <1>3. {p \in Tracked : status[p] = "pending"} = {}
    BY DEF Init
  <1>. QED BY <1>1, <1>2, <1>3 DEF View!Init

(* A crawl, or a complete import, becomes the view in one step. *)
LEMMA ReplaceStep ==
    ASSUME Inv, NEW c \in Callers, FinishReplace(c)
    PROVE  View!Next
  <1>1. /\ Complete(txn) /\ row' = Promoted(txn) /\ link' = ResolveLinks(txn)
        /\ status' = Expired(txn)
    BY DEF FinishReplace
  <1>2. txn.staged # {} /\ Enough(Cardinality(txn.staged), PreviousCount)
    BY <1>1 DEF Complete
  <1>3. Active' = txn.staged
    BY <1>1, PromotedFact DEF Active
  <1>4. PreviousCount' = Cardinality(txn.staged)
    BY FinishReplaceInv DEF PreviousCount, LastCount, Succeeded, Greatest
  <1>5. Waiting' = Waiting \cap (txn.staged \X txn.staged)
    <2>1. \A p \in Tracked : status'[p] = "pending" <=>
              status[p] = "pending" /\ p[1] \in txn.staged /\ p[2] \in txn.staged
      BY <1>1 DEF Expired, Inv, TypeOK
    <2>2. \A p \in Tracked : p = <<p[1], p[2]>>
      BY ContentAssumptions
    <2>3. \A p \in Tracked : p \in txn.staged \X txn.staged <=>
              p[1] \in txn.staged /\ p[2] \in txn.staged
      BY <2>2
    <2>. QED BY <2>1, <2>3 DEF Waiting
  <1>6. txn.staged \in SUBSET RowIds
    BY DEF Inv, TypeOK, Transactions
  <1>7. ResolveLinks(txn) \in SUBSET View!LinksAmong(txn.staged)
    BY PromotedFact DEF View!LinksAmong
  <1>8. \E A \in SUBSET RowIds : \E L \in SUBSET View!LinksAmong(A) :
            /\ A # {} /\ Enough(Cardinality(A), PreviousCount)
            /\ Active' = A /\ link' = L /\ PreviousCount' = Cardinality(A)
            /\ Waiting' = Waiting \cap (A \X A)
    BY <1>1, <1>2, <1>3, <1>4, <1>5, <1>6, <1>7
  <1>. QED BY <1>8 DEF View!Next, View!Replace, Waiting, View!Cardinality, Cardinality, Enough

(* A partial import extends the view. *)
LEMMA ExtendStep ==
    ASSUME Inv, NEW c \in Callers, FinishImport(c)
    PROVE  View!Next
  <1>1. link' = link \cup ResolveLinks(txn) /\ status' = status
    BY DEF FinishImport
  <1>2. Active' = Active \cup txn.staged
    BY ImportActive
  <1>3. PreviousCount' = Cardinality(txn.staged)
    BY FinishImportInv DEF PreviousCount, LastCount, Succeeded, Greatest
  <1>4. Waiting' = Waiting
    BY <1>1 DEF Waiting
  <1>5. txn.staged \in SUBSET RowIds
    BY DEF Inv, TypeOK, Transactions
  <1>6. ResolveLinks(txn) \in SUBSET View!LinksAmong(txn.staged)
    BY PromotedFact DEF View!LinksAmong
  <1>7. View!Extend(txn.staged, ResolveLinks(txn))
    BY <1>1, <1>2, <1>3, <1>4 DEF View!Extend, Waiting, View!Cardinality, Cardinality
  <1>. QED BY <1>5, <1>6, <1>7 DEF View!Next

(* Every other step leaves the view alone; an analysis or a publication    *)
(* decides what waits.                                                     *)
LEMMA QuietView ==
    ASSUME Inv, UNCHANGED <<row, link, status>>, LastCount(run') = LastCount(run)
    PROVE  UNCHANGED View!viewVars
  <1>1. Active' = Active
    BY DEF Active
  <1>2. PreviousCount' = PreviousCount
    BY DEF PreviousCount, LastCount, Succeeded, Greatest
  <1>3. Waiting' = Waiting
    BY DEF Waiting
  <1>. QED BY <1>1, <1>2, <1>3 DEF View!viewVars, Waiting

LEMMA DecideStep ==
    ASSUME Inv, NEW p \in Tracked, Pick(p) \/ Propose(p) \/ Claim(p)
    PROVE  View!Next
  <1>1. UNCHANGED <<row, link, run>>
    BY DEF Pick, Propose, Claim
  <1>2. Active' = Active /\ PreviousCount' = PreviousCount
    BY <1>1 DEF Active, PreviousCount
  <1>3. Waiting' \subseteq RowIds \X RowIds
    BY ContentAssumptions DEF Waiting, RowIds
  <1>. QED BY <1>1, <1>2, <1>3 DEF View!Next, View!Decide, Waiting

LEMMA ViewNext == Inv /\ [Next]_vars => [View!Next]_View!viewVars
  <1> SUFFICES ASSUME Inv, [Next]_vars PROVE View!Next \/ UNCHANGED View!viewVars
    OBVIOUS
  <1>1. ASSUME NEW c \in Callers, Ingest(c) PROVE View!Next \/ UNCHANGED View!viewVars
    <2>1. ASSUME NEW kind \in Kinds, Begin(c, kind) PROVE UNCHANGED View!viewVars
      <3>1. [kind |-> kind, status |-> "running", count |-> 0] \in IngestionRuns
        <4>1. 0 \in 0..MaxRows
          BY ContentAssumptions
        <4>. QED BY <4>1 DEF IngestionRuns, RunStatuses
      <3>2. LastCount(run') = LastCount(run)
        BY <2>1, <3>1, AppendRun DEF Begin
      <3>. QED BY <2>1, <3>2, QuietView DEF Begin
    <2>2. CASE Refused(c)
      <3>1. [kind |-> "crawl", status |-> "failed", count |-> 0] \in IngestionRuns
        <4>1. 0 \in 0..MaxRows
          BY ContentAssumptions
        <4>. QED BY <4>1 DEF IngestionRuns, RunStatuses, Kinds
      <3>2. LastCount(run') = LastCount(run)
        BY <2>2, <3>1, AppendRun DEF Refused
      <3>. QED BY <2>2, <3>2, QuietView DEF Refused
    <2>3. CASE \E item \in Items : Stage(c, item)
      BY <2>3, QuietView DEF Stage
    <2>4. CASE \E u \in Urls : SkipRow(c, u)
      BY <2>4, QuietView DEF SkipRow
    <2>5. CASE Fail(c)
      <3>1. PICK r \in DOMAIN run : Current(run, r)
        BY <2>5, ContentAssumptions DEF Fail, Inv, HolderHasRun
      <3>2. RunOf = r /\ run[r].status = "running"
        BY <3>1, RunOfFact DEF Inv, Current
      <3>3. LastCount(run') = LastCount(run)
        BY <2>5, <3>2, FailRun DEF Fail
      <3>. QED BY <2>5, <3>3, QuietView DEF Fail
    <2>6. CASE Kill(c)
      BY <2>6, QuietView DEF Kill
    <2>. QED BY <1>1, <2>1, <2>2, <2>3, <2>4, <2>5, <2>6, ReplaceStep, ExtendStep DEF Ingest
  <1>2. ASSUME NEW i \in DOMAIN run, SettleRun(i) PROVE UNCHANGED View!viewVars
    <2>1. LastCount(run') = LastCount(run)
      BY <1>2, FailRun DEF SettleRun
    <2>. QED BY <1>2, <2>1, QuietView DEF SettleRun
  <1>3. ASSUME NEW p \in Tracked, Pick(p) \/ Propose(p) \/ Claim(p) PROVE View!Next
    BY <1>3, DecideStep
  <1>4. CASE UNCHANGED vars
    BY <1>4, QuietView DEF vars
  <1>. QED BY <1>1, <1>2, <1>3, <1>4 DEF Next

(* The content of a site implements what its readers are promised: the     *)
(* view changes by whole snapshots and extensions only, a crawl that fell  *)
(* short replaces nothing, and what waits on retired pages expires.        *)
THEOREM ViewIsImplemented == Spec => ViewIsPromised
  <1>1. Inv /\ [Next]_vars => [View!Next]_View!viewVars
    BY ViewNext
  <1>. QED BY <1>1, ViewInit, Invariant, PTL DEF Spec, ViewIsPromised, View!Spec
==============================================================================
