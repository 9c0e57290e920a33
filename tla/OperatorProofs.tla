---------------------------- MODULE OperatorProofs ----------------------------
(***************************************************************************)
(* What is proved of the sites' rules (PoolSources) and of the dashboard's *)
(* accounts (DashboardAccess) for every number of sites, requests, people, *)
(* codes and browsers.                                                     *)
(***************************************************************************)
EXTENDS DashboardAccess, PoolSources, WellFoundedInduction, TLAPS

-----------------------------------------------------------------------------
(* Sites and content-pool sources: the inductive invariant.                *)

Platforms == {"none", "pool", "wordpress"}
SiteRows == [id : Nat, platform : Platforms, approved : BOOLEAN, quarantined : BOOLEAN,
             failures : Nat]
UploadRows == Sites \X Platforms
SiteRequests == [at : {"idle", "rows", "check", "write"},
                 op : {"none", "create", "approve", "revoke", "reactivate", "delete"},
                 rows : Seq(UploadRows), made : SUBSET UploadRows,
                 on : Sites \cup {0}, seen : SiteRows]
PoolCrawls == [at : {"idle", "fetch"}, on : Sites \cup {0}, id : Nat]

PoolTypes ==
    /\ site \in [Sites -> SiteRows]
    /\ req \in [Requests -> SiteRequests]
    /\ pbnLock \subseteq Requests
    /\ crawl \in [Crawlers -> PoolCrawls]
    /\ streak \in [Sites -> Nat]
    /\ calls \in Nat

\* One transaction at a time holds the advisory lock.
OneHolder == \A q, r \in pbnLock : q = r

\* A transaction with an uncommitted client row holds the lock, and no source
\* of the row's property is approved; the key of an uncommitted row is free.
UploadsAreSafe ==
    \A r \in Requests :
        /\ req[r].made # {} => req[r].at = "rows"
        /\ req[r].at = "rows" => calls >= 1
        /\ \A row \in req[r].made :
            /\ site[row[1]].id = 0
            /\ Client([platform |-> row[2]]) =>
                /\ r \in pbnLock
                /\ \A t \in Sites : <<row[1], t>> \in Same => ~(Pool(site[t]) /\ site[t].approved)

\* Two transactions never insert the same key.
InsertsApart ==
    \A q, r \in Requests : \A x \in req[q].made, y \in req[r].made : x[1] = y[1] => q = r

\* A checked approval holds the lock, and its property has no client.
ApprovalsAreSafe ==
    \A r \in Requests :
        /\ req[r].at \in {"check", "write"} => req[r].on \in Sites
        /\ req[r].at = "write" /\ req[r].op = "approve" =>
            /\ r \in pbnLock
            /\ \A t \in Sites : <<req[r].on, t>> \in Same => ~Client(site[t])

\* A job fetches a row that was there; a failure it will record counts.
FailuresCounted ==
    /\ \A c \in Crawlers : crawl[c].at = "fetch" => crawl[c].on \in Sites /\ crawl[c].id >= 1
    /\ \A s \in Sites :
        /\ site[s].id = 0 => streak[s] = 0 /\ ~Client(site[s]) /\ ~Pool(site[s])
        /\ ~site[s].quarantined => streak[s] <= site[s].failures /\ streak[s] < Threshold

PoolInv ==
    /\ PoolTypes
    /\ OneHolder
    /\ UploadsAreSafe
    /\ InsertsApart
    /\ ApprovalsAreSafe
    /\ NoPrivateNetwork
    /\ FailuresCounted

-----------------------------------------------------------------------------
(* What a transaction sees is a committed row or one it inserted itself.   *)

LEMMA VisibleRow ==
    ASSUME PoolTypes, NEW r \in Requests, NEW s \in Sites
    PROVE  /\ Visible(r)[s] \in SiteRows
           /\ s \notin Made(r) => Visible(r)[s] = site[s]
           /\ s \in Made(r) =>
                \E row \in req[r].made :
                    /\ row[1] = s
                    /\ Visible(r)[s] = NewRow(calls, row[2])
<1> DEFINE pick == CHOOSE row \in req[r].made : row[1] = s
<1>1. Visible(r)[s] = IF s \in Made(r) THEN NewRow(calls, pick[2]) ELSE site[s]
    BY DEF Visible
<1>2. CASE s \in Made(r)
    <2>1. pick \in req[r].made /\ pick[1] = s
        BY <1>2 DEF Made
    <2>2. pick[2] \in Platforms
        <3>1. req[r].made \subseteq UploadRows
            BY DEF PoolTypes, SiteRequests
        <3> QED BY <2>1, <3>1 DEF UploadRows
    <2> HIDE DEF pick
    <2>3. NewRow(calls, pick[2]) \in SiteRows
        BY <2>2 DEF PoolTypes, NewRow, NoRow, SiteRows
    <2> QED BY <1>1, <1>2, <2>1, <2>3
<1>3. CASE s \notin Made(r)
    BY <1>1, <1>3 DEF PoolTypes
<1> QED BY <1>2, <1>3

LEMMA PoolInitially == PoolInit => PoolInv
<1> SUFFICES ASSUME PoolInit PROVE PoolInv
    OBVIOUS
<1> USE DEF PoolInit
<1>1. NoRow \in SiteRows
    BY DEF NoRow, SiteRows, Platforms
<1>2. NoRequest \in SiteRequests
    BY <1>1 DEF NoRequest, SiteRequests
<1>3. PoolTypes
    BY <1>1, <1>2 DEF PoolTypes, NoCrawl, PoolCrawls
<1>4. OneHolder /\ UploadsAreSafe /\ InsertsApart /\ ApprovalsAreSafe
    BY DEF OneHolder, UploadsAreSafe, InsertsApart, ApprovalsAreSafe, NoRequest
<1>5. NoPrivateNetwork /\ FailuresCounted
    BY PoolAssumptions DEF NoPrivateNetwork, FailuresCounted, NoRow, NoCrawl, Client, Pool
<1> QED BY <1>3, <1>4, <1>5 DEF PoolInv

\* A step that only rewrites requests without inserts, and no row.
LEMMA RequestStep ==
    ASSUME PoolInv, NEW r \in Requests, NEW q \in SiteRequests,
           UNCHANGED <<site, crawl, streak>>, calls' \in Nat, calls' >= calls,
           req' = [req EXCEPT ![r] = q],
           pbnLock' \subseteq Requests, OneHolder', pbnLock \ {r} \subseteq pbnLock',
           q.made = {}, q.at = "rows" => calls' >= 1,
           q.at \in {"check", "write"} => q.on \in Sites,
           q.at = "write" /\ q.op = "approve" =>
               /\ r \in pbnLock'
               /\ \A t \in Sites : <<q.on, t>> \in Same => ~Client(site[t])
    PROVE  PoolInv'
<1> USE DEF PoolInv
<1>1. /\ req'[r] = q
      /\ \A p \in Requests \ {r} : req'[p] = req[p]
    BY DEF PoolTypes
<1>2. PoolTypes'
    BY DEF PoolTypes
<1>3. UploadsAreSafe'
    <2> SUFFICES ASSUME NEW p \in Requests
                 PROVE  /\ req'[p].made # {} => req'[p].at = "rows"
                        /\ req'[p].at = "rows" => calls' >= 1
                        /\ \A row \in req'[p].made :
                            /\ site'[row[1]].id = 0
                            /\ Client([platform |-> row[2]]) =>
                                /\ p \in pbnLock'
                                /\ \A t \in Sites : <<row[1], t>> \in Same =>
                                      ~(Pool(site'[t]) /\ site'[t].approved)
        BY DEF UploadsAreSafe
    <2>1. CASE p = r
        BY <1>1, <2>1
    <2>2. CASE p # r
        BY <1>1, <2>2 DEF UploadsAreSafe, PoolTypes
    <2> QED BY <2>1, <2>2
<1>4. InsertsApart'
    BY <1>1 DEF InsertsApart
<1>5. ApprovalsAreSafe'
    BY <1>1 DEF ApprovalsAreSafe
<1>6. NoPrivateNetwork' /\ FailuresCounted'
    BY DEF NoPrivateNetwork, FailuresCounted
<1> QED BY <1>2, <1>3, <1>4, <1>5, <1>6

LEMMA NoRequestTyped == NoRow \in SiteRows /\ NoRequest \in SiteRequests
BY DEF NoRow, NoRequest, SiteRows, SiteRequests, Platforms

\* A request that ends, having changed no row, releases what it held.
LEMMA RequestEnds ==
    ASSUME PoolInv, NEW r \in Requests, Done(r),
           pbnLock' \in {pbnLock, pbnLock \ {r}},
           UNCHANGED <<site, crawl, streak, calls>>
    PROVE  PoolInv'
<1>1. /\ NoRequest.made = {} /\ NoRequest.at = "idle" /\ calls \in Nat
      /\ pbnLock \subseteq Requests /\ OneHolder
    BY DEF NoRequest, PoolInv, PoolTypes
<1>2. pbnLock' \subseteq Requests /\ pbnLock \ {r} \subseteq pbnLock' /\ OneHolder'
    BY <1>1 DEF OneHolder
<1>3. calls' \in Nat /\ calls' >= calls
    BY <1>1
<1>4. req' = [req EXCEPT ![r] = NoRequest]
    BY DEF Done
<1> QED BY <1>1, <1>2, <1>3, <1>4, NoRequestTyped, RequestStep

LEMMA UploadKeeps ==
    ASSUME PoolInv, NEW r \in Requests, NEW rows \in Uploads, Upload(r, rows)
    PROVE  PoolInv'
<1> DEFINE q == [NoRequest EXCEPT !.at = "rows", !.op = "create", !.rows = rows]
<1>1. rows \in Seq(UploadRows)
    <2> DEFINE rs == Sites \X {"pool", "wordpress"}
    <2>1. rs \subseteq UploadRows
        BY DEF UploadRows, Platforms
    <2>2. (\E x \in rs : rows = <<x>>) \/ (\E x, y \in rs : rows = <<x, y>>)
        BY DEF Uploads
    <2> HIDE DEF rs
    <2>3. CASE \E x \in rs : rows = <<x>>
        BY <2>1, <2>3
    <2>4. CASE \E x, y \in rs : rows = <<x, y>>
        <3> PICK x \in rs, y \in rs : rows = <<x, y>>
            BY <2>4
        <3>1. x \in UploadRows /\ y \in UploadRows
            BY <2>1
        <3> QED BY <3>1
    <2> QED BY <2>2, <2>3, <2>4
<1>2. q \in SiteRequests /\ q.made = {} /\ q.at = "rows"
    BY <1>1, NoRequestTyped DEF NoRequest, SiteRequests
<1>3. calls' \in Nat /\ calls' >= calls /\ calls' >= 1 /\ pbnLock \subseteq Requests /\ OneHolder'
    BY DEF Upload, NewCall, PoolInv, PoolTypes, OneHolder
<1>4. req' = [req EXCEPT ![r] = q] /\ UNCHANGED <<site, crawl, streak, pbnLock>>
    BY DEF Upload
<1> HIDE DEF q
<1> QED BY <1>2, <1>3, <1>4, RequestStep

LEMMA LoadKeeps ==
    ASSUME PoolInv, NEW r \in Requests, NEW s \in Sites,
           NEW op \in {"approve", "revoke", "reactivate", "delete"}, Load(r, op, s)
    PROVE  PoolInv'
<1> DEFINE q == [NoRequest EXCEPT !.at = IF op = "approve" THEN "check" ELSE "write",
                    !.op = op, !.on = s, !.seen = site[s]]
<1>1. site[s] \in SiteRows
    BY DEF PoolInv, PoolTypes
<1>2. /\ q \in SiteRequests /\ q.made = {} /\ q.on = s /\ q.op = op
      /\ q.at = IF op = "approve" THEN "check" ELSE "write"
    BY <1>1, NoRequestTyped DEF NoRequest, SiteRequests
<1>3. calls' \in Nat /\ calls' >= calls /\ pbnLock \subseteq Requests /\ OneHolder'
    BY DEF Load, NewCall, PoolInv, PoolTypes, OneHolder
<1>4. req' = [req EXCEPT ![r] = q] /\ UNCHANGED <<site, crawl, streak, pbnLock>>
    BY DEF Load
<1> HIDE DEF q
<1> QED BY <1>2, <1>3, <1>4, RequestStep

\* An approval that waited for the lock sees every client there is.
LEMMA ApproveCheckKeeps ==
    ASSUME PoolInv, NEW r \in Requests, ApproveCheck(r)
    PROVE  PoolInv'
<1> DEFINE q == [req[r] EXCEPT !.at = "write"]
<1>1. req[r] \in SiteRequests /\ req[r].made = {} /\ req[r].on \in Sites
    BY DEF ApproveCheck, PoolInv, PoolTypes, UploadsAreSafe, ApprovalsAreSafe
<1>2. q \in SiteRequests /\ q.made = {} /\ q.on = req[r].on /\ q.at = "write"
    BY <1>1 DEF SiteRequests
<1>3. \A t \in Sites : Visible(r)[t] = site[t]
    BY <1>1, VisibleRow DEF Made, PoolInv
<1>4. \A t \in Sites : <<q.on, t>> \in Same => ~Client(site[t])
    BY <1>1, <1>2, <1>3 DEF ApproveCheck, Conflicts
<1>5. pbnLock' \subseteq Requests /\ OneHolder' /\ pbnLock \ {r} \subseteq pbnLock' /\ r \in pbnLock'
    BY DEF ApproveCheck, TakeLock, OneHolder
<1>6. req' = [req EXCEPT ![r] = q] /\ UNCHANGED <<site, crawl, streak, calls>>
    BY <1>1 DEF ApproveCheck
<1>7. calls' \in Nat /\ calls' >= calls
    BY <1>6 DEF PoolInv, PoolTypes
<1> HIDE DEF q
<1>8. /\ q.at = "rows" => calls' >= 1
      /\ q.at \in {"check", "write"} => q.on \in Sites
    BY <1>1, <1>2
<1> QED BY <1>2, <1>4, <1>5, <1>6, <1>7, <1>8, RequestStep

LEMMA UploadRowKeeps ==
    ASSUME PoolInv, NEW r \in Requests, UploadRow(r)
    PROVE  PoolInv'
<1> DEFINE h == Head(req[r].rows)
           s == h[1]
           exists == Visible(r)[s] # NoRow
           refused == h[2] # "pool" /\ Conflicts(r, s, FALSE)
           inserted == ~exists /\ ~refused
<1>1. /\ PoolTypes /\ OneHolder /\ UploadsAreSafe /\ InsertsApart /\ ApprovalsAreSafe
      /\ NoPrivateNetwork /\ FailuresCounted
    BY DEF PoolInv
<1>2. /\ req[r].at = "rows" /\ req[r].rows # <<>>
      /\ IF exists \/ h[2] = "pool" THEN UNCHANGED pbnLock ELSE TakeLock(r)
      /\ inserted => ~InsertWaits(r, s)
      /\ NextRow(r, inserted)
      /\ UNCHANGED <<site, crawl, targets, streak, calls>>
    BY DEF UploadRow
<1>3. req[r] \in SiteRequests /\ req[r].rows \in Seq(UploadRows) /\ calls \in Nat
    BY <1>1 DEF PoolTypes, SiteRequests
<1>4. h \in UploadRows /\ Tail(req[r].rows) \in Seq(UploadRows)
    BY <1>2, <1>3
<1>5. s \in Sites /\ h[2] \in Platforms
    BY <1>4 DEF UploadRows
<1> DEFINE made == IF inserted THEN req[r].made \cup {h} ELSE req[r].made
           q == [req[r] EXCEPT !.rows = Tail(req[r].rows), !.made = made]
<1>6. req' = [req EXCEPT ![r] = q]
    BY <1>2 DEF NextRow
<1>7. made \subseteq UploadRows
    BY <1>3, <1>4 DEF SiteRequests
<1> HIDE DEF made, inserted, exists, refused, s, h
<1>8. q \in SiteRequests /\ q.at = "rows" /\ q.made = made
    BY <1>2, <1>3, <1>4, <1>7 DEF SiteRequests
<1> HIDE DEF q
<1>9. req'[r] = q /\ \A p \in Requests \ {r} : req'[p] = req[p]
    BY <1>1, <1>6 DEF PoolTypes
<1>10. pbnLock \subseteq pbnLock' /\ pbnLock' \subseteq Requests /\ OneHolder'
    BY <1>1, <1>2 DEF TakeLock, OneHolder, PoolTypes
<1>11. PoolTypes'
    BY <1>1, <1>2, <1>6, <1>8, <1>10 DEF PoolTypes
<1>12. ASSUME inserted
       PROVE  /\ Visible(r)[s] = NoRow /\ s \notin Made(r) /\ site[s].id = 0
              /\ \A p \in Requests \ {r} : \A x \in req[p].made : x[1] # s
              /\ h[2] # "pool" =>
                    /\ r \in pbnLock'
                    /\ \A t \in Sites : <<s, t>> \in Same => ~(Pool(site[t]) /\ site[t].approved)
    <2>1. Visible(r)[s] = NoRow
        BY <1>12 DEF inserted, exists
    <2>2. s \notin Made(r)
        <3> SUFFICES ASSUME s \in Made(r) PROVE FALSE
            OBVIOUS
        <3>1. PICK row \in req[r].made : Visible(r)[s] = NewRow(calls, row[2])
            BY <1>1, <1>5, VisibleRow
        <3>2. NewRow(calls, row[2]).id = calls /\ NoRow.id = 0
            BY DEF NewRow, NoRow
        <3>3. calls >= 1
            BY <1>1, <1>2 DEF UploadsAreSafe
        <3> QED BY <1>3, <2>1, <3>1, <3>2, <3>3
    <2>3. site[s].id = 0
        BY <1>1, <1>5, <2>1, <2>2, VisibleRow DEF NoRow
    <2>4. \A p \in Requests \ {r} : \A x \in req[p].made : x[1] # s
        BY <1>2, <1>12 DEF InsertWaits, Made
    <2>5. ASSUME h[2] # "pool"
          PROVE  /\ r \in pbnLock'
                 /\ \A t \in Sites : <<s, t>> \in Same => ~(Pool(site[t]) /\ site[t].approved)
        <3>1. TakeLock(r) /\ ~Conflicts(r, s, FALSE)
            BY <1>2, <1>12, <2>5 DEF inserted, exists, refused
        <3>2. \A t \in Sites : <<s, t>> \in Same => ~(Pool(Visible(r)[t]) /\ Visible(r)[t].approved)
            BY <3>1 DEF Conflicts
        <3>3. ASSUME NEW t \in Sites, <<s, t>> \in Same, Pool(site[t]), site[t].approved
              PROVE  FALSE
            <4>1. t \in Made(r)
                BY <1>1, <3>2, <3>3, VisibleRow
            <4>2. site[t].id = 0
                BY <1>1, <4>1 DEF UploadsAreSafe, Made
            <4> QED BY <1>1, <3>3, <4>2 DEF FailuresCounted
        <3> QED BY <3>1, <3>3 DEF TakeLock
    <2> QED BY <2>1, <2>2, <2>3, <2>4, <2>5
<1>13. UploadsAreSafe'
    <2> SUFFICES ASSUME NEW p \in Requests
                 PROVE  /\ req'[p].made # {} => req'[p].at = "rows"
                        /\ req'[p].at = "rows" => calls' >= 1
                        /\ \A row \in req'[p].made :
                            /\ site'[row[1]].id = 0
                            /\ Client([platform |-> row[2]]) =>
                                /\ p \in pbnLock'
                                /\ \A t \in Sites : <<row[1], t>> \in Same =>
                                      ~(Pool(site'[t]) /\ site'[t].approved)
        BY DEF UploadsAreSafe
    <2>1. CASE p # r
        BY <1>1, <1>2, <1>9, <1>10, <2>1 DEF UploadsAreSafe
    <2>2. CASE p = r
        <3>1. req'[p].at = "rows" /\ calls' >= 1 /\ req'[p].made = made
            BY <1>1, <1>2, <1>8, <1>9, <2>2 DEF UploadsAreSafe
        <3>2. ASSUME NEW row \in req[r].made
              PROVE  /\ site'[row[1]].id = 0
                     /\ Client([platform |-> row[2]]) =>
                            /\ p \in pbnLock'
                            /\ \A t \in Sites : <<row[1], t>> \in Same =>
                                  ~(Pool(site'[t]) /\ site'[t].approved)
            BY <1>1, <1>2, <1>10, <2>2, <3>2 DEF UploadsAreSafe
        <3>3. ASSUME inserted
              PROVE  /\ site'[h[1]].id = 0
                     /\ Client([platform |-> h[2]]) =>
                            /\ p \in pbnLock'
                            /\ \A t \in Sites : <<h[1], t>> \in Same =>
                                  ~(Pool(site'[t]) /\ site'[t].approved)
            BY <1>2, <1>12, <2>2, <3>3 DEF Client, s
        <3> QED BY <3>1, <3>2, <3>3 DEF made
    <2> QED BY <2>1, <2>2
<1>14. InsertsApart'
    <2> SUFFICES ASSUME NEW p1 \in Requests, NEW p2 \in Requests, NEW x \in req'[p1].made,
                        NEW y \in req'[p2].made, x[1] = y[1], p1 # p2
                 PROVE  FALSE
        BY DEF InsertsApart
    <2>1. CASE x \in req[p1].made /\ y \in req[p2].made
        BY <1>1, <2>1 DEF InsertsApart
    <2>2. CASE x \notin req[p1].made
        BY <1>8, <1>9, <1>12, <2>2 DEF made, s
    <2>3. CASE y \notin req[p2].made
        BY <1>8, <1>9, <1>12, <2>3 DEF made, s
    <2> QED BY <2>1, <2>2, <2>3
<1>15. ApprovalsAreSafe'
    BY <1>1, <1>2, <1>8, <1>9, <1>10 DEF ApprovalsAreSafe
<1>16. NoPrivateNetwork' /\ FailuresCounted'
    BY <1>1, <1>2 DEF NoPrivateNetwork, FailuresCounted
<1> QED BY <1>10, <1>11, <1>13, <1>14, <1>15, <1>16 DEF PoolInv

\* The rows that appear at a commit: new, unapproved, and if a client's then
\* inserted under the lock.
LEMMA UploadCommitKeeps ==
    ASSUME PoolInv, NEW r \in Requests, UploadCommit(r)
    PROVE  PoolInv'
<1>1. /\ PoolTypes /\ OneHolder /\ UploadsAreSafe /\ InsertsApart /\ ApprovalsAreSafe
      /\ NoPrivateNetwork /\ FailuresCounted
    BY DEF PoolInv
<1>2. /\ req[r].at = "rows" /\ site' = Visible(r) /\ pbnLock' = pbnLock \ {r}
      /\ req' = [req EXCEPT ![r] = NoRequest] /\ UNCHANGED <<crawl, streak, calls>>
    BY DEF UploadCommit, Done
<1>3. calls \in Nat /\ calls >= 1
    BY <1>1, <1>2 DEF PoolTypes, UploadsAreSafe
<1>4. /\ req'[r] = NoRequest /\ NoRequest.at = "idle" /\ NoRequest.made = {}
      /\ \A p \in Requests \ {r} : req'[p] = req[p]
    BY <1>1, <1>2 DEF PoolTypes, NoRequest
<1>5. ASSUME NEW t \in Sites
      PROVE  \/ site'[t] = site[t] /\ t \notin Made(r)
             \/ /\ \E row \in req[r].made : row[1] = t /\ site'[t] = NewRow(calls, row[2])
                /\ site'[t].id = calls /\ ~site'[t].approved /\ ~site'[t].quarantined
                /\ site'[t].failures = 0 /\ site[t].id = 0
                /\ Client(site'[t]) =>
                     /\ r \in pbnLock
                     /\ \A u \in Sites : <<t, u>> \in Same => ~(Pool(site[u]) /\ site[u].approved)
    <2>1. CASE t \notin Made(r)
        BY <1>1, <1>2, <2>1, VisibleRow
    <2>2. CASE t \in Made(r)
        <3>1. PICK row \in req[r].made : row[1] = t /\ site'[t] = NewRow(calls, row[2])
            BY <1>1, <1>2, <2>2, VisibleRow
        <3>2. /\ site'[t].id = calls /\ ~site'[t].approved /\ ~site'[t].quarantined
              /\ site'[t].failures = 0 /\ site'[t].platform = row[2]
            BY <3>1 DEF NewRow, NoRow
        <3>3. Client(site'[t]) => Client([platform |-> row[2]])
            BY <3>2 DEF Client
        <3> QED BY <1>1, <3>1, <3>2, <3>3 DEF UploadsAreSafe
    <2> QED BY <2>1, <2>2
<1>6. PoolTypes'
    <2>1. site' \in [Sites -> SiteRows]
        <3>1. \A t \in Sites : Visible(r)[t] \in SiteRows
            BY <1>1, VisibleRow
        <3> QED BY <1>2, <3>1 DEF Visible
    <2> QED BY <1>1, <1>2, <2>1, NoRequestTyped DEF PoolTypes
<1>7. OneHolder'
    BY <1>1, <1>2 DEF OneHolder
<1>8. UploadsAreSafe'
    <2> SUFFICES ASSUME NEW p \in Requests, NEW row \in req'[p].made
                 PROVE  /\ site'[row[1]].id = 0
                        /\ Client([platform |-> row[2]]) =>
                                /\ p \in pbnLock'
                                /\ \A t \in Sites : <<row[1], t>> \in Same =>
                                      ~(Pool(site'[t]) /\ site'[t].approved)
        BY <1>1, <1>2, <1>4 DEF UploadsAreSafe
    <2>1. p # r /\ row \in req[p].made
        BY <1>4
    <2>2. row[1] \in Sites
        BY <1>1, <2>1 DEF PoolTypes, SiteRequests, UploadRows
    <2>3. row[1] \notin Made(r)
        BY <1>1, <2>1 DEF InsertsApart, Made
    <2>4. site'[row[1]].id = 0
        <3>1. site'[row[1]] = site[row[1]]
            BY <1>5, <2>2, <2>3 DEF Made
        <3>2. site[row[1]].id = 0
            BY <1>1, <2>1 DEF UploadsAreSafe
        <3> QED BY <3>1, <3>2
    <2>5. ASSUME Client([platform |-> row[2]])
          PROVE  /\ p \in pbnLock'
                 /\ \A t \in Sites : <<row[1], t>> \in Same => ~(Pool(site[t]) /\ site[t].approved)
        BY <1>1, <1>2, <2>1, <2>5 DEF UploadsAreSafe
    <2>6. \A t \in Sites : Pool(site'[t]) /\ site'[t].approved => Pool(site[t]) /\ site[t].approved
        BY <1>5
    <2> QED BY <2>4, <2>5, <2>6
<1>9. InsertsApart'
    BY <1>1, <1>4 DEF InsertsApart
<1>10. ApprovalsAreSafe'
    <2> SUFFICES ASSUME NEW p \in Requests, p # r, req[p].at = "write", req[p].op = "approve"
                 PROVE  /\ p \in pbnLock'
                        /\ \A t \in Sites : <<req[p].on, t>> \in Same => ~Client(site'[t])
        BY <1>1, <1>4 DEF ApprovalsAreSafe
    <2>1. p \in pbnLock /\ \A t \in Sites : <<req[p].on, t>> \in Same => ~Client(site[t])
        BY <1>1 DEF ApprovalsAreSafe
    <2>2. r \notin pbnLock
        BY <1>1, <2>1 DEF OneHolder
    <2>3. \A t \in Sites : Client(site'[t]) => Client(site[t])
        BY <1>5, <2>2
    <2> QED BY <1>2, <2>1, <2>3
<1>11. NoPrivateNetwork'
    <2> SUFFICES ASSUME NEW s \in Sites, NEW t \in Sites, Client(site'[s]), Pool(site'[t]),
                        site'[t].approved, <<s, t>> \in Same
                 PROVE  FALSE
        BY DEF NoPrivateNetwork
    <2>1. Pool(site[t]) /\ site[t].approved
        BY <1>5
    <2>2. CASE site'[s] = site[s]
        BY <1>1, <2>1, <2>2 DEF NoPrivateNetwork
    <2>3. CASE site'[s] # site[s]
        BY <1>5, <2>1, <2>3
    <2> QED BY <2>2, <2>3
<1>12. FailuresCounted'
    <2> SUFFICES ASSUME NEW t \in Sites
                 PROVE  /\ site'[t].id = 0 => streak[t] = 0 /\ ~Client(site'[t]) /\ ~Pool(site'[t])
                        /\ ~site'[t].quarantined => streak[t] <= site'[t].failures
                                                  /\ streak[t] < Threshold
        BY <1>1, <1>2 DEF FailuresCounted
    <2>1. CASE site'[t] = site[t]
        BY <1>1, <2>1 DEF FailuresCounted
    <2>2. CASE site'[t] # site[t]
        <3>1. site'[t].id = calls /\ site'[t].failures = 0 /\ streak[t] = 0
            BY <1>1, <1>5, <2>2 DEF FailuresCounted
        <3> QED BY <1>3, <3>1, PoolAssumptions
    <2> QED BY <2>1, <2>2
<1> QED BY <1>6, <1>7, <1>8, <1>9, <1>10, <1>11, <1>12 DEF PoolInv

\* One row is rewritten, by a request that ends with it or by a crawl.
LEMMA RowWritten ==
    ASSUME PoolInv, NEW s \in Sites, NEW x \in SiteRows, NEW k \in Nat,
           site' = [site EXCEPT ![s] = x], streak' = [streak EXCEPT ![s] = k],
           UNCHANGED calls, PoolTypes',
           pbnLock' \subseteq pbnLock,
           \A q \in Requests : \/ req'[q] = req[q] /\ (q \in pbnLock => q \in pbnLock')
                               \/ req'[q] = NoRequest,
           \A c \in Crawlers : crawl'[c] = crawl[c] \/ crawl'[c].at = "idle",
           x.id \in {0, site[s].id}, x.id = 0 => k = 0,
           x.platform \in {"none", site[s].platform},
           x.id = 0 => x.platform = "none",
           x.approved /\ ~site[s].approved =>
               \E r \in pbnLock : /\ req[r].made = {}
                                  /\ \A t \in Sites : <<s, t>> \in Same => ~Client(site[t]),
           ~x.quarantined => k <= x.failures /\ k < Threshold
    PROVE  PoolInv'
<1>1. /\ PoolTypes /\ OneHolder /\ UploadsAreSafe /\ InsertsApart /\ ApprovalsAreSafe
      /\ NoPrivateNetwork /\ FailuresCounted
    BY DEF PoolInv
<1>2. /\ site'[s] = x /\ \A t \in Sites \ {s} : site'[t] = site[t]
      /\ streak'[s] = k /\ \A t \in Sites \ {s} : streak'[t] = streak[t]
    BY <1>1 DEF PoolTypes
<1>3. NoRequest.at = "idle" /\ NoRequest.made = {}
    BY DEF NoRequest
<1>4. \A t \in Sites : Client(site'[t]) => Client(site[t])
    BY <1>2 DEF Client
<1>5. \A t \in Sites : Pool(site'[t]) => Pool(site[t])
    BY <1>2 DEF Pool
<1>6. OneHolder'
    BY <1>1 DEF OneHolder
<1>7. UploadsAreSafe'
    <2> SUFFICES ASSUME NEW p \in Requests, NEW row \in req'[p].made
                 PROVE  /\ site'[row[1]].id = 0
                        /\ Client([platform |-> row[2]]) =>
                                /\ p \in pbnLock'
                                /\ \A t \in Sites : <<row[1], t>> \in Same =>
                                      ~(Pool(site'[t]) /\ site'[t].approved)
        BY <1>1, <1>3 DEF UploadsAreSafe
    <2>1. row \in req[p].made /\ (p \in pbnLock => p \in pbnLock')
        BY <1>3
    <2>2. row[1] \in Sites
        BY <1>1, <2>1 DEF PoolTypes, SiteRequests, UploadRows
    <2>3. site'[row[1]].id = 0
        <3>1. site[row[1]].id = 0
            BY <1>1, <2>1 DEF UploadsAreSafe
        <3> QED BY <1>2, <2>2, <3>1
    <2>4. ASSUME Client([platform |-> row[2]]), NEW t \in Sites, <<row[1], t>> \in Same,
                 Pool(site'[t]), site'[t].approved
          PROVE  FALSE
        <3>1. p \in pbnLock /\ ~(Pool(site[t]) /\ site[t].approved)
            BY <1>1, <2>1, <2>4 DEF UploadsAreSafe
        <3>2. t = s /\ x.approved /\ ~site[s].approved
            BY <1>2, <1>5, <2>4, <3>1
        <3>3. req[p].made = {}
            BY <1>1, <3>1, <3>2 DEF OneHolder
        <3> QED BY <2>1, <3>3
    <2> QED BY <1>1, <2>1, <2>3, <2>4 DEF UploadsAreSafe
<1>8. InsertsApart'
    BY <1>1, <1>3 DEF InsertsApart
<1>9. ApprovalsAreSafe'
    BY <1>1, <1>3, <1>4 DEF ApprovalsAreSafe
<1>10. NoPrivateNetwork'
    <2> SUFFICES ASSUME NEW u \in Sites, NEW t \in Sites, Client(site'[u]), Pool(site'[t]),
                        site'[t].approved, <<u, t>> \in Same
                 PROVE  FALSE
        BY DEF NoPrivateNetwork
    <2>1. Client(site[u]) /\ Pool(site[t])
        BY <1>4, <1>5
    <2>2. ~site[t].approved
        BY <1>1, <2>1 DEF NoPrivateNetwork
    <2>3. t = s /\ x.approved
        BY <1>2, <2>2
    <2>4. <<s, u>> \in Same
        BY <2>3, PoolAssumptions
    <2> QED BY <2>1, <2>2, <2>3, <2>4
<1>11. FailuresCounted'
    <2>1. \A c \in Crawlers : crawl'[c].at = "fetch" => crawl'[c].on \in Sites /\ crawl'[c].id >= 1
        BY <1>1 DEF FailuresCounted
    <2>2. \A t \in Sites :
            /\ site'[t].id = 0 => streak'[t] = 0 /\ ~Client(site'[t]) /\ ~Pool(site'[t])
            /\ ~site'[t].quarantined => streak'[t] <= site'[t].failures /\ streak'[t] < Threshold
        BY <1>1, <1>2 DEF FailuresCounted, Client, Pool
    <2> QED BY <2>1, <2>2 DEF FailuresCounted
<1> QED BY <1>1, <1>6, <1>7, <1>8, <1>9, <1>10, <1>11 DEF PoolInv

LEMMA WriteKeeps ==
    ASSUME PoolInv, NEW r \in Requests, Write(r)
    PROVE  PoolInv'
<1> DEFINE s == req[r].on
           old == req[r].seen
<1>1. /\ PoolTypes /\ OneHolder /\ UploadsAreSafe /\ InsertsApart /\ ApprovalsAreSafe
      /\ NoPrivateNetwork /\ FailuresCounted
    BY DEF PoolInv
<1>2. /\ req[r].at = "write" /\ pbnLock' = pbnLock \ {r}
      /\ req' = [req EXCEPT ![r] = NoRequest] /\ UNCHANGED <<crawl, calls>>
    BY DEF Write, Done
<1>3. s \in Sites /\ req[r].made = {} /\ old \in SiteRows /\ site[s] \in SiteRows /\ streak[s] \in Nat
    BY <1>1, <1>2 DEF PoolTypes, UploadsAreSafe, ApprovalsAreSafe, SiteRequests
<1>4. \A q \in Requests : \/ req'[q] = req[q] /\ (q \in pbnLock => q \in pbnLock')
                          \/ req'[q] = NoRequest
    BY <1>1, <1>2 DEF PoolTypes
<1>5. /\ site[s].id = 0 => streak[s] = 0 /\ site[s].platform = "none"
      /\ ~site[s].quarantined => streak[s] <= site[s].failures /\ streak[s] < Threshold
    BY <1>1, <1>3 DEF FailuresCounted, Client, Pool, SiteRows, Platforms
<1> HIDE DEF s, old
<1>6. ASSUME NEW x \in SiteRows, NEW k \in Nat,
             site' = [site EXCEPT ![s] = x], streak' = [streak EXCEPT ![s] = k],
             x.id \in {0, site[s].id}, x.id = 0 => k = 0,
             x.platform \in {"none", site[s].platform},
             x.id = 0 => x.platform = "none",
             x.approved /\ ~site[s].approved =>
                 \E q \in pbnLock : /\ req[q].made = {}
                                    /\ \A t \in Sites : <<s, t>> \in Same => ~Client(site[t]),
             ~x.quarantined => k <= x.failures /\ k < Threshold
      PROVE  PoolInv'
    <2>1. PoolTypes'
        BY <1>1, <1>2, <1>3, <1>6, NoRequestTyped DEF PoolTypes
    <2> QED BY <1>2, <1>3, <1>4, <1>6, <2>1, RowWritten
<1> DEFINE approved == Rewritten(old.approved, TRUE, site[s].approved)
           dropped == Rewritten(old.approved, FALSE, site[s].approved)
           failures == Rewritten(old.failures, 0, site[s].failures)
           held == Rewritten(old.quarantined, FALSE, site[s].quarantined)
<1>7. approved \in BOOLEAN /\ dropped \in BOOLEAN /\ held \in BOOLEAN /\ failures \in Nat
    BY <1>3 DEF Rewritten, SiteRows
<1>8. CASE /\ req[r].op = "approve"
           /\ site' = [site EXCEPT ![s].approved = approved]
           /\ UNCHANGED streak
    <2> DEFINE x == [site[s] EXCEPT !.approved = approved]
    <2>1. site' = [site EXCEPT ![s] = x] /\ streak' = [streak EXCEPT ![s] = streak[s]]
        BY <1>1, <1>3, <1>8 DEF PoolTypes
    <2> HIDE DEF approved
    <2>2. /\ x \in SiteRows /\ x.id = site[s].id /\ x.platform = site[s].platform
          /\ x.quarantined = site[s].quarantined /\ x.failures = site[s].failures
        BY <1>3, <1>7 DEF SiteRows
    <2>3. r \in pbnLock /\ \A t \in Sites : <<s, t>> \in Same => ~Client(site[t])
        BY <1>1, <1>2, <1>8 DEF ApprovalsAreSafe, s
    <2> HIDE DEF x
    <2> QED BY <1>3, <1>5, <1>6, <2>1, <2>2, <2>3
<1>9. CASE site' = [site EXCEPT ![s].approved = dropped] /\ UNCHANGED streak
    <2> DEFINE x == [site[s] EXCEPT !.approved = dropped]
    <2>1. site' = [site EXCEPT ![s] = x] /\ streak' = [streak EXCEPT ![s] = streak[s]]
        BY <1>1, <1>3, <1>9 DEF PoolTypes
    <2>2. dropped => site[s].approved
        BY DEF Rewritten
    <2> HIDE DEF dropped
    <2>3. /\ x \in SiteRows /\ x.id = site[s].id /\ x.platform = site[s].platform
          /\ x.quarantined = site[s].quarantined /\ x.failures = site[s].failures
          /\ x.approved = dropped
        BY <1>3, <1>7 DEF SiteRows
    <2> HIDE DEF x
    <2> QED BY <1>3, <1>5, <1>6, <2>1, <2>2, <2>3
<1>10. CASE /\ site' = [site EXCEPT ![s] = [site[s] EXCEPT !.failures = failures, !.quarantined = held]]
            /\ streak' = [streak EXCEPT ![s] = 0]
    <2> DEFINE x == [site[s] EXCEPT !.failures = failures, !.quarantined = held]
    <2>1. site' = [site EXCEPT ![s] = x]
        BY <1>10
    <2> HIDE DEF failures, held
    <2>2. /\ x \in SiteRows /\ x.id = site[s].id /\ x.platform = site[s].platform
          /\ x.approved = site[s].approved
        BY <1>3, <1>7 DEF SiteRows
    <2> HIDE DEF x
    <2>3. 0 <= x.failures /\ 0 < Threshold
        BY <2>2, PoolAssumptions DEF SiteRows
    <2> QED BY <1>5, <1>6, <1>10, <2>1, <2>2, <2>3
<1>11. CASE site' = [site EXCEPT ![s] = NoRow] /\ streak' = [streak EXCEPT ![s] = 0]
    <2>1. NoRow.id = 0 /\ NoRow.platform = "none" /\ ~NoRow.approved /\ NoRow.failures = 0
        BY DEF NoRow
    <2>2. 0 \in Nat /\ 0 <= NoRow.failures /\ 0 < Threshold /\ NoRow \in SiteRows
        BY <2>1, NoRequestTyped, PoolAssumptions
    <2> QED BY <1>6, <1>11, <2>1, <2>2
<1>12. \/ /\ req[r].op = "approve"
          /\ site' = [site EXCEPT ![s].approved = approved]
          /\ UNCHANGED streak
       \/ site' = [site EXCEPT ![s].approved = dropped] /\ UNCHANGED streak
       \/ /\ site' = [site EXCEPT ![s] = [site[s] EXCEPT !.failures = failures, !.quarantined = held]]
          /\ streak' = [streak EXCEPT ![s] = 0]
       \/ site' = [site EXCEPT ![s] = NoRow] /\ streak' = [streak EXCEPT ![s] = 0]
    BY ZenonT(60) DEF Write, s, old
<1> QED BY <1>8, <1>9, <1>10, <1>11, <1>12

LEMMA CrawlStartKeeps ==
    ASSUME PoolInv, NEW c \in Crawlers, NEW s \in Sites, CrawlStart(c, s)
    PROVE  PoolInv'
<1> USE DEF PoolInv
<1> DEFINE k == [at |-> "fetch", on |-> s, id |-> site[s].id]
<1>1. /\ Fetchable(site[s], s) /\ NewCall /\ crawl' = [crawl EXCEPT ![c] = k]
      /\ UNCHANGED <<site, req, pbnLock, targets, streak>>
    BY DEF CrawlStart
<1>2. site[s].id \in Nat /\ site[s].id >= 1
    <2>1. site[s].id \in Nat
        BY DEF PoolTypes, SiteRows
    <2> QED BY <1>1, <2>1 DEF Fetchable, FailuresCounted
<1>3. k \in PoolCrawls /\ k.on \in Sites /\ k.id >= 1
    BY <1>2 DEF PoolCrawls
<1> HIDE DEF k
<1>4. calls' \in Nat /\ calls' >= calls
    BY <1>1 DEF NewCall, PoolTypes
<1>5. PoolTypes'
    BY <1>1, <1>3, <1>4 DEF PoolTypes
<1>6. OneHolder' /\ InsertsApart' /\ ApprovalsAreSafe' /\ NoPrivateNetwork'
    BY <1>1 DEF OneHolder, InsertsApart, ApprovalsAreSafe, NoPrivateNetwork
<1>7. UploadsAreSafe'
    BY <1>1, <1>4 DEF UploadsAreSafe, PoolTypes
<1>8. FailuresCounted'
    BY <1>1, <1>3 DEF FailuresCounted, PoolTypes
<1> QED BY <1>5, <1>6, <1>7, <1>8

LEMMA CrawlKeeps ==
    ASSUME PoolInv, NEW c \in Crawlers, CrawlSucceeds(c) \/ CrawlFails(c) \/ CrawlGone(c) \/ CrawlUnrecorded(c)
    PROVE  PoolInv'
<1> DEFINE s == crawl[c].on
<1>1. PoolTypes /\ FailuresCounted /\ crawl[c].at = "fetch"
    BY DEF PoolInv, CrawlSucceeds, CrawlFails, CrawlGone, CrawlUnrecorded
<1>2. /\ crawl' = [crawl EXCEPT ![c] = NoCrawl] /\ NoCrawl \in PoolCrawls
      /\ NoCrawl.at = "idle" /\ UNCHANGED <<req, pbnLock, calls>>
    BY DEF CrawlSucceeds, CrawlFails, CrawlGone, CrawlUnrecorded, CrawlEnd, NoCrawl, PoolCrawls
<1>3. /\ crawl' \in [Crawlers -> PoolCrawls]
      /\ \A d \in Crawlers : crawl'[d] = crawl[d] \/ crawl'[d].at = "idle"
    BY <1>1, <1>2 DEF PoolTypes
<1>4. /\ s \in Sites /\ site[s] \in SiteRows /\ streak[s] \in Nat /\ site[s].failures \in Nat
      /\ site[s].id = 0 => streak[s] = 0 /\ site[s].platform = "none"
      /\ ~site[s].quarantined => streak[s] <= site[s].failures /\ streak[s] < Threshold
      /\ crawl[c].id >= 1
    BY <1>1 DEF FailuresCounted, PoolTypes, Client, Pool, SiteRows, Platforms
<1> HIDE DEF s
<1>5. ASSUME NEW x \in SiteRows, NEW k \in Nat,
             site' = [site EXCEPT ![s] = x], streak' = [streak EXCEPT ![s] = k],
             x.id = site[s].id, x.platform = site[s].platform, x.id = 0 => k = 0,
             x.approved = site[s].approved,
             ~x.quarantined => k <= x.failures /\ k < Threshold
      PROVE  PoolInv'
    <2>1. PoolTypes'
        BY <1>1, <1>2, <1>3, <1>4, <1>5 DEF PoolTypes
    <2> QED BY <1>2, <1>3, <1>4, <1>5, <2>1, RowWritten
<1>6. CASE CrawlSucceeds(c)
    <2> DEFINE x == [site[s] EXCEPT !.failures = 0]
    <2>1. site' = [site EXCEPT ![s] = x] /\ streak' = [streak EXCEPT ![s] = 0]
        BY <1>6 DEF CrawlSucceeds, s
    <2>2. /\ x \in SiteRows /\ x.id = site[s].id /\ x.platform = site[s].platform
          /\ x.approved = site[s].approved /\ x.failures = 0
        BY <1>4 DEF SiteRows
    <2> HIDE DEF x
    <2>3. 0 <= x.failures /\ 0 < Threshold /\ 0 \in Nat
        BY <2>2, PoolAssumptions
    <2> QED BY <1>5, <2>1, <2>2, <2>3
<1>7. CASE CrawlFails(c)
    <2> DEFINE n == site[s].failures + 1
               held == site[s].quarantined \/ ShouldQuarantine(n)
               x == [site[s] EXCEPT !.failures = n, !.quarantined = held]
    <2>1. /\ site[s].id = crawl[c].id
          /\ site' = [site EXCEPT ![s].failures = n, ![s].quarantined = @ \/ ShouldQuarantine(n)]
          /\ streak' = [streak EXCEPT ![s] = @ + 1]
        BY <1>7 DEF CrawlFails, s
    <2>2. streak' = [streak EXCEPT ![s] = streak[s] + 1] /\ streak[s] + 1 \in Nat
        BY <1>4, <2>1
    <2>3. n \in Nat /\ (ShouldQuarantine(n) <=> n >= Threshold)
        BY <1>4 DEF ShouldQuarantine
    <2>4. site' = [site EXCEPT ![s] = x]
        BY <1>1, <1>4, <2>1, Zenon DEF PoolTypes
    <2> HIDE DEF n
    <2>5. held \in BOOLEAN
        OBVIOUS
    <2> HIDE DEF held
    <2>6. /\ x \in SiteRows /\ x.id = site[s].id /\ x.platform = site[s].platform
          /\ x.approved = site[s].approved /\ x.failures = n /\ x.quarantined = held
        BY <1>4, <2>3, <2>5 DEF SiteRows
    <2> HIDE DEF x
    <2>7. ~held => ~site[s].quarantined /\ ~ShouldQuarantine(n)
        BY DEF held
    <2>8. ASSUME ~held PROVE streak[s] + 1 <= n /\ streak[s] + 1 < Threshold
        BY <1>4, <2>3, <2>7, <2>8, PoolAssumptions DEF n
    <2>9. x.id # 0
        BY <1>1, <1>4, <2>1, <2>6 DEF PoolTypes, PoolCrawls
    <2> QED BY <1>5, <2>2, <2>4, <2>6, <2>8, <2>9
<1>8. CASE CrawlGone(c) \/ CrawlUnrecorded(c)
    <2>1. site' = site /\ streak' = streak
        BY <1>8 DEF CrawlGone, CrawlUnrecorded
    <2>2. PoolTypes'
        BY <1>1, <1>2, <1>3, <2>1 DEF PoolTypes
    <2>3. OneHolder' /\ UploadsAreSafe' /\ InsertsApart' /\ ApprovalsAreSafe' /\ NoPrivateNetwork'
        BY <1>2, <2>1 DEF PoolInv, OneHolder, UploadsAreSafe, InsertsApart, ApprovalsAreSafe,
                          NoPrivateNetwork
    <2>4. FailuresCounted'
        BY <1>1, <1>3, <2>1 DEF FailuresCounted
    <2> QED BY <2>2, <2>3, <2>4 DEF PoolInv
<1> QED BY <1>6, <1>7, <1>8

LEMMA PoolInductive == PoolInv /\ [PoolNext]_poolVars => PoolInv'
<1> SUFFICES ASSUME PoolInv, [PoolNext]_poolVars PROVE PoolInv'
    OBVIOUS
<1>1. ASSUME UNCHANGED <<site, req, pbnLock, crawl, streak, calls>>
      PROVE  PoolInv'
    BY <1>1 DEF PoolInv, PoolTypes, OneHolder, UploadsAreSafe, InsertsApart, ApprovalsAreSafe,
                NoPrivateNetwork, FailuresCounted
<1>2. ASSUME NEW r \in Requests, NEW rows \in Uploads, Upload(r, rows) PROVE PoolInv'
    BY <1>2, UploadKeeps
<1>3. ASSUME NEW r \in Requests, NEW s \in Sites,
             NEW op \in {"approve", "revoke", "reactivate", "delete"}, Load(r, op, s)
      PROVE  PoolInv'
    BY <1>3, LoadKeeps
<1>4. ASSUME NEW r \in Requests,
             \/ UploadRow(r) \/ UploadCommit(r) \/ DeadlockAbort(r)
             \/ ApproveCheck(r) \/ ApproveRefused(r) \/ Write(r) \/ WriteNothing(r)
      PROVE  PoolInv'
    <2>1. CASE DeadlockAbort(r) \/ WriteNothing(r)
        BY <2>1, RequestEnds DEF DeadlockAbort, WriteNothing
    <2>2. CASE ApproveRefused(r)
        BY <2>2, RequestEnds DEF ApproveRefused
    <2> QED BY <1>4, <2>1, <2>2, UploadRowKeeps, UploadCommitKeeps, ApproveCheckKeeps, WriteKeeps
<1>5. ASSUME NEW c \in Crawlers, NEW s \in Sites, CrawlStart(c, s) PROVE PoolInv'
    BY <1>5, CrawlStartKeeps
<1>6. ASSUME NEW c \in Crawlers, CrawlSucceeds(c) \/ CrawlFails(c) \/ CrawlGone(c) \/ CrawlUnrecorded(c)
      PROVE  PoolInv'
    BY <1>6, CrawlKeeps
<1>7. ASSUME NEW s \in Sites, Target(s) PROVE PoolInv'
    BY <1>1, <1>7 DEF Target
<1> QED BY <1>1, <1>2, <1>3, <1>4, <1>5, <1>6, <1>7 DEF PoolNext, poolVars

LEMMA PoolInvariant == PoolSpec => []PoolInv
BY PoolInitially, PoolInductive, PTL DEF PoolSpec

\* The PBN rule of pool_source_policy.py for every set of sites, every relation
\* "on one property" and every number of concurrent requests: no committed
\* client shares its property with a committed, approved source.
THEOREM NeverAPrivateNetwork == PoolSpec => []NoPrivateNetwork
<1>1. PoolInv => NoPrivateNetwork
    BY DEF PoolInv
<1> QED BY <1>1, PoolInvariant, PTL

\* ingest_pool_site and the reactivation route lose no recorded failure, for
\* every threshold and every number of jobs in flight: Threshold of them in a
\* row leave the source quarantined.
THEOREM FailuresAlwaysQuarantine == PoolSpec => []FailuresQuarantine
<1>1. PoolInv => FailuresQuarantine
    BY PoolAssumptions DEF PoolInv, FailuresCounted, FailuresQuarantine, PoolTypes
<1> QED BY <1>1, PoolInvariant, PTL

-----------------------------------------------------------------------------
(* Dashboard accounts: the inductive invariant.                            *)

Statuses == {"none", "pending", "approved", "revoked"}
Members == [status : Statuses, admin : BOOLEAN]
Anyone == People \cup {Nobody}
NonceStates == {"none", "live", "lapsed", "spent", "deleted"}
SessionRows == [owner : Anyone, from : Nat, revoked : BOOLEAN, lapsed : BOOLEAN]
VisitRecords == [at : {"idle", "spend", "purge", "slide", "act"}, code : Nat, session : Nat,
                 who : Anyone, target : Anyone, op : Ops \cup {"none"}, seen : Members]

AccessTypes ==
    /\ member \in [People -> Members]
    /\ nonce \in [Codes -> [owner : Anyone, state : NonceStates]]
    /\ sess \in [SessionIds -> SessionRows]
    /\ bot \in [at : {"poll", "update", "boot"}, who : Anyone, seen : Members]
    /\ visit \in [Browsers -> VisitRecords]

\* A code that opened a session is used up; a code that was sent has an owner;
\* a token not issued yet is not revoked.
CodesUsedUp ==
    /\ \A i \in Issued : /\ sess[i].from \in Codes
                         /\ nonce[sess[i].from].state \in {"spent", "deleted"}
    /\ \A c \in Codes : nonce[c].state # "none" => nonce[c].owner \in People
    /\ \A i \in SessionIds : sess[i].owner = Nobody => ~sess[i].revoked

\* What a request has in hand when it is at each of its steps.
VisitsInHand ==
    \A b \in Browsers :
        /\ visit[b].at = "spend" => visit[b].code \in Codes /\ visit[b].who \in People
        /\ visit[b].at = "slide" => /\ visit[b].session \in SessionIds /\ visit[b].op \in Ops
                                    /\ visit[b].who \in People /\ visit[b].target \in People
        /\ visit[b].at = "act" => /\ visit[b].target \in People /\ visit[b].op \in Ops \ {"read"}
                                  /\ member[visit[b].target].status # "none"

NotAdmitted(m) == m.status \in {"none", "pending"}

\* The bot alone makes accounts, so what it read of a missing one still holds.
BotInHand ==
    /\ bot.at = "update" =>
        /\ bot.who \in People /\ Codes \ Drawn # {}
        /\ bot.seen.status = "none" => member[bot.who].status = "none"
    /\ bot.at = "boot" => (NotAdmitted(bot.seen) <=> NotAdmitted(member[BootstrapId]))

\* Until the bootstrap admin is admitted nobody is: no code, no session and no
\* request exists, so nobody can act on the account the start-up has just read.
NobodyBeforeBoot ==
    NotAdmitted(member[BootstrapId]) =>
        /\ \A p \in People : NotAdmitted(member[p])
        /\ \A c \in Codes : nonce[c].state = "none"
        /\ \A i \in SessionIds : sess[i].owner = Nobody
        /\ \A b \in Browsers : visit[b].at = "idle"
        /\ bot.at = "update" => NotAdmitted(bot.seen)

AccessInv ==
    /\ AccessTypes
    /\ CodesUsedUp
    /\ OneSessionPerCode
    /\ VisitsInHand
    /\ BotInHand
    /\ NobodyBeforeBoot

LEMMA FirstIsOne ==
    ASSUME NEW S, S \subseteq Nat, S # {}
    PROVE  First(S) \in S
<1> DEFINE R == OpToRel(<, Nat)
<1>1. IsWellFoundedOn(R, Nat)
    BY NatLessThanWellFounded
<1>2. R = {ss \in Nat \X Nat : ss[1] < ss[2]}
    BY DEF OpToRel
<1> HIDE DEF R
<1>3. PICK x \in S : \A y \in S : ~(<<y, x>> \in R)
    BY <1>1, WFMin
<1>4. \A y \in S : x <= y
    <2> SUFFICES ASSUME NEW y \in S, y < x PROVE FALSE
        OBVIOUS
    <2>1. <<y, x>> \in Nat \X Nat /\ <<y, x>>[1] < <<y, x>>[2]
        OBVIOUS
    <2> QED BY <1>2, <1>3, <2>1
<1> QED BY <1>4 DEF First

LEMMA AccessInitially == AccessInit => AccessInv
<1> SUFFICES ASSUME AccessInit PROVE AccessInv
    OBVIOUS
<1> USE DEF AccessInit
<1>1. Absent \in Members /\ NoVisit \in VisitRecords /\ NoSession \in SessionRows
    BY DEF Absent, Members, Statuses, NoVisit, VisitRecords, Anyone, Ops, NoSession, SessionRows
<1>2. AccessTypes
    BY <1>1 DEF AccessTypes, NoNonce, NonceStates, Anyone, NoUpdate
<1>3. CodesUsedUp /\ OneSessionPerCode
    BY DEF CodesUsedUp, OneSessionPerCode, Issued, NoSession, NoNonce
<1>4. VisitsInHand /\ BotInHand
    BY DEF VisitsInHand, BotInHand, NoVisit, NoUpdate
<1>5. NobodyBeforeBoot
    BY DEF NobodyBeforeBoot, NotAdmitted, Absent, NoNonce, NoSession, NoVisit, NoUpdate
<1> QED BY <1>2, <1>3, <1>4, <1>5 DEF AccessInv

LEMMA BotReadKeeps ==
    ASSUME AccessInv, NEW p \in People, BotRead(p)
    PROVE  AccessInv'
<1> USE DEF AccessInv
<1>1. /\ Codes \ Drawn # {} /\ bot' = [at |-> "update", who |-> p, seen |-> member[p]]
      /\ UNCHANGED <<member, nonce, sess, visit, visits, lapses>>
    BY DEF BotRead
<1>2. AccessTypes'
    BY <1>1 DEF AccessTypes, Anyone
<1>3. CodesUsedUp' /\ OneSessionPerCode' /\ VisitsInHand'
    BY <1>1 DEF CodesUsedUp, OneSessionPerCode, Issued, VisitsInHand
<1>4. BotInHand' /\ NobodyBeforeBoot'
    BY <1>1 DEF BotInHand, Drawn, NobodyBeforeBoot
<1> QED BY <1>2, <1>3, <1>4

LEMMA BootReadKeeps ==
    ASSUME AccessInv, BootRead
    PROVE  AccessInv'
<1> USE DEF AccessInv
<1>1. /\ bot' = [at |-> "boot", who |-> BootstrapId, seen |-> member[BootstrapId]]
      /\ UNCHANGED <<member, nonce, sess, visit, visits, lapses>>
    BY DEF BootRead
<1>2. AccessTypes'
    BY <1>1, AccessAssumptions DEF AccessTypes, Anyone
<1>3. CodesUsedUp' /\ OneSessionPerCode' /\ VisitsInHand'
    BY <1>1 DEF CodesUsedUp, OneSessionPerCode, Issued, VisitsInHand
<1>4. BotInHand' /\ NobodyBeforeBoot'
    BY <1>1 DEF BotInHand, NobodyBeforeBoot
<1> QED BY <1>2, <1>3, <1>4

LEMMA NoUpdateTyped ==
    /\ NoUpdate \in [at : {"poll", "update", "boot"}, who : Anyone, seen : Members]
    /\ NoUpdate.at = "poll"
BY DEF NoUpdate, Anyone, Members, Absent, Statuses

LEMMA BotWriteKeeps ==
    ASSUME AccessInv, BotWrite
    PROVE  AccessInv'
<1>1. /\ AccessTypes /\ CodesUsedUp /\ OneSessionPerCode /\ VisitsInHand /\ BotInHand
      /\ NobodyBeforeBoot
    BY DEF AccessInv
<1>2. bot.at = "update" /\ bot' = NoUpdate /\ UNCHANGED <<sess, visit, visits, lapses>>
    BY DEF BotWrite
<1>3. /\ bot.who \in People /\ Codes \ Drawn # {}
      /\ bot.seen.status = "none" => member[bot.who].status = "none"
    BY <1>1, <1>2 DEF BotInHand
<1>4. BotInHand'
    BY <1>2, NoUpdateTyped DEF BotInHand
<1>5. CASE /\ bot.seen.status = "none" /\ UNCHANGED nonce
           /\ member' = [member EXCEPT ![bot.who] = [status |-> "pending", admin |-> FALSE]]
    <2>1. [status |-> "pending", admin |-> FALSE] \in Members
        BY DEF Members, Statuses
    <2>2. AccessTypes'
        BY <1>1, <1>2, <1>5, <2>1, NoUpdateTyped DEF AccessTypes
    <2>3. CodesUsedUp' /\ OneSessionPerCode'
        BY <1>1, <1>2, <1>5 DEF CodesUsedUp, OneSessionPerCode, Issued
    <2>4. member'[bot.who].status = "pending" /\ \A p \in People \ {bot.who} : member'[p] = member[p]
        BY <1>1, <1>3, <1>5 DEF AccessTypes
    <2>5. VisitsInHand'
        BY <1>1, <1>2, <1>3, <2>4 DEF VisitsInHand
    <2>6. NobodyBeforeBoot'
        BY <1>1, <1>2, <1>3, <1>5, <2>4, NoUpdateTyped, AccessAssumptions
           DEF NobodyBeforeBoot, NotAdmitted
    <2> QED BY <1>4, <2>2, <2>3, <2>5, <2>6 DEF AccessInv
<1>6. CASE /\ bot.seen.status = "approved" /\ UNCHANGED member
           /\ nonce' = [ConsumeNonces(bot.who) EXCEPT
                           ![First(Codes \ Drawn)] = [owner |-> bot.who, state |-> "live"]]
    <2> DEFINE f == First(Codes \ Drawn)
               was == ConsumeNonces(bot.who)
    <2>1. f \in Codes /\ nonce[f].state = "none"
        BY <1>3, AccessAssumptions, FirstIsOne DEF Drawn
    <2> HIDE DEF f
    <2>2. ASSUME NEW c \in Codes
          PROVE  /\ was[c] \in [owner : Anyone, state : NonceStates]
                 /\ was[c].owner = nonce[c].owner
                 /\ was[c].state \in {nonce[c].state, "spent"}
                 /\ nonce[c].owner = bot.who => was[c].state # "live"
                 /\ nonce[c].state = "none" => was[c].state = "none"
                 /\ nonce[c].state \in {"spent", "deleted"} => was[c].state \in {"spent", "deleted"}
        <3>1. nonce[c] \in [owner : Anyone, state : NonceStates]
            BY <1>1 DEF AccessTypes
        <3>2. was[c] = IF nonce[c].owner = bot.who /\ nonce[c].state \in {"live", "lapsed"}
                       THEN [nonce[c] EXCEPT !.state = "spent"] ELSE nonce[c]
            BY DEF ConsumeNonces
        <3> QED BY <3>1, <3>2 DEF NonceStates
    <2>3. was \in [Codes -> [owner : Anyone, state : NonceStates]]
        BY <2>2 DEF ConsumeNonces
    <2> HIDE DEF was
    <2>4. nonce' = [was EXCEPT ![f] = [owner |-> bot.who, state |-> "live"]]
        BY <1>6 DEF f, was
    <2>5. nonce'[f] = [owner |-> bot.who, state |-> "live"] /\ \A c \in Codes \ {f} : nonce'[c] = was[c]
        BY <2>1, <2>3, <2>4
    <2>6. [owner |-> bot.who, state |-> "live"] \in [owner : Anyone, state : NonceStates]
        BY <1>3 DEF Anyone, NonceStates
    <2>7. nonce' \in [Codes -> [owner : Anyone, state : NonceStates]]
        BY <2>3, <2>4, <2>6
    <2>8. AccessTypes'
        BY <1>1, <1>2, <1>6, <2>7, NoUpdateTyped DEF AccessTypes
    <2>9. CodesUsedUp'
        <3>1. ASSUME NEW i \in Issued
              PROVE  sess[i].from \in Codes /\ nonce'[sess[i].from].state \in {"spent", "deleted"}
            <4>1. sess[i].from \in Codes /\ nonce[sess[i].from].state \in {"spent", "deleted"}
                BY <1>1 DEF CodesUsedUp
            <4>2. sess[i].from # f
                BY <2>1, <4>1
            <4> QED BY <2>2, <2>5, <4>1, <4>2
        <3>2. ASSUME NEW c \in Codes, nonce'[c].state # "none"
              PROVE  nonce'[c].owner \in People
            <4>1. CASE c = f
                BY <1>3, <2>5, <4>1
            <4>2. CASE c # f
                <5>1. nonce[c].state # "none" /\ nonce'[c].owner = nonce[c].owner
                    BY <2>2, <2>5, <3>2, <4>2
                <5> QED BY <1>1, <5>1 DEF CodesUsedUp
            <4> QED BY <4>1, <4>2
        <3> QED BY <1>1, <1>2, <3>1, <3>2 DEF CodesUsedUp, Issued
    <2>10. OneSessionPerCode'
        <3>1. \A i, j \in Issued' : sess'[i].from = sess'[j].from => i = j
            BY <1>1, <1>2 DEF OneSessionPerCode, Issued
        <3>2. ASSUME NEW c \in Codes, NEW d \in Codes, nonce'[c].state = "live",
                     nonce'[d].state = "live", nonce'[c].owner = nonce'[d].owner, c # d
              PROVE  FALSE
            <4>1. \A e \in Codes \ {f} : nonce'[e].state = "live" =>
                       /\ nonce'[e].owner = nonce[e].owner /\ nonce[e].state = "live"
                       /\ nonce[e].owner # bot.who
                BY <2>2, <2>5
            <4>2. CASE c # f /\ d # f
                BY <1>1, <3>2, <4>1, <4>2 DEF OneSessionPerCode
            <4>3. CASE c = f \/ d = f
                BY <2>5, <3>2, <4>1, <4>3
            <4> QED BY <4>2, <4>3
        <3> QED BY <3>1, <3>2 DEF OneSessionPerCode
    <2>11. VisitsInHand'
        BY <1>1, <1>2, <1>6 DEF VisitsInHand
    <2>12. NobodyBeforeBoot'
        BY <1>1, <1>2, <1>6 DEF NobodyBeforeBoot, NotAdmitted
    <2> QED BY <1>4, <2>8, <2>9, <2>10, <2>11, <2>12 DEF AccessInv
<1>7. CASE UNCHANGED <<member, nonce>>
    <2>1. AccessTypes'
        BY <1>1, <1>2, <1>7, NoUpdateTyped DEF AccessTypes
    <2>2. CodesUsedUp' /\ OneSessionPerCode' /\ VisitsInHand'
        BY <1>1, <1>2, <1>7 DEF CodesUsedUp, OneSessionPerCode, Issued, VisitsInHand
    <2>3. NobodyBeforeBoot'
        BY <1>1, <1>2, <1>7, NoUpdateTyped DEF NobodyBeforeBoot
    <2> QED BY <1>4, <2>1, <2>2, <2>3 DEF AccessInv
<1> QED BY <1>5, <1>6, <1>7 DEF BotWrite

LEMMA BootWriteKeeps ==
    ASSUME AccessInv, BootWrite
    PROVE  /\ AccessInv'
           /\ \A p \in People : member[p].status = "revoked" => member'[p].status = "revoked"
<1> DEFINE m == member[BootstrapId]
           status == IF BootAdmits(bot.seen) THEN "approved" ELSE m.status
           admin == m.admin \/ (bot.seen.status # "revoked" /\ ~bot.seen.admin)
           n == [m EXCEPT !.status = status, !.admin = admin]
<1>1. /\ AccessTypes /\ CodesUsedUp /\ OneSessionPerCode /\ VisitsInHand /\ BotInHand
      /\ NobodyBeforeBoot
    BY DEF AccessInv
<1>2. /\ bot.at = "boot" /\ bot' = NoUpdate /\ UNCHANGED <<nonce, sess, visit, visits, lapses>>
      /\ BootstrapId \in People
    BY AccessAssumptions DEF BootWrite
<1>3. m \in Members
    BY <1>1, <1>2 DEF AccessTypes
<1>4. member' = [member EXCEPT ![BootstrapId] = n]
    BY <1>1, <1>2, Zenon DEF AccessTypes, BootWrite
<1>5. status \in Statuses /\ (NotAdmitted(bot.seen) => status = "approved")
                          /\ (~NotAdmitted(bot.seen) => status = m.status)
    BY <1>3 DEF Members, Statuses, BootAdmits, NotAdmitted
<1>6. admin \in BOOLEAN
    OBVIOUS
<1> HIDE DEF status, admin
<1>7. n \in Members /\ n.status = status
    BY <1>3, <1>5, <1>6 DEF Members
<1> HIDE DEF n
<1>8. member'[BootstrapId] = n /\ \A p \in People \ {BootstrapId} : member'[p] = member[p]
    BY <1>1, <1>2, <1>4 DEF AccessTypes
<1>9. NotAdmitted(bot.seen) <=> NotAdmitted(m)
    BY <1>1, <1>2 DEF BotInHand
<1>10. ~NotAdmitted(n)
    BY <1>5, <1>7, <1>9 DEF NotAdmitted
<1>11. m.status # "none" => n.status # "none"
    BY <1>10 DEF NotAdmitted
<1>12. AccessTypes'
    BY <1>1, <1>2, <1>4, <1>7, NoUpdateTyped DEF AccessTypes
<1>13. CodesUsedUp' /\ OneSessionPerCode'
    BY <1>1, <1>2 DEF CodesUsedUp, OneSessionPerCode, Issued
<1>14. VisitsInHand'
    BY <1>1, <1>2, <1>8, <1>11 DEF VisitsInHand
<1>15. BotInHand'
    BY <1>2, NoUpdateTyped DEF BotInHand
<1>16. NobodyBeforeBoot'
    BY <1>8, <1>10 DEF NobodyBeforeBoot
<1>17. m.status = "revoked" => n.status = "revoked"
    BY <1>5, <1>7, <1>9 DEF NotAdmitted
<1> QED BY <1>8, <1>12, <1>13, <1>14, <1>15, <1>16, <1>17 DEF AccessInv

\* One request moves on, and changes no account: v is what it has in hand now.
LEMMA VisitStep ==
    ASSUME AccessInv, NEW b \in Browsers, NEW v \in VisitRecords,
           visit' = [visit EXCEPT ![b] = v], UNCHANGED <<member, bot>>,
           AccessTypes', CodesUsedUp', OneSessionPerCode', Drawn \subseteq Drawn', Drawn' \subseteq Drawn,
           v.at = "spend" => v.code \in Codes /\ v.who \in People,
           v.at = "slide" => /\ v.session \in SessionIds /\ v.op \in Ops
                             /\ v.who \in People /\ v.target \in People,
           v.at = "act" => /\ v.target \in People /\ v.op \in Ops \ {"read"}
                           /\ member[v.target].status # "none",
           ~NotAdmitted(member[BootstrapId])
    PROVE  AccessInv'
<1> USE DEF AccessInv
<1>1. visit'[b] = v /\ \A c \in Browsers \ {b} : visit'[c] = visit[c]
    BY DEF AccessTypes
<1>2. VisitsInHand'
    BY <1>1 DEF VisitsInHand
<1>3. BotInHand'
    <2>1. Drawn' = Drawn
        OBVIOUS
    <2> QED BY <2>1 DEF BotInHand
<1>4. NobodyBeforeBoot'
    BY DEF NobodyBeforeBoot
<1> QED BY <1>2, <1>3, <1>4

LEMMA NoVisitTyped == Absent \in Members /\ NoVisit \in VisitRecords /\ NoVisit.at = "idle"
BY DEF Absent, Members, Statuses, NoVisit, VisitRecords, Anyone, Ops

LEMMA RedeemReadKeeps ==
    ASSUME AccessInv, NEW b \in Browsers, NEW c \in Codes, RedeemRead(b, c)
    PROVE  AccessInv'
<1> DEFINE p == nonce[c].owner
           v == [NoVisit EXCEPT !.at = "spend", !.code = c, !.who = p, !.seen = member[p]]
<1>1. AccessTypes /\ CodesUsedUp /\ OneSessionPerCode /\ NobodyBeforeBoot
    BY DEF AccessInv
<1>2. /\ nonce[c].state = "live" /\ visit' = [visit EXCEPT ![b] = v]
      /\ UNCHANGED <<member, nonce, sess, bot, lapses>>
    BY DEF RedeemRead
<1>3. p \in People /\ c \in Nat
    BY <1>1, <1>2, AccessAssumptions DEF CodesUsedUp
<1>4. member[p] \in Members
    BY <1>1, <1>3 DEF AccessTypes
<1> HIDE DEF p
<1>5. v \in VisitRecords /\ v.at = "spend" /\ v.code = c /\ v.who = p
    BY <1>3, <1>4, NoVisitTyped DEF NoVisit, VisitRecords, Anyone
<1> HIDE DEF v
<1>6. AccessTypes'
    BY <1>1, <1>2, <1>5 DEF AccessTypes
<1>7. CodesUsedUp' /\ OneSessionPerCode' /\ Drawn' = Drawn
    BY <1>1, <1>2 DEF CodesUsedUp, OneSessionPerCode, Issued, Drawn
<1>8. ~NotAdmitted(member[BootstrapId])
    BY <1>1, <1>2 DEF NobodyBeforeBoot
<1>9. v.at = "spend" => v.code \in Codes /\ v.who \in People
    BY <1>3, <1>5
<1>10. v.at # "slide" /\ v.at # "act"
    BY <1>5
<1> QED BY <1>2, <1>5, <1>6, <1>7, <1>8, <1>9, <1>10, VisitStep

LEMMA VerifyKeeps ==
    ASSUME AccessInv, NEW b \in Browsers, NEW i \in SessionIds, NEW op \in Ops, NEW t \in People,
           Verify(b, i, op, t)
    PROVE  AccessInv'
<1> DEFINE p == sess[i].owner
           v == [NoVisit EXCEPT !.at = "slide", !.session = i, !.who = p, !.op = op,
                    !.target = t, !.seen = member[p]]
<1>1. AccessTypes /\ CodesUsedUp /\ OneSessionPerCode /\ NobodyBeforeBoot
    BY DEF AccessInv
<1>2. /\ p # Nobody /\ visit' = [visit EXCEPT ![b] = v]
      /\ UNCHANGED <<member, nonce, sess, bot, lapses>>
    BY DEF Verify, Usable
<1>3. p \in People /\ i \in Nat
    BY <1>1, <1>2, AccessAssumptions DEF AccessTypes, SessionRows, Anyone
<1>4. member[p] \in Members
    BY <1>1, <1>3 DEF AccessTypes
<1>5. ~NotAdmitted(member[BootstrapId])
    BY <1>1, <1>2 DEF NobodyBeforeBoot
<1> HIDE DEF p
<1>6. /\ v \in VisitRecords /\ v.at = "slide" /\ v.session = i /\ v.who = p /\ v.op = op
      /\ v.target = t
    BY <1>3, <1>4, NoVisitTyped DEF NoVisit, VisitRecords, Anyone
<1> HIDE DEF v
<1>7. AccessTypes'
    BY <1>1, <1>2, <1>6 DEF AccessTypes
<1>8. CodesUsedUp' /\ OneSessionPerCode' /\ Drawn' = Drawn
    BY <1>1, <1>2 DEF CodesUsedUp, OneSessionPerCode, Issued, Drawn
<1>9. /\ v.session \in SessionIds /\ v.op \in Ops /\ v.who \in People /\ v.target \in People
      /\ v.at # "spend" /\ v.at # "act"
    BY <1>3, <1>6
<1> QED BY <1>2, <1>5, <1>6, <1>7, <1>8, <1>9, VisitStep

\* A code that is spent was unspent before, so it has opened nothing yet, and
\* the token it opens was nobody's.
LEMMA RedeemKeeps ==
    ASSUME AccessInv, NEW b \in Browsers, Redeem(b)
    PROVE  /\ AccessInv'
           /\ \A i \in SessionIds : sess[i].revoked => sess'[i].revoked
<1> DEFINE code == visit[b].code
           who == visit[b].who
           token == First(SessionIds \ Issued)
           spends == Spends(code)
           admitted == spends /\ visit[b].seen.status = "approved"
           new == [NoSession EXCEPT !.owner = who, !.from = code]
           v == IF spends THEN [NoVisit EXCEPT !.at = "purge"] ELSE NoVisit
<1>1. /\ AccessTypes /\ CodesUsedUp /\ OneSessionPerCode /\ VisitsInHand /\ BotInHand
      /\ NobodyBeforeBoot
    BY DEF AccessInv
<1>2. /\ visit[b].at = "spend" /\ SessionIds \ Issued # {}
      /\ nonce' = IF spends THEN [nonce EXCEPT ![code].state = "spent"] ELSE nonce
      /\ sess' = IF admitted THEN [sess EXCEPT ![token] = new] ELSE sess
      /\ visit' = [visit EXCEPT ![b] = v]
      /\ UNCHANGED <<member, bot, visits, lapses>>
    BY DEF Redeem
<1>3. code \in Codes /\ who \in People /\ code \in Nat /\ who # Nobody
    BY <1>1, <1>2, AccessAssumptions DEF VisitsInHand
<1>4. token \in SessionIds /\ sess[token].owner = Nobody /\ ~sess[token].revoked
    <2>1. token \in SessionIds \ Issued
        BY <1>2, AccessAssumptions, FirstIsOne
    <2> QED BY <1>1, <2>1 DEF Issued, CodesUsedUp
<1>5. ~NotAdmitted(member[BootstrapId])
    BY <1>1, <1>2 DEF NobodyBeforeBoot
<1>6. spends <=> nonce[code].state \in {"live", "lapsed"}
    BY DEF Spends
<1> HIDE DEF code, who, token
<1>7. new \in SessionRows /\ new.owner = who /\ new.from = code /\ ~new.revoked
    BY <1>3 DEF NoSession, SessionRows, Anyone
<1>8. v \in VisitRecords /\ v.at \in {"idle", "purge"}
    BY NoVisitTyped DEF NoVisit, VisitRecords
<1>9. ASSUME NEW c \in Codes
      PROVE  /\ nonce'[c] \in [owner : Anyone, state : NonceStates]
             /\ nonce'[c].owner = nonce[c].owner
             /\ \/ nonce'[c].state = nonce[c].state
                \/ c = code /\ spends /\ nonce'[c].state = "spent"
             /\ c = code /\ spends => nonce'[c].state = "spent"
    <2>1. nonce \in [Codes -> [owner : Anyone, state : NonceStates]]
        BY <1>1 DEF AccessTypes
    <2>2. CASE ~spends
        BY <1>2, <2>1, <2>2
    <2>3. CASE spends
        BY <1>2, <1>3, <2>1, <2>3 DEF NonceStates
    <2> QED BY <2>2, <2>3
<1>10. nonce' \in [Codes -> [owner : Anyone, state : NonceStates]]
    <2>1. nonce \in [Codes -> [owner : Anyone, state : NonceStates]]
        BY <1>1 DEF AccessTypes
    <2>2. nonce' = [c \in Codes |-> nonce'[c]]
        BY <1>2, <2>1
    <2> QED BY <1>9, <2>2
<1>11. /\ \A i \in SessionIds \ {token} : sess'[i] = sess[i]
       /\ admitted => sess'[token] = new
       /\ ~admitted => sess' = sess
       /\ sess' \in [SessionIds -> SessionRows]
    BY <1>1, <1>2, <1>4, <1>7 DEF AccessTypes
<1> HIDE DEF v, new, spends
<1>12. AccessTypes'
    BY <1>1, <1>2, <1>8, <1>10, <1>11 DEF AccessTypes
<1>13. ASSUME NEW i \in SessionIds, sess'[i].owner # Nobody
       PROVE  \/ i \in Issued /\ i # token /\ sess'[i] = sess[i]
              \/ i = token /\ admitted /\ sess'[i].from = code
    BY <1>4, <1>7, <1>11, <1>13 DEF Issued
<1>14. Drawn' = Drawn
    BY <1>6, <1>9 DEF Drawn
<1>15. ASSUME NEW i \in Issued
       PROVE  /\ sess[i].from \in Codes /\ nonce'[sess[i].from].state \in {"spent", "deleted"}
              /\ admitted => sess[i].from # code
    <2>1. sess[i].from \in Codes /\ nonce[sess[i].from].state \in {"spent", "deleted"}
        BY <1>1 DEF CodesUsedUp
    <2> QED BY <1>6, <1>9, <2>1
<1>16. CodesUsedUp'
    <2>1. ASSUME NEW i \in Issued'
          PROVE  sess'[i].from \in Codes /\ nonce'[sess'[i].from].state \in {"spent", "deleted"}
        <3>1. i \in SessionIds /\ sess'[i].owner # Nobody
            BY DEF Issued
        <3> QED BY <1>3, <1>9, <1>13, <1>15, <3>1
    <2>2. \A c \in Codes : nonce'[c].state # "none" => nonce'[c].owner \in People
        BY <1>1, <1>6, <1>9 DEF CodesUsedUp
    <2>3. \A i \in SessionIds : sess'[i].owner = Nobody => ~sess'[i].revoked
        BY <1>1, <1>7, <1>11 DEF CodesUsedUp
    <2> QED BY <2>1, <2>2, <2>3 DEF CodesUsedUp
<1>17. OneSessionPerCode'
    <2>1. ASSUME NEW i \in Issued', NEW j \in Issued', sess'[i].from = sess'[j].from
          PROVE  i = j
        <3>1. i \in SessionIds /\ sess'[i].owner # Nobody /\ j \in SessionIds /\ sess'[j].owner # Nobody
            BY DEF Issued
        <3> QED BY <1>1, <1>13, <1>15, <2>1, <3>1 DEF OneSessionPerCode
    <2>2. \A c \in Codes : nonce'[c].state = "live" => nonce[c].state = "live"
        BY <1>9
    <2>3. \A c, d \in Codes :
            nonce'[c].state = "live" /\ nonce'[d].state = "live" /\ nonce'[c].owner = nonce'[d].owner
                => c = d
        BY <1>1, <1>9, <2>2 DEF OneSessionPerCode
    <2> QED BY <2>1, <2>3 DEF OneSessionPerCode
<1>18. v.at # "spend" /\ v.at # "slide" /\ v.at # "act"
    BY <1>8
<1>19. AccessInv'
    BY <1>2, <1>5, <1>8, <1>12, <1>14, <1>16, <1>17, <1>18, VisitStep
<1> QED BY <1>4, <1>11, <1>19

LEMMA PurgeKeeps ==
    ASSUME AccessInv, NEW b \in Browsers, Purge(b)
    PROVE  AccessInv'
<1>1. AccessTypes /\ CodesUsedUp /\ OneSessionPerCode /\ NobodyBeforeBoot
    BY DEF AccessInv
<1>2. /\ visit[b].at = "purge" /\ visit' = [visit EXCEPT ![b] = NoVisit]
      /\ nonce' = [c \in Codes |-> IF nonce[c].state \in {"spent", "lapsed"}
                                   THEN [nonce[c] EXCEPT !.state = "deleted"] ELSE nonce[c]]
      /\ UNCHANGED <<member, sess, bot, visits, lapses>>
    BY DEF Purge
<1>3. ASSUME NEW c \in Codes
      PROVE  /\ nonce'[c] \in [owner : Anyone, state : NonceStates]
             /\ nonce'[c].owner = nonce[c].owner
             /\ \/ nonce'[c].state = nonce[c].state
                \/ nonce[c].state # "none" /\ nonce'[c].state = "deleted"
    <2>1. nonce[c] \in [owner : Anyone, state : NonceStates]
        BY <1>1 DEF AccessTypes
    <2>2. nonce'[c] = IF nonce[c].state \in {"spent", "lapsed"}
                      THEN [nonce[c] EXCEPT !.state = "deleted"] ELSE nonce[c]
        BY <1>2
    <2> QED BY <2>1, <2>2 DEF NonceStates
<1>4. nonce' \in [Codes -> [owner : Anyone, state : NonceStates]]
    <2>1. nonce' = [c \in Codes |-> nonce'[c]]
        BY <1>2
    <2> QED BY <1>3, <2>1
<1>5. AccessTypes'
    BY <1>1, <1>2, <1>4, NoVisitTyped DEF AccessTypes
<1>6. CodesUsedUp'
    <2>1. Issued' = Issued
        BY <1>2 DEF Issued
    <2>2. ASSUME NEW i \in Issued
          PROVE  sess[i].from \in Codes /\ nonce'[sess[i].from].state \in {"spent", "deleted"}
        BY <1>1, <1>3 DEF CodesUsedUp
    <2>3. \A c \in Codes : nonce'[c].state # "none" => nonce'[c].owner \in People
        BY <1>1, <1>3 DEF CodesUsedUp
    <2> QED BY <1>1, <1>2, <2>1, <2>2, <2>3 DEF CodesUsedUp
<1>7. OneSessionPerCode'
    BY <1>1, <1>2, <1>3 DEF OneSessionPerCode, Issued
<1>8. Drawn' = Drawn
    BY <1>3 DEF Drawn
<1>9. ~NotAdmitted(member[BootstrapId])
    BY <1>1, <1>2 DEF NobodyBeforeBoot
<1> QED BY <1>2, <1>5, <1>6, <1>7, <1>8, <1>9, NoVisitTyped, VisitStep

\* Sessions that keep their owners and codes, and the tokens not issued.
LEMMA SessionsKept ==
    ASSUME AccessInv, UNCHANGED nonce, sess' \in [SessionIds -> SessionRows],
           \A i \in SessionIds : /\ sess'[i].owner = sess[i].owner /\ sess'[i].from = sess[i].from
                                 /\ sess'[i].owner = Nobody => ~sess'[i].revoked
    PROVE  CodesUsedUp' /\ OneSessionPerCode' /\ Issued' = Issued /\ Drawn' = Drawn
<1>1. Issued' = Issued /\ Drawn' = Drawn
    BY DEF Issued, Drawn
<1>2. Issued \subseteq SessionIds
    BY DEF Issued
<1>3. CodesUsedUp /\ OneSessionPerCode
    BY DEF AccessInv
<1>4. CodesUsedUp'
    BY <1>1, <1>2, <1>3 DEF CodesUsedUp
<1>5. OneSessionPerCode'
    BY <1>1, <1>2, <1>3 DEF OneSessionPerCode
<1> QED BY <1>1, <1>4, <1>5

LEMMA SlideKeeps ==
    ASSUME AccessInv, NEW b \in Browsers, NEW how \in {"not due", "slid", "failed"}, Slide(b, how)
    PROVE  /\ AccessInv'
           /\ \A i \in SessionIds : sess[i].revoked => sess'[i].revoked
<1> DEFINE v == visit[b]
           me == IF how = "failed" THEN member[v.who] ELSE v.seen
           seen == IF v.target = v.who THEN me ELSE member[v.target]
           goes == v.op # "read" /\ Permitted(me, v.who, v.op, v.target)
           w == IF goes THEN [v EXCEPT !.at = "act", !.seen = seen] ELSE NoVisit
<1>1. /\ AccessTypes /\ CodesUsedUp /\ OneSessionPerCode /\ VisitsInHand /\ BotInHand
      /\ NobodyBeforeBoot
    BY DEF AccessInv
<1>2. /\ v.at = "slide"
      /\ sess' = IF how = "slid" THEN [sess EXCEPT ![v.session] = SlidRow(v.session)] ELSE sess
      /\ visit' = [visit EXCEPT ![b] = w]
      /\ UNCHANGED <<member, nonce, bot, visits, lapses>>
    BY DEF Slide
<1>3. /\ v \in VisitRecords /\ v.session \in SessionIds /\ v.op \in Ops
      /\ v.who \in People /\ v.target \in People
    BY <1>1, <1>2 DEF AccessTypes, VisitsInHand
<1>4. me \in Members
    BY <1>1, <1>3 DEF AccessTypes, VisitRecords
<1>5. seen \in Members
    BY <1>1, <1>3, <1>4 DEF AccessTypes
<1>6. ~NotAdmitted(member[BootstrapId])
    BY <1>1, <1>2 DEF NobodyBeforeBoot
<1>7. goes => v.op # "read" /\ member[v.target].status # "none"
    BY DEF Permitted
<1> HIDE DEF v, seen, goes, me
<1>8. /\ w \in VisitRecords /\ w.at \in {"idle", "act"}
      /\ w.at = "act" => w.target = v.target /\ w.op = v.op /\ goes
    BY <1>3, <1>5, NoVisitTyped DEF VisitRecords
<1>9. /\ sess' \in [SessionIds -> SessionRows]
      /\ \A i \in SessionIds : /\ sess'[i].owner = sess[i].owner /\ sess'[i].from = sess[i].from
                               /\ sess'[i].revoked = sess[i].revoked
    <2>1. sess \in [SessionIds -> SessionRows]
        BY <1>1 DEF AccessTypes
    <2>2. /\ SlidRow(v.session) \in SessionRows
          /\ SlidRow(v.session).owner = sess[v.session].owner
          /\ SlidRow(v.session).from = sess[v.session].from
          /\ SlidRow(v.session).revoked = sess[v.session].revoked
        BY <1>3, <2>1 DEF SlidRow, SessionRows
    <2> QED BY <1>2, <1>3, <2>1, <2>2
<1> HIDE DEF w
<1>10. /\ \A i \in SessionIds : sess'[i].owner = Nobody => ~sess'[i].revoked
       /\ UNCHANGED nonce
    BY <1>1, <1>2, <1>9 DEF CodesUsedUp
<1>11. CodesUsedUp' /\ OneSessionPerCode' /\ Drawn' = Drawn
    BY <1>9, <1>10, SessionsKept
<1>12. AccessTypes'
    BY <1>1, <1>2, <1>8, <1>9 DEF AccessTypes
<1>13. /\ w.at # "spend" /\ w.at # "slide"
       /\ w.at = "act" => /\ w.target \in People /\ w.op \in Ops \ {"read"}
                          /\ member[w.target].status # "none"
    BY <1>3, <1>7, <1>8
<1>14. AccessInv'
    BY <1>2, <1>6, <1>8, <1>11, <1>12, <1>13, VisitStep
<1> QED BY <1>9, <1>14

\* What an admin's request may write: the account exists, and goes on existing.
LEMMA ActKeeps ==
    ASSUME AccessInv, NEW b \in Browsers, Act(b)
    PROVE  /\ AccessInv'
           /\ \A i \in SessionIds : sess[i].revoked => sess'[i].revoked
           /\ \A p \in People :
                member[p].status = "revoked" /\ member'[p].status # "revoked" =>
                    visit[b].at = "act" /\ visit[b].op = "approve" /\ visit[b].target = p
<1> DEFINE v == visit[b]
           t == v.target
           m == member'[t]
<1>1. /\ AccessTypes /\ CodesUsedUp /\ OneSessionPerCode /\ VisitsInHand /\ BotInHand
      /\ NobodyBeforeBoot
    BY DEF AccessInv
<1>2. /\ v.at = "act" /\ visit' = [visit EXCEPT ![b] = NoVisit]
      /\ UNCHANGED <<nonce, bot, visits, lapses>>
    BY DEF Act
<1>3. t \in People /\ member[t].status # "none" /\ v.seen \in Members /\ member[t] \in Members
    BY <1>1, <1>2 DEF VisitsInHand, AccessTypes, VisitRecords
<1>4. ~NotAdmitted(member[BootstrapId]) /\ BootstrapId \in People
    BY <1>1, <1>2, AccessAssumptions DEF NobodyBeforeBoot
<1>5. /\ member' \in [People -> Members]
      /\ \A p \in People \ {t} : member'[p] = member[p]
      /\ m.status \in {member[t].status, "approved", "revoked"}
      /\ m.status = "approved" => v.op = "approve" \/ member[t].status = "approved"
    <2>1. member \in [People -> Members]
        BY <1>1 DEF AccessTypes
    <2>2. ASSUME NEW value \in {"approved", "revoked"}, SetMember(v, "status", value)
          PROVE  /\ member' \in [People -> Members]
                 /\ \A p \in People \ {t} : member'[p] = member[p]
                 /\ m.status \in {member[t].status, value}
        <3> DEFINE new == Changed(v.seen.status, value, member[t].status)
                   row == [member[t] EXCEPT !.status = new]
        <3>1. member' = [member EXCEPT ![t] = row]
            BY <2>2 DEF SetMember
        <3>2. new \in Statuses /\ new \in {member[t].status, value}
            BY <1>3 DEF Changed, Members, Statuses
        <3> HIDE DEF new
        <3>3. row \in Members /\ row.status = new
            BY <1>3, <3>2 DEF Members
        <3> HIDE DEF row
        <3> QED BY <1>3, <2>1, <3>1, <3>2, <3>3
    <2>3. ASSUME NEW value \in BOOLEAN, SetMember(v, "admin", value)
          PROVE  /\ member' \in [People -> Members]
                 /\ \A p \in People \ {t} : member'[p] = member[p]
                 /\ m.status = member[t].status
        <3> DEFINE new == Changed(v.seen.admin, value, member[t].admin)
                   row == [member[t] EXCEPT !.admin = new]
        <3>1. member' = [member EXCEPT ![t] = row]
            BY <2>3 DEF SetMember
        <3>2. new \in BOOLEAN
            BY <1>3 DEF Changed, Members
        <3> HIDE DEF new
        <3>3. row \in Members /\ row.status = member[t].status
            BY <1>3, <3>2 DEF Members
        <3> HIDE DEF row
        <3> QED BY <1>3, <2>1, <3>1, <3>3
    <2>4. \/ v.op = "approve" /\ SetMember(v, "status", "approved")
          \/ SetMember(v, "status", "revoked")
          \/ SetMember(v, "admin", TRUE)
          \/ SetMember(v, "admin", FALSE)
          \/ UNCHANGED member
        BY DEF Act
    <2>5. CASE v.op = "approve" /\ SetMember(v, "status", "approved")
        BY <2>2, <2>5
    <2>6. CASE SetMember(v, "status", "revoked")
        BY <2>2, <2>6
    <2>7. CASE SetMember(v, "admin", TRUE) \/ SetMember(v, "admin", FALSE)
        BY <2>3, <2>7
    <2>8. CASE UNCHANGED member
        BY <2>1, <2>8
    <2> QED BY <2>4, <2>5, <2>6, <2>7, <2>8
<1>6. /\ sess' \in [SessionIds -> SessionRows]
      /\ \A i \in SessionIds : /\ sess'[i].owner = sess[i].owner /\ sess'[i].from = sess[i].from
                               /\ sess[i].revoked => sess'[i].revoked
                               /\ sess'[i].revoked => sess[i].revoked \/ sess[i].owner = t
    <2>1. sess \in [SessionIds -> SessionRows]
        BY <1>1 DEF AccessTypes
    <2>2. CASE sess' = RevokedSessions(t)
        <3>1. ASSUME NEW i \in SessionIds
              PROVE  /\ sess'[i] \in SessionRows
                     /\ sess'[i].owner = sess[i].owner /\ sess'[i].from = sess[i].from
                     /\ sess'[i].revoked <=> sess[i].revoked \/ sess[i].owner = t
            <4> DEFINE ended == sess[i].revoked \/ sess[i].owner = t
            <4>1. sess[i] \in SessionRows
                BY <2>1
            <4>2. sess'[i] = [sess[i] EXCEPT !.revoked = ended]
                BY <2>2 DEF RevokedSessions
            <4>3. ended \in BOOLEAN
                OBVIOUS
            <4>4. ended <=> sess[i].revoked \/ sess[i].owner = t
                OBVIOUS
            <4> HIDE DEF ended
            <4>5. /\ sess'[i] \in SessionRows /\ sess'[i].owner = sess[i].owner
                  /\ sess'[i].from = sess[i].from /\ sess'[i].revoked = ended
                BY <4>1, <4>2, <4>3 DEF SessionRows
            <4> QED BY <4>4, <4>5
        <3>2. sess' = [i \in SessionIds |-> sess'[i]]
            BY <2>2 DEF RevokedSessions
        <3> QED BY <3>1, <3>2
    <2>3. CASE UNCHANGED sess
        BY <2>1, <2>3
    <2> QED BY <2>2, <2>3 DEF Act
<1> HIDE DEF m, t
<1>7. CodesUsedUp' /\ OneSessionPerCode' /\ Drawn' = Drawn
    <2>1. \A i \in SessionIds : sess'[i].owner = Nobody => ~sess'[i].revoked
        BY <1>1, <1>3, <1>6, AccessAssumptions DEF CodesUsedUp
    <2>2. UNCHANGED nonce
        BY <1>2
    <2> QED BY <1>6, <2>1, <2>2, SessionsKept
<1>8. AccessTypes'
    BY <1>1, <1>2, <1>5, <1>6, NoVisitTyped DEF AccessTypes
<1>9. \A p \in People : member[p].status # "none" => member'[p].status # "none"
    BY <1>3, <1>5 DEF m
<1>10. VisitsInHand'
    <2>1. visit'[b] = NoVisit /\ \A c \in Browsers \ {b} : visit'[c] = visit[c]
        BY <1>1, <1>2 DEF AccessTypes
    <2> QED BY <1>1, <1>9, <2>1, NoVisitTyped DEF VisitsInHand
<1>11. ~NotAdmitted(member'[BootstrapId])
    BY <1>3, <1>4, <1>5 DEF NotAdmitted, m
<1>12. BotInHand'
    <2>1. bot.at = "update" => /\ bot.who \in People /\ Codes \ Drawn' # {}
                               /\ bot.seen.status = "none" => member'[bot.who].status = "none"
        BY <1>1, <1>3, <1>5, <1>7 DEF BotInHand
    <2>2. bot.at = "boot" => ~NotAdmitted(bot.seen)
        BY <1>1, <1>4 DEF BotInHand
    <2> QED BY <1>2, <1>11, <2>1, <2>2 DEF BotInHand
<1>13. NobodyBeforeBoot'
    BY <1>11 DEF NobodyBeforeBoot
<1>14. \A p \in People :
          member[p].status = "revoked" /\ member'[p].status # "revoked" => v.op = "approve" /\ t = p
    BY <1>5 DEF m
<1>15. AccessInv'
    BY <1>7, <1>8, <1>10, <1>12, <1>13 DEF AccessInv
<1> QED BY <1>2, <1>6, <1>14, <1>15 DEF t

\* Nothing but codes that age and session flags: no request and no account.
LEMMA IdleStep ==
    ASSUME AccessInv, UNCHANGED <<member, bot, visit>>, AccessTypes', CodesUsedUp', OneSessionPerCode',
           Drawn' = Drawn, Issued' = Issued
    PROVE  AccessInv'
<1> USE DEF AccessInv
<1>1. VisitsInHand' /\ BotInHand'
    BY DEF VisitsInHand, BotInHand
<1>2. NobodyBeforeBoot'
    BY DEF NobodyBeforeBoot, Drawn, Issued
<1> QED BY <1>1, <1>2

LEMMA LogoutKeeps ==
    ASSUME AccessInv, NEW i \in SessionIds, Logout(i)
    PROVE  /\ AccessInv'
           /\ \A j \in SessionIds : sess[j].revoked => sess'[j].revoked
<1> DEFINE row == [sess[i] EXCEPT !.revoked = TRUE]
<1>1. /\ sess[i].owner # Nobody /\ sess' = [sess EXCEPT ![i] = row]
      /\ UNCHANGED <<member, nonce, bot, visit, lapses>>
    BY DEF Logout
<1>2. sess \in [SessionIds -> SessionRows] /\ CodesUsedUp /\ AccessTypes
    BY DEF AccessInv, AccessTypes
<1>3. row \in SessionRows /\ row.owner = sess[i].owner /\ row.from = sess[i].from /\ row.revoked
    BY <1>2 DEF SessionRows
<1> HIDE DEF row
<1>4. /\ sess' \in [SessionIds -> SessionRows]
      /\ sess'[i] = row /\ \A j \in SessionIds \ {i} : sess'[j] = sess[j]
    BY <1>1, <1>2, <1>3
<1>5. \A j \in SessionIds : /\ sess'[j].owner = sess[j].owner /\ sess'[j].from = sess[j].from
                            /\ sess'[j].owner = Nobody => ~sess'[j].revoked
    BY <1>1, <1>2, <1>3, <1>4 DEF CodesUsedUp
<1>6. CodesUsedUp' /\ OneSessionPerCode' /\ Issued' = Issued /\ Drawn' = Drawn
    BY <1>1, <1>4, <1>5, SessionsKept
<1>7. AccessTypes'
    BY <1>1, <1>2, <1>4 DEF AccessTypes
<1> QED BY <1>1, <1>3, <1>4, <1>6, <1>7, IdleStep

LEMMA LapseKeeps ==
    ASSUME AccessInv, Lapse
    PROVE  /\ AccessInv'
           /\ \A j \in SessionIds : sess[j].revoked => sess'[j].revoked
<1>1. AccessTypes /\ CodesUsedUp /\ OneSessionPerCode /\ UNCHANGED <<member, bot, visit>>
    BY DEF AccessInv, Lapse
<1>2. ASSUME NEW c \in Codes, nonce[c].state = "live",
             nonce' = [nonce EXCEPT ![c].state = "lapsed"], UNCHANGED sess
      PROVE  AccessInv' /\ \A j \in SessionIds : sess[j].revoked => sess'[j].revoked
    <2> DEFINE row == [nonce[c] EXCEPT !.state = "lapsed"]
    <2>1. nonce \in [Codes -> [owner : Anyone, state : NonceStates]]
        BY <1>1 DEF AccessTypes
    <2>2. /\ row \in [owner : Anyone, state : NonceStates] /\ row.owner = nonce[c].owner
          /\ row.state = "lapsed"
        BY <2>1 DEF NonceStates
    <2>3. nonce' = [nonce EXCEPT ![c] = row]
        BY <1>2
    <2> HIDE DEF row
    <2>4. /\ nonce' \in [Codes -> [owner : Anyone, state : NonceStates]]
          /\ nonce'[c] = row /\ \A d \in Codes \ {c} : nonce'[d] = nonce[d]
        BY <2>1, <2>2, <2>3
    <2>5. Drawn' = Drawn /\ Issued' = Issued
        BY <1>2, <2>2, <2>4 DEF Drawn, Issued
    <2>6. AccessTypes'
        BY <1>1, <1>2, <2>4 DEF AccessTypes
    <2>7. CodesUsedUp'
        <3>1. ASSUME NEW i \in Issued
              PROVE  sess[i].from \in Codes /\ nonce'[sess[i].from].state \in {"spent", "deleted"}
            <4>1. sess[i].from \in Codes /\ nonce[sess[i].from].state \in {"spent", "deleted"}
                BY <1>1 DEF CodesUsedUp
            <4> QED BY <1>2, <2>4, <4>1
        <3>2. \A d \in Codes : nonce'[d].state # "none" => nonce'[d].owner \in People
            BY <1>1, <1>2, <2>2, <2>4 DEF CodesUsedUp
        <3> QED BY <1>1, <1>2, <2>5, <3>1, <3>2 DEF CodesUsedUp
    <2>8. OneSessionPerCode'
        <3>1. \A d \in Codes : nonce'[d].state = "live" =>
                  nonce[d].state = "live" /\ nonce'[d].owner = nonce[d].owner
            BY <2>2, <2>4
        <3> QED BY <1>1, <1>2, <2>5, <3>1 DEF OneSessionPerCode
    <2> QED BY <1>1, <1>2, <2>5, <2>6, <2>7, <2>8, IdleStep
<1>3. ASSUME NEW i \in Issued, sess' = [sess EXCEPT ![i].lapsed = TRUE], UNCHANGED nonce
      PROVE  AccessInv' /\ \A j \in SessionIds : sess[j].revoked => sess'[j].revoked
    <2> DEFINE row == [sess[i] EXCEPT !.lapsed = TRUE]
    <2>1. sess \in [SessionIds -> SessionRows] /\ i \in SessionIds
        BY <1>1 DEF AccessTypes, Issued
    <2>2. /\ row \in SessionRows /\ row.owner = sess[i].owner /\ row.from = sess[i].from
          /\ row.revoked = sess[i].revoked
        BY <2>1 DEF SessionRows
    <2>3. sess' = [sess EXCEPT ![i] = row]
        BY <1>3
    <2> HIDE DEF row
    <2>4. /\ sess' \in [SessionIds -> SessionRows]
          /\ sess'[i] = row /\ \A j \in SessionIds \ {i} : sess'[j] = sess[j]
        BY <2>1, <2>2, <2>3
    <2>5. \A j \in SessionIds : /\ sess'[j].owner = sess[j].owner /\ sess'[j].from = sess[j].from
                                /\ sess'[j].owner = Nobody => ~sess'[j].revoked
                                /\ sess[j].revoked => sess'[j].revoked
        BY <1>1, <2>2, <2>4 DEF CodesUsedUp
    <2>6. CodesUsedUp' /\ OneSessionPerCode' /\ Issued' = Issued /\ Drawn' = Drawn
        BY <1>3, <2>4, <2>5, SessionsKept
    <2>7. AccessTypes'
        BY <1>1, <1>3, <2>4 DEF AccessTypes
    <2> QED BY <1>1, <2>5, <2>6, <2>7, IdleStep
<1> QED BY <1>2, <1>3 DEF Lapse

\* One step of the dashboard: the invariant, and what a ban survives.
BanStep ==
    /\ \A i \in SessionIds : sess[i].revoked => sess'[i].revoked
    /\ \A p \in People :
        member[p].status = "revoked" /\ member'[p].status # "revoked"
            => \E b \in Browsers :
                  visit[b].at = "act" /\ visit[b].op = "approve" /\ visit[b].target = p

LEMMA AccessInductive == AccessInv /\ [AccessNext]_accessVars => AccessInv' /\ [BanStep]_accessVars
<1> SUFFICES ASSUME AccessInv, [AccessNext]_accessVars PROVE AccessInv' /\ [BanStep]_accessVars
    OBVIOUS
<1>1. CASE UNCHANGED accessVars
    <2>1. AccessInv'
        BY <1>1 DEF accessVars, AccessInv, AccessTypes, CodesUsedUp, OneSessionPerCode, Issued,
                    VisitsInHand, BotInHand, Drawn, NobodyBeforeBoot
    <2> QED BY <1>1, <2>1
<1>2. ASSUME NEW p \in People, BotRead(p) PROVE AccessInv' /\ BanStep
    BY <1>2, BotReadKeeps DEF BanStep, BotRead
<1>3. CASE BotWrite
    <2>1. ASSUME NEW p \in People, member[p].status = "revoked"
          PROVE  member'[p].status = "revoked"
        <3>1. CASE /\ bot.seen.status = "none"
                   /\ member' = [member EXCEPT ![bot.who] = [status |-> "pending", admin |-> FALSE]]
            <4>1. bot.who # p
                BY <1>3, <2>1, <3>1 DEF AccessInv, BotInHand, BotWrite
            <4> QED BY <2>1, <3>1, <4>1 DEF AccessInv, AccessTypes
        <3>2. CASE UNCHANGED member
            BY <2>1, <3>2
        <3> QED BY <1>3, <3>1, <3>2 DEF BotWrite
    <2>2. UNCHANGED sess
        BY <1>3 DEF BotWrite
    <2> QED BY <1>3, <2>1, <2>2, BotWriteKeeps DEF BanStep
<1>4. CASE BootRead
    BY <1>4, BootReadKeeps DEF BanStep, BootRead
<1>5. CASE BootWrite
    <2>1. UNCHANGED sess
        BY <1>5 DEF BootWrite
    <2> QED BY <1>5, <2>1, BootWriteKeeps DEF BanStep
<1>6. ASSUME NEW b \in Browsers, NEW c \in Codes, RedeemRead(b, c) PROVE AccessInv' /\ BanStep
    BY <1>6, RedeemReadKeeps DEF BanStep, RedeemRead
<1>7. ASSUME NEW b \in Browsers, Redeem(b) PROVE AccessInv' /\ BanStep
    <2>1. UNCHANGED member
        BY <1>7 DEF Redeem
    <2> QED BY <1>7, <2>1, RedeemKeeps DEF BanStep
<1>8. ASSUME NEW b \in Browsers, Purge(b) PROVE AccessInv' /\ BanStep
    BY <1>8, PurgeKeeps DEF BanStep, Purge
<1>9. ASSUME NEW b \in Browsers, Act(b) PROVE AccessInv' /\ BanStep
    BY <1>9, ActKeeps DEF BanStep
<1>10. ASSUME NEW b \in Browsers, NEW how \in {"not due", "slid", "failed"}, Slide(b, how)
       PROVE  AccessInv' /\ BanStep
    <2>1. UNCHANGED member
        BY <1>10 DEF Slide
    <2> QED BY <1>10, <2>1, SlideKeeps DEF BanStep
<1>11. ASSUME NEW b \in Browsers, NEW i \in SessionIds, NEW op \in Ops, NEW p \in People,
              Verify(b, i, op, p)
       PROVE  AccessInv' /\ BanStep
    BY <1>11, VerifyKeeps DEF BanStep, Verify
<1>12. ASSUME NEW i \in SessionIds, Logout(i) PROVE AccessInv' /\ BanStep
    <2>1. UNCHANGED member
        BY <1>12 DEF Logout
    <2> QED BY <1>12, <2>1, LogoutKeeps DEF BanStep
<1>13. CASE Lapse
    <2>1. UNCHANGED member
        BY <1>13 DEF Lapse
    <2> QED BY <1>13, <2>1, LapseKeeps DEF BanStep
<1> QED BY <1>1, <1>2, <1>3, <1>4, <1>5, <1>6, <1>7, <1>8, <1>9, <1>10, <1>11, <1>12, <1>13
        DEF AccessNext

\* complete_login and the bot, for every number of people, codes, sessions and
\* browsers: a code opens one session at most, and of one person one code at
\* most is live.
THEOREM CodesOpenOneSession == AccessSpec => []OneSessionPerCode
<1>1. AccessInv => OneSessionPerCode
    BY DEF AccessInv
<1> QED BY <1>1, AccessInitially, AccessInductive, PTL DEF AccessSpec

\* The action property, at every step: no session that ended comes back, and a
\* refused person is admitted again by an admin's approval only, although the
\* bot, its start-up and the admin routes all write by what they read earlier.
THEOREM BansAlwaysStand == AccessSpec => BanStands
<1>1. AccessSpec => [][BanStep]_accessVars
    BY AccessInitially, AccessInductive, PTL DEF AccessSpec
<1> QED BY <1>1 DEF BanStep, BanStands
==============================================================================
