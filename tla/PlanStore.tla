------------------------------ MODULE PlanStore ------------------------------
(***************************************************************************)
(* What preparation, approval, review and publication share: the           *)
(* suggestion rows and publication-plan rows of PostgreSQL, the live       *)
(* WordPress posts, the row locks of a publication in flight, and the      *)
(* values an artifact is made of.                                          *)
(*                                                                         *)
(* One managed site is modelled.  A committed transaction is one step; the *)
(* reads and writes that a handler spreads over several transactions (or   *)
(* over an unlocked read and a later write) are separate steps.            *)
(***************************************************************************)
EXTENDS PublicationCohort

CONSTANTS
    Suggestions,   \* suggestion primary keys (naturals)
    Articles,      \* source-article primary keys (naturals)
    Row,           \* suggestion -> the columns fixed at its creation
    External,      \* suggestions whose target the external-link policy judges
    Texts,         \* versions of an article's own prose
    AnchorsIn,     \* text -> suggestions whose stored anchor can be located in it
    MaxInText,     \* settings.publish_max_in_text_links_per_article
    MaxAttempts,   \* settings.publish_max_suggestion_attempts
    PlanIds,       \* plan primary keys (naturals): the bound on plans
    MaxEdits,      \* bound on edits people make in WordPress
    MaxFaults,     \* bound on crashes, failed commits and lost bookkeeping
    None           \* SQL NULL, and "nothing here" in the bookkeeping

ASSUME StoreAssumption ==
    /\ PlanIds \subseteq Nat \ {0}
    /\ Suggestions \subseteq Nat
    /\ MaxAttempts \in Nat \ {0}
    /\ External \subseteq Suggestions
    /\ IsFiniteSet(Suggestions)
    /\ None \notin PlanIds
    /\ \A s \in Suggestions :
          Row[s].source \in Nat /\ Row[s].score \in Int /\ Row[s].bm25 \in Int

VARIABLES
    sugg,        \* suggestion -> [status, plan, attempts]
    plan,        \* plan id -> the publication_plans row
    post,        \* article -> the live WordPress content
    locked,      \* plans whose row, bound rows and article lock a worker holds
    ineligible,  \* external suggestions the current policy no longer allows
    screen,      \* plan id -> the hash last shown to the operator
    signed,      \* history: plan id -> the hashes named humans approved it by
    sent,        \* history: every POST issued, as [plan, html]
    late,        \* POSTs that failed for the worker and may still take effect
    served,      \* history: every content each post has had
    edits, faults

storeVars == <<sugg, plan, post, locked, ineligible, screen, signed, sent, late,
               served, edits, faults>>

------------------------------------------------------------------------------
(* Post content: the article's own text and the links written into it. *)
Urls == {Row[s].url : s \in Suggestions}
Contents == [text : Texts, links : SUBSET [url : Urls, kind : {"inserted", "block"}]]

(* One entry per link, in rendering order; the hash covers all of it. *)
Artifacts ==
    [source : Articles, orig : Contents, upd : Contents,
     items : Seq([sid : Suggestions, outcome : {"already_present", "inserted", "block"}])]

(* SHA-256 of the canonical artifact: two artifacts never share a digest. *)
Hash(art) == [sha256 |-> art]
Hashes == [sha256 : Artifacts]

ItemIds(p) == {plan[p].art.items[i].sid : i \in DOMAIN plan[p].art.items}

SuggestionStatuses == {"pending", "approved", "rejected", "expired", "applied", "failed"}
PlanStatuses == {"absent", "prepared", "approved", "applied", "superseded", "stale", "failed"}
ACTIVE_PLAN_STATUSES == {"prepared", "approved"}

SuggestionRows ==
    [status : SuggestionStatuses, plan : PlanIds \cup {None}, attempts : Nat]
(* approved_hash is the empty set while it is NULL. *)
PlanRows ==
    [status : PlanStatuses, art : Artifacts \cup {None}, hash : Hashes \cup {None},
     approvedHash : SUBSET Hashes]
AbsentPlan == [status |-> "absent", art |-> None, hash |-> None, approvedHash |-> {}]

Selected == {s \in Suggestions : sugg[s].status = "approved" /\ sugg[s].plan = None}
Applied == {s \in Suggestions : sugg[s].status = "applied"}
BoundTo(p) == {s \in Suggestions : sugg[s].plan = p}
ActivePlans(a) ==
    {p \in PlanIds : plan[p].status \in ACTIVE_PLAN_STATUSES /\ plan[p].art.source = a}

(* A worker's claim locks the plan row and the rows bound to it. *)
RowLocked(s) == sugg[s].plan \in locked

(* Mutant: the approval is not compared. *)
HashOnly(r) == Hash(r.art) = r.hash

(* verify_integrity: the stored bytes against plan_hash and approved_hash. *)
VerifyIntegrity(r) ==
    /\ Hash(r.art) = r.hash
    /\ r.approvedHash \subseteq {Hash(r.art)}

------------------------------------------------------------------------------
(* _insert_link: in the prose while the anchor can be found and the        *)
(* article is below its in-text limit, an appended block otherwise.        *)
InsertLink(content, s) ==
    LET inText == {l \in content.links : l.kind = "inserted"}
        kind == IF s \in AnchorsIn[content.text] /\ Cardinality(inText) < MaxInText
                THEN "inserted" ELSE "block"
    IN  [content |-> [content EXCEPT !.links = @ \cup {[url |-> Row[s].url, kind |-> kind]}],
         outcome |-> kind]

(* preview_links: the links one after the other, each into the result of   *)
(* the ones before it; a target that is linked already is left alone.      *)
IsLinked(content, s) == \E l \in content.links : l.url = Row[s].url

ContentAfter(live, ids) ==
    LET after[n \in 0..Len(ids)] ==
            IF n = 0 THEN live
            ELSE IF IsLinked(after[n - 1], ids[n]) THEN after[n - 1]
            ELSE InsertLink(after[n - 1], ids[n]).content
    IN  after

PreviewLinks(live, ids) ==
    LET after == ContentAfter(live, ids)
        Outcome(n) ==
            IF IsLinked(after[n - 1], ids[n]) THEN "already_present"
            ELSE InsertLink(after[n - 1], ids[n]).outcome
    IN  [content |-> after[Len(ids)],
         items |-> [n \in 1..Len(ids) |-> [sid |-> ids[n], outcome |-> Outcome(n)]]]

(* The artifact preparation freezes for one source article. *)
Artifact(a, live, ids) ==
    LET preview == PreviewLinks(live, ids)
    IN  [source |-> a, orig |-> live, upd |-> preview.content, items |-> preview.items]

------------------------------------------------------------------------------
StoreTypeOK ==
    /\ sugg \in [Suggestions -> SuggestionRows]
    /\ plan \in [PlanIds -> PlanRows]
    /\ post \in [Articles -> Contents]
    /\ locked \subseteq PlanIds
    /\ ineligible \subseteq External
    /\ screen \in [PlanIds -> Hashes \cup {None}]
    /\ signed \in [PlanIds -> SUBSET Hashes]
    /\ sent \subseteq [plan : PlanIds, html : Contents]
    /\ late \subseteq sent
    /\ served \in [Articles -> SUBSET Contents]
    /\ edits \in 0..MaxEdits
    /\ faults \in 0..MaxFaults

(* Every suggestion has been selected by a reviewer and none is prepared. *)
StoreInit ==
    /\ sugg = [s \in Suggestions |-> [status |-> "approved", plan |-> None, attempts |-> 0]]
    /\ plan = [p \in PlanIds |-> AbsentPlan]
    /\ post \in [Articles -> {c \in Contents : c.links = {}}]
    /\ locked = {}
    /\ ineligible = {}
    /\ screen = [p \in PlanIds |-> None]
    /\ signed = [p \in PlanIds |-> {}]
    /\ sent = {}
    /\ late = {}
    /\ served = [a \in Articles |-> {post[a]}]
    /\ edits = 0
    /\ faults = 0

------------------------------------------------------------------------------
(* WordPress stores `content` as the post of article a. *)
Save(a, content) ==
    /\ post' = [post EXCEPT ![a] = content]
    /\ served' = [served EXCEPT ![a] = @ \cup {content}]

(* A person edits the post in WordPress: rewrites the prose, or restores   *)
(* an earlier revision, or removes links.                                  *)
HumanEdit(a) ==
    /\ edits < MaxEdits
    /\ \E t \in Texts, kept \in SUBSET post[a].links :
          /\ [text |-> t, links |-> kept] # post[a]
          /\ Save(a, [text |-> t, links |-> kept])
    /\ edits' = edits + 1
    /\ UNCHANGED <<sugg, plan, locked, ineligible, screen, signed, sent, late, faults>>

(* A POST whose answer never reached the worker takes effect after all. *)
LateEffect(m) ==
    /\ m \in late
    /\ late' = late \ {m}
    /\ Save(plan[m.plan].art.source, m.html)
    /\ UNCHANGED <<sugg, plan, locked, ineligible, screen, signed, sent, edits, faults>>

(* An out-of-band UPDATE rewrites a stored artifact, with or without its   *)
(* own hash; it cannot touch a row a worker has locked.                    *)
Tamper(p, content, rehash) ==
    /\ faults < MaxFaults
    /\ p \notin locked
    /\ plan[p].status \in ACTIVE_PLAN_STATUSES
    /\ content # plan[p].art.upd
    /\ LET art == [plan[p].art EXCEPT !.upd = content]
       IN  plan' = [plan EXCEPT ![p].art = art,
                                ![p].hash = IF rehash THEN Hash(art) ELSE @]
    /\ faults' = faults + 1
    /\ UNCHANGED <<sugg, post, locked, ineligible, screen, signed, sent, late, served, edits>>
==============================================================================
