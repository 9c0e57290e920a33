---------------------------- MODULE MCAlgorithms -----------------------------
(***************************************************************************)
(* The pure parts of the system over every small input, one part at a      *)
(* time (`in` is the input, `out` the singleton of the result), and the    *)
(* small machines beside them: a crawl, the requests of API keys, the race *)
(* for a placement and the reading of the review queue.                    *)
(***************************************************************************)
EXTENDS PublicationCohort, LinkInsertion, CandidateRanking, ExternalPolicy, SiteCrawl, KeyScopes,
        PlacementGeneration, ReviewQueue, TLC

CONSTANTS
    ArticleIds,     \* article primary keys of the cohort
    MaxScore,       \* its scores are 0..MaxScore
    t1, t2, t3,     \* link targets
    x, y            \* words

VARIABLES part, in, out

machines == <<crawlVars, scopeVars, placeVars, queueVars>>
vars == <<part, in, out, machines>>

Distinct(S, n) == UNION {{f \in [1..k -> S] : \A i, j \in 1..k : i # j => f[i] # f[j]} : k \in 0..n}
UpTo(S, n) == UNION {[1..k -> S] : k \in 0..n}

-----------------------------------------------------------------------------
(* Inputs                                                                  *)

Ids == 1..3
CohortRows == [source : ArticleIds, target : ArticleIds \cup {NoArticle}, score : 0..MaxScore, bm25 : 0..MaxScore]

\* The first row is fixed: the articles are interchangeable.
CohortInputs ==
    {q \in [row : {f \in [Ids -> CohortRows] : /\ f[1] = [source |-> 1, target |-> 2, score |-> 1, bm25 |-> 0]
                                               /\ \A s \in Ids : f[s].source # f[s].target},
            selected : {1..2, 1..3, {2, 3}}, applied : {{}, {1}}, only : {1..3, {2}}] :
        q.selected \cap q.applied = {}}

\* Short posts, alone and inside a paragraph; three suggestions on longer ones.
Suggest(t, anchor) == [target |-> t, anchor |-> anchor, title |-> <<y>>]
Tokens == {Tag("open", "p"), Tag("close", "p"), Tag("open", "code"), Tag("close", "code"), Tag("open", "br"),
           Link(t2, FALSE), EndLink, Word(x), Word(y), Tag("raw", x)}
Paragraph(q) == <<Tag("open", "p")>> \o q \o <<Tag("close", "p")>>
Long == <<Word(y), Word(y), Word(y)>>
Markup == {Tag("raw", x), Tag("attr", x), Tag("attr", y), BuriedLink, BuriedEnd, EndLink, Word(x), Word(y)}
InsertInputs ==
    [post : UpTo(Tokens, 4) \cup {Paragraph(q) : q \in UpTo(Tokens, 4)} \cup UpTo(Markup, 4),
     selected : {<<Suggest(t1, <<x>>), Suggest(t2, <<y>>)>>, <<Suggest(t1, <<x>>), Suggest(t1, <<y>>)>>,
                 <<Suggest(t1, <<x, y>>), Suggest(t2, <<x>>)>>, <<Suggest(t1, <<>>), Suggest(t2, <<x, x>>)>>}]
    \cup [post : {Paragraph(<<Word(x)>> \o q \o Long \o <<Word(t1)>> \o Long \o <<Word(t2)>>) : q \in UpTo(Tokens, 2)},
          selected : {<<Suggest(t1, <<x>>), Suggest(t2, <<t1>>), Suggest(t3, <<t2>>)>>}]

LexicalInputs == [ranked : Distinct(1..5, 5), dense : SUBSET {1, 4}, eligible : SUBSET {2, 3, 5}]

FusionInputs == [dense : Distinct(1..3, 3), lexical : Distinct(1..3, 3), bm25 : [1..3 -> 0..1], limit : {2, 4}]

Arcs == {<<m, n>> \in (1..3) \X (1..3) : m # n}
\* The six possible links, one of them twice, one to a page that is gone, one
\* to the web, and one that is not approved; 11 does not exist.
Proposed == SetToSeq(Arcs) \o <<<<1, 2>>, <<1, 4>>, <<1, 0>>, <<2, 1>>>>
SimulateRows == [id \in 1..10 |-> [source |-> Proposed[id][1], target |-> Proposed[id][2],
                                   status |-> IF id = 10 THEN "pending" ELSE "approved"]]
SimulateInputs == [edges : SUBSET Arcs, requested : UpTo(1..11, 2) \cup [1..3 -> {1, 2, 7}]]

Histories == {<<>>, <<[score |-> 640, status |-> "approved"], [score |-> 700, status |-> "rejected"],
                     [score |-> 650, status |-> "pending"]>>}
OrderInputs ==
    [candidates : {[i \in 1..3 |-> [id |-> i, score |-> f[i]]] : f \in [1..3 -> {595, 640, 680, 720}]},
     features : {ComputeGraph(1..4, E) : E \in {{<<4, 1>>}, {<<1, 3>>, <<2, 3>>}, {<<1, 3>>, <<2, 3>>, <<1, 4>>, <<2, 4>>}}},
     source : {4}, method : {"hybrid_bm25", "semantic"}, mode : {"active", "shadow"}, floor : {650},
     minPercent : {0, 65}, history : Histories, enabled : {TRUE}, weight : {0, 5}, minSamples : {2},
     remaining : 1..3]

\* Domains of two sites and a subdomain.
A == <<"com", "a">>
B == <<"org", "b">>
Sub == Append(A, "blog")
Url(scheme, host, path) == [scheme |-> scheme, host |-> host, port |-> 0, path |-> path]
Policies == [enabled : BOOLEAN, requireHttps : BOOLEAN, minTrust : {0, 75}, minAge : {0, 180},
             tlds : {{}, {"com"}}, allowlist : {{}, {Sub}}, blocklist : {{}, {A}, {Sub}}, competitors : {{}, {B}}]
PoolSite(host, age) == [platform : {"pool"}, approved : BOOLEAN, quarantined : BOOLEAN, host : {host}, age : {age}]
ArticlesOf(retired) ==
    {[id |-> 1, site |-> 1, url |-> Url("https", <<"net", "own">>, "1"), active |-> 1 \notin retired],
     [id |-> 2, site |-> 2, url |-> Url("https", Sub, "2"), active |-> 2 \notin retired],
     [id |-> 3, site |-> 2, url |-> Url("http", A, "3"), active |-> 3 \notin retired],
     [id |-> 4, site |-> 3, url |-> Url("https", B, "4"), active |-> TRUE]}
OwnSite == [platform |-> "wordpress", approved |-> FALSE, quarantined |-> FALSE, host |-> <<"net", "own">>, age |-> NoAge]
PolicyInputs == [policy : Policies, owned : {{<<"net", "own">>}, {<<"net", "own">>, B}},
                 two : PoolSite(A, 200), three : PoolSite(B, NoAge), retired : {{}, {1, 2}, {3}}]
SitesOf(q) == <<OwnSite, q.two, q.three>>
PolicyRows == [article : 1..4, url : {Url("https", <<>>, "")}, status : {"pending", "approved", "applied"}]
    \cup [article : {0}, url : {Url("https", Sub, "w"), Url("http", A, "w"), Url("https", B, "w")}, status : {"pending"}]

Raw(scheme, host, port) == [scheme |-> scheme, host |-> host, port |-> port, path |-> "w", credentials |-> FALSE]
Items == [url : {Raw("https", A, 443), Raw("https", A, 0), Raw("https", A, 8443), Raw("http", A, 80),
                 Raw("https", Sub, 0), Raw("https", <<>>, 0)}, score : {40, 70, 90}, result : {TRUE}]
         \cup [url : {Raw("https", B, 0)}, score : {90}, result : {FALSE}]
GapPolicy == [enabled |-> TRUE, requireHttps |-> TRUE, minTrust |-> 0, minAge |-> 0, tlds |-> {}, allowlist |-> {},
              blocklist |-> {Sub}, competitors |-> {}]
GapInputs == [missing : 0..2, title : {"", "title"}, policy : {GapPolicy, [GapPolicy EXCEPT !.enabled = FALSE]},
              owned : {{B}}, configured : BOOLEAN, answers : {<<"rate limited", "results">>, <<"transport", "transport", "results">>,
                                                             <<"quota", "results">>},
              existing : {{}, {Url("https", A, "w")}}, minScore : {50}, minPercent : {60},
              items : UpTo(Items, 2) \cup {<<i, j, [i EXCEPT !.score = 70]>> : i, j \in Items}]

VerifyInputs == [content : UpTo({"a", "A", " "}, 4), passage : UpTo({"a", "A", " "}, 3), anchor : UpTo({"a", "A"}, 2)]

Inputs(p) ==
    CASE p = "cohort" -> CohortInputs [] p = "insert" -> InsertInputs [] p = "lexical" -> LexicalInputs
      [] p = "fusion" -> FusionInputs [] p = "simulate" -> SimulateInputs [] p = "order" -> OrderInputs
      [] p = "verify" -> VerifyInputs [] p = "policy" -> PolicyInputs [] p = "gap" -> GapInputs [] OTHER -> {<<>>}

Result ==
    CASE part = "cohort" -> GroupedBatch(in.row, in.selected, in.applied, in.only)
      [] part = "insert" -> <<Preview(in.post, in.selected), StaticPreview(in.post, in.selected)>>
      [] part = "lexical" -> LexicalPool(in.ranked, in.dense, in.eligible)
      [] part = "fusion" -> HybridOrder(in.dense, in.lexical, in.bm25, in.limit)
      [] part = "simulate" -> SimulateSelection(1..3, in.edges, SimulateRows, in.requested)
      [] part = "order" -> OrderCandidates(in)
      [] part = "policy" -> [rows |-> ExpireIneligible(in.policy, in.owned, 1, SitesOf(in), ArticlesOf(in.retired), PolicyRows),
                             sources |-> SourceEvaluations(in.policy, in.owned, SitesOf(in), ArticlesOf(in.retired))]
      [] part = "gap" -> FillGap(in)
      [] part = "verify" -> Verify(in.passage, in.anchor, in.content)

-----------------------------------------------------------------------------
Functions == {"cohort", "insert", "lexical", "fusion", "simulate", "order", "policy", "gap", "verify"}

Init ==
    /\ part \in Functions \cup {"walk", "listing", "keys", "placements", "queue"}
    /\ in \in Inputs(part)
    /\ out = <<>>
    /\ CrawlInit /\ (part # "listing" => posts = <<>>)
    /\ ScopeInit
    /\ PlaceInit /\ (part # "placements" => link = [s \in Offers |-> "pending"])
    /\ QueueInit /\ (part # "queue" => \A a \in RowIds : queue[a].status = "absent")

Compute ==
    /\ part \in Functions
    /\ out = <<>>
    /\ out' = <<Result>>
    /\ UNCHANGED <<part, in, machines>>

Next ==
    \/ Compute
    \/ part = "walk" /\ WalkNext /\ UNCHANGED <<part, in, out, scopeVars, placeVars, queueVars>>
    \/ part = "listing" /\ ListingNext /\ UNCHANGED <<part, in, out, scopeVars, placeVars, queueVars>>
    \/ part = "keys" /\ ScopeNext /\ UNCHANGED <<part, in, out, crawlVars, placeVars, queueVars>>
    \/ part = "placements" /\ PlaceNext /\ UNCHANGED <<part, in, out, crawlVars, scopeVars, queueVars>>
    \/ part = "queue" /\ QueueNext /\ UNCHANGED <<part, in, out, crawlVars, scopeVars, placeVars>>

Spec == Init /\ [][Next]_vars

Symmetry == Permutations(ApiKeys) \cup Permutations(SiteIds) \cup Permutations(Requests)

\* Six pages: one is found by two ways of different length.
MCLinks == <<<<2, 3>>, <<5, 1, 5>>, <<4, 2>>, <<5>>, <<6>>, <<1>>>>

\* Two links of one article; phrases that differ by case only; both
\* directions of a pair among four rows of the queue.
MCSourceOf == <<1, 1>>
MCCasefold == [ab |-> "ab", AB |-> "ab"]
MCPairOf == <<1, 2, 0, 1>>

Done(p) == part = p /\ out # <<>>

-----------------------------------------------------------------------------
(* Properties                                                              *)

\* grouped_batch: one preparation never renders both directions of a pair, nor
\* the reverse of a link that is already applied; a row it leaves out has its
\* reverse applied or chosen instead; naming links to publish never changes the
\* verdict on a link, only cuts the full batch down to those named; and the
\* links of an article come in the order of anchor arbitration.
CohortExact ==
    Done("cohort") => BatchExact(in.row, in.selected, in.applied, in.only, out[1])

\* Nesting, by counting tags instead of by a stack.
Balance(c, i, j) ==
    Cardinality({k \in i..j : c[k].k = "open" /\ c[k].name \notin Void}) - Cardinality({k \in i..j : c[k].k = "close"})
Around(c, i) ==
    {j \in 1..(i - 1) : c[j].k = "open" /\ c[j].name \notin Void /\ \A k \in j..(i - 1) : Balance(c, j, k) > 0}
Matching(c, j) == CHOOSE k \in j..Len(c) : Balance(c, j, k) = 0 /\ \A m \in j..(k - 1) : Balance(c, j, m) > 0
WellFormed(c) ==
    /\ Balance(c, 1, Len(c)) = 0
    /\ \A i \in DOMAIN c : Balance(c, 1, i) >= 0
    /\ \A j \in DOMAIN c : c[j].k = "open" /\ c[j].name \notin Void => c[Matching(c, j)].name = c[j].name

\* preview_links: a link is written into running text only: in a well-formed
\* post every element around it is one that may hold a link, and one of them
\* is a text block. There are never more than the article's limit, also when
\* one run inserts several.
SplicedInProse ==
    Done("insert") =>
        LET c == out[1][1].content
        IN  /\ Cardinality(Ours(c)) <= MaxInText
            /\ WellFormed(in.post) => \A i \in Ours(c) :
                  LET names == {c[j].name : j \in Around(c, i)}
                  IN  names \subseteq SpliceOk /\ (names # {} => names \cap SpliceText # {})

\* preview_links of both connectors: every selected target is linked exactly
\* once when the post did not link it, and is left as it was when it did; also
\* when two suggestions of the run name the same target. The static connector
\* loses a link, and reports it as inserted, where its anchor comes first in an
\* attribute or a comment; only where the page had it there from the start, and
\* never to the harm of another link.
LinkedOnce ==
    Done("insert") =>
        LET static == out[1][2]
        IN  /\ EachLinkedOnce(in.post, in.selected, out[1][1].content)
            /\ EachFoundLinkedOnce(in.post, in.selected, static.content, static.lost)
            /\ \A k \in static.lost :
                  /\ static.outcomes[k] = "inserted"
                  /\ \E i \in DOMAIN in.post : /\ Occurs(in.post, SearchedFor(in.selected[k]), i)
                                               /\ in.post[i].k \in {"raw", "attr"}

\* What the connectors promise of a rendered post: in the WordPress one links in
\* prose only and within the limit, and in both each selected target once.
LinksInserted == SplicedInProse /\ LinkedOnce

At(seq, e) == CHOOSE i \in DOMAIN seq : seq[i] = e

\* The lexical pool is filled with the best allowed candidates, however many
\* that are not allowed come first; a candidate that is ahead of another in
\* every list that has the other stays ahead when the lists are fused; and of
\* the candidates good enough, none is lost to one that is not, a structural
\* bonus lifts none past one that is better by more than its cap nor lifts one
\* below the floor, and feedback never swaps two of the same score band.
RankingExact ==
    /\ Done("lexical") =>
          out[1] = Cut(SelectSeq(in.ranked, LAMBDA t : t \in in.dense \cup in.eligible), PoolSize)
    /\ Done("fusion") =>
          LET lists == {Cut(in.dense, PoolSize), Cut(in.lexical, PoolSize)}
          IN  \A s, t \in ToSet(out[1]) :
                (/\ s # t /\ in.bm25[s] = in.bm25[t]
                 /\ \A l \in lists : t \in ToSet(l) => s \in ToSet(l) /\ At(l, s) < At(l, t))
                => At(out[1], s) < At(out[1], t)
    /\ Done("order") =>
          LET good == SelectSeq(in.candidates, LAMBDA c : ScorePercent(c.score) >= in.minPercent)
              bucket(c) == ScoreBucket(ScorePercent(c.score))
              graphed == OrderCandidates([in EXCEPT !.enabled = FALSE, !.remaining = Len(good)])
              all == OrderCandidates([in EXCEPT !.remaining = Len(good)])
          IN  /\ ToSet(graphed) = ToSet(good) /\ Len(graphed) = Len(good)
              /\ out[1] = Cut(all, in.remaining) /\ ToSet(all) = ToSet(good)
              /\ in.mode # "active" => graphed = good
              /\ in.mode = "active" /\ in.method = "hybrid_bm25" => \A i, j \in DOMAIN graphed : i < j =>
                    IF graphed[i].score < in.floor THEN graphed[i].score >= graphed[j].score
                    ELSE graphed[i].score + Boost >= graphed[j].score
              /\ \A i, j \in DOMAIN all : i < j /\ bucket(all[i]) = bucket(all[j]) =>
                    At(graphed, all[i]) < At(graphed, all[j])

\* The simulation predicts what the graph would be if the selected links were
\* written and the graph computed anew, also when links are repeated, already
\* there or out of the graph; the suggestions it reports as applied are one
\* for each new link, and the others are reported as skipped.
SimulationExact ==
    Done("simulate") /\ out[1].error = 0 =>
        LET r == out[1].simulation
            chosen == [i \in DOMAIN in.requested |-> Proposed[in.requested[i]]]
            new == (ToSet(chosen) \cap Arcs) \ in.edges
        IN  /\ Predicts(1..3, in.edges, chosen, r)
            /\ r.concentration <= Len(r.applied)
            /\ {Proposed[id] : id \in out[1].applied} = new
            /\ Cardinality(out[1].applied) = Cardinality(new)
            /\ out[1].applied \cup out[1].skipped = ToSet(in.requested)

\* A policy that was changed holds for the queue as for the ranker: after
\* expire_ineligible every open suggestion is for a page of the site itself, a
\* pool page the ranker may still offer, or a URL the search may still find, and
\* nothing else was expired. Only whether the page is still there the two see
\* differently: the ranker offers live pages, while a suggestion for a page that
\* is retired stays open (the crawl that retired it expires the undecided ones).
\* Over HTTPS, what the pool evaluation admits the web-search one admits as well:
\* the two hold the same hard guards.
PolicySettled ==
    Done("policy") =>
        LET sites == SitesOf(in)
            articles == ArticlesOf(in.retired)
            allowed == AllowedTargets(in.policy, in.owned, 1, sites, articles)
        IN  /\ QueueSettled(in.policy, in.owned, 1, sites, articles, PolicyRows, out[1].rows)
            /\ SameGuards(in.policy, in.owned, 1, sites, articles)
            /\ \A s \in {2, 3} : out[1].sources[s].eligible = Cardinality({a \in articles : a.site = s /\ a.id \in allowed})

\* fill_external_suggestion_gap: no more suggestions than open slots, no page
\* twice nor one already suggested, however its address is spelled, none a
\* guard forbids, none worse than one that was left out; and nothing at all
\* when the site has external links switched off.
GapFilledOnce ==
    Done("gap") => FilledOnce(in, out[1].results) /\ (~in.policy.enabled => out[1].results = <<>>)

\* _verify: what is stored is the article's own text, never the model's: the
\* passage and in it the anchor stand character for character in the part of
\* the article the model was shown, and the anchor is a part of the passage.
\* An answer that quotes them exactly is not refused.
PlacementsVerbatim ==
    Done("verify") => Verbatim(in.passage, in.anchor, in.content, out[1])
==============================================================================
