-------------------------- MODULE CandidateRanking ---------------------------
(***************************************************************************)
(* How the candidates of one article are found and ordered: the hybrid     *)
(* ranker, the graph and feedback reranking and the final cut, as pure     *)
(* operators; and the link graph they look at with its simulation.         *)
(*                                                                         *)
(* Cosine scores are thousandths, BM25 scores naturals; fractions are      *)
(* compared by cross-multiplication.                                       *)
(***************************************************************************)
EXTENDS Integers, Sequences, SequencesExt, FiniteSets, FiniteSetsExt

CONSTANTS
    PoolSize,           \* DENSE_POOL_SIZE = LEXICAL_POOL_SIZE
    Boost,              \* graph_max_relevance_boost, in thousandths
    UnderlinkedMax,     \* graph_underlinked_max_in_degree
    HubMin,             \* graph_hub_min_out_degree
    SaturationMin       \* graph_saturation_min_in_degree

ASSUME RankingAssumptions ==
    /\ PoolSize \in Nat \ {0}
    /\ {Boost, UnderlinkedMax, HubMin, SaturationMin} \subseteq Nat

\* seq in the order of its positions under before, a strict total order.
Ordered(seq, before(_, _)) ==
    LET at == SetToSortSeq(DOMAIN seq, before) IN [i \in DOMAIN seq |-> seq[at[i]]]

Cut(seq, n) == SubSeq(seq, 1, IF n < Len(seq) THEN n ELSE Len(seq))

-----------------------------------------------------------------------------
(* HybridRanker.rank: the lexical half is checked page by page.            *)

\* Mutant: the first page is all that is checked.
OnePage(ranked) == <<0>>

PageStarts(ranked) == [k \in 1..((Len(ranked) + PoolSize - 1) \div PoolSize) |-> (k - 1) * PoolSize]

\* `dense` passed the eligibility query already; the others are asked about.
LexicalPool(ranked, dense, eligible) ==
    LET Page(start) == SubSeq(ranked, start + 1, IF start + PoolSize < Len(ranked) THEN start + PoolSize
                                                ELSE Len(ranked))
        Walk(pool, start) ==
            IF Len(pool) >= PoolSize THEN pool
            ELSE pool \o SelectSeq(Page(start), LAMBDA t : t \in dense \cup eligible)
    IN  Cut(FoldLeft(Walk, <<>>, PageStarts(ranked)), PoolSize)

(* weighted_rrf_scores: 0.25 / (10 + rank) and 1 / (10 + rank), times 4n.  *)
Scale == 11 * 12 * 13 * 14
RankIn(ranking, t) == IF t \in ToSet(ranking) THEN CHOOSE i \in DOMAIN ranking : ranking[i] = t ELSE 0
Share(ranking, weight, t) ==
    IF t \in ToSet(ranking) THEN weight * (Scale \div (10 + RankIn(ranking, t))) ELSE 0

FusionScore(dense, lexical, t) == Share(dense, 1, t) + Share(lexical, 4, t)

BestRank(dense, lexical, t) == Min({RankIn(dense, t), RankIn(lexical, t)} \ {0})

FusedBefore(dense, lexical, s, t) ==
    LET a == FusionScore(dense, lexical, s)
        b == FusionScore(dense, lexical, t)
        r == BestRank(dense, lexical, s) - BestRank(dense, lexical, t)
    IN  a > b \/ (a = b /\ (r < 0 \/ (r = 0 /\ s < t)))

Fused(dense, lexical) ==
    SetToSortSeq(ToSet(dense) \cup ToSet(lexical), LAMBDA s, t : FusedBefore(dense, lexical, s, t))

\* rank_hybrid_candidates: BM25 first, the fused order among equals.
HybridOrder(dense, lexical, bm25, limit) ==
    LET fused == Fused(Cut(dense, PoolSize), Cut(lexical, PoolSize))
    IN  Cut(Ordered(fused, LAMBDA i, j : bm25[fused[i]] > bm25[fused[j]]
                                           \/ (bm25[fused[i]] = bm25[fused[j]] /\ i < j)), limit)

-----------------------------------------------------------------------------
(* compute_graph, graph_counts, simulate_graph                             *)

Links(nodes, edges) == {e \in edges : e[1] \in nodes /\ e[2] \in nodes /\ e[1] # e[2]}

Feature(nodes, edges, n) ==
    LET in == Cardinality({e \in Links(nodes, edges) : e[2] = n})
        out == Cardinality({e \in Links(nodes, edges) : e[1] = n})
    IN  [inDegree |-> in, outDegree |-> out, orphan |-> in = 0, underlinked |-> in <= UnderlinkedMax,
         hub |-> out >= HubMin, saturated |-> in >= SaturationMin]

ComputeGraph(nodes, edges) == [n \in nodes |-> Feature(nodes, edges, n)]

Count(features, flag) == Cardinality({n \in DOMAIN features : features[n][flag]})

\* Mutant: a repeated proposal is written again.
RepeatsApply(known, e) == TRUE

IsNew(known, e) == e \notin known

Propose(nodes, current, so, e) ==
    CASE ~IsNew(current \cup ToSet(so.applied), e) -> [so EXCEPT !.duplicates = Append(@, e)]
      [] IsNew(current \cup ToSet(so.applied), e) /\ Links(nodes, {e}) # {} ->
            [so EXCEPT !.applied = Append(@, e)]
      [] OTHER -> so

Sifted(nodes, current, proposed) ==
    LET upTo[n \in 0..Len(proposed)] ==
            IF n = 0 THEN [applied |-> <<>>, duplicates |-> <<>>]
            ELSE Propose(nodes, current, upTo[n - 1], proposed[n])
    IN  upTo[Len(proposed)]

Simulate(nodes, edges, proposed) ==
    LET current == Links(nodes, edges)
        found == Sifted(nodes, current, proposed)
        written == current \cup ToSet(found.applied)
        before == ComputeGraph(nodes, current)
        after == ComputeGraph(nodes, written)
        share(n) == Cardinality({i \in DOMAIN found.applied : found.applied[i][2] = n})
    IN  [applied |-> found.applied, duplicates |-> found.duplicates,
         orphansBefore |-> Count(before, "orphan"), orphansAfter |-> Count(after, "orphan"),
         linksAfter |-> Cardinality(Links(nodes, written)),
         connected |-> {n \in nodes : before[n].orphan /\ ~after[n].orphan},
         saturated |-> {n \in nodes : ~before[n].saturated /\ after[n].saturated},
         concentration |-> IF found.applied = <<>> THEN 0 ELSE Max({share(n) : n \in nodes})]

\* simulate_graph_application: the suggestions an editor selected, of which a
\* row is [source, target, status], target 0 for a page of the web. One that
\* is missing or not approved refuses the request; one that leaves the graph
\* is skipped; of two for the same link the first counts.
SimulateSelection(nodes, edges, rows, requested) ==
    LET ids == FoldLeft(LAMBDA s, id : IF id \in ToSet(s) THEN s ELSE Append(s, id), <<>>, requested)
        pair(id) == <<rows[id].source, rows[id].target>>
        inside == SelectSeq(ids, LAMBDA id : {rows[id].source, rows[id].target} \subseteq nodes)
        simulation == Simulate(nodes, edges, [i \in DOMAIN inside |-> pair(inside[i])])
        first(e) == inside[Min({i \in DOMAIN inside : pair(inside[i]) = e})]
        applied == {first(e) : e \in ToSet(simulation.applied)}
    IN  IF ~(ToSet(ids) \subseteq DOMAIN rows) THEN [error |-> 404]
        ELSE IF \E id \in ToSet(ids) : rows[id].status # "approved" THEN [error |-> 409]
        ELSE [error |-> 0, simulation |-> simulation, applied |-> applied, skipped |-> ToSet(ids) \ applied]

-----------------------------------------------------------------------------
(* deterministic_rerank; a candidate is [id, score], order is incoming.    *)

Opportunity(features, source, target) ==
    LET f == features[target]
        base == IF f.saturated THEN 0 ELSE IF f.orphan THEN 100 ELSE IF f.underlinked THEN 65 ELSE 0
    IN  IF target \notin DOMAIN features THEN 0
        ELSE IF source \in DOMAIN features /\ features[source].saturated THEN base * 75 ELSE base * 100

Adjustment(features, source, c, mode, floor) ==
    IF mode = "active" /\ c.score >= floor THEN Boost * Opportunity(features, source, c.id) ELSE 0

GraphRerank(candidates, features, source, mode, floor) ==
    LET adjusted(i) == candidates[i].score * 10000 + Adjustment(features, source, candidates[i], mode, floor)
    IN  IF mode # "active" THEN candidates
        ELSE Ordered(candidates, LAMBDA i, j : adjusted(i) > adjusted(j) \/ (adjusted(i) = adjusted(j) /\ i < j))

-----------------------------------------------------------------------------
(* editorial_feedback.py                                                   *)

ScorePercent(score) == LET p == (score + 5) \div 10 IN IF p > 100 THEN 100 ELSE IF p < 0 THEN 0 ELSE p

ScoreBucket(percent) == CASE percent < 60 -> 0 [] percent \in 60..69 -> 60 [] percent \in 70..79 -> 70
                          [] percent \in 80..89 -> 80 [] OTHER -> 90

Accepted == {"approved", "applying", "applied", "failed"}
Decided == Accepted \cup {"rejected"}

\* The profile of a history, a sequence of [score, status]; <<>> when feedback
\* must not steer: off, no weight, or too few decisions.
Feedback(history, enabled, weight, minSamples) ==
    LET decided == SelectSeq(history, LAMBDA h : h.status \in Decided)
        in(b, statuses) == Cardinality({i \in DOMAIN decided :
            ScoreBucket(ScorePercent(decided[i].score)) = b /\ decided[i].status \in statuses})
    IN  IF ~enabled \/ weight = 0 \/ Len(decided) < minSamples THEN <<>>
        ELSE <<[accepted |-> [b \in {0, 60, 70, 80, 90} |-> in(b, Accepted)],
                samples |-> [b \in {0, 60, 70, 80, 90} |-> in(b, Decided)]]>>

Total(f) == f[0] + f[60] + f[70] + f[80] + f[90]

\* _smoothed_acceptance as a numerator and a denominator: five prior samples.
Acceptance(profile, score) ==
    LET b == ScoreBucket(ScorePercent(score))
        rate == IF Total(profile.samples) = 0 THEN <<1, 2>>
                ELSE <<Total(profile.accepted), Total(profile.samples)>>
    IN  <<profile.accepted[b] * rate[2] + 5 * rate[1], (profile.samples[b] + 5) * rate[2]>>

\* weight is in tenths.
FeedbackRerank(candidates, profile, weight) ==
    LET den == Max({1, Len(candidates) - 1})
        combined(i) ==
            LET acc == Acceptance(profile, candidates[i].score)
            IN  <<(10 - weight) * (den - (i - 1)) * acc[2] + weight * acc[1] * den, 10 * den * acc[2]>>
        before(i, j) == LET l == combined(i)[1] * combined(j)[2]
                            r == combined(j)[1] * combined(i)[2]
                        IN  l > r \/ (l = r /\ i < j)
    IN  Ordered(candidates, before)

-----------------------------------------------------------------------------
(* order_candidates                                                        *)

Qualified(candidates, minPercent, remaining) ==
    SelectSeq(candidates, LAMBDA c : ScorePercent(c.score) >= minPercent)

OrderCandidates(q) ==
    LET qualified == Qualified(q.candidates, q.minPercent, q.remaining)
        graphed == IF q.method = "hybrid_bm25" /\ DOMAIN q.features # {}
                   THEN GraphRerank(qualified, q.features, q.source, q.mode, q.floor) ELSE qualified
        profile == Feedback(q.history, q.enabled, q.weight, q.minSamples)
        steered == IF profile # <<>> THEN FeedbackRerank(graphed, profile[1], q.weight) ELSE graphed
    IN  Cut(steered, q.remaining)

-----------------------------------------------------------------------------
(* Properties                                                              *)

\* What is predicted is the graph with the proposed links written into it.
Predicts(nodes, edges, proposed, r) ==
    LET before == Links(nodes, edges)
        after == Links(nodes, edges \cup ToSet(proposed))
        orphans(E) == {n \in nodes : ~\E e \in E : e[2] = n}
    IN  /\ r.linksAfter = Cardinality(after)
        /\ r.orphansAfter = Cardinality(orphans(after))
        /\ r.connected = orphans(before) \ orphans(after)
        /\ ToSet(r.applied) = after \ before
        /\ Len(r.applied) = Cardinality(after \ before)
==============================================================================
