-------------------------- MODULE PublicationCohort --------------------------
(***************************************************************************)
(* Which selected suggestions one preparation renders, article by article, *)
(* and in which order: `grouped_batch` of                                  *)
(* app/services/publication_plan_service.py as pure operators.             *)
(*                                                                         *)
(* A suggestion is named by its primary key, a natural number.  `row` maps *)
(* it to the columns the selection reads:                                  *)
(*    source, target  the two articles (`target` is NoArticle for a link   *)
(*                    to a page outside the managed sites);                *)
(*    url             the href that is written;                            *)
(*    score, bm25     the two ranking scores.                              *)
(***************************************************************************)
EXTENDS Ordering, Sequences, SequencesExt

CONSTANT NoArticle

(* _direction_rank: which way round a reciprocal pair is written. *)
DirectionBefore(row, s, t) ==
    \/ row[s].score > row[t].score
    \/ row[s].score = row[t].score /\ s < t

(* _publication_rank: anchor arbitration inside one article. *)
PublicationBefore(row, s, t) ==
    \/ row[s].bm25 > row[t].bm25
    \/ /\ row[s].bm25 = row[t].bm25
       /\ DirectionBefore(row, s, t)

(* The two rows propose the same link in opposite directions. *)
Reciprocal(row, s, t) ==
    /\ row[s].source = row[t].target
    /\ row[s].target = row[t].source

ReverseApplied(row, applied, s) == \E t \in applied : Reciprocal(row, s, t)

(* Rows of the same unordered pair of articles. *)
PairRows(row, eligible, s) ==
    {t \in eligible : {row[t].source, row[t].target} = {row[s].source, row[s].target}}

(* A row is kept when its direction is the direction of the pair's best row. *)
Kept(row, eligible) ==
    {s \in eligible :
        \E t \in PairRows(row, eligible, s) :
            /\ row[t].source = row[s].source
            /\ \A u \in PairRows(row, eligible, s) \ {t} : DirectionBefore(row, t, u)}

(* Mutant: the narrowing comes before the choice of direction. *)
NarrowFirst(row, selected, applied, only) ==
    Kept(row, {s \in selected \cap only : ~ReverseApplied(row, applied, s)})

(* The narrowing to `only` comes last, after the site's own rules. *)
Chosen(row, selected, applied, only) ==
    Kept(row, {s \in selected : ~ReverseApplied(row, applied, s)}) \cap only

(* Selections whose link already exists the other way round. *)
Superseded(row, selected, applied, only) ==
    {s \in selected : ReverseApplied(row, applied, s)} \cap only

(* The rows of one source article in the order of anchor arbitration. *)
GroupOf(row, chosen, a) ==
    LET rows == {s \in chosen : row[s].source = a}
    IN  [source |-> a,
         ids |-> InOrder(rows, {st \in rows \X rows : PublicationBefore(row, st[1], st[2])})]

(* The score an article is ranked by is that of its first row. *)
GroupBefore(row, g, h) ==
    LET Best(k) == row[k.ids[1]].score
    IN  \/ Best(g) > Best(h)
        \/ Best(g) = Best(h) /\ g.source < h.source

(* One group per source article, best article first. *)
GroupedBatch(row, selected, applied, only) ==
    LET chosen == Chosen(row, selected, applied, only)
        groups == {GroupOf(row, chosen, row[s].source) : s \in chosen}
    IN  InOrder(groups, {gh \in groups \X groups : GroupBefore(row, gh[1], gh[2])})

------------------------------------------------------------------------------
BatchRows(batch) == UNION {ToSet(batch[i].ids) : i \in DOMAIN batch}

(* What grouped_batch promises of its result: never both directions of a   *)
(* pair, nor the reverse of a link that is already applied; a row it       *)
(* leaves out has its reverse applied or chosen instead; naming links to   *)
(* publish never changes the verdict on a link, only cuts the full batch   *)
(* down to those named; and every row is in the group of its own article,  *)
(* in the order of anchor arbitration, the best article first.             *)
BatchExact(row, selected, applied, only, batch) ==
    LET rows == BatchRows(batch)
    IN  /\ \A s \in rows, t \in rows \cup applied : ~Reciprocal(row, s, t)
        /\ \A s \in (selected \cap only) \ rows :
              \/ ReverseApplied(row, applied, s)
              \/ \E t \in selected : /\ Reciprocal(row, s, t)
                                     /\ ~ReverseApplied(row, applied, t)
                                     /\ t \in only => t \in rows
        /\ rows = BatchRows(GroupedBatch(row, selected, applied, selected)) \cap only
        /\ \A i \in DOMAIN batch :
              /\ \A k \in DOMAIN batch[i].ids : row[batch[i].ids[k]].source = batch[i].source
              /\ \A k, l \in DOMAIN batch[i].ids : k < l =>
                    PublicationBefore(row, batch[i].ids[k], batch[i].ids[l])
        /\ \A i, j \in DOMAIN batch : i < j =>
              batch[i].source # batch[j].source /\ GroupBefore(row, batch[i], batch[j])
==============================================================================
