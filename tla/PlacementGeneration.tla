------------------------- MODULE PlacementGeneration --------------------------
(***************************************************************************)
(* Where a link goes in its source article: app/services/                  *)
(* placement_service.py and its two callers, the review drawer             *)
(* (`get_suggestion_placement`) and the pass before a preparation          *)
(* (`generate_missing_placements`).  Both read the database, ask a model   *)
(* for seconds without a transaction, and store what it answered; between  *)
(* the two moments rows are reviewed, deleted and placed by the other.     *)
(***************************************************************************)
EXTENDS Ordering, SequencesExt

CONSTANTS
    Offers,          \* suggestion ids
    SourceOf,        \* suggestion -> source article
    Anchors,         \* phrases of the articles
    Casefold,        \* phrase -> its case-folded form
    Drawers,         \* open review drawers
    Budgets,         \* values of publish_max_placement_calls_per_run
    MaxPasses,       \* preparations, a bound
    MinAnchorChars, MaxAnchorChars,
    MaxSourceChars,  \* placement_max_source_chars
    Unset,           \* placement_generated_at is NULL
    Nothing          \* no phrase, no passage

(* anchor is Nothing when nothing fits; `by` and `seen` are history: who   *)
(* generated it, and the rows whose phrases were then known as taken.      *)
Placements == [anchor : Anchors \cup {Nothing}, by : Drawers \cup 1..MaxPasses, seen : SUBSET Offers]

ASSUME PlaceAssumptions ==
    /\ Offers \subseteq Nat \ {0} /\ IsFiniteSet(Offers) /\ SourceOf \in [Offers -> Nat]
    /\ Budgets \subseteq Nat /\ MaxPasses \in Nat
    /\ {MinAnchorChars, MaxAnchorChars, MaxSourceChars} \subseteq Nat \ {0}
    /\ Drawers \cap (1..MaxPasses) = {}
    /\ Unset \notin Placements

VARIABLES
    link,            \* suggestion -> its status, or "gone"
    place,           \* suggestion -> Unset or its placement
    drawer,          \* drawer -> [link, seen, taken], link 0 when closed
    pass,            \* the preparations' pass: [n, work]
    shown            \* what a drawer last answered: a suggestion with its placement

placeVars == <<link, place, drawer, pass, shown>>

-----------------------------------------------------------------------------
(* Checking the answer of the model.  A text is a sequence of characters.  *)

Lower(c) == IF c = "A" THEN "a" ELSE c
Folded(s) == [i \in DOMAIN s |-> Lower(s[i])]

(* Runs of white space become one space, none at the ends. *)
Normalize(s) ==
    LET inner == {i \in DOMAIN s : s[i] # " "}
        keep == {i \in DOMAIN s : \/ s[i] # " "
                                  \/ /\ i > 1 /\ s[i - 1] # " "
                                     /\ \E j \in inner : j > i}
    IN  [n \in 1..Cardinality(keep) |->
            s[CHOOSE i \in keep : Cardinality({j \in keep : j <= i}) = n]]

Positions(needle, hay) ==
    {i \in 1..(Len(hay) - Len(needle) + 1) : SubSeq(hay, i, i + Len(needle) - 1) = needle}

(* Mutant: the words of the model instead of those of the article. *)
LocateModels(needle, hay) ==
    IF needle # <<>> /\ Positions(Folded(needle), Folded(hay)) # {} THEN needle ELSE Nothing

(* The needle as the text has it: exactly, or else the first place where   *)
(* only the case differs.                                                  *)
Locate(needle, hay) ==
    LET at == Positions(Folded(needle), Folded(hay))
        first == CHOOSE i \in at : \A j \in at : i <= j
    IN  IF needle = <<>> \/ at = {} THEN Nothing
        ELSE IF Positions(needle, hay) # {} THEN needle
        ELSE SubSeq(hay, first, first + Len(needle) - 1)

(* The part of the article that the model was shown. *)
Slice(content) ==
    Normalize(SubSeq(content, 1, IF Len(content) < MaxSourceChars THEN Len(content) ELSE MaxSourceChars))

(* _verify *)
Verify(passage, anchor, content) ==
    LET p == Locate(Normalize(passage), Slice(content))
        a == IF p = Nothing THEN Nothing ELSE Locate(Normalize(anchor), p)
    IN  IF a = Nothing THEN Nothing
        ELSE IF Len(a) \notin MinAnchorChars..MaxAnchorChars \/ Len(a) = Len(p) THEN Nothing
        ELSE [context |-> p, anchor |-> a]

-----------------------------------------------------------------------------
(* The race for the row                                                    *)

CLAIMS_AN_ANCHOR == {"pending", "approved", "applying", "applied"}

Placement(anchor, by, seen) == [anchor |-> anchor, by |-> by, seen |-> seen]

Siblings(s) == {t \in Offers \ {s} : SourceOf[t] = SourceOf[s] /\ link[t] # "gone"}
HasAnchor(t) == place[t] # Unset /\ place[t].anchor # Nothing

(* generate: an answer that is already taken is no answer. *)
Generate(answer, taken) ==
    IF answer # Nothing /\ \E a \in taken : Casefold[a] = Casefold[answer] THEN Nothing ELSE answer

(* Mutant: the last generation wins. *)
StoredLast(s, p, now) == IF link[s] = "gone" THEN now ELSE p

(* store: only a row without a placement takes one. *)
Stored(s, p, now) == IF link[s] # "gone" /\ now = Unset THEN p ELSE now

Closed == [link |-> 0, seen |-> {}, taken |-> {}]

(* A question to the model: the rows known to have a phrase, the phrases. *)
Question(s, rows) == [link |-> s, seen |-> rows, taken |-> {place[t].anchor : t \in rows}]

PlaceInit ==
    /\ link \in [Offers -> {"pending", "approved"}]
    /\ place = [s \in Offers |-> Unset]
    /\ drawer = [d \in Drawers |-> Closed]
    /\ pass = [n |-> 0, work |-> <<>>]
    /\ shown = <<>>

(* get_suggestion_placement: the row's own placement, or the siblings' phrases. *)
DrawerOpen(d, s) ==
    /\ drawer[d] = Closed
    /\ link[s] # "gone"
    /\ IF place[s] # Unset
       THEN shown' = <<s, place[s]>> /\ UNCHANGED drawer
       ELSE /\ drawer' = [drawer EXCEPT ![d] =
                  Question(s, {t \in Siblings(s) : HasAnchor(t) /\ link[t] \in CLAIMS_AN_ANCHOR})]
            /\ UNCHANGED shown
    /\ UNCHANGED <<link, place, pass>>

(* The answer is stored, and the drawer shows what the row then holds. *)
DrawerStore(d, answer) ==
    LET s == drawer[d].link
        p == Placement(Generate(answer, drawer[d].taken), d, drawer[d].seen)
    IN  /\ drawer[d] # Closed
        /\ place' = [place EXCEPT ![s] = Stored(s, p, @)]
        /\ shown' = IF link[s] = "gone" THEN shown ELSE <<s, place'[s]>>
        /\ drawer' = [drawer EXCEPT ![d] = Closed]
        /\ UNCHANGED <<link, pass>>

(* OpenRouterError: nothing is written, the next drawer asks again. *)
DrawerFails(d) ==
    /\ drawer[d] # Closed
    /\ drawer' = [drawer EXCEPT ![d] = Closed]
    /\ UNCHANGED <<link, place, pass, shown>>

(* The cohort's rows of one source article. *)
Group(a) == {s \in Offers : link[s] = "approved" /\ SourceOf[s] = a}

(* What is missing, article by article and each in its order (by id here), *)
(* as far as the budget goes.                                              *)
Missing ==
    LET rows == {s \in Offers : link[s] = "approved" /\ place[s] = Unset}
    IN  InOrder(rows, {st \in rows \X rows : \/ SourceOf[st[1]] < SourceOf[st[2]]
                                             \/ SourceOf[st[1]] = SourceOf[st[2]] /\ st[1] < st[2]})

Affordable(n) == SubSeq(Missing, 1, IF Len(Missing) < n THEN Len(Missing) ELSE n)

PassRead(n) ==
    /\ pass.n < MaxPasses
    /\ pass.work = <<>>
    /\ Affordable(n) # <<>>
    /\ LET asked(s) == Question(s, {t \in Group(SourceOf[s]) : HasAnchor(t)})
       IN  pass' = [n |-> pass.n + 1, work |-> [i \in DOMAIN Affordable(n) |-> asked(Affordable(n)[i])]]
    /\ UNCHANGED <<link, place, drawer, shown>>

(* _generate_for_source: in order, each answer is taken for the next; a    *)
(* call that fails is dropped.                                             *)
GivenBefore(work, got, i) ==
    {got[j] : j \in {k \in 1..(i - 1) : /\ SourceOf[work[k].link] = SourceOf[work[i].link]
                                        /\ got[k] \in Anchors}}

Outcome(work, answers, got, i) ==
    IF answers[i] = "failed" THEN "failed"
    ELSE Generate(answers[i], work[i].taken \cup GivenBefore(work, got, i))

Answered(work, answers) ==
    LET got[i \in DOMAIN work] == Outcome(work, answers, got, i)
    IN  got

(* All answers are stored in one transaction. *)
PassStore ==
    /\ pass.work # <<>>
    /\ \E answers \in [DOMAIN pass.work -> Anchors \cup {Nothing, "failed"}] :
          LET got == Answered(pass.work, answers)
              at(s) == {i \in DOMAIN pass.work : pass.work[i].link = s /\ got[i] # "failed"}
          IN  place' = [s \in Offers |->
                  IF at(s) = {} THEN place[s]
                  ELSE LET i == CHOOSE i \in at(s) : TRUE
                       IN  Stored(s, Placement(got[i], pass.n, pass.work[i].seen), place[s])]
    /\ pass' = [pass EXCEPT !.work = <<>>]
    /\ UNCHANGED <<link, drawer, shown>>

(* Reviews, publication and expiry beside it; a row leaves with its site   *)
(* or article.                                                             *)
Reviewed(s, status) ==
    /\ link[s] \notin {"gone", status}
    /\ link' = [link EXCEPT ![s] = status]
    /\ UNCHANGED <<place, drawer, pass, shown>>

PlaceNext ==
    \/ \E d \in Drawers : \/ \E s \in Offers : DrawerOpen(d, s)
                          \/ \E answer \in Anchors \cup {Nothing} : DrawerStore(d, answer)
                          \/ DrawerFails(d)
    \/ \E n \in Budgets : PassRead(n)
    \/ PassStore
    \/ \E s \in Offers, status \in {"approved", "rejected", "gone"} : Reviewed(s, status)

PlaceSpec == PlaceInit /\ [][PlaceNext]_placeVars

-----------------------------------------------------------------------------
(* Properties                                                              *)

(* get_suggestion_placement and store: the first answer stands. What a     *)
(* drawer has shown is what the row holds from then on, whoever stored it. *)
PlacementStands ==
    shown # <<>> /\ link[shown[1]] # "gone" => place[shown[1]] = shown[2]

(* generate and _generate_for_source: a phrase is never one that its       *)
(* generation knew to be taken, nor one the same pass gave to another link *)
(* of the article, although rows are placed by others meanwhile.           *)
AnchorsApart ==
    \A s \in Offers : HasAnchor(s) => \A t \in Siblings(s) :
        (t \in place[s].seen \/ (HasAnchor(t) /\ place[s].by = place[t].by /\ place[s].by \in 1..MaxPasses))
        => HasAnchor(t) /\ Casefold[place[t].anchor] # Casefold[place[s].anchor]

(* A row's placement, whichever of drawers and passes gave it: the first   *)
(* answer stands, and its phrase keeps apart from those it knew of.        *)
PlacementsAgree == PlacementStands /\ AnchorsApart

(* What is stored stands in what was shown, the phrase within the passage  *)
(* and shorter than it; a model that quotes exactly is not refused.        *)
Verbatim(passage, anchor, content, answer) ==
    LET source == Slice(content)
        quoted == /\ Normalize(passage) = passage /\ Normalize(anchor) = anchor
                  /\ passage # <<>> /\ Len(anchor) \in MinAnchorChars..MaxAnchorChars
                  /\ Len(anchor) < Len(passage)
                  /\ Positions(passage, source) # {} /\ Positions(anchor, passage) # {}
    IN  /\ answer # Nothing => /\ Positions(answer.context, source) # {}
                               /\ Positions(answer.anchor, answer.context) # {}
                               /\ Len(answer.anchor) < Len(answer.context)
        /\ quoted => answer = [context |-> passage, anchor |-> anchor]
==============================================================================
