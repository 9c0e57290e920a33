---------------------------- MODULE LinkInsertion ----------------------------
(***************************************************************************)
(* Rendering approved links into one article: `preview_links` of the       *)
(* WordPress connector and what it calls, and of the static-HTML one.      *)
(*                                                                         *)
(* A post is a sequence of tokens: opening and closing tags, words, and    *)
(* the text of markup: `attr` in a tag, following its token, and `raw` in  *)
(* a comment, a script, an attribute in single quotes and, on WordPress, a *)
(* shortcode. A link written into the prose by LinkMesh carries the mark   *)
(* `ours`. Offsets are token positions; an anchor or a title is a sequence *)
(* of words. No anchor stands in an address.                               *)
(***************************************************************************)
EXTENDS Integers, Sequences, SequencesExt, FiniteSets

CONSTANTS
    MaxInText,      \* publish_max_in_text_links_per_article
    MinGap,         \* publish_min_in_text_gap_chars, in tokens
    NoHref

Tag(k, name) == [k |-> k, name |-> name, href |-> NoHref, ours |-> FALSE]
Word(w) == Tag("word", w)
Link(href, ours) == [k |-> "open", name |-> "a", href |-> href, ours |-> ours]
EndLink == Tag("close", "a")
\* The label of the block is one token: no anchor is linked inside a link.
ReadAlso(href, anchor) == <<Tag("open", "p"), Link(href, FALSE), Word(anchor), EndLink, Tag("close", "p")>>

-----------------------------------------------------------------------------
(* _prose_regions                                                          *)

SpliceText == {"p", "li", "dd"}
SpliceOk == SpliceText \cup {"div", "section", "article", "main", "ul", "ol", "dl", "em", "strong",
                            "b", "i", "u", "span", "small", "sub", "sup", "mark"}
Void == {"area", "base", "br", "col", "embed", "hr", "img", "input", "link", "meta",
         "param", "source", "track", "wbr"}

\* A closing tag closes its innermost opening one and all that is open inside.
Close(stack, name) ==
    IF name \in ToSet(stack) THEN SubSeq(stack, 1, SelectLastInSeq(stack, LAMBDA t : t = name) - 1)
    ELSE stack

Step(stack, token) ==
    CASE token.k = "close" -> Close(stack, token.name)
      [] token.k = "open" /\ token.name \notin Void -> Append(stack, token.name)
      [] OTHER -> stack

\* Mutant: a paragraph around it makes any text prose.
ParagraphOpen(stack) == stack = <<>> \/ ToSet(stack) \cap SpliceText # {}

ProseOpen(stack) ==
    /\ ToSet(stack) \subseteq SpliceOk
    /\ stack = <<>> \/ ToSet(stack) \cap SpliceText # {}

OpenAt(content, i) == FoldLeft(Step, <<>>, SubSeq(content, 1, i - 1))

\* A span lies in one region: words all through, prose where it begins.
InProse(content, from, to) ==
    /\ \A i \in from..to : content[i].k = "word"
    /\ ProseOpen(OpenAt(content, from))

-----------------------------------------------------------------------------
(* _anchor_span, _crowds_existing_link, _insert_link                       *)

\* Words in a row, within running text or within one piece of markup.
Occurs(content, anchor, i) ==
    /\ i + Len(anchor) - 1 <= Len(content)
    /\ \E kind \in {"word", "loose", "raw", "attr"} : \A j \in 1..Len(anchor) :
          content[i + j - 1].k = kind /\ content[i + j - 1].name = anchor[j]

\* Matches do not overlap: the scan goes on behind the last one.
Scan(content, anchor, found, i) ==
    IF Occurs(content, anchor, i) /\ \A j \in found : j + Len(anchor) <= i
    THEN found \cup {i} ELSE found

Matches(content, anchor) ==
    LET upTo[i \in 0..Len(content)] == IF i = 0 THEN {} ELSE Scan(content, anchor, upTo[i - 1], i)
    IN  upTo[Len(content)]

Spans(content, anchor) ==
    {i \in Matches(content, anchor) : InProse(content, i, i + Len(anchor) - 1)}

\* The one place the anchor can be linked, or 0.
AnchorSpan(content, anchor) ==
    IF Cardinality(Spans(content, anchor)) = 1 THEN CHOOSE i \in Spans(content, anchor) : TRUE ELSE 0

Ours(content) == {i \in DOMAIN content : content[i].ours}

Crowds(content, from, to) ==
    MinGap > 0 /\ \E i \in Ours(content) : from - MinGap < i /\ i < to + MinGap

AtLimit(content) == Cardinality(Ours(content)) >= MaxInText

Wrap(content, from, to, opening, closing) ==
    SubSeq(content, 1, from - 1) \o <<opening>> \o SubSeq(content, from, to)
        \o <<closing>> \o SubSeq(content, to + 1, Len(content))

Splice(content, from, to, href) == Wrap(content, from, to, Link(href, TRUE), EndLink)

\* s is a suggestion: its target, the target's title, and its anchor, empty
\* when it has none.
InsertLink(content, s) ==
    LET from == IF s.anchor # <<>> /\ ~AtLimit(content) THEN AnchorSpan(content, s.anchor) ELSE 0
        to == from + Len(s.anchor) - 1
    IN  IF from # 0 /\ ~Crowds(content, from, to)
        THEN [content |-> Splice(content, from, to, s.target), outcome |-> "inserted"]
        ELSE [content |-> content \o ReadAlso(s.target, s.target), outcome |-> "block"]

-----------------------------------------------------------------------------
(* preview_links                                                           *)

Hrefs(content) == {content[i].href : i \in {j \in DOMAIN content : content[j].k = "open" /\ content[j].name = "a"}}

Linked(existing, s) == existing \cup {s.target}

PreviewStep(so, s) ==
    IF s.target \in so.existing
    THEN [so EXCEPT !.outcomes = Append(@, "already_present")]
    ELSE LET r == InsertLink(so.content, s)
         IN  [content |-> r.content, existing |-> Linked(so.existing, s),
              outcomes |-> Append(so.outcomes, r.outcome)]

Preview(content, suggestions) ==
    LET after[n \in 0..Len(suggestions)] ==
            IF n = 0 THEN [content |-> content, existing |-> Hrefs(content), outcomes |-> <<>>]
            ELSE PreviewStep(after[n - 1], suggestions[n])
    IN  after[Len(suggestions)]

\* The static-site export looks for the first place of the anchor, or of the
\* title, in the bytes of the page, and for the links of the parsed page anew
\* each time. What is not inside an element `a` there is wrapped, in markup too.
SearchedFor(s) == IF s.anchor # <<>> THEN s.anchor ELSE s.title

\* A link whose tags went into markup: no parser sees them, the next search of
\* the bytes does. They are `<a ` and `</a>` all the same.
BuriedLink == Tag("rawopen", "a")
BuriedEnd == Tag("rawclose", "a")

\* The bracket of the buried tag ends the tag it went into: what stood behind it
\* there is text of the page from then on.
Freed(content, from) ==
    [i \in DOMAIN content |->
        IF i >= from /\ \A j \in from..i : content[j].k = "attr"
        THEN Tag("loose", content[i].name) ELSE content[i]]

Bury(content, from, to) == Wrap(Freed(content, from), from, to, BuriedLink, BuriedEnd)

InsideLink(content, from) ==
    LET before(kinds) == {i \in 1..(from - 1) : content[i].k \in kinds /\ content[i].name = "a"}
    IN  \E i \in before({"open", "rawopen"}) : \A j \in before({"close", "rawclose"}) : j < i

\* `lost` collects the links that went into markup: reported as inserted.
StaticStep(so, s) ==
    LET anchor == SearchedFor(s)
        places == {i \in DOMAIN so.content : anchor # <<>> /\ Occurs(so.content, anchor, i)}
        from == CHOOSE i \in places : \A j \in places : i <= j
        to == from + Len(anchor) - 1
        fits == places # {} /\ ~InsideLink(so.content, from)
        says(outcome) == Append(so.outcomes, outcome)
    IN  CASE s.target \in Hrefs(so.content) -> [so EXCEPT !.outcomes = says("already_present")]
          [] s.target \notin Hrefs(so.content) /\ fits /\ so.content[from].k \in {"word", "loose"} ->
                [so EXCEPT !.outcomes = says("inserted"), !.content = Splice(@, from, to, s.target)]
          [] s.target \notin Hrefs(so.content) /\ fits /\ so.content[from].k \in {"raw", "attr"} ->
                [so EXCEPT !.outcomes = says("inserted"), !.content = Bury(@, from, to),
                           !.lost = @ \cup {Len(says("inserted"))}]
          [] OTHER ->
                [so EXCEPT !.outcomes = says("block"), !.content = @ \o ReadAlso(s.target, s.target)]

StaticPreview(content, suggestions) ==
    LET after[n \in 0..Len(suggestions)] ==
            IF n = 0 THEN [content |-> content, outcomes |-> <<>>, lost |-> {}]
            ELSE StaticStep(after[n - 1], suggestions[n])
    IN  after[Len(suggestions)]

-----------------------------------------------------------------------------
(* Properties                                                              *)

LinksTo(content, t) == Cardinality({i \in DOMAIN content : content[i].k = "open" /\ content[i].href = t})

\* Every selected target is linked exactly once when the post did not link it,
\* and as often as before when it did.
EachLinkedOnce(post, selected, content) ==
    \A k \in DOMAIN selected :
        LET t == selected[k].target
        IN  LinksTo(content, t) = IF LinksTo(post, t) = 0 THEN 1 ELSE LinksTo(post, t)

\* The same, but not for a target all of whose suggestions are lost: it has no
\* link, and nothing else is linked in its place.
EachFoundLinkedOnce(post, selected, content, lost) ==
    \A k \in DOMAIN selected :
        LET t == selected[k].target
        IN  LinksTo(content, t) =
                IF LinksTo(post, t) = 0 /\ \E j \in DOMAIN selected : selected[j].target = t /\ j \notin lost
                THEN 1 ELSE LinksTo(post, t)
==============================================================================
