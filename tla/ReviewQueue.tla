----------------------------- MODULE ReviewQueue ------------------------------
(***************************************************************************)
(* The review queue as the dashboard reads it, a page at a time, while     *)
(* others review, publish and generate suggestions:                        *)
(* `list_suggestion_page` and `_queue_conditions` of                       *)
(* app/api/routes/suggestions.py.  A page is read in one statement;         *)
(* between two pages anything may happen to the rows.                      *)
(***************************************************************************)
EXTENDS Integers, FiniteSets, SequencesExt

CONSTANTS
    RowIds,          \* primary keys, in the order they are given out
    RowScores,       \* scores in thousandths
    PairOf,          \* id -> 1 or 2, the two directions of a pair, or 0
    PageLimit,       \* rows of a page
    MinPercents,     \* thresholds a reader may ask for
    MaxChanges       \* changes by others while the queue is read, a bound

ASSUME QueueAssumptions ==
    /\ RowIds \subseteq Nat /\ IsFiniteSet(RowIds)
    /\ RowScores \subseteq Nat
    /\ PageLimit \in Nat \ {0}

VARIABLES
    queue,           \* id -> [score, status], status "absent" before it is inserted
    reader,          \* [ask, cursor, listed, more]; listed is what it has read so far
    steady,          \* history: the rows that matched ever since the first page
    changes

queueVars == <<queue, reader, steady, changes>>

-----------------------------------------------------------------------------
(* _queue_conditions                                                       *)

(* Math.round(score * 100) >= percent, as a bound on the raw score. *)
PercentBoundary(percent) == 10 * percent - 5

Above(a, b) == queue[a].score > queue[b].score \/ (queue[a].score = queue[b].score /\ a > b)

ReverseOf(a, b) == {PairOf[a], PairOf[b]} = {1, 2}

HasStrongerReverse(a) ==
    \E b \in RowIds : /\ queue[b].status \notin {"absent", "expired"}
                      /\ ReverseOf(b, a) /\ Above(b, a)

(* Without a status the list shows everything but expired rows. *)
InQueue(ask, a) ==
    /\ queue[a].status # "absent"
    /\ IF ask.status = "" THEN queue[a].status # "expired" ELSE queue[a].status = ask.status
    /\ ask.min > 0 => queue[a].score >= PercentBoundary(ask.min)
    /\ ask.oneWay => ~HasStrongerReverse(a)

QueueOf(ask) == {a \in RowIds : InQueue(ask, a)}

-----------------------------------------------------------------------------
(* Mutant: the page starts below the score of the last row. *)
BelowScore(a, cursor) == cursor = <<>> \/ queue[a].score < cursor[1]

(* Strictly below the last tuple of the page before. *)
Below(a, cursor) ==
    \/ cursor = <<>>
    \/ queue[a].score < cursor[1]
    \/ queue[a].score = cursor[1] /\ a < cursor[2]

(* ORDER BY score DESC, id DESC: the i-th row is the one below i - 1 others. *)
BestFirst(ids) ==
    [i \in 1..Cardinality(ids) |-> CHOOSE a \in ids : Cardinality({b \in ids : Above(b, a)}) = i - 1]

FirstRows(s, n) == SubSeq(s, 1, IF Len(s) < n THEN Len(s) ELSE n)

QueueInit ==
    /\ queue \in [RowIds -> [score : RowScores, status : {"pending"}] \cup {[score |-> 0, status |-> "absent"]}]
    /\ \A a \in RowIds : queue[a].status = "absent" => \A b \in RowIds : b > a => queue[b].status = "absent"
    /\ reader = [ask |-> <<>>, cursor |-> <<>>, listed |-> <<>>, more |-> TRUE]
    /\ steady = {}
    /\ changes = 0

(* One page, with one row of look-ahead to know whether there is another. *)
ListPage(ask) ==
    LET rows == BestFirst({a \in QueueOf(ask) : Below(a, reader.cursor)})
        page == FirstRows(rows, PageLimit)
        more == Len(rows) > PageLimit
        last == page[Len(page)]
    IN  /\ reader.more
        /\ reader.listed # <<>> => ask = reader.ask
        /\ reader' = [ask |-> ask, more |-> more, listed |-> reader.listed \o page,
                      cursor |-> IF more THEN <<queue[last].score, last>> ELSE reader.cursor]
        /\ steady' = IF reader.listed = <<>> THEN QueueOf(ask) ELSE steady
        /\ UNCHANGED <<queue, changes>>

(* What others do between two pages. *)
Change(new) ==
    /\ changes < MaxChanges
    /\ changes' = changes + 1
    /\ queue' = new
    /\ UNCHANGED reader
    /\ steady' = {a \in steady : InQueue(reader.ask, a)'}

(* A review, a publication or an expiry. *)
Resolved(a, status) ==
    /\ queue[a].status \notin {"absent", "expired", status}
    /\ Change([queue EXCEPT ![a].status = status])

(* Generation inserts a row; ids only grow. *)
Inserted(a, score) ==
    /\ queue[a].status = "absent"
    /\ \A b \in RowIds : b < a => queue[b].status # "absent"
    /\ Change([queue EXCEPT ![a].status = "pending", ![a].score = score])

QueueNext ==
    \/ \E status \in {"", "pending"}, min \in MinPercents, oneWay \in BOOLEAN :
          ListPage([status |-> status, min |-> min, oneWay |-> oneWay])
    \/ \E a \in RowIds : \/ \E status \in {"approved", "expired"} : Resolved(a, status)
                         \/ \E score \in RowScores : Inserted(a, score)

QueueSpec == QueueInit /\ [][QueueNext]_queueVars

-----------------------------------------------------------------------------
(* Properties                                                              *)

(* list_suggestion_page: whatever others do meanwhile, a reader who pages  *)
(* to the end has seen every row that matched all the time, no row twice,  *)
(* and best first.                                                         *)
QueueShownOnce ==
    /\ \A i, j \in DOMAIN reader.listed : i < j =>
          reader.listed[i] # reader.listed[j] /\ Above(reader.listed[i], reader.listed[j])
    /\ ~reader.more => steady \subseteq ToSet(reader.listed)
==============================================================================
