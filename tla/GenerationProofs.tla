--------------------------- MODULE GenerationProofs ---------------------------
(***************************************************************************)
(* What is proved of the analysis (SuggestionGeneration) for every number  *)
(* of sites, articles, concurrent analyses and graph readers, and for every *)
(* value of the limits.                                                    *)
(***************************************************************************)
EXTENDS SuggestionGeneration, FiniteSetTheorems, WellFoundedInduction, TLAPS

-----------------------------------------------------------------------------
(* The inductive invariant                                                 *)

AllSites == Customers \cup Pools
Workers == Jobs \cup Readers
Pcs == {"idle", "embed", "encode", "graph", "links", "store", "pools", "source", "gap",
        "commit", "done"}
Snapshots == AllSites \X (SUBSET Articles) \X Nat

JobRecords ==
    [pc : Pcs, site : Customers \cup {None}, scope : SUBSET Articles, compare : BOOLEAN,
     allowed : SUBSET Articles, at : AllSites \cup Articles \cup {None},
     missing : SUBSET Articles, nodes : SUBSET Articles, snapshot : Snapshots \cup {None},
     create : BOOLEAN, pools : SUBSET Pools, todo : SUBSET Articles,
     used : [Sources -> Nat], ever : [Sources -> Nat], slots : Nat, ranked : Nat,
     staged : SUBSET Pairs]

Types ==
    /\ active \subseteq Articles
    /\ trusted \subseteq Pools
    /\ version \in [AllSites -> Nat]
    /\ row \in [Pairs -> Statuses]
    /\ lock \in [AllSites -> Jobs \cup {None}]
    /\ glock \in [Customers -> Workers \cup {None}]
    /\ job \in [Workers -> JobRecords]

\* Fresh rows are live ones.
FreshIsLive == \A p \in fresh : p \in Pairs /\ row[p] \in LIFETIME_STATUSES

\* The holder of a lock is at work, on that site or on that pool's articles.
LocksAtWork ==
    /\ \A s \in AllSites : lock[s] # None =>
        /\ job[lock[s]].pc \notin {"idle", "done"}
        /\ \/ s = job[lock[s]].site
           \/ s = job[lock[s]].at /\ job[lock[s]].pc \in {"embed", "encode"}
    /\ \A s \in Customers : glock[s] # None =>
        job[glock[s]].pc \in {"links", "store"} /\ job[glock[s]].site = s

\* An analysis holds the lock of its site, and that of the pool it embeds.
Locked(j) ==
    /\ job[j].pc \notin {"idle", "done"} => job[j].site \in Customers /\ lock[job[j].site] = j
    /\ job[j].pc \in {"embed", "encode"} =>
        /\ job[j].at \in {job[j].site} \cup Pools
        /\ lock[job[j].at] = j
    /\ \A a \in job[j].allowed : SiteOf[a] \in {job[j].site} \cup Pools

\* What it has staged: links from one article of its site, which are free and
\* whose reverses nobody has proposed.
Staging(j) ==
    /\ job[j].pc \in {"source", "gap", "commit"} => job[j].todo \subseteq OwnedBy(job[j].site)
    /\ job[j].pc \in {"gap", "commit"} => job[j].at \in job[j].todo
    /\ job[j].pc \notin {"gap", "commit"} => job[j].staged = {}
    /\ \A p \in job[j].staged :
        /\ p[1] = job[j].at
        /\ row[p] \in {"none", "expired"}
        /\ <<p[2], p[1]>> \notin fresh

\* Whoever reads a graph, analysis or reader, holds the lock of that graph.
GraphLocked ==
    \A j \in Workers : job[j].pc \in {"links", "store"} =>
        job[j].site \in Customers /\ glock[job[j].site] = j

FreshOf(a, statuses) == {p \in fresh : p[1] = a /\ row[p] \in statuses}
FreshIn(s) == {p \in fresh : SiteOf[p[1]] = s /\ row[p] \in ACTIVE_STATUSES}

\* Its counts were read once, but bound what is there still: only this analysis
\* adds to the articles it has not come to yet.
Counting(j) ==
    job[j].pc \in {"source", "gap", "commit"} =>
        /\ \A a \in job[j].todo :
            /\ Cardinality(FreshOf(a, ACTIVE_STATUSES)) <= job[j].used[a]
            /\ Cardinality(FreshOf(a, LIFETIME_STATUSES)) <= job[j].ever[a]
        /\ job[j].slots > 0 => Cardinality(FreshIn(job[j].site)) + job[j].slots <= SiteCap
        /\ job[j].pc # "source" => Cardinality(job[j].staged) <= Remaining(j, job[j].at)

NoReverse == \A p \in fresh : <<p[2], p[1]>> \notin fresh

Bounded ==
    /\ \A a \in Sources : /\ Cardinality(FreshOf(a, ACTIVE_STATUSES)) <= Cap
                          /\ Cardinality(FreshOf(a, LIFETIME_STATUSES)) <= LifetimeCap
    /\ \A s \in Customers : Cardinality(FreshIn(s)) <= SiteCap

Inv ==
    /\ Types
    /\ FreshIsLive
    /\ LocksAtWork
    /\ \A j \in Jobs : Locked(j) /\ Staging(j) /\ Counting(j)
    /\ GraphLocked
    /\ NoReverse
    /\ Bounded

-----------------------------------------------------------------------------
(* Facts about the operators                                               *)

LEMMA LeastIsOne ==
    ASSUME NEW S, S \subseteq Nat, S # {}
    PROVE  Least(S) \in S
<1> DEFINE R == OpToRel(<, Nat)
<1>1. IsWellFoundedOn(R, Nat)
    BY NatLessThanWellFounded
<1>2. R = {ss \in Nat \X Nat : ss[1] < ss[2]}
    BY DEF OpToRel
<1> HIDE DEF R
<1>3. PICK x \in S : \A y \in S : ~(<<y, x>> \in R)
    BY <1>1, WFMin
<1>4. \A y \in S : x <= y
    <2> SUFFICES ASSUME NEW y \in S, y < x PROVE FALSE
        OBVIOUS
    <2>1. <<y, x>> \in Nat \X Nat /\ <<y, x>>[1] < <<y, x>>[2]
        OBVIOUS
    <2> QED BY <1>2, <1>3, <2>1
<1> QED BY <1>4 DEF Least

LEMMA PairsFinite == IsFiniteSet(Pairs)
<1>1. IsFiniteSet(Sources) /\ IsFiniteSet(Targets)
    <2>1. Sources \in SUBSET Articles
        BY DEF Sources
    <2> QED BY <2>1, GenerationAssumptions, FS_Subset, FS_Union DEF Targets
<1>2. IsFiniteSet(Sources \X Targets)
    BY <1>1, FS_Product
<1>3. Pairs \in SUBSET (Sources \X Targets)
    BY DEF Pairs
<1> QED BY <1>2, <1>3, FS_Subset

\* Every set of pairs has a size, and a smaller one is no larger.
LEMMA Sizes ==
    ASSUME NEW S, S \subseteq Pairs
    PROVE  /\ IsFiniteSet(S) /\ Cardinality(S) \in Nat
           /\ \A T : T \subseteq S => Cardinality(T) \in Nat /\ Cardinality(T) <= Cardinality(S)
<1>1. IsFiniteSet(S)
    BY PairsFinite, FS_Subset
<1>2. ASSUME NEW T, T \subseteq S
      PROVE  Cardinality(T) \in Nat /\ Cardinality(T) <= Cardinality(S)
    <2>1. IsFiniteSet(T) /\ Cardinality(T) <= Cardinality(S)
        BY <1>1, <1>2, FS_Subset
    <2> QED BY <2>1, FS_CardinalityType
<1> QED BY <1>1, <1>2, FS_CardinalityType

\* What is added counts at most once.
LEMMA Grown ==
    ASSUME NEW S, S \subseteq Pairs, NEW T, T \subseteq Pairs, NEW U, U \subseteq S \cup T
    PROVE  /\ Cardinality(U) \in Nat /\ Cardinality(S) \in Nat /\ Cardinality(T) \in Nat
           /\ Cardinality(U) <= Cardinality(S) + Cardinality(T)
<1>1. /\ IsFiniteSet(S) /\ IsFiniteSet(T) /\ Cardinality(S) \in Nat /\ Cardinality(T) \in Nat
      /\ Cardinality(S \cap T) \in Nat /\ Cardinality(S \cup T) \in Nat
      /\ Cardinality(U) \in Nat /\ Cardinality(U) <= Cardinality(S \cup T)
    <2>1. S \cup T \subseteq Pairs /\ S \cap T \subseteq S
        OBVIOUS
    <2> QED BY <2>1, Sizes
<1>2. Cardinality(S \cup T) = Cardinality(S) + Cardinality(T) - Cardinality(S \cap T)
    BY <1>1, FS_Union
<1> QED BY <1>1, <1>2

\* The pairs of one article with a set of targets are as many as the targets.
LEMMA PairsWith ==
    ASSUME NEW a, NEW S, IsFiniteSet(S)
    PROVE  Cardinality({a} \X S) = Cardinality(S) /\ Cardinality(S) \in Nat
<1>1. IsFiniteSet({a}) /\ Cardinality({a}) = 1
    BY FS_Singleton
<1>2. Cardinality({a} \X S) = Cardinality({a}) * Cardinality(S)
    BY <1>1, FS_Product
<1>3. Cardinality(S) \in Nat
    BY FS_CardinalityType
<1> QED BY <1>1, <1>2, <1>3

LEMMA IdleTyped ==
    /\ Idle \in JobRecords /\ Done \in JobRecords
    /\ Idle.pc = "idle" /\ Done.pc = "done"
    /\ Idle.staged = {} /\ Done.staged = {} /\ Idle.allowed = {} /\ Done.allowed = {}
<1>1. [a \in Sources |-> 0] \in [Sources -> Nat]
    OBVIOUS
<1>2. Idle \in JobRecords /\ Idle.pc = "idle" /\ Idle.staged = {} /\ Idle.allowed = {}
    BY <1>1 DEF Idle, JobRecords, Pcs
<1>3. Done \in JobRecords /\ Done.pc = "done" /\ Done.staged = Idle.staged /\ Done.allowed = Idle.allowed
    BY <1>2 DEF Done, JobRecords, Pcs
<1> QED BY <1>2, <1>3

LEMMA Initially == Init => Inv
<1> SUFFICES ASSUME Init PROVE Inv
    OBVIOUS
<1>1. Types
    BY IdleTyped DEF Init, Types, AllSites, Workers, Statuses
<1>2. FreshIsLive /\ NoReverse
    BY DEF Init, FreshIsLive, NoReverse
<1>3. LocksAtWork
    BY DEF Init, LocksAtWork, AllSites
<1>4. ASSUME NEW j \in Jobs PROVE Locked(j) /\ Staging(j) /\ Counting(j)
    <2>1. job[j] = Idle
        BY DEF Init
    <2> QED BY <2>1, IdleTyped DEF Locked, Staging, Counting
<1>5. Bounded
    <2>1. \A a : /\ FreshOf(a, ACTIVE_STATUSES) = {} /\ FreshOf(a, LIFETIME_STATUSES) = {}
                 /\ FreshIn(a) = {}
        BY DEF Init, FreshOf, FreshIn
    <2> QED BY <2>1, FS_EmptySet, GenerationAssumptions DEF Bounded
<1>6. GraphLocked
    BY IdleTyped DEF Init, GraphLocked, Workers
<1> QED BY <1>1, <1>2, <1>3, <1>4, <1>5, <1>6 DEF Inv

-----------------------------------------------------------------------------
(* Steps that add no suggestion                                            *)

\* Suggestions of the pairs P are decided, expired or left alone.
Shrinks(P) ==
    \A p \in P :
        /\ row[p] \in {"none", "expired"} => row'[p] \in {"none", "expired"}
        /\ p \in fresh' =>
            /\ p \in fresh
            /\ row'[p] \in ACTIVE_STATUSES => row[p] \in ACTIVE_STATUSES

LEMMA FewerFresh ==
    ASSUME FreshIsLive, FreshIsLive', NEW P \in SUBSET Pairs, Shrinks(P)
    PROVE  /\ \A a : (\A p \in Pairs : p[1] = a => p \in P) =>
                /\ Cardinality(FreshOf(a, ACTIVE_STATUSES)') <= Cardinality(FreshOf(a, ACTIVE_STATUSES))
                /\ Cardinality(FreshOf(a, LIFETIME_STATUSES)') <= Cardinality(FreshOf(a, LIFETIME_STATUSES))
           /\ \A s : (\A p \in Pairs : SiteOf[p[1]] = s => p \in P) =>
                Cardinality(FreshIn(s)') <= Cardinality(FreshIn(s))
           /\ \A a : /\ Cardinality(FreshOf(a, ACTIVE_STATUSES)) \in Nat
                     /\ Cardinality(FreshOf(a, LIFETIME_STATUSES)) \in Nat
                     /\ Cardinality(FreshIn(a)) \in Nat
                     /\ Cardinality(FreshOf(a, ACTIVE_STATUSES)') \in Nat
                     /\ Cardinality(FreshOf(a, LIFETIME_STATUSES)') \in Nat
                     /\ Cardinality(FreshIn(a)') \in Nat
<1>1. \A a : /\ FreshOf(a, ACTIVE_STATUSES) \subseteq Pairs /\ FreshOf(a, LIFETIME_STATUSES) \subseteq Pairs
             /\ FreshIn(a) \subseteq Pairs
             /\ FreshOf(a, ACTIVE_STATUSES)' \subseteq Pairs /\ FreshOf(a, LIFETIME_STATUSES)' \subseteq Pairs
             /\ FreshIn(a)' \subseteq Pairs
    BY DEF FreshOf, FreshIn, FreshIsLive
<1>2. ASSUME NEW a, \A p \in Pairs : p[1] = a => p \in P
      PROVE  /\ FreshOf(a, ACTIVE_STATUSES)' \subseteq FreshOf(a, ACTIVE_STATUSES)
             /\ FreshOf(a, LIFETIME_STATUSES)' \subseteq FreshOf(a, LIFETIME_STATUSES)
    BY <1>2 DEF FreshOf, FreshIsLive, Shrinks
<1>3. ASSUME NEW s, \A p \in Pairs : SiteOf[p[1]] = s => p \in P
      PROVE  FreshIn(s)' \subseteq FreshIn(s)
    BY <1>3 DEF FreshIn, FreshIsLive, Shrinks
<1> QED BY <1>1, <1>2, <1>3, Sizes

\* A link whose reverse could be proposed stays inside its site.
LEMMA ReverseAtHome ==
    ASSUME NEW p \in Pairs, <<p[2], p[1]>> \in Pairs
    PROVE  SiteOf[p[2]] = SiteOf[p[1]] /\ SiteOf[p[1]] \in Customers
<1> DEFINE r == <<p[2], p[1]>>
<1>1. p[1] \in Sources /\ (r[2] \in Pages \/ SiteOf[r[2]] \in Pools \cup {SiteOf[r[1]]})
    BY DEF Pairs
<1>2. r[1] = p[2] /\ r[2] = p[1]
    OBVIOUS
<1> HIDE DEF r
<1>3. p[1] \in Articles /\ SiteOf[p[1]] \in Customers
    BY <1>1 DEF Sources
<1> QED BY <1>1, <1>2, <1>3, GenerationAssumptions

\* What an analysis knows stays true when the suggestions of its own site are
\* only decided or expired and its locks are left alone.
LEMMA OtherJob ==
    ASSUME Inv, FreshIsLive', NEW k \in Jobs, job'[k] = job[k],
           Shrinks({p \in Pairs : SiteOf[p[1]] = job[k].site}),
           \A s \in AllSites : lock[s] = k => lock'[s] = k
    PROVE  Locked(k)' /\ Staging(k)' /\ Counting(k)'
<1> DEFINE P == {p \in Pairs : SiteOf[p[1]] = job[k].site}
<1>1. Types /\ FreshIsLive /\ Locked(k) /\ Staging(k) /\ Counting(k)
    BY DEF Inv
<1>2. job[k] \in JobRecords
    BY <1>1 DEF Types, Workers
<1>3. Locked(k)'
    BY <1>1, <1>2 DEF Locked, AllSites
<1>4. Staging(k)'
    <2>1. ASSUME NEW p \in job[k].staged
          PROVE  p \in P /\ p \in Pairs /\ job[k].site \in Customers
        <3>1. p \in Pairs /\ job[k].pc \in {"gap", "commit"}
            BY <1>1, <1>2 DEF Staging, JobRecords
        <3>2. p[1] \in OwnedBy(job[k].site)
            BY <1>1, <3>1 DEF Staging
        <3> QED BY <1>1, <3>1, <3>2 DEF OwnedBy, Locked
    <2>2. ASSUME NEW p \in job[k].staged
          PROVE  row'[p] \in {"none", "expired"} /\ <<p[2], p[1]>> \notin fresh'
        <3>1. row[p] \in {"none", "expired"} /\ <<p[2], p[1]>> \notin fresh
            BY <1>1 DEF Staging
        <3>2. row'[p] \in {"none", "expired"}
            BY <2>1, <3>1 DEF Shrinks
        <3>3. ASSUME <<p[2], p[1]>> \in fresh' PROVE FALSE
            <4>1. <<p[2], p[1]>> \in Pairs
                BY <3>3 DEF FreshIsLive
            <4>2. SiteOf[p[2]] = job[k].site
                BY <2>1, <4>1, ReverseAtHome
            <4>3. <<p[2], p[1]>> \in P
                BY <4>1, <4>2
            <4> QED BY <3>1, <3>3, <4>3 DEF Shrinks
        <3> QED BY <3>2, <3>3
    <2> QED BY <1>1, <2>2 DEF Staging
<1>5. Counting(k)'
    <2> SUFFICES ASSUME job[k].pc \in {"source", "gap", "commit"} PROVE Counting(k)'
        BY DEF Counting
    <2>1. job[k].todo \subseteq OwnedBy(job[k].site)
        BY <1>1 DEF Staging
    <2>2. P \in SUBSET Pairs /\ Shrinks(P)
        OBVIOUS
    <2>3. \A a \in job[k].todo : \A p \in Pairs : p[1] = a => p \in P
        BY <2>1 DEF OwnedBy
    <2>4. \A p \in Pairs : SiteOf[p[1]] = job[k].site => p \in P
        OBVIOUS
    <2> HIDE DEF P
    <2>5. ASSUME NEW a \in job[k].todo
          PROVE  /\ Cardinality(FreshOf(a, ACTIVE_STATUSES)') <= job[k].used[a]
                 /\ Cardinality(FreshOf(a, LIFETIME_STATUSES)') <= job[k].ever[a]
        <3>1. /\ Cardinality(FreshOf(a, ACTIVE_STATUSES)') <= Cardinality(FreshOf(a, ACTIVE_STATUSES))
              /\ Cardinality(FreshOf(a, LIFETIME_STATUSES)') <= Cardinality(FreshOf(a, LIFETIME_STATUSES))
            BY <1>1, <2>2, <2>3, FewerFresh
        <3>2. /\ Cardinality(FreshOf(a, ACTIVE_STATUSES)) \in Nat
              /\ Cardinality(FreshOf(a, LIFETIME_STATUSES)) \in Nat
              /\ Cardinality(FreshOf(a, ACTIVE_STATUSES)') \in Nat
              /\ Cardinality(FreshOf(a, LIFETIME_STATUSES)') \in Nat
            BY <1>1, <2>2, FewerFresh
        <3>3. /\ Cardinality(FreshOf(a, ACTIVE_STATUSES)) <= job[k].used[a]
              /\ Cardinality(FreshOf(a, LIFETIME_STATUSES)) <= job[k].ever[a]
            BY <1>1 DEF Counting
        <3>4. job[k].used[a] \in Nat /\ job[k].ever[a] \in Nat
            <4>1. a \in Sources
                BY <1>1, <2>1 DEF OwnedBy, Locked, Sources
            <4> QED BY <1>2, <4>1 DEF JobRecords
        <3> QED BY <3>1, <3>2, <3>3, <3>4
    <2>6. ASSUME job[k].slots > 0
          PROVE  Cardinality(FreshIn(job[k].site)') + job[k].slots <= SiteCap
        <3>1. /\ Cardinality(FreshIn(job[k].site)') <= Cardinality(FreshIn(job[k].site))
              /\ Cardinality(FreshIn(job[k].site)') \in Nat
              /\ Cardinality(FreshIn(job[k].site)) \in Nat
            BY <1>1, <2>2, <2>4, FewerFresh
        <3>2. Cardinality(FreshIn(job[k].site)) + job[k].slots <= SiteCap
            BY <1>1, <2>6 DEF Counting
        <3>3. job[k].slots \in Nat /\ SiteCap \in Nat
            BY <1>2, GenerationAssumptions DEF JobRecords
        <3> QED BY <3>1, <3>2, <3>3
    <2>7. Remaining(k, job[k].at)' = Remaining(k, job[k].at)
        BY DEF Remaining
    <2>8. job[k].pc # "source" => Cardinality(job[k].staged) <= Remaining(k, job[k].at)
        BY <1>1 DEF Counting
    <2> QED BY <2>5, <2>6, <2>7, <2>8 DEF Counting
<1> QED BY <1>3, <1>4, <1>5

\* Suggestions decided or expired everywhere; no analysis moves.
LEMMA WorldStep ==
    ASSUME Inv, Types', FreshIsLive', Shrinks(Pairs), UNCHANGED <<lock, glock, job>>
    PROVE  Inv'
<1>1. Types /\ FreshIsLive /\ LocksAtWork /\ NoReverse /\ Bounded
    BY DEF Inv
<1>2. LocksAtWork'
    BY <1>1 DEF LocksAtWork
<1>3. ASSUME NEW k \in Jobs PROVE Locked(k)' /\ Staging(k)' /\ Counting(k)'
    <2>1. Shrinks({p \in Pairs : SiteOf[p[1]] = job[k].site})
        BY DEF Shrinks
    <2> QED BY <2>1, OtherJob
<1>4. NoReverse'
    BY <1>1 DEF NoReverse, Shrinks, FreshIsLive
<1>5. Bounded'
    <2>1. Pairs \in SUBSET Pairs
        OBVIOUS
    <2>2. \A a : /\ Cardinality(FreshOf(a, ACTIVE_STATUSES)') <= Cardinality(FreshOf(a, ACTIVE_STATUSES))
                 /\ Cardinality(FreshOf(a, LIFETIME_STATUSES)') <= Cardinality(FreshOf(a, LIFETIME_STATUSES))
                 /\ Cardinality(FreshIn(a)') <= Cardinality(FreshIn(a))
                 /\ Cardinality(FreshOf(a, ACTIVE_STATUSES)) \in Nat
                 /\ Cardinality(FreshOf(a, LIFETIME_STATUSES)) \in Nat
                 /\ Cardinality(FreshIn(a)) \in Nat
                 /\ Cardinality(FreshOf(a, ACTIVE_STATUSES)') \in Nat
                 /\ Cardinality(FreshOf(a, LIFETIME_STATUSES)') \in Nat
                 /\ Cardinality(FreshIn(a)') \in Nat
        BY <1>1, <2>1, FewerFresh
    <2> QED BY <1>1, <2>2, GenerationAssumptions DEF Bounded
<1>6. GraphLocked'
    BY DEF Inv, GraphLocked
<1> QED BY <1>2, <1>3, <1>4, <1>5, <1>6 DEF Inv

\* One worker moves, takes or releases locks, and touches no suggestion.
LEMMA WorkerStep ==
    ASSUME Inv, NEW j \in Workers, NEW w \in JobRecords, job' = [job EXCEPT ![j] = w],
           UNCHANGED <<row, fresh>>, Types',
           \A s \in AllSites : \/ lock'[s] = lock[s]
                               \/ lock[s] \in {None, j} /\ lock'[s] \in {None, j},
           \A s \in Customers : \/ glock'[s] = glock[s]
                                \/ glock[s] \in {None, j} /\ glock'[s] \in {None, j},
           \A s \in AllSites : lock'[s] = j =>
                /\ w.pc \notin {"idle", "done"}
                /\ s = w.site \/ (s = w.at /\ w.pc \in {"embed", "encode"}),
           \A s \in Customers : glock'[s] = j => w.pc \in {"links", "store"} /\ w.site = s,
           w.pc \in {"links", "store"} => w.site \in Customers /\ glock'[w.site] = j,
           j \in Jobs => Locked(j)' /\ Staging(j)' /\ Counting(j)'
    PROVE  Inv'
<1>1. Types /\ FreshIsLive /\ LocksAtWork /\ NoReverse /\ Bounded
    BY DEF Inv
<1>2. job'[j] = w /\ \A k \in Workers \ {j} : job'[k] = job[k]
    BY <1>1 DEF Types
<1>3. FreshIsLive' /\ NoReverse' /\ Bounded'
    BY <1>1 DEF FreshIsLive, NoReverse, Bounded, FreshOf, FreshIn
<1>4. LocksAtWork'
    <2>1. ASSUME NEW s \in AllSites, lock'[s] # None
          PROVE  /\ job'[lock'[s]].pc \notin {"idle", "done"}
                 /\ \/ s = job'[lock'[s]].site
                    \/ s = job'[lock'[s]].at /\ job'[lock'[s]].pc \in {"embed", "encode"}
        <3>1. CASE lock'[s] = j
            BY <1>2, <3>1
        <3>2. CASE lock'[s] # j
            <4>1. lock'[s] = lock[s] /\ lock[s] \in Workers \ {j}
                BY <1>1, <2>1, <3>2 DEF Types, Workers
            <4> QED BY <1>1, <1>2, <2>1, <4>1 DEF LocksAtWork
        <3> QED BY <3>1, <3>2
    <2>2. ASSUME NEW s \in Customers, glock'[s] # None
          PROVE  job'[glock'[s]].pc \in {"links", "store"} /\ job'[glock'[s]].site = s
        <3>1. CASE glock'[s] = j
            BY <1>2, <3>1
        <3>2. CASE glock'[s] # j
            <4>1. glock'[s] = glock[s] /\ glock[s] \in Workers \ {j}
                BY <1>1, <2>2, <3>2 DEF Types, Workers
            <4> QED BY <1>1, <1>2, <2>2, <4>1 DEF LocksAtWork
        <3> QED BY <3>1, <3>2
    <2> QED BY <2>1, <2>2 DEF LocksAtWork
<1>5. ASSUME NEW k \in Jobs, k # j PROVE Locked(k)' /\ Staging(k)' /\ Counting(k)'
    <2>1. job'[k] = job[k]
        BY <1>2, <1>5 DEF Workers
    <2>2. Shrinks({p \in Pairs : SiteOf[p[1]] = job[k].site})
        BY DEF Shrinks
    <2>3. \A s \in AllSites : lock[s] = k => lock'[s] = k
        BY <1>5, GenerationAssumptions
    <2> QED BY <1>3, <2>1, <2>2, <2>3, OtherJob
<1>6. GraphLocked'
    BY <1>2, GenerationAssumptions DEF Inv, GraphLocked, Workers
<1> QED BY <1>3, <1>4, <1>5, <1>6 DEF Inv

-----------------------------------------------------------------------------
(* Editors, operators and crawls                                           *)

LEMMA DecideKeeps ==
    ASSUME Inv, NEW p \in Pairs, NEW s \in Statuses, Decide(p, s)
    PROVE  Inv'
<1>1. Types /\ FreshIsLive
    BY DEF Inv
<1>2. /\ row[p] \in {"pending", "approved", "rejected", "failed"}
      /\ s \in {"approved", "rejected", "applied", "failed"}
      /\ row' = [row EXCEPT ![p] = s]
      /\ fresh' = IF s \in {"rejected", "failed"} THEN fresh \ {p} ELSE fresh
      /\ UNCHANGED <<active, version, enabled, trusted, lock, glock, job>>
    BY DEF Decide, Change, world
<1>3. row'[p] = s /\ \A q \in Pairs \ {p} : row'[q] = row[q]
    BY <1>1, <1>2 DEF Types
<1>4. Types'
    BY <1>1, <1>2 DEF Types
<1>5. p \in fresh => row[p] \in ACTIVE_STATUSES
    BY <1>1, <1>2 DEF FreshIsLive, LIFETIME_STATUSES, ACTIVE_STATUSES
<1>6. FreshIsLive'
    BY <1>1, <1>2, <1>3 DEF FreshIsLive, LIFETIME_STATUSES, ACTIVE_STATUSES
<1>7. Shrinks(Pairs)
    BY <1>2, <1>3, <1>5 DEF Shrinks
<1> QED BY <1>2, <1>4, <1>6, <1>7, WorldStep

LEMMA ExpireKeeps ==
    ASSUME Inv, NEW gone, Expire(gone), UNCHANGED <<lock, glock, job>>,
           active' \subseteq Articles, trusted' \subseteq Pools, version' \in [AllSites -> Nat],
           \A p \in gone : row[p] \in {"pending", "approved"}
    PROVE  Inv'
<1>1. Types /\ FreshIsLive
    BY DEF Inv
<1>2. /\ row' = [p \in Pairs |-> IF p \in gone THEN "expired" ELSE row[p]]
      /\ fresh' = fresh \ gone
    BY DEF Expire
<1>3. Types'
    <2>1. "expired" \in Statuses
        BY DEF Statuses
    <2>2. row' \in [Pairs -> Statuses]
        BY <1>1, <1>2, <2>1 DEF Types
    <2> QED BY <1>1, <2>2 DEF Types
<1>4. FreshIsLive'
    BY <1>1, <1>2 DEF FreshIsLive
<1>5. Shrinks(Pairs)
    BY <1>2 DEF Shrinks
<1> QED BY <1>3, <1>4, <1>5, WorldStep

LEMMA SetPolicyKeeps == ASSUME Inv, NEW s \in Customers, SetPolicy(s) PROVE Inv'
<1> DEFINE gone == {p \in Pairs : /\ SiteOf[p[1]] = s /\ s \in enabled
                                  /\ p[2] \in Pages \/ SiteOf[p[2]] \in Pools
                                  /\ row[p] \in {"pending", "approved"}}
<1>1. Expire(gone) /\ UNCHANGED <<active, version, trusted, lock, glock, job>>
    BY DEF SetPolicy, Change
<1>2. \A p \in gone : row[p] \in {"pending", "approved"}
    OBVIOUS
<1> HIDE DEF gone
<1>3. active' \subseteq Articles /\ trusted' \subseteq Pools /\ version' \in [AllSites -> Nat]
    BY <1>1 DEF Inv, Types
<1> QED BY <1>1, <1>2, <1>3, ExpireKeeps

LEMMA SetTrustKeeps == ASSUME Inv, NEW q \in Pools, SetTrust(q) PROVE Inv'
<1> DEFINE gone == {p \in Pairs : /\ p[2] \in Articles /\ SiteOf[p[2]] = q /\ q \in trusted
                                  /\ row[p] \in {"pending", "approved"}}
<1>1. /\ Expire(gone) /\ UNCHANGED <<active, version, lock, glock, job>>
      /\ trusted' = IF q \in trusted THEN trusted \ {q} ELSE trusted \cup {q}
    BY DEF SetTrust, Change
<1>2. \A p \in gone : row[p] \in {"pending", "approved"}
    OBVIOUS
<1> HIDE DEF gone
<1>3. active' \subseteq Articles /\ trusted' \subseteq Pools /\ version' \in [AllSites -> Nat]
    BY <1>1 DEF Inv, Types
<1> QED BY <1>1, <1>2, <1>3, ExpireKeeps

LEMMA PromoteKeeps ==
    ASSUME Inv, NEW s \in Customers, NEW now \in SUBSET OwnedBy(s), Promote(s, now)
    PROVE  Inv'
<1> DEFINE gone == {p \in Pairs : /\ p[1] \notin active' \/ p[2] \in Articles \ active'
                                  /\ row[p] = "pending"}
<1>1. /\ Expire(gone) /\ UNCHANGED <<enabled, trusted, lock, glock, job>>
      /\ active' = (active \ OwnedBy(s)) \cup now
      /\ version' = [version EXCEPT ![s] = @ + 1]
    BY DEF Promote, Change
<1>2. \A p \in gone : row[p] \in {"pending", "approved"}
    OBVIOUS
<1> HIDE DEF gone
<1>3. active' \subseteq Articles /\ trusted' \subseteq Pools /\ version' \in [AllSites -> Nat]
    BY <1>1 DEF Inv, Types, OwnedBy, AllSites
<1> QED BY <1>1, <1>2, <1>3, ExpireKeeps

-----------------------------------------------------------------------------
(* The steps of an analysis, up to its counts                              *)

LEMMA BeginKeeps ==
    ASSUME Inv, NEW j \in Jobs, NEW s \in Customers, NEW scope, NEW compare \in BOOLEAN,
           Begin(j, s, scope, compare)
    PROVE  Inv'
<1> DEFINE w == [Idle EXCEPT !.pc = "embed", !.site = s, !.at = s, !.scope = scope,
                    !.compare = compare, !.allowed = AllowedTargets(s)]
<1>1. Types /\ LocksAtWork /\ j \in Workers /\ s \in AllSites
    BY DEF Inv, Workers, AllSites
<1>2. /\ job[j].pc = "idle" /\ lock[s] = None /\ scope \subseteq Articles
      /\ lock' = [lock EXCEPT ![s] = j] /\ job' = [job EXCEPT ![j] = w]
      /\ UNCHANGED <<active, version, enabled, trusted, row, fresh, glock>>
    BY DEF Begin, LockFree, world, OwnedBy
<1>3. /\ AllowedTargets(s) \subseteq Articles
      /\ \A a \in AllowedTargets(s) : SiteOf[a] \in {s} \cup Pools
    BY <1>1 DEF AllowedTargets, Types
<1>4. w \in JobRecords
    <2>1. Idle \in JobRecords /\ AllowedTargets(s) \in SUBSET Articles /\ scope \in SUBSET Articles
        BY <1>2, <1>3, IdleTyped
    <2> QED BY <2>1 DEF JobRecords, Pcs, AllSites
<1>5. /\ w.pc = "embed" /\ w.site = s /\ w.at = s /\ w.allowed = AllowedTargets(s)
      /\ w.staged = {}
    BY DEF Idle
<1> HIDE DEF w
<1>6. job'[j] = w /\ lock'[s] = j /\ \A t \in AllSites \ {s} : lock'[t] = lock[t]
    BY <1>1, <1>2 DEF Types
<1>7. Types'
    BY <1>1, <1>2, <1>4 DEF Types
<1>8. \A t \in AllSites : lock[t] # j
    BY <1>1, <1>2, GenerationAssumptions DEF LocksAtWork
<1>9. \A t \in Customers : glock[t] # j
    BY <1>1, <1>2, GenerationAssumptions DEF LocksAtWork
<1>10. Locked(j)' /\ Staging(j)' /\ Counting(j)'
    BY <1>3, <1>5, <1>6 DEF Locked, Staging, Counting
<1>11. /\ \A t \in AllSites : \/ lock'[t] = lock[t]
                              \/ lock[t] \in {None, j} /\ lock'[t] \in {None, j}
       /\ \A t \in AllSites : lock'[t] = j =>
                /\ w.pc \notin {"idle", "done"}
                /\ t = w.site \/ (t = w.at /\ w.pc \in {"embed", "encode"})
       /\ \A t \in Customers : glock'[t] = glock[t] /\ glock'[t] # j
    BY <1>2, <1>5, <1>6, <1>8, <1>9
<1> QED BY <1>1, <1>2, <1>4, <1>5, <1>7, <1>10, <1>11, WorkerStep

\* An analysis moves on under the locks it has.
LEMMA JobMoves ==
    ASSUME Inv, NEW j \in Jobs, NEW w \in JobRecords, job' = [job EXCEPT ![j] = w],
           UNCHANGED <<active, trusted, version, row, fresh, lock, glock>>,
           job[j].pc \notin {"idle", "done"}, w.pc \notin {"idle", "done"},
           w.site = job[j].site, w.allowed = job[j].allowed,
           job[j].pc \in {"links", "store"} <=> w.pc \in {"links", "store"},
           w.pc \in {"embed", "encode"} <=> job[j].pc \in {"embed", "encode"},
           w.pc \in {"embed", "encode"} => w.at = job[j].at,
           Staging(j)', Counting(j)'
    PROVE  Inv'
<1>1. Types /\ LocksAtWork /\ Locked(j) /\ j \in Workers /\ j # None
    BY GenerationAssumptions DEF Inv, Workers
<1>2. job'[j] = w
    BY <1>1 DEF Types
<1>3. Types'
    BY <1>1 DEF Types
<1>4. \A s \in AllSites : lock'[s] = j =>
            /\ w.pc \notin {"idle", "done"}
            /\ s = w.site \/ (s = w.at /\ w.pc \in {"embed", "encode"})
    BY <1>1 DEF LocksAtWork
<1>5. \A s \in Customers : glock'[s] = j => w.pc \in {"links", "store"} /\ w.site = s
    BY <1>1 DEF LocksAtWork
<1>6. Locked(j)'
    BY <1>1, <1>2 DEF Locked
<1>7. w.pc \in {"links", "store"} => w.site \in Customers /\ glock'[w.site] = j
    BY <1>1 DEF Inv, GraphLocked
<1> QED BY <1>1, <1>3, <1>4, <1>5, <1>6, <1>7, WorkerStep

LEMMA EmbedReadKeeps == ASSUME Inv, NEW j \in Jobs, EmbedRead(j) PROVE Inv'
<1> DEFINE found == (OwnedBy(job[j].at) \cap active) \ embedded
           w == [job[j] EXCEPT !.pc = "encode", !.missing = found]
<1>1. job[j] \in JobRecords /\ Staging(j) /\ job \in [Workers -> JobRecords] /\ j \in Workers
    BY DEF Inv, Types, Workers
<1>2. /\ job[j].pc = "embed" /\ job' = [job EXCEPT ![j] = w]
      /\ UNCHANGED <<active, version, enabled, trusted, row, fresh, lock, glock>>
    BY <1>1 DEF EmbedRead, world
<1>3. found \in SUBSET Articles
    BY DEF OwnedBy
<1> HIDE DEF found
<1>4. w \in JobRecords
    BY <1>1, <1>3 DEF JobRecords, Pcs
<1>5. /\ w.pc = "encode" /\ w.site = job[j].site /\ w.at = job[j].at /\ w.allowed = job[j].allowed
      /\ w.staged = job[j].staged
    BY <1>1 DEF JobRecords
<1> HIDE DEF w
<1>6. job'[j] = w
    BY <1>1, <1>2
<1>7. Staging(j)' /\ Counting(j)'
    BY <1>1, <1>2, <1>5, <1>6 DEF Staging, Counting
<1> QED BY <1>2, <1>4, <1>5, <1>7, JobMoves

LEMMA EmbedWriteKeeps == ASSUME Inv, NEW j \in Jobs, EmbedWrite(j) PROVE Inv'
<1> DEFINE own == job[j].at = job[j].site
           pc == IF own THEN "graph" ELSE "pools"
           w == [job[j] EXCEPT !.pc = pc, !.missing = {}, !.at = None]
<1>1. /\ job[j] \in JobRecords /\ Staging(j) /\ Locked(j) /\ Types /\ LocksAtWork
      /\ job \in [Workers -> JobRecords] /\ j \in Workers
    BY DEF Inv, Types, Workers
<1>2. /\ job[j].pc = "encode" /\ job' = [job EXCEPT ![j] = w]
      /\ lock' = IF own THEN lock ELSE [lock EXCEPT ![job[j].at] = None]
      /\ UNCHANGED <<active, version, enabled, trusted, row, fresh, glock>>
    BY <1>1 DEF EmbedWrite, world
<1>3. /\ job[j].site \in Customers /\ lock[job[j].site] = j
      /\ job[j].at \in AllSites /\ lock[job[j].at] = j
    BY <1>1, <1>2 DEF Locked, AllSites
<1>4. pc \in {"graph", "pools"} /\ pc \in Pcs
    BY DEF Pcs
<1> HIDE DEF pc
<1>5. w \in JobRecords
    BY <1>1, <1>4 DEF JobRecords
<1>6. /\ w.pc = pc /\ w.site = job[j].site /\ w.allowed = job[j].allowed
      /\ w.staged = job[j].staged
    BY <1>1 DEF JobRecords
<1> HIDE DEF w, own
<1>7. job'[j] = w
    BY <1>1, <1>2
<1>8. lock' \in [AllSites -> Jobs \cup {None}]
    BY <1>1, <1>2, <1>3 DEF Types
<1>9. \A s \in AllSites : lock'[s] = lock[s] \/ (lock[s] = j /\ lock'[s] = None)
    BY <1>1, <1>2, <1>3 DEF Types
<1>10. lock'[job[j].site] = j
    BY <1>1, <1>2, <1>3 DEF Types, AllSites, own
<1>11. \A s \in AllSites : lock'[s] = j => s = job[j].site
    BY <1>1, <1>2, <1>3, GenerationAssumptions DEF LocksAtWork, Types, own
<1>12. \A s \in Customers : glock[s] # j
    BY <1>1, <1>2, GenerationAssumptions DEF LocksAtWork
<1>13. Types'
    BY <1>1, <1>2, <1>5, <1>8 DEF Types
<1>14. Locked(j)' /\ Staging(j)' /\ Counting(j)'
    BY <1>1, <1>2, <1>3, <1>4, <1>6, <1>7, <1>10 DEF Locked, Staging, Counting
<1>15. /\ \A s \in AllSites : lock'[s] = j =>
                /\ w.pc \notin {"idle", "done"}
                /\ s = w.site \/ (s = w.at /\ w.pc \in {"embed", "encode"})
       /\ \A s \in Customers : glock'[s] = glock[s] /\ glock'[s] # j
       /\ \A s \in AllSites : \/ lock'[s] = lock[s]
                              \/ lock[s] \in {None, j} /\ lock'[s] \in {None, j}
    BY <1>2, <1>4, <1>6, <1>9, <1>11, <1>12
<1>16. w.pc \notin {"links", "store"}
    BY <1>4, <1>6
<1> QED BY <1>1, <1>2, <1>5, <1>13, <1>14, <1>15, <1>16, WorkerStep

\* Taking the lock of a graph, for an analysis or for a reader.
LEMMA GraphTaken ==
    ASSUME Inv, NEW j \in Workers, NEW s \in Customers, NEW w \in JobRecords,
           glock[s] = None, glock' = [glock EXCEPT ![s] = j], job' = [job EXCEPT ![j] = w],
           UNCHANGED <<active, version, trusted, row, fresh, lock>>,
           w.pc = "links", w.site = s, w.allowed = job[j].allowed, j \in Jobs => w.staged = {},
           job[j].pc \notin {"links", "store", "embed", "encode"},
           j \in Jobs => job[j].pc # "idle" /\ job[j].pc # "done" /\ job[j].site = s
    PROVE  Inv'
<1>1. Types /\ LocksAtWork
    BY DEF Inv
<1>2. /\ job'[j] = w /\ glock'[s] = j /\ \A t \in Customers \ {s} : glock'[t] = glock[t]
    BY <1>1 DEF Types
<1>3. Types'
    BY <1>1 DEF Types
<1>4. \A t \in Customers : glock[t] # j
    BY <1>1, GenerationAssumptions DEF LocksAtWork, Workers
<1>5. \A t \in AllSites : lock[t] = j => t = s /\ j \in Jobs
    BY <1>1, GenerationAssumptions DEF LocksAtWork, Types, Workers
<1>6. j \in Jobs => Locked(j)' /\ Staging(j)' /\ Counting(j)'
    <2> SUFFICES ASSUME j \in Jobs PROVE Locked(j)' /\ Staging(j)' /\ Counting(j)'
        OBVIOUS
    <2>1. Locked(j)
        BY DEF Inv
    <2> QED BY <1>2, <2>1 DEF Locked, Staging, Counting
<1>7. /\ \A t \in AllSites : lock'[t] = j =>
                /\ w.pc \notin {"idle", "done"}
                /\ t = w.site \/ (t = w.at /\ w.pc \in {"embed", "encode"})
      /\ \A t \in Customers : glock'[t] = j => w.pc \in {"links", "store"} /\ w.site = t
      /\ \A t \in Customers : \/ glock'[t] = glock[t]
                              \/ glock[t] \in {None, j} /\ glock'[t] \in {None, j}
    BY <1>2, <1>4, <1>5
<1>8. w.pc \in {"links", "store"} => w.site \in Customers /\ glock'[w.site] = j
    BY <1>2
<1>9. \A t \in AllSites : \/ lock'[t] = lock[t]
                          \/ lock[t] \in {None, j} /\ lock'[t] \in {None, j}
    OBVIOUS
<1>10. \A t \in AllSites : lock'[t] = j =>
          /\ w.pc \notin {"idle", "done"}
          /\ t = w.site \/ (t = w.at /\ w.pc \in {"embed", "encode"})
    BY ONLY <1>7
<1>11. \A t \in Customers : glock'[t] = j => w.pc \in {"links", "store"} /\ w.site = t
    BY ONLY <1>7
<1>12. \A t \in Customers : \/ glock'[t] = glock[t]
                            \/ glock[t] \in {None, j} /\ glock'[t] \in {None, j}
    BY ONLY <1>7
<1>13. /\ Inv /\ j \in Workers /\ w \in JobRecords /\ job' = [job EXCEPT ![j] = w]
       /\ UNCHANGED <<row, fresh>>
    OBVIOUS
<1> QED BY ONLY <1>3, <1>6, <1>8, <1>9, <1>10, <1>11, <1>12, <1>13, WorkerStep

LEMMA GraphNodesKeeps == ASSUME Inv, NEW j \in Jobs, GraphNodes(j) PROVE Inv'
<1> DEFINE s == job[j].site
           found == OwnedBy(s) \cap active
           w == [job[j] EXCEPT !.pc = "links", !.nodes = found]
<1>1. /\ job[j] \in JobRecords /\ Staging(j) /\ Locked(j)
      /\ job \in [Workers -> JobRecords] /\ j \in Workers
    BY DEF Inv, Types, Workers
<1>2. /\ job[j].pc = "graph" /\ job' = [job EXCEPT ![j] = w]
      /\ glock[s] = None /\ glock' = [glock EXCEPT ![s] = j]
      /\ UNCHANGED <<active, version, enabled, trusted, row, fresh, lock>>
    BY <1>1 DEF GraphNodes, world
<1>3. found \in SUBSET Articles /\ s \in Customers /\ job[j].staged = {}
    BY <1>1, <1>2 DEF OwnedBy, Locked, Staging
<1> HIDE DEF found, s
<1>4. w \in JobRecords
    BY <1>1, <1>3 DEF JobRecords, Pcs
<1>5. /\ w.pc = "links" /\ w.site = s /\ w.allowed = job[j].allowed /\ w.staged = {}
    BY <1>1, <1>3 DEF JobRecords, s
<1> HIDE DEF w
<1>6. job[j].site = s
    BY DEF s
<1> QED BY <1>1, <1>2, <1>3, <1>4, <1>5, <1>6, GraphTaken

LEMMA SummaryKeeps == ASSUME Inv, NEW r \in Readers, NEW s \in Customers, Summary(r, s) PROVE Inv'
<1> DEFINE found == OwnedBy(s) \cap active
           w == [job[r] EXCEPT !.pc = "links", !.site = s, !.nodes = found]
<1>1. /\ job[r] \in JobRecords /\ job \in [Workers -> JobRecords] /\ r \in Workers /\ r \notin Jobs
    BY GenerationAssumptions DEF Inv, Types, Workers
<1>2. /\ job[r].pc = "idle" /\ job' = [job EXCEPT ![r] = w]
      /\ glock[s] = None /\ glock' = [glock EXCEPT ![s] = r]
      /\ UNCHANGED <<active, version, enabled, trusted, row, fresh, lock>>
    BY <1>1 DEF Summary, world
<1>3. found \in SUBSET Articles
    BY DEF OwnedBy
<1> HIDE DEF found
<1>4. w \in JobRecords
    BY <1>1, <1>3 DEF JobRecords, Pcs
<1>5. /\ w.pc = "links" /\ w.site = s /\ w.allowed = job[r].allowed /\ w.staged = job[r].staged
    BY <1>1, <1>3 DEF JobRecords
<1> HIDE DEF w
<1> QED BY <1>1, <1>2, <1>4, <1>5, GraphTaken

LEMMA GraphLinksKeeps == ASSUME Inv, NEW j \in Workers, GraphLinks(j) PROVE Inv'
<1> DEFINE snapshot == <<job[j].site, job[j].nodes, version[job[j].site]>>
           create == snapshot \notin graph
           w == [job[j] EXCEPT !.pc = "store", !.snapshot = snapshot, !.create = create]
<1>1. Types /\ LocksAtWork /\ job[j] \in JobRecords /\ job \in [Workers -> JobRecords]
    BY DEF Inv, Types
<1>2. /\ job[j].pc = "links" /\ job' = [job EXCEPT ![j] = w]
      /\ UNCHANGED <<active, version, enabled, trusted, row, fresh, lock, glock>>
    BY <1>1, Zenon DEF GraphLinks, world
<1>3. job[j].site \in Customers /\ glock[job[j].site] = j
    BY <1>2 DEF Inv, GraphLocked
<1>4. snapshot \in Snapshots /\ create \in BOOLEAN
    BY <1>1, <1>3 DEF Snapshots, JobRecords, Types, AllSites
<1> HIDE DEF snapshot, create
<1>5. w \in JobRecords
    BY <1>1, <1>4 DEF JobRecords, Pcs
<1>6. /\ w.pc = "store" /\ w.site = job[j].site /\ w.allowed = job[j].allowed
      /\ w.staged = job[j].staged
    BY <1>1 DEF JobRecords
<1> HIDE DEF w
<1>7. job'[j] = w
    BY <1>1, <1>2
<1>8. Types'
    BY <1>1, <1>2, <1>5 DEF Types
<1>9. j \in Jobs => Locked(j)' /\ Staging(j)' /\ Counting(j)'
    <2> SUFFICES ASSUME j \in Jobs PROVE Locked(j)' /\ Staging(j)' /\ Counting(j)'
        OBVIOUS
    <2>1. Locked(j) /\ Staging(j)
        BY DEF Inv
    <2> QED BY <1>2, <1>6, <1>7, <2>1 DEF Locked, Staging, Counting
<1>10. /\ \A t \in AllSites : lock'[t] = j =>
                /\ w.pc \notin {"idle", "done"}
                /\ t = w.site \/ (t = w.at /\ w.pc \in {"embed", "encode"})
       /\ \A t \in Customers : glock'[t] = j => w.pc \in {"links", "store"} /\ w.site = t
       /\ \A t \in AllSites : lock'[t] = lock[t]
       /\ \A t \in Customers : glock'[t] = glock[t]
    BY <1>1, <1>2, <1>6, GenerationAssumptions DEF LocksAtWork, Workers
<1>11. w.pc \in {"links", "store"} => w.site \in Customers /\ glock'[w.site] = j
    BY <1>2, <1>3, <1>6
<1> QED BY <1>2, <1>5, <1>8, <1>9, <1>10, <1>11, WorkerStep

\* A worker that stops, having released every lock it held, leaves nothing.
LEMMA WorkerStops ==
    ASSUME Inv, NEW j \in Workers, job' = [job EXCEPT ![j] = Done],
           UNCHANGED <<active, version, trusted, row, fresh>>,
           lock' \in [AllSites -> Jobs \cup {None}], glock' \in [Customers -> Workers \cup {None}],
           \A s \in AllSites : lock'[s] # j /\ (lock'[s] = lock[s] \/ (lock[s] = j /\ lock'[s] = None)),
           \A s \in Customers : glock'[s] # j /\ (glock'[s] = glock[s] \/ (glock[s] = j /\ glock'[s] = None))
    PROVE  Inv'
<1>1. Types
    BY DEF Inv
<1>2. job'[j] = Done
    BY <1>1 DEF Types
<1>3. Types'
    BY <1>1, IdleTyped DEF Types
<1>4. Locked(j)' /\ Staging(j)' /\ Counting(j)'
    BY <1>2, IdleTyped DEF Locked, Staging, Counting
<1>5. Done \in JobRecords /\ Done.pc = "done"
    BY IdleTyped
<1> QED BY <1>3, <1>4, <1>5, WorkerStep

LEMMA StopKeeps == ASSUME Inv, NEW j \in Jobs, Finish(j) \/ Fail(j) PROVE Inv'
<1>1. Types /\ LocksAtWork /\ j \in Workers /\ j # None
    BY GenerationAssumptions DEF Inv, Workers
<1>2. /\ job' = [job EXCEPT ![j] = Done] /\ lock' = Unlocked(j, lock)
      /\ UNCHANGED <<active, version, enabled, trusted, row, fresh>>
    BY DEF Finish, Fail, world
<1>3. /\ lock' \in [AllSites -> Jobs \cup {None}]
      /\ \A s \in AllSites : lock'[s] # j /\ (lock'[s] = lock[s] \/ (lock[s] = j /\ lock'[s] = None))
    BY <1>1, <1>2 DEF Unlocked, Types
<1>4. /\ glock' \in [Customers -> Workers \cup {None}]
      /\ \A s \in Customers : glock'[s] # j /\ (glock'[s] = glock[s] \/ (glock[s] = j /\ glock'[s] = None))
    <2>1. CASE Finish(j)
        <3>1. job[j].pc = "source" /\ UNCHANGED glock
            BY <2>1 DEF Finish
        <3>2. \A s \in Customers : glock[s] # j
            BY <1>1, <3>1 DEF LocksAtWork
        <3> QED BY <1>1, <3>1, <3>2 DEF Types
    <2>2. CASE Fail(j)
        <3>1. glock' = Unlocked(j, glock)
            BY <2>2 DEF Fail
        <3> QED BY <1>1, <3>1 DEF Unlocked, Types
    <2> QED BY <2>1, <2>2
<1> QED BY <1>1, <1>2, <1>3, <1>4, WorkerStops

LEMMA GraphStoreKeeps == ASSUME Inv, NEW j \in Workers, GraphStore(j) PROVE Inv'
<1> DEFINE s == job[j].site
           pools == {SiteOf[a] : a \in job[j].allowed} \ {s}
           w == [job[j] EXCEPT !.pc = "pools", !.nodes = {}, !.create = FALSE,
                               !.snapshot = None, !.pools = pools]
<1>1. Types /\ LocksAtWork /\ job[j] \in JobRecords /\ job \in [Workers -> JobRecords] /\ j # None
    BY GenerationAssumptions DEF Inv, Types, Workers
<1>2. /\ job[j].pc = "store" /\ glock' = [glock EXCEPT ![s] = None]
      /\ job' = IF j \in Readers THEN [job EXCEPT ![j] = Done] ELSE [job EXCEPT ![j] = w]
      /\ UNCHANGED <<active, version, enabled, trusted, row, fresh, lock>>
    BY <1>1 DEF GraphStore, world
<1>3. s \in Customers /\ glock[s] = j
    BY <1>2 DEF Inv, GraphLocked
<1>4. \A t \in Customers : glock[t] = j => t = s
    BY <1>1 DEF LocksAtWork
<1>5. /\ glock' \in [Customers -> Workers \cup {None}]
      /\ glock'[s] = None /\ \A t \in Customers \ {s} : glock'[t] = glock[t]
    BY <1>1, <1>2, <1>3 DEF Types
<1>6. CASE j \in Readers
    <2>1. \A t \in AllSites : lock[t] # j
        BY <1>1, <1>6, GenerationAssumptions DEF Types
    <2>2. job' = [job EXCEPT ![j] = Done]
        BY <1>2, <1>6
    <2>3. \A t \in Customers : glock'[t] # j /\ (glock'[t] = glock[t] \/ (glock[t] = j /\ glock'[t] = None))
        BY <1>1, <1>3, <1>4, <1>5
    <2>4. /\ lock' \in [AllSites -> Jobs \cup {None}]
          /\ \A t \in AllSites : lock'[t] # j /\ lock'[t] = lock[t]
        BY <1>1, <1>2, <2>1 DEF Types
    <2> QED BY <1>2, <1>5, <2>2, <2>3, <2>4, WorkerStops
<1>7. CASE j \notin Readers
    <2>1. j \in Jobs /\ Locked(j) /\ Staging(j)
        BY <1>7 DEF Workers, Inv
    <2>2. pools \in SUBSET Pools
        BY <2>1 DEF Locked
    <2> HIDE DEF pools
    <2>3. w \in JobRecords
        BY <1>1, <2>2 DEF JobRecords, Pcs
    <2>4. /\ w.pc = "pools" /\ w.site = s /\ w.allowed = job[j].allowed
          /\ w.staged = job[j].staged
        BY <1>1 DEF JobRecords
    <2> HIDE DEF w
    <2>5. job' = [job EXCEPT ![j] = w] /\ job'[j] = w
        BY <1>1, <1>2, <1>7
    <2>6. Types'
        BY <1>1, <1>2, <1>5, <2>3, <2>5 DEF Types
    <2>7. Locked(j)' /\ Staging(j)' /\ Counting(j)'
        BY <1>2, <2>1, <2>4, <2>5 DEF Locked, Staging, Counting
    <2>8. /\ \A t \in AllSites : lock'[t] = j =>
                /\ w.pc \notin {"idle", "done"}
                /\ t = w.site \/ (t = w.at /\ w.pc \in {"embed", "encode"})
          /\ \A t \in AllSites : lock'[t] = lock[t]
        BY <1>1, <1>2, <2>4 DEF LocksAtWork
    <2>9. /\ \A t \in Customers : \/ glock'[t] = glock[t]
                                  \/ glock[t] \in {None, j} /\ glock'[t] \in {None, j}
          /\ \A t \in Customers : glock'[t] # j
        BY <1>1, <1>3, <1>4, <1>5
    <2>10. w.pc \notin {"links", "store"}
        BY <2>4
    <2>11. job' = [job EXCEPT ![j] = w] /\ UNCHANGED <<row, fresh>>
        BY <1>2, <2>5
    <2> QED BY <2>3, <2>6, <2>7, <2>8, <2>9, <2>10, <2>11, WorkerStep
<1> QED BY <1>6, <1>7

LEMMA PoolLockKeeps == ASSUME Inv, NEW j \in Jobs, PoolLock(j) PROVE Inv'
<1> DEFINE q == Least(job[j].pools)
           left == job[j].pools \ {q}
           w == [job[j] EXCEPT !.pc = "embed", !.at = q, !.pools = left]
<1>1. /\ job[j] \in JobRecords /\ Staging(j) /\ Locked(j) /\ Types /\ LocksAtWork
      /\ job \in [Workers -> JobRecords] /\ j \in Workers /\ j # None
    BY GenerationAssumptions DEF Inv, Types, Workers
<1>2. /\ job[j].pc = "pools" /\ job[j].pools # {} /\ lock[q] = None
      /\ lock' = [lock EXCEPT ![q] = j] /\ job' = [job EXCEPT ![j] = w]
      /\ UNCHANGED <<active, version, enabled, trusted, row, fresh, glock>>
    BY <1>1 DEF PoolLock, LockFree, world
<1>3. job[j].pools \subseteq Pools /\ left \in SUBSET Pools
    BY <1>1 DEF JobRecords
<1>4. q \in Pools /\ q \in AllSites
    BY <1>2, <1>3, LeastIsOne, GenerationAssumptions DEF AllSites
<1> HIDE DEF q, left
<1>5. w \in JobRecords
    BY <1>1, <1>3, <1>4 DEF JobRecords, Pcs
<1>6. /\ w.pc = "embed" /\ w.site = job[j].site /\ w.at = q /\ w.allowed = job[j].allowed
      /\ w.staged = job[j].staged
    BY <1>1 DEF JobRecords
<1> HIDE DEF w
<1>7. job'[j] = w /\ lock'[q] = j /\ \A t \in AllSites \ {q} : lock'[t] = lock[t]
    BY <1>1, <1>2, <1>4 DEF Types
<1>8. Types'
    BY <1>1, <1>2, <1>5 DEF Types
<1>9. job[j].site \in Customers /\ lock[job[j].site] = j /\ job[j].site \in AllSites /\ job[j].staged = {}
    BY <1>1, <1>2 DEF Locked, AllSites, Staging
<1>10. lock'[job[j].site] = j
    BY <1>1, <1>2, <1>7, <1>9
<1>11. Locked(j)' /\ Staging(j)' /\ Counting(j)'
    BY <1>1, <1>4, <1>6, <1>7, <1>9, <1>10 DEF Locked, Staging, Counting
<1>12. /\ \A t \in AllSites : lock'[t] = j =>
                /\ w.pc \notin {"idle", "done"}
                /\ t = w.site \/ (t = w.at /\ w.pc \in {"embed", "encode"})
       /\ \A t \in AllSites : \/ lock'[t] = lock[t]
                              \/ lock[t] \in {None, j} /\ lock'[t] \in {None, j}
    BY <1>1, <1>2, <1>6, <1>7 DEF LocksAtWork
<1>13. \A t \in Customers : glock'[t] = glock[t] /\ glock'[t] # j
    BY <1>1, <1>2 DEF LocksAtWork
<1>14. w.pc \notin {"links", "store"} /\ UNCHANGED <<row, fresh>>
    BY <1>2, <1>6
<1> QED BY <1>1, <1>2, <1>5, <1>8, <1>11, <1>12, <1>13, <1>14, WorkerStep

-----------------------------------------------------------------------------
(* Counting, ranking and inserting                                         *)

LEMMA CountKeeps == ASSUME Inv, NEW j \in Jobs, Count(j) PROVE Inv'
<1> DEFINE own == OwnedBy(job[j].site)
           sources == own \cap active \cap job[j].scope
           used == [a \in Sources |-> Cardinality(RowsOf(a, ACTIVE_STATUSES))]
           ever == [a \in Sources |-> Cardinality(RowsOf(a, LIFETIME_STATUSES))]
           open == Cardinality(UNION {RowsOf(a, ACTIVE_STATUSES) : a \in own})
           most == Cardinality(sources) * Cap
           room == IF most < SiteCap THEN most ELSE SiteCap
           slots == IF room > open THEN room - open ELSE 0
           w == [job[j] EXCEPT !.pc = "source", !.todo = sources, !.used = used,
                               !.ever = ever, !.slots = slots]
<1>1. /\ job[j] \in JobRecords /\ Staging(j) /\ Locked(j) /\ Types /\ FreshIsLive
      /\ job \in [Workers -> JobRecords] /\ j \in Workers
    BY DEF Inv, Types, Workers
<1>2. /\ job[j].pc = "pools" /\ job' = [job EXCEPT ![j] = w]
      /\ UNCHANGED <<active, version, enabled, trusted, row, fresh, lock, glock>>
    BY <1>1 DEF Count, world
<1>3. \A a, S : RowsOf(a, S) \subseteq Pairs /\ Cardinality(RowsOf(a, S)) \in Nat
    <2>1. \A a, S : RowsOf(a, S) \subseteq Pairs
        BY DEF RowsOf
    <2> QED BY <2>1, Sizes
<1>4. used \in [Sources -> Nat] /\ ever \in [Sources -> Nat]
    BY <1>3
<1>5. sources \in SUBSET Articles /\ sources \subseteq own
    BY DEF OwnedBy
<1>6. UNION {RowsOf(a, ACTIVE_STATUSES) : a \in own} \subseteq Pairs
    BY <1>3
<1>7. open \in Nat
    BY <1>6, Sizes
<1>8. most \in Nat
    <2>1. Cardinality(sources) \in Nat
        BY <1>5, GenerationAssumptions, FS_Subset, FS_CardinalityType
    <2> HIDE DEF sources
    <2> QED BY <2>1, GenerationAssumptions
<1>9. ASSUME NEW a \in sources
      PROVE  /\ a \in Sources
             /\ Cardinality(FreshOf(a, ACTIVE_STATUSES)) <= used[a]
             /\ Cardinality(FreshOf(a, LIFETIME_STATUSES)) <= ever[a]
    <2>1. a \in Sources
        BY <1>1, <1>2 DEF OwnedBy, Sources, Locked
    <2>2. /\ FreshOf(a, ACTIVE_STATUSES) \subseteq RowsOf(a, ACTIVE_STATUSES)
          /\ FreshOf(a, LIFETIME_STATUSES) \subseteq RowsOf(a, LIFETIME_STATUSES)
        BY <1>1 DEF FreshOf, RowsOf, FreshIsLive
    <2> QED BY <1>3, <2>1, <2>2, Sizes
<1>10. Cardinality(FreshIn(job[j].site)) \in Nat /\ Cardinality(FreshIn(job[j].site)) <= open
    <2>1. FreshIn(job[j].site) \subseteq UNION {RowsOf(a, ACTIVE_STATUSES) : a \in own}
        <3> SUFFICES ASSUME NEW p \in FreshIn(job[j].site)
                     PROVE  p[1] \in own /\ p \in RowsOf(p[1], ACTIVE_STATUSES)
            OBVIOUS
        <3>1. p \in Pairs /\ SiteOf[p[1]] = job[j].site /\ row[p] \in ACTIVE_STATUSES
            BY <1>1 DEF FreshIn, FreshIsLive
        <3> QED BY <3>1 DEF RowsOf, OwnedBy, Pairs, Sources
    <2> QED BY <1>6, <2>1, Sizes
<1> HIDE DEF own, sources, used, ever, open, most
<1>11. slots \in Nat /\ (slots > 0 => open + slots <= SiteCap)
    BY <1>7, <1>8, GenerationAssumptions
<1> HIDE DEF slots
<1>12. w \in JobRecords
    BY <1>1, <1>4, <1>5, <1>11 DEF JobRecords, Pcs
<1>13. /\ w.pc = "source" /\ w.site = job[j].site /\ w.allowed = job[j].allowed
       /\ w.staged = job[j].staged /\ w.todo = sources /\ w.used = used /\ w.ever = ever
       /\ w.slots = slots
    BY <1>1 DEF JobRecords
<1> HIDE DEF w
<1>14. job'[j] = w
    BY <1>1, <1>2
<1>15. Staging(j)'
    BY <1>1, <1>2, <1>5, <1>13, <1>14 DEF Staging, own
<1>16. Counting(j)'
    <2>1. \A a \in sources : /\ Cardinality(FreshOf(a, ACTIVE_STATUSES)') <= used[a]
                             /\ Cardinality(FreshOf(a, LIFETIME_STATUSES)') <= ever[a]
        BY <1>2, <1>9 DEF FreshOf
    <2>2. slots > 0 => Cardinality(FreshIn(job[j].site)) + slots <= SiteCap
        BY <1>7, <1>10, <1>11, GenerationAssumptions
    <2>3. FreshIn(job[j].site)' = FreshIn(job[j].site)
        BY <1>2, <1>13, <1>14 DEF FreshIn
    <2> QED BY <1>13, <1>14, <2>1, <2>2, <2>3 DEF Counting
<1> QED BY <1>2, <1>12, <1>13, <1>15, <1>16, JobMoves

LEMMA SkipSourceKeeps == ASSUME Inv, NEW j \in Jobs, SkipSource(j) PROVE Inv'
<1> DEFINE left == job[j].todo \ {Least(job[j].todo)}
           w == [job[j] EXCEPT !.todo = left]
<1>1. /\ job[j] \in JobRecords /\ Staging(j) /\ Counting(j)
      /\ job \in [Workers -> JobRecords] /\ j \in Workers
    BY DEF Inv, Types, Workers
<1>2. /\ job[j].pc = "source" /\ job' = [job EXCEPT ![j] = w]
      /\ UNCHANGED <<active, version, enabled, trusted, row, fresh, lock, glock>>
    BY <1>1 DEF SkipSource, world
<1>3. left \in SUBSET Articles /\ left \subseteq job[j].todo
    BY <1>1 DEF JobRecords
<1> HIDE DEF left
<1>4. w \in JobRecords
    BY <1>1, <1>3 DEF JobRecords
<1>5. /\ w.pc = "source" /\ w.site = job[j].site /\ w.allowed = job[j].allowed
      /\ w.staged = job[j].staged /\ w.todo = left /\ w.used = job[j].used /\ w.ever = job[j].ever
      /\ w.slots = job[j].slots
    BY <1>1, <1>2 DEF JobRecords
<1> HIDE DEF w
<1>6. job'[j] = w
    BY <1>1, <1>2
<1>7. Staging(j)'
    BY <1>1, <1>2, <1>3, <1>5, <1>6 DEF Staging
<1>8. Counting(j)'
    BY <1>1, <1>2, <1>3, <1>5, <1>6 DEF Counting, FreshOf, FreshIn
<1> QED BY <1>2, <1>4, <1>5, <1>7, <1>8, JobMoves

\* An analysis stages links from one of its articles.
LEMMA StagingMoves ==
    ASSUME Inv, NEW j \in Jobs, NEW w \in JobRecords, job' = [job EXCEPT ![j] = w],
           UNCHANGED <<active, trusted, version, row, fresh, lock, glock>>,
           job[j].pc \in {"source", "gap"}, w.pc \in {"gap", "commit"},
           w.site = job[j].site, w.allowed = job[j].allowed, w.todo = job[j].todo,
           w.used = job[j].used, w.ever = job[j].ever, w.slots = job[j].slots,
           w.at \in job[j].todo,
           \A p \in w.staged : /\ p[1] = w.at
                               /\ row[p] \in {"none", "expired"}
                               /\ <<p[2], p[1]>> \notin fresh,
           Cardinality(w.staged) <= Remaining(j, w.at)
    PROVE  Inv'
<1>1. Staging(j) /\ Counting(j) /\ job \in [Workers -> JobRecords] /\ j \in Workers
    BY DEF Inv, Types, Workers
<1>2. job'[j] = w
    BY <1>1
<1>3. Staging(j)'
    BY <1>1, <1>2 DEF Staging
<1>4. Remaining(j, w.at)' = Remaining(j, w.at)
    BY <1>2 DEF Remaining
<1>5. Counting(j)'
    <2>1. \A a \in w.todo : /\ Cardinality(FreshOf(a, ACTIVE_STATUSES)') <= w.used[a]
                            /\ Cardinality(FreshOf(a, LIFETIME_STATUSES)') <= w.ever[a]
        BY <1>1 DEF Counting, FreshOf
    <2>2. w.slots > 0 => Cardinality(FreshIn(w.site)') + w.slots <= SiteCap
        BY <1>1 DEF Counting, FreshIn
    <2>3. Cardinality(w.staged) <= Remaining(j, w.at)'
        BY <1>4
    <2> QED BY <1>2, <2>1, <2>2, <2>3 DEF Counting
<1>6. /\ job[j].pc \notin {"idle", "done", "links", "store", "embed", "encode"}
      /\ w.pc \notin {"idle", "done", "links", "store", "embed", "encode"}
    OBVIOUS
<1> QED BY <1>3, <1>5, <1>6, JobMoves

LEMMA RankKeeps ==
    ASSUME Inv, NEW j \in Jobs, NEW chosen \in SUBSET Articles, Rank(j, chosen)
    PROVE  Inv'
<1> DEFINE a == Least(job[j].todo)
           ranked == job[j].ranked + 1
           staged == {a} \X chosen
           w == [job[j] EXCEPT !.pc = "gap", !.at = a, !.ranked = ranked, !.staged = staged]
<1>1. /\ job[j] \in JobRecords /\ Staging(j) /\ FreshIsLive /\ NoReverse
      /\ job \in [Workers -> JobRecords] /\ j \in Workers
    BY DEF Inv, Types, Workers
<1>2. /\ job[j].pc = "source" /\ job[j].todo # {} /\ job' = [job EXCEPT ![j] = w]
      /\ chosen \subseteq Eligible(a, job[j].allowed)
      /\ Cardinality(chosen) <= Remaining(j, a)
      /\ UNCHANGED <<active, version, enabled, trusted, row, fresh, lock, glock>>
    BY <1>1 DEF Rank, world
<1>3. a \in job[j].todo /\ a \in Articles
    <2>1. job[j].todo \subseteq Articles /\ job[j].todo \subseteq Nat
        BY <1>1, GenerationAssumptions DEF JobRecords
    <2> QED BY <1>2, <2>1, LeastIsOne
<1> HIDE DEF a
<1>4. ASSUME NEW t \in chosen
      PROVE  /\ <<a, t>> \in Pairs /\ row[<<a, t>>] \in {"none", "expired"}
             /\ <<t, a>> \notin fresh
    BY <1>1, <1>2 DEF Eligible, FreshIsLive
<1>5. \A p \in staged : /\ p \in Pairs /\ p[1] = a /\ row[p] \in {"none", "expired"}
                        /\ <<p[2], p[1]>> \notin fresh
    <2> SUFFICES ASSUME NEW t \in chosen
                 PROVE  /\ <<a, t>> \in Pairs /\ <<a, t>>[1] = a
                        /\ row[<<a, t>>] \in {"none", "expired"}
                        /\ <<<<a, t>>[2], <<a, t>>[1]>> \notin fresh
        OBVIOUS
    <2> QED BY <1>4
<1>6. Cardinality(staged) = Cardinality(chosen)
    <2>1. IsFiniteSet(chosen)
        BY GenerationAssumptions, FS_Subset
    <2> QED BY <2>1, PairsWith
<1>7. staged \in SUBSET Pairs /\ ranked \in Nat
    <2>1. ranked \in Nat
        BY <1>1 DEF JobRecords
    <2>2. staged \subseteq Pairs
        BY <1>5
    <2> QED BY <2>1, <2>2
<1> HIDE DEF staged, ranked
<1>8. w \in JobRecords
    BY <1>1, <1>3, <1>7 DEF JobRecords, Pcs
<1>9. /\ w.pc = "gap" /\ w.site = job[j].site /\ w.allowed = job[j].allowed /\ w.at = a
      /\ w.todo = job[j].todo /\ w.used = job[j].used /\ w.ever = job[j].ever
      /\ w.slots = job[j].slots /\ w.staged = staged
    BY <1>1 DEF JobRecords
<1> HIDE DEF w
<1>10. /\ job[j].pc \in {"source", "gap"} /\ w.pc \in {"gap", "commit"}
       /\ w.at \in job[j].todo /\ Cardinality(w.staged) <= Remaining(j, w.at)
       /\ \A p \in w.staged : /\ p[1] = w.at /\ row[p] \in {"none", "expired"}
                              /\ <<p[2], p[1]>> \notin fresh
    BY <1>2, <1>3, <1>5, <1>6, <1>9
<1> QED BY <1>2, <1>8, <1>9, <1>10, StagingMoves

LEMMA GapKeeps ==
    ASSUME Inv, NEW j \in Jobs, NEW found \in SUBSET Pages, Gap(j, found)
    PROVE  Inv'
<1> DEFINE a == job[j].at
           more == {a} \X found
           staged == job[j].staged \cup more
           w == [job[j] EXCEPT !.pc = "commit", !.staged = staged]
<1>1. /\ job[j] \in JobRecords /\ Locked(j) /\ Staging(j) /\ Counting(j) /\ FreshIsLive
      /\ job \in [Workers -> JobRecords] /\ j \in Workers
    BY DEF Inv, Types, Workers
<1>2. /\ job[j].pc = "gap" /\ job' = [job EXCEPT ![j] = w]
      /\ found \subseteq {u \in Pages : row[<<a, u>>] \in {"none", "expired"}}
      /\ Cardinality(found) + Cardinality(job[j].staged) <= Remaining(j, a)
      /\ UNCHANGED <<active, version, enabled, trusted, row, fresh, lock, glock>>
    BY <1>1 DEF Gap, world
<1>3. a \in job[j].todo /\ a \in Sources /\ job[j].staged \in SUBSET Pairs
      /\ job[j].used[a] \in Nat /\ job[j].ever[a] \in Nat /\ job[j].slots \in Nat
    BY <1>1, <1>2 DEF Staging, Locked, OwnedBy, Sources, JobRecords
<1> HIDE DEF a
<1>4. ASSUME NEW u \in found
      PROVE  /\ <<a, u>> \in Pairs /\ row[<<a, u>>] \in {"none", "expired"}
             /\ <<u, a>> \notin fresh
    <2>1. a \in Articles /\ u \in Pages /\ u \notin Articles /\ a # u
        BY <1>3, GenerationAssumptions DEF Sources
    <2>2. <<a, u>> \in Pairs
        BY <1>3, <2>1 DEF Pairs, Targets
    <2>3. <<u, a>> \notin Pairs
        BY <2>1 DEF Pairs, Sources
    <2> QED BY <1>1, <1>2, <2>2, <2>3 DEF FreshIsLive
<1>5. \A p \in more : /\ p \in Pairs /\ p[1] = a /\ row[p] \in {"none", "expired"}
                      /\ <<p[2], p[1]>> \notin fresh
    <2> SUFFICES ASSUME NEW u \in found
                 PROVE  /\ <<a, u>> \in Pairs /\ <<a, u>>[1] = a
                        /\ row[<<a, u>>] \in {"none", "expired"}
                        /\ <<<<a, u>>[2], <<a, u>>[1]>> \notin fresh
        OBVIOUS
    <2> QED BY <1>4
<1>6. Cardinality(more) = Cardinality(found)
    <2>1. IsFiniteSet(found)
        BY GenerationAssumptions, FS_Subset
    <2> QED BY <2>1, PairsWith
<1>7. staged \in SUBSET Pairs
    BY <1>3, <1>5
<1>8. /\ Cardinality(staged) \in Nat
      /\ Cardinality(staged) <= Cardinality(job[j].staged) + Cardinality(found)
      /\ Cardinality(job[j].staged) \in Nat /\ Cardinality(found) \in Nat
    BY <1>3, <1>5, <1>6, Grown
<1>9. \A p \in staged : /\ p[1] = a /\ row[p] \in {"none", "expired"}
                        /\ <<p[2], p[1]>> \notin fresh
    BY <1>1, <1>5 DEF Staging, a
<1>10. Remaining(j, a) \in Int
    BY <1>3, GenerationAssumptions DEF Remaining
<1>11. Cardinality(staged) <= Remaining(j, a)
    BY <1>2, <1>8, <1>10
<1> HIDE DEF staged
<1>12. w \in JobRecords
    BY <1>1, <1>7 DEF JobRecords, Pcs
<1>13. /\ w.pc = "commit" /\ w.site = job[j].site /\ w.allowed = job[j].allowed /\ w.at = a
       /\ w.todo = job[j].todo /\ w.used = job[j].used /\ w.ever = job[j].ever
       /\ w.slots = job[j].slots /\ w.staged = staged
    BY <1>1 DEF JobRecords, a
<1> HIDE DEF w
<1>14. /\ job[j].pc \in {"source", "gap"} /\ w.pc \in {"gap", "commit"}
       /\ w.at \in job[j].todo /\ Cardinality(w.staged) <= Remaining(j, w.at)
       /\ \A p \in w.staged : /\ p[1] = w.at /\ row[p] \in {"none", "expired"}
                              /\ <<p[2], p[1]>> \notin fresh
    BY <1>2, <1>3, <1>9, <1>11, <1>13
<1> QED BY <1>2, <1>12, <1>13, <1>14, StagingMoves

\* Only here do suggestions come into being. The lock of the site keeps every
\* other analysis away from it, and what was read of the limits has room for
\* what is inserted.
LEMMA CommitSourceKeeps == ASSUME Inv, NEW j \in Jobs, CommitSource(j) PROVE Inv'
<1> DEFINE at == job[j].at
           new == job[j].staged
           n == Cardinality(new)
           home == job[j].site
           left == job[j].todo \ {at}
           slots == job[j].slots - n
           w == [job[j] EXCEPT !.pc = "source", !.staged = {}, !.at = None, !.todo = left,
                               !.slots = slots]
<1>1. /\ job[j] \in JobRecords /\ Locked(j) /\ Staging(j) /\ Counting(j) /\ FreshIsLive
      /\ Types /\ LocksAtWork /\ NoReverse /\ Bounded /\ GraphLocked
      /\ job \in [Workers -> JobRecords] /\ j \in Workers /\ row \in [Pairs -> Statuses]
    BY DEF Inv, Types, Workers
<1>2. /\ job[j].pc = "commit" /\ job' = [job EXCEPT ![j] = w]
      /\ row' = [p \in Pairs |-> IF p \in new THEN "pending" ELSE row[p]]
      /\ fresh' = fresh \cup new
      /\ UNCHANGED <<active, version, enabled, trusted, lock, glock>>
    BY <1>1 DEF CommitSource, world
<1>3. /\ at \in job[j].todo /\ at \in Sources /\ at \in OwnedBy(home) /\ new \in SUBSET Pairs
      /\ home \in Customers /\ lock[home] = j /\ job[j].todo \subseteq OwnedBy(home)
      /\ job[j].used[at] \in Nat /\ job[j].ever[at] \in Nat /\ job[j].slots \in Nat
    BY <1>1, <1>2 DEF Staging, Locked, OwnedBy, Sources, JobRecords
<1>4. /\ \A p \in new : p[1] = at /\ row[p] \in {"none", "expired"} /\ <<p[2], p[1]>> \notin fresh
      /\ n <= Remaining(j, at)
    BY <1>1, <1>2 DEF Staging, Counting
<1>5. n \in Nat
    BY <1>3, Sizes
<1>6. n <= job[j].slots /\ n <= Cap - job[j].used[at] /\ n <= LifetimeCap - job[j].ever[at]
    <2> HIDE DEF n, at
    <2> QED BY <1>3, <1>4, <1>5, GenerationAssumptions DEF Remaining
<1>7. slots \in Nat /\ left \in SUBSET Articles /\ left \subseteq job[j].todo /\ at \notin left
    <2>1. job[j].todo \subseteq Articles
        BY <1>1 DEF JobRecords
    <2> QED BY <1>3, <1>5, <1>6, <2>1
<1> HIDE DEF slots, left
<1>8. w \in JobRecords
    BY <1>1, <1>7 DEF JobRecords, Pcs
<1>9. /\ w.pc = "source" /\ w.site = home /\ w.allowed = job[j].allowed /\ w.staged = {}
      /\ w.todo = left /\ w.used = job[j].used /\ w.ever = job[j].ever /\ w.slots = slots
    BY <1>1 DEF JobRecords
<1> HIDE DEF w
<1>10. job'[j] = w /\ \A k \in Workers \ {j} : job'[k] = job[k]
    BY <1>1, <1>2
<1>11. Types'
    <2>1. row' \in [Pairs -> Statuses]
        BY <1>1, <1>2 DEF Statuses, LIFETIME_STATUSES, ACTIVE_STATUSES
    <2> QED BY <1>1, <1>2, <1>8, <2>1 DEF Types
<1>12. FreshIsLive'
    BY <1>1, <1>2, <1>3 DEF FreshIsLive, LIFETIME_STATUSES, ACTIVE_STATUSES
<1>13. NoReverse'
    <2> SUFFICES ASSUME NEW p \in fresh', <<p[2], p[1]>> \in fresh' PROVE FALSE
        BY DEF NoReverse
    <2> DEFINE r == <<p[2], p[1]>>
    <2>1. p \in Pairs /\ p[1] # p[2] /\ p = <<p[1], p[2]>>
        BY <1>12 DEF FreshIsLive, Pairs
    <2>2. r[1] = p[2] /\ r[2] = p[1] /\ <<r[2], r[1]>> = p
        BY <2>1
    <2> HIDE DEF r
    <2>3. r \in fresh \/ r \in new
        BY <1>2 DEF r
    <2>4. p \in fresh \/ p \in new
        BY <1>2
    <2>5. p \in fresh => r \notin fresh
        BY <1>1 DEF NoReverse, r
    <2>6. p \in new => r \notin fresh
        BY <1>4 DEF r
    <2>7. r \in new => p \notin fresh
        BY <1>4, <2>2
    <2>8. p \in new => r \notin new
        BY <1>4, <2>1, <2>2
    <2> QED BY <2>3, <2>4, <2>5, <2>6, <2>7, <2>8
<1>14. ASSUME NEW a, a # at
       PROVE  /\ FreshOf(a, ACTIVE_STATUSES)' = FreshOf(a, ACTIVE_STATUSES)
              /\ FreshOf(a, LIFETIME_STATUSES)' = FreshOf(a, LIFETIME_STATUSES)
    BY <1>1, <1>2, <1>4, <1>14 DEF FreshOf, FreshIsLive
<1>15. ASSUME NEW p \in fresh', p \notin new
       PROVE  p \in fresh /\ p \in Pairs /\ row'[p] = row[p]
    BY <1>1, <1>2, <1>15 DEF FreshIsLive
<1>16. ASSUME NEW a
       PROVE  /\ Cardinality(FreshOf(a, ACTIVE_STATUSES)') \in Nat
              /\ Cardinality(FreshOf(a, LIFETIME_STATUSES)') \in Nat
              /\ Cardinality(FreshIn(a)') \in Nat
              /\ Cardinality(FreshOf(a, ACTIVE_STATUSES)) \in Nat
              /\ Cardinality(FreshOf(a, LIFETIME_STATUSES)) \in Nat
              /\ Cardinality(FreshIn(a)) \in Nat
              /\ Cardinality(FreshOf(a, ACTIVE_STATUSES)') <= Cardinality(FreshOf(a, ACTIVE_STATUSES)) + n
              /\ Cardinality(FreshOf(a, LIFETIME_STATUSES)') <= Cardinality(FreshOf(a, LIFETIME_STATUSES)) + n
              /\ Cardinality(FreshIn(a)') <= Cardinality(FreshIn(a)) + n
    <2>1. /\ FreshOf(a, ACTIVE_STATUSES) \subseteq Pairs /\ FreshOf(a, LIFETIME_STATUSES) \subseteq Pairs
          /\ FreshIn(a) \subseteq Pairs
        BY <1>1 DEF FreshOf, FreshIn, FreshIsLive
    <2>2. /\ FreshOf(a, ACTIVE_STATUSES)' \subseteq FreshOf(a, ACTIVE_STATUSES) \cup new
          /\ FreshOf(a, LIFETIME_STATUSES)' \subseteq FreshOf(a, LIFETIME_STATUSES) \cup new
          /\ FreshIn(a)' \subseteq FreshIn(a) \cup new
        BY <1>15 DEF FreshOf, FreshIn
    <2> QED BY <1>3, <2>1, <2>2, Grown
<1>17. ASSUME NEW s, s # home
       PROVE  FreshIn(s)' = FreshIn(s)
    <2>1. \A p \in new : SiteOf[p[1]] = home
        BY <1>3, <1>4 DEF OwnedBy
    <2>2. FreshIn(s)' \subseteq FreshIn(s)
        BY <1>15, <1>17, <2>1 DEF FreshIn
    <2>3. FreshIn(s) \subseteq FreshIn(s)'
        BY <1>1, <1>2, <1>17, <2>1 DEF FreshIn, FreshIsLive
    <2> QED BY <2>2, <2>3
<1>18. /\ Cardinality(FreshOf(at, ACTIVE_STATUSES)) <= job[j].used[at]
       /\ Cardinality(FreshOf(at, LIFETIME_STATUSES)) <= job[j].ever[at]
       /\ job[j].slots > 0 => Cardinality(FreshIn(home)) + job[j].slots <= SiteCap
    BY <1>1, <1>2, <1>3 DEF Counting
<1> HIDE DEF n
<1>19. Bounded'
    <2>1. ASSUME NEW a \in Sources
          PROVE  /\ Cardinality(FreshOf(a, ACTIVE_STATUSES)') <= Cap
                 /\ Cardinality(FreshOf(a, LIFETIME_STATUSES)') <= LifetimeCap
        <3>1. CASE a = at
            <4>1. /\ Cardinality(FreshOf(a, ACTIVE_STATUSES)) <= job[j].used[a]
                  /\ Cardinality(FreshOf(a, LIFETIME_STATUSES)) <= job[j].ever[a]
                  /\ n <= Cap - job[j].used[a] /\ n <= LifetimeCap - job[j].ever[a]
                  /\ job[j].used[a] \in Nat /\ job[j].ever[a] \in Nat
                BY <1>3, <1>6, <1>18, <3>1
            <4> QED BY <1>5, <1>16, <4>1, GenerationAssumptions
        <3>2. CASE a # at
            BY <1>1, <1>14, <3>2 DEF Bounded
        <3> QED BY <3>1, <3>2
    <2>2. ASSUME NEW s \in Customers
          PROVE  Cardinality(FreshIn(s)') <= SiteCap
        <3>1. CASE s = home /\ n > 0
            <4>1. Cardinality(FreshIn(s)) + job[j].slots <= SiteCap
                BY <1>3, <1>5, <1>6, <1>18, <3>1
            <4> QED BY <1>3, <1>5, <1>6, <1>16, <4>1, GenerationAssumptions
        <3>2. CASE n = 0
            <4>1. Cardinality(FreshIn(s)) <= SiteCap
                BY <1>1 DEF Bounded
            <4> QED BY <1>16, <3>2, <4>1, GenerationAssumptions
        <3>3. CASE s # home
            BY <1>1, <1>17, <3>3 DEF Bounded
        <3> QED BY <1>5, <3>1, <3>2, <3>3
    <2> QED BY <2>1, <2>2 DEF Bounded
<1>20. Locked(j)' /\ Staging(j)' /\ Counting(j)'
    <2>1. Locked(j)'
        BY <1>1, <1>2, <1>3, <1>9, <1>10 DEF Locked
    <2>2. Staging(j)'
        BY <1>3, <1>7, <1>9, <1>10 DEF Staging
    <2>3. \A a \in left : /\ Cardinality(FreshOf(a, ACTIVE_STATUSES)') <= w.used[a]
                          /\ Cardinality(FreshOf(a, LIFETIME_STATUSES)') <= w.ever[a]
        BY <1>1, <1>2, <1>7, <1>9, <1>14 DEF Counting
    <2>4. ASSUME NEW s, s = home, slots > 0
          PROVE  Cardinality(FreshIn(s)') + slots <= SiteCap
        <3>1. Cardinality(FreshIn(s)) + job[j].slots <= SiteCap
            BY <1>3, <1>5, <1>6, <1>7, <1>18, <2>4 DEF slots
        <3>2. slots = job[j].slots - n
            BY DEF slots
        <3> QED BY <1>3, <1>5, <1>7, <1>16, <3>1, <3>2, GenerationAssumptions
    <2>5. Counting(j)'
        BY <1>9, <1>10, <2>3, <2>4 DEF Counting
    <2> QED BY <2>1, <2>2, <2>5
<1>21. ASSUME NEW k \in Jobs, k # j PROVE Locked(k)' /\ Staging(k)' /\ Counting(k)'
    <2>1. job'[k] = job[k] /\ Locked(k) /\ Staging(k)
        BY <1>10, <1>21 DEF Inv, Workers
    <2>2. CASE job[k].pc \in {"idle", "done"}
        BY <2>1, <2>2 DEF Locked, Staging, Counting
    <2>3. CASE job[k].pc \notin {"idle", "done"}
        <3>1. job[k].site # home
            BY <1>3, <1>21, <2>1, <2>3 DEF Locked
        <3>2. \A p \in new : SiteOf[p[1]] = home
            BY <1>3, <1>4 DEF OwnedBy
        <3>3. Shrinks({p \in Pairs : SiteOf[p[1]] = job[k].site})
            BY <1>2, <3>1, <3>2 DEF Shrinks
        <3> QED BY <1>2, <1>12, <2>1, <3>3, OtherJob
    <2> QED BY <2>2, <2>3
<1>22. LocksAtWork'
    <2>1. ASSUME NEW s \in AllSites, lock[s] # None
          PROVE  /\ job'[lock[s]].pc \notin {"idle", "done"}
                 /\ \/ s = job'[lock[s]].site
                    \/ s = job'[lock[s]].at /\ job'[lock[s]].pc \in {"embed", "encode"}
        <3>1. lock[s] \in Workers
            BY <1>1, <2>1 DEF Types, Workers
        <3> QED BY <1>1, <1>2, <1>9, <1>10, <2>1, <3>1 DEF LocksAtWork
    <2>2. ASSUME NEW s \in Customers, glock[s] # None
          PROVE  job'[glock[s]].pc \in {"links", "store"} /\ job'[glock[s]].site = s
        <3>1. glock[s] \in Workers \ {j}
            BY <1>1, <1>2, <2>2 DEF Types, LocksAtWork
        <3> QED BY <1>1, <1>10, <2>2, <3>1 DEF LocksAtWork
    <2> QED BY <1>2, <2>1, <2>2 DEF LocksAtWork
<1>23. GraphLocked'
    BY <1>1, <1>2, <1>9, <1>10 DEF GraphLocked
<1> QED BY <1>11, <1>12, <1>13, <1>19, <1>20, <1>21, <1>22, <1>23 DEF Inv

-----------------------------------------------------------------------------
(* The theorems                                                            *)

LEMMA Inductive == Inv /\ [Next]_vars => Inv'
<1> SUFFICES ASSUME Inv, [Next]_vars PROVE Inv'
    OBVIOUS
<1>1. CASE UNCHANGED vars
    <2>1. UNCHANGED <<active, trusted, version, row, fresh, lock, glock, job>>
        BY <1>1 DEF vars
    <2>2. Types' /\ FreshIsLive'
        BY <2>1 DEF Inv, Types, FreshIsLive
    <2>3. Shrinks(Pairs)
        BY <2>1 DEF Shrinks
    <2> QED BY <2>1, <2>2, <2>3, WorldStep
<1>2. ASSUME NEW j \in Jobs, Start(j) PROVE Inv'
    BY <1>2, BeginKeeps DEF Start
<1>3. ASSUME NEW j \in Jobs, Step(j) PROVE Inv'
    <2>1. j \in Workers
        BY DEF Workers
    <2>2. CASE EmbedRead(j) \/ EmbedWrite(j)
        BY <2>2, EmbedReadKeeps, EmbedWriteKeeps
    <2>3. CASE GraphNodes(j) \/ GraphLinks(j) \/ GraphStore(j)
        BY <2>1, <2>3, GraphNodesKeeps, GraphLinksKeeps, GraphStoreKeeps
    <2>4. CASE PoolLock(j) \/ Count(j) \/ SkipSource(j) \/ CommitSource(j)
        BY <2>4, PoolLockKeeps, CountKeeps, SkipSourceKeeps, CommitSourceKeeps
    <2>5. CASE \E chosen \in SUBSET Articles : Rank(j, chosen)
        BY <2>5, RankKeeps
    <2>6. CASE \E found \in SUBSET Pages : Gap(j, found)
        BY <2>6, GapKeeps
    <2>7. CASE Finish(j)
        BY <2>7, StopKeeps
    <2> QED BY <1>3, <2>2, <2>3, <2>4, <2>5, <2>6, <2>7 DEF Step
<1>4. ASSUME NEW j \in Jobs, Fail(j) PROVE Inv'
    BY <1>4, StopKeeps
<1>5. ASSUME NEW r \in Readers, NEW s \in Customers, Summary(r, s) PROVE Inv'
    BY <1>5, SummaryKeeps
<1>6. ASSUME NEW r \in Readers, ReaderStep(r) PROVE Inv'
    <2>1. r \in Workers
        BY DEF Workers
    <2> QED BY <1>6, <2>1, GraphLinksKeeps, GraphStoreKeeps DEF ReaderStep
<1>7. CASE Others
    BY <1>7, DecideKeeps, SetPolicyKeeps, SetTrustKeeps, PromoteKeeps DEF Others
<1> QED BY <1>1, <1>2, <1>3, <1>4, <1>5, <1>6, <1>7 DEF Next

LEMMA InvAlways == Spec => []Inv
<1> QED BY Initially, Inductive, PTL DEF Spec

\* Whatever editors, operators, crawls, other analyses and readers do while an
\* analysis is between ranking a source and committing it (suggestion_service:
\* generate_suggestions), what it inserts has no live suggestion, and a link
\* and its reverse are never both proposed.
THEOREM PairsAlwaysFree == Spec => []PairStaysFree
<1>1. Inv => PairStaysFree
    BY DEF Inv, Staging, NoReverse, PairStaysFree
<1> QED BY <1>1, InvAlways, PTL

\* The counts of open rows and of links that an analysis reads once at its
\* start keep every article and every site within the configured limits, for
\* any number of analyses and any limits.
THEOREM QueueAlwaysBounded == Spec => []QueueBounded
<1>1. ASSUME Inv PROVE QueueBounded
    <2>1. \A a : /\ fresh \cap RowsOf(a, ACTIVE_STATUSES) = FreshOf(a, ACTIVE_STATUSES)
                 /\ fresh \cap RowsOf(a, LIFETIME_STATUSES) = FreshOf(a, LIFETIME_STATUSES)
        BY <1>1 DEF Inv, FreshIsLive, RowsOf, FreshOf
    <2> QED BY <1>1, <2>1 DEF Inv, Bounded, FreshIn, QueueBounded
<1> QED BY <1>1, InvAlways, PTL

\* The advisory locks of sites, pools and graphs (connection_lock) never close
\* to a cycle, however many analyses and readers there are: whoever holds a
\* lock that an analysis waits for waits for nobody.
THEOREM NeverAStandstill == Spec => []NoStandstill
<1>1. ASSUME Inv PROVE NoStandstill
    <2> SUFFICES ASSUME NEW j \in Jobs, Holder(j) # None
                 PROVE  job[Holder(j)].pc \notin {"idle", "done"} /\ Holder(Holder(j)) = None
        BY DEF NoStandstill
    <2>1. Types /\ LocksAtWork /\ Locked(j) /\ job[j] \in JobRecords
        BY <1>1 DEF Inv, Types, Workers
    <2>2. ASSUME NEW h, job[h].pc \notin {"pools", "graph"} PROVE Holder(h) = None
        BY <2>2 DEF Holder
    <2>3. CASE job[j].pc = "pools" /\ job[j].pools # {}
        <3> DEFINE q == Least(job[j].pools)
        <3>1. q \in Pools
            BY <2>1, <2>3, LeastIsOne, GenerationAssumptions DEF JobRecords
        <3>2. Holder(j) = lock[q]
            BY <2>3 DEF Holder
        <3> HIDE DEF q
        <3>3. lock[q] \in Jobs /\ Locked(lock[q])
            BY <1>1, <2>1, <3>1, <3>2 DEF Types, AllSites, Inv
        <3>4. job[lock[q]].pc \in {"embed", "encode"}
            BY <2>1, <3>1, <3>2, <3>3, GenerationAssumptions DEF LocksAtWork, Locked, AllSites
        <3> QED BY <2>2, <3>2, <3>4
    <2>4. CASE job[j].pc = "graph"
        <3> DEFINE h == glock[job[j].site]
        <3>1. Holder(j) = h
            BY <2>4 DEF Holder
        <3>2. job[h].pc \in {"links", "store"}
            BY <2>1, <2>4, <3>1 DEF LocksAtWork, Locked
        <3> QED BY <2>2, <3>1, <3>2
    <2> QED BY <2>3, <2>4 DEF Holder
<1> QED BY <1>1, InvAlways, PTL
==============================================================================
