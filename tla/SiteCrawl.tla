------------------------------ MODULE SiteCrawl ------------------------------
(***************************************************************************)
(* What one crawl of a managed site visits: fetch_articles of the HTML     *)
(* connector (sitemap, or a breadth-first walk of the site's own links)    *)
(* and of the WordPress connector (the pages of its REST API).             *)
(*                                                                         *)
(* The site answers each request as it likes, and a WordPress editor       *)
(* publishes and deletes posts while the API is being paged through.       *)
(***************************************************************************)
EXTENDS Integers, Sequences, SequencesExt, FiniteSets, FiniteSetsExt

CONSTANTS
    Pages,          \* canonical URLs of the site
    Home,           \* its base_url
    LinksOf,        \* LinksOf[p]: the same-origin links of page p, in order
    Fallback,       \* crawl_bfs_fallback_enabled
    MaxDepth,       \* crawl_max_depth
    MaxUrls,        \* crawl_max_discovered_urls
    MaxArticles,    \* crawl_max_articles
    PerPage,        \* posts per API page
    MaxApiPages,    \* crawl_max_wordpress_pages
    MaxPosts,       \* bound: posts ever published
    Bases           \* number of API base URLs to try

ASSUME CrawlAssumptions ==
    /\ Home \in Pages /\ LinksOf \in [Pages -> Seq(Pages)]
    /\ {MaxDepth, MaxArticles, MaxApiPages, MaxPosts, Bases} \subseteq Nat
    /\ {MaxUrls, PerPage} \subseteq Nat \ {0}

VARIABLES
    walk,       \* the HTML crawl
    listing,    \* the WordPress crawl
    posts       \* the ids of published posts, newest first

crawlVars == <<walk, listing, posts>>

-----------------------------------------------------------------------------
(* The HTML connector                                                      *)

\* depth[p] is the depth at which p was taken off the queue, followed the pages
\* whose links were considered, full whether a link was refused for MaxUrls.
NewWalk == [at |-> "start", todo |-> <<>>, queue |-> <<>>, queued |-> {}, seen |-> {},
            depth |-> [p \in Pages |-> -1], followed |-> {}, articles |-> 0, full |-> FALSE]

\* _sitemap_urls: the listed pages of the site, nothing, an answer that is no
\* sitemap, or too many entries, which fails the crawl.
Sitemap(answer, urls) ==
    /\ walk.at = "start"
    /\ walk' =
          IF answer = "too many" \/ (answer = "unavailable" /\ ~Fallback) THEN [walk EXCEPT !.at = "failed"]
          ELSE IF answer = "listed" /\ urls # <<>> THEN [walk EXCEPT !.at = "list", !.todo = urls]
          ELSE IF Fallback THEN [walk EXCEPT !.at = "bfs", !.queue = <<[url |-> Home, depth |-> 0]>>,
                                             !.queued = {Home}]
          ELSE [walk EXCEPT !.at = "done"]
    /\ UNCHANGED <<listing, posts>>

\* _robots_allowed and _fetch_page: the page is an article; or it is not, or
\* must not be indexed, and still has links; or there is nothing to read; or
\* the crawl is over: its time, the page's size, its links, a redirect that is
\* not allowed.
Answers == {"article", "links only", "nothing", "denied", "abort"}

\* crawl_max_articles is passed only by one more article.
TooMany(answer) == answer = "article" /\ walk.articles >= MaxArticles

ListStep(answer) ==
    /\ walk.at = "list"
    /\ IF walk.todo = <<>> THEN walk' = [walk EXCEPT !.at = "done"]
       ELSE IF answer = "abort" \/ TooMany(answer) THEN walk' = [walk EXCEPT !.at = "failed"]
       ELSE walk' = [walk EXCEPT !.todo = Tail(@),
                                 !.articles = @ + (IF answer = "article" THEN 1 ELSE 0)]
    /\ UNCHANGED <<listing, posts>>

\* Mutant: the newest page is visited next.
TakeNewest(queue) == [item |-> Last(queue), rest |-> Front(queue)]

Take(queue) == [item |-> Head(queue), rest |-> Tail(queue)]

\* One link of a page just fetched: known, refused, or queued.
Consider(w, item) ==
    CASE item.url \in w.seen \cup w.queued -> w
      [] item.url \notin w.seen \cup w.queued /\ Cardinality(w.seen) + Len(w.queue) + 1 > MaxUrls ->
            [w EXCEPT !.full = TRUE]
      [] OTHER -> [w EXCEPT !.queued = @ \cup {item.url}, !.queue = Append(@, item)]

LinkItems(p, depth) == [i \in DOMAIN LinksOf[p] |-> [url |-> LinksOf[p][i], depth |-> depth]]

\* The links of that page, one after the other.
Considered(w, links) ==
    LET after[n \in 0..Len(links)] == IF n = 0 THEN w ELSE Consider(after[n - 1], links[n])
    IN  after

Visited(w, item) ==
    [w EXCEPT !.queue = Take(@).rest, !.seen = @ \cup {item.url}, !.depth[item.url] = item.depth]

BfsStep(answer) ==
    LET item == Take(walk.queue).item
        here == Visited(walk, item)
        links == LinkItems(item.url, item.depth + 1)
    IN  /\ walk.at = "bfs"
        /\ walk.queue # <<>>
        /\ walk' = IF item.url \in walk.seen THEN [walk EXCEPT !.queue = Take(@).rest]
                   ELSE IF item.depth > MaxDepth \/ answer \in {"denied", "nothing"} THEN here
                   ELSE IF answer = "abort" \/ TooMany(answer) THEN [walk EXCEPT !.at = "failed"]
                   ELSE LET counted == [here EXCEPT !.articles = @ + (IF answer = "article" THEN 1 ELSE 0)]
                        IN  IF item.depth < MaxDepth
                            THEN Considered([counted EXCEPT !.followed = @ \cup {item.url}], links)[Len(links)]
                            ELSE counted
        /\ UNCHANGED <<listing, posts>>

BfsDone ==
    /\ walk.at = "bfs"
    /\ walk.queue = <<>>
    /\ walk' = [walk EXCEPT !.at = "done"]
    /\ UNCHANGED <<listing, posts>>

-----------------------------------------------------------------------------
(* The WordPress connector                                                 *)

NewListing == [at |-> "start", base |-> 0, page |-> 1, got |-> {}, count |-> 0,
               initial |-> {}, removed |-> FALSE]

\* The editor's work. Ids grow with time; a listing shows the newest first.
Publish ==
    /\ Cardinality(ToSet(posts)) < MaxPosts
    /\ \E id \in 1..MaxPosts : /\ \A old \in listing.initial \cup listing.got \cup ToSet(posts) : id > old
                              /\ posts' = <<id>> \o posts
    /\ UNCHANGED <<walk, listing>>

Delete ==
    /\ listing.at # "done"
    /\ \E i \in DOMAIN posts : posts' = RemoveAt(posts, i)
    /\ listing' = [listing EXCEPT !.removed = TRUE]
    /\ UNCHANGED walk

\* _api_get: the first base that answers with JSON is used from then on.
FindApi(json) ==
    /\ listing.at = "start"
    /\ listing' = IF json = {} THEN [listing EXCEPT !.at = "failed"]
                  ELSE [listing EXCEPT !.at = "page", !.base = Min(json), !.initial = ToSet(posts)]
    /\ UNCHANGED <<walk, posts>>

OnPage(n) == SubSeq(posts, (n - 1) * PerPage + 1, IF n * PerPage < Len(posts) THEN n * PerPage ELSE Len(posts))

TotalPages == (Len(posts) + PerPage - 1) \div PerPage

\* Mutant: the last page is taken for one too many.
StopBeforeLast(page, total) == page + 1 >= total

LastPage(page, total) == page >= total

\* One answer of the API, with or without X-WP-TotalPages; past the last page
\* it is HTTP 400 (the first page, even of nothing, is not). More than
\* MaxArticles posts fail the crawl.
GetPage(header) ==
    LET items == ToSet(OnPage(listing.page))
        next == [listing EXCEPT !.got = @ \cup items, !.count = @ + Cardinality(items)]
    IN  /\ listing.at = "page"
        /\ listing' =
              IF items = {} THEN [listing EXCEPT !.at = "done"]
              ELSE IF next.count > MaxArticles THEN [listing EXCEPT !.at = "failed"]
              ELSE IF header /\ TotalPages > MaxApiPages THEN [next EXCEPT !.at = "failed"]
              ELSE IF header /\ LastPage(listing.page, TotalPages) THEN [next EXCEPT !.at = "done"]
              ELSE IF listing.page >= MaxApiPages THEN [next EXCEPT !.at = "failed"]
              ELSE [next EXCEPT !.page = @ + 1]
        /\ UNCHANGED <<walk, posts>>

\* An error answer, also after the pauses a throttling host asks for.
PageFails ==
    /\ listing.at = "page"
    /\ listing' = [listing EXCEPT !.at = "failed"]
    /\ UNCHANGED <<walk, posts>>

-----------------------------------------------------------------------------
CrawlInit ==
    /\ walk = NewWalk
    /\ listing = NewListing
    /\ posts \in {[i \in 1..n |-> n + 1 - i] : n \in 0..(MaxPosts - 1)}

WalkNext ==
    \/ \E answer \in {"listed", "unavailable", "too many"}, urls \in {<<>>, <<Home>>, <<Home, Home>>} :
          Sitemap(answer, urls)
    \/ \E answer \in Answers : ListStep(answer) \/ BfsStep(answer)
    \/ BfsDone

WalkSpec == CrawlInit /\ [][WalkNext]_crawlVars

ListingNext ==
    \/ Publish \/ Delete \/ PageFails
    \/ \E json \in SUBSET (1..Bases) : FindApi(json)
    \/ \E header \in BOOLEAN : GetPage(header)

ListingSpec == CrawlInit /\ [][ListingNext]_crawlVars

-----------------------------------------------------------------------------
(* Properties                                                              *)

\* Pages reached from Home in at most n steps over the links that were read.
Within[n \in 0..MaxDepth] ==
    IF n = 0 THEN {Home}
    ELSE Within[n - 1] \cup UNION {ToSet(LinksOf[p]) : p \in Within[n - 1] \cap walk.followed}

\* The walk is breadth-first and complete: when it ends unhindered it has
\* visited exactly the pages within MaxDepth steps, whatever the order of links
\* and whichever pages gave none, and each at its shortest distance; when it
\* ends for MaxUrls, it has visited at most that many.
WalkIsExact ==
    walk.at = "done" /\ walk.queued # {} =>
        /\ walk.full => Cardinality(walk.seen) <= MaxUrls
        /\ ~walk.full =>
              /\ walk.seen = Within[MaxDepth]
              /\ \A p \in walk.seen, n \in 0..MaxDepth : p \in Within[n] <=> walk.depth[p] <= n

\* Paging loses no post: a crawl that succeeds has every post that was there
\* when it began and still is, however many are published meanwhile. A deletion
\* meanwhile can shift one off the page that comes next.
PagingMissesNothing ==
    listing.at = "done" /\ ~listing.removed => listing.initial \subseteq listing.got
==============================================================================
