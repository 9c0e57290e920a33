---------------------------- MODULE ExternalPolicy ----------------------------
(***************************************************************************)
(* Which pages outside a managed site may be linked to: the trust policy   *)
(* of external_link_policy.py, the identity of a URL (cleaning.py) and the *)
(* web search that fills an article's open slots                           *)
(* (external_suggestion_service.py over tavily.py), as pure operators.     *)
(*                                                                         *)
(* A domain is the sequence of its labels from the top-level one down;     *)
(* <<>> stands for a URL without a host. Scores are percents.              *)
(***************************************************************************)
EXTENDS Integers, Sequences, SequencesExt, FiniteSets

CONSTANTS
    NoAge,          \* a domain whose registration is unknown
    Retries,        \* len(TAVILY_RETRY_DELAYS_SECONDS)
    MaxResults      \* tavily_max_results_per_request

-----------------------------------------------------------------------------
(* domain_policy.py and normalize_external_url                             *)

\* The domain itself and all its subdomains.
DomainMatches(domain, rule) == IsPrefix(rule, domain)
MatchesAny(domain, rules) == \E rule \in rules : DomainMatches(domain, rule)

DefaultPort(scheme) == IF scheme = "https" THEN 443 ELSE 80

\* Mutant: the port stays as it was written.
KeepPort(raw) == [scheme |-> raw.scheme, host |-> raw.host, port |-> raw.port, path |-> raw.path]

\* What is stored for a URL: no default port (0), no tracking parameter.
NormalizeExternalUrl(raw) ==
    [scheme |-> raw.scheme, host |-> raw.host, path |-> raw.path,
     port |-> IF raw.port = DefaultPort(raw.scheme) THEN 0 ELSE raw.port]

Storable(raw) == raw.scheme \in {"http", "https"} /\ raw.host # <<>> /\ ~raw.credentials

-----------------------------------------------------------------------------
(* The two evaluations: the set of reasons against a URL                   *)

Owned(owned, domain) == MatchesAny(domain, owned)

EvaluateWebSearchUrl(p, owned, url) ==
    IF url.host = <<>> THEN {"invalid domain"}
    ELSE {r \in {"disabled", "https", "blocklisted", "competitor", "owned"} :
            CASE r = "disabled" -> ~p.enabled
              [] r = "https" -> url.scheme # "https"
              [] r = "blocklisted" -> MatchesAny(url.host, p.blocklist)
              [] r = "competitor" -> MatchesAny(url.host, p.competitors)
              [] OTHER -> Owned(owned, url.host)}

\* site is the content-pool source the page came from.
DomainAge(url, site) ==
    IF DomainMatches(url.host, site.host) \/ DomainMatches(site.host, url.host) THEN site.age ELSE NoAge

Approved(site) == site.platform = "pool" /\ site.approved /\ ~site.quarantined

TrustScore(p, url, site) ==
    LET age == DomainAge(url, site)
        points == (IF url.scheme = "https" THEN 30 ELSE 0)
            + (IF p.tlds = {} \/ url.host[1] \in p.tlds THEN 15 ELSE 0)
            + (IF Approved(site) THEN 15 ELSE 0)
            + (IF MatchesAny(url.host, p.allowlist) THEN 20 ELSE IF p.allowlist = {} THEN 10 ELSE 0)
            + (IF age = NoAge THEN 0 ELSE IF age >= 365 THEN 20 ELSE IF age >= 180 THEN 15
               ELSE IF age >= 30 THEN 10 ELSE 5)
    IN  IF points > 100 THEN 100 ELSE points

EvaluateExternalUrl(p, owned, url, site) ==
    LET age == DomainAge(url, site)
    IN  IF url.host = <<>> THEN {"invalid domain"}
        ELSE {r \in {"disabled", "https", "source", "blocklisted", "competitor", "owned", "age", "trust"} :
                CASE r = "disabled" -> ~p.enabled
                  [] r = "https" -> p.requireHttps /\ url.scheme # "https"
                  [] r = "source" -> ~Approved(site)
                  [] r = "blocklisted" -> MatchesAny(url.host, p.blocklist)
                  [] r = "competitor" -> MatchesAny(url.host, p.competitors)
                  [] r = "owned" -> Owned(owned, url.host)
                  [] r = "age" -> p.minAge > 0 /\ (age = NoAge \/ age < p.minAge)
                  [] OTHER -> TrustScore(p, url, site) < p.minTrust}

-----------------------------------------------------------------------------
(* external_target_context, source_evaluations and                         *)
(* expire_ineligible_external_suggestions. An article is                   *)
(* [id, site, url, active]; a suggestion names one, or a URL (article = 0). *)

AllowedTargets(p, owned, own, sites, articles) ==
    {a.id : a \in {b \in articles : b.active /\ (b.site = own
        \/ (sites[b.site].platform = "pool" /\ EvaluateExternalUrl(p, owned, b.url, sites[b.site]) = {}))}}

SourceEvaluations(p, owned, sites, articles) ==
    [s \in {t \in DOMAIN sites : sites[t].platform = "pool"} |->
        LET pages == {a \in articles : a.active /\ a.site = s}
            good == {a \in pages : EvaluateExternalUrl(p, owned, a.url, sites[s]) = {}}
            base == [scheme |-> "https", host |-> sites[s].host, port |-> 0, path |-> "/"]
        IN  [reasons |-> EvaluateExternalUrl(p, owned, base, sites[s]),
             eligible |-> Cardinality(good), blocked |-> Cardinality(pages \ good)]]

\* Mutant: what was found on the web is not looked at again.
PoolRowRefused(p, owned, own, sites, articles, row) ==
    row.article # 0 /\ LET a == CHOOSE b \in articles : b.id = row.article
                       IN  a.site # own /\ EvaluateExternalUrl(p, owned, a.url, sites[a.site]) # {}

RowRefused(p, owned, own, sites, articles, row) ==
    IF row.article = 0 THEN EvaluateWebSearchUrl(p, owned, row.url) # {}
    ELSE LET a == CHOOSE b \in articles : b.id = row.article
         IN  a.site # own /\ EvaluateExternalUrl(p, owned, a.url, sites[a.site]) # {}

ExpireIneligible(p, owned, own, sites, articles, rows) ==
    {IF row.status \in {"pending", "approved"} /\ RowRefused(p, owned, own, sites, articles, row)
     THEN [row EXCEPT !.status = "expired"] ELSE row : row \in rows}

-----------------------------------------------------------------------------
(* TavilySearchProvider.search: one answer per attempt; throttling and     *)
(* temporary errors are tried again, everything else is final.             *)

Transient == {"rate limited", "temporary error", "transport"}

Search(answers) ==
    LET final == {i \in DOMAIN answers : answers[i] \notin Transient /\ i <= Retries + 1}
    IN  IF final # {} /\ answers[CHOOSE i \in final : \A j \in final : i <= j] = "results"
        THEN "completed" ELSE "request_failed"

\* _parse_response: items that are no result are passed over.
AddResult(results, item) ==
    IF item.result /\ Len(results) < MaxResults THEN Append(results, item) ELSE results

Parsed(items) ==
    LET upTo[n \in 0..Len(items)] == IF n = 0 THEN <<>> ELSE AddResult(upTo[n - 1], items[n])
    IN  upTo[Len(items)]

-----------------------------------------------------------------------------
(* fill_external_suggestion_gap                                            *)

\* A candidate is scored, or dropped for the first reason that applies.
Screen(q, so, item) ==
    LET url == NormalizeExternalUrl(item.url)
        verdict == CASE ~Storable(item.url) -> "invalid_url"
                     [] Storable(item.url) /\ EvaluateWebSearchUrl(q.policy, q.owned, url) # {} -> "safety_blocked"
                     [] Storable(item.url) /\ EvaluateWebSearchUrl(q.policy, q.owned, url) = {}
                           /\ url \in q.existing \cup {so[i].url : i \in {j \in DOMAIN so : so[j].is = "scored"}}
                           -> "duplicate"
                     [] OTHER -> "scored"
    IN  Append(so, [url |-> url, score |-> item.score, rank |-> Len(so) + 1, is |-> verdict])

Screened(q, items) ==
    LET upTo[n \in 0..Len(items)] == IF n = 0 THEN <<>> ELSE Screen(q, upTo[n - 1], items[n])
    IN  upTo[Len(items)]

\* Best first, the scored ones that are good enough take the open slots.
Settle(q, screened) ==
    LET fit == {i \in DOMAIN screened : /\ screened[i].is = "scored"
                                        /\ screened[i].score >= q.minScore /\ screened[i].score >= q.minPercent}
        ahead(i) == {j \in fit : \/ screened[j].score > screened[i].score
                                 \/ screened[j].score = screened[i].score /\ j < i}
    IN  [i \in DOMAIN screened |->
            IF screened[i].is # "scored" THEN screened[i]
            ELSE [screened[i] EXCEPT !.is = IF i \notin fit THEN "below_threshold"
                                            ELSE IF Cardinality(ahead(i)) < q.missing THEN "accepted"
                                            ELSE "capacity_not_selected"]]

\* What the audit trail says of the search and of each of its results.
FillGap(q) ==
    LET nothing(decision) == [decision |-> decision, results |-> <<>>]
    IN  CASE q.missing <= 0 -> nothing("no slot")
          [] q.missing > 0 /\ q.title = "" -> nothing("empty_title")
          [] q.missing > 0 /\ q.title # "" /\ ~q.policy.enabled -> nothing("external_links_disabled")
          [] q.missing > 0 /\ q.title # "" /\ q.policy.enabled /\ ~q.configured -> nothing("not_configured")
          [] OTHER ->
                IF Search(q.answers) # "completed" THEN nothing("request_failed")
                ELSE [decision |-> "request_completed",
                      results |-> Settle(q, Screened(q, Parsed(q.items)))]

-----------------------------------------------------------------------------
(* Properties                                                              *)

\* What an open suggestion names may still be offered.
Offered(p, owned, own, sites, articles, row) ==
    IF row.article = 0 THEN EvaluateWebSearchUrl(p, owned, row.url) = {}
    ELSE row.article \in AllowedTargets(p, owned, own, sites, articles)

\* The same pages, the retired ones taken for live.
AllLive(articles) == {[a EXCEPT !.active = TRUE] : a \in articles}

\* Of the rows exactly the open ones expire that may not be offered whether or
\* not their page is live. What stays open may still be offered, unless its page
\* is retired: the policy leaves that to the crawl.
QueueSettled(p, owned, own, sites, articles, rows, settled) ==
    LET open(row) == row.status \in {"pending", "approved"}
    IN  /\ settled =
              {IF open(row) /\ ~Offered(p, owned, own, sites, AllLive(articles), row)
               THEN [row EXCEPT !.status = "expired"] ELSE row : row \in rows}
        /\ \A row \in settled :
              open(row) /\ ~Offered(p, owned, own, sites, articles, row) =>
                  \E a \in articles : a.id = row.article /\ ~a.active

\* Over HTTPS, a page of the pool that may be offered passes the guards of
\* the web search as well.
SameGuards(p, owned, own, sites, articles) ==
    \A a \in articles :
        a.site # own /\ a.id \in AllowedTargets(p, owned, own, sites, articles) /\ a.url.scheme = "https" =>
            EvaluateWebSearchUrl(p, owned, a.url) = {}

\* Two spellings of one address.
SamePage(u, v) ==
    LET port(w) == IF w.port = 0 THEN DefaultPort(w.scheme) ELSE w.port
    IN  u.scheme = v.scheme /\ u.host = v.host /\ u.path = v.path /\ port(u) = port(v)

\* No more than there are open slots, no page twice nor one already suggested,
\* none a guard forbids, and none worse than one that was left out.
FilledOnce(q, r) ==
    LET taken == {i \in DOMAIN r : r[i].is = "accepted"}
    IN  /\ taken # {} => q.policy.enabled /\ Cardinality(taken) <= q.missing
        /\ \A i, j \in taken : i # j => ~SamePage(r[i].url, r[j].url)
        /\ \A i \in taken : /\ \A u \in q.existing : ~SamePage(u, r[i].url)
                            /\ EvaluateWebSearchUrl(q.policy, q.owned, r[i].url) = {}
                            /\ \A j \in DOMAIN r : r[j].is = "capacity_not_selected" => r[i].score >= r[j].score
==============================================================================
