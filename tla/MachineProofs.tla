---------------------------- MODULE MachineProofs ----------------------------
(***************************************************************************)
(* The small machines, for any number of their actors and rows: the        *)
(* scopes of API keys, the paging of a WordPress listing, the walk over a  *)
(* site's pages, the review queue and the race for a placement.  Then the  *)
(* pure functions, for every input: link insertion, the expiry of external *)
(* suggestions, the filling of a gap, the check of a placement and the     *)
(* simulation of a link graph.                                             *)
(***************************************************************************)
EXTENDS KeyScopes, SiteCrawl, ReviewQueue, PlacementGeneration, LinkInsertion, ExternalPolicy,
        CandidateRanking, FiniteSetTheorems, SequenceTheorems, WellFoundedInduction, TLAPS

------------------------------------------------------------------------------
(* KeyScopes                                                               *)

Owners == Tenants \cup {NoTenant}
Platforms == {"client", "pool"}
KeyRows == [state : {"none", "live", "expired", "revoked", "gone"}, admin : BOOLEAN, tenant : Owners]
SiteTable == [state : {"none", "live", "deleted"}, tenant : Owners, platform : Platforms, madeBy : Owners]
WhoAsks == [admin : BOOLEAN, source : {"none", "legacy_env", "operator", "db"}, tenant : Owners]
Places == {"idle", "asked", "create", "change", "delete tenant", "create key"}
RequestRows == [at : Places, who : WhoAsks, tenant : Owners, id : SiteIds \cup {0}, platform : Platforms]

ScopeTypes ==
    /\ tenants \subseteq Tenants
    /\ keys \in [ApiKeys -> KeyRows]
    /\ siteRows \in [SiteIds -> SiteTable]
    /\ request \in [Requests -> RequestRows]

\* A principal has a tenant or is an admin, never both.
OneKind(who) == who.admin <=> who.tenant = NoTenant

KeyKept(k) ==
    keys[k].state = "live" => /\ keys[k].admin <=> keys[k].tenant = NoTenant
                              /\ keys[k].tenant \in tenants \cup {NoTenant}

SiteKept(s) ==
    /\ siteRows[s].state = "live" => siteRows[s].tenant \in tenants
    /\ siteRows[s].state # "none" /\ siteRows[s].madeBy # NoTenant =>
          siteRows[s].tenant = siteRows[s].madeBy /\ siteRows[s].platform # "pool"

\* What a request may still rely on when it writes.
RequestKept(r) ==
    /\ request[r].at # "idle" => OneKind(request[r].who)
    /\ request[r].at = "create" /\ ~request[r].who.admin =>
          request[r].tenant = request[r].who.tenant /\ request[r].platform # "pool"
    /\ request[r].at = "change" =>
          /\ request[r].id \in SiteIds
          /\ siteRows[request[r].id].state # "none"
          /\ ~request[r].who.admin =>
                /\ siteRows[request[r].id].tenant = request[r].who.tenant
                /\ siteRows[request[r].id].platform # "pool"

ScopeInv ==
    /\ ScopeTypes
    /\ \A k \in ApiKeys : KeyKept(k)
    /\ \A s \in SiteIds : SiteKept(s)
    /\ \A r \in Requests : RequestKept(r)

LEMMA ScopeInitially == ScopeInit => ScopeInv
<1> SUFFICES ASSUME ScopeInit PROVE ScopeInv
    OBVIOUS
<1>1. /\ NoKey \in KeyRows /\ NoSite \in SiteTable /\ Nobody \in WhoAsks /\ Idle \in RequestRows
      /\ NoKey.state = "none" /\ NoSite.state = "none" /\ Idle.at = "idle"
    BY DEF NoKey, NoSite, Nobody, Principal, Idle, KeyRows, SiteTable, WhoAsks, RequestRows,
           Owners, Platforms, Places
<1> HIDE DEF NoKey, NoSite, Idle
<1>2. ScopeTypes
    BY <1>1, ScopeAssumptions DEF ScopeInit, ScopeTypes
<1> QED BY <1>1, <1>2 DEF ScopeInit, ScopeInv, KeyKept, SiteKept, RequestKept

\* A step of request r that leaves the tables alone.
LEMMA RequestStep ==
    ASSUME ScopeInv, NEW r \in Requests, NEW w \in RequestRows,
           request' = [request EXCEPT ![r] = w], UNCHANGED <<tenants, keys, siteRows>>,
           w.at # "idle" => OneKind(w.who),
           w.at = "create" /\ ~w.who.admin => w.tenant = w.who.tenant /\ w.platform # "pool",
           w.at = "change" =>
              /\ w.id \in SiteIds /\ siteRows[w.id].state # "none"
              /\ ~w.who.admin => siteRows[w.id].tenant = w.who.tenant /\ siteRows[w.id].platform # "pool"
    PROVE  ScopeInv'
<1>1. /\ request'[r] = w /\ \A q \in Requests : q # r => request'[q] = request[q]
      /\ request' \in [Requests -> RequestRows]
    BY DEF ScopeInv, ScopeTypes
<1>2. ScopeTypes'
    BY <1>1 DEF ScopeInv, ScopeTypes
<1>3. \A q \in Requests : RequestKept(q)'
    BY <1>1 DEF ScopeInv, RequestKept
<1> QED BY <1>2, <1>3 DEF ScopeInv, KeyKept, SiteKept

LEMMA IdleFact == Idle \in RequestRows /\ Idle.at = "idle"
<1>1. Nobody \in WhoAsks
    BY DEF Nobody, Principal, WhoAsks, Owners
<1> HIDE DEF Nobody
<1> QED BY <1>1 DEF Idle, RequestRows, Owners, Platforms, Places

LEMMA GiveUpStep ==
    ASSUME ScopeInv, NEW r \in Requests, request' = [request EXCEPT ![r] = Idle],
           UNCHANGED <<tenants, keys, siteRows>>
    PROVE  ScopeInv'
<1> QED BY IdleFact, RequestStep

LEMMA AuthenticateStep ==
    ASSUME ScopeInv, NEW r \in Requests, Authenticate(r)
    PROVE  ScopeInv'
<1>1. PICK who \in {Service, Operator}
                   \cup {Principal(keys[k].admin, "db", keys[k].tenant) : k \in {j \in ApiKeys : Authentic(j)}} :
          request' = [request EXCEPT ![r] = [Idle EXCEPT !.at = "asked", !.who = who]]
    BY DEF Authenticate
<1>2. who \in WhoAsks /\ OneKind(who)
    <2>1. CASE who \in {Service, Operator}
        <3>1. PICK source \in {"legacy_env", "operator"} :
                  who = [admin |-> TRUE, source |-> source, tenant |-> NoTenant]
            BY <2>1 DEF Service, Operator, Principal
        <3>2. who \in WhoAsks
            BY <3>1 DEF WhoAsks, Owners
        <3>3. who.admin = TRUE /\ who.tenant = NoTenant
            BY <3>1
        <3> QED BY <3>2, <3>3 DEF OneKind
    <2>2. ASSUME NEW k \in ApiKeys, Authentic(k), who = Principal(keys[k].admin, "db", keys[k].tenant)
          PROVE  who \in WhoAsks /\ OneKind(who)
        <3>1. keys[k].admin \in BOOLEAN /\ keys[k].tenant \in Owners
            BY DEF ScopeInv, ScopeTypes, KeyRows
        <3>2. keys[k].admin <=> keys[k].tenant = NoTenant
            BY <2>2 DEF Authentic
        <3> QED BY <2>2, <3>1, <3>2 DEF Principal, WhoAsks, OneKind
    <2> QED BY <1>1, <2>1, <2>2
<1> DEFINE w == [Idle EXCEPT !.at = "asked", !.who = who]
<1>3. w \in RequestRows /\ w.at = "asked" /\ w.who = who
    BY <1>2, IdleFact DEF RequestRows, Places
<1> HIDE DEF w
<1>4. request' = [request EXCEPT ![r] = w] /\ UNCHANGED <<tenants, keys, siteRows>>
    BY <1>1 DEF w, Authenticate
<1> QED BY <1>2, <1>3, <1>4, RequestStep

LEMMA CheckCreateStep ==
    ASSUME ScopeInv, NEW r \in Requests, NEW wanted \in Owners, NEW platform \in Platforms,
           CheckCreate(r, wanted, platform)
    PROVE  ScopeInv'
<1> DEFINE owner == ResolveCreateTenant(request[r].who, wanted)
<1>1. /\ request[r].at = "asked" /\ UNCHANGED <<tenants, keys, siteRows>>
      /\ request[r] \in RequestRows /\ OneKind(request[r].who)
      /\ request[r].who \in WhoAsks
    BY DEF CheckCreate, ScopeInv, ScopeTypes, RequestKept, RequestRows
<1>2. owner \in Owners /\ (~request[r].who.admin /\ owner # NoTenant => owner = request[r].who.tenant)
    BY <1>1, ScopeAssumptions DEF ResolveCreateTenant, Owners, ScopeInv, ScopeTypes, WhoAsks
<1>3. CASE owner = NoTenant \/ ~RequireCreatablePlatform(request[r].who, platform)
    <2>1. request' = [request EXCEPT ![r] = Idle]
        BY <1>3 DEF CheckCreate
    <2> QED BY <1>1, <2>1, GiveUpStep
<1>4. CASE ~(owner = NoTenant \/ ~RequireCreatablePlatform(request[r].who, platform))
    <2>1. request' = [request EXCEPT ![r].at = "create", ![r].tenant = owner, ![r].platform = platform]
        BY <1>4 DEF CheckCreate
    <2>2. ~request[r].who.admin => platform # "pool"
        BY <1>4 DEF RequireCreatablePlatform
    <2>0. owner # NoTenant
        BY <1>4
    <2> HIDE DEF owner
    <2> DEFINE w == [request[r] EXCEPT !.at = "create", !.tenant = owner, !.platform = platform]
    <2>3. /\ w \in RequestRows /\ w.at = "create" /\ w.who = request[r].who
          /\ w.tenant = owner /\ w.platform = platform
        BY <1>1, <1>2 DEF RequestRows, Places
    <2>4. request' = [request EXCEPT ![r] = w]
        BY <2>1, <1>1 DEF ScopeInv, ScopeTypes
    <2> HIDE DEF w
    <2> QED BY <1>1, <1>2, <2>0, <2>2, <2>3, <2>4, RequestStep
<1> QED BY <1>3, <1>4

LEMMA CheckSiteStep ==
    ASSUME ScopeInv, NEW r \in Requests, NEW s \in SiteIds, CheckSite(r, s)
    PROVE  ScopeInv'
<1>1. /\ request[r].at = "asked" /\ UNCHANGED <<tenants, keys, siteRows>>
      /\ request[r] \in RequestRows /\ OneKind(request[r].who)
    BY DEF CheckSite, ScopeInv, ScopeTypes, RequestKept
<1>3. CASE ~(s \in Existing /\ AuthorizeSite(request[r].who, siteRows[s]))
    <2>1. request' = [request EXCEPT ![r] = Idle]
        BY <1>3 DEF CheckSite
    <2> QED BY <1>1, <2>1, GiveUpStep
<1>4. CASE s \in Existing /\ AuthorizeSite(request[r].who, siteRows[s])
    <2>1. request' = [request EXCEPT ![r].at = "change", ![r].id = s]
        BY <1>4 DEF CheckSite
    <2>2. ~request[r].who.admin => siteRows[s].tenant = request[r].who.tenant /\ siteRows[s].platform # "pool"
        BY <1>4 DEF AuthorizeSite, MayUse
    <2> DEFINE w == [request[r] EXCEPT !.at = "change", !.id = s]
    <2>3. w \in RequestRows /\ w.at = "change" /\ w.who = request[r].who /\ w.id = s
        BY <1>1 DEF RequestRows, Places
    <2>4. request' = [request EXCEPT ![r] = w]
        BY <2>1, <1>1 DEF ScopeInv, ScopeTypes
    <2> HIDE DEF w
    <2>5. siteRows[s].state # "none"
        BY <1>4 DEF Existing
    <2> QED BY <1>1, <2>2, <2>3, <2>4, <2>5, RequestStep
<1> QED BY <1>3, <1>4

LEMMA CheckTenantStep ==
    ASSUME ScopeInv, NEW r \in Requests, NEW t \in Owners,
           (t \in Tenants /\ CheckDelete(r, t)) \/ CheckKey(r, t)
    PROVE  ScopeInv'
<1>1. /\ request[r].at = "asked" /\ UNCHANGED <<tenants, keys, siteRows>>
      /\ request[r] \in RequestRows /\ OneKind(request[r].who)
      /\ \/ request' = [request EXCEPT ![r] = Idle]
         \/ \E pc \in {"delete tenant", "create key"} :
               request' = [request EXCEPT ![r].at = pc, ![r].tenant = t]
    BY DEF CheckDelete, CheckKey, ScopeInv, ScopeTypes, RequestKept
<1>2. ASSUME NEW pc \in {"delete tenant", "create key"},
             request' = [request EXCEPT ![r].at = pc, ![r].tenant = t]
      PROVE  ScopeInv'
    <2> DEFINE w == [request[r] EXCEPT !.at = pc, !.tenant = t]
    <2>1. w \in RequestRows /\ w.at = pc /\ w.who = request[r].who
        BY <1>1 DEF RequestRows, Places
    <2>2. request' = [request EXCEPT ![r] = w]
        BY <1>2, <1>1 DEF ScopeInv, ScopeTypes
    <2> HIDE DEF w
    <2> QED BY <1>1, <2>1, <2>2, RequestStep
<1> QED BY <1>1, <1>2, GiveUpStep

\* Request r is answered and the tables change: what the other requests rely
\* on stays.
LEMMA TableStep ==
    ASSUME ScopeInv, NEW r \in Requests, request' = [request EXCEPT ![r] = Idle],
           tenants' \subseteq Tenants, keys' \in [ApiKeys -> KeyRows], siteRows' \in [SiteIds -> SiteTable],
           \A k \in ApiKeys : KeyKept(k)', \A s \in SiteIds : SiteKept(s)',
           \A s \in SiteIds : siteRows[s].state # "none" =>
              /\ siteRows'[s].state # "none"
              /\ siteRows'[s].tenant = siteRows[s].tenant /\ siteRows'[s].platform = siteRows[s].platform
    PROVE  ScopeInv'
<1>1. /\ request'[r] = Idle /\ \A q \in Requests : q # r => request'[q] = request[q]
      /\ request' \in [Requests -> RequestRows]
    BY IdleFact DEF ScopeInv, ScopeTypes
<1>2. ScopeTypes'
    BY <1>1 DEF ScopeTypes
<1>3. \A q \in Requests : RequestKept(q)'
    BY <1>1, IdleFact DEF ScopeInv, RequestKept
<1> QED BY <1>2, <1>3 DEF ScopeInv

LEMMA CreateSiteStep ==
    ASSUME ScopeInv, NEW r \in Requests, CreateSite(r)
    PROVE  ScopeInv'
<1>1. /\ request[r].at = "create" /\ request' = [request EXCEPT ![r] = Idle] /\ UNCHANGED <<tenants, keys>>
      /\ request[r] \in RequestRows /\ RequestKept(r)
    BY DEF CreateSite, ScopeInv, ScopeTypes
<1>2. CASE siteRows' = siteRows
    BY <1>1, <1>2, GiveUpStep
<1>3. CASE siteRows' # siteRows
    <2> DEFINE new == [NoSite EXCEPT !.state = "live", !.tenant = request[r].tenant,
                           !.platform = request[r].platform, !.madeBy = request[r].who.tenant]
    <2>1. PICK s \in SiteIds : siteRows[s].state = "none" /\ siteRows' = [siteRows EXCEPT ![s] = new]
        BY <1>3 DEF CreateSite
    <2>2. request[r].tenant \in tenants
        BY <1>3 DEF CreateSite
    <2>3. /\ request[r].tenant \in Owners /\ request[r].platform \in Platforms
          /\ request[r].who \in WhoAsks /\ request[r].who.tenant \in Owners
        BY <1>1 DEF RequestRows, WhoAsks
    <2>4. /\ new \in SiteTable /\ new.state = "live" /\ new.tenant = request[r].tenant
          /\ new.platform = request[r].platform /\ new.madeBy = request[r].who.tenant
        BY <2>3 DEF NoSite, SiteTable
    <2> HIDE DEF new
    <2>5. /\ siteRows'[s] = new /\ \A o \in SiteIds : o # s => siteRows'[o] = siteRows[o]
          /\ siteRows' \in [SiteIds -> SiteTable]
        BY <2>1, <2>4 DEF ScopeInv, ScopeTypes
    <2>6. new.madeBy # NoTenant => new.tenant = new.madeBy /\ new.platform # "pool"
        BY <1>1, <2>4 DEF RequestKept, OneKind
    <2>7. \A o \in SiteIds : SiteKept(o)'
        BY <1>1, <2>2, <2>4, <2>5, <2>6 DEF ScopeInv, SiteKept
    <2>8. \A k \in ApiKeys : KeyKept(k)'
        BY <1>1 DEF ScopeInv, KeyKept
    <2>9. tenants' \subseteq Tenants /\ keys' \in [ApiKeys -> KeyRows]
        BY <1>1 DEF ScopeInv, ScopeTypes
    <2>10. \A o \in SiteIds : siteRows[o].state # "none" =>
              /\ siteRows'[o].state # "none"
              /\ siteRows'[o].tenant = siteRows[o].tenant /\ siteRows'[o].platform = siteRows[o].platform
        BY <2>1, <2>5
    <2> QED BY <1>1, <2>5, <2>7, <2>8, <2>9, <2>10, TableStep
<1> QED BY <1>2, <1>3

LEMMA DeleteSiteStep ==
    ASSUME ScopeInv, NEW r \in Requests, DeleteSite(r)
    PROVE  ScopeInv'
<1> DEFINE s == request[r].id
           new == IF siteRows[s].state = "live" THEN [siteRows[s] EXCEPT !.state = "deleted"] ELSE siteRows[s]
<1>1. /\ request[r].at = "change" /\ request' = [request EXCEPT ![r] = Idle] /\ UNCHANGED <<tenants, keys>>
      /\ s \in SiteIds /\ siteRows[s] \in SiteTable /\ siteRows[s].state # "none"
    BY DEF DeleteSite, ScopeInv, ScopeTypes, RequestKept
<1>2. siteRows' = [siteRows EXCEPT ![s] = new]
    BY DEF DeleteSite
<1>3. /\ new \in SiteTable /\ new.state \notin {"none", "live"} /\ new.tenant = siteRows[s].tenant
      /\ new.platform = siteRows[s].platform /\ new.madeBy = siteRows[s].madeBy
    BY <1>1 DEF SiteTable
<1> HIDE DEF new
<1>4. /\ siteRows'[s] = new /\ \A o \in SiteIds : o # s => siteRows'[o] = siteRows[o]
      /\ siteRows' \in [SiteIds -> SiteTable]
    BY <1>1, <1>2, <1>3 DEF ScopeInv, ScopeTypes
<1>5. \A o \in SiteIds : SiteKept(o)'
    BY <1>1, <1>3, <1>4 DEF ScopeInv, SiteKept
<1>6. \A k \in ApiKeys : KeyKept(k)'
    BY <1>1 DEF ScopeInv, KeyKept
<1>7. tenants' \subseteq Tenants /\ keys' \in [ApiKeys -> KeyRows]
    BY <1>1 DEF ScopeInv, ScopeTypes
<1>8. \A o \in SiteIds : siteRows[o].state # "none" =>
          /\ siteRows'[o].state # "none"
          /\ siteRows'[o].tenant = siteRows[o].tenant /\ siteRows'[o].platform = siteRows[o].platform
    BY <1>1, <1>3, <1>4
<1> QED BY <1>1, <1>4, <1>5, <1>6, <1>7, <1>8, TableStep

\* The sites stay as they are; their tenants too.
LEMMA KeyStep ==
    ASSUME ScopeInv, NEW r \in Requests, request' = [request EXCEPT ![r] = Idle], UNCHANGED siteRows,
           tenants' \subseteq Tenants, keys' \in [ApiKeys -> KeyRows], \A k \in ApiKeys : KeyKept(k)',
           \A s \in SiteIds : siteRows[s].state = "live" /\ siteRows[s].tenant \in tenants =>
               siteRows[s].tenant \in tenants'
    PROVE  ScopeInv'
<1>1. \A s \in SiteIds : SiteKept(s)'
    BY DEF ScopeInv, SiteKept
<1>2. siteRows' \in [SiteIds -> SiteTable]
    BY DEF ScopeInv, ScopeTypes
<1> QED BY <1>1, <1>2, TableStep

LEMMA TenantStep ==
    ASSUME ScopeInv, NEW r \in Requests,
           DeleteTenant(r) \/ (\E t \in Tenants : CreateTenant(r, t))
    PROVE  ScopeInv'
<1>1. request' = [request EXCEPT ![r] = Idle] /\ UNCHANGED siteRows
    BY DEF DeleteTenant, CreateTenant
<1>2. ASSUME NEW t \in Tenants, CreateTenant(r, t) PROVE ScopeInv'
    <2>1. keys' = keys /\ tenants' = tenants \cup {t}
        BY <1>2 DEF CreateTenant
    <2>2. \A k \in ApiKeys : KeyKept(k)'
        BY <2>1 DEF ScopeInv, KeyKept
    <2>3. tenants' \subseteq Tenants /\ keys' \in [ApiKeys -> KeyRows]
        BY <2>1 DEF ScopeInv, ScopeTypes
    <2> QED BY <1>1, <2>1, <2>2, <2>3, KeyStep
<1>3. CASE DeleteTenant(r) /\ Restricted(request[r].tenant)
    <2> DEFINE t == request[r].tenant
    <2>1. /\ tenants' = tenants \ {t}
          /\ keys' = [k \in ApiKeys |-> IF keys[k].tenant = t THEN [keys[k] EXCEPT !.state = "gone"] ELSE keys[k]]
        BY <1>3 DEF DeleteTenant
    <2>2. \A s \in SiteIds : siteRows[s].state = "live" => siteRows[s].tenant # t
        BY <1>3 DEF Restricted, Owns, Existing
    <2>3. \A k \in ApiKeys :
              /\ keys[k].tenant # t => keys'[k] = keys[k]
              /\ keys[k].tenant = t => /\ keys'[k] \in KeyRows /\ keys'[k].state = "gone"
                                       /\ keys'[k].tenant = keys[k].tenant /\ keys'[k].admin = keys[k].admin
        <3> SUFFICES ASSUME NEW k \in ApiKeys
                     PROVE  /\ keys[k].tenant # t => keys'[k] = keys[k]
                            /\ keys[k].tenant = t =>
                                  /\ keys'[k] \in KeyRows /\ keys'[k].state = "gone"
                                  /\ keys'[k].tenant = keys[k].tenant /\ keys'[k].admin = keys[k].admin
            OBVIOUS
        <3>1. keys[k] \in KeyRows
            BY DEF ScopeInv, ScopeTypes
        <3> QED BY <2>1, <3>1 DEF KeyRows
    <2>4. tenants' \subseteq Tenants /\ keys' \in [ApiKeys -> KeyRows]
        BY <2>1, <2>3 DEF ScopeInv, ScopeTypes
    <2>5. ASSUME NEW k \in ApiKeys PROVE KeyKept(k)'
        <3>1. CASE keys[k].tenant # t
            BY <2>1, <2>3, <3>1 DEF ScopeInv, KeyKept
        <3>2. CASE keys[k].tenant = t
            BY <2>3, <3>2 DEF KeyKept
        <3> QED BY <3>1, <3>2
    <2> QED BY <1>1, <2>1, <2>2, <2>4, <2>5, KeyStep
<1>4. CASE DeleteTenant(r) /\ ~Restricted(request[r].tenant)
    BY <1>1, <1>4, GiveUpStep DEF DeleteTenant
<1> QED BY <1>2, <1>3, <1>4

LEMMA CreateKeyStep ==
    ASSUME ScopeInv, NEW r \in Requests, CreateKey(r)
    PROVE  ScopeInv'
<1> DEFINE t == request[r].tenant
<1>1. request' = [request EXCEPT ![r] = Idle] /\ UNCHANGED <<tenants, siteRows>>
    BY DEF CreateKey
<1>2. CASE UNCHANGED keys
    BY <1>1, <1>2, GiveUpStep
<1>3. ASSUME NEW k \in ApiKeys, t \in tenants \cup {NoTenant},
             keys' = [keys EXCEPT ![k] = [state |-> "live", admin |-> t = NoTenant, tenant |-> t]]
      PROVE  ScopeInv'
    <2> DEFINE new == [state |-> "live", admin |-> t = NoTenant, tenant |-> t]
    <2>1. t \in Owners
        BY <1>3 DEF ScopeInv, ScopeTypes, Owners
    <2>2. new.state = "live" /\ new.tenant = t
        OBVIOUS
    <2>3. new.admin <=> t = NoTenant
        OBVIOUS
    <2>4. (t = NoTenant) \in BOOLEAN
        OBVIOUS
    <2>5. new \in KeyRows
        BY <2>1, <2>4 DEF KeyRows
    <2> HIDE DEF new
    <2>6. keys' = [keys EXCEPT ![k] = new]
        BY <1>3 DEF new
    <2>7. /\ keys'[k] = new /\ \A o \in ApiKeys : o # k => keys'[o] = keys[o]
          /\ keys' \in [ApiKeys -> KeyRows]
        BY <2>5, <2>6 DEF ScopeInv, ScopeTypes
    <2>8. KeyKept(k)'
        BY <1>1, <1>3, <2>2, <2>3, <2>7 DEF KeyKept
    <2>9. \A o \in ApiKeys : o # k => KeyKept(o)'
        BY <1>1, <2>7 DEF ScopeInv, KeyKept
    <2>10. tenants' \subseteq Tenants
        BY <1>1 DEF ScopeInv, ScopeTypes
    <2> QED BY <1>1, <2>7, <2>8, <2>9, <2>10, KeyStep
<1> QED BY <1>2, <1>3 DEF CreateKey

\* A key that changes no more than its state, and not to "live".
LEMMA StaleKey ==
    ASSUME ScopeInv, NEW k \in ApiKeys, NEW st \in {"expired", "revoked", "gone", "none"},
           UNCHANGED tenants, keys' = [keys EXCEPT ![k].state = st]
    PROVE  keys' \in [ApiKeys -> KeyRows] /\ \A o \in ApiKeys : KeyKept(o)'
<1> DEFINE new == [keys[k] EXCEPT !.state = st]
<1>1. keys[k] \in KeyRows /\ keys' = [keys EXCEPT ![k] = new]
    BY DEF ScopeInv, ScopeTypes
<1>2. new \in KeyRows /\ new.state # "live"
    BY <1>1 DEF KeyRows
<1> HIDE DEF new
<1>3. /\ keys'[k] = new /\ \A o \in ApiKeys : o # k => keys'[o] = keys[o]
      /\ keys' \in [ApiKeys -> KeyRows]
    BY <1>1, <1>2 DEF ScopeInv, ScopeTypes
<1> QED BY <1>2, <1>3 DEF ScopeInv, KeyKept

LEMMA RevokeKeyStep ==
    ASSUME ScopeInv, NEW r \in Requests, NEW k \in ApiKeys, RevokeKey(r, k)
    PROVE  ScopeInv'
<1> DEFINE st == IF keys[k].state \in {"live", "expired"} THEN "revoked" ELSE keys[k].state
<1>1. request' = [request EXCEPT ![r] = Idle] /\ UNCHANGED <<tenants, siteRows>>
    BY DEF RevokeKey
<1>2. keys' = [keys EXCEPT ![k].state = st]
    BY DEF RevokeKey
<1>3. st \in {"expired", "revoked", "gone", "none"}
    BY DEF ScopeInv, ScopeTypes, KeyRows
<1> HIDE DEF st
<1>4. keys' \in [ApiKeys -> KeyRows] /\ \A o \in ApiKeys : KeyKept(o)'
    BY <1>1, <1>2, <1>3, StaleKey
<1>5. tenants' \subseteq Tenants
    BY <1>1 DEF ScopeInv, ScopeTypes
<1> QED BY <1>1, <1>4, <1>5, KeyStep

LEMMA ExpireStep ==
    ASSUME ScopeInv, NEW k \in ApiKeys, Expire(k)
    PROVE  ScopeInv'
<1>1. UNCHANGED <<tenants, siteRows, request>> /\ keys' = [keys EXCEPT ![k].state = "expired"]
    BY DEF Expire
<1>2. keys' \in [ApiKeys -> KeyRows] /\ \A o \in ApiKeys : KeyKept(o)'
    BY <1>1, StaleKey
<1>3. ScopeTypes'
    BY <1>1, <1>2 DEF ScopeInv, ScopeTypes
<1> QED BY <1>1, <1>2, <1>3 DEF ScopeInv, SiteKept, RequestKept

LEMMA ScopeStep == ScopeInv /\ [ScopeNext]_scopeVars => ScopeInv'
<1> SUFFICES ASSUME ScopeInv, [ScopeNext]_scopeVars PROVE ScopeInv'
    OBVIOUS
<1>1. CASE UNCHANGED scopeVars
    BY <1>1 DEF scopeVars, ScopeInv, ScopeTypes, KeyKept, SiteKept, RequestKept
<1>2. ASSUME NEW r \in Requests,
             \/ Authenticate(r) \/ CreateSite(r) \/ DeleteSite(r) \/ DeleteTenant(r) \/ CreateKey(r)
             \/ \E wanted \in Owners, platform \in Platforms : CheckCreate(r, wanted, platform)
             \/ \E s \in SiteIds : CheckSite(r, s)
             \/ \E t \in Tenants : CreateTenant(r, t) \/ CheckDelete(r, t)
             \/ \E t \in Owners : CheckKey(r, t)
             \/ \E k \in ApiKeys : RevokeKey(r, k)
      PROVE  ScopeInv'
    <2>1. \A t \in Tenants : t \in Owners
        BY DEF Owners
    <2> QED BY <1>2, <2>1, AuthenticateStep, CreateSiteStep, DeleteSiteStep, TenantStep, CreateKeyStep,
               CheckCreateStep, CheckSiteStep, CheckTenantStep, RevokeKeyStep
<1>3. ASSUME NEW k \in ApiKeys, Expire(k) PROVE ScopeInv'
    BY <1>3, ExpireStep
<1> QED BY <1>1, <1>2, <1>3 DEF ScopeNext, Owners, Platforms

\* The four scope predicates agree on every row of a well-kept site table.
LEMMA PredicatesAgree == ScopeInv => ScopesAgree
<1> SUFFICES ASSUME ScopeInv, NEW who \in Principals
             PROVE  /\ ReadableSiteFilter(who) = {s \in Existing : AuthorizeSiteRead(who, siteRows[s])}
                    /\ {s \in Existing : AuthorizeSite(who, siteRows[s])} \subseteq ReadableSiteFilter(who)
                    /\ \A s \in Existing : siteRows[s].platform # "pool" =>
                          (CheckSiteAccess(who, siteRows[s]) <=> AuthorizeSite(who, siteRows[s]))
    BY DEF ScopesAgree
<1>1. who.admin = TRUE \/ (who.admin = FALSE /\ who.tenant # NoTenant)
    BY ScopeAssumptions DEF Principals, Service, Operator, Principal, ScopeInv, ScopeTypes
<1>2. CASE who.admin = TRUE
    BY <1>2 DEF ReadableSiteFilter, TenantSiteFilter, AuthorizeSiteRead, AuthorizeSite, CheckSiteAccess, MayUse
<1>3. CASE who.admin = FALSE /\ who.tenant # NoTenant
    BY <1>3 DEF ReadableSiteFilter, TenantSiteFilter, AuthorizeSiteRead, AuthorizeSite, CheckSiteAccess, MayUse
<1> QED BY <1>1, <1>2, <1>3

LEMMA InvContains == ScopeInv => KeyContained
<1> SUFFICES ASSUME ScopeInv PROVE KeyContained
    OBVIOUS
<1>1. ScopesAgree
    BY PredicatesAgree
<1>2. OwnersExist
    BY DEF ScopeInv, KeyKept, SiteKept, OwnersExist, Existing
<1>3. \A r \in Requests : request[r].at = "change" /\ ~request[r].who.admin =>
          LET s == siteRows[request[r].id] IN s.tenant = request[r].who.tenant /\ s.platform # "pool"
    BY DEF ScopeInv, RequestKept
<1>4. \A s \in SiteIds : siteRows[s].state # "none" /\ siteRows[s].madeBy # NoTenant =>
          siteRows[s].tenant = siteRows[s].madeBy /\ siteRows[s].platform # "pool"
    BY DEF ScopeInv, SiteKept
<1> QED BY <1>1, <1>2, <1>3, <1>4 DEF KeyContained

\* A scoped API key never makes, changes or deletes a pool source or a site of
\* another tenant, what it lists is what it may read, and no live site or key
\* is left without its tenant, however requests, expiries and the deletion of
\* tenants interleave (authorization.py, admin_keys.py).
THEOREM KeysStayContained == ScopeSpec => []KeyContained
<1>1. ScopeInit => ScopeInv
    BY ScopeInitially
<1>2. ScopeInv /\ [ScopeNext]_scopeVars => ScopeInv'
    BY ScopeStep
<1>3. ScopeInv => KeyContained
    BY InvContains
<1> QED BY <1>1, <1>2, <1>3, PTL DEF ScopeSpec

------------------------------------------------------------------------------
(* SiteCrawl: the paging of a WordPress listing                            *)

ListingFields == {"at", "base", "page", "got", "count", "initial", "removed"}

\* Of the first n posts, those that were there at the start have been read.
Covered(n) == \A i \in DOMAIN posts : i <= n /\ posts[i] \in listing.initial => posts[i] \in listing.got

PagingInv ==
    /\ posts \in Seq(Nat)
    /\ DOMAIN listing = ListingFields
    /\ listing.page \in Nat \ {0}
    /\ listing.at = "start" => listing.page = 1
    /\ listing.at = "page" /\ ~listing.removed =>
          listing.initial \subseteq ToSet(posts) /\ Covered((listing.page - 1) * PerPage)
    /\ listing.at = "done" /\ ~listing.removed => listing.initial \subseteq listing.got

LEMMA Quotient ==
    ASSUME NEW a \in Nat, NEW p \in Nat \ {0}
    PROVE  a \div p \in Nat /\ a < (a \div p) * p + p
<1> QED OBVIOUS

LEMMA Products ==
    ASSUME NEW n \in Nat \ {0}, NEW p \in Nat \ {0}
    PROVE  (n - 1) * p \in Nat /\ n * p = (n - 1) * p + p
<1> QED OBVIOUS

LEMMA Grows ==
    ASSUME NEW m \in Nat, NEW n \in Nat, NEW p \in Nat, m <= n
    PROVE  m * p <= n * p
<1> QED OBVIOUS

LEMMA PagingInitially == CrawlInit => PagingInv
<1> SUFFICES ASSUME CrawlInit PROVE PagingInv
    OBVIOUS
<1>1. PICK n \in 0..(MaxPosts - 1) : posts = [i \in 1..n |-> n + 1 - i]
    BY DEF CrawlInit
<1>2. posts \in Seq(Nat)
    BY <1>1, CrawlAssumptions
<1>3. listing.at = "start" /\ listing.page = 1 /\ DOMAIN listing = ListingFields
    BY DEF CrawlInit, NewListing, ListingFields
<1> QED BY <1>2, <1>3 DEF PagingInv

LEMMA PublishPages ==
    ASSUME PagingInv, Publish
    PROVE  PagingInv'
<1>1. PICK id \in 1..MaxPosts :
          /\ \A old \in listing.initial \cup listing.got \cup ToSet(posts) : id > old
          /\ posts' = <<id>> \o posts
    BY DEF Publish
<1>2. listing' = listing /\ id \in Nat /\ posts \in Seq(Nat) /\ ~(id > id)
    BY CrawlAssumptions DEF Publish, PagingInv
<1>3. /\ posts' \in Seq(Nat) /\ posts'[1] = id
      /\ DOMAIN posts' = 1..(Len(posts) + 1) /\ DOMAIN posts = 1..Len(posts) /\ Len(posts) \in Nat
      /\ \A i \in DOMAIN posts' : i # 1 => i - 1 \in DOMAIN posts /\ posts'[i] = posts[i - 1]
      /\ \A i \in DOMAIN posts : i + 1 \in DOMAIN posts' /\ posts'[i + 1] = posts[i]
    BY <1>1, <1>2
<1>4. id \notin listing.initial
    BY <1>1, <1>2
<1>5. ToSet(posts) \subseteq ToSet(posts')
    BY <1>3 DEF ToSet
<1>6. ASSUME NEW n \in Nat, Covered(n) PROVE Covered(n)'
    BY <1>2, <1>3, <1>4, <1>6 DEF Covered
<1>7. (listing.page - 1) * PerPage \in Nat
    BY Products, CrawlAssumptions DEF PagingInv
<1>8. listing.at = "page" /\ ~listing.removed => Covered((listing.page - 1) * PerPage)'
    BY <1>2, <1>6, <1>7 DEF PagingInv
<1>9. listing.at = "page" /\ ~listing.removed => listing.initial \subseteq ToSet(posts')
    BY <1>5 DEF PagingInv
<1> QED BY <1>2, <1>3, <1>8, <1>9 DEF PagingInv

LEMMA DeletePages ==
    ASSUME PagingInv, Delete
    PROVE  PagingInv'
<1>1. PICK i \in DOMAIN posts : posts' = RemoveAt(posts, i)
    BY DEF Delete
<1>2. posts' \in Seq(Nat)
    <2>1. posts \in Seq(Nat) /\ i \in 1..Len(posts) /\ Len(posts) \in Nat
        BY DEF PagingInv
    <2>2. SubSeq(posts, 1, i - 1) \in Seq(Nat) /\ SubSeq(posts, i + 1, Len(posts)) \in Seq(Nat)
        BY <2>1, SubSeqProperties
    <2> QED BY <1>1, <2>2 DEF RemoveAt
<1>3. listing' = [listing EXCEPT !.removed = TRUE] /\ DOMAIN listing = ListingFields
    BY DEF Delete, PagingInv
<1>4. listing'.removed = TRUE
    BY <1>3 DEF ListingFields
<1>5. listing'.at = listing.at /\ listing'.page = listing.page /\ DOMAIN listing' = ListingFields
    BY <1>3 DEF ListingFields
<1> QED BY <1>2, <1>4, <1>5 DEF PagingInv

LEMMA FindApiPages ==
    ASSUME PagingInv, NEW json, FindApi(json)
    PROVE  PagingInv'
<1>1. posts' = posts /\ listing.at = "start" /\ listing.page = 1 /\ DOMAIN listing = ListingFields /\ posts \in Seq(Nat)
    BY DEF FindApi, PagingInv
<1>2. CASE json = {}
    <2>1. listing' = [listing EXCEPT !.at = "failed"]
        BY <1>2 DEF FindApi
    <2>2. listing'.at = "failed" /\ listing'.page = listing.page /\ DOMAIN listing' = ListingFields
        BY <1>1, <2>1 DEF ListingFields
    <2> QED BY <1>1, <2>2 DEF PagingInv
<1>3. CASE json # {}
    <2>1. listing' = [listing EXCEPT !.at = "page", !.base = Min(json), !.initial = ToSet(posts)]
        BY <1>3 DEF FindApi
    <2>2. /\ listing'.at = "page" /\ listing'.page = 1 /\ listing'.initial = ToSet(posts)
          /\ DOMAIN listing' = ListingFields
        BY <1>1, <2>1 DEF ListingFields
    <2>3. (listing'.page - 1) * PerPage = 0
        BY <2>2, CrawlAssumptions
    <2>4. Covered((listing.page - 1) * PerPage)'
        BY <1>1, <2>3 DEF Covered
    <2> QED BY <1>1, <2>2, <2>4 DEF PagingInv
<1> QED BY <1>2, <1>3

LEMMA FailPages ==
    ASSUME PagingInv, PageFails
    PROVE  PagingInv'
<1>1. listing' = [listing EXCEPT !.at = "failed"] /\ DOMAIN listing = ListingFields /\ posts' = posts
    BY DEF PageFails, PagingInv
<1>2. listing'.at = "failed" /\ listing'.page = listing.page /\ DOMAIN listing' = ListingFields
    BY <1>1 DEF ListingFields
<1> QED BY <1>1, <1>2 DEF PagingInv

\* A page holds exactly the posts at its positions.
LEMMA PageHolds ==
    ASSUME PagingInv
    PROVE  \A i \in DOMAIN posts : (listing.page - 1) * PerPage < i /\ i <= listing.page * PerPage =>
               posts[i] \in ToSet(OnPage(listing.page))
<1> DEFINE b == (listing.page - 1) * PerPage
           e == IF listing.page * PerPage < Len(posts) THEN listing.page * PerPage ELSE Len(posts)
           p == SubSeq(posts, b + 1, e)
<1>1. b \in Nat /\ listing.page * PerPage = b + PerPage /\ PerPage \in Nat \ {0}
    BY Products, CrawlAssumptions DEF PagingInv
<1>2. posts \in Seq(Nat) /\ Len(posts) \in Nat /\ DOMAIN posts = 1..Len(posts)
    BY DEF PagingInv
<1>3. e \in Nat /\ e <= Len(posts) /\ \A i \in DOMAIN posts : i <= b + PerPage => i <= e
    BY <1>1, <1>2
<1>4. OnPage(listing.page) = p
    BY DEF OnPage
<1> HIDE DEF b, e
<1>5. /\ p \in Seq(Nat)
      /\ Len(p) = IF b + 1 <= e THEN e - (b + 1) + 1 ELSE 0
      /\ \A i \in 1..(e - (b + 1) + 1) : p[i] = posts[b + 1 + i - 1]
    <2>1. \A i \in (b + 1)..e : posts[i] \in Nat
        BY <1>1, <1>2, <1>3
    <2> QED BY <1>1, <1>3, <2>1, SubSeqProperties
<1> HIDE DEF p
<1>6. ASSUME NEW i \in DOMAIN posts, b < i, i <= b + PerPage
      PROVE  posts[i] \in ToSet(p)
    <2>1. i - b \in 1..(e - (b + 1) + 1) /\ b + 1 <= e
        BY <1>1, <1>2, <1>3, <1>6
    <2>2. i - b \in DOMAIN p
        BY <1>1, <1>3, <1>5, <2>1
    <2>3. p[i - b] = posts[i]
        BY <1>1, <1>2, <1>5, <2>1
    <2> QED BY <2>2, <2>3 DEF ToSet
<1> QED BY <1>1, <1>4, <1>6 DEF b

\* Once everything up to Len(posts) is covered, nothing was missed.
LEMMA AllCovered ==
    ASSUME NEW got, NEW initial, posts \in Seq(Nat), initial \subseteq ToSet(posts),
           \A i \in DOMAIN posts : posts[i] \in initial => posts[i] \in got
    PROVE  initial \subseteq got
<1> QED BY DEF ToSet

LEMMA GetPagePages ==
    ASSUME PagingInv, NEW header \in BOOLEAN, GetPage(header)
    PROVE  PagingInv'
<1> DEFINE items == ToSet(OnPage(listing.page))
           b == (listing.page - 1) * PerPage
           next == [listing EXCEPT !.got = @ \cup items, !.count = @ + Cardinality(items)]
<1>1. /\ posts' = posts /\ posts \in Seq(Nat) /\ listing.at = "page" /\ DOMAIN listing = ListingFields
      /\ listing.page \in Nat \ {0} /\ Len(posts) \in Nat /\ DOMAIN posts = 1..Len(posts)
    BY DEF GetPage, PagingInv
<1>2. b \in Nat /\ listing.page * PerPage = b + PerPage /\ PerPage \in Nat \ {0}
    BY <1>1, Products, CrawlAssumptions
<1>3. \A i \in DOMAIN posts : b < i /\ i <= b + PerPage => posts[i] \in items
    BY <1>2, PageHolds
<1>4. ~listing.removed => /\ listing.initial \subseteq ToSet(posts)
                          /\ \A i \in DOMAIN posts : i <= b /\ posts[i] \in listing.initial => posts[i] \in listing.got
    BY <1>1 DEF PagingInv, Covered
<1>5. /\ DOMAIN next = ListingFields /\ next.at = "page" /\ next.page = listing.page
      /\ next.got = listing.got \cup items /\ next.initial = listing.initial /\ next.removed = listing.removed
    BY <1>1 DEF ListingFields
<1>6. \/ items = {} /\ listing' = [listing EXCEPT !.at = "done"]
      \/ listing' = [listing EXCEPT !.at = "failed"]
      \/ listing' = [next EXCEPT !.at = "failed"]
      \/ LastPage(listing.page, TotalPages) /\ listing' = [next EXCEPT !.at = "done"]
      \/ listing' = [next EXCEPT !.page = @ + 1]
    BY DEF GetPage
<1> HIDE DEF items, b, next
<1>7. ~listing.removed => \A i \in DOMAIN posts : i <= b + PerPage /\ posts[i] \in listing.initial =>
                              posts[i] \in listing.got \cup items
    BY <1>1, <1>2, <1>3, <1>4
<1>8. CASE items = {} /\ listing' = [listing EXCEPT !.at = "done"]
    <2>1. /\ listing'.at = "done" /\ listing'.page = listing.page /\ listing'.initial = listing.initial
          /\ listing'.got = listing.got /\ listing'.removed = listing.removed /\ DOMAIN listing' = ListingFields
        BY <1>1, <1>8 DEF ListingFields
    <2>2. \A i \in DOMAIN posts : i <= b
        <3>1. b + 1 \notin DOMAIN posts
            BY <1>2, <1>3, <1>8
        <3> QED BY <1>1, <1>2, <3>1
    <2>3. ~listing.removed => listing.initial \subseteq listing.got
        BY <1>1, <1>4, <2>2, AllCovered
    <2> QED BY <1>1, <2>1, <2>3 DEF PagingInv
<1>9. CASE listing' = [listing EXCEPT !.at = "failed"] \/ listing' = [next EXCEPT !.at = "failed"]
    <2>1. listing'.at = "failed" /\ listing'.page = listing.page /\ DOMAIN listing' = ListingFields
        BY <1>1, <1>5, <1>9 DEF ListingFields
    <2> QED BY <1>1, <2>1 DEF PagingInv
<1>10. CASE LastPage(listing.page, TotalPages) /\ listing' = [next EXCEPT !.at = "done"]
    <2>1. /\ listing'.at = "done" /\ listing'.page = listing.page /\ listing'.initial = listing.initial
          /\ listing'.got = listing.got \cup items /\ listing'.removed = listing.removed
          /\ DOMAIN listing' = ListingFields
        BY <1>5, <1>10 DEF ListingFields
    <2> DEFINE a == Len(posts) + PerPage - 1
               q == a \div PerPage
    <2>2. a \in Nat /\ listing.page >= q
        <3>1. a \in Nat
            BY <1>1, <1>2
        <3>2. TotalPages = q
            BY DEF TotalPages
        <3> QED BY <1>10, <3>1, <3>2 DEF LastPage
    <2>3. q \in Nat /\ a < q * PerPage + PerPage
        BY <1>2, <2>2, Quotient
    <2> HIDE DEF q
    <2>4. q * PerPage <= listing.page * PerPage
        BY <1>1, <1>2, <2>2, <2>3, Grows
    <2>5. q * PerPage \in Nat
        BY <1>2, <2>3
    <2>6. Len(posts) <= b + PerPage
        BY <1>1, <1>2, <2>3, <2>4, <2>5
    <2>7. ~listing.removed => listing.initial \subseteq listing.got \cup items
        <3>1. \A i \in DOMAIN posts : i <= b + PerPage
            BY <1>1, <1>2, <2>6
        <3>2. ~listing.removed => \A i \in DOMAIN posts : posts[i] \in listing.initial =>
                                     posts[i] \in listing.got \cup items
            BY <1>7, <3>1
        <3>3. CASE ~listing.removed
            <4>1. /\ posts \in Seq(Nat) /\ listing.initial \subseteq ToSet(posts)
                  /\ \A i \in DOMAIN posts : posts[i] \in listing.initial => posts[i] \in listing.got \cup items
                BY <1>1, <1>4, <3>2, <3>3
            <4>2. ASSUME NEW x \in listing.initial PROVE x \in listing.got \cup items
                <5>1. PICK i \in DOMAIN posts : posts[i] = x
                    BY <4>1 DEF ToSet
                <5> QED BY <4>1, <5>1
            <4> QED BY <4>2
        <3> QED BY <3>3
    <2> QED BY <1>1, <2>1, <2>7 DEF PagingInv
<1>11. CASE listing' = [next EXCEPT !.page = @ + 1]
    <2>1. /\ listing'.at = "page" /\ listing'.page = listing.page + 1 /\ listing'.initial = listing.initial
          /\ listing'.got = listing.got \cup items /\ listing'.removed = listing.removed
          /\ DOMAIN listing' = ListingFields
        BY <1>5, <1>11 DEF ListingFields
    <2>2. listing'.page \in Nat \ {0} /\ (listing'.page - 1) * PerPage = b + PerPage
        <3>1. listing'.page \in Nat \ {0} /\ listing'.page - 1 = listing.page
            BY <1>1, <2>1
        <3> QED BY <1>2, <3>1
    <2>3. ~listing.removed => Covered((listing.page - 1) * PerPage)'
        BY <1>1, <1>7, <2>1, <2>2 DEF Covered
    <2> QED BY <1>1, <1>4, <2>1, <2>2, <2>3 DEF PagingInv
<1> QED BY <1>6, <1>8, <1>9, <1>10, <1>11

\* A WordPress crawl that succeeds has read every post that was listed when it
\* began, if none was deleted meanwhile, for any number of posts published
\* between its pages and any page size (WordPressConnector.fetch_articles).
THEOREM PagingNeverMisses == ListingSpec => []PagingMissesNothing
<1>1. CrawlInit => PagingInv
    BY PagingInitially
<1>2. PagingInv /\ [ListingNext]_crawlVars => PagingInv'
    <2> SUFFICES ASSUME PagingInv, [ListingNext]_crawlVars PROVE PagingInv'
        OBVIOUS
    <2>1. CASE UNCHANGED crawlVars
        BY <2>1 DEF crawlVars, PagingInv, Covered
    <2>2. CASE ListingNext
        BY <2>2, PublishPages, DeletePages, FailPages, FindApiPages, GetPagePages DEF ListingNext
    <2> QED BY <2>1, <2>2
<1>3. PagingInv => PagingMissesNothing
    BY DEF PagingInv, PagingMissesNothing
<1> QED BY <1>1, <1>2, <1>3, PTL DEF ListingSpec

------------------------------------------------------------------------------
(* ReviewQueue                                                             *)

Entries == [score : Nat, status : {"absent", "pending", "approved", "expired"}]

LEMMA AboveOrders ==
    ASSUME queue \in [RowIds -> Entries]
    PROVE  /\ \A a \in RowIds : ~Above(a, a)
           /\ \A a, b \in RowIds : Above(a, b) => ~Above(b, a)
           /\ \A a, b \in RowIds : a # b => Above(a, b) \/ Above(b, a)
           /\ \A a, b, c \in RowIds : Above(a, b) /\ Above(b, c) => Above(a, c)
<1>1. \A a \in RowIds : a \in Nat /\ queue[a].score \in Nat
    BY QueueAssumptions DEF Entries
<1> QED BY <1>1 DEF Above

\* The rows of a page query, best first: each of them once, in order. A row's
\* place is the number of rows above it, which no two rows share, and which
\* takes every value below the number of rows.
LEMMA SortedRows ==
    ASSUME queue \in [RowIds -> Entries], NEW ids \in SUBSET RowIds
    PROVE  LET rows == BestFirst(ids)
           IN  /\ rows \in Seq(RowIds) /\ Len(rows) = Cardinality(ids) /\ DOMAIN rows = 1..Len(rows)
               /\ Len(rows) \in Nat
               /\ \A i \in DOMAIN rows : rows[i] \in ids
               /\ \A a \in ids : \E i \in DOMAIN rows : rows[i] = a
               /\ \A i, j \in DOMAIN rows : i < j => Above(rows[i], rows[j])
<1> DEFINE Over(a) == {b \in ids : Above(b, a)}
           rank == [a \in ids |-> Cardinality(Over(a))]
           n == Cardinality(ids)
           rows == BestFirst(ids)
<1>1. IsFiniteSet(ids) /\ n \in Nat
    BY QueueAssumptions, FS_Subset, FS_CardinalityType
<1>2. \A a \in ids : IsFiniteSet(Over(a)) /\ rank[a] \in Nat
    BY <1>1, FS_Subset, FS_CardinalityType
<1>3. ASSUME NEW a \in ids PROVE rank[a] < n
    <2>1. a \notin Over(a)
        BY AboveOrders
    <2>2. Over(a) \in SUBSET ids /\ Over(a) # ids
        BY <2>1
    <2>3. Cardinality(Over(a)) <= n /\ (n = Cardinality(Over(a)) => ids = Over(a))
        BY <1>1, <2>2, FS_Subset
    <2>4. rank[a] <= n /\ rank[a] # n
        BY <2>2, <2>3
    <2> QED BY <1>1, <1>2, <2>4
<1>4. ASSUME NEW a \in ids, NEW b \in ids, Above(a, b) PROVE rank[a] < rank[b]
    <2>1. Over(a) \in SUBSET Over(b)
        BY <1>4, AboveOrders
    <2>2. a \in Over(b) /\ a \notin Over(a)
        BY <1>4, AboveOrders
    <2>3. /\ Cardinality(Over(a)) <= Cardinality(Over(b))
          /\ Cardinality(Over(b)) = Cardinality(Over(a)) => Over(b) = Over(a)
        BY <1>2, <2>1, FS_Subset
    <2>4. rank[a] <= rank[b] /\ rank[a] # rank[b]
        BY <2>2, <2>3
    <2> QED BY <1>2, <2>4
<1>5. \A a, b \in ids : a # b => rank[a] # rank[b]
    <2>1. ASSUME NEW a \in ids, NEW b \in ids, a # b PROVE rank[a] # rank[b]
        <3>1. rank[a] < rank[b] \/ rank[b] < rank[a]
            BY <1>4, <2>1, AboveOrders
        <3> QED BY <1>2, <3>1
    <2> QED BY <2>1
<1> HIDE DEF rank
<1>6. \A v \in 0..(n - 1) : \E a \in ids : rank[a] = v
    <2>1. rank \in [ids -> 0..(n - 1)]
        BY <1>1, <1>2, <1>3 DEF rank
    <2>2. rank \in Injection(ids, 0..(n - 1))
        BY <1>5, <2>1 DEF Injection, IsInjective
    <2>3. IsFiniteSet(0..(n - 1)) /\ Cardinality(0..(n - 1)) = n
        BY <1>1, FS_Interval
    <2>4. rank \in Surjection(ids, 0..(n - 1))
        BY <2>2, <2>3, FS_Injection
    <2> QED BY <2>4 DEF Surjection
<1>7. DOMAIN rows = 1..n /\ \A i \in 1..n : rows[i] \in ids /\ rank[rows[i]] = i - 1
    <2>1. rows = [i \in 1..n |-> CHOOSE a \in ids : Cardinality(Over(a)) = i - 1]
        BY DEF BestFirst
    <2>2. ASSUME NEW i \in 1..n PROVE rows[i] \in ids /\ rank[rows[i]] = i - 1
        <3>1. \E a \in ids : Cardinality(Over(a)) = i - 1
            <4>1. i - 1 \in 0..(n - 1)
                BY <1>1
            <4>2. PICK a \in ids : rank[a] = i - 1
                BY <1>6, <4>1
            <4> QED BY <4>2 DEF rank
        <3>2. rows[i] = CHOOSE a \in ids : Cardinality(Over(a)) = i - 1
            BY <2>1
        <3>3. rows[i] \in ids /\ Cardinality(Over(rows[i])) = i - 1
            BY <3>1, <3>2
        <3> QED BY <3>3 DEF rank
    <2> QED BY <2>1, <2>2
<1>8. rows \in Seq(RowIds) /\ Len(rows) = n
    <2> DEFINE pick(i) == CHOOSE a \in ids : Cardinality(Over(a)) = i - 1
    <2>1. rows = [i \in 1..n |-> pick(i)]
        BY DEF BestFirst
    <2> HIDE DEF rows, n, pick
    <2>2. \A i \in 1..n : pick(i) \in RowIds
        BY <1>7, <2>1
    <2> QED BY <1>1, <2>1, <2>2
<1>9. ASSUME NEW a \in ids PROVE \E i \in DOMAIN rows : rows[i] = a
    <2> HIDE DEF rows, n
    <2>0. rank[a] \in Nat /\ rank[a] < n
        BY <1>2, <1>3
    <2>1. rank[a] + 1 \in 1..n /\ (rank[a] + 1) - 1 = rank[a]
        BY <1>1, <2>0
    <2>2. rows[rank[a] + 1] \in ids /\ rank[rows[rank[a] + 1]] = rank[a]
        BY <1>7, <2>1
    <2>3. rows[rank[a] + 1] = a
        BY <1>5, <2>2
    <2> QED BY <1>7, <2>1, <2>3
<1>10. ASSUME NEW i \in DOMAIN rows, NEW j \in DOMAIN rows, i < j PROVE Above(rows[i], rows[j])
    <2>1. /\ rows[i] \in ids /\ rows[j] \in ids /\ i \in Nat /\ j \in Nat
          /\ rank[rows[i]] = i - 1 /\ rank[rows[j]] = j - 1
        BY <1>1, <1>7
    <2>2. ~(rank[rows[j]] < rank[rows[i]]) /\ rank[rows[i]] # rank[rows[j]]
        BY <1>10, <2>1
    <2> HIDE DEF rows
    <2> QED BY <1>4, <2>1, <2>2, AboveOrders
<1> QED BY <1>1, <1>7, <1>8, <1>9, <1>10

\* The reader's place: its list is in order and of rows that exist; the cursor
\* is its last row; and a row that has matched all the time is in the list or
\* still below the cursor.
QueueInv ==
    /\ queue \in [RowIds -> Entries]
    /\ reader.listed \in Seq(RowIds)
    /\ \A i \in DOMAIN reader.listed : queue[reader.listed[i]].status # "absent"
    /\ \A i, j \in DOMAIN reader.listed : i < j => Above(reader.listed[i], reader.listed[j])
    /\ reader.listed = <<>> => reader.cursor = <<>> /\ steady = {}
    /\ reader.listed # <<>> /\ reader.more =>
          reader.cursor = <<queue[reader.listed[Len(reader.listed)]].score, reader.listed[Len(reader.listed)]>>
    /\ steady \subseteq RowIds
    /\ \A a \in steady : InQueue(reader.ask, a)
    /\ \A a \in steady : a \in ToSet(reader.listed) \/ (reader.more /\ Below(a, reader.cursor))

LEMMA QueueInitially == QueueInit => QueueInv
<1> SUFFICES ASSUME QueueInit PROVE QueueInv
    OBVIOUS
<1>1. queue \in [RowIds -> Entries]
    <2>1. [score : RowScores, status : {"pending"}] \subseteq Entries /\ [score |-> 0, status |-> "absent"] \in Entries
        BY QueueAssumptions DEF Entries
    <2> QED BY <2>1 DEF QueueInit
<1>2. reader.listed = <<>> /\ reader.cursor = <<>> /\ steady = {}
    BY DEF QueueInit
<1> QED BY <1>1, <1>2 DEF QueueInv

\* Others change rows, and a row's score is set when it is inserted.
LEMMA ChangeKeeps ==
    ASSUME QueueInv, NEW a \in RowIds,
           (\E status \in {"approved", "expired"} : Resolved(a, status))
           \/ (\E score \in RowScores : Inserted(a, score))
    PROVE  QueueInv'
<1>1. /\ reader' = reader /\ steady' = {b \in steady : InQueue(reader.ask, b)'}
      /\ \/ \E status \in {"approved", "expired"} :
               queue[a].status # "absent" /\ queue' = [queue EXCEPT ![a].status = status]
         \/ \E score \in RowScores :
               queue[a].status = "absent" /\ queue' = [queue EXCEPT ![a].status = "pending", ![a].score = score]
    BY DEF Resolved, Inserted, Change
<1>2. queue \in [RowIds -> Entries] /\ queue[a] \in Entries
    BY DEF QueueInv
<1>3. /\ queue' \in [RowIds -> Entries]
      /\ \A b \in RowIds : queue[b].status # "absent" =>
            queue'[b].status # "absent" /\ queue'[b].score = queue[b].score
    <2>1. ASSUME NEW status \in {"approved", "expired"}, queue' = [queue EXCEPT ![a].status = status]
          PROVE  <1>3!1 /\ <1>3!2
        <3> DEFINE row == [queue[a] EXCEPT !.status = status]
        <3>1. queue' = [queue EXCEPT ![a] = row]
            BY <1>2, <2>1
        <3>2. row \in Entries /\ row.status # "absent" /\ row.score = queue[a].score
            BY <1>2 DEF Entries
        <3> HIDE DEF row
        <3> QED BY <1>2, <3>1, <3>2
    <2>2. ASSUME NEW score \in RowScores, queue[a].status = "absent",
                 queue' = [queue EXCEPT ![a].status = "pending", ![a].score = score]
          PROVE  <1>3!1 /\ <1>3!2
        <3> DEFINE row == [queue[a] EXCEPT !.status = "pending", !.score = score]
        <3>1. queue' = [queue EXCEPT ![a] = row]
            BY <1>2, <2>2
        <3>2. row \in Entries
            BY <1>2, QueueAssumptions DEF Entries
        <3> HIDE DEF row
        <3> QED BY <1>2, <2>2, <3>1, <3>2
    <2> QED BY <1>1, <2>1, <2>2
<1>4. \A b, c \in RowIds : queue[b].status # "absent" /\ queue[c].status # "absent" /\ Above(b, c) => Above(b, c)'
    BY <1>3 DEF Above
<1>5. \A b \in steady : b \in RowIds /\ queue[b].status # "absent"
    BY DEF QueueInv, InQueue
<1>6. \A b \in steady : Below(b, reader.cursor) => Below(b, reader.cursor)'
    BY <1>1, <1>3, <1>5 DEF Below
<1>7. /\ reader.listed \in Seq(RowIds)
      /\ \A i \in DOMAIN reader.listed : reader.listed[i] \in RowIds /\ queue[reader.listed[i]].status # "absent"
    BY DEF QueueInv
<1>8. \A i, j \in DOMAIN reader.listed : i < j => Above(reader.listed[i], reader.listed[j])'
    BY <1>1, <1>4, <1>7 DEF QueueInv
<1>9. reader.listed # <<>> => queue'[reader.listed[Len(reader.listed)]].score = queue[reader.listed[Len(reader.listed)]].score
    BY <1>3, <1>7
<1>10. \A b \in steady' : b \in steady /\ InQueue(reader.ask, b)'
    BY <1>1
<1>11. \A b \in steady' : b \in ToSet(reader.listed) \/ (reader.more /\ Below(b, reader.cursor)')
    BY <1>6, <1>10 DEF QueueInv
<1> QED BY <1>1, <1>3, <1>5, <1>7, <1>8, <1>9, <1>10, <1>11 DEF QueueInv

\* The first rows of a query, up to the limit.
LEMMA PageOfRows ==
    ASSUME NEW rows \in Seq(RowIds)
    PROVE  LET page == FirstRows(rows, PageLimit)
               m == IF Len(rows) < PageLimit THEN Len(rows) ELSE PageLimit
           IN  /\ page \in Seq(RowIds) /\ Len(page) = m /\ m \in Nat /\ m <= Len(rows)
               /\ \A i \in 1..m : page[i] = rows[i]
<1> DEFINE m == IF Len(rows) < PageLimit THEN Len(rows) ELSE PageLimit
           page == SubSeq(rows, 1, m)
<1>1. Len(rows) \in Nat /\ m \in Nat /\ m <= Len(rows)
    BY QueueAssumptions
<1>2. FirstRows(rows, PageLimit) = page
    BY DEF FirstRows
<1> HIDE DEF m
<1>3. \A i \in 1..m : rows[i] \in RowIds
    BY <1>1
<1>4. /\ page \in Seq(RowIds)
      /\ Len(page) = IF 1 <= m THEN m - 1 + 1 ELSE 0
      /\ \A i \in 1..(m - 1 + 1) : page[i] = rows[1 + i - 1]
    BY <1>1, <1>3, SubSeqProperties
<1>5. Len(page) = m /\ \A i \in 1..m : page[i] = rows[i]
    BY <1>1, <1>4
<1> QED BY <1>1, <1>2, <1>4, <1>5 DEF m

LEMMA Joined ==
    ASSUME NEW s \in Seq(RowIds), NEW t \in Seq(RowIds)
    PROVE  /\ s \o t \in Seq(RowIds) /\ Len(s \o t) = Len(s) + Len(t) /\ Len(s) \in Nat /\ Len(t) \in Nat
           /\ DOMAIN (s \o t) = 1..(Len(s) + Len(t)) /\ DOMAIN s = 1..Len(s)
           /\ \A i \in 1..Len(s) : (s \o t)[i] = s[i]
           /\ \A i \in 1..Len(t) : (s \o t)[Len(s) + i] = t[i]
<1> QED OBVIOUS

LEMMA ListPageKeeps ==
    ASSUME QueueInv, NEW ask, ListPage(ask)
    PROVE  QueueInv'
<1> DEFINE ids == {a \in QueueOf(ask) : Below(a, reader.cursor)}
           rows == BestFirst(ids)
           page == FirstRows(rows, PageLimit)
           more == Len(rows) > PageLimit
           last == page[Len(page)]
           old == reader.listed
           m == IF Len(rows) < PageLimit THEN Len(rows) ELSE PageLimit
<1>1. /\ reader.more /\ (old # <<>> => ask = reader.ask)
      /\ reader' = [ask |-> ask, more |-> more, listed |-> old \o page,
                    cursor |-> IF more THEN <<queue[last].score, last>> ELSE reader.cursor]
      /\ steady' = (IF old = <<>> THEN QueueOf(ask) ELSE steady) /\ queue' = queue
    BY DEF ListPage
<1>2. /\ queue \in [RowIds -> Entries] /\ old \in Seq(RowIds)
      /\ \A i \in DOMAIN old : old[i] \in RowIds /\ queue[old[i]].status # "absent"
      /\ \A i, j \in DOMAIN old : i < j => Above(old[i], old[j])
    BY DEF QueueInv
<1>3. ids \in SUBSET RowIds /\ \A a \in ids : InQueue(ask, a) /\ queue[a].status # "absent" /\ Below(a, reader.cursor)
    BY DEF QueueOf, InQueue
<1>4. \A a \in steady' : a \in RowIds /\ InQueue(ask, a) /\ (a \in ToSet(old) \/ a \in ids)
    <2>1. CASE old = <<>>
        <3>1. \A a \in QueueOf(ask) : a \in ids /\ a \in RowIds /\ InQueue(ask, a)
            BY <2>1 DEF QueueInv, Below, QueueOf
        <3> HIDE DEF ids
        <3> QED BY <1>1, <2>1, <3>1
    <2>2. CASE old # <<>>
        <3>1. \A a \in steady : a \in RowIds /\ InQueue(ask, a) /\ (a \in ToSet(old) \/ Below(a, reader.cursor))
            BY <1>1, <2>2 DEF QueueInv
        <3>2. \A a \in steady : Below(a, reader.cursor) => a \in ids
            BY <3>1 DEF QueueOf
        <3> HIDE DEF ids
        <3> QED BY <1>1, <2>2, <3>1, <3>2
    <2> QED BY <2>1, <2>2
<1>5. \A i \in DOMAIN old, b \in ids : Above(old[i], b)
    <2> SUFFICES ASSUME NEW i \in DOMAIN old, NEW b \in ids PROVE Above(old[i], b)
        OBVIOUS
    <2> DEFINE l == Len(old)
    <2>1. old # <<>> /\ l \in DOMAIN old /\ i <= l /\ i \in Nat /\ l \in Nat
        BY <1>2
    <2>2. reader.cursor = <<queue[old[l]].score, old[l]>>
        BY <1>1, <2>1 DEF QueueInv
    <2>3. reader.cursor # <<>> /\ reader.cursor[1] = queue[old[l]].score /\ reader.cursor[2] = old[l]
        BY <2>2
    <2>4. Below(b, reader.cursor) /\ b \in RowIds /\ old[l] \in RowIds /\ old[i] \in RowIds
        BY <1>2, <1>3, <2>1
    <2>5. b \in Nat /\ old[l] \in Nat /\ queue[b].score \in Nat /\ queue[old[l]].score \in Nat
        BY <1>2, <2>4, QueueAssumptions DEF Entries
    <2>6. Above(old[l], b)
        BY <2>3, <2>4, <2>5 DEF Below, Above
    <2> HIDE DEF ids
    <2>7. i = l \/ Above(old[i], old[l])
        BY <1>2, <2>1
    <2> QED BY <1>2, <2>4, <2>6, <2>7, AboveOrders
<1> HIDE DEF ids
<1>6. /\ rows \in Seq(RowIds) /\ DOMAIN rows = 1..Len(rows) /\ Len(rows) \in Nat
      /\ \A i \in DOMAIN rows : rows[i] \in ids
      /\ \A a \in ids : \E i \in DOMAIN rows : rows[i] = a
      /\ \A i, j \in DOMAIN rows : i < j => Above(rows[i], rows[j])
    BY <1>2, <1>3, SortedRows
<1> HIDE DEF rows
<1>7. /\ page \in Seq(RowIds) /\ Len(page) = m /\ m \in Nat /\ m <= Len(rows)
      /\ \A i \in 1..m : page[i] = rows[i] /\ page[i] \in ids
    <2>1. /\ page \in Seq(RowIds) /\ Len(page) = m /\ m \in Nat /\ m <= Len(rows)
          /\ \A i \in 1..m : page[i] = rows[i]
        BY <1>6, PageOfRows
    <2> HIDE DEF page, m
    <2>2. \A i \in 1..m : i \in DOMAIN rows
        BY <1>6, <2>1
    <2> QED BY <1>6, <2>1, <2>2
<1>8. (more => m = PageLimit) /\ (~more => m = Len(rows))
    <2>1. Len(rows) \in Nat /\ PageLimit \in Nat
        BY <1>6, QueueAssumptions
    <2> QED BY <2>1
<1> HIDE DEF page, m
<1> DEFINE new == old \o page
<1>9. /\ new \in Seq(RowIds) /\ Len(new) = Len(old) + m /\ Len(old) \in Nat
      /\ DOMAIN new = 1..(Len(old) + m) /\ DOMAIN old = 1..Len(old)
      /\ \A i \in DOMAIN old : new[i] = old[i]
      /\ \A i \in 1..m : new[Len(old) + i] = page[i]
      /\ \A i \in DOMAIN new : i \notin DOMAIN old => i - Len(old) \in 1..m /\ new[i] = page[i - Len(old)]
    <2>1. /\ new \in Seq(RowIds) /\ Len(new) = Len(old) + m /\ Len(old) \in Nat
          /\ DOMAIN new = 1..(Len(old) + m) /\ DOMAIN old = 1..Len(old)
          /\ \A i \in DOMAIN old : new[i] = old[i]
          /\ \A i \in 1..m : new[Len(old) + i] = page[i]
        <3>1. old \in Seq(RowIds) /\ page \in Seq(RowIds)
            BY <1>2, <1>7
        <3> HIDE DEF old
        <3>2. /\ new \in Seq(RowIds) /\ Len(new) = Len(old) + Len(page) /\ Len(old) \in Nat
              /\ DOMAIN new = 1..(Len(old) + Len(page)) /\ DOMAIN old = 1..Len(old)
              /\ \A i \in 1..Len(old) : new[i] = old[i]
              /\ \A i \in 1..Len(page) : new[Len(old) + i] = page[i]
            BY ONLY <3>1, Joined
        <3> HIDE DEF new
        <3> QED BY <1>7, <3>2
    <2> HIDE DEF new
    <2>2. ASSUME NEW i \in DOMAIN new, i \notin DOMAIN old
          PROVE  i - Len(old) \in 1..m /\ new[i] = page[i - Len(old)]
        <3>1. i - Len(old) \in 1..m /\ Len(old) + (i - Len(old)) = i
            BY <1>7, <2>1, <2>2
        <3> QED BY <2>1, <3>1
    <2> QED BY <2>1, <2>2
<1> HIDE DEF new
<1>10. \A i \in DOMAIN new : queue[new[i]].status # "absent"
    BY <1>2, <1>3, <1>7, <1>9
<1>11. ASSUME NEW i \in DOMAIN new, NEW j \in DOMAIN new, i < j PROVE Above(new[i], new[j])
    <2>1. CASE j \in DOMAIN old
        <3>1. i \in DOMAIN old
            BY <1>9, <1>11, <2>1
        <3> QED BY <1>2, <1>9, <1>11, <2>1, <3>1
    <2>2. CASE j \notin DOMAIN old /\ i \in DOMAIN old
        BY <1>5, <1>7, <1>9, <2>2
    <2>3. CASE j \notin DOMAIN old /\ i \notin DOMAIN old
        <3>1. /\ i - Len(old) \in 1..m /\ j - Len(old) \in 1..m /\ i - Len(old) < j - Len(old)
              /\ new[i] = page[i - Len(old)] /\ new[j] = page[j - Len(old)]
            BY <1>9, <1>11, <2>3
        <3>2. i - Len(old) \in DOMAIN rows /\ j - Len(old) \in DOMAIN rows
            BY <1>6, <1>7, <3>1
        <3>3. page[i - Len(old)] = rows[i - Len(old)] /\ page[j - Len(old)] = rows[j - Len(old)]
            BY <1>7, <3>1
        <3> QED BY <1>6, <3>1, <3>2, <3>3
    <2> QED BY <2>1, <2>2, <2>3
<1>12. ToSet(old) \subseteq ToSet(new) /\ \A i \in 1..m : rows[i] \in ToSet(new)
    <2>1. \A i \in 1..m : Len(old) + i \in DOMAIN new /\ new[Len(old) + i] = rows[i]
        BY <1>7, <1>9
    <2>2. \A i \in DOMAIN old : i \in DOMAIN new /\ new[i] = old[i]
        BY <1>7, <1>9
    <2> QED BY <2>1, <2>2 DEF ToSet
<1>13. CASE more
    <2>1. /\ m \in 1..Len(rows) /\ last = rows[m] /\ new # <<>> /\ new[Len(new)] = last /\ last \in RowIds
        <3>1. m = PageLimit /\ m \in Nat /\ m # 0 /\ m <= Len(rows)
            BY <1>7, <1>8, <1>13, QueueAssumptions
        <3>2. m \in 1..m /\ m \in 1..Len(rows)
            BY <1>6, <3>1
        <3>3. last = rows[m] /\ last \in RowIds
            BY <1>3, <1>7, <3>2
        <3>4. new[Len(old) + m] = page[m] /\ Len(new) = Len(old) + m /\ Len(new) # 0
            BY <1>9, <3>1, <3>2
        <3> QED BY <1>7, <1>9, <3>2, <3>3, <3>4
    <2> HIDE DEF last
    <2>2. reader'.cursor = <<queue[last].score, last>> /\ reader'.more /\ reader'.listed = new /\ reader'.ask = ask
        BY <1>1, <1>13 DEF new
    <2>3. ASSUME NEW a \in ids PROVE a \in ToSet(new) \/ Below(a, reader.cursor)'
        <3>1. PICK i \in DOMAIN rows : rows[i] = a
            BY <1>6
        <3>2. CASE i \in 1..m
            BY <1>12, <3>1, <3>2
        <3>3. CASE i \notin 1..m
            <4>1. m < i /\ m \in DOMAIN rows
                BY <1>6, <2>1, <3>3
            <4>2. Above(last, a)
                BY <1>6, <2>1, <3>1, <4>1
            <4>3. a \in Nat /\ last \in Nat /\ queue[a].score \in Nat /\ queue[last].score \in Nat
                BY <1>2, <1>3, <2>1, QueueAssumptions DEF Entries
            <4> QED BY <1>1, <2>2, <4>2, <4>3 DEF Above, Below
        <3> QED BY <3>2, <3>3
    <2>4. \A a \in steady' : a \in ToSet(new) \/ Below(a, reader.cursor)'
        BY <1>4, <1>12, <2>3
    <2>5. \A a \in steady' : a \in RowIds /\ InQueue(reader.ask, a)'
        BY <1>1, <1>4, <2>2 DEF InQueue, HasStrongerReverse, Above
    <2>6. reader'.cursor = <<queue'[new[Len(new)]].score, new[Len(new)]>>
        BY <1>1, <2>1, <2>2
    <2>7. \A i, j \in DOMAIN reader'.listed : i < j => Above(reader.listed[i], reader.listed[j])'
        <3>1. queue' = queue /\ reader'.listed = new
            BY <1>1, <2>2
        <3> SUFFICES ASSUME NEW i \in DOMAIN new, NEW j \in DOMAIN new, i < j
                     PROVE  Above(reader.listed[i], reader.listed[j])'
            BY <3>1
        <3>2. Above(new[i], new[j])
            BY <1>11
        <3> QED BY <3>1, <3>2 DEF Above
    <2> QED BY <1>1, <1>2, <1>9, <1>10, <2>1, <2>2, <2>4, <2>5, <2>6, <2>7 DEF QueueInv
<1>14. CASE ~more
    <2>1. reader'.cursor = reader.cursor /\ ~reader'.more /\ reader'.listed = new /\ reader'.ask = ask
        BY <1>1, <1>14 DEF new
    <2>2. \A a \in ids : a \in ToSet(new)
        BY <1>6, <1>7, <1>8, <1>12, <1>14
    <2>3. \A a \in steady' : a \in ToSet(new)
        BY <1>4, <1>12, <2>2
    <2>4. \A a \in steady' : a \in RowIds /\ InQueue(reader.ask, a)'
        BY <1>1, <1>4, <2>1 DEF InQueue, HasStrongerReverse, Above
    <2>5. \A i, j \in DOMAIN reader'.listed : i < j => Above(reader.listed[i], reader.listed[j])'
        <3>1. queue' = queue /\ reader'.listed = new
            BY <1>1, <2>1
        <3> SUFFICES ASSUME NEW i \in DOMAIN new, NEW j \in DOMAIN new, i < j
                     PROVE  Above(reader.listed[i], reader.listed[j])'
            BY <3>1
        <3>2. Above(new[i], new[j])
            BY <1>11
        <3> QED BY <3>1, <3>2 DEF Above
    <2>6. new = <<>> => reader.cursor = <<>> /\ steady' = {}
        <3> SUFFICES ASSUME new = <<>> PROVE reader.cursor = <<>> /\ steady' = {}
            OBVIOUS
        <3>1. old = <<>>
            <4>1. Len(new) = 0
                OBVIOUS
            <4>2. Len(old) = 0
                BY <1>7, <1>9, <4>1
            <4> QED BY <1>2, <4>2
        <3>2. ToSet(new) = {}
            BY DEF ToSet
        <3> QED BY <2>3, <3>1, <3>2 DEF QueueInv
    <2> QED BY <1>1, <1>2, <1>9, <1>10, <2>1, <2>3, <2>4, <2>5, <2>6 DEF QueueInv
<1> QED BY <1>13, <1>14

\* list_suggestion_page: a reader who pages through the review queue has, at
\* the end, every row that matched all the time, no row twice and best first,
\* whatever others review, publish, expire and generate between two pages; for
\* any number of rows and any page size.
THEOREM QueueAlwaysShownOnce == QueueSpec => []QueueShownOnce
<1>1. QueueInit => QueueInv
    BY QueueInitially
<1>2. QueueInv /\ [QueueNext]_queueVars => QueueInv'
    <2> SUFFICES ASSUME QueueInv, [QueueNext]_queueVars PROVE QueueInv'
        OBVIOUS
    <2>1. CASE UNCHANGED queueVars
        BY <2>1 DEF queueVars, QueueInv, InQueue, HasStrongerReverse, Above, Below
    <2>2. CASE QueueNext
        BY <2>2, ListPageKeeps, ChangeKeeps DEF QueueNext
    <2> QED BY <2>1, <2>2
<1>3. QueueInv => QueueShownOnce
    <2> SUFFICES ASSUME QueueInv PROVE QueueShownOnce
        OBVIOUS
    <2>1. \A i \in DOMAIN reader.listed : reader.listed[i] \in RowIds
        BY DEF QueueInv
    <2>2. \A i, j \in DOMAIN reader.listed : i < j =>
              Above(reader.listed[i], reader.listed[j]) /\ reader.listed[i] # reader.listed[j]
        BY <2>1, AboveOrders DEF QueueInv
    <2> QED BY <2>2 DEF QueueInv, QueueShownOnce
<1> QED BY <1>1, <1>2, <1>3, PTL DEF QueueSpec

------------------------------------------------------------------------------
(* Induction and iteration, over sets and functions                        *)

\* Induction up to N, for a set.
LEMMA UpTo ==
    ASSUME NEW N \in Nat, NEW S, 0 \in S, \A n \in 0..(N - 1) : n \in S => n + 1 \in S
    PROVE  0..N \subseteq S
<1> DEFINE R == OpToRel(<, Nat)
           Bad == {n \in 0..N : n \notin S}
<1>1. IsWellFoundedOn(R, Nat)
    BY NatLessThanWellFounded
<1>2. R = {ss \in Nat \X Nat : ss[1] < ss[2]}
    BY DEF OpToRel
<1>3. Bad \subseteq Nat
    OBVIOUS
<1> HIDE DEF R
<1> SUFFICES ASSUME Bad # {} PROVE FALSE
    OBVIOUS
<1> HIDE DEF Bad
<1>4. PICK x \in Bad : \A y \in Bad : ~(<<y, x>> \in R)
    BY <1>1, <1>3, WFMin
<1> USE DEF Bad
<1>5. x \in 1..N /\ x - 1 \in 0..(N - 1)
    BY <1>4
<1>6. <<x - 1, x>> \in R
    BY <1>2, <1>5
<1>7. x - 1 \in S
    BY <1>4, <1>5, <1>6
<1> QED BY <1>4, <1>5, <1>7

\* A step applied N times, the n-th time with n.
Iteration(f, N, w, step) ==
    f[0] = w /\ \A n \in 1..N : f[n] = step[<<n, f[n - 1]>>]

LEMMA Iterates ==
    ASSUME NEW N \in Nat, NEW W, NEW w \in W, NEW step \in [(1..N) \X W -> W]
    PROVE  \E f \in [0..N -> W] : Iteration(f, N, w, step)
<1> DEFINE S == {n \in 0..N : \E f \in [0..n -> W] : Iteration(f, n, w, step)}
<1>1. 0 \in S
    <2>1. [n \in 0..0 |-> w] \in [0..0 -> W] /\ Iteration([n \in 0..0 |-> w], 0, w, step)
        BY DEF Iteration
    <2> QED BY <2>1
<1>2. ASSUME NEW n \in 0..(N - 1), n \in S PROVE n + 1 \in S
    <2>1. PICK f \in [0..n -> W] : Iteration(f, n, w, step)
        BY <1>2
    <2> DEFINE g == [i \in 0..(n + 1) |-> IF i <= n THEN f[i] ELSE step[<<n + 1, f[n]>>]]
    <2>2. <<n + 1, f[n]>> \in (1..N) \X W
        OBVIOUS
    <2>3. g \in [0..(n + 1) -> W]
        BY <2>2
    <2>4. Iteration(g, n + 1, w, step)
        <3>1. g[0] = w
            BY <2>1 DEF Iteration
        <3>2. ASSUME NEW i \in 1..(n + 1) PROVE g[i] = step[<<i, g[i - 1]>>]
            <4>1. g[i - 1] = f[i - 1]
                OBVIOUS
            <4>2. CASE i <= n
                BY <2>1, <4>1, <4>2 DEF Iteration
            <4>3. CASE i = n + 1
                <5>1. n + 1 \in 0..(n + 1) /\ ~(n + 1 <= n)
                    OBVIOUS
                <5>2. g[n + 1] = step[<<n + 1, f[n]>>]
                    BY <5>1
                <5>3. i - 1 = n
                    BY <4>3
                <5>4. g[i - 1] = f[n]
                    BY <4>1, <5>3
                <5> HIDE DEF g
                <5> QED BY <4>3, <5>2, <5>4
            <4> QED BY <4>2, <4>3
        <3> QED BY <3>1, <3>2 DEF Iteration
    <2> HIDE DEF g
    <2> QED BY <2>3, <2>4
<1> HIDE DEF S
<1>3. 0..N \subseteq S
    BY <1>1, <1>2, UpTo
<1> QED BY <1>3 DEF S

------------------------------------------------------------------------------
(* SiteCrawl: the walk of a site without a sitemap                         *)

WalkItems == [url : Pages, depth : Nat]

WalkRecords ==
    [at : {"start", "list", "bfs", "done", "failed"}, todo : Seq(Pages), queue : Seq(WalkItems),
     queued : SUBSET Pages, seen : SUBSET Pages, depth : [Pages -> Int], followed : SUBSET Pages,
     articles : Nat, full : BOOLEAN]

\* Page u, known at distance n, is the base_url, or some page that was followed
\* at distance n - 1 links to it.
Led(w, u, n) ==
    /\ n \in 0..MaxDepth
    /\ n = 0 <=> u = Home
    /\ n > 0 => \E p \in w.followed : u \in ToSet(LinksOf[p]) /\ w.depth[p] = n - 1

\* u has been visited, or waits, at distance n or less.
Near(w, u, n) ==
    \/ u \in w.seen /\ w.depth[u] <= n
    \/ \E i \in DOMAIN w.queue : w.queue[i].url = u /\ w.queue[i].depth <= n

\* A page is visited or waits, once; whoever waits is led to.
WalkQueued(w) ==
    /\ w.queued = w.seen \cup {w.queue[i].url : i \in DOMAIN w.queue}
    /\ \A i \in DOMAIN w.queue : w.queue[i].url \notin w.seen
    /\ \A i, j \in DOMAIN w.queue : w.queue[i].url = w.queue[j].url => i = j
    /\ Home \in w.queued

\* The queue holds one distance and then the next, none nearer than a visited page.
WalkOrdered(w) ==
    /\ \A i, j \in DOMAIN w.queue : i < j => /\ w.queue[i].depth <= w.queue[j].depth
                                             /\ w.queue[j].depth <= w.queue[i].depth + 1
    /\ \A u \in w.seen, i \in DOMAIN w.queue : w.depth[u] <= w.queue[i].depth

WalkLed(w) ==
    /\ \A u \in w.seen : Led(w, u, w.depth[u])
    /\ \A i \in DOMAIN w.queue : Led(w, w.queue[i].url, w.queue[i].depth)
    /\ w.followed \subseteq w.seen

WalkBounded(w) == IsFiniteSet(w.seen) /\ Cardinality(w.seen) + Len(w.queue) <= MaxUrls

WalkCore(w) == WalkQueued(w) /\ WalkOrdered(w) /\ WalkLed(w) /\ WalkBounded(w)

\* The first n links of page p are known, none further away than from p.
LinksNear(w, p, n) == w.full \/ \A i \in 1..n : Near(w, LinksOf[p][i], w.depth[p] + 1)

WalkClosed(w) == \A p \in w.followed : LinksNear(w, p, Len(LinksOf[p]))

WalkInv ==
    /\ walk \in WalkRecords
    /\ walk.at = "start" => walk = NewWalk
    /\ walk.at \in {"start", "list"} => walk.queued = {} /\ walk.queue = <<>>
    /\ walk.at = "bfs" => walk.queued # {}
    /\ walk.at \in {"bfs", "done"} /\ walk.queued # {} => WalkCore(walk) /\ WalkClosed(walk)
    /\ walk.at = "done" => walk.queue = <<>>

LEMMA ConsiderTyped ==
    ASSUME NEW w \in WalkRecords, NEW item \in WalkItems
    PROVE  Consider(w, item) \in WalkRecords
<1> DEFINE new == item.url \notin w.seen \cup w.queued
           room == ~(Cardinality(w.seen) + Len(w.queue) + 1 > MaxUrls)
<1>1. CASE ~new
    BY <1>1 DEF Consider
<1>2. CASE new /\ ~room
    <2>1. Consider(w, item) = [w EXCEPT !.full = TRUE]
        BY <1>2 DEF Consider
    <2> QED BY <2>1 DEF WalkRecords
<1>3. CASE new /\ room
    <2>1. Consider(w, item) = [w EXCEPT !.queued = w.queued \cup {item.url}, !.queue = Append(w.queue, item)]
        BY <1>3 DEF Consider
    <2>2. w.queued \cup {item.url} \in SUBSET Pages /\ Append(w.queue, item) \in Seq(WalkItems)
        BY DEF WalkRecords, WalkItems
    <2> QED BY <2>1, <2>2 DEF WalkRecords
<1> QED BY <1>1, <1>2, <1>3

\* What considering a link does.
LEMMA ConsiderFact ==
    ASSUME NEW w \in WalkRecords, NEW item \in WalkItems
    PROVE  LET v == Consider(w, item)
           IN  /\ v.seen = w.seen /\ v.depth = w.depth /\ v.followed = w.followed /\ v.at = w.at
               /\ \/ item.url \in w.seen \cup w.queued /\ v = w
                  \/ v.full = TRUE /\ v.queue = w.queue /\ v.queued = w.queued
                  \/ /\ item.url \notin w.seen \cup w.queued
                     /\ Cardinality(w.seen) + Len(w.queue) + 1 <= MaxUrls \/ Cardinality(w.seen) \notin Int
                     /\ v.queue = Append(w.queue, item) /\ v.queued = w.queued \cup {item.url}
                     /\ v.full = w.full
<1> DEFINE new == item.url \notin w.seen \cup w.queued
           room == ~(Cardinality(w.seen) + Len(w.queue) + 1 > MaxUrls)
<1>1. CASE ~new
    BY <1>1 DEF Consider
<1>2. CASE new /\ ~room
    <2>1. Consider(w, item) = [w EXCEPT !.full = TRUE]
        BY <1>2 DEF Consider
    <2> QED BY <2>1 DEF WalkRecords
<1>3. CASE new /\ room
    <2>1. Consider(w, item) = [w EXCEPT !.queued = w.queued \cup {item.url}, !.queue = Append(w.queue, item)]
        BY <1>3 DEF Consider
    <2>2. Len(w.queue) \in Nat /\ MaxUrls \in Nat
        BY CrawlAssumptions DEF WalkRecords
    <2>3. Cardinality(w.seen) + Len(w.queue) + 1 <= MaxUrls \/ Cardinality(w.seen) \notin Int
        BY <1>3, <2>2
    <2> QED BY <1>3, <2>1, <2>3 DEF WalkRecords
<1> QED BY <1>1, <1>2, <1>3

\* The links of page p are being considered: nothing is further away than they are.
Following(w, p) ==
    /\ p \in w.followed /\ p \in w.seen
    /\ w.depth[p] \in 0..(MaxDepth - 1)
    /\ \A u \in w.seen : w.depth[u] <= w.depth[p]
    /\ \A i \in DOMAIN w.queue : w.queue[i].depth \in w.depth[p]..(w.depth[p] + 1)

\* What one link, u of page p, does to the walk.
LinkKept(w, v, p, u) ==
    /\ v \in WalkRecords /\ WalkCore(v) /\ Following(v, p)
    /\ v.seen = w.seen /\ v.depth = w.depth /\ v.followed = w.followed /\ v.at = w.at
    /\ w.full => v.full
    /\ \A q \in Pages, n \in Int : Near(w, q, n) => Near(v, q, n)
    /\ v.full \/ Near(v, u, w.depth[p] + 1)
    /\ w.queued \subseteq v.queued

\* One link keeps the walk's order, and is then known.
LEMMA ConsiderKeeps ==
    ASSUME NEW w \in WalkRecords, WalkCore(w), NEW p \in Pages, Following(w, p),
           NEW u \in ToSet(LinksOf[p]), u \in Pages
    PROVE  LinkKept(w, Consider(w, [url |-> u, depth |-> w.depth[p] + 1]), p, u)
<1> DEFINE d == w.depth[p] + 1
           item == [url |-> u, depth |-> d]
           v == Consider(w, item)
<1> SUFFICES LinkKept(w, v, p, u)
    OBVIOUS
<1>0. MaxDepth \in Nat
    BY CrawlAssumptions
<1>1. d \in 1..MaxDepth /\ d \in Nat
    BY <1>0 DEF Following
<1>2. item \in WalkItems
    BY <1>1 DEF WalkItems
<1>3. v \in WalkRecords
    BY <1>2, ConsiderTyped
<1> HIDE DEF d
<1>4. /\ v.seen = w.seen /\ v.depth = w.depth /\ v.followed = w.followed /\ v.at = w.at
      /\ \/ u \in w.seen \cup w.queued /\ v = w
         \/ v.full = TRUE /\ v.queue = w.queue /\ v.queued = w.queued
         \/ /\ u \notin w.seen \cup w.queued
            /\ Cardinality(w.seen) + Len(w.queue) + 1 <= MaxUrls \/ Cardinality(w.seen) \notin Int
            /\ v.queue = Append(w.queue, item) /\ v.queued = w.queued \cup {u}
            /\ v.full = w.full
    <2>1. item.url = u
        OBVIOUS
    <2> HIDE DEF item
    <2> QED BY <1>2, <2>1, ConsiderFact
<1> HIDE DEF v
<1>5. w.queue \in Seq(WalkItems) /\ w.seen \subseteq Pages /\ w.depth \in [Pages -> Int]
    BY DEF WalkRecords
<1>6. CASE u \in w.seen \cup w.queued /\ v = w
    <2>1. u \in w.seen \/ \E i \in DOMAIN w.queue : w.queue[i].url = u
        BY <1>6 DEF WalkCore, WalkQueued
    <2>2. Near(w, u, d)
        BY <1>5, <2>1 DEF Near, Following, d
    <2> QED BY <1>3, <1>4, <1>6, <2>2 DEF LinkKept, d
<1>7. CASE v.full = TRUE /\ v.queue = w.queue /\ v.queued = w.queued
    <2>1. WalkCore(v)
        BY <1>4, <1>7 DEF WalkCore, WalkQueued, WalkOrdered, WalkLed, WalkBounded, Led
    <2>2. Following(v, p)
        BY <1>4, <1>7 DEF Following
    <2>3. \A q \in Pages, n \in Int : Near(w, q, n) => Near(v, q, n)
        BY <1>4, <1>7 DEF Near
    <2> QED BY <1>3, <1>4, <1>7, <2>1, <2>2, <2>3 DEF LinkKept
<1>8. CASE /\ u \notin w.seen \cup w.queued
           /\ Cardinality(w.seen) + Len(w.queue) + 1 <= MaxUrls \/ Cardinality(w.seen) \notin Int
           /\ v.queue = Append(w.queue, item) /\ v.queued = w.queued \cup {u}
           /\ v.full = w.full
    <2>1. /\ DOMAIN v.queue = 1..(Len(w.queue) + 1) /\ DOMAIN w.queue = 1..Len(w.queue)
          /\ Len(v.queue) = Len(w.queue) + 1 /\ Len(w.queue) \in Nat
          /\ \A i \in DOMAIN w.queue : v.queue[i] = w.queue[i]
          /\ v.queue[Len(w.queue) + 1] = item
        BY <1>2, <1>5, <1>8
    <2> DEFINE k == Len(w.queue)
    <2> HIDE DEF k
    <2>2. item.url = u /\ item.depth = d
        OBVIOUS
    <2> HIDE DEF item
    <2>3. /\ DOMAIN v.queue = 1..(k + 1) /\ DOMAIN w.queue = 1..k /\ k \in Nat
          /\ \A i \in 1..k : v.queue[i] = w.queue[i]
          /\ v.queue[k + 1].url = u /\ v.queue[k + 1].depth = d
        BY <2>1, <2>2 DEF k
    <2>4. \A i \in 1..k : w.queue[i] \in WalkItems /\ w.queue[i].depth \in Nat
        <3>1. \A i \in 1..k : w.queue[i] \in WalkItems
            BY <1>5, <2>3
        <3> QED BY <3>1 DEF WalkItems
    <2>5. WalkQueued(v)
        <3>1. v.queued = v.seen \cup {v.queue[i].url : i \in DOMAIN v.queue}
            BY <1>4, <1>8, <2>3 DEF WalkCore, WalkQueued
        <3>2. \A i \in DOMAIN w.queue : w.queue[i].url \in w.queued
            BY DEF WalkCore, WalkQueued
        <3>3. \A i \in DOMAIN v.queue : v.queue[i].url \notin v.seen
            BY <1>4, <1>8, <2>3 DEF WalkCore, WalkQueued
        <3>4. \A i, j \in DOMAIN v.queue : v.queue[i].url = v.queue[j].url => i = j
            BY <1>8, <2>3, <3>2 DEF WalkCore, WalkQueued
        <3> QED BY <1>8, <3>1, <3>3, <3>4 DEF WalkCore, WalkQueued
    <2>6. WalkOrdered(v)
        <3>1. \A i \in 1..k : w.queue[i].depth <= d /\ d <= w.queue[i].depth + 1
            <4>1. \A i \in 1..k : w.queue[i].depth \in w.depth[p]..(w.depth[p] + 1)
                BY <2>3 DEF Following
            <4>2. w.depth[p] \in Int /\ d = w.depth[p] + 1
                BY <1>5 DEF d
            <4> HIDE DEF d
            <4> QED BY ONLY <2>4, <4>1, <4>2
        <3>2. \A q \in w.seen : w.depth[q] <= d
            BY <1>5 DEF Following, d
        <3>3. \A i, j \in 1..(k + 1) : i < j => /\ v.queue[i].depth <= v.queue[j].depth
                                               /\ v.queue[j].depth <= v.queue[i].depth + 1
            <4>1. ASSUME NEW i \in 1..k, NEW j \in 1..k, i < j
                  PROVE  w.queue[i].depth <= w.queue[j].depth /\ w.queue[j].depth <= w.queue[i].depth + 1
                BY <2>3, <4>1 DEF WalkCore, WalkOrdered
            <4>2. \A i, j \in 1..(k + 1) : i < j => i \in 1..k /\ (j \in 1..k \/ j = k + 1)
                BY <2>3
            <4> QED BY <2>3, <3>1, <4>1, <4>2
        <3>4. \A q \in w.seen, i \in 1..(k + 1) : w.depth[q] <= v.queue[i].depth
            <4>1. \A q \in w.seen, i \in 1..k : w.depth[q] <= w.queue[i].depth
                BY <2>3 DEF WalkCore, WalkOrdered
            <4>2. \A i \in 1..(k + 1) : i \in 1..k \/ i = k + 1
                BY <2>3
            <4> QED BY <2>3, <3>2, <4>1, <4>2
        <3> QED BY <1>4, <2>3, <3>3, <3>4 DEF WalkOrdered
    <2>7. Led(v, u, d)
        <3>1. u # Home
            BY <1>8 DEF WalkCore, WalkQueued
        <3>2. w.depth[p] = d - 1 /\ p \in w.followed
            BY <1>5 DEF Following, d
        <3> QED BY <1>1, <1>4, <3>1, <3>2 DEF Led
    <2>8. WalkLed(v)
        <3>1. \A q, n : Led(w, q, n) => Led(v, q, n)
            BY <1>4 DEF Led
        <3>2. \A i \in 1..(k + 1) : Led(v, v.queue[i].url, v.queue[i].depth)
            BY <2>3, <2>7, <3>1 DEF WalkCore, WalkLed
        <3> QED BY <1>4, <2>3, <3>1, <3>2 DEF WalkCore, WalkLed
    <2>9. WalkBounded(v)
        <3>1. Cardinality(w.seen) \in Nat
            BY FS_CardinalityType DEF WalkCore, WalkBounded
        <3>2. Cardinality(w.seen) + k + 1 <= MaxUrls
            BY <1>8, <3>1 DEF k
        <3> QED BY <1>4, <2>1, <3>1, <3>2 DEF WalkCore, WalkBounded, k
    <2>10. Following(v, p)
        <3>1. w.depth[p] \in Int /\ d = w.depth[p] + 1
            BY <1>5 DEF d
        <3>2. \A i \in 1..(k + 1) : v.queue[i].depth \in w.depth[p]..(w.depth[p] + 1)
            <4>1. \A i \in 1..k : w.queue[i].depth \in w.depth[p]..(w.depth[p] + 1)
                BY <2>3 DEF Following
            <4>2. \A i \in 1..(k + 1) : i \in 1..k \/ i = k + 1
                BY <2>3
            <4>3. d \in w.depth[p]..(w.depth[p] + 1)
                BY <3>1
            <4> QED BY <2>3, <4>1, <4>2, <4>3
        <3> QED BY <1>4, <2>3, <3>2 DEF Following
    <2>11. \A q \in Pages, n \in Int : Near(w, q, n) => Near(v, q, n)
        BY <1>4, <2>3 DEF Near
    <2>12. Near(v, u, d)
        BY <1>1, <2>3 DEF Near
    <2> QED BY <1>3, <1>4, <1>8, <2>5, <2>6, <2>8, <2>9, <2>10, <2>11, <2>12 DEF LinkKept, WalkCore, d
<1> QED BY <1>4, <1>6, <1>7, <1>8

\* The links are considered one after the other.
LEMMA ConsideredFact ==
    ASSUME NEW w \in WalkRecords, NEW links \in Seq(WalkItems)
    PROVE  /\ Considered(w, links)[0] = w
           /\ \A n \in 1..Len(links) : Considered(w, links)[n] = Consider(Considered(w, links)[n - 1], links[n])
<1> DEFINE N == Len(links)
           step == [x \in (1..N) \X WalkRecords |-> Consider(x[2], links[x[1]])]
           g == Considered(w, links)
<1>1. N \in Nat /\ \A n \in 1..N : links[n] \in WalkItems
    OBVIOUS
<1>2. step \in [(1..N) \X WalkRecords -> WalkRecords]
    BY <1>1, ConsiderTyped
<1>3. \A n \in 1..N, v \in WalkRecords : step[<<n, v>>] = Consider(v, links[n])
    OBVIOUS
<1>4. g = CHOOSE f : f = [n \in 0..N |-> IF n = 0 THEN w ELSE Consider(f[n - 1], links[n])]
    BY DEF Considered
<1> HIDE DEF N, step, g
<1>5. PICK f \in [0..N -> WalkRecords] : Iteration(f, N, w, step)
    BY <1>1, <1>2, Iterates
<1>6. f = [n \in 0..N |-> IF n = 0 THEN w ELSE Consider(f[n - 1], links[n])]
    <2>1. ASSUME NEW n \in 0..N PROVE f[n] = IF n = 0 THEN w ELSE Consider(f[n - 1], links[n])
        <3>1. CASE n = 0
            BY <1>5, <3>1 DEF Iteration
        <3>2. CASE n # 0
            <4>1. n \in 1..N /\ n - 1 \in 0..N
                BY <1>1, <3>2
            <4>2. f[n] = step[<<n, f[n - 1]>>] /\ f[n - 1] \in WalkRecords
                BY <1>5, <4>1 DEF Iteration
            <4> QED BY <1>3, <3>2, <4>1, <4>2
        <3> QED BY <3>1, <3>2
    <2> QED BY <2>1
<1>7. g = [n \in 0..N |-> IF n = 0 THEN w ELSE Consider(g[n - 1], links[n])]
    BY <1>4, <1>6
<1>8. g[0] = w /\ \A n \in 1..N : g[n] = Consider(g[n - 1], links[n])
    BY <1>1, <1>7
<1> QED BY <1>8 DEF g, N

\* What the first n links of page p have done to the walk.
LinksKept(w, v, p, n) ==
    /\ v \in WalkRecords /\ WalkCore(v) /\ Following(v, p)
    /\ v.seen = w.seen /\ v.depth = w.depth /\ v.followed = w.followed /\ v.at = w.at
    /\ w.full => v.full
    /\ \A q \in Pages, m \in Int : Near(w, q, m) => Near(v, q, m)
    /\ LinksNear(v, p, n)
    /\ w.queued \subseteq v.queued

LEMMA AllConsidered ==
    ASSUME NEW w \in WalkRecords, WalkCore(w), NEW p \in Pages, Following(w, p)
    PROVE  LET links == LinkItems(p, w.depth[p] + 1)
           IN  LinksKept(w, Considered(w, links)[Len(links)], p, Len(LinksOf[p]))
<1> DEFINE d == w.depth[p] + 1
           links == LinkItems(p, d)
           N == Len(links)
           g == Considered(w, links)
           S == {n \in 0..N : LinksKept(w, g[n], p, n)}
<1>1. /\ w.depth \in [Pages -> Int] /\ LinksOf[p] \in Seq(Pages) /\ d \in Nat
    BY CrawlAssumptions DEF WalkRecords, Following
<1>2. /\ Len(links) = Len(LinksOf[p]) /\ DOMAIN links = 1..Len(LinksOf[p])
      /\ \A i \in 1..Len(LinksOf[p]) : /\ LinksOf[p][i] \in Pages /\ LinksOf[p][i] \in ToSet(LinksOf[p])
                                       /\ links[i] = [url |-> LinksOf[p][i], depth |-> d]
    BY <1>1 DEF LinkItems, ToSet
<1>3. links \in Seq(WalkItems)
    <2>1. \A i \in 1..Len(LinksOf[p]) : links[i] \in WalkItems
        <3>1. \A q \in Pages : [url |-> q, depth |-> d] \in WalkItems
            BY <1>1 DEF WalkItems
        <3> HIDE DEF links, d
        <3> QED BY <1>2, <3>1
    <2>2. links = [i \in 1..Len(LinksOf[p]) |-> links[i]] /\ Len(LinksOf[p]) \in Nat
        BY <1>1, <1>2 DEF LinkItems
    <2> HIDE DEF links
    <2> QED BY <2>1, <2>2
<1> HIDE DEF links
<1>4. g[0] = w /\ \A n \in 1..N : g[n] = Consider(g[n - 1], links[n])
    BY <1>3, ConsideredFact
<1>5. N \in Nat /\ N = Len(LinksOf[p])
    BY <1>1, <1>2
<1> HIDE DEF g, N, d
<1>6. 0 \in S
    BY <1>4, <1>5 DEF LinksKept, LinksNear
<1>7. ASSUME NEW n \in 0..(N - 1), n \in S PROVE n + 1 \in S
    <2> DEFINE v == g[n]
               x == g[n + 1]
               u == LinksOf[p][n + 1]
    <2>1. LinksKept(w, v, p, n)
        BY <1>7
    <2>2. n + 1 \in 1..N /\ (n + 1) - 1 = n
        BY <1>5
    <2>3. u \in Pages /\ u \in ToSet(LinksOf[p]) /\ links[n + 1] = [url |-> u, depth |-> d]
        BY <1>2, <1>5, <2>2
    <2>4. x = Consider(v, links[n + 1])
        BY <1>4, <2>2
    <2> HIDE DEF v, x, u
    <2>5. v \in WalkRecords /\ WalkCore(v) /\ Following(v, p) /\ v.depth[p] + 1 = d
        BY <2>1 DEF LinksKept, d
    <2>6. x = Consider(v, [url |-> u, depth |-> v.depth[p] + 1])
        BY <2>3, <2>4, <2>5
    <2>7. LinkKept(v, x, p, u)
        BY <2>3, <2>5, <2>6, ConsiderKeeps
    <2>8. LinksNear(x, p, n + 1)
        <3>1. \A i \in 1..n : LinksOf[p][i] \in Pages
            <4>1. \A i \in 1..n : i \in 1..N
                BY <1>5
            <4> QED BY <1>2, <1>5, <4>1
        <3>2. v.full \in BOOLEAN /\ x.full \in BOOLEAN
            BY <2>5, <2>7 DEF LinkKept, WalkRecords
        <3>3. v.depth[p] + 1 \in Int /\ x.depth = v.depth
            BY <1>1, <2>5, <2>7 DEF LinkKept
        <3>4. ASSUME ~x.full PROVE \A i \in 1..(n + 1) : Near(x, LinksOf[p][i], x.depth[p] + 1)
            <4>1. ~v.full
                BY <2>7, <3>4 DEF LinkKept
            <4>2. \A i \in 1..n : Near(v, LinksOf[p][i], v.depth[p] + 1)
                BY <2>1, <4>1 DEF LinksKept, LinksNear
            <4>3. \A i \in 1..n : Near(x, LinksOf[p][i], x.depth[p] + 1)
                BY <2>7, <3>1, <3>3, <4>2 DEF LinkKept
            <4>4. Near(x, LinksOf[p][n + 1], x.depth[p] + 1)
                BY <2>7, <3>3, <3>4 DEF LinkKept, u
            <4>5. \A i \in 1..(n + 1) : i \in 1..n \/ i = n + 1
                OBVIOUS
            <4> QED BY <4>3, <4>4, <4>5
        <3> QED BY <3>2, <3>4 DEF LinksNear
    <2>9. LinksKept(w, x, p, n + 1)
        BY <2>1, <2>7, <2>8 DEF LinksKept, LinkKept
    <2> QED BY <2>2, <2>9 DEF x
<1> HIDE DEF S
<1>8. 0..N \subseteq S
    BY <1>5, <1>6, <1>7, UpTo
<1>9. LinksKept(w, g[N], p, N)
    BY <1>5, <1>8 DEF S
<1> QED BY <1>5, <1>9 DEF g, N, links, d

\* The page at the head of the queue has been visited.
Arrived(w, v, u, d) ==
    /\ v \in WalkRecords /\ WalkCore(v) /\ WalkClosed(v)
    /\ u \in Pages /\ u \in v.seen /\ u \notin w.seen /\ u \notin v.followed
    /\ d \in 0..MaxDepth /\ v.depth[u] = d
    /\ \A q \in v.seen : v.depth[q] <= d
    /\ \A i \in DOMAIN v.queue : v.queue[i].depth \in d..(d + 1)
    /\ v.at = w.at /\ v.queued = w.queued /\ v.articles = w.articles

LEMMA VisitKeeps ==
    ASSUME NEW w \in WalkRecords, WalkCore(w), WalkClosed(w), w.queue # <<>>
    PROVE  Arrived(w, Visited(w, Head(w.queue)), Head(w.queue).url, Head(w.queue).depth)
<1> DEFINE item == Head(w.queue)
           u == item.url
           d == item.depth
           v == Visited(w, item)
           k == Len(w.queue)
<1>1. /\ w.queue \in Seq(WalkItems) /\ w.seen \subseteq Pages /\ w.depth \in [Pages -> Int]
      /\ w.queued \subseteq Pages /\ w.followed \subseteq Pages
    BY DEF WalkRecords
<1>2. /\ k \in Nat \ {0} /\ DOMAIN w.queue = 1..k /\ item = w.queue[1] /\ item \in WalkItems
      /\ Tail(w.queue) \in Seq(WalkItems)
      /\ Len(Tail(w.queue)) = k - 1 /\ DOMAIN Tail(w.queue) = 1..(k - 1)
      /\ \A i \in 1..(k - 1) : Tail(w.queue)[i] = w.queue[i + 1]
    BY <1>1
<1>3. u \in Pages /\ d \in Nat
    BY <1>2 DEF WalkItems
<1>4. v = [w EXCEPT !.queue = Tail(w.queue), !.seen = w.seen \cup {u}, !.depth = [w.depth EXCEPT ![u] = d]]
    BY DEF Visited, Take
<1> HIDE DEF v
<1>5. /\ v \in WalkRecords
      /\ v.queue = Tail(w.queue) /\ v.seen = w.seen \cup {u} /\ v.depth = [w.depth EXCEPT ![u] = d]
      /\ v.at = w.at /\ v.queued = w.queued /\ v.articles = w.articles
      /\ v.followed = w.followed /\ v.full = w.full
    <2> DEFINE rest == Tail(w.queue)
               far == [w.depth EXCEPT ![u] = d]
               near == w.seen \cup {u}
    <2>1. rest \in Seq(WalkItems) /\ near \in SUBSET Pages /\ far \in [Pages -> Int]
        BY <1>1, <1>2, <1>3
    <2>2. v = [w EXCEPT !.queue = rest, !.seen = near, !.depth = far]
        BY <1>4
    <2> HIDE DEF rest, near, far
    <2>3. v \in WalkRecords
        BY <2>1, <2>2 DEF WalkRecords
    <2>4. /\ v.queue = rest /\ v.seen = near /\ v.depth = far
          /\ v.at = w.at /\ v.queued = w.queued /\ v.articles = w.articles
          /\ v.followed = w.followed /\ v.full = w.full
        BY <2>2 DEF WalkRecords
    <2> QED BY <2>3, <2>4 DEF rest, near, far
<1> HIDE DEF item
<1>6. w.queue[1].url = u /\ w.queue[1].depth = d
    BY <1>2
<1> HIDE DEF u, d, k
<1>7. /\ DOMAIN v.queue = 1..(k - 1) /\ Len(v.queue) = k - 1
      /\ \A i \in 1..(k - 1) : v.queue[i] = w.queue[i + 1] /\ i + 1 \in 1..k
      /\ 1 \in 1..k
    BY <1>2, <1>5
<1>8. u \notin w.seen /\ \A i \in 2..k : w.queue[i].url # u
    <2>1. \A i \in 2..k : i \in 1..k /\ i # 1
        BY <1>2
    <2> QED BY <1>2, <1>6, <1>7, <2>1 DEF WalkCore, WalkQueued
<1>9. /\ v.depth[u] = d /\ \A q \in Pages : q # u => v.depth[q] = w.depth[q]
      /\ \A q \in w.seen : v.depth[q] = w.depth[q]
    BY <1>1, <1>3, <1>5, <1>8
<1>10. \A i \in 1..k : w.queue[i].depth \in d..(d + 1) /\ w.queue[i] \in WalkItems
    <2>1. \A i \in 1..k : w.queue[i] \in WalkItems
        BY <1>1, <1>2
    <2>2. \A i \in 1..k : w.queue[i].depth \in Nat
        BY <2>1 DEF WalkItems
    <2>3. \A i \in 1..k : 1 < i => d <= w.queue[i].depth /\ w.queue[i].depth <= d + 1
        BY <1>2, <1>6, <1>7 DEF WalkCore, WalkOrdered
    <2> QED BY <1>2, <1>3, <1>6, <2>1, <2>2, <2>3
<1>11. u \notin w.followed
    BY <1>8 DEF WalkCore, WalkLed
<1>12. WalkQueued(v)
    <2>1. {v.queue[i].url : i \in 1..(k - 1)} = {w.queue[i].url : i \in 2..k}
        <3>1. \A i \in 2..k : i - 1 \in 1..(k - 1) /\ (i - 1) + 1 = i
            BY <1>2
        <3>2. \A i \in 1..(k - 1) : i + 1 \in 2..k
            BY <1>2
        <3>3. \A i \in 1..(k - 1) : v.queue[i].url \in {w.queue[j].url : j \in 2..k}
            BY <1>7, <3>2
        <3>4. ASSUME NEW i \in 2..k PROVE \E j \in 1..(k - 1) : v.queue[j].url = w.queue[i].url
            <4>1. v.queue[i - 1] = w.queue[i] /\ i - 1 \in 1..(k - 1)
                BY <1>7, <3>1
            <4> QED BY <4>1
        <3> QED BY <3>3, <3>4
    <2>2. {w.queue[i].url : i \in 1..k} = {u} \cup {w.queue[i].url : i \in 2..k}
        <3>1. \A i \in 1..k : i = 1 \/ i \in 2..k
            BY <1>2
        <3>2. \A i \in 2..k : i \in 1..k
            BY <1>2
        <3> QED BY <1>6, <1>7, <3>1, <3>2
    <2>3. v.queued = v.seen \cup {v.queue[i].url : i \in DOMAIN v.queue}
        BY <1>2, <1>5, <1>7, <2>1, <2>2 DEF WalkCore, WalkQueued
    <2>4. \A i \in 1..(k - 1) : i + 1 \in 2..k
        BY <1>2
    <2>5. \A i \in DOMAIN v.queue : v.queue[i].url \notin v.seen
        BY <1>2, <1>5, <1>7, <1>8, <2>4 DEF WalkCore, WalkQueued
    <2>6. \A i, j \in DOMAIN v.queue : v.queue[i].url = v.queue[j].url => i = j
        <3> SUFFICES ASSUME NEW i \in 1..(k - 1), NEW j \in 1..(k - 1), v.queue[i].url = v.queue[j].url
                     PROVE  i = j
            BY <1>7
        <3>1. i + 1 \in 1..k /\ j + 1 \in 1..k /\ w.queue[i + 1].url = w.queue[j + 1].url
            BY <1>7
        <3>2. i + 1 = j + 1
            BY <1>2, <3>1 DEF WalkCore, WalkQueued
        <3> QED BY <3>2
    <2> QED BY <1>5, <2>3, <2>5, <2>6 DEF WalkCore, WalkQueued
<1>13. \A q \in v.seen : v.depth[q] <= d
    BY <1>2, <1>3, <1>5, <1>6, <1>7, <1>9 DEF WalkCore, WalkOrdered
<1>14. \A i \in DOMAIN v.queue : v.queue[i].depth \in d..(d + 1)
    BY <1>7, <1>10
<1>15. WalkOrdered(v)
    <2>1. \A i, j \in DOMAIN v.queue : i < j => /\ v.queue[i].depth <= v.queue[j].depth
                                                /\ v.queue[j].depth <= v.queue[i].depth + 1
        <3> SUFFICES ASSUME NEW i \in 1..(k - 1), NEW j \in 1..(k - 1), i < j
                     PROVE  /\ w.queue[i + 1].depth <= w.queue[j + 1].depth
                            /\ w.queue[j + 1].depth <= w.queue[i + 1].depth + 1
            BY <1>7
        <3>1. i + 1 \in 1..k /\ j + 1 \in 1..k /\ i + 1 < j + 1
            BY <1>7
        <3> QED BY <1>2, <3>1 DEF WalkCore, WalkOrdered
    <2>2. v.depth \in [Pages -> Int] /\ v.seen \subseteq Pages
        BY <1>5 DEF WalkRecords
    <2>3. \A q \in v.seen, i \in DOMAIN v.queue : v.depth[q] <= v.queue[i].depth
        BY <1>3, <1>13, <1>14, <2>2
    <2> QED BY <2>1, <2>3 DEF WalkOrdered
<1>16. \A q, n : Led(w, q, n) => Led(v, q, n)
    BY <1>5, <1>9 DEF Led, WalkCore, WalkLed
<1>17. Led(v, u, d)
    BY <1>2, <1>6, <1>7, <1>16 DEF WalkCore, WalkLed
<1>18. WalkLed(v)
    BY <1>2, <1>5, <1>7, <1>9, <1>16, <1>17 DEF WalkCore, WalkLed
<1>19. WalkBounded(v)
    <2>1. IsFiniteSet(w.seen) /\ Cardinality(w.seen) + k <= MaxUrls
        BY DEF WalkCore, WalkBounded, k
    <2>2. IsFiniteSet(v.seen) /\ Cardinality(v.seen) = Cardinality(w.seen) + 1
        BY <1>5, <1>8, <2>1, FS_AddElement
    <2>3. Cardinality(w.seen) \in Nat /\ MaxUrls \in Nat
        BY <2>1, FS_CardinalityType, CrawlAssumptions
    <2> QED BY <1>2, <1>7, <2>1, <2>2, <2>3 DEF WalkBounded
<1>20. ASSUME NEW q \in Pages, NEW n \in Int, Near(w, q, n) PROVE Near(v, q, n)
    <2>1. CASE q \in w.seen /\ w.depth[q] <= n
        BY <1>5, <1>9, <2>1 DEF Near
    <2>2. CASE \E i \in DOMAIN w.queue : w.queue[i].url = q /\ w.queue[i].depth <= n
        <3>1. PICK i \in 1..k : w.queue[i].url = q /\ w.queue[i].depth <= n
            BY <1>2, <2>2
        <3>2. CASE i = 1
            BY <1>5, <1>6, <1>9, <3>1, <3>2 DEF Near
        <3>3. CASE i # 1
            <4>1. i - 1 \in 1..(k - 1) /\ (i - 1) + 1 = i
                BY <1>2, <3>3
            <4>2. v.queue[i - 1] = w.queue[i]
                BY <1>7, <4>1
            <4> QED BY <1>7, <3>1, <4>1, <4>2 DEF Near
        <3> QED BY <3>2, <3>3
    <2> QED BY <1>20, <2>1, <2>2 DEF Near
<1>21. WalkClosed(v)
    <2> SUFFICES ASSUME NEW p \in v.followed PROVE LinksNear(v, p, Len(LinksOf[p]))
        BY DEF WalkClosed
    <2>1. p \in Pages /\ p \in w.seen /\ p \in w.followed /\ LinksOf[p] \in Seq(Pages)
        BY <1>1, <1>5, CrawlAssumptions DEF WalkCore, WalkLed
    <2>2. v.depth[p] = w.depth[p] /\ w.depth[p] + 1 \in Int
        BY <1>1, <1>9, <2>1
    <2>3. \A i \in 1..Len(LinksOf[p]) : LinksOf[p][i] \in Pages
        BY <2>1
    <2>4. LinksNear(w, p, Len(LinksOf[p]))
        BY <2>1 DEF WalkClosed
    <2> QED BY <1>5, <1>20, <2>2, <2>3, <2>4 DEF LinksNear
<1>22. d \in 0..MaxDepth
    BY <1>17 DEF Led
<1>23. Arrived(w, v, u, d)
    BY <1>3, <1>5, <1>8, <1>9, <1>11, <1>12, <1>13, <1>14, <1>15, <1>18, <1>19, <1>21, <1>22
       DEF Arrived, WalkCore
<1> QED BY <1>23 DEF v, u, d, item

\* Only the queue, the pages and their distances count.
LEMMA SameWalk ==
    ASSUME NEW w, NEW v, WalkCore(w), WalkClosed(w),
           v.queue = w.queue, v.queued = w.queued, v.seen = w.seen, v.depth = w.depth,
           v.followed = w.followed, v.full = w.full
    PROVE  WalkCore(v) /\ WalkClosed(v)
<1>1. WalkCore(v)
    BY DEF WalkCore, WalkQueued, WalkOrdered, WalkLed, WalkBounded, Led
<1>2. \A q, n : Near(w, q, n) <=> Near(v, q, n)
    BY DEF Near
<1>3. WalkClosed(v)
    BY <1>2 DEF WalkClosed, LinksNear
<1> QED BY <1>1, <1>3

\* A page whose links are considered.
LEMMA FollowKeeps ==
    ASSUME NEW w, NEW v, NEW u, NEW d, Arrived(w, v, u, d), d < MaxDepth, NEW x \in WalkRecords,
           x.queue = v.queue, x.queued = v.queued, x.seen = v.seen, x.depth = v.depth,
           x.followed = v.followed \cup {u}, x.full = v.full, x.at = v.at
    PROVE  LET links == LinkItems(u, d + 1)
               y == Considered(x, links)[Len(links)]
           IN  y \in WalkRecords /\ WalkCore(y) /\ WalkClosed(y) /\ y.at = v.at /\ v.queued \subseteq y.queued
<1> DEFINE links == LinkItems(u, d + 1)
           y == Considered(x, links)[Len(links)]
<1>0. MaxDepth \in Nat
    BY CrawlAssumptions
<1>1. \A q, n : Led(v, q, n) => Led(x, q, n)
    BY DEF Led
<1>2. WalkCore(x)
    BY <1>1 DEF Arrived, WalkCore, WalkQueued, WalkOrdered, WalkLed, WalkBounded
<1>3. Following(x, u)
    BY <1>0 DEF Arrived, Following
<1>4. u \in Pages /\ x.depth[u] = d
    BY DEF Arrived
<1>5. LinksKept(x, y, u, Len(LinksOf[u]))
    BY <1>2, <1>3, <1>4, AllConsidered
<1> HIDE DEF y
<1>6. WalkClosed(y)
    <2> SUFFICES ASSUME NEW p \in y.followed PROVE LinksNear(y, p, Len(LinksOf[p]))
        BY DEF WalkClosed
    <2>1. p \in v.followed \/ p = u
        BY <1>5 DEF LinksKept
    <2>2. CASE p = u
        BY <1>5, <2>2 DEF LinksKept
    <2>3. CASE p \in v.followed
        <3>1. p \in Pages /\ v.depth \in [Pages -> Int]
            BY <2>3 DEF Arrived, WalkRecords
        <3>2. LinksOf[p] \in Seq(Pages) /\ \A i \in 1..Len(LinksOf[p]) : LinksOf[p][i] \in Pages
            BY <3>1, CrawlAssumptions
        <3>3. v.depth[p] + 1 \in Int /\ y.depth = v.depth
            BY <1>5, <3>1 DEF LinksKept
        <3>4. LinksNear(v, p, Len(LinksOf[p]))
            BY <2>3 DEF Arrived, WalkClosed
        <3>5. \A q, n : Near(v, q, n) => Near(x, q, n)
            BY DEF Near
        <3>6. CASE v.full
            BY <1>5, <3>6 DEF LinksKept, LinksNear
        <3>7. CASE ~v.full
            <4>1. \A i \in 1..Len(LinksOf[p]) : Near(v, LinksOf[p][i], v.depth[p] + 1)
                BY <3>4, <3>7 DEF LinksNear
            <4>2. \A i \in 1..Len(LinksOf[p]) : Near(y, LinksOf[p][i], y.depth[p] + 1)
                BY <1>5, <3>2, <3>3, <3>5, <4>1 DEF LinksKept
            <4> QED BY <4>2 DEF LinksNear
        <3> QED BY <3>6, <3>7
    <2> QED BY <2>1, <2>2, <2>3
<1> QED BY <1>5, <1>6 DEF LinksKept, y

LEMMA WalkInitially == CrawlInit => WalkInv
<1> SUFFICES ASSUME CrawlInit PROVE WalkInv
    OBVIOUS
<1>1. walk = NewWalk
    BY DEF CrawlInit
<1>2. NewWalk \in WalkRecords
    BY DEF NewWalk, WalkRecords
<1>3. NewWalk.at = "start" /\ NewWalk.queued = {} /\ NewWalk.queue = <<>>
    BY DEF NewWalk
<1> QED BY <1>1, <1>2, <1>3 DEF WalkInv

LEMMA SitemapWalks ==
    ASSUME WalkInv, NEW answer, NEW urls \in {<<>>, <<Home>>, <<Home, Home>>}, Sitemap(answer, urls)
    PROVE  WalkInv'
<1>1. walk = NewWalk /\ walk \in WalkRecords /\ Home \in Pages /\ urls \in Seq(Pages)
    <2>1. Home \in Pages
        BY CrawlAssumptions
    <2>2. <<>> \in Seq(Pages) /\ <<Home>> \in Seq(Pages) /\ <<Home, Home>> \in Seq(Pages)
        BY <2>1
    <2>3. walk = NewWalk /\ walk \in WalkRecords
        BY DEF WalkInv, Sitemap
    <2> QED BY <2>1, <2>2, <2>3
<1>2. CASE walk' = [walk EXCEPT !.at = "failed"]
    BY <1>1, <1>2 DEF WalkInv, WalkRecords
<1>3. CASE walk' = [walk EXCEPT !.at = "list", !.todo = urls]
    BY <1>1, <1>3 DEF WalkInv, WalkRecords, NewWalk
<1>4. CASE walk' = [walk EXCEPT !.at = "bfs", !.queue = <<[url |-> Home, depth |-> 0]>>, !.queued = {Home}]
    <2> DEFINE item == [url |-> Home, depth |-> 0]
    <2>1. item \in WalkItems /\ item.url = Home /\ item.depth = 0
        BY <1>1 DEF WalkItems
    <2> HIDE DEF item
    <2>2. /\ walk' \in WalkRecords /\ walk'.at = "bfs" /\ walk'.queued = {Home}
          /\ walk'.queue = <<item>> /\ walk'.seen = {} /\ walk'.followed = {}
        <3>1. <<item>> \in Seq(WalkItems) /\ {Home} \in SUBSET Pages
            BY <1>1, <2>1
        <3>2. walk' = [walk EXCEPT !.at = "bfs", !.queue = <<item>>, !.queued = {Home}]
            BY <1>4 DEF item
        <3>3. walk' \in WalkRecords
            BY <1>1, <3>1, <3>2 DEF WalkRecords
        <3> QED BY <1>1, <3>2, <3>3 DEF NewWalk
    <2>3. DOMAIN <<item>> = {1} /\ <<item>>[1] = item /\ Len(<<item>>) = 1
        OBVIOUS
    <2>4. MaxUrls \in Nat \ {0} /\ MaxDepth \in Nat
        BY CrawlAssumptions
    <2>5. WalkQueued(walk')
        BY <2>1, <2>2, <2>3 DEF WalkQueued
    <2>6. WalkOrdered(walk') /\ WalkClosed(walk')
        BY <2>2, <2>3 DEF WalkOrdered, WalkClosed
    <2>7. WalkLed(walk')
        BY <2>1, <2>2, <2>3, <2>4 DEF WalkLed, Led
    <2>8. WalkBounded(walk')
        BY <2>2, <2>3, <2>4, FS_EmptySet DEF WalkBounded
    <2> QED BY <2>2, <2>5, <2>6, <2>7, <2>8 DEF WalkInv, WalkCore
<1>5. CASE walk' = [walk EXCEPT !.at = "done"]
    BY <1>1, <1>5 DEF WalkInv, WalkRecords, NewWalk
<1> QED BY <1>2, <1>3, <1>4, <1>5 DEF Sitemap

LEMMA ListWalks ==
    ASSUME WalkInv, NEW answer, ListStep(answer)
    PROVE  WalkInv'
<1>1. walk \in WalkRecords /\ walk.at = "list" /\ walk.queued = {} /\ walk.queue = <<>>
    BY DEF WalkInv, ListStep
<1>2. CASE walk' = [walk EXCEPT !.at = "done"]
    BY <1>1, <1>2 DEF WalkInv, WalkRecords
<1>3. CASE walk' = [walk EXCEPT !.at = "failed"]
    BY <1>1, <1>3 DEF WalkInv, WalkRecords
<1>4. CASE walk.todo # <<>> /\ walk' = [walk EXCEPT !.todo = Tail(@),
                                              !.articles = @ + (IF answer = "article" THEN 1 ELSE 0)]
    <2>1. Tail(walk.todo) \in Seq(Pages) /\ walk.articles + (IF answer = "article" THEN 1 ELSE 0) \in Nat
        BY <1>1, <1>4 DEF WalkRecords
    <2> QED BY <1>1, <1>4, <2>1 DEF WalkInv, WalkRecords
<1> QED BY <1>2, <1>3, <1>4 DEF ListStep

LEMMA BfsWalks ==
    ASSUME WalkInv, NEW answer, BfsStep(answer)
    PROVE  WalkInv'
<1> DEFINE item == Head(walk.queue)
           here == Visited(walk, item)
           more == here.articles + (IF answer = "article" THEN 1 ELSE 0)
           counted == [here EXCEPT !.articles = more]
           links == LinkItems(item.url, item.depth + 1)
           next == [counted EXCEPT !.followed = counted.followed \cup {item.url}]
<1>1. /\ walk \in WalkRecords /\ walk.at = "bfs" /\ walk.queued # {} /\ walk.queue # <<>>
      /\ WalkCore(walk) /\ WalkClosed(walk)
    BY DEF WalkInv, BfsStep
<1>2. Arrived(walk, here, item.url, item.depth)
    BY <1>1, VisitKeeps
<1>3. \/ item.url \in walk.seen
      \/ walk' = here
      \/ walk' = [walk EXCEPT !.at = "failed"]
      \/ walk' = counted
      \/ item.depth < MaxDepth /\ walk' = Considered(next, links)[Len(links)]
    BY DEF BfsStep, Take
<1> HIDE DEF here, item
<1>4. item.url \notin walk.seen /\ here \in WalkRecords
    BY <1>2 DEF Arrived
<1>5. more \in Nat
    BY <1>4 DEF WalkRecords
<1> HIDE DEF more
<1>6. /\ counted \in WalkRecords /\ counted.at = here.at
      /\ counted.queue = here.queue /\ counted.queued = here.queued /\ counted.seen = here.seen
      /\ counted.depth = here.depth /\ counted.followed = here.followed /\ counted.full = here.full
    BY <1>4, <1>5 DEF WalkRecords
<1> HIDE DEF counted
<1>7. CASE walk' = here
    BY <1>1, <1>2, <1>7 DEF WalkInv, Arrived
<1>8. CASE walk' = [walk EXCEPT !.at = "failed"]
    BY <1>1, <1>8 DEF WalkInv, WalkRecords
<1>9. CASE walk' = counted
    <2>1. WalkCore(counted) /\ WalkClosed(counted)
        BY <1>2, <1>6, SameWalk DEF Arrived
    <2> QED BY <1>1, <1>2, <1>6, <1>9, <2>1 DEF WalkInv, Arrived
<1>10. CASE item.depth < MaxDepth /\ walk' = Considered(next, links)[Len(links)]
    <2>1. counted.followed \cup {item.url} \in SUBSET Pages
        BY <1>2, <1>6 DEF Arrived, WalkRecords
    <2>2. /\ next \in WalkRecords /\ next.at = here.at
          /\ next.queue = here.queue /\ next.queued = here.queued /\ next.seen = here.seen
          /\ next.depth = here.depth /\ next.followed = here.followed \cup {item.url} /\ next.full = here.full
        BY <1>6, <2>1 DEF WalkRecords
    <2> HIDE DEF next
    <2>3. /\ walk' \in WalkRecords /\ WalkCore(walk') /\ WalkClosed(walk')
          /\ walk'.at = here.at /\ here.queued \subseteq walk'.queued
        BY <1>2, <1>10, <2>2, FollowKeeps
    <2>4. here.at = "bfs" /\ here.queued # {}
        BY <1>1, <1>2 DEF Arrived
    <2> QED BY <2>3, <2>4 DEF WalkInv
<1> QED BY <1>3, <1>4, <1>7, <1>8, <1>9, <1>10

LEMMA DoneWalks ==
    ASSUME WalkInv, BfsDone
    PROVE  WalkInv'
<1>1. /\ walk \in WalkRecords /\ walk.queue = <<>> /\ walk' = [walk EXCEPT !.at = "done"]
      /\ WalkCore(walk) /\ WalkClosed(walk)
    BY DEF WalkInv, BfsDone
<1>2. /\ walk' \in WalkRecords /\ walk'.at = "done" /\ walk'.queue = <<>>
      /\ walk'.queue = walk.queue /\ walk'.queued = walk.queued /\ walk'.seen = walk.seen
      /\ walk'.depth = walk.depth /\ walk'.followed = walk.followed /\ walk'.full = walk.full
    BY <1>1 DEF WalkRecords
<1>3. WalkCore(walk') /\ WalkClosed(walk')
    BY <1>1, <1>2, SameWalk
<1> QED BY <1>2, <1>3 DEF WalkInv

LEMMA WalkStep == WalkInv /\ [WalkNext]_crawlVars => WalkInv'
<1> SUFFICES ASSUME WalkInv, [WalkNext]_crawlVars PROVE WalkInv'
    OBVIOUS
<1>1. ASSUME NEW answer \in {"listed", "unavailable", "too many"},
             NEW urls \in {<<>>, <<Home>>, <<Home, Home>>}, Sitemap(answer, urls)
      PROVE  WalkInv'
    BY <1>1, SitemapWalks
<1>2. ASSUME NEW answer \in Answers, ListStep(answer) PROVE WalkInv'
    BY <1>2, ListWalks
<1>3. ASSUME NEW answer \in Answers, BfsStep(answer) PROVE WalkInv'
    BY <1>3, BfsWalks
<1>4. CASE BfsDone
    BY <1>4, DoneWalks
<1>5. CASE UNCHANGED crawlVars
    BY <1>5 DEF WalkInv, crawlVars, WalkCore, WalkClosed, WalkQueued, WalkOrdered, WalkLed, WalkBounded,
                LinksNear, Near, Led
<1> QED BY <1>1, <1>2, <1>3, <1>4, <1>5 DEF WalkNext

\* When nothing waits and no link was refused, distance is the shortest distance.
LEMMA WithinIsDepth ==
    ASSUME WalkInv, WalkCore(walk), WalkClosed(walk), walk.queue = <<>>, ~walk.full
    PROVE  \A n \in 0..MaxDepth : Within[n] = {u \in walk.seen : walk.depth[u] <= n}
<1> DEFINE near == [n \in 0..MaxDepth |-> {u \in walk.seen : walk.depth[u] <= n}]
           Further(S) == S \cup UNION {ToSet(LinksOf[p]) : p \in S \cap walk.followed}
           S == {n \in 0..MaxDepth : Within[n] = near[n]}
<1>0. MaxDepth \in Nat
    BY CrawlAssumptions
<1>1. /\ walk.seen \subseteq Pages /\ walk.depth \in [Pages -> Int] /\ walk.followed \subseteq walk.seen
    BY DEF WalkInv, WalkRecords, WalkCore, WalkLed
<1>2. \A u \in walk.seen : Led(walk, u, walk.depth[u])
    BY DEF WalkCore, WalkLed
<1>3. \A u \in walk.seen : walk.depth[u] \in 0..MaxDepth /\ (walk.depth[u] = 0 <=> u = Home)
    BY <1>2 DEF Led
<1>4. walk.queued = walk.seen /\ Home \in walk.seen
    BY DEF WalkCore, WalkQueued
<1>5. near[0] = {Home}
    BY <1>0, <1>3, <1>4
<1>6. ASSUME NEW n \in 1..MaxDepth PROVE near[n] = Further(near[n - 1])
    <2>1. n \in 0..MaxDepth /\ n - 1 \in 0..MaxDepth /\ n \in Int
        BY <1>0
    <2>2. ASSUME NEW u \in near[n] PROVE u \in Further(near[n - 1])
        <3>1. u \in walk.seen /\ walk.depth[u] <= n /\ walk.depth[u] \in 0..MaxDepth
            BY <1>3, <2>1, <2>2
        <3>2. CASE walk.depth[u] <= n - 1
            BY <2>1, <3>1, <3>2
        <3>3. CASE walk.depth[u] = n
            <4>1. Led(walk, u, n)
                BY <1>2, <3>1, <3>3
            <4>2. PICK p \in walk.followed : u \in ToSet(LinksOf[p]) /\ walk.depth[p] = n - 1
                BY <4>1 DEF Led
            <4>3. p \in near[n - 1]
                BY <1>1, <2>1, <4>2
            <4> HIDE DEF near
            <4> QED BY <4>2, <4>3
        <3> QED BY <2>1, <3>1, <3>2, <3>3
    <2>3. near[n - 1] \subseteq near[n]
        BY <1>3, <2>1
    <2>4. ASSUME NEW p \in near[n - 1] \cap walk.followed, NEW u \in ToSet(LinksOf[p]) PROVE u \in near[n]
        <3>1. p \in walk.followed /\ p \in Pages /\ p \in walk.seen /\ walk.depth[p] <= n - 1 /\ walk.depth[p] \in Int
            BY <1>1, <2>1, <2>4
        <3>2. LinksNear(walk, p, Len(LinksOf[p])) /\ LinksOf[p] \in Seq(Pages)
            BY <3>1, CrawlAssumptions DEF WalkClosed
        <3>3. PICK i \in 1..Len(LinksOf[p]) : LinksOf[p][i] = u
            BY <2>4, <3>2 DEF ToSet
        <3>4. Near(walk, u, walk.depth[p] + 1)
            BY <3>2, <3>3 DEF LinksNear
        <3>5. u \in walk.seen /\ walk.depth[u] <= walk.depth[p] + 1
            BY <3>4 DEF Near
        <3> QED BY <1>3, <2>1, <3>1, <3>5
    <2> HIDE DEF near
    <2>5. Further(near[n - 1]) \subseteq near[n]
        BY <2>3, <2>4
    <2> QED BY <2>2, <2>5
<1>7. Within = CHOOSE f : f = [n \in 0..MaxDepth |-> IF n = 0 THEN {Home} ELSE Further(f[n - 1])]
    BY DEF Within
<1> HIDE DEF Further
<1>8. near = [n \in 0..MaxDepth |-> IF n = 0 THEN {Home} ELSE Further(near[n - 1])]
    <2>1. \A n \in 0..MaxDepth : near[n] = IF n = 0 THEN {Home} ELSE Further(near[n - 1])
        <3> SUFFICES ASSUME NEW n \in 0..MaxDepth PROVE near[n] = IF n = 0 THEN {Home} ELSE Further(near[n - 1])
            OBVIOUS
        <3>1. CASE n = 0
            BY <1>5, <3>1
        <3>2. CASE n # 0
            <4>1. n \in 1..MaxDepth
                BY <1>0, <3>2
            <4> HIDE DEF near
            <4> QED BY <1>6, <3>2, <4>1
        <3> QED BY <3>1, <3>2
    <2>2. near = [n \in 0..MaxDepth |-> near[n]]
        OBVIOUS
    <2> HIDE DEF near
    <2> QED BY <2>1, <2>2
<1> HIDE DEF near
<1>9. Within = [n \in 0..MaxDepth |-> IF n = 0 THEN {Home} ELSE Further(Within[n - 1])]
    BY <1>7, <1>8
<1>10. Within[0] = {Home} /\ \A n \in 1..MaxDepth : Within[n] = Further(Within[n - 1])
    <2> DEFINE reach == Within
    <2>1. reach = [n \in 0..MaxDepth |-> IF n = 0 THEN {Home} ELSE Further(reach[n - 1])]
        BY <1>9
    <2> HIDE DEF reach
    <2>2. 0 \in 0..MaxDepth /\ \A n \in 1..MaxDepth : n \in 0..MaxDepth /\ n # 0
        BY <1>0
    <2>3. \A n \in 0..MaxDepth : reach[n] = IF n = 0 THEN {Home} ELSE Further(reach[n - 1])
        BY ONLY <2>1
    <2>4. reach[0] = {Home}
        BY <2>2, <2>3
    <2>5. ASSUME NEW n \in 1..MaxDepth PROVE reach[n] = Further(reach[n - 1])
        BY <2>2, <2>3
    <2> QED BY <2>4, <2>5 DEF reach
<1>11. 0 \in S
    <2>1. 0 \in 0..MaxDepth
        BY <1>0
    <2>2. Within[0] = near[0]
        BY ONLY <1>5, <1>10
    <2> QED BY ONLY <2>1, <2>2
<1>12. ASSUME NEW n \in 0..(MaxDepth - 1), n \in S PROVE n + 1 \in S
    <2>1. n + 1 \in 1..MaxDepth /\ (n + 1) - 1 = n /\ n + 1 \in 0..MaxDepth
        BY <1>0
    <2>2. Within[n + 1] = Further(Within[n]) /\ near[n + 1] = Further(near[n])
        BY <1>6, <1>10, <2>1
    <2> QED BY <1>12, <2>1, <2>2
<1> HIDE DEF S
<1>13. 0..MaxDepth \subseteq S
    BY <1>0, <1>11, <1>12, UpTo
<1>14. \A n \in 0..MaxDepth : Within[n] = near[n]
    BY <1>13 DEF S
<1> QED BY <1>14 DEF near

LEMMA WalkedExactly == WalkInv => WalkIsExact
<1> SUFFICES ASSUME WalkInv, walk.at = "done", walk.queued # {}
             PROVE  /\ walk.full => Cardinality(walk.seen) <= MaxUrls
                    /\ ~walk.full =>
                          /\ walk.seen = Within[MaxDepth]
                          /\ \A p \in walk.seen, n \in 0..MaxDepth : p \in Within[n] <=> walk.depth[p] <= n
    BY DEF WalkIsExact
<1>1. WalkCore(walk) /\ WalkClosed(walk) /\ walk.queue = <<>>
    BY DEF WalkInv
<1>2. Cardinality(walk.seen) <= MaxUrls
    <2>1. IsFiniteSet(walk.seen) /\ Cardinality(walk.seen) + Len(walk.queue) <= MaxUrls
        BY <1>1 DEF WalkCore, WalkBounded
    <2>2. Cardinality(walk.seen) \in Nat /\ Len(walk.queue) = 0
        BY <1>1, <2>1, FS_CardinalityType
    <2> QED BY <2>1, <2>2
<1>3. ASSUME ~walk.full
      PROVE  /\ walk.seen = Within[MaxDepth]
             /\ \A p \in walk.seen, n \in 0..MaxDepth : p \in Within[n] <=> walk.depth[p] <= n
    <2>1. \A n \in 0..MaxDepth : Within[n] = {u \in walk.seen : walk.depth[u] <= n}
        BY <1>1, <1>3, WithinIsDepth
    <2>2. MaxDepth \in 0..MaxDepth
        BY CrawlAssumptions
    <2>3. \A u \in walk.seen : walk.depth[u] <= MaxDepth
        BY <1>1 DEF WalkCore, WalkLed, Led
    <2> QED BY <2>1, <2>2, <2>3
<1> QED BY <1>2, <1>3

\* _fetch_bfs_articles: whatever the site's links, limits and answers, a walk
\* that ends with nothing refused has visited exactly the pages within
\* crawl_max_depth steps, each at its shortest distance; with something refused,
\* at most crawl_max_discovered_urls of them.
THEOREM WalksAreExact == WalkSpec => []WalkIsExact
<1>1. CrawlInit => WalkInv
    BY WalkInitially
<1>2. WalkInv /\ [WalkNext]_crawlVars => WalkInv'
    BY WalkStep
<1>3. WalkInv => WalkIsExact
    BY WalkedExactly
<1> QED BY <1>1, <1>2, <1>3, PTL DEF WalkSpec

------------------------------------------------------------------------------
(* PlacementGeneration: the race of drawers and passes for a row           *)

LinkStates == {"pending", "approved", "rejected", "gone"}
DrawerRows == [link : Offers \cup {0}, seen : SUBSET Offers, taken : SUBSET (Anchors \cup {Nothing})]

PlaceTypes ==
    /\ link \in [Offers -> LinkStates]
    /\ place \in [Offers -> Placements \cup {Unset}]
    /\ drawer \in [Drawers -> DrawerRows]
    /\ \A d \in Drawers : drawer[d] # Closed => drawer[d].link \in Offers
    /\ pass = [n |-> pass.n, work |-> pass.work] /\ pass.n \in 0..MaxPasses
    /\ pass.work # <<>> => pass.n >= 1
    /\ Len(pass.work) \in Nat /\ pass.work = [i \in 1..Len(pass.work) |-> pass.work[i]]
    /\ \A i \in 1..Len(pass.work) : pass.work[i].seen \subseteq Offers

\* A question to the model knows the phrases of the rows it has seen.
Asked(question) == \A t \in question.seen : HasAnchor(t) /\ place[t].anchor \in question.taken

AllAsked ==
    /\ \A d \in Drawers : Asked(drawer[d])
    /\ \A i \in 1..Len(pass.work) : Asked(pass.work[i])

ShownStands == shown # <<>> => /\ shown[1] \in Offers /\ shown[2] # Unset
                               /\ place[shown[1]] = shown[2]

\* A pass stores once: while it waits for answers no row is its.
OnePassEach ==
    \A s \in Offers : place[s] # Unset /\ place[s].by \in 1..MaxPasses =>
        place[s].by <= pass.n /\ (pass.work # <<>> => place[s].by < pass.n)

Apart(s, t) == HasAnchor(t) /\ Casefold[place[t].anchor] # Casefold[place[s].anchor]

AllApart ==
    \A s, t \in Offers : s # t /\ SourceOf[s] = SourceOf[t] /\ HasAnchor(s) =>
        /\ t \in place[s].seen => Apart(s, t)
        /\ HasAnchor(t) /\ place[s].by = place[t].by /\ place[s].by \in 1..MaxPasses => Apart(s, t)

PlaceInv == PlaceTypes /\ AllAsked /\ ShownStands /\ OnePassEach /\ AllApart

LEMMA PlaceInitially == PlaceInit => PlaceInv
<1> SUFFICES ASSUME PlaceInit PROVE PlaceInv
    OBVIOUS
<1>1. MaxPasses \in Nat
    BY PlaceAssumptions
<1>2. Closed \in DrawerRows /\ Closed.seen = {}
    BY DEF Closed, DrawerRows
<1>3. \A s \in Offers : place[s] = Unset
    BY DEF PlaceInit
<1>4. pass.n = 0 /\ pass.work = <<>> /\ Len(pass.work) = 0 /\ shown = <<>>
    BY DEF PlaceInit
<1>5. \A d \in Drawers : drawer[d] = Closed
    BY DEF PlaceInit
<1>6. PlaceTypes
    <2>1. link \in [Offers -> LinkStates] /\ place \in [Offers -> Placements \cup {Unset}]
        BY DEF PlaceInit, LinkStates
    <2>2. drawer \in [Drawers -> DrawerRows]
        BY <1>2 DEF PlaceInit
    <2>3. pass = [n |-> pass.n, work |-> pass.work]
        BY DEF PlaceInit
    <2>4. pass.work = [i \in 1..Len(pass.work) |-> pass.work[i]]
        BY <1>4
    <2> QED BY <1>1, <1>4, <1>5, <2>1, <2>2, <2>3, <2>4 DEF PlaceTypes
<1>7. AllAsked /\ ShownStands /\ OnePassEach /\ AllApart
    BY <1>2, <1>3, <1>4, <1>5 DEF AllAsked, Asked, ShownStands, OnePassEach, AllApart, HasAnchor
<1> QED BY <1>6, <1>7 DEF PlaceInv

\* A row that has a placement keeps it.
PlacesKept == \A s \in Offers : place[s] # Unset => place'[s] = place[s]

LEMMA AskedStays ==
    ASSUME PlacesKept, NEW question, question.seen \subseteq Offers, Asked(question)
    PROVE  \A t \in question.seen : HasAnchor(t)' /\ place'[t].anchor \in question.taken
BY DEF PlacesKept, Asked, HasAnchor

\* What an action that stores must show of the rows it changes.
LEMMA ApartStep ==
    ASSUME AllApart, PlacesKept,
           \A s \in Offers : place'[s] # place[s] /\ HasAnchor(s)' =>
               \A t \in place'[s].seen : t \in Offers /\ t # s => Apart(s, t)',
           \A s, t \in Offers :
               /\ s # t /\ SourceOf[s] = SourceOf[t] /\ place'[s] # place[s]
               /\ HasAnchor(s)' /\ HasAnchor(t)' /\ place'[s].by = place'[t].by /\ place'[s].by \in 1..MaxPasses
               => Casefold[place'[t].anchor] # Casefold[place'[s].anchor]
    PROVE  AllApart'
<1> SUFFICES ASSUME NEW s \in Offers, NEW t \in Offers, s # t, SourceOf[s] = SourceOf[t], HasAnchor(s)'
             PROVE  /\ t \in place'[s].seen => Apart(s, t)'
                    /\ HasAnchor(t)' /\ place'[s].by = place'[t].by /\ place'[s].by \in 1..MaxPasses
                       => Casefold[place'[t].anchor] # Casefold[place'[s].anchor]
    BY DEF AllApart, Apart
<1>1. CASE place'[s] # place[s]
    BY <1>1
<1>2. CASE place'[s] = place[s]
    <2>1. HasAnchor(s)
        BY <1>2 DEF HasAnchor
    <2>2. ASSUME t \in place'[s].seen PROVE Apart(s, t)'
        <3>1. Apart(s, t)
            BY <1>2, <2>1, <2>2 DEF AllApart
        <3>2. place'[t] = place[t]
            BY <3>1 DEF Apart, HasAnchor, PlacesKept
        <3> QED BY <1>2, <3>1, <3>2 DEF Apart, HasAnchor
    <2>3. ASSUME HasAnchor(t)', place'[s].by = place'[t].by, place'[s].by \in 1..MaxPasses
          PROVE  Casefold[place'[t].anchor] # Casefold[place'[s].anchor]
        <3>1. CASE place'[t] # place[t]
            BY <2>3, <3>1
        <3>2. CASE place'[t] = place[t]
            <4>1. HasAnchor(t)
                BY <2>3, <3>2 DEF HasAnchor
            <4> QED BY <1>2, <2>1, <2>3, <3>2, <4>1 DEF AllApart, Apart
        <3> QED BY <3>1, <3>2
    <2> QED BY <2>2, <2>3
<1> QED BY <1>1, <1>2

LEMMA GenerateFact ==
    ASSUME NEW answer, NEW taken
    PROVE  /\ Generate(answer, taken) \in {answer, Nothing}
           /\ Generate(answer, taken) # Nothing =>
                 \A a \in taken : Casefold[a] # Casefold[Generate(answer, taken)]
BY DEF Generate

LEMMA QuestionFact ==
    ASSUME PlaceTypes, NEW s, NEW rows, rows \subseteq Offers, \A t \in rows : HasAnchor(t)
    PROVE  /\ Question(s, rows).link = s /\ Question(s, rows).seen = rows
           /\ Question(s, rows).taken \in SUBSET (Anchors \cup {Nothing})
           /\ Question(s, rows) = [link |-> s, seen |-> rows, taken |-> Question(s, rows).taken]
           /\ Asked(Question(s, rows))
<1>1. \A t \in rows : place[t].anchor \in Anchors \cup {Nothing}
    <2>1. \A t \in rows : place[t] \in Placements
        BY DEF PlaceTypes, HasAnchor
    <2> QED BY <2>1 DEF Placements
<1>2. Question(s, rows) = [link |-> s, seen |-> rows, taken |-> {place[t].anchor : t \in rows}]
    BY DEF Question
<1>3. Asked(Question(s, rows))
    BY <1>2 DEF Asked
<1> QED BY <1>1, <1>2, <1>3

\* What holds while no row is stored.
LEMMA NothingStored ==
    ASSUME PlaceInv, UNCHANGED place, PlaceTypes', AllAsked', ShownStands',
           pass.n \in Int, pass'.n \in Int, pass'.n >= pass.n,
           pass'.work # <<>> => pass'.n > pass.n \/ pass'.work = pass.work
    PROVE  PlaceInv'
<1>1. AllApart'
    BY DEF PlaceInv, AllApart, Apart, HasAnchor
<1>2. OnePassEach'
    <2> SUFFICES ASSUME NEW s \in Offers, place[s] # Unset, place[s].by \in 1..MaxPasses
                 PROVE  place[s].by <= pass'.n /\ (pass'.work # <<>> => place[s].by < pass'.n)
        BY DEF OnePassEach
    <2>1. place[s].by <= pass.n /\ (pass.work # <<>> => place[s].by < pass.n) /\ place[s].by \in Int
        BY PlaceAssumptions DEF PlaceInv, OnePassEach
    <2> QED BY <2>1
<1> QED BY <1>1, <1>2 DEF PlaceInv

LEMMA DrawerOpenPlaces ==
    ASSUME PlaceInv, NEW d \in Drawers, NEW s \in Offers, DrawerOpen(d, s)
    PROVE  PlaceInv'
<1> DEFINE rows == {t \in Siblings(s) : HasAnchor(t) /\ link[t] \in CLAIMS_AN_ANCHOR}
           question == Question(s, rows)
<1>1. PlaceTypes /\ AllAsked /\ ShownStands /\ MaxPasses \in Nat
    BY PlaceAssumptions DEF PlaceInv
<1>2. rows \subseteq Offers /\ \A t \in rows : HasAnchor(t)
    BY DEF Siblings
<1>3. \/ place[s] # Unset /\ shown' = <<s, place[s]>> /\ drawer' = drawer
      \/ drawer' = [drawer EXCEPT ![d] = question] /\ shown' = shown
    BY DEF DrawerOpen
<1>4. link' = link /\ place' = place /\ pass' = pass
    BY DEF DrawerOpen
<1> HIDE DEF rows
<1>5. question \in DrawerRows /\ question.link = s /\ question.seen \subseteq Offers /\ Asked(question)
    <2>1. /\ question.link = s /\ question.seen = rows /\ Asked(question)
          /\ question.taken \in SUBSET (Anchors \cup {Nothing})
          /\ question = [link |-> s, seen |-> rows, taken |-> question.taken]
        BY <1>1, <1>2, QuestionFact
    <2> HIDE DEF question
    <2> QED BY <1>2, <2>1 DEF DrawerRows
<1> HIDE DEF question
<1>6. PlaceTypes'
    <2>1. CASE drawer' = drawer
        BY <1>1, <1>4, <2>1 DEF PlaceTypes
    <2>2. CASE drawer' = [drawer EXCEPT ![d] = question]
        <3>1. drawer' \in [Drawers -> DrawerRows]
            BY <1>1, <1>5, <2>2 DEF PlaceTypes
        <3>2. \A e \in Drawers : drawer'[e] # Closed => drawer'[e].link \in Offers
            BY <1>1, <1>5, <2>2 DEF PlaceTypes
        <3> QED BY <1>1, <1>4, <3>1, <3>2 DEF PlaceTypes
    <2> QED BY <1>3, <2>1, <2>2
<1>7. AllAsked'
    <2>1. ASSUME NEW q, Asked(q) PROVE \A t \in q.seen : HasAnchor(t)' /\ place'[t].anchor \in q.taken
        BY <1>4, <2>1 DEF Asked, HasAnchor
    <2>2. \A e \in Drawers : drawer'[e] = drawer[e] \/ drawer'[e] = question
        BY <1>1, <1>3 DEF PlaceTypes
    <2>3. \A e \in Drawers : Asked(drawer'[e])
        BY <1>1, <1>5, <2>2 DEF AllAsked
    <2> QED BY <1>1, <1>4, <2>3 DEF AllAsked, Asked, HasAnchor
<1>8. ShownStands'
    <2>1. CASE shown' = shown
        BY <1>1, <1>4, <2>1 DEF ShownStands
    <2>2. CASE place[s] # Unset /\ shown' = <<s, place[s]>>
        BY <1>4, <2>2 DEF ShownStands
    <2> QED BY <1>3, <2>1, <2>2
<1>9. pass.n \in Int
    BY <1>1 DEF PlaceTypes
<1> QED BY <1>4, <1>6, <1>7, <1>8, <1>9, NothingStored

LEMMA DrawerFailsPlaces ==
    ASSUME PlaceInv, NEW d \in Drawers, DrawerFails(d)
    PROVE  PlaceInv'
<1>1. PlaceTypes /\ AllAsked /\ ShownStands
    BY DEF PlaceInv
<1>2. /\ drawer' = [drawer EXCEPT ![d] = Closed]
      /\ link' = link /\ place' = place /\ pass' = pass /\ shown' = shown
    BY DEF DrawerFails
<1>3. Closed \in DrawerRows /\ Closed.seen = {}
    BY DEF Closed, DrawerRows
<1>4. PlaceTypes'
    <2>1. drawer' \in [Drawers -> DrawerRows]
        BY <1>1, <1>2, <1>3 DEF PlaceTypes
    <2>2. \A e \in Drawers : drawer'[e] # Closed => drawer'[e].link \in Offers
        BY <1>1, <1>2 DEF PlaceTypes
    <2> QED BY <1>1, <1>2, <2>1, <2>2 DEF PlaceTypes
<1>5. AllAsked'
    <2>1. \A e \in Drawers : drawer'[e] = drawer[e] \/ drawer'[e] = Closed
        BY <1>1, <1>2 DEF PlaceTypes
    <2>2. \A e \in Drawers : Asked(drawer'[e])
        BY <1>1, <1>3, <2>1 DEF AllAsked, Asked
    <2> QED BY <1>1, <1>2, <2>2 DEF AllAsked, Asked, HasAnchor
<1>6. ShownStands'
    BY <1>1, <1>2 DEF ShownStands
<1>7. pass.n \in Int
    BY PlaceAssumptions, <1>1 DEF PlaceTypes
<1> QED BY <1>2, <1>4, <1>5, <1>6, <1>7, NothingStored

LEMMA ReviewedPlaces ==
    ASSUME PlaceInv, NEW s \in Offers, NEW status \in {"approved", "rejected", "gone"}, Reviewed(s, status)
    PROVE  PlaceInv'
<1>1. PlaceTypes /\ AllAsked /\ ShownStands
    BY DEF PlaceInv
<1>2. /\ link' = [link EXCEPT ![s] = status]
      /\ drawer' = drawer /\ place' = place /\ pass' = pass /\ shown' = shown
    BY DEF Reviewed
<1>3. link' \in [Offers -> LinkStates]
    BY <1>1, <1>2 DEF PlaceTypes, LinkStates
<1>4. PlaceTypes'
    BY <1>1, <1>2, <1>3 DEF PlaceTypes
<1>5. AllAsked'
    BY <1>1, <1>2 DEF AllAsked, Asked, HasAnchor
<1>6. ShownStands'
    BY <1>1, <1>2 DEF ShownStands
<1>7. pass.n \in Int
    BY PlaceAssumptions, <1>1 DEF PlaceTypes
<1> QED BY <1>2, <1>4, <1>5, <1>6, <1>7, NothingStored

\* The work of a pass is a sequence, however many rows are missing.

\* The work of a pass is a sequence, however many rows are missing.
LEMMA AffordableFact ==
    ASSUME NEW n \in Nat
    PROVE  Affordable(n) \in Seq({Missing[i] : i \in DOMAIN Missing})
<1> DEFINE rows == {s \in Offers : link[s] = "approved" /\ place[s] = Unset}
           m == Cardinality(rows)
           T == {Missing[i] : i \in DOMAIN Missing}
           k == IF Len(Missing) < n THEN Len(Missing) ELSE n
<1>1. m \in Nat
    BY FS_Subset, FS_CardinalityType, PlaceAssumptions
<1>2. DOMAIN Missing = 1..m /\ Missing = [i \in 1..m |-> Missing[i]]
    <2> DEFINE before == {st \in rows \X rows : \/ SourceOf[st[1]] < SourceOf[st[2]]
                                                \/ SourceOf[st[1]] = SourceOf[st[2]] /\ st[1] < st[2]}
    <2>1. Missing = InOrder(rows, before)
        BY DEF Missing
    <2> HIDE DEF rows, before
    <2>2. DOMAIN InOrder(rows, before) = 1..m
        BY DEF InOrder
    <2>3. InOrder(rows, before) = [i \in 1..m |-> InOrder(rows, before)[i]]
        <3> DEFINE th(i) == CHOOSE s \in rows : Cardinality({t \in rows : <<t, s>> \in before}) = i - 1
        <3>1. InOrder(rows, before) = [i \in 1..m |-> th(i)]
            BY DEF InOrder
        <3> HIDE DEF th, m
        <3> QED BY ONLY <3>1
    <2> QED BY ONLY <2>1, <2>2, <2>3
<1> HIDE DEF m
<1>3. \A i \in 1..m : Missing[i] \in T
    BY <1>2
<1> HIDE DEF T
<1>4. Missing \in Seq(T)
    BY <1>1, <1>2, <1>3, IsASeq
<1>5. Len(Missing) \in Nat /\ k \in Nat /\ k <= Len(Missing)
    BY <1>4, LenProperties
<1>6. Affordable(n) = SubSeq(Missing, 1, k)
    BY DEF Affordable
<1> HIDE DEF k
<1>7. SubSeq(Missing, 1, k) \in Seq(T)
    BY <1>4, <1>5, SubSeqProperties
<1> QED BY <1>6, <1>7 DEF T

LEMMA PassReadPlaces ==
    ASSUME PlaceInv, NEW n \in Budgets, PassRead(n)
    PROVE  PlaceInv'
<1> DEFINE T == {Missing[i] : i \in DOMAIN Missing}
           list == Affordable(n)
           N == Len(list)
           rows(s) == {t \in Group(SourceOf[s]) : HasAnchor(t)}
           work == [i \in 1..N |-> Question(list[i], rows(list[i]))]
<1>1. PlaceTypes /\ AllAsked /\ ShownStands /\ MaxPasses \in Nat /\ n \in Nat
    BY PlaceAssumptions DEF PlaceInv
<1>2. list \in Seq(T)
    BY <1>1, AffordableFact
<1> HIDE DEF T
<1>3. N \in Nat /\ DOMAIN list = 1..N
    BY <1>2
<1>4. /\ pass' = [n |-> pass.n + 1, work |-> work] /\ pass.work = <<>> /\ pass.n < MaxPasses
      /\ link' = link /\ place' = place /\ drawer' = drawer /\ shown' = shown
    BY <1>3 DEF PassRead
<1> HIDE DEF list, N
<1>5. \A s : rows(s) \subseteq Offers /\ \A t \in rows(s) : HasAnchor(t)
    BY DEF Group
<1> HIDE DEF rows
<1>6. ASSUME NEW i \in 1..N PROVE Asked(work[i]) /\ work[i].seen \subseteq Offers
    BY <1>1, <1>5, QuestionFact
<1>7. Len(work) = N /\ work = [i \in 1..Len(work) |-> work[i]]
    BY <1>3
<1> HIDE DEF work
<1>8. pass'.n = pass.n + 1 /\ pass'.work = work /\ pass' = [n |-> pass'.n, work |-> pass'.work]
    BY <1>4
<1>9. pass.n \in 0..MaxPasses /\ pass'.n \in 0..MaxPasses /\ pass'.n >= 1
    BY <1>1, <1>4, <1>8 DEF PlaceTypes
<1>10. PlaceTypes'
    BY <1>1, <1>3, <1>4, <1>6, <1>7, <1>8, <1>9 DEF PlaceTypes
<1>11. AllAsked'
    <2>1. \A i \in 1..Len(pass'.work) : Asked(pass'.work[i])
        BY <1>6, <1>7, <1>8
    <2> QED BY <1>1, <1>4, <2>1 DEF AllAsked, Asked, HasAnchor
<1>12. ShownStands'
    BY <1>1, <1>4 DEF ShownStands
<1> QED BY <1>1, <1>4, <1>8, <1>9, <1>10, <1>11, <1>12, NothingStored

\* A placement that is stored where there was none.
LEMMA NewPlacement ==
    ASSUME NEW anchor \in Anchors \cup {Nothing}, NEW by \in Drawers \cup 1..MaxPasses,
           NEW rows \in SUBSET Offers
    PROVE  /\ Placement(anchor, by, rows) \in Placements /\ Placement(anchor, by, rows) # Unset
           /\ Placement(anchor, by, rows).anchor = anchor /\ Placement(anchor, by, rows).by = by
           /\ Placement(anchor, by, rows).seen = rows
<1>1. Placement(anchor, by, rows) \in Placements
    BY DEF Placement, Placements
<1> QED BY <1>1, PlaceAssumptions DEF Placement

LEMMA DrawerStorePlaces ==
    ASSUME PlaceInv, NEW d \in Drawers, NEW answer \in Anchors \cup {Nothing}, DrawerStore(d, answer)
    PROVE  PlaceInv'
<1> DEFINE q == drawer[d]
           s == q.link
           anchor == Generate(answer, q.taken)
           p == Placement(anchor, d, q.seen)
<1>1. PlaceTypes /\ AllAsked /\ ShownStands /\ OnePassEach /\ AllApart /\ MaxPasses \in Nat
    BY PlaceAssumptions DEF PlaceInv
<1>2. s \in Offers /\ q.seen \in SUBSET Offers /\ Asked(q) /\ d \notin 1..MaxPasses
    BY <1>1, PlaceAssumptions DEF PlaceTypes, DrawerRows, DrawerStore, AllAsked
<1>3. /\ place' = [place EXCEPT ![s] = Stored(s, p, place[s])]
      /\ shown' = IF link[s] = "gone" THEN shown ELSE <<s, place'[s]>>
      /\ drawer' = [drawer EXCEPT ![d] = Closed]
      /\ link' = link /\ pass' = pass
    BY DEF DrawerStore
<1>4. anchor \in Anchors \cup {Nothing} /\ (anchor # Nothing => \A a \in q.taken : Casefold[a] # Casefold[anchor])
    BY GenerateFact
<1> HIDE DEF anchor
<1>5. p \in Placements /\ p # Unset /\ p.anchor = anchor /\ p.by = d /\ p.seen = q.seen
    BY <1>2, <1>4, NewPlacement
<1> HIDE DEF p, q, s
<1>6. \A t \in Offers : place[t] \in Placements \cup {Unset}
    BY <1>1 DEF PlaceTypes
<1>7. /\ \A t \in Offers : t # s => place'[t] = place[t]
      /\ place'[s] = Stored(s, p, place[s])
    BY <1>1, <1>2, <1>3 DEF PlaceTypes
<1>8. PlacesKept
    BY <1>7 DEF PlacesKept, Stored
<1>9. place'[s] # place[s] => place'[s] = p /\ place[s] = Unset
    BY <1>7 DEF Stored
<1>10. PlaceTypes'
    <2>1. place' \in [Offers -> Placements \cup {Unset}]
        BY <1>1, <1>3, <1>5, <1>6, <1>2 DEF PlaceTypes, Stored
    <2>2. Closed \in DrawerRows
        BY DEF Closed, DrawerRows
    <2>3. drawer' \in [Drawers -> DrawerRows]
        BY <1>1, <1>3, <2>2 DEF PlaceTypes
    <2>4. \A e \in Drawers : drawer'[e] # Closed => drawer'[e].link \in Offers
        BY <1>1, <1>3 DEF PlaceTypes
    <2> QED BY <1>1, <1>3, <2>1, <2>3, <2>4 DEF PlaceTypes
<1>11. AllAsked'
    <2>1. \A e \in Drawers : drawer'[e] = drawer[e] \/ drawer'[e] = Closed
        BY <1>1, <1>3 DEF PlaceTypes
    <2>2. \A e \in Drawers : drawer[e].seen \subseteq Offers
        BY <1>1 DEF PlaceTypes, DrawerRows
    <2>3. ASSUME NEW e \in Drawers
          PROVE  \A t \in drawer'[e].seen : HasAnchor(t)' /\ place'[t].anchor \in drawer'[e].taken
        <3>1. CASE drawer'[e] = Closed
            BY <3>1 DEF Closed
        <3>2. CASE drawer'[e] = drawer[e]
            BY <1>1, <1>8, <2>2, <3>2, AskedStays DEF AllAsked
        <3> QED BY <2>1, <3>1, <3>2
    <2>4. ASSUME NEW i \in 1..Len(pass.work)
          PROVE  \A t \in pass.work[i].seen : HasAnchor(t)' /\ place'[t].anchor \in pass.work[i].taken
        BY <1>1, <1>8, AskedStays DEF AllAsked, PlaceTypes
    <2> QED BY <1>3, <2>3, <2>4 DEF AllAsked, Asked
<1>12. ShownStands'
    <2>1. CASE link[s] = "gone"
        BY <1>1, <1>3, <1>8, <2>1 DEF ShownStands, PlacesKept
    <2>2. CASE link[s] # "gone"
        <3>1. place'[s] # Unset
            BY <1>5, <1>7, <2>2 DEF Stored
        <3> QED BY <1>2, <1>3, <2>2, <3>1 DEF ShownStands
    <2> QED BY <2>1, <2>2
<1>13. OnePassEach'
    <2> SUFFICES ASSUME NEW t \in Offers, place'[t] # Unset, place'[t].by \in 1..MaxPasses
                 PROVE  place'[t].by <= pass.n /\ (pass.work # <<>> => place'[t].by < pass.n)
        BY <1>3 DEF OnePassEach
    <2>1. place'[t] = place[t]
        BY <1>2, <1>5, <1>7, <1>9
    <2> QED BY <1>1, <2>1 DEF OnePassEach
<1>14. AllApart'
    <2>1. ASSUME NEW x \in Offers, place'[x] # place[x], HasAnchor(x)', NEW t \in place'[x].seen, t \in Offers, t # x
          PROVE  Apart(x, t)'
        <3>1. x = s /\ place'[s] = p
            BY <1>7, <1>9, <2>1
        <3>2. anchor # Nothing /\ t \in q.seen
            BY <1>5, <2>1, <3>1 DEF HasAnchor
        <3>3. HasAnchor(t) /\ place[t].anchor \in q.taken
            BY <1>2, <3>2 DEF Asked
        <3>4. place'[t] = place[t] /\ place'[s].anchor = anchor
            BY <1>5, <1>7, <2>1, <3>1
        <3>5. Casefold[place[t].anchor] # Casefold[anchor]
            BY <1>4, <3>2, <3>3
        <3> QED BY <3>1, <3>3, <3>4, <3>5 DEF Apart, HasAnchor
    <2>2. ASSUME NEW x \in Offers, place'[x] # place[x] PROVE place'[x].by \notin 1..MaxPasses
        BY <1>2, <1>5, <1>7, <1>9, <2>2
    <2> QED BY <1>1, <1>8, <2>1, <2>2, ApartStep
<1> QED BY <1>10, <1>11, <1>12, <1>13, <1>14 DEF PlaceInv

\* A call looks only at the calls before it.
LEMMA OutcomeLocal ==
    ASSUME NEW work, NEW answers, NEW g, NEW h, NEW i, \A j \in 1..(i - 1) : g[j] = h[j]
    PROVE  Outcome(work, answers, g, i) = Outcome(work, answers, h, i)
<1>1. GivenBefore(work, g, i) = GivenBefore(work, h, i)
    BY DEF GivenBefore
<1> QED BY <1>1 DEF Outcome

\* The answers of a pass, each from the ones before it.
LEMMA AnsweredFact ==
    ASSUME NEW work, NEW N \in Nat, DOMAIN work = 1..N,
           NEW answers \in [1..N -> Anchors \cup {Nothing, "failed"}]
    PROVE  \A i \in 1..N : /\ Answered(work, answers)[i] = Outcome(work, answers, Answered(work, answers), i)
                           /\ Answered(work, answers)[i] \in Anchors \cup {Nothing, "failed"}
<1> DEFINE V == Anchors \cup {Nothing, "failed"}
           Right(h, n) == \A i \in 1..n : h[i] = Outcome(work, answers, h, i)
           S == {n \in 0..N : \E h \in [1..n -> V] : Right(h, n)}
           got == Answered(work, answers)
<1>1. ASSUME NEW g, NEW i \in 1..N PROVE Outcome(work, answers, g, i) \in V
    <2>1. answers[i] \in V
        OBVIOUS
    <2>2. Generate(answers[i], work[i].taken \cup GivenBefore(work, g, i)) \in {answers[i], Nothing}
        BY GenerateFact
    <2> QED BY <2>1, <2>2 DEF Outcome
<1>2. got = CHOOSE f : f = [i \in DOMAIN work |-> Outcome(work, answers, f, i)]
    BY DEF Answered
<1> HIDE DEF got, V
<1>3. 0 \in S
    <2>1. [i \in 1..0 |-> Nothing] \in [1..0 -> V] /\ Right([i \in 1..0 |-> Nothing], 0)
        OBVIOUS
    <2>2. 0 \in 0..N
        OBVIOUS
    <2> HIDE DEF Right
    <2>3. \E h \in [1..0 -> V] : Right(h, 0)
        BY <2>1
    <2> QED BY <2>2, <2>3
<1>4. ASSUME NEW n \in 0..(N - 1), n \in S PROVE n + 1 \in S
    <2>1. PICK h \in [1..n -> V] : Right(h, n)
        BY <1>4
    <2> DEFINE next == Outcome(work, answers, h, n + 1)
               g == [i \in 1..(n + 1) |-> IF i <= n THEN h[i] ELSE next]
    <2>2. n + 1 \in 1..N /\ n + 1 \in 0..N /\ ~(n + 1 <= n) /\ n + 1 \in 1..(n + 1)
        OBVIOUS
    <2>3. next \in V
        BY <1>1, <2>2
    <2>4. g \in [1..(n + 1) -> V]
        <3> HIDE DEF next
        <3> QED BY <2>3
    <2>5. \A j \in 1..n : g[j] = h[j]
        OBVIOUS
    <2>6. g[n + 1] = next
        BY <2>2
    <2> HIDE DEF g
    <2>7. ASSUME NEW i \in 1..(n + 1) PROVE g[i] = Outcome(work, answers, g, i)
        <3>1. \A j \in 1..(i - 1) : g[j] = h[j]
            BY <2>5
        <3>2. Outcome(work, answers, g, i) = Outcome(work, answers, h, i)
            BY <3>1, OutcomeLocal
        <3>3. CASE i = n + 1
            BY <2>6, <3>2, <3>3
        <3>4. CASE i \in 1..n
            BY <2>1, <2>5, <3>2, <3>4
        <3> QED BY <3>3, <3>4
    <2> QED BY <2>2, <2>4, <2>7
<1> HIDE DEF S
<1>5. 0..N \subseteq S
    BY <1>3, <1>4, UpTo
<1>6. PICK f \in [1..N -> V] : Right(f, N)
    BY <1>5 DEF S
<1>7. f = [i \in DOMAIN work |-> Outcome(work, answers, f, i)]
    BY <1>6
<1>8. got = [i \in DOMAIN work |-> Outcome(work, answers, got, i)]
    BY <1>2, <1>7
<1>9. \A i \in 1..N : got[i] = Outcome(work, answers, got, i)
    BY <1>8
<1>10. \A i \in 1..N : got[i] \in V
    BY <1>1, <1>9
<1> QED BY <1>9, <1>10 DEF got, V

\* An answer is none of those it was told of, nor of the article's before it.
LEMMA OutcomeApart ==
    ASSUME NEW work, NEW answers, NEW got, NEW i,
           got[i] = Outcome(work, answers, got, i), got[i] \notin {Nothing, "failed"}
    PROVE  \A a \in work[i].taken \cup GivenBefore(work, got, i) : Casefold[a] # Casefold[got[i]]
<1>1. got[i] = Generate(answers[i], work[i].taken \cup GivenBefore(work, got, i))
    BY DEF Outcome
<1> QED BY <1>1, GenerateFact

LEMMA PassStorePlaces ==
    ASSUME PlaceInv, PassStore
    PROVE  PlaceInv'
<1>1. PlaceTypes /\ AllAsked /\ ShownStands /\ OnePassEach /\ AllApart /\ MaxPasses \in Nat
    BY PlaceAssumptions DEF PlaceInv
<1> DEFINE work == pass.work
           N == Len(work)
<1>2. N \in Nat /\ DOMAIN work = 1..N /\ work # <<>>
    BY <1>1 DEF PlaceTypes, PassStore
<1>3. PICK answers \in [DOMAIN work -> Anchors \cup {Nothing, "failed"}] :
          LET got == Answered(work, answers)
              at(s) == {i \in DOMAIN work : work[i].link = s /\ got[i] # "failed"}
          IN  place' = [s \in Offers |->
                  IF at(s) = {} THEN place[s]
                  ELSE LET i == CHOOSE i \in at(s) : TRUE
                       IN  Stored(s, Placement(got[i], pass.n, work[i].seen), place[s])]
    BY DEF PassStore
<1> DEFINE got == Answered(work, answers)
           at(s) == {i \in DOMAIN work : work[i].link = s /\ got[i] # "failed"}
           call(s) == CHOOSE i \in at(s) : TRUE
           p(s) == Placement(got[call(s)], pass.n, work[call(s)].seen)
<1>4. link' = link /\ drawer' = drawer /\ shown' = shown /\ pass' = [pass EXCEPT !.work = <<>>]
    BY DEF PassStore
<1>5. \A i \in 1..N : got[i] = Outcome(work, answers, got, i) /\ got[i] \in Anchors \cup {Nothing, "failed"}
    BY <1>2, AnsweredFact
<1>6. place' = [s \in Offers |-> IF at(s) = {} THEN place[s] ELSE Stored(s, p(s), place[s])]
    BY <1>3
<1> HIDE DEF got
<1>7. \A s : at(s) # {} => call(s) \in 1..N /\ work[call(s)].link = s /\ got[call(s)] # "failed"
    BY <1>2
<1>8. pass.n \in 1..MaxPasses
    BY <1>1, <1>2 DEF PlaceTypes
<1>9. \A i \in 1..N : work[i].seen \in SUBSET Offers /\ Asked(work[i])
    BY <1>1 DEF PlaceTypes, AllAsked
<1> HIDE DEF at, call
<1>10. ASSUME NEW s, at(s) # {}
       PROVE  /\ p(s) \in Placements /\ p(s) # Unset /\ p(s).anchor = got[call(s)] /\ p(s).by = pass.n
              /\ p(s).seen = work[call(s)].seen
    <2>1. call(s) \in 1..N /\ got[call(s)] \in Anchors \cup {Nothing}
        BY <1>5, <1>7, <1>10
    <2> QED BY <1>8, <1>9, <2>1, NewPlacement
<1> HIDE DEF p
<1>11. \A s \in Offers : place'[s] = IF at(s) = {} THEN place[s] ELSE Stored(s, p(s), place[s])
    BY <1>6
<1>12. PlacesKept
    BY <1>11 DEF PlacesKept, Stored
<1>13. \A s \in Offers : place'[s] # place[s] => at(s) # {} /\ place'[s] = p(s) /\ place[s] = Unset
    BY <1>11 DEF Stored
<1>14. pass'.n = pass.n /\ pass'.work = <<>> /\ pass' = [n |-> pass'.n, work |-> pass'.work]
    <2>1. pass = [n |-> pass.n, work |-> pass.work]
        BY <1>1 DEF PlaceTypes
    <2> QED BY <1>4, <2>1
<1>15. PlaceTypes'
    <2>1. place' \in [Offers -> Placements \cup {Unset}]
        <3>1. \A s \in Offers : place'[s] \in Placements \cup {Unset}
            <4>1. \A s \in Offers : place[s] \in Placements \cup {Unset}
                BY <1>1 DEF PlaceTypes
            <4> QED BY <1>10, <1>13, <4>1
        <3> QED BY <1>6, <3>1
    <2>2. Len(<<>>) = 0 /\ <<>> = [i \in 1..0 |-> <<>>[i]]
        OBVIOUS
    <2>3. Len(pass'.work) \in Nat /\ pass'.work = [i \in 1..Len(pass'.work) |-> pass'.work[i]] /\ Len(pass'.work) = 0
        BY <1>14, <2>2
    <2> QED BY <1>1, <1>4, <1>14, <2>1, <2>3 DEF PlaceTypes
<1>16. AllAsked'
    <2>1. \A e \in Drawers : drawer[e].seen \subseteq Offers
        BY <1>1 DEF PlaceTypes, DrawerRows
    <2>2. ASSUME NEW e \in Drawers
          PROVE  \A t \in drawer[e].seen : HasAnchor(t)' /\ place'[t].anchor \in drawer[e].taken
        BY <1>1, <1>12, <2>1, AskedStays DEF AllAsked
    <2>3. Len(pass'.work) = 0
        BY <1>14
    <2> QED BY <1>4, <2>2, <2>3 DEF AllAsked, Asked
<1>17. ShownStands'
    BY <1>1, <1>4, <1>12 DEF ShownStands, PlacesKept
<1>18. OnePassEach'
    <2> SUFFICES ASSUME NEW t \in Offers, place'[t] # Unset, place'[t].by \in 1..MaxPasses
                 PROVE  place'[t].by <= pass.n
        BY <1>14 DEF OnePassEach
    <2>1. CASE place'[t] = place[t]
        BY <1>1, <2>1 DEF OnePassEach
    <2>2. CASE place'[t] # place[t]
        BY <1>8, <1>10, <1>13, <2>2
    <2> QED BY <2>1, <2>2
<1>19. \A t \in Offers : place[t] # Unset => place[t].by # pass.n
    BY <1>1, <1>2, <1>8 DEF OnePassEach
<1>20. AllApart'
    <2>1. ASSUME NEW x \in Offers, place'[x] # place[x], HasAnchor(x)', NEW t \in place'[x].seen, t \in Offers, t # x
          PROVE  Apart(x, t)'
        <3> DEFINE i == call(x)
        <3>1. at(x) # {} /\ place'[x] = p(x)
            BY <1>13, <2>1
        <3>2. /\ i \in 1..N /\ got[i] # "failed" /\ place'[x].anchor = got[i] /\ t \in work[i].seen
              /\ got[i] # Nothing
            BY <1>7, <1>10, <2>1, <3>1 DEF HasAnchor
        <3> HIDE DEF i
        <3>3. HasAnchor(t) /\ place[t].anchor \in work[i].taken
            BY <1>9, <3>2 DEF Asked
        <3>4. place'[t] = place[t]
            BY <1>12, <2>1, <3>3 DEF PlacesKept, HasAnchor
        <3>5. Casefold[place[t].anchor] # Casefold[got[i]]
            BY <1>5, <3>2, <3>3, OutcomeApart
        <3> QED BY <3>2, <3>3, <3>4, <3>5 DEF Apart, HasAnchor
    <2>2. ASSUME NEW i \in 1..N, NEW j \in 1..N, j < i, SourceOf[work[j].link] = SourceOf[work[i].link],
                 got[i] \notin {Nothing, "failed"}, got[j] \notin {Nothing, "failed"}
          PROVE  Casefold[got[j]] # Casefold[got[i]]
        <3>1. j \in 1..(i - 1) /\ got[j] \in Anchors
            BY <1>2, <1>5, <2>2
        <3>2. got[j] \in GivenBefore(work, got, i)
            BY <2>2, <3>1 DEF GivenBefore
        <3> QED BY <1>5, <2>2, <3>2, OutcomeApart
    <2>3. ASSUME NEW x \in Offers, NEW t \in Offers, x # t, SourceOf[x] = SourceOf[t], place'[x] # place[x],
                 HasAnchor(x)', HasAnchor(t)', place'[x].by = place'[t].by
          PROVE  Casefold[place'[t].anchor] # Casefold[place'[x].anchor]
        <3>1. at(x) # {} /\ place'[x] = p(x) /\ place'[x].by = pass.n
            BY <1>10, <1>13, <2>3
        <3>2. place'[t] # place[t]
            BY <1>19, <2>3, <3>1 DEF HasAnchor
        <3>3. at(t) # {} /\ place'[t] = p(t)
            BY <1>13, <3>2
        <3> DEFINE i == call(x)
                   j == call(t)
        <3>4. /\ i \in 1..N /\ work[i].link = x /\ place'[x].anchor = got[i] /\ got[i] \notin {Nothing, "failed"}
              /\ j \in 1..N /\ work[j].link = t /\ place'[t].anchor = got[j] /\ got[j] \notin {Nothing, "failed"}
            BY <1>7, <1>10, <2>3, <3>1, <3>3 DEF HasAnchor
        <3> HIDE DEF i, j
        <3>5. j < i \/ i < j
            BY <1>2, <2>3, <3>4
        <3> QED BY <2>2, <2>3, <3>4, <3>5
    <2> QED BY <1>1, <1>12, <2>1, <2>3, ApartStep
<1> QED BY <1>15, <1>16, <1>17, <1>18, <1>20 DEF PlaceInv

LEMMA PlaceStep == PlaceInv /\ [PlaceNext]_placeVars => PlaceInv'
<1> SUFFICES ASSUME PlaceInv, [PlaceNext]_placeVars PROVE PlaceInv'
    OBVIOUS
<1>1. ASSUME NEW d \in Drawers, NEW s \in Offers, DrawerOpen(d, s) PROVE PlaceInv'
    BY <1>1, DrawerOpenPlaces
<1>2. ASSUME NEW d \in Drawers, NEW answer \in Anchors \cup {Nothing}, DrawerStore(d, answer) PROVE PlaceInv'
    BY <1>2, DrawerStorePlaces
<1>3. ASSUME NEW d \in Drawers, DrawerFails(d) PROVE PlaceInv'
    BY <1>3, DrawerFailsPlaces
<1>4. ASSUME NEW n \in Budgets, PassRead(n) PROVE PlaceInv'
    BY <1>4, PassReadPlaces
<1>5. CASE PassStore
    BY <1>5, PassStorePlaces
<1>6. ASSUME NEW s \in Offers, NEW status \in {"approved", "rejected", "gone"}, Reviewed(s, status) PROVE PlaceInv'
    BY <1>6, ReviewedPlaces
<1>7. CASE UNCHANGED placeVars
    BY <1>7 DEF placeVars, PlaceInv, PlaceTypes, AllAsked, Asked, ShownStands, OnePassEach, AllApart, Apart, HasAnchor
<1> QED BY <1>1, <1>2, <1>3, <1>4, <1>5, <1>6, <1>7 DEF PlaceNext

\* get_suggestion_placement, store, generate and _generate_for_source: for any
\* number of drawers and passes and any answers of the model, what a drawer has
\* shown is what the row holds; no generation gives out a phrase it knew to be
\* taken, and no pass the same phrase twice within an article.
THEOREM PlacementsAlwaysAgree == PlaceSpec => []PlacementsAgree
<1>1. PlaceInit => PlaceInv
    BY PlaceInitially
<1>2. PlaceInv /\ [PlaceNext]_placeVars => PlaceInv'
    BY PlaceStep
<1>3. PlaceInv => PlacementStands
    BY DEF PlaceInv, ShownStands, PlacementStands
<1>4. PlaceInv => AnchorsApart
    BY DEF PlaceInv, AllApart, Apart, AnchorsApart, Siblings
<1>5. PlaceInv => PlacementsAgree
    BY <1>3, <1>4 DEF PlacementsAgree
<1> QED BY <1>1, <1>2, <1>5, PTL DEF PlaceSpec

------------------------------------------------------------------------------
(* LinkInsertion: every selected target is linked once                     *)

Tally(c, P) == Cardinality({i \in DOMAIN c : c[i] \in P})

LEMMA CountNat ==
    ASSUME NEW A, NEW c \in Seq(A), NEW P
    PROVE  Tally(c, P) \in Nat /\ IsFiniteSet({i \in DOMAIN c : c[i] \in P})
<1>1. IsFiniteSet(1..Len(c)) /\ DOMAIN c = 1..Len(c)
    BY FS_Interval
<1>2. IsFiniteSet({i \in DOMAIN c : c[i] \in P})
    BY <1>1, FS_Subset
<1> QED BY <1>2, FS_CardinalityType DEF Tally

LEMMA CountConcat ==
    ASSUME NEW A, NEW c \in Seq(A), NEW d \in Seq(A), NEW P
    PROVE  Tally(c \o d, P) = Tally(c, P) + Tally(d, P)
<1> DEFINE m == Len(c)
           n == Len(d)
           C == {i \in 1..m : c[i] \in P}
           D == {i \in 1..n : d[i] \in P}
           E == {i \in (m + 1)..(m + n) : d[i - m] \in P}
           f == [i \in D |-> i + m]
<1>1. /\ m \in Nat /\ n \in Nat /\ DOMAIN c = 1..m /\ DOMAIN d = 1..n /\ DOMAIN (c \o d) = 1..(m + n)
      /\ \A i \in 1..(m + n) : (c \o d)[i] = IF i <= m THEN c[i] ELSE d[i - m]
    BY ConcatProperties
<1> HIDE DEF m, n
<1>2. {i \in DOMAIN (c \o d) : (c \o d)[i] \in P} = C \cup E /\ C \cap E = {}
    BY <1>1
<1>3. IsFiniteSet(C) /\ IsFiniteSet(D)
    BY <1>1, CountNat
<1>4. IsFiniteSet(E) /\ Cardinality(E) = Cardinality(D)
    <2>1. f \in Bijection(D, E)
        <3>1. \A i \in D : i + m \in E
            BY <1>1
        <3>2. \A j \in E : j - m \in D /\ (j - m) + m = j
            BY <1>1
        <3>3. \A i, j \in D : i + m = j + m => i = j
            BY <1>1
        <3>4. f \in [D -> E]
            BY <3>1
        <3>8. \A i \in D : f[i] = i + m
            OBVIOUS
        <3> HIDE DEF f, D, E
        <3>5. f \in Injection(D, E)
            BY <3>3, <3>4, <3>8 DEF Injection, IsInjective
        <3>6. \A j \in E : \E i \in D : f[i] = j
            BY <3>2, <3>8
        <3>7. f \in Surjection(D, E)
            BY <3>4, <3>6 DEF Surjection
        <3> QED BY <3>5, <3>7 DEF Bijection
    <2> HIDE DEF f, D, E
    <2> QED BY <1>3, <2>1, FS_Bijection DEF ExistsBijection
<1>5. Tally(c \o d, P) = Cardinality(C \cup E) /\ Tally(c, P) = Cardinality(C) /\ Tally(d, P) = Cardinality(D)
    BY <1>1, <1>2 DEF Tally
<1> HIDE DEF C, D, E
<1>6. Cardinality(C \cup E) = Cardinality(C) + Cardinality(E) - Cardinality(C \cap E)
    BY <1>3, <1>4, FS_Union
<1>7. Cardinality(C \cap E) = 0 /\ Cardinality(C) \in Nat /\ Cardinality(D) \in Nat
    BY <1>2, <1>3, FS_EmptySet, FS_CardinalityType
<1> QED BY <1>4, <1>5, <1>6, <1>7

LEMMA CountOne ==
    ASSUME NEW x, NEW P
    PROVE  Tally(<<x>>, P) = IF x \in P THEN 1 ELSE 0
<1>1. DOMAIN <<x>> = {1} /\ <<x>>[1] = x
    OBVIOUS
<1>2. CASE x \in P
    <2>1. {i \in DOMAIN <<x>> : <<x>>[i] \in P} = {1}
        BY <1>1, <1>2
    <2> QED BY <1>2, <2>1, FS_Singleton DEF Tally
<1>3. CASE x \notin P
    <2>1. {i \in DOMAIN <<x>> : <<x>>[i] \in P} = {}
        BY <1>1, <1>3
    <2> QED BY <1>3, <2>1, FS_EmptySet DEF Tally
<1> QED BY <1>2, <1>3

\* The opening tags LinkMesh writes, into the text and into a block below it.
InText(h) == Link(h, TRUE)
InBlock(h) == Link(h, FALSE)

\* The tokens of a post and of what is written into it for the targets of H.
Alphabet(A, H) ==
    /\ NoHref \notin H
    /\ \A x \in A : x.ours \in BOOLEAN /\ (x.k = "open" /\ x.href # NoHref => x.name = "a")
    /\ EndLink \in A /\ Tag("open", "p") \in A /\ Tag("close", "p") \in A
    /\ \A h \in H : InText(h) \in A /\ InBlock(h) \in A /\ Word(h) \in A
    /\ BuriedLink \in A /\ BuriedEnd \in A
    /\ \A x \in A : x.k = "attr" => Tag("loose", x.name) \in A

OpensTo(A, t) == {x \in A : x.k = "open" /\ x.href = t}
OursIn(A) == {x \in A : x.ours}

LEMMA LinksToCount ==
    ASSUME NEW A, NEW c \in Seq(A), NEW t
    PROVE  LinksTo(c, t) = Tally(c, OpensTo(A, t)) /\ LinksTo(c, t) \in Nat
<1>1. \A i \in DOMAIN c : c[i] \in A
    OBVIOUS
<1>2. {i \in DOMAIN c : c[i].k = "open" /\ c[i].href = t} = {i \in DOMAIN c : c[i] \in OpensTo(A, t)}
    BY <1>1 DEF OpensTo
<1> QED BY <1>2, CountNat DEF LinksTo, Tally

LEMMA OursCount ==
    ASSUME NEW A, NEW c \in Seq(A)
    PROVE  Cardinality(Ours(c)) = Tally(c, OursIn(A)) /\ Cardinality(Ours(c)) \in Nat
<1>1. \A i \in DOMAIN c : c[i] \in A
    OBVIOUS
<1>2. Ours(c) = {i \in DOMAIN c : c[i] \in OursIn(A)}
    BY <1>1 DEF OursIn, Ours
<1> QED BY <1>2, CountNat DEF Tally

\* A page is linked somewhere, and it counts as linked.
LEMMA HrefsFact ==
    ASSUME NEW A, NEW H, Alphabet(A, H), NEW c \in Seq(A), NEW t \in H
    PROVE  t \in Hrefs(c) <=> LinksTo(c, t) # 0
<1> DEFINE at == {i \in DOMAIN c : c[i].k = "open" /\ c[i].href = t}
<1>1. \A i \in DOMAIN c : c[i] \in A
    OBVIOUS
<1>2. IsFiniteSet(at)
    <2>1. IsFiniteSet(1..Len(c)) /\ DOMAIN c = 1..Len(c)
        BY FS_Interval
    <2> QED BY <2>1, FS_Subset
<1>3. t \in Hrefs(c) <=> at # {}
    BY <1>1 DEF Hrefs, Alphabet
<1> HIDE DEF at
<1>4. at = {} <=> Cardinality(at) = 0
    BY <1>2, FS_EmptySet
<1> QED BY <1>3, <1>4 DEF at, LinksTo

\* What is written counts.
LEMMA WrittenFact ==
    ASSUME NEW A, NEW H, Alphabet(A, H), NEW h \in H, NEW t \in H
    PROVE  /\ InText(h) \in OpensTo(A, t) <=> h = t
           /\ InBlock(h) \in OpensTo(A, t) <=> h = t
           /\ EndLink \notin OpensTo(A, t) /\ Word(h) \notin OpensTo(A, t)
           /\ Tag("open", "p") \notin OpensTo(A, t) /\ Tag("close", "p") \notin OpensTo(A, t)
           /\ InText(h) \in OursIn(A) /\ InBlock(h) \notin OursIn(A)
           /\ EndLink \notin OursIn(A) /\ Word(h) \notin OursIn(A)
           /\ Tag("open", "p") \notin OursIn(A) /\ Tag("close", "p") \notin OursIn(A)
<1>1. t # NoHref
    BY DEF Alphabet
<1>2. /\ InText(h) \in OpensTo(A, t) <=> h = t
      /\ InBlock(h) \in OpensTo(A, t) <=> h = t
    BY DEF Alphabet, Link, OpensTo, InText, InBlock
<1>3. /\ EndLink \notin OpensTo(A, t) /\ Word(h) \notin OpensTo(A, t)
      /\ Tag("open", "p") \notin OpensTo(A, t) /\ Tag("close", "p") \notin OpensTo(A, t)
    BY <1>1 DEF Tag, EndLink, Word, OpensTo
<1>4. InText(h) \in OursIn(A) /\ InBlock(h) \notin OursIn(A)
    BY DEF Alphabet, Link, OursIn, InText, InBlock
<1>5. /\ EndLink \notin OursIn(A) /\ Word(h) \notin OursIn(A)
      /\ Tag("open", "p") \notin OursIn(A) /\ Tag("close", "p") \notin OursIn(A)
    BY DEF Tag, EndLink, Word, OursIn
<1> QED BY <1>2, <1>3, <1>4, <1>5

LEMMA CountWrap ==
    ASSUME NEW A, NEW c \in Seq(A), NEW opening \in A, NEW closing \in A, NEW P,
           NEW from \in 1..Len(c), NEW to \in from..Len(c)
    PROVE  /\ Wrap(c, from, to, opening, closing) \in Seq(A)
           /\ Tally(Wrap(c, from, to, opening, closing), P) =
                 Tally(c, P) + Tally(<<opening>>, P) + Tally(<<closing>>, P)
<1> DEFINE n == Len(c)
           a == SubSeq(c, 1, from - 1)
           b == SubSeq(c, from, to)
           d == SubSeq(c, to + 1, n)
           l == <<opening>>
           e == <<closing>>
<1>1. n \in Nat /\ \A i \in 1..n : c[i] \in A
    BY LenProperties
<1>2. a \in Seq(A) /\ b \in Seq(A) /\ d \in Seq(A)
    BY <1>1, SubSeqProperties
<1>3. l \in Seq(A) /\ e \in Seq(A)
    OBVIOUS
<1>4. c = (a \o b) \o d
    <2>4. /\ 1 \in 1..(n + 1) /\ from - 1 \in (1 - 1)..n /\ to \in (from - 1)..n
          /\ to \in (1 - 1)..n /\ n \in to..n
        BY <1>1
    <2>1. SubSeq(c, 1, from - 1) \o SubSeq(c, (from - 1) + 1, to) = SubSeq(c, 1, to)
        BY <2>4, ConcatAdjacentSubSeq
    <2>2. SubSeq(c, 1, to) \o SubSeq(c, to + 1, n) = SubSeq(c, 1, n)
        BY <2>4, ConcatAdjacentSubSeq
    <2>3. SubSeq(c, 1, n) = c /\ (from - 1) + 1 = from
        BY <1>1, SubSeqFull
    <2> QED BY <2>1, <2>2, <2>3
<1>5. Wrap(c, from, to, opening, closing) = (((a \o l) \o b) \o e) \o d
    BY DEF Wrap
<1> HIDE DEF n, a, b, d, l, e
<1>6. a \o b \in Seq(A) /\ a \o l \in Seq(A) /\ (a \o l) \o b \in Seq(A)
    BY <1>2, <1>3, ConcatProperties
<1>7. ((a \o l) \o b) \o e \in Seq(A)
    BY <1>3, <1>6, ConcatProperties
<1>8. (((a \o l) \o b) \o e) \o d \in Seq(A)
    BY <1>2, <1>7, ConcatProperties
<1>9. Tally(c, P) = Tally(a, P) + Tally(b, P) + Tally(d, P)
    <2>1. Tally((a \o b) \o d, P) = Tally(a \o b, P) + Tally(d, P)
        BY <1>2, <1>6, CountConcat
    <2>2. Tally(a \o b, P) = Tally(a, P) + Tally(b, P)
        BY <1>2, CountConcat
    <2> QED BY <1>4, <2>1, <2>2
<1>10. Tally((((a \o l) \o b) \o e) \o d, P) = Tally(a, P) + Tally(l, P) + Tally(b, P) + Tally(e, P) + Tally(d, P)
    <2>1. Tally((((a \o l) \o b) \o e) \o d, P) = Tally(((a \o l) \o b) \o e, P) + Tally(d, P)
        BY <1>2, <1>7, CountConcat
    <2>2. Tally(((a \o l) \o b) \o e, P) = Tally((a \o l) \o b, P) + Tally(e, P)
        BY <1>3, <1>6, CountConcat
    <2>3. Tally((a \o l) \o b, P) = Tally(a \o l, P) + Tally(b, P)
        BY <1>2, <1>6, CountConcat
    <2>4. Tally(a \o l, P) = Tally(a, P) + Tally(l, P)
        BY <1>2, <1>3, CountConcat
    <2> QED BY <2>1, <2>2, <2>3, <2>4
<1>11. /\ Tally(a, P) \in Nat /\ Tally(b, P) \in Nat /\ Tally(d, P) \in Nat
       /\ Tally(l, P) \in Nat /\ Tally(e, P) \in Nat
    <2>1. \A s \in Seq(A) : Tally(s, P) \in Nat
        BY CountNat
    <2> QED BY <1>2, <1>3, <2>1
<1> DEFINE x == Tally(c, P)
           z == Tally((((a \o l) \o b) \o e) \o d, P)
           pa == Tally(a, P)
           pb == Tally(b, P)
           pd == Tally(d, P)
           pl == Tally(l, P)
           pe == Tally(e, P)
<1>12. z = x + pl + pe
    <2> HIDE DEF x, z, pa, pb, pd, pl, pe
    <2> QED BY <1>9, <1>10, <1>11 DEF x, z, pa, pb, pd, pl, pe
<1> QED BY <1>5, <1>8, <1>12 DEF l, e

LEMMA CountSplice ==
    ASSUME NEW A, NEW H, Alphabet(A, H), NEW c \in Seq(A), NEW h \in H, NEW P,
           NEW from \in 1..Len(c), NEW to \in from..Len(c)
    PROVE  /\ Splice(c, from, to, h) \in Seq(A)
           /\ Tally(Splice(c, from, to, h), P) =
                 Tally(c, P) + Tally(<<InText(h)>>, P) + Tally(<<EndLink>>, P)
<1>1. Splice(c, from, to, h) = Wrap(c, from, to, InText(h), EndLink)
    BY DEF Splice, InText
<1>2. InText(h) \in A /\ EndLink \in A
    BY DEF Alphabet
<1> QED BY <1>1, <1>2, CountWrap

LEMMA CountBlock ==
    ASSUME NEW A, NEW H, Alphabet(A, H), NEW c \in Seq(A), NEW h \in H, NEW P,
           Tag("open", "p") \notin P, Word(h) \notin P, EndLink \notin P, Tag("close", "p") \notin P
    PROVE  /\ c \o ReadAlso(h, h) \in Seq(A)
           /\ Tally(c \o ReadAlso(h, h), P) = Tally(c, P) + Tally(<<InBlock(h)>>, P)
<1> DEFINE p == Tag("open", "p")
           l == InBlock(h)
           w == Word(h)
           e == EndLink
           q == Tag("close", "p")
           block == <<p, l, w, e, q>>
<1>1. p \in A /\ l \in A /\ w \in A /\ e \in A /\ q \in A
    BY DEF Alphabet
<1>2. ReadAlso(h, h) = block
    BY DEF ReadAlso, InBlock
<1>3. p \notin P /\ w \notin P /\ e \notin P /\ q \notin P
    OBVIOUS
<1> HIDE DEF p, l, w, e, q
<1>4. block \in Seq(A)
    BY <1>1
<1>5. DOMAIN block = 1..5 /\ block[1] = p /\ block[2] = l /\ block[3] = w /\ block[4] = e /\ block[5] = q
    OBVIOUS
<1>6. Tally(block, P) = IF l \in P THEN 1 ELSE 0
    <2> HIDE DEF block
    <2>1. \A i \in 1..5 : i = 1 \/ i = 2 \/ i = 3 \/ i = 4 \/ i = 5
        OBVIOUS
    <2>2. \A i \in 1..5 : block[i] \in P <=> i = 2 /\ l \in P
        BY <1>3, <1>5, <2>1
    <2>3. {i \in DOMAIN block : block[i] \in P} = IF l \in P THEN {2} ELSE {}
        BY <1>5, <2>2
    <2> QED BY <2>3, FS_EmptySet, FS_Singleton DEF Tally
<1>7. Tally(<<l>>, P) = IF l \in P THEN 1 ELSE 0
    BY CountOne
<1> HIDE DEF block
<1>8. c \o block \in Seq(A) /\ Tally(c \o block, P) = Tally(c, P) + Tally(block, P)
    BY <1>4, ConcatProperties, CountConcat
<1> QED BY <1>2, <1>6, <1>7, <1>8 DEF l

LEMMA LeastPlace ==
    ASSUME NEW S, S \subseteq Nat, S # {}
    PROVE  (CHOOSE i \in S : \A j \in S : i <= j) \in S
<1> DEFINE R == OpToRel(<, Nat)
<1>1. IsWellFoundedOn(R, Nat)
    BY NatLessThanWellFounded
<1>2. R = {ss \in Nat \X Nat : ss[1] < ss[2]}
    BY DEF OpToRel
<1> HIDE DEF R
<1>3. PICK x \in S : \A y \in S : ~(<<y, x>> \in R)
    BY <1>1, WFMin
<1>5. \A y, z \in Nat : <<y, z>> \in R <=> y < z
    BY <1>2
<1>4. \A y \in S : x <= y
    <2> TAKE y \in S
    <2>1. x \in Nat /\ y \in Nat
        BY <1>3
    <2>2. ~(y < x)
        BY <1>3, <1>5, <2>1
    <2> QED BY <2>1, <2>2
<1> QED BY <1>4

\* Where the anchor was found it stands, whole.
LEMMA MatchesFact ==
    ASSUME NEW A, NEW c \in Seq(A), NEW anchor
    PROVE  Matches(c, anchor) \subseteq {i \in 1..Len(c) : Occurs(c, anchor, i)}
<1> DEFINE N == Len(c)
           places == {i \in 1..N : Occurs(c, anchor, i)}
           W == SUBSET places
           scan(F, n) == Scan(c, anchor, F, n)
           step == [s \in (1..N) \X W |-> scan(s[2], s[1])]
           g == CHOOSE f : f = [n \in 0..N |-> IF n = 0 THEN {} ELSE scan(f[n - 1], n)]
<1>1. N \in Nat
    OBVIOUS
<1>2. Matches(c, anchor) = g[N]
    BY DEF Matches
<1>3. \A n \in 1..N, F \in W : scan(F, n) \in W
    BY DEF Scan
<1> HIDE DEF N, W, scan
<1>4. step \in [(1..N) \X W -> W] /\ \A n \in 1..N, F \in W : step[<<n, F>>] = scan(F, n)
    BY <1>3
<1>5. {} \in W
    BY DEF W
<1> HIDE DEF step
<1>6. PICK f \in [0..N -> W] : Iteration(f, N, {}, step)
    BY <1>1, <1>4, <1>5, Iterates
<1>7. f = [n \in 0..N |-> IF n = 0 THEN {} ELSE scan(f[n - 1], n)]
    <2>1. ASSUME NEW n \in 0..N PROVE f[n] = IF n = 0 THEN {} ELSE scan(f[n - 1], n)
        <3>1. CASE n = 0
            BY <1>6, <3>1 DEF Iteration
        <3>2. CASE n # 0
            <4>1. n \in 1..N /\ n - 1 \in 0..N
                BY <1>1, <3>2
            <4>2. f[n] = step[<<n, f[n - 1]>>] /\ f[n - 1] \in W
                BY <1>6, <4>1 DEF Iteration
            <4> QED BY <1>4, <3>2, <4>1, <4>2
        <3> QED BY <3>1, <3>2
    <2> QED BY <2>1
<1>8. g = [n \in 0..N |-> IF n = 0 THEN {} ELSE scan(g[n - 1], n)]
    BY <1>7
<1> HIDE DEF g
<1> DEFINE S == {n \in 0..N : g[n] \in W}
<1>9. 0 \in S
    BY <1>1, <1>5, <1>8
<1>10. ASSUME NEW n \in 0..(N - 1), n \in S PROVE n + 1 \in S
    <2>1. n + 1 \in 1..N /\ (n + 1) - 1 = n /\ n + 1 \in 0..N /\ n + 1 # 0
        BY <1>1
    <2>2. g[n + 1] = scan(g[n], n + 1)
        BY <1>8, <2>1
    <2> QED BY <1>3, <1>10, <2>1, <2>2
<1>11. N \in S
    <2> HIDE DEF S
    <2>1. \A n \in 0..(N - 1) : n \in S => n + 1 \in S
        BY <1>10
    <2>2. 0..N \subseteq S
        BY <1>1, <1>9, <2>1, UpTo
    <2> QED BY <1>1, <2>2
<1> QED BY <1>2, <1>11 DEF W, N

LEMMA SpanFact ==
    ASSUME NEW A, NEW c \in Seq(A), NEW B, NEW anchor \in Seq(B), anchor # <<>>,
           NEW i \in 1..Len(c), Occurs(c, anchor, i)
    PROVE  i + Len(anchor) - 1 \in i..Len(c)
<1>1. Len(anchor) \in Nat \ {0} /\ Len(c) \in Nat
    BY EmptySeq
<1> QED BY <1>1 DEF Occurs

LEMMA AnchorSpanFact ==
    ASSUME NEW A, NEW c \in Seq(A), NEW anchor, AnchorSpan(c, anchor) # 0
    PROVE  AnchorSpan(c, anchor) \in 1..Len(c) /\ Occurs(c, anchor, AnchorSpan(c, anchor))
<1> DEFINE S == Spans(c, anchor)
<1>1. AnchorSpan(c, anchor) = CHOOSE i \in S : TRUE
    BY DEF AnchorSpan
<1>2. Cardinality(S) = 1
    BY DEF AnchorSpan
<1>3. S # {}
    <2> HIDE DEF S
    <2>1. Cardinality({}) = 0
        BY FS_EmptySet
    <2>2. ASSUME S = {} PROVE FALSE
        <3>1. Cardinality(S) = 0
            BY <2>1, <2>2, Zenon
        <3> QED BY <1>2, <3>1
    <2> QED BY <2>2
<1>4. S \subseteq Matches(c, anchor)
    BY DEF Spans
<1> HIDE DEF S
<1>5. AnchorSpan(c, anchor) \in Matches(c, anchor)
    BY <1>1, <1>3, <1>4
<1> QED BY <1>5, MatchesFact

\* One more link to h and no other; with or without the mark of LinkMesh.
Written(A, H, c, d, h, mark) ==
    /\ d \in Seq(A)
    /\ \A t \in H : LinksTo(d, t) = LinksTo(c, t) + (IF t = h THEN 1 ELSE 0)
    /\ Cardinality(Ours(d)) = Cardinality(Ours(c)) + (IF mark THEN 1 ELSE 0)

LEMMA SpliceWrites ==
    ASSUME NEW A, NEW H, Alphabet(A, H), NEW c \in Seq(A), NEW h \in H,
           NEW from \in 1..Len(c), NEW to \in from..Len(c)
    PROVE  Written(A, H, c, Splice(c, from, to, h), h, TRUE)
<1> DEFINE d == Splice(c, from, to, h)
<1>1. d \in Seq(A)
    BY CountSplice
<1>2. ASSUME NEW P PROVE Tally(d, P) = Tally(c, P) + Tally(<<InText(h)>>, P) + Tally(<<EndLink>>, P)
    BY CountSplice
<1> HIDE DEF d
<1>3. ASSUME NEW t \in H PROVE LinksTo(d, t) = LinksTo(c, t) + (IF t = h THEN 1 ELSE 0)
    <2> DEFINE P == OpensTo(A, t)
    <2>1. LinksTo(d, t) = Tally(d, P) /\ LinksTo(c, t) = Tally(c, P) /\ LinksTo(c, t) \in Nat
        BY <1>1, LinksToCount
    <2>2. Tally(<<InText(h)>>, P) = (IF t = h THEN 1 ELSE 0) /\ Tally(<<EndLink>>, P) = 0
        BY CountOne, WrittenFact
    <2> HIDE DEF P
    <2>3. Tally(d, P) = Tally(c, P) + Tally(<<InText(h)>>, P) + Tally(<<EndLink>>, P)
        BY <1>2
    <2> QED BY <2>1, <2>2, <2>3
<1>4. Cardinality(Ours(d)) = Cardinality(Ours(c)) + 1
    <2> DEFINE P == OursIn(A)
    <2>1. Cardinality(Ours(d)) = Tally(d, P) /\ Cardinality(Ours(c)) = Tally(c, P) /\ Cardinality(Ours(c)) \in Nat
        BY <1>1, OursCount
    <2>2. Tally(<<InText(h)>>, P) = 1 /\ Tally(<<EndLink>>, P) = 0
        BY CountOne, WrittenFact
    <2> HIDE DEF P
    <2>3. Tally(d, P) = Tally(c, P) + Tally(<<InText(h)>>, P) + Tally(<<EndLink>>, P)
        BY <1>2
    <2> QED BY <2>1, <2>2, <2>3
<1> QED BY <1>1, <1>3, <1>4 DEF Written, d

LEMMA BlockWrites ==
    ASSUME NEW A, NEW H, Alphabet(A, H), NEW c \in Seq(A), NEW h \in H
    PROVE  Written(A, H, c, c \o ReadAlso(h, h), h, FALSE)
<1> DEFINE d == c \o ReadAlso(h, h)
<1>1. d \in Seq(A)
    <2> DEFINE P == {}
    <2>1. Tag("open", "p") \notin P /\ Word(h) \notin P /\ EndLink \notin P /\ Tag("close", "p") \notin P
        OBVIOUS
    <2> HIDE DEF P
    <2> QED BY <2>1, CountBlock DEF d
<1>2. ASSUME NEW P, Tag("open", "p") \notin P, Word(h) \notin P, EndLink \notin P, Tag("close", "p") \notin P
      PROVE  Tally(d, P) = Tally(c, P) + Tally(<<InBlock(h)>>, P)
    BY <1>2, CountBlock
<1> HIDE DEF d
<1>3. ASSUME NEW t \in H PROVE LinksTo(d, t) = LinksTo(c, t) + (IF t = h THEN 1 ELSE 0)
    <2> DEFINE P == OpensTo(A, t)
    <2>1. LinksTo(d, t) = Tally(d, P) /\ LinksTo(c, t) = Tally(c, P) /\ LinksTo(c, t) \in Nat
        BY <1>1, LinksToCount
    <2>2. Tally(<<InBlock(h)>>, P) = (IF t = h THEN 1 ELSE 0)
        BY CountOne, WrittenFact
    <2>3. Tally(d, P) = Tally(c, P) + Tally(<<InBlock(h)>>, P)
        BY <1>2, WrittenFact
    <2> HIDE DEF P
    <2> QED BY <2>1, <2>2, <2>3
<1>4. Cardinality(Ours(d)) = Cardinality(Ours(c)) + 0
    <2> DEFINE P == OursIn(A)
    <2>1. Cardinality(Ours(d)) = Tally(d, P) /\ Cardinality(Ours(c)) = Tally(c, P) /\ Cardinality(Ours(c)) \in Nat
        BY <1>1, OursCount
    <2>2. Tally(<<InBlock(h)>>, P) = 0
        BY CountOne, WrittenFact
    <2>3. Tally(d, P) = Tally(c, P) + Tally(<<InBlock(h)>>, P)
        BY <1>2, WrittenFact
    <2> HIDE DEF P
    <2> QED BY <2>1, <2>2, <2>3
<1> QED BY <1>1, <1>3, <1>4 DEF Written, d

LinkChoices(H, B) == [target : H, anchor : Seq(B), title : Seq(B)]

\* A target that is not linked yet is linked once, nothing else changes, and no
\* link goes into the text of an article that has its limit of them.
WritesOnce(A, H, c, d, h) ==
    /\ d \in Seq(A)
    /\ \A t \in H : LinksTo(d, t) = IF t = h /\ LinksTo(c, t) = 0 THEN 1 ELSE LinksTo(c, t)

KeepsLinks(A, H, c, d) ==
    /\ d \in Seq(A)
    /\ \A t \in H : LinksTo(d, t) = LinksTo(c, t)

WithinLimit(c, d) ==
    Cardinality(Ours(d)) <= MaxInText \/ Cardinality(Ours(d)) = Cardinality(Ours(c))

LEMMA WrittenOnce ==
    ASSUME NEW A, NEW H, NEW c \in Seq(A), NEW d, NEW h \in H, NEW mark, Written(A, H, c, d, h, mark),
           LinksTo(c, h) = 0
    PROVE  WritesOnce(A, H, c, d, h)
<1>1. \A t \in H : LinksTo(c, t) \in Nat
    BY LinksToCount
<1> QED BY <1>1 DEF Written, WritesOnce

\* A link that goes into markup changes no other.
LEMMA BuryKeeps ==
    ASSUME NEW A, NEW H, Alphabet(A, H), NEW c \in Seq(A), NEW from \in 1..Len(c), NEW to \in from..Len(c)
    PROVE  KeepsLinks(A, H, c, Bury(c, from, to))
<1> DEFINE e == Freed(c, from)
           d == Bury(c, from, to)
           n == Len(c)
<1>1. n \in Nat /\ DOMAIN c = 1..n /\ \A i \in 1..n : c[i] \in A
    OBVIOUS
<1>2. /\ e = [i \in 1..n |-> e[i]]
      /\ \A i \in 1..n : e[i] = c[i] \/ (c[i].k = "attr" /\ e[i] = Tag("loose", c[i].name))
    BY <1>1 DEF Freed
<1> HIDE DEF e
<1>3. e \in Seq(A) /\ Len(e) = n
    <2>1. \A i \in 1..n : e[i] \in A
        BY <1>1, <1>2 DEF Alphabet
    <2>2. e \in [1..n -> A]
        BY <1>2, <2>1
    <2> QED BY <1>1, <2>2
<1>4. ASSUME NEW t PROVE LinksTo(e, t) = LinksTo(c, t)
    <2>1. ASSUME NEW i \in 1..n PROVE e[i].k = "open" /\ e[i].href = t <=> c[i].k = "open" /\ c[i].href = t
        BY <1>2 DEF Tag
    <2>2. DOMAIN e = 1..n
        BY <1>1, <1>3
    <2>3. {i \in DOMAIN e : e[i].k = "open" /\ e[i].href = t} = {i \in DOMAIN c : c[i].k = "open" /\ c[i].href = t}
        BY <1>1, <2>1, <2>2
    <2> QED BY <2>3 DEF LinksTo
<1>5. d = Wrap(e, from, to, BuriedLink, BuriedEnd)
    BY DEF Bury, e
<1>6. BuriedLink \in A /\ BuriedEnd \in A
    BY DEF Alphabet
<1>7. from \in 1..Len(e) /\ to \in from..Len(e)
    BY <1>3
<1>8. d \in Seq(A)
    BY <1>3, <1>5, <1>6, <1>7, CountWrap
<1>9. ASSUME NEW t \in H PROVE LinksTo(d, t) = LinksTo(c, t)
    <2> DEFINE P == OpensTo(A, t)
    <2>1. BuriedLink \notin P /\ BuriedEnd \notin P
        BY DEF OpensTo, BuriedLink, BuriedEnd, Tag
    <2>2. LinksTo(d, t) = Tally(d, P) /\ LinksTo(e, t) = Tally(e, P) /\ LinksTo(e, t) \in Nat
        BY <1>3, <1>8, LinksToCount
    <2> HIDE DEF P, d
    <2>3. Tally(<<BuriedLink>>, P) = 0 /\ Tally(<<BuriedEnd>>, P) = 0
        BY <2>1, CountOne
    <2>4. Tally(d, P) = Tally(e, P) + Tally(<<BuriedLink>>, P) + Tally(<<BuriedEnd>>, P)
        BY <1>3, <1>5, <1>6, <1>7, CountWrap
    <2> QED BY <1>4, <2>2, <2>3, <2>4
<1> QED BY <1>8, <1>9 DEF KeepsLinks

LEMMA InsertWrites ==
    ASSUME MaxInText \in Nat, NEW A, NEW H, Alphabet(A, H), NEW c \in Seq(A), NEW B, NEW s \in LinkChoices(H, B),
           LinksTo(c, s.target) = 0
    PROVE  WritesOnce(A, H, c, InsertLink(c, s).content, s.target) /\ WithinLimit(c, InsertLink(c, s).content)
<1> DEFINE h == s.target
           anchor == s.anchor
           from == IF anchor # <<>> /\ ~AtLimit(c) THEN AnchorSpan(c, anchor) ELSE 0
           to == from + Len(anchor) - 1
           d == InsertLink(c, s).content
<1>1. h \in H /\ anchor \in Seq(B)
    BY DEF LinkChoices
<1>2. d = IF from # 0 /\ ~Crowds(c, from, to) THEN Splice(c, from, to, h) ELSE c \o ReadAlso(h, h)
    BY DEF InsertLink
<1>3. Cardinality(Ours(c)) \in Nat
    BY OursCount
<1> SUFFICES WritesOnce(A, H, c, d, h) /\ WithinLimit(c, d)
    OBVIOUS
<1>4. CASE from # 0 /\ ~Crowds(c, from, to)
    <2>1. anchor # <<>> /\ ~AtLimit(c) /\ from = AnchorSpan(c, anchor)
        BY <1>4
    <2>2. from \in 1..Len(c) /\ Occurs(c, anchor, from)
        <3>1. AnchorSpan(c, anchor) # 0
            BY <1>4, <2>1
        <3> HIDE DEF anchor, from
        <3> QED BY <2>1, <3>1, AnchorSpanFact
    <2>3. to \in from..Len(c)
        <3> HIDE DEF anchor, from
        <3> QED BY <1>1, <2>1, <2>2, SpanFact
    <2>4. d = Splice(c, from, to, h)
        BY <1>2, <1>4
    <2> HIDE DEF from, to, d, h, anchor
    <2>5. Written(A, H, c, d, h, TRUE)
        BY <1>1, <2>2, <2>3, <2>4, SpliceWrites
    <2>6. WritesOnce(A, H, c, d, h)
        BY <1>1, <2>5, WrittenOnce DEF h
    <2>7. WithinLimit(c, d)
        BY <1>3, <2>1, <2>5 DEF Written, WithinLimit, AtLimit
    <2> QED BY <2>6, <2>7
<1>5. CASE ~(from # 0 /\ ~Crowds(c, from, to))
    <2>1. d = c \o ReadAlso(h, h)
        BY <1>2, <1>5
    <2> HIDE DEF from, to, d, h, anchor
    <2>2. Written(A, H, c, d, h, FALSE)
        BY <1>1, <2>1, BlockWrites
    <2>3. WritesOnce(A, H, c, d, h)
        BY <1>1, <2>2, WrittenOnce DEF h
    <2>4. WithinLimit(c, d)
        BY <1>3, <2>2 DEF Written, WithinLimit
    <2> QED BY <2>3, <2>4
<1> QED BY <1>4, <1>5

\* The links of a run, written one after the other.
LEMMA FoundOnceEach ==
    ASSUME NEW A, NEW H, NEW B, NEW selected \in Seq(LinkChoices(H, B)), NEW f, NEW lost,
           f[0] \in Seq(A),
           \A n \in 1..Len(selected) :
              IF n \in lost THEN KeepsLinks(A, H, f[n - 1], f[n])
              ELSE WritesOnce(A, H, f[n - 1], f[n], selected[n].target)
    PROVE  EachFoundLinkedOnce(f[0], selected, f[Len(selected)], lost)
<1> DEFINE N == Len(selected)
           links(n, t) == LinksTo(f[n], t)
           named(n, t) == \E k \in 1..n : selected[k].target = t /\ k \notin lost
           S == {n \in 0..N : /\ f[n] \in Seq(A)
                              /\ \A t \in H : links(n, t) = IF links(0, t) = 0 /\ named(n, t) THEN 1 ELSE links(0, t)}
<1>1. N \in Nat /\ DOMAIN selected = 1..N /\ \A n \in 1..N : selected[n] \in LinkChoices(H, B)
    OBVIOUS
<1>2. \A n \in 1..N : selected[n].target \in H
    BY <1>1 DEF LinkChoices
<1> HIDE DEF N
<1>3. 0 \in S
    BY <1>1
<1>4. ASSUME NEW n \in 0..(N - 1), n \in S PROVE n + 1 \in S
    <2>1. n + 1 \in 1..N /\ (n + 1) - 1 = n /\ n + 1 \in 0..N
        BY <1>1
    <2>2. IF n + 1 \in lost THEN KeepsLinks(A, H, f[n], f[n + 1])
          ELSE WritesOnce(A, H, f[n], f[n + 1], selected[n + 1].target)
        BY <2>1 DEF N
    <2>3. f[n + 1] \in Seq(A)
        BY <2>2 DEF WritesOnce, KeepsLinks
    <2>4. ASSUME NEW t \in H
          PROVE  links(n + 1, t) = IF links(0, t) = 0 /\ named(n + 1, t) THEN 1 ELSE links(0, t)
        <3> DEFINE lands == t = selected[n + 1].target /\ n + 1 \notin lost
        <3>1. links(n + 1, t) = IF lands /\ links(n, t) = 0 THEN 1 ELSE links(n, t)
            BY <2>2 DEF WritesOnce, KeepsLinks
        <3>2. links(n, t) = IF links(0, t) = 0 /\ named(n, t) THEN 1 ELSE links(0, t)
            BY <1>4
        <3>3. named(n + 1, t) <=> named(n, t) \/ lands
            <4>1. \A k \in 1..(n + 1) : k \in 1..n \/ k = n + 1
                OBVIOUS
            <4>2. 1..n \subseteq 1..(n + 1) /\ n + 1 \in 1..(n + 1)
                OBVIOUS
            <4> QED BY <4>1, <4>2
        <3> HIDE DEF links, named, lands
        <3> QED BY <3>1, <3>2, <3>3
    <2> QED BY <2>1, <2>3, <2>4
<1>5. N \in S
    <2> HIDE DEF S
    <2>1. \A n \in 0..(N - 1) : n \in S => n + 1 \in S
        BY <1>4
    <2>2. 0..N \subseteq S
        BY <1>1, <1>3, <2>1, UpTo
    <2> QED BY <1>1, <2>2
<1>6. ASSUME NEW k \in 1..N
      PROVE  LET t == selected[k].target
             IN  links(N, t) = IF links(0, t) = 0 /\ named(N, t) THEN 1 ELSE links(0, t)
    BY <1>2, <1>5
<1> QED BY <1>1, <1>6 DEF EachFoundLinkedOnce, N

LEMMA OnceEach ==
    ASSUME NEW A, NEW H, NEW B, NEW selected \in Seq(LinkChoices(H, B)), NEW f,
           f[0] \in Seq(A),
           \A n \in 1..Len(selected) : WritesOnce(A, H, f[n - 1], f[n], selected[n].target)
    PROVE  EachLinkedOnce(f[0], selected, f[Len(selected)])
<1>1. EachFoundLinkedOnce(f[0], selected, f[Len(selected)], {})
    BY FoundOnceEach
<1> QED BY <1>1 DEF EachLinkedOnce, EachFoundLinkedOnce

-----------------------------------------------------------------------------
\* preview_links, link by link: what counts as linked is what is linked.
Said == {"already_present", "inserted", "block"}
PreviewStates(A, H, X) ==
    {so \in [content : Seq(A), existing : SUBSET (H \cup X), outcomes : Seq(Said)] :
        \A t \in H : t \in so.existing <=> LinksTo(so.content, t) # 0}

LEMMA PreviewStepFact ==
    ASSUME MaxInText \in Nat, NEW A, NEW H, Alphabet(A, H), NEW B, NEW X, NEW so \in PreviewStates(A, H, X),
           NEW s \in LinkChoices(H, B)
    PROVE  /\ PreviewStep(so, s) \in PreviewStates(A, H, X)
           /\ WritesOnce(A, H, so.content, PreviewStep(so, s).content, s.target)
           /\ WithinLimit(so.content, PreviewStep(so, s).content)
<1> DEFINE c == so.content
           h == s.target
           v == PreviewStep(so, s)
           d == v.content
<1>1. h \in H
    BY DEF LinkChoices
<1>2. /\ so \in [content : Seq(A), existing : SUBSET (H \cup X), outcomes : Seq(Said)]
      /\ \A t \in H : t \in so.existing <=> LinksTo(c, t) # 0
    BY DEF PreviewStates
<1>3. c \in Seq(A) /\ so.existing \subseteq H \cup X /\ so.outcomes \in Seq(Said)
    BY <1>2
<1> SUFFICES v \in PreviewStates(A, H, X) /\ WritesOnce(A, H, c, d, h) /\ WithinLimit(c, d)
    OBVIOUS
<1>4. CASE h \in so.existing
    <2>1. v = [so EXCEPT !.outcomes = Append(so.outcomes, "already_present")]
        BY <1>4 DEF PreviewStep
    <2>2. Append(so.outcomes, "already_present") \in Seq(Said)
        BY <1>3, AppendProperties DEF Said
    <2>3. v.content = c /\ v.existing = so.existing
          /\ v \in [content : Seq(A), existing : SUBSET (H \cup X), outcomes : Seq(Said)]
        BY <1>2, <2>1, <2>2
    <2>4. LinksTo(c, h) # 0
        BY <1>1, <1>2, <1>4
    <2> HIDE DEF v, c, h
    <2>5. v \in PreviewStates(A, H, X)
        BY <1>2, <2>3 DEF PreviewStates
    <2>6. WritesOnce(A, H, c, d, h)
        BY <1>3, <2>3, <2>4 DEF WritesOnce
    <2>7. WithinLimit(c, d)
        BY <2>3 DEF WithinLimit
    <2> QED BY <2>5, <2>6, <2>7
<1>5. CASE h \notin so.existing
    <2> DEFINE r == InsertLink(c, s)
    <2>1. v = [content |-> r.content, existing |-> so.existing \cup {h}, outcomes |-> Append(so.outcomes, r.outcome)]
        BY <1>5 DEF PreviewStep, Linked
    <2>2. LinksTo(c, h) = 0
        BY <1>1, <1>2, <1>5
    <2>3. r.outcome \in Said
        BY DEF InsertLink, Said
    <2>4. WritesOnce(A, H, c, r.content, h) /\ WithinLimit(c, r.content)
        BY <1>3, <2>2, InsertWrites
    <2> HIDE DEF r, v, c, h
    <2>5. /\ d = r.content /\ v.existing = so.existing \cup {h}
          /\ v.outcomes = Append(so.outcomes, r.outcome)
        BY <2>1
    <2>6. Append(so.outcomes, r.outcome) \in Seq(Said)
        BY <1>3, <2>3, AppendProperties
    <2>7. r.content \in Seq(A)
        BY <2>4 DEF WritesOnce
    <2>8. v \in [content : Seq(A), existing : SUBSET (H \cup X), outcomes : Seq(Said)]
        BY <1>1, <1>3, <2>1, <2>6, <2>7
    <2>9. \A t \in H : t \in v.existing <=> LinksTo(v.content, t) # 0
        BY <1>2, <2>4, <2>5 DEF WritesOnce
    <2>10. v \in PreviewStates(A, H, X)
        BY <2>8, <2>9 DEF PreviewStates
    <2> QED BY <2>4, <2>5, <2>10
<1> QED BY <1>4, <1>5

LEMMA PreviewFact ==
    ASSUME MaxInText \in Nat, NEW A, NEW H, Alphabet(A, H), NEW B, NEW post \in Seq(A),
           NEW selected \in Seq(LinkChoices(H, B))
    PROVE  /\ EachLinkedOnce(post, selected, Preview(post, selected).content)
           /\ WithinLimit(post, Preview(post, selected).content)
<1> DEFINE N == Len(selected)
           X == Hrefs(post)
           W == PreviewStates(A, H, X)
           w == [content |-> post, existing |-> Hrefs(post), outcomes |-> <<>>]
           step == [x \in (1..N) \X W |-> PreviewStep(x[2], selected[x[1]])]
           g == CHOOSE f : f = [n \in 0..N |-> IF n = 0 THEN w ELSE PreviewStep(f[n - 1], selected[n])]
           cs == [n \in 0..N |-> g[n].content]
           S == {n \in 0..N : g[n] \in W /\ WithinLimit(post, g[n].content)}
<1>1. N \in Nat /\ \A n \in 1..N : selected[n] \in LinkChoices(H, B)
    OBVIOUS
<1>2. Preview(post, selected) = g[N]
    BY DEF Preview
<1>3. w \in W
    <2>1. w \in [content : Seq(A), existing : SUBSET (H \cup X), outcomes : Seq(Said)]
        OBVIOUS
    <2>2. \A t \in H : t \in Hrefs(post) <=> LinksTo(post, t) # 0
        BY HrefsFact
    <2> QED BY <2>1, <2>2 DEF PreviewStates
<1>4. w.content = post
    OBVIOUS
<1> HIDE DEF N, W, w
<1>5. \A n \in 1..N, so \in W :
          /\ PreviewStep(so, selected[n]) \in W
          /\ WritesOnce(A, H, so.content, PreviewStep(so, selected[n]).content, selected[n].target)
          /\ WithinLimit(so.content, PreviewStep(so, selected[n]).content)
    BY <1>1, PreviewStepFact DEF W
<1>6. step \in [(1..N) \X W -> W] /\ \A n \in 1..N, so \in W : step[<<n, so>>] = PreviewStep(so, selected[n])
    BY <1>5
<1> HIDE DEF step
<1>7. PICK f \in [0..N -> W] : Iteration(f, N, w, step)
    BY <1>1, <1>3, <1>6, Iterates
<1>8. f = [n \in 0..N |-> IF n = 0 THEN w ELSE PreviewStep(f[n - 1], selected[n])]
    <2>1. ASSUME NEW n \in 0..N PROVE f[n] = IF n = 0 THEN w ELSE PreviewStep(f[n - 1], selected[n])
        <3>1. CASE n = 0
            BY <1>7, <3>1 DEF Iteration
        <3>2. CASE n # 0
            <4>1. n \in 1..N /\ n - 1 \in 0..N
                BY <1>1, <3>2
            <4>2. f[n] = step[<<n, f[n - 1]>>] /\ f[n - 1] \in W
                BY <1>7, <4>1 DEF Iteration
            <4> QED BY <1>6, <3>2, <4>1, <4>2
        <3> QED BY <3>1, <3>2
    <2> QED BY <2>1
<1>9. g = [n \in 0..N |-> IF n = 0 THEN w ELSE PreviewStep(g[n - 1], selected[n])]
    BY <1>8
<1> HIDE DEF g
<1>10. g[0] = w /\ \A n \in 1..N : g[n] = PreviewStep(g[n - 1], selected[n])
    BY <1>1, <1>9
<1>11. 0 \in S
    BY <1>1, <1>3, <1>4, <1>10 DEF WithinLimit
<1>12. ASSUME NEW n \in 0..(N - 1), n \in S PROVE n + 1 \in S
    <2>1. n + 1 \in 1..N /\ (n + 1) - 1 = n /\ n + 1 \in 0..N
        BY <1>1
    <2>2. g[n + 1] = PreviewStep(g[n], selected[n + 1])
        BY <1>10, <2>1
    <2>3. g[n + 1] \in W /\ WithinLimit(g[n].content, g[n + 1].content)
        BY <1>5, <1>12, <2>1, <2>2
    <2>4. WithinLimit(post, g[n + 1].content)
        BY <1>12, <2>3 DEF WithinLimit
    <2> QED BY <2>1, <2>3, <2>4
<1>13. 0..N \subseteq S
    <2> HIDE DEF S
    <2>1. \A n \in 0..(N - 1) : n \in S => n + 1 \in S
        BY <1>12
    <2> QED BY <1>1, <1>11, <2>1, UpTo
<1>14. \A n \in 1..N : WritesOnce(A, H, cs[n - 1], cs[n], selected[n].target)
    <2> TAKE n \in 1..N
    <2>1. n - 1 \in 0..N /\ n \in 0..N
        BY <1>1
    <2>2. g[n - 1] \in W /\ g[n] = PreviewStep(g[n - 1], selected[n])
        BY <1>10, <1>13, <2>1
    <2>3. WritesOnce(A, H, g[n - 1].content, g[n].content, selected[n].target)
        BY <1>5, <2>2
    <2> QED BY <2>1, <2>3
<1>15. cs[0] = post /\ cs[N] = g[N].content
    BY <1>1, <1>4, <1>10
<1> HIDE DEF cs, S
<1>16. EachLinkedOnce(cs[0], selected, cs[Len(selected)])
    BY <1>14, <1>15, OnceEach DEF N
<1>17. WithinLimit(post, g[N].content)
    BY <1>1, <1>13 DEF S
<1> QED BY <1>2, <1>15, <1>16, <1>17 DEF N

-----------------------------------------------------------------------------
\* The static-site export.
StaticStates(A) == [content : Seq(A), outcomes : Seq(Said), lost : SUBSET Nat]

\* One link more is reported on; it is lost, or it is written once.
StaticWrites(A, H, so, v, h) ==
    LET n == Len(so.outcomes) + 1
    IN  /\ Len(v.outcomes) = n
        /\ v.lost \in {so.lost, so.lost \cup {n}}
        /\ IF n \in v.lost THEN KeepsLinks(A, H, so.content, v.content)
           ELSE WritesOnce(A, H, so.content, v.content, h)

LEMMA StaticStepFact ==
    ASSUME NEW A, NEW H, Alphabet(A, H), NEW B, NEW so \in StaticStates(A), NEW s \in LinkChoices(H, B)
    PROVE  /\ StaticStep(so, s) \in StaticStates(A)
           /\ Len(so.outcomes) + 1 \notin so.lost => StaticWrites(A, H, so, StaticStep(so, s), s.target)
<1> DEFINE c == so.content
           h == s.target
           anchor == SearchedFor(s)
           v == StaticStep(so, s)
           places == {i \in DOMAIN c : anchor # <<>> /\ Occurs(c, anchor, i)}
           from == CHOOSE i \in places : \A j \in places : i <= j
           to == from + Len(anchor) - 1
           n == Len(so.outcomes) + 1
           said(o) == Append(so.outcomes, o)
<1>1. h \in H /\ anchor \in Seq(B)
    BY DEF LinkChoices, SearchedFor
<1>2. c \in Seq(A) /\ so.outcomes \in Seq(Said) /\ so.lost \in SUBSET Nat
    BY DEF StaticStates
<1>3. \/ h \in Hrefs(c) /\ v = [so EXCEPT !.outcomes = said("already_present")]
      \/ h \notin Hrefs(c) /\ places # {}
            /\ v = [so EXCEPT !.outcomes = said("inserted"), !.content = Splice(c, from, to, h)]
      \/ h \notin Hrefs(c) /\ places # {}
            /\ v = [so EXCEPT !.outcomes = said("inserted"), !.content = Bury(c, from, to),
                              !.lost = so.lost \cup {Len(said("inserted"))}]
      \/ h \notin Hrefs(c) /\ v = [so EXCEPT !.outcomes = said("block"), !.content = c \o ReadAlso(h, h)]
    BY DEF StaticStep
<1>4. h \in Hrefs(c) <=> LinksTo(c, h) # 0
    BY <1>1, <1>2, HrefsFact
<1>5. \A o \in Said : said(o) \in Seq(Said) /\ Len(said(o)) = n
    BY <1>2, AppendProperties
<1>6. n \in Nat /\ Said = {"already_present", "inserted", "block"}
    BY <1>2 DEF Said
<1>7. so = [content |-> c, outcomes |-> so.outcomes, lost |-> so.lost]
    BY DEF StaticStates
<1>8. places # {} => from \in 1..Len(c) /\ to \in from..Len(c)
    <2> SUFFICES ASSUME places # {} PROVE from \in 1..Len(c) /\ to \in from..Len(c)
        OBVIOUS
    <2>1. places \subseteq Nat /\ places \subseteq 1..Len(c)
        BY <1>2
    <2>2. from \in places
        <3> HIDE DEF places
        <3> QED BY <2>1, LeastPlace
    <2>3. from \in 1..Len(c) /\ anchor # <<>> /\ Occurs(c, anchor, from)
        <3> HIDE DEF from
        <3> QED BY <2>1, <2>2
    <2>4. to \in from..Len(c)
        <3> HIDE DEF from, c, anchor
        <3> QED BY <1>1, <1>2, <2>3, SpanFact
    <2> QED BY <2>3, <2>4
<1> SUFFICES v \in StaticStates(A) /\ (n \notin so.lost => StaticWrites(A, H, so, v, h))
    OBVIOUS
<1> HIDE DEF from, to, places, anchor, v, said, h, c, n
<1>9. CASE h \in Hrefs(c) /\ v = [so EXCEPT !.outcomes = said("already_present")]
    <2>1. v.content = c /\ v.outcomes = said("already_present") /\ v.lost = so.lost
        BY <1>7, <1>9
    <2>2. v \in StaticStates(A)
        BY <1>2, <1>5, <1>6, <1>7, <1>9 DEF StaticStates
    <2>3. WritesOnce(A, H, c, v.content, h)
        BY <1>2, <1>4, <1>9, <2>1 DEF WritesOnce
    <2> QED BY <1>5, <1>6, <2>1, <2>2, <2>3 DEF StaticWrites, n, c
<1>10. CASE h \notin Hrefs(c) /\ places # {}
            /\ v = [so EXCEPT !.outcomes = said("inserted"), !.content = Splice(c, from, to, h)]
    <2> DEFINE d == Splice(c, from, to, h)
    <2>1. Written(A, H, c, d, h, TRUE)
        BY <1>1, <1>2, <1>8, <1>10, SpliceWrites
    <2> HIDE DEF d
    <2>2. v.content = d /\ v.outcomes = said("inserted") /\ v.lost = so.lost
        BY <1>7, <1>10 DEF d
    <2>3. d \in Seq(A)
        BY <2>1 DEF Written
    <2>4. v \in StaticStates(A)
        BY <1>2, <1>5, <1>6, <1>7, <1>10, <2>3 DEF StaticStates, d
    <2>5. WritesOnce(A, H, c, d, h)
        BY <1>1, <1>2, <1>4, <1>10, <2>1, WrittenOnce
    <2> QED BY <1>5, <1>6, <2>2, <2>4, <2>5 DEF StaticWrites, n, c
<1>11. CASE h \notin Hrefs(c) /\ places # {}
            /\ v = [so EXCEPT !.outcomes = said("inserted"), !.content = Bury(c, from, to),
                              !.lost = so.lost \cup {Len(said("inserted"))}]
    <2> DEFINE d == Bury(c, from, to)
    <2>1. KeepsLinks(A, H, c, d)
        BY <1>2, <1>8, <1>11, BuryKeeps
    <2> HIDE DEF d
    <2>2. Len(said("inserted")) = n
        BY <1>5, <1>6
    <2>3. v.content = d /\ v.outcomes = said("inserted") /\ v.lost = so.lost \cup {n}
        BY <1>7, <1>11, <2>2 DEF d
    <2>4. d \in Seq(A)
        BY <2>1 DEF KeepsLinks
    <2>5. v \in StaticStates(A)
        BY <1>2, <1>5, <1>6, <1>7, <1>11, <2>2, <2>4 DEF StaticStates, d
    <2> QED BY <1>6, <2>1, <2>2, <2>3, <2>5 DEF StaticWrites, n, c
<1>12. CASE h \notin Hrefs(c) /\ v = [so EXCEPT !.outcomes = said("block"), !.content = c \o ReadAlso(h, h)]
    <2> DEFINE d == c \o ReadAlso(h, h)
    <2>1. Written(A, H, c, d, h, FALSE)
        BY <1>1, <1>2, BlockWrites
    <2> HIDE DEF d
    <2>2. v.content = d /\ v.outcomes = said("block") /\ v.lost = so.lost
        BY <1>7, <1>12 DEF d
    <2>3. d \in Seq(A)
        BY <2>1 DEF Written
    <2>4. v \in StaticStates(A)
        BY <1>2, <1>5, <1>6, <1>7, <1>12, <2>3 DEF StaticStates, d
    <2>5. WritesOnce(A, H, c, d, h)
        BY <1>1, <1>2, <1>4, <1>12, <2>1, WrittenOnce
    <2> QED BY <1>5, <1>6, <2>2, <2>4, <2>5 DEF StaticWrites, n, c
<1> QED BY <1>3, <1>9, <1>10, <1>11, <1>12

LEMMA StaticFact ==
    ASSUME NEW A, NEW H, Alphabet(A, H), NEW B, NEW post \in Seq(A), NEW selected \in Seq(LinkChoices(H, B))
    PROVE  LET r == StaticPreview(post, selected)
           IN  EachFoundLinkedOnce(post, selected, r.content, r.lost)
<1> DEFINE N == Len(selected)
           W == StaticStates(A)
           w == [content |-> post, outcomes |-> <<>>, lost |-> {}]
           step == [x \in (1..N) \X W |-> StaticStep(x[2], selected[x[1]])]
           g == CHOOSE f : f = [n \in 0..N |-> IF n = 0 THEN w ELSE StaticStep(f[n - 1], selected[n])]
           cs == [n \in 0..N |-> g[n].content]
           lost == {n \in 1..N : n \in g[n].lost}
           S == {n \in 0..N : /\ g[n] \in W /\ Len(g[n].outcomes) = n /\ g[n].lost \subseteq 1..n
                              /\ \A m \in 1..n : m \in g[n].lost <=> m \in lost}
<1>1. N \in Nat /\ \A n \in 1..N : selected[n] \in LinkChoices(H, B)
    OBVIOUS
<1>2. StaticPreview(post, selected) = g[N]
    BY DEF StaticPreview
<1>3. w \in W /\ w.content = post /\ Len(w.outcomes) = 0 /\ w.lost = {}
    BY DEF StaticStates
<1> HIDE DEF N, W, w
<1>4. \A n \in 1..N, so \in W : StaticStep(so, selected[n]) \in W
    BY <1>1, StaticStepFact DEF W
<1>5. \A n \in 1..N, so \in W : Len(so.outcomes) + 1 \notin so.lost =>
            StaticWrites(A, H, so, StaticStep(so, selected[n]), selected[n].target)
    BY <1>1, StaticStepFact DEF W
<1>6. step \in [(1..N) \X W -> W] /\ \A n \in 1..N, so \in W : step[<<n, so>>] = StaticStep(so, selected[n])
    BY <1>4
<1> HIDE DEF step
<1>7. PICK f \in [0..N -> W] : Iteration(f, N, w, step)
    BY <1>1, <1>3, <1>6, Iterates
<1>8. f = [n \in 0..N |-> IF n = 0 THEN w ELSE StaticStep(f[n - 1], selected[n])]
    <2>1. ASSUME NEW n \in 0..N PROVE f[n] = IF n = 0 THEN w ELSE StaticStep(f[n - 1], selected[n])
        <3>1. CASE n = 0
            BY <1>7, <3>1 DEF Iteration
        <3>2. CASE n # 0
            <4>1. n \in 1..N /\ n - 1 \in 0..N
                BY <1>1, <3>2
            <4>2. f[n] = step[<<n, f[n - 1]>>] /\ f[n - 1] \in W
                BY <1>7, <4>1 DEF Iteration
            <4> QED BY <1>6, <3>2, <4>1, <4>2
        <3> QED BY <3>1, <3>2
    <2> QED BY <2>1
<1>9. g = [n \in 0..N |-> IF n = 0 THEN w ELSE StaticStep(g[n - 1], selected[n])]
    BY <1>8
<1> HIDE DEF g
<1>10. g[0] = w /\ \A n \in 1..N : g[n] = StaticStep(g[n - 1], selected[n])
    BY <1>1, <1>9
<1>11. 0 \in S
    BY <1>1, <1>3, <1>10
<1>12. ASSUME NEW n \in 0..(N - 1), n \in S PROVE n + 1 \in S
    <2> DEFINE so == g[n]
               v == g[n + 1]
    <2>1. n + 1 \in 1..N /\ (n + 1) - 1 = n /\ n + 1 \in 0..N
        BY <1>1
    <2>2. v = StaticStep(so, selected[n + 1])
        BY <1>10, <2>1
    <2>3. so \in W /\ Len(so.outcomes) = n /\ so.lost \subseteq 1..n /\ \A m \in 1..n : m \in so.lost <=> m \in lost
        BY <1>12
    <2>4. n + 1 \notin so.lost
        BY <2>1, <2>3
    <2>5. v \in W /\ StaticWrites(A, H, so, v, selected[n + 1].target)
        BY <1>4, <1>5, <2>1, <2>2, <2>3, <2>4
    <2>6. n + 1 \in lost <=> n + 1 \in v.lost
        BY <2>1
    <2> HIDE DEF so, v, lost
    <2>7. Len(v.outcomes) = n + 1 /\ v.lost \in {so.lost, so.lost \cup {n + 1}}
        BY <2>3, <2>5 DEF StaticWrites
    <2>8. \A m \in 1..(n + 1) : m \in 1..n \/ m = n + 1
        OBVIOUS
    <2>9. \A m \in 1..(n + 1) : m \in v.lost <=> m \in lost
        <3>1. \A m \in 1..n : m # n + 1
            OBVIOUS
        <3> QED BY <2>3, <2>6, <2>7, <2>8, <3>1
    <2>10. v.lost \subseteq 1..(n + 1)
        <3>1. 1..n \subseteq 1..(n + 1) /\ n + 1 \in 1..(n + 1)
            OBVIOUS
        <3> QED BY <2>3, <2>7, <3>1
    <2> QED BY <2>1, <2>5, <2>7, <2>9, <2>10 DEF v
<1>13. 0..N \subseteq S
    <2> HIDE DEF S
    <2>1. \A n \in 0..(N - 1) : n \in S => n + 1 \in S
        BY <1>12
    <2> QED BY <1>1, <1>11, <2>1, UpTo
<1>14. \A n \in 1..N : IF n \in lost THEN KeepsLinks(A, H, cs[n - 1], cs[n])
                       ELSE WritesOnce(A, H, cs[n - 1], cs[n], selected[n].target)
    <2> TAKE n \in 1..N
    <2>1. n - 1 \in 0..N /\ n \in 0..N /\ (n - 1) + 1 = n /\ n \notin 1..(n - 1)
        BY <1>1
    <2> DEFINE so == g[n - 1]
    <2>2. so \in W /\ Len(so.outcomes) = n - 1 /\ so.lost \subseteq 1..(n - 1) /\ g[n] = StaticStep(so, selected[n])
        BY <1>10, <1>13, <2>1
    <2>3. Len(so.outcomes) + 1 = n /\ n \notin so.lost
        BY <2>1, <2>2
    <2> HIDE DEF so
    <2>4. StaticWrites(A, H, so, g[n], selected[n].target)
        BY <1>5, <2>2, <2>3
    <2>5. IF n \in g[n].lost THEN KeepsLinks(A, H, so.content, g[n].content)
          ELSE WritesOnce(A, H, so.content, g[n].content, selected[n].target)
        BY <2>3, <2>4 DEF StaticWrites
    <2> QED BY <2>1, <2>5 DEF so
<1>15. cs[0] = post /\ cs[N] = g[N].content
    BY <1>1, <1>3, <1>10
<1>16. g[N].lost = lost
    BY <1>1, <1>13
<1> HIDE DEF cs, S, lost
<1>17. EachFoundLinkedOnce(cs[0], selected, cs[Len(selected)], lost)
    BY <1>14, <1>15, FoundOnceEach DEF N
<1> QED BY <1>2, <1>15, <1>16, <1>17 DEF N

\* preview_links of both connectors: whatever the post holds, well-formed or
\* not, whatever words the anchors are, and however often the run names one
\* target. On WordPress every selected target is linked exactly once when the
\* post did not link it and as often as before when it did, and the links in the
\* text never pass the article's limit, unless the post came with more, and then
\* none is added. On a static page the same holds of every target but one all of
\* whose suggestions went into an attribute or a comment, which the run reports
\* as inserted: that one is not linked at all, and the others are unharmed.
THEOREM LinksAreWrittenOnce ==
    ASSUME MaxInText \in Nat, NEW A, NEW H, Alphabet(A, H), NEW B, NEW post \in Seq(A),
           NEW selected \in Seq(LinkChoices(H, B))
    PROVE  LET wordpress == Preview(post, selected)
               static == StaticPreview(post, selected)
           IN  /\ EachLinkedOnce(post, selected, wordpress.content)
               /\ WithinLimit(post, wordpress.content)
               /\ EachFoundLinkedOnce(post, selected, static.content, static.lost)
BY PreviewFact, StaticFact

------------------------------------------------------------------------------
(* ExternalPolicy: the queue and the search under the site's policy        *)

\* No reason against a URL.
LEMMA WebClean ==
    ASSUME NEW p, NEW owned, NEW url
    PROVE  EvaluateWebSearchUrl(p, owned, url) = {} <=>
              /\ url.host # <<>> /\ p.enabled /\ url.scheme = "https"
              /\ ~MatchesAny(url.host, p.blocklist) /\ ~MatchesAny(url.host, p.competitors)
              /\ ~Owned(owned, url.host)
<1> DEFINE against(r) ==
              CASE r = "disabled" -> ~p.enabled
                [] r = "https" -> url.scheme # "https"
                [] r = "blocklisted" -> MatchesAny(url.host, p.blocklist)
                [] r = "competitor" -> MatchesAny(url.host, p.competitors)
                [] OTHER -> Owned(owned, url.host)
           reasons == {"disabled", "https", "blocklisted", "competitor", "owned"}
<1>1. EvaluateWebSearchUrl(p, owned, url) =
          IF url.host = <<>> THEN {"invalid domain"} ELSE {r \in reasons : against(r)}
    BY DEF EvaluateWebSearchUrl
<1>2. /\ against("disabled") <=> ~p.enabled
      /\ against("https") <=> url.scheme # "https"
      /\ against("blocklisted") <=> MatchesAny(url.host, p.blocklist)
      /\ against("competitor") <=> MatchesAny(url.host, p.competitors)
      /\ against("owned") <=> Owned(owned, url.host)
    OBVIOUS
<1> HIDE DEF against
<1> QED BY <1>1, <1>2

LEMMA PoolClean ==
    ASSUME NEW p, NEW owned, NEW url, NEW site, EvaluateExternalUrl(p, owned, url, site) = {}
    PROVE  /\ url.host # <<>> /\ p.enabled /\ Approved(site)
           /\ ~MatchesAny(url.host, p.blocklist) /\ ~MatchesAny(url.host, p.competitors)
           /\ ~Owned(owned, url.host)
<1> DEFINE age == DomainAge(url, site)
           against(r) ==
              CASE r = "disabled" -> ~p.enabled
                [] r = "https" -> p.requireHttps /\ url.scheme # "https"
                [] r = "source" -> ~Approved(site)
                [] r = "blocklisted" -> MatchesAny(url.host, p.blocklist)
                [] r = "competitor" -> MatchesAny(url.host, p.competitors)
                [] r = "owned" -> Owned(owned, url.host)
                [] r = "age" -> p.minAge > 0 /\ (age = NoAge \/ age < p.minAge)
                [] OTHER -> TrustScore(p, url, site) < p.minTrust
           reasons == {"disabled", "https", "source", "blocklisted", "competitor", "owned", "age", "trust"}
<1>1. EvaluateExternalUrl(p, owned, url, site) =
          IF url.host = <<>> THEN {"invalid domain"} ELSE {r \in reasons : against(r)}
    BY DEF EvaluateExternalUrl
<1>2. /\ against("disabled") <=> ~p.enabled
      /\ against("source") <=> ~Approved(site)
      /\ against("blocklisted") <=> MatchesAny(url.host, p.blocklist)
      /\ against("competitor") <=> MatchesAny(url.host, p.competitors)
      /\ against("owned") <=> Owned(owned, url.host)
    OBVIOUS
<1> HIDE DEF against
<1> QED BY <1>1, <1>2

\* update_external_policy: whatever the policy, the sites, the pages, live or
\* retired, and the queue, the rows that expire are exactly the undecided ones
\* that the ranker or the search would not offer even if the page were live, and
\* a row that stays open although the ranker would not offer its page is one whose
\* page is retired. A pool page served over HTTPS that the ranker may offer passes
\* every guard of the web search. A page has one id, and a row names a page.
THEOREM QueueFollowsPolicy ==
    ASSUME NEW p, NEW owned, NEW own, NEW sites, NEW Ids, NEW Urls, NEW Statuses,
           NEW articles \in SUBSET [id : Ids, site : DOMAIN sites, url : Urls, active : BOOLEAN],
           NEW rows \in SUBSET [article : Ids \cup {0}, url : Urls, status : Statuses],
           \A a, b \in articles : a.id = b.id => a = b,
           \A row \in rows : row.article # 0 => \E a \in articles : a.id = row.article
    PROVE  /\ QueueSettled(p, owned, own, sites, articles, rows,
                           ExpireIneligible(p, owned, own, sites, articles, rows))
           /\ SameGuards(p, owned, own, sites, articles)
<1> DEFINE clean(a) == EvaluateExternalUrl(p, owned, a.url, sites[a.site]) = {}
           may(a) == a.site = own \/ (sites[a.site].platform = "pool" /\ clean(a))
           live == AllLive(articles)
           open(row) == row.status \in {"pending", "approved"}
           after(row) == IF open(row) /\ ~Offered(p, owned, own, sites, live, row)
                         THEN [row EXCEPT !.status = "expired"] ELSE row
           settled == ExpireIneligible(p, owned, own, sites, articles, rows)
<1>1. \A a \in articles : clean(a) => sites[a.site].platform = "pool"
    BY PoolClean DEF Approved
<1>2. ASSUME NEW a \in articles
      PROVE  a.id \in AllowedTargets(p, owned, own, sites, articles) <=> a.active /\ may(a)
    <2>1. AllowedTargets(p, owned, own, sites, articles) = {c.id : c \in {b \in articles : b.active /\ may(b)}}
        BY DEF AllowedTargets
    <2> HIDE DEF may
    <2> QED BY <2>1
<1>3. ASSUME NEW a \in articles PROVE a.id \in AllowedTargets(p, owned, own, sites, live) <=> may(a)
    <2> DEFINE alive(b) == [b EXCEPT !.active = TRUE]
    <2>1. AllowedTargets(p, owned, own, sites, live) = {c.id : c \in {b \in live : b.active /\ may(b)}}
        BY DEF AllowedTargets
    <2>2. live = {alive(b) : b \in articles}
        BY DEF AllLive
    <2>3. \A b \in articles : /\ alive(b).id = b.id /\ alive(b).site = b.site /\ alive(b).url = b.url
                              /\ alive(b).active
        OBVIOUS
    <2>4. \A b \in articles : may(alive(b)) <=> may(b)
        BY <2>3
    <2> HIDE DEF may, alive, live
    <2> QED BY <2>1, <2>2, <2>3, <2>4
<1>4. ASSUME NEW row \in rows, row.article # 0
      PROVE  \E a \in articles :
                /\ a.id = row.article
                /\ RowRefused(p, owned, own, sites, articles, row) <=> ~may(a)
                /\ Offered(p, owned, own, sites, live, row) <=> may(a)
                /\ Offered(p, owned, own, sites, articles, row) <=> a.active /\ may(a)
    <2> DEFINE a == CHOOSE b \in articles : b.id = row.article
    <2>1. a \in articles /\ a.id = row.article
        BY <1>4
    <2>2. RowRefused(p, owned, own, sites, articles, row) <=> a.site # own /\ ~clean(a)
        BY <1>4 DEF RowRefused
    <2> HIDE DEF a
    <2>3. /\ Offered(p, owned, own, sites, live, row) <=> may(a)
          /\ Offered(p, owned, own, sites, articles, row) <=> a.active /\ may(a)
        <3> HIDE DEF may, live
        <3> QED BY <1>2, <1>3, <1>4, <2>1 DEF Offered
    <2> QED BY <1>1, <2>1, <2>2, <2>3
<1>5. ASSUME NEW row \in rows, row.article = 0
      PROVE  /\ RowRefused(p, owned, own, sites, articles, row) <=> ~Offered(p, owned, own, sites, live, row)
             /\ Offered(p, owned, own, sites, articles, row) <=> Offered(p, owned, own, sites, live, row)
    BY <1>5 DEF RowRefused, Offered
<1> HIDE DEF clean, may, live
<1>6. ASSUME NEW row \in rows
      PROVE  RowRefused(p, owned, own, sites, articles, row) <=> ~Offered(p, owned, own, sites, live, row)
    BY <1>4, <1>5
<1>7. settled = {after(row) : row \in rows}
    BY <1>6 DEF ExpireIneligible
<1>8. ASSUME NEW row \in rows, open(after(row)), ~Offered(p, owned, own, sites, articles, after(row))
      PROVE  \E a \in articles : a.id = after(row).article /\ ~a.active
    <2>1. after(row) = row /\ Offered(p, owned, own, sites, live, row)
        <3>1. ASSUME open(row), ~Offered(p, owned, own, sites, live, row) PROVE FALSE
            <4>1. after(row) = [row EXCEPT !.status = "expired"]
                BY <3>1
            <4>2. after(row).status # "expired"
                BY <1>8
            <4> QED BY <4>1, <4>2
        <3> QED BY <1>8, <3>1
    <2> QED BY <1>4, <1>5, <1>8, <2>1
<1>9. QueueSettled(p, owned, own, sites, articles, rows, settled)
    BY <1>7, <1>8 DEF QueueSettled, live
<1>10. SameGuards(p, owned, own, sites, articles)
    <2> SUFFICES ASSUME NEW a \in articles, a.site # own, a.url.scheme = "https",
                        a.id \in AllowedTargets(p, owned, own, sites, articles)
                 PROVE  EvaluateWebSearchUrl(p, owned, a.url) = {}
        BY DEF SameGuards
    <2>1. clean(a)
        BY <1>2 DEF may
    <2> QED BY <2>1, PoolClean, WebClean DEF clean
<1> QED BY <1>9, <1>10

-----------------------------------------------------------------------------
\* An address has one stored form.
LEMMA StoredOnce ==
    ASSUME NEW raw, NEW other, SamePage(NormalizeExternalUrl(raw), NormalizeExternalUrl(other))
    PROVE  NormalizeExternalUrl(raw) = NormalizeExternalUrl(other)
BY DEF SamePage, NormalizeExternalUrl, DefaultPort

StoredForms(Found) == {NormalizeExternalUrl(i.url) : i \in Found}

ScreenedRows(Found) ==
    [url : StoredForms(Found), score : Int, rank : Nat,
     is : {"invalid_url", "safety_blocked", "duplicate", "scored"}]

\* What is scored is new, named once and passes the guards.
ScreenedWell(q, Found) ==
    {so \in Seq(ScreenedRows(Found)) :
        \A i \in DOMAIN so : so[i].is = "scored" =>
            /\ so[i].url \notin q.existing
            /\ EvaluateWebSearchUrl(q.policy, q.owned, so[i].url) = {}
            /\ \A j \in DOMAIN so : so[j].is = "scored" /\ so[j].url = so[i].url => i = j}

LEMMA ScreenFact ==
    ASSUME NEW q, NEW Found, \A i \in Found : i.score \in Int,
           NEW so \in ScreenedWell(q, Found), NEW item \in Found
    PROVE  Screen(q, so, item) \in ScreenedWell(q, Found)
<1> DEFINE url == NormalizeExternalUrl(item.url)
           clean == EvaluateWebSearchUrl(q.policy, q.owned, url) = {}
           known == url \in q.existing \cup {so[i].url : i \in {j \in DOMAIN so : so[j].is = "scored"}}
           verdict == CASE ~Storable(item.url) -> "invalid_url"
                        [] Storable(item.url) /\ ~clean -> "safety_blocked"
                        [] Storable(item.url) /\ clean /\ known -> "duplicate"
                        [] OTHER -> "scored"
           R == ScreenedRows(Found)
           n == Len(so)
           row == [url |-> url, score |-> item.score, rank |-> n + 1, is |-> verdict]
           to == Append(so, row)
<1>1. so \in Seq(R) /\ n \in Nat
    BY DEF ScreenedWell
<1>2. Screen(q, so, item) = to
    BY DEF Screen
<1>3. verdict = "scored" => clean /\ ~known
    OBVIOUS
<1>4. verdict \in {"invalid_url", "safety_blocked", "duplicate", "scored"}
    OBVIOUS
<1> HIDE DEF verdict, url, n
<1>5. url \in StoredForms(Found) /\ item.score \in Int
    BY DEF StoredForms, url
<1>6. row \in R
    BY <1>1, <1>4, <1>5 DEF ScreenedRows
<1>7. row.is = verdict /\ row.url = url
    OBVIOUS
<1> HIDE DEF row, R
<1>8. /\ to \in Seq(R) /\ DOMAIN so = 1..n /\ DOMAIN to = 1..(n + 1) /\ to[n + 1] = row
      /\ \A i \in 1..n : to[i] = so[i]
    BY <1>1, <1>6, AppendProperties DEF n
<1>9. \A i \in 1..(n + 1) : i \in 1..n \/ i = n + 1
    BY <1>1
<1>10. \A i \in 1..n : so[i].is = "scored" =>
            /\ so[i].url \notin q.existing
            /\ EvaluateWebSearchUrl(q.policy, q.owned, so[i].url) = {}
            /\ \A j \in 1..n : so[j].is = "scored" /\ so[j].url = so[i].url => i = j
    BY <1>8 DEF ScreenedWell
<1>11. row.is = "scored" =>
            /\ row.url \notin q.existing
            /\ EvaluateWebSearchUrl(q.policy, q.owned, row.url) = {}
            /\ \A j \in 1..n : ~(so[j].is = "scored" /\ so[j].url = row.url)
    BY <1>3, <1>7, <1>8
<1> HIDE DEF to
<1>12. ASSUME NEW i \in DOMAIN to, to[i].is = "scored"
       PROVE  /\ to[i].url \notin q.existing
              /\ EvaluateWebSearchUrl(q.policy, q.owned, to[i].url) = {}
              /\ \A j \in DOMAIN to : to[j].is = "scored" /\ to[j].url = to[i].url => i = j
    <2>1. CASE i \in 1..n
        BY <1>8, <1>9, <1>10, <1>11, <1>12, <2>1
    <2>2. CASE i = n + 1
        BY <1>8, <1>9, <1>10, <1>11, <1>12, <2>2
    <2> QED BY <1>8, <1>9, <2>1, <2>2
<1> QED BY <1>2, <1>8, <1>12 DEF ScreenedWell, R

LEMMA ScreenedFact ==
    ASSUME NEW q, NEW Found, \A i \in Found : i.score \in Int, NEW items \in Seq(Found)
    PROVE  Screened(q, items) \in ScreenedWell(q, Found)
<1> DEFINE N == Len(items)
           W == ScreenedWell(q, Found)
           step == [x \in (1..N) \X W |-> Screen(q, x[2], items[x[1]])]
           g == CHOOSE f : f = [n \in 0..N |-> IF n = 0 THEN <<>> ELSE Screen(q, f[n - 1], items[n])]
           S == {n \in 0..N : g[n] \in W}
<1>1. N \in Nat /\ \A n \in 1..N : items[n] \in Found
    OBVIOUS
<1>2. Screened(q, items) = g[N]
    BY DEF Screened
<1>3. <<>> \in W
    BY DEF ScreenedWell
<1>4. \A n \in 1..N, so \in W : Screen(q, so, items[n]) \in W
    BY <1>1, ScreenFact
<1> HIDE DEF N, W
<1>5. step \in [(1..N) \X W -> W] /\ \A n \in 1..N, so \in W : step[<<n, so>>] = Screen(q, so, items[n])
    BY <1>4
<1> HIDE DEF step
<1>6. PICK f \in [0..N -> W] : Iteration(f, N, <<>>, step)
    BY <1>1, <1>3, <1>5, Iterates
<1>7. f = [n \in 0..N |-> IF n = 0 THEN <<>> ELSE Screen(q, f[n - 1], items[n])]
    <2>1. ASSUME NEW n \in 0..N PROVE f[n] = IF n = 0 THEN <<>> ELSE Screen(q, f[n - 1], items[n])
        <3>1. CASE n = 0
            BY <1>6, <3>1 DEF Iteration
        <3>2. CASE n # 0
            <4>1. n \in 1..N /\ n - 1 \in 0..N
                BY <1>1, <3>2
            <4>2. f[n] = step[<<n, f[n - 1]>>] /\ f[n - 1] \in W
                BY <1>6, <4>1 DEF Iteration
            <4> QED BY <1>5, <3>2, <4>1, <4>2
        <3> QED BY <3>1, <3>2
    <2> QED BY <2>1
<1>8. g = [n \in 0..N |-> IF n = 0 THEN <<>> ELSE Screen(q, g[n - 1], items[n])]
    BY <1>7
<1> HIDE DEF g
<1>9. 0 \in S
    BY <1>1, <1>3, <1>8
<1>10. ASSUME NEW n \in 0..(N - 1), n \in S PROVE n + 1 \in S
    <2>1. n + 1 \in 1..N /\ (n + 1) - 1 = n /\ n + 1 \in 0..N /\ n + 1 # 0
        BY <1>1
    <2>2. g[n + 1] = Screen(q, g[n], items[n + 1])
        BY <1>8, <2>1
    <2> QED BY <1>4, <1>10, <2>1, <2>2
<1>11. 0..N \subseteq S
    <2> HIDE DEF S
    <2>1. \A n \in 0..(N - 1) : n \in S => n + 1 \in S
        BY <1>10
    <2> QED BY <1>1, <1>9, <2>1, UpTo
<1> QED BY <1>1, <1>2, <1>11 DEF W

LEMMA ParsedFact ==
    ASSUME NEW Found, NEW items \in Seq(Found)
    PROVE  Parsed(items) \in Seq(Found)
<1> DEFINE N == Len(items)
           W == Seq(Found)
           step == [x \in (1..N) \X W |-> AddResult(x[2], items[x[1]])]
           g == CHOOSE f : f = [n \in 0..N |-> IF n = 0 THEN <<>> ELSE AddResult(f[n - 1], items[n])]
           S == {n \in 0..N : g[n] \in W}
<1>1. N \in Nat /\ \A n \in 1..N : items[n] \in Found
    OBVIOUS
<1>2. Parsed(items) = g[N]
    BY DEF Parsed
<1>3. <<>> \in W
    OBVIOUS
<1>4. \A n \in 1..N, so \in W : AddResult(so, items[n]) \in W
    BY <1>1, AppendProperties DEF AddResult
<1> HIDE DEF N, W
<1>5. step \in [(1..N) \X W -> W] /\ \A n \in 1..N, so \in W : step[<<n, so>>] = AddResult(so, items[n])
    BY <1>4
<1> HIDE DEF step
<1>6. PICK f \in [0..N -> W] : Iteration(f, N, <<>>, step)
    BY <1>1, <1>3, <1>5, Iterates
<1>7. f = [n \in 0..N |-> IF n = 0 THEN <<>> ELSE AddResult(f[n - 1], items[n])]
    <2>1. ASSUME NEW n \in 0..N PROVE f[n] = IF n = 0 THEN <<>> ELSE AddResult(f[n - 1], items[n])
        <3>1. CASE n = 0
            BY <1>6, <3>1 DEF Iteration
        <3>2. CASE n # 0
            <4>1. n \in 1..N /\ n - 1 \in 0..N
                BY <1>1, <3>2
            <4>2. f[n] = step[<<n, f[n - 1]>>] /\ f[n - 1] \in W
                BY <1>6, <4>1 DEF Iteration
            <4> QED BY <1>5, <3>2, <4>1, <4>2
        <3> QED BY <3>1, <3>2
    <2> QED BY <2>1
<1>8. g = [n \in 0..N |-> IF n = 0 THEN <<>> ELSE AddResult(g[n - 1], items[n])]
    BY <1>7
<1> HIDE DEF g
<1>9. 0 \in S
    BY <1>1, <1>3, <1>8
<1>10. ASSUME NEW n \in 0..(N - 1), n \in S PROVE n + 1 \in S
    <2>1. n + 1 \in 1..N /\ (n + 1) - 1 = n /\ n + 1 \in 0..N /\ n + 1 # 0
        BY <1>1
    <2>2. g[n + 1] = AddResult(g[n], items[n + 1])
        BY <1>8, <2>1
    <2> QED BY <1>4, <1>10, <2>1, <2>2
<1>11. 0..N \subseteq S
    <2> HIDE DEF S
    <2>1. \A n \in 0..(N - 1) : n \in S => n + 1 \in S
        BY <1>10
    <2> QED BY <1>1, <1>9, <2>1, UpTo
<1> QED BY <1>1, <1>2, <1>11 DEF W

LEMMA SettleFact ==
    ASSUME NEW q, NEW Found, q.missing \in Int, NEW Earlier, q.existing \subseteq StoredForms(Earlier),
           NEW so \in ScreenedWell(q, Found)
    PROVE  FilledOnce(q, Settle(q, so))
<1> DEFINE n == Len(so)
           score(i) == so[i].score
           fit == {i \in 1..n : so[i].is = "scored" /\ score(i) >= q.minScore /\ score(i) >= q.minPercent}
           ahead(i) == {j \in fit : score(j) > score(i) \/ (score(j) = score(i) /\ j < i)}
           slot(i) == Cardinality(ahead(i))
           r == Settle(q, so)
           taken == {i \in DOMAIN r : r[i].is = "accepted"}
           f == [i \in taken |-> slot(i)]
<1>1. so \in Seq(ScreenedRows(Found)) /\ n \in Nat /\ DOMAIN so = 1..n
    BY DEF ScreenedWell
<1>2. /\ \A i \in 1..n : so[i] \in ScreenedRows(Found)
      /\ \A i \in 1..n : score(i) \in Int /\ so[i].url \in StoredForms(Found)
    <2> DEFINE R == ScreenedRows(Found)
    <2>1. \A x \in R : x.score \in Int /\ x.url \in StoredForms(Found)
        BY DEF ScreenedRows
    <2> HIDE DEF R
    <2>2. \A i \in 1..n : so[i] \in R
        BY <1>1 DEF R
    <2> QED BY <2>1, <2>2 DEF R
<1>3. /\ DOMAIN r = 1..n
      /\ \A i \in 1..n : r[i] = IF so[i].is # "scored" THEN so[i]
                                ELSE [so[i] EXCEPT !.is = IF i \notin fit THEN "below_threshold"
                                                          ELSE IF slot(i) < q.missing THEN "accepted"
                                                          ELSE "capacity_not_selected"]
    BY <1>1 DEF Settle
<1> HIDE DEF r, n
<1>4. ASSUME NEW i \in 1..n
      PROVE  /\ r[i].url = so[i].url /\ r[i].score = score(i)
             /\ r[i].is = "accepted" <=> i \in fit /\ slot(i) < q.missing
             /\ r[i].is = "capacity_not_selected" => i \in fit /\ ~(slot(i) < q.missing)
    <2> HIDE DEF slot
    <2>1. CASE so[i].is # "scored"
        <3>1. r[i] = so[i] /\ i \notin fit
            BY <1>3, <2>1
        <3>2. so[i].is \notin {"accepted", "capacity_not_selected"}
            BY <1>2 DEF ScreenedRows
        <3> QED BY <3>1, <3>2
    <2>2. CASE so[i].is = "scored"
        <3> DEFINE said == IF i \notin fit THEN "below_threshold"
                           ELSE IF slot(i) < q.missing THEN "accepted" ELSE "capacity_not_selected"
        <3>1. r[i] = [so[i] EXCEPT !.is = said]
            BY <1>3, <2>2
        <3> HIDE DEF said
        <3>2. r[i].url = so[i].url /\ r[i].score = score(i) /\ r[i].is = said
            BY <1>2, <3>1 DEF ScreenedRows
        <3> HIDE DEF fit
        <3> QED BY <3>2 DEF said
    <2> QED BY <2>1, <2>2
<1>5. taken = {i \in fit : slot(i) < q.missing}
    <2> HIDE DEF slot
    <2> QED BY <1>3, <1>4
<1>6. IsFiniteSet(fit) /\ \A i \in fit : IsFiniteSet(ahead(i)) /\ slot(i) \in Nat
    <2>1. IsFiniteSet(1..n)
        BY <1>1, FS_Interval
    <2>2. IsFiniteSet(fit)
        BY <2>1, FS_Subset
    <2>3. \A i \in fit : IsFiniteSet(ahead(i))
        <3> HIDE DEF fit
        <3> QED BY <2>2, FS_Subset
    <2> HIDE DEF fit, ahead
    <2> QED BY <2>2, <2>3, FS_CardinalityType
<1>7. ASSUME NEW i \in fit, NEW j \in ahead(i) PROVE slot(j) < slot(i)
    <2>1. j \in fit /\ ahead(j) \subseteq ahead(i) /\ j \notin ahead(j)
        BY <1>2
    <2>2. ahead(j) # ahead(i)
        BY <1>7, <2>1
    <2> HIDE DEF fit, ahead
    <2>3. Cardinality(ahead(j)) <= Cardinality(ahead(i)) /\ Cardinality(ahead(i)) # Cardinality(ahead(j))
        BY <1>6, <2>1, <2>2, FS_Subset
    <2> QED BY <1>6, <2>1, <2>3
<1>8. \A i, j \in fit : i # j => i \in ahead(j) \/ j \in ahead(i)
    BY <1>2
<1> HIDE DEF taken, ahead, slot
<1>9. ASSUME taken # {} PROVE q.policy.enabled /\ Cardinality(taken) <= q.missing
    <2>1. PICK i \in taken : TRUE
        BY <1>9
    <2>2. i \in 1..n /\ so[i].is = "scored" /\ slot(i) \in Nat /\ slot(i) < q.missing
        BY <1>5, <1>6, <2>1
    <2>3. EvaluateWebSearchUrl(q.policy, q.owned, so[i].url) = {}
        BY <1>1, <2>2 DEF ScreenedWell
    <2>4. q.policy.enabled
        BY <2>3, WebClean
    <2> HIDE DEF fit
    <2>5. \A k \in taken : k \in fit /\ slot(k) \in Nat /\ slot(k) < q.missing
        BY <1>5, <1>6
    <2>6. \A k \in taken : slot(k) \in 0..(q.missing - 1)
        BY <2>5
    <2>7. f \in [taken -> 0..(q.missing - 1)] /\ \A k \in taken : f[k] = slot(k)
        BY <2>6
    <2>8. ASSUME NEW k \in taken, NEW l \in taken, f[k] = f[l] PROVE k = l
        <3>1. k \in fit /\ l \in fit /\ slot(k) = slot(l) /\ slot(k) \in Nat
            BY <2>5, <2>7, <2>8
        <3>2. ASSUME k # l PROVE FALSE
            <4>1. k \in ahead(l) \/ l \in ahead(k)
                BY <1>8, <3>1, <3>2
            <4>2. slot(k) < slot(l) \/ slot(l) < slot(k)
                BY <1>7, <3>1, <4>1
            <4> QED BY <3>1, <4>2
        <3> QED BY <3>2
    <2> HIDE DEF f
    <2>9. f \in Injection(taken, 0..(q.missing - 1))
        BY <2>7, <2>8 DEF Injection, IsInjective
    <2>10. IsFiniteSet(0..(q.missing - 1)) /\ Cardinality(0..(q.missing - 1)) = q.missing
        <3> DEFINE m == q.missing - 1
        <3>1. m \in Nat /\ m - 0 + 1 = q.missing
            BY <2>2
        <3> HIDE DEF m
        <3>3. m \in Int /\ 0 \in Int /\ ~(0 > m)
            BY <3>1
        <3>4. IsFiniteSet(0..m) /\ Cardinality(0..m) = IF 0 > m THEN 0 ELSE m - 0 + 1
            BY ONLY <3>3, FS_Interval
        <3>2. IsFiniteSet(0..m) /\ Cardinality(0..m) = m - 0 + 1
            BY <3>3, <3>4
        <3> QED BY <3>1, <3>2 DEF m
    <2>11. Cardinality(taken) <= Cardinality(0..(q.missing - 1))
        <3> DEFINE T == 0..(q.missing - 1)
        <3>1. f \in Injection(taken, T) /\ IsFiniteSet(T)
            BY <2>9, <2>10
        <3> HIDE DEF T
        <3>2. Cardinality(taken) <= Cardinality(T)
            BY <3>1, FS_Injection
        <3> QED BY <3>2 DEF T
    <2> QED BY <2>4, <2>10, <2>11
<1>10. ASSUME NEW i \in taken, NEW j \in taken, i # j PROVE ~SamePage(r[i].url, r[j].url)
    <2>1. i \in 1..n /\ j \in 1..n /\ so[i].is = "scored" /\ so[j].is = "scored"
        BY <1>5
    <2>2. so[i].url # so[j].url
        BY <1>1, <1>10, <2>1 DEF ScreenedWell
    <2>3. PICK a \in Found : so[i].url = NormalizeExternalUrl(a.url)
        BY <1>2, <2>1 DEF StoredForms
    <2>4. PICK b \in Found : so[j].url = NormalizeExternalUrl(b.url)
        BY <1>2, <2>1 DEF StoredForms
    <2>5. r[i].url = so[i].url /\ r[j].url = so[j].url
        BY <1>4, <2>1
    <2> QED BY <2>2, <2>3, <2>4, <2>5, StoredOnce
<1>11. ASSUME NEW i \in taken
       PROVE  /\ \A u \in q.existing : ~SamePage(u, r[i].url)
              /\ EvaluateWebSearchUrl(q.policy, q.owned, r[i].url) = {}
    <2>1. i \in 1..n /\ so[i].is = "scored"
        BY <1>5
    <2>2. r[i].url = so[i].url
        BY <1>4, <2>1
    <2>3. so[i].url \notin q.existing /\ EvaluateWebSearchUrl(q.policy, q.owned, so[i].url) = {}
        BY <1>1, <2>1 DEF ScreenedWell
    <2>4. PICK a \in Found : so[i].url = NormalizeExternalUrl(a.url)
        BY <1>2, <2>1 DEF StoredForms
    <2>5. ASSUME NEW u \in q.existing PROVE ~SamePage(u, so[i].url)
        <3>1. PICK b \in Earlier : u = NormalizeExternalUrl(b.url)
            BY DEF StoredForms
        <3>2. u # so[i].url
            BY <2>3
        <3> QED BY <2>4, <3>1, <3>2, StoredOnce
    <2> QED BY <2>2, <2>3, <2>5
<1>12. ASSUME NEW i \in taken, NEW j \in 1..n, r[j].is = "capacity_not_selected" PROVE r[i].score >= r[j].score
    <2>1. i \in fit /\ slot(i) < q.missing /\ j \in fit /\ ~(slot(j) < q.missing)
        BY <1>4, <1>5, <1>12
    <2>2. i \in 1..n /\ r[i].score = score(i) /\ r[j].score = score(j) /\ score(i) \in Int /\ score(j) \in Int
        BY <1>2, <1>4, <2>1
    <2>3. ASSUME score(j) > score(i) PROVE FALSE
        <3>1. j \in ahead(i)
            BY <2>1, <2>3 DEF ahead
        <3>2. slot(j) < slot(i) /\ slot(i) \in Nat /\ slot(j) \in Nat
            BY <1>6, <1>7, <2>1, <3>1
        <3> QED BY <2>1, <3>2
    <2> HIDE DEF score
    <2> QED BY <2>2, <2>3
<1> QED BY <1>3, <1>9, <1>10, <1>11, <1>12 DEF FilledOnce, taken, r

\* fill_external_suggestion_gap: whatever the search answers, however its
\* results spell their addresses and however many there are, the suggestions
\* it makes are no more than the open slots, no page twice nor one the article
\* already has, none that a guard forbids or on a site with external links
\* switched off, and none worse than a result that was left out for want of a
\* slot. The addresses already suggested are those that were stored before.
THEOREM GapsAreFilledOnce ==
    ASSUME NEW q, NEW Found, \A i \in Found : i.score \in Int, q.items \in Seq(Found), q.missing \in Int,
           NEW Earlier, q.existing \subseteq StoredForms(Earlier)
    PROVE  FilledOnce(q, FillGap(q).results)
<1> DEFINE r == FillGap(q).results
           so == Screened(q, Parsed(q.items))
<1>1. r = <<>> \/ r = Settle(q, so)
    BY DEF FillGap
<1>2. FilledOnce(q, <<>>)
    BY DEF FilledOnce
<1>3. FilledOnce(q, Settle(q, so))
    <2>1. Parsed(q.items) \in Seq(Found)
        BY ParsedFact
    <2>2. so \in ScreenedWell(q, Found)
        BY <2>1, ScreenedFact
    <2> HIDE DEF so
    <2> QED BY <2>2, SettleFact
<1> QED BY <1>1, <1>2, <1>3

------------------------------------------------------------------------------
(* PlacementGeneration: what is stored is the article's own text           *)

IsText(s) == \E T : s \in Seq(T)

LEMMA NormalizeFact ==
    ASSUME NEW T, NEW s \in Seq(T)
    PROVE  IsText(Normalize(s))
<1> DEFINE inner == {i \in DOMAIN s : s[i] # " "}
           keep == {i \in DOMAIN s : \/ s[i] # " "
                                     \/ /\ i > 1 /\ s[i - 1] # " "
                                        /\ \E j \in inner : j > i}
           k == Cardinality(keep)
           e(n) == s[CHOOSE i \in keep : Cardinality({j \in keep : j <= i}) = n]
           U == {e(n) : n \in 1..k}
<1>1. Normalize(s) = [n \in 1..k |-> e(n)]
    BY DEF Normalize
<1>2. k \in Nat
    <2>1. IsFiniteSet(1..Len(s)) /\ DOMAIN s = 1..Len(s)
        BY FS_Interval
    <2>2. IsFiniteSet(keep)
        BY <2>1, FS_Subset
    <2> HIDE DEF keep
    <2> QED BY <2>2, FS_CardinalityType
<1> HIDE DEF k, e
<1>3. \A n \in 1..k : e(n) \in U
    OBVIOUS
<1> HIDE DEF U
<1>4. [n \in 1..k |-> e(n)] \in Seq(U)
    BY <1>2, <1>3
<1> QED BY <1>1, <1>4 DEF IsText

LEMMA SliceFact ==
    ASSUME NEW T, NEW content \in Seq(T)
    PROVE  IsText(Slice(content))
<1> DEFINE m == IF Len(content) < MaxSourceChars THEN Len(content) ELSE MaxSourceChars
<1>1. MaxSourceChars \in Nat \ {0}
    BY PlaceAssumptions
<1>2. m \in Nat /\ m <= Len(content) /\ Len(content) \in Nat /\ \A i \in 1..Len(content) : content[i] \in T
    BY <1>1
<1> HIDE DEF m
<1>3. SubSeq(content, 1, m) \in Seq(T)
    BY <1>2, SubSeqProperties
<1> QED BY <1>3, NormalizeFact DEF Slice, m

LEMMA FoldedFact ==
    ASSUME NEW s, IsText(s)
    PROVE  /\ IsText(Folded(s)) /\ Len(Folded(s)) = Len(s) /\ Len(s) \in Nat
           /\ \A i \in 1..Len(s) : Folded(s)[i] = Lower(s[i])
<1>1. PICK T : s \in Seq(T)
    BY DEF IsText
<1> DEFINE n == Len(s)
           U == {Lower(s[i]) : i \in 1..n}
<1>2. n \in Nat /\ DOMAIN s = 1..n
    BY <1>1
<1>3. Folded(s) = [i \in 1..n |-> Lower(s[i])]
    BY <1>2 DEF Folded
<1> HIDE DEF n
<1>4. \A i \in 1..n : Lower(s[i]) \in U
    OBVIOUS
<1> HIDE DEF U
<1>5. [i \in 1..n |-> Lower(s[i])] \in Seq(U) /\ Len([i \in 1..n |-> Lower(s[i])]) = n
    BY <1>2, <1>4
<1> QED BY <1>2, <1>3, <1>5 DEF IsText, n

\* A place of the needle, character for character.
LEMMA PositionsFact ==
    ASSUME NEW needle, IsText(needle), NEW hay, IsText(hay), NEW i
    PROVE  i \in Positions(needle, hay) <=>
              /\ i \in 1..(Len(hay) - Len(needle) + 1)
              /\ \A k \in 1..Len(needle) : hay[i + k - 1] = needle[k]
<1>1. PICK T : needle \in Seq(T)
    BY DEF IsText
<1>2. PICK U : hay \in Seq(U)
    BY DEF IsText
<1> DEFINE m == Len(needle)
           n == Len(hay)
           part == SubSeq(hay, i, i + m - 1)
<1>3. m \in Nat /\ n \in Nat /\ \A j \in 1..n : hay[j] \in U
    BY <1>1, <1>2
<1>4. i \in Positions(needle, hay) <=> i \in 1..(n - m + 1) /\ part = needle
    BY DEF Positions
<1> HIDE DEF m, n, part
<1>5. ASSUME i \in 1..(n - m + 1)
      PROVE  part = needle <=> \A k \in 1..m : hay[i + k - 1] = needle[k]
    <2>1. i \in Int /\ i + m - 1 \in Int /\ i + m - 1 <= n /\ i >= 1 /\ i <= (i + m - 1) + 1
        BY <1>3, <1>5
    <2>2. \A j \in i..(i + m - 1) : hay[j] \in U
        BY <1>3, <2>1
    <2>3. /\ part \in Seq(U) /\ Len(part) = m
          /\ \A k \in 1..m : part[k] = hay[i + k - 1]
        BY <1>2, <1>3, <2>1, <2>2, SubSeqProperties DEF part, n
    <2>4. ASSUME \A k \in 1..m : hay[i + k - 1] = needle[k] PROVE part = needle
        <3>1. Len(part) = Len(needle) /\ \A k \in 1..Len(needle) : part[k] = needle[k]
            BY <2>3, <2>4 DEF m
        <3>2. part \in Seq(T \cup U) /\ needle \in Seq(T \cup U)
            BY <1>1, <2>3
        <3> QED BY <3>1, <3>2, SeqEqual
    <2> QED BY <2>3, <2>4
<1> QED BY <1>4, <1>5 DEF m, n

LEMMA LocateFact ==
    ASSUME NEW needle, IsText(needle), NEW hay, IsText(hay), Locate(needle, hay) # Nothing
    PROVE  IsText(Locate(needle, hay)) /\ Positions(Locate(needle, hay), hay) # {}
<1> DEFINE at == Positions(Folded(needle), Folded(hay))
           first == CHOOSE i \in at : \A j \in at : i <= j
           m == Len(needle)
           n == Len(hay)
           part == SubSeq(hay, first, first + m - 1)
<1>1. at # {} /\ Locate(needle, hay) = IF Positions(needle, hay) # {} THEN needle ELSE part
    BY DEF Locate
<1>2. CASE Positions(needle, hay) # {}
    BY <1>1, <1>2
<1>3. CASE Positions(needle, hay) = {}
    <2>1. /\ IsText(Folded(needle)) /\ Len(Folded(needle)) = m /\ m \in Nat
          /\ IsText(Folded(hay)) /\ Len(Folded(hay)) = n /\ n \in Nat
        BY FoldedFact
    <2>2. at \subseteq 1..(n - m + 1)
        BY <2>1 DEF Positions
    <2> HIDE DEF at
    <2>3. first \in at
        <3>1. at \subseteq Nat
            BY <2>1, <2>2
        <3> QED BY <1>1, <3>1, LeastPlace
    <2> HIDE DEF first, m, n
    <2>4. first \in 1..(n - m + 1) /\ first + m - 1 \in Int /\ first + m - 1 <= n
        BY <2>1, <2>2, <2>3
    <2>5. PICK U : hay \in Seq(U)
        BY DEF IsText
    <2>6. \A j \in first..(first + m - 1) : hay[j] \in U
        BY <2>1, <2>4, <2>5 DEF n
    <2>7. part \in Seq(U) /\ Len(part) = m
        BY <2>1, <2>4, <2>5, <2>6, SubSeqProperties
    <2>8. Positions(part, hay) = {i \in 1..(n - m + 1) : SubSeq(hay, i, i + m - 1) = part}
        BY <2>7 DEF Positions, n
    <2>9. first \in Positions(part, hay)
        BY <2>4, <2>8
    <2> HIDE DEF part
    <2> QED BY <1>1, <1>3, <2>7, <2>9 DEF IsText
<1> QED BY <1>2, <1>3

\* The needle that stands in the text is found.
LEMMA LocateFinds ==
    ASSUME NEW needle, IsText(needle), NEW hay, IsText(hay), needle # <<>>, Positions(needle, hay) # {}
    PROVE  Locate(needle, hay) = needle
<1>1. PICK i : i \in Positions(needle, hay)
    OBVIOUS
<1> DEFINE m == Len(needle)
           n == Len(hay)
           fn == Folded(needle)
           fh == Folded(hay)
<1>2. /\ IsText(fn) /\ Len(fn) = m /\ m \in Nat /\ \A k \in 1..m : fn[k] = Lower(needle[k])
      /\ IsText(fh) /\ Len(fh) = n /\ n \in Nat /\ \A k \in 1..n : fh[k] = Lower(hay[k])
    BY FoldedFact
<1>3. i \in 1..(n - m + 1) /\ \A k \in 1..m : hay[i + k - 1] = needle[k]
    BY <1>1, PositionsFact
<1> HIDE DEF m, n, fn, fh
<1>4. \A k \in 1..m : fh[i + k - 1] = fn[k]
    BY <1>2, <1>3
<1>5. i \in Positions(fn, fh)
    BY <1>2, <1>3, <1>4, PositionsFact
<1> QED BY <1>5 DEF Locate, fn, fh

\* _verify: whatever the model answers and whatever the article says, what is
\* stored is the article's own text: the passage stands character for character
\* in the part the model was shown, and the phrase in the passage and shorter
\* than it. An answer that quotes them exactly is never refused.
THEOREM PlacementsAreQuoted ==
    ASSUME NEW Chars, Nothing \notin Seq(Chars),
           NEW passage \in Seq(Chars), NEW anchor \in Seq(Chars), NEW content \in Seq(Chars)
    PROVE  Verbatim(passage, anchor, content, Verify(passage, anchor, content))
<1> DEFINE source == Slice(content)
           np == Normalize(passage)
           na == Normalize(anchor)
           p == Locate(np, source)
           a == IF p = Nothing THEN Nothing ELSE Locate(na, p)
           answer == Verify(passage, anchor, content)
           quoted == /\ np = passage /\ na = anchor
                     /\ passage # <<>> /\ Len(anchor) \in MinAnchorChars..MaxAnchorChars
                     /\ Len(anchor) < Len(passage)
                     /\ Positions(passage, source) # {} /\ Positions(anchor, passage) # {}
<1>1. IsText(source) /\ IsText(np) /\ IsText(na) /\ IsText(passage) /\ IsText(anchor)
    BY SliceFact, NormalizeFact DEF IsText
<1>2. answer = IF a = Nothing THEN Nothing
               ELSE IF Len(a) \notin MinAnchorChars..MaxAnchorChars \/ Len(a) = Len(p) THEN Nothing
               ELSE [context |-> p, anchor |-> a]
    BY DEF Verify
<1> SUFFICES /\ answer # Nothing => /\ Positions(answer.context, source) # {}
                                    /\ Positions(answer.anchor, answer.context) # {}
                                    /\ Len(answer.anchor) < Len(answer.context)
             /\ quoted => answer = [context |-> passage, anchor |-> anchor]
    BY DEF Verbatim
<1> HIDE DEF source, np, na, answer
<1>3. ASSUME answer # Nothing
      PROVE  /\ Positions(answer.context, source) # {}
             /\ Positions(answer.anchor, answer.context) # {}
             /\ Len(answer.anchor) < Len(answer.context)
    <2>1. p # Nothing /\ a # Nothing /\ a = Locate(na, p)
        BY <1>2, <1>3
    <2> HIDE DEF a
    <2>2. Len(a) # Len(p) /\ answer.context = p /\ answer.anchor = a
        BY <1>2, <1>3
    <2>3. IsText(p) /\ Positions(p, source) # {}
        BY <1>1, <2>1, LocateFact
    <2> HIDE DEF p
    <2>4. IsText(a) /\ Positions(a, p) # {}
        BY <1>1, <2>1, <2>3, LocateFact
    <2>5. Len(a) < Len(p)
        <3>1. PICK i : i \in 1..(Len(p) - Len(a) + 1)
            BY <2>4 DEF Positions
        <3>2. Len(a) \in Nat /\ Len(p) \in Nat
            BY <2>3, <2>4, FoldedFact
        <3> QED BY <2>2, <3>1, <3>2
    <2> QED BY <2>2, <2>3, <2>4, <2>5
<1>4. ASSUME quoted PROVE answer = [context |-> passage, anchor |-> anchor]
    <2>1. p = passage
        BY <1>1, <1>4, LocateFinds
    <2>2. passage # Nothing /\ anchor # Nothing
        OBVIOUS
    <2>3. anchor # <<>>
        <3>1. MinAnchorChars \in Nat \ {0} /\ MaxAnchorChars \in Nat
            BY PlaceAssumptions
        <3>2. Len(anchor) # 0
            BY <1>4, <3>1
        <3> QED BY <3>2
    <2>4. Locate(na, p) = anchor
        BY <1>1, <1>4, <2>1, <2>3, LocateFinds
    <2>5. a = anchor
        BY <2>1, <2>2, <2>4
    <2>6. Len(anchor) # Len(passage)
        <3>1. Len(anchor) \in Nat /\ Len(passage) \in Nat
            OBVIOUS
        <3> QED BY <1>4, <3>1
    <2> HIDE DEF a, p
    <2> QED BY <1>2, <1>4, <2>1, <2>2, <2>5, <2>6
<1> QED BY <1>3, <1>4

------------------------------------------------------------------------------
(* CandidateRanking: the simulation of a selection of links                *)

LEMMA LinksFact ==
    ASSUME NEW nodes, IsFiniteSet(nodes), NEW U, NEW E \in SUBSET (U \X U)
    PROVE  /\ IsFiniteSet(Links(nodes, E)) /\ Links(nodes, Links(nodes, E)) = Links(nodes, E)
           /\ \A e : e \in Links(nodes, E) <=> e \in E /\ e[1] \in nodes /\ e[2] \in nodes /\ e[1] # e[2]
<1>1. IsFiniteSet(nodes \X nodes)
    BY FS_Product
<1>2. \A e : e \in Links(nodes, E) <=> e \in E /\ e[1] \in nodes /\ e[2] \in nodes /\ e[1] # e[2]
    BY DEF Links
<1>3. Links(nodes, E) \subseteq nodes \X nodes
    <2> SUFFICES ASSUME NEW e \in Links(nodes, E) PROVE e \in nodes \X nodes
        OBVIOUS
    <2>1. e \in U \X U /\ e[1] \in nodes /\ e[2] \in nodes
        BY <1>2
    <2>2. e = <<e[1], e[2]>>
        BY <2>1
    <2> QED BY <2>1, <2>2
<1>4. Links(nodes, Links(nodes, E)) = Links(nodes, E)
    BY DEF Links
<1> QED BY <1>1, <1>2, <1>3, <1>4, FS_Subset

\* An orphan is a page no link leads to.
LEMMA OrphanFact ==
    ASSUME NEW nodes, IsFiniteSet(nodes), NEW U, NEW E \in SUBSET (U \X U), NEW n \in nodes
    PROVE  ComputeGraph(nodes, E)[n].orphan <=> ~\E e \in Links(nodes, E) : e[2] = n
<1> DEFINE into == {e \in Links(nodes, E) : e[2] = n}
<1>1. IsFiniteSet(Links(nodes, E))
    BY LinksFact
<1>2. IsFiniteSet(into)
    BY <1>1, FS_Subset
<1>3. ComputeGraph(nodes, E)[n].orphan = (Cardinality(into) = 0)
    BY DEF ComputeGraph, Feature
<1>4. into = {} <=> ~\E e \in Links(nodes, E) : e[2] = n
    OBVIOUS
<1> HIDE DEF into
<1>5. Cardinality(into) = 0 <=> into = {}
    BY <1>2, FS_EmptySet
<1> QED BY <1>3, <1>4, <1>5

LEMMA OnceCounted ==
    ASSUME NEW A, NEW s \in Seq(A), \A i, j \in DOMAIN s : s[i] = s[j] => i = j
    PROVE  Cardinality(ToSet(s)) = Len(s) /\ IsFiniteSet(ToSet(s))
<1> DEFINE n == Len(s)
           S == ToSet(s)
<1>1. n \in Nat /\ DOMAIN s = 1..n
    OBVIOUS
<1>2. S = {s[i] : i \in 1..n}
    BY <1>1 DEF ToSet
<1>3. s \in [1..n -> S] /\ \A x \in S : \E i \in 1..n : s[i] = x
    BY <1>1, <1>2
<1> HIDE DEF n, S
<1>4. s \in Injection(1..n, S) /\ s \in Surjection(1..n, S)
    BY <1>1, <1>3 DEF Injection, Surjection, IsInjective
<1>5. ExistsBijection(1..n, S)
    BY <1>4 DEF ExistsBijection, Bijection
<1> QED BY <1>1, <1>5, FS_CountingElements, FS_NatBijection DEF n, S

\* The links to be written: new ones, each once.
SiftedStates(P, cur) ==
    {so \in [applied : Seq(P), duplicates : Seq(P)] :
        /\ \A i \in DOMAIN so.applied : so.applied[i] \notin cur
        /\ \A i, j \in DOMAIN so.applied : so.applied[i] = so.applied[j] => i = j}

Sifts(nodes, P, cur, so, S) ==
    so \in SiftedStates(P, cur) /\ ToSet(so.applied) = Links(nodes, S) \ cur
Adds(nodes, P, cur, so, v, e) ==
    v \in SiftedStates(P, cur) /\ ToSet(v.applied) = ToSet(so.applied) \cup (Links(nodes, {e}) \ cur)

LEMMA ProposeFact ==
    ASSUME NEW nodes, NEW P, NEW cur, NEW so \in SiftedStates(P, cur), NEW e \in P
    PROVE  Adds(nodes, P, cur, so, Propose(nodes, cur, so, e), e)
<1> DEFINE a == so.applied
           known == cur \cup ToSet(a)
           v == Propose(nodes, cur, so, e)
<1>1. /\ so \in [applied : Seq(P), duplicates : Seq(P)]
      /\ \A i \in DOMAIN a : a[i] \notin cur
      /\ \A i, j \in DOMAIN a : a[i] = a[j] => i = j
    BY DEF SiftedStates
<1>2. a \in Seq(P) /\ so.duplicates \in Seq(P) /\ e \in P
    BY <1>1
<1>3. Links(nodes, {e}) = {} \/ Links(nodes, {e}) = {e}
    BY DEF Links
<1>4. ToSet(a) = {a[i] : i \in DOMAIN a}
    BY DEF ToSet
<1>5. \/ e \in known /\ v = [so EXCEPT !.duplicates = Append(so.duplicates, e)]
      \/ e \notin known /\ Links(nodes, {e}) = {e} /\ v = [so EXCEPT !.applied = Append(a, e)]
      \/ e \notin known /\ Links(nodes, {e}) = {} /\ v = so
    BY <1>3 DEF Propose, IsNew
<1> SUFFICES v \in SiftedStates(P, cur) /\ ToSet(v.applied) = ToSet(a) \cup (Links(nodes, {e}) \ cur)
    BY DEF Adds
<1> HIDE DEF v
<1>6. CASE e \in known /\ v = [so EXCEPT !.duplicates = Append(so.duplicates, e)]
    <2>1. Append(so.duplicates, e) \in Seq(P)
        BY <1>2, AppendProperties
    <2>2. v \in [applied : Seq(P), duplicates : Seq(P)] /\ v.applied = a
        BY <1>1, <1>6, <2>1
    <2>3. v \in SiftedStates(P, cur)
        BY <1>1, <2>2 DEF SiftedStates
    <2> HIDE DEF a
    <2> QED BY <1>3, <1>6, <2>2, <2>3
<1>7. CASE e \notin known /\ Links(nodes, {e}) = {e} /\ v = [so EXCEPT !.applied = Append(a, e)]
    <2> DEFINE b == Append(a, e)
               n == Len(a)
    <2>1. /\ b \in Seq(P) /\ n \in Nat /\ DOMAIN a = 1..n /\ DOMAIN b = 1..(n + 1) /\ b[n + 1] = e
          /\ \A i \in 1..n : b[i] = a[i]
        BY <1>2, AppendProperties
    <2>2. v \in [applied : Seq(P), duplicates : Seq(P)] /\ v.applied = b
        BY <1>1, <1>7, <2>1
    <2> HIDE DEF b, n
    <2>3. \A i \in 1..(n + 1) : i \in 1..n \/ i = n + 1
        BY <2>1
    <2>4. \A i \in 1..n : a[i] # e
        BY <1>4, <1>7, <2>1
    <2> HIDE DEF a
    <2>5. \A i \in DOMAIN b : b[i] \notin cur
        BY <1>1, <1>7, <2>1, <2>3
    <2>6. \A i, j \in DOMAIN b : b[i] = b[j] => i = j
        BY <1>1, <2>1, <2>3, <2>4
    <2>7. v \in SiftedStates(P, cur)
        BY <2>2, <2>5, <2>6 DEF SiftedStates
    <2>8. ToSet(b) = ToSet(a) \cup {e}
        <3>1. ToSet(b) = {b[i] : i \in 1..(n + 1)} /\ ToSet(a) = {a[i] : i \in 1..n}
            BY <2>1 DEF ToSet
        <3>2. 1..n \subseteq 1..(n + 1) /\ n + 1 \in 1..(n + 1)
            BY <2>1
        <3> QED BY <2>1, <2>3, <3>1, <3>2
    <2>9. {e} \ cur = {e}
        BY <1>7
    <2> QED BY <1>7, <2>2, <2>7, <2>8, <2>9
<1>8. CASE e \notin known /\ Links(nodes, {e}) = {} /\ v = so
    BY <1>8
<1> QED BY <1>5, <1>6, <1>7, <1>8

LEMMA SiftedFact ==
    ASSUME NEW nodes, NEW P, NEW cur, NEW proposed \in Seq(P)
    PROVE  Sifts(nodes, P, cur, Sifted(nodes, cur, proposed), ToSet(proposed))
<1> DEFINE N == Len(proposed)
           W == SiftedStates(P, cur)
           w == [applied |-> <<>>, duplicates |-> <<>>]
           step == [x \in (1..N) \X W |-> Propose(nodes, cur, x[2], proposed[x[1]])]
           g == CHOOSE f : f = [n \in 0..N |-> IF n = 0 THEN w ELSE Propose(nodes, cur, f[n - 1], proposed[n])]
           first(n) == {proposed[k] : k \in 1..n}
           S == {n \in 0..N : g[n] \in W /\ ToSet(g[n].applied) = Links(nodes, first(n)) \ cur}
<1>1. N \in Nat /\ DOMAIN proposed = 1..N /\ \A n \in 1..N : proposed[n] \in P
    OBVIOUS
<1>2. Sifted(nodes, cur, proposed) = g[N]
    BY DEF Sifted
<1>3. w \in W /\ w.applied = <<>>
    BY DEF SiftedStates
<1> HIDE DEF N, W, w
<1>14. \A n \in 1..N, so \in W : Adds(nodes, P, cur, so, Propose(nodes, cur, so, proposed[n]), proposed[n])
    BY <1>1, ProposeFact DEF W
<1>4. \A n \in 1..N, so \in W : Propose(nodes, cur, so, proposed[n]) \in W
    BY <1>14 DEF Adds, W
<1>5. step \in [(1..N) \X W -> W] /\ \A n \in 1..N, so \in W : step[<<n, so>>] = Propose(nodes, cur, so, proposed[n])
    BY <1>4
<1> HIDE DEF step
<1>6. PICK f \in [0..N -> W] : Iteration(f, N, w, step)
    BY <1>1, <1>3, <1>5, Iterates
<1>7. f = [n \in 0..N |-> IF n = 0 THEN w ELSE Propose(nodes, cur, f[n - 1], proposed[n])]
    <2>1. ASSUME NEW n \in 0..N PROVE f[n] = IF n = 0 THEN w ELSE Propose(nodes, cur, f[n - 1], proposed[n])
        <3>1. CASE n = 0
            BY <1>6, <3>1 DEF Iteration
        <3>2. CASE n # 0
            <4>1. n \in 1..N /\ n - 1 \in 0..N
                BY <1>1, <3>2
            <4>2. f[n] = step[<<n, f[n - 1]>>] /\ f[n - 1] \in W
                BY <1>6, <4>1 DEF Iteration
            <4> QED BY <1>5, <3>2, <4>1, <4>2
        <3> QED BY <3>1, <3>2
    <2> QED BY <2>1
<1>8. g = [n \in 0..N |-> IF n = 0 THEN w ELSE Propose(nodes, cur, g[n - 1], proposed[n])]
    BY <1>7
<1> HIDE DEF g
<1>9. 0 \in S
    <2>1. g[0] = w
        BY <1>1, <1>8
    <2>2. ToSet(<<>>) = {} /\ first(0) = {} /\ Links(nodes, {}) = {}
        BY DEF ToSet, Links
    <2> HIDE DEF first
    <2>3. ToSet(g[0].applied) = Links(nodes, first(0)) \ cur
        BY <1>3, <2>1, <2>2
    <2> QED BY <1>1, <1>3, <2>1, <2>3
<1>10. ASSUME NEW n \in 0..(N - 1), n \in S PROVE n + 1 \in S
    <2>1. n + 1 \in 1..N /\ (n + 1) - 1 = n /\ n + 1 \in 0..N /\ n + 1 # 0
        BY <1>1
    <2>2. g[n + 1] = Propose(nodes, cur, g[n], proposed[n + 1])
        BY <1>8, <2>1
    <2>3. g[n] \in W /\ ToSet(g[n].applied) = Links(nodes, first(n)) \ cur
        BY <1>10
    <2>4. g[n + 1] \in W /\ ToSet(g[n + 1].applied) = ToSet(g[n].applied) \cup (Links(nodes, {proposed[n + 1]}) \ cur)
        BY <1>4, <1>14, <2>1, <2>2, <2>3 DEF Adds
    <2>5. first(n + 1) = first(n) \cup {proposed[n + 1]}
        <3>1. \A k \in 1..(n + 1) : k \in 1..n \/ k = n + 1
            BY <2>1
        <3>2. 1..n \subseteq 1..(n + 1) /\ n + 1 \in 1..(n + 1)
            BY <2>1
        <3> QED BY <3>1, <3>2
    <2> HIDE DEF first
    <2>6. Links(nodes, first(n + 1)) = Links(nodes, first(n)) \cup Links(nodes, {proposed[n + 1]})
        BY <2>5 DEF Links
    <2>7. ToSet(g[n + 1].applied) = Links(nodes, first(n + 1)) \ cur
        BY <2>3, <2>4, <2>6
    <2> QED BY <2>1, <2>4, <2>7
<1>11. 0..N \subseteq S
    <2> HIDE DEF S
    <2>1. \A n \in 0..(N - 1) : n \in S => n + 1 \in S
        BY <1>10
    <2> QED BY <1>1, <1>9, <2>1, UpTo
<1>12. g[N] \in W /\ ToSet(g[N].applied) = Links(nodes, first(N)) \ cur
    BY <1>1, <1>11
<1>13. first(N) = ToSet(proposed)
    BY <1>1 DEF ToSet
<1> QED BY <1>2, <1>12, <1>13 DEF W, Sifts

\* simulate_graph: for any pages, links and selection, repeated, already
\* written or leading out of the graph, the prediction is the graph that
\* writing the selection and computing it anew would give: its links, its
\* orphans and the pages that cease to be one; and what it says it would write
\* are the links that are missing, each once.
THEOREM SimulationPredicts ==
    ASSUME NEW nodes, IsFiniteSet(nodes), NEW U, NEW edges \in SUBSET (U \X U), NEW proposed \in Seq(U \X U)
    PROVE  Predicts(nodes, edges, proposed, Simulate(nodes, edges, proposed))
<1> DEFINE P == U \X U
           cur == Links(nodes, edges)
           found == Sifted(nodes, cur, proposed)
           a == found.applied
           written == cur \cup ToSet(a)
           all == edges \cup ToSet(proposed)
           after == Links(nodes, all)
           orphans(E) == {n \in nodes : ~\E e \in E : e[2] = n}
           was == ComputeGraph(nodes, cur)
           is == ComputeGraph(nodes, written)
           r == Simulate(nodes, edges, proposed)
<1>1. /\ r.linksAfter = Cardinality(Links(nodes, written)) /\ r.orphansAfter = Count(is, "orphan")
      /\ r.connected = {n \in nodes : was[n].orphan /\ ~is[n].orphan} /\ r.applied = a
    BY DEF Simulate
<1>2. found \in SiftedStates(P, cur) /\ ToSet(a) = Links(nodes, ToSet(proposed)) \ cur
    <2>1. proposed \in Seq(P)
        OBVIOUS
    <2> HIDE DEF P, cur
    <2>2. Sifts(nodes, P, cur, found, ToSet(proposed))
        BY <2>1, SiftedFact
    <2> QED BY <2>2 DEF Sifts
<1>3. /\ a \in Seq(P) /\ \A i, j \in DOMAIN a : a[i] = a[j] => i = j
    BY <1>2 DEF SiftedStates
<1>4. ToSet(proposed) \subseteq P
    BY DEF ToSet
<1>5. /\ all \in SUBSET P /\ after = cur \cup Links(nodes, ToSet(proposed))
    BY <1>4 DEF Links
<1> HIDE DEF P, cur, found, a, was, is, r
<1>6. written = after /\ ToSet(a) = after \ cur
    BY <1>2, <1>5
<1>7. cur \in SUBSET P /\ Links(nodes, cur) = cur
    BY LinksFact DEF cur, P, Links
<1>8. after \in SUBSET P /\ Links(nodes, after) = after
    BY <1>5, LinksFact DEF P, Links
<1> HIDE DEF after, written, all
<1>9. \A n \in nodes : was[n].orphan <=> n \in orphans(cur)
    <2>1. \A n \in nodes : was[n].orphan <=> ~\E e \in Links(nodes, cur) : e[2] = n
        BY <1>7, OrphanFact DEF was, P
    <2> QED BY <1>7, <2>1
<1>10. \A n \in nodes : is[n].orphan <=> n \in orphans(after)
    <2>1. \A n \in nodes : is[n].orphan <=> ~\E e \in Links(nodes, after) : e[2] = n
        BY <1>6, <1>8, OrphanFact DEF is, P
    <2> QED BY <1>8, <2>1
<1>11. DOMAIN is = nodes
    BY DEF is, ComputeGraph
<1>12. Count(is, "orphan") = Cardinality(orphans(after))
    <2>1. {n \in DOMAIN is : is[n]["orphan"]} = {n \in nodes : is[n].orphan}
        BY <1>11
    <2>2. {n \in nodes : is[n].orphan} = orphans(after)
        BY <1>10
    <2> QED BY <2>1, <2>2 DEF Count
<1>13. r.connected = orphans(cur) \ orphans(after)
    BY <1>1, <1>9, <1>10
<1>14. Len(a) = Cardinality(after \ cur)
    <2>1. Cardinality(ToSet(a)) = Len(a)
        BY <1>3, OnceCounted
    <2> QED BY <1>6, <2>1
<1>15. r.linksAfter = Cardinality(after)
    BY <1>1, <1>6, <1>8
<1> QED BY <1>1, <1>6, <1>12, <1>13, <1>14, <1>15 DEF Predicts, cur, after, all, r
==============================================================================
