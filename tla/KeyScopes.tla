------------------------------ MODULE KeyScopes ------------------------------
(***************************************************************************)
(* API keys and what they may touch: authorization.py, deps.py and the key *)
(* and tenant administration of admin_keys.py, together with the creation  *)
(* and deletion of sites they guard.                                       *)
(*                                                                         *)
(* A request reads the database when it authenticates and checks, and      *)
(* writes in a later step; other requests run in between. The database     *)
(* holds the foreign keys: a site restricts the deletion of its tenant,    *)
(* and the keys of a tenant go with it.                                    *)
(***************************************************************************)
EXTENDS Integers, FiniteSets

CONSTANTS
    Tenants,        \* tenant ids
    Default,        \* the id of the default tenant
    ApiKeys,        \* ids of keys ever minted
    SiteIds,        \* ids of sites ever created
    Requests,       \* requests in flight
    NoTenant

ASSUME ScopeAssumptions == Default \in Tenants /\ NoTenant \notin Tenants

VARIABLES
    tenants,    \* the tenants that exist
    keys,       \* [admin, tenant, state]
    siteRows,   \* the site table; madeBy is the scope of the key that created it
    request     \* what each request has read

scopeVars == <<tenants, keys, siteRows, request>>

NoKey == [state |-> "none", admin |-> FALSE, tenant |-> NoTenant]
NoSite == [state |-> "none", tenant |-> NoTenant, platform |-> "client", madeBy |-> NoTenant]

\* Who asks. Environment keys (the service's and the operators') are admins.
Principal(admin, source, tenant) == [admin |-> admin, source |-> source, tenant |-> tenant]
Service == Principal(TRUE, "legacy_env", NoTenant)
Operator == Principal(TRUE, "operator", NoTenant)
Nobody == Principal(FALSE, "none", NoTenant)

Idle == [at |-> "idle", who |-> Nobody, tenant |-> NoTenant, id |-> 0, platform |-> "client"]

-----------------------------------------------------------------------------
(* authorization.py                                                        *)

\* authenticate_api_key for a database key: live, and of exactly one kind.
Authentic(k) == keys[k].state = "live" /\ (keys[k].admin <=> keys[k].tenant = NoTenant)

MayUse(who, tenant) == who.admin \/ (who.tenant # NoTenant /\ tenant = who.tenant)

\* Mutant: the scope's own pool sources may be changed too.
AuthorizeOwner(who, site) == MayUse(who, site.tenant)

AuthorizeSite(who, site) ==
    who.admin \/ (site.platform # "pool" /\ MayUse(who, site.tenant))

AuthorizeSiteRead(who, site) == site.platform = "pool" \/ MayUse(who, site.tenant)

\* check_site_access: for the batched routes, over rows of managed sites.
CheckSiteAccess(who, site) == MayUse(who, site.tenant)

RequireCreatablePlatform(who, platform) == platform # "pool" \/ who.admin

Existing == {s \in SiteIds : siteRows[s].state = "live"}

TenantSiteFilter(who) == {s \in Existing : who.admin \/ siteRows[s].tenant = who.tenant}

ReadableSiteFilter(who) == TenantSiteFilter(who) \cup {s \in Existing : siteRows[s].platform = "pool"}

\* resolve_create_tenant_id; NoTenant when the request is refused.
ResolveCreateTenant(who, wanted) ==
    IF who.admin THEN IF wanted = NoTenant THEN Default ELSE IF wanted \in tenants THEN wanted ELSE NoTenant
    ELSE IF wanted \in {NoTenant, who.tenant} THEN who.tenant ELSE NoTenant

-----------------------------------------------------------------------------
(* One request at a time per r: authenticate, check, write                 *)

Authenticate(r) ==
    /\ request[r].at = "idle"
    /\ \E who \in {Service, Operator}
                  \cup {Principal(keys[k].admin, "db", keys[k].tenant) : k \in {j \in ApiKeys : Authentic(j)}} :
          request' = [request EXCEPT ![r] = [Idle EXCEPT !.at = "asked", !.who = who]]
    /\ UNCHANGED <<tenants, keys, siteRows>>

\* create_site up to its insert. ensure_default_tenant only makes the default
\* tenant that is always there.
CheckCreate(r, wanted, platform) ==
    LET owner == ResolveCreateTenant(request[r].who, wanted)
    IN  /\ request[r].at = "asked"
        /\ request' = IF owner = NoTenant \/ ~RequireCreatablePlatform(request[r].who, platform)
                      THEN [request EXCEPT ![r] = Idle]
                      ELSE [request EXCEPT ![r].at = "create", ![r].tenant = owner, ![r].platform = platform]
        /\ UNCHANGED <<tenants, keys, siteRows>>

\* The insert; the foreign key refuses a tenant that went meanwhile.
CreateSite(r) ==
    /\ request[r].at = "create"
    /\ IF request[r].tenant \in tenants
       THEN \E s \in SiteIds :
               /\ siteRows[s].state = "none"
               /\ siteRows' = [siteRows EXCEPT ![s] =
                     [NoSite EXCEPT !.state = "live", !.tenant = request[r].tenant,
                                    !.platform = request[r].platform, !.madeBy = request[r].who.tenant]]
       ELSE UNCHANGED siteRows
    /\ request' = [request EXCEPT ![r] = Idle]
    /\ UNCHANGED <<tenants, keys>>

\* Any mutating route of a site: authorized, then written.
CheckSite(r, s) ==
    /\ request[r].at = "asked"
    /\ request' = IF s \in Existing /\ AuthorizeSite(request[r].who, siteRows[s])
                  THEN [request EXCEPT ![r].at = "change", ![r].id = s]
                  ELSE [request EXCEPT ![r] = Idle]
    /\ UNCHANGED <<tenants, keys, siteRows>>

DeleteSite(r) ==
    /\ request[r].at = "change"
    /\ siteRows' = [siteRows EXCEPT ![request[r].id] =
                        IF @.state = "live" THEN [@ EXCEPT !.state = "deleted"] ELSE @]
    /\ request' = [request EXCEPT ![r] = Idle]
    /\ UNCHANGED <<tenants, keys>>

-----------------------------------------------------------------------------
(* admin_keys.py; every route requires an admin                            *)

CreateTenant(r, t) ==
    /\ request[r].at = "asked" /\ request[r].who.admin
    /\ t \notin tenants
    /\ tenants' = tenants \cup {t}
    /\ request' = [request EXCEPT ![r] = Idle]
    /\ UNCHANGED <<keys, siteRows>>

Owns(t) == \E s \in Existing : siteRows[s].tenant = t

CheckDelete(r, t) ==
    /\ request[r].at = "asked" /\ request[r].who.admin
    /\ request' = IF t \in tenants /\ t # Default /\ ~Owns(t)
                  THEN [request EXCEPT ![r].at = "delete tenant", ![r].tenant = t]
                  ELSE [request EXCEPT ![r] = Idle]
    /\ UNCHANGED <<tenants, keys, siteRows>>

Restricted(t) == ~Owns(t)

DeleteTenant(r) ==
    LET t == request[r].tenant
    IN  /\ request[r].at = "delete tenant"
        /\ IF Restricted(t)
           THEN /\ tenants' = tenants \ {t}
                /\ keys' = [k \in ApiKeys |-> IF keys[k].tenant = t THEN [keys[k] EXCEPT !.state = "gone"] ELSE keys[k]]
           ELSE UNCHANGED <<tenants, keys>>
        /\ request' = [request EXCEPT ![r] = Idle]
        /\ UNCHANGED siteRows

\* A tenant's key, or an admin's without one.
CheckKey(r, t) ==
    /\ request[r].at = "asked" /\ request[r].who.admin
    /\ request' = IF t \in tenants \cup {NoTenant}
                  THEN [request EXCEPT ![r].at = "create key", ![r].tenant = t]
                  ELSE [request EXCEPT ![r] = Idle]
    /\ UNCHANGED <<tenants, keys, siteRows>>

CreateKey(r) ==
    LET t == request[r].tenant
    IN  /\ request[r].at = "create key"
        /\ IF t \in tenants \cup {NoTenant}
           THEN \E k \in ApiKeys :
                   /\ keys[k].state = "none"
                   /\ keys' = [keys EXCEPT ![k] = [state |-> "live", admin |-> t = NoTenant, tenant |-> t]]
           ELSE UNCHANGED keys
        /\ request' = [request EXCEPT ![r] = Idle]
        /\ UNCHANGED <<tenants, siteRows>>

RevokeKey(r, k) ==
    /\ request[r].at = "asked" /\ request[r].who.admin
    /\ keys' = [keys EXCEPT ![k].state = IF @ \in {"live", "expired"} THEN "revoked" ELSE @]
    /\ request' = [request EXCEPT ![r] = Idle]
    /\ UNCHANGED <<tenants, siteRows>>

\* expires_at passes.
Expire(k) ==
    /\ keys[k].state = "live"
    /\ keys' = [keys EXCEPT ![k].state = "expired"]
    /\ UNCHANGED <<tenants, siteRows, request>>

-----------------------------------------------------------------------------
ScopeInit ==
    /\ tenants = {Default}
    /\ keys = [k \in ApiKeys |-> NoKey]
    /\ siteRows = [s \in SiteIds |-> NoSite]
    /\ request = [r \in Requests |-> Idle]

ScopeNext ==
    \/ \E r \in Requests :
          \/ Authenticate(r) \/ CreateSite(r) \/ DeleteSite(r) \/ DeleteTenant(r) \/ CreateKey(r)
          \/ \E wanted \in Tenants \cup {NoTenant}, platform \in {"client", "pool"} : CheckCreate(r, wanted, platform)
          \/ \E s \in SiteIds : CheckSite(r, s)
          \/ \E t \in Tenants : CreateTenant(r, t) \/ CheckDelete(r, t)
          \/ \E t \in Tenants \cup {NoTenant} : CheckKey(r, t)
          \/ \E k \in ApiKeys : RevokeKey(r, k)
    \/ \E k \in ApiKeys : Expire(k)

ScopeSpec == ScopeInit /\ [][ScopeNext]_scopeVars

-----------------------------------------------------------------------------
(* Properties                                                              *)

Principals == {Service, Operator} \cup {Principal(FALSE, "db", t) : t \in tenants}

\* The four predicates are written separately, two of them as SQL.
ScopesAgree ==
    \A who \in Principals :
        /\ ReadableSiteFilter(who) = {s \in Existing : AuthorizeSiteRead(who, siteRows[s])}
        /\ {s \in Existing : AuthorizeSite(who, siteRows[s])} \subseteq ReadableSiteFilter(who)
        /\ \A s \in Existing : siteRows[s].platform # "pool" =>
              (CheckSiteAccess(who, siteRows[s]) <=> AuthorizeSite(who, siteRows[s]))

OwnersExist ==
    /\ \A s \in Existing : siteRows[s].tenant \in tenants
    /\ \A k \in ApiKeys : keys[k].state = "live" => keys[k].admin \/ keys[k].tenant \in tenants

\* A scoped key is contained: it never makes, deletes or otherwise changes a
\* shared pool source or a site of another scope, also when its check and its
\* write are apart. What it lists is what it may read, what it may change is
\* part of that, and a batched route decides about a managed site as the
\* single ones do. And no request, however its steps interleave with the
\* deletion of its tenant, leaves a live site or key that belongs to nobody.
KeyContained ==
    /\ ScopesAgree
    /\ OwnersExist
    /\ \A r \in Requests : request[r].at = "change" /\ ~request[r].who.admin =>
          LET s == siteRows[request[r].id] IN s.tenant = request[r].who.tenant /\ s.platform # "pool"
    /\ \A s \in SiteIds : siteRows[s].state # "none" /\ siteRows[s].madeBy # NoTenant =>
          siteRows[s].tenant = siteRows[s].madeBy /\ siteRows[s].platform # "pool"
==============================================================================
