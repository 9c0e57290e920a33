--------------------------- MODULE DashboardAccess ---------------------------
(***************************************************************************)
(* Who may open the dashboard: dashboard_auth.py, routes/auth.py and the   *)
(* login bot. A person asks the bot for a code, an admin admits them, the  *)
(* browser trades the code for a session, and every request verifies its   *)
(* session before it acts.                                                 *)
(*                                                                         *)
(* Requests run at once, in READ COMMITTED transactions without row locks  *)
(* on users: each reads, and writes later by what it read. The clock only  *)
(* lets codes and sessions lapse. The bot is one process.                  *)
(***************************************************************************)
EXTENDS Integers, FiniteSets

CONSTANTS
    People,         \* telegram ids
    BootstrapId,    \* dashboard_bootstrap_admin_id
    Codes,          \* codes the bot will draw, in this order
    SessionIds,     \* tokens that will be issued, in this order
    Browsers,       \* requests in flight
    MaxVisits,      \* bound: requests
    MaxLapses,      \* bound: codes and sessions that run out
    Nobody

ASSUME AccessAssumptions ==
    /\ BootstrapId \in People /\ Nobody \notin People
    /\ Codes \subseteq Nat /\ SessionIds \subseteq Nat
    /\ MaxVisits \in Nat /\ MaxLapses \in Nat

VARIABLES
    member,     \* member[p]: [status, admin] of dashboard_users
    nonce,      \* nonce[c]: [owner, state] of dashboard_login_nonces
    sess,       \* sess[i]: [owner, from, revoked, lapsed] of dashboard_sessions
    bot,        \* the update or the start-up the bot is working on
    visit,      \* visit[b]: the request of browser b
    visits,     \* requests so far
    lapses      \* lapses so far

accessVars == <<member, nonce, sess, bot, visit, visits, lapses>>

Absent == [status |-> "none", admin |-> FALSE]
NoNonce == [owner |-> Nobody, state |-> "none"]
NoSession == [owner |-> Nobody, from |-> 0, revoked |-> FALSE, lapsed |-> FALSE]
NoVisit == [at |-> "idle", code |-> 0, session |-> 0, who |-> Nobody, target |-> Nobody,
            op |-> "none", seen |-> Absent]
NoUpdate == [at |-> "poll", who |-> Nobody, seen |-> Absent]

Drawn == {c \in Codes : nonce[c].state # "none"}
Issued == {i \in SessionIds : sess[i].owner # Nobody}
First(S) == CHOOSE x \in S : \A y \in S : x <= y

-----------------------------------------------------------------------------
(* The bot: /start, and what it does before the first poll.                *)

\* upsert_user_request: a first message records a pending request.
BotRead(p) ==
    /\ bot = NoUpdate
    /\ Codes \ Drawn # {}
    /\ bot' = [at |-> "update", who |-> p, seen |-> member[p]]
    /\ UNCHANGED <<member, nonce, sess, visit, visits, lapses>>

ConsumeNonces(p) ==
    [c \in Codes |-> IF nonce[c].owner = p /\ nonce[c].state \in {"live", "lapsed"}
                     THEN [nonce[c] EXCEPT !.state = "spent"] ELSE nonce[c]]

BotWrite ==
    /\ bot.at = "update"
    /\ \/ /\ bot.seen.status = "none"
          /\ member' = [member EXCEPT ![bot.who] = [status |-> "pending", admin |-> FALSE]]
          /\ UNCHANGED nonce
       \/ /\ bot.seen.status = "approved"
          /\ nonce' = [ConsumeNonces(bot.who) EXCEPT
                          ![First(Codes \ Drawn)] = [owner |-> bot.who, state |-> "live"]]
          /\ UNCHANGED member
       \/ /\ bot.seen.status \in {"pending", "revoked"}
          /\ UNCHANGED <<member, nonce>>
    /\ bot' = NoUpdate
    /\ UNCHANGED <<sess, visit, visits, lapses>>

\* ensure_bootstrap_admin, when the bot is started again.
BootRead ==
    /\ bot = NoUpdate
    /\ bot' = [at |-> "boot", who |-> BootstrapId, seen |-> member[BootstrapId]]
    /\ UNCHANGED <<member, nonce, sess, visit, visits, lapses>>

BootAdmits(seen) == seen.status \in {"none", "pending"}

BootWrite ==
    /\ bot.at = "boot"
    /\ member' = [member EXCEPT
          ![BootstrapId].status = IF BootAdmits(bot.seen) THEN "approved" ELSE @,
          ![BootstrapId].admin = @ \/ (bot.seen.status # "revoked" /\ ~bot.seen.admin)]
    /\ bot' = NoUpdate
    /\ UNCHANGED <<nonce, sess, visit, visits, lapses>>

-----------------------------------------------------------------------------
(* Logging in: complete_login.                                             *)

NewVisit(b) ==
    /\ visit[b].at = "idle"
    /\ visits < MaxVisits
    /\ visits' = visits + 1

RedeemRead(b, c) ==
    /\ NewVisit(b)
    /\ nonce[c].state = "live"
    /\ visit' = [visit EXCEPT ![b] = [NoVisit EXCEPT !.at = "spend", !.code = c,
                    !.who = nonce[c].owner, !.seen = member[nonce[c].owner]]]
    /\ UNCHANGED <<member, nonce, sess, bot, lapses>>

\* Mutant: the code is marked without looking whether it still was unspent.
SpendsAnyway(c) == nonce[c].state # "none"

\* UPDATE ... WHERE consumed_at IS NULL: of two redemptions one finds nothing.
\* The statement does not look at expires_at again.
Spends(c) == nonce[c].state \in {"live", "lapsed"}

Redeem(b) ==
    LET v == visit[b]
        token == First(SessionIds \ Issued)
        admitted == Spends(v.code) /\ v.seen.status = "approved"
    IN  /\ v.at = "spend"
        /\ SessionIds \ Issued # {}
        /\ nonce' = IF Spends(v.code) THEN [nonce EXCEPT ![v.code].state = "spent"] ELSE nonce
        /\ sess' = IF admitted
                   THEN [sess EXCEPT ![token] = [NoSession EXCEPT !.owner = v.who, !.from = v.code]]
                   ELSE sess
        /\ visit' = [visit EXCEPT ![b] = IF Spends(v.code) THEN [NoVisit EXCEPT !.at = "purge"]
                                         ELSE NoVisit]
        /\ UNCHANGED <<member, bot, visits, lapses>>

\* purge_expired_login_codes deletes what is of no use any more.
Purge(b) ==
    /\ visit[b].at = "purge"
    /\ nonce' = [c \in Codes |-> IF nonce[c].state \in {"spent", "lapsed"}
                                 THEN [nonce[c] EXCEPT !.state = "deleted"] ELSE nonce[c]]
    /\ visit' = [visit EXCEPT ![b] = NoVisit]
    /\ UNCHANGED <<member, sess, bot, visits, lapses>>

-----------------------------------------------------------------------------
(* A request: verify_session, _slide, and what an admin does with it.      *)

Usable(i) == sess[i].owner # Nobody /\ ~sess[i].revoked /\ ~sess[i].lapsed

Verify(b, i, op, target) ==
    LET p == sess[i].owner
    IN  /\ NewVisit(b)
        /\ Usable(i)
        /\ member[p].status = "approved"
        /\ visit' = [visit EXCEPT ![b] = [NoVisit EXCEPT !.at = "slide", !.session = i,
                        !.who = p, !.op = op, !.target = target, !.seen = member[p]]]
        /\ UNCHANGED <<member, nonce, sess, bot, lapses>>

SlidRow(i) == [sess[i] EXCEPT !.lapsed = FALSE]

\* An admin's operation on an account that exists, and not taking away one's
\* own access or rights.
Permitted(me, p, op, target) ==
    /\ me.admin
    /\ member[target].status # "none"
    /\ op \in {"revoke", "demote"} => target # p

\* At most once per interval; a failure to slide fails nothing, but its
\* rollback makes the session read the caller again. Then the admin gate, and
\* the route loads the account it is about: the caller's own is at hand already.
Slide(b, how) ==
    LET v == visit[b]
        me == IF how = "failed" THEN member[v.who] ELSE v.seen
    IN  /\ v.at = "slide"
        /\ sess' = IF how = "slid" THEN [sess EXCEPT ![v.session] = SlidRow(v.session)] ELSE sess
        /\ visit' = [visit EXCEPT ![b] =
              IF v.op # "read" /\ Permitted(me, v.who, v.op, v.target)
              THEN [v EXCEPT !.at = "act",
                             !.seen = IF v.target = v.who THEN me ELSE member[v.target]]
              ELSE NoVisit]
        /\ UNCHANGED <<member, nonce, bot, visits, lapses>>

\* The session writes the columns it saw change, and nothing else.
Changed(old, new, now) == IF old = new THEN now ELSE new

\* Mutant: the row goes back whole, as it was read.
SetWholeRow(v, field, value) ==
    member' = [member EXCEPT ![v.target] = [v.seen EXCEPT ![field] = value]]

SetMember(v, field, value) ==
    member' = [member EXCEPT ![v.target][field] = Changed(v.seen[field], value, @)]

RevokedSessions(p) ==
    [i \in SessionIds |-> [sess[i] EXCEPT !.revoked = @ \/ sess[i].owner = p]]

Act(b) ==
    LET v == visit[b]
    IN  /\ v.at = "act"
        /\ \/ v.op = "approve" /\ SetMember(v, "status", "approved") /\ UNCHANGED sess
           \/ /\ v.op = "revoke"
              /\ SetMember(v, "status", "revoked")
              /\ sess' = RevokedSessions(v.target)
           \/ /\ v.op = "promote"
              /\ IF v.seen.status = "approved" THEN SetMember(v, "admin", TRUE)
                                               ELSE UNCHANGED member
              /\ UNCHANGED sess
           \/ v.op = "demote" /\ SetMember(v, "admin", FALSE) /\ UNCHANGED sess
        /\ visit' = [visit EXCEPT ![b] = NoVisit]
        /\ UNCHANGED <<nonce, bot, visits, lapses>>

Logout(i) ==
    /\ sess[i].owner # Nobody /\ ~sess[i].revoked
    /\ visits < MaxVisits
    /\ visits' = visits + 1
    /\ sess' = [sess EXCEPT ![i].revoked = TRUE]
    /\ UNCHANGED <<member, nonce, bot, visit, lapses>>

\* The clock passes expires_at.
Lapse ==
    /\ lapses < MaxLapses
    /\ lapses' = lapses + 1
    /\ \/ \E c \in Codes : /\ nonce[c].state = "live"
                           /\ nonce' = [nonce EXCEPT ![c].state = "lapsed"]
                           /\ UNCHANGED sess
       \/ \E i \in Issued : /\ ~sess[i].lapsed
                            /\ sess' = [sess EXCEPT ![i].lapsed = TRUE]
                            /\ UNCHANGED nonce
    /\ UNCHANGED <<member, bot, visit, visits>>

-----------------------------------------------------------------------------
Ops == {"read", "approve", "revoke", "promote", "demote"}

AccessInit ==
    /\ member = [p \in People |-> Absent]
    /\ nonce = [c \in Codes |-> NoNonce]
    /\ sess = [i \in SessionIds |-> NoSession]
    /\ bot = NoUpdate
    /\ visit = [b \in Browsers |-> NoVisit]
    /\ visits = 0
    /\ lapses = 0

AccessNext ==
    \/ \E p \in People : BotRead(p)
    \/ BotWrite
    \/ BootRead
    \/ BootWrite
    \/ \E b \in Browsers, c \in Codes : RedeemRead(b, c)
    \/ \E b \in Browsers : Redeem(b) \/ Purge(b) \/ Act(b)
    \/ \E b \in Browsers, how \in {"not due", "slid", "failed"} : Slide(b, how)
    \/ \E b \in Browsers, i \in SessionIds, op \in Ops, p \in People : Verify(b, i, op, p)
    \/ \E i \in SessionIds : Logout(i)
    \/ Lapse

AccessSpec == AccessInit /\ [][AccessNext]_accessVars

-----------------------------------------------------------------------------
(* Properties                                                              *)

\* One code opens at most one session, however many browsers submit it at
\* once and whatever is purged meanwhile; and the bot's newest message is the
\* only one worth entering: of one person at most one code is live, although
\* the account may be revoked and admitted again between the reading of it and
\* the writing of the code.
OneSessionPerCode ==
    /\ \A i, j \in Issued : sess[i].from = sess[j].from => i = j
    /\ \A c, d \in Codes :
        nonce[c].state = "live" /\ nonce[d].state = "live" /\ nonce[c].owner = nonce[d].owner
            => c = d

\* A person who was refused gets back in by an admin's decision only: neither
\* a bot that starts again nor a request about the account's rights, each of
\* which writes by what it read earlier, undoes a ban made in between. A
\* session that was logged out, or ended with its owner's access, stays ended,
\* also when a request that verified it just before extends it.
BanStands ==
    [][/\ \A i \in SessionIds : sess[i].revoked => sess'[i].revoked
       /\ \A p \in People :
          member[p].status = "revoked" /\ member'[p].status # "revoked"
              => \E b \in Browsers :
                    visit[b].at = "act" /\ visit[b].op = "approve" /\ visit[b].target = p
      ]_accessVars
==============================================================================
