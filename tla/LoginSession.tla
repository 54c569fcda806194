---------------------------- MODULE LoginSession ----------------------------
(***************************************************************************)
(* The sign-in sessions of one user and their refresh tokens: signing in,  *)
(* refreshing, logging out, revoking one session or all of them.           *)
(*                                                                         *)
(* A request is a chain of SQL statements and one action models one        *)
(* statement that another request can notice.  The transactions run at     *)
(* READ COMMITTED, the default of PostgreSQL: a statement sees what was    *)
(* committed when it began, a row that an open transaction has updated     *)
(* cannot be updated by another one before that transaction ends, and the  *)
(* condition of an update is evaluated again after such a wait.  The state *)
(* holds the committed rows and who has a row locked; what a transaction   *)
(* has written takes effect when it commits.                               *)
(***************************************************************************)
EXTENDS Naturals

CONSTANTS
    Sessions,   \* LoginSession rows of the user
    Tokens,     \* RefreshToken rows, in the order they are committed
    Requests,   \* requests the servers can be handling at one time
    None        \* no session, no token, no request

ASSUME LoginAssumption ==
    /\ Tokens \subseteq Nat
    /\ None \notin Sessions \cup Tokens \cup Requests

VARIABLES
    session,      \* committed LoginSession rows: "none", "live", "revoked"
    token,        \* committed RefreshToken rows: "none", "live", "expired"
                  \* (not revoked, past its expiresAt) or "revoked"
    home,         \* RefreshToken.sessionId, None while the row does not exist
    replacedBy,   \* RefreshToken.replacedByTokenId
    sessionLock,  \* the request whose transaction has updated the row
    tokenLock,
    pc,           \* the next statement of a request
    old,          \* the token the request was sent
    targets,      \* the sessions it revokes
    everywhere,   \* it revokes by user, not by session
    seen          \* the tokens its updateMany has found

rows == <<session, token, home, replacedBy>>
locals == <<old, targets, everywhere, seen>>
vars == <<rows, sessionLock, tokenLock, pc, locals>>

Idle(r) == pc[r] = "idle"
Go(r, step) == pc' = [pc EXCEPT ![r] = step]
Known(t) == token[t] # "none"
Unrevoked(t) == token[t] \in {"live", "expired"}
Live(s) == {t \in Tokens : Unrevoked(t) /\ home[t] = s}
NextToken(t) == ~ Known(t) /\ \A u \in Tokens : u < t => Known(u)

\* The end of a transaction, by commit or by rollback.
Release(r) ==
    /\ sessionLock' = [s \in Sessions |-> IF sessionLock[s] = r THEN None
                                          ELSE sessionLock[s]]
    /\ tokenLock' = [t \in Tokens |-> IF tokenLock[t] = r THEN None
                                      ELSE tokenLock[t]]

\* The request is answered: its slot is free for another one.
Finish(r) ==
    /\ pc' = [pc EXCEPT ![r] = "idle"]
    /\ old' = [old EXCEPT ![r] = None]
    /\ targets' = [targets EXCEPT ![r] = {}]
    /\ everywhere' = [everywhere EXCEPT ![r] = FALSE]
    /\ seen' = [seen EXCEPT ![r] = {}]

\* JwtStrategy.validate() lets the user in with a token of a live session.
SignedIn == \E t \in Tokens : Known(t) /\ session[home[t]] = "live"

Init ==
    /\ session = [s \in Sessions |-> "none"]
    /\ token = [t \in Tokens |-> "none"]
    /\ home = [t \in Tokens |-> None]
    /\ replacedBy = [t \in Tokens |-> None]
    /\ sessionLock = [s \in Sessions |-> None]
    /\ tokenLock = [t \in Tokens |-> None]
    /\ pc = [r \in Requests |-> "idle"]
    /\ old = [r \in Requests |-> None]
    /\ targets = [r \in Requests |-> {}]
    /\ everywhere = [r \in Requests |-> FALSE]
    /\ seen = [r \in Requests |-> {}]

-----------------------------------------------------------------------------
\* Signing in: the session and its first token are two inserts.
SignIn(r, s) ==
    /\ Idle(r) /\ session[s] = "none"
    /\ session' = [session EXCEPT ![s] = "live"]
    /\ targets' = [targets EXCEPT ![r] = {s}]
    /\ Go(r, "issue")
    /\ UNCHANGED <<token, home, replacedBy, sessionLock,
                   tokenLock, old, everywhere, seen>>

IssueToken(r, t) ==
    /\ pc[r] = "issue" /\ NextToken(t)
    /\ token' = [token EXCEPT ![t] = "live"]
    /\ \E s \in targets[r] : home' = [home EXCEPT ![t] = s]
    /\ Finish(r)
    /\ UNCHANGED <<session, replacedBy, sessionLock, tokenLock>>

ExpireToken(t) ==
    /\ token[t] = "live"
    /\ token' = [token EXCEPT ![t] = "expired"]
    /\ UNCHANGED <<session, home, replacedBy, sessionLock,
                   tokenLock, pc, locals>>

-----------------------------------------------------------------------------
\* Refreshing, with any token the session ever had: a client may repeat a
\* request, and another tab may not have the newest token.  A token that is
\* unknown, or of a session that has ended, is refused and nothing changes.
RefreshReused(r, t) ==
    /\ Idle(r) /\ token[t] = "revoked"
    /\ targets' = [targets EXCEPT ![r] = {home[t]}]
    /\ Go(r, "revoke")
    /\ UNCHANGED <<rows, sessionLock, tokenLock, old, everywhere, seen>>

RefreshExpired(r, t) ==
    /\ Idle(r) /\ token[t] = "expired"
    /\ old' = [old EXCEPT ![r] = t]
    /\ Go(r, "retire")
    /\ UNCHANGED <<rows, sessionLock, tokenLock, targets, everywhere, seen>>

\* Mutant: no look at the session, since its tokens are revoked with it.
RefreshValid_AnySession(r, t) ==
    /\ Idle(r) /\ token[t] = "live"
    /\ old' = [old EXCEPT ![r] = t]
    /\ Go(r, "swap")
    /\ UNCHANGED <<rows, sessionLock, tokenLock, targets, everywhere, seen>>
RefreshValid(r, t) ==
    /\ Idle(r) /\ token[t] = "live"
    /\ session[home[t]] = "live"
    /\ old' = [old EXCEPT ![r] = t]
    /\ Go(r, "swap")
    /\ UNCHANGED <<rows, sessionLock, tokenLock, targets, everywhere, seen>>

RetireExpired(r) ==
    /\ pc[r] = "retire" /\ tokenLock[old[r]] = None
    /\ token' = [token EXCEPT ![old[r]] = "revoked"]
    /\ Finish(r)
    /\ UNCHANGED <<session, home, replacedBy, sessionLock,
                   tokenLock>>

\* The compare-and-swap.  The insert of the new row and the link to it follow
\* in the same transaction and nobody can notice them before it commits.
\* Mutant: update by id, without "revokedAt: null" in the where clause.
SwapToken_ById(r) ==
    /\ pc[r] = "swap" /\ tokenLock[old[r]] = None
    /\ tokenLock' = [tokenLock EXCEPT ![old[r]] = r]
    /\ Go(r, "touch")
    /\ UNCHANGED <<rows, sessionLock, locals>>
SwapToken(r) ==
    /\ pc[r] = "swap" /\ tokenLock[old[r]] = None
    /\ Unrevoked(old[r])
    /\ tokenLock' = [tokenLock EXCEPT ![old[r]] = r]
    /\ Go(r, "touch")
    /\ UNCHANGED <<rows, sessionLock, locals>>

SwapLost(r) ==
    /\ pc[r] = "swap" /\ tokenLock[old[r]] = None
    /\ ~ Unrevoked(old[r])
    /\ Finish(r)
    /\ UNCHANGED <<rows, sessionLock, tokenLock>>

\* lastActivityAt of the session: nothing reads the value, but the update
\* takes the row's lock.
TouchSession(r) ==
    LET s == home[old[r]] IN
    /\ pc[r] = "touch" /\ sessionLock[s] = None
    /\ sessionLock' = [sessionLock EXCEPT ![s] = r]
    /\ Go(r, "commit")
    /\ UNCHANGED <<rows, tokenLock, locals>>

\* Each waits for a row of the other.  The database rolls one of the two back;
\* here the refresh, which swallows the error of this statement and goes on.
\* The COMMIT that follows is no error either: it ends the transaction, and the
\* client is sent a token that does not exist.  Abort covers the revocation.
TouchVictim(r) ==
    /\ pc[r] = "touch"
    /\ \E q \in Requests : /\ sessionLock[home[old[r]]] = q
                           /\ pc[q] = "tokens" /\ old[r] \in seen[q]
    /\ Release(r)
    /\ Finish(r)
    /\ UNCHANGED rows

\* Mutant: the transaction is left open.
RefreshCommit_Open(r, new) ==
    /\ pc[r] = "commit" /\ NextToken(new)
    /\ token' = [token EXCEPT ![old[r]] = "revoked", ![new] = "live"]
    /\ home' = [home EXCEPT ![new] = home[old[r]]]
    /\ replacedBy' = [replacedBy EXCEPT ![old[r]] = new]
    /\ Finish(r)
    /\ UNCHANGED <<session, sessionLock, tokenLock>>
RefreshCommit(r, new) ==
    /\ pc[r] = "commit" /\ NextToken(new)
    /\ token' = [token EXCEPT ![old[r]] = "revoked", ![new] = "live"]
    /\ home' = [home EXCEPT ![new] = home[old[r]]]
    /\ replacedBy' = [replacedBy EXCEPT ![old[r]] = new]
    /\ Release(r)
    /\ Finish(r)
    /\ UNCHANGED session

-----------------------------------------------------------------------------
\* Logging out with a token that is no longer live changes nothing.
LogOut(r, t) ==
    /\ Idle(r) /\ Unrevoked(t)
    /\ old' = [old EXCEPT ![r] = t]
    /\ Go(r, "drop")
    /\ UNCHANGED <<rows, sessionLock, tokenLock, targets, everywhere, seen>>

DropToken(r) ==
    /\ pc[r] = "drop" /\ tokenLock[old[r]] = None
    /\ token' = [token EXCEPT ![old[r]] = "revoked"]
    /\ targets' = [targets EXCEPT ![r] = {home[old[r]]}]
    /\ Go(r, "revoke")
    /\ UNCHANGED <<session, home, replacedBy, sessionLock,
                   tokenLock, old, everywhere, seen>>

RevokeOne(r, s) ==
    /\ Idle(r) /\ SignedIn /\ session[s] # "none"
    /\ targets' = [targets EXCEPT ![r] = {s}]
    /\ Go(r, "revoke")
    /\ UNCHANGED <<rows, sessionLock, tokenLock, old, everywhere, seen>>

LogOutAll(r) ==
    /\ Idle(r) /\ SignedIn
    /\ targets' = [targets EXCEPT ![r] = {s \in Sessions : session[s] = "live"}]
    /\ everywhere' = [everywhere EXCEPT ![r] = TRUE]
    /\ Go(r, "revoke")
    /\ UNCHANGED <<rows, sessionLock, tokenLock, old, seen>>

\* The first statement of a revocation updates the sessions.
RevokeSessions(r) ==
    LET still == {s \in targets[r] : everywhere[r] => session[s] = "live"} IN
    /\ pc[r] = "revoke"
    /\ \A s \in targets[r] : sessionLock[s] = None
    /\ targets' = [targets EXCEPT ![r] = still]
    /\ sessionLock' = [s \in Sessions |-> IF s \in still THEN r
                                          ELSE sessionLock[s]]
    /\ Go(r, "find")
    /\ UNCHANGED <<rows, tokenLock, old, everywhere, seen>>

\* The second one finds their tokens,
FindTokens(r) ==
    /\ pc[r] = "find"
    /\ seen' = [seen EXCEPT ![r] =
           {t \in Tokens : /\ Unrevoked(t)
                           /\ everywhere[r] \/ home[t] \in targets[r]}]
    /\ Go(r, "tokens")
    /\ UNCHANGED <<rows, sessionLock, tokenLock, old, targets, everywhere>>

\* and updates them once no other transaction has them locked.
RevokeCommit(r) ==
    /\ pc[r] = "tokens"
    /\ \A t \in seen[r] : tokenLock[t] = None
    /\ session' = [s \in Sessions |-> IF s \in targets[r] THEN "revoked"
                                      ELSE session[s]]
    /\ token' = [t \in Tokens |-> IF t \in seen[r] THEN "revoked" ELSE token[t]]
    /\ Release(r)
    /\ Finish(r)
    /\ UNCHANGED <<home, replacedBy>>

-----------------------------------------------------------------------------
\* The server dies, the connection is lost, the transaction takes too long or
\* is chosen to break a deadlock: an open transaction is rolled back.
Abort(r) ==
    /\ ~ Idle(r)
    /\ Release(r)
    /\ Finish(r)
    /\ UNCHANGED rows

Next ==
    \/ \E r \in Requests, s \in Sessions : SignIn(r, s) \/ RevokeOne(r, s)
    \/ \E r \in Requests, t \in Tokens :
           \/ IssueToken(r, t)
           \/ RefreshReused(r, t)
           \/ RefreshExpired(r, t)
           \/ RefreshValid(r, t)
           \/ RefreshCommit(r, t)
           \/ LogOut(r, t)
    \/ \E r \in Requests :
           \/ RetireExpired(r)
           \/ SwapLost(r)
           \/ TouchSession(r)
           \/ TouchVictim(r)
           \/ SwapToken(r)
           \/ DropToken(r)
           \/ LogOutAll(r)
           \/ RevokeSessions(r)
           \/ FindTokens(r)
           \/ RevokeCommit(r)
           \/ Abort(r)
    \/ \E t \in Tokens : ExpireToken(t)

Spec == Init /\ [][Next]_vars

-----------------------------------------------------------------------------
Steps == {"idle", "issue", "retire", "swap", "touch", "commit", "drop",
          "revoke", "find", "tokens"}

RowTypes ==
    /\ session \in [Sessions -> {"none", "live", "revoked"}]
    /\ token \in [Tokens -> {"none", "live", "expired", "revoked"}]
    /\ home \in [Tokens -> Sessions \cup {None}]
    /\ replacedBy \in [Tokens -> Tokens \cup {None}]
    /\ sessionLock \in [Sessions -> Requests \cup {None}]
    /\ tokenLock \in [Tokens -> Requests \cup {None}]
LocalTypes ==
    /\ pc \in [Requests -> Steps]
    /\ old \in [Requests -> Tokens \cup {None}]
    /\ targets \in [Requests -> SUBSET Sessions]
    /\ everywhere \in [Requests -> BOOLEAN]
    /\ seen \in [Requests -> SUBSET Tokens]
LocksOpen ==
    /\ \A s \in Sessions : sessionLock[s] # None =>
           pc[sessionLock[s]] \in {"commit", "find", "tokens"}
    /\ \A t \in Tokens : tokenLock[t] # None =>
           pc[tokenLock[t]] \in {"touch", "commit"}

\* Every variable has its type, and a row is only locked while the transaction
\* that updated it is open: every way out of a request gives its rows back.
TypeOK == RowTypes /\ LocalTypes /\ LocksOpen

\* However refreshes, log-outs and revocations interleave, a session has at
\* most one refresh token that is not revoked: two tabs refreshing at once do
\* not fork it.
OneLiveToken ==
    \A t, u \in Tokens :
        Unrevoked(t) /\ Unrevoked(u) /\ home[t] = home[u] => t = u

\* No refresh that was under way outlives the end of its session: a revoked
\* session has no live token, unless it was revoked during its sign-in.  Then
\* the live token is the first one, which the revocation did not find, or what
\* a refresh that had read the session before has exchanged it for; both are
\* refused from then on.
RevokedSessionDead ==
    \A t, u, v \in Tokens :
        Unrevoked(t) /\ session[home[t]] = "revoked" /\ replacedBy[u] = t =>
            replacedBy[v] # u

\* Concurrent requests fork no session and revive none.
TokensSafe == OneLiveToken /\ RevokedSessionDead

\* The committed rows behave like a register of at most one token per session,
\* whatever the statements of concurrent transactions do to each other.
Holds == [s \in Sessions |->
             IF Live(s) = {} THEN None ELSE CHOOSE t \in Live(s) : TRUE]
Register == INSTANCE SessionRegister WITH
                status <- session, holds <- Holds, NoToken <- None,
                issued <- {t \in Tokens : token[t] # "none"},
                refreshed <- {s \in Sessions : \E t \in Tokens :
                                  home[t] = s /\ replacedBy[t] # None}
BehavesAsRegister == Register!Spec
=============================================================================
