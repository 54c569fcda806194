------------------------ MODULE LoginSession_proofs ------------------------
(***************************************************************************)
(* Theorems about LoginSession for any number of sessions, tokens and      *)
(* concurrent requests.  The properties are no invariant of the steps on   *)
(* their own: what a request has read before stays true until it is used   *)
(* because of the rows it holds locked (Locked), because of what its       *)
(* updateMany found (Found), and because a revocation and the swap of a    *)
(* token compete for that token's row (Late).  The last part shows that    *)
(* LoginSession implements SessionRegister.                                *)
(***************************************************************************)
EXTENDS LoginSession, TLAPS

\* A request works on a token that exists,
WorksOnToken ==
    \A r \in Requests :
        pc[r] \in {"retire", "swap", "touch", "commit", "drop"} =>
            old[r] \in Tokens /\ Known(old[r])
\* and on tokens that exist.
SeenKnown ==
    \A r \in Requests : \A t \in seen[r] : Known(t)
\* A token belongs to a session and is replaced by a token.
Rows ==
    \A t \in Tokens :
        /\ Known(t) => home[t] \in Sessions /\ session[home[t]] # "none"
        /\ ~ Known(t) => home[t] = None
        /\ replacedBy[t] # None => Known(t) /\ Known(replacedBy[t])
\* A session being signed in to has no token, and one request signs in to it.
SigningIn ==
    \A r \in Requests : \A s \in targets[r] : pc[r] = "issue" =>
        /\ session[s] # "none"
        /\ \A t \in Tokens : home[t] # s
        /\ \A q \in Requests : pc[q] = "issue" /\ s \in targets[q] => q = r
\* The rows an open transaction has updated are its own, and the token that is
\* being exchanged was not given up.
Locked ==
    \A r \in Requests :
        /\ pc[r] \in {"touch", "commit"} => tokenLock[old[r]] = r /\ Unrevoked(old[r])
        /\ pc[r] = "commit" => sessionLock[home[old[r]]] = r
        /\ pc[r] \in {"find", "tokens"} => \A s \in targets[r] : sessionLock[s] = r
\* A token that a revocation did not find is the first one of its session.
Found ==
    \A r \in Requests, t \in Tokens :
        pc[r] = "tokens" /\ Unrevoked(t) /\ home[t] \in targets[r] /\ t \notin seen[r] =>
            \A u \in Tokens : replacedBy[u] # t
\* A token exchanged after the end of its session is its first one.
Late ==
    \A r \in Requests :
        /\ pc[r] \in {"swap", "touch", "commit"}
        /\ session[home[old[r]]] = "revoked" /\ Unrevoked(old[r])
        => \A u \in Tokens : replacedBy[u] # old[r]
Invariant ==
    /\ RowTypes
    /\ LocalTypes
    /\ LocksOpen
    /\ WorksOnToken
    /\ SeenKnown
    /\ Rows
    /\ SigningIn
    /\ Locked
    /\ Found
    /\ Late
    /\ OneLiveToken
    /\ RevokedSessionDead

-----------------------------------------------------------------------------
\* Every statement of every request keeps the invariant.
LEMMA InvariantStep ==
  ASSUME Invariant, Next PROVE Invariant'
<1> USE LoginAssumption
      DEF Invariant, RowTypes, LocalTypes, LocksOpen, WorksOnToken, SeenKnown, Rows,
          SigningIn, Locked, Found, Late, OneLiveToken, RevokedSessionDead,
          Known, Unrevoked, Idle, Go, rows, locals, Steps, Release, Finish
<1>1. ASSUME NEW r \in Requests, NEW s \in Sessions, SignIn(r, s) PROVE Invariant'
  BY <1>1 DEF SignIn
<1>2. ASSUME NEW r \in Requests, NEW s \in Sessions, RevokeOne(r, s) PROVE Invariant'
  BY <1>2 DEF RevokeOne
<1>3. ASSUME NEW r \in Requests, NEW t \in Tokens, IssueToken(r, t) PROVE Invariant'
  BY <1>3 DEF IssueToken, NextToken
<1>4. ASSUME NEW r \in Requests, NEW t \in Tokens, RefreshReused(r, t) PROVE Invariant'
  BY <1>4 DEF RefreshReused
<1>5. ASSUME NEW r \in Requests, NEW t \in Tokens, RefreshExpired(r, t) PROVE Invariant'
  BY <1>5 DEF RefreshExpired
<1>6. ASSUME NEW r \in Requests, NEW t \in Tokens, RefreshValid(r, t) PROVE Invariant'
  BY <1>6 DEF RefreshValid
<1>7. ASSUME NEW r \in Requests, NEW t \in Tokens, RefreshCommit(r, t) PROVE Invariant'
  <2>1. /\ old[r] \in Tokens /\ Known(old[r]) /\ home[old[r]] \in Sessions
        /\ old[r] # t /\ ~ Known(t) /\ home[t] = None /\ pc[r] = "commit"
        /\ tokenLock[old[r]] = r /\ Unrevoked(old[r])
        /\ sessionLock[home[old[r]]] = r
    BY <1>7 DEF RefreshCommit, NextToken
  <2>2. /\ token' = [token EXCEPT ![old[r]] = "revoked", ![t] = "live"]
        /\ home' = [home EXCEPT ![t] = home[old[r]]]
        /\ replacedBy' = [replacedBy EXCEPT ![old[r]] = t]
        /\ session' = session
        /\ pc' = [pc EXCEPT ![r] = "idle"]
        /\ old' = [old EXCEPT ![r] = None]
        /\ targets' = [targets EXCEPT ![r] = {}]
        /\ seen' = [seen EXCEPT ![r] = {}]
    BY <1>7 DEF RefreshCommit
  <2>3. /\ \A u \in Tokens : tokenLock'[u] = IF tokenLock[u] = r THEN None ELSE tokenLock[u]
        /\ \A s \in Sessions : sessionLock'[s] = IF sessionLock[s] = r THEN None ELSE sessionLock[s]
    BY <1>7 DEF RefreshCommit
  <2>4. \A u \in Tokens :
           /\ token'[u] # "none" <=> Known(u) \/ u = t
           /\ token'[u] \in {"live", "expired"} <=> u = t \/ (Unrevoked(u) /\ u # old[r])
           /\ u # t => home'[u] = home[u]
           /\ u # old[r] => replacedBy'[u] = replacedBy[u]
    BY <2>1, <2>2
  <2>5. home'[t] = home[old[r]] /\ replacedBy'[old[r]] = t
    BY <2>1, <2>2
  <2>6. \A u \in Tokens : replacedBy[u] # t
    BY <2>1
  <2>7. ASSUME NEW q \in Requests, pc'[q] # "idle"
        PROVE /\ q # r /\ pc'[q] = pc[q] /\ old'[q] = old[q]
              /\ targets'[q] = targets[q] /\ seen'[q] = seen[q]
    BY <2>2, <2>7
  <2>8. ASSUME NEW q \in Requests,
               pc'[q] \in {"retire", "swap", "touch", "commit", "drop"}
        PROVE old[q] \in Tokens /\ Known(old[q]) /\ old[q] # t
    BY <2>1, <2>7, <2>8
  <2>9. /\ RowTypes' /\ LocalTypes'
    BY <1>7 DEF RefreshCommit, NextToken
  <2>10. /\ LocksOpen' /\ SeenKnown'
    BY <1>7 DEF RefreshCommit, NextToken
  <2>11. /\ Found'
    BY <1>7 DEF RefreshCommit, NextToken
  <2> HIDE DEF LocksOpen, WorksOnToken, SeenKnown, Rows, SigningIn,
               Locked, Found, Late, OneLiveToken, RevokedSessionDead, Release, Finish, Steps
  <2>12. WorksOnToken'
    BY <2>4, <2>7, <2>8 DEF WorksOnToken
  <2>13. Rows'
    <3>1. ASSUME NEW u \in Tokens, u # t
          PROVE /\ token'[u] # "none" <=> Known(u)
                /\ home'[u] = home[u]
                /\ u # old[r] => replacedBy'[u] = replacedBy[u]
      BY <2>4, <3>1
    <3>2. ASSUME NEW u \in Tokens, Known(u)' PROVE home'[u] \in Sessions /\ session'[home'[u]] # "none"
      BY <2>1, <2>2, <2>5, <3>1, <3>2 DEF Rows, SeenKnown
    <3>3. ASSUME NEW u \in Tokens, ~ Known(u)' PROVE home'[u] = None
      <4>1. u # t /\ ~ Known(u)
        BY <2>4, <3>3
      <4> QED
        BY <3>1, <4>1 DEF Rows, SeenKnown
    <3>4. ASSUME NEW u \in Tokens, replacedBy'[u] # None
          PROVE token'[u] # "none" /\ token'[replacedBy'[u]] # "none"
      <4>1. CASE u = old[r]
        BY <2>1, <2>4, <2>5, <4>1
      <4>2. CASE u # old[r]
        <5>1. replacedBy[u] # None /\ replacedBy'[u] = replacedBy[u]
          BY <2>4, <3>4, <4>2
        <5>2. Known(u) /\ replacedBy[u] \in Tokens /\ Known(replacedBy[u])
          BY <5>1 DEF Rows, SeenKnown
        <5> QED
          BY <2>4, <5>1, <5>2
      <4> QED
        BY <4>1, <4>2
    <3> QED
      BY <3>2, <3>3, <3>4 DEF Rows
  <2>14. SigningIn'
    <3>1. ASSUME NEW q \in Requests, NEW s \in targets'[q], pc'[q] = "issue"
          PROVE \A u \in Tokens : home'[u] # s
      <4>1. s \in targets[q] /\ pc[q] = "issue"
        BY <2>7, <3>1 DEF SigningIn, Rows
      <4>2. home[old[r]] # s
        BY <2>1, <4>1 DEF SigningIn, Rows
      <4> QED
        BY <2>4, <2>5, <4>1, <4>2 DEF SigningIn, Rows
    <3> QED
      BY <2>2, <2>7, <3>1 DEF SigningIn, Rows
  <2>15. Locked'
    <3>1. ASSUME NEW q \in Requests, pc'[q] \in {"touch", "commit"}
          PROVE tokenLock'[old'[q]] = q /\ token'[old'[q]] \in {"live", "expired"}
      <4>1. q # r /\ pc[q] = pc'[q] /\ old'[q] = old[q]
        BY <2>7, <3>1 DEF Locked, WorksOnToken, Rows
      <4>2. old[q] \in Tokens /\ tokenLock[old[q]] = q /\ Unrevoked(old[q])
        BY <2>8, <3>1, <4>1 DEF Locked, WorksOnToken, Rows
      <4>3. old[q] # old[r]
        BY <2>1, <4>1, <4>2 DEF Locked, WorksOnToken, Rows
      <4> QED
        <5>1. token'[old[q]] \in {"live", "expired"}
          BY <2>4, <4>2, <4>3
        <5>2. tokenLock'[old[q]] = q
          BY <2>3, <4>1, <4>2
        <5> QED
          BY <4>1, <5>1, <5>2
    <3>2. ASSUME NEW q \in Requests, pc'[q] = "commit"
          PROVE sessionLock'[home'[old'[q]]] = q
      <4>1. q # r /\ pc[q] = "commit" /\ old'[q] = old[q]
        BY <2>7, <3>2 DEF Locked, WorksOnToken, Rows
      <4>2. /\ old[q] \in Tokens /\ old[q] # t /\ home[old[q]] \in Sessions
            /\ sessionLock[home[old[q]]] = q
        BY <2>8, <3>2, <4>1 DEF Locked, WorksOnToken, Rows
      <4> QED
        <5>1. home'[old[q]] = home[old[q]]
          BY <2>4, <4>2
        <5>2. sessionLock'[home[old[q]]] = q
          BY <2>3, <4>1, <4>2
        <5> QED
          BY <4>1, <5>1, <5>2
    <3>3. ASSUME NEW q \in Requests, pc'[q] \in {"find", "tokens"}
          PROVE \A s \in targets'[q] : sessionLock'[s] = q
      <4>1. q # r /\ pc[q] = pc'[q] /\ targets'[q] = targets[q]
        BY <2>7, <3>3 DEF Locked, WorksOnToken, Rows
      <4> QED
        BY <2>3, <3>3, <4>1 DEF Locked, WorksOnToken, Rows
    <3> QED
      BY <2>2, <2>7, <3>1, <3>2, <3>3 DEF Locked, WorksOnToken, Rows
  <2>16. Late'
    <3>1. ASSUME NEW q \in Requests, pc'[q] \in {"swap", "touch", "commit"},
                 session'[home'[old'[q]]] = "revoked", token'[old'[q]] \in {"live", "expired"},
                 NEW u \in Tokens, replacedBy'[u] = old[q]
          PROVE FALSE
      <4>1. q # r /\ pc[q] = pc'[q] /\ old'[q] = old[q]
        BY <2>7, <3>1 DEF Late, Found, Locked, WorksOnToken, Rows
      <4>2. old[q] \in Tokens /\ old[q] # t
        BY <2>8, <3>1 DEF Late, Found, Locked, WorksOnToken, Rows
      <4>3. session[home[old[q]]] = "revoked" /\ Unrevoked(old[q])
        <5>1. Unrevoked(old[q]) /\ home'[old[q]] = home[old[q]]
          BY <2>4, <3>1, <4>1, <4>2
        <5> QED
          BY <2>2, <3>1, <4>1, <5>1
      <4>4. u # old[r]
        BY <2>5, <3>1, <4>2 DEF Late, Found, Locked, WorksOnToken, Rows
      <4> QED
        BY <2>4, <3>1, <4>1, <4>3, <4>4 DEF Late, Found, Locked, WorksOnToken, Rows
    <3> QED
      BY <2>7, <3>1 DEF Late, Found, Locked, WorksOnToken, Rows
  <2>17. OneLiveToken'
    <3>1. ASSUME NEW u \in Tokens, Unrevoked(u)', u # t
          PROVE home'[u] # home'[t]
      <4>1. Unrevoked(u) /\ u # old[r] /\ home'[u] = home[u]
        BY <2>4, <3>1 DEF OneLiveToken, Rows
      <4> QED
        BY <2>1, <2>5, <4>1 DEF OneLiveToken, Rows
    <3>2. ASSUME NEW u \in Tokens, NEW v \in Tokens, Unrevoked(u)', Unrevoked(v)',
                 home'[u] = home'[v], u # t, v # t
          PROVE u = v
      BY <2>4, <3>2 DEF OneLiveToken, Rows
    <3> QED
      BY <3>1, <3>2 DEF OneLiveToken, Rows
  <2>18. RevokedSessionDead'
    BY <1>7 DEF RefreshCommit, NextToken, RevokedSessionDead, Rows, Late, Found, Locked, WorksOnToken
  <2> QED
    BY <2>9, <2>10, <2>11, <2>12, <2>13, <2>14, <2>15, <2>16, <2>17, <2>18
<1>8. ASSUME NEW r \in Requests, NEW t \in Tokens, LogOut(r, t) PROVE Invariant'
  BY <1>8 DEF LogOut
<1>9. ASSUME NEW r \in Requests, RetireExpired(r) PROVE Invariant'
  BY <1>9 DEF RetireExpired
<1>10. ASSUME NEW r \in Requests, SwapToken(r) PROVE Invariant'
  BY <1>10 DEF SwapToken
<1>11. ASSUME NEW r \in Requests, SwapLost(r) PROVE Invariant'
  BY <1>11 DEF SwapLost
<1>12. ASSUME NEW r \in Requests, TouchSession(r) PROVE Invariant'
  <2>1. /\ RowTypes'
    BY <1>12 DEF TouchSession
  <2>2. /\ LocalTypes' /\ LocksOpen'
    BY <1>12 DEF TouchSession
  <2>3. /\ WorksOnToken' /\ SeenKnown'
    BY <1>12 DEF TouchSession
  <2>4. /\ Rows' /\ SigningIn' /\ Found' /\ Late'
        /\ OneLiveToken' /\ RevokedSessionDead'
    BY <1>12 DEF TouchSession
  <2> HIDE DEF LocksOpen, WorksOnToken, SeenKnown, Rows, SigningIn,
               Locked, Found, Late, OneLiveToken, RevokedSessionDead, Release, Finish, Steps
  <2>5. Locked'
    <3>1. old[r] \in Tokens /\ home[old[r]] \in Sessions /\ sessionLock[home[old[r]]] = None
      BY <1>12 DEF TouchSession, Locked, WorksOnToken, Rows
    <3>2. \A s \in Sessions : sessionLock'[s] = IF s = home[old[r]] THEN r ELSE sessionLock[s]
      BY <1>12, <3>1 DEF TouchSession, Locked, WorksOnToken, Rows
    <3>3. ASSUME NEW q \in Requests, pc'[q] = "commit"
          PROVE sessionLock'[home'[old'[q]]] = q
      <4>1. CASE q = r
        BY <1>12, <3>1, <3>2, <4>1 DEF TouchSession, Locked, WorksOnToken, Rows
      <4>2. CASE q # r
        <5>1. pc[q] = "commit"
          BY <1>12, <3>3, <4>2 DEF TouchSession, Locked, WorksOnToken, Rows
        <5>2. old[q] \in Tokens /\ home[old[q]] \in Sessions /\ sessionLock[home[old[q]]] = q
          BY <5>1 DEF Locked, WorksOnToken, Rows
        <5> QED
          BY <1>12, <3>1, <3>2, <5>2 DEF TouchSession, Locked, WorksOnToken, Rows
      <4> QED
        BY <4>1, <4>2 DEF Locked, WorksOnToken, Rows
    <3>4. ASSUME NEW q \in Requests, pc'[q] \in {"find", "tokens"}, NEW s \in targets'[q]
          PROVE sessionLock'[s] = q
      <4>1. q # r /\ pc[q] = pc'[q] /\ s \in targets[q] /\ s \in Sessions
        BY <1>12, <3>4 DEF TouchSession, Locked, WorksOnToken, Rows
      <4>2. sessionLock[s] = q
        BY <3>4, <4>1 DEF Locked, WorksOnToken, Rows
      <4> QED
        BY <3>1, <3>2, <4>1, <4>2 DEF Locked, WorksOnToken, Rows
    <3>5. ASSUME NEW q \in Requests, pc'[q] \in {"touch", "commit"}
          PROVE tokenLock'[old'[q]] = q /\ token'[old'[q]] \in {"live", "expired"}
      BY <1>12, <3>5 DEF TouchSession, Locked, WorksOnToken, Rows
    <3> QED
      BY <1>12, <3>3, <3>4, <3>5 DEF TouchSession, Locked, WorksOnToken, Rows
  <2> QED
    BY <2>1, <2>2, <2>3, <2>4, <2>5
<1>13. ASSUME NEW r \in Requests, TouchVictim(r) PROVE Invariant'
  BY <1>13 DEF TouchVictim
<1>14. ASSUME NEW r \in Requests, DropToken(r) PROVE Invariant'
  <2>1. /\ RowTypes' /\ LocksOpen' /\ WorksOnToken' /\ SeenKnown'
        /\ Rows' /\ SigningIn' /\ Locked' /\ Found'
        /\ Late' /\ OneLiveToken' /\ RevokedSessionDead'
    BY <1>14 DEF DropToken
  <2> HIDE DEF LocksOpen, WorksOnToken, SeenKnown, Rows, SigningIn,
               Locked, Found, Late, OneLiveToken, RevokedSessionDead, Release, Finish, Steps
  <2>2. LocalTypes'
    <3>1. old[r] \in Tokens /\ home[old[r]] \in Sessions
      BY <1>14 DEF DropToken, WorksOnToken, Rows, Steps
    <3>2. targets' \in [Requests -> SUBSET Sessions]
      BY <1>14, <3>1 DEF DropToken, WorksOnToken, Rows, Steps
    <3> QED
      BY <1>14, <3>2 DEF DropToken, WorksOnToken, Rows, Steps
  <2> QED
    BY <2>1, <2>2
<1>15. ASSUME NEW r \in Requests, LogOutAll(r) PROVE Invariant'
  BY <1>15 DEF LogOutAll
<1>16. ASSUME NEW r \in Requests, RevokeSessions(r) PROVE Invariant'
  <2>1. /\ RowTypes' /\ LocalTypes' /\ LocksOpen' /\ WorksOnToken'
        /\ SeenKnown' /\ Rows' /\ SigningIn' /\ Found'
        /\ Late' /\ OneLiveToken' /\ RevokedSessionDead'
    BY <1>16 DEF RevokeSessions
  <2> HIDE DEF LocksOpen, WorksOnToken, SeenKnown, Rows, SigningIn,
               Locked, Found, Late, OneLiveToken, RevokedSessionDead, Release, Finish, Steps
  <2>2. Locked'
    <3> DEFINE still == {s \in targets[r] : everywhere[r] => session[s] = "live"}
    <3>1. /\ pc[r] = "revoke" /\ pc' = [pc EXCEPT ![r] = "find"]
          /\ still \subseteq Sessions
          /\ \A s \in still : sessionLock[s] = None
          /\ targets' = [targets EXCEPT ![r] = still]
          /\ UNCHANGED <<session, token, home, tokenLock, old>>
      BY <1>16 DEF RevokeSessions, Locked, WorksOnToken, Rows
    <3>2. \A s \in Sessions : sessionLock'[s] = IF s \in still THEN r ELSE sessionLock[s]
      BY <1>16 DEF RevokeSessions, Locked, WorksOnToken, Rows
    <3> HIDE DEF still
    <3>3. ASSUME NEW q \in Requests, pc'[q] = "commit"
          PROVE sessionLock'[home'[old'[q]]] = q
      <4>1. pc[q] = "commit"
        BY <3>1, <3>3 DEF Locked, WorksOnToken, Rows
      <4>2. old[q] \in Tokens /\ home[old[q]] \in Sessions /\ sessionLock[home[old[q]]] = q
        BY <4>1 DEF Locked, WorksOnToken, Rows
      <4> QED
        BY <3>1, <3>2, <4>2 DEF Locked, WorksOnToken, Rows
    <3>4. ASSUME NEW q \in Requests, pc'[q] \in {"find", "tokens"}, NEW s \in targets'[q]
          PROVE sessionLock'[s] = q
      <4>1. CASE q = r
        BY <3>1, <3>2, <3>4, <4>1 DEF Locked, WorksOnToken, Rows
      <4>2. CASE q # r
        <5>1. pc[q] \in {"find", "tokens"} /\ s \in targets[q] /\ s \in Sessions
          BY <3>1, <3>4, <4>2 DEF Locked, WorksOnToken, Rows
        <5>2. sessionLock[s] = q
          BY <5>1 DEF Locked, WorksOnToken, Rows
        <5> QED
          BY <3>1, <3>2, <5>1, <5>2 DEF Locked, WorksOnToken, Rows
      <4> QED
        BY <4>1, <4>2 DEF Locked, WorksOnToken, Rows
    <3>5. ASSUME NEW q \in Requests, pc'[q] \in {"touch", "commit"}
          PROVE tokenLock'[old'[q]] = q /\ token'[old'[q]] \in {"live", "expired"}
      <4>1. pc[q] \in {"touch", "commit"}
        BY <3>1, <3>5 DEF Locked, WorksOnToken, Rows
      <4> QED
        BY <3>1, <4>1 DEF Locked, WorksOnToken, Rows
    <3> QED
      BY <3>1, <3>3, <3>4, <3>5 DEF Locked, WorksOnToken, Rows
  <2> QED
    BY <2>1, <2>2
<1>17. ASSUME NEW r \in Requests, FindTokens(r) PROVE Invariant'
  BY <1>17 DEF FindTokens
<1>18. ASSUME NEW r \in Requests, RevokeCommit(r) PROVE Invariant'
  <2>1. /\ pc[r] = "tokens" /\ \A u \in seen[r] : tokenLock[u] = None
        /\ pc' = [pc EXCEPT ![r] = "idle"]
        /\ old' = [old EXCEPT ![r] = None]
        /\ targets' = [targets EXCEPT ![r] = {}]
        /\ UNCHANGED <<home, replacedBy>>
    BY <1>18 DEF RevokeCommit
  <2>2. /\ \A s \in Sessions :
              /\ session'[s] = IF s \in targets[r] THEN "revoked" ELSE session[s]
              /\ sessionLock'[s] = IF sessionLock[s] = r THEN None ELSE sessionLock[s]
        /\ \A u \in Tokens :
              /\ token'[u] = IF u \in seen[r] THEN "revoked" ELSE token[u]
              /\ tokenLock'[u] = IF tokenLock[u] = r THEN None ELSE tokenLock[u]
    BY <1>18 DEF RevokeCommit
  <2>3. ASSUME NEW q \in Requests, pc'[q] # "idle"
        PROVE q # r /\ pc'[q] = pc[q] /\ old'[q] = old[q] /\ targets'[q] = targets[q]
    BY <2>1, <2>3
  <2>4. /\ RowTypes' /\ LocalTypes' /\ LocksOpen' /\ WorksOnToken'
        /\ SeenKnown' /\ SigningIn' /\ Found' /\ OneLiveToken'
        /\ RevokedSessionDead'
    BY <1>18 DEF RevokeCommit
  <2> HIDE DEF LocksOpen, WorksOnToken, SeenKnown, Rows, SigningIn,
               Locked, Found, Late, OneLiveToken, RevokedSessionDead, Release, Finish, Steps
  <2>5. Rows'
    <3>1. ASSUME NEW u \in Tokens, Known(u)
          PROVE home[u] \in Sessions /\ session'[home[u]] # "none"
      BY <2>2, <3>1 DEF Rows, SeenKnown
    <3>2. ASSUME NEW u \in Tokens PROVE token'[u] # "none" <=> Known(u)
      BY <2>2, <3>2 DEF Rows, SeenKnown
    <3> QED
      BY <2>1, <3>1, <3>2 DEF Rows, SeenKnown
  <2>6. Locked'
    <3>1. ASSUME NEW q \in Requests, pc'[q] \in {"touch", "commit"}
          PROVE tokenLock'[old'[q]] = q /\ token'[old'[q]] \in {"live", "expired"}
      <4>1. /\ q # r /\ old'[q] = old[q] /\ old[q] \in Tokens
            /\ tokenLock[old[q]] = q /\ Unrevoked(old[q])
        BY <2>3, <3>1 DEF Locked, WorksOnToken, Rows
      <4>2. old[q] \notin seen[r]
        BY <2>1, <4>1
      <4> QED
        BY <2>2, <4>1, <4>2
    <3>2. ASSUME NEW q \in Requests, pc'[q] = "commit"
          PROVE sessionLock'[home'[old'[q]]] = q
      <4>1. /\ q # r /\ old'[q] = old[q] /\ old[q] \in Tokens
            /\ home[old[q]] \in Sessions /\ sessionLock[home[old[q]]] = q
        BY <2>3, <3>2 DEF Locked, WorksOnToken, Rows
      <4> QED
        BY <2>1, <2>2, <4>1 DEF Locked, WorksOnToken, Rows
    <3>3. ASSUME NEW q \in Requests, pc'[q] \in {"find", "tokens"}, NEW s \in targets'[q]
          PROVE sessionLock'[s] = q
      <4>1. q # r /\ s \in Sessions /\ sessionLock[s] = q
        BY <2>3, <3>3 DEF Locked, WorksOnToken, Rows
      <4> QED
        BY <2>2, <4>1 DEF Locked, WorksOnToken, Rows
    <3> QED
      BY <3>1, <3>2, <3>3 DEF Locked
  <2>7. Late'
    <3>1. ASSUME NEW q \in Requests, pc'[q] \in {"swap", "touch", "commit"},
                 session'[home'[old'[q]]] = "revoked", token'[old'[q]] \in {"live", "expired"},
                 NEW u \in Tokens
          PROVE replacedBy'[u] # old[q]
      <4>1. /\ q # r /\ pc[q] = pc'[q] /\ old'[q] = old[q] /\ old[q] \in Tokens
            /\ home[old[q]] \in Sessions
        BY <2>3, <3>1 DEF Late, Found, Locked, WorksOnToken, Rows
      <4>2. old[q] \notin seen[r] /\ Unrevoked(old[q])
        BY <2>2, <3>1, <4>1
      <4>3. CASE home[old[q]] \in targets[r]
        BY <2>1, <4>1, <4>2, <4>3 DEF Found
      <4>4. CASE home[old[q]] \notin targets[r]
        <5>1. session[home[old[q]]] = "revoked"
          BY <2>1, <2>2, <3>1, <4>1, <4>4 DEF Late, Found, Locked, WorksOnToken, Rows
        <5> QED
          BY <2>1, <3>1, <4>1, <4>2, <5>1 DEF Late, Found, Locked, WorksOnToken, Rows
      <4> QED
        BY <4>3, <4>4 DEF Late, Found, Locked, WorksOnToken, Rows
    <3> QED
      BY <2>3, <3>1 DEF Late, Found, Locked, WorksOnToken, Rows
  <2> QED
    BY <2>4, <2>5, <2>6, <2>7
<1>19. ASSUME NEW r \in Requests, Abort(r) PROVE Invariant'
  <2>1. /\ pc' = [pc EXCEPT ![r] = "idle"]
        /\ old' = [old EXCEPT ![r] = None]
        /\ targets' = [targets EXCEPT ![r] = {}]
        /\ UNCHANGED <<session, token, home, replacedBy>>
        /\ \A s \in Sessions : sessionLock'[s] = IF sessionLock[s] = r THEN None ELSE sessionLock[s]
        /\ \A u \in Tokens : tokenLock'[u] = IF tokenLock[u] = r THEN None ELSE tokenLock[u]
    BY <1>19 DEF Abort
  <2>2. /\ RowTypes' /\ LocalTypes' /\ LocksOpen' /\ WorksOnToken'
        /\ SeenKnown' /\ Rows' /\ SigningIn' /\ Found'
        /\ Late' /\ OneLiveToken' /\ RevokedSessionDead'
    BY <1>19 DEF Abort
  <2> HIDE DEF LocksOpen, WorksOnToken, SeenKnown, Rows, SigningIn,
               Locked, Found, Late, OneLiveToken, RevokedSessionDead, Release, Finish, Steps
  <2>3. Locked'
    <3> SUFFICES ASSUME NEW q \in Requests, pc'[q] # "idle"
                 PROVE /\ pc'[q] \in {"touch", "commit"} =>
                              tokenLock'[old'[q]] = q /\ token'[old'[q]] \in {"live", "expired"}
                       /\ pc'[q] = "commit" => sessionLock'[home'[old'[q]]] = q
                       /\ pc'[q] \in {"find", "tokens"} =>
                              \A s \in targets'[q] : sessionLock'[s] = q
      BY DEF Locked
    <3>1. q # r /\ pc'[q] = pc[q] /\ old'[q] = old[q] /\ targets'[q] = targets[q]
      BY <2>1 DEF Locked, WorksOnToken, Rows
    <3>2. ASSUME pc[q] \in {"touch", "commit"}
          PROVE tokenLock'[old[q]] = q /\ token'[old'[q]] \in {"live", "expired"}
      <4>1. old[q] \in Tokens /\ tokenLock[old[q]] = q /\ Unrevoked(old[q])
        BY <3>2 DEF Locked, WorksOnToken, Rows
      <4> QED
        BY <2>1, <3>1, <4>1
    <3>3. ASSUME pc[q] = "commit" PROVE sessionLock'[home[old[q]]] = q
      <4>1. old[q] \in Tokens /\ home[old[q]] \in Sessions
        BY <3>3 DEF Locked, WorksOnToken, Rows
      <4> QED
        BY <2>1, <3>1, <3>3, <4>1 DEF Locked, WorksOnToken, Rows
    <3>4. ASSUME pc[q] \in {"find", "tokens"}, NEW s \in targets[q]
          PROVE sessionLock'[s] = q
      BY <2>1, <3>1, <3>4 DEF Locked, WorksOnToken, Rows
    <3> QED
      BY <2>1, <3>1, <3>2, <3>3, <3>4 DEF Locked, WorksOnToken, Rows
  <2> QED
    BY <2>2, <2>3
<1>20. ASSUME NEW t \in Tokens, ExpireToken(t) PROVE Invariant'
  BY <1>20 DEF ExpireToken
<1> QED
  BY <1>1, <1>2, <1>3, <1>4, <1>5, <1>6, <1>7, <1>8, <1>9, <1>10,
     <1>11, <1>12, <1>13, <1>14, <1>15, <1>16,
     <1>17, <1>18, <1>19, <1>20 DEF Next

\* Nothing has happened yet.
LEMMA InvariantInit == Init => Invariant
<1> SUFFICES ASSUME Init PROVE Invariant
  OBVIOUS
<1> QED
  BY LoginAssumption
  DEF Init, Invariant, RowTypes, LocalTypes, LocksOpen, WorksOnToken, SeenKnown, Rows,
      SigningIn, Locked, Found, Late, OneLiveToken, RevokedSessionDead,
      Known, Unrevoked, Steps

\* The invariant of the sign-ins and tokens holds in every state.
LEMMA InvariantHolds == Spec => []Invariant
<1>1. Invariant /\ UNCHANGED vars => Invariant'
  <2> SUFFICES ASSUME Invariant, UNCHANGED vars PROVE Invariant'
    OBVIOUS
  <2> QED
    BY DEF vars, rows, locals, Invariant, RowTypes, LocalTypes, LocksOpen, WorksOnToken,
           SeenKnown, Rows, SigningIn, Locked, Found, Late, OneLiveToken,
           RevokedSessionDead, Known, Unrevoked
<1> QED
  BY <1>1, InvariantInit, InvariantStep, PTL DEF Spec

-----------------------------------------------------------------------------
\* Every row and every request is in a state of its type, and every row that is
\* locked belongs to a transaction that is still open (refresh, logout and
\* revocation give their locks back on every way out).
THEOREM TypeCorrect == Spec => []TypeOK
<1>1. Invariant => TypeOK
  BY DEF Invariant, TypeOK
<1> QED
  BY <1>1, InvariantHolds, PTL

\* However many refreshes of one token race, refreshSession() leaves the session
\* with at most one refresh token that is not revoked.
LEMMA OneTokenPerSession == Spec => []OneLiveToken
<1>1. Invariant => OneLiveToken
  BY DEF Invariant
<1> QED
  BY <1>1, InvariantHolds, PTL

\* However revokeSession() and revokeAllUserSessions() race with refreshes, a
\* revoked session is left with no live token but its first one or what that one
\* was exchanged for.
LEMMA RevokedStaysDead == Spec => []RevokedSessionDead
<1>1. Invariant => RevokedSessionDead
  BY DEF Invariant
<1> QED
  BY <1>1, InvariantHolds, PTL

\* Whatever refreshes, log-outs and revocations of any sessions do to each other,
\* no session is forked and none revived.
THEOREM TokensAreSafe == Spec => []TokensSafe
  BY OneTokenPerSession, RevokedStaysDead, PTL DEF TokensSafe

-----------------------------------------------------------------------------
\* What the refinement needs besides Invariant.  A token that was exchanged is
\* revoked,
Exchanged == \A t \in Tokens : replacedBy[t] # None => token[t] = "revoked"
\* once a session was refreshed, a token it can still be refreshed with is one
\* that another was exchanged for,
Chained ==
    \A t, u \in Tokens :
        Unrevoked(t) /\ home[u] = home[t] /\ replacedBy[u] # None =>
            \E v \in Tokens : replacedBy[v] = t
\* and what a revocation ends are sessions that exist.
Ends ==
    \A r \in Requests : \A s \in targets[r] :
        pc[r] \in {"revoke", "find", "tokens"} => session[s] # "none"
RefinementInv == Exchanged /\ Chained /\ Ends

\* The rows as the register sees them do not change.
Unseen ==
    /\ UNCHANGED <<session, home, replacedBy>>
    /\ \A t \in Tokens : (Unrevoked(t)' <=> Unrevoked(t)) /\ (Known(t)' <=> Known(t))

\* Every step but five is one the register does not see, or revokes one token.
Revokes(t) ==
    /\ UNCHANGED <<session, home, replacedBy>>
    /\ token' = [token EXCEPT ![t] = "revoked"]
    /\ Known(t)

\* What the register of sessions sees of a step.
LEMMA RegisterSteps ==
    ASSUME Invariant, [Next]_vars
    PROVE  \/ Unseen
           \/ \E t \in Tokens : Revokes(t)
           \/ \E r \in Requests, s \in Sessions : SignIn(r, s)
           \/ \E r \in Requests, t \in Tokens : IssueToken(r, t) \/ RefreshCommit(r, t)
           \/ \E r \in Requests : RevokeCommit(r)
<1>1. CASE UNCHANGED vars
  BY <1>1 DEF vars, rows, Unseen, Unrevoked, Known
<1>2. ASSUME NEW r \in Requests, RetireExpired(r) \/ DropToken(r)
      PROVE  \E t \in Tokens : Revokes(t)
  BY <1>2 DEF RetireExpired, DropToken, Revokes, Invariant, WorksOnToken
<1>3. ASSUME NEW t \in Tokens, ExpireToken(t) PROVE Unseen
  BY <1>3 DEF ExpireToken, Unseen, Unrevoked, Known, Invariant, RowTypes
<1>4. CASE UNCHANGED rows
  BY <1>4 DEF rows, Unseen, Unrevoked, Known
<1> QED
  BY <1>1, <1>2, <1>3, <1>4
  DEF Next, RevokeOne, RefreshReused, RefreshExpired, RefreshValid, LogOut, SwapLost,
      TouchSession, TouchVictim, SwapToken, LogOutAll, RevokeSessions, FindTokens, Abort

\* A token that was exchanged is revoked, and stays so.
LEMMA ExchangedStep == Invariant /\ Invariant' /\ Exchanged /\ [Next]_vars => Exchanged'
<1> SUFFICES ASSUME Invariant, Invariant', Exchanged, [Next]_vars PROVE Exchanged'
  OBVIOUS
<1> USE DEF Exchanged, Invariant, RowTypes
<1>1. CASE Unseen
  BY <1>1 DEF Unseen, Unrevoked, Known
<1>2. ASSUME NEW t \in Tokens, Revokes(t) PROVE Exchanged'
  BY <1>2 DEF Revokes
<1>3. ASSUME NEW r \in Requests, NEW s \in Sessions, SignIn(r, s) PROVE Exchanged'
  BY <1>3 DEF SignIn
<1>4. ASSUME NEW r \in Requests, NEW t \in Tokens, IssueToken(r, t) PROVE Exchanged'
  BY <1>4 DEF IssueToken, NextToken, Known
<1>5. ASSUME NEW r \in Requests, NEW t \in Tokens, RefreshCommit(r, t) PROVE Exchanged'
  BY <1>5 DEF RefreshCommit, NextToken, Known, WorksOnToken
<1>6. ASSUME NEW r \in Requests, RevokeCommit(r) PROVE Exchanged'
  BY <1>6 DEF RevokeCommit
<1> QED
  BY <1>1, <1>2, <1>3, <1>4, <1>5, <1>6, RegisterSteps

\* What is left alive of a refreshed session was itself given in exchange.
LEMMA ChainedStep == Invariant /\ Exchanged /\ Chained /\ [Next]_vars => Chained'
<1> SUFFICES ASSUME Invariant, Exchanged, Chained, [Next]_vars PROVE Chained'
  OBVIOUS
<1>1. ASSUME UNCHANGED <<home, replacedBy>>,
             \A t \in Tokens : Unrevoked(t)' => Unrevoked(t)
      PROVE  Chained'
  BY <1>1 DEF Chained
<1>2. CASE Unseen
  BY <1>1, <1>2 DEF Unseen
<1>3. ASSUME NEW t \in Tokens, Revokes(t) PROVE Chained'
  BY <1>1, <1>3 DEF Revokes, Unrevoked, Invariant, RowTypes
<1>4. ASSUME NEW r \in Requests, NEW s \in Sessions, SignIn(r, s) PROVE Chained'
  BY <1>1, <1>4 DEF SignIn, Unrevoked
<1>5. ASSUME NEW r \in Requests, RevokeCommit(r) PROVE Chained'
  BY <1>1, <1>5 DEF RevokeCommit, Unrevoked
<1>6. ASSUME NEW r \in Requests, NEW t \in Tokens, IssueToken(r, t) PROVE Chained'
  <2>1. PICK s \in targets[r] : home' = [home EXCEPT ![t] = s]
    BY <1>6 DEF IssueToken
  <2>2. s \in Sessions /\ ~Known(t) /\ replacedBy[t] = None /\ \A u \in Tokens : home[u] # s
    BY <1>6 DEF IssueToken, NextToken, Invariant, Rows, SigningIn, LocalTypes
  <2>3. /\ replacedBy' = replacedBy
        /\ \A u \in Tokens : u # t => /\ home'[u] = home[u]
                                      /\ home'[u] # s
                                      /\ (Unrevoked(u)' <=> Unrevoked(u))
        /\ home'[t] = s
    BY <1>6, <2>1, <2>2 DEF IssueToken, Invariant, RowTypes, Unrevoked
  <2>4. QED
    BY <2>2, <2>3 DEF Chained
<1>7. ASSUME NEW r \in Requests, NEW new \in Tokens, RefreshCommit(r, new) PROVE Chained'
  <2> DEFINE o == old[r]
  <2>1. /\ o \in Tokens /\ Unrevoked(o) /\ ~Known(new) /\ o # new
        /\ home[o] \in Sessions /\ replacedBy[o] = None
    BY <1>7 DEF RefreshCommit, NextToken, Invariant, WorksOnToken, Locked, Rows, Exchanged, Unrevoked
  <2>2. /\ \A u \in Tokens : u # new => home'[u] = home[u]
        /\ \A u \in Tokens : u # o => replacedBy'[u] = replacedBy[u]
        /\ replacedBy'[o] = new
        /\ \A u \in Tokens : u # new /\ Unrevoked(u)' => Unrevoked(u) /\ u # o
        /\ home'[new] = home[o]
    BY <1>7, <2>1 DEF RefreshCommit, Invariant, RowTypes, Unrevoked
  <2> SUFFICES ASSUME NEW t \in Tokens, NEW u \in Tokens,
                      Unrevoked(t)', home'[u] = home'[t], replacedBy'[u] # None
               PROVE  \E v \in Tokens : replacedBy'[v] = t
    BY DEF Chained
  <2>3. CASE t = new
    BY <2>1, <2>2, <2>3
  <2>4. CASE t # new
    <3>1. home'[t] = home[t] /\ home[t] # home[o] /\ Unrevoked(t)
      BY <2>1, <2>2, <2>4 DEF Invariant, OneLiveToken
    <3>2. u # new /\ u # o /\ home[u] = home[t] /\ replacedBy[u] # None
      BY <2>1, <2>2, <3>1
    <3>3. PICK v \in Tokens : replacedBy[v] = t
      BY <3>1, <3>2 DEF Chained
    <3>4. v # o
      BY <2>1, <3>3, LoginAssumption
    <3>5. QED
      BY <2>2, <3>3, <3>4
  <2>5. QED
    BY <2>3, <2>4
<1> QED
  BY <1>2, <1>3, <1>4, <1>5, <1>6, <1>7, RegisterSteps

\* What a revocation ends are sessions that exist, in every step.
LEMMA EndsStep == Invariant /\ Ends /\ [Next]_vars => Ends'
<1> SUFFICES ASSUME Invariant, Ends, [Next]_vars PROVE Ends'
  OBVIOUS
<1>1. \A s \in Sessions : session[s] # "none" => session'[s] # "none"
  BY RegisterSteps DEF Unseen, Revokes, SignIn, IssueToken, RefreshCommit, RevokeCommit,
                Invariant, RowTypes
<1>2. ASSUME NEW r \in Requests, NEW s \in targets'[r], pc'[r] \in {"revoke", "find", "tokens"}
      PROVE  s \in Sessions /\ session[s] # "none"
  <2>1. CASE s \in targets[r] /\ pc[r] \in {"revoke", "find", "tokens"}
    BY <2>1 DEF Ends, Invariant, LocalTypes
  <2>2. CASE ~(s \in targets[r] /\ pc[r] \in {"revoke", "find", "tokens"})
    <3> USE DEF Invariant, LocalTypes, Go, Finish, Idle
    <3>1. ASSUME NEW t \in Tokens, token[t] # "none"
          PROVE  home[t] \in Sessions /\ session[home[t]] # "none"
      BY <3>1 DEF Rows, Known
    <3>2. ASSUME NEW q \in Requests, NEW t \in Tokens, RefreshReused(q, t)
          PROVE  s \in Sessions /\ session[s] # "none"
      BY <1>2, <2>2, <3>1, <3>2 DEF RefreshReused
    <3>3. ASSUME NEW q \in Requests, DropToken(q)
          PROVE  s \in Sessions /\ session[s] # "none"
      BY <1>2, <2>2, <3>1, <3>3 DEF DropToken, WorksOnToken, Known
    <3>4. ASSUME NEW q \in Requests, NEW v \in Sessions, RevokeOne(q, v)
          PROVE  s \in Sessions /\ session[s] # "none"
      BY <1>2, <2>2, <3>4 DEF RevokeOne
    <3>5. ASSUME NEW q \in Requests, LogOutAll(q)
          PROVE  s \in Sessions /\ session[s] # "none"
      BY <1>2, <2>2, <3>5 DEF LogOutAll
    <3>6. ASSUME NEW q \in Requests, RevokeSessions(q) \/ FindTokens(q) \/ RevokeCommit(q)
          PROVE  s \in Sessions /\ session[s] # "none"
      BY <1>2, <2>2, <3>6 DEF RevokeSessions, FindTokens, RevokeCommit
    <3>7. ASSUME NEW q \in Requests, NEW v \in Sessions, SignIn(q, v)
          PROVE  s \in Sessions /\ session[s] # "none"
      BY <1>2, <2>2, <3>7 DEF SignIn
    <3>8. ASSUME NEW q \in Requests, NEW t \in Tokens,
                 \/ IssueToken(q, t) \/ RefreshExpired(q, t) \/ RefreshValid(q, t)
                 \/ RefreshCommit(q, t) \/ LogOut(q, t)
          PROVE  s \in Sessions /\ session[s] # "none"
      BY <1>2, <2>2, <3>8 DEF IssueToken, RefreshExpired, RefreshValid, RefreshCommit, LogOut
    <3>9. ASSUME NEW q \in Requests,
                 \/ RetireExpired(q) \/ SwapLost(q) \/ TouchSession(q) \/ TouchVictim(q)
                 \/ SwapToken(q) \/ Abort(q)
          PROVE  s \in Sessions /\ session[s] # "none"
      BY <1>2, <2>2, <3>9
      DEF RetireExpired, SwapLost, TouchSession, TouchVictim, SwapToken, Abort, locals
    <3>10. CASE UNCHANGED vars \/ \E t \in Tokens : ExpireToken(t)
      BY <1>2, <2>2, <3>10 DEF vars, locals, ExpireToken
    <3>11. QED
      BY <3>2, <3>3, <3>4, <3>5, <3>6, <3>7, <3>8, <3>9, <3>10 DEF Next
  <2>3. QED
    BY <2>1, <2>2
<1>3. QED
  BY <1>1, <1>2 DEF Ends

\* What the refinement needs of the replacements holds in every state.
LEMMA RefinementInvHolds == Spec => []RefinementInv
<1>1. Init => RefinementInv
  BY DEF Init, RefinementInv, Exchanged, Chained, Ends, Unrevoked
<1>2. Invariant /\ Invariant' /\ RefinementInv /\ [Next]_vars => RefinementInv'
  BY ExchangedStep, ChainedStep, EndsStep DEF RefinementInv
<1>3. QED
  BY <1>1, <1>2, InvariantHolds, PTL DEF Spec

-----------------------------------------------------------------------------
\* The token a session holds is the one token of it that is not revoked.
LEMMA HoldsToken ==
    ASSUME Invariant, NEW s \in Sessions
    PROVE  /\ \A t \in Tokens : Unrevoked(t) /\ home[t] = s <=> Holds[s] = t
           /\ (\A t \in Tokens : ~(Unrevoked(t) /\ home[t] = s)) <=> Holds[s] = None
<1>1. Holds[s] = IF Live(s) = {} THEN None ELSE CHOOSE t \in Live(s) : TRUE
  BY DEF Holds
<1>2. \A t, u \in Live(s) : t = u
  BY DEF Live, Invariant, OneLiveToken
<1>3. None \notin Tokens
  BY LoginAssumption
<1>4. CASE Live(s) = {}
  BY <1>1, <1>3, <1>4 DEF Live
<1>5. CASE Live(s) # {}
  <2>1. Holds[s] \in Live(s)
    BY <1>1, <1>5
  <2>2. QED
    BY <1>2, <1>3, <2>1 DEF Live
<1>6. QED
  BY <1>4, <1>5

\* The same in the state after the step.
LEMMA HoldsNext ==
    ASSUME Invariant', NEW s \in Sessions
    PROVE  /\ \A t \in Tokens : Unrevoked(t)' /\ home'[t] = s <=> Holds'[s] = t
           /\ (\A t \in Tokens : ~(Unrevoked(t)' /\ home'[t] = s)) <=> Holds'[s] = None
<1>1. Holds'[s] = IF Live(s)' = {} THEN None ELSE CHOOSE t \in Live(s)' : TRUE
  BY DEF Holds
<1>2. \A t, u \in Live(s)' : t = u
  BY DEF Live, Invariant, OneLiveToken
<1>3. None \notin Tokens
  BY LoginAssumption
<1>4. CASE Live(s)' = {}
  BY <1>1, <1>3, <1>4 DEF Live
<1>5. CASE Live(s)' # {}
  <2>1. Holds'[s] \in Live(s)'
    BY <1>1, <1>5
  <2>2. QED
    BY <1>2, <1>3, <2>1 DEF Live
<1>6. QED
  BY <1>4, <1>5

\* What the register calls refreshed.
Refreshed == {s \in Sessions : \E t \in Tokens : home[t] = s /\ replacedBy[t] # None}
IssuedTokens == {t \in Tokens : token[t] # "none"}

\* A step the register does not see.
LEMMA UnseenStutters ==
    ASSUME Invariant, Invariant', Unseen
    PROVE  UNCHANGED <<session, Holds, IssuedTokens, Refreshed>>
<1>1. \A s \in Sessions : Holds'[s] = Holds[s]
  BY HoldsToken, HoldsNext DEF Unseen
<1>2. Holds' = Holds
  BY <1>1 DEF Holds
<1>3. IssuedTokens' = IssuedTokens
  BY DEF Unseen, IssuedTokens, Known
<1>4. QED
  BY <1>2, <1>3 DEF Unseen, Refreshed

\* A revoked token is given up, unless it was before.
LEMMA RevokeDrops ==
    ASSUME Invariant, Invariant', NEW t \in Tokens, Revokes(t)
    PROVE  \/ UNCHANGED <<session, Holds, IssuedTokens, Refreshed>>
           \/ \E s \in Sessions : Register!Drop(s)
<1>1. /\ IssuedTokens' = IssuedTokens /\ Refreshed' = Refreshed /\ session' = session
      /\ home[t] \in Sessions
  BY DEF Revokes, IssuedTokens, Refreshed, Known, Invariant, RowTypes, Rows
<1>2. CASE Unrevoked(t)
  <2> DEFINE s == home[t]
  <2>1. Holds[s] = t /\ t # None
    BY <1>1, <1>2, HoldsToken, LoginAssumption
  <2>2. /\ ~Unrevoked(t)'
        /\ \A u \in Tokens : u # t => (Unrevoked(u)' <=> Unrevoked(u)) /\ home'[u] = home[u]
    BY DEF Revokes, Unrevoked, Invariant, RowTypes
  <2>3. Holds'[s] = None
    BY <1>1, <1>2, <2>2, HoldsNext DEF Invariant, OneLiveToken
  <2>4. \A v \in Sessions : v # s => Holds'[v] = Holds[v]
    <3> SUFFICES ASSUME NEW v \in Sessions, v # s PROVE Holds'[v] = Holds[v]
      OBVIOUS
    <3>1. \A u \in Tokens : (Unrevoked(u)' /\ home'[u] = v) <=> (Unrevoked(u) /\ home[u] = v)
      BY <2>2 DEF Revokes
    <3>2. QED
      BY <3>1, HoldsToken, HoldsNext
  <2>5. Holds' = [Holds EXCEPT ![s] = None]
    BY <1>1, <2>3, <2>4 DEF Holds
  <2>6. QED
    BY <1>1, <2>1, <2>5 DEF Register!Drop, IssuedTokens, Refreshed
<1>3. CASE ~Unrevoked(t)
  <2>1. Unseen
    BY <1>3 DEF Revokes, Unseen, Unrevoked, Known, Invariant, RowTypes
  <2>2. QED
    BY <2>1, UnseenStutters
<1>4. QED
  BY <1>2, <1>3

\* The first token of a session.
LEMMA IssueIsFirst ==
    ASSUME Invariant, Invariant', NEW r \in Requests, NEW t \in Tokens, IssueToken(r, t)
    PROVE  \E s \in Sessions : Register!First(s, t)
<1>1. PICK s \in targets[r] : home' = [home EXCEPT ![t] = s]
  BY DEF IssueToken
<1>2. /\ s \in Sessions /\ session[s] # "none" /\ \A u \in Tokens : home[u] # s
      /\ token[t] = "none" /\ replacedBy[t] = None
  BY DEF IssueToken, NextToken, Known, Invariant, Rows, SigningIn, LocalTypes
<1>3. /\ token' = [token EXCEPT ![t] = "live"] /\ UNCHANGED <<session, replacedBy>>
      /\ token \in [Tokens -> {"none", "live", "expired", "revoked"}]
      /\ home \in [Tokens -> Sessions \cup {None}]
  BY DEF IssueToken, Invariant, RowTypes
<1>4. Holds[s] = None
  BY <1>2, HoldsToken
<1>5. Holds'[s] = t
  BY <1>1, <1>2, <1>3, HoldsNext DEF Unrevoked
<1>6. \A v \in Sessions : v # s => Holds'[v] = Holds[v]
  <2> SUFFICES ASSUME NEW v \in Sessions, v # s PROVE Holds'[v] = Holds[v]
    OBVIOUS
  <2>1. \A u \in Tokens : (Unrevoked(u)' /\ home'[u] = v) <=> (Unrevoked(u) /\ home[u] = v)
    BY <1>1, <1>2, <1>3 DEF Unrevoked
  <2>2. QED
    BY <2>1, HoldsToken, HoldsNext
<1>7. Holds' = [Holds EXCEPT ![s] = t]
  BY <1>2, <1>5, <1>6 DEF Holds
<1>8. IssuedTokens' = IssuedTokens \cup {t} /\ t \notin IssuedTokens
  BY <1>2, <1>3 DEF IssuedTokens
<1>9. Refreshed' = Refreshed
  BY <1>1, <1>2, <1>3 DEF Refreshed
<1>10. QED
  BY <1>2, <1>3, <1>4, <1>7, <1>8, <1>9 DEF Register!First, IssuedTokens, Refreshed

\* A refresh that commits exchanges the token of a session that is live, or was
\* never refreshed.
LEMMA CommitExchanges ==
    ASSUME Invariant, Invariant', RefinementInv,
           NEW r \in Requests, NEW new \in Tokens, RefreshCommit(r, new),
           NEW o \in Tokens, o = old[r], NEW s \in Sessions, s = home[o]
    PROVE  Register!Exchange(s, new)
<1>1. /\ o \in Tokens /\ Unrevoked(o) /\ s \in Sessions /\ session[s] # "none" /\ o # new
      /\ token[new] = "none" /\ home[new] = None /\ replacedBy[new] = None
  BY DEF RefreshCommit, NextToken, Known, Invariant, WorksOnToken, Locked, Rows, Unrevoked
<1>2. /\ token' = [token EXCEPT ![o] = "revoked", ![new] = "live"]
      /\ home' = [home EXCEPT ![new] = s]
      /\ replacedBy' = [replacedBy EXCEPT ![o] = new]
      /\ session' = session
      /\ token \in [Tokens -> {"none", "live", "expired", "revoked"}]
      /\ home \in [Tokens -> Sessions \cup {None}]
      /\ replacedBy \in [Tokens -> Tokens \cup {None}]
      /\ session \in [Sessions -> {"none", "live", "revoked"}]
  BY DEF RefreshCommit, Invariant, RowTypes
<1>3. None \notin Tokens /\ None \notin Sessions
  BY LoginAssumption
<1>4. session[s] = "live" \/ s \notin Refreshed
  <2> SUFFICES ASSUME s \in Refreshed PROVE session[s] # "revoked"
    BY <1>1, <1>2
  <2>1. \E v \in Tokens : replacedBy[v] = o
    BY <1>1 DEF Refreshed, RefinementInv, Chained
  <2>2. QED
    BY <1>1, <2>1 DEF Invariant, Late, RefreshCommit
<1>5. Holds[s] = o
  BY <1>1, HoldsToken
<1>6. Holds'[s] = new
  BY <1>1, <1>2, HoldsNext DEF Unrevoked
<1>7. \A v \in Sessions : v # s => Holds'[v] = Holds[v]
  <2> SUFFICES ASSUME NEW v \in Sessions, v # s PROVE Holds'[v] = Holds[v]
    OBVIOUS
  <2>1. \A u \in Tokens : (Unrevoked(u)' /\ home'[u] = v) <=> (Unrevoked(u) /\ home[u] = v)
    BY <1>1, <1>2, <1>3 DEF Unrevoked
  <2>2. QED
    BY <2>1, HoldsToken, HoldsNext
<1>8. Holds' = [Holds EXCEPT ![s] = new]
  <2>1. Holds' = [v \in Sessions |-> Holds'[v]] /\ Holds = [v \in Sessions |-> Holds[v]]
    BY DEF Holds
  <2>2. QED
    BY <1>6, <1>7, <2>1
<1>9. IssuedTokens' = IssuedTokens \cup {new} /\ new \notin IssuedTokens
  BY <1>1, <1>2 DEF IssuedTokens, Unrevoked
<1>10. Refreshed' = Refreshed \cup {s}
  <2>1. \A u \in Tokens : u # new => home'[u] = home[u]
    BY <1>2
  <2>2. home'[o] = s /\ replacedBy'[o] = new /\ replacedBy'[new] = None
    BY <1>1, <1>2
  <2>3. \A u \in Tokens : u # o => replacedBy'[u] = replacedBy[u]
    BY <1>2
  <2>4. QED
    BY <1>1, <1>3, <2>1, <2>2, <2>3 DEF Refreshed
<1>11. QED
  BY <1>1, <1>2, <1>3, <1>4, <1>5, <1>8, <1>9, <1>10 DEF Register!Exchange, IssuedTokens, Refreshed

\* A revocation that commits ends its sessions, with the token of each that was
\* refreshed.
LEMMA RevocationEnds ==
    ASSUME Invariant, Invariant', RefinementInv, NEW r \in Requests, RevokeCommit(r)
    PROVE  \E ended, emptied \in SUBSET Sessions : Register!End(ended, emptied)
<1> DEFINE ended == targets[r]
           emptied == {s \in Sessions : Holds[s] = None \/ Holds[s] \in seen[r]}
<1>1. /\ session' = [s \in Sessions |-> IF s \in ended THEN "revoked" ELSE session[s]]
      /\ token' = [t \in Tokens |-> IF t \in seen[r] THEN "revoked" ELSE token[t]]
      /\ UNCHANGED <<home, replacedBy>>
      /\ ended \subseteq Sessions /\ seen[r] \subseteq Tokens
      /\ \A t \in seen[r] : token[t] # "none"
      /\ token \in [Tokens -> {"none", "live", "expired", "revoked"}]
  BY DEF RevokeCommit, Invariant, RowTypes, LocalTypes, SeenKnown, Known
<1>2. IssuedTokens' = IssuedTokens /\ Refreshed' = Refreshed
  BY <1>1 DEF IssuedTokens, Refreshed
<1>3. None \notin Tokens
  BY LoginAssumption
<1>4. ASSUME NEW s \in Sessions
      PROVE  Holds'[s] = IF s \in emptied THEN None ELSE Holds[s]
  <2>1. \A u \in Tokens : Unrevoked(u)' <=> Unrevoked(u) /\ u \notin seen[r]
    BY <1>1 DEF Unrevoked
  <2>2. \A u \in Tokens : Unrevoked(u)' /\ home'[u] = s <=> Holds[s] = u /\ u \notin seen[r]
    BY <1>1, <2>1, HoldsToken
  <2>3. CASE Holds[s] = None
    BY <1>3, <2>2, <2>3, HoldsNext
  <2>4. CASE Holds[s] # None
    <3>1. Holds[s] \in Tokens
      BY <2>4, HoldsToken
    <3>2. CASE Holds[s] \in seen[r]
      BY <2>2, <3>2, HoldsNext
    <3>3. CASE Holds[s] \notin seen[r]
      BY <2>2, <2>4, <3>1, <3>3, HoldsNext
    <3>4. QED
      BY <3>2, <3>3
  <2>5. QED
    BY <2>3, <2>4
<1>5. Holds' = [s \in Sessions |-> IF s \in emptied THEN None ELSE Holds[s]]
  BY <1>4 DEF Holds
<1>6. ASSUME NEW s \in ended PROVE session[s] # "none" /\ (s \in Refreshed => s \in emptied)
  <2>1. session[s] # "none"
    BY DEF RevokeCommit, RefinementInv, Ends
  <2>2. ASSUME s \in Refreshed, Holds[s] # None PROVE Holds[s] \in seen[r]
    <3> DEFINE t == Holds[s]
    <3>1. t \in Tokens /\ Unrevoked(t) /\ home[t] = s
      BY <1>1, <2>2, HoldsToken
    <3>2. \E v \in Tokens : replacedBy[v] = t
      BY <2>2, <3>1 DEF Refreshed, RefinementInv, Chained
    <3>3. QED
      BY <3>1, <3>2 DEF RevokeCommit, Invariant, Found
  <2>3. QED
    BY <1>1, <2>1, <2>2
<1>7. Register!End(ended, emptied)
  BY <1>1, <1>2, <1>5, <1>6 DEF Register!End, IssuedTokens, Refreshed
<1>8. QED
  BY <1>1, <1>7

\* Whatever the SQL statements of concurrent sign-ins, refreshes, log-outs and
\* revocations do to each other, the committed rows go through the steps of a
\* register that gives every session at most one token: LoginSession implements
\* SessionRegister.
THEOREM ImplementsRegister == Spec => BehavesAsRegister
<1>1. Init => Register!Init
  <2> SUFFICES ASSUME Init PROVE Register!Init
    OBVIOUS
  <2>1. \A s \in Sessions : Live(s) = {}
    BY DEF Init, Live, Unrevoked
  <2>2. Holds = [s \in Sessions |-> None]
    BY <2>1 DEF Holds
  <2>3. IssuedTokens = {} /\ Refreshed = {}
    BY DEF Init, IssuedTokens, Refreshed
  <2>4. QED
    BY <2>2, <2>3 DEF Init, Register!Init, IssuedTokens, Refreshed
<1>2. Invariant /\ Invariant' /\ RefinementInv /\ [Next]_vars => [Register!Next]_Register!registerVars
  <2> SUFFICES ASSUME Invariant, Invariant', RefinementInv, [Next]_vars
               PROVE  Register!Next \/ UNCHANGED <<session, Holds, IssuedTokens, Refreshed>>
    BY DEF Register!registerVars, IssuedTokens, Refreshed
  <2>1. CASE Unseen
    BY <2>1, UnseenStutters
  <2>2. ASSUME NEW t \in Tokens, Revokes(t)
        PROVE  Register!Next \/ UNCHANGED <<session, Holds, IssuedTokens, Refreshed>>
    BY <2>2, RevokeDrops DEF Register!Next
  <2>3. ASSUME NEW r \in Requests, NEW s \in Sessions, SignIn(r, s) PROVE Register!Next
    <3>1. Holds' = Holds
      <4>1. \A v \in Sessions : Holds'[v] = Holds[v]
        BY <2>3, HoldsToken, HoldsNext DEF SignIn, Unrevoked
      <4>2. QED
        BY <4>1 DEF Holds
    <3>2. Register!Open(s)
      BY <2>3, <3>1 DEF SignIn, Register!Open
    <3>3. QED
      BY <3>2 DEF Register!Next
  <2>4. ASSUME NEW r \in Requests, NEW t \in Tokens, IssueToken(r, t) PROVE Register!Next
    BY <2>4, IssueIsFirst DEF Register!Next
  <2>5. ASSUME NEW r \in Requests, NEW t \in Tokens, RefreshCommit(r, t) PROVE Register!Next
    <3>1. PICK o \in Tokens : o = old[r]
      BY <2>5 DEF RefreshCommit, Invariant, WorksOnToken
    <3>2. PICK s \in Sessions : s = home[o]
      BY <2>5, <3>1 DEF RefreshCommit, Invariant, WorksOnToken, Rows
    <3>3. Register!Exchange(s, t)
      BY <2>5, <3>1, <3>2, CommitExchanges
    <3>4. QED
      BY <3>3 DEF Register!Next
  <2>6. ASSUME NEW r \in Requests, RevokeCommit(r) PROVE Register!Next
    BY <2>6, RevocationEnds DEF Register!Next
  <2>7. QED
    BY <2>1, <2>2, <2>3, <2>4, <2>5, <2>6, RegisterSteps
<1>3. QED
  BY <1>1, <1>2, InvariantHolds, RefinementInvHolds, PTL DEF Spec, BehavesAsRegister, Register!Spec
=============================================================================
