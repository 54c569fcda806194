-------------------------- MODULE SessionRegister --------------------------
(***************************************************************************)
(* What the sign-in sessions of a user promise: a session holds at most    *)
(* one refresh token, refreshing exchanges it in one step for a new one.   *)
(* Ending a session that was refreshed takes its token away in the same    *)
(* step, and nothing gives it another one.  A token once given up never    *)
(* comes back.                                                             *)
(***************************************************************************)
CONSTANTS Sessions, Tokens, NoToken

VARIABLES
    status,     \* "none", "live" or "revoked", for every session
    holds,      \* the token the session can be refreshed with, or NoToken
    issued,     \* every token a session ever held
    refreshed   \* sessions that have exchanged a token

registerVars == <<status, holds, issued, refreshed>>

Init ==
    /\ status = [s \in Sessions |-> "none"]
    /\ holds = [s \in Sessions |-> NoToken]
    /\ issued = {} /\ refreshed = {}

Open(s) ==
    /\ status[s] = "none"
    /\ status' = [status EXCEPT ![s] = "live"]
    /\ UNCHANGED <<holds, issued, refreshed>>

\* The first token of a session may come after its end, and is then useless.
First(s, t) ==
    /\ status[s] # "none" /\ holds[s] = NoToken /\ t \notin issued
    /\ holds' = [holds EXCEPT ![s] = t]
    /\ issued' = issued \cup {t}
    /\ UNCHANGED <<status, refreshed>>

\* A session ended during its sign-in may still exchange that first token.
Exchange(s, t) ==
    /\ status[s] = "live" \/ s \notin refreshed
    /\ holds[s] # NoToken /\ t \notin issued
    /\ holds' = [holds EXCEPT ![s] = t]
    /\ issued' = issued \cup {t}
    /\ refreshed' = refreshed \cup {s}
    /\ UNCHANGED status

Drop(s) ==
    /\ holds[s] # NoToken
    /\ holds' = [holds EXCEPT ![s] = NoToken]
    /\ UNCHANGED <<status, issued, refreshed>>

\* Ending all sessions of the user also takes the token of a session that
\* was opened meanwhile; a session may keep a first token that was issued while
\* it was being ended.
End(ended, emptied) ==
    /\ \A s \in ended : status[s] # "none" /\ (s \in refreshed => s \in emptied)
    /\ status' = [s \in Sessions |-> IF s \in ended THEN "revoked" ELSE status[s]]
    /\ holds' = [s \in Sessions |-> IF s \in emptied THEN NoToken ELSE holds[s]]
    /\ UNCHANGED <<issued, refreshed>>

Next ==
    \/ \E ended, emptied \in SUBSET Sessions : End(ended, emptied)
    \/ \E s \in Sessions : Open(s) \/ Drop(s)
    \/ \E s \in Sessions, t \in Tokens : First(s, t) \/ Exchange(s, t)

Spec == Init /\ [][Next]_registerVars
=============================================================================
