--------------------------- MODULE ExamMonitoring ---------------------------
(***************************************************************************)
(* What exam-security keeps of one attempt while it is taken: the windows  *)
(* it is open in (ExamSession rows, and the key in Redis that names the    *)
(* one that counts), the events the windows report and the risk calculated *)
(* from them, and the reviews of administrators.                           *)
(*                                                                         *)
(* A request is a sequence of awaits; reads or writes of Redis next to     *)
(* each other are one step.  Redis keys are deleted and age, but are not   *)
(* lost otherwise.                                                         *)
(***************************************************************************)
EXTENDS Integers, FiniteSets

CONSTANTS
    Windows,      \* browser windows and devices of the student
    Reviewers,    \* administrators
    MaxSessions,  \* bound on the ExamSession rows
    MaxEvents,    \* bound on the AttemptEvent rows
    FlagAt,       \* events from which the risk is HIGH
    MaxUndertaken,\* bound on the requests that begin
    MaxCuts       \* bound on the requests that die half-way

ASSUME MonitorAssumption ==
    /\ Windows \cap Reviewers = {}
    /\ MaxSessions \in Nat
    /\ MaxEvents \in Nat
    /\ FlagAt \in Nat \ {0}
    /\ MaxUndertaken \in Nat
    /\ MaxCuts \in Nat

VARIABLES
    session,       \* ExamSession.status, "NONE" for a row not inserted yet
    holds,         \* the session id each window was given, 0 for none
    key,           \* exam:attempt:<id>:session in Redis, 0 for no key
    fresh,         \* exam:attempt:<id>:heartbeat is less than 45 seconds old
    events,        \* AttemptEvent rows of the attempt
    risk,          \* the events Attempt.riskScore was calculated from
    flagged,       \* Attempt.isFlagged
    disqualified,  \* Attempt.disqualifiedAt is set
    reviewed,      \* status of the newest AttemptSecurityReview
    over,          \* how the attempt ended
    doing,         \* the next step of each window's and reviewer's request
    opened,        \* local variables of the requests: the session created,
    sawFlag,       \* isFlagged as read,
    tallied,       \* the number of events read,
    verdict,       \* and the status of the review
    undertaken,    \* requests begun
    crossed,       \* history: the kinds of requests that ran together
    cuts,          \* requests that died half-way
    cut,           \* history: and their kinds
    cleared        \* history: a review cleared the attempt

windowVars == <<session, holds, key, fresh, opened>>
riskVars == <<events, risk, sawFlag, tallied>>
verdictVars == <<disqualified, reviewed, verdict, cleared>>
historyVars == <<undertaken, crossed, cuts, cut>>
monitorVars == <<windowVars, riskVars, flagged, verdictVars, over, doing, historyVars>>

-----------------------------------------------------------------------------
SessionIds == 1 .. MaxSessions
SessionStatuses == {"NONE", "ACTIVE", "INVALIDATED", "TERMINATED"}
Verdicts == {"PENDING", "CLEARED", "DISQUALIFIED"}

\* The steps a request of each kind has left once it has begun.
StepsOf == [open     |-> {"invalidate", "create", "cache"},
            beat     |-> {"beat", "touch", "keep"},
            evaluate |-> {"flag", "count", "score"},
            review   |-> {"apply", "sessions", "log"}]
Kinds == DOMAIN StepsOf
Actors == Windows \cup Reviewers

InKind(k) == {x \in Actors : doing[x] \in StepsOf[k]}

MonitorInit ==
    /\ session = [s \in SessionIds |-> "NONE"]
    /\ holds = [w \in Windows |-> 0]
    /\ key = 0 /\ fresh = FALSE
    /\ events = 0 /\ risk = 0
    /\ flagged = FALSE /\ disqualified = FALSE
    /\ reviewed = "PENDING" /\ over = "no"
    /\ doing = [x \in Actors |-> "none"]
    /\ opened = [w \in Windows |-> 0]
    /\ sawFlag = [w \in Windows |-> FALSE]
    /\ tallied = [w \in Windows |-> 0]
    /\ verdict = [r \in Reviewers |-> "PENDING"]
    /\ undertaken = 0 /\ crossed = {} /\ cuts = 0 /\ cut = {} /\ cleared = FALSE

\* A request of kind k begins with its step d beside those that are running.
Undertake(x, k, d) ==
    /\ doing[x] = "none" /\ undertaken < MaxUndertaken
    /\ doing' = [doing EXCEPT ![x] = d]
    /\ undertaken' = undertaken + 1
    /\ crossed' = crossed \cup {{k, l} : l \in {l \in Kinds : InKind(l) # {}}}
    /\ UNCHANGED <<cuts, cut>>

Continue(x, from, to) ==
    /\ doing[x] = from
    /\ doing' = [doing EXCEPT ![x] = to]
    /\ UNCHANGED historyVars

-----------------------------------------------------------------------------
\* createOrResumeSession() with the id the window holds, if it has kept it: the
\* same session goes on; while another window is alive the request is refused,
\* which changes nothing, unless it asks for a transfer.
ResumeSession(w) ==
    /\ doing[w] = "none"
    /\ holds[w] # 0 /\ key = holds[w]
    /\ fresh' = TRUE
    /\ UNCHANGED <<session, holds, key, opened, riskVars, flagged, verdictVars,
                   over, doing, historyVars>>

OpenRead(w, transfer) ==
    /\ key = 0 \/ ~fresh \/ transfer
    /\ \E free \in SessionIds : session[free] = "NONE"
    /\ Undertake(w, "open", "invalidate")
    /\ UNCHANGED <<windowVars, riskVars, flagged, verdictVars, over>>

OpenInvalidate(w) ==
    /\ Continue(w, "invalidate", "create")
    /\ session' = [s \in SessionIds |->
        IF session[s] = "ACTIVE" THEN "INVALIDATED" ELSE session[s]]
    /\ UNCHANGED <<holds, key, fresh, opened, riskVars, flagged, verdictVars, over>>

\* Ids are given in order: they have no meaning.
OpenCreate(w) ==
    /\ Continue(w, "create", "cache")
    /\ \E s \in SessionIds :
        /\ session[s] = "NONE" /\ \A t \in 1 .. s - 1 : session[t] # "NONE"
        /\ session' = [session EXCEPT ![s] = "ACTIVE"]
        /\ opened' = [opened EXCEPT ![w] = s]
    /\ UNCHANGED <<holds, key, fresh, riskVars, flagged, verdictVars, over>>

OpenCache(w) ==
    /\ Continue(w, "cache", "none")
    /\ key' = opened[w] /\ fresh' = TRUE
    /\ holds' = [holds EXCEPT ![w] = opened[w]]
    /\ opened' = [opened EXCEPT ![w] = 0]
    /\ UNCHANGED <<session, riskVars, flagged, verdictVars, over>>

-----------------------------------------------------------------------------
\* recordHeartbeat() of a window that holds a session: it refreshes the
\* heartbeat in any case, and the key when it read no other session in it.
HeartbeatRead(w) ==
    /\ holds[w] # 0
    /\ Undertake(w, "beat", IF key \in {0, holds[w]} THEN "beat" ELSE "touch")
    /\ UNCHANGED <<windowVars, riskVars, flagged, verdictVars, over>>

HeartbeatWrite(w) ==
    /\ \/ Continue(w, "beat", "keep")
       \/ Continue(w, "touch", "none")
    /\ fresh' = TRUE
    /\ UNCHANGED <<session, holds, key, opened, riskVars, flagged, verdictVars, over>>

HeartbeatKeep(w) ==
    /\ Continue(w, "keep", "none")
    /\ key' = holds[w]
    /\ UNCHANGED <<session, holds, fresh, opened, riskVars, flagged, verdictVars, over>>

\* 45 seconds without a heartbeat.
Silence ==
    /\ fresh /\ fresh' = FALSE
    /\ UNCHANGED <<session, holds, key, opened, riskVars, flagged, verdictVars,
                   over, doing, historyVars>>

-----------------------------------------------------------------------------
\* ingestEvents(): a new event, or one that was sent before (its row exists and
\* is skipped), then the evaluation of the attempt.  An empty batch, and the
\* endpoint that evaluates, are the second case.
Ingest(w, new) ==
    /\ events + new <= MaxEvents
    /\ events' = events + new
    /\ Undertake(w, "evaluate", "flag")
    /\ UNCHANGED <<windowVars, risk, sawFlag, tallied, flagged, verdictVars, over>>

\* evaluateAttemptSecurity(): two reads and a write of what they gave.
EvaluateAttempt(w) ==
    /\ Continue(w, "flag", "count")
    /\ sawFlag' = [sawFlag EXCEPT ![w] = flagged]
    /\ UNCHANGED <<windowVars, events, risk, tallied, flagged, verdictVars, over>>

EvaluateEvents(w) ==
    /\ Continue(w, "count", "score")
    /\ tallied' = [tallied EXCEPT ![w] = events]
    /\ UNCHANGED <<windowVars, events, risk, sawFlag, flagged, verdictVars, over>>

\* Mutant: the flag follows the events alone.
EvaluateScore_Fresh(w) ==
    /\ Continue(w, "score", "none")
    /\ risk' = tallied[w]
    /\ flagged' = (tallied[w] >= FlagAt)
    /\ sawFlag' = [sawFlag EXCEPT ![w] = FALSE]
    /\ tallied' = [tallied EXCEPT ![w] = 0]
    /\ UNCHANGED <<windowVars, events, verdictVars, over>>

EvaluateScore(w) ==
    /\ Continue(w, "score", "none")
    /\ risk' = tallied[w]
    /\ flagged' = (sawFlag[w] \/ tallied[w] >= FlagAt)
    /\ sawFlag' = [sawFlag EXCEPT ![w] = FALSE]
    /\ tallied' = [tallied EXCEPT ![w] = 0]
    /\ UNCHANGED <<windowVars, events, verdictVars, over>>

-----------------------------------------------------------------------------
\* reviewAttempt(): the review is recorded first, then the attempt updated when
\* the verdict asks for it, in a statement of its own.
Review(r, v) ==
    /\ reviewed' = v
    /\ verdict' = [verdict EXCEPT ![r] = v]
    /\ Undertake(r, "review", IF v = "PENDING" THEN "none" ELSE "apply")
    /\ UNCHANGED <<windowVars, riskVars, flagged, disqualified, cleared, over>>

ApplyReview(r) ==
    /\ Continue(r, "apply", "none")
    /\ flagged' = (verdict[r] = "DISQUALIFIED")
    /\ disqualified' = (verdict[r] = "DISQUALIFIED")
    /\ cleared' = (cleared \/ verdict[r] = "CLEARED")
    /\ UNCHANGED <<windowVars, riskVars, reviewed, verdict, over>>

\* terminateAttempt(), whatever the status of the attempt: the attempt, its
\* sessions and the review, in three statements.
Terminate(r) ==
    /\ Undertake(r, "review", "sessions")
    /\ over' = "terminated"
    /\ flagged' = TRUE /\ disqualified' = TRUE
    /\ verdict' = [verdict EXCEPT ![r] = "DISQUALIFIED"]
    /\ UNCHANGED <<windowVars, riskVars, reviewed, cleared>>

TerminateSessions(r) ==
    /\ Continue(r, "sessions", "log")
    /\ session' = [s \in SessionIds |->
        IF session[s] = "ACTIVE" THEN "TERMINATED" ELSE session[s]]
    /\ UNCHANGED <<holds, key, fresh, opened, riskVars, flagged, verdictVars, over>>

TerminateLog(r) ==
    /\ Continue(r, "log", "none")
    /\ reviewed' = "DISQUALIFIED"
    /\ UNCHANGED <<windowVars, riskVars, flagged, disqualified, verdict, cleared, over>>

\* submitAttempt() and autoSubmitAttempt() delete the two keys, and leave the
\* session rows.
SubmitClears ==
    /\ over = "no"
    /\ over' = "submitted"
    /\ key' = 0 /\ fresh' = FALSE
    /\ UNCHANGED <<session, holds, opened, riskVars, flagged, verdictVars, doing,
                   historyVars>>

\* The server dies while the request runs.
Cut(x) ==
    /\ doing[x] # "none" /\ cuts < MaxCuts
    /\ doing' = [doing EXCEPT ![x] = "none"]
    /\ cuts' = cuts + 1
    /\ cut' = cut \cup {k \in Kinds : doing[x] \in StepsOf[k]}
    /\ opened' = [w \in Windows |-> IF w = x THEN 0 ELSE opened[w]]
    /\ sawFlag' = [w \in Windows |-> w # x /\ sawFlag[w]]
    /\ tallied' = [w \in Windows |-> IF w = x THEN 0 ELSE tallied[w]]
    /\ UNCHANGED <<session, holds, key, fresh, events, risk, flagged, verdictVars,
                   over, undertaken, crossed>>

WindowNext(w) ==
    \/ ResumeSession(w) \/ OpenInvalidate(w) \/ OpenCreate(w) \/ OpenCache(w)
    \/ HeartbeatRead(w) \/ HeartbeatWrite(w) \/ HeartbeatKeep(w)
    \/ EvaluateAttempt(w) \/ EvaluateEvents(w) \/ EvaluateScore(w)
    \/ \E transfer \in BOOLEAN : OpenRead(w, transfer)
    \/ \E new \in {0, 1} : Ingest(w, new)

ReviewerNext(r) ==
    \/ ApplyReview(r) \/ Terminate(r) \/ TerminateSessions(r) \/ TerminateLog(r)
    \/ \E v \in Verdicts : Review(r, v)

MonitorNext ==
    \/ \E w \in Windows : WindowNext(w)
    \/ \E r \in Reviewers : ReviewerNext(r)
    \/ \E x \in Actors : Cut(x)
    \/ Silence
    \/ SubmitClears

MonitorSpec == MonitorInit /\ [][MonitorNext]_monitorVars

-----------------------------------------------------------------------------
\* Rows, keys and requests have values of their types.
MonitorTypeOK ==
    /\ session \in [SessionIds -> SessionStatuses]
    /\ holds \in [Windows -> 0 .. MaxSessions]
    /\ key \in 0 .. MaxSessions /\ fresh \in BOOLEAN
    /\ events \in 0 .. MaxEvents /\ risk \in 0 .. MaxEvents
    /\ flagged \in BOOLEAN /\ disqualified \in BOOLEAN
    /\ reviewed \in Verdicts /\ over \in {"no", "submitted", "terminated"}
    /\ doing \in [Actors -> {"none"} \cup UNION {StepsOf[k] : k \in Kinds}]
    /\ opened \in [Windows -> 0 .. MaxSessions]
    /\ sawFlag \in [Windows -> BOOLEAN]
    /\ tallied \in [Windows -> 0 .. MaxEvents]
    /\ verdict \in [Reviewers -> Verdicts]
    /\ undertaken \in 0 .. MaxUndertaken /\ cleared \in BOOLEAN
    /\ crossed \subseteq SUBSET Kinds
    /\ cuts \in 0 .. MaxCuts /\ cut \subseteq Kinds

\* Unless two windows open the attempt at the same time, it is open in one
\* window at most, whatever else overlaps or dies.
OneActiveWindow ==
    {"open"} \notin crossed =>
        \A s, t \in SessionIds : session[s] = "ACTIVE" /\ session[t] = "ACTIVE" => s = t

\* While the attempt is taken, the session that Redis names is the active one:
\* heartbeats compare with it and never with the rows.  Two overlaps break it
\* for good, two openings and an opening with a heartbeat that read the key
\* before it, and so does an opening that dies.
KeyNamesActive ==
    (/\ over = "no" /\ InKind("open") = {}
     /\ crossed \cap {{"open"}, {"open", "beat"}} = {} /\ "open" \notin cut)
        => key = 0 \/ session[key] = "ACTIVE"

\* One window at most takes the attempt, and Redis names it.
OneWindow == OneActiveWindow /\ KeyNamesActive

\* A disqualified attempt is flagged, unless an evaluation that had read the
\* flag before the review wrote it back after.
DisqualifiedFlagged ==
    (disqualified /\ {"evaluate", "review"} \notin crossed) => flagged

\* When no evaluation is under way the risk counts every event there is, and an
\* attempt at risk is flagged unless a review cleared it; only two evaluations
\* that overlapped, or one that died, can leave less.
RiskCounted ==
    (/\ InKind("evaluate") = {} /\ {"evaluate"} \notin crossed
     /\ "evaluate" \notin cut)
        => /\ risk = events
           /\ (events >= FlagAt /\ ~cleared) => flagged

\* When no review is under way, the attempt is disqualified exactly when the
\* last review with a verdict says so; two reviews that overlap, or one that
\* dies after its first statement, break it.
VerdictApplied ==
    (/\ InKind("review") = {} /\ {"review"} \notin crossed /\ "review" \notin cut
     /\ reviewed # "PENDING")
        => (disqualified <=> reviewed = "DISQUALIFIED")

\* The risk, the flag and the disqualification of an attempt follow from its
\* events and its reviews.
AttemptJudged == DisqualifiedFlagged /\ RiskCounted /\ VerdictApplied

\* An attempt is watched through one window, and judged by what was seen.
AttemptWatched == OneWindow /\ AttemptJudged
=============================================================================
