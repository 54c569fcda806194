--------------------------- MODULE QuestionTiming ---------------------------
(***************************************************************************)
(* The time a student spends on the questions of one attempt: the open     *)
(* interval in Redis, the closed ones in QuestionTimeLog, and the analysis *)
(* made of them once, in the TimeAnalysis row and in a Redis copy of it.   *)
(*                                                                         *)
(* A request is a sequence of awaits, one action each.  The start, the end *)
(* and the two submissions of an attempt share ReadActive, CloseInterval   *)
(* and Clear (closeIntervalInternal() and finalizeActiveTiming()), and so  *)
(* does the analysis, which first closes what a submission left open.      *)
(*                                                                         *)
(* The deduplication of events has no action: whether an event was seen or *)
(* not, the code goes on to the same reads and writes.  A Redis write that *)
(* fails is swallowed and is, for the state, the death of the request      *)
(* before it.                                                              *)
(***************************************************************************)
EXTENDS Integers, Sequences

CONSTANTS
    Questions,
    Clients,      \* requests of the attempt the server can be running at a time
    Deadline,     \* serverEndTime of the attempt
    MaxTime,      \* bound on the clock
    MaxLogs,      \* bound on the closed intervals
    MaxTimings,  \* bound on the requests that begin
    MaxDeaths,    \* bound on those that die
    NoInterval, NoQuestion

ASSUME TimingAssumption ==
    /\ Deadline \in Nat
    /\ MaxTime \in Nat
    /\ Deadline <= MaxTime
    /\ MaxLogs \in Nat
    /\ MaxTimings \in Nat
    /\ MaxDeaths \in Nat
    /\ NoQuestion \notin Questions

VARIABLES
    time,
    submittedAt,  \* Never while the attempt is IN_PROGRESS
    active,       \* the open interval in Redis
    logs,         \* the closed ones, in the order of their rows
    stored,       \* the intervals the TimeAnalysis row counts, or NotMade
    cached,       \* the same for its copy in Redis
    purpose, step, question, at, seen, number, counted, \* of each request
    begun,        \* requests begun
    overlapped,   \* purposes of the requests that ran together with another
    deaths,       \* requests that died half-way, and their purposes
    died,
    early         \* the analysis was made before the submission

handlerState == <<purpose, step, question, at, seen, number, counted>>
analysisState == <<stored, cached, early>>
timingVars == <<time, submittedAt, active, logs, analysisState, handlerState,
                begun, overlapped, deaths, died>>

-----------------------------------------------------------------------------
Never == -1
NotMade == -1

Times == 0 .. MaxTime
Intervals == [on : Questions, visit : Nat \ {0}, from : Times]
Analyses == {"analysis", "recalculation"}
Purposes == {"start", "expired", "end", "submit"} \cup Analyses
TimingSteps == {"none", "commit", "read", "close", "clear", "visit", "set",
                "ask", "lookup", "analyse", "store", "cache"}

Sooner(s, t) == IF s < t THEN s ELSE t

\* The highest visit number of a question so far.
LastVisit(q) ==
    LET Visits == {logs[i].visit : i \in {j \in DOMAIN logs : logs[j].on = q}} \cup {0}
    IN  CHOOSE v \in Visits : \A w \in Visits : w <= v

TimingInit ==
    /\ time = 0 /\ submittedAt = Never
    /\ active = NoInterval /\ logs = <<>>
    /\ stored = NotMade /\ cached = NotMade /\ early = FALSE
    /\ purpose = [c \in Clients |-> "start"]
    /\ step = [c \in Clients |-> "none"]
    /\ question = [c \in Clients |-> NoQuestion]
    /\ at = [c \in Clients |-> 0]
    /\ seen = [c \in Clients |-> NoInterval]
    /\ number = [c \in Clients |-> 0]
    /\ counted = [c \in Clients |-> 0]
    /\ begun = 0 /\ overlapped = {} /\ deaths = 0 /\ died = {}

Busy == {c \in Clients : step[c] # "none"}

BeginTiming(c, p, q, t, interval, s) ==
    /\ step[c] = "none"
    /\ begun < MaxTimings
    /\ begun' = begun + 1
    /\ overlapped' = IF Busy = {} THEN overlapped
                     ELSE overlapped \cup {p} \cup {purpose[d] : d \in Busy}
    /\ purpose' = [purpose EXCEPT ![c] = p]
    /\ step' = [step EXCEPT ![c] = s]
    /\ question' = [question EXCEPT ![c] = q]
    /\ at' = [at EXCEPT ![c] = t]
    /\ seen' = [seen EXCEPT ![c] = interval]
    /\ UNCHANGED <<time, number, counted, deaths, died>>

\* The request goes on to its step s, and ends with "none".  What it had read
\* is forgotten when it is used up.
Proceed(c, s) ==
    /\ step' = [step EXCEPT ![c] = s]
    /\ question' = IF s = "none" THEN [question EXCEPT ![c] = NoQuestion] ELSE question
    /\ at' = IF s = "none" THEN [at EXCEPT ![c] = 0] ELSE at
    /\ UNCHANGED <<time, purpose, begun, overlapped, deaths, died>>

-----------------------------------------------------------------------------
\* startQuestionTiming(): the attempt must be IN_PROGRESS; after its deadline
\* the request only closes the open interval.
StartCheck(c, q) ==
    /\ submittedAt = Never
    /\ BeginTiming(c, IF time > Deadline THEN "expired" ELSE "start", q,
                   Sooner(time, Deadline), NoInterval, "read")
    /\ UNCHANGED <<submittedAt, active, logs, analysisState>>

\* What a request does when no interval is open, or once it is closed.
AfterClose(c) ==
    CASE purpose[c] = "start"    -> "visit"
      [] purpose[c] \in Analyses -> "analyse"
      [] OTHER                   -> "none"

\* The start of the question that is open already changes nothing.  When the
\* analysis finds an interval open it ends it at its own time.
ReadActive(c) ==
    LET same == purpose[c] = "start" /\ active # NoInterval /\ active.on = question[c]
        ends == IF purpose[c] \in Analyses THEN time ELSE at[c]
    IN
    /\ step[c] = "read"
    /\ seen' = [seen EXCEPT ![c] = IF same THEN NoInterval ELSE active]
    /\ \/ /\ same
          /\ Proceed(c, "none")
       \/ /\ active = NoInterval
          /\ Proceed(c, AfterClose(c))
       \/ /\ active # NoInterval /\ ~same
          /\ step' = [step EXCEPT ![c] = "close"]
          /\ at' = [at EXCEPT ![c] = ends]
          /\ UNCHANGED <<time, purpose, question, begun, overlapped, deaths, died>>
    /\ UNCHANGED <<submittedAt, active, logs, analysisState, number, counted>>

\* closeIntervalInternal(): the row of what was read, never past the deadline.
CloseInterval(c) ==
    /\ step[c] = "close"
    /\ Len(logs) < MaxLogs
    /\ logs' = Append(logs, [on |-> seen[c].on, visit |-> seen[c].visit,
                             from |-> seen[c].from, till |-> Sooner(at[c], Deadline),
                             by |-> "server"])
    /\ seen' = [seen EXCEPT ![c] = NoInterval]
    /\ Proceed(c, IF purpose[c] = "start" THEN "visit" ELSE "clear")
    /\ UNCHANGED <<submittedAt, active, analysisState, number, counted>>

\* Mutant: an interval that was closed stays open.
Clear_Kept(c) ==
    /\ step[c] = "clear"
    /\ Proceed(c, AfterClose(c))
    /\ UNCHANGED <<active, submittedAt, logs, analysisState, seen, number, counted>>

Clear(c) ==
    /\ step[c] = "clear"
    /\ active' = NoInterval
    /\ Proceed(c, AfterClose(c))
    /\ UNCHANGED <<submittedAt, logs, analysisState, seen, number, counted>>

ReadVisit(c) ==
    /\ step[c] = "visit"
    /\ number' = [number EXCEPT ![c] = LastVisit(question[c]) + 1]
    /\ Proceed(c, "set")
    /\ UNCHANGED <<submittedAt, active, logs, analysisState, seen, counted>>

\* The interval starts when the request came in.
SetActive(c) ==
    /\ step[c] = "set"
    /\ active' = [on |-> question[c], visit |-> number[c], from |-> at[c]]
    /\ number' = [number EXCEPT ![c] = 0]
    /\ Proceed(c, "none")
    /\ UNCHANGED <<submittedAt, logs, analysisState, seen, counted>>

-----------------------------------------------------------------------------
\* endQuestionTiming(), whatever the status of the attempt: it does nothing
\* unless the question is the open one.
EndRead(c) ==
    /\ active # NoInterval
    /\ BeginTiming(c, "end", active.on, time, active, "close")
    /\ UNCHANGED <<submittedAt, active, logs, analysisState>>

\* saveTimeLog() of exam-attempt: a row with times of the client's own, also
\* after the submission.
SaveTimeLog(q) ==
    /\ Len(logs) < MaxLogs
    /\ begun < MaxTimings
    /\ begun' = begun + 1
    /\ logs' = Append(logs, [on |-> q, visit |-> 1, from |-> 0, till |-> time,
                             by |-> "client"])
    /\ UNCHANGED <<time, submittedAt, active, analysisState, handlerState,
                   overlapped, deaths, died>>

-----------------------------------------------------------------------------
\* submitAttempt() and autoSubmitAttempt(): the time is taken before the
\* compare-and-swap, and cut at the deadline by the latter.
SubmitCheck(c, auto) ==
    /\ submittedAt = Never
    /\ BeginTiming(c, "submit", NoQuestion,
                   IF auto THEN Sooner(time, Deadline) ELSE time, NoInterval, "commit")
    /\ UNCHANGED <<submittedAt, active, logs, analysisState>>

\* Only the request that ends the attempt closes the open interval.
SubmitCommit(c) ==
    /\ step[c] = "commit"
    /\ \/ /\ submittedAt = Never
          /\ submittedAt' = at[c]
          /\ Proceed(c, "read")
       \/ /\ submittedAt # Never
          /\ submittedAt' = submittedAt
          /\ Proceed(c, "none")
    /\ UNCHANGED <<active, logs, analysisState, seen, number, counted>>

-----------------------------------------------------------------------------
\* generateTimeAnalysis(), by any GET on the analysis, whatever the status of
\* the attempt; nothing happens while Redis has a copy.
ReadAnalysis(c) ==
    /\ cached = NotMade
    /\ BeginTiming(c, "analysis", NoQuestion, 0, NoInterval, "lookup")
    /\ UNCHANGED <<submittedAt, active, logs, analysisState>>

\* recalculateTimeAnalysis(): drops the copy, then asks for the analysis.
Recalculate(c) ==
    /\ BeginTiming(c, "recalculation", NoQuestion, 0, NoInterval, "ask")
    /\ cached' = NotMade
    /\ UNCHANGED <<submittedAt, active, logs, stored, early>>

AskCache(c) ==
    /\ step[c] = "ask"
    /\ Proceed(c, IF cached # NotMade THEN "none" ELSE "lookup")
    /\ UNCHANGED <<submittedAt, active, logs, analysisState, seen, number, counted>>

\* Mutant: what is still open is left open.
Lookup_NoRecovery(c) ==
    /\ step[c] = "lookup"
    /\ \/ /\ stored # NotMade
          /\ counted' = [counted EXCEPT ![c] = stored]
          /\ Proceed(c, "cache")
       \/ /\ stored = NotMade
          /\ counted' = counted
          /\ Proceed(c, "analyse")
    /\ UNCHANGED <<submittedAt, active, logs, analysisState, seen, number>>

\* A row that exists is copied to Redis as it is.
Lookup(c) ==
    /\ step[c] = "lookup"
    /\ \/ /\ stored # NotMade
          /\ counted' = [counted EXCEPT ![c] = stored]
          /\ Proceed(c, "cache")
       \/ /\ stored = NotMade
          /\ counted' = counted
          /\ Proceed(c, "read")
    /\ UNCHANGED <<submittedAt, active, logs, analysisState, seen, number>>

Analyse(c) ==
    /\ step[c] = "analyse"
    /\ counted' = [counted EXCEPT ![c] = Len(logs)]
    /\ early' = (early \/ submittedAt = Never)
    /\ Proceed(c, "store")
    /\ UNCHANGED <<submittedAt, active, logs, stored, cached, seen, number>>

StoreAnalysis(c) ==
    /\ step[c] = "store"
    /\ stored' = counted[c]
    /\ Proceed(c, "cache")
    /\ UNCHANGED <<submittedAt, active, logs, cached, early, seen, number, counted>>

CacheAnalysis(c) ==
    /\ step[c] = "cache"
    /\ cached' = counted[c]
    /\ counted' = [counted EXCEPT ![c] = 0]
    /\ Proceed(c, "none")
    /\ UNCHANGED <<submittedAt, active, logs, stored, early, seen, number>>

-----------------------------------------------------------------------------
Tick ==
    /\ time < MaxTime
    /\ time' = time + 1
    /\ UNCHANGED <<submittedAt, active, logs, analysisState, handlerState,
                   begun, overlapped, deaths, died>>

\* The server dies, or loses Redis, while the request runs.
TimingDies(c) ==
    /\ step[c] # "none"
    /\ deaths < MaxDeaths
    /\ deaths' = deaths + 1
    /\ step' = [step EXCEPT ![c] = "none"]
    /\ died' = died \cup {purpose[c]}
    /\ question' = [question EXCEPT ![c] = NoQuestion]
    /\ at' = [at EXCEPT ![c] = 0]
    /\ seen' = [seen EXCEPT ![c] = NoInterval]
    /\ number' = [number EXCEPT ![c] = 0]
    /\ counted' = [counted EXCEPT ![c] = 0]
    /\ UNCHANGED <<time, submittedAt, active, logs, analysisState, purpose,
                   begun, overlapped>>

TimingNext ==
    \/ Tick
    \/ \E q \in Questions : SaveTimeLog(q)
    \/ \E c \in Clients :
        \/ \E q \in Questions : StartCheck(c, q)
        \/ \E auto \in BOOLEAN : SubmitCheck(c, auto)
        \/ ReadActive(c) \/ CloseInterval(c) \/ Clear(c)
        \/ ReadVisit(c) \/ SetActive(c) \/ EndRead(c) \/ SubmitCommit(c)
        \/ ReadAnalysis(c) \/ Recalculate(c) \/ AskCache(c) \/ Lookup(c)
        \/ Analyse(c) \/ StoreAnalysis(c) \/ CacheAnalysis(c)
        \/ TimingDies(c)

TimingSpec == TimingInit /\ [][TimingNext]_timingVars

-----------------------------------------------------------------------------
\* Clock, rows, copies and requests have values of their types.
TimingTypeOK ==
    /\ time \in Times
    /\ submittedAt \in Times \cup {Never}
    /\ active \in Intervals \cup {NoInterval}
    /\ logs \in Seq([on : Questions, visit : Nat \ {0}, from : Times, till : Times,
                     by : {"server", "client"}])
    /\ stored \in Nat \cup {NotMade} /\ cached \in Nat \cup {NotMade}
    /\ early \in BOOLEAN
    /\ purpose \in [Clients -> Purposes]
    /\ step \in [Clients -> TimingSteps]
    /\ question \in [Clients -> Questions \cup {NoQuestion}]
    /\ at \in [Clients -> Times]
    /\ seen \in [Clients -> Intervals \cup {NoInterval}]
    /\ number \in [Clients -> Nat]
    /\ counted \in [Clients -> Nat]
    /\ begun \in 0 .. MaxTimings /\ deaths \in 0 .. MaxDeaths
    /\ overlapped \subseteq Purposes /\ died \subseteq Purposes

\* Whatever overlaps and whatever dies, no time is counted before the start or
\* after the end of the attempt (closeIntervalInternal(): "never count past
\* serverEndTime"), and no question is opened after it.
WithinAttempt ==
    /\ \A i \in DOMAIN logs : logs[i].by = "server" =>
        logs[i].from <= Deadline /\ logs[i].till <= Deadline
    /\ active # NoInterval => active.from <= Deadline

ByServer == {i \in DOMAIN logs : logs[i].by = "server"}

\* As long as no two requests of the attempt run together and none dies, a
\* second is counted for one question only: an interval starts where or after
\* the one before it ended (startQuestionTiming() closes the open question with
\* the time at which it opens the next).
CountedOnce ==
    (overlapped = {} /\ died = {} /\ Busy = {}) =>
        /\ \A i, j \in ByServer : i < j => logs[i].till <= logs[j].from
        /\ active # NoInterval => \A i \in ByServer : logs[i].till <= active.from

\* Under the same condition every visit to a question has a number of its own,
\* higher than those of the visits before it.
VisitsNumbered ==
    (overlapped = {} /\ died = {}) =>
        /\ \A i, j \in ByServer :
            (i < j /\ logs[i].on = logs[j].on) => logs[i].visit < logs[j].visit
        /\ active # NoInterval /\ Busy = {} =>
            \A i \in ByServer : logs[i].on = active.on => logs[i].visit < active.visit

\* Unless another request ran together with the submission or the submission
\* died, no time after it is counted and no question is left open, whatever
\* overlapped or died before.
NothingAfterSubmission ==
    (submittedAt # Never /\ "submit" \notin overlapped \cup died) =>
        /\ \A i \in ByServer : logs[i].till <= submittedAt
        /\ Busy = {} => active = NoInterval

\* The time of an attempt is cut into intervals of the questions, without a
\* second outside of it and none counted twice.
TimeAccounted == WithinAttempt /\ CountedOnce /\ VisitsNumbered /\ NothingAfterSubmission

\* An analysis first asked for after the submission counts every interval the
\* server measured, also when the submission died before it closed the last
\* one, unless a request overlapped with the submission or with the analysis.
AnalysisComplete ==
    (stored # NotMade /\ ~early /\ overlapped \cap ({"submit"} \cup Analyses) = {}) =>
        /\ \A i \in ByServer : i <= stored
        /\ active = NoInterval
=============================================================================
