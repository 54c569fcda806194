------------------------------ MODULE ExamPaper ------------------------------
(***************************************************************************)
(* The question paper of one exam: how an upload replaces it, how it is    *)
(* cached in Redis by version, and what a student in the exam gets to see. *)
(*                                                                         *)
(* The exam was made by the form that schedules it, so its versions have   *)
(* no questions of their own (ExamVersionQuestion) and a snapshot is built *)
(* from the questions of the exam.                                         *)
(*                                                                         *)
(* Papers and versions are numbered.  An import writes paper and version   *)
(* in one transaction; the rows of a paper have ids of their own, so a     *)
(* student whose questions are of one paper finds none of them in the      *)
(* snapshot of another.  Deleting a paper deletes the questions and the    *)
(* answers of every attempt that refer to it.                              *)
(***************************************************************************)
EXTENDS Naturals, FiniteSets

CONSTANTS
    Uploaders,  \* administrators, one request at a time each
    Students,
    MaxUploads, \* bound on the rows of ExamImport
    MaxPapers,  \* bound on papers and versions
    MaxErrors,  \* bound on errors and crashes
    MaxRequests \* bound on the requests that begin

ASSUME PaperAssumption ==
    /\ MaxUploads \in Nat \ {0}
    /\ MaxPapers \in Nat \ {0}
    /\ MaxErrors \in Nat
    /\ MaxRequests \in Nat

VARIABLES
    current,    \* the paper in the rows of ExamQuestion
    version,    \* the highest ExamVersion.versionNumber
    scheduled,  \* ExamSchedule.examVersionId
    upload,     \* ExamImport.status, "NONE" for a row not inserted yet
    aged,       \* the uploads that started more than ten minutes ago
    sound,      \* the uploads whose file is valid
    importJob,  \* the jobs of exam-import-queue; finished ones are kept
    task,       \* the request each administrator is in
    snap,       \* the paper in exam:<exam>:<version>:questions, 0 for no key
    build,      \* the preparation of a snapshot by its worker or an activation
    attempt,    \* Attempt.examVersionId, and the paper of its AttemptQuestions
    visit,      \* the request each student is in
    errors,     \* errors and crashes so far
    requests,   \* requests that may still begin
    reruns,     \* history: imports carried out again after a crash
    doubled,    \* history: an upload was begun beside one that is too old to
                \* count or that has no row yet
    cause,      \* history: why an upload may stay PROCESSING
    blank,      \* the students whose last page of questions was empty
    replaced    \* history: students whose paper was replaced since they began

paperVars == <<current, version, scheduled>>
uploadVars == <<upload, aged, sound, importJob, doubled, cause>>
viewVars == <<attempt, visit, blank, replaced>>
allPaperVars == <<paperVars, uploadVars, task, snap, build, viewVars, errors, requests, reruns>>

Uploads == 1..MaxUploads
PaperNumbers == 1..MaxPapers
UploadStatuses == {"NONE", "PROCESSING", "FAILED", "COMPLETED"}
JobStates == {"none", "waiting", "active", "committed", "failed", "completed"}
Tasks == {"idle", "create", "enqueue", "reset", "requeue"}
Visits == {"idle", "questions", "insert", "ensure", "look", "build", "store", "serve"}
Causes == {"none", "queueError", "workerError", "retried", "crash"}

Processing == {i \in Uploads : upload[i] = "PROCESSING"}
FreeUploads == {i \in Uploads : upload[i] = "NONE"}
LiveJobs == {i \in Uploads : importJob[i] \in {"waiting", "active", "committed"}}
Running == {i \in Uploads : importJob[i] \in {"active", "committed"}}
Newest(S) == CHOOSE i \in S : \A k \in S : k <= i
Oldest(S) == CHOOSE i \in S : \A k \in S : i <= k

NoTask == [do |-> "idle", on |-> 0]
NoVisit == [do |-> "idle", v |-> 0, p |-> 0]
NoBuild == [at |-> "idle", v |-> 0, p |-> 0]
NotStarted == [in |-> FALSE, v |-> 0, p |-> 0]

\* A request begins
Accept == requests > 0 /\ requests' = requests - 1

-----------------------------------------------------------------------------
(* An administrator uploads a paper *)

\* The last import that is PROCESSING, if it is not older than ten minutes, is
\* returned instead of a new one
MaySubmit == \A i \in Processing : (\A k \in Processing : k <= i) => i \in aged

SubmitUpload(u) ==
    /\ Accept
    /\ task[u] = NoTask
    /\ FreeUploads # {}
    /\ MaySubmit
    /\ task' = [task EXCEPT ![u].do = "create"]
    /\ doubled' = \/ doubled
                  \/ Processing \cap aged # {}
                  \/ \E w \in Uploaders \ {u} : task[w].do = "create"
    /\ UNCHANGED <<paperVars, upload, aged, sound, importJob, cause, snap, build, viewVars, errors, reruns>>

\* The file is stored and its row is inserted as PROCESSING
CreateUpload(u, valid) ==
    LET i == Oldest(FreeUploads) IN
    /\ task[u].do = "create" /\ FreeUploads # {}
    /\ upload' = [upload EXCEPT ![i] = "PROCESSING"]
    /\ sound' = IF valid THEN sound \cup {i} ELSE sound
    /\ task' = [task EXCEPT ![u] = [do |-> "enqueue", on |-> i]]
    /\ UNCHANGED <<paperVars, aged, importJob, doubled, cause, snap, build, viewVars, errors, requests, reruns>>

EnqueueUpload(u) ==
    LET i == task[u].on IN
    /\ task[u].do = "enqueue"
    /\ \/ /\ importJob' = [importJob EXCEPT ![i] = "waiting"]
          /\ UNCHANGED <<cause, errors>>
       \/ /\ errors < MaxErrors
          /\ errors' = errors + 1
          /\ cause' = [cause EXCEPT ![i] = "queueError"]
          /\ UNCHANGED importJob
    /\ task' = [task EXCEPT ![u] = NoTask]
    /\ UNCHANGED <<paperVars, upload, aged, sound, doubled, snap, build, viewVars, requests, reruns>>

\* The last FAILED upload is retried: it is read ...
RetryRead(u) ==
    LET failed == {i \in Uploads : upload[i] = "FAILED"} IN
    /\ Accept
    /\ task[u] = NoTask
    /\ failed # {}
    /\ task' = [task EXCEPT ![u] = [do |-> "reset", on |-> Newest(failed)]]
    /\ UNCHANGED <<paperVars, uploadVars, snap, build, viewVars, errors, reruns>>

\* ... set back to PROCESSING ...
RetryReset(u) ==
    LET i == task[u].on IN
    /\ task[u].do = "reset"
    /\ upload' = [upload EXCEPT ![i] = "PROCESSING"]
    /\ aged' = aged \ {i}
    /\ cause' = [cause EXCEPT ![i] = "retried"]
    /\ task' = [task EXCEPT ![u].do = "requeue"]
    /\ UNCHANGED <<paperVars, sound, importJob, doubled, snap, build, viewVars, errors, requests, reruns>>

\* ... and queued under the id of its first job.  That one is kept by the
\* queue, which ignores a second job with its id.
RetryRequeue(u) ==
    LET i == task[u].on IN
    /\ task[u].do = "requeue"
    /\ importJob' = [importJob EXCEPT ![i] = IF @ = "none" THEN "waiting" ELSE @]
    /\ task' = [task EXCEPT ![u] = NoTask]
    /\ UNCHANGED <<paperVars, upload, aged, sound, doubled, cause, snap, build, viewVars, errors, requests, reruns>>

\* Ten minutes pass
Age(i) ==
    /\ upload[i] = "PROCESSING" /\ i \notin aged
    /\ aged' = aged \cup {i}
    /\ UNCHANGED <<paperVars, upload, sound, importJob, doubled, cause, task, snap, build, viewVars, errors, requests, reruns>>

-----------------------------------------------------------------------------
(* The worker of exam-import-queue, one job at a time *)

ImportStart(i) ==
    /\ importJob[i] = "waiting" /\ Running = {}
    /\ importJob' = [importJob EXCEPT ![i] = "active"]
    /\ UNCHANGED <<paperVars, upload, aged, sound, doubled, cause, task, snap, build, viewVars, errors, requests, reruns>>

\* Mutant: the row of an invalid file is not updated
ImportReject_Silent(i) ==
    /\ importJob[i] = "active" /\ i \notin sound
    /\ importJob' = [importJob EXCEPT ![i] = "failed"]
    /\ UNCHANGED <<paperVars, upload, aged, sound, doubled, cause, task, snap, build, viewVars, errors, requests, reruns>>

\* A file with errors: the row is FAILED and so is the job
ImportReject(i) ==
    /\ importJob[i] = "active" /\ i \notin sound
    /\ upload' = [upload EXCEPT ![i] = "FAILED"]
    /\ importJob' = [importJob EXCEPT ![i] = "failed"]
    /\ UNCHANGED <<paperVars, aged, sound, doubled, cause, task, snap, build, viewVars, errors, requests, reruns>>

\* Any other failure, of the file or of the transaction, fails the job and
\* leaves the row as it is
ImportError(i) ==
    /\ importJob[i] = "active" /\ errors < MaxErrors
    /\ errors' = errors + 1
    /\ importJob' = [importJob EXCEPT ![i] = "failed"]
    /\ cause' = [cause EXCEPT ![i] = "workerError"]
    /\ UNCHANGED <<paperVars, upload, aged, sound, doubled, task, snap, build, viewVars, requests, reruns>>

\* The part of the transaction that is the same in its mutants
Committed(i) ==
    /\ importJob[i] = "active" /\ i \in sound
    /\ version < MaxPapers
    /\ upload' = [upload EXCEPT ![i] = "COMPLETED"]
    /\ importJob' = [importJob EXCEPT ![i] = "committed"]
    /\ attempt' = [s \in Students |-> [attempt[s] EXCEPT !.p = 0]]
    /\ replaced' = {s \in Students : attempt[s].in \/ visit[s] # NoVisit}
    /\ reruns' = IF upload[i] = "COMPLETED" THEN reruns + 1 ELSE reruns
    /\ UNCHANGED <<aged, sound, doubled, cause, task, snap, build, visit, blank, requests, errors>>

\* Mutant: the links to the old questions are kept
ImportCommit_OldQuestions(i) ==
    /\ Committed(i)
    /\ version' = version + 1 /\ scheduled' = version + 1 /\ UNCHANGED current

\* The transaction: the questions of the exam are replaced, a version is added
\* and every schedule is moved to it
ImportCommit(i) ==
    /\ Committed(i)
    /\ current' = version + 1 /\ version' = version + 1 /\ scheduled' = version + 1

ImportDone(i) ==
    /\ importJob[i] = "committed"
    /\ importJob' = [importJob EXCEPT ![i] = "completed"]
    /\ UNCHANGED <<paperVars, upload, aged, sound, doubled, cause, task, snap, build, viewVars, errors, requests, reruns>>

-----------------------------------------------------------------------------
(* The cache of a version is prepared: the version and the questions of the *)
(* exam are read, and written under the key of the version                  *)

PrepareStart(v) ==
    /\ Accept
    /\ build = NoBuild
    /\ build' = [at |-> "read", v |-> v, p |-> 0]
    /\ UNCHANGED <<paperVars, uploadVars, task, snap, viewVars, errors, reruns>>

PrepareRead ==
    /\ build.at = "read"
    /\ build' = [build EXCEPT !.at = "write", !.p = current]
    /\ UNCHANGED <<paperVars, uploadVars, task, snap, viewVars, errors, requests, reruns>>

PrepareWrite ==
    /\ build.at = "write"
    /\ snap' = [snap EXCEPT ![build.v] = build.p]
    /\ build' = [build EXCEPT !.at = "verify"]
    /\ UNCHANGED <<paperVars, uploadVars, task, viewVars, errors, requests, reruns>>

\* The key is read back.  Only the number of questions is compared, so another
\* paper found there passes or makes the key be deleted.
PrepareVerify ==
    /\ build.at = "verify"
    /\ \/ UNCHANGED snap
       \/ snap[build.v] # build.p /\ snap' = [snap EXCEPT ![build.v] = 0]
    /\ build' = NoBuild
    /\ UNCHANGED <<paperVars, uploadVars, task, viewVars, errors, requests, reruns>>

\* The keys of every version are deleted when the exam is cancelled; one key
\* goes when it expires
Evict(versions) ==
    /\ Accept
    /\ \E v \in versions : snap[v] # 0
    /\ snap' = [v \in PaperNumbers |-> IF v \in versions THEN 0 ELSE snap[v]]
    /\ UNCHANGED <<paperVars, uploadVars, task, build, viewVars, errors, reruns>>

-----------------------------------------------------------------------------
(* A student starts, comes back and reads the questions *)

\* The access check gives the version of the schedule ...
StartAccess(s) ==
    /\ Accept
    /\ visit[s] = NoVisit /\ ~attempt[s].in
    /\ visit' = [visit EXCEPT ![s] = [do |-> "questions", v |-> scheduled, p |-> 0]]
    /\ replaced' = replaced \ {s}
    /\ UNCHANGED <<paperVars, uploadVars, task, snap, build, attempt, blank, errors, reruns>>

\* ... the questions are read and shuffled ...
StartRead(s) ==
    /\ visit[s].do = "questions"
    /\ visit' = [visit EXCEPT ![s].do = "insert", ![s].p = current]
    /\ UNCHANGED <<paperVars, uploadVars, task, snap, build, attempt, blank, replaced, errors, requests, reruns>>

\* ... and inserted with the attempt; a question that is gone fails it all
StartInsert(s) ==
    /\ visit[s].do = "insert"
    /\ attempt' = IF visit[s].p = current
                  THEN [attempt EXCEPT ![s] = [in |-> TRUE, v |-> visit[s].v, p |-> visit[s].p]]
                  ELSE attempt
    /\ visit' = [visit EXCEPT ![s] = NoVisit]
    /\ UNCHANGED <<paperVars, uploadVars, task, snap, build, blank, replaced, errors, requests, reruns>>

\* A running attempt is resumed: it is bound to the version of the schedule
Resume(s) ==
    /\ Accept
    /\ visit[s] = NoVisit /\ attempt[s].in
    /\ attempt' = [attempt EXCEPT ![s].v = scheduled]
    /\ visit' = [visit EXCEPT ![s] = [do |-> "ensure", v |-> scheduled, p |-> 0]]
    /\ replaced' = replaced \ {s}
    /\ blank' = blank \ {s}
    /\ UNCHANGED <<paperVars, uploadVars, task, snap, build, errors, reruns>>

ViewQuestions(s) ==
    /\ Accept
    /\ visit[s] = NoVisit /\ attempt[s].in
    /\ visit' = [visit EXCEPT ![s] = [do |-> "ensure", v |-> attempt[s].v, p |-> 0]]
    /\ UNCHANGED <<paperVars, uploadVars, task, snap, build, attempt, blank, replaced, errors, reruns>>

\* An attempt without questions gets those of the exam
Ensure(s) ==
    /\ visit[s].do = "ensure"
    /\ attempt' = [attempt EXCEPT ![s].p = IF @ = 0 THEN current ELSE @]
    /\ visit' = [visit EXCEPT ![s].do = "look"]
    /\ UNCHANGED <<paperVars, uploadVars, task, snap, build, blank, replaced, errors, requests, reruns>>

\* The snapshot of the version of the attempt, rebuilt when it is missing
Look(s) ==
    /\ visit[s].do = "look"
    /\ visit' = [visit EXCEPT ![s].do = IF snap[visit[s].v] # 0 THEN "serve" ELSE "build",
                              ![s].p = snap[visit[s].v]]
    /\ UNCHANGED <<paperVars, uploadVars, task, snap, build, attempt, blank, replaced, errors, requests, reruns>>

Rebuild(s) ==
    /\ visit[s].do = "build"
    /\ visit' = [visit EXCEPT ![s].do = "store", ![s].p = current]
    /\ UNCHANGED <<paperVars, uploadVars, task, snap, build, attempt, blank, replaced, errors, requests, reruns>>

Store(s) ==
    /\ visit[s].do = "store"
    /\ snap' = [snap EXCEPT ![visit[s].v] = visit[s].p]
    /\ visit' = [visit EXCEPT ![s].do = "serve"]
    /\ UNCHANGED <<paperVars, uploadVars, task, build, attempt, blank, replaced, errors, requests, reruns>>

\* Each question of the attempt is looked up in the snapshot; one that is not
\* there is left out, and an empty list does not make the database be asked
Serve(s) ==
    /\ visit[s].do = "serve"
    /\ blank' = IF attempt[s].p # 0 /\ visit[s].p = attempt[s].p THEN blank \ {s}
                ELSE blank \cup {s}
    /\ visit' = [visit EXCEPT ![s] = NoVisit]
    /\ UNCHANGED <<paperVars, uploadVars, task, snap, build, attempt, replaced, errors, requests, reruns>>

\* The process dies; a job the worker held is taken up again from its start
ServerCrash ==
    /\ errors < MaxErrors
    /\ errors' = errors + 1
    /\ task' = [u \in Uploaders |-> NoTask]
    /\ visit' = [s \in Students |-> NoVisit]
    /\ build' = NoBuild
    /\ importJob' = [i \in Uploads |-> IF i \in Running THEN "waiting" ELSE importJob[i]]
    /\ cause' = [i \in Uploads |->
                    IF \E u \in Uploaders : task[u] = [do |-> "enqueue", on |-> i]
                    THEN "crash" ELSE cause[i]]
    /\ UNCHANGED <<paperVars, upload, aged, sound, doubled, snap, attempt, blank, replaced, requests, reruns>>

-----------------------------------------------------------------------------
PaperInit ==
    /\ current = 1 /\ version = 1 /\ scheduled = 1
    /\ upload = [i \in Uploads |-> "NONE"]
    /\ aged = {} /\ sound = {}
    /\ importJob = [i \in Uploads |-> "none"]
    /\ task = [u \in Uploaders |-> NoTask]
    /\ snap = [v \in PaperNumbers |-> 0]
    /\ build = NoBuild
    /\ attempt = [s \in Students |-> NotStarted]
    /\ visit = [s \in Students |-> NoVisit]
    /\ errors = 0 /\ requests = MaxRequests /\ reruns = 0 /\ doubled = FALSE
    /\ cause = [i \in Uploads |-> "none"]
    /\ blank = {} /\ replaced = {}

UploaderNext(u) ==
    \/ SubmitUpload(u) \/ (\E valid \in BOOLEAN : CreateUpload(u, valid)) \/ EnqueueUpload(u)
    \/ RetryRead(u) \/ RetryReset(u) \/ RetryRequeue(u)

ImportNext(i) ==
    \/ Age(i) \/ ImportStart(i) \/ ImportReject(i) \/ ImportError(i)
    \/ ImportCommit(i) \/ ImportDone(i)

CacheNext ==
    \/ \E v \in 1..version : PrepareStart(v)
    \/ PrepareRead \/ PrepareWrite \/ PrepareVerify
    \/ Evict(PaperNumbers) \/ (\E v \in PaperNumbers : Evict({v}))

StudentNext(s) ==
    \/ StartAccess(s) \/ StartRead(s) \/ StartInsert(s)
    \/ Resume(s) \/ ViewQuestions(s) \/ Ensure(s)
    \/ Look(s) \/ Rebuild(s) \/ Store(s) \/ Serve(s)

PaperNext ==
    \/ \E u \in Uploaders : UploaderNext(u)
    \/ \E i \in Uploads : ImportNext(i)
    \/ CacheNext
    \/ \E s \in Students : StudentNext(s)
    \/ ServerCrash

PaperSpec == PaperInit /\ [][PaperNext]_allPaperVars

-----------------------------------------------------------------------------
\* Every variable has its type
PaperTypeOK ==
    /\ current \in PaperNumbers /\ version \in PaperNumbers /\ scheduled \in PaperNumbers
    /\ upload \in [Uploads -> UploadStatuses]
    /\ aged \subseteq Uploads /\ sound \subseteq Uploads
    /\ importJob \in [Uploads -> JobStates]
    /\ task \in [Uploaders -> [do : Tasks, on : 0..MaxUploads]]
    /\ snap \in [PaperNumbers -> 0..MaxPapers]
    /\ build \in [at : {"idle", "read", "write", "verify"}, v : 0..MaxPapers, p : 0..MaxPapers]
    /\ attempt \in [Students -> [in : BOOLEAN, v : 0..MaxPapers, p : 0..MaxPapers]]
    /\ visit \in [Students -> [do : Visits, v : 0..MaxPapers, p : 0..MaxPapers]]
    /\ errors \in 0..MaxErrors /\ requests \in 0..MaxRequests /\ reruns \in 0..MaxErrors /\ doubled \in BOOLEAN
    /\ cause \in [Uploads -> Causes]
    /\ blank \subseteq Students /\ replaced \subseteq Students

\* The snapshot kept under a version never holds a paper older than the
\* version.  It may hold a newer one: a rebuild reads the questions of the exam,
\* not of the version, and the check of what was written counts them only.
SnapshotNotOlder == \A v \in PaperNumbers : snap[v] # 0 => snap[v] >= v

\* A student gets an empty page of questions only when an import replaced the
\* paper after the attempt was started or last resumed
BlankOnlyReplaced == blank \subseteq replaced

\* What a student reads of the paper: no older one than the version says, and
\* nothing only for a reason.
PaperRead == SnapshotNotOlder /\ BlankOnlyReplaced

\* An upload that is PROCESSING has a job, or a request about to add it, or one
\* of the accidents that leave it there: the queue or the worker failed, the
\* process died, or it was retried, which the queue ignores
UploadTracked ==
    \A i \in Processing :
        \/ i \in LiveJobs
        \/ \E u \in Uploaders : task[u] = [do |-> "enqueue", on |-> i]
        \/ cause[i] # "none"

\* Two imports of the exam that are not completed are under way only when a
\* request was checked before the row of another was inserted, or the first had
\* run for ten minutes
OneImport ==
    ~doubled => Cardinality({i \in LiveJobs : upload[i] # "COMPLETED"}) <= 1

\* Every completed upload made one version, except that one whose worker died
\* after the transaction is carried out again and makes a second
OneVersionPerUpload ==
    version = 1 + Cardinality({i \in Uploads : upload[i] = "COMPLETED"}) + reruns

\* Every upload is carried out once, one at a time, and comes to an end.
ImportsAccounted == UploadTracked /\ OneImport /\ OneVersionPerUpload
=============================================================================
