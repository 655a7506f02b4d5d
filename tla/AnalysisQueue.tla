----------------------------- MODULE AnalysisQueue -----------------------------
(*******************************************************************************)
(* The report analysis queue: backend/app/services/analysis_service.py, with   *)
(* the worker script that drives it.                                           *)
(*                                                                             *)
(* A finalized report upload has one report_analysis_jobs row.  Workers lease  *)
(* jobs, heartbeat, PUT result files through presigned URLs and finalize or    *)
(* fail; administrators cancel and retry jobs and disable workers; the beat    *)
(* task reaps lapsed leases.  Every HTTP request is a transaction in two       *)
(* steps (see UnitOfWork): Begin takes the snapshot and evaluates the guards   *)
(* that are plain SELECTs, Commit evaluates the guards that lock the latest    *)
(* row and flushes.  Slots bounds how many requests are open at once; with one *)
(* slot requests never overlap.                                                *)
(*******************************************************************************)
EXTENDS Naturals, FiniteSets, UnitOfWork

CONSTANTS
    Jobs,           \* report uploads, each with at most one analysis job
    Workers,        \* analysis_workers rows
    Procs,          \* running copies of the worker script
    CredOf,         \* [Procs -> Workers]: the worker token each copy was given
    Slots,          \* requests the API serves at the same time
    None,           \* SQL NULL, and "nobody"
    MaxAttempts,    \* report_analysis_jobs.max_attempts
    MaxRetries,     \* bound: administrator retries of one job
    ResetOptions,   \* the reset_attempts values administrators send
    Disableable,    \* workers an administrator may disable
    Repeatable,     \* reports whose upload the reporter finalizes again
    Ingestible      \* reports an administrator may ingest without the queue

ASSUME QueueAssumption ==
    /\ CredOf \in [Procs -> Workers]
    /\ None \notin Jobs \cup Workers \cup Procs
    /\ MaxAttempts \in Nat \ {0}
    /\ MaxRetries \in Nat
    /\ ResetOptions \subseteq BOOLEAN
    /\ Disableable \subseteq Workers
    /\ Repeatable \subseteq Jobs
    /\ Ingestible \subseteq Jobs

VARIABLES
    db,       \* [Jobs -> Row]: the rows of each report, columns of one record
    worker,   \* [Workers -> {"active", "disabled"}]
    object,   \* [Jobs -> [Files -> Nat]]: whose content each object-store key holds
    req,      \* [Slots -> Request]: the requests the API is serving
    proc,     \* [Procs -> local state of the worker script]
    grants,   \* [Jobs -> Nat]: leases ever committed; the n-th lease writes content n
    retries   \* [Jobs -> Nat]: retry requests sent so far, bounded by MaxRetries

vars == <<db, worker, object, req, proc, grants, retries>>

-------------------------------------------------------------------------------
(* Rows, requests and worker processes *)

Terminal == {"succeeded", "failed", "cancelled"}
Active   == {"leased", "running"}

\* Aux stands for the four result files whose names carry no attempt number;
\* file n >= 1 is the analysis-result file of attempt n.
Aux   == 0
Files == 0 .. MaxAttempts

\* Faults: definitions of the form Fault... are not part of the model.  Each is a
\* plausible mistake in the definition that follows it, and PROJECT.json names the
\* property that fails when the definition is replaced by it.
FaultCanonicalFile(attempt) == 1
FaultNextFile(attempt)      == attempt + 1
\* _attempt_result_filename: the file the lease of the given attempt writes.
ResultFile(attempt) == attempt

\* lease_expires_at is kept as its relation to the clock: NULL, in the future, past.
Row == [status     : Terminal \cup Active \cup {"absent", "pending"},
        worker     : Workers \cup {None},
        lease      : {"none", "live", "lapsed"},
        attempts   : Nat,
        key        : Files,                  \* result_object_key; 0 is NULL
        sha        : Nat,                    \* result_sha256; 0 is NULL
        session    : {"open", "uploaded", "ingesting", "succeeded", "failed"},
        collection : {"pending", "running", "succeeded", "partial_failed",
                      "failed", "cancelled"},
        files      : [Files -> Nat]]         \* sha256 of each artifact row; 0 is no row

NewRow == [status |-> "absent", worker |-> None, lease |-> "none", attempts |-> 0,
           key |-> 0, sha |-> 0, session |-> "open", collection |-> "pending",
           files |-> [f \in Files |-> 0]]

\* A worker process: where the script is and the lease it works under.
Stage == {"idle", "leasing", "leased", "beating", "working", "uploaded",
          "finalizing", "failing", "reporting"}
ProcState == [stage : Stage, job : Jobs \cup {None}, key : Files, grant : Nat]
IdleProc  == [stage |-> "idle", job |-> None, key |-> 0, grant |-> 0]

\* An open request.  by is the process waiting for the answer, if it still is.
Op == {"none", "lease", "heartbeat", "finalize", "accept", "reject", "fail",
       "cancel", "retry", "disable", "refinalize"}
Request == [op : Op, by : Procs \cup {None}, as : Workers \cup {None},
            job : Jobs \cup {None}, key : Files, grant : Nat, flag : BOOLEAN,
            snap : [Jobs -> Row] \cup {None}]
NoRequest == [op |-> "none", by |-> None, as |-> None, job |-> None, key |-> 0,
              grant |-> 0, flag |-> FALSE, snap |-> None]

TypeOK ==
    /\ db \in [Jobs -> Row]
    /\ worker \in [Workers -> {"active", "disabled"}]
    /\ object \in [Jobs -> [Files -> Nat]]
    /\ req \in [Slots -> Request]
    /\ proc \in [Procs -> ProcState]
    /\ grants \in [Jobs -> Nat]
    /\ retries \in [Jobs -> Nat]

Init ==
    /\ db = [j \in Jobs |-> NewRow]
    /\ worker = [w \in Workers |-> "active"]
    /\ object = [j \in Jobs |-> [f \in Files |-> 0]]
    /\ req = [s \in Slots |-> NoRequest]
    /\ proc = [p \in Procs |-> IdleProc]
    /\ grants = [j \in Jobs |-> 0]
    /\ retries = [j \in Jobs |-> 0]
-------------------------------------------------------------------------------
(* Row updates shared by several handlers *)

FaultStealLease(r) == r.attempts < MaxAttempts /\ r.status \in Active \cup {"pending"}
FaultPendingOnly(r) == r.attempts < MaxAttempts /\ r.status = "pending"

\* A job may be leased while attempts remain, if it waits or its lease lapsed.
Leasable(r) ==
    /\ r.attempts < MaxAttempts
    /\ \/ r.status = "pending"
       \/ r.status \in Active /\ r.lease = "lapsed"

FaultKeepStatus(r) ==
    [r EXCEPT !.worker = None, !.lease = "none", !.session = "uploaded", !.collection = "pending"]
FaultJobOnly(r) == [r EXCEPT !.status = "pending", !.worker = None, !.lease = "none"]

\* _release_expired_analysis_job with _mark_session_pending_retry.
Requeued(r) ==
    [r EXCEPT !.status = "pending", !.worker = None, !.lease = "none",
              !.session = "uploaded", !.collection = "pending"]

\* _prepare_analysis_job_for_retry with _mark_session_pending_retry.
Restarted(r, reset) ==
    [Requeued(r) EXCEPT !.sha = 0, !.attempts = IF reset THEN 0 ELSE @]

\* _mark_analysis_job_failed with _mark_session_failed.
Failed(r) ==
    [r EXCEPT !.status = "failed", !.worker = None, !.lease = "none",
              !.session = "failed", !.collection = "failed"]

\* What happens to a job taken from its worker without an answer.
Recovered(r) == IF r.attempts < MaxAttempts THEN Restarted(r, FALSE) ELSE Failed(r)

-------------------------------------------------------------------------------
(* Requests *)

\* The rows a request reads before its first lock; the others are left blank.
Snapshot(read) == [j \in Jobs |-> IF j \in read THEN db[j] ELSE NewRow]

Open(s, q) == req[s] = NoRequest /\ req' = [req EXCEPT ![s] = q]
Close(s)   == req' = [req EXCEPT ![s] = NoRequest]

\* The process that sent q gets its answer and moves on to st.
Answer(q, st) == IF q.by = None THEN proc ELSE [proc EXCEPT ![q.by] = st]
AtStage(q, stage) == [stage |-> stage, job |-> q.job, key |-> q.key, grant |-> q.grant]

\* Process p stops waiting for its requests; the API serves them all the same.
Detach(p) == [s \in Slots |-> IF req[s].by = p THEN [req[s] EXCEPT !.by = None] ELSE req[s]]

\* A row another open request may hold locked, so that SKIP LOCKED passes over it.
Contended(j, s) ==
    \E t \in Slots \ {s} : req[t].job = j \/ req[t].op \in {"lease", "disable"}

FaultAdmitByStatus(p) == worker[CredOf[p]] = "active" /\ db[proc[p].job].status \in Active
FaultAdmitByWorker(p) == worker[CredOf[p]] = "active" /\ db[proc[p].job].worker = CredOf[p]

\* authenticate_analysis_worker_token and _get_worker_job, on the snapshot.
Admitted(p) ==
    LET r == db[proc[p].job] IN
    /\ worker[CredOf[p]] = "active"
    /\ r.worker = CredOf[p]
    /\ r.status \in Active

\* A request of process p about the job it works on.
CallOf(p, op, flag) ==
    [op |-> op, by |-> p, as |-> CredOf[p], job |-> proc[p].job, key |-> proc[p].key,
     grant |-> proc[p].grant, flag |-> flag, snap |-> Snapshot({proc[p].job})]

\* A request about all jobs: a worker asks for one, or worker w is disabled.
QueueCall(op, p, w) ==
    [op |-> op, by |-> p, as |-> w, job |-> None, key |-> 0, grant |-> 0,
     flag |-> FALSE, snap |-> Snapshot(Jobs)]

\* finalize_report_upload_session goes on unless the report is being or was ingested.
Finalizable(j) == db[j].session \notin {"ingesting", "succeeded"}

\* The upload is finalized; create_report_analysis_job_for_session adds its job.
Enqueue(j) ==
    /\ db[j].status = "absent"
    /\ Finalizable(j)
    /\ db' = [db EXCEPT ![j].status = "pending", ![j].session = "uploaded"]
    /\ UNCHANGED <<worker, object, req, proc, grants, retries>>

BeginLease(p, s) ==
    /\ proc[p].stage = "idle"
    /\ worker[CredOf[p]] = "active"
    /\ Open(s, QueueCall("lease", p, CredOf[p]))
    /\ proc' = [proc EXCEPT ![p].stage = "leasing"]
    /\ UNCHANGED <<db, worker, object, grants, retries>>

FaultStaleAttempt(q, j) == q.snap[j].attempts + 1

\* attempts + 1, on the row that was read FOR UPDATE.
NextAttempt(q, j) == db[j].attempts + 1

\* The job row is read FOR UPDATE, its session and collection job are not.
CommitLease(s, j) ==
    LET q       == req[s]
        loaded  == [db[j] EXCEPT !.session = q.snap[j].session,
                                 !.collection = q.snap[j].collection]
        attempt == NextAttempt(q, j)
        leased  == [loaded EXCEPT !.status = "leased", !.worker = q.as, !.lease = "live",
                                  !.attempts = attempt, !.key = ResultFile(attempt),
                                  !.session = "ingesting", !.collection = "running"]
    IN
    /\ q.op = "lease"
    /\ Leasable(db[j])
    /\ db' = [db EXCEPT ![j] = Flush(db[j], loaded, leased)]
    /\ grants' = [grants EXCEPT ![j] = @ + 1]
    /\ proc' = Answer(q, [stage |-> "leased", job |-> j,
                          key |-> ResultFile(attempt), grant |-> grants[j] + 1])
    /\ Close(s)
    /\ UNCHANGED <<worker, object, retries>>

\* Nothing to lease: every leasable row is locked by somebody else.
NothingToLease(s) ==
    /\ req[s].op = "lease"
    /\ \A j \in Jobs : Leasable(db[j]) => Contended(j, s)
    /\ proc' = Answer(req[s], IdleProc)
    /\ Close(s)
    /\ UNCHANGED <<db, worker, object, grants, retries>>

BeginHeartbeat(p, s) ==
    /\ proc[p].stage = "leased"
    /\ Admitted(p)
    /\ Open(s, CallOf(p, "heartbeat", FALSE))
    /\ proc' = [proc EXCEPT ![p].stage = "beating"]
    /\ UNCHANGED <<db, worker, object, grants, retries>>

\* The new lease_expires_at is a fresh timestamp, so it is always written.
CommitHeartbeat(s) ==
    LET q       == req[s]
        loaded  == q.snap[q.job]
        flushed == Flush(db[q.job], loaded, [loaded EXCEPT !.status = "running"])
    IN
    /\ q.op = "heartbeat"
    /\ db' = [db EXCEPT ![q.job] = [flushed EXCEPT !.lease = "live"]]
    /\ proc' = Answer(q, AtStage(q, "working"))
    /\ Close(s)
    /\ UNCHANGED <<worker, object, grants, retries>>

\* finalize_analysis_job up to the first read of the object store.
BeginFinalize(p, s) ==
    /\ proc[p].stage = "uploaded"
    /\ Admitted(p)
    /\ Open(s, CallOf(p, "finalize", FALSE))
    /\ proc' = [proc EXCEPT ![p].stage = "finalizing"]
    /\ UNCHANGED <<db, worker, object, grants, retries>>

\* The objects hold what the worker says it uploaded.
HashesMatch(q) == object[q.job][q.key] = q.grant /\ object[q.job][Aux] = q.grant

\* The objects are hashed and their content is validated, which may go either way.
VerifyFinalize(s) ==
    /\ req[s].op = "finalize"
    /\ HashesMatch(req[s])
    /\ \E verdict \in {"accept", "reject"} : req' = [req EXCEPT ![s].op = verdict]
    /\ UNCHANGED <<db, worker, object, proc, grants, retries>>

\* A hash differs from the payload: 422, everything rolled back.
MismatchFinalize(s) ==
    /\ req[s].op = "finalize"
    /\ ~HashesMatch(req[s])
    /\ proc' = Answer(req[s], AtStage(req[s], "failing"))
    /\ Close(s)
    /\ UNCHANGED <<db, worker, object, grants, retries>>

\* uq_analysis_result_artifacts_job_object: a row this request wants to insert
\* because its snapshot has none was inserted by another one meanwhile.
DuplicateArtifact(q) ==
    \E f \in {Aux, q.key} : q.snap[q.job].files[f] = 0 /\ db[q.job].files[f] # 0

\* The flush of a finalize: the artifact rows, then the other changed columns.
FlushResult(q, new) ==
    [Flush(db[q.job], q.snap[q.job], new) EXCEPT
        !.files = [f \in Files |-> IF f \in {Aux, q.key} THEN q.grant ELSE db[q.job].files[f]]]

\* The result is accepted; outcome is what became of its materialization.
CommitAccept(s, outcome) ==
    LET q == req[s] IN
    /\ q.op = "accept"
    /\ ~DuplicateArtifact(q)
    /\ db' = [db EXCEPT ![q.job] =
                 FlushResult(q, [q.snap[q.job] EXCEPT
                     !.status = "succeeded", !.key = q.key, !.sha = q.grant,
                     !.lease = "none", !.session = "succeeded", !.collection = outcome])]
    /\ proc' = Answer(q, IdleProc)
    /\ Close(s)
    /\ UNCHANGED <<worker, object, grants, retries>>

\* _fail_analysis_finalize and the commit before the 422 is raised.
CommitReject(s) ==
    LET q == req[s] IN
    /\ q.op = "reject"
    /\ ~DuplicateArtifact(q)
    /\ db' = [db EXCEPT ![q.job] = FlushResult(q, Failed(q.snap[q.job]))]
    /\ proc' = Answer(q, AtStage(q, "failing"))
    /\ Close(s)
    /\ UNCHANGED <<worker, object, grants, retries>>

\* IntegrityError: 500, everything rolled back.
AbortFinalize(s) ==
    /\ req[s].op \in {"accept", "reject"}
    /\ DuplicateArtifact(req[s])
    /\ proc' = Answer(req[s], AtStage(req[s], "failing"))
    /\ Close(s)
    /\ UNCHANGED <<db, worker, object, grants, retries>>

BeginFail(p, s, retryable) ==
    /\ proc[p].stage = "failing"
    /\ Admitted(p)
    /\ Open(s, CallOf(p, "fail", retryable))
    /\ proc' = [proc EXCEPT ![p].stage = "reporting"]
    /\ UNCHANGED <<db, worker, object, grants, retries>>

CommitFail(s) ==
    LET q      == req[s]
        loaded == q.snap[q.job]
        failed == IF q.flag /\ loaded.attempts < MaxAttempts
                  THEN Requeued(loaded) ELSE Failed(loaded)
    IN
    /\ q.op = "fail"
    /\ db' = [db EXCEPT ![q.job] = Flush(@, loaded, failed)]
    /\ proc' = Answer(q, IdleProc)
    /\ Close(s)
    /\ UNCHANGED <<worker, object, grants, retries>>

\* 401, 403 or 409: the script reports the failure; when that is refused too it exits.
Refused(p) ==
    /\ proc[p].stage \in {"leased", "uploaded", "failing"}
    /\ ~Admitted(p)
    /\ proc' = [proc EXCEPT ![p] =
                   IF @.stage = "failing" THEN IdleProc ELSE [@ EXCEPT !.stage = "failing"]]
    /\ UNCHANGED <<db, worker, object, req, grants, retries>>

-------------------------------------------------------------------------------
(* Administrators, reporters that repeat a call, and the beat task *)

AdminCall(op, j, flag) ==
    [op |-> op, by |-> None, as |-> None, job |-> j, key |-> 0, grant |-> 0,
     flag |-> flag, snap |-> Snapshot({j})]

\* The reporter finalizes the upload again: the job it has is left as it is, and the
\* session is uploaded once more, even if that job failed or was cancelled.
BeginRefinalize(j, s) ==
    /\ db[j].status # "absent"
    /\ Finalizable(j)
    /\ Open(s, AdminCall("refinalize", j, FALSE))
    /\ UNCHANGED <<db, worker, object, proc, grants, retries>>

CommitRefinalize(s) ==
    LET q == req[s] IN
    /\ q.op = "refinalize"
    /\ db' = [db EXCEPT ![q.job] =
                 Flush(@, q.snap[q.job], [q.snap[q.job] EXCEPT !.session = "uploaded"])]
    /\ Close(s)
    /\ UNCHANGED <<worker, object, proc, grants, retries>>

\* ingest_report_upload_session, at any status of the job.  Both statuses are written
\* twice, so they are written whatever was read; an error is committed as a failure.
Ingest(j, s, outcome) ==
    /\ req[s] = NoRequest
    /\ db' = [db EXCEPT ![j].session = outcome, ![j].collection = outcome]
    /\ UNCHANGED <<worker, object, req, proc, grants, retries>>

BeginCancel(j, s) ==
    /\ db[j].status \notin Terminal \cup {"absent"}
    /\ Open(s, AdminCall("cancel", j, FALSE))
    /\ UNCHANGED <<db, worker, object, proc, grants, retries>>

CommitCancel(s) ==
    LET q == req[s] IN
    /\ q.op = "cancel"
    /\ db' = [db EXCEPT ![q.job] =
                 Flush(@, q.snap[q.job], [Failed(q.snap[q.job]) EXCEPT
                                            !.status = "cancelled", !.collection = "cancelled"])]
    /\ Close(s)
    /\ UNCHANGED <<worker, object, proc, grants, retries>>

BeginRetry(j, s, reset) ==
    /\ retries[j] < MaxRetries
    /\ db[j].status \in {"failed", "cancelled"}
    /\ Open(s, AdminCall("retry", j, reset))
    /\ retries' = [retries EXCEPT ![j] = @ + 1]
    /\ UNCHANGED <<db, worker, object, proc, grants>>

CommitRetry(s) ==
    LET q == req[s] IN
    /\ q.op = "retry"
    /\ db' = [db EXCEPT ![q.job] = Flush(@, q.snap[q.job], Restarted(q.snap[q.job], q.flag))]
    /\ Close(s)
    /\ UNCHANGED <<worker, object, proc, grants, retries>>

BeginDisable(w, s) ==
    /\ worker[w] = "active"
    /\ Open(s, QueueCall("disable", None, w))
    /\ UNCHANGED <<db, worker, object, proc, grants, retries>>

CommitDisable(s) ==
    LET q       == req[s]
        held(j) == q.snap[j].worker = q.as /\ q.snap[j].status \in Active
    IN
    /\ q.op = "disable"
    /\ worker' = [worker EXCEPT ![q.as] = "disabled"]
    /\ db' = [j \in Jobs |-> IF held(j) THEN Flush(db[j], q.snap[j], Recovered(q.snap[j]))
                              ELSE db[j]]
    /\ Close(s)
    /\ UNCHANGED <<object, proc, grants, retries>>

FaultExpiredRunning == {j \in Jobs : db[j].status = "running" /\ db[j].lease = "lapsed"}

Expired == {j \in Jobs : db[j].status \in Active /\ db[j].lease = "lapsed"}

\* reap_expired_analysis_jobs: the first statement of its transaction is the
\* locking SELECT, so everything it reads is current.  It needs a slot as well.
Reap(batch, s) ==
    /\ req[s] = NoRequest
    /\ batch # {}
    /\ \A j \in Expired \ batch : Contended(j, s)
    /\ db' = [j \in Jobs |->
                 IF j \notin batch THEN db[j]
                 ELSE IF db[j].attempts >= MaxAttempts THEN Failed(db[j]) ELSE Requeued(db[j])]
    /\ UNCHANGED <<worker, object, req, proc, grants, retries>>

-------------------------------------------------------------------------------
(* Time, and the worker script between two requests *)

\* lease_expires_at passes.
Lapse(j) ==
    /\ db[j].status \in Active
    /\ db[j].lease = "live"
    /\ db' = [db EXCEPT ![j].lease = "lapsed"]
    /\ UNCHANGED <<worker, object, req, proc, grants, retries>>

\* The script PUTs the result file of its attempt and the four files that share
\* their names with every other attempt (_build_result_uploads).
Upload(p) ==
    LET st == proc[p] IN
    /\ st.stage = "working"
    /\ object' = [object EXCEPT ![st.job] =
                     [f \in Files |-> IF f \in {Aux, st.key} THEN st.grant ELSE @[f]]]
    /\ proc' = [proc EXCEPT ![p].stage = "uploaded"]
    /\ UNCHANGED <<db, worker, req, grants, retries>>

\* An exception or a client timeout: the script goes on to report a failure,
\* without waiting for a request that may still be served.
GiveUp(p) ==
    /\ proc[p].stage \in {"leased", "beating", "working", "finalizing"}
    /\ proc' = [proc EXCEPT ![p].stage = "failing"]
    /\ req' = Detach(p)
    /\ UNCHANGED <<db, worker, object, grants, retries>>

\* The process dies, or times out while leasing or reporting, and is restarted.
Crash(p) ==
    /\ proc[p].stage # "idle"
    /\ proc' = [proc EXCEPT ![p] = IdleProc]
    /\ req' = Detach(p)
    /\ UNCHANGED <<db, worker, object, grants, retries>>

-------------------------------------------------------------------------------
Outcomes == {"succeeded", "partial_failed", "failed"}

Serve(s) ==
    \/ \E j \in Jobs : CommitLease(s, j)
    \/ NothingToLease(s)
    \/ CommitHeartbeat(s)
    \/ VerifyFinalize(s)
    \/ MismatchFinalize(s)
    \/ \E outcome \in Outcomes : CommitAccept(s, outcome)
    \/ CommitReject(s)
    \/ AbortFinalize(s)
    \/ CommitFail(s)
    \/ CommitCancel(s)
    \/ CommitRetry(s)
    \/ CommitDisable(s)
    \/ CommitRefinalize(s)

Administer(s) ==
    \/ \E j \in Jobs : BeginCancel(j, s)
    \/ \E j \in Jobs, reset \in ResetOptions : BeginRetry(j, s, reset)
    \/ \E w \in Disableable : BeginDisable(w, s)
    \/ \E j \in Repeatable : BeginRefinalize(j, s)

IngestSome(s) == \E j \in Ingestible, outcome \in {"succeeded", "failed"} : Ingest(j, s, outcome)

ReapSome(s) == \E batch \in SUBSET Expired : Reap(batch, s)

PollFor(p) == \E s \in Slots : BeginLease(p, s)

\* The steps of the script once it holds a job.
Work(p) ==
    \/ \E s \in Slots : BeginHeartbeat(p, s)
    \/ Upload(p)
    \/ \E s \in Slots : BeginFinalize(p, s)
    \/ \E s \in Slots, retryable \in BOOLEAN : BeginFail(p, s, retryable)
    \/ Refused(p)
    \/ GiveUp(p)

Next ==
    \/ \E j \in Jobs : Enqueue(j) \/ Lapse(j)
    \/ \E s \in Slots : Serve(s) \/ Administer(s) \/ IngestSome(s) \/ ReapSome(s)
    \/ \E p \in Procs : PollFor(p) \/ Work(p) \/ Crash(p)

Spec == Init /\ [][Next]_vars
-------------------------------------------------------------------------------
(* Safety under any overlap of requests *)

\* A leased or running job always has a lease_expires_at, whatever requests
\* overlapped to produce the row.  Both recovery paths, the reaper and the inline
\* pickup of lease_next_analysis_job, select on lease_expires_at < now, which a
\* NULL never satisfies: such a row could never be recovered.
NoStrandedLease ==
    \A j \in Jobs : db[j].status \in Active => db[j].lease # "none"

\* As long as no administrator resets the counter, attempts is exactly the number
\* of leases ever committed: no overlapping write loses an increment.
AttemptsCounted ==
    TRUE \notin ResetOptions => \A j \in Jobs : db[j].attempts = grants[j]

\* Two workers that hold presigned URLs from different leases of one job never
\* write the same analysis-result object.
DistinctResultKeys ==
    \A p, q \in Procs :
        /\ proc[p].job # None
        /\ proc[p].job = proc[q].job
        /\ proc[p].grant # proc[q].grant
        => proc[p].key # proc[q].key

\* A live lease is never handed to another worker: it ends by an answer of its
\* holder, by an administrator, or by lapsing first.
LiveLeaseKept ==
    [][\A j \in Jobs :
         db[j].status \in Active /\ db[j].lease = "live"
         => db'[j].worker \in {db[j].worker, None}]_vars

-------------------------------------------------------------------------------
(* Safety when requests do not overlap *)

\* What the queue leaves in the upload session and the collection job of a job; the
\* session of a job that failed or was cancelled may have been finalized again.
AsQueued(r) ==
    CASE r.status = "absent"    -> r.session = "open"      /\ r.collection = "pending"
      [] r.status = "pending"   -> r.session = "uploaded"  /\ r.collection = "pending"
      [] r.status \in Active    -> r.session = "ingesting" /\ r.collection = "running"
      [] r.status = "succeeded" -> r.session = "succeeded" /\ r.collection \in Outcomes
      [] r.status = "failed"    -> r.session \in {"failed", "uploaded"} /\ r.collection = "failed"
      [] r.status = "cancelled" -> r.session \in {"failed", "uploaded"} /\ r.collection = "cancelled"

\* What an ingest past the queue leaves there, perhaps finalized again since.
AsIngested(r) ==
    \/ r.session = r.collection /\ r.session \in {"succeeded", "failed"}
    \/ r.session = "uploaded" /\ r.collection = "failed"

\* The states of a job, of its upload session and of its collection job belong
\* together, through every lease, answer, cancellation, retry, reap, disabling and
\* repeated finalize; where an administrator ingests past the queue, the last two may
\* also be what that ingest left, whole.
Coupled ==
    \A j \in Jobs : AsQueued(db[j]) \/ (j \in Ingestible /\ AsIngested(db[j]))

\* The recorded result of a succeeded job is the one of its latest lease, and the
\* stored result object still has the recorded hash.
ResultIntact ==
    \A j \in Jobs : db[j].status = "succeeded" =>
        LET r == db[j] IN
        /\ r.sha = grants[j]
        /\ r.files[r.key] = r.sha
        /\ object[j][r.key] = r.sha

\* The job of a report without its session and collection job.
JobOf(r) == [r EXCEPT !.session = "open", !.collection = "pending"]

\* A succeeded job stays as it is, and so do its session and collection job unless an
\* administrator ingests past the queue; a failed or cancelled job is only ever put
\* back in the queue.
TerminalIsFinal ==
    [][\A j \in Jobs :
         /\ db[j].status = "succeeded" =>
              JobOf(db'[j]) = JobOf(db[j]) /\ (db'[j] = db[j] \/ j \in Ingestible)
         /\ db[j].status \in {"failed", "cancelled"} =>
              db'[j].status \in {db[j].status, "pending"}]_vars

\* The phase of a job as its users see it.
Phase(status) ==
    CASE status = "absent"  -> "absent"
      [] status = "pending" -> "queued"
      [] status \in Active  -> "held"
      [] status = "succeeded" -> "done"
      [] status \in {"failed", "cancelled"} -> "dead"

Abstract == INSTANCE WorkLease WITH
    phase  <- [j \in Jobs |-> Phase(db[j].status)],
    lease  <- grants,
    winner <- [j \in Jobs |-> IF db[j].status = "succeeded" THEN db[j].sha ELSE 0]

\* The queue implements the abstract work lease: what is accepted is the result
\* of the newest lease, and a decision stands unless an administrator retries.
ImplementsWorkLease == Abstract!Spec

-------------------------------------------------------------------------------
(* Liveness *)

\* The API answers every request it has accepted and does not refuse requests
\* forever; time passes; the script never blocks forever, since each of its
\* calls has a timeout.
Fairness ==
    /\ \A s \in Slots : WF_vars(Serve(s))
    /\ \A p \in Procs : SF_vars(PollFor(p)) /\ WF_vars(Work(p))
    /\ \A j \in Jobs : WF_vars(Lapse(j))

\* The beat task also runs.
BeatFairness == SF_vars(\E s \in Slots : ReapSome(s))

LiveSpec == Spec /\ Fairness

\* Every job that enters the queue is eventually decided, if the beat task runs.
Decided ==
    BeatFairness => \A j \in Jobs : db[j].status # "absent" ~> db[j].status \in Terminal

\* Even when the beat task never runs, a job with attempts left is never stuck on
\* a crashed worker: it is decided or its attempts are used up.
PickedUpInline ==
    \A j \in Jobs :
        Leasable(db[j]) ~> db[j].status \in Terminal \/ db[j].attempts = MaxAttempts
=================================================================================
