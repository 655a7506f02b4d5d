-------------------------- MODULE AnalysisQueueProofs --------------------------
(*******************************************************************************)
(* What holds of the analysis queue however many requests overlap, for every   *)
(* number of jobs, workers, processes, open requests, attempts and retries.    *)
(*                                                                             *)
(* The invariant says, besides the types, what an open request knows of the    *)
(* rows in its snapshot.  That knowledge is all that protects the rows: the    *)
(* requests write them without looking again.                                  *)
(*                                                                             *)
(* Where requests come one at a time, what they read stands until they write:  *)
(* the statuses of job, session and collection job agree, decisions stand, and *)
(* the queue implements WorkLease.                                             *)
(*******************************************************************************)
EXTENDS AnalysisQueue, TLAPS

\* A row the recovery paths can see: the body of NoStrandedLease.
RowOK(r) == r.status \in Active => r.lease # "none"

\* Requests about one job whose guards found the lease of a worker.
WorkerOps == {"heartbeat", "finalize", "accept", "reject", "fail"}

RequestOK(q) ==
    /\ q.op # "none" => q.snap \in [Jobs -> Row]
    /\ q.op \in {"lease", "disable"} => q.as \in Workers
    /\ q.op \in WorkerOps \cup {"cancel", "retry", "refinalize"} => q.job \in Jobs
    /\ q.op \in WorkerOps => q.snap[q.job].status \in Active
    /\ q.op = "cancel" => q.snap[q.job].status # "cancelled"
    /\ q.op = "retry" => q.snap[q.job].status \in {"failed", "cancelled"}
    /\ q.op = "refinalize" => q.snap[q.job].status # "absent"
                              /\ q.snap[q.job].session \notin {"ingesting", "succeeded"}

\* A process past its lease request knows its job.
ProcOK(st) == st.stage \notin {"idle", "leasing"} => st.job \in Jobs

Inv ==
    /\ TypeOK
    /\ \A j \in Jobs : RowOK(db[j])
    /\ \A s \in Slots : RequestOK(req[s])
    /\ \A p \in Procs : ProcOK(proc[p])

-------------------------------------------------------------------------------
(* Rows *)

\* Each column of a flushed row is the latest one unless the request changed it.
LEMMA FlushedRow ==
    ASSUME NEW cur \in Row, NEW snap \in Row, NEW new \in Row
    PROVE  LET row == Flush(cur, snap, new) IN
           /\ row \in Row
           /\ row.status = IF new.status = snap.status THEN cur.status ELSE new.status
           /\ row.lease = IF new.lease = snap.lease THEN cur.lease ELSE new.lease
           /\ row.worker = IF new.worker = snap.worker THEN cur.worker ELSE new.worker
           /\ row.attempts = IF new.attempts = snap.attempts THEN cur.attempts ELSE new.attempts
  BY DEF Flush, Row

\* A new report is a well-formed row.
LEMMA NewRowType == NewRow \in Row
  <1>1. 0 \in Files
    BY QueueAssumption DEF Files
  <1>2. QED
    BY <1>1 DEF NewRow, Row, Terminal, Active

\* What the shared row updates write.
LEMMA RowUpdates ==
    ASSUME NEW r \in Row, NEW reset \in BOOLEAN
    PROVE  /\ Requeued(r) \in Row
           /\ Requeued(r).status = "pending"
           /\ Requeued(r).worker = None
           /\ Requeued(r).attempts = r.attempts
           /\ Restarted(r, reset) \in Row
           /\ Restarted(r, reset).status = "pending"
           /\ Restarted(r, reset).worker = None
           /\ ~reset => Restarted(r, reset).attempts = r.attempts
           /\ Failed(r) \in Row
           /\ Failed(r).status = "failed"
           /\ Failed(r).worker = None
           /\ Failed(r).attempts = r.attempts
           /\ Recovered(r) \in Row
           /\ Recovered(r).status \in {"pending", "failed"}
           /\ Recovered(r).worker = None
           /\ Recovered(r).attempts = r.attempts
  <1>1. Requeued(r) \in Row /\ Requeued(r).status = "pending"
        /\ Requeued(r).worker = None /\ Requeued(r).attempts = r.attempts
    BY DEF Requeued, Row
  <1>2. Failed(r) \in Row /\ Failed(r).status = "failed"
        /\ Failed(r).worker = None /\ Failed(r).attempts = r.attempts
    BY DEF Failed, Row, Terminal
  <1>3. ASSUME NEW b \in BOOLEAN
        PROVE  /\ Restarted(r, b) \in Row /\ Restarted(r, b).status = "pending"
               /\ Restarted(r, b).worker = None
               /\ ~b => Restarted(r, b).attempts = r.attempts
    BY <1>1 DEF Restarted, Row
  <1>4. QED
    BY <1>1, <1>2, <1>3 DEF Recovered

\* Requests that do not decide otherwise leave a row the recovery paths can see.
LEMMA FlushedRowOK ==
    ASSUME NEW cur \in Row, NEW snap \in Row, NEW new \in Row, RowOK(cur),
           new.status # snap.status, new.status \notin Active
    PROVE  Flush(cur, snap, new) \in Row /\ RowOK(Flush(cur, snap, new))
  BY FlushedRow DEF RowOK

-------------------------------------------------------------------------------
(* Requests and processes *)

LEMMA SnapshotType ==
    ASSUME TypeOK, NEW read \in SUBSET Jobs
    PROVE  /\ Snapshot(read) \in [Jobs -> Row]
           /\ \A j \in read : Snapshot(read)[j] = db[j]
  BY NewRowType DEF Snapshot, TypeOK

LEMMA NoRequestType == NoRequest \in Request /\ RequestOK(NoRequest)
  <1>1. 0 \in Files
    BY QueueAssumption DEF Files
  <1>2. QED
    BY <1>1 DEF NoRequest, Request, RequestOK, Op, WorkerOps

LEMMA IdleProcType == IdleProc \in ProcState /\ ProcOK(IdleProc)
  <1>1. 0 \in Files
    BY QueueAssumption DEF Files
  <1>2. QED
    BY <1>1 DEF IdleProc, ProcState, ProcOK, Stage

RequestsOK == req \in [Slots -> Request] /\ \A s \in Slots : RequestOK(req[s])
ProcsOK    == proc \in [Procs -> ProcState] /\ \A p \in Procs : ProcOK(proc[p])
RowsOK     == db \in [Jobs -> Row] /\ \A j \in Jobs : RowOK(db[j])

LEMMA Closed ==
    ASSUME RequestsOK, NEW s \in Slots, Close(s)
    PROVE  RequestsOK'
  BY NoRequestType DEF RequestsOK, Close

LEMMA Opened ==
    ASSUME RequestsOK, NEW s \in Slots, NEW q \in Request, RequestOK(q), Open(s, q)
    PROVE  RequestsOK'
  BY DEF RequestsOK, Open

LEMMA Detached ==
    ASSUME RequestsOK, NEW p \in Procs, req' = Detach(p)
    PROVE  RequestsOK'
  <1>1. ASSUME NEW s \in Slots
        PROVE  [req[s] EXCEPT !.by = None] \in Request /\ RequestOK([req[s] EXCEPT !.by = None])
    BY DEF RequestsOK, Request, RequestOK
  <1>2. QED
    BY <1>1 DEF RequestsOK, Detach

LEMMA Answered ==
    ASSUME ProcsOK, NEW q \in Request, NEW st \in ProcState, ProcOK(st), proc' = Answer(q, st)
    PROVE  ProcsOK'
  BY DEF ProcsOK, Answer, Request

LEMMA Moved ==
    ASSUME ProcsOK, NEW p \in Procs, NEW st \in ProcState, ProcOK(st),
           proc' = [proc EXCEPT ![p] = st]
    PROVE  ProcsOK'
  BY DEF ProcsOK

LEMMA AtStageType ==
    ASSUME NEW q \in Request, q.job \in Jobs, NEW stage \in Stage
    PROVE  AtStage(q, stage) \in ProcState /\ ProcOK(AtStage(q, stage))
  BY DEF AtStage, Request, ProcState, ProcOK

\* A worker's call about its job is a well-formed request when it is admitted.
LEMMA CallType ==
    ASSUME Inv, NEW p \in Procs, proc[p].stage \notin {"idle", "leasing"}, Admitted(p),
           NEW op \in {"heartbeat", "finalize", "fail"}, NEW flag \in BOOLEAN
    PROVE  CallOf(p, op, flag) \in Request /\ RequestOK(CallOf(p, op, flag))
  <1> DEFINE j == proc[p].job
  <1>1. proc[p] \in ProcState /\ j \in Jobs
    BY DEF Inv, TypeOK, ProcOK
  <1>2. Snapshot({j}) \in [Jobs -> Row] /\ Snapshot({j})[j] = db[j]
    BY <1>1, SnapshotType DEF Inv
  <1>3. db[j].status \in Active
    BY DEF Admitted
  <1>4. CredOf[p] \in Workers
    BY QueueAssumption
  <1>5. proc[p].key \in Files /\ proc[p].grant \in Nat
    BY <1>1 DEF ProcState
  <1>6. CallOf(p, op, flag) \in Request
    BY <1>1, <1>2, <1>4, <1>5 DEF CallOf, Request, Op
  <1>7. RequestOK(CallOf(p, op, flag))
    BY <1>1, <1>2, <1>3, <1>4 DEF CallOf, RequestOK, WorkerOps
  <1>8. QED
    BY <1>6, <1>7

LEMMA AdminCallType ==
    ASSUME Inv, NEW j \in Jobs, NEW flag \in BOOLEAN, NEW op \in {"cancel", "retry", "refinalize"},
           op = "cancel" => db[j].status \notin Terminal,
           op = "retry" => db[j].status \in {"failed", "cancelled"},
           op = "refinalize" => db[j].status # "absent" /\ Finalizable(j)
    PROVE  AdminCall(op, j, flag) \in Request /\ RequestOK(AdminCall(op, j, flag))
  <1>1. Snapshot({j}) \in [Jobs -> Row] /\ Snapshot({j})[j] = db[j]
    BY SnapshotType DEF Inv
  <1>2. 0 \in Files
    BY QueueAssumption DEF Files
  <1>3. AdminCall(op, j, flag) \in Request
    BY <1>1, <1>2 DEF AdminCall, Request, Op
  <1>4. RequestOK(AdminCall(op, j, flag))
    BY <1>1 DEF AdminCall, RequestOK, WorkerOps, Terminal, Finalizable
  <1>5. QED
    BY <1>3, <1>4

LEMMA QueueCallType ==
    ASSUME Inv, NEW p \in Procs \cup {None}, NEW w \in Workers, NEW op \in {"lease", "disable"}
    PROVE  QueueCall(op, p, w) \in Request /\ RequestOK(QueueCall(op, p, w))
  <1>1. Snapshot(Jobs) \in [Jobs -> Row]
    BY SnapshotType DEF Inv
  <1>2. 0 \in Files
    BY QueueAssumption DEF Files
  <1>3. QueueCall(op, p, w) \in Request
    BY <1>1, <1>2 DEF QueueCall, Request, Op
  <1>4. RequestOK(QueueCall(op, p, w))
    BY <1>1 DEF QueueCall, RequestOK, WorkerOps
  <1>5. QED
    BY <1>3, <1>4

-------------------------------------------------------------------------------
(* Every step keeps the invariant *)

RestOK ==
    /\ worker \in [Workers -> {"active", "disabled"}]
    /\ object \in [Jobs -> [Files -> Nat]]
    /\ grants \in [Jobs -> Nat]
    /\ retries \in [Jobs -> Nat]

\* The invariant by the variables it is about, which is how steps disturb it.
LEMMA InvParts == Inv <=> RowsOK /\ RequestsOK /\ ProcsOK /\ RestOK
  BY DEF Inv, TypeOK, RowsOK, RequestsOK, ProcsOK, RestOK

LEMMA InvPartsPrimed == Inv' <=> RowsOK' /\ RequestsOK' /\ ProcsOK' /\ RestOK'
  BY DEF Inv, TypeOK, RowsOK, RequestsOK, ProcsOK, RestOK

\* A request that writes one row well keeps all rows well.
LEMMA RowWritten ==
    ASSUME RowsOK, NEW j \in Jobs, NEW row \in Row, RowOK(row), db' = [db EXCEPT ![j] = row]
    PROVE  RowsOK'
  BY DEF RowsOK

LEMMA ResultFlushed ==
    ASSUME NEW q \in Request, RequestOK(q), q.op \in {"accept", "reject"}, RowsOK,
           NEW new \in Row, new.status \in {"succeeded", "failed"}
    PROVE  q.job \in Jobs /\ FlushResult(q, new) \in Row /\ RowOK(FlushResult(q, new))
  <1>1. /\ q.job \in Jobs
        /\ q.snap \in [Jobs -> Row]
        /\ q.snap[q.job] \in Row
        /\ q.snap[q.job].status \in Active
    BY DEF RequestOK, WorkerOps
  <1>2. db[q.job] \in Row /\ RowOK(db[q.job])
    BY <1>1 DEF RowsOK
  <1> DEFINE flushed == Flush(db[q.job], q.snap[q.job], new)
  <1>3. flushed \in Row /\ RowOK(flushed)
    <2>1. new.status # q.snap[q.job].status /\ new.status \notin Active
      BY <1>1 DEF Active
    <2>2. QED
      BY <1>1, <1>2, <2>1, FlushedRowOK
  <1> DEFINE files == [f \in Files |-> IF f \in {Aux, q.key} THEN q.grant ELSE db[q.job].files[f]]
  <1>4. files \in [Files -> Nat]
    BY <1>2 DEF Request, Row
  <1>5. FlushResult(q, new) = [flushed EXCEPT !.files = files]
    BY DEF FlushResult
  <1> HIDE DEF flushed, files
  <1>6. QED
    BY <1>1, <1>3, <1>4, <1>5 DEF Row, RowOK

LEMMA LeaseStep ==
    ASSUME Inv, NEW s \in Slots, NEW j \in Jobs, CommitLease(s, j)
    PROVE  Inv'
  <1> DEFINE q       == req[s]
             loaded  == [db[j] EXCEPT !.session = q.snap[j].session,
                                      !.collection = q.snap[j].collection]
             attempt == NextAttempt(q, j)
             leased  == [loaded EXCEPT !.status = "leased", !.worker = q.as, !.lease = "live",
                                  !.attempts = attempt, !.key = ResultFile(attempt),
                                  !.session = "ingesting", !.collection = "running"]
             st      == [stage |-> "leased", job |-> j,
                         key |-> ResultFile(attempt), grant |-> grants[j] + 1]
  <1>1. /\ q \in Request /\ RequestOK(q) /\ q.op = "lease"
        /\ Leasable(db[j])
        /\ db' = [db EXCEPT ![j] = Flush(db[j], loaded, leased)]
        /\ grants' = [grants EXCEPT ![j] = @ + 1]
        /\ proc' = Answer(q, st)
        /\ Close(s)
        /\ UNCHANGED <<worker, object, retries>>
    BY DEF CommitLease, Inv, TypeOK
  <1>2. db[j] \in Row /\ q.snap[j] \in Row /\ q.as \in Workers /\ grants[j] \in Nat
    BY <1>1 DEF Inv, TypeOK, RequestOK
  <1>3. attempt \in Nat /\ ResultFile(attempt) \in Files
    <2>1. db[j].attempts \in Nat /\ db[j].attempts < MaxAttempts
      BY <1>1, <1>2 DEF Leasable, Row
    <2>2. attempt = db[j].attempts + 1
      BY DEF NextAttempt
    <2> HIDE DEF attempt
    <2>3. attempt \in 0 .. MaxAttempts
      BY <2>1, <2>2, QueueAssumption
    <2>4. QED
      BY <2>1, <2>2, <2>3 DEF ResultFile, Files
  <1>4. /\ loaded \in Row /\ leased \in Row
        /\ loaded.status = db[j].status /\ loaded.lease = db[j].lease
        /\ leased.status = "leased" /\ leased.lease = "live"
    <2>1. loaded \in Row /\ loaded.status = db[j].status /\ loaded.lease = db[j].lease
      BY <1>2 DEF Row
    <2> HIDE DEF loaded, attempt
    <2>2. leased \in Row /\ leased.status = "leased" /\ leased.lease = "live"
      BY <1>2, <1>3, <2>1 DEF Row, Active
    <2>3. QED
      BY <2>1, <2>2
  <1> HIDE DEF loaded, leased, attempt
  <1>5. RowsOK'
    <2>1. Flush(db[j], loaded, leased) \in Row /\ RowOK(Flush(db[j], loaded, leased))
      BY <1>2, <1>4, FlushedRow DEF RowOK
    <2>2. QED
      BY <1>1, <2>1, InvParts, RowWritten
  <1>6. RequestsOK'
    BY <1>1, InvParts, Closed
  <1>7. ProcsOK'
    <2>1. st \in ProcState /\ ProcOK(st)
      BY <1>2, <1>3 DEF ProcState, Stage, ProcOK
    <2>2. QED
      BY <1>1, <2>1, InvParts, Answered
  <1>8. RestOK'
    BY <1>1, <1>2, InvParts DEF RestOK
  <1>9. QED
    BY <1>5, <1>6, <1>7, <1>8, InvPartsPrimed

LEMMA AcceptStep ==
    ASSUME Inv, NEW s \in Slots, NEW outcome \in Outcomes, CommitAccept(s, outcome)
    PROVE  Inv'
  <1> DEFINE q   == req[s]
             new == [q.snap[q.job] EXCEPT !.status = "succeeded", !.key = q.key,
                        !.sha = q.grant, !.lease = "none", !.session = "succeeded",
                        !.collection = outcome]
  <1>1. /\ q \in Request /\ RequestOK(q) /\ q.op = "accept"
        /\ db' = [db EXCEPT ![q.job] = FlushResult(q, new)]
        /\ proc' = Answer(q, IdleProc)
        /\ Close(s)
        /\ UNCHANGED <<worker, object, grants, retries>>
    BY DEF CommitAccept, Inv, TypeOK
  <1>2. q.job \in Jobs /\ q.snap[q.job] \in Row
    BY <1>1 DEF RequestOK, WorkerOps
  <1>3. new \in Row /\ new.status = "succeeded"
    BY <1>1, <1>2 DEF Row, Request, Outcomes, Terminal
  <1> HIDE DEF new
  <1>4. RowsOK'
    BY <1>1, <1>3, InvParts, ResultFlushed, RowWritten
  <1>5. RequestsOK' /\ ProcsOK'
    BY <1>1, InvParts, Closed, Answered, IdleProcType
  <1>6. RestOK'
    BY <1>1, InvParts DEF RestOK
  <1>7. QED
    BY <1>4, <1>5, <1>6, InvPartsPrimed

LEMMA RejectStep ==
    ASSUME Inv, NEW s \in Slots, CommitReject(s)
    PROVE  Inv'
  <1> DEFINE q == req[s]
  <1>1. /\ q \in Request /\ RequestOK(q) /\ q.op = "reject"
        /\ db' = [db EXCEPT ![q.job] = FlushResult(q, Failed(q.snap[q.job]))]
        /\ proc' = Answer(q, AtStage(q, "failing"))
        /\ Close(s)
        /\ UNCHANGED <<worker, object, grants, retries>>
    BY DEF CommitReject, Inv, TypeOK
  <1>2. q.job \in Jobs /\ q.snap[q.job] \in Row
    BY <1>1 DEF RequestOK, WorkerOps
  <1>3. Failed(q.snap[q.job]) \in Row /\ Failed(q.snap[q.job]).status = "failed"
    BY <1>2, RowUpdates
  <1>4. RowsOK'
    BY <1>1, <1>3, InvParts, ResultFlushed, RowWritten
  <1>5. RequestsOK'
    BY <1>1, InvParts, Closed
  <1>6. ProcsOK'
    <2>1. AtStage(q, "failing") \in ProcState /\ ProcOK(AtStage(q, "failing"))
      BY <1>1, <1>2, AtStageType DEF Stage
    <2>2. QED
      BY <1>1, <2>1, InvParts, Answered
  <1>7. RestOK'
    BY <1>1, InvParts DEF RestOK
  <1>8. QED
    BY <1>4, <1>5, <1>6, <1>7, InvPartsPrimed

LEMMA HeartbeatStep ==
    ASSUME Inv, NEW s \in Slots, CommitHeartbeat(s)
    PROVE  Inv'
  <1> DEFINE q       == req[s]
             loaded  == q.snap[q.job]
             new     == [loaded EXCEPT !.status = "running"]
             flushed == Flush(db[q.job], loaded, new)
  <1>1. /\ q \in Request /\ RequestOK(q) /\ q.op = "heartbeat"
        /\ db' = [db EXCEPT ![q.job] = [flushed EXCEPT !.lease = "live"]]
        /\ proc' = Answer(q, AtStage(q, "working"))
        /\ Close(s)
        /\ UNCHANGED <<worker, object, grants, retries>>
    BY DEF CommitHeartbeat, Inv, TypeOK
  <1>2. q.job \in Jobs /\ loaded \in Row /\ db[q.job] \in Row
    BY <1>1 DEF RequestOK, WorkerOps, Inv, TypeOK
  <1>3. new \in Row
    BY <1>2 DEF Row, Active
  <1>4. flushed \in Row
    BY <1>2, <1>3, FlushedRow
  <1> HIDE DEF flushed
  <1>5. [flushed EXCEPT !.lease = "live"] \in Row /\ RowOK([flushed EXCEPT !.lease = "live"])
    BY <1>4 DEF Row, RowOK
  <1>6. RowsOK'
    BY <1>1, <1>2, <1>5, InvParts, RowWritten
  <1>7. RequestsOK'
    BY <1>1, InvParts, Closed
  <1>8. ProcsOK'
    <2>1. AtStage(q, "working") \in ProcState /\ ProcOK(AtStage(q, "working"))
      BY <1>1, <1>2, AtStageType DEF Stage
    <2>2. QED
      BY <1>1, <2>1, InvParts, Answered
  <1>9. RestOK'
    BY <1>1, InvParts DEF RestOK
  <1>10. QED
    BY <1>6, <1>7, <1>8, <1>9, InvPartsPrimed

\* Requests of one job that end its turn: fail, cancel and retry.
LEMMA DecisionStep ==
    ASSUME Inv, NEW s \in Slots, CommitFail(s) \/ CommitCancel(s) \/ CommitRetry(s)
    PROVE  Inv'
  <1> DEFINE q    == req[s]
             snap == q.snap[q.job]
  <1>1. /\ q \in Request /\ RequestOK(q) /\ q.op \in {"fail", "cancel", "retry"}
        /\ Close(s)
        /\ proc' = proc \/ proc' = Answer(q, IdleProc)
        /\ UNCHANGED <<worker, object, grants, retries>>
    BY DEF CommitFail, CommitCancel, CommitRetry, Inv, TypeOK
  <1>2. q.job \in Jobs /\ snap \in Row /\ db[q.job] \in Row /\ RowOK(db[q.job]) /\ q.flag \in BOOLEAN
    BY <1>1 DEF RequestOK, WorkerOps, Inv, TypeOK, Request
  <1>3. RowsOK'
    <2>1. CASE CommitFail(s)
      <3> DEFINE new == IF q.flag /\ snap.attempts < MaxAttempts THEN Requeued(snap) ELSE Failed(snap)
      <3>1. db' = [db EXCEPT ![q.job] = Flush(db[q.job], snap, new)] /\ q.op = "fail"
        BY <2>1, <1>2 DEF CommitFail
      <3>2. new \in Row /\ new.status \in {"pending", "failed"}
        BY <1>2, RowUpdates
      <3>3. snap.status \in Active
        BY <1>1, <3>1 DEF RequestOK, WorkerOps
      <3> HIDE DEF new
      <3>4. QED
        BY <1>2, <3>1, <3>2, <3>3, FlushedRowOK, RowWritten, InvParts DEF Active
    <2>2. CASE CommitCancel(s)
      <3> DEFINE new == [Failed(snap) EXCEPT !.status = "cancelled", !.collection = "cancelled"]
      <3>1. db' = [db EXCEPT ![q.job] = Flush(db[q.job], snap, new)] /\ q.op = "cancel"
        BY <2>2, <1>2 DEF CommitCancel
      <3>2. new \in Row /\ new.status = "cancelled"
        <4>1. ASSUME NEW f \in Row
              PROVE  [f EXCEPT !.status = "cancelled", !.collection = "cancelled"] \in Row
          BY DEF Row, Terminal
        <4>2. Failed(snap) \in Row
          BY <1>2, RowUpdates
        <4>3. new.status = "cancelled"
          BY DEF Failed
        <4>4. QED
          BY <4>1, <4>2, <4>3
      <3>3. snap.status # "cancelled"
        BY <1>1, <3>1 DEF RequestOK
      <3> HIDE DEF new
      <3>4. QED
        BY <1>2, <3>1, <3>2, <3>3, FlushedRowOK, RowWritten, InvParts DEF Active
    <2>3. CASE CommitRetry(s)
      <3> DEFINE new == Restarted(snap, q.flag)
      <3>1. db' = [db EXCEPT ![q.job] = Flush(db[q.job], snap, new)] /\ q.op = "retry"
        BY <2>3, <1>2 DEF CommitRetry
      <3>2. new \in Row /\ new.status = "pending"
        BY <1>2, RowUpdates
      <3>3. snap.status \in {"failed", "cancelled"}
        BY <1>1, <3>1 DEF RequestOK
      <3> HIDE DEF new
      <3>4. QED
        BY <1>2, <3>1, <3>2, <3>3, FlushedRowOK, RowWritten, InvParts DEF Active
    <2>4. QED
      BY <2>1, <2>2, <2>3
  <1>4. RequestsOK'
    BY <1>1, InvParts, Closed
  <1>5. ProcsOK'
    <2>1. CASE proc' = proc
      BY <2>1, InvParts DEF ProcsOK
    <2>2. CASE proc' = Answer(q, IdleProc)
      BY <2>2, <1>1, InvParts, Answered, IdleProcType
    <2>3. QED
      BY <1>1, <2>1, <2>2
  <1>6. RestOK'
    BY <1>1, InvParts DEF RestOK
  <1>7. QED
    BY <1>3, <1>4, <1>5, <1>6, InvPartsPrimed

LEMMA DisableStep ==
    ASSUME Inv, NEW s \in Slots, CommitDisable(s)
    PROVE  Inv'
  <1> DEFINE q       == req[s]
             held(j) == q.snap[j].worker = q.as /\ q.snap[j].status \in Active
  <1>1. /\ q \in Request /\ RequestOK(q) /\ q.op = "disable"
        /\ worker' = [worker EXCEPT ![q.as] = "disabled"]
        /\ db' = [j \in Jobs |-> IF held(j) THEN Flush(db[j], q.snap[j], Recovered(q.snap[j]))
                                  ELSE db[j]]
        /\ Close(s)
        /\ UNCHANGED <<object, proc, grants, retries>>
    BY DEF CommitDisable, Inv, TypeOK
  <1>2. ASSUME NEW j \in Jobs
        PROVE  db'[j] \in Row /\ RowOK(db'[j])
    <2>1. q.snap[j] \in Row /\ db[j] \in Row /\ RowOK(db[j])
      BY <1>1 DEF RequestOK, Inv, TypeOK
    <2>2. Recovered(q.snap[j]) \in Row /\ Recovered(q.snap[j]).status \in {"pending", "failed"}
      BY <2>1, RowUpdates
    <2>3. CASE held(j)
      <3>1. db'[j] = Flush(db[j], q.snap[j], Recovered(q.snap[j]))
        BY <1>1, <2>3
      <3>2. QED
        BY <2>1, <2>2, <2>3, <3>1, FlushedRowOK DEF Active
    <2>4. CASE ~held(j)
      BY <1>1, <2>1, <2>4
    <2>5. QED
      BY <2>3, <2>4
  <1>3. RowsOK'
    BY <1>1, <1>2 DEF RowsOK
  <1>4. RequestsOK'
    BY <1>1, InvParts, Closed
  <1>5. ProcsOK' /\ RestOK'
    BY <1>1, InvParts DEF ProcsOK, RestOK
  <1>6. QED
    BY <1>3, <1>4, <1>5, InvPartsPrimed

\* The answers that change no row.
LEMMA AnswerStep ==
    ASSUME Inv, NEW s \in Slots,
           NothingToLease(s) \/ VerifyFinalize(s) \/ MismatchFinalize(s) \/ AbortFinalize(s)
    PROVE  Inv'
  <1> DEFINE q == req[s]
  <1>1. q \in Request /\ RequestOK(q)
    BY DEF Inv, TypeOK
  <1>2. UNCHANGED <<db, worker, object, grants, retries>>
    BY DEF NothingToLease, VerifyFinalize, MismatchFinalize, AbortFinalize
  <1>3. RowsOK' /\ RestOK'
    BY <1>2, InvParts DEF RowsOK, RestOK
  <1>4. RequestsOK'
    <2>1. CASE VerifyFinalize(s)
      <3>1. PICK verdict \in {"accept", "reject"} : req' = [req EXCEPT ![s].op = verdict]
        BY <2>1 DEF VerifyFinalize
      <3>2. q.op = "finalize"
        BY <2>1 DEF VerifyFinalize
      <3>3. [q EXCEPT !.op = verdict] \in Request
        BY <1>1 DEF Request, Op
      <3>4. RequestOK([q EXCEPT !.op = verdict])
        BY <1>1, <3>2, <3>3 DEF RequestOK, WorkerOps, Request
      <3>5. req' = [req EXCEPT ![s] = [q EXCEPT !.op = verdict]]
        BY <3>1, InvParts DEF RequestsOK
      <3>6. QED
        BY <3>3, <3>4, <3>5, InvParts DEF RequestsOK
    <2>2. CASE Close(s)
      BY <2>2, InvParts, Closed
    <2>3. QED
      BY <2>1, <2>2 DEF NothingToLease, MismatchFinalize, AbortFinalize
  <1>5. ProcsOK'
    <2>1. CASE NothingToLease(s)
      BY <2>1, <1>1, InvParts, Answered, IdleProcType DEF NothingToLease
    <2>2. CASE VerifyFinalize(s)
      BY <2>2, InvParts DEF VerifyFinalize, ProcsOK
    <2>3. CASE MismatchFinalize(s) \/ AbortFinalize(s)
      <3>1. proc' = Answer(q, AtStage(q, "failing")) /\ q.op \in WorkerOps
        BY <2>3 DEF MismatchFinalize, AbortFinalize, WorkerOps
      <3>2. AtStage(q, "failing") \in ProcState /\ ProcOK(AtStage(q, "failing"))
        BY <1>1, <3>1, AtStageType DEF RequestOK, Stage
      <3>3. QED
        BY <1>1, <3>1, <3>2, InvParts, Answered
    <2>4. QED
      BY <2>1, <2>2, <2>3
  <1>6. QED
    BY <1>3, <1>4, <1>5, InvPartsPrimed

\* A finalize repeated changes the session of its job, if that.
RepeatedRow(cur, snap) == Flush(cur, snap, [snap EXCEPT !.session = "uploaded"])

LEMMA OnlySession ==
    ASSUME NEW cur \in Row, NEW snap \in Row
    PROVE  \E session \in {cur.session, "uploaded"} :
              RepeatedRow(cur, snap) = [cur EXCEPT !.session = session]
  <1> DEFINE session == IF snap.session = "uploaded" THEN cur.session ELSE "uploaded"
             row     == RepeatedRow(cur, snap)
             new     == [snap EXCEPT !.session = "uploaded"]
  <1>1. /\ new.session = "uploaded" /\ DOMAIN new = DOMAIN cur /\ DOMAIN snap = DOMAIN cur
        /\ \A c \in DOMAIN cur : c # "session" => new[c] = snap[c]
    BY DEF Row
  <1>2. row = [c \in DOMAIN cur |-> IF new[c] = snap[c] THEN cur[c] ELSE new[c]]
    BY DEF RepeatedRow, Flush
  <1> HIDE DEF new, row
  <1>3. row = [c \in DOMAIN cur |-> IF c = "session" THEN session ELSE cur[c]]
    BY <1>1, <1>2 DEF Row
  <1>4. row = [cur EXCEPT !.session = session]
    BY <1>3 DEF Row
  <1>5. QED
    BY <1>4 DEF row

LEMMA RefinalizeStep ==
    ASSUME Inv, NEW s \in Slots, CommitRefinalize(s)
    PROVE  Inv'
  <1> DEFINE q   == req[s]
             row == RepeatedRow(db[q.job], q.snap[q.job])
  <1>1. /\ q \in Request /\ RequestOK(q) /\ q.op = "refinalize"
        /\ Close(s) /\ db' = [db EXCEPT ![q.job] = row]
        /\ UNCHANGED <<worker, object, proc, grants, retries>>
    BY DEF CommitRefinalize, RepeatedRow, Inv, TypeOK
  <1>2. q.job \in Jobs /\ q.snap[q.job] \in Row /\ db[q.job] \in Row /\ RowOK(db[q.job])
    BY <1>1 DEF RequestOK, Inv, TypeOK
  <1>3. row \in Row /\ RowOK(row)
    <2>1. PICK session \in {db[q.job].session, "uploaded"} : row = [db[q.job] EXCEPT !.session = session]
      BY <1>2, OnlySession
    <2>2. QED
      BY <1>2, <2>1 DEF Row, RowOK
  <1> HIDE DEF row
  <1>4. RowsOK'
    BY <1>1, <1>2, <1>3, RowWritten, InvParts
  <1>5. RequestsOK'
    BY <1>1, InvParts, Closed
  <1>6. QED
    BY <1>1, <1>4, <1>5, InvParts, InvPartsPrimed DEF ProcsOK, RestOK

LEMMA ServeStep ==
    ASSUME Inv, NEW s \in Slots, Serve(s)
    PROVE  Inv'
  BY RefinalizeStep, LeaseStep, AcceptStep, RejectStep, HeartbeatStep, DecisionStep, DisableStep, AnswerStep
  DEF Serve

LEMMA AdministerStep ==
    ASSUME Inv, NEW s \in Slots, Administer(s)
    PROVE  Inv'
  <1>1. UNCHANGED <<db, worker, object, proc, grants>>
    BY DEF Administer, BeginCancel, BeginRetry, BeginDisable, BeginRefinalize
  <1>2. RequestsOK'
    <2>1. ASSUME NEW j \in Jobs, BeginCancel(j, s)
          PROVE  RequestsOK'
      <3>1. db[j].status \notin Terminal /\ Open(s, AdminCall("cancel", j, FALSE))
        BY <2>1 DEF BeginCancel
      <3>2. QED
        BY <3>1, AdminCallType, Opened, InvParts
    <2>2. ASSUME NEW j \in Jobs, NEW reset \in ResetOptions, BeginRetry(j, s, reset)
          PROVE  RequestsOK'
      <3>1. /\ db[j].status \in {"failed", "cancelled"}
            /\ Open(s, AdminCall("retry", j, reset))
            /\ reset \in BOOLEAN
        BY <2>2, QueueAssumption DEF BeginRetry
      <3>2. QED
        BY <3>1, AdminCallType, Opened, InvParts
    <2>3. ASSUME NEW w \in Disableable, BeginDisable(w, s)
          PROVE  RequestsOK'
      <3>1. w \in Workers /\ Open(s, QueueCall("disable", None, w))
        BY <2>3, QueueAssumption DEF BeginDisable
      <3>2. QED
        BY <3>1, QueueCallType, Opened, InvParts
    <2>4. ASSUME NEW j \in Repeatable, BeginRefinalize(j, s)
          PROVE  RequestsOK'
      <3>1. /\ j \in Jobs /\ db[j].status # "absent" /\ Finalizable(j)
            /\ Open(s, AdminCall("refinalize", j, FALSE))
        BY <2>4, QueueAssumption DEF BeginRefinalize
      <3>2. QED
        BY <3>1, AdminCallType, Opened, InvParts
    <2>5. QED
      BY <2>1, <2>2, <2>3, <2>4 DEF Administer
  <1>3. RestOK'
    <2>1. retries' \in [Jobs -> Nat]
      <3>1. retries \in [Jobs -> Nat]
        BY InvParts DEF RestOK
      <3>2. \/ retries' = retries
            \/ \E j \in Jobs : retries' = [retries EXCEPT ![j] = @ + 1]
        BY DEF Administer, BeginCancel, BeginRetry, BeginDisable, BeginRefinalize
      <3>3. QED
        BY <3>1, <3>2
    <2>2. QED
      BY <1>1, <2>1, InvParts DEF RestOK
  <1>4. QED
    BY <1>1, <1>2, <1>3, InvParts, InvPartsPrimed DEF RowsOK, ProcsOK

\* The steps that write rows without a request: a new job, a lapse, the reaper.
LEMMA BackgroundStep ==
    ASSUME Inv,
           \/ \E j \in Jobs : Enqueue(j) \/ Lapse(j)
           \/ \E s \in Slots : IngestSome(s) \/ ReapSome(s)
    PROVE  Inv'
  <1>1. UNCHANGED <<worker, object, req, proc, grants, retries>>
    BY DEF Enqueue, Lapse, IngestSome, Ingest, ReapSome, Reap
  <1>2. RowsOK'
    <2>1. ASSUME NEW j \in Jobs, Enqueue(j)
          PROVE  RowsOK'
      <3> DEFINE row == [db[j] EXCEPT !.status = "pending", !.session = "uploaded"]
      <3>1. db[j] \in Row
        BY InvParts DEF RowsOK
      <3>2. row \in Row /\ RowOK(row)
        BY <3>1 DEF Row, RowOK, Active
      <3>3. db' = [db EXCEPT ![j] = row]
        BY <2>1, InvParts DEF Enqueue, RowsOK
      <3>4. QED
        BY <3>2, <3>3, InvParts, RowWritten
    <2>2. ASSUME NEW j \in Jobs, Lapse(j)
          PROVE  RowsOK'
      <3> DEFINE row == [db[j] EXCEPT !.lease = "lapsed"]
      <3>1. db[j] \in Row
        BY InvParts DEF RowsOK
      <3>2. row \in Row /\ RowOK(row)
        BY <3>1 DEF Row, RowOK
      <3>3. db' = [db EXCEPT ![j] = row]
        BY <2>2, InvParts DEF Lapse, RowsOK
      <3>4. QED
        BY <3>2, <3>3, InvParts, RowWritten
    <2>3. ASSUME NEW s \in Slots, NEW batch \in SUBSET Expired, Reap(batch, s)
          PROVE  RowsOK'
      <3>1. ASSUME NEW j \in Jobs
            PROVE  db'[j] \in Row /\ RowOK(db'[j])
        <4>1. db[j] \in Row /\ RowOK(db[j])
          BY DEF Inv, TypeOK
        <4>2. /\ Failed(db[j]) \in Row /\ RowOK(Failed(db[j]))
              /\ Requeued(db[j]) \in Row /\ RowOK(Requeued(db[j]))
          BY <4>1, RowUpdates DEF RowOK, Active
        <4>3. db'[j] \in {db[j], Failed(db[j]), Requeued(db[j])}
          BY <2>3 DEF Reap
        <4>4. QED
          BY <4>1, <4>2, <4>3
      <3>2. QED
        BY <2>3, <3>1 DEF Reap, RowsOK
    <2>4. ASSUME NEW s \in Slots, NEW j \in Ingestible, NEW outcome \in {"succeeded", "failed"},
                 Ingest(j, s, outcome)
          PROVE  RowsOK'
      <3> DEFINE row == [db[j] EXCEPT !.session = outcome, !.collection = outcome]
      <3>1. j \in Jobs /\ db[j] \in Row /\ RowOK(db[j])
        BY QueueAssumption, InvParts DEF RowsOK
      <3>2. row \in Row /\ RowOK(row)
        BY <3>1 DEF Row, RowOK
      <3>3. db' = [db EXCEPT ![j] = row]
        BY <2>4, <3>1, InvParts DEF Ingest, RowsOK
      <3>4. QED
        BY <3>1, <3>2, <3>3, InvParts, RowWritten
    <2>5. QED
      BY <2>1, <2>2, <2>3, <2>4 DEF IngestSome, ReapSome
  <1>3. QED
    BY <1>1, <1>2, InvParts, InvPartsPrimed DEF RequestsOK, ProcsOK, RestOK

\* The worker script: what it sends, and what it does between two requests.
LEMMA ScriptStep ==
    ASSUME Inv, NEW p \in Procs, PollFor(p) \/ Work(p) \/ Crash(p)
    PROVE  Inv'
  <1>1. proc[p] \in ProcState /\ ProcOK(proc[p])
    BY DEF Inv, TypeOK
  <1>2. ASSUME NEW stage \in Stage,
               stage \notin {"idle", "leasing"} => proc[p].stage \notin {"idle", "leasing"},
               proc' = [proc EXCEPT ![p].stage = stage]
        PROVE  ProcsOK'
    <2>1. [proc[p] EXCEPT !.stage = stage] \in ProcState
      BY <1>1 DEF ProcState
    <2>2. ProcOK([proc[p] EXCEPT !.stage = stage])
      BY <1>1, <1>2 DEF ProcState, ProcOK
    <2>3. proc' = [proc EXCEPT ![p] = [proc[p] EXCEPT !.stage = stage]]
      BY <1>2, InvParts DEF ProcsOK
    <2>4. QED
      BY <2>1, <2>2, <2>3, InvParts, Moved
  <1>3. UNCHANGED <<db, worker, grants, retries>>
    BY DEF PollFor, BeginLease, Work, BeginHeartbeat, Upload, BeginFinalize, BeginFail,
           Refused, GiveUp, Crash
  <1>4. RowsOK'
    BY <1>3, InvParts DEF RowsOK
  <1>5. CASE PollFor(p)
    <2>1. PICK s \in Slots : BeginLease(p, s)
      BY <1>5 DEF PollFor
    <2>2. CredOf[p] \in Workers
      BY QueueAssumption
    <2>3. RequestsOK'
      BY <2>1, <2>2, QueueCallType, Opened, InvParts DEF BeginLease
    <2>4. ProcsOK'
      BY <2>1, <1>2 DEF BeginLease, Stage
    <2>5. RestOK'
      BY <1>3, <2>1, InvParts DEF BeginLease, RestOK
    <2>6. QED
      BY <1>4, <2>3, <2>4, <2>5, InvPartsPrimed
  <1>6. ASSUME NEW s \in Slots, BeginHeartbeat(p, s)
        PROVE  Inv'
    <2>1. RequestsOK'
      BY <1>6, CallType, Opened, InvParts DEF BeginHeartbeat
    <2>2. ProcsOK'
      BY <1>2, <1>6 DEF BeginHeartbeat, Stage
    <2>3. RestOK'
      BY <1>3, <1>6, InvParts DEF BeginHeartbeat, RestOK
    <2>4. QED
      BY <1>4, <2>1, <2>2, <2>3, InvPartsPrimed
  <1>7. ASSUME NEW s \in Slots, BeginFinalize(p, s)
        PROVE  Inv'
    <2>1. RequestsOK'
      BY <1>7, CallType, Opened, InvParts DEF BeginFinalize
    <2>2. ProcsOK'
      BY <1>2, <1>7 DEF BeginFinalize, Stage
    <2>3. RestOK'
      BY <1>3, <1>7, InvParts DEF BeginFinalize, RestOK
    <2>4. QED
      BY <1>4, <2>1, <2>2, <2>3, InvPartsPrimed
  <1>8. ASSUME NEW s \in Slots, NEW retryable \in BOOLEAN, BeginFail(p, s, retryable)
        PROVE  Inv'
    <2>1. RequestsOK'
      BY <1>8, CallType, Opened, InvParts DEF BeginFail
    <2>2. ProcsOK'
      BY <1>2, <1>8 DEF BeginFail, Stage
    <2>3. RestOK'
      BY <1>3, <1>8, InvParts DEF BeginFail, RestOK
    <2>4. QED
      BY <1>4, <2>1, <2>2, <2>3, InvPartsPrimed
  <1>9. CASE Upload(p)
    <2> DEFINE st    == proc[p]
               files == [f \in Files |-> IF f \in {Aux, st.key} THEN st.grant ELSE object[st.job][f]]
    <2>1. st.stage = "working" /\ st.job \in Jobs /\ st.grant \in Nat
      BY <1>1, <1>9 DEF Upload, ProcOK, ProcState
    <2>2. files \in [Files -> Nat]
      BY <2>1, InvParts DEF RestOK
    <2>3. object' = [object EXCEPT ![st.job] = files]
      BY <1>9, <2>1, InvParts DEF Upload, RestOK
    <2> HIDE DEF files
    <2>4. RestOK'
      BY <1>3, <2>1, <2>2, <2>3, InvParts DEF RestOK
    <2>5. ProcsOK'
      BY <1>2, <1>9 DEF Upload, Stage
    <2>6. RequestsOK'
      BY <1>9, InvParts DEF Upload, RequestsOK
    <2>7. QED
      BY <1>4, <2>4, <2>5, <2>6, InvPartsPrimed
  <1>10. CASE Refused(p)
    <2>1. ProcsOK'
      <3>1. CASE proc[p].stage = "failing"
        <4>1. proc' = [proc EXCEPT ![p] = IdleProc]
          BY <1>10, <3>1, InvParts DEF Refused, ProcsOK
        <4>2. QED
          BY <4>1, InvParts, Moved, IdleProcType
      <3>2. CASE proc[p].stage # "failing"
        <4>1. proc' = [proc EXCEPT ![p].stage = "failing"]
          BY <1>10, <3>2, InvParts DEF Refused, ProcsOK
        <4>2. QED
          BY <1>2, <1>10, <4>1 DEF Refused, Stage
      <3>3. QED
        BY <3>1, <3>2
    <2>2. RequestsOK' /\ RestOK'
      BY <1>3, <1>10, InvParts DEF Refused, RequestsOK, RestOK
    <2>3. QED
      BY <1>4, <2>1, <2>2, InvPartsPrimed
  <1>11. CASE GiveUp(p)
    <2>1. RequestsOK' /\ RestOK'
      BY <1>3, <1>11, InvParts, Detached DEF GiveUp, RestOK
    <2>2. ProcsOK'
      BY <1>2, <1>11 DEF GiveUp, Stage
    <2>3. QED
      BY <1>4, <2>1, <2>2, InvPartsPrimed
  <1>12. CASE Crash(p)
    <2>1. RequestsOK' /\ RestOK'
      BY <1>3, <1>12, InvParts, Detached DEF Crash, RestOK
    <2>2. ProcsOK'
      BY <1>12, InvParts, Moved, IdleProcType DEF Crash
    <2>3. QED
      BY <1>4, <2>1, <2>2, InvPartsPrimed
  <1>13. QED
    BY <1>5, <1>6, <1>7, <1>8, <1>9, <1>10, <1>11, <1>12 DEF Work

LEMMA InitInv == Init => Inv
  <1>1. ASSUME Init
        PROVE  Inv
    <2>1. 0 \in Files
      BY QueueAssumption DEF Files
    <2>2. RowsOK
      BY <1>1, NewRowType DEF Init, RowsOK, RowOK, NewRow, Active
    <2>3. RequestsOK
      BY <1>1, NoRequestType DEF Init, RequestsOK
    <2>4. ProcsOK
      BY <1>1, IdleProcType DEF Init, ProcsOK
    <2>5. RestOK
      BY <1>1 DEF Init, RestOK
    <2>6. QED
      BY <2>2, <2>3, <2>4, <2>5, InvParts
  <1>2. QED
    BY <1>1

LEMMA NextInv == Inv /\ [Next]_vars => Inv'
  <1>1. ASSUME Inv, Next
        PROVE  Inv'
    BY <1>1, ServeStep, AdministerStep, BackgroundStep, ScriptStep DEF Next
  <1>2. ASSUME Inv, UNCHANGED vars
        PROVE  Inv'
    <2>1. RowsOK' /\ RequestsOK' /\ ProcsOK' /\ RestOK'
      BY <1>2, InvParts DEF vars, RowsOK, RequestsOK, ProcsOK, RestOK
    <2>2. QED
      BY <2>1, InvPartsPrimed
  <1>3. QED
    BY <1>1, <1>2

-------------------------------------------------------------------------------
(* What a step does to one row *)

\* A request that overwrites a row without a lease in it keeps the attempts counter
\* and hands the job to nobody.
LEMMA QuietFlush ==
    ASSUME NEW cur \in Row, NEW snap \in Row, NEW new \in Row,
           new.worker \in {snap.worker, None}, new.attempts = snap.attempts
    PROVE  /\ Flush(cur, snap, new).worker \in {cur.worker, None}
           /\ Flush(cur, snap, new).attempts = cur.attempts
  BY FlushedRow

\* Only a lease gives a job to a worker; only a lease and a retry that resets
\* change its attempts.
Quiet(j) ==
    /\ db'[j].worker \in {db[j].worker, None}
    /\ grants'[j] = grants[j]
    /\ \/ db'[j].attempts = db[j].attempts
       \/ \E s \in Slots : req[s].op = "retry" /\ req[s].flag

LEMMA DecisionQuiet ==
    ASSUME Inv, NEW j \in Jobs, NEW s \in Slots,
           CommitHeartbeat(s) \/ CommitFail(s) \/ CommitCancel(s) \/ CommitRetry(s)
    PROVE  Quiet(j)
  <1> DEFINE q    == req[s]
             snap == q.snap[q.job]
             cur  == db[q.job]
  <1>1. /\ q \in Request /\ RequestOK(q)
        /\ q.op \in WorkerOps \cup {"cancel", "retry"}
        /\ grants' = grants
    BY DEF CommitHeartbeat, CommitFail, CommitCancel, CommitRetry, Inv, TypeOK, WorkerOps
  <1>2. q.job \in Jobs /\ snap \in Row /\ cur \in Row /\ q.flag \in BOOLEAN /\ db[j] \in Row
    BY <1>1 DEF RequestOK, WorkerOps, Inv, TypeOK, Request
  <1>3. CASE j # q.job
    BY <1>1, <1>2, <1>3 DEF Quiet, CommitHeartbeat, CommitFail, CommitCancel, CommitRetry, Inv, TypeOK
  <1>4. CASE j = q.job
    <2>1. db'[j] \in Row
      BY <1>1, <1>2, <1>4, HeartbeatStep, DecisionStep, InvPartsPrimed DEF RowsOK
    <2>2. CASE CommitHeartbeat(s)
      <3> DEFINE new == [snap EXCEPT !.status = "running"]
      <3>1. new \in Row /\ new.worker = snap.worker /\ new.attempts = snap.attempts
        BY <1>2 DEF Row, Active
      <3>2. db'[j] = [Flush(cur, snap, new) EXCEPT !.lease = "live"]
        BY <2>2, <1>2, <1>4 DEF CommitHeartbeat, Inv, TypeOK
      <3>3. Flush(cur, snap, new) \in Row
        BY <1>2, <3>1, FlushedRow
      <3>4. db'[j].worker = Flush(cur, snap, new).worker /\ db'[j].attempts = Flush(cur, snap, new).attempts
        BY <3>2, <3>3 DEF Row
      <3> HIDE DEF new
      <3>5. QED
        BY <1>1, <1>2, <1>4, <3>1, <3>4, QuietFlush DEF Quiet
    <2>3. CASE CommitFail(s)
      <3> DEFINE new == IF q.flag /\ snap.attempts < MaxAttempts THEN Requeued(snap) ELSE Failed(snap)
      <3>1. new \in Row /\ new.worker = None /\ new.attempts = snap.attempts
        BY <1>2, RowUpdates
      <3>2. db'[j] = Flush(cur, snap, new)
        BY <2>3, <1>2, <1>4 DEF CommitFail, Inv, TypeOK
      <3> HIDE DEF new
      <3>3. QED
        BY <1>1, <1>2, <1>4, <3>1, <3>2, QuietFlush DEF Quiet
    <2>4. CASE CommitCancel(s)
      <3> DEFINE new == [Failed(snap) EXCEPT !.status = "cancelled", !.collection = "cancelled"]
      <3>1. new \in Row /\ new.worker = None /\ new.attempts = snap.attempts
        <4>1. ASSUME NEW f \in Row
              PROVE  LET c == [f EXCEPT !.status = "cancelled", !.collection = "cancelled"] IN
                     c \in Row /\ c.worker = f.worker /\ c.attempts = f.attempts
          BY DEF Row, Terminal
        <4>2. Failed(snap) \in Row /\ Failed(snap).worker = None
              /\ Failed(snap).attempts = snap.attempts
          BY <1>2, RowUpdates
        <4>3. QED
          BY <4>1, <4>2
      <3>2. db'[j] = Flush(cur, snap, new)
        BY <2>4, <1>2, <1>4 DEF CommitCancel, Inv, TypeOK
      <3> HIDE DEF new
      <3>3. QED
        BY <1>1, <1>2, <1>4, <3>1, <3>2, QuietFlush DEF Quiet
    <2>5. CASE CommitRetry(s)
      <3> DEFINE new == Restarted(snap, q.flag)
      <3>1. new \in Row /\ new.worker = None /\ (~q.flag => new.attempts = snap.attempts)
        BY <1>2, RowUpdates
      <3>2. db'[j] = Flush(cur, snap, new) /\ q.op = "retry"
        BY <2>5, <1>2, <1>4 DEF CommitRetry, Inv, TypeOK
      <3> HIDE DEF new
      <3>3. db'[j].worker \in {db[j].worker, None}
        BY <1>2, <1>4, <3>1, <3>2, FlushedRow
      <3>4. ~q.flag => db'[j].attempts = db[j].attempts
        BY <1>2, <1>4, <3>1, <3>2, FlushedRow
      <3>5. QED
        BY <1>1, <3>2, <3>3, <3>4 DEF Quiet
    <2>6. QED
      BY <2>2, <2>3, <2>4, <2>5
  <1>5. QED
    BY <1>3, <1>4

LEMMA ResultQuiet ==
    ASSUME Inv, NEW j \in Jobs, NEW s \in Slots, NEW outcome \in Outcomes,
           CommitAccept(s, outcome) \/ CommitReject(s)
    PROVE  Quiet(j)
  <1> DEFINE q    == req[s]
             snap == q.snap[q.job]
             cur  == db[q.job]
  <1>1. /\ q \in Request /\ RequestOK(q) /\ q.op \in {"accept", "reject"}
        /\ grants' = grants
    BY DEF CommitAccept, CommitReject, Inv, TypeOK
  <1>2. q.job \in Jobs /\ snap \in Row /\ cur \in Row /\ db[j] \in Row
    BY <1>1 DEF RequestOK, WorkerOps, Inv, TypeOK
  <1>3. PICK new \in Row : /\ new.worker \in {snap.worker, None}
                           /\ new.attempts = snap.attempts
                           /\ db' = [db EXCEPT ![q.job] = FlushResult(q, new)]
    <2>1. CASE CommitAccept(s, outcome)
      <3> DEFINE new == [snap EXCEPT !.status = "succeeded", !.key = q.key, !.sha = q.grant,
                           !.lease = "none", !.session = "succeeded", !.collection = outcome]
      <3>1. new \in Row /\ new.worker = snap.worker /\ new.attempts = snap.attempts
        <4>1. ASSUME NEW r \in Row, NEW key \in Files, NEW sha \in Nat
              PROVE  LET c == [r EXCEPT !.status = "succeeded", !.key = key, !.sha = sha,
                                 !.lease = "none", !.session = "succeeded", !.collection = outcome]
                     IN  c \in Row /\ c.worker = r.worker /\ c.attempts = r.attempts
          BY DEF Row, Outcomes, Terminal
        <4>2. q.key \in Files /\ q.grant \in Nat
          BY <1>1 DEF Request
        <4>3. QED
          BY <1>2, <4>1, <4>2
      <3>2. db' = [db EXCEPT ![q.job] = FlushResult(q, new)]
        BY <2>1 DEF CommitAccept
      <3>3. QED
        BY <3>1, <3>2
    <2>2. CASE CommitReject(s)
      BY <2>2, <1>2, RowUpdates DEF CommitReject
    <2>3. QED
      BY <2>1, <2>2
  <1>4. /\ FlushResult(q, new).worker = Flush(cur, snap, new).worker
        /\ FlushResult(q, new).attempts = Flush(cur, snap, new).attempts
    <2>1. Flush(cur, snap, new) \in Row
      BY <1>2, FlushedRow
    <2>2. QED
      BY <2>1 DEF FlushResult, Row
  <1>5. CASE j = q.job
    BY <1>1, <1>2, <1>3, <1>4, <1>5, QuietFlush DEF Quiet, Inv, TypeOK
  <1>6. CASE j # q.job
    BY <1>1, <1>2, <1>3, <1>6 DEF Quiet, Inv, TypeOK
  <1>7. QED
    BY <1>5, <1>6

LEMMA RowStep ==
    ASSUME Inv, [Next]_vars, NEW j \in Jobs
    PROVE  Quiet(j) \/ \E s \in Slots : CommitLease(s, j)
  <1>1. db[j] \in Row /\ grants[j] \in Nat
    BY DEF Inv, TypeOK
  <1>2. ASSUME NEW s \in Slots, Serve(s)
        PROVE  Quiet(j) \/ \E t \in Slots : CommitLease(t, j)
    <2>1. ASSUME NEW i \in Jobs, i # j, CommitLease(s, i)
          PROVE  Quiet(j)
      <3>1. \E row : db' = [db EXCEPT ![i] = row]
        BY <2>1 DEF CommitLease
      <3>2. grants' = [grants EXCEPT ![i] = @ + 1]
        BY <2>1 DEF CommitLease
      <3>3. db'[j] = db[j] /\ grants'[j] = grants[j]
        BY <2>1, <3>1, <3>2 DEF Inv, TypeOK
      <3>4. QED
        BY <1>1, <3>3 DEF Quiet
    <2>2. CASE CommitDisable(s)
      <3>1. req[s].op = "disable" /\ req[s] \in Request /\ RequestOK(req[s])
        BY <2>2 DEF CommitDisable, Inv, TypeOK
      <3>2. req[s].snap[j] \in Row
        BY <3>1 DEF RequestOK
      <3>3. db'[j] \in {db[j], Flush(db[j], req[s].snap[j], Recovered(req[s].snap[j]))} /\ grants' = grants
        BY <2>2 DEF CommitDisable
      <3> DEFINE new == Recovered(req[s].snap[j])
      <3>4. new \in Row /\ new.worker = None /\ new.attempts = req[s].snap[j].attempts
        BY <3>2, RowUpdates
      <3> HIDE DEF new
      <3>5. QED
        BY <1>1, <3>2, <3>3, <3>4, QuietFlush DEF Quiet, new
    <2>3. CASE NothingToLease(s) \/ VerifyFinalize(s) \/ MismatchFinalize(s) \/ AbortFinalize(s)
      BY <2>3 DEF NothingToLease, VerifyFinalize, MismatchFinalize, AbortFinalize, Quiet
    <2>4. CASE \E i \in Jobs : CommitLease(s, i)
      <3>1. PICK i \in Jobs : CommitLease(s, i)
        BY <2>4
      <3>2. CASE i = j
        BY <3>1, <3>2
      <3>3. CASE i # j
        BY <2>1, <3>1, <3>3
      <3>4. QED
        BY <3>2, <3>3
    <2>5. CASE \E outcome \in Outcomes : CommitAccept(s, outcome) \/ CommitReject(s)
      BY <2>5, ResultQuiet
    <2>6. CASE CommitHeartbeat(s) \/ CommitFail(s) \/ CommitCancel(s) \/ CommitRetry(s)
      BY <2>6, DecisionQuiet
    <2>7. CASE CommitRefinalize(s)
      <3> DEFINE q   == req[s]
                 row == RepeatedRow(db[q.job], q.snap[q.job])
      <3>1. /\ RequestOK(q) /\ q.op = "refinalize" /\ grants' = grants
            /\ db' = [db EXCEPT ![q.job] = row]
        BY <2>7 DEF CommitRefinalize, RepeatedRow, Inv, TypeOK
      <3>2. q.job \in Jobs /\ q.snap[q.job] \in Row /\ db[q.job] \in Row
        BY <3>1 DEF RequestOK, Inv, TypeOK
      <3>3. row.worker = db[q.job].worker /\ row.attempts = db[q.job].attempts
        <4>1. PICK session \in {db[q.job].session, "uploaded"} :
                 row = [db[q.job] EXCEPT !.session = session]
          BY <3>2, OnlySession
        <4>2. QED
          BY <3>2, <4>1 DEF Row
      <3> HIDE DEF row
      <3>4. QED
        BY <1>1, <3>1, <3>2, <3>3 DEF Quiet, Inv, TypeOK
    <2>8. Outcomes # {}
      BY DEF Outcomes
    <2>9. QED
      BY <1>2, <2>2, <2>3, <2>4, <2>5, <2>6, <2>7, <2>8 DEF Serve
  <1>3. ASSUME NEW s \in Slots, ReapSome(s)
        PROVE  Quiet(j)
    <2>1. db'[j] \in {db[j], Failed(db[j]), Requeued(db[j])} /\ grants' = grants
      BY <1>3 DEF ReapSome, Reap
    <2>2. /\ Failed(db[j]).worker = None /\ Failed(db[j]).attempts = db[j].attempts
          /\ Requeued(db[j]).worker = None /\ Requeued(db[j]).attempts = db[j].attempts
      BY <1>1, RowUpdates
    <2>3. QED
      BY <2>1, <2>2 DEF Quiet
  <1>4. ASSUME NEW i \in Jobs, Enqueue(i) \/ Lapse(i)
        PROVE  Quiet(j)
    <2>1. grants' = grants
      BY <1>4 DEF Enqueue, Lapse
    <2>2. CASE Enqueue(i)
      <3>1. db' = [db EXCEPT ![i].status = "pending", ![i].session = "uploaded"] /\ db \in [Jobs -> Row]
        BY <2>2 DEF Enqueue, Inv, TypeOK
      <3>2. db'[j].worker = db[j].worker /\ db'[j].attempts = db[j].attempts
        BY <1>1, <3>1 DEF Row
      <3>3. QED
        BY <2>1, <3>2 DEF Quiet
    <2>3. CASE Lapse(i)
      BY <1>1, <2>1, <2>3 DEF Lapse, Quiet, Inv, TypeOK, Row
    <2>4. QED
      BY <1>4, <2>2, <2>3
  <1>5. CASE UNCHANGED <<db, grants>>
    BY <1>5 DEF Quiet
  <1>6. ASSUME NEW s \in Slots, IngestSome(s)
        PROVE  Quiet(j)
    <2>1. PICK i \in Ingestible, outcome \in {"succeeded", "failed"} : Ingest(i, s, outcome)
      BY <1>6 DEF IngestSome
    <2>2. /\ db' = [db EXCEPT ![i].session = outcome, ![i].collection = outcome]
          /\ grants' = grants /\ db \in [Jobs -> Row]
      BY <2>1 DEF Ingest, Inv, TypeOK
    <2>3. db'[j].worker = db[j].worker /\ db'[j].attempts = db[j].attempts
      BY <1>1, <2>2 DEF Row
    <2>4. QED
      BY <2>2, <2>3 DEF Quiet
  <1>7. QED
    <2>1. ASSUME NEW s \in Slots, Administer(s)
          PROVE  UNCHANGED <<db, grants>>
      BY <2>1 DEF Administer, BeginCancel, BeginRetry, BeginDisable, BeginRefinalize
    <2>2. ASSUME NEW p \in Procs, PollFor(p) \/ Work(p) \/ Crash(p)
          PROVE  UNCHANGED <<db, grants>>
      BY <2>2 DEF PollFor, BeginLease, Work, BeginHeartbeat, Upload, BeginFinalize, BeginFail,
                  Refused, GiveUp, Crash
    <2>3. QED
      BY <1>2, <1>3, <1>4, <1>5, <1>6, <2>1, <2>2 DEF Next, vars

-------------------------------------------------------------------------------
(* Theorems *)

\* Whatever the requests, workers and administrators do, in any overlap, the rows
\* of analysis_service.py stay well formed: in particular no lease is granted
\* beyond max_attempts, so every result file has a name of its own attempt.
THEOREM TypeCorrect == Spec => []TypeOK
  <1>1. Inv => TypeOK
    BY DEF Inv
  <1>2. QED
    BY InitInv, NextInv, <1>1, PTL DEF Spec

\* No overlap of requests leaves a leased or running job without lease_expires_at,
\* which neither the reaper nor lease_next_analysis_job could ever recover.
THEOREM LeaseRecoverable == Spec => []NoStrandedLease
  <1>1. Inv => NoStrandedLease
    BY DEF Inv, RowOK, NoStrandedLease
  <1>2. QED
    BY InitInv, NextInv, <1>1, PTL DEF Spec

\* A worker keeps a live lease until it answers, an administrator takes the job
\* away or the lease lapses: no overlap hands the job to a second worker before.
THEOREM LiveLeaseIsKept == Spec => LiveLeaseKept
  <1> DEFINE Kept == \A j \in Jobs :
                       db[j].status \in Active /\ db[j].lease = "live"
                       => db'[j].worker \in {db[j].worker, None}
  <1>1. ASSUME Inv, [Next]_vars
        PROVE  Kept
    <2>1. SUFFICES ASSUME NEW j \in Jobs, db[j].status \in Active, db[j].lease = "live"
                   PROVE  db'[j].worker \in {db[j].worker, None}
      OBVIOUS
    <2>2. ASSUME NEW s \in Slots, CommitLease(s, j)
          PROVE  FALSE
      BY <2>1, <2>2 DEF CommitLease, Leasable, Active
    <2>3. QED
      BY <1>1, <2>2, RowStep DEF Quiet
  <1>2. Inv /\ [Next]_vars => [Kept]_vars
    BY <1>1
  <1> HIDE DEF Kept
  <1>3. Spec => [][Kept]_vars
    BY InitInv, NextInv, <1>2, PTL DEF Spec
  <1>4. QED
    BY <1>3 DEF LiveLeaseKept, Kept

-------------------------------------------------------------------------------
(* Attempt numbers, as long as no retry resets them *)

ReqCounted(q)   == (q.op = "retry" => ~q.flag) /\ q.key = q.grant
ProcCounted(st) == st.key = st.grant

\* Every key in flight carries the number of the lease it was signed for.
KeysCounted ==
    /\ \A s \in Slots : ReqCounted(req[s])
    /\ \A p \in Procs : ProcCounted(proc[p])

CountInv == KeysCounted /\ \A j \in Jobs : db[j].attempts = grants[j]

LEMMA LeaseCounted ==
    ASSUME Inv, NEW s \in Slots, NEW j \in Jobs, CommitLease(s, j)
    PROVE  db'[j].attempts = db[j].attempts + 1 /\ grants'[j] = grants[j] + 1
  <1> DEFINE q       == req[s]
             loaded  == [db[j] EXCEPT !.session = q.snap[j].session,
                                      !.collection = q.snap[j].collection]
             attempt == NextAttempt(q, j)
             leased  == [loaded EXCEPT !.status = "leased", !.worker = q.as, !.lease = "live",
                                  !.attempts = attempt, !.key = ResultFile(attempt),
                                  !.session = "ingesting", !.collection = "running"]
  <1>1. db' = [db EXCEPT ![j] = Flush(db[j], loaded, leased)]
    BY DEF CommitLease
  <1>2. db[j] \in Row /\ db[j].attempts \in Nat /\ db \in [Jobs -> Row] /\ grants \in [Jobs -> Nat]
    BY DEF Inv, TypeOK, Row
  <1>3. attempt = db[j].attempts + 1 /\ attempt # db[j].attempts
    BY <1>2 DEF NextAttempt
  <1>4. loaded.attempts = db[j].attempts /\ leased.attempts = attempt
    BY <1>2 DEF Row
  <1>5. Flush(db[j], loaded, leased).attempts = attempt
    BY <1>2, <1>3, <1>4 DEF Flush, Row
  <1>6. QED
    BY <1>1, <1>2, <1>3, <1>5 DEF CommitLease

LEMMA OpenedCounted ==
    ASSUME Inv, KeysCounted, NEW s \in Slots, NEW q, ReqCounted(q), Open(s, q)
    PROVE  \A t \in Slots : ReqCounted(req'[t])
  BY DEF Open, KeysCounted, Inv, TypeOK

LEMMA ClosedCounted ==
    ASSUME Inv, KeysCounted, NEW s \in Slots, Close(s)
    PROVE  \A t \in Slots : ReqCounted(req'[t])
  <1>1. ReqCounted(NoRequest)
    BY DEF ReqCounted, NoRequest
  <1>2. QED
    BY <1>1 DEF Close, KeysCounted, Inv, TypeOK

LEMMA AnsweredCounted ==
    ASSUME Inv, KeysCounted, NEW q \in Request, NEW st, ProcCounted(st), proc' = Answer(q, st)
    PROVE  \A p \in Procs : ProcCounted(proc'[p])
  BY DEF Answer, Request, KeysCounted, Inv, TypeOK

LEMMA ServeCounted ==
    ASSUME Inv, CountInv, NEW s \in Slots, Serve(s)
    PROVE  KeysCounted'
  <1> DEFINE q == req[s]
  <1>1. q \in Request /\ ReqCounted(q) /\ KeysCounted
    BY DEF Inv, TypeOK, CountInv, KeysCounted
  <1>2. ProcCounted(IdleProc) /\ \A stage \in Stage : ProcCounted(AtStage(q, stage))
    BY <1>1 DEF ProcCounted, IdleProc, AtStage, ReqCounted
  <1>3. \A t \in Slots : ReqCounted(req'[t])
    <2>1. CASE VerifyFinalize(s)
      <3>1. PICK verdict \in {"accept", "reject"} : req' = [req EXCEPT ![s].op = verdict]
        BY <2>1 DEF VerifyFinalize
      <3>2. ReqCounted([q EXCEPT !.op = verdict])
        BY <1>1 DEF ReqCounted, Request
      <3>3. QED
        BY <1>1, <3>1, <3>2 DEF KeysCounted, Inv, TypeOK
    <2>2. CASE Close(s)
      BY <1>1, <2>2, ClosedCounted
    <2>3. QED
      BY <2>1, <2>2 DEF Serve, CommitLease, NothingToLease, CommitHeartbeat, MismatchFinalize,
         CommitAccept, CommitReject, AbortFinalize, CommitFail, CommitCancel, CommitRetry,
         CommitDisable, CommitRefinalize
  <1>4. \A p \in Procs : ProcCounted(proc'[p])
    <2>1. ASSUME NEW j \in Jobs, CommitLease(s, j)
          PROVE  \A p \in Procs : ProcCounted(proc'[p])
      <3> DEFINE st == [stage |-> "leased", job |-> j,
                        key |-> ResultFile(NextAttempt(q, j)), grant |-> grants[j] + 1]
      <3>1. proc' = Answer(q, st)
        BY <2>1 DEF CommitLease
      <3>2. db[j].attempts = grants[j]
        BY DEF CountInv
      <3>3. ProcCounted(st)
        BY <3>2 DEF ProcCounted, ResultFile, NextAttempt
      <3>4. QED
        BY <1>1, <3>1, <3>3, AnsweredCounted
    <2>2. CASE \E st \in {IdleProc} \cup {AtStage(q, stage) : stage \in Stage} : proc' = Answer(q, st)
      BY <1>1, <1>2, <2>2, AnsweredCounted
    <2>3. CASE proc' = proc
      BY <1>1, <2>3 DEF KeysCounted
    <2>4. \/ \E j \in Jobs : CommitLease(s, j)
          \/ \E st \in {IdleProc} \cup {AtStage(q, stage) : stage \in Stage} : proc' = Answer(q, st)
          \/ proc' = proc
      <3>1. "working" \in Stage /\ "failing" \in Stage
        BY DEF Stage
      <3>2. QED
        BY <3>1 DEF Serve, NothingToLease, CommitHeartbeat, VerifyFinalize, MismatchFinalize,
           CommitAccept, CommitReject, AbortFinalize, CommitFail, CommitCancel, CommitRetry,
           CommitDisable, CommitRefinalize
    <2>5. QED
      BY <2>1, <2>2, <2>3, <2>4
  <1>5. QED
    BY <1>3, <1>4 DEF KeysCounted

LEMMA OtherCounted ==
    ASSUME Inv, CountInv, TRUE \notin ResetOptions,
           \/ \E j \in Jobs : Enqueue(j) \/ Lapse(j)
           \/ \E s \in Slots : Administer(s) \/ IngestSome(s) \/ ReapSome(s)
           \/ \E p \in Procs : PollFor(p) \/ Work(p) \/ Crash(p)
    PROVE  KeysCounted'
  <1>1. KeysCounted /\ proc \in [Procs -> ProcState]
    BY DEF CountInv, Inv, TypeOK
  <1>2. \A t \in Slots : ReqCounted(req'[t])
    <2>1. ASSUME NEW s \in Slots, NEW q, Open(s, q), ReqCounted(q)
          PROVE  \A t \in Slots : ReqCounted(req'[t])
      BY <1>1, <2>1, OpenedCounted
    <2>2. ASSUME NEW j
          PROVE  ReqCounted(AdminCall("cancel", j, FALSE)) /\ ReqCounted(AdminCall("refinalize", j, FALSE))
      BY DEF AdminCall, ReqCounted
    <2>3. ASSUME NEW j, NEW reset \in ResetOptions
          PROVE  ReqCounted(AdminCall("retry", j, reset))
      BY QueueAssumption DEF AdminCall, ReqCounted
    <2>4. ASSUME NEW op \in {"lease", "disable"}, NEW p, NEW w
          PROVE  ReqCounted(QueueCall(op, p, w))
      BY DEF QueueCall, ReqCounted
    <2>5. ASSUME NEW p \in Procs, NEW op \in {"heartbeat", "finalize", "fail"}, NEW flag
          PROVE  ReqCounted(CallOf(p, op, flag))
      BY <1>1 DEF CallOf, ReqCounted, ProcCounted, KeysCounted
    <2>6. ASSUME NEW p \in Procs
          PROVE  \A s \in Slots : ReqCounted(Detach(p)[s])
      BY <1>1 DEF Detach, ReqCounted, KeysCounted, Inv, TypeOK, Request
    <2>7. CASE \E s \in Slots : Administer(s)
      <3>1. PICK s \in Slots : Administer(s)
        BY <2>7
      <3>2. CASE \E j \in Repeatable : BeginRefinalize(j, s)
        BY <2>1, <2>2, <3>2 DEF BeginRefinalize
      <3>3. CASE \/ \E j \in Jobs : BeginCancel(j, s)
                 \/ \E j \in Jobs, reset \in ResetOptions : BeginRetry(j, s, reset)
                 \/ \E w \in Disableable : BeginDisable(w, s)
        BY <2>1, <2>2, <2>3, <2>4, <3>3 DEF BeginCancel, BeginRetry, BeginDisable
      <3>4. QED
        BY <3>1, <3>2, <3>3 DEF Administer
    <2>8. CASE \E p \in Procs : PollFor(p)
      BY <2>1, <2>4, <2>8 DEF PollFor, BeginLease
    <2>9. CASE \E p \in Procs : Work(p)
      BY <1>1, <2>1, <2>5, <2>6, <2>9
      DEF Work, BeginHeartbeat, BeginFinalize, BeginFail, GiveUp, Refused, Upload, KeysCounted
    <2>10. CASE \E p \in Procs : Crash(p)
      BY <2>6, <2>10 DEF Crash
    <2>11. CASE req' = req
      BY <1>1, <2>11 DEF KeysCounted
    <2>12. QED
      BY <2>7, <2>8, <2>9, <2>10, <2>11 DEF Enqueue, Lapse, IngestSome, Ingest, ReapSome, Reap
  <1>3. \A p \in Procs : ProcCounted(proc'[p])
    <2>1. ASSUME NEW p \in Procs, NEW stage, proc' = [proc EXCEPT ![p].stage = stage]
          PROVE  \A t \in Procs : ProcCounted(proc'[t])
      BY <1>1, <2>1 DEF KeysCounted, ProcCounted, ProcState
    <2>2. ASSUME NEW p \in Procs, proc' = [proc EXCEPT ![p] = IdleProc]
          PROVE  \A t \in Procs : ProcCounted(proc'[t])
      BY <1>1, <2>2 DEF KeysCounted, ProcCounted, IdleProc
    <2>3. CASE proc' = proc
      BY <1>1, <2>3 DEF KeysCounted
    <2>4. ASSUME NEW p \in Procs, Refused(p)
          PROVE  \A t \in Procs : ProcCounted(proc'[t])
      BY <1>1, <2>4 DEF Refused, KeysCounted, ProcCounted, ProcState, IdleProc
    <2>5. CASE \E p \in Procs : PollFor(p) \/ Work(p) \/ Crash(p)
      BY <2>1, <2>2, <2>4, <2>5 DEF PollFor, BeginLease, Work, BeginHeartbeat, Upload,
         BeginFinalize, BeginFail, GiveUp, Crash
    <2>6. QED
      BY <2>3, <2>5 DEF Enqueue, Lapse, Administer, BeginCancel, BeginRetry, BeginDisable, BeginRefinalize,
         IngestSome, Ingest, ReapSome, Reap
  <1>4. QED
    BY <1>2, <1>3 DEF KeysCounted

LEMMA CountStep ==
    ASSUME TRUE \notin ResetOptions, Inv, CountInv, [Next]_vars
    PROVE  CountInv'
  <1>1. CASE Next
    <2>1. KeysCounted'
      BY <1>1, ServeCounted, OtherCounted DEF Next
    <2>2. ASSUME NEW j \in Jobs
          PROVE  db'[j].attempts = grants'[j]
      <3>1. CASE Quiet(j)
        BY <3>1 DEF Quiet, CountInv, KeysCounted, ReqCounted
      <3>2. CASE \E s \in Slots : CommitLease(s, j)
        BY <3>2, LeaseCounted DEF CountInv
      <3>3. QED
        BY <3>1, <3>2, RowStep
    <2>3. QED
      BY <2>1, <2>2 DEF CountInv
  <1>2. CASE UNCHANGED vars
    BY <1>2 DEF vars, CountInv, KeysCounted
  <1>3. QED
    BY <1>1, <1>2

LEMMA InitCount == Init => CountInv
  BY DEF Init, CountInv, KeysCounted, ReqCounted, ProcCounted, NoRequest, IdleProc, NewRow

LEMMA Counted ==
    ASSUME TRUE \notin ResetOptions
    PROVE  Spec => []CountInv
  <1>1. Inv /\ CountInv /\ [Next]_vars => CountInv'
    BY CountStep
  <1>2. QED
    BY InitInv, NextInv, InitCount, <1>1, PTL DEF Spec

\* As long as administrators retry without reset_attempts, attempts is the exact
\* number of leases ever committed: the row lock of lease_next_analysis_job is
\* enough, no other handler can undo or repeat an increment.
THEOREM AttemptsAreCounted == Spec => []AttemptsCounted
  <1>1. CASE TRUE \in ResetOptions
    <2>1. AttemptsCounted
      BY <1>1 DEF AttemptsCounted
    <2>2. QED
      BY <2>1, PTL
  <1>2. CASE TRUE \notin ResetOptions
    <2>1. CountInv => AttemptsCounted
      BY DEF CountInv, AttemptsCounted
    <2>2. Spec => []CountInv
      BY <1>2, Counted
    <2>3. QED
      BY <2>1, <2>2, PTL
  <1>3. QED
    BY <1>1, <1>2

\* As long as administrators retry without reset_attempts, no two leases of a job
\* ever write the same analysis-result object (_attempt_result_filename).
THEOREM ResultKeysAreDistinct ==
    ASSUME TRUE \notin ResetOptions
    PROVE  Spec => []DistinctResultKeys
  <1>1. CountInv => DistinctResultKeys
    BY DEF CountInv, KeysCounted, ProcCounted, DistinctResultKeys
  <1>2. QED
    BY Counted, <1>1, PTL

-------------------------------------------------------------------------------
(* Requests one at a time *)

\* The API serves one request after the other.
OneAtATime == \A s, t \in Slots : s = t

\* The same row, but for a lease that may have lapsed.
SameButLease(a, b) == b = [a EXCEPT !.lease = b.lease]

\* AsQueued, one status at a time.
QueuedRow(r) ==
    /\ r.status = "absent"    => r.session = "open"      /\ r.collection = "pending"
    /\ r.status = "pending"   => r.session = "uploaded"  /\ r.collection = "pending"
    /\ r.status \in Active    => r.session = "ingesting" /\ r.collection = "running"
    /\ r.status = "succeeded" => r.session = "succeeded" /\ r.collection \in Outcomes
    /\ r.status = "failed"    => r.session \in {"failed", "uploaded"} /\ r.collection = "failed"
    /\ r.status = "cancelled" => r.session \in {"failed", "uploaded"} /\ r.collection = "cancelled"

\* What Coupled says of the row of one job.
CoupledRow(j, r) == QueuedRow(r) \/ (j \in Ingestible /\ AsIngested(r))

\* What an open request read is what the tables still hold, except for leases
\* that lapsed and jobs that entered the queue meanwhile.
ReadsLatest(q) ==
    /\ q.op # "none" =>
         \A j \in Jobs : /\ CoupledRow(j, q.snap[j])
                         /\ q.snap[j].status # "absent" => SameButLease(q.snap[j], db[j])
    /\ q.op = "cancel" => q.snap[q.job].status \in Active \cup {"pending"}

SerialInv ==
    /\ \A j \in Jobs : CoupledRow(j, db[j])
    /\ \A s \in Slots : ReadsLatest(req[s])

\* What one step may make of the status of a row, and of the number of its leases.
StatusMoves(old, new) ==
    \/ old = "absent" /\ new = "pending"
    \/ old \in Active /\ new \in Active \cup {"pending"}
    \/ old \in Active \cup {"pending"} /\ new \in {"failed", "cancelled"}
    \/ old \in {"failed", "cancelled"} /\ new = "pending"

Decides(j) == \E s \in Slots :
    /\ req[s].op = "accept"
    /\ req[s].job = j
    /\ db'[j].sha = req[s].grant
    /\ db'[j].key = req[s].key
    /\ db'[j].files[db'[j].key] = req[s].grant

\* The job is left as it is, whatever becomes of its session and collection job.
Steady(j) ==
    /\ JobOf(db'[j]) = JobOf(db[j])
    /\ db[j].status = "succeeded" => db'[j] = db[j] \/ j \in Ingestible

RowMove(j) ==
    \/ /\ grants'[j] = grants[j]
       /\ Steady(j) \/ StatusMoves(db[j].status, db'[j].status)
    \/ /\ grants'[j] = grants[j] + 1
       /\ db[j].status \in Active \cup {"pending"}
       /\ db'[j].status = "leased"
    \/ /\ grants'[j] = grants[j]
       /\ db[j].status \in Active
       /\ db'[j].status = "succeeded"
       /\ Decides(j)

SoundMove(j) == RowMove(j) /\ CoupledRow(j, db'[j])

\* A write over the row that was read leaves what the request made of it.
LEMMA FlushedOverSame ==
    ASSUME NEW cur \in Row, NEW snap \in Row, NEW new \in Row, SameButLease(snap, cur)
    PROVE  LET row == Flush(cur, snap, new) IN
           /\ row \in Row
           /\ row.status = new.status
           /\ row.session = new.session
           /\ row.collection = new.collection
           /\ row.key = new.key
           /\ row.sha = new.sha
  <1>1. \A c \in {"status", "session", "collection", "key", "sha"} : cur[c] = snap[c]
    BY DEF SameButLease, Row
  <1>2. Flush(cur, snap, new) \in Row
    BY FlushedRow
  <1>3. QED
    BY <1>1, <1>2 DEF Flush, Row

LEMMA SameStatus ==
    ASSUME NEW a \in Row, NEW b \in Row, SameButLease(a, b)
    PROVE  /\ b.status = a.status
           /\ b.session = a.session
           /\ b.collection = a.collection
  BY DEF SameButLease, Row

LEMMA SameItself == ASSUME NEW r \in Row PROVE SameButLease(r, r)
  BY DEF SameButLease, Row

\* The states the row updates pair up belong together.
LEMMA CoupledUpdates ==
    ASSUME NEW r \in Row, NEW reset \in BOOLEAN
    PROVE  /\ QueuedRow(Requeued(r))
           /\ QueuedRow(Restarted(r, reset))
           /\ QueuedRow(Failed(r))
           /\ QueuedRow(Recovered(r))
  <1>1. /\ Requeued(r) \in Row
        /\ Requeued(r).status = "pending"
        /\ Requeued(r).session = "uploaded"
        /\ Requeued(r).collection = "pending"
    BY DEF Requeued, Row
  <1>2. ASSUME NEW b \in BOOLEAN
        PROVE  /\ Restarted(r, b).status = "pending"
               /\ Restarted(r, b).session = "uploaded"
               /\ Restarted(r, b).collection = "pending"
    BY <1>1 DEF Restarted, Row
  <1>3. /\ Failed(r).status = "failed"
        /\ Failed(r).session = "failed"
        /\ Failed(r).collection = "failed"
    BY DEF Failed, Row, Terminal
  <1>4. QueuedRow(Requeued(r)) /\ QueuedRow(Failed(r))
        /\ \A b \in BOOLEAN : QueuedRow(Restarted(r, b))
    BY <1>1, <1>2, <1>3 DEF QueuedRow, Active
  <1>5. QED
    BY <1>4 DEF Recovered

\* A row with the states of another agrees with itself as the other does.
LEMMA CoupledByStates ==
    ASSUME NEW r, NEW n, r.status = n.status, r.session = n.session, r.collection = n.collection
    PROVE  /\ QueuedRow(n) => QueuedRow(r)
           /\ \A j \in Jobs : CoupledRow(j, n) => CoupledRow(j, r)
  BY DEF QueuedRow, CoupledRow, AsIngested

\* Rows of the same job agree on what says what became of it.
LEMMA SameJob ==
    ASSUME NEW a \in Row, NEW b \in Row, JobOf(a) = JobOf(b)
    PROVE  /\ a.status = b.status /\ a.worker = b.worker /\ a.key = b.key
           /\ a.sha = b.sha /\ a.files = b.files
  <1>1. ASSUME NEW r \in Row
        PROVE  /\ JobOf(r).status = r.status /\ JobOf(r).worker = r.worker /\ JobOf(r).key = r.key
               /\ JobOf(r).sha = r.sha /\ JobOf(r).files = r.files
    BY DEF JobOf, Row
  <1>2. QED
    BY <1>1

LEMMA OtherRow ==
    ASSUME SerialInv, NEW j \in Jobs, db'[j] = db[j], grants'[j] = grants[j]
    PROVE  SoundMove(j)
  BY DEF SoundMove, RowMove, Steady, SerialInv

\* What a request about one job knows of its row when it is the only request.
LEMMA RowRead ==
    ASSUME Inv, SerialInv, NEW s \in Slots, req[s].op \in WorkerOps \cup {"cancel", "retry"}
    PROVE  LET q == req[s] IN
           /\ q.job \in Jobs
           /\ q.snap[q.job] \in Row
           /\ db[q.job] \in Row
           /\ SameButLease(q.snap[q.job], db[q.job])
           /\ db[q.job].status = q.snap[q.job].status
           /\ q.op \in WorkerOps => q.snap[q.job].status \in Active
           /\ q.op = "cancel" => q.snap[q.job].status \in Active \cup {"pending"}
           /\ q.op = "retry" => q.snap[q.job].status \in {"failed", "cancelled"}
  <1> DEFINE q == req[s]
  <1>1. q \in Request /\ RequestOK(q) /\ ReadsLatest(q) /\ q.op # "none"
    BY DEF Inv, TypeOK, SerialInv, WorkerOps
  <1>2. q.job \in Jobs /\ q.snap[q.job] \in Row /\ db[q.job] \in Row
    BY <1>1 DEF RequestOK, Inv, TypeOK
  <1>3. /\ q.op \in WorkerOps => q.snap[q.job].status \in Active
        /\ q.op = "cancel" => q.snap[q.job].status \in Active \cup {"pending"}
        /\ q.op = "retry" => q.snap[q.job].status \in {"failed", "cancelled"}
    BY <1>1 DEF RequestOK, ReadsLatest
  <1>4. SameButLease(q.snap[q.job], db[q.job])
    <2>1. q.snap[q.job].status # "absent"
      BY <1>3 DEF Active
    <2>2. QED
      BY <1>1, <1>2, <2>1 DEF ReadsLatest
  <1>5. QED
    BY <1>2, <1>3, <1>4, SameStatus

\* A request about one job that writes what it made of the row it read.
LEMMA DecisionMove ==
    ASSUME Inv, SerialInv, NEW s \in Slots, req[s].op \in WorkerOps \cup {"cancel", "retry"},
           NEW new \in Row, CoupledRow(req[s].job, new), NEW row \in Row,
           row.status = new.status, row.session = new.session, row.collection = new.collection,
           db' = [db EXCEPT ![req[s].job] = row], grants' = grants,
           StatusMoves(req[s].snap[req[s].job].status, new.status),
           NEW j \in Jobs
    PROVE  SoundMove(j)
  <1>1. req[s].job \in Jobs /\ db[req[s].job].status = req[s].snap[req[s].job].status
    BY RowRead
  <1>2. CASE j = req[s].job
    <2>1. db'[j] = row
      BY <1>1, <1>2 DEF Inv, TypeOK
    <2>2. CoupledRow(req[s].job, row)
      BY <1>1, CoupledByStates
    <2>3. QED
      BY <1>1, <1>2, <2>1, <2>2 DEF SoundMove, RowMove, CoupledRow
  <1>3. CASE j # req[s].job
    BY <1>1, <1>3, OtherRow DEF Inv, TypeOK
  <1>4. QED
    BY <1>2, <1>3

\* Fail, cancel and retry.
LEMMA EndMove ==
    ASSUME Inv, SerialInv, NEW s \in Slots, CommitFail(s) \/ CommitCancel(s) \/ CommitRetry(s),
           NEW j \in Jobs
    PROVE  SoundMove(j)
  <1> DEFINE q    == req[s]
             snap == q.snap[q.job]
  <1>1. q.op \in {"fail", "cancel", "retry"} /\ grants' = grants /\ q.flag \in BOOLEAN
    BY DEF CommitFail, CommitCancel, CommitRetry, Inv, TypeOK, Request
  <1>2. /\ q.job \in Jobs /\ snap \in Row /\ db[q.job] \in Row
        /\ SameButLease(snap, db[q.job])
        /\ db \in [Jobs -> Row]
    BY <1>1, RowRead DEF WorkerOps, Inv, TypeOK
  <1>3. \E new \in Row : /\ QueuedRow(new)
                         /\ StatusMoves(snap.status, new.status)
                         /\ db' = [db EXCEPT ![q.job] = Flush(db[q.job], snap, new)]
    <2>1. CASE CommitFail(s)
      <3> DEFINE new == IF q.flag /\ snap.attempts < MaxAttempts THEN Requeued(snap) ELSE Failed(snap)
      <3>1. new \in Row /\ QueuedRow(new) /\ new.status \in {"pending", "failed"}
        BY <1>2, RowUpdates, CoupledUpdates
      <3>2. db' = [db EXCEPT ![q.job] = Flush(db[q.job], snap, new)] /\ q.op = "fail"
        BY <2>1, <1>2 DEF CommitFail
      <3>3. snap.status \in Active
        BY <3>2, RowRead DEF WorkerOps
      <3> HIDE DEF new
      <3>4. QED
        BY <3>1, <3>2, <3>3 DEF StatusMoves
    <2>2. CASE CommitCancel(s)
      <3> DEFINE new == [Failed(snap) EXCEPT !.status = "cancelled", !.collection = "cancelled"]
      <3>1. new \in Row /\ QueuedRow(new) /\ new.status = "cancelled"
        <4>1. Failed(snap) \in Row /\ Failed(snap).status = "failed" /\ QueuedRow(Failed(snap))
          BY <1>2, RowUpdates, CoupledUpdates
        <4>2. Failed(snap).session = "failed"
          <5>1. ASSUME NEW r \in Row PROVE Failed(r).session = "failed"
            BY <5>1 DEF Failed, Row
          <5>2. QED
            BY <5>1, <1>2
        <4>3. ASSUME NEW f \in Row, f.session = "failed"
              PROVE  LET c == [f EXCEPT !.status = "cancelled", !.collection = "cancelled"] IN
                     /\ c \in Row
                     /\ c.status = "cancelled" /\ c.session = "failed" /\ c.collection = "cancelled"
          BY <4>3 DEF Row, Terminal
        <4>4. new \in Row /\ new.status = "cancelled" /\ new.session = "failed"
              /\ new.collection = "cancelled"
          BY <4>1, <4>2, <4>3
        <4> HIDE DEF new
        <4>5. QED
          BY <4>4 DEF QueuedRow, Active
      <3>2. db' = [db EXCEPT ![q.job] = Flush(db[q.job], snap, new)] /\ q.op = "cancel"
        BY <2>2, <1>2 DEF CommitCancel
      <3>3. snap.status \in Active \cup {"pending"}
        BY <3>2, RowRead
      <3> HIDE DEF new
      <3>4. QED
        BY <3>1, <3>2, <3>3 DEF StatusMoves
    <2>3. CASE CommitRetry(s)
      <3> DEFINE new == Restarted(snap, q.flag)
      <3>1. new \in Row /\ QueuedRow(new) /\ new.status = "pending"
        BY <1>1, <1>2, RowUpdates, CoupledUpdates
      <3>2. db' = [db EXCEPT ![q.job] = Flush(db[q.job], snap, new)] /\ q.op = "retry"
        BY <2>3, <1>2 DEF CommitRetry
      <3>3. snap.status \in {"failed", "cancelled"}
        BY <3>2, RowRead
      <3> HIDE DEF new
      <3>4. QED
        BY <3>1, <3>2, <3>3 DEF StatusMoves
    <2>4. QED
      BY <2>1, <2>2, <2>3
  <1>4. PICK new \in Row : /\ QueuedRow(new)
                           /\ StatusMoves(snap.status, new.status)
                           /\ db' = [db EXCEPT ![q.job] = Flush(db[q.job], snap, new)]
    BY <1>3
  <1>5. Flush(db[q.job], snap, new) \in Row
        /\ Flush(db[q.job], snap, new).status = new.status
        /\ Flush(db[q.job], snap, new).session = new.session
        /\ Flush(db[q.job], snap, new).collection = new.collection
    BY <1>2, FlushedOverSame
  <1>6. QED
    BY <1>1, <1>4, <1>5, DecisionMove DEF WorkerOps, CoupledRow

LEMMA BeatMove ==
    ASSUME Inv, SerialInv, NEW s \in Slots, CommitHeartbeat(s), NEW j \in Jobs
    PROVE  SoundMove(j)
  <1> DEFINE q       == req[s]
             snap    == q.snap[q.job]
             new     == [snap EXCEPT !.status = "running"]
             flushed == Flush(db[q.job], snap, new)
             row     == [flushed EXCEPT !.lease = "live"]
  <1>1. /\ q.op = "heartbeat"
        /\ db' = [db EXCEPT ![q.job] = row]
        /\ grants' = grants
    BY DEF CommitHeartbeat
  <1>2. /\ q.job \in Jobs /\ snap \in Row /\ db[q.job] \in Row
        /\ SameButLease(snap, db[q.job])
        /\ snap.status \in Active
        /\ db[q.job].status = snap.status
    BY <1>1, RowRead DEF WorkerOps
  <1>3. CoupledRow(q.job, snap)
    <2>1. CoupledRow(q.job, db[q.job])
      BY <1>2 DEF SerialInv
    <2>2. QED
      BY <1>2, <2>1, SameStatus, CoupledByStates
  <1>4. /\ new \in Row /\ new.status = "running"
        /\ new.session = snap.session /\ new.collection = snap.collection
    BY <1>2 DEF Row, Active
  <1> HIDE DEF new
  <1>5. CoupledRow(q.job, new)
    <2>1. CASE QueuedRow(snap)
      <3>1. snap.session = "ingesting" /\ snap.collection = "running"
        BY <1>2, <2>1 DEF QueuedRow
      <3>2. QED
        BY <1>4, <3>1 DEF CoupledRow, QueuedRow, Active
    <2>2. CASE q.job \in Ingestible /\ AsIngested(snap)
      BY <1>4, <2>2 DEF CoupledRow, AsIngested
    <2>3. QED
      BY <1>3, <2>1, <2>2 DEF CoupledRow
  <1>6. /\ flushed \in Row /\ flushed.status = new.status
        /\ flushed.session = new.session /\ flushed.collection = new.collection
    BY <1>2, <1>4, FlushedOverSame
  <1> HIDE DEF flushed
  <1>7. /\ row \in Row /\ row.status = new.status
        /\ row.session = new.session /\ row.collection = new.collection
    BY <1>6 DEF Row
  <1> HIDE DEF row
  <1>8. StatusMoves(snap.status, new.status)
    BY <1>2, <1>4 DEF StatusMoves, Active
  <1>9. QED
    BY <1>1, <1>4, <1>5, <1>7, <1>8, DecisionMove DEF WorkerOps, CoupledRow

\* The row a finalize flushes, over the row it read.
LEMMA ResultOverSame ==
    ASSUME Inv, SerialInv, NEW s \in Slots, req[s].op \in {"accept", "reject"}, NEW new \in Row
    PROVE  LET q   == req[s]
               row == FlushResult(q, new)
           IN  /\ row \in Row
               /\ row.status = new.status
               /\ row.session = new.session
               /\ row.collection = new.collection
               /\ row.key = new.key
               /\ row.sha = new.sha
               /\ row.files[q.key] = q.grant
  <1> DEFINE q       == req[s]
             cur     == db[q.job]
             snap    == q.snap[q.job]
             flushed == Flush(cur, snap, new)
             files   == [f \in Files |-> IF f \in {Aux, q.key} THEN q.grant ELSE cur.files[f]]
  <1>1. snap \in Row /\ cur \in Row /\ SameButLease(snap, cur)
    BY RowRead DEF WorkerOps
  <1>2. q.key \in Files /\ q.grant \in Nat
    BY DEF Inv, TypeOK, Request
  <1>3. files \in [Files -> Nat] /\ files[q.key] = q.grant
    BY <1>1, <1>2 DEF Row
  <1>4. /\ flushed \in Row
        /\ flushed.status = new.status
        /\ flushed.session = new.session
        /\ flushed.collection = new.collection
        /\ flushed.key = new.key
        /\ flushed.sha = new.sha
    BY <1>1, FlushedOverSame
  <1>5. FlushResult(q, new) = [flushed EXCEPT !.files = files]
    BY DEF FlushResult
  <1> HIDE DEF flushed, files
  <1>6. QED
    BY <1>3, <1>4, <1>5 DEF Row

LEMMA RejectMove ==
    ASSUME Inv, SerialInv, NEW s \in Slots, CommitReject(s), NEW j \in Jobs
    PROVE  SoundMove(j)
  <1> DEFINE q    == req[s]
             snap == q.snap[q.job]
             new  == Failed(snap)
  <1>1. q.op = "reject" /\ db' = [db EXCEPT ![q.job] = FlushResult(q, new)] /\ grants' = grants
    BY DEF CommitReject
  <1>2. snap \in Row /\ snap.status \in Active
    BY <1>1, RowRead DEF WorkerOps
  <1>3. new \in Row /\ new.status = "failed" /\ QueuedRow(new)
    BY <1>2, RowUpdates, CoupledUpdates
  <1> HIDE DEF new
  <1>4. StatusMoves(snap.status, new.status)
    BY <1>2, <1>3 DEF StatusMoves
  <1>5. QED
    BY <1>1, <1>3, <1>4, ResultOverSame, DecisionMove DEF WorkerOps, CoupledRow

LEMMA AcceptMove ==
    ASSUME Inv, SerialInv, NEW s \in Slots, NEW outcome \in Outcomes, CommitAccept(s, outcome),
           NEW j \in Jobs
    PROVE  SoundMove(j)
  <1> DEFINE q    == req[s]
             snap == q.snap[q.job]
             new  == [snap EXCEPT !.status = "succeeded", !.key = q.key, !.sha = q.grant,
                        !.lease = "none", !.session = "succeeded", !.collection = outcome]
             row  == FlushResult(q, new)
  <1>1. q.op = "accept" /\ db' = [db EXCEPT ![q.job] = row] /\ grants' = grants
    BY DEF CommitAccept
  <1>2. /\ q.job \in Jobs /\ snap \in Row /\ snap.status \in Active
        /\ db[q.job].status = snap.status
    BY <1>1, RowRead DEF WorkerOps
  <1>3. q.key \in Files /\ q.grant \in Nat
    BY DEF Inv, TypeOK, Request
  <1>4. /\ new \in Row /\ new.status = "succeeded" /\ new.session = "succeeded"
        /\ new.collection = outcome /\ new.key = q.key /\ new.sha = q.grant
    BY <1>2, <1>3 DEF Row, Outcomes, Terminal
  <1> HIDE DEF new
  <1>5. /\ row.status = "succeeded" /\ row.session = "succeeded"
        /\ row.collection = outcome /\ row.key = q.key /\ row.sha = q.grant
        /\ row.files[q.key] = q.grant
    BY <1>1, <1>4, ResultOverSame
  <1> HIDE DEF row
  <1>6. CASE j = q.job
    <2>1. db'[j] = row
      BY <1>1, <1>2, <1>6 DEF Inv, TypeOK
    <2>2. QueuedRow(row)
      BY <1>5 DEF QueuedRow, Active
    <2>3. Decides(j)
      BY <1>1, <1>5, <1>6, <2>1 DEF Decides
    <2>4. QED
      BY <1>1, <1>2, <1>5, <1>6, <2>1, <2>2, <2>3 DEF SoundMove, RowMove, CoupledRow
  <1>7. CASE j # q.job
    BY <1>1, <1>7, OtherRow DEF Inv, TypeOK
  <1>8. QED
    BY <1>6, <1>7

LEMMA LeaseMove ==
    ASSUME Inv, SerialInv, NEW s \in Slots, NEW i \in Jobs, CommitLease(s, i), NEW j \in Jobs
    PROVE  SoundMove(j)
  <1> DEFINE q       == req[s]
             snap    == q.snap[i]
             cur     == db[i]
             loaded  == [cur EXCEPT !.session = snap.session, !.collection = snap.collection]
             attempt == NextAttempt(q, i)
             leased  == [loaded EXCEPT !.status = "leased", !.worker = q.as, !.lease = "live",
                                  !.attempts = attempt, !.key = ResultFile(attempt),
                                  !.session = "ingesting", !.collection = "running"]
             row     == Flush(cur, loaded, leased)
  <1>1. /\ q.op = "lease" /\ Leasable(cur)
        /\ db' = [db EXCEPT ![i] = row]
        /\ grants' = [grants EXCEPT ![i] = @ + 1]
    BY DEF CommitLease
  <1>2. q \in Request /\ RequestOK(q) /\ ReadsLatest(q)
    BY DEF Inv, TypeOK, SerialInv
  <1>3. cur \in Row /\ snap \in Row /\ db \in [Jobs -> Row] /\ grants \in [Jobs -> Nat]
    BY <1>1, <1>2 DEF RequestOK, Inv, TypeOK
  <1>4. /\ loaded \in Row /\ loaded.status = cur.status
        /\ loaded.session = snap.session /\ loaded.collection = snap.collection
    BY <1>3 DEF Row
  <1> HIDE DEF loaded, attempt
  <1>5. /\ leased.status = "leased" /\ leased.session = "ingesting"
        /\ leased.collection = "running" /\ DOMAIN cur = DOMAIN loaded
    BY <1>3, <1>4 DEF Row
  <1> HIDE DEF leased
  <1>6. /\ row.status = IF "leased" = cur.status THEN cur.status ELSE "leased"
        /\ row.session = IF "ingesting" = snap.session THEN cur.session ELSE "ingesting"
        /\ row.collection = IF "running" = snap.collection THEN cur.collection ELSE "running"
    BY <1>3, <1>4, <1>5 DEF Flush, Row
  <1> HIDE DEF row
  <1>7. CoupledRow(i, snap) /\ (snap.status # "absent" => SameButLease(snap, cur))
    BY <1>1, <1>2 DEF ReadsLatest
  <1>8. snap.session = "ingesting" => cur.session = "ingesting"
    BY <1>3, <1>7, SameStatus DEF CoupledRow, QueuedRow, AsIngested
  <1>9. snap.collection = "running" => cur.collection = "running"
    BY <1>3, <1>7, SameStatus DEF CoupledRow, QueuedRow, AsIngested
  <1>10. row.status = "leased" /\ row.session = "ingesting" /\ row.collection = "running"
    BY <1>6, <1>8, <1>9
  <1>11. QueuedRow(row)
    BY <1>10 DEF QueuedRow, Active
  <1>12. CASE j = i
    <2>1. db'[j] = row /\ grants'[j] = grants[j] + 1
      BY <1>1, <1>3, <1>12
    <2>2. cur.status \in Active \cup {"pending"}
      BY <1>1 DEF Leasable
    <2>3. QED
      BY <1>10, <1>11, <1>12, <2>1, <2>2 DEF SoundMove, RowMove, CoupledRow
  <1>13. CASE j # i
    BY <1>1, <1>3, <1>13, OtherRow
  <1>14. QED
    BY <1>12, <1>13

LEMMA DisableMove ==
    ASSUME Inv, SerialInv, NEW s \in Slots, CommitDisable(s), NEW j \in Jobs
    PROVE  SoundMove(j)
  <1> DEFINE q    == req[s]
             snap == q.snap[j]
             held == snap.worker = q.as /\ snap.status \in Active
             new  == Recovered(snap)
  <1>1. /\ q.op = "disable" /\ grants' = grants
        /\ db'[j] = IF held THEN Flush(db[j], snap, new) ELSE db[j]
    BY DEF CommitDisable
  <1>2. q \in Request /\ RequestOK(q) /\ ReadsLatest(q)
    BY DEF Inv, TypeOK, SerialInv
  <1>3. db[j] \in Row /\ snap \in Row
    BY <1>1, <1>2 DEF RequestOK, Inv, TypeOK
  <1>4. CASE held
    <2>1. SameButLease(snap, db[j])
      BY <1>1, <1>2, <1>4 DEF ReadsLatest, Active
    <2>2. new \in Row /\ QueuedRow(new) /\ new.status \in {"pending", "failed"}
      BY <1>3, RowUpdates, CoupledUpdates
    <2> DEFINE row == Flush(db[j], snap, new)
    <2> HIDE DEF new
    <2>3. /\ row.status = new.status /\ row.session = new.session
          /\ row.collection = new.collection
      BY <1>3, <2>1, <2>2, FlushedOverSame
    <2>4. db'[j] = row
      BY <1>1, <1>4
    <2>5. QueuedRow(row)
      <3> HIDE DEF row
      <3>1. QED
        BY <2>2, <2>3, CoupledByStates
    <2>6. StatusMoves(db[j].status, row.status)
      BY <1>3, <1>4, <2>1, <2>2, <2>3, SameStatus DEF StatusMoves
    <2> HIDE DEF row
    <2>7. QED
      BY <1>1, <2>4, <2>5, <2>6 DEF SoundMove, RowMove, CoupledRow
  <1>5. CASE ~held
    BY <1>1, <1>5, OtherRow
  <1>6. QED
    BY <1>4, <1>5

\* A finalize repeated finds its report neither being ingested nor ingested.
LEMMA RefinalizeMove ==
    ASSUME Inv, SerialInv, NEW s \in Slots, CommitRefinalize(s), NEW j \in Jobs
    PROVE  SoundMove(j)
  <1> DEFINE q    == req[s]
             cur  == db[q.job]
             snap == q.snap[q.job]
             row  == RepeatedRow(cur, snap)
  <1>1. /\ q.op = "refinalize" /\ grants' = grants
        /\ db' = [db EXCEPT ![q.job] = row] /\ db \in [Jobs -> Row]
        /\ RequestOK(q) /\ ReadsLatest(q)
    BY DEF CommitRefinalize, RepeatedRow, Inv, TypeOK, SerialInv
  <1>2. /\ q.job \in Jobs /\ snap \in Row /\ cur \in Row
        /\ snap.status # "absent" /\ snap.session \notin {"ingesting", "succeeded"}
    BY <1>1 DEF RequestOK
  <1>3. /\ SameButLease(snap, cur) /\ cur.status # "absent"
        /\ cur.session \notin {"ingesting", "succeeded"} /\ CoupledRow(q.job, cur)
    BY <1>1, <1>2, SameStatus DEF ReadsLatest, SerialInv
  <1>4. row = [cur EXCEPT !.session = "uploaded"]
    <2>1. PICK session \in {cur.session, "uploaded"} : row = [cur EXCEPT !.session = session]
      BY <1>2, OnlySession
    <2>2. row.session = IF snap.session = "uploaded" THEN cur.session ELSE "uploaded"
      BY <1>2 DEF RepeatedRow, Flush, Row
    <2>3. snap.session = cur.session
      BY <1>2, <1>3, SameStatus
    <2>4. row.session = "uploaded"
      BY <2>2, <2>3
    <2>5. row.session = session
      BY <1>2, <2>1 DEF Row
    <2>6. QED
      BY <2>1, <2>4, <2>5
  <1> HIDE DEF row
  <1>5. /\ row.status = cur.status /\ row.session = "uploaded" /\ row.collection = cur.collection
        /\ JobOf(row) = JobOf(cur)
    BY <1>2, <1>4 DEF Row, JobOf
  <1>6. CoupledRow(q.job, row) /\ (cur.status = "succeeded" => q.job \in Ingestible)
    <2>1. CASE QueuedRow(cur)
      <3>1. cur.status \in {"pending", "failed", "cancelled"}
        BY <1>2, <1>3, <2>1 DEF QueuedRow, Row, Active, Terminal
      <3>2. QED
        BY <1>5, <2>1, <3>1 DEF CoupledRow, QueuedRow, Active
    <2>2. CASE q.job \in Ingestible /\ AsIngested(cur)
      BY <1>3, <1>5, <2>2 DEF CoupledRow, AsIngested
    <2>3. QED
      BY <1>3, <2>1, <2>2 DEF CoupledRow
  <1>7. CASE j = q.job
    BY <1>1, <1>2, <1>5, <1>6, <1>7 DEF SoundMove, RowMove, Steady
  <1>8. CASE j # q.job
    BY <1>1, <1>8, OtherRow
  <1>9. QED
    BY <1>7, <1>8

\* An ingest past the queue.
LEMMA IngestMove ==
    ASSUME Inv, SerialInv, NEW s \in Slots, IngestSome(s), NEW j \in Jobs
    PROVE  SoundMove(j)
  <1>1. PICK i \in Ingestible, outcome \in {"succeeded", "failed"} : Ingest(i, s, outcome)
    BY DEF IngestSome
  <1> DEFINE row == [db[i] EXCEPT !.session = outcome, !.collection = outcome]
  <1>2. i \in Jobs /\ db[i] \in Row /\ db \in [Jobs -> Row] /\ grants' = grants
        /\ db' = [db EXCEPT ![i] = row]
    BY <1>1, QueueAssumption DEF Ingest, Inv, TypeOK
  <1>3. JobOf(row) = JobOf(db[i]) /\ AsIngested(row)
    BY <1>2 DEF Row, JobOf, AsIngested
  <1> HIDE DEF row
  <1>4. CASE j = i
    BY <1>2, <1>3, <1>4 DEF SoundMove, RowMove, Steady, CoupledRow
  <1>5. CASE j # i
    BY <1>2, <1>5, OtherRow
  <1>6. QED
    BY <1>4, <1>5

\* A new job, a lapse and the reaper.
LEMMA BackgroundMove ==
    ASSUME Inv, SerialInv, NEW j \in Jobs,
           \/ \E i \in Jobs : Enqueue(i) \/ Lapse(i)
           \/ \E s \in Slots : ReapSome(s)
    PROVE  SoundMove(j)
  <1>1. /\ db[j] \in Row /\ CoupledRow(j, db[j]) /\ db \in [Jobs -> Row]
        /\ grants' = grants
    BY DEF Inv, TypeOK, SerialInv, Enqueue, Lapse, ReapSome, Reap
  <1>2. ASSUME NEW i \in Jobs, Enqueue(i)
        PROVE  SoundMove(j)
    <2> DEFINE row == [db[i] EXCEPT !.status = "pending", !.session = "uploaded"]
    <2>1. db' = [db EXCEPT ![i] = row] /\ db[i].status = "absent" /\ Finalizable(i)
      BY <1>1, <1>2 DEF Enqueue
    <2>2. CASE j = i
      <3>1. /\ row.status = "pending" /\ row.session = "uploaded"
            /\ row.collection = db[i].collection
        BY <1>1 DEF Row
      <3> HIDE DEF row
      <3>2. db[i].collection = "pending" \/ (j \in Ingestible /\ db[i].collection = "failed")
        BY <1>1, <2>1, <2>2 DEF CoupledRow, QueuedRow, AsIngested, Finalizable
      <3>3. CoupledRow(j, row) /\ StatusMoves(db[j].status, row.status)
        BY <2>1, <2>2, <3>1, <3>2 DEF CoupledRow, QueuedRow, AsIngested, StatusMoves, Active
      <3>4. db'[j] = row
        BY <1>1, <2>1, <2>2
      <3>5. QED
        BY <1>1, <3>3, <3>4 DEF SoundMove, RowMove
    <2>3. CASE j # i
      BY <1>1, <2>1, <2>3, OtherRow
    <2>4. QED
      BY <2>2, <2>3
  <1>3. ASSUME NEW i \in Jobs, Lapse(i)
        PROVE  SoundMove(j)
    <2> DEFINE row == [db[i] EXCEPT !.lease = "lapsed"]
    <2>1. db' = [db EXCEPT ![i] = row] /\ db[i].status \in Active
      BY <1>1, <1>3 DEF Lapse
    <2>2. CASE j = i
      <3>1. /\ row.status = db[j].status /\ row.session = db[j].session
            /\ row.collection = db[j].collection
        BY <1>1, <2>2 DEF Row
      <3>2. db'[j] = row
        BY <1>1, <2>1, <2>2
      <3> HIDE DEF row
      <3>3. CoupledRow(j, row) /\ StatusMoves(db[j].status, row.status)
        BY <1>1, <2>1, <2>2, <3>1, CoupledByStates DEF StatusMoves
      <3>4. QED
        BY <1>1, <3>2, <3>3 DEF SoundMove, RowMove
    <2>3. CASE j # i
      BY <1>1, <2>1, <2>3, OtherRow
    <2>4. QED
      BY <2>2, <2>3
  <1>4. ASSUME NEW s \in Slots, NEW batch \in SUBSET Expired, Reap(batch, s)
        PROVE  SoundMove(j)
    <2>1. CASE j \in batch
      <3>1. db[j].status \in Active
        BY <2>1 DEF Expired
      <3>2. PICK row \in {Failed(db[j]), Requeued(db[j])} : db'[j] = row
        BY <1>4, <2>1 DEF Reap
      <3>3. QueuedRow(row) /\ row.status \in {"failed", "pending"}
        <4>1. QueuedRow(Failed(db[j])) /\ QueuedRow(Requeued(db[j]))
          BY <1>1, CoupledUpdates
        <4>2. Failed(db[j]).status = "failed" /\ Requeued(db[j]).status = "pending"
          BY <1>1, RowUpdates
        <4>3. QED
          BY <3>2, <4>1, <4>2
      <3>4. StatusMoves(db[j].status, row.status)
        BY <3>1, <3>3 DEF StatusMoves
      <3>5. QED
        BY <1>1, <3>2, <3>3, <3>4 DEF SoundMove, RowMove, CoupledRow
    <2>2. CASE j \notin batch
      BY <1>1, <1>4, <2>2, OtherRow DEF Reap
    <2>3. QED
      BY <2>1, <2>2
  <1>5. QED
    BY <1>2, <1>3, <1>4 DEF ReapSome

LEMMA ServeMove ==
    ASSUME Inv, SerialInv, NEW s \in Slots, Serve(s), NEW j \in Jobs
    PROVE  SoundMove(j)
  <1>1. ASSUME NothingToLease(s) \/ VerifyFinalize(s) \/ MismatchFinalize(s) \/ AbortFinalize(s)
        PROVE  SoundMove(j)
    BY <1>1, OtherRow DEF NothingToLease, VerifyFinalize, MismatchFinalize, AbortFinalize
  <1>2. QED
    BY <1>1, LeaseMove, BeatMove, AcceptMove, RejectMove, EndMove, DisableMove,
       RefinalizeMove DEF Serve

\* What any step makes of a row, as long as open requests know the latest rows.
LEMMA EveryMove ==
    ASSUME Inv, SerialInv, [Next]_vars, NEW j \in Jobs
    PROVE  SoundMove(j)
  <1>1. ASSUME UNCHANGED <<db, grants>>
        PROVE  SoundMove(j)
    BY <1>1, OtherRow
  <1>2. ASSUME NEW s \in Slots, Administer(s)
        PROVE  UNCHANGED <<db, grants>>
    BY <1>2 DEF Administer, BeginCancel, BeginRetry, BeginDisable, BeginRefinalize
  <1>3. ASSUME NEW p \in Procs, PollFor(p) \/ Work(p) \/ Crash(p)
        PROVE  UNCHANGED <<db, grants>>
    BY <1>3 DEF PollFor, BeginLease, Work, BeginHeartbeat, Upload, BeginFinalize, BeginFail,
                Refused, GiveUp, Crash
  <1>4. QED
    BY <1>1, <1>2, <1>3, ServeMove, IngestMove, BackgroundMove DEF Next, vars

-------------------------------------------------------------------------------
(* The only open request keeps knowing the latest rows *)

LEMMA NewRowCoupled == QueuedRow(NewRow) /\ NewRow.status = "absent"
  BY DEF QueuedRow, NewRow, Active

LEMMA SnapshotReads ==
    ASSUME Inv, SerialInv, NEW read \in SUBSET Jobs, NEW j \in Jobs
    PROVE  /\ CoupledRow(j, Snapshot(read)[j])
           /\ Snapshot(read)[j].status # "absent" => SameButLease(Snapshot(read)[j], db[j])
  <1>1. db[j] \in Row /\ CoupledRow(j, db[j])
    BY DEF Inv, TypeOK, SerialInv
  <1>2. CASE j \in read
    BY <1>1, <1>2, SameItself DEF Snapshot
  <1>3. CASE j \notin read
    BY <1>3, NewRowCoupled DEF Snapshot, CoupledRow
  <1>4. QED
    BY <1>2, <1>3

LEMMA OpenedReads ==
    ASSUME OneAtATime, Inv, SerialInv, NEW s \in Slots, NEW q, Open(s, q), UNCHANGED db,
           NEW read \in SUBSET Jobs, q.snap = Snapshot(read),
           q.op = "cancel" => q.snap[q.job].status \in Active \cup {"pending"}
    PROVE  \A t \in Slots : ReadsLatest(req[t])'
  <1>1. ReadsLatest(q)
    BY SnapshotReads DEF ReadsLatest
  <1>2. ASSUME NEW t \in Slots
        PROVE  req'[t] = q
    BY DEF OneAtATime, Open, Inv, TypeOK
  <1>3. QED
    BY <1>1, <1>2 DEF ReadsLatest

LEMMA ClosedReads ==
    ASSUME OneAtATime, Inv, NEW s \in Slots, Close(s)
    PROVE  \A t \in Slots : ReadsLatest(req[t])'
  <1>1. ASSUME NEW t \in Slots
        PROVE  req'[t] = NoRequest
    BY DEF OneAtATime, Close, Inv, TypeOK
  <1>2. QED
    BY <1>1 DEF ReadsLatest, NoRequest

LEMMA DetachedReads ==
    ASSUME Inv, SerialInv, NEW p \in Procs, req' = Detach(p), UNCHANGED db
    PROVE  \A t \in Slots : ReadsLatest(req[t])'
  <1>1. ASSUME NEW t \in Slots
        PROVE  /\ req'[t].op = req[t].op
               /\ req'[t].snap = req[t].snap
               /\ req'[t].job = req[t].job
    BY DEF Detach, Inv, TypeOK, Request
  <1>2. QED
    BY <1>1 DEF ReadsLatest, SerialInv

\* A new job or a lapse while a request is open.
LEMMA DriftReads ==
    ASSUME Inv, SerialInv, NEW i \in Jobs, Enqueue(i) \/ Lapse(i)
    PROVE  \A t \in Slots : ReadsLatest(req[t])'
  <1> SUFFICES ASSUME NEW t \in Slots
               PROVE  ReadsLatest(req[t])'
    OBVIOUS
  <1> DEFINE q == req[t]
  <1>1. ReadsLatest(q) /\ RequestOK(q) /\ req' = req /\ db \in [Jobs -> Row]
    BY DEF Inv, TypeOK, SerialInv, Enqueue, Lapse
  <1>2. ASSUME q.op # "none", NEW j \in Jobs, q.snap[j].status # "absent"
        PROVE  SameButLease(q.snap[j], db'[j])
    <2>1. q.snap[j] \in Row /\ db[j] \in Row /\ SameButLease(q.snap[j], db[j])
      BY <1>1, <1>2 DEF RequestOK, ReadsLatest
    <2>2. db[j].status # "absent"
      BY <1>2, <2>1, SameStatus
    <2>3. db'[j] = db[j] \/ db'[j] = [db[j] EXCEPT !.lease = "lapsed"]
      BY <1>1, <2>2 DEF Enqueue, Lapse
    <2>4. QED
      BY <2>1, <2>3 DEF SameButLease, Row
  <1>3. QED
    BY <1>1, <1>2 DEF ReadsLatest

LEMMA ReadsStep ==
    ASSUME OneAtATime, Inv, SerialInv, Next
    PROVE  \A t \in Slots : ReadsLatest(req[t])'
  <1>1. ASSUME NEW s \in Slots, Serve(s)
        PROVE  \A t \in Slots : ReadsLatest(req[t])'
    <2>1. CASE VerifyFinalize(s)
      <3>1. PICK verdict \in {"accept", "reject"} : req' = [req EXCEPT ![s].op = verdict]
        BY <2>1 DEF VerifyFinalize
      <3>2. req[s] \in Request /\ req[s].op = "finalize" /\ ReadsLatest(req[s]) /\ db' = db
        BY <2>1 DEF VerifyFinalize, Inv, TypeOK, SerialInv
      <3>3. ASSUME NEW t \in Slots
            PROVE  /\ req'[t].op = verdict
                   /\ req'[t].snap = req[s].snap
                   /\ req'[t].job = req[s].job
        BY <3>1 DEF OneAtATime, Inv, TypeOK, Request
      <3>4. QED
        BY <3>2, <3>3 DEF ReadsLatest
    <2>2. CASE Close(s)
      BY <2>2, ClosedReads
    <2>3. QED
      BY <1>1, <2>1, <2>2 DEF Serve, CommitLease, NothingToLease, CommitHeartbeat,
         MismatchFinalize, CommitAccept, CommitReject, AbortFinalize, CommitFail, CommitCancel,
         CommitRetry, CommitDisable, CommitRefinalize
  <1>2. ASSUME NEW s \in Slots, Administer(s)
        PROVE  \A t \in Slots : ReadsLatest(req[t])'
    <2>1. ASSUME NEW j \in Jobs, BeginCancel(j, s)
          PROVE  \A t \in Slots : ReadsLatest(req[t])'
      <3> DEFINE q == AdminCall("cancel", j, FALSE)
      <3>1. q.snap = Snapshot({j}) /\ q.job = j
        BY DEF AdminCall
      <3>2. Snapshot({j})[j] = db[j]
        BY SnapshotType DEF Inv
      <3>3. db[j].status \in Active \cup {"pending"}
        BY <2>1 DEF BeginCancel, Inv, TypeOK, Row
      <3>4. Open(s, q) /\ UNCHANGED db
        BY <2>1 DEF BeginCancel
      <3> HIDE DEF q
      <3>5. QED
        BY <3>1, <3>2, <3>3, <3>4, OpenedReads
    <2>2. ASSUME NEW j \in Jobs, NEW reset \in ResetOptions, BeginRetry(j, s, reset)
          PROVE  \A t \in Slots : ReadsLatest(req[t])'
      <3> DEFINE q == AdminCall("retry", j, reset)
      <3>1. q.snap = Snapshot({j}) /\ q.op = "retry"
        BY DEF AdminCall
      <3>2. Open(s, q) /\ UNCHANGED db
        BY <2>2 DEF BeginRetry
      <3> HIDE DEF q
      <3>3. QED
        BY <3>1, <3>2, OpenedReads
    <2>3. ASSUME NEW w \in Disableable, BeginDisable(w, s)
          PROVE  \A t \in Slots : ReadsLatest(req[t])'
      <3> DEFINE q == QueueCall("disable", None, w)
      <3>1. q.snap = Snapshot(Jobs) /\ q.op = "disable"
        BY DEF QueueCall
      <3>2. Open(s, q) /\ UNCHANGED db
        BY <2>3 DEF BeginDisable
      <3> HIDE DEF q
      <3>3. QED
        BY <3>1, <3>2, OpenedReads
    <2>4. ASSUME NEW j \in Repeatable, BeginRefinalize(j, s)
          PROVE  \A t \in Slots : ReadsLatest(req[t])'
      <3> DEFINE q == AdminCall("refinalize", j, FALSE)
      <3>1. q.snap = Snapshot({j}) /\ q.op = "refinalize" /\ {j} \in SUBSET Jobs
        BY QueueAssumption DEF AdminCall
      <3>2. Open(s, q) /\ UNCHANGED db
        BY <2>4 DEF BeginRefinalize
      <3> HIDE DEF q
      <3>3. QED
        BY <3>1, <3>2, OpenedReads
    <2>5. QED
      BY <1>2, <2>1, <2>2, <2>3, <2>4 DEF Administer
  <1>3. ASSUME NEW s \in Slots, IngestSome(s) \/ ReapSome(s)
        PROVE  \A t \in Slots : ReadsLatest(req[t])'
    <2>1. ASSUME NEW t \in Slots
          PROVE  req'[t] = NoRequest
      BY <1>3 DEF IngestSome, Ingest, ReapSome, Reap, OneAtATime
    <2>2. QED
      BY <2>1 DEF ReadsLatest, NoRequest
  <1>4. ASSUME NEW p \in Procs, NEW s \in Slots, BeginLease(p, s)
        PROVE  \A t \in Slots : ReadsLatest(req[t])'
    <2> DEFINE q == QueueCall("lease", p, CredOf[p])
    <2>1. q.snap = Snapshot(Jobs) /\ q.op = "lease"
      BY DEF QueueCall
    <2>2. Open(s, q) /\ UNCHANGED db
      BY <1>4 DEF BeginLease
    <2> HIDE DEF q
    <2>3. QED
      BY <2>1, <2>2, OpenedReads
  <1>5. ASSUME NEW p \in Procs, NEW s \in Slots, NEW op \in {"heartbeat", "finalize", "fail"},
               NEW flag, Open(s, CallOf(p, op, flag)), proc[p].stage \notin {"idle", "leasing"},
               UNCHANGED db
        PROVE  \A t \in Slots : ReadsLatest(req[t])'
    <2> DEFINE q == CallOf(p, op, flag)
    <2>1. q.snap = Snapshot({proc[p].job}) /\ q.op = op
      BY DEF CallOf
    <2>2. {proc[p].job} \in SUBSET Jobs
      BY <1>5 DEF Inv, ProcOK
    <2> HIDE DEF q
    <2>3. Open(s, q)
      BY <1>5 DEF q
    <2>4. QED
      BY <1>5, <2>1, <2>2, <2>3, OpenedReads
  <1>6. ASSUME NEW p \in Procs, Work(p) \/ Crash(p)
        PROVE  \A t \in Slots : ReadsLatest(req[t])'
    <2>1. CASE \E s \in Slots : \/ BeginHeartbeat(p, s)
                                \/ BeginFinalize(p, s)
                                \/ \E retryable \in BOOLEAN : BeginFail(p, s, retryable)
      BY <1>5, <2>1 DEF BeginHeartbeat, BeginFinalize, BeginFail
    <2>2. CASE GiveUp(p) \/ Crash(p)
      BY <2>2, DetachedReads DEF GiveUp, Crash
    <2>3. CASE Upload(p) \/ Refused(p)
      BY <2>3 DEF Upload, Refused, ReadsLatest, SerialInv
    <2>4. QED
      BY <1>6, <2>1, <2>2, <2>3 DEF Work
  <1>7. QED
    BY <1>1, <1>2, <1>3, <1>4, <1>6, DriftReads DEF Next, PollFor

LEMMA SerialStep ==
    ASSUME OneAtATime, Inv, SerialInv, [Next]_vars
    PROVE  SerialInv'
  <1>1. \A j \in Jobs : CoupledRow(j, db[j])'
    BY EveryMove DEF SoundMove, CoupledRow
  <1>2. \A t \in Slots : ReadsLatest(req[t])'
    <2>1. CASE Next
      BY <2>1, ReadsStep
    <2>2. CASE UNCHANGED vars
      BY <2>2 DEF vars, SerialInv, ReadsLatest
    <2>3. QED
      BY <2>1, <2>2
  <1>3. QED
    BY <1>1, <1>2 DEF SerialInv

LEMMA InitSerial == Init => SerialInv
  BY NewRowCoupled DEF Init, SerialInv, ReadsLatest, NoRequest, CoupledRow

LEMMA Serial ==
    ASSUME OneAtATime
    PROVE  Spec => [](Inv /\ SerialInv)
  <1>1. Inv /\ SerialInv /\ [Next]_vars => SerialInv'
    BY SerialStep
  <1>2. QED
    BY InitInv, NextInv, InitSerial, <1>1, PTL DEF Spec

\* When the API serves one request at a time, the job, its upload session and its
\* collection job belong together: each handler of analysis_service.py writes the three
\* together and none forgets one, and a finalize that is repeated touches no session of
\* a job at work.  Where an administrator ingests past the queue
\* (ingest_report_upload_session), session and collection job may instead be what that
\* ingest left, until the queue writes them again.
THEOREM StatesStayCoupled ==
    ASSUME OneAtATime
    PROVE  Spec => []Coupled
  <1>1. Inv /\ SerialInv => Coupled
    <2>1. ASSUME NEW r \in Row, QueuedRow(r)
          PROVE  AsQueued(r)
      BY <2>1 DEF QueuedRow, AsQueued, Row, Terminal, Active
    <2>2. QED
      BY <2>1 DEF Inv, TypeOK, SerialInv, Coupled, CoupledRow
  <1>2. QED
    BY Serial, <1>1, PTL

\* When the API serves one request at a time, an accepted result is never touched
\* again, and a failed or cancelled job leaves that state only for the queue.
THEOREM DecisionsStand ==
    ASSUME OneAtATime
    PROVE  Spec => TerminalIsFinal
  <1> DEFINE Stands == \A j \in Jobs :
                         /\ db[j].status = "succeeded" =>
                              JobOf(db'[j]) = JobOf(db[j]) /\ (db'[j] = db[j] \/ j \in Ingestible)
                         /\ db[j].status \in {"failed", "cancelled"} =>
                              db'[j].status \in {db[j].status, "pending"}
  <1>1. ASSUME Inv, SerialInv, [Next]_vars
        PROVE  Stands
    <2>1. SUFFICES ASSUME NEW j \in Jobs
                   PROVE  /\ db[j].status = "succeeded" => Steady(j)
                          /\ db[j].status \in {"failed", "cancelled"} =>
                               db'[j].status \in {db[j].status, "pending"}
      BY DEF Steady
    <2>2. db[j] \in Row /\ db'[j] \in Row /\ RowMove(j)
      BY <1>1, NextInv, EveryMove DEF SoundMove, Inv, TypeOK
    <2>3. Steady(j) => db'[j].status = db[j].status
      BY <2>2, SameJob DEF Steady
    <2>4. QED
      BY <2>2, <2>3 DEF RowMove, StatusMoves, Active
  <1>2. Inv /\ SerialInv /\ [Next]_vars => [Stands]_vars
    BY <1>1
  <1> HIDE DEF Stands
  <1>3. Spec => [][Stands]_vars
    BY Serial, <1>2, PTL DEF Spec
  <1>4. QED
    BY <1>3 DEF TerminalIsFinal, Stands

-------------------------------------------------------------------------------
(* What one step makes of a request and of a worker process *)

\* A process that has been told its job.
Past(st) == st.stage \notin {"idle", "leasing"}

SameCall(a, b) ==
    /\ a.op = b.op /\ a.as = b.as /\ a.job = b.job
    /\ a.key = b.key /\ a.grant = b.grant

\* The request in slot t: answered, still open, verified, or just sent.
ReqStep(t) ==
    \/ req'[t].op \in {"none", "cancel", "retry", "disable", "refinalize"}
    \/ SameCall(req'[t], req[t])
    \/ /\ VerifyFinalize(t)
       /\ req'[t].op \in {"accept", "reject"}
       /\ req'[t].job = req[t].job /\ req'[t].key = req[t].key /\ req'[t].grant = req[t].grant
    \/ \E p \in Procs :
          /\ BeginLease(p, t)
          /\ req'[t].op = "lease" /\ req'[t].as = CredOf[p]
    \/ \E p \in Procs :
          /\ Past(proc[p]) /\ Admitted(p)
          /\ UNCHANGED <<db, grants>>
          /\ req'[t].op \in {"heartbeat", "finalize", "fail"}
          /\ req'[t].job = proc[p].job /\ req'[t].key = proc[p].key
          /\ req'[t].grant = proc[p].grant

\* Process p: without a job, with the same one, answered about it, or leasing it.
ProcStep(p) ==
    \/ ~Past(proc'[p])
    \/ /\ Past(proc[p])
       /\ proc'[p].job = proc[p].job /\ proc'[p].key = proc[p].key
       /\ proc'[p].grant = proc[p].grant
    \/ \E s \in Slots :
          /\ req[s].op \in WorkerOps
          /\ grants' = grants
          /\ proc'[p].job = req[s].job /\ proc'[p].key = req[s].key
          /\ proc'[p].grant = req[s].grant
    \/ \E s \in Slots, j \in Jobs :
          /\ CommitLease(s, j)
          /\ proc'[p].job = j /\ proc'[p].key = ResultFile(NextAttempt(req[s], j))
          /\ proc'[p].grant = grants[j] + 1

LEMMA ReqMoves ==
    ASSUME Inv, [Next]_vars, NEW t \in Slots
    PROVE  ReqStep(t)
  <1>1. req[t] \in Request /\ req \in [Slots -> Request] /\ proc \in [Procs -> ProcState]
    BY DEF Inv, TypeOK
  <1>2. CASE req' = req
    BY <1>2 DEF ReqStep, SameCall
  <1>3. ASSUME NEW s \in Slots, Close(s)
        PROVE  ReqStep(t)
    <2>1. CASE s = t
      BY <1>1, <1>3, <2>1 DEF Close, NoRequest, ReqStep
    <2>2. CASE s # t
      BY <1>1, <1>3, <2>2 DEF Close, ReqStep, SameCall
    <2>3. QED
      BY <2>1, <2>2
  <1>4. ASSUME NEW s \in Slots, VerifyFinalize(s)
        PROVE  ReqStep(t)
    <2>1. PICK verdict \in {"accept", "reject"} : req' = [req EXCEPT ![s].op = verdict]
      BY <1>4 DEF VerifyFinalize
    <2>2. CASE s = t
      <3>1. /\ req'[t].op = verdict /\ req'[t].job = req[t].job
            /\ req'[t].key = req[t].key /\ req'[t].grant = req[t].grant
        BY <1>1, <2>1, <2>2 DEF Request
      <3>2. QED
        BY <1>4, <2>2, <3>1 DEF ReqStep
    <2>3. CASE s # t
      BY <1>1, <2>1, <2>3 DEF ReqStep, SameCall
    <2>4. QED
      BY <2>2, <2>3
  <1>5. ASSUME NEW s \in Slots, Serve(s)
        PROVE  ReqStep(t)
    BY <1>3, <1>4, <1>5 DEF Serve, CommitLease, NothingToLease, CommitHeartbeat,
       MismatchFinalize, CommitAccept, CommitReject, AbortFinalize, CommitFail, CommitCancel,
       CommitRetry, CommitDisable, CommitRefinalize
  <1>6. ASSUME NEW s \in Slots, NEW q, Open(s, q), s = t /\ req'[t] = q => ReqStep(t)
        PROVE  ReqStep(t)
    <2>1. CASE s = t
      BY <1>1, <1>6, <2>1 DEF Open
    <2>2. CASE s # t
      BY <1>1, <1>6, <2>2 DEF Open, ReqStep, SameCall
    <2>3. QED
      BY <2>1, <2>2
  <1>7. ASSUME NEW s \in Slots, Administer(s)
        PROVE  ReqStep(t)
    <2>1. ASSUME NEW q, Open(s, q), q.op \in {"cancel", "retry", "disable", "refinalize"}
          PROVE  ReqStep(t)
      <3>1. s = t /\ req'[t] = q => ReqStep(t)
        BY <2>1 DEF ReqStep
      <3>2. QED
        BY <1>6, <2>1, <3>1
    <2>2. ASSUME NEW op \in {"cancel", "retry", "refinalize"}, NEW j, NEW flag, Open(s, AdminCall(op, j, flag))
          PROVE  ReqStep(t)
      <3>1. AdminCall(op, j, flag).op = op
        BY DEF AdminCall
      <3>2. QED
        BY <2>1, <2>2, <3>1
    <2>3. ASSUME NEW w, Open(s, QueueCall("disable", None, w))
          PROVE  ReqStep(t)
      <3>1. QueueCall("disable", None, w).op = "disable"
        BY DEF QueueCall
      <3>2. QED
        BY <2>1, <2>3, <3>1
    <2>4. QED
      BY <1>7, <2>2, <2>3 DEF Administer, BeginCancel, BeginRetry, BeginDisable, BeginRefinalize
  <1>8. ASSUME NEW p \in Procs, NEW s \in Slots, BeginLease(p, s)
        PROVE  ReqStep(t)
    <2> DEFINE q == QueueCall("lease", p, CredOf[p])
    <2>1. Open(s, q) /\ q.op = "lease" /\ q.as = CredOf[p]
      BY <1>8 DEF BeginLease, QueueCall
    <2> HIDE DEF q
    <2>2. s = t /\ req'[t] = q => ReqStep(t)
      BY <1>8, <2>1 DEF ReqStep
    <2>3. QED
      BY <1>6, <2>1, <2>2
  <1>9. ASSUME NEW p \in Procs, NEW s \in Slots, NEW op \in {"heartbeat", "finalize", "fail"},
               NEW flag, Open(s, CallOf(p, op, flag)), Past(proc[p]), Admitted(p),
               UNCHANGED <<db, grants>>
        PROVE  ReqStep(t)
    <2> DEFINE q == CallOf(p, op, flag)
    <2>1. /\ q.op = op /\ q.job = proc[p].job /\ q.key = proc[p].key
          /\ q.grant = proc[p].grant
      BY DEF CallOf
    <2> HIDE DEF q
    <2>2. Open(s, q)
      BY <1>9 DEF q
    <2>3. req'[t] = q => ReqStep(t)
      BY <1>9, <2>1 DEF ReqStep
    <2>4. QED
      BY <1>6, <2>2, <2>3
  <1>10. ASSUME NEW p \in Procs, req' = Detach(p)
         PROVE  ReqStep(t)
    <2>1. req'[t] = req[t] \/ req'[t] = [req[t] EXCEPT !.by = None]
      BY <1>1, <1>10 DEF Detach
    <2>2. SameCall(req'[t], req[t])
      BY <1>1, <2>1 DEF SameCall, Request
    <2>3. QED
      BY <2>2 DEF ReqStep
  <1>11. ASSUME NEW p \in Procs, Work(p) \/ Crash(p)
         PROVE  ReqStep(t)
    <2>1. CASE \E s \in Slots : \/ BeginHeartbeat(p, s)
                                \/ BeginFinalize(p, s)
                                \/ \E retryable \in BOOLEAN : BeginFail(p, s, retryable)
      BY <1>9, <2>1 DEF BeginHeartbeat, BeginFinalize, BeginFail, Past
    <2>2. CASE GiveUp(p) \/ Crash(p)
      BY <1>10, <2>2 DEF GiveUp, Crash
    <2>3. CASE Upload(p) \/ Refused(p)
      BY <1>2, <2>3 DEF Upload, Refused
    <2>4. QED
      BY <1>11, <2>1, <2>2, <2>3 DEF Work
  <1>12. QED
    BY <1>2, <1>5, <1>7, <1>8, <1>11 DEF Next, vars, PollFor, Enqueue, Lapse, IngestSome, Ingest,
                                              ReapSome, Reap

LEMMA ProcMoves ==
    ASSUME Inv, [Next]_vars, NEW p \in Procs
    PROVE  ProcStep(p)
  <1>1. proc[p] \in ProcState /\ proc \in [Procs -> ProcState]
    BY DEF Inv, TypeOK
  <1>2. CASE proc' = proc
    BY <1>2 DEF ProcStep
  <1>3. ASSUME NEW r \in Procs, NEW stage, proc' = [proc EXCEPT ![r].stage = stage],
               r = p => Past(proc[p]) \/ stage \in {"idle", "leasing"}
        PROVE  ProcStep(p)
    <2>1. CASE r = p
      <3>1. /\ proc'[p].stage = stage /\ proc'[p].job = proc[p].job
            /\ proc'[p].key = proc[p].key /\ proc'[p].grant = proc[p].grant
        BY <1>1, <1>3, <2>1 DEF ProcState
      <3>2. QED
        BY <1>3, <2>1, <3>1 DEF ProcStep, Past
    <2>2. CASE r # p
      BY <1>1, <1>3, <2>2 DEF ProcStep
    <2>3. QED
      BY <2>1, <2>2
  <1>4. ASSUME NEW r \in Procs, proc' = [proc EXCEPT ![r] = IdleProc]
        PROVE  ProcStep(p)
    BY <1>1, <1>4 DEF ProcStep, Past, IdleProc
  <1>5. ASSUME NEW s \in Slots, NEW st, proc' = Answer(req[s], st)
        PROVE  proc'[p] = proc[p] \/ proc'[p] = st
    BY <1>1, <1>5 DEF Answer
  <1>6. ASSUME NEW s \in Slots, Serve(s)
        PROVE  ProcStep(p)
    <2>1. ASSUME NEW j \in Jobs, CommitLease(s, j)
          PROVE  ProcStep(p)
      <3> DEFINE st == [stage |-> "leased", job |-> j,
                        key |-> ResultFile(NextAttempt(req[s], j)), grant |-> grants[j] + 1]
      <3>1. proc' = Answer(req[s], st)
        BY <2>1 DEF CommitLease
      <3>2. proc'[p] = proc[p] \/ proc'[p] = st
        BY <1>5, <3>1
      <3>3. /\ st.job = j /\ st.grant = grants[j] + 1
            /\ st.key = ResultFile(NextAttempt(req[s], j))
        OBVIOUS
      <3> HIDE DEF st
      <3>4. QED
        BY <2>1, <3>2, <3>3 DEF ProcStep
    <2>2. ASSUME NEW stage, proc' = Answer(req[s], AtStage(req[s], stage)),
                 req[s].op \in WorkerOps, grants' = grants
          PROVE  ProcStep(p)
      <3> DEFINE st == AtStage(req[s], stage)
      <3>1. st.job = req[s].job /\ st.key = req[s].key /\ st.grant = req[s].grant
        BY DEF AtStage
      <3>2. proc'[p] = proc[p] \/ proc'[p] = st
        BY <1>5, <2>2
      <3> HIDE DEF st
      <3>3. QED
        BY <2>2, <3>1, <3>2 DEF ProcStep
    <2>3. ASSUME proc' = Answer(req[s], IdleProc)
          PROVE  ProcStep(p)
      <3>1. proc'[p] = proc[p] \/ proc'[p] = IdleProc
        BY <1>5, <2>3
      <3>2. QED
        BY <3>1 DEF ProcStep, Past, IdleProc
    <2>4. CASE NothingToLease(s) \/ CommitFail(s) \/ \E outcome \in Outcomes : CommitAccept(s, outcome)
      BY <2>3, <2>4 DEF NothingToLease, CommitFail, CommitAccept
    <2>5. CASE CommitHeartbeat(s) \/ MismatchFinalize(s) \/ CommitReject(s) \/ AbortFinalize(s)
      BY <2>2, <2>5 DEF CommitHeartbeat, MismatchFinalize, CommitReject, AbortFinalize, WorkerOps
    <2>6. CASE VerifyFinalize(s) \/ CommitCancel(s) \/ CommitRetry(s) \/ CommitDisable(s)
               \/ CommitRefinalize(s)
      BY <1>2, <2>6 DEF VerifyFinalize, CommitCancel, CommitRetry, CommitDisable, CommitRefinalize
    <2>7. QED
      BY <1>6, <2>1, <2>4, <2>5, <2>6 DEF Serve
  <1>7. ASSUME NEW r \in Procs, PollFor(r) \/ Work(r) \/ Crash(r)
        PROVE  ProcStep(p)
    <2>1. CASE PollFor(r)
      BY <1>3, <2>1 DEF PollFor, BeginLease
    <2>2. CASE Crash(r)
      BY <1>4, <2>2 DEF Crash
    <2>3. CASE Refused(r)
      <3>1. CASE proc[r].stage = "failing"
        BY <1>1, <1>4, <2>3, <3>1 DEF Refused
      <3>2. CASE proc[r].stage # "failing"
        <4>1. proc' = [proc EXCEPT ![r].stage = "failing"] /\ Past(proc[r])
          BY <1>1, <2>3, <3>2 DEF Refused, Past
        <4>2. QED
          BY <1>3, <4>1
      <3>3. QED
        BY <3>1, <3>2
    <2>4. CASE \/ \E s \in Slots : \/ BeginHeartbeat(r, s)
                                   \/ BeginFinalize(r, s)
                                   \/ \E retryable \in BOOLEAN : BeginFail(r, s, retryable)
               \/ Upload(r)
               \/ GiveUp(r)
      <3>1. PICK stage : proc' = [proc EXCEPT ![r].stage = stage] /\ Past(proc[r])
        BY <2>4 DEF BeginHeartbeat, BeginFinalize, BeginFail, Upload, GiveUp, Past
      <3>2. QED
        BY <1>3, <3>1
    <2>5. QED
      BY <1>7, <2>1, <2>2, <2>3, <2>4 DEF Work
  <1>8. QED
    BY <1>2, <1>6, <1>7 DEF Next, vars, Enqueue, Lapse, Administer, BeginCancel, BeginRetry,
       BeginDisable, BeginRefinalize, IngestSome, Ingest, ReapSome, Reap

-------------------------------------------------------------------------------
(* Requests one at a time, and a token for each copy of the script *)

\* No two copies of the worker script share a worker token.
OwnTokens == \A p, q \in Procs : CredOf[p] = CredOf[q] => p = q

\* A process whose worker holds its job works under the latest lease of that job.
FreshProc(p) ==
    Past(proc[p]) /\ db[proc[p].job].worker = CredOf[p] => proc[p].grant = grants[proc[p].job]

\* So does every admitted call; and while a worker asks for a job, it has none.
FreshReq(q) ==
    /\ q.op \in WorkerOps => q.grant = grants[q.job]
    /\ q.op = "lease" => \A p \in Procs : CredOf[p] = q.as => ~Past(proc[p])

TokenInv == (\A p \in Procs : FreshProc(p)) /\ (\A s \in Slots : FreshReq(req[s]))

LEMMA LeaseHolder ==
    ASSUME Inv, NEW s \in Slots, NEW j \in Jobs, CommitLease(s, j)
    PROVE  db'[j].worker = req[s].as /\ grants'[j] = grants[j] + 1 /\ Close(s)
           /\ req[s].op = "lease" /\ \A i \in Jobs : i # j => db'[i] = db[i] /\ grants'[i] = grants[i]
  <1> DEFINE q       == req[s]
             loaded  == [db[j] EXCEPT !.session = q.snap[j].session,
                                      !.collection = q.snap[j].collection]
             attempt == NextAttempt(q, j)
             leased  == [loaded EXCEPT !.status = "leased", !.worker = q.as, !.lease = "live",
                                  !.attempts = attempt, !.key = ResultFile(attempt),
                                  !.session = "ingesting", !.collection = "running"]
  <1>1. /\ db' = [db EXCEPT ![j] = Flush(db[j], loaded, leased)]
        /\ grants' = [grants EXCEPT ![j] = @ + 1]
        /\ q.op = "lease" /\ Close(s)
    BY DEF CommitLease
  <1>2. db[j] \in Row /\ db \in [Jobs -> Row] /\ grants \in [Jobs -> Nat]
    BY DEF Inv, TypeOK
  <1>3. loaded.worker = db[j].worker /\ leased.worker = q.as /\ "worker" \in DOMAIN db[j]
    BY <1>2 DEF Row
  <1> HIDE DEF loaded, leased, attempt
  <1>4. Flush(db[j], loaded, leased).worker = q.as
    BY <1>3 DEF Flush
  <1>5. QED
    BY <1>1, <1>2, <1>4

LEMMA ProcFresh ==
    ASSUME Inv, TokenInv, [Next]_vars, NEW p \in Procs
    PROVE  FreshProc(p)'
  <1> SUFFICES ASSUME Past(proc'[p]), db'[proc'[p].job].worker = CredOf[p]
               PROVE  proc'[p].grant = grants'[proc'[p].job]
    BY DEF FreshProc, Past
  <1> DEFINE j == proc'[p].job
  <1>1. CredOf[p] \in Workers /\ CredOf[p] # None
    BY QueueAssumption
  <1>2. CASE /\ Past(proc[p])
             /\ j = proc[p].job
             /\ proc'[p].grant = proc[p].grant
    <2>1. j \in Jobs
      BY <1>2 DEF Inv, ProcOK, Past
    <2>2. CASE \E s \in Slots : CommitLease(s, j)
      <3>1. PICK s \in Slots : CommitLease(s, j)
        BY <2>2
      <3>2. req[s].as = CredOf[p] /\ req[s].op = "lease"
        BY <2>1, <3>1, LeaseHolder
      <3>3. QED
        BY <1>2, <3>2 DEF TokenInv, FreshReq
    <2>3. CASE Quiet(j)
      <3>1. db[j].worker = CredOf[p] /\ grants'[j] = grants[j]
        BY <1>1, <2>3 DEF Quiet
      <3>2. QED
        BY <1>2, <3>1 DEF TokenInv, FreshProc
    <2>4. QED
      BY <2>1, <2>2, <2>3, RowStep
  <1>3. ASSUME NEW s \in Slots, req[s].op \in WorkerOps, grants' = grants, j = req[s].job,
               proc'[p].grant = req[s].grant
        PROVE  proc'[p].grant = grants'[j]
    BY <1>3 DEF TokenInv, FreshReq
  <1>4. ASSUME NEW s \in Slots, NEW i \in Jobs, CommitLease(s, i), j = i,
               proc'[p].grant = grants[i] + 1
        PROVE  proc'[p].grant = grants'[j]
    BY <1>4, LeaseHolder
  <1>5. ProcStep(p)
    BY ProcMoves
  <1>6. QED
    BY <1>2, <1>3, <1>4, <1>5 DEF ProcStep

\* A process without a job gets one only by the answer to its lease request.
LEMMA StillWaiting ==
    ASSUME OneAtATime, Inv, [Next]_vars, NEW t \in Slots, req[t].op = "lease", SameCall(req'[t], req[t]),
           NEW p \in Procs, ~Past(proc[p])
    PROVE  ~Past(proc'[p])
  <1>1. ProcStep(p)
    BY ProcMoves
  <1>2. ASSUME NEW s \in Slots, NEW j \in Jobs, CommitLease(s, j)
        PROVE  FALSE
    <2>1. s = t
      BY DEF OneAtATime
    <2>2. req'[t].op = "none"
      BY <1>2, <2>1, LeaseHolder DEF Close, NoRequest, Inv, TypeOK
    <2>3. QED
      BY <2>2 DEF SameCall
  <1>3. ASSUME NEW s \in Slots, req[s].op \in WorkerOps
        PROVE  FALSE
    <2>1. s = t
      BY DEF OneAtATime
    <2>2. QED
      BY <1>3, <2>1 DEF WorkerOps
  <1>4. QED
    BY <1>1, <1>2, <1>3 DEF ProcStep

LEMMA ReqFresh ==
    ASSUME OneAtATime, OwnTokens, Inv, TokenInv, [Next]_vars, NEW t \in Slots
    PROVE  FreshReq(req[t])'
  <1> DEFINE q == req[t]
  <1>1. FreshReq(q) /\ RequestOK(q) /\ grants \in [Jobs -> Nat] /\ proc \in [Procs -> ProcState]
    BY DEF TokenInv, Inv, TypeOK
  <1>2. CASE req'[t].op \in {"none", "cancel", "retry", "disable", "refinalize"}
    BY <1>2 DEF FreshReq, WorkerOps
  <1>3. CASE SameCall(req'[t], q) /\ q.op # "none"
    <2>1. ASSUME NEW j \in Jobs, q.op \in WorkerOps
          PROVE  grants'[j] = grants[j]
      <3>1. ASSUME NEW s \in Slots, CommitLease(s, j)
            PROVE  FALSE
        <4>1. s = t /\ req[s].op = "lease"
          BY <3>1, LeaseHolder DEF OneAtATime
        <4>2. QED
          BY <2>1, <4>1 DEF WorkerOps
      <3>2. QED
        BY <3>1, RowStep DEF Quiet
    <2>2. q.op \in WorkerOps => q.job \in Jobs
      BY <1>1 DEF RequestOK
    <2>3. ASSUME NEW p \in Procs, q.op = "lease", CredOf[p] = q.as
          PROVE  ~Past(proc'[p])
      BY <1>1, <1>3, <2>3, StillWaiting DEF FreshReq
    <2>4. QED
      BY <1>1, <1>3, <2>1, <2>2, <2>3 DEF FreshReq, SameCall, Past
  <1>4. CASE VerifyFinalize(t) /\ req'[t].op \in {"accept", "reject"}
             /\ req'[t].job = q.job /\ req'[t].key = q.key /\ req'[t].grant = q.grant
    <2>1. q.op = "finalize" /\ grants' = grants
      BY <1>4 DEF VerifyFinalize
    <2>2. q.grant = grants[q.job]
      BY <1>1, <2>1 DEF FreshReq, WorkerOps
    <2>3. QED
      BY <1>4, <2>1, <2>2 DEF FreshReq
  <1>5. ASSUME NEW p \in Procs, BeginLease(p, t), req'[t].op = "lease", req'[t].as = CredOf[p]
        PROVE  FreshReq(req[t])'
    <2>1. ASSUME NEW r \in Procs, CredOf[r] = CredOf[p]
          PROVE  ~Past(proc'[r])
      <3>1. r = p /\ proc' = [proc EXCEPT ![p].stage = "leasing"]
        BY <1>5, <2>1 DEF OwnTokens, BeginLease
      <3>2. proc'[r].stage = "leasing"
        BY <1>1, <3>1 DEF ProcState
      <3>3. QED
        BY <3>2 DEF Past
    <2>2. QED
      BY <1>5, <2>1 DEF FreshReq, WorkerOps, Past
  <1>6. ASSUME NEW p \in Procs, Past(proc[p]), Admitted(p), UNCHANGED <<db, grants>>,
               req'[t].op \in {"heartbeat", "finalize", "fail"},
               req'[t].job = proc[p].job, req'[t].grant = proc[p].grant
        PROVE  FreshReq(req[t])'
    <2>1. db[proc[p].job].worker = CredOf[p]
      BY <1>6 DEF Admitted
    <2>2. proc[p].grant = grants[proc[p].job]
      BY <1>6, <2>1 DEF TokenInv, FreshProc
    <2>3. QED
      BY <1>6, <2>2 DEF FreshReq
  <1>7. ReqStep(t)
    BY ReqMoves
  <1>8. CASE SameCall(req'[t], q) /\ q.op = "none"
    BY <1>8 DEF SameCall, FreshReq, WorkerOps
  <1>9. QED
    BY <1>2, <1>3, <1>4, <1>5, <1>6, <1>7, <1>8 DEF ReqStep

LEMMA InitTokens == Init => TokenInv
  BY DEF Init, TokenInv, FreshProc, FreshReq, Past, IdleProc, NoRequest, WorkerOps

LEMMA Tokens ==
    ASSUME OneAtATime, OwnTokens
    PROVE  Spec => [](Inv /\ SerialInv /\ TokenInv)
  <1>1. Inv /\ TokenInv /\ [Next]_vars => TokenInv'
    <2>1. SUFFICES ASSUME Inv, TokenInv, [Next]_vars PROVE TokenInv'
      OBVIOUS
    <2>2. (\A p \in Procs : FreshProc(p)') /\ (\A t \in Slots : FreshReq(req[t])')
      BY <2>1, ProcFresh, ReqFresh
    <2>3. QED
      BY <2>2 DEF TokenInv, FreshProc, FreshReq, Past
  <1>2. QED
    BY Serial, InitTokens, <1>1, PTL DEF Spec

\* What a step makes of a job, in the words of WorkLease.
LEMMA AbstractMove ==
    ASSUME Inv, SerialInv, TokenInv, [Next]_vars, NEW j \in Jobs
    PROVE  LET phase  == Phase(db[j].status)
               phase2 == Phase(db'[j].status)
               winner  == IF db[j].status = "succeeded" THEN db[j].sha ELSE 0
               winner2 == IF db'[j].status = "succeeded" THEN db'[j].sha ELSE 0
           IN  \/ /\ grants'[j] = grants[j] /\ winner2 = winner
                  /\ \/ phase = "absent" /\ phase2 = "queued"
                     \/ phase = "held" /\ phase2 = "queued"
                     \/ phase \in {"queued", "held"} /\ phase2 = "dead"
                     \/ phase = "dead" /\ phase2 = "queued"
                     \/ phase2 = phase
               \/ /\ phase \in {"queued", "held"} /\ phase2 = "held"
                  /\ grants'[j] = grants[j] + 1 /\ winner2 = winner
               \/ /\ phase = "held" /\ phase2 = "done"
                  /\ grants'[j] = grants[j] /\ winner2 = grants[j]
  <1>1. RowMove(j)
    BY EveryMove DEF SoundMove
  <1>2. CASE grants'[j] = grants[j] /\ Steady(j)
    <2>1. db[j] \in Row /\ db'[j] \in Row
      BY NextInv DEF Inv, TypeOK
    <2>2. db'[j].status = db[j].status /\ db'[j].sha = db[j].sha
      BY <1>2, <2>1, SameJob DEF Steady
    <2>3. QED
      BY <1>2, <2>2
  <1>3. CASE grants'[j] = grants[j] /\ StatusMoves(db[j].status, db'[j].status)
    BY <1>3 DEF StatusMoves, Phase, Active
  <1>4. CASE /\ grants'[j] = grants[j] + 1
             /\ db[j].status \in Active \cup {"pending"}
             /\ db'[j].status = "leased"
    BY <1>4 DEF Phase, Active
  <1>5. CASE /\ grants'[j] = grants[j]
             /\ db[j].status \in Active
             /\ db'[j].status = "succeeded"
             /\ Decides(j)
    <2>1. db'[j].sha = grants[j]
      BY <1>5 DEF Decides, TokenInv, FreshReq, WorkerOps
    <2>2. QED
      BY <1>5, <2>1 DEF Phase, Active
  <1>6. QED
    BY <1>1, <1>2, <1>3, <1>4, <1>5 DEF RowMove

\* When the API serves one request at a time and no two workers share a token, the
\* whole protocol of leases, heartbeats, retries, reaping and disabling implements
\* the abstract work lease: what is accepted is the result of the newest lease,
\* and an accepted job is never decided again.
THEOREM QueueImplementsWorkLease ==
    ASSUME OneAtATime, OwnTokens
    PROVE  Spec => ImplementsWorkLease
  <1>1. Init => Abstract!Init
    BY DEF Init, Abstract!Init, NewRow, Phase, Active
  <1>2. Inv /\ SerialInv /\ TokenInv /\ [Next]_vars => Abstract!Next
    <2>1. SUFFICES ASSUME Inv, SerialInv, TokenInv, [Next]_vars, NEW j \in Jobs
                   PROVE  \/ Abstract!Submit(j) \/ Abstract!Grant(j) \/ Abstract!Accept(j)
                          \/ Abstract!Release(j) \/ Abstract!GiveUp(j) \/ Abstract!Revive(j)
                          \/ Abstract!Stay(j)
      BY DEF Abstract!Next
    <2>2. QED
      BY <2>1, AbstractMove
      DEF Abstract!Submit, Abstract!Grant, Abstract!Accept, Abstract!Release, Abstract!GiveUp,
          Abstract!Revive, Abstract!Stay, Abstract!Keep
  <1>3. QED
    BY <1>1, <1>2, Tokens, PTL DEF Spec, ImplementsWorkLease, Abstract!Spec

-------------------------------------------------------------------------------
(* What the result files hold, when no retry starts the attempts anew *)

\* The file of attempt n is only ever written by the n-th lease, so a result that
\* was verified stays in place until it is accepted and from then on.
FilesOwned == \A j \in Jobs, f \in Files : f # Aux => object[j][f] \in {0, f}

ResultInv ==
    /\ \A p \in Procs : Past(proc[p]) => proc[p].key # Aux
    /\ \A s \in Slots : req[s].op \in WorkerOps => req[s].key # Aux
    /\ FilesOwned
    /\ \A s \in Slots : req[s].op = "accept" => object[req[s].job][req[s].key] = req[s].grant
    /\ \A j \in Jobs : db[j].status = "succeeded" => db[j].key # Aux /\ db[j].key = db[j].sha
    /\ ResultIntact

LEMMA ObjectStep ==
    ASSUME Inv, KeysCounted, FilesOwned, [Next]_vars
    PROVE  /\ FilesOwned'
           /\ \A j \in Jobs, f \in Files : f # Aux /\ object[j][f] = f => object'[j][f] = f
  <1>1. object \in [Jobs -> [Files -> Nat]]
    BY DEF Inv, TypeOK
  <1>2. ASSUME NEW p \in Procs, Upload(p), NEW j \in Jobs, NEW f \in Files, f # Aux
        PROVE  object'[j][f] \in {object[j][f], f}
    <2> DEFINE st == proc[p]
    <2>1. st.key = st.grant
      BY DEF KeysCounted, ProcCounted
    <2>2. object' = [object EXCEPT ![st.job] =
                       [g \in Files |-> IF g \in {Aux, st.key} THEN st.grant ELSE @[g]]]
      BY <1>2 DEF Upload
    <2>3. object'[j] = object[j] \/
          object'[j] = [g \in Files |-> IF g \in {Aux, st.key} THEN st.grant ELSE object[j][g]]
      BY <1>1, <2>2
    <2> HIDE DEF st
    <2>4. QED
      BY <1>2, <2>1, <2>3
  <1>3. (\E p \in Procs : Upload(p)) \/ object' = object
    BY DEF Next, vars, Enqueue, Lapse, Serve, Administer, IngestSome, Ingest, ReapSome,
       Reap, PollFor, Work, Crash,
       CommitLease, NothingToLease, CommitHeartbeat, VerifyFinalize, MismatchFinalize,
       CommitAccept, CommitReject, AbortFinalize, CommitFail, CommitCancel, CommitRetry,
       CommitDisable, CommitRefinalize, BeginCancel, BeginRetry, BeginDisable, BeginRefinalize, BeginLease, BeginHeartbeat,
       BeginFinalize, BeginFail, Refused, GiveUp
  <1>4. ASSUME NEW j \in Jobs, NEW f \in Files, f # Aux
        PROVE  object'[j][f] \in {object[j][f], f}
    BY <1>2, <1>3, <1>4
  <1>5. QED
    BY <1>4 DEF FilesOwned

\* An accepted result, the moment it is recorded and ever after.
LEMMA ResultStep ==
    ASSUME Inv, SerialInv, TokenInv, CountInv, ResultInv, [Next]_vars
    PROVE  /\ ResultIntact'
           /\ \A j \in Jobs : db'[j].status = "succeeded" => db'[j].key # Aux /\ db'[j].key = db'[j].sha
  <1> SUFFICES ASSUME NEW j \in Jobs, db'[j].status = "succeeded"
               PROVE  /\ db'[j].key # Aux /\ db'[j].key = db'[j].sha
                      /\ db'[j].sha = grants'[j]
                      /\ db'[j].files[db'[j].key] = db'[j].sha
                      /\ object'[j][db'[j].key] = db'[j].sha
    BY DEF ResultIntact
  <1>1. db[j] \in Row /\ RowMove(j)
    BY EveryMove DEF SoundMove, Inv, TypeOK
  <1>2. \A f \in Files : f # Aux /\ object[j][f] = f => object'[j][f] = f
    BY ObjectStep DEF CountInv, ResultInv
  <1>3. CASE Steady(j) /\ grants'[j] = grants[j]
    <2> DEFINE r == db[j]
    <2>0. /\ db'[j].status = r.status /\ db'[j].key = r.key
          /\ db'[j].sha = r.sha /\ db'[j].files = r.files
      <3>1. db'[j] \in Row
        BY NextInv DEF Inv, TypeOK
      <3>2. QED
        BY <1>1, <1>3, <3>1, SameJob DEF Steady
    <2>1. /\ r.sha = grants[j]
          /\ r.files[r.key] = r.sha
          /\ object[j][r.key] = r.sha
          /\ r.key # Aux /\ r.key = r.sha
      BY <2>0 DEF ResultInv, ResultIntact
    <2>2. r.key \in Files
      BY <1>1 DEF Row
    <2>3. QED
      BY <1>2, <1>3, <2>0, <2>1, <2>2
  <1>4. CASE /\ grants'[j] = grants[j]
             /\ Decides(j)
    <2>1. PICK s \in Slots : /\ req[s].op = "accept"
                             /\ req[s].job = j
                             /\ db'[j].sha = req[s].grant
                             /\ db'[j].key = req[s].key
                             /\ db'[j].files[db'[j].key] = req[s].grant
      BY <1>4 DEF Decides
    <2>2. /\ req[s].grant = grants[j]
          /\ req[s].key # Aux
          /\ req[s].key = req[s].grant
          /\ object[j][req[s].key] = req[s].grant
          /\ req[s].key \in Files
      BY <2>1 DEF TokenInv, FreshReq, WorkerOps, ResultInv, CountInv, KeysCounted, ReqCounted,
                  Inv, TypeOK, Request
    <2>3. QED
      BY <1>2, <1>4, <2>1, <2>2
  <1>5. QED
    BY <1>1, <1>3, <1>4 DEF RowMove, StatusMoves, Active

LEMMA ResultInvStep ==
    ASSUME OneAtATime, Inv, SerialInv, TokenInv, CountInv, ResultInv, [Next]_vars
    PROVE  ResultInv'
  <1>1. ASSUME NEW p \in Procs, Past(proc'[p])
        PROVE  proc'[p].key # Aux
    <2>1. ProcStep(p)
      BY ProcMoves
    <2>2. ASSUME NEW s \in Slots, NEW j \in Jobs, CommitLease(s, j),
                 proc'[p].key = ResultFile(NextAttempt(req[s], j))
          PROVE  proc'[p].key # Aux
      <3>1. db[j].attempts \in Nat
        BY DEF Inv, TypeOK, Row
      <3>2. proc'[p].key = db[j].attempts + 1
        BY <2>2 DEF ResultFile, NextAttempt
      <3>3. QED
        BY <3>1, <3>2 DEF Aux
    <2>3. ASSUME NEW s \in Slots, req[s].op \in WorkerOps, proc'[p].key = req[s].key
          PROVE  proc'[p].key # Aux
      BY <2>3 DEF ResultInv
    <2>4. CASE Past(proc[p]) /\ proc'[p].key = proc[p].key
      BY <2>4 DEF ResultInv
    <2>5. QED
      BY <1>1, <2>1, <2>2, <2>3, <2>4 DEF ProcStep
  <1>2. ASSUME NEW t \in Slots, req'[t].op \in WorkerOps
        PROVE  req'[t].key # Aux
    <2>1. ReqStep(t)
      BY ReqMoves
    <2>2. CASE SameCall(req'[t], req[t])
      BY <1>2, <2>2 DEF SameCall, ResultInv
    <2>3. CASE VerifyFinalize(t) /\ req'[t].key = req[t].key
      BY <2>3 DEF VerifyFinalize, ResultInv, WorkerOps
    <2>4. ASSUME NEW p \in Procs, Past(proc[p]), req'[t].key = proc[p].key
          PROVE  req'[t].key # Aux
      BY <2>4 DEF ResultInv
    <2>5. CASE req'[t].op \in {"none", "cancel", "retry", "disable", "refinalize", "lease"}
      BY <1>2, <2>5 DEF WorkerOps
    <2>6. QED
      BY <2>1, <2>2, <2>3, <2>4, <2>5 DEF ReqStep
  <1>3. FilesOwned' /\ \A j \in Jobs, f \in Files : f # Aux /\ object[j][f] = f => object'[j][f] = f
    BY ObjectStep DEF CountInv, ResultInv
  <1>4. ASSUME NEW t \in Slots, req'[t].op = "accept"
        PROVE  object'[req'[t].job][req'[t].key] = req'[t].grant
    <2>1. req[t] \in Request /\ RequestOK(req[t]) /\ ReqCounted(req[t])
      BY DEF Inv, TypeOK, CountInv, KeysCounted
    <2>2. ASSUME req[t].op \in WorkerOps, object[req[t].job][req[t].key] = req[t].grant
          PROVE  object'[req[t].job][req[t].key] = req[t].grant
      <3>1. req[t].job \in Jobs /\ req[t].key \in Files /\ req[t].key # Aux
            /\ req[t].key = req[t].grant
        BY <2>1, <2>2 DEF RequestOK, Request, ReqCounted, ResultInv
      <3>2. QED
        BY <1>3, <2>2, <3>1
    <2>3. CASE SameCall(req'[t], req[t])
      BY <1>4, <2>2, <2>3 DEF SameCall, ResultInv, WorkerOps
    <2>4. CASE /\ VerifyFinalize(t)
               /\ req'[t].job = req[t].job /\ req'[t].key = req[t].key
               /\ req'[t].grant = req[t].grant
      BY <2>2, <2>4 DEF VerifyFinalize, HashesMatch, WorkerOps
    <2>5. ReqStep(t)
      BY ReqMoves
    <2>6. QED
      BY <1>4, <2>3, <2>4, <2>5 DEF ReqStep
  <1>5. QED
    BY <1>1, <1>2, <1>3, <1>4, ResultStep DEF ResultInv, Past

LEMMA InitResults == Init => ResultInv
  <1>1. ASSUME Init PROVE ResultInv
    <2>1. \A j \in Jobs : db[j].status = "absent"
      BY <1>1 DEF Init, NewRow
    <2>2. \A p \in Procs : ~Past(proc[p])
      BY <1>1 DEF Init, IdleProc, Past
    <2>3. \A s \in Slots : req[s].op = "none"
      BY <1>1 DEF Init, NoRequest
    <2>4. FilesOwned
      BY <1>1 DEF Init, FilesOwned
    <2>5. QED
      BY <2>1, <2>2, <2>3, <2>4 DEF ResultInv, ResultIntact, WorkerOps
  <1>2. QED
    BY <1>1

\* When the API serves one request at a time, no two workers share a token and no
\* retry resets the attempts, the result recorded for a succeeded job is the one
\* of its latest lease, and the artifact row and the stored object still carry
\* the recorded hash: no worker whose lease was lost can overwrite it.
THEOREM ResultsStayIntact ==
    ASSUME OneAtATime, OwnTokens, TRUE \notin ResetOptions
    PROVE  Spec => []ResultIntact
  <1>1. Inv /\ SerialInv /\ TokenInv /\ CountInv /\ ResultInv /\ [Next]_vars => ResultInv'
    BY ResultInvStep
  <1>2. ResultInv => ResultIntact
    BY DEF ResultInv
  <1>3. QED
    BY Tokens, Counted, InitResults, <1>1, <1>2, PTL DEF Spec
=================================================================================
