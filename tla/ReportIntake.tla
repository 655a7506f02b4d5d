------------------------------ MODULE ReportIntake ------------------------------
(*******************************************************************************)
(* Report packs on their way in: a reporter opens an upload session, puts the  *)
(* pack into the object store through a signed URL, and finalizes the session, *)
(* which creates its analysis job; an administrator may also have a session    *)
(* ingested at once (services/report_upload_service.py).                       *)
(*                                                                             *)
(* Requests are transactions of two steps (see UnitOfWork).  The object store  *)
(* is outside the transaction: an object changes when the holder of a signed   *)
(* URL puts it, and a request reads it when it is served.                      *)
(*******************************************************************************)
EXTENDS Naturals, FiniteSets, UnitOfWork

CONSTANTS
    UploadIds,      \* ids of report_upload_sessions, in the order of creation
    UploadKeys,     \* idempotency keys reporters use
    Packs,          \* contents of a report pack (a hash identifies its content)
    UploadSlots,    \* requests served at the same time
    MaxUploadTime,  \* bound: ticks of the clock; a signed URL lasts one
    MaxPuts,        \* bound: times an object is put
    MaxUploadCalls  \* bound: requests served

ASSUME UploadAssumption == /\ UploadIds \subseteq Nat /\ {MaxUploadTime, MaxPuts, MaxUploadCalls} \subseteq Nat
                           /\ "none" \notin Packs \cup UploadKeys

VARIABLES
    upload,       \* [UploadIds -> Upload]: the rows
    packJob,      \* [UploadIds -> "none" or the pack the analysis job was created for]
    object,       \* [UploadIds -> the pack in the object store, or "none"]
    uploadReq,    \* [UploadSlots -> UploadRequest]
    uploadTime,   \* the clock
    puts,         \* objects put so far
    uploadCalls,  \* requests served so far
    uploadMixed   \* history: whether two requests were ever served at once

uploadVars == <<upload, packJob, object, uploadReq, uploadTime, puts, uploadCalls, uploadMixed>>
-------------------------------------------------------------------------------
MaybePack == Packs \cup {"none"}

\* parsed is the pack that was ingested into the catalog through this session.
Upload == [status : {"absent", "pending", "uploaded", "ingesting", "succeeded", "failed"},
           key    : UploadKeys \cup {"none"},
           until  : 0 .. MaxUploadTime + 1,
           sha    : MaybePack,
           parsed : MaybePack]
NoUpload == [status |-> "absent", key |-> "none", until |-> 0, sha |-> "none", parsed |-> "none"]

UploadRequest == [busy : BOOLEAN, snap : [UploadIds -> Upload], new : [UploadIds -> Upload],
                  job : [UploadIds -> MaybePack]]
NoUploadRequest == [busy |-> FALSE, snap |-> [i \in UploadIds |-> NoUpload],
                    new |-> [i \in UploadIds |-> NoUpload], job |-> [i \in UploadIds |-> "none"]]

UploadTypeOK ==
    /\ upload \in [UploadIds -> Upload]
    /\ packJob \in [UploadIds -> MaybePack]
    /\ object \in [UploadIds -> MaybePack]
    /\ uploadReq \in [UploadSlots -> UploadRequest]
    /\ uploadTime \in 0 .. MaxUploadTime
    /\ puts \in 0 .. MaxPuts
    /\ uploadCalls \in 0 .. MaxUploadCalls
    /\ uploadMixed \in BOOLEAN

UploadInit ==
    /\ upload = [i \in UploadIds |-> NoUpload]
    /\ packJob = [i \in UploadIds |-> "none"]
    /\ object = [i \in UploadIds |-> "none"]
    /\ uploadReq = [s \in UploadSlots |-> NoUploadRequest]
    /\ uploadTime = 0
    /\ puts = 0
    /\ uploadCalls = 0
    /\ uploadMixed = FALSE
-------------------------------------------------------------------------------
\* A fault: only sessions that were uploaded are looked for.
FaultNewestUpload(k) == {i \in UploadIds : /\ upload[i].status \notin {"absent", "pending"}
                                           /\ upload[i].key = k /\ k # "none"}

\* Sessions of runtime and key, newest first, limit 1: none or one.
NewestUpload(k) == {i \in UploadIds : /\ upload[i].status # "absent"
                                      /\ upload[i].key = k /\ k # "none"
                                      /\ \A j \in UploadIds : j > i => upload[j].key # k}

UploadLive(i) == upload[i].status = "pending" /\ upload[i].until > uploadTime

\* The next id: rows of other open transactions have theirs.
NextUpload == {i \in UploadIds : /\ \A s \in UploadSlots : uploadReq[s].new[i].status = "absent"
                                 /\ \A j \in UploadIds : upload[j].status # "absent" => j < i}

ServeUpload(s, new, job) ==
    /\ ~uploadReq[s].busy /\ uploadCalls < MaxUploadCalls
    /\ uploadCalls' = uploadCalls + 1
    /\ uploadReq' = [uploadReq EXCEPT ![s] =
            [busy |-> TRUE, snap |-> upload, new |-> new, job |-> job]]
    /\ uploadMixed' = (uploadMixed \/ \E t \in UploadSlots : uploadReq[t].busy)
    /\ UNCHANGED <<upload, packJob, object, uploadTime, puts>>

NoPackJob == [i \in UploadIds |-> "none"]

\* create_report_upload_session.  A live pending session is signed again, one that
\* was uploaded is returned as it is; otherwise (no key, none, failed, or a pending
\* one whose URL has lapsed) a session is added.
SignAgain(s, k) ==
    \E i \in NewestUpload(k) :
        /\ UploadLive(i)
        /\ ServeUpload(s, [upload EXCEPT ![i].until = uploadTime + 1], NoPackJob)

\* A fault: a URL that outlasts the clock.
FaultOpenUpload(s, k) ==
    \E i \in NextUpload : ServeUpload(s,
            [upload EXCEPT ![i] = [NoUpload EXCEPT !.status = "pending", !.key = k,
                                                   !.until = MaxUploadTime + 2]], NoPackJob)
OpenUpload(s, k) ==
    /\ \A i \in NewestUpload(k) : ~UploadLive(i) /\ upload[i].status \in {"pending", "failed"}
    /\ \E i \in NextUpload : ServeUpload(s,
            [upload EXCEPT ![i] = [NoUpload EXCEPT !.status = "pending", !.key = k,
                                                   !.until = uploadTime + 1]], NoPackJob)

\* PUT through the signed URL: also after the session was finalized.
PutPack(i, p) ==
    /\ upload[i].status # "absent" /\ upload[i].until > uploadTime /\ puts < MaxPuts
    /\ object[i] # p
    /\ object' = [object EXCEPT ![i] = p]
    /\ puts' = puts + 1
    /\ UNCHANGED <<upload, packJob, uploadReq, uploadTime, uploadCalls, uploadMixed>>

UploadTick ==
    /\ uploadTime < MaxUploadTime
    /\ uploadTime' = uploadTime + 1
    /\ UNCHANGED <<upload, packJob, object, uploadReq, puts, uploadCalls, uploadMixed>>

\* create_report_analysis_job_for_session: an existing job is returned unchanged.
JobFor(i, p) == [NoPackJob EXCEPT ![i] = IF packJob[i] = "none" THEN p ELSE "none"]

\* finalize_report_upload_session: an object that is missing or not the expected one
\* raises and leaves nothing behind.
FinalizeUpload(s, i) ==
    /\ upload[i].status \in {"pending", "uploaded", "failed"}
    /\ object[i] # "none"
    /\ ServeUpload(s, [upload EXCEPT ![i].status = "uploaded", ![i].sha = object[i]],
                   JobFor(i, object[i]))

\* A fault: the hash is not compared.
FaultSealBroken(i) == FALSE

\* ingest_report_upload_session, at any status.  The pack is parsed only if it is
\* the one the session recorded; a failure of the read, of that comparison, of the
\* parser or halfway into the catalog is committed as failed.
SealBroken(i) == upload[i].sha # "none" /\ object[i] # upload[i].sha

IngestUpload(s, i) ==
    /\ upload[i].status # "absent"
    /\ \/ /\ object[i] # "none" /\ ~SealBroken(i)
          /\ \E st \in {"succeeded", "failed"} :
                ServeUpload(s, [upload EXCEPT ![i].status = st, ![i].parsed = object[i]], NoPackJob)
       \/ ServeUpload(s, [upload EXCEPT ![i].status = "failed"], NoPackJob)

\* The commit; the analysis job of a session is unique, a second one is refused and
\* its transaction rolled back.
UploadRefused(r) == \E i \in UploadIds : r.job[i] # "none" /\ packJob[i] # "none"

CommitUpload(s) ==
    LET r == uploadReq[s] IN
    /\ r.busy
    /\ IF UploadRefused(r) THEN UNCHANGED <<upload, packJob>>
       ELSE /\ upload' = FlushRows(upload, r.snap, r.new)
            /\ packJob' = [i \in UploadIds |-> IF r.job[i] = "none" THEN packJob[i] ELSE r.job[i]]
    /\ uploadReq' = [uploadReq EXCEPT ![s] = NoUploadRequest]
    /\ UNCHANGED <<object, uploadTime, puts, uploadCalls, uploadMixed>>

\* The analysis of the job moves the session (AnalysisQueue has the details).
Analysed(i) ==
    /\ packJob[i] # "none"
    /\ \E st \in {"uploaded", "ingesting", "succeeded", "failed"} : upload' = [upload EXCEPT ![i].status = st]
    /\ UNCHANGED <<packJob, object, uploadReq, uploadTime, puts, uploadCalls, uploadMixed>>

UploadNext ==
    \/ \E s \in UploadSlots, k \in UploadKeys \cup {"none"} : SignAgain(s, k) \/ OpenUpload(s, k)
    \/ \E s \in UploadSlots, i \in UploadIds : FinalizeUpload(s, i) \/ IngestUpload(s, i)
    \/ \E s \in UploadSlots : CommitUpload(s)
    \/ \E i \in UploadIds, p \in Packs : PutPack(i, p)
    \/ \E i \in UploadIds : Analysed(i)
    \/ UploadTick

UploadSpec == UploadInit /\ [][UploadNext]_uploadVars
-------------------------------------------------------------------------------
(* Safety.  Requests of a reporter that retries may overlap. *)

\* A reporter may repeat its calls.  A report it was told is uploaded has an analysis job,
\* whatever overlaps: finalize records both or none, and nothing else says uploaded; and,
\* unless two requests overlapped, no two sessions of a key can be uploaded to at once.
RetriesMeetOneSession ==
    /\ \A i \in UploadIds : upload[i].status = "uploaded" => packJob[i] # "none"
    /\ ~uploadMixed => \A k \in UploadKeys :
          Cardinality({i \in UploadIds : upload[i].key = k /\ UploadLive(i)}) <= 1

\* PUSH-06: what reaches the catalog is the pack whose hash finalize recorded, even if
\* the object was put again in between (unless requests overlapped).
IngestedIsSealed ==
    [][\A i \in UploadIds : upload'[i].parsed # upload[i].parsed /\ ~uploadMixed =>
            upload[i].sha \in {"none", upload'[i].parsed}]_uploadVars
=================================================================================
