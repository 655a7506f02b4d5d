---------------------------- MODULE IntakeProofs -----------------------------
(* What holds of the parts of the control plane that feed it, for every number of         *)
(* sessions, packs, runtimes, devices, tool servers, rows and overlapping requests: the   *)
(* sessions of report packs, the credentials of reporters, the tool servers of a machine, *)
(* the catalog of assets, the directory of units and people.  They share no rows, and     *)
(* what is proved of one holds of all of them side by side (PartsSideBySide).             *)
EXTENDS MCIntake, SetLemmas

(* Sessions of report packs *)

\* An id that holds no session holds no key and no hash.
Empty(row) == row.status = "absent" => row.key = "none" /\ row.sha = "none"
LiveRow(row) == row.status = "pending" /\ row.until > uploadTime

\* Of the sessions of a key only the newest can be uploaded to.
OnlyNewestLive(t) == \A i, j \in UploadIds :
    i < j /\ t[i].key = t[j].key /\ t[i].key # "none" => ~LiveRow(t[i])
Table(t) == OnlyNewestLive(t) /\ \A i \in UploadIds : Empty(t[i])

\* What a request that is served alone has read is still there when it commits, but for
\* the status, which the analysis of a job may have moved.
Reread(r, i) ==
    LET snap == r.snap[i]
        cur  == upload[i]
        new  == r.new[i]
    IN  /\ snap.key = cur.key /\ snap.until = cur.until /\ snap.sha = cur.sha /\ snap.parsed = cur.parsed
        /\ snap.status = "absent" <=> cur.status = "absent"
        /\ cur.status = "pending" => snap.status = "pending"
        /\ new.status = "absent" => snap.status = "absent"
        /\ new.parsed # snap.parsed => snap.sha \in {"none", new.parsed}
        /\ r.job[i] # "none" => cur.status # "absent"
Alone(r) == Table(r.new) /\ \A i \in UploadIds : Reread(r, i)

Serial ==
    /\ Table(upload)
    /\ \A i \in UploadIds : packJob[i] # "none" => upload[i].status # "absent"
    /\ \A s, t \in UploadSlots : uploadReq[s].busy /\ uploadReq[t].busy => s = t
    /\ \A s \in UploadSlots : uploadReq[s].busy => Alone(uploadReq[s])

\* Whoever says uploaded has a job, or brings one.
JobFirst ==
    /\ \A i \in UploadIds : upload[i].status = "uploaded" => packJob[i] # "none"
    /\ \A s \in UploadSlots, i \in UploadIds :
          uploadReq[s].busy /\ uploadReq[s].new[i].status = "uploaded" =>
             uploadReq[s].job[i] # "none" \/ packJob[i] # "none"

UploadInv == UploadTypeOK /\ JobFirst /\ (~uploadMixed => Serial)

LEMMA Bounds == /\ UploadIds \subseteq Nat /\ MaxUploadTime \in Nat /\ MaxPuts \in Nat /\ MaxUploadCalls \in Nat
                /\ "none" \notin Packs /\ "none" \notin UploadKeys
  BY UploadAssumption

LEMMA EmptyTypes == /\ NoUpload \in Upload /\ NoUpload.status = "absent" /\ NoUpload.key = "none" /\ NoUpload.sha = "none"
                    /\ NoUploadRequest \in UploadRequest /\ ~NoUploadRequest.busy
                    /\ NoPackJob \in [UploadIds -> MaybePack] /\ \A i \in UploadIds : NoPackJob[i] = "none"
  BY Bounds DEF NoUpload, Upload, NoUploadRequest, UploadRequest, NoPackJob, MaybePack

LEMMA UploadTypes ==
  ASSUME UploadInv
  PROVE  /\ upload \in [UploadIds -> Upload] /\ packJob \in [UploadIds -> MaybePack]
         /\ object \in [UploadIds -> MaybePack] /\ uploadReq \in [UploadSlots -> UploadRequest]
         /\ uploadTime \in 0 .. MaxUploadTime /\ puts \in 0 .. MaxPuts /\ uploadCalls \in 0 .. MaxUploadCalls
         /\ uploadMixed \in BOOLEAN /\ uploadTime \in Nat
         /\ \A i \in UploadIds : upload[i] \in Upload /\ upload[i].until \in Nat
         /\ \A s \in UploadSlots : uploadReq[s] \in UploadRequest
  BY Bounds DEF UploadInv, UploadTypeOK, Upload

LEMMA UploadInitInv == UploadInit => UploadInv
  <1> SUFFICES ASSUME UploadInit PROVE UploadInv
    OBVIOUS
  <1>1. UploadTypeOK
    <2>1. 0 \in 0 .. MaxUploadTime /\ 0 \in 0 .. MaxPuts /\ 0 \in 0 .. MaxUploadCalls
      BY Bounds
    <2> QED BY <2>1, EmptyTypes DEF UploadInit, UploadTypeOK, NoPackJob, MaybePack
  <1>2. JobFirst
    BY EmptyTypes DEF UploadInit, JobFirst
  <1>3. Serial
    BY EmptyTypes DEF UploadInit, Serial, Table, OnlyNewestLive, Empty
  <1> QED BY <1>1, <1>2, <1>3 DEF UploadInv

\* A request is served that leaves the rows as new, and creates the jobs of job.
LEMMA ServeInv ==
  ASSUME UploadInv, NEW s \in UploadSlots, NEW new \in [UploadIds -> Upload],
         NEW job \in [UploadIds -> MaybePack], ServeUpload(s, new, job),
         ~uploadMixed => Table(new),
         \A i \in UploadIds :
            /\ new[i].status = "absent" => upload[i].status = "absent"
            /\ ~uploadMixed /\ new[i].parsed # upload[i].parsed => upload[i].sha \in {"none", new[i].parsed}
            /\ job[i] # "none" => upload[i].status # "absent"
            /\ new[i].status = "uploaded" => job[i] # "none" \/ packJob[i] # "none"
  PROVE  UploadInv'
  <1>1. /\ ~uploadReq[s].busy /\ uploadCalls < MaxUploadCalls /\ uploadCalls' = uploadCalls + 1
        /\ uploadReq' = [uploadReq EXCEPT ![s] = [busy |-> TRUE, snap |-> upload, new |-> new, job |-> job]]
        /\ uploadMixed' = (uploadMixed \/ \E t \in UploadSlots : uploadReq[t].busy)
        /\ UNCHANGED <<upload, packJob, object, uploadTime, puts>>
    BY DEF ServeUpload
  <1>2. PICK r \in UploadRequest : /\ uploadReq' = [uploadReq EXCEPT ![s] = r]
                                   /\ r.snap = upload /\ r.new = new /\ r.job = job
    <2>1. [busy |-> TRUE, snap |-> upload, new |-> new, job |-> job] \in UploadRequest
      BY UploadTypes DEF UploadRequest
    <2> QED BY <1>1, <2>1
  <1>3. UploadTypeOK'
    <2>1. uploadCalls' \in 0 .. MaxUploadCalls
      BY <1>1, UploadTypes, Bounds
    <2> QED BY <1>1, <1>2, <2>1, UploadTypes DEF UploadTypeOK
  <1>4. uploadReq'[s] = r /\ \A t \in UploadSlots \ {s} : uploadReq'[t] = uploadReq[t]
    BY <1>2, UploadTypes
  <1>5. JobFirst'
    BY <1>1, <1>2, <1>4 DEF UploadInv, JobFirst
  <1>6. ASSUME ~uploadMixed' PROVE Serial'
    <2>1. ~uploadMixed /\ \A t \in UploadSlots : ~uploadReq[t].busy
      BY <1>1, <1>6
    <2>2. Table(upload) /\ Table(new) /\ \A i \in UploadIds : packJob[i] # "none" => upload[i].status # "absent"
      BY <2>1 DEF UploadInv, Serial
    <2>3. Table(upload)' /\ Table(new)' /\ \A i \in UploadIds : packJob'[i] # "none" => upload'[i].status # "absent"
      BY <1>1, <2>2 DEF Table, OnlyNewestLive, LiveRow
    <2>4. \A i \in UploadIds : Reread(r, i)'
      BY <1>1, <1>2, <2>1 DEF Reread
    <2>5. Alone(r)'
      BY <1>2, <2>3, <2>4 DEF Alone
    <2> QED BY <1>4, <2>1, <2>3, <2>5 DEF Serial
  <1> QED BY <1>3, <1>5, <1>6 DEF UploadInv

\* Of the newest session of a key, no older one can be uploaded to.
LEMMA OlderNotLive ==
  ASSUME UploadInv, ~uploadMixed, NEW k \in UploadKeys, NEW a \in UploadIds, upload[a].key = k,
         \A i \in NewestUpload(k) : ~UploadLive(i)
  PROVE  ~LiveRow(upload[a])
  <1>1. CASE upload[a].status = "absent"
    BY <1>1 DEF LiveRow
  <1>2. CASE a \in NewestUpload(k)
    BY <1>2 DEF LiveRow, UploadLive
  <1>3. CASE upload[a].status # "absent" /\ a \notin NewestUpload(k)
    <2>1. PICK j \in UploadIds : j > a /\ upload[j].key = k
      BY <1>3, Bounds DEF NewestUpload
    <2> QED BY <2>1, Bounds DEF UploadInv, Serial, Table, OnlyNewestLive
  <1> QED BY <1>1, <1>2, <1>3

LEMMA OpenUploadInv ==
  ASSUME UploadInv, NEW s \in UploadSlots, NEW k \in UploadKeys \cup {"none"}, OpenUpload(s, k)
  PROVE  UploadInv'
  <1>1. PICK i \in NextUpload : ServeUpload(s,
            [upload EXCEPT ![i] = [NoUpload EXCEPT !.status = "pending", !.key = k,
                                                   !.until = uploadTime + 1]], NoPackJob)
    BY DEF OpenUpload
  <1> DEFINE row == [NoUpload EXCEPT !.status = "pending", !.key = k, !.until = uploadTime + 1]
             new == [upload EXCEPT ![i] = row]
  <1>2. row \in Upload /\ row.status = "pending" /\ row.key = k /\ row.sha = "none"
    <2>1. uploadTime + 1 \in 0 .. MaxUploadTime + 1
      BY UploadTypes, Bounds
    <2> QED BY <2>1, EmptyTypes DEF Upload, NoUpload
  <1>3. i \in UploadIds /\ upload[i].status = "absent"
        /\ \A j \in UploadIds : upload[j].status # "absent" => j < i
    <2>1. i \in UploadIds /\ \A j \in UploadIds : upload[j].status # "absent" => j < i
      BY DEF NextUpload
    <2> QED BY <2>1, Bounds
  <1> HIDE DEF row
  <1>4. new \in [UploadIds -> Upload] /\ new[i] = row /\ \A j \in UploadIds \ {i} : new[j] = upload[j]
    BY <1>2, <1>3, UploadTypes
  <1>5. ServeUpload(s, new, NoPackJob)
    BY <1>1 DEF row
  <1> HIDE DEF new
  <1>6. ASSUME ~uploadMixed PROVE Table(new)
    <2>1. Table(upload)
      BY <1>6 DEF UploadInv, Serial
    <2>2. ASSUME NEW j \in UploadIds PROVE Empty(new[j])
      BY <1>2, <1>4, <2>1 DEF Table, Empty
    <2>3. ASSUME NEW a \in UploadIds, NEW b \in UploadIds, a < b, new[a].key = new[b].key, new[a].key # "none"
          PROVE  ~LiveRow(new[a])
      <3>1. CASE a = i
        <4>1. b # i /\ upload[b].status = "absent"
          BY <1>3, <2>3, <3>1, Bounds
        <4> QED BY <1>4, <2>1, <2>3, <4>1 DEF Table, Empty
      <3>2. CASE a # i /\ b = i
        <4>1. upload[a].key = k /\ k \in UploadKeys
          BY <1>2, <1>4, <2>3, <3>2
        <4>2. \A x \in NewestUpload(k) : ~UploadLive(x)
          BY DEF OpenUpload
        <4> QED BY <1>4, <1>6, <3>2, <4>1, <4>2, OlderNotLive
      <3>3. CASE a # i /\ b # i
        BY <1>4, <2>1, <2>3, <3>3 DEF Table, OnlyNewestLive
      <3> QED BY <3>1, <3>2, <3>3
    <2> QED BY <2>2, <2>3 DEF Table, OnlyNewestLive
  <1>7. ASSUME NEW j \in UploadIds
        PROVE  /\ new[j].status = "absent" => upload[j].status = "absent"
               /\ ~uploadMixed /\ new[j].parsed # upload[j].parsed => upload[j].sha = "none"
               /\ new[j].status = "uploaded" => packJob[j] # "none"
    BY <1>2, <1>3, <1>4 DEF UploadInv, JobFirst, Serial, Table, Empty
  <1> QED BY <1>4, <1>5, <1>6, <1>7, EmptyTypes, ServeInv

LEMMA SignAgainInv ==
  ASSUME UploadInv, NEW s \in UploadSlots, NEW k \in UploadKeys \cup {"none"}, SignAgain(s, k)
  PROVE  UploadInv'
  <1>1. PICK i \in NewestUpload(k) : ServeUpload(s, [upload EXCEPT ![i].until = uploadTime + 1], NoPackJob)
    BY DEF SignAgain
  <1> DEFINE row == [upload[i] EXCEPT !.until = uploadTime + 1]
             new == [upload EXCEPT ![i] = row]
  <1>2. i \in UploadIds /\ upload[i].key = k /\ k # "none" /\ \A j \in UploadIds : j > i => upload[j].key # k
    BY DEF NewestUpload
  <1>3. /\ row \in Upload /\ row.status = upload[i].status /\ row.key = upload[i].key
        /\ row.sha = upload[i].sha /\ row.parsed = upload[i].parsed
    <2>1. uploadTime + 1 \in 0 .. MaxUploadTime + 1
      BY UploadTypes, Bounds
    <2> QED BY <1>2, <2>1, UploadTypes DEF Upload
  <1>4. ServeUpload(s, new, NoPackJob)
    BY <1>1, <1>2, UploadTypes DEF Upload
  <1> HIDE DEF row
  <1>5. new \in [UploadIds -> Upload] /\ new[i] = row /\ \A j \in UploadIds \ {i} : new[j] = upload[j]
    BY <1>2, <1>3, UploadTypes
  <1> HIDE DEF new
  <1>6. ASSUME ~uploadMixed PROVE Table(new)
    <2>1. Table(upload)
      BY <1>6 DEF UploadInv, Serial
    <2>2. \A j \in UploadIds : Empty(new[j])
      BY <1>3, <1>5, <2>1 DEF Table, Empty
    <2>3. ASSUME NEW a \in UploadIds, NEW b \in UploadIds, a < b, new[a].key = new[b].key, new[a].key # "none"
          PROVE  ~LiveRow(new[a])
      <3>1. upload[a].key = upload[b].key /\ upload[a].key # "none"
        BY <1>3, <1>5, <2>3
      <3>2. a # i
        BY <1>2, <2>3, <3>1, Bounds
      <3> QED BY <1>5, <2>1, <2>3, <3>1, <3>2 DEF Table, OnlyNewestLive
    <2> QED BY <2>2, <2>3 DEF Table, OnlyNewestLive
  <1>7. \A j \in UploadIds : /\ new[j].status = upload[j].status /\ new[j].parsed = upload[j].parsed
                             /\ upload[j].status = "uploaded" => packJob[j] # "none"
    BY <1>3, <1>5 DEF UploadInv, JobFirst
  <1> QED BY <1>4, <1>5, <1>6, <1>7, EmptyTypes, ServeInv

\* finalize and ingest leave a session that cannot be uploaded to and keep its key.
LEMMA SettledTable ==
  ASSUME UploadInv, ~uploadMixed, NEW i \in UploadIds, NEW row \in Upload,
         row.status \notin {"absent", "pending"}, row.key = upload[i].key
  PROVE  Table([upload EXCEPT ![i] = row])
  <1> DEFINE new == [upload EXCEPT ![i] = row]
  <1>1. new[i] = row /\ \A j \in UploadIds \ {i} : new[j] = upload[j]
    BY UploadTypes
  <1>2. Table(upload)
    BY DEF UploadInv, Serial
  <1> HIDE DEF new
  <1>3. \A j \in UploadIds : new[j].key = upload[j].key /\ (LiveRow(new[j]) => LiveRow(upload[j])) /\ Empty(new[j])
    BY <1>1, <1>2 DEF LiveRow, Empty, Table
  <1> QED BY <1>2, <1>3 DEF Table, OnlyNewestLive, new

LEMMA FinalizeUploadInv ==
  ASSUME UploadInv, NEW s \in UploadSlots, NEW i \in UploadIds, FinalizeUpload(s, i) PROVE UploadInv'
  <1> DEFINE row == [upload[i] EXCEPT !.status = "uploaded", !.sha = object[i]]
             new == [upload EXCEPT ![i] = row]
             job == JobFor(i, object[i])
  <1>1. /\ row \in Upload /\ row.status = "uploaded" /\ row.key = upload[i].key /\ row.parsed = upload[i].parsed
    BY UploadTypes DEF Upload
  <1>2. ServeUpload(s, new, job) /\ upload[i].status # "absent" /\ object[i] # "none"
    BY UploadTypes DEF FinalizeUpload, Upload
  <1>3. job \in [UploadIds -> MaybePack]
        /\ (job[i] # "none" \/ packJob[i] # "none") /\ \A j \in UploadIds \ {i} : job[j] = "none"
    BY <1>2, EmptyTypes, UploadTypes DEF JobFor, MaybePack
  <1> HIDE DEF row, job
  <1>4. new \in [UploadIds -> Upload] /\ new[i] = row /\ \A j \in UploadIds \ {i} : new[j] = upload[j]
    BY <1>1, UploadTypes
  <1>5. ~uploadMixed => Table(new)
    BY <1>1, SettledTable
  <1> HIDE DEF new
  <1>6. \A j \in UploadIds : upload[j].status = "uploaded" => packJob[j] # "none"
    BY DEF UploadInv, JobFirst
  <1> QED BY <1>1, <1>2, <1>3, <1>4, <1>5, <1>6, ServeInv

LEMMA IngestUploadInv ==
  ASSUME UploadInv, NEW s \in UploadSlots, NEW i \in UploadIds, IngestUpload(s, i) PROVE UploadInv'
  <1>1. ASSUME NEW row \in Upload, row.status \in {"succeeded", "failed"}, row.key = upload[i].key,
               row.parsed # upload[i].parsed => upload[i].sha \in {"none", row.parsed},
               upload[i].status # "absent",
               ServeUpload(s, [upload EXCEPT ![i] = row], NoPackJob)
        PROVE  UploadInv'
    <2> DEFINE new == [upload EXCEPT ![i] = row]
    <2>1. new \in [UploadIds -> Upload] /\ new[i] = row /\ \A j \in UploadIds \ {i} : new[j] = upload[j]
      BY UploadTypes
    <2>2. ~uploadMixed => Table(new)
      BY <1>1, SettledTable
    <2>3. ServeUpload(s, new, NoPackJob)
      BY <1>1
    <2> HIDE DEF new
    <2>4. \A j \in UploadIds : upload[j].status = "uploaded" => packJob[j] # "none"
      BY DEF UploadInv, JobFirst
    <2> QED BY <1>1, <2>1, <2>2, <2>3, <2>4, EmptyTypes, ServeInv
  <1>2. CASE \E st \in {"succeeded", "failed"} :
                /\ object[i] # "none" /\ ~SealBroken(i)
                /\ ServeUpload(s, [upload EXCEPT ![i].status = st, ![i].parsed = object[i]], NoPackJob)
    <2>1. PICK st \in {"succeeded", "failed"} :
                /\ object[i] # "none" /\ ~SealBroken(i)
                /\ ServeUpload(s, [upload EXCEPT ![i].status = st, ![i].parsed = object[i]], NoPackJob)
      BY <1>2
    <2> DEFINE row == [upload[i] EXCEPT !.status = st, !.parsed = object[i]]
    <2>2. row \in Upload /\ row.status = st /\ row.key = upload[i].key /\ row.parsed = object[i]
      BY UploadTypes DEF Upload
    <2>3. ServeUpload(s, [upload EXCEPT ![i] = row], NoPackJob)
      BY <2>1, UploadTypes DEF Upload
    <2>4. upload[i].sha \in {"none", object[i]}
      BY <2>1 DEF SealBroken
    <2> HIDE DEF row
    <2> QED BY <1>1, <2>2, <2>3, <2>4 DEF IngestUpload
  <1>3. CASE ServeUpload(s, [upload EXCEPT ![i].status = "failed"], NoPackJob)
    <2> DEFINE row == [upload[i] EXCEPT !.status = "failed"]
    <2>1. row \in Upload /\ row.status = "failed" /\ row.key = upload[i].key /\ row.parsed = upload[i].parsed
      BY UploadTypes DEF Upload
    <2>2. ServeUpload(s, [upload EXCEPT ![i] = row], NoPackJob)
      BY <1>3, UploadTypes DEF Upload
    <2> HIDE DEF row
    <2> QED BY <1>1, <2>1, <2>2 DEF IngestUpload
  <1> QED BY <1>2, <1>3 DEF IngestUpload
-------------------------------------------------------------------------------
LEMMA FlushedUpload ==
  ASSUME NEW cur \in Upload, NEW snap \in Upload, NEW new \in Upload
  PROVE  LET row == Flush(cur, snap, new) IN
         /\ row \in Upload
         /\ row.status = IF new.status = snap.status THEN cur.status ELSE new.status
         /\ row.key = IF new.key = snap.key THEN cur.key ELSE new.key
         /\ row.until = IF new.until = snap.until THEN cur.until ELSE new.until
         /\ row.sha = IF new.sha = snap.sha THEN cur.sha ELSE new.sha
         /\ row.parsed = IF new.parsed = snap.parsed THEN cur.parsed ELSE new.parsed
  BY DEF Flush, Upload

\* A request that was alone leaves the rows it meant to leave, but for the status.
LEMMA CommitRow ==
  ASSUME UploadInv, NEW r \in UploadRequest, NEW i \in UploadIds, Reread(r, i)
  PROVE  LET row == Flush(upload[i], r.snap[i], r.new[i]) IN
         /\ row.key = r.new[i].key /\ row.until = r.new[i].until
         /\ row.sha = r.new[i].sha /\ row.parsed = r.new[i].parsed
         /\ row.status = "pending" => r.new[i].status = "pending"
         /\ row.status = "absent" => r.new[i].status = "absent" /\ upload[i].status = "absent"
  <1>1. upload[i] \in Upload /\ r.snap[i] \in Upload /\ r.new[i] \in Upload
    BY UploadTypes DEF UploadRequest
  <1> QED BY <1>1, FlushedUpload DEF Reread

LEMMA CommitUploadInv ==
  ASSUME UploadInv, NEW s \in UploadSlots, CommitUpload(s) PROVE UploadInv'
  <1> DEFINE r == uploadReq[s]
  <1>1. /\ r.busy /\ uploadReq' = [uploadReq EXCEPT ![s] = NoUploadRequest]
        /\ UNCHANGED <<object, uploadTime, puts, uploadCalls, uploadMixed>>
    BY DEF CommitUpload
  <1>2. r \in UploadRequest /\ \A i \in UploadIds : r.job[i] \in MaybePack
    BY UploadTypes DEF UploadRequest
  <1>3. /\ uploadReq' \in [UploadSlots -> UploadRequest] /\ ~uploadReq'[s].busy
        /\ \A t \in UploadSlots \ {s} : uploadReq'[t] = uploadReq[t]
    BY <1>1, EmptyTypes, UploadTypes
  <1>4. CASE UNCHANGED <<upload, packJob>>
    <2>1. UploadTypeOK'
      BY <1>1, <1>3, <1>4, UploadTypes DEF UploadTypeOK
    <2>2. JobFirst'
      BY <1>1, <1>3, <1>4 DEF UploadInv, JobFirst
    <2>3. ASSUME ~uploadMixed' PROVE Serial'
      <3>1. Serial /\ \A t \in UploadSlots : ~uploadReq'[t].busy
        BY <1>1, <1>3, <2>3 DEF UploadInv, Serial
      <3> QED BY <1>1, <1>4, <3>1 DEF Serial, Table, OnlyNewestLive, LiveRow
    <2> QED BY <2>1, <2>2, <2>3 DEF UploadInv
  <1>5. CASE ~UNCHANGED <<upload, packJob>>
    <2>1. /\ ~UploadRefused(r)
          /\ upload' = [i \in UploadIds |-> Flush(upload[i], r.snap[i], r.new[i])]
          /\ packJob' = [i \in UploadIds |-> IF r.job[i] = "none" THEN packJob[i] ELSE r.job[i]]
      BY <1>5, UploadTypes DEF CommitUpload, FlushRows
    <2>2. \A i \in UploadIds : upload[i] \in Upload /\ r.snap[i] \in Upload /\ r.new[i] \in Upload
      BY <1>2, UploadTypes DEF UploadRequest
    <2>3. \A i \in UploadIds : /\ upload'[i] = Flush(upload[i], r.snap[i], r.new[i])
                               /\ upload'[i] \in Upload /\ packJob'[i] \in MaybePack
                               /\ packJob[i] # "none" => packJob'[i] # "none"
                               /\ r.job[i] # "none" => packJob'[i] # "none"
                               /\ packJob'[i] # "none" => packJob[i] # "none" \/ r.job[i] # "none"
                               /\ upload'[i].status \in {upload[i].status, r.new[i].status}
      BY <1>2, <2>1, <2>2, FlushedUpload, UploadTypes
    <2>4. UploadTypeOK'
      BY <1>1, <1>3, <2>1, <2>3, UploadTypes DEF UploadTypeOK
    <2>5. JobFirst'
      BY <1>1, <1>3, <2>3 DEF UploadInv, JobFirst
    <2>6. ASSUME ~uploadMixed' PROVE Serial'
      <3>1. Serial /\ Alone(r) /\ \A t \in UploadSlots : ~uploadReq'[t].busy
        BY <1>1, <1>3, <2>6 DEF UploadInv, Serial
      <3>2. \A i \in UploadIds :
              /\ upload'[i].key = r.new[i].key /\ upload'[i].until = r.new[i].until /\ upload'[i].sha = r.new[i].sha
              /\ upload'[i].status = "pending" => r.new[i].status = "pending"
              /\ upload'[i].status = "absent" => r.new[i].status = "absent" /\ upload[i].status = "absent"
        BY <1>2, <2>3, <3>1, CommitRow DEF Alone
      <3>3. Table(upload)'
        BY <1>1, <3>1, <3>2 DEF Alone, Table, OnlyNewestLive, LiveRow, Empty
      <3>4. \A i \in UploadIds : packJob'[i] # "none" => upload'[i].status # "absent"
        BY <2>3, <3>1, <3>2 DEF Serial, Alone, Reread
      <3> QED BY <3>1, <3>3, <3>4 DEF Serial
    <2> QED BY <2>4, <2>5, <2>6 DEF UploadInv
  <1> QED BY <1>4, <1>5

\* Time passes, the reporter puts an object, and the analysis moves a session.
LEMMA TickInv == ASSUME UploadInv, UploadTick PROVE UploadInv'
  <1>1. uploadTime' = uploadTime + 1 /\ uploadTime < MaxUploadTime
        /\ UNCHANGED <<upload, packJob, object, uploadReq, puts, uploadCalls, uploadMixed>>
    BY DEF UploadTick
  <1>2. UploadTypeOK'
    <2>1. uploadTime' \in 0 .. MaxUploadTime
      BY <1>1, UploadTypes, Bounds
    <2> QED BY <1>1, <2>1, UploadTypes DEF UploadTypeOK
  <1>3. JobFirst'
    BY <1>1 DEF UploadInv, JobFirst
  <1>4. ASSUME NEW row \in Upload PROVE LiveRow(row)' => LiveRow(row)
    <2>1. row.until \in Nat
      BY Bounds DEF Upload
    <2> QED BY <1>1, <2>1, UploadTypes DEF LiveRow
  <1>5. ASSUME NEW t \in [UploadIds -> Upload], Table(t) PROVE Table(t)'
    <2>1. \A i \in UploadIds : LiveRow(t[i])' => LiveRow(t[i])
      BY <1>4
    <2> QED BY <1>5, <2>1 DEF Table, OnlyNewestLive
  <1>6. ASSUME ~uploadMixed' PROVE Serial'
    <2>1. Serial
      BY <1>1, <1>6 DEF UploadInv
    <2>2. Table(upload)'
      <3>1. PICK t \in [UploadIds -> Upload] : t = upload
        BY UploadTypes
      <3> QED BY <1>1, <1>5, <2>1, <3>1 DEF Serial, Table, OnlyNewestLive
    <2>3. ASSUME NEW s \in UploadSlots, uploadReq[s].busy PROVE Alone(uploadReq[s])'
      <3>1. Alone(uploadReq[s]) /\ uploadReq[s].new \in [UploadIds -> Upload]
        BY <2>1, <2>3, UploadTypes DEF Serial, UploadRequest
      <3>2. PICK t \in [UploadIds -> Upload] : t = uploadReq[s].new
        BY <3>1
      <3>3. Table(uploadReq[s].new)'
        BY <1>1, <1>5, <3>1, <3>2 DEF Alone, Table, OnlyNewestLive
      <3> QED BY <1>1, <3>1, <3>3 DEF Alone, Reread
    <2> QED BY <1>1, <2>1, <2>2, <2>3 DEF Serial
  <1> QED BY <1>2, <1>3, <1>6 DEF UploadInv

LEMMA PutPackInv == ASSUME UploadInv, NEW i \in UploadIds, NEW p \in Packs, PutPack(i, p) PROVE UploadInv'
  <1>1. object' = [object EXCEPT ![i] = p] /\ puts < MaxPuts /\ puts' = puts + 1
        /\ UNCHANGED <<upload, packJob, uploadReq, uploadTime, uploadCalls, uploadMixed>>
    BY DEF PutPack
  <1>2. puts' \in 0 .. MaxPuts /\ object' \in [UploadIds -> MaybePack]
    BY <1>1, UploadTypes, Bounds DEF MaybePack
  <1>3. UploadTypeOK'
    BY <1>1, <1>2, UploadTypes DEF UploadTypeOK
  <1>4. JobFirst'
    BY <1>1 DEF UploadInv, JobFirst
  <1>5. Serial => Serial'
    BY <1>1 DEF Serial, Alone, Reread, Table, OnlyNewestLive, LiveRow
  <1> QED BY <1>1, <1>3, <1>4, <1>5 DEF UploadInv

LEMMA AnalysedInv == ASSUME UploadInv, NEW i \in UploadIds, Analysed(i) PROVE UploadInv'
  <1>1. PICK st \in {"uploaded", "ingesting", "succeeded", "failed"} : upload' = [upload EXCEPT ![i].status = st]
    BY DEF Analysed
  <1>2. packJob[i] # "none" /\ UNCHANGED <<packJob, object, uploadReq, uploadTime, puts, uploadCalls, uploadMixed>>
    BY DEF Analysed
  <1>3. upload' \in [UploadIds -> Upload] /\ upload'[i].status = st
        /\ \A j \in UploadIds : /\ j # i => upload'[j] = upload[j]
                                /\ upload'[j].key = upload[j].key /\ upload'[j].until = upload[j].until
                                /\ upload'[j].sha = upload[j].sha /\ upload'[j].parsed = upload[j].parsed
    BY <1>1, UploadTypes DEF Upload
  <1>4. UploadTypeOK'
    BY <1>2, <1>3, UploadTypes DEF UploadTypeOK
  <1>5. JobFirst'
    BY <1>2, <1>3 DEF UploadInv, JobFirst
  <1>6. ASSUME Serial PROVE Serial'
    <2>1. \A j \in UploadIds : /\ upload'[j].status = "absent" <=> upload[j].status = "absent"
                               /\ upload'[j].status = "pending" => upload[j].status = "pending"
      BY <1>2, <1>3, <1>6 DEF Serial
    <2>2. Table(upload)'
      <3>1. Table(upload)
        BY <1>6 DEF Serial
      <3>2. \A j \in UploadIds : (LiveRow(upload[j])' => LiveRow(upload[j])) /\ Empty(upload[j])'
        BY <1>2, <1>3, <2>1, <3>1 DEF LiveRow, Table, Empty
      <3>3. OnlyNewestLive(upload)'
        BY <1>3, <3>1, <3>2 DEF Table, OnlyNewestLive
      <3> QED BY <3>2, <3>3 DEF Table
    <2>3. ASSUME NEW s \in UploadSlots, uploadReq[s].busy PROVE Alone(uploadReq[s])'
      <3>1. Alone(uploadReq[s])
        BY <1>6, <2>3 DEF Serial
      <3>2. ASSUME NEW j \in UploadIds PROVE Reread(uploadReq[s], j)'
        <4>1. Reread(uploadReq[s], j) /\ uploadReq'[s] = uploadReq[s]
          BY <1>2, <3>1 DEF Alone
        <4>2. /\ upload'[j].key = upload[j].key /\ upload'[j].until = upload[j].until
              /\ upload'[j].sha = upload[j].sha /\ upload'[j].parsed = upload[j].parsed
          BY <1>3
        <4> QED BY <2>1, <4>1, <4>2 DEF Reread
      <3> QED BY <1>2, <3>1, <3>2 DEF Alone, Table, OnlyNewestLive, LiveRow
    <2> QED BY <1>2, <1>6, <2>1, <2>2, <2>3 DEF Serial
  <1> QED BY <1>2, <1>4, <1>5, <1>6 DEF UploadInv

LEMMA UploadStepInv == UploadInv /\ [UploadNext]_uploadVars => UploadInv'
  <1> SUFFICES ASSUME UploadInv, [UploadNext]_uploadVars PROVE UploadInv'
    OBVIOUS
  <1>1. CASE UNCHANGED uploadVars
    <2>1. UploadTypeOK' /\ JobFirst'
      BY <1>1 DEF uploadVars, UploadInv, UploadTypeOK, JobFirst
    <2>2. Serial => Serial'
      BY <1>1 DEF uploadVars, Serial, Alone, Reread, Table, OnlyNewestLive, LiveRow
    <2> QED BY <1>1, <2>1, <2>2 DEF uploadVars, UploadInv
  <1>2. CASE UploadNext
    BY <1>2, OpenUploadInv, SignAgainInv, FinalizeUploadInv, IngestUploadInv, CommitUploadInv, TickInv,
       PutPackInv, AnalysedInv DEF UploadNext
  <1> QED BY <1>1, <1>2

\* A session that a reporter was told is uploaded has its job, and a reporter that repeats
\* its calls one after another has one session to upload to, for every number of sessions,
\* keys and requests.
THEOREM OneSessionPerKey == UploadSpec => []RetriesMeetOneSession
  <1>1. ASSUME UploadInv PROVE RetriesMeetOneSession
    <2>1. \A i \in UploadIds : upload[i].status = "uploaded" => packJob[i] # "none"
      BY <1>1 DEF UploadInv, JobFirst
    <2>2. ASSUME ~uploadMixed, NEW k \in UploadKeys
          PROVE  Cardinality({i \in UploadIds : upload[i].key = k /\ UploadLive(i)}) <= 1
      <3> DEFINE live == {i \in UploadIds : upload[i].key = k /\ UploadLive(i)}
      <3>1. \A i, j \in live : i = j
        <4>1. \A i, j \in live : ~(i < j)
          BY <1>1, <2>2, Bounds DEF UploadInv, Serial, Table, OnlyNewestLive, LiveRow, UploadLive
        <4> QED BY <4>1, Bounds
      <3>2. CASE live = {}
        <4>1. Cardinality(live) = 0
          BY <3>2, FS_EmptySet
        <4> QED BY <4>1
      <3>3. CASE live # {}
        <4>1. PICK i \in live : live = {i}
          BY <3>1, <3>3
        <4>2. Cardinality(live) = 1
          BY <4>1, FS_Singleton
        <4> QED BY <4>2
      <3> QED BY <3>2, <3>3
    <2> QED BY <2>1, <2>2 DEF RetriesMeetOneSession
  <1> QED BY <1>1, UploadInitInv, UploadStepInv, PTL DEF UploadSpec

\* However requests overlap, fail and are repeated, sessions, objects and jobs stay in their
\* types.
THEOREM UploadTypesHold == UploadSpec => []UploadTypeOK
  <1>1. UploadInv => UploadTypeOK
    BY DEF UploadInv
  <1> QED BY <1>1, UploadInitInv, UploadStepInv, PTL DEF UploadSpec

\* What a lone request ingests is the pack whose hash was recorded.
THEOREM SealHolds == UploadSpec => IngestedIsSealed
  <1>1. UploadInv /\ [UploadNext]_uploadVars =>
          [\A i \in UploadIds : upload'[i].parsed # upload[i].parsed /\ ~uploadMixed =>
              upload[i].sha \in {"none", upload'[i].parsed}]_uploadVars
    <2> SUFFICES ASSUME UploadInv, UploadNext, ~uploadMixed, NEW i \in UploadIds,
                        upload'[i].parsed # upload[i].parsed
                 PROVE  upload[i].sha \in {"none", upload'[i].parsed}
      BY DEF uploadVars
    <2>1. PICK s \in UploadSlots : CommitUpload(s)
      <3>1. ~(\E j \in UploadIds : Analysed(j))
        BY UploadTypes DEF Analysed, Upload
      <3> QED BY <3>1 DEF UploadNext, SignAgain, OpenUpload, FinalizeUpload, IngestUpload, ServeUpload, PutPack, UploadTick
    <2> DEFINE r == uploadReq[s]
    <2>2. r.busy /\ upload'[i] = Flush(upload[i], r.snap[i], r.new[i])
      BY <2>1, UploadTypes DEF CommitUpload, FlushRows
    <2>3. Reread(r, i) /\ r \in UploadRequest
      BY <2>2, UploadTypes DEF UploadInv, Serial, Alone
    <2>4. upload'[i].parsed = r.new[i].parsed
      BY <2>2, <2>3, CommitRow
    <2> QED BY <2>3, <2>4 DEF Reread
  <1> QED BY <1>1, UploadInitInv, UploadStepInv, PTL DEF UploadSpec, IngestedIsSealed
-------------------------------------------------------------------------------
(* Credentials of reporters *)

\* No two active credentials of one device and runtime; a credential that there is belongs
\* to a runtime that there is, so that the runtime of a new enrolment has none.
DevicesOK(rep) == \A c, d \in Reporters :
    rep[c].state = "active" /\ rep[d].state = "active" /\ rep[c].runtime = rep[d].runtime
      /\ rep[c].device = rep[d].device => c = d
RuntimesOK(rt, rep) == \A c \in Reporters : rep[c].state # "absent" =>
    rep[c].runtime \in Runtimes /\ rt[rep[c].runtime].status # "absent"
ReportersOK(db) == DevicesOK(db.rep) /\ RuntimesOK(db.rt, db.rep)

\* A request that is served alone has read what is there.
ReporterSerial ==
    /\ ReportersOK(ReporterRows)
    /\ \A s, t \in ReporterSlots : reporterReq[s].busy /\ reporterReq[t].busy => s = t
    /\ \A s \in ReporterSlots : reporterReq[s].busy => /\ reporterReq[s].snap = ReporterRows
                                                       /\ ReportersOK(reporterReq[s].new)

ReporterInv == ReporterTypeOK /\ (~reporterMixed => ReporterSerial)

LEMMA RowTypes ==
    /\ NoRuntimeRow \in RuntimeRow /\ NoRuntimeRow.status = "absent"
    /\ NoReporter \in ReporterRow /\ NoReporter.state = "absent"
    /\ NoToken \in TokenRow
  BY DEF NoRuntimeRow, RuntimeRow, NoReporter, ReporterRow, NoToken, TokenRow

LEMMA NoDbType == NoReporterDb \in ReporterDb /\ NoReporterRequest \in ReporterRequest /\ ~NoReporterRequest.busy
                  /\ ReportersOK(NoReporterDb)
  <1>1. NoReporterDb \in ReporterDb /\ \A c \in Reporters : NoReporterDb.rep[c].state = "absent"
    BY RowTypes DEF NoReporterDb, ReporterDb
  <1>2. NoReporterRequest \in ReporterRequest /\ ~NoReporterRequest.busy
    BY <1>1 DEF NoReporterRequest, ReporterRequest
  <1> QED BY <1>1, <1>2 DEF ReportersOK, DevicesOK, RuntimesOK

LEMMA ReporterTypes ==
  ASSUME ReporterInv
  PROVE  /\ runtime \in [Runtimes -> RuntimeRow] /\ reporter \in [Reporters -> ReporterRow]
         /\ token \in [ReportTokens -> TokenRow] /\ reporterReq \in [ReporterSlots -> ReporterRequest]
         /\ reporterCalls \in 0 .. MaxReporterCalls /\ reporterMixed \in BOOLEAN
         /\ ReporterRows \in ReporterDb /\ ReporterRows.rt = runtime /\ ReporterRows.rep = reporter
         /\ ReporterRows.tok = token
  BY DEF ReporterInv, ReporterTypeOK, ReporterRows, ReporterDb

LEMMA ReporterInitInv == ReporterInit => ReporterInv
  <1> SUFFICES ASSUME ReporterInit PROVE ReporterInv
    OBVIOUS
  <1>1. NoReporterDb.rt \in [Runtimes -> RuntimeRow] /\ NoReporterDb.rep \in [Reporters -> ReporterRow]
        /\ NoReporterDb.tok \in [ReportTokens -> TokenRow]
    BY NoDbType DEF ReporterDb
  <1>2. ReporterTypeOK
    <2>1. 0 \in 0 .. MaxReporterCalls
      BY ReporterAssumption
    <2> QED BY <1>1, <2>1, NoDbType DEF ReporterInit, ReporterTypeOK
  <1>3. ReporterRows.rep = NoReporterDb.rep /\ ReporterRows.rt = NoReporterDb.rt
    BY DEF ReporterInit, ReporterRows
  <1>4. ReporterSerial
    BY <1>3, NoDbType DEF ReporterInit, ReporterSerial, ReportersOK
  <1> QED BY <1>2, <1>4 DEF ReporterInv

LEMMA ServeReporterInv ==
  ASSUME ReporterInv, NEW s \in ReporterSlots, NEW new \in ReporterDb, ServeReporter(s, new),
         ReportersOK(ReporterRows) => ReportersOK(new)
  PROVE  ReporterInv'
  <1>1. /\ ~reporterReq[s].busy /\ reporterCalls < MaxReporterCalls /\ reporterCalls' = reporterCalls + 1
        /\ reporterReq' = [reporterReq EXCEPT ![s] = [busy |-> TRUE, snap |-> ReporterRows, new |-> new]]
        /\ reporterMixed' = (reporterMixed \/ \E t \in ReporterSlots : reporterReq[t].busy)
        /\ UNCHANGED <<runtime, reporter, token>>
    BY DEF ServeReporter
  <1>2. PICK r \in ReporterRequest : /\ reporterReq' = [reporterReq EXCEPT ![s] = r]
                                     /\ r.snap = ReporterRows /\ r.new = new
    <2>1. [busy |-> TRUE, snap |-> ReporterRows, new |-> new] \in ReporterRequest
      BY ReporterTypes DEF ReporterRequest
    <2> QED BY <1>1, <2>1
  <1>3. ReporterTypeOK'
    <2>1. reporterCalls' \in 0 .. MaxReporterCalls
      BY <1>1, ReporterTypes, ReporterAssumption
    <2> QED BY <1>1, <1>2, <2>1, ReporterTypes DEF ReporterTypeOK
  <1>4. ReporterRows' = ReporterRows
    BY <1>1 DEF ReporterRows
  <1>5. reporterReq'[s] = r /\ \A t \in ReporterSlots \ {s} : reporterReq'[t] = reporterReq[t]
    BY <1>2, ReporterTypes
  <1>6. ASSUME ~reporterMixed' PROVE ReporterSerial'
    <2>1. ReportersOK(ReporterRows) /\ \A t \in ReporterSlots : ~reporterReq[t].busy
      BY <1>1, <1>6 DEF ReporterInv, ReporterSerial
    <2>2. ReportersOK(new)
      BY <2>1
    <2>3. ReportersOK(ReporterRows')
      BY <1>4, <2>1
    <2> QED BY <1>2, <1>4, <1>5, <2>1, <2>2, <2>3 DEF ReporterSerial
  <1> QED BY <1>3, <1>6 DEF ReporterInv

LEMMA FreshType == ASSUME NEW r \in Runtimes, NEW d \in Devices
                   PROVE  FreshReporter(r, d) \in ReporterRow
  BY DEF FreshReporter, ReporterRow

\* A request that writes a runtime's status writes nothing else by that.
LEMMA StatusWritten ==
  ASSUME NEW r, NEW st
  PROVE  [ReporterRows EXCEPT !.rt[r].status = st]
            = [rt |-> [runtime EXCEPT ![r].status = st], rep |-> reporter, tok |-> token]
  BY DEF ReporterRows

LEMMA SeenWritten ==
  ASSUME NEW rt, NEW c
  PROVE  [[rt |-> rt, rep |-> reporter, tok |-> token] EXCEPT !.rep[c].seen = TRUE]
            = [rt |-> rt, rep |-> [reporter EXCEPT ![c].seen = TRUE], tok |-> token]
  <1> DEFINE rows == [rt |-> rt, rep |-> reporter, tok |-> token]
  <1>1. [rows EXCEPT !.rep[c].seen = TRUE] = [rows EXCEPT !.rep = [rows.rep EXCEPT ![c].seen = TRUE]]
    OBVIOUS
  <1>2. rows.rep = reporter
    OBVIOUS
  <1>3. \A rep : [rows EXCEPT !.rep = rep] = [rt |-> rt, rep |-> rep, tok |-> token]
    OBVIOUS
  <1>4. rows = [rt |-> rt, rep |-> reporter, tok |-> token]
    OBVIOUS
  <1> HIDE DEF rows
  <1>5. [rows EXCEPT !.rep[c].seen = TRUE] = [rt |-> rt, rep |-> [reporter EXCEPT ![c].seen = TRUE], tok |-> token]
    BY <1>1, <1>2, <1>3
  <1> QED BY <1>4, <1>5

LEMMA EnrollInv == ASSUME ReporterInv, NEW s \in ReporterSlots, Enroll(s) PROVE ReporterInv'
  <1>1. PICK r \in NextRuntime, c \in NextReporterId, d \in Devices :
           ServeReporter(s, [ReporterRows EXCEPT !.rt[r].status = "active", !.rep[c] = FreshReporter(r, d)])
    BY DEF Enroll
  <1>2. r \in Runtimes /\ c \in Reporters /\ runtime[r].status = "absent"
    BY DEF NextRuntime, NextReporterId, NextReporter
  <1> DEFINE new == [ReporterRows EXCEPT !.rt[r].status = "active", !.rep[c] = FreshReporter(r, d)]
  <1>3. /\ new \in ReporterDb
        /\ new.rep = [reporter EXCEPT ![c] = FreshReporter(r, d)] /\ new.rt = [runtime EXCEPT ![r].status = "active"]
    <2>1. [runtime EXCEPT ![r].status = "active"] \in [Runtimes -> RuntimeRow]
      BY <1>2, ReporterTypes DEF RuntimeRow
    <2>2. [reporter EXCEPT ![c] = FreshReporter(r, d)] \in [Reporters -> ReporterRow]
      BY <1>2, FreshType, ReporterTypes
    <2>3. new = [rt |-> [runtime EXCEPT ![r].status = "active"],
                 rep |-> [reporter EXCEPT ![c] = FreshReporter(r, d)], tok |-> token]
      <3>1. new = [[ReporterRows EXCEPT !.rt[r].status = "active"] EXCEPT !.rep[c] = FreshReporter(r, d)]
        OBVIOUS
      <3>2. [ReporterRows EXCEPT !.rt[r].status = "active"]
              = [rt |-> [runtime EXCEPT ![r].status = "active"], rep |-> reporter, tok |-> token]
        BY StatusWritten
      <3>3. \A rt : [[rt |-> rt, rep |-> reporter, tok |-> token] EXCEPT !.rep[c] = FreshReporter(r, d)]
                       = [rt |-> rt, rep |-> [reporter EXCEPT ![c] = FreshReporter(r, d)], tok |-> token]
        OBVIOUS
      <3> QED BY <3>1, <3>2, <3>3
    <2> QED BY <2>1, <2>2, <2>3, ReporterTypes DEF ReporterDb
  <1>4. ServeReporter(s, new)
    BY <1>1
  <1> HIDE DEF new
  <1>5. ASSUME ReportersOK(ReporterRows) PROVE ReportersOK(new)
    <2>1. \A e \in Reporters : reporter[e].state # "absent" => reporter[e].runtime # r
      BY <1>2, <1>5, ReporterTypes DEF ReportersOK, RuntimesOK
    <2>2. new.rep[c].state = "active" /\ new.rep[c].runtime = r /\ \A e \in Reporters \ {c} : new.rep[e] = reporter[e]
      BY <1>2, <1>3, ReporterTypes DEF FreshReporter
    <2>3. \A q \in Runtimes : new.rt[q].status # "absent" \/ new.rt[q] = runtime[q]
      BY <1>3, ReporterTypes DEF RuntimeRow
    <2>4. new.rt[r].status = "active"
      BY <1>2, <1>3, ReporterTypes DEF RuntimeRow
    <2>5. DevicesOK(new.rep)
      BY <1>5, <2>1, <2>2, ReporterTypes DEF ReportersOK, DevicesOK
    <2>6. RuntimesOK(new.rt, new.rep)
      BY <1>2, <1>5, <2>2, <2>3, <2>4, ReporterTypes DEF ReportersOK, RuntimesOK
    <2> QED BY <2>5, <2>6 DEF ReportersOK
  <1> QED BY <1>3, <1>4, <1>5, ServeReporterInv

LEMMA RotateInv == ASSUME ReporterInv, NEW s \in ReporterSlots, Rotate(s) PROVE ReporterInv'
  <1> DEFINE rep(c, n) == [d \in Reporters |->
                    IF d = n THEN FreshReporter(reporter[c].runtime, reporter[c].device)
                    ELSE IF d \in Superseded(c) THEN [reporter[d] EXCEPT !.state = "revoked"]
                    ELSE reporter[d]]
  <1>1. PICK c \in Reporters, n \in NextReporterId :
           reporter[c].state # "absent" /\ ServeReporter(s, [ReporterRows EXCEPT !.rep = rep(c, n)])
    BY DEF Rotate
  <1>2. n \in Reporters
    BY DEF NextReporterId, NextReporter
  <1>3. rep(c, n) \in [Reporters -> ReporterRow]
    BY <1>2, ReporterTypes DEF FreshReporter, ReporterRow
  <1> DEFINE new == [ReporterRows EXCEPT !.rep = rep(c, n)]
  <1>4. new \in ReporterDb /\ new.rep = rep(c, n) /\ new.rt = runtime
    <2>1. new = [rt |-> runtime, rep |-> rep(c, n), tok |-> token]
      BY DEF ReporterRows
    <2> QED BY <1>3, <2>1, ReporterTypes DEF ReporterDb
  <1>5. ServeReporter(s, new)
    BY <1>1
  <1>6. /\ new.rep[n].state = "active" /\ new.rep[n].runtime = reporter[c].runtime /\ new.rep[n].device = reporter[c].device
        /\ \A d \in Reporters \ {n} :
              /\ new.rep[d].runtime = reporter[d].runtime /\ new.rep[d].device = reporter[d].device
              /\ new.rep[d].state # "absent" => reporter[d].state # "absent" \/ d = c
              /\ new.rep[d].state = "active" => /\ reporter[d].state = "active"
                                                /\ ~(/\ reporter[d].runtime = reporter[c].runtime
                                                     /\ reporter[d].device = reporter[c].device)
    <2>1. new.rep[n] = FreshReporter(reporter[c].runtime, reporter[c].device)
      BY <1>2, <1>4
    <2>2. ASSUME NEW d \in Reporters \ {n}, d \in Superseded(c)
          PROVE  new.rep[d].state = "revoked" /\ (reporter[d].state # "absent" \/ d = c)
                 /\ new.rep[d].runtime = reporter[d].runtime /\ new.rep[d].device = reporter[d].device
      BY <1>4, <2>2, ReporterTypes DEF Superseded, ReporterRow
    <2>3. ASSUME NEW d \in Reporters \ {n}, d \notin Superseded(c) PROVE new.rep[d] = reporter[d]
      BY <1>4, <2>3
    <2> QED BY <2>1, <2>2, <2>3 DEF FreshReporter, Superseded
  <1> HIDE DEF new
  <1>7. ASSUME ReportersOK(ReporterRows) PROVE ReportersOK(new)
    <2>1. DevicesOK(new.rep)
      BY <1>6, <1>7, ReporterTypes DEF ReportersOK, DevicesOK
    <2>2. RuntimesOK(new.rt, new.rep)
      BY <1>1, <1>4, <1>6, <1>7, ReporterTypes DEF ReportersOK, RuntimesOK
    <2> QED BY <2>1, <2>2 DEF ReportersOK
  <1> QED BY <1>4, <1>5, <1>7, ServeReporterInv

\* The other requests add no credential, make none active and take no runtime away.
Quiet(rt, rep) ==
    /\ \A r \in Runtimes : runtime[r].status # "absent" => rt[r].status # "absent"
    /\ \A c \in Reporters : /\ rep[c].runtime = reporter[c].runtime /\ rep[c].device = reporter[c].device
                            /\ rep[c].state = reporter[c].state
                                 \/ (reporter[c].state # "absent" /\ rep[c].state = "revoked")

LEMMA QuietInv ==
  ASSUME ReporterInv, NEW s \in ReporterSlots,
         NEW rt \in [Runtimes -> RuntimeRow], NEW rep \in [Reporters -> ReporterRow], NEW tok \in [ReportTokens -> TokenRow],
         ServeReporter(s, [rt |-> rt, rep |-> rep, tok |-> tok]),
         Quiet(rt, rep)
  PROVE  ReporterInv'
  <1> DEFINE new == [rt |-> rt, rep |-> rep, tok |-> tok]
  <1>1. new \in ReporterDb /\ new.rt = rt /\ new.rep = rep
    BY DEF ReporterDb
  <1>2. ReportersOK(ReporterRows) => ReportersOK(new)
    BY <1>1, ReporterTypes DEF ReportersOK, DevicesOK, RuntimesOK, Quiet
  <1> HIDE DEF new
  <1>3. ServeReporter(s, new)
    BY DEF new
  <1> QED BY <1>1, <1>2, <1>3, ServeReporterInv

LEMMA QuietRequestsInv ==
  ASSUME ReporterInv, NEW s \in ReporterSlots,
         \/ Heartbeat(s) \/ Revoke(s) \/ CreateToken(s) \/ RevokeToken(s) \/ CreateRuntime(s) \/ UpdateRuntime(s)
  PROVE  ReporterInv'
  <1>1. CASE Heartbeat(s)
    <2>1. PICK r \in Runtimes, st \in {"active", "degraded"} :
            \/ \E c \in Reporters : ServeReporter(s, [ReporterRows EXCEPT !.rt[r].status = st, !.rep[c].seen = TRUE])
            \/ ServeReporter(s, [ReporterRows EXCEPT !.rt[r].status = st])
      BY <1>1 DEF Heartbeat
    <2>2. [runtime EXCEPT ![r].status = st] \in [Runtimes -> RuntimeRow]
          /\ \A q \in Runtimes : runtime[q].status # "absent" => [runtime EXCEPT ![r].status = st][q].status # "absent"
      BY ReporterTypes DEF RuntimeRow
    <2>3. CASE ServeReporter(s, [ReporterRows EXCEPT !.rt[r].status = st])
      <3>1. ServeReporter(s, [rt |-> [runtime EXCEPT ![r].status = st], rep |-> reporter, tok |-> token])
        BY <2>3 DEF ReporterRows
      <3>2. Quiet([runtime EXCEPT ![r].status = st], reporter)
        BY <2>2 DEF Quiet
      <3> QED BY <2>2, <3>1, <3>2, ReporterTypes, QuietInv
    <2>4. CASE \E c \in Reporters : ServeReporter(s, [ReporterRows EXCEPT !.rt[r].status = st, !.rep[c].seen = TRUE])
      <3>1. PICK c \in Reporters : ServeReporter(s, [ReporterRows EXCEPT !.rt[r].status = st, !.rep[c].seen = TRUE])
        BY <2>4
      <3> DEFINE rep == [reporter EXCEPT ![c].seen = TRUE]
      <3>2. rep \in [Reporters -> ReporterRow]
            /\ \A d \in Reporters : /\ rep[d].runtime = reporter[d].runtime /\ rep[d].device = reporter[d].device
                                    /\ rep[d].state = reporter[d].state
        BY ReporterTypes DEF ReporterRow
      <3>3. ServeReporter(s, [rt |-> [runtime EXCEPT ![r].status = st], rep |-> rep, tok |-> token])
        <4> DEFINE new == [ReporterRows EXCEPT !.rt[r].status = st, !.rep[c].seen = TRUE]
        <4>1. new = [[ReporterRows EXCEPT !.rt[r].status = st] EXCEPT !.rep[c].seen = TRUE]
          OBVIOUS
        <4>2. [ReporterRows EXCEPT !.rt[r].status = st]
                = [rt |-> [runtime EXCEPT ![r].status = st], rep |-> reporter, tok |-> token]
          BY StatusWritten
        <4>3. \A rt : [[rt |-> rt, rep |-> reporter, tok |-> token] EXCEPT !.rep[c].seen = TRUE]
                         = [rt |-> rt, rep |-> rep, tok |-> token]
          BY SeenWritten
        <4> QED BY <3>1, <4>1, <4>2, <4>3
      <3> HIDE DEF rep
      <3>4. Quiet([runtime EXCEPT ![r].status = st], rep)
        BY <2>2, <3>2 DEF Quiet
      <3> QED BY <2>2, <3>2, <3>3, <3>4, ReporterTypes, QuietInv
    <2> QED BY <2>1, <2>3, <2>4
  <1>2. CASE Revoke(s)
    <2>1. PICK c \in Reporters : reporter[c].state # "absent"
                                 /\ ServeReporter(s, [ReporterRows EXCEPT !.rep[c].state = "revoked"])
      BY <1>2 DEF Revoke
    <2> DEFINE rep == [reporter EXCEPT ![c].state = "revoked"]
    <2>2. rep \in [Reporters -> ReporterRow]
          /\ \A d \in Reporters : /\ rep[d].runtime = reporter[d].runtime /\ rep[d].device = reporter[d].device
                                  /\ rep[d].state = IF d = c THEN "revoked" ELSE reporter[d].state
      BY ReporterTypes DEF ReporterRow
    <2>3. ServeReporter(s, [rt |-> runtime, rep |-> rep, tok |-> token])
      BY <2>1 DEF ReporterRows
    <2> HIDE DEF rep
    <2>4. Quiet(runtime, rep)
      BY <2>1, <2>2 DEF Quiet
    <2> QED BY <2>2, <2>3, <2>4, ReporterTypes, QuietInv
  <1>3. CASE CreateToken(s) \/ RevokeToken(s)
    <2>1. PICK k \in ReportTokens, row \in TokenRow : ServeReporter(s, [ReporterRows EXCEPT !.tok[k] = row])
      <3>1. CASE CreateToken(s)
        <4>1. PICK r \in Runtimes, k \in NextToken :
                 ServeReporter(s, [ReporterRows EXCEPT !.tok[k] = [state |-> "active", runtime |-> r]])
          BY <3>1 DEF CreateToken
        <4>2. [state |-> "active", runtime |-> r] \in TokenRow /\ k \in ReportTokens
          BY DEF TokenRow, NextToken
        <4> QED BY <4>1, <4>2
      <3>2. CASE RevokeToken(s)
        <4>1. PICK k \in ReportTokens : ServeReporter(s, [ReporterRows EXCEPT !.tok[k].state = "revoked"])
          BY <3>2 DEF RevokeToken
        <4>2. [token[k] EXCEPT !.state = "revoked"] \in TokenRow
          BY ReporterTypes DEF TokenRow
        <4>3. ServeReporter(s, [ReporterRows EXCEPT !.tok[k] = [token[k] EXCEPT !.state = "revoked"]])
          BY <4>1 DEF ReporterRows
        <4> QED BY <4>2, <4>3
      <3> QED BY <1>3, <3>1, <3>2
    <2>2. [token EXCEPT ![k] = row] \in [ReportTokens -> TokenRow]
      BY ReporterTypes
    <2>3. ServeReporter(s, [rt |-> runtime, rep |-> reporter, tok |-> [token EXCEPT ![k] = row]])
      BY <2>1 DEF ReporterRows
    <2>4. Quiet(runtime, reporter)
      BY DEF Quiet
    <2> QED BY <2>2, <2>3, <2>4, ReporterTypes, QuietInv
  <1>4. CASE CreateRuntime(s) \/ UpdateRuntime(s)
    <2>1. PICK r \in Runtimes, row \in RuntimeRow :
             row.status # "absent" /\ ServeReporter(s, [ReporterRows EXCEPT !.rt[r] = row])
      <3>1. CASE CreateRuntime(s)
        <4>1. PICK r \in NextRuntime, ref \in {"none", "outside", "record"} :
                 ServeReporter(s, [ReporterRows EXCEPT !.rt[r] = [status |-> "active", ref |-> ref]])
          BY <3>1 DEF CreateRuntime
        <4>2. [status |-> "active", ref |-> ref] \in RuntimeRow /\ r \in Runtimes
          BY DEF RuntimeRow, NextRuntime
        <4> QED BY <4>1, <4>2
      <3> QED BY <1>4, <3>1 DEF UpdateRuntime
    <2>2. [runtime EXCEPT ![r] = row] \in [Runtimes -> RuntimeRow]
          /\ \A q \in Runtimes : runtime[q].status # "absent" => [runtime EXCEPT ![r] = row][q].status # "absent"
      BY <2>1, ReporterTypes
    <2>3. ServeReporter(s, [rt |-> [runtime EXCEPT ![r] = row], rep |-> reporter, tok |-> token])
      BY <2>1 DEF ReporterRows
    <2>4. Quiet([runtime EXCEPT ![r] = row], reporter)
      BY <2>2 DEF Quiet
    <2> QED BY <2>2, <2>3, <2>4, ReporterTypes, QuietInv
  <1> QED BY <1>1, <1>2, <1>3, <1>4

\* A flush of a record keeps its type, and is the new one if nothing else was written.
LEMMA FlushedRows ==
  /\ \A cur, snap, new \in RuntimeRow : Flush(cur, snap, new) \in RuntimeRow /\ Flush(cur, cur, new) = new
  /\ \A cur, snap, new \in ReporterRow : Flush(cur, snap, new) \in ReporterRow /\ Flush(cur, cur, new) = new
  /\ \A cur, snap, new \in TokenRow : Flush(cur, snap, new) \in TokenRow
  BY DEF Flush, RuntimeRow, ReporterRow, TokenRow

LEMMA CommitReporterInv == ASSUME ReporterInv, NEW s \in ReporterSlots, CommitReporter(s) PROVE ReporterInv'
  <1> DEFINE q == reporterReq[s]
  <1>1. /\ q.busy
        /\ runtime' = FlushRows(runtime, q.snap.rt, q.new.rt)
        /\ reporter' = FlushRows(reporter, q.snap.rep, q.new.rep)
        /\ token' = FlushRows(token, q.snap.tok, q.new.tok)
        /\ reporterReq' = [reporterReq EXCEPT ![s] = NoReporterRequest]
        /\ UNCHANGED <<reporterCalls, reporterMixed>>
    BY DEF CommitReporter
  <1>2. /\ q.snap.rt \in [Runtimes -> RuntimeRow] /\ q.new.rt \in [Runtimes -> RuntimeRow]
        /\ q.snap.rep \in [Reporters -> ReporterRow] /\ q.new.rep \in [Reporters -> ReporterRow]
        /\ q.snap.tok \in [ReportTokens -> TokenRow] /\ q.new.tok \in [ReportTokens -> TokenRow]
    BY ReporterTypes DEF ReporterRequest, ReporterDb
  <1>3. /\ runtime' = [r \in Runtimes |-> Flush(runtime[r], q.snap.rt[r], q.new.rt[r])]
        /\ reporter' = [c \in Reporters |-> Flush(reporter[c], q.snap.rep[c], q.new.rep[c])]
        /\ token' = [k \in ReportTokens |-> Flush(token[k], q.snap.tok[k], q.new.tok[k])]
    BY <1>1, ReporterTypes DEF FlushRows
  <1>4. ReporterTypeOK'
    <2>1. /\ runtime' \in [Runtimes -> RuntimeRow] /\ reporter' \in [Reporters -> ReporterRow]
          /\ token' \in [ReportTokens -> TokenRow]
      BY <1>2, <1>3, FlushedRows, ReporterTypes
    <2> QED BY <1>1, <2>1, NoDbType, ReporterTypes DEF ReporterTypeOK
  <1>5. ASSUME ~reporterMixed' PROVE ReporterSerial'
    <2>1. q.snap = ReporterRows /\ ReportersOK(q.new) /\ \A t \in ReporterSlots : ~reporterReq'[t].busy
      BY <1>1, <1>5, NoDbType, ReporterTypes DEF ReporterInv, ReporterSerial
    <2>2. runtime' = q.new.rt /\ reporter' = q.new.rep
      BY <1>2, <1>3, <2>1, FlushedRows, ReporterTypes
    <2>3. ReportersOK(ReporterRows)'
      BY <2>1, <2>2 DEF ReporterRows, ReportersOK
    <2> QED BY <2>1, <2>3 DEF ReporterSerial
  <1> QED BY <1>4, <1>5 DEF ReporterInv

LEMMA ReporterStepInv == ReporterInv /\ [ReporterNext]_reporterVars => ReporterInv'
  <1> SUFFICES ASSUME ReporterInv, [ReporterNext]_reporterVars PROVE ReporterInv'
    OBVIOUS
  <1>1. CASE UNCHANGED reporterVars
    BY <1>1 DEF reporterVars, ReporterInv, ReporterTypeOK, ReporterSerial, ReporterRows
  <1>2. CASE ReporterNext
    BY <1>2, EnrollInv, RotateInv, QuietRequestsInv, CommitReporterInv DEF ReporterNext
  <1> QED BY <1>1, <1>2

\* A device has one active credential of a runtime, for every number of runtimes,
\* credentials, devices and requests that do not overlap.
THEOREM OneCredential == ReporterSpec => []OneCredentialPerDevice
  <1>1. ReporterInv => OneCredentialPerDevice
    BY ReporterTypes DEF ReporterInv, ReporterSerial, ReportersOK, DevicesOK, OneCredentialPerDevice
  <1> QED BY <1>1, ReporterInitInv, ReporterStepInv, PTL DEF ReporterSpec

\* However requests overlap, runtimes, credentials and tokens stay in their types.
THEOREM ReporterTypesHold == ReporterSpec => []ReporterTypeOK
  <1>1. ReporterInv => ReporterTypeOK
    BY DEF ReporterInv
  <1> QED BY <1>1, ReporterInitInv, ReporterStepInv, PTL DEF ReporterSpec

(* Tool servers *)

\* What a call has listed is there, and what it has dealt with is not active again: nothing
\* makes an automation active but its creation.
CallOK(p) ==
    LET call == mcpCall[p] IN
    /\ call.todo \subseteq call.listed
    /\ \A a \in call.listed : automation[a].status # "none"
    /\ \A a \in call.listed \ (call.todo \cup call.refused) : automation[a].status # "ACTIVE"

McpInv == McpTypeOK /\ \A p \in Servers : CallOK(p)

LEMMA IdleFacts == /\ Idle \in McpCall /\ Idle.tool = "idle" /\ Idle.runtime = NoRuntime /\ Idle.flag = FALSE
                   /\ Idle.listed = {} /\ Idle.todo = {} /\ Idle.refused = {} /\ NoConfig \in McpConfig
  BY DEF Idle, McpCall, NoConfig, McpConfig

LEMMA McpInitInv == McpInit => McpInv
  BY IdleFacts, McpAssumption DEF McpInit, McpInv, McpTypeOK, CallOK, Automation

\* What a step may do to automations and calls.
Settles == \A a \in AutomationIds :
    /\ automation[a].status # "none" => automation'[a].status # "none"
    /\ automation[a].status \notin {"none", "ACTIVE"} => automation'[a].status # "ACTIVE"
CallsKept(p) == \A q \in Servers \ {p} : mcpCall'[q] = mcpCall[q]

LEMMA SettlesInv ==
  ASSUME McpInv, McpTypeOK', Settles, NEW p \in Servers, CallsKept(p), CallOK(p)'
  PROVE  McpInv'
  <1> SUFFICES ASSUME NEW q \in Servers, q # p PROVE CallOK(q)'
    BY DEF McpInv
  <1>1. mcpCall'[q] = mcpCall[q] /\ CallOK(q) /\ mcpCall[q] \in McpCall
    BY DEF McpInv, CallsKept, McpTypeOK
  <1>2. mcpCall[q].listed \subseteq AutomationIds
    BY <1>1 DEF McpCall
  <1> QED BY <1>1, <1>2 DEF CallOK, Settles

\* A call begins that has listed nothing, or ends.
LEMMA PlainInv ==
  ASSUME McpInv, NEW p \in Servers, NEW call \in McpCall,
         call.listed = {}, call.todo = {}, mcpCall' = [mcpCall EXCEPT ![p] = call],
         Settles, automation' \in [AutomationIds -> Automation],
         mcpConfig' \in McpConfig, reporterSkill' \in {"none", "partial", "whole"},
         bridge' \in BOOLEAN, traces' \in 0 .. MaxTraces
  PROVE  McpInv'
  <1>1. McpTypeOK'
    BY DEF McpInv, McpTypeOK
  <1>2. CallsKept(p) /\ mcpCall'[p] = call
    BY DEF McpInv, McpTypeOK, CallsKept
  <1>3. CallOK(p)'
    BY <1>2 DEF CallOK
  <1> QED BY <1>1, <1>2, <1>3, SettlesInv

LEMMA Unchanged == ASSUME automation' = automation PROVE Settles
  BY DEF Settles

LEMMA McpTypes ==
  ASSUME McpInv
  PROVE  /\ mcpConfig \in McpConfig /\ reporterSkill \in {"none", "partial", "whole"}
         /\ automation \in [AutomationIds -> Automation] /\ bridge \in BOOLEAN
         /\ mcpCall \in [Servers -> McpCall] /\ traces \in 0 .. MaxTraces
         /\ \A a \in AutomationIds : automation[a] \in Automation
         /\ \A p \in Servers : mcpCall[p] \in McpCall /\ CallOK(p)
  BY DEF McpInv, McpTypeOK

LEMMA CreateAutomationInv ==
  ASSUME McpInv, NEW p \in Servers, NEW a \in AutomationIds, NEW named \in {NoRuntime} \cup RuntimeIds,
         NEW tok \in BOOLEAN, NEW once \in BOOLEAN, CreateAutomation(p, a, named, tok, once)
  PROVE  McpInv'
  <1> DEFINE new == [status |-> "ACTIVE", once |-> once, runtime |-> Target(named)]
  <1>1. /\ automation[a].status = "none" /\ automation' = [automation EXCEPT ![a] = new]
        /\ UNCHANGED <<mcpConfig, reporterSkill, bridge, mcpCall, traces>>
    BY DEF CreateAutomation
  <1>2. Target(named) \in {NoRuntime} \cup RuntimeIds
    BY McpTypes DEF Target, McpConfig
  <1>3. new \in Automation
    BY <1>2 DEF Automation
  <1>4. automation' \in [AutomationIds -> Automation]
    BY <1>1, <1>3, McpTypes
  <1>5. Settles
    BY <1>1, McpTypes DEF Settles
  <1>6. McpTypeOK'
    BY <1>1, <1>4, McpTypes DEF McpTypeOK
  <1>7. CallsKept(p)
    BY <1>1 DEF CallsKept
  <1>8. CallOK(p)'
    BY <1>1, <1>5, McpTypes DEF CallOK, Settles, McpCall
  <1> QED BY <1>5, <1>6, <1>7, <1>8, SettlesInv

LEMMA StartPauseInv ==
  ASSUME McpInv, NEW p \in Servers, NEW tool \in {"pause", "uninstall"}, NEW named \in {NoRuntime} \cup RuntimeIds,
         NEW delete \in BOOLEAN, StartPause(p, tool, named, delete)
  PROVE  McpInv'
  <1> DEFINE found == Listed(Target(named))
             call  == [Idle EXCEPT !.tool = tool, !.runtime = Target(named), !.flag = delete,
                                   !.listed = found, !.todo = found]
  <1>1. mcpCall' = [mcpCall EXCEPT ![p] = call]
        /\ UNCHANGED <<mcpConfig, reporterSkill, automation, bridge, traces>>
    BY DEF StartPause, Enter
  <1>2. Target(named) \in {NoRuntime} \cup RuntimeIds /\ found \in SUBSET AutomationIds
        /\ \A a \in found : automation[a].status # "none"
    BY McpTypes DEF Target, McpConfig, Listed
  <1>3. call \in McpCall /\ call.listed = found /\ call.todo = found
    BY <1>2, IdleFacts DEF McpCall
  <1> HIDE DEF call
  <1>4. McpTypeOK'
    BY <1>1, <1>3, McpTypes DEF McpTypeOK
  <1>5. CallsKept(p) /\ mcpCall'[p] = call
    BY <1>1, McpTypes DEF CallsKept
  <1>6. CallOK(p)'
    BY <1>1, <1>2, <1>3, <1>5 DEF CallOK
  <1> QED BY <1>1, <1>4, <1>5, <1>6, Unchanged, SettlesInv

LEMMA TouchInv ==
  ASSUME McpInv, NEW p \in Servers, NEW a \in AutomationIds, NEW accepted \in BOOLEAN, Touch(p, a, accepted)
  PROVE  McpInv'
  <1> DEFINE old  == mcpCall[p]
             new  == [automation EXCEPT ![a].status = IF old.flag THEN "deleted" ELSE "PAUSED"]
             call == [old EXCEPT !.todo = @ \ {a}, !.refused = IF accepted THEN @ ELSE @ \cup {a}]
  <1>1. /\ a \in old.todo
        /\ automation' = IF ~accepted \/ automation[a].status = "deleted" THEN automation ELSE new
        /\ UNCHANGED <<mcpConfig, reporterSkill, bridge, traces>>
    BY DEF Touch
  <1>2. mcpCall' = [mcpCall EXCEPT ![p] = call]
    BY McpTypes DEF Touch
  <1>3. old \in McpCall /\ CallOK(p)
    BY McpTypes
  <1>4. call \in McpCall /\ call.listed = old.listed /\ call.todo = old.todo \ {a}
        /\ call.refused = IF accepted THEN old.refused ELSE old.refused \cup {a}
    BY <1>3 DEF McpCall
  <1>5. new \in [AutomationIds -> Automation] /\ new[a].status \in {"deleted", "PAUSED"}
        /\ \A b \in AutomationIds \ {a} : new[b] = automation[b]
    BY McpTypes DEF Automation
  <1> HIDE DEF new, call
  <1>6. automation' \in [AutomationIds -> Automation] /\ Settles
        /\ (accepted => automation'[a].status # "ACTIVE")
    <2>1. automation' \in [AutomationIds -> Automation]
      BY <1>1, <1>5, McpTypes
    <2>2. CASE ~accepted \/ automation[a].status = "deleted"
      BY <1>1, <2>1, <2>2 DEF Settles
    <2>3. CASE ~(~accepted \/ automation[a].status = "deleted")
      BY <1>1, <1>5, <2>1, <2>3 DEF Settles
    <2> QED BY <2>1, <2>2, <2>3
  <1>7. McpTypeOK'
    BY <1>1, <1>2, <1>4, <1>6, McpTypes DEF McpTypeOK
  <1>8. CallsKept(p) /\ mcpCall'[p] = call
    BY <1>2, McpTypes DEF CallsKept
  <1>9. CallOK(p)'
    <2>1. old.listed \subseteq AutomationIds
      BY <1>3 DEF McpCall
    <2>2. call.todo \subseteq call.listed /\ \A b \in call.listed : automation'[b].status # "none"
      BY <1>3, <1>4, <1>6, <2>1 DEF CallOK, Settles
    <2>3. ASSUME NEW b \in call.listed \ (call.todo \cup call.refused) PROVE automation'[b].status # "ACTIVE"
      <3>1. CASE b = a
        BY <1>4, <1>6, <2>3, <3>1
      <3>2. CASE b # a
        <4>1. b \in old.listed \ (old.todo \cup old.refused)
          BY <1>4, <2>3, <3>2
        <4>2. automation[b].status \notin {"none", "ACTIVE"}
          BY <1>3, <4>1 DEF CallOK
        <4> QED BY <1>6, <2>1, <4>1, <4>2 DEF Settles
      <3> QED BY <3>1, <3>2
    <2> QED BY <1>8, <2>2, <2>3 DEF CallOK
  <1> QED BY <1>6, <1>7, <1>8, <1>9, SettlesInv

\* The call only changes from uninstalling to removing the skill.
LEMMA RemoveConfigInv == ASSUME McpInv, NEW p \in Servers, RemoveConfig(p) PROVE McpInv'
  <1> DEFINE call == [mcpCall[p] EXCEPT !.tool = "files"]
  <1>1. mcpConfig' = NoConfig /\ mcpCall' = [mcpCall EXCEPT ![p] = call]
        /\ UNCHANGED <<reporterSkill, automation, bridge, traces>>
    BY McpTypes DEF RemoveConfig
  <1>2. call \in McpCall /\ call.listed = mcpCall[p].listed /\ call.todo = mcpCall[p].todo
        /\ call.refused = mcpCall[p].refused
    BY McpTypes DEF McpCall
  <1> HIDE DEF call
  <1>3. McpTypeOK'
    BY <1>1, <1>2, McpTypes, IdleFacts DEF McpTypeOK
  <1>4. CallsKept(p) /\ mcpCall'[p] = call
    BY <1>1, McpTypes DEF CallsKept
  <1>5. CallOK(p)'
    BY <1>1, <1>2, <1>4, McpTypes DEF CallOK
  <1> QED BY <1>1, <1>3, <1>4, <1>5, Unchanged, SettlesInv

LEMMA RunAutomationInv ==
  ASSUME McpInv, NEW p \in Servers, NEW a \in AutomationIds, RunAutomation(p, a)
  PROVE  McpInv'
  <1> DEFINE new  == [automation EXCEPT ![a].status = IF automation[a].once THEN "done" ELSE @]
             call == IF Readable /\ mcpConfig.token THEN [Idle EXCEPT !.tool = "run"] ELSE Idle
  <1>1. /\ automation[a].status = "ACTIVE" /\ automation' = new /\ mcpCall' = [mcpCall EXCEPT ![p] = call]
        /\ UNCHANGED <<mcpConfig, reporterSkill, bridge, traces>>
    BY DEF RunAutomation, Enter
  <1>2. call \in McpCall /\ call.listed = {} /\ call.todo = {}
    BY IdleFacts DEF McpCall
  <1>3. new \in [AutomationIds -> Automation] /\ new[a].status \in {"done", "ACTIVE"}
        /\ \A b \in AutomationIds \ {a} : new[b] = automation[b]
    BY <1>1, McpTypes DEF Automation
  <1> HIDE DEF call, new
  <1>4. Settles
    BY <1>1, <1>3 DEF Settles
  <1> QED BY <1>1, <1>2, <1>3, <1>4, McpTypes, PlainInv

\* Writing the configuration leaves a file that is torn, and then whole if nobody removed it.
LEMMA ConfigStarts ==
  ASSUME McpInv, NEW p \in Servers, \E r \in RuntimeIds, tok \in BOOLEAN : StartConfigure(p, r, tok)
  PROVE  mcpConfig' \in McpConfig /\ mcpConfig'.file = "torn"
  <1>1. mcpConfig' = [NoConfig EXCEPT !.file = "torn"]
    BY DEF StartConfigure
  <1> QED BY <1>1 DEF NoConfig, McpConfig

LEMMA ConfigEnds ==
  ASSUME McpInv, NEW p \in Servers, EndConfigure(p)
  PROVE  mcpConfig' \in McpConfig /\ (mcpConfig'.file = "none" => mcpConfig.file = "none")
  <1>1. mcpCall[p].runtime \in {NoRuntime} \cup RuntimeIds /\ mcpCall[p].flag \in BOOLEAN
    BY McpTypes DEF McpCall
  <1>2. CASE mcpConfig.file = "none"
    BY <1>2, IdleFacts DEF EndConfigure
  <1>3. CASE mcpConfig.file # "none"
    <2>1. mcpConfig' = [file |-> "whole", runtime |-> mcpCall[p].runtime, token |-> mcpCall[p].flag]
      BY <1>3 DEF EndConfigure
    <2> QED BY <1>1, <2>1 DEF McpConfig
  <1> QED BY <1>2, <1>3

\* The other steps of a server.
LEMMA PlainStepInv ==
  ASSUME McpInv, NEW p \in Servers,
         \/ \E overwrite \in BOOLEAN : StartInstall(p, overwrite)
         \/ \E r \in RuntimeIds, tok \in BOOLEAN : StartConfigure(p, r, tok)
         \/ \E remove \in BOOLEAN : RemoveSkill(p, remove)
         \/ EndInstall(p) \/ EndConfigure(p) \/ StartReport(p) \/ SendReport(p)
         \/ TouchFails(p) \/ EndPause(p) \/ Kill(p)
  PROVE  McpInv'
  <1>1. automation' = automation /\ bridge' = bridge
    BY DEF StartInstall, StartConfigure, RemoveSkill, EndInstall, EndConfigure, StartReport, SendReport,
           TouchFails, EndPause, Kill
  <1>2. reporterSkill' \in {"none", "partial", "whole"}
    BY McpTypes DEF StartInstall, StartConfigure, RemoveSkill, EndInstall, EndConfigure, StartReport, SendReport,
           TouchFails, EndPause, Kill
  <1>3. traces' \in 0 .. MaxTraces
    <2>1. CASE SendReport(p)
      <3>1. traces < MaxTraces /\ traces' = traces + 1
        BY <2>1 DEF SendReport
      <3> QED BY <3>1, McpTypes, McpAssumption
    <2>2. CASE ~SendReport(p)
      <3>1. traces' = traces
        BY <2>2 DEF StartInstall, StartConfigure, RemoveSkill, EndInstall, EndConfigure, StartReport,
               TouchFails, EndPause, Kill
      <3> QED BY <3>1, McpTypes
    <2> QED BY <2>1, <2>2
  <1>4. mcpConfig' \in McpConfig
    <2>1. mcpConfig' = mcpConfig \/ (\E r \in RuntimeIds, tok \in BOOLEAN : StartConfigure(p, r, tok))
          \/ EndConfigure(p)
      BY DEF StartInstall, RemoveSkill, EndInstall, StartReport, SendReport, TouchFails, EndPause, Kill
    <2>2. ASSUME \E r \in RuntimeIds, tok \in BOOLEAN : StartConfigure(p, r, tok)
          PROVE  mcpConfig' \in McpConfig
      BY <2>2, ConfigStarts
    <2>3. CASE EndConfigure(p)
      BY <2>3, ConfigEnds
    <2> QED BY <2>1, <2>2, <2>3, McpTypes
  <1>5. \E call \in McpCall : call.listed = {} /\ call.todo = {} /\ mcpCall' = [mcpCall EXCEPT ![p] = call]
    <2>1. CASE mcpCall' = [mcpCall EXCEPT ![p] = Idle]
      BY <2>1, IdleFacts
    <2>2. CASE \E tool \in {"install", "run"} : mcpCall' = [mcpCall EXCEPT ![p] = [Idle EXCEPT !.tool = tool]]
      <3>1. PICK tool \in {"install", "run"} : mcpCall' = [mcpCall EXCEPT ![p] = [Idle EXCEPT !.tool = tool]]
        BY <2>2
      <3>2. [Idle EXCEPT !.tool = tool] \in McpCall /\ [Idle EXCEPT !.tool = tool].listed = {}
            /\ [Idle EXCEPT !.tool = tool].todo = {}
        BY IdleFacts DEF McpCall
      <3> QED BY <3>1, <3>2
    <2>3. CASE \E r \in RuntimeIds, tok \in BOOLEAN :
                 mcpCall' = [mcpCall EXCEPT ![p] = [Idle EXCEPT !.tool = "configure", !.runtime = r, !.flag = tok]]
      <3>1. PICK r \in RuntimeIds, tok \in BOOLEAN :
                 mcpCall' = [mcpCall EXCEPT ![p] = [Idle EXCEPT !.tool = "configure", !.runtime = r, !.flag = tok]]
        BY <2>3
      <3> DEFINE call == [Idle EXCEPT !.tool = "configure", !.runtime = r, !.flag = tok]
      <3>2. call \in McpCall /\ call.listed = {} /\ call.todo = {}
        BY IdleFacts DEF McpCall
      <3> QED BY <3>1, <3>2
    <2> QED BY <2>1, <2>2, <2>3 DEF StartInstall, StartConfigure, RemoveSkill, EndInstall, EndConfigure,
           StartReport, SendReport, TouchFails, EndPause, Kill, Enter, Leave
  <1> QED BY <1>1, <1>2, <1>3, <1>4, <1>5, McpTypes, Unchanged, PlainInv

LEMMA McpStepInv == McpInv /\ [McpNext]_mcpVars => McpInv'
  <1> SUFFICES ASSUME McpInv, [McpNext]_mcpVars PROVE McpInv'
    OBVIOUS
  <1>1. CASE UNCHANGED mcpVars
    BY <1>1 DEF mcpVars, McpInv, McpTypeOK, CallOK
  <1>2. CASE Bridge
    BY <1>2 DEF Bridge, McpInv, McpTypeOK, CallOK
  <1>3. ASSUME NEW p \in Servers, NEW a \in AutomationIds, NEW named \in {NoRuntime} \cup RuntimeIds,
               NEW tok \in BOOLEAN, NEW once \in BOOLEAN, CreateAutomation(p, a, named, tok, once)
        PROVE  McpInv'
    BY <1>3, CreateAutomationInv
  <1>4. ASSUME NEW p \in Servers, NEW tool \in {"pause", "uninstall"}, NEW named \in {NoRuntime} \cup RuntimeIds,
               NEW delete \in BOOLEAN, StartPause(p, tool, named, delete)
        PROVE  McpInv'
    BY <1>4, StartPauseInv
  <1>5. ASSUME NEW p \in Servers, NEW a \in AutomationIds,
               RunAutomation(p, a) \/ \E accepted \in BOOLEAN : Touch(p, a, accepted)
        PROVE  McpInv'
    BY <1>5, RunAutomationInv, TouchInv
  <1>6. ASSUME NEW p \in Servers, RemoveConfig(p) PROVE McpInv'
    BY <1>6, RemoveConfigInv
  <1>7. ASSUME NEW p \in Servers,
               \/ \E overwrite \in BOOLEAN : StartInstall(p, overwrite)
               \/ \E r \in RuntimeIds, tok \in BOOLEAN : StartConfigure(p, r, tok)
               \/ \E remove \in BOOLEAN : RemoveSkill(p, remove)
               \/ EndInstall(p) \/ EndConfigure(p) \/ StartReport(p) \/ SendReport(p)
               \/ TouchFails(p) \/ EndPause(p) \/ Kill(p)
        PROVE  McpInv'
    BY <1>7, PlainStepInv
  <1> QED BY <1>1, <1>2, <1>3, <1>4, <1>5, <1>6, <1>7 DEF McpNext

\* The configuration goes last: an uninstall removes it only when none of the automations it
\* found is active, but for those WorkBuddy refused to change, for every number of servers,
\* runtimes and automations.
THEOREM UninstallsInOrder == McpSpec => ConfigGoesLast
  <1>1. McpInv /\ [McpNext]_mcpVars =>
          [mcpConfig.file # "none" /\ mcpConfig'.file = "none" =>
             \E p \in Servers :
                /\ mcpCall[p].tool = "uninstall"
                /\ \A a \in mcpCall[p].listed \ mcpCall[p].refused : automation[a].status # "ACTIVE"]_mcpVars
    <2> SUFFICES ASSUME McpInv, McpNext, mcpConfig.file # "none", mcpConfig'.file = "none"
                 PROVE  \E p \in Servers :
                           /\ mcpCall[p].tool = "uninstall"
                           /\ \A a \in mcpCall[p].listed \ mcpCall[p].refused : automation[a].status # "ACTIVE"
      OBVIOUS
    <2>1. \E p \in Servers : \/ RemoveConfig(p) \/ EndConfigure(p)
                             \/ \E r \in RuntimeIds, tok \in BOOLEAN : StartConfigure(p, r, tok)
      BY DEF McpNext, Bridge, StartInstall, RemoveSkill, EndInstall, StartReport, SendReport, TouchFails,
             EndPause, Kill, CreateAutomation, StartPause, RunAutomation, Touch
    <2>2. \E p \in Servers : RemoveConfig(p)
      BY <2>1, ConfigStarts, ConfigEnds
    <2> QED BY <2>2 DEF RemoveConfig, McpInv, CallOK
  <1>2. McpInv /\ [McpNext]_mcpVars => McpInv'
    BY McpStepInv
  <1> QED BY <1>1, <1>2, McpInitInv, PTL DEF McpSpec, ConfigGoesLast

\* However servers, WorkBuddy and the automations run alongside, configuration, calls and
\* automations stay in their types.
THEOREM McpTypesHold == McpSpec => []McpTypeOK
  <1>1. McpInv => McpTypeOK
    BY DEF McpInv
  <1> QED BY <1>1, McpInitInv, McpStepInv, PTL DEF McpSpec

(* Rows of the catalog *)

AssetRow == [made : BOOLEAN, ext : RefIds, hash : Hashes \cup {"none"}, noted : BOOLEAN]
OwnerRow == [made : BOOLEAN, asset : AssetIds \cup {0}, user : Owners \cup {"none"},
             type : OwnerTypes, primary : BOOLEAN]
TraceRow == [made : BOOLEAN, key : TraceKeys \cup {"none"}]
CandidateRow == [made : BOOLEAN, key : TraceKeys \cup {"none"}, long : BOOLEAN, signal : BOOLEAN,
                 status : {"candidate", "accepted", "rejected"}]
BindRow == [made : BOOLEAN, asset : AssetIds \cup {0}, ref : RefIds]
Item == [ext : ExternalIds \cup {"none"}, hash : Hashes, user : Owners \cup {"none"}]

\* What a lookup that allows one row goes by.
OneTrace(c) == \A i, j \in TraceIds :
    c.trace[i].made /\ c.trace[j].made /\ c.trace[i].key = c.trace[j].key => i = j
OneBind(c) == \A a, b \in BindIds :
    c.bind[a].made /\ c.bind[b].made /\ c.bind[a].asset = c.bind[b].asset /\ c.bind[a].ref = c.bind[b].ref => a = b
OneOwner(c) == \A o, p \in OwnerIds :
    /\ c.owner[o].made /\ c.owner[p].made
    /\ c.owner[o].asset = c.owner[p].asset
    /\ c.owner[o].user = c.owner[p].user
    /\ c.owner[o].type = c.owner[p].type
    => o = p

\* The tables a handler may find and leave, while requests have not overlapped (alone) and
\* once an owner has been added by hand (hand).
Kept(alone, hand) == {c \in CatalogRows : alone => OneTrace(c) /\ OneBind(c) /\ (hand \/ OneOwner(c))}

LEMMA RowsOfCatalog ==
  CatalogRows = [asset : [AssetIds -> AssetRow], owner : [OwnerIds -> OwnerRow], trace : [TraceIds -> TraceRow],
                 candidate : [CandidateIds -> CandidateRow], bind : [BindIds -> BindRow]]
  BY DEF CatalogRows, AssetRow, OwnerRow, TraceRow, CandidateRow, BindRow

LEMMA TablesOf ==
  ASSUME NEW c \in CatalogRows
  PROVE  /\ c.asset \in [AssetIds -> AssetRow] /\ c.owner \in [OwnerIds -> OwnerRow] /\ c.trace \in [TraceIds -> TraceRow]
         /\ c.candidate \in [CandidateIds -> CandidateRow] /\ c.bind \in [BindIds -> BindRow]
  BY RowsOfCatalog

\* Writing one table.
LEMMA WriteAsset ==
  ASSUME NEW alone, NEW hand, NEW c \in Kept(alone, hand), NEW T \in [AssetIds -> AssetRow]
  PROVE  [c EXCEPT !.asset = T] \in Kept(alone, hand)
  <1>1. [c EXCEPT !.asset = T] \in CatalogRows
    BY RowsOfCatalog DEF Kept
  <1>2. /\ [c EXCEPT !.asset = T].trace = c.trace /\ [c EXCEPT !.asset = T].bind = c.bind
        /\ [c EXCEPT !.asset = T].owner = c.owner
    BY RowsOfCatalog DEF Kept
  <1> QED BY <1>1, <1>2 DEF Kept, OneTrace, OneBind, OneOwner

LEMMA WriteCandidate ==
  ASSUME NEW alone, NEW hand, NEW c \in Kept(alone, hand), NEW T \in [CandidateIds -> CandidateRow]
  PROVE  [c EXCEPT !.candidate = T] \in Kept(alone, hand)
  <1>1. [c EXCEPT !.candidate = T] \in CatalogRows
    BY RowsOfCatalog DEF Kept
  <1>2. /\ [c EXCEPT !.candidate = T].trace = c.trace /\ [c EXCEPT !.candidate = T].bind = c.bind
        /\ [c EXCEPT !.candidate = T].owner = c.owner
    BY RowsOfCatalog DEF Kept
  <1> QED BY <1>1, <1>2 DEF Kept, OneTrace, OneBind, OneOwner

LEMMA WriteTrace ==
  ASSUME NEW alone, NEW hand, NEW c \in Kept(alone, hand), NEW T \in [TraceIds -> TraceRow],
         OneTrace(c) => \A i, j \in TraceIds : T[i].made /\ T[j].made /\ T[i].key = T[j].key => i = j
  PROVE  [c EXCEPT !.trace = T] \in Kept(alone, hand)
  <1>1. [c EXCEPT !.trace = T] \in CatalogRows
    BY RowsOfCatalog DEF Kept
  <1>2. /\ [c EXCEPT !.trace = T].trace = T /\ [c EXCEPT !.trace = T].bind = c.bind
        /\ [c EXCEPT !.trace = T].owner = c.owner
    BY RowsOfCatalog DEF Kept
  <1> QED BY <1>1, <1>2 DEF Kept, OneTrace, OneBind, OneOwner

LEMMA WriteBind ==
  ASSUME NEW alone, NEW hand, NEW c \in Kept(alone, hand), NEW T \in [BindIds -> BindRow],
         OneBind(c) => \A a, b \in BindIds :
             T[a].made /\ T[b].made /\ T[a].asset = T[b].asset /\ T[a].ref = T[b].ref => a = b
  PROVE  [c EXCEPT !.bind = T] \in Kept(alone, hand)
  <1>1. [c EXCEPT !.bind = T] \in CatalogRows
    BY RowsOfCatalog DEF Kept
  <1>2. /\ [c EXCEPT !.bind = T].trace = c.trace /\ [c EXCEPT !.bind = T].bind = T
        /\ [c EXCEPT !.bind = T].owner = c.owner
    BY RowsOfCatalog DEF Kept
  <1> QED BY <1>1, <1>2 DEF Kept, OneTrace, OneBind, OneOwner

LEMMA WriteOwner ==
  ASSUME NEW alone, NEW hand, NEW c \in Kept(alone, hand), NEW T \in [OwnerIds -> OwnerRow],
         hand \/ (OneOwner(c) => OneOwner([c EXCEPT !.owner = T]))
  PROVE  [c EXCEPT !.owner = T] \in Kept(alone, hand)
  <1>1. [c EXCEPT !.owner = T] \in CatalogRows
    BY RowsOfCatalog DEF Kept
  <1>2. [c EXCEPT !.owner = T].trace = c.trace /\ [c EXCEPT !.owner = T].bind = c.bind
    BY RowsOfCatalog DEF Kept
  <1> QED BY <1>1, <1>2 DEF Kept, OneTrace, OneBind

\* An id that is free is that of a row that was not made.
LEMMA FreeIsFree ==
  ASSUME NEW c \in CatalogRows, NEW t \in {"asset", "owner", "trace", "candidate", "bind"}, NEW i \in FreeId(c, t)
  PROVE  i \in DOMAIN c[t] /\ ~c[t][i].made
  <1>1. PICK taken : taken = {j \in DOMAIN c[t] : \/ c[t][j].made
                                                  \/ \E s \in CatalogSlots : catalogReq[s].new[t][j].made}
    OBVIOUS
  <1>2. i \in DOMAIN c[t] \ taken
    BY <1>1 DEF FreeId
  <1> QED BY <1>1, <1>2

\* Inserting a row that no lookup would have found.
LEMMA InsertTrace ==
  ASSUME NEW alone, NEW hand, NEW c \in Kept(alone, hand), NEW k \in TraceKeys, TracesWith(c, k) = {},
         NEW d \in Insert(c, "trace", [made |-> TRUE, key |-> k])
  PROVE  d \in Kept(alone, hand)
  <1>1. PICK i \in FreeId(c, "trace") : d = [c EXCEPT !.trace[i] = [made |-> TRUE, key |-> k]]
    BY DEF Insert
  <1>2. c.trace \in [TraceIds -> TraceRow] /\ i \in TraceIds /\ ~c.trace[i].made
    <2>1. c \in CatalogRows /\ c["trace"] = c.trace
      BY DEF Kept
    <2>2. i \in DOMAIN c.trace /\ ~c.trace[i].made
      BY <1>1, <2>1, FreeIsFree
    <2> QED BY <2>1, <2>2, TablesOf
  <1>3. PICK row \in TraceRow : row = [made |-> TRUE, key |-> k]
    <2>1. [made |-> TRUE, key |-> k] \in TraceRow
      BY DEF TraceRow
    <2> QED BY <2>1
  <1>4. PICK T : T = [c.trace EXCEPT ![i] = row]
    OBVIOUS
  <1>5. T \in [TraceIds -> TraceRow] /\ d = [c EXCEPT !.trace = T]
    BY <1>1, <1>2, <1>3, <1>4
  <1>6. \A j \in TraceIds : c.trace[j].made => c.trace[j].key # k
    BY DEF TracesWith
  <1>7. \A j \in TraceIds : T[j] = IF j = i THEN row ELSE c.trace[j]
    BY <1>2, <1>4
  <1>8. OneTrace(c) => \A a, b \in TraceIds : T[a].made /\ T[b].made /\ T[a].key = T[b].key => a = b
    BY <1>2, <1>3, <1>6, <1>7 DEF OneTrace
  <1> QED BY <1>5, <1>8, WriteTrace

LEMMA InsertBind ==
  ASSUME NEW alone, NEW hand, NEW c \in Kept(alone, hand), NEW i \in AssetIds, NEW e \in RefIds, BindsOf(c, i, e) = {},
         NEW d \in Insert(c, "bind", [made |-> TRUE, asset |-> i, ref |-> e])
  PROVE  d \in Kept(alone, hand)
  <1>1. PICK b \in FreeId(c, "bind") : d = [c EXCEPT !.bind[b] = [made |-> TRUE, asset |-> i, ref |-> e]]
    BY DEF Insert
  <1>2. c.bind \in [BindIds -> BindRow] /\ b \in BindIds /\ ~c.bind[b].made
    <2>1. c \in CatalogRows /\ c["bind"] = c.bind
      BY DEF Kept
    <2>2. b \in DOMAIN c.bind /\ ~c.bind[b].made
      BY <1>1, <2>1, FreeIsFree
    <2> QED BY <2>1, <2>2, TablesOf
  <1>3. PICK row \in BindRow : row = [made |-> TRUE, asset |-> i, ref |-> e]
    <2>1. [made |-> TRUE, asset |-> i, ref |-> e] \in BindRow
      BY DEF BindRow
    <2> QED BY <2>1
  <1>4. PICK T : T = [c.bind EXCEPT ![b] = row]
    OBVIOUS
  <1>5. T \in [BindIds -> BindRow] /\ d = [c EXCEPT !.bind = T]
    BY <1>1, <1>2, <1>3, <1>4
  <1>6. \A j \in BindIds : c.bind[j].made => c.bind[j].asset # i \/ c.bind[j].ref # e
    BY DEF BindsOf
  <1>7. \A j \in BindIds : T[j] = IF j = b THEN row ELSE c.bind[j]
    BY <1>2, <1>4
  <1>8. OneBind(c) => \A a, j \in BindIds :
             T[a].made /\ T[j].made /\ T[a].asset = T[j].asset /\ T[a].ref = T[j].ref => a = j
    BY <1>2, <1>3, <1>6, <1>7 DEF OneBind
  <1> QED BY <1>5, <1>8, WriteBind

LEMMA InsertOwner ==
  ASSUME NEW alone, NEW hand, NEW c \in Kept(alone, hand), NEW i \in AssetIds, NEW u \in Owners, NEW t \in OwnerTypes,
         NEW p \in BOOLEAN, hand \/ {o \in OwnersOf(c, i) : c.owner[o].user = u /\ c.owner[o].type = t} = {},
         NEW d \in AddOwner(c, i, u, t, p)
  PROVE  d \in Kept(alone, hand)
  <1>1. PICK row \in OwnerRow : row = [made |-> TRUE, asset |-> i, user |-> u, type |-> t, primary |-> p]
    <2>1. [made |-> TRUE, asset |-> i, user |-> u, type |-> t, primary |-> p] \in OwnerRow
      BY DEF OwnerRow
    <2> QED BY <2>1
  <1>2. PICK o \in FreeId(c, "owner") : d = [c EXCEPT !.owner[o] = row]
    BY <1>1 DEF Insert, AddOwner
  <1>3. c.owner \in [OwnerIds -> OwnerRow] /\ o \in OwnerIds /\ ~c.owner[o].made
    <2>1. c \in CatalogRows /\ c["owner"] = c.owner
      BY DEF Kept
    <2>2. o \in DOMAIN c.owner /\ ~c.owner[o].made
      BY <1>1, <1>2, <2>1, FreeIsFree
    <2> QED BY <2>1, <2>2, TablesOf
  <1>4. PICK T : T = [c.owner EXCEPT ![o] = row]
    OBVIOUS
  <1>5. T \in [OwnerIds -> OwnerRow] /\ d = [c EXCEPT !.owner = T]
    BY <1>1, <1>2, <1>3, <1>4
  <1>6. d.owner = T
    BY <1>5, RowsOfCatalog DEF Kept
  <1>7. \A j \in OwnerIds : T[j] = IF j = o THEN row ELSE c.owner[j]
    BY <1>3, <1>4
  <1>8. hand \/ \A j \in OwnerIds : c.owner[j].made /\ c.owner[j].asset = i /\ c.owner[j].user = u => c.owner[j].type # t
    BY DEF OwnersOf
  <1>9. hand \/ (OneOwner(c) => OneOwner(d))
    BY <1>1, <1>3, <1>6, <1>7, <1>8 DEF OneOwner
  <1> QED BY <1>5, <1>9, WriteOwner

LEMMA InsertCandidate ==
  ASSUME NEW alone, NEW hand, NEW c \in Kept(alone, hand), NEW row \in CandidateRow, NEW d \in Insert(c, "candidate", row)
  PROVE  d \in Kept(alone, hand)
  <1>1. PICK i \in FreeId(c, "candidate") : d = [c EXCEPT !.candidate[i] = row]
    BY DEF Insert
  <1>2. c.candidate \in [CandidateIds -> CandidateRow]
    BY TablesOf DEF Kept
  <1>3. PICK T : T = [c.candidate EXCEPT ![i] = row]
    OBVIOUS
  <1>4. T \in [CandidateIds -> CandidateRow] /\ d = [c EXCEPT !.candidate = T]
    BY <1>1, <1>2, <1>3
  <1> QED BY <1>4, WriteCandidate

LEMMA NewAssetKept ==
  ASSUME NEW alone, NEW hand, NEW c \in Kept(alone, hand), NEW e \in RefIds, NEW h \in Hashes, NEW d \in NewAsset(c, e, h)
  PROVE  d \in Kept(alone, hand)
  <1>1. PICK row \in AssetRow : row = [made |-> TRUE, ext |-> e, hash |-> h, noted |-> FALSE]
    <2>1. [made |-> TRUE, ext |-> e, hash |-> h, noted |-> FALSE] \in AssetRow
      BY DEF AssetRow
    <2> QED BY <2>1
  <1>2. PICK i \in FreeId(c, "asset") : d = [c EXCEPT !.asset[i] = row]
    BY <1>1 DEF Insert, NewAsset
  <1>3. c.asset \in [AssetIds -> AssetRow]
    BY TablesOf DEF Kept
  <1>4. PICK T : T = [c.asset EXCEPT ![i] = row]
    OBVIOUS
  <1>5. T \in [AssetIds -> AssetRow] /\ d = [c EXCEPT !.asset = T]
    BY <1>1, <1>2, <1>3, <1>4
  <1> QED BY <1>5, WriteAsset

LEMMA FreeAsset ==
  ASSUME NEW alone, NEW hand, NEW c \in Kept(alone, hand) PROVE FreeId(c, "asset") \subseteq AssetIds
  <1>1. c \in CatalogRows /\ c["asset"] = c.asset /\ DOMAIN c.asset = AssetIds
    BY TablesOf DEF Kept
  <1>2. FreeId(c, "asset") \subseteq DOMAIN c["asset"]
    BY DEF FreeId
  <1> QED BY <1>1, <1>2

LEMMA RewriteKept ==
  ASSUME NEW alone, NEW hand, NEW c \in Kept(alone, hand), NEW i \in AssetIds, NEW h \in Hashes
  PROVE  Rewrite(c, i, h) \in Kept(alone, hand)
  <1>1. PICK row \in AssetRow : row = c.asset[i]
    BY TablesOf DEF Kept
  <1>2. PICK new : new = [row EXCEPT !.hash = h, !.noted = FALSE]
    OBVIOUS
  <1>3. new \in AssetRow
    BY <1>2 DEF AssetRow
  <1>4. PICK T : T = [c.asset EXCEPT ![i] = new]
    OBVIOUS
  <1>5. c.asset \in [AssetIds -> AssetRow] /\ T \in [AssetIds -> AssetRow]
    BY <1>3, <1>4, TablesOf DEF Kept
  <1>6. Rewrite(c, i, h) = [c EXCEPT !.asset = T]
    <2>1. "asset" \in DOMAIN c /\ i \in DOMAIN c.asset
      BY <1>5, RowsOfCatalog DEF Kept
    <2>2. PICK d : d = [c EXCEPT !.asset[i].hash = h]
      OBVIOUS
    <2>3. d = [c EXCEPT !.asset = [c.asset EXCEPT ![i] = [row EXCEPT !.hash = h]]]
      BY <1>1, <2>2
    <2>4. "asset" \in DOMAIN d /\ d.asset = [c.asset EXCEPT ![i] = [row EXCEPT !.hash = h]]
      BY <2>1, <2>3
    <2>5. Rewrite(c, i, h) = [d EXCEPT !.asset[i].noted = FALSE]
      BY <2>2 DEF Rewrite
    <2>6. d.asset[i] = [row EXCEPT !.hash = h]
      BY <2>1, <2>4
    <2>7. [d EXCEPT !.asset[i].noted = FALSE] = [d EXCEPT !.asset = [d.asset EXCEPT ![i] = new]]
      BY <1>2, <2>6
    <2>8. [d.asset EXCEPT ![i] = new] = T
      BY <1>4, <2>1, <2>4
    <2> QED BY <2>1, <2>3, <2>5, <2>7, <2>8
  <1> QED BY <1>5, <1>6, WriteAsset

(* Each part of a handler keeps what it finds *)

LEMMA CollectOwnerKept ==
  ASSUME NEW alone, NEW hand, NEW c \in Kept(alone, hand), NEW i \in AssetIds, NEW u \in Owners \cup {"none"},
         NEW d \in CollectOwner(c, i, u)
  PROVE  d \in Kept(alone, hand)
  <1>1. CASE d = c
    BY <1>1
  <1>2. CASE d # c
    <2>1. /\ u # "none" /\ {o \in OwnersOf(c, i) : c.owner[o].user = u /\ c.owner[o].type = "creator"} = {}
          /\ d \in AddOwner(c, i, u, "creator", TRUE)
      BY <1>2 DEF CollectOwner
    <2> QED BY <2>1, InsertOwner DEF OwnerTypes
  <1> QED BY <1>1, <1>2

LEMMA RefOwnerKept ==
  ASSUME NEW alone, NEW hand, NEW c \in Kept(alone, hand), NEW i \in AssetIds, NEW u \in Owners \cup {"none"},
         NEW d \in RefOwner(c, i, u)
  PROVE  d \in Kept(alone, hand)
  <1>1. CASE d = c
    BY <1>1
  <1>2. CASE d # c
    <2>1. /\ u # "none" /\ {o \in OwnersOf(c, i) : c.owner[o].user = u} = {}
          /\ d \in AddOwner(c, i, u, "creator", TRUE)
      BY <1>2 DEF RefOwner
    <2>2. {o \in OwnersOf(c, i) : c.owner[o].user = u /\ c.owner[o].type = "creator"} = {}
      BY <2>1
    <2> QED BY <2>1, <2>2, InsertOwner DEF OwnerTypes
  <1> QED BY <1>1, <1>2

LEMMA CardOwnerKept ==
  ASSUME NEW alone, NEW hand, NEW c \in Kept(alone, hand), NEW i \in AssetIds, NEW u \in Owners \cup {"none"},
         NEW t \in OwnerTypes, NEW d \in CardOwner(c, i, u, t)
  PROVE  d \in Kept(alone, hand)
  <1>1. CASE d = c
    BY <1>1
  <1>2. CASE d # c
    <2>1. PICK p \in BOOLEAN : p = ({o \in OwnersOf(c, i) : c.owner[o].primary} = {})
      OBVIOUS
    <2>2. /\ u # "none" /\ {o \in OwnersOf(c, i) : c.owner[o].user = u /\ c.owner[o].type = t} = {}
          /\ d \in AddOwner(c, i, u, t, p)
      BY <1>2, <2>1 DEF CardOwner
    <2> QED BY <2>2, InsertOwner
  <1> QED BY <1>1, <1>2

LEMMA KeepBindKept ==
  ASSUME NEW alone, NEW hand, NEW c \in Kept(alone, hand), NEW i \in AssetIds, NEW e \in RefIds, NEW d \in KeepBind(c, i, e)
  PROVE  d \in Kept(alone, hand)
  BY InsertBind DEF KeepBind

LEMMA KeepTraceKept ==
  ASSUME NEW alone, NEW hand, NEW c \in Kept(alone, hand), NEW k \in TraceKeys, NEW d \in KeepTrace(c, k)
  PROVE  d \in Kept(alone, hand)
  BY InsertTrace DEF KeepTrace

LEMMA KeepCandidateKept ==
  ASSUME NEW alone, NEW hand, NEW c \in Kept(alone, hand), NEW k \in TraceKeys, NEW signal \in BOOLEAN, NEW long \in BOOLEAN,
         NEW d \in KeepCandidate(c, k, signal, long) \cup ReportCandidate(c, k)
  PROVE  d \in Kept(alone, hand)
  <1>1. /\ [made |-> TRUE, key |-> k, long |-> long, signal |-> signal, status |-> "candidate"] \in CandidateRow
        /\ [made |-> TRUE, key |-> k, long |-> FALSE, signal |-> FALSE, status |-> "candidate"] \in CandidateRow
    BY DEF CandidateRow
  <1>2. CASE d \in ReportCandidate(c, k)
    BY <1>1, <1>2, InsertCandidate DEF ReportCandidate
  <1>3. CASE d \in KeepCandidate(c, k, signal, long)
    <2>1. d = c \/ d \in Insert(c, "candidate",
                [made |-> TRUE, key |-> k, long |-> long, signal |-> signal, status |-> "candidate"])
      BY <1>3 DEF KeepCandidate
    <2> QED BY <1>1, <2>1, InsertCandidate
  <1> QED BY <1>2, <1>3

(* The three ways by which reports write *)

LEMMA TypedOnly == \A hand : CatalogRows = Kept(FALSE, hand)
  BY DEF Kept

LEMMA ItemIds == ASSUME NEW x \in Item PROVE /\ x.ext \in RefIds /\ RefId(x) \in RefIds /\ CardId(x) \in RefIds
                                            /\ x.hash \in Hashes /\ x.user \in Owners \cup {"none"}
  BY DEF Item, RefIds, RefId, CardId

LEMMA FoundAssets == \A c, e, h : AssetWith(c, e) \subseteq AssetIds /\ HashedAs(c, h) \subseteq AssetIds
  BY DEF AssetWith, HashedAs

LEMMA CollectAssetKept ==
  ASSUME NEW alone, NEW hand, NEW c \in Kept(alone, hand), NEW x \in Item
  PROVE  CollectAsset(c, x) \subseteq Kept(alone, hand)
  <1> DEFINE found == IF AssetWith(c, x.ext) # {} THEN AssetWith(c, x.ext) ELSE HashedAs(c, x.hash)
             kept == IF found = {} THEN NewAsset(c, x.ext, x.hash)
                     ELSE IF Cardinality(found) = 1 THEN {Rewrite(c, i, x.hash) : i \in found} ELSE {}
             ids == IF found = {} THEN FreeId(c, "asset") ELSE found
  <1>1. found \subseteq AssetIds /\ ids \subseteq AssetIds
    BY FoundAssets, FreeAsset
  <1>2. kept \subseteq Kept(alone, hand)
    BY <1>1, ItemIds, NewAssetKept, RewriteKept
  <1>3. CollectAsset(c, x) = UNION {CollectOwner(d, i, x.user) : d \in kept, i \in ids}
    BY DEF CollectAsset
  <1> HIDE DEF found, kept, ids
  <1> QED BY <1>1, <1>2, <1>3, ItemIds, CollectOwnerKept

LEMMA ReferAssetKept ==
  ASSUME NEW alone, NEW hand, NEW c \in Kept(alone, hand), NEW x \in Item
  PROVE  ReferAsset(c, x) \subseteq Kept(alone, hand)
  <1> DEFINE found == AssetWith(c, RefId(x))
             kept == IF found = {} THEN NewAsset(c, RefId(x), x.hash)
                     ELSE {Rewrite(c, i, x.hash) : i \in found}
             ids == IF found = {} THEN FreeId(c, "asset") ELSE found
  <1>1. found \subseteq AssetIds /\ ids \subseteq AssetIds
    BY FoundAssets, FreeAsset
  <1>2. kept \subseteq Kept(alone, hand)
    BY <1>1, ItemIds, NewAssetKept, RewriteKept
  <1>3. ReferAsset(c, x) = UNION {UNION {RefOwner(e, i, x.user) : e \in KeepBind(d, i, RefId(x))} : d \in kept, i \in ids}
    BY DEF ReferAsset
  <1> HIDE DEF found, kept, ids
  <1>4. \A d \in kept, i \in ids : KeepBind(d, i, RefId(x)) \subseteq Kept(alone, hand)
    BY <1>1, <1>2, ItemIds, KeepBindKept
  <1> QED BY <1>1, <1>3, <1>4, ItemIds, RefOwnerKept

LEMMA CardAssetKept ==
  ASSUME NEW alone, NEW hand, NEW c \in Kept(alone, hand), NEW x \in Item
  PROVE  CardAsset(c, x) \subseteq Kept(alone, hand)
  <1> DEFINE found == AssetWith(c, CardId(x))
             kept == IF found = {} THEN NewAsset(c, CardId(x), x.hash)
                     ELSE {Rewrite(c, i, x.hash) : i \in found}
             ids == IF found = {} THEN FreeId(c, "asset") ELSE found
  <1>1. found \subseteq AssetIds /\ ids \subseteq AssetIds
    BY FoundAssets, FreeAsset
  <1>2. kept \subseteq Kept(alone, hand)
    BY <1>1, ItemIds, NewAssetKept, RewriteKept
  <1>3. CardAsset(c, x) = UNION {UNION {KeepBind(e, i, CardId(x)) : e \in CardOwner(d, i, x.user, t)} :
                                 d \in kept, t \in OwnerTypes, i \in ids}
    BY DEF CardAsset
  <1> HIDE DEF found, kept, ids
  <1>4. \A d \in kept, t \in OwnerTypes, i \in ids : CardOwner(d, i, x.user, t) \subseteq Kept(alone, hand)
    BY <1>1, <1>2, ItemIds, CardOwnerKept
  <1> QED BY <1>1, <1>3, <1>4, ItemIds, KeepBindKept

LEMMA ItemNumbers ==
  ASSUME NEW xs \in Seq(Item)
  PROVE  /\ IsFiniteSet(DOMAIN xs) /\ DOMAIN xs \subseteq Nat /\ \A m \in DOMAIN xs : xs[m] \in Item
         /\ \A s \in SUBSET DOMAIN xs : s # {} => Max(s) \in DOMAIN xs
  <1>1. PICK n \in Nat : DOMAIN xs = 1 .. n
    OBVIOUS
  <1>2. IsFiniteSet(1 .. n) /\ 1 .. n \subseteq Nat
    BY FS_Interval
  <1>3. ASSUME NEW s \in SUBSET (1 .. n), s # {} PROVE Max(s) \in 1 .. n
    <2>1. IsFiniteSet(s) /\ s \subseteq Nat
      BY <1>2, FS_Subset
    <2>2. Max(s) \in s
      BY <1>3, <2>1, MaxIsGreatest
    <2> QED BY <2>2
  <1>4. \A m \in DOMAIN xs : xs[m] \in Item
    OBVIOUS
  <1> QED BY <1>1, <1>2, <1>3, <1>4

LEMMA AllCollected ==
  ASSUME NEW alone, NEW hand, NEW c \in Kept(alone, hand), NEW xs \in Seq(Item)
  PROVE  All(CollectAsset, c, xs) \subseteq Kept(alone, hand)
  <1> DEFINE D == DOMAIN xs
             V == SUBSET CatalogRows
             Step(it) == [s \in SUBSET D |-> IF s = {} THEN {c}
                                             ELSE UNION {CollectAsset(d, xs[Max(s)]) : d \in it[s \ {Max(s)}]}]
             all == CHOOSE it : it = Step(it)
  <1>1. All(CollectAsset, c, xs) = all[D]
    BY DEF All, FoldLeft, MapThenFoldSet
  <1>2. IsFiniteSet(D) /\ D \subseteq Nat /\ \A m \in D : xs[m] \in Item
    BY ItemNumbers
  <1>3. \A s \in SUBSET D : s # {} => Max(s) \in D
    BY <1>2, ItemNumbers
  <1>4. \E it : it = Step(it)
    <2>1. PICK f : f = [p \in D \X V |-> UNION {CollectAsset(d, xs[p[1]]) : d \in p[2]}]
      OBVIOUS
    <2>2. f \in [D \X V -> V]
      <3>1. ASSUME NEW m \in D, NEW v \in V PROVE UNION {CollectAsset(d, xs[m]) : d \in v} \in V
        <4>1. ASSUME NEW d \in v PROVE CollectAsset(d, xs[m]) \subseteq CatalogRows
          <5>1. d \in Kept(FALSE, FALSE) /\ xs[m] \in Item
            BY <1>2, TypedOnly
          <5>2. CollectAsset(d, xs[m]) \subseteq Kept(FALSE, FALSE)
            BY ONLY <5>1, CollectAssetKept
          <5> QED BY <5>2, TypedOnly
        <4> QED BY <4>1
      <3> QED BY <2>1, <3>1
    <2>3. {c} \in V
      BY DEF Kept
    <2>4. PICK it \in [SUBSET D -> V] : Folded(it, D, {c}, f)
      <3> HIDE DEF V, D
      <3> QED BY <1>2, <2>2, <2>3, FoldExists
    <2>5. ASSUME NEW s \in SUBSET D
          PROVE  it[s] = IF s = {} THEN {c} ELSE UNION {CollectAsset(d, xs[Max(s)]) : d \in it[s \ {Max(s)}]}
      <3>1. CASE s = {}
        BY <2>4, <3>1 DEF Folded
      <3>2. CASE s # {}
        <4>1. Max(s) \in D /\ s \ {Max(s)} \in SUBSET D
          BY <1>3, <3>2
        <4>2. it[s \ {Max(s)}] \in V
          BY <2>4, <4>1
        <4>3. it[s] = f[<<Max(s), it[s \ {Max(s)}]>>]
          BY <2>4, <3>2 DEF Folded
        <4>4. f[<<Max(s), it[s \ {Max(s)}]>>] = UNION {CollectAsset(d, xs[Max(s)]) : d \in it[s \ {Max(s)}]}
          BY <2>1, <4>1, <4>2
        <4> QED BY <3>2, <4>3, <4>4
      <3> QED BY <3>1, <3>2
    <2>6. it = Step(it)
      BY <2>5
    <2> QED BY <2>6
  <1>5. all = Step(all)
    <2> HIDE DEF Step
    <2> QED BY <1>4
  <1>6. all[{}] \subseteq Kept(alone, hand)
    <2> HIDE DEF all
    <2> QED BY <1>5
  <1>7. ASSUME NEW s \in SUBSET D, s # {}, Max(s) \in D, all[s \ {Max(s)}] \subseteq Kept(alone, hand)
        PROVE  all[s] \subseteq Kept(alone, hand)
    <2> HIDE DEF all
    <2>1. all[s] = UNION {CollectAsset(d, xs[Max(s)]) : d \in all[s \ {Max(s)}]}
      BY <1>5, <1>7
    <2>2. xs[Max(s)] \in Item
      BY <1>2, <1>7
    <2>3. ASSUME NEW e \in all[s] PROVE e \in Kept(alone, hand)
      <3>1. PICK d \in all[s \ {Max(s)}] : e \in CollectAsset(d, xs[Max(s)])
        BY <2>1
      <3> QED BY <1>7, <2>2, <3>1, CollectAssetKept
    <2> QED BY <2>3
  <1> HIDE DEF all, D
  <1>8. all[D] \subseteq Kept(alone, hand)
    BY <1>2, <1>6, <1>7, FoldKeeps
  <1> QED BY <1>1, <1>8

LEMMA InsertElsewhere ==
  ASSUME NEW c \in CatalogRows, NEW t \in {"asset", "owner", "bind"}, NEW row, NEW d \in Insert(c, t, row)
  PROVE  d.trace = c.trace
  <1>1. PICK i : d = [c EXCEPT ![t][i] = row]
    BY DEF Insert
  <1> QED BY <1>1, RowsOfCatalog

\* A structured report looks for its trace before it refers to assets.
LEMMA ReferTraces ==
  ASSUME NEW alone, NEW hand, NEW c \in Kept(alone, hand), NEW x \in Item, NEW d \in ReferAsset(c, x)
  PROVE  d.trace = c.trace
  <1> DEFINE found == AssetWith(c, RefId(x))
             kept == IF found = {} THEN NewAsset(c, RefId(x), x.hash)
                     ELSE {Rewrite(c, i, x.hash) : i \in found}
             ids == IF found = {} THEN FreeId(c, "asset") ELSE found
  <1>1. found \subseteq AssetIds /\ ids \subseteq AssetIds
    BY FoundAssets, FreeAsset
  <1>2. kept \subseteq Kept(alone, hand)
    BY <1>1, ItemIds, NewAssetKept, RewriteKept
  <1>3. ReferAsset(c, x) = UNION {UNION {RefOwner(e, i, x.user) : e \in KeepBind(d2, i, RefId(x))} : d2 \in kept, i \in ids}
    BY DEF ReferAsset
  <1>4. \A r \in CatalogRows : r \in Kept(FALSE, FALSE)
    BY TypedOnly
  <1>5. c \in CatalogRows
    BY DEF Kept
  <1>6. ASSUME NEW e \in kept PROVE e.trace = c.trace
    <2>1. CASE e \in NewAsset(c, RefId(x), x.hash)
      BY <1>5, <2>1, InsertElsewhere DEF NewAsset
    <2>2. ASSUME NEW i \in found, e = Rewrite(c, i, x.hash) PROVE e.trace = c.trace
      BY <1>5, <2>2, RowsOfCatalog DEF Rewrite
    <2> QED BY <2>1, <2>2
  <1> HIDE DEF found, kept, ids
  <1>7. PICK e \in kept, i \in ids : \E b \in KeepBind(e, i, RefId(x)) : d \in RefOwner(b, i, x.user)
    BY <1>3
  <1>8. PICK b \in KeepBind(e, i, RefId(x)) : d \in RefOwner(b, i, x.user)
    BY <1>7
  <1>9. e \in Kept(alone, hand) /\ e \in CatalogRows /\ i \in AssetIds
    BY <1>1, <1>2, <1>7 DEF Kept
  <1>10. b.trace = e.trace
    BY <1>8, <1>9, InsertElsewhere DEF KeepBind
  <1>11. b \in CatalogRows
    BY <1>8, <1>9, ItemIds, KeepBindKept DEF Kept
  <1>12. d.trace = b.trace
    BY <1>8, <1>11, InsertElsewhere DEF RefOwner, AddOwner
  <1> QED BY <1>6, <1>7, <1>10, <1>12

LEMMA AllReferred ==
  ASSUME NEW alone, NEW hand, NEW c \in Kept(alone, hand), NEW xs \in Seq(Item)
  PROVE  All(ReferAsset, c, xs) \subseteq {d \in Kept(alone, hand) : d.trace = c.trace}
  <1> DEFINE D == DOMAIN xs
             V == SUBSET CatalogRows
             Step(it) == [s \in SUBSET D |-> IF s = {} THEN {c}
                                             ELSE UNION {ReferAsset(d, xs[Max(s)]) : d \in it[s \ {Max(s)}]}]
             all == CHOOSE it : it = Step(it)
  <1>1. All(ReferAsset, c, xs) = all[D]
    BY DEF All, FoldLeft, MapThenFoldSet
  <1>2. IsFiniteSet(D) /\ D \subseteq Nat /\ \A m \in D : xs[m] \in Item
    BY ItemNumbers
  <1>3. \A s \in SUBSET D : s # {} => Max(s) \in D
    BY <1>2, ItemNumbers
  <1>4. \E it : it = Step(it)
    <2>1. PICK f : f = [p \in D \X V |-> UNION {ReferAsset(d, xs[p[1]]) : d \in p[2]}]
      OBVIOUS
    <2>2. f \in [D \X V -> V]
      <3>1. ASSUME NEW m \in D, NEW v \in V PROVE UNION {ReferAsset(d, xs[m]) : d \in v} \in V
        <4>1. ASSUME NEW d \in v PROVE ReferAsset(d, xs[m]) \subseteq CatalogRows
          <5>1. d \in Kept(FALSE, FALSE) /\ xs[m] \in Item
            BY <1>2, TypedOnly
          <5>2. ReferAsset(d, xs[m]) \subseteq Kept(FALSE, FALSE)
            BY ONLY <5>1, ReferAssetKept
          <5> QED BY <5>2, TypedOnly
        <4> QED BY <4>1
      <3> QED BY <2>1, <3>1
    <2>3. {c} \in V
      BY DEF Kept
    <2>4. PICK it \in [SUBSET D -> V] : Folded(it, D, {c}, f)
      <3> HIDE DEF V, D
      <3> QED BY <1>2, <2>2, <2>3, FoldExists
    <2>5. ASSUME NEW s \in SUBSET D
          PROVE  it[s] = IF s = {} THEN {c} ELSE UNION {ReferAsset(d, xs[Max(s)]) : d \in it[s \ {Max(s)}]}
      <3>1. CASE s = {}
        BY <2>4, <3>1 DEF Folded
      <3>2. CASE s # {}
        <4>1. Max(s) \in D /\ s \ {Max(s)} \in SUBSET D
          BY <1>3, <3>2
        <4>2. it[s \ {Max(s)}] \in V
          BY <2>4, <4>1
        <4>3. it[s] = f[<<Max(s), it[s \ {Max(s)}]>>]
          BY <2>4, <3>2 DEF Folded
        <4>4. f[<<Max(s), it[s \ {Max(s)}]>>] = UNION {ReferAsset(d, xs[Max(s)]) : d \in it[s \ {Max(s)}]}
          BY <2>1, <4>1, <4>2
        <4> QED BY <3>2, <4>3, <4>4
      <3> QED BY <3>1, <3>2
    <2>6. it = Step(it)
      BY <2>5
    <2> QED BY <2>6
  <1>5. all = Step(all)
    <2> HIDE DEF Step
    <2> QED BY <1>4
  <1>6. all[{}] \subseteq {d \in Kept(alone, hand) : d.trace = c.trace}
    <2> HIDE DEF all
    <2> QED BY <1>5
  <1>7. ASSUME NEW s \in SUBSET D, s # {}, Max(s) \in D, all[s \ {Max(s)}] \subseteq {d \in Kept(alone, hand) : d.trace = c.trace}
        PROVE  all[s] \subseteq {d \in Kept(alone, hand) : d.trace = c.trace}
    <2> HIDE DEF all
    <2>1. all[s] = UNION {ReferAsset(d, xs[Max(s)]) : d \in all[s \ {Max(s)}]}
      BY <1>5, <1>7
    <2>2. xs[Max(s)] \in Item
      BY <1>2, <1>7
    <2>3. ASSUME NEW e \in all[s] PROVE e \in {d \in Kept(alone, hand) : d.trace = c.trace}
      <3>1. PICK d \in all[s \ {Max(s)}] : e \in ReferAsset(d, xs[Max(s)])
        BY <2>1
      <3>2. d \in Kept(alone, hand) /\ d.trace = c.trace
        BY <1>7, <3>1
      <3>3. e \in Kept(alone, hand)
        BY <2>2, <3>1, <3>2, ReferAssetKept
      <3>4. e.trace = d.trace
        BY <2>2, <3>1, <3>2, ReferTraces
      <3> QED BY <3>2, <3>3, <3>4
    <2> QED BY <2>3
  <1> HIDE DEF all, D
  <1>8. all[D] \subseteq {d \in Kept(alone, hand) : d.trace = c.trace}
    BY <1>2, <1>6, <1>7, FoldKeeps
  <1> QED BY <1>1, <1>8

LEMMA AllCarded ==
  ASSUME NEW alone, NEW hand, NEW c \in Kept(alone, hand), NEW xs \in Seq(Item)
  PROVE  All(CardAsset, c, xs) \subseteq Kept(alone, hand)
  <1> DEFINE D == DOMAIN xs
             V == SUBSET CatalogRows
             Step(it) == [s \in SUBSET D |-> IF s = {} THEN {c}
                                             ELSE UNION {CardAsset(d, xs[Max(s)]) : d \in it[s \ {Max(s)}]}]
             all == CHOOSE it : it = Step(it)
  <1>1. All(CardAsset, c, xs) = all[D]
    BY DEF All, FoldLeft, MapThenFoldSet
  <1>2. IsFiniteSet(D) /\ D \subseteq Nat /\ \A m \in D : xs[m] \in Item
    BY ItemNumbers
  <1>3. \A s \in SUBSET D : s # {} => Max(s) \in D
    BY <1>2, ItemNumbers
  <1>4. \E it : it = Step(it)
    <2>1. PICK f : f = [p \in D \X V |-> UNION {CardAsset(d, xs[p[1]]) : d \in p[2]}]
      OBVIOUS
    <2>2. f \in [D \X V -> V]
      <3>1. ASSUME NEW m \in D, NEW v \in V PROVE UNION {CardAsset(d, xs[m]) : d \in v} \in V
        <4>1. ASSUME NEW d \in v PROVE CardAsset(d, xs[m]) \subseteq CatalogRows
          <5>1. d \in Kept(FALSE, FALSE) /\ xs[m] \in Item
            BY <1>2, TypedOnly
          <5>2. CardAsset(d, xs[m]) \subseteq Kept(FALSE, FALSE)
            BY ONLY <5>1, CardAssetKept
          <5> QED BY <5>2, TypedOnly
        <4> QED BY <4>1
      <3> QED BY <2>1, <3>1
    <2>3. {c} \in V
      BY DEF Kept
    <2>4. PICK it \in [SUBSET D -> V] : Folded(it, D, {c}, f)
      <3> HIDE DEF V, D
      <3> QED BY <1>2, <2>2, <2>3, FoldExists
    <2>5. ASSUME NEW s \in SUBSET D
          PROVE  it[s] = IF s = {} THEN {c} ELSE UNION {CardAsset(d, xs[Max(s)]) : d \in it[s \ {Max(s)}]}
      <3>1. CASE s = {}
        BY <2>4, <3>1 DEF Folded
      <3>2. CASE s # {}
        <4>1. Max(s) \in D /\ s \ {Max(s)} \in SUBSET D
          BY <1>3, <3>2
        <4>2. it[s \ {Max(s)}] \in V
          BY <2>4, <4>1
        <4>3. it[s] = f[<<Max(s), it[s \ {Max(s)}]>>]
          BY <2>4, <3>2 DEF Folded
        <4>4. f[<<Max(s), it[s \ {Max(s)}]>>] = UNION {CardAsset(d, xs[Max(s)]) : d \in it[s \ {Max(s)}]}
          BY <2>1, <4>1, <4>2
        <4> QED BY <3>2, <4>3, <4>4
      <3> QED BY <3>1, <3>2
    <2>6. it = Step(it)
      BY <2>5
    <2> QED BY <2>6
  <1>5. all = Step(all)
    <2> HIDE DEF Step
    <2> QED BY <1>4
  <1>6. all[{}] \subseteq Kept(alone, hand)
    <2> HIDE DEF all
    <2> QED BY <1>5
  <1>7. ASSUME NEW s \in SUBSET D, s # {}, Max(s) \in D, all[s \ {Max(s)}] \subseteq Kept(alone, hand)
        PROVE  all[s] \subseteq Kept(alone, hand)
    <2> HIDE DEF all
    <2>1. all[s] = UNION {CardAsset(d, xs[Max(s)]) : d \in all[s \ {Max(s)}]}
      BY <1>5, <1>7
    <2>2. xs[Max(s)] \in Item
      BY <1>2, <1>7
    <2>3. ASSUME NEW e \in all[s] PROVE e \in Kept(alone, hand)
      <3>1. PICK d \in all[s \ {Max(s)}] : e \in CardAsset(d, xs[Max(s)])
        BY <2>1
      <3> QED BY <1>7, <2>2, <3>1, CardAssetKept
    <2> QED BY <2>3
  <1> HIDE DEF all, D
  <1>8. all[D] \subseteq Kept(alone, hand)
    BY <1>2, <1>6, <1>7, FoldKeeps
  <1> QED BY <1>1, <1>8

LEMMA CollectKept ==
  ASSUME NEW alone, NEW hand, NEW c \in Kept(alone, hand), NEW xs \in Seq(Item), NEW k \in TraceKeys
  PROVE  Collect(c, xs, k) \subseteq Kept(alone, hand)
  BY AllCollected, KeepTraceKept DEF Collect

LEMMA StoppedAtKept ==
  ASSUME NEW alone, NEW hand, NEW c \in Kept(alone, hand), NEW x \in Item
  PROVE  StoppedAt(c, x) \subseteq Kept(alone, hand)
  <1> DEFINE found == IF AssetWith(c, x.ext) # {} THEN AssetWith(c, x.ext) ELSE HashedAs(c, x.hash)
  <1>1. found \subseteq AssetIds
    BY FoundAssets
  <1>2. ASSUME NEW d \in StoppedAt(c, x) PROVE d = c \/ \E i \in found : d = Rewrite(c, i, x.hash)
    BY <1>2 DEF StoppedAt
  <1> HIDE DEF found
  <1> QED BY <1>1, <1>2, ItemIds, RewriteKept

LEMMA StoppedKept ==
  ASSUME NEW alone, NEW hand, NEW c \in Kept(alone, hand), NEW xs \in Seq(Item)
  PROVE  Stopped(c, xs) \subseteq Kept(alone, hand)
  <1>1. ASSUME NEW j \in DOMAIN xs PROVE SubSeq(xs, 1, j - 1) \in Seq(Item) /\ xs[j] \in Item
    OBVIOUS
  <1>2. ASSUME NEW e \in Stopped(c, xs) PROVE e \in Kept(alone, hand)
    <2>1. PICK j \in DOMAIN xs : \E d \in All(CollectAsset, c, SubSeq(xs, 1, j - 1)) : e \in StoppedAt(d, xs[j])
      BY <1>2 DEF Stopped
    <2>2. PICK d \in All(CollectAsset, c, SubSeq(xs, 1, j - 1)) : e \in StoppedAt(d, xs[j])
      BY <2>1
    <2>3. d \in Kept(alone, hand)
      BY <1>1, <2>1, <2>2, AllCollected
    <2> QED BY <1>1, <2>1, <2>2, <2>3, StoppedAtKept
  <1> QED BY <1>2

LEMMA StructuredKept ==
  ASSUME NEW alone, NEW hand, NEW c \in Kept(alone, hand), NEW xs \in Seq(Item), NEW k \in TraceKeys
  PROVE  Structured(c, xs, k) \subseteq Kept(alone, hand)
  <1>1. ASSUME NEW f \in Structured(c, xs, k) PROVE f \in Kept(alone, hand)
    <2>1. CASE TracesWith(c, k) # {}
      BY <1>1, <2>1 DEF Structured, Deduped
    <2>2. CASE TracesWith(c, k) = {}
      <3>1. PICK d \in All(ReferAsset, c, xs) :
                \E e \in Insert(d, "trace", [made |-> TRUE, key |-> k]) : f \in ReportCandidate(e, k)
        BY <1>1, <2>2 DEF Structured
      <3>2. PICK e \in Insert(d, "trace", [made |-> TRUE, key |-> k]) : f \in ReportCandidate(e, k)
        BY <3>1
      <3>3. d \in Kept(alone, hand) /\ d.trace = c.trace
        BY <3>1, AllReferred
      <3>4. TracesWith(d, k) = {}
        BY <2>2, <3>3 DEF TracesWith
      <3>5. e \in Kept(alone, hand)
        BY <3>2, <3>3, <3>4, InsertTrace
      <3> QED BY <3>2, <3>5, KeepCandidateKept
    <2> QED BY <2>1, <2>2
  <1> QED BY <1>1

LEMMA MaterializeKept ==
  ASSUME NEW alone, NEW hand, NEW c \in Kept(alone, hand), NEW xs \in Seq(Item), NEW k \in TraceKeys, NEW long \in BOOLEAN
  PROVE  Materialize(c, xs, k, long) \subseteq Kept(alone, hand)
  <1> DEFINE cards == {c} \cup All(CardAsset, c, xs)
             traced == cards \cup UNION {KeepTrace(d, k) : d \in cards}
             noted == UNION {Candidates(d, k, long) : d \in traced}
  <1>1. cards \subseteq Kept(alone, hand)
    BY AllCarded
  <1>2. Materialize(c, xs, k, long) = UNION {Signals(d, k, long) : d \in noted} \ {c}
    BY DEF Materialize
  <1> HIDE DEF cards
  <1>3. traced \subseteq Kept(alone, hand)
    BY <1>1, KeepTraceKept
  <1> HIDE DEF traced
  <1>4. ASSUME NEW d \in Kept(alone, hand)
        PROVE  Candidates(d, k, long) \subseteq Kept(alone, hand) /\ Signals(d, k, long) \subseteq Kept(alone, hand)
    BY KeepCandidateKept DEF Candidates, Signals
  <1>5. noted \subseteq Kept(alone, hand)
    BY <1>3, <1>4
  <1> HIDE DEF noted
  <1> QED BY <1>2, <1>4, <1>5

LEMMA ItemsOfPacked ==
  ASSUME NEW xs \in Packed
  PROVE  /\ \A known \in SUBSET Owners : PackItems(xs, known) \in Seq(Item) /\ BackupItems(xs, known) \in Seq(Item)
                                         /\ CardItems(xs, known) \in Seq(Item)
         /\ \A user \in Owners \cup {"none"} : ReporterUser(xs, user) \in Seq(Item)
  <1>1. xs \in Seq(Item)
    BY CatalogAssumption DEF Item
  <1>2. PICK n \in Nat : DOMAIN xs = 1 .. n
    BY <1>1
  <1>3. \A j \in 1 .. n : xs[j] \in Item
    BY <1>1, <1>2
  <1>4. ASSUME NEW known \in SUBSET Owners
        PROVE  [j \in DOMAIN xs |-> [xs[j] EXCEPT !.user = IF @ \in known THEN @ ELSE "none"]] \in Seq(Item)
    <2>1. ASSUME NEW j \in 1 .. n PROVE [xs[j] EXCEPT !.user = IF @ \in known THEN @ ELSE "none"] \in Item
      BY <1>3 DEF Item
    <2> QED BY <1>2, <2>1
  <1>5. ASSUME NEW user \in Owners \cup {"none"} PROVE [j \in DOMAIN xs |-> [xs[j] EXCEPT !.user = user]] \in Seq(Item)
    <2>1. ASSUME NEW j \in 1 .. n PROVE [xs[j] EXCEPT !.user = user] \in Item
      BY <1>3 DEF Item
    <2> QED BY <1>2, <2>1
  <1> QED BY <1>4, <1>5 DEF PackItems, BackupItems, CardItems, ReporterUser

(* Requests *)

CatalogInv ==
    /\ CatalogTypeOK
    /\ catalog \in Kept(~catalogMixed, catalogByHand)
    /\ \A s \in CatalogSlots : catalogReq[s].busy => catalogReq[s].new \in Kept(~catalogMixed, catalogByHand)
    /\ ~catalogMixed => \A s \in CatalogSlots : catalogReq[s].busy =>
           catalogReq[s].snap = catalog /\ \A t \in CatalogSlots : catalogReq[t].busy => t = s

LEMMA KeptTyped == \A alone, hand : Kept(alone, hand) \subseteq CatalogRows
  BY DEF Kept

LEMMA KeptWeaker ==
  ASSUME NEW alone, NEW alone2, NEW hand, NEW hand2, alone2 => alone, hand => hand2
  PROVE  Kept(alone, hand) \subseteq Kept(alone2, hand2)
  BY DEF Kept

LEMMA NothingKept == NoCatalog \in Kept(TRUE, FALSE)
  <1>1. NoAsset \in AssetRow /\ NoOwner \in OwnerRow /\ NoTrace \in TraceRow /\ NoCandidate \in CandidateRow /\ NoBind \in BindRow
    BY DEF NoAsset, NoOwner, NoTrace, NoCandidate, NoBind, AssetRow, OwnerRow, TraceRow, CandidateRow, BindRow,
           RefIds, OwnerTypes
  <1>2. NoCatalog \in CatalogRows
    BY <1>1, RowsOfCatalog DEF NoCatalog
  <1>3. /\ \A i \in TraceIds : ~NoCatalog.trace[i].made
        /\ \A i \in BindIds : ~NoCatalog.bind[i].made
        /\ \A i \in OwnerIds : ~NoCatalog.owner[i].made
    BY DEF NoCatalog, NoTrace, NoBind, NoOwner
  <1> QED BY <1>2, <1>3 DEF Kept, OneTrace, OneBind, OneOwner

LEMMA NoRequestTyped == NoCatalogRequest \in CatalogRequest /\ ~NoCatalogRequest.busy
  BY NothingKept, KeptTyped DEF NoCatalogRequest, CatalogRequest

LEMMA CatalogInitInv == CatalogInit => CatalogInv
  <1> SUFFICES ASSUME CatalogInit PROVE CatalogInv
    OBVIOUS
  <1>1. catalog \in Kept(TRUE, FALSE) /\ catalog \in CatalogRows /\ ~catalogMixed /\ ~catalogByHand
    BY NothingKept, KeptTyped DEF CatalogInit
  <1>2. catalogReq \in [CatalogSlots -> CatalogRequest] /\ \A s \in CatalogSlots : ~catalogReq[s].busy
    BY NoRequestTyped DEF CatalogInit
  <1>3. reports \in 0 .. MaxReports /\ catalogMixed \in BOOLEAN /\ catalogByHand \in BOOLEAN
    <2>1. MaxReports \in Nat
      BY CatalogAssumption
    <2>2. reports \in 0 .. MaxReports
      BY <2>1 DEF CatalogInit
    <2> QED BY <2>2 DEF CatalogInit
  <1>4. catalog \in Kept(~catalogMixed, catalogByHand)
    BY <1>1, <1>3, KeptWeaker
  <1> QED BY <1>1, <1>2, <1>3, <1>4 DEF CatalogInv, CatalogTypeOK

\* A request is served: what it leaves in its session is fit to be committed.
LEMMA ServedInv ==
  ASSUME CatalogInv, NEW s \in CatalogSlots, NEW new \in Kept(~catalogMixed, catalogByHand'), ServeCatalog(s, new),
         catalogByHand' \in BOOLEAN, catalogByHand => catalogByHand'
  PROVE  CatalogInv'
  <1>1. PICK q : q = [busy |-> TRUE, snap |-> catalog, new |-> new]
    OBVIOUS
  <1>2. q \in CatalogRequest
    BY <1>1, KeptTyped DEF CatalogRequest, CatalogInv, CatalogTypeOK
  <1>3. /\ catalogReq' = [catalogReq EXCEPT ![s] = q] /\ catalog' = catalog
        /\ catalogMixed' = (catalogMixed \/ \E t \in CatalogSlots : catalogReq[t].busy)
        /\ reports' = reports + 1 /\ reports < MaxReports
    BY <1>1 DEF ServeCatalog, Serves
  <1>4. CatalogTypeOK'
    BY <1>2, <1>3, CatalogAssumption DEF CatalogInv, CatalogTypeOK
  <1>5. \A t \in CatalogSlots : catalogReq'[t] = IF t = s THEN q ELSE catalogReq[t]
    BY <1>3 DEF CatalogInv, CatalogTypeOK
  <1>6. /\ Kept(~catalogMixed, catalogByHand) \subseteq Kept(~catalogMixed', catalogByHand')
        /\ Kept(~catalogMixed, catalogByHand') \subseteq Kept(~catalogMixed', catalogByHand')
    BY <1>3, KeptWeaker
  <1>7. catalog' \in Kept(~catalogMixed', catalogByHand')
    BY <1>3, <1>6 DEF CatalogInv
  <1>8. ASSUME NEW t \in CatalogSlots, catalogReq'[t].busy
        PROVE  catalogReq'[t].new \in Kept(~catalogMixed', catalogByHand')
    <2>1. CASE t = s
      BY <1>1, <1>5, <1>6, <2>1
    <2>2. CASE t # s
      BY <1>5, <1>6, <1>8, <2>2 DEF CatalogInv
    <2> QED BY <2>1, <2>2
  <1>9. ASSUME ~catalogMixed', NEW t \in CatalogSlots, catalogReq'[t].busy
        PROVE  catalogReq'[t].snap = catalog' /\ \A u \in CatalogSlots : catalogReq'[u].busy => u = t
    <2>1. \A u \in CatalogSlots : ~catalogReq[u].busy
      BY <1>3, <1>9
    <2>2. \A u \in CatalogSlots : catalogReq'[u].busy => u = s
      BY <1>5, <2>1
    <2> QED BY <1>1, <1>3, <1>5, <1>9, <2>2
  <1> QED BY <1>4, <1>7, <1>8, <1>9 DEF CatalogInv

LEMMA ServedByReport ==
  ASSUME CatalogInv, NEW s \in CatalogSlots, NEW new \in Kept(~catalogMixed, catalogByHand), ServeCatalog(s, new), ByReport
  PROVE  CatalogInv'
  <1>1. catalogByHand' = catalogByHand /\ catalogByHand' \in BOOLEAN
    BY DEF ByReport, CatalogInv, CatalogTypeOK
  <1>2. new \in Kept(~catalogMixed, catalogByHand')
    BY <1>1
  <1> QED BY <1>1, <1>2, ServedInv

LEMMA ReportPackInv == ASSUME CatalogInv, NEW s \in CatalogSlots, ReportPack(s) PROVE CatalogInv'
  <1>1. PICK xs \in Packed, known \in SUBSET Owners, k \in TraceKeys :
            \E new \in Collect(catalog, PackItems(xs, known), k) \cup Stopped(catalog, PackItems(xs, known)) :
                ServeCatalog(s, new) /\ ByReport
    BY DEF ReportPack
  <1>2. PICK items : items = PackItems(xs, known)
    OBVIOUS
  <1>3. items \in Seq(Item) /\ catalog \in Kept(~catalogMixed, catalogByHand)
    BY <1>1, <1>2, ItemsOfPacked DEF CatalogInv
  <1>4. PICK new \in Collect(catalog, items, k) \cup Stopped(catalog, items) : ServeCatalog(s, new) /\ ByReport
    BY <1>1, <1>2
  <1>5. new \in Kept(~catalogMixed, catalogByHand)
    BY <1>1, <1>3, <1>4, CollectKept, StoppedKept
  <1> QED BY <1>4, <1>5, ServedByReport

LEMMA OpenClawBackupInv == ASSUME CatalogInv, NEW s \in CatalogSlots, OpenClawBackup(s) PROVE CatalogInv'
  <1>1. PICK xs \in Packed, known \in SUBSET Owners, k \in TraceKeys :
            \E new \in Collect(catalog, BackupItems(xs, known), k) : ServeCatalog(s, new) /\ ByReport
    BY DEF OpenClawBackup
  <1>2. BackupItems(xs, known) \in Seq(Item) /\ catalog \in Kept(~catalogMixed, catalogByHand)
    BY <1>1, ItemsOfPacked DEF CatalogInv
  <1>3. PICK new \in Collect(catalog, BackupItems(xs, known), k) : ServeCatalog(s, new) /\ ByReport
    BY <1>1
  <1>4. new \in Kept(~catalogMixed, catalogByHand)
    BY <1>1, <1>2, <1>3, CollectKept
  <1> QED BY <1>3, <1>4, ServedByReport

LEMMA StructuredReportInv == ASSUME CatalogInv, NEW s \in CatalogSlots, StructuredReport(s) PROVE CatalogInv'
  <1>1. PICK xs \in Packed, user \in Owners \cup {"none"}, k \in TraceKeys :
            \E new \in Structured(catalog, ReporterUser(xs, user), k) : ServeCatalog(s, new) /\ ByReport
    BY DEF StructuredReport
  <1>2. ReporterUser(xs, user) \in Seq(Item) /\ catalog \in Kept(~catalogMixed, catalogByHand)
    BY <1>1, ItemsOfPacked DEF CatalogInv
  <1>3. PICK new \in Structured(catalog, ReporterUser(xs, user), k) : ServeCatalog(s, new) /\ ByReport
    BY <1>1
  <1>4. new \in Kept(~catalogMixed, catalogByHand)
    BY <1>1, <1>2, <1>3, StructuredKept
  <1> QED BY <1>3, <1>4, ServedByReport

LEMMA AnalysisResultInv == ASSUME CatalogInv, NEW s \in CatalogSlots, AnalysisResult(s) PROVE CatalogInv'
  <1>1. PICK xs \in Packed, known \in SUBSET Owners, k \in TraceKeys, long \in BOOLEAN :
            \E new \in Materialize(catalog, CardItems(xs, known), k, long) : ServeCatalog(s, new) /\ ByReport
    BY DEF AnalysisResult
  <1>2. CardItems(xs, known) \in Seq(Item) /\ catalog \in Kept(~catalogMixed, catalogByHand)
    BY <1>1, ItemsOfPacked DEF CatalogInv
  <1>3. PICK new \in Materialize(catalog, CardItems(xs, known), k, long) : ServeCatalog(s, new) /\ ByReport
    BY <1>1
  <1>4. new \in Kept(~catalogMixed, catalogByHand)
    BY <1>1, <1>2, <1>3, MaterializeKept
  <1> QED BY <1>3, <1>4, ServedByReport

\* Rows of assets and candidates that a lookup does not go by.
LEMMA NotedKept ==
  ASSUME NEW alone, NEW hand, NEW c \in Kept(alone, hand), NEW i \in AssetIds, NEW noted \in BOOLEAN
  PROVE  [c EXCEPT !.asset[i].noted = noted] \in Kept(alone, hand)
  <1>1. PICK row \in AssetRow : row = c.asset[i]
    BY TablesOf DEF Kept
  <1>2. PICK new \in AssetRow : new = [row EXCEPT !.noted = noted]
    BY <1>1 DEF AssetRow
  <1>3. PICK T : T = [c.asset EXCEPT ![i] = new]
    OBVIOUS
  <1>4. T \in [AssetIds -> AssetRow]
    BY <1>2, <1>3, TablesOf DEF Kept
  <1>5. [c EXCEPT !.asset[i].noted = noted] = [c EXCEPT !.asset = T]
    BY <1>1, <1>2, <1>3
  <1> QED BY <1>4, <1>5, WriteAsset

LEMMA ReviewedKept ==
  ASSUME NEW alone, NEW hand, NEW c \in Kept(alone, hand), NEW i \in CandidateIds,
         NEW st \in {"candidate", "accepted", "rejected"}
  PROVE  [c EXCEPT !.candidate[i].status = st] \in Kept(alone, hand)
  <1>1. PICK row \in CandidateRow : row = c.candidate[i]
    BY TablesOf DEF Kept
  <1>2. PICK new \in CandidateRow : new = [row EXCEPT !.status = st]
    BY <1>1 DEF CandidateRow
  <1>3. PICK T : T = [c.candidate EXCEPT ![i] = new]
    OBVIOUS
  <1>4. T \in [CandidateIds -> CandidateRow]
    BY <1>2, <1>3, TablesOf DEF Kept
  <1>5. [c EXCEPT !.candidate[i].status = st] = [c EXCEPT !.candidate = T]
    BY <1>1, <1>2, <1>3
  <1> QED BY <1>4, <1>5, WriteCandidate

LEMMA EditsInv ==
  ASSUME CatalogInv, NEW s \in CatalogSlots, CreateAsset(s) \/ UpdateAsset(s) \/ Feedback(s) \/ ReviewCandidate(s)
  PROVE  CatalogInv'
  <1>1. catalog \in Kept(~catalogMixed, catalogByHand)
    BY DEF CatalogInv
  <1>2. CASE CreateAsset(s)
    <2>1. PICK e \in ExternalIds \cup {"none"}, h \in Hashes :
              \E new \in NewAsset(catalog, e, h) : ServeCatalog(s, new) /\ ByReport
      BY <1>2 DEF CreateAsset
    <2>2. e \in RefIds
      BY <2>1 DEF RefIds
    <2> QED BY <1>1, <2>1, <2>2, NewAssetKept, ServedByReport
  <1>3. CASE UpdateAsset(s)
    BY <1>1, <1>3, NotedKept, ServedByReport DEF UpdateAsset
  <1>4. CASE Feedback(s)
    BY <1>1, <1>4, NotedKept, ServedByReport DEF Feedback
  <1>5. CASE ReviewCandidate(s)
    BY <1>1, <1>5, ReviewedKept, ServedByReport DEF ReviewCandidate
  <1> QED BY <1>2, <1>3, <1>4, <1>5

LEMMA AddOwnerInv == ASSUME CatalogInv, NEW s \in CatalogSlots, AddOwnerByHand(s) PROVE CatalogInv'
  <1>1. PICK i \in AssetIds, u \in Owners, t \in OwnerTypes, p \in BOOLEAN :
            LET c == [catalog EXCEPT !.owner = [o \in OwnerIds |->
                         IF p /\ o \in OwnersOf(catalog, i) /\ catalog.owner[o].type = t
                         THEN [catalog.owner[o] EXCEPT !.primary = FALSE] ELSE catalog.owner[o]]]
            IN  (\E new \in AddOwner(c, i, u, t, p) : ServeCatalog(s, new)) /\ catalogByHand' = TRUE
    BY DEF AddOwnerByHand
  <1>2. PICK T : T = [o \in OwnerIds |-> IF p /\ o \in OwnersOf(catalog, i) /\ catalog.owner[o].type = t
                                         THEN [catalog.owner[o] EXCEPT !.primary = FALSE] ELSE catalog.owner[o]]
    OBVIOUS
  <1>3. PICK c : c = [catalog EXCEPT !.owner = T]
    OBVIOUS
  <1>4. PICK new \in AddOwner(c, i, u, t, p) : ServeCatalog(s, new) /\ catalogByHand' = TRUE
    BY <1>1, <1>2, <1>3
  <1>5. catalog \in Kept(~catalogMixed, TRUE) /\ catalog.owner \in [OwnerIds -> OwnerRow]
    <2>1. catalog \in Kept(~catalogMixed, TRUE)
      BY KeptWeaker DEF CatalogInv
    <2> QED BY <2>1, TablesOf, KeptTyped
  <1>6. T \in [OwnerIds -> OwnerRow]
    <2>1. \A o \in OwnerIds : catalog.owner[o] \in OwnerRow /\ [catalog.owner[o] EXCEPT !.primary = FALSE] \in OwnerRow
      BY <1>5 DEF OwnerRow
    <2> QED BY <1>2, <2>1
  <1>7. c \in Kept(~catalogMixed, TRUE)
    BY <1>3, <1>5, <1>6, WriteOwner
  <1>8. new \in Kept(~catalogMixed, TRUE)
    BY <1>1, <1>4, <1>7, InsertOwner
  <1>9. new \in Kept(~catalogMixed, catalogByHand')
    BY <1>4, <1>8
  <1> QED BY <1>4, <1>9, ServedInv

(* The commit *)

\* What a request alone in its slot wrote is what it commits, and a row stays one.
Flushable(R) == \A cur, snap, new \in R : Flush(cur, snap, new) \in R /\ Flush(cur, cur, new) = new

LEMMA FlushedRow ==
  Flushable(AssetRow) /\ Flushable(OwnerRow) /\ Flushable(TraceRow) /\ Flushable(CandidateRow) /\ Flushable(BindRow)
  <1>1. Flushable(AssetRow)
    BY DEF Flushable, Flush, AssetRow
  <1>2. Flushable(OwnerRow)
    BY DEF Flushable, Flush, OwnerRow
  <1>3. Flushable(TraceRow)
    BY DEF Flushable, Flush, TraceRow
  <1>4. Flushable(CandidateRow)
    BY DEF Flushable, Flush, CandidateRow
  <1>5. Flushable(BindRow)
    BY DEF Flushable, Flush, BindRow
  <1> QED BY <1>1, <1>2, <1>3, <1>4, <1>5

LEMMA MergedTyped ==
  ASSUME NEW r \in CatalogRequest, catalog \in CatalogRows
  PROVE  Merged(r) \in CatalogRows /\ (r.snap = catalog => Merged(r) = r.new)
  <1>1. r.snap \in CatalogRows /\ r.new \in CatalogRows
    BY DEF CatalogRequest
  <1>2. DOMAIN catalog = {"asset", "owner", "trace", "candidate", "bind"}
    BY RowsOfCatalog
  <1>3. PICK M : M = Merged(r)
    OBVIOUS
  <1>4. M = [t \in {"asset", "owner", "trace", "candidate", "bind"} |-> FlushRows(catalog[t], r.snap[t], r.new[t])]
    BY <1>2, <1>3 DEF Merged
  <1>5. /\ FlushRows(catalog.asset, r.snap.asset, r.new.asset) \in [AssetIds -> AssetRow]
        /\ FlushRows(catalog.asset, catalog.asset, r.new.asset) = r.new.asset
    <2>1. PICK cur, snap, new \in [AssetIds -> AssetRow] : cur = catalog.asset /\ snap = r.snap.asset /\ new = r.new.asset
      BY <1>1, TablesOf
    <2>2. FlushRows(cur, snap, new) \in [AssetIds -> AssetRow] /\ FlushRows(cur, cur, new) = new
      BY <2>1, FlushedRow DEF FlushRows, Flushable
    <2> QED BY <2>1, <2>2
  <1>6. /\ FlushRows(catalog.owner, r.snap.owner, r.new.owner) \in [OwnerIds -> OwnerRow]
        /\ FlushRows(catalog.owner, catalog.owner, r.new.owner) = r.new.owner
    <2>1. PICK cur, snap, new \in [OwnerIds -> OwnerRow] : cur = catalog.owner /\ snap = r.snap.owner /\ new = r.new.owner
      BY <1>1, TablesOf
    <2>2. FlushRows(cur, snap, new) \in [OwnerIds -> OwnerRow] /\ FlushRows(cur, cur, new) = new
      BY <2>1, FlushedRow DEF FlushRows, Flushable
    <2> QED BY <2>1, <2>2
  <1>7. /\ FlushRows(catalog.trace, r.snap.trace, r.new.trace) \in [TraceIds -> TraceRow]
        /\ FlushRows(catalog.trace, catalog.trace, r.new.trace) = r.new.trace
    <2>1. PICK cur, snap, new \in [TraceIds -> TraceRow] : cur = catalog.trace /\ snap = r.snap.trace /\ new = r.new.trace
      BY <1>1, TablesOf
    <2>2. FlushRows(cur, snap, new) \in [TraceIds -> TraceRow] /\ FlushRows(cur, cur, new) = new
      BY <2>1, FlushedRow DEF FlushRows, Flushable
    <2> QED BY <2>1, <2>2
  <1>8. /\ FlushRows(catalog.candidate, r.snap.candidate, r.new.candidate) \in [CandidateIds -> CandidateRow]
        /\ FlushRows(catalog.candidate, catalog.candidate, r.new.candidate) = r.new.candidate
    <2>1. PICK cur, snap, new \in [CandidateIds -> CandidateRow] : cur = catalog.candidate /\ snap = r.snap.candidate /\ new = r.new.candidate
      BY <1>1, TablesOf
    <2>2. FlushRows(cur, snap, new) \in [CandidateIds -> CandidateRow] /\ FlushRows(cur, cur, new) = new
      BY <2>1, FlushedRow DEF FlushRows, Flushable
    <2> QED BY <2>1, <2>2
  <1>9. /\ FlushRows(catalog.bind, r.snap.bind, r.new.bind) \in [BindIds -> BindRow]
        /\ FlushRows(catalog.bind, catalog.bind, r.new.bind) = r.new.bind
    <2>1. PICK cur, snap, new \in [BindIds -> BindRow] : cur = catalog.bind /\ snap = r.snap.bind /\ new = r.new.bind
      BY <1>1, TablesOf
    <2>2. FlushRows(cur, snap, new) \in [BindIds -> BindRow] /\ FlushRows(cur, cur, new) = new
      BY <2>1, FlushedRow DEF FlushRows, Flushable
    <2> QED BY <2>1, <2>2
  <1>10. M = [asset |-> FlushRows(catalog.asset, r.snap.asset, r.new.asset),
              owner |-> FlushRows(catalog.owner, r.snap.owner, r.new.owner),
              trace |-> FlushRows(catalog.trace, r.snap.trace, r.new.trace),
              candidate |-> FlushRows(catalog.candidate, r.snap.candidate, r.new.candidate),
              bind |-> FlushRows(catalog.bind, r.snap.bind, r.new.bind)]
    BY <1>4
  <1>11. M \in CatalogRows
    BY <1>5, <1>6, <1>7, <1>8, <1>9, <1>10, RowsOfCatalog
  <1>12. ASSUME r.snap = catalog PROVE M = r.new
    <2>1. M = [asset |-> r.new.asset, owner |-> r.new.owner, trace |-> r.new.trace,
               candidate |-> r.new.candidate, bind |-> r.new.bind]
      BY <1>5, <1>6, <1>7, <1>8, <1>9, <1>10, <1>12
    <2>2. r.new = [asset |-> r.new.asset, owner |-> r.new.owner, trace |-> r.new.trace,
                   candidate |-> r.new.candidate, bind |-> r.new.bind]
      BY <1>1, RowsOfCatalog
    <2> QED BY <2>1, <2>2
  <1> QED BY <1>3, <1>11, <1>12

LEMMA CommitCatalogInv == ASSUME CatalogInv, NEW s \in CatalogSlots, CommitCatalog(s) PROVE CatalogInv'
  <1>1. PICK r \in CatalogRequest : r = catalogReq[s]
    BY DEF CatalogInv, CatalogTypeOK
  <1>2. /\ r.busy
        /\ catalog' = IF ExtTaken(Merged(r)) THEN catalog ELSE Merged(r)
        /\ catalogReq' = [catalogReq EXCEPT ![s] = NoCatalogRequest]
        /\ reports' = reports /\ catalogMixed' = catalogMixed /\ catalogByHand' = catalogByHand
    BY <1>1 DEF CommitCatalog
  <1>3. catalogReq \in [CatalogSlots -> CatalogRequest] /\ catalog \in CatalogRows
    BY DEF CatalogInv, CatalogTypeOK
  <1>4. /\ Merged(r) \in CatalogRows
        /\ ~catalogMixed => Merged(r) = r.new
    <2>1. Merged(r) \in CatalogRows /\ (r.snap = catalog => Merged(r) = r.new)
      BY <1>3, MergedTyped
    <2>2. ~catalogMixed => r.snap = catalog
      BY <1>1, <1>2 DEF CatalogInv
    <2> QED BY <2>1, <2>2
  <1>5. r.new \in Kept(~catalogMixed, catalogByHand)
    BY <1>1, <1>2 DEF CatalogInv
  <1>6. Merged(r) \in Kept(~catalogMixed, catalogByHand)
    BY <1>4, <1>5 DEF Kept
  <1>7. catalog' \in Kept(~catalogMixed, catalogByHand)
    BY <1>2, <1>6 DEF CatalogInv
  <1>8. /\ ~catalogReq'[s].busy
        /\ \A t \in CatalogSlots : t # s => catalogReq'[t] = catalogReq[t]
        /\ catalogReq' \in [CatalogSlots -> CatalogRequest]
    BY <1>2, <1>3, NoRequestTyped
  <1>9. CatalogTypeOK'
    BY <1>2, <1>7, <1>8, KeptTyped DEF CatalogInv, CatalogTypeOK
  <1>10. ASSUME NEW t \in CatalogSlots, catalogReq'[t].busy
         PROVE  catalogReq'[t].new \in Kept(~catalogMixed', catalogByHand')
    BY <1>2, <1>8, <1>10 DEF CatalogInv
  <1>11. ASSUME ~catalogMixed, NEW t \in CatalogSlots PROVE ~catalogReq'[t].busy
    BY <1>1, <1>2, <1>8, <1>11 DEF CatalogInv
  <1> QED BY <1>2, <1>7, <1>9, <1>10, <1>11 DEF CatalogInv

LEMMA CatalogStep == CatalogInv /\ [CatalogNext]_catalogVars => CatalogInv'
  <1> SUFFICES ASSUME CatalogInv, [CatalogNext]_catalogVars PROVE CatalogInv'
    OBVIOUS
  <1>1. CASE CatalogNext
    <2>1. PICK s \in CatalogSlots :
              \/ ReportPack(s) \/ OpenClawBackup(s) \/ StructuredReport(s) \/ AnalysisResult(s)
              \/ CreateAsset(s) \/ UpdateAsset(s) \/ Feedback(s)
              \/ AddOwnerByHand(s) \/ ReviewCandidate(s) \/ CommitCatalog(s)
      BY <1>1 DEF CatalogNext
    <2> QED BY <2>1, ReportPackInv, OpenClawBackupInv, StructuredReportInv, AnalysisResultInv, EditsInv,
               AddOwnerInv, CommitCatalogInv
  <1>2. CASE UNCHANGED catalogVars
    BY <1>2 DEF catalogVars, CatalogInv, CatalogTypeOK
  <1> QED BY <1>1, <1>2

LEMMA InvFindsOneRow == CatalogInv => ReportsFindOneRow
  <1> SUFFICES ASSUME CatalogInv, ~catalogMixed
               PROVE  /\ \A k \in TraceKeys : Cardinality(TracesWith(catalog, k)) <= 1
                      /\ \A i \in AssetIds, e \in RefIds : Cardinality(BindsOf(catalog, i, e)) <= 1
                      /\ catalogByHand \/ OneOwner(catalog)
    BY DEF ReportsFindOneRow, OneOwner
  <1>1. OneTrace(catalog) /\ OneBind(catalog) /\ (catalogByHand \/ OneOwner(catalog))
    BY DEF CatalogInv, Kept
  <1>2. ASSUME NEW k \in TraceKeys PROVE Cardinality(TracesWith(catalog, k)) <= 1
    <2>1. \A i, j \in TracesWith(catalog, k) : i = j
      BY <1>1 DEF OneTrace, TracesWith
    <2> QED BY <2>1, OneAtMost
  <1>3. ASSUME NEW i \in AssetIds, NEW e \in RefIds PROVE Cardinality(BindsOf(catalog, i, e)) <= 1
    <2>1. \A a, b \in BindsOf(catalog, i, e) : a = b
      BY <1>1 DEF OneBind, BindsOf
    <2> QED BY <2>1, OneAtMost
  <1> QED BY <1>1, <1>2, <1>3

\* The catalog's tables and the sessions of its requests hold what control_plane's models
\* declare, whatever mix of requests is flushed into one another.
THEOREM CatalogTypesHold == CatalogSpec => []CatalogTypeOK
  <1>1. CatalogInv => CatalogTypeOK
    BY DEF CatalogInv
  <1> QED BY <1>1, CatalogInitInv, CatalogStep, PTL DEF CatalogSpec

\* Whatever reports, backups, structured reports, analyses and edits follow one another, a
\* report sent again finds at most one trace of its key and one binding of its reference, and
\* one owner row of a user and type, which is what the lookups of these handlers
\* (scalar_one_or_none) rely on.
THEOREM LookupsFindOne == CatalogSpec => []ReportsFindOneRow
  <1> QED BY CatalogInitInv, CatalogStep, InvFindsOneRow, PTL DEF CatalogSpec

(* The tree of units: what is below one *)

ChildrenOf(units, us) == {v \in UnitsThere(units) : units[v].parent \in us}

\* A set holds whatever is below u.
Holds(units, u, P) == ChildrenOf(units, {u}) \subseteq P /\ ChildrenOf(units, P) \subseteq P

\* One more level at a time, as the function in Below.
Levels(units, u, b) == \A n \in 0 .. Cardinality(Units) :
    b[n] = IF n = 0 THEN ChildrenOf(units, {u}) ELSE b[n - 1] \cup ChildrenOf(units, b[n - 1])

LEMMA UnitsCount == IsFiniteSet(Units) /\ Cardinality(Units) \in Nat /\ Units \subseteq Nat /\ NoUnit \notin Units
  <1>1. IsFiniteSet(Units) /\ Units \subseteq Nat /\ NoUnit \notin Units
    BY OrgAssumption
  <1> QED BY <1>1, FS_CardinalityType

LEMMA LevelsExist ==
  ASSUME NEW units, NEW u
  PROVE  \E b \in [0 .. Cardinality(Units) -> SUBSET Units] : Levels(units, u, b)
  <1> DEFINE N == Cardinality(Units)
             D == 1 .. N
             V == SUBSET Units
             base == ChildrenOf(units, {u})
             f == [x \in D \X V |-> x[2] \cup ChildrenOf(units, x[2])]
  <1>1. N \in Nat /\ D \subseteq Nat /\ IsFiniteSet(D)
    BY UnitsCount, FS_Interval
  <1>2. base \in V /\ f \in [D \X V -> V]
    BY DEF ChildrenOf, UnitsThere
  <1>3. PICK it \in [SUBSET D -> V] : Folded(it, D, base, f)
    <2> HIDE DEF N, D, V, base, f
    <2> QED BY <1>1, <1>2, FoldExists
  <1> DEFINE b == [n \in 0 .. N |-> it[1 .. n]]
  <1>4. b \in [0 .. N -> V]
    BY <1>1, <1>3
  <1>5. ASSUME NEW n \in 0 .. N PROVE b[n] = IF n = 0 THEN base ELSE b[n - 1] \cup ChildrenOf(units, b[n - 1])
    <2>1. CASE n = 0
      <3>1. {} \in SUBSET D /\ 1 .. n = {}
        BY <2>1
      <3>2. it[{}] = base
        <4> HIDE DEF D, base, f
        <4> QED BY <1>3, <3>1 DEF Folded
      <3> QED BY <2>1, <3>1, <3>2
    <2>2. CASE n # 0
      <3>1. /\ n \in Nat /\ n > 0 /\ n - 1 \in 0 .. N /\ 1 .. n \in SUBSET D /\ 1 .. n # {} /\ n \in D
            /\ (1 .. n) \ {n} = 1 .. (n - 1) /\ 1 .. (n - 1) \in SUBSET D
        BY <1>1, <2>2
      <3>2. Max(1 .. n) = n
        <4>1. PICK T : T = 1 .. n
          OBVIOUS
        <4>2. IsFiniteSet(T) /\ T \subseteq Nat /\ T # {} /\ n \in T
          <5>1. IsFiniteSet(1 .. n)
            BY <3>1, FS_Interval
          <5>2. n \in 1 .. n /\ 1 .. n \subseteq Nat
            BY <3>1
          <5> QED BY <4>1, <5>1, <5>2
        <4>3. Max(T) \in T /\ n <= Max(T)
          BY <4>2, MaxIsGreatest
        <4> QED BY <3>1, <4>1, <4>3
      <3>3. it[1 .. n] = f[<<n, it[1 .. (n - 1)]>>]
        <4> HIDE DEF D, base, f
        <4> QED BY <1>3, <3>1, <3>2 DEF Folded
      <3>4. it[1 .. (n - 1)] \in V
        BY <1>3, <3>1
      <3>5. f[<<n, it[1 .. (n - 1)]>>] = it[1 .. (n - 1)] \cup ChildrenOf(units, it[1 .. (n - 1)])
        BY <3>1, <3>4
      <3>6. b[n] = it[1 .. n] /\ b[n - 1] = it[1 .. (n - 1)]
        BY <3>1
      <3> HIDE DEF b, f
      <3> QED BY <2>2, <3>3, <3>5, <3>6
    <2> QED BY <2>1, <2>2
  <1>6. Levels(units, u, b)
    <2> HIDE DEF b
    <2> QED BY <1>5 DEF Levels
  <1> QED BY <1>4, <1>6

LEMMA BelowLevels ==
  ASSUME NEW units, NEW u
  PROVE  \E b \in [0 .. Cardinality(Units) -> SUBSET Units] :
             Levels(units, u, b) /\ Below(units, u) = b[Cardinality(Units)]
  <1> DEFINE N == Cardinality(Units)
             Step(b) == [n \in 0 .. N |-> IF n = 0 THEN ChildrenOf(units, {u})
                                          ELSE b[n - 1] \cup ChildrenOf(units, b[n - 1])]
             below == CHOOSE b : b = Step(b)
  <1>1. Below(units, u) = below[N]
    BY DEF Below, ChildrenOf
  <1>2. PICK c \in [0 .. N -> SUBSET Units] : Levels(units, u, c)
    BY LevelsExist
  <1>3. c = Step(c)
    BY <1>2 DEF Levels
  <1>4. below = Step(below)
    <2> HIDE DEF Step
    <2> QED BY <1>3
  <1>5. Levels(units, u, below)
    <2>1. ASSUME NEW n \in 0 .. N
          PROVE  below[n] = IF n = 0 THEN ChildrenOf(units, {u}) ELSE below[n - 1] \cup ChildrenOf(units, below[n - 1])
      <3>1. Step(below)[n] = IF n = 0 THEN ChildrenOf(units, {u}) ELSE below[n - 1] \cup ChildrenOf(units, below[n - 1])
        <4> HIDE DEF below
        <4> QED OBVIOUS
      <3> HIDE DEF Step, below
      <3> QED BY <1>4, <3>1
    <2> HIDE DEF below
    <2> QED BY <2>1 DEF Levels
  <1>6. below \in [0 .. N -> SUBSET Units]
    <2>1. below = [n \in 0 .. N |-> below[n]]
      <3>1. DOMAIN Step(below) = 0 .. N /\ Step(below) = [n \in 0 .. N |-> Step(below)[n]]
        <4> HIDE DEF below
        <4> QED OBVIOUS
      <3> HIDE DEF Step, below
      <3> QED BY <1>4, <3>1
    <2> DEFINE Bad == {n \in 0 .. N : ~(below[n] \subseteq Units)}
    <2>2. ASSUME Bad # {} PROVE FALSE
      <3>1. Bad \subseteq 0 .. N
        OBVIOUS
      <3>2. PICK m \in Bad : \A n \in Bad : m <= n
        <4> HIDE DEF Bad
        <4> QED BY <2>2, <3>1, Lowest, UnitsCount
      <3>3. m \in 0 .. N /\ ~(below[m] \subseteq Units)
        OBVIOUS
      <3>4. m # 0 => m - 1 \in 0 .. N /\ ~(m <= m - 1)
        BY <3>3, UnitsCount
      <3>5. m # 0 => below[m - 1] \subseteq Units
        BY <3>2, <3>4
      <3> HIDE DEF below, Bad
      <3> QED BY <1>5, <3>3, <3>5 DEF Levels, ChildrenOf, UnitsThere
    <2> HIDE DEF below
    <2> QED BY <2>1, <2>2
  <1> HIDE DEF below
  <1> QED BY <1>1, <1>5, <1>6

LEMMA ChildrenAre ==
  /\ \A units, us : ChildrenOf(units, us) \subseteq UnitsThere(units) /\ UnitsThere(units) \subseteq Units
  /\ \A units, us, vs : us \subseteq vs => ChildrenOf(units, us) \subseteq ChildrenOf(units, vs)
  /\ \A units : ChildrenOf(units, {}) = {}
  BY DEF ChildrenOf, UnitsThere

\* What holds of level 0 and passes from a level to the next holds of all.
LEMMA LevelsInside ==
  ASSUME NEW units, NEW u, NEW b, Levels(units, u, b), NEW P, Holds(units, u, P)
  PROVE  \A n \in 0 .. Cardinality(Units) : b[n] \subseteq P
  <1> DEFINE N == Cardinality(Units)
             Bad == {n \in 0 .. N : ~(b[n] \subseteq P)}
  <1> SUFFICES ASSUME Bad # {} PROVE FALSE
    OBVIOUS
  <1>1. PICK m \in Bad : \A n \in Bad : m <= n
    <2>1. Bad \subseteq 0 .. N /\ N \in Nat
      BY UnitsCount
    <2> HIDE DEF Bad
    <2> QED BY <2>1, Lowest
  <1>2. m \in 0 .. N /\ ~(b[m] \subseteq P)
    OBVIOUS
  <1>3. m # 0 => m - 1 \in 0 .. N /\ ~(m <= m - 1)
    BY <1>2, UnitsCount
  <1>4. m # 0 => b[m - 1] \subseteq P
    BY <1>1, <1>3
  <1>5. m # 0 => ChildrenOf(units, b[m - 1]) \subseteq P
    BY <1>4, ChildrenAre DEF Holds
  <1> QED BY <1>2, <1>4, <1>5 DEF Levels, Holds

\* From a level that brought nothing new on, none does.
LEMMA LevelsSettle ==
  ASSUME NEW units, NEW u, NEW b, Levels(units, u, b), NEW k \in 0 .. Cardinality(Units),
         ChildrenOf(units, b[k]) \subseteq b[k]
  PROVE  \A n \in k .. Cardinality(Units) : b[n] = b[k]
  <1> DEFINE N == Cardinality(Units)
             Bad == {n \in k .. N : b[n] # b[k]}
  <1> SUFFICES ASSUME Bad # {} PROVE FALSE
    OBVIOUS
  <1>1. PICK m \in Bad : \A n \in Bad : m <= n
    <2>1. Bad \subseteq 0 .. N /\ N \in Nat
      BY UnitsCount
    <2> HIDE DEF Bad
    <2> QED BY <2>1, Lowest
  <1>2. m \in k .. N /\ b[m] # b[k]
    OBVIOUS
  <1>3. m # k /\ m # 0 /\ m \in 0 .. N /\ m - 1 \in k .. N /\ ~(m <= m - 1)
    BY <1>2, UnitsCount
  <1>4. b[m - 1] = b[k]
    BY <1>1, <1>3
  <1>5. b[m] = b[m - 1] \cup ChildrenOf(units, b[m - 1])
    BY <1>3 DEF Levels
  <1> QED BY <1>2, <1>4, <1>5

\* There are as many levels as units, so the last has brought nothing new.
LEMMA LevelsEnd ==
  ASSUME NEW units, NEW u, NEW b \in [0 .. Cardinality(Units) -> SUBSET Units], Levels(units, u, b)
  PROVE  ChildrenOf(units, b[Cardinality(Units)]) \subseteq b[Cardinality(Units)]
  <1> DEFINE N == Cardinality(Units)
  <1> SUFFICES ASSUME ~(ChildrenOf(units, b[N]) \subseteq b[N]) PROVE FALSE
    OBVIOUS
  <1>1. ASSUME NEW n \in 0 .. N PROVE ~(ChildrenOf(units, b[n]) \subseteq b[n])
    <2>1. N \in n .. N
      BY UnitsCount
    <2> QED BY <2>1, LevelsSettle
  <1>2. ASSUME NEW n \in 0 .. N PROVE IsFiniteSet(b[n]) /\ Cardinality(b[n]) \in Nat
    <2>1. b[n] \subseteq Units
      OBVIOUS
    <2> QED BY <2>1, UnitsCount, FS_Subset, FS_CardinalityType
  <1> DEFINE Bad == {n \in 0 .. N : Cardinality(b[n]) <= n}
  <1>3. Bad = {}
    <2> SUFFICES ASSUME Bad # {} PROVE FALSE
      OBVIOUS
    <2>1. PICK m \in Bad : \A n \in Bad : m <= n
      <3>1. Bad \subseteq 0 .. N /\ N \in Nat
        BY UnitsCount
      <3> HIDE DEF Bad
      <3> QED BY <3>1, Lowest
    <2>2. m \in 0 .. N /\ Cardinality(b[m]) <= m
      OBVIOUS
    <2>3. CASE m = 0
      <3>1. Cardinality(b[m]) = 0
        BY <1>2, <2>2, <2>3
      <3>2. b[m] = {}
        BY <1>2, <2>2, <3>1, FS_EmptySet
      <3> QED BY <1>1, <2>2, <3>2, ChildrenAre
    <2>4. CASE m # 0
      <3>1. m - 1 \in 0 .. N /\ ~(m <= m - 1)
        BY <2>2, <2>4, UnitsCount
      <3>2. ~(Cardinality(b[m - 1]) <= m - 1)
        BY <2>1, <3>1
      <3>3. b[m] = b[m - 1] \cup ChildrenOf(units, b[m - 1])
        BY <2>2, <2>4 DEF Levels
      <3>4. b[m - 1] \subseteq b[m] /\ b[m - 1] # b[m]
        BY <1>1, <3>1, <3>3
      <3>5. Cardinality(b[m - 1]) < Cardinality(b[m])
        <4>1. IsFiniteSet(b[m]) /\ Cardinality(b[m]) \in Nat /\ Cardinality(b[m - 1]) \in Nat
          BY <1>2, <2>2, <3>1
        <4>2. Cardinality(b[m - 1]) <= Cardinality(b[m]) /\ Cardinality(b[m]) # Cardinality(b[m - 1])
          BY <3>4, <4>1, FS_Subset
        <4> QED BY <4>1, <4>2
      <3>6. \A x, y \in Nat : ~(x <= m - 1) /\ x < y => ~(y <= m)
        BY <2>2, UnitsCount
      <3> QED BY <1>2, <2>2, <3>1, <3>2, <3>5, <3>6
    <2> QED BY <2>3, <2>4
  <1>4. N \in 0 .. N /\ b[N] \subseteq Units
    BY UnitsCount
  <1>5. Cardinality(b[N]) <= N
    BY <1>4, UnitsCount, FS_Subset
  <1> QED BY <1>3, <1>4, <1>5

\* Below is the least set that holds the children of the unit and of its members.
LEMMA BelowIs ==
  ASSUME NEW units, NEW u
  PROVE  /\ Holds(units, u, Below(units, u)) /\ Below(units, u) \subseteq UnitsThere(units)
         /\ \A P : Holds(units, u, P) => Below(units, u) \subseteq P
  <1> DEFINE N == Cardinality(Units)
  <1>1. PICK b \in [0 .. N -> SUBSET Units] : Levels(units, u, b) /\ Below(units, u) = b[N]
    BY BelowLevels
  <1>2. N \in 0 .. N /\ 0 \in 0 .. N
    BY UnitsCount
  <1>3. ChildrenOf(units, b[N]) \subseteq b[N]
    BY <1>1, LevelsEnd
  <1>4. ChildrenOf(units, {u}) \subseteq b[N]
    <2> DEFINE Bad == {n \in 0 .. N : ~(ChildrenOf(units, {u}) \subseteq b[n])}
    <2> SUFFICES ASSUME Bad # {} PROVE FALSE
      BY <1>2
    <2>1. PICK m \in Bad : \A n \in Bad : m <= n
      <3>1. Bad \subseteq 0 .. N /\ N \in Nat
        BY UnitsCount
      <3> HIDE DEF Bad
      <3> QED BY <3>1, Lowest
    <2>2. m \in 0 .. N /\ ~(ChildrenOf(units, {u}) \subseteq b[m])
      OBVIOUS
    <2>3. m # 0 => m - 1 \in 0 .. N /\ ~(m <= m - 1)
      BY <2>2, UnitsCount
    <2>4. m # 0 => ChildrenOf(units, {u}) \subseteq b[m - 1]
      BY <2>1, <2>3
    <2> HIDE DEF Bad
    <2> QED BY <1>1, <2>2, <2>4 DEF Levels
  <1>5. \A P : Holds(units, u, P) => Below(units, u) \subseteq P
    BY <1>1, <1>2, LevelsInside
  <1>6. Holds(units, u, UnitsThere(units))
    BY ChildrenAre DEF Holds
  <1> QED BY <1>1, <1>3, <1>4, <1>5, <1>6 DEF Holds

(* Paths written anew *)

Under(units, u) == {u} \cup Below(units, u)

\* The paths of T, which holds u and with a unit the one above it.
Paths(units, u, T, g) ==
    g = [v \in T |-> IF v = u THEN units[u].path ELSE Append(g[units[v].parent], units[v].name)]
Upwards(units, u, T) == u \in T /\ \A v \in T \ {u} : units[v].parent \in T

LEMMA ParentsUnder ==
  ASSUME NEW units, NEW u
  PROVE  Upwards(units, u, Under(units, u))
  <1> DEFINE B == Below(units, u)
             P == {v \in B : units[v].parent \in {u} \cup B}
  <1>1. ChildrenOf(units, {u}) \subseteq B /\ ChildrenOf(units, B) \subseteq B
    BY BelowIs DEF Holds
  <1>2. ChildrenOf(units, {u}) \subseteq P
    <2> HIDE DEF B
    <2> QED BY <1>1 DEF ChildrenOf
  <1>3. ChildrenOf(units, P) \subseteq P
    <2> HIDE DEF B
    <2> QED BY <1>1 DEF ChildrenOf
  <1>4. B \subseteq P
    <2> HIDE DEF P
    <2> QED BY <1>2, <1>3, BelowIs DEF Holds
  <1> HIDE DEF B
  <1>5. \A v \in B : units[v].parent \in {u} \cup B
    BY <1>4
  <1> USE DEF B
  <1> QED BY <1>5 DEF Upwards, Under

LEMMA PathsExist ==
  ASSUME NEW units, NEW u \in Units
  PROVE  \E g : Paths(units, u, Under(units, u), g)
  <1>1. PICK D, B : D = Under(units, u) /\ B = Below(units, u)
    OBVIOUS
  <1>2. D = {u} \cup B /\ B \subseteq Units /\ u \in D /\ D \subseteq Units
    BY <1>1, BelowIs, ChildrenAre DEF Under
  <1>3. IsFiniteSet(D)
    BY <1>2, UnitsCount, FS_Subset
  <1> DEFINE Built(R) == Upwards(units, u, D \ R) /\ \E g : Paths(units, u, D \ R, g)
             Fam == {R \in SUBSET D : Built(R)}
  <1>4. D \ {u} \in Fam
    <2>1. D \ (D \ {u}) = {u}
      BY <1>2
    <2>2. Paths(units, u, {u}, [v \in {u} |-> units[u].path]) /\ Upwards(units, u, {u})
      BY DEF Paths, Upwards
    <2> QED BY <2>1, <2>2
  <1>5. PICK R : LeastOf(R, Fam)
    <2>1. FamilyOf(Fam, D)
      BY <1>4 DEF FamilyOf
    <2> HIDE DEF Fam
    <2> QED BY <1>3, <2>1, LeastSubset
  <1>6. R \in SUBSET D /\ Built(R)
    BY <1>5 DEF LeastOf
  <1>7. PICK T, g : T = D \ R /\ Upwards(units, u, T) /\ Paths(units, u, T, g)
    BY <1>6
  <1>8. ASSUME R # {} PROVE FALSE
    <2>1. PICK v \in R : v \in B /\ units[v].parent \in T
      <3> SUFFICES ASSUME \A v \in R : ~(v \in B /\ units[v].parent \in T) PROVE FALSE
        OBVIOUS
      <3>1. u \notin R /\ u \in T
        BY <1>7 DEF Upwards
      <3>2. ChildrenOf(units, {u}) \subseteq B /\ ChildrenOf(units, B) \subseteq B
        BY <1>1, BelowIs DEF Holds
      <3>3. PICK P : P = B \ R
        OBVIOUS
      <3>4. P \subseteq T /\ P \subseteq B
        BY <1>2, <1>7, <3>3
      <3>5. \A w \in B : units[w].parent \in T => w \in P
        BY <3>3
      <3>6. ChildrenOf(units, {u}) \subseteq P
        BY <3>1, <3>2, <3>5 DEF ChildrenOf
      <3>7. ChildrenOf(units, P) \subseteq P
        BY <3>2, <3>4, <3>5 DEF ChildrenOf
      <3>8. B \subseteq P
        BY <1>1, <3>6, <3>7, BelowIs DEF Holds
      <3> QED BY <1>2, <1>6, <1>8, <3>1, <3>3, <3>8
    <2>2. v # u /\ v \notin T /\ v \in D
      BY <1>6, <1>7, <2>1 DEF Upwards
    <2>3. PICK U : U = T \cup {v}
      OBVIOUS
    <2>4. PICK h : h = [w \in U |-> IF w = v THEN Append(g[units[v].parent], units[v].name) ELSE g[w]]
      OBVIOUS
    <2>5. Upwards(units, u, U)
      BY <1>7, <2>1, <2>2, <2>3 DEF Upwards
    <2>6. \A w \in T : h[w] = g[w]
      BY <2>2, <2>3, <2>4
    <2>7. ASSUME NEW w \in U PROVE h[w] = IF w = u THEN units[u].path ELSE Append(h[units[w].parent], units[w].name)
      <3>1. CASE w = v
        BY <2>1, <2>2, <2>3, <2>4, <2>6, <3>1
      <3>2. CASE w # v
        <4>1. w \in T
          BY <2>3, <2>7, <3>2
        <4>2. g[w] = IF w = u THEN units[u].path ELSE Append(g[units[w].parent], units[w].name)
          BY <1>7, <4>1 DEF Paths
        <4>3. w # u => units[w].parent \in T
          BY <1>7, <4>1 DEF Upwards
        <4> QED BY <2>6, <4>1, <4>2, <4>3
      <3> QED BY <3>1, <3>2
    <2>8. Paths(units, u, U, h)
      BY <2>4, <2>7 DEF Paths
    <2>9. PICK S : S = R \ {v}
      OBVIOUS
    <2>10. D \ S = U /\ S \in SUBSET D
      BY <1>6, <1>7, <2>1, <2>3, <2>9
    <2>11. S \in Fam
      BY <2>5, <2>8, <2>10
    <2> HIDE DEF Fam
    <2> QED BY <1>5, <2>1, <2>9, <2>11 DEF LeastOf
  <1>9. T = D
    BY <1>7, <1>8
  <1> QED BY <1>1, <1>7, <1>9

LEMMA RefreshedIs ==
  ASSUME NEW units \in [Units -> OrgUnit], NEW u \in Units
  PROVE  \E path : /\ Paths(units, u, Under(units, u), path)
                   /\ \A v \in Under(units, u) : path[v] \in Seq(UnitNames)
                   /\ Refreshed(units, u) =
                        [v \in Units |-> IF v \in Under(units, u) THEN [units[v] EXCEPT !.path = path[v]] ELSE units[v]]
  <1> DEFINE D == Under(units, u)
             Step(p) == [v \in D |-> IF v = u THEN units[u].path ELSE Append(p[units[v].parent], units[v].name)]
             path == CHOOSE p : p = Step(p)
  <1>1. path = Step(path)
    <2>1. PICK g : g = Step(g)
      BY PathsExist DEF Paths
    <2> HIDE DEF Step
    <2> QED BY <2>1
  <1>2. Paths(units, u, D, path)
    <2> HIDE DEF path, D
    <2> QED BY <1>1 DEF Paths
  <1>3. DOMAIN path = D
    <2> HIDE DEF path, D
    <2> QED BY <1>2 DEF Paths
  <1>4. Refreshed(units, u) = [v \in Units |-> IF v \in DOMAIN path THEN [units[v] EXCEPT !.path = path[v]] ELSE units[v]]
    BY DEF Refreshed, Under
  <1> HIDE DEF path
  <1>5. ASSUME NEW v \in D PROVE path[v] \in Seq(UnitNames)
    <2>1. PICK B : B = Below(units, u)
      OBVIOUS
    <2>2. D = {u} \cup B /\ B \subseteq UnitsThere(units) /\ Holds(units, u, B)
      BY <2>1, BelowIs DEF Under
    <2>3. PICK P : P = {w \in B : path[w] \in Seq(UnitNames)}
      OBVIOUS
    <2>4. path[u] \in Seq(UnitNames)
      <3>1. path[u] = units[u].path
        BY <1>2, <2>2 DEF Paths
      <3> QED BY <3>1 DEF OrgUnit
    <2>5. ASSUME NEW w \in B, path[units[w].parent] \in Seq(UnitNames) PROVE w \in P
      <3>1. w # u => path[w] = Append(path[units[w].parent], units[w].name)
        BY <1>2, <2>2, <2>5 DEF Paths
      <3>2. units[w].name \in UnitNames
        BY <2>2, <2>5, ChildrenAre DEF OrgUnit
      <3>3. \A p \in Seq(UnitNames), n \in UnitNames : Append(p, n) \in Seq(UnitNames)
        OBVIOUS
      <3>4. path[w] \in Seq(UnitNames)
        BY <2>4, <2>5, <3>1, <3>2, <3>3
      <3> QED BY <2>3, <2>5, <3>4
    <2>6. Holds(units, u, P)
      <3>1. ChildrenOf(units, {u}) \subseteq P
        BY <2>2, <2>4, <2>5 DEF Holds, ChildrenOf
      <3>2. ChildrenOf(units, P) \subseteq P
        BY <2>2, <2>3, <2>5 DEF Holds, ChildrenOf
      <3> QED BY <3>1, <3>2 DEF Holds
    <2>7. B \subseteq P
      BY <2>1, <2>6, BelowIs
    <2> QED BY <2>2, <2>3, <2>4, <2>7
  <1> QED BY <1>2, <1>3, <1>4, <1>5

(* Trees *)

\* Every unit is below a root, and has the path of what is above it.
Tree(units) == \A u \in UnitsThere(units) :
    /\ units[u].parent \in {NoUnit} \cup UnitsThere(units)
    /\ ~Loops(units, u)
    /\ units[u].path = UnitPath(units, units[u].parent, units[u].name)

LEMMA ThereAre == \A units, v : v \in UnitsThere(units) <=> v \in Units /\ units[v].there
  BY DEF UnitsThere

LEMMA ChildIs ==
  ASSUME NEW units, NEW us, NEW v
  PROVE  v \in ChildrenOf(units, us) <=> v \in UnitsThere(units) /\ units[v].parent \in us
  BY DEF ChildrenOf

\* P takes in the children of u and those of its own members.
Takes(units, u, P) == \A v \in UnitsThere(units) : units[v].parent \in {u} \cup P => v \in P

LEMMA BelowTakes ==
  ASSUME NEW units, NEW u
  PROVE  Takes(units, u, Below(units, u))
  <1>1. Holds(units, u, Below(units, u))
    BY BelowIs
  <1> QED BY <1>1 DEF Holds, ChildrenOf, Takes

LEMMA BelowInside ==
  ASSUME NEW units, NEW u, NEW P, Takes(units, u, P)
  PROVE  Below(units, u) \subseteq P
  <1>1. Holds(units, u, P)
    BY DEF Holds, ChildrenOf, Takes
  <1> QED BY <1>1, BelowIs

LEMMA BelowBelow ==
  ASSUME NEW units, NEW u, NEW w \in Below(units, u)
  PROVE  Below(units, w) \subseteq Below(units, u)
  <1>1. Takes(units, w, Below(units, u))
    BY BelowTakes DEF Takes
  <1> QED BY <1>1, BelowInside

LEMMA SameBelow ==
  ASSUME NEW units, NEW units2, NEW u,
         \A v \in Units : units2[v].there = units[v].there /\ units2[v].parent = units[v].parent
  PROVE  Below(units2, u) = Below(units, u)
  <1>1. /\ \A v : v \in UnitsThere(units) <=> v \in UnitsThere(units2)
        /\ \A v \in UnitsThere(units) : units2[v].parent = units[v].parent
    BY ThereAre
  <1>2. Below(units2, u) \subseteq Below(units, u)
    <2>1. Takes(units2, u, Below(units, u))
      BY <1>1, BelowTakes DEF Takes
    <2> QED BY <2>1, BelowInside
  <1>3. Below(units, u) \subseteq Below(units2, u)
    <2>1. Takes(units, u, Below(units2, u))
      BY <1>1, BelowTakes DEF Takes
    <2> QED BY <2>1, BelowInside
  <1> QED BY <1>2, <1>3

\* A unit that is made is a leaf.
LEMMA CreatedTree ==
  ASSUME NEW units \in [Units -> OrgUnit], Tree(units), NEW u \in Units, ~units[u].there,
         NEW parent \in {NoUnit} \cup UnitsThere(units), NEW name, NEW code, NEW new,
         new = [units EXCEPT ![u] = [there |-> TRUE, parent |-> parent, name |-> name, code |-> code,
                                     path |-> UnitPath(units, parent, name)]]
  PROVE  Tree(new)
  <1>1. /\ u \in UnitsThere(new) /\ new[u].parent = parent /\ new[u].name = name
        /\ new[u].path = UnitPath(units, parent, name)
        /\ \A v \in Units : v # u => new[v] = units[v]
    BY DEF UnitsThere
  <1>2. /\ \A v : v \in UnitsThere(new) <=> v = u \/ v \in UnitsThere(units)
        /\ u \notin UnitsThere(units) /\ u # NoUnit /\ parent # u
    BY <1>1, UnitsCount, ThereAre
  <1>3. \A v \in UnitsThere(new) : new[v].parent \in {NoUnit} \cup UnitsThere(units)
    <2>1. ASSUME NEW v \in UnitsThere(new), v # u PROVE new[v].parent \in {NoUnit} \cup UnitsThere(units)
      <3>1. v \in UnitsThere(units) /\ new[v] = units[v]
        BY <1>1, <1>2, <2>1, ThereAre
      <3> QED BY <3>1 DEF Tree
    <2> QED BY <1>1, <2>1
  <1>4. \A v \in UnitsThere(new) : new[v].parent # u
    BY <1>2, <1>3
  <1>5. ASSUME NEW w \in UnitsThere(new) PROVE ~Loops(new, w)
    <2>1. CASE w = u
      <3>1. Takes(new, u, {})
        BY <1>4 DEF Takes
      <3>2. Below(new, u) \subseteq {}
        BY <3>1, BelowInside
      <3> QED BY <2>1, <3>2 DEF Loops
    <2>2. CASE w # u
      <3>0. PICK P : P = Below(units, w) \cup {u}
        OBVIOUS
      <3>1. Takes(new, w, P)
        <4>1. ASSUME NEW v \in UnitsThere(new), new[v].parent \in {w} \cup P, v # u
              PROVE  v \in Below(units, w)
          <5>1. v \in UnitsThere(units) /\ units[v].parent = new[v].parent
            BY <1>1, <1>2, <4>1, ThereAre
          <5>2. units[v].parent \in {w} \cup Below(units, w)
            <6>1. PICK q : q = new[v].parent
              OBVIOUS
            <6>2. q # u /\ q \in {w} \cup P
              BY <1>4, <4>1, <6>1
            <6> QED BY <3>0, <5>1, <6>1, <6>2
          <5>3. Takes(units, w, Below(units, w))
            BY BelowTakes
          <5> QED BY <5>1, <5>2, <5>3 DEF Takes
        <4> QED BY <3>0, <4>1 DEF Takes
      <3>2. Below(new, w) \subseteq P
        BY <3>1, BelowInside
      <3>3. w \in UnitsThere(units)
        BY <1>2, <2>2
      <3> QED BY <2>2, <3>0, <3>2, <3>3 DEF Loops, Tree
    <2> QED BY <2>1, <2>2
  <1>6. ASSUME NEW w \in UnitsThere(new) PROVE new[w].path = UnitPath(new, new[w].parent, new[w].name)
    <2>1. \A p \in {NoUnit} \cup UnitsThere(units) : \A n : UnitPath(new, p, n) = UnitPath(units, p, n)
      BY <1>1, <1>2, ThereAre DEF UnitPath
    <2>2. CASE w = u
      BY <1>1, <2>1, <2>2
    <2>3. CASE w # u
      <3>1. w \in UnitsThere(units) /\ new[w] = units[w]
        BY <1>1, <1>2, <2>3, ThereAre
      <3>2. units[w].parent \in {NoUnit} \cup UnitsThere(units) /\ units[w].path = UnitPath(units, units[w].parent, units[w].name)
        BY <3>1 DEF Tree
      <3>3. UnitPath(new, units[w].parent, units[w].name) = UnitPath(units, units[w].parent, units[w].name)
        BY <2>1, <3>2
      <3> QED BY <3>1, <3>2, <3>3
    <2> QED BY <2>2, <2>3
  <1> QED BY <1>2, <1>3, <1>5, <1>6 DEF Tree

\* A unit that is moved, and is not put below itself, puts no other below itself.
LEMMA MovedLoops ==
  ASSUME NEW units, Tree(units), NEW u \in UnitsThere(units), NEW named, ~Loops(named, u),
         \A v \in Units : named[v].there = units[v].there /\ (v # u => named[v].parent = units[v].parent)
  PROVE  \A w \in UnitsThere(named) : ~Loops(named, w)
  <1>1. /\ \A v : v \in UnitsThere(units) <=> v \in UnitsThere(named)
        /\ \A v \in UnitsThere(units) : v # u => named[v].parent = units[v].parent
    BY ThereAre
  <1> SUFFICES ASSUME NEW w \in UnitsThere(named), w # u, w \in Below(named, w) PROVE FALSE
    BY DEF Loops
  <1>2. PICK B, Bu, Old : B = Below(named, w) /\ Bu = Below(named, u) /\ Old = Below(units, w)
    OBVIOUS
  <1>3. w \notin Old /\ u \notin Bu /\ w \in B
    BY <1>1, <1>2 DEF Tree, Loops
  <1>4. Takes(named, w, B) /\ Takes(named, u, Bu) /\ Takes(units, w, Old)
    BY <1>2, BelowTakes
  <1>5. w \in Bu
    <2>1. PICK P : P = Old \cup ({u} \cup Bu)
      OBVIOUS
    <2>2. ASSUME NEW v \in UnitsThere(named), named[v].parent \in {w} \cup P, v # u PROVE v \in P
      <3>1. PICK q : q = named[v].parent
        OBVIOUS
      <3>2. v \in UnitsThere(units) /\ units[v].parent = q
        BY <1>1, <2>2, <3>1
      <3>3. CASE q \in {w} \cup Old
        BY <1>4, <2>1, <3>2, <3>3 DEF Takes
      <3>4. CASE q \in {u} \cup Bu
        BY <1>4, <2>1, <2>2, <3>1, <3>4 DEF Takes
      <3> QED BY <2>1, <2>2, <3>1, <3>3, <3>4
    <2>3. Takes(named, w, P)
      BY <2>1, <2>2 DEF Takes
    <2>4. B \subseteq P
      BY <1>2, <2>3, BelowInside
    <2> QED BY <1>3, <2>1, <2>4
  <1>6. u \in B
    <2> SUFFICES ASSUME u \notin B PROVE FALSE
      OBVIOUS
    <2>1. PICK P : P = B \cap Old
      OBVIOUS
    <2>2. ASSUME NEW v \in UnitsThere(named), named[v].parent \in {w} \cup P PROVE v \in P
      <3>1. v \in B
        BY <1>4, <2>1, <2>2 DEF Takes
      <3>2. v # u /\ v \in UnitsThere(units)
        BY <1>1, <2>2, <3>1
      <3>3. units[v].parent = named[v].parent
        BY <1>1, <3>2
      <3>4. v \in Old
        BY <1>4, <2>1, <2>2, <3>2, <3>3 DEF Takes
      <3> QED BY <2>1, <3>1, <3>4
    <2>3. Takes(named, w, P)
      BY <2>2 DEF Takes
    <2>4. B \subseteq P
      BY <1>2, <2>3, BelowInside
    <2> QED BY <1>3, <2>1, <2>4
  <1>7. B \subseteq Bu
    BY <1>2, <1>5, BelowBelow
  <1> QED BY <1>3, <1>6, <1>7

LEMMA RefreshedTyped ==
  ASSUME NEW units \in [Units -> OrgUnit], NEW u \in Units
  PROVE  /\ Refreshed(units, u) \in [Units -> OrgUnit]
         /\ \A v \in Units : /\ Refreshed(units, u)[v].there = units[v].there
                             /\ Refreshed(units, u)[v].parent = units[v].parent
                             /\ Refreshed(units, u)[v].name = units[v].name
                             /\ v \notin Under(units, u) => Refreshed(units, u)[v].path = units[v].path
         /\ Refreshed(units, u)[u].path = units[u].path
         /\ \A v \in Below(units, u) \ {u} :
                /\ v \in Units /\ units[v].parent \in Under(units, u)
                /\ Refreshed(units, u)[v].path = Append(Refreshed(units, u)[units[v].parent].path, units[v].name)
  <1>1. PICK path : /\ Paths(units, u, Under(units, u), path)
                    /\ \A v \in Under(units, u) : path[v] \in Seq(UnitNames)
                    /\ Refreshed(units, u) =
                         [v \in Units |-> IF v \in Under(units, u) THEN [units[v] EXCEPT !.path = path[v]] ELSE units[v]]
    BY RefreshedIs
  <1>2. PICK D, new : D = Under(units, u) /\ new = Refreshed(units, u)
    OBVIOUS
  <1>3. /\ new = [v \in Units |-> IF v \in D THEN [units[v] EXCEPT !.path = path[v]] ELSE units[v]]
        /\ \A v \in D : path[v] \in Seq(UnitNames)
    BY <1>1, <1>2
  <1>4. u \in D /\ D \subseteq Units /\ Below(units, u) \subseteq D
    BY <1>2, BelowIs, ChildrenAre DEF Under
  <1>5. \A row \in OrgUnit, p \in Seq(UnitNames) :
            /\ [row EXCEPT !.path = p] \in OrgUnit
            /\ [row EXCEPT !.path = p].there = row.there /\ [row EXCEPT !.path = p].parent = row.parent
            /\ [row EXCEPT !.path = p].name = row.name /\ [row EXCEPT !.path = p].path = p
    BY DEF OrgUnit
  <1>6. \A v \in D : /\ new[v] = [units[v] EXCEPT !.path = path[v]] /\ new[v] \in OrgUnit
                     /\ new[v].there = units[v].there /\ new[v].parent = units[v].parent
                     /\ new[v].name = units[v].name /\ new[v].path = path[v]
    BY <1>3, <1>4, <1>5
  <1>7. \A v \in Units \ D : new[v] = units[v]
    BY <1>3
  <1>8. new \in [Units -> OrgUnit]
    <2>1. \A v \in Units : new[v] \in OrgUnit
      BY <1>6, <1>7
    <2> QED BY <1>3, <2>1
  <1>9. new[u].path = units[u].path
    <2>1. path[u] = units[u].path
      BY <1>1, <1>2, <1>4 DEF Paths
    <2> QED BY <1>4, <1>6, <2>1
  <1>10. ASSUME NEW v \in Below(units, u), v # u
         PROVE  v \in Units /\ units[v].parent \in D /\ new[v].path = Append(new[units[v].parent].path, units[v].name)
    <2>1. v \in D /\ units[v].parent \in D
      BY <1>2, <1>4, <1>10, ParentsUnder DEF Upwards
    <2>2. path[v] = Append(path[units[v].parent], units[v].name)
      BY <1>1, <1>2, <1>10, <2>1 DEF Paths
    <2> QED BY <1>4, <1>6, <2>1, <2>2
  <1> QED BY <1>2, <1>6, <1>7, <1>8, <1>9, <1>10

\* A unit that is renamed or moved takes what is below it along.
LEMMA MovedTree ==
  ASSUME NEW units \in [Units -> OrgUnit], Tree(units), NEW u \in UnitsThere(units),
         NEW named \in [Units -> OrgUnit], ~Loops(named, u), \A v \in Units : v # u => named[v] = units[v],
         named[u].there, named[u].parent \in {NoUnit} \cup UnitsThere(units),
         named[u].path = UnitPath(units, named[u].parent, named[u].name)
  PROVE  Tree(Refreshed(named, u))
  <1>1. PICK new, D, B : new = Refreshed(named, u) /\ D = Under(named, u) /\ B = Below(named, u)
    OBVIOUS
  <1>2. u \in Units /\ D = {u} \cup B /\ B \subseteq UnitsThere(named) /\ u \notin B /\ NoUnit \notin Units
    BY <1>1, ThereAre, BelowIs, UnitsCount DEF Under, Loops
  <1>3. \A v \in Units : /\ new[v].there = named[v].there /\ new[v].parent = named[v].parent
                         /\ new[v].name = named[v].name
                         /\ v \notin D => new[v].path = named[v].path
    <2>1. \A v \in Units : /\ Refreshed(named, u)[v].there = named[v].there
                           /\ Refreshed(named, u)[v].parent = named[v].parent
                           /\ Refreshed(named, u)[v].name = named[v].name
                           /\ v \notin Under(named, u) => Refreshed(named, u)[v].path = named[v].path
      BY <1>2, RefreshedTyped
    <2> QED BY <1>1, <2>1
  <1>10. new[u].path = named[u].path
    <2>1. Refreshed(named, u)[u].path = named[u].path
      BY <1>2, RefreshedTyped
    <2> QED BY <1>1, <2>1
  <1>11. \A v \in B : /\ v \in Units /\ named[v].parent \in D
                     /\ new[v].path = Append(new[named[v].parent].path, named[v].name)
    <2>1. \A v \in Below(named, u) \ {u} :
              /\ v \in Units /\ named[v].parent \in Under(named, u)
              /\ Refreshed(named, u)[v].path = Append(Refreshed(named, u)[named[v].parent].path, named[v].name)
      BY <1>2, RefreshedTyped
    <2>2. Below(named, u) \ {u} = B
      BY <1>1, <1>2
    <2> QED BY <1>1, <2>1, <2>2
  <1>4. /\ \A v : v \in UnitsThere(new) <=> v \in UnitsThere(units)
        /\ \A v : v \in UnitsThere(named) <=> v \in UnitsThere(units)
    BY <1>2, <1>3, ThereAre
  <1>5. ASSUME NEW w \in UnitsThere(new) PROVE ~Loops(new, w)
    <2>1. Below(new, w) = Below(named, w)
      BY <1>3, SameBelow
    <2>2. \A v \in Units : named[v].there = units[v].there /\ (v # u => named[v].parent = units[v].parent)
      <3>1. units[u].there = TRUE /\ named[u].there = TRUE
        <4>1. units[u].there /\ units[u] \in OrgUnit /\ named[u].there /\ named[u] \in OrgUnit
          BY <1>2, ThereAre
        <4> QED BY <4>1 DEF OrgUnit
      <3>2. \A v \in Units : v # u => named[v] = units[v]
        OBVIOUS
      <3> QED BY <3>1, <3>2
    <2>3. \A x \in UnitsThere(named) : ~Loops(named, x)
      BY <2>2, MovedLoops
    <2> QED BY <1>4, <2>1, <2>3 DEF Loops
  <1>6. ASSUME NEW w \in UnitsThere(new) PROVE new[w].parent \in {NoUnit} \cup UnitsThere(new)
    <2>1. w \in Units /\ new[w].parent = named[w].parent /\ w \in UnitsThere(units)
      BY <1>3, <1>4, ThereAre
    <2>2. w # u => units[w].parent \in {NoUnit} \cup UnitsThere(units)
      BY <2>1 DEF Tree
    <2> QED BY <1>4, <2>1, <2>2
  <1>7. Takes(named, u, B)
    BY <1>1, BelowTakes
  <1>8. ASSUME NEW w \in UnitsThere(new) PROVE new[w].path = UnitPath(new, new[w].parent, new[w].name)
    <2>1. /\ w \in Units /\ w \in UnitsThere(named) /\ w \in UnitsThere(units)
          /\ new[w].parent = named[w].parent /\ new[w].name = named[w].name
      BY <1>3, <1>4, ThereAre
    <2>2. PICK q : q = named[w].parent
      OBVIOUS
    <2>3. CASE w \in B
      <3>1. q \in D /\ q # NoUnit /\ new[w].path = Append(new[q].path, named[w].name)
        <4>1. D \subseteq Units
          BY <1>2, ThereAre
        <4> QED BY <1>2, <1>11, <2>2, <2>3, <4>1
      <3> QED BY <2>1, <2>2, <3>1 DEF UnitPath
    <2>4. CASE w \notin B
      <3>1. q \notin D
        BY <1>2, <1>7, <2>1, <2>2, <2>4 DEF Takes
      <3>2. q # NoUnit => q \in Units /\ q # u /\ new[q].path = units[q].path
        <4>1. q \in {NoUnit} \cup UnitsThere(new)
          BY <1>6, <2>1, <2>2
        <4>2. q # NoUnit => q \in Units
          BY <4>1, ThereAre
        <4> QED BY <1>2, <1>3, <3>1, <4>2
      <3>3. UnitPath(new, q, named[w].name) = UnitPath(units, q, named[w].name)
        BY <3>2 DEF UnitPath
      <3>4. new[w].path = UnitPath(units, q, named[w].name)
        <4>1. CASE w = u
          BY <1>10, <2>2, <4>1
        <4>2. CASE w # u
          <5>1. w \notin D /\ named[w] = units[w]
            BY <1>2, <2>1, <2>4, <4>2
          <5>2. units[w].path = UnitPath(units, units[w].parent, units[w].name)
            BY <2>1 DEF Tree
          <5> QED BY <1>3, <2>1, <2>2, <5>1, <5>2
        <4> QED BY <4>1, <4>2
      <3> QED BY <2>1, <2>2, <3>3, <3>4
    <2> QED BY <2>3, <2>4
  <1>9. Tree(new)
    BY <1>5, <1>6, <1>8 DEF Tree
  <1> QED BY <1>1, <1>9

(* Requests to the directory *)

OnePrimary(affs) == \A p \in Members, u, v \in Units :
    affs[<<p, u>>].primary /\ affs[<<p, v>>].primary => u = v
Directory(units, affs) == Tree(units) /\ OnePrimary(affs)

\* A request that is served alone has read what it will find, and leaves a directory.
Undisturbed(s) == /\ orgReq[s].unit = unit /\ orgReq[s].aff = affiliation
                  /\ Directory(orgReq[s].unit2, orgReq[s].aff2)

OrgInv ==
    /\ OrgTypeOK
    /\ orgReq = [s \in OrgSlots |-> orgReq[s]]
    /\ ~orgMixed =>
          /\ Directory(unit, affiliation)
          /\ \A s \in OrgSlots : orgReq[s].busy =>
                Undisturbed(s) /\ \A t \in OrgSlots : orgReq[t].busy => t = s

LEMMA PathTyped ==
  ASSUME NEW units \in [Units -> OrgUnit], NEW p \in {NoUnit} \cup Units, NEW n \in UnitNames
  PROVE  UnitPath(units, p, n) \in Seq(UnitNames)
  <1>1. PICK q : q = IF p = NoUnit THEN <<>> ELSE units[p].path
    OBVIOUS
  <1>2. q \in Seq(UnitNames)
    <2>1. CASE p = NoUnit
      BY <1>1, <2>1
    <2>2. CASE p # NoUnit
      BY <1>1, <2>2 DEF OrgUnit
    <2> QED BY <2>1, <2>2
  <1>3. \A s \in Seq(UnitNames), m \in UnitNames : Append(s, m) \in Seq(UnitNames)
    OBVIOUS
  <1> QED BY <1>1, <1>2, <1>3 DEF UnitPath

LEMMA OrgInitInv == OrgInit => OrgInv
  <1> SUFFICES ASSUME OrgInit PROVE OrgInv
    OBVIOUS
  <1>1. PICK n : n = CHOOSE x \in UnitNames : TRUE
    OBVIOUS
  <1>2. n \in UnitNames
    BY <1>1, OrgAssumption
  <1>3. unit = [u \in Units |-> [there |-> FALSE, parent |-> NoUnit, name |-> n, code |-> NoCode, path |-> <<>>]]
    BY <1>1 DEF OrgInit
  <1>4. <<>> \in Seq(UnitNames)
    OBVIOUS
  <1>5. unit \in [Units -> OrgUnit] /\ UnitsThere(unit) = {}
    BY <1>2, <1>3, <1>4 DEF OrgUnit, UnitsThere
  <1>6. /\ affiliation \in [Members \X Units -> Affiliation]
        /\ \A a \in Members \X Units : ~affiliation[a].primary
    BY DEF OrgInit, NotAffiliated, Affiliation
  <1>7. profile \in [Members -> Profile]
    BY DEF OrgInit, Profile
  <1>8. /\ orgReq = [s \in OrgSlots |-> orgReq[s]]
        /\ \A s \in OrgSlots : orgReq[s] = NoOrgRequest /\ ~orgReq[s].busy
    BY DEF OrgInit, NoOrgRequest
  <1>9. Directory(unit, affiliation)
    BY <1>5, <1>6 DEF Directory, Tree, OnePrimary
  <1>10. orgMixed \in BOOLEAN
    BY DEF OrgInit
  <1> QED BY <1>5, <1>6, <1>7, <1>8, <1>9, <1>10 DEF OrgInv, OrgTypeOK

LEMMA OrgServed ==
  ASSUME OrgInv, NEW s \in OrgSlots, NEW units \in [Units -> OrgUnit],
         NEW affs \in [Members \X Units -> Affiliation], NEW profs \in [Members -> Profile],
         Directory(unit, affiliation) => Directory(units, affs), ServeOrg(s, units, affs, profs)
  PROVE  OrgInv'
  <1>1. PICK r : r = [busy |-> TRUE, unit |-> unit, aff |-> affiliation, prof |-> profile,
                      unit2 |-> units, aff2 |-> affs, prof2 |-> profs]
    OBVIOUS
  <1>2. /\ ~orgReq[s].busy /\ orgReq' = [orgReq EXCEPT ![s] = r]
        /\ orgMixed' = (orgMixed \/ \E t \in OrgSlots : orgReq[t].busy)
        /\ unit' = unit /\ affiliation' = affiliation /\ profile' = profile
    BY <1>1 DEF ServeOrg
  <1>3. /\ orgReq'[s] = r /\ \A t \in OrgSlots : t # s => orgReq'[t] = orgReq[t]
        /\ orgReq' = [t \in OrgSlots |-> orgReq'[t]]
    BY <1>2 DEF OrgInv
  <1>4. r.busy /\ r.unit2 = units /\ r.aff2 = affs /\ r.prof2 = profs /\ r.unit = unit /\ r.aff = affiliation
    BY <1>1
  <1>5. OrgTypeOK'
    <2>1. \A t \in OrgSlots : orgReq'[t] = NoOrgRequest \/
             /\ orgReq'[t].unit2 \in [Units -> OrgUnit]
             /\ orgReq'[t].aff2 \in [Members \X Units -> Affiliation]
             /\ orgReq'[t].prof2 \in [Members -> Profile]
      BY <1>3, <1>4 DEF OrgInv, OrgTypeOK
    <2>2. orgMixed' \in BOOLEAN
      BY <1>2 DEF OrgInv, OrgTypeOK
    <2> QED BY <1>2, <2>1, <2>2 DEF OrgInv, OrgTypeOK
  <1>6. ASSUME ~orgMixed'
        PROVE  /\ Directory(unit', affiliation')
               /\ \A t \in OrgSlots : orgReq'[t].busy =>
                     Undisturbed(t)' /\ \A q \in OrgSlots : orgReq'[q].busy => q = t
    <2>1. ~orgMixed /\ \A t \in OrgSlots : ~orgReq[t].busy
      BY <1>2, <1>6 DEF OrgInv, OrgTypeOK
    <2>2. Directory(unit, affiliation)
      BY <2>1 DEF OrgInv
    <2>3. \A t \in OrgSlots : orgReq'[t].busy => t = s
      BY <1>3, <2>1
    <2>4. Directory(r.unit2, r.aff2)
      BY <1>4, <2>2
    <2>5. Undisturbed(s)'
      BY <1>2, <1>3, <1>4, <2>4 DEF Undisturbed
    <2> QED BY <1>2, <1>3, <2>2, <2>3, <2>5
  <1> QED BY <1>3, <1>5, <1>6 DEF OrgInv

LEMMA OrgTypes ==
  ASSUME OrgInv
  PROVE  unit \in [Units -> OrgUnit] /\ affiliation \in [Members \X Units -> Affiliation]
         /\ profile \in [Members -> Profile] /\ orgMixed \in BOOLEAN
  BY DEF OrgInv, OrgTypeOK

LEMMA CreateUnitInv ==
  ASSUME OrgInv, NEW s \in OrgSlots, NEW u \in Units, NEW parent \in {NoUnit} \cup Units, NEW name \in UnitNames,
         NEW code \in {NoCode} \cup UnitCodes, CreateUnit(s, u, parent, name, code)
  PROVE  OrgInv'
  <1>1. PICK p : p = UnitPath(unit, parent, name)
    OBVIOUS
  <1>2. PICK new : new = [unit EXCEPT ![u] = [there |-> TRUE, parent |-> parent, name |-> name, code |-> code,
                                              path |-> p]]
    OBVIOUS
  <1>3. /\ ~unit[u].there /\ parent \in {NoUnit} \cup UnitsThere(unit)
        /\ ServeOrg(s, new, affiliation, profile)
    BY <1>1, <1>2 DEF CreateUnit
  <1>4. p \in Seq(UnitNames)
    BY <1>1, OrgTypes, PathTyped
  <1>5. new \in [Units -> OrgUnit]
    BY <1>2, <1>4, OrgTypes DEF OrgUnit
  <1>6. Tree(unit) => Tree(new)
    BY <1>1, <1>2, <1>3, OrgTypes, CreatedTree
  <1>7. Directory(unit, affiliation) => Directory(new, affiliation)
    BY <1>6 DEF Directory
  <1> QED BY <1>3, <1>5, <1>7, OrgTypes, OrgServed

LEMMA UpdateUnitInv ==
  ASSUME OrgInv, NEW s \in OrgSlots, NEW u \in Units, NEW parent \in {NoUnit} \cup Units, NEW name \in UnitNames,
         NEW code \in {NoCode} \cup UnitCodes, UpdateUnit(s, u, parent, name, code)
  PROVE  OrgInv'
  <1>1. PICK placed : placed = [unit EXCEPT ![u].parent = IF parent = NoUnit THEN @ ELSE parent,
                                            ![u].name = name, ![u].code = IF code = NoCode THEN @ ELSE code]
    OBVIOUS
  <1>2. PICK p : p = UnitPath(placed, placed[u].parent, name)
    OBVIOUS
  <1>3. PICK named : named = [placed EXCEPT ![u].path = p]
    OBVIOUS
  <1>4. /\ u \in UnitsThere(unit) /\ parent \in {NoUnit} \cup UnitsThere(unit) /\ ~Loops(named, u)
        /\ ServeOrg(s, Refreshed(named, u), affiliation, profile)
    BY <1>1, <1>2, <1>3 DEF UpdateUnit
  <1>5. PICK row \in OrgUnit : row = unit[u]
    BY OrgTypes
  <1>6. PICK par, cod : /\ par = IF parent = NoUnit THEN row.parent ELSE parent
                        /\ cod = IF code = NoCode THEN row.code ELSE code
    OBVIOUS
  <1>7. par \in {NoUnit} \cup Units /\ cod \in {NoCode} \cup UnitCodes /\ row.there = TRUE
    <2>1. row.there
      BY <1>4, <1>5, ThereAre
    <2> QED BY <1>6, <2>1 DEF OrgUnit
  <1>8. /\ placed[u] = [row EXCEPT !.parent = par, !.name = name, !.code = cod]
        /\ \A v \in Units : v # u => placed[v] = unit[v]
        /\ placed = [v \in Units |-> placed[v]]
    BY <1>1, <1>5, <1>6, OrgTypes
  <1>9. /\ placed[u] \in OrgUnit /\ placed[u].parent = par /\ placed[u].name = name
        /\ placed[u].path = row.path /\ placed[u].there = TRUE
    BY <1>7, <1>8 DEF OrgUnit
  <1>10. placed \in [Units -> OrgUnit]
    BY <1>8, <1>9, OrgTypes
  <1>11. p \in Seq(UnitNames)
    BY <1>2, <1>7, <1>9, <1>10, PathTyped
  <1>12. /\ named \in [Units -> OrgUnit] /\ \A v \in Units : v # u => named[v] = unit[v]
         /\ named[u].there = TRUE /\ named[u].parent = par /\ named[u].name = name /\ named[u].path = p
    <2>1. PICK last : last = [placed[u] EXCEPT !.path = p]
      OBVIOUS
    <2>2. last \in OrgUnit /\ last.there = TRUE /\ last.parent = par /\ last.name = name /\ last.path = p
      BY <1>9, <1>11, <2>1 DEF OrgUnit
    <2>3. named = [placed EXCEPT ![u] = last]
      BY <1>3, <2>1
    <2> QED BY <1>8, <1>10, <2>2, <2>3
  <1>13. p = UnitPath(unit, par, name)
    <2>1. \A v \in Units : placed[v].path = unit[v].path
      BY <1>5, <1>8, <1>9
    <2> QED BY <1>2, <1>7, <1>9, <2>1 DEF UnitPath
  <1>14. Refreshed(named, u) \in [Units -> OrgUnit]
    BY <1>12, RefreshedTyped
  <1>15. ASSUME Tree(unit) PROVE Tree(Refreshed(named, u))
    <2>1. par \in {NoUnit} \cup UnitsThere(unit)
      <3>1. row.parent \in {NoUnit} \cup UnitsThere(unit)
        BY <1>4, <1>5, <1>15 DEF Tree
      <3> QED BY <1>4, <1>6, <3>1
    <2> QED BY <1>4, <1>12, <1>13, <1>15, <2>1, OrgTypes, MovedTree
  <1>16. Directory(unit, affiliation) => Directory(Refreshed(named, u), affiliation)
    BY <1>15 DEF Directory
  <1> QED BY <1>4, <1>14, <1>16, OrgTypes, OrgServed

\* Whoever becomes primary takes that from the other units of the user.
LEMMA AffiliationInv ==
  ASSUME OrgInv, NEW s \in OrgSlots, NEW p \in Members, NEW u \in Units, NEW primary \in BOOLEAN,
         AddAffiliation(s, p, u, primary) \/ UpdateAffiliation(s, p, u, primary)
  PROVE  OrgInv'
  <1>1. PICK new : new = WithAffiliation(p, u, primary)
    OBVIOUS
  <1>2. ServeOrg(s, unit, new, profile)
    BY <1>1 DEF AddAffiliation, UpdateAffiliation
  <1>3. new = [a \in Members \X Units |->
                  IF a = <<p, u>> THEN [there |-> TRUE, primary |-> primary]
                  ELSE IF a[1] = p /\ primary THEN [affiliation[a] EXCEPT !.primary = FALSE] ELSE affiliation[a]]
    BY <1>1 DEF WithAffiliation
  <1>4. \A row \in Affiliation : [row EXCEPT !.primary = FALSE] \in Affiliation /\ [row EXCEPT !.primary = FALSE].primary = FALSE
    BY DEF Affiliation
  <1>5. [there |-> TRUE, primary |-> primary] \in Affiliation
    BY DEF Affiliation
  <1>6. new \in [Members \X Units -> Affiliation]
    BY <1>3, <1>4, <1>5, OrgTypes
  <1>7. ASSUME NEW q \in Members, NEW v \in Units
        PROVE  /\ q # p => new[<<q, v>>] = affiliation[<<q, v>>]
               /\ q = p /\ v = u => new[<<q, v>>].primary = primary
               /\ q = p /\ v # u => IF primary THEN ~new[<<q, v>>].primary ELSE new[<<q, v>>] = affiliation[<<q, v>>]
    <2>1. <<q, v>> \in Members \X Units /\ <<q, v>>[1] = q /\ (<<q, v>> = <<p, u>> <=> q = p /\ v = u)
      OBVIOUS
    <2>2. new[<<q, v>>] = IF q = p /\ v = u THEN [there |-> TRUE, primary |-> primary]
                          ELSE IF q = p /\ primary THEN [affiliation[<<q, v>>] EXCEPT !.primary = FALSE]
                          ELSE affiliation[<<q, v>>]
      BY <1>3, <2>1
    <2>3. affiliation[<<q, v>>] \in Affiliation
      BY <2>1, OrgTypes
    <2>4. q # p => new[<<q, v>>] = affiliation[<<q, v>>]
      BY <2>2
    <2>5. q = p /\ v = u => new[<<q, v>>].primary = primary
      BY <2>2
    <2>6. q = p /\ v # u /\ primary => new[<<q, v>>].primary = FALSE
      BY <1>4, <2>2, <2>3
    <2>7. q = p /\ v # u /\ ~primary => new[<<q, v>>] = affiliation[<<q, v>>]
      BY <2>2
    <2> QED BY <2>4, <2>5, <2>6, <2>7
  <1>8. ASSUME OnePrimary(affiliation) PROVE OnePrimary(new)
    <2> SUFFICES ASSUME NEW q \in Members, NEW v \in Units, NEW w \in Units, v # w
                 PROVE  ~(new[<<q, v>>].primary /\ new[<<q, w>>].primary)
      BY DEF OnePrimary
    <2>1. ~(affiliation[<<q, v>>].primary /\ affiliation[<<q, w>>].primary)
      BY <1>8 DEF OnePrimary
    <2>2. CASE q # p
      BY <1>7, <2>1, <2>2
    <2>3. CASE q = p /\ primary
      BY <1>7, <2>3
    <2>4. CASE q = p /\ ~primary
      <3>1. v = u => ~new[<<q, v>>].primary
        BY <1>7, <2>4
      <3>2. w = u => ~new[<<q, w>>].primary
        BY <1>7, <2>4
      <3>3. v # u /\ w # u => new[<<q, v>>] = affiliation[<<q, v>>] /\ new[<<q, w>>] = affiliation[<<q, w>>]
        BY <1>7, <2>4
      <3> QED BY <2>1, <3>1, <3>2, <3>3
    <2> QED BY <2>2, <2>3, <2>4
  <1>9. Directory(unit, affiliation) => Directory(unit, new)
    BY <1>8 DEF Directory
  <1> QED BY <1>2, <1>6, <1>9, OrgTypes, OrgServed

LEMMA EditProfileInv ==
  ASSUME OrgInv, NEW s \in OrgSlots, NEW p \in Members, NEW receiver \in {NoMember} \cup Members,
         EditProfile(s, p, receiver)
  PROVE  OrgInv'
  <1>1. PICK profs : profs = [profile EXCEPT ![p] = [there |-> TRUE, receiver |-> receiver]]
    OBVIOUS
  <1>2. profs \in [Members -> Profile]
    BY <1>1, OrgTypes DEF Profile
  <1>3. ServeOrg(s, unit, affiliation, profs)
    BY <1>1 DEF EditProfile
  <1> QED BY <1>2, <1>3, OrgTypes, OrgServed

\* What is written is a row, and what a request alone wrote is what it meant.
LEMMA OrgFlushed ==
  /\ \A cur, new \in OrgUnit : (\A snap : Flush(cur, snap, new) \in OrgUnit) /\ Flush(cur, cur, new) = new
  /\ \A cur, new \in Affiliation : (\A snap : Flush(cur, snap, new) \in Affiliation) /\ Flush(cur, cur, new) = new
  /\ \A cur, new \in Profile : \A snap : Flush(cur, snap, new) \in Profile
  <1>1. \A cur, new \in OrgUnit : (\A snap : Flush(cur, snap, new) \in OrgUnit) /\ Flush(cur, cur, new) = new
    BY DEF Flush, OrgUnit
  <1>2. \A cur, new \in Affiliation : (\A snap : Flush(cur, snap, new) \in Affiliation) /\ Flush(cur, cur, new) = new
    BY DEF Flush, Affiliation
  <1>3. \A cur, new \in Profile : \A snap : Flush(cur, snap, new) \in Profile
    BY DEF Flush, Profile
  <1> QED BY <1>1, <1>2, <1>3

LEMMA CommitOrgInv == ASSUME OrgInv, NEW s \in OrgSlots, CommitOrg(s) PROVE OrgInv'
  <1>1. PICK r : r = orgReq[s]
    OBVIOUS
  <1>2. /\ r.busy /\ orgReq' = [orgReq EXCEPT ![s] = NoOrgRequest] /\ orgMixed' = orgMixed
        /\ \/ UNCHANGED <<unit, affiliation, profile>>
           \/ /\ unit' = FlushRows(unit, r.unit, r.unit2)
              /\ affiliation' = FlushRows(affiliation, r.aff, r.aff2)
              /\ profile' = FlushRows(profile, r.prof, r.prof2)
    BY <1>1 DEF CommitOrg
  <1>3. ~NoOrgRequest.busy
    BY DEF NoOrgRequest
  <1>4. /\ r.unit2 \in [Units -> OrgUnit] /\ r.aff2 \in [Members \X Units -> Affiliation]
        /\ r.prof2 \in [Members -> Profile]
    <2>1. r # NoOrgRequest
      BY <1>2, <1>3
    <2> QED BY <1>1, <2>1 DEF OrgInv, OrgTypeOK
  <1>5. /\ FlushRows(unit, r.unit, r.unit2) \in [Units -> OrgUnit]
        /\ FlushRows(affiliation, r.aff, r.aff2) \in [Members \X Units -> Affiliation]
        /\ FlushRows(profile, r.prof, r.prof2) \in [Members -> Profile]
    BY <1>4, OrgTypes, OrgFlushed DEF FlushRows
  <1>6. FlushRows(unit, unit, r.unit2) = r.unit2 /\ FlushRows(affiliation, affiliation, r.aff2) = r.aff2
    BY <1>4, OrgTypes, OrgFlushed DEF FlushRows
  <1>7. /\ orgReq'[s] = NoOrgRequest /\ \A t \in OrgSlots : t # s => orgReq'[t] = orgReq[t]
        /\ orgReq' = [t \in OrgSlots |-> orgReq'[t]]
    BY <1>2 DEF OrgInv
  <1>8. OrgTypeOK'
    <2>1. /\ unit' \in [Units -> OrgUnit] /\ affiliation' \in [Members \X Units -> Affiliation]
          /\ profile' \in [Members -> Profile] /\ orgMixed' \in BOOLEAN
      BY <1>2, <1>5, OrgTypes
    <2>2. \A t \in OrgSlots : orgReq'[t] = NoOrgRequest \/
             /\ orgReq'[t].unit2 \in [Units -> OrgUnit]
             /\ orgReq'[t].aff2 \in [Members \X Units -> Affiliation]
             /\ orgReq'[t].prof2 \in [Members -> Profile]
      BY <1>7 DEF OrgInv, OrgTypeOK
    <2> QED BY <2>1, <2>2 DEF OrgTypeOK
  <1>9. ASSUME ~orgMixed' PROVE Directory(unit', affiliation') /\ \A t \in OrgSlots : ~orgReq'[t].busy
    <2>1. /\ Directory(unit, affiliation) /\ r.unit = unit /\ r.aff = affiliation /\ Directory(r.unit2, r.aff2)
          /\ \A t \in OrgSlots : orgReq[t].busy => t = s
      BY <1>1, <1>2, <1>9 DEF OrgInv, Undisturbed
    <2>2. Directory(unit', affiliation')
      BY <1>2, <1>6, <2>1
    <2> QED BY <1>3, <1>7, <2>1, <2>2
  <1> QED BY <1>7, <1>8, <1>9 DEF OrgInv

LEMMA OrgStep == OrgInv /\ [OrgNext]_orgVars => OrgInv'
  <1> SUFFICES ASSUME OrgInv, [OrgNext]_orgVars PROVE OrgInv'
    OBVIOUS
  <1>1. CASE OrgNext
    BY <1>1, CreateUnitInv, UpdateUnitInv, AffiliationInv, EditProfileInv, CommitOrgInv DEF OrgNext
  <1>2. CASE UNCHANGED orgVars
    <2>1. unit' = unit /\ affiliation' = affiliation /\ profile' = profile /\ orgReq' = orgReq /\ orgMixed' = orgMixed
      BY <1>2 DEF orgVars
    <2> QED BY <2>1 DEF OrgInv, OrgTypeOK, Undisturbed
  <1> QED BY <1>1, <1>2

LEMMA OrgInvConsistent == OrgInv => DirectoryConsistent
  <1> SUFFICES ASSUME OrgInv, ~orgMixed
               PROVE  /\ \A u \in UnitsThere(unit) : /\ ~Loops(unit, u)
                                                     /\ unit[u].path = UnitPath(unit, unit[u].parent, unit[u].name)
                      /\ \A p \in Members : Cardinality({u \in Units : affiliation[<<p, u>>].primary}) <= 1
    BY DEF DirectoryConsistent
  <1>1. Tree(unit) /\ OnePrimary(affiliation)
    BY DEF OrgInv, Directory
  <1>2. ASSUME NEW p \in Members PROVE Cardinality({u \in Units : affiliation[<<p, u>>].primary}) <= 1
    <2>1. PICK S : S = {u \in Units : affiliation[<<p, u>>].primary}
      OBVIOUS
    <2>2. \A u, v \in S : u = v
      BY <1>1, <2>1 DEF OnePrimary
    <2> QED BY <2>1, <2>2, OneAtMost
  <1> QED BY <1>1, <1>2 DEF Tree

\* Units, affiliations and profiles, and what every open request has read and is to write,
\* hold what iam.py's and people.py's models declare, however requests overlap.
THEOREM DirectoryTypesHold == OrgSpec => []OrgTypeOK
  <1>1. OrgInv => OrgTypeOK
    BY DEF OrgInv
  <1> QED BY <1>1, OrgInitInv, OrgStep, PTL DEF OrgSpec

\* However many units are made, renamed and moved, and users affiliated, unless requests
\* overlapped: _org_unit_path and _refresh_descendant_paths leave the path of every unit that
\* of the units above it, no unit comes to be below itself, and no user has two primary units.
THEOREM DirectoryHolds == OrgSpec => []DirectoryConsistent
  <1> QED BY OrgInitInv, OrgStep, OrgInvConsistent, PTL DEF OrgSpec
-------------------------------------------------------------------------------
(* The parts side by side *)

Focused == focus \in {"upload", "reporter", "catalog", "mcp", "mcps", "org", "orgs"}

\* Each part takes a step of its own or none.
LEMMA PartsStep ==
  ASSUME [MCNext]_<<focus, uploadVars, reporterVars, catalogVars, mcpVars, orgVars>>
  PROVE  /\ [UploadNext]_uploadVars /\ [ReporterNext]_reporterVars /\ [CatalogNext]_catalogVars
         /\ [McpNext]_mcpVars /\ [OrgNext]_orgVars /\ UNCHANGED focus
  <1>1. CASE UploadNext /\ UNCHANGED <<focus, reporterVars, catalogVars, mcpVars, orgVars>>
    BY <1>1
  <1>2. CASE ReporterNext /\ UNCHANGED <<focus, uploadVars, catalogVars, mcpVars, orgVars>>
    BY <1>2
  <1>3. CASE CatalogNext /\ UNCHANGED <<focus, uploadVars, reporterVars, mcpVars, orgVars>>
    BY <1>3
  <1>4. CASE McpNext /\ UNCHANGED <<focus, uploadVars, reporterVars, catalogVars, orgVars>>
    BY <1>4
  <1>5. CASE OrgNext /\ UNCHANGED <<focus, uploadVars, reporterVars, catalogVars, mcpVars>>
    BY <1>5
  <1>6. CASE UNCHANGED <<focus, uploadVars, reporterVars, catalogVars, mcpVars, orgVars>>
    BY <1>6
  <1> QED BY <1>1, <1>2, <1>3, <1>4, <1>5, <1>6 DEF MCNext

\* The composition that the run checks is an execution of every part, so that whatever is
\* proved of a part holds of it; in particular everything in it stays well formed.
THEOREM PartsSideBySide == MCSpec => UploadSpec /\ ReporterSpec /\ CatalogSpec /\ McpSpec /\ OrgSpec
  <1>1. MCInit => UploadInit /\ ReporterInit /\ CatalogInit /\ McpInit /\ OrgInit
    BY DEF MCInit
  <1> QED BY <1>1, PartsStep, PTL DEF MCSpec, UploadSpec, ReporterSpec, CatalogSpec, McpSpec, OrgSpec

\* Sessions, credentials, assets, automations and units: the part at work is well formed.
THEOREM IntakeTypesHold == MCSpec => []IntakeTypesOK
  <1>1. MCInit => Focused
    BY DEF MCInit, Focused
  <1>2. Focused /\ [MCNext]_<<focus, uploadVars, reporterVars, catalogVars, mcpVars, orgVars>> => Focused'
    BY PartsStep DEF Focused
  <1>3. Focused /\ UploadTypeOK /\ ReporterTypeOK /\ CatalogTypeOK /\ McpTypeOK /\ OrgTypeOK => IntakeTypesOK
    BY DEF Focused, IntakeTypesOK
  <1> QED BY <1>1, <1>2, <1>3, PartsSideBySide, UploadTypesHold, ReporterTypesHold, CatalogTypesHold, McpTypesHold,
             DirectoryTypesHold, PTL DEF MCSpec
===============================================================================
