--------------------------- MODULE SkillReleaseProofs ---------------------------
(* What holds of every version in SkillRelease, for every number of versions, workers,   *)
(* overlapping requests and faults, and every policy.                                    *)
(*                                                                                       *)
(* That production is vetted is not inductive: one must know it of all that may still be *)
(* written, so the invariant says of the rows a request has computed (ReqOK) and of the  *)
(* reviews a scan remembers (ScanOK) what it says of the rows (RowOK).                   *)
(*                                                                                       *)
(* That a rejected version stays out and that followers keep up holds where requests     *)
(* come one at a time, to versions whose scan has ended (CalmInv, FeedInv).              *)
EXTENDS SkillRelease, FiniteSetTheorems, TLAPS

\* Versions come from publish_version, which asks for a sandbox run.
Api == Publishers \subseteq {"api"}

Vetted(v) == (policy.sandbox => v \in passed) /\ (policy.review => v \in signed)

RowOK(v, row) ==
    /\ row.status = "deleted" => row = Gone
    /\ row.status = "absent" => row = NoRow
    /\ Api => /\ row.sandbox = "passed" => v \in passed
              /\ row.review = "approved" => v \in signed
              /\ Exists(row) => row.sandbox # "none"
              /\ row.status = "production" => Vetted(v)

\* What a request of kind op may leave of a row it loaded as old: an approval signs.
Left(op, v, old, row) ==
    /\ row.status # "absent"
    /\ row.status = "deleted" => row = Gone
    /\ row.status = "scanning" => old.status = "scanning"
    /\ Api => /\ row.sandbox = "passed" => v \in passed
              /\ row.review = "approved" => v \in signed \/ op = "review"
              /\ Exists(row) => row.sandbox # "none"
              /\ row.status = "production" =>
                    (policy.sandbox => v \in passed) /\ (policy.review => v \in signed \/ op = "review")

ReqOK(s) ==
    \A v \in Versions :
        /\ v \notin req[s].v => req[s].snap[v] = NoRow /\ req[s].new[v] = NoRow
        /\ v \in req[s].v => /\ Left(req[s].op, v, req[s].snap[v], req[s].new[v])
                             /\ req[s].op # "publish" => ver[v].status # "absent"
                             /\ req[s].op = "publish" => req[s].snap[v] = NoRow

ScanOK(w) ==
    /\ scanner[w].stage = "idle" => scanner[w].v = {}
    /\ Api => \A v \in scanner[w].v : scanner[w].review = "approved" => v \in signed

\* Second scans that are being asked for count.
Rescanning(v) == {t \in Slots : req[t].op = "rescan" /\ v \in req[t].v}
RescansBounded == \A v \in Versions : rescans[v] + Cardinality(Rescanning(v)) <= MaxRescans

ReleaseInv ==
    /\ TypeOK /\ RescansBounded /\ ScanningIsHeld
    /\ \A v \in Versions : RowOK(v, ver[v])
    /\ \A s \in Slots : ReqOK(s)
    /\ \A w \in Scanners : ScanOK(w)
-------------------------------------------------------------------------------
LEMMA Gones == /\ NoRow \in Version /\ Gone \in Version /\ Gone.status = "deleted" /\ ~Exists(Gone)
               /\ NoRow.status = "absent" /\ ~Exists(NoRow) /\ Gone.sandbox = "none"
               /\ NoRow.sandbox = "none" /\ Gone.review = "not_required" /\ NoRow.review = "not_required"
  BY DEF NoRow, Gone, Version, Exists

LEMMA NoRequestFacts == /\ NoRequest \in Request /\ NoRequest.op = "none" /\ NoRequest.v = {}
                        /\ \A v \in Versions : NoRequest.snap[v] = NoRow /\ NoRequest.new[v] = NoRow
  BY Gones DEF NoRequest, Request

LEMMA NoScanFacts == NoScan \in Scan /\ NoScan.stage = "idle" /\ NoScan.v = {}
  BY DEF NoScan, Scan, ScanRetries

\* A flushed row has each column from the row as it is now or from the request.
LEMMA FlushedRow ==
  ASSUME NEW cur \in Version, NEW snap \in Version, NEW new \in Version
  PROVE  LET row == Flush(cur, snap, new) IN
         /\ row \in Version
         /\ row.status  = IF new.status  = snap.status  THEN cur.status  ELSE new.status
         /\ row.review  = IF new.review  = snap.review  THEN cur.review  ELSE new.review
         /\ row.sandbox = IF new.sandbox = snap.sandbox THEN cur.sandbox ELSE new.sandbox
  BY DEF Flush, Version

LEMMA RescanningFinite == \A v \in Versions : IsFiniteSet(Rescanning(v)) /\ Cardinality(Rescanning(v)) \in Nat
  <1> SUFFICES ASSUME NEW v \in Versions
               PROVE  IsFiniteSet(Rescanning(v)) /\ Cardinality(Rescanning(v)) \in Nat
    OBVIOUS
  <1>1. Rescanning(v) \in SUBSET Slots /\ IsFiniteSet(Slots)
    BY ReleaseAssumption DEF Rescanning
  <1>2. IsFiniteSet(Rescanning(v))
    BY <1>1, FS_Subset
  <1> QED BY <1>2, FS_CardinalityType

LEMMA InitRelease == Init => ReleaseInv
  <1> SUFFICES ASSUME Init PROVE ReleaseInv
    OBVIOUS
  <1>1. TypeOK
    BY ReleaseAssumption, Gones, NoRequestFacts, NoScanFacts DEF Init, TypeOK, Policy, ScanRetries
  <1>2. \A v \in Versions : Rescanning(v) = {}
    BY NoRequestFacts DEF Init, Rescanning
  <1>3. RescansBounded
    <2> SUFFICES ASSUME NEW v \in Versions PROVE rescans[v] + Cardinality(Rescanning(v)) <= MaxRescans
      BY DEF RescansBounded
    <2>1. Cardinality(Rescanning(v)) = 0 /\ rescans[v] = 0 /\ MaxRescans \in Nat
      BY <1>2, FS_EmptySet, ReleaseAssumption DEF Init
    <2> QED BY <2>1
  <1>4. ScanningIsHeld /\ \A v \in Versions : RowOK(v, ver[v])
    BY Gones DEF Init, ScanningIsHeld, RowOK
  <1>5. (\A s \in Slots : ReqOK(s)) /\ \A w \in Scanners : ScanOK(w)
    BY NoRequestFacts, NoScanFacts DEF Init, ReqOK, ScanOK
  <1> QED BY <1>1, <1>3, <1>4, <1>5 DEF ReleaseInv
-------------------------------------------------------------------------------
(* Requests *)

\* A request begins with the rows as they are.
Kinds == {"publish", "share", "unshare", "row", "review", "rescan", "delete", "skill"}

LEMMA StartInv ==
  ASSUME ReleaseInv, NEW s \in Slots, NEW op \in Kinds,
         NEW touched \in SUBSET Versions, NEW new, NEW kept \in {"active", "deleted", "purged"},
         NEW drop \in SUBSET Versions, NEW add \in SUBSET Versions,
         Start(s, op, touched, new, kept, drop, add),
         \A v \in touched : new[v] \in Version /\ Left(op, v, ver[v], new[v])
                            /\ (op # "publish" <=> ver[v].status # "absent"),
         op = "rescan" => \E v \in Versions : touched = {v} /\ rescans[v] + Cardinality(Rescanning(v)) < MaxRescans
  PROVE  ReleaseInv'
  <1> DEFINE q == [op |-> op, v |-> touched, skill |-> kept, drop |-> drop, add |-> add,
                   snap |-> [v \in Versions |-> IF v \in touched THEN ver[v] ELSE NoRow],
                   new  |-> [v \in Versions |-> IF v \in touched THEN new[v] ELSE NoRow]]
  <1>1. /\ req[s].op = "none" /\ req' = [req EXCEPT ![s] = q]
        /\ UNCHANGED <<policy, skill, ver, mirror, queue, scanner, rescans, faults, passed, signed>>
    BY DEF Start
  <1>2. q \in Request
    BY Gones DEF Request, Kinds, ReleaseInv, TypeOK
  <1>3. TypeOK'
    BY <1>1, <1>2 DEF ReleaseInv, TypeOK
  <1>4. req'[s] = q /\ \A t \in Slots \ {s} : req'[t] = req[t]
    BY <1>1 DEF ReleaseInv, TypeOK
  <1>5. RescansBounded'
    <2> SUFFICES ASSUME NEW v \in Versions PROVE rescans[v] + Cardinality(Rescanning(v)') <= MaxRescans
      BY <1>1 DEF RescansBounded
    <2>1. rescans[v] \in Nat /\ rescans[v] + Cardinality(Rescanning(v)) <= MaxRescans
          /\ IsFiniteSet(Rescanning(v)) /\ Cardinality(Rescanning(v)) \in Nat
      BY RescanningFinite DEF ReleaseInv, RescansBounded, TypeOK
    <2>2. s \notin Rescanning(v)
      BY <1>1 DEF Rescanning
    <2>3. CASE op = "rescan" /\ v \in touched
      <3>1. Rescanning(v)' = Rescanning(v) \cup {s}
        BY <1>4, <2>3 DEF Rescanning
      <3>2. Cardinality(Rescanning(v)') = Cardinality(Rescanning(v)) + 1
        BY <2>1, <2>2, <3>1, FS_AddElement
      <3>3. rescans[v] + Cardinality(Rescanning(v)) < MaxRescans
        BY <2>3
      <3> QED BY <2>1, <3>2, <3>3, ReleaseAssumption
    <2>4. CASE ~(op = "rescan" /\ v \in touched)
      <3>1. Rescanning(v)' = Rescanning(v)
        BY <1>4, <2>2, <2>4 DEF Rescanning
      <3> QED BY <2>1, <3>1
    <2> QED BY <2>3, <2>4
  <1>6. ScanningIsHeld'
    BY <1>1 DEF ReleaseInv, ScanningIsHeld, Outstanding
  <1>7. \A v \in Versions : RowOK(v, ver[v])'
    BY <1>1 DEF ReleaseInv, RowOK, Vetted, Exists
  <1>8. ASSUME NEW t \in Slots PROVE ReqOK(t)'
    <2>1. CASE t = s
      <3>1. \A v \in touched : op = "publish" => ver[v] = NoRow
        BY DEF ReleaseInv, RowOK
      <3> QED BY <1>1, <1>4, <2>1, <3>1 DEF ReqOK, Left
    <2>2. CASE t # s
      BY <1>1, <1>4, <2>2 DEF ReqOK, Left, ReleaseInv
    <2> QED BY <2>1, <2>2
  <1>9. \A w \in Scanners : ScanOK(w)'
    BY <1>1 DEF ReleaseInv, ScanOK
  <1> QED BY <1>3, <1>5, <1>6, <1>7, <1>8, <1>9 DEF ReleaseInv

LEMMA StartOne ==
  ASSUME ReleaseInv, NEW s \in Slots, NEW op \in Kinds, NEW v \in Versions, NEW new,
         NEW drop \in SUBSET Versions, NEW add \in SUBSET Versions,
         Start(s, op, {v}, new, skill, drop, add),
         new[v] \in Version, Left(op, v, ver[v], new[v]), op # "publish" <=> ver[v].status # "absent",
         op = "rescan" => rescans[v] + Cardinality(Rescanning(v)) < MaxRescans
  PROVE  ReleaseInv'
  <1>1. {v} \in SUBSET Versions /\ skill \in {"active", "deleted", "purged"}
    BY DEF ReleaseInv, TypeOK
  <1>2. \A u \in {v} : new[u] \in Version /\ Left(op, u, ver[u], new[u])
                       /\ (op # "publish" <=> ver[u].status # "absent")
    OBVIOUS
  <1>3. op = "rescan" => \E u \in Versions : {v} = {u} /\ rescans[u] + Cardinality(Rescanning(u)) < MaxRescans
    OBVIOUS
  <1> QED BY <1>1, <1>2, <1>3, StartInv

\* A row as it is may be left.
LEMMA SameLeft ==
  ASSUME ReleaseInv, NEW op, NEW v \in Versions, ver[v].status # "absent"
  PROVE  Left(op, v, ver[v], ver[v])
  BY DEF ReleaseInv, RowOK, Left, Vetted

LEMMA GoneLeft ==
  ASSUME NEW op, NEW v, NEW old PROVE Left(op, v, old, Gone)
  BY Gones DEF Left

LEMMA TombstoneType == ASSUME NEW v \in Versions, NEW before, NEW row
                       PROVE Tombstone(v, before, row) \in SUBSET Versions /\ Upsert(v, row) \in SUBSET Versions
  BY DEF Tombstone, Upsert

\* A request that leaves one row changed.
LEMMA ChangeInv ==
  ASSUME ReleaseInv, NEW s \in Slots, NEW op \in {"share", "unshare", "row", "review"}, NEW v \in Versions,
         NEW row \in Version, Change(s, op, v, row), Left(op, v, ver[v], row)
  PROVE  ReleaseInv'
  <1> DEFINE new == [ver EXCEPT ![v] = row]
  <1>1. Start(s, op, {v}, new, skill, Tombstone(v, Live(ver[v]), row), Upsert(v, row)) /\ Exists(ver[v])
    BY DEF Change
  <1>2. new[v] = row /\ ver[v].status # "absent"
    BY <1>1 DEF ReleaseInv, TypeOK, Exists
  <1>3. op \in Kinds /\ op # "publish" /\ op # "rescan"
    BY DEF Kinds
  <1> HIDE DEF new
  <1> QED BY <1>1, <1>2, <1>3, TombstoneType, StartOne

LEMMA SharedType == Shared \in Decisions
  BY DEF Shared, Decisions

\* Of a row that is there, a change of its release only.
LEMMA SharingInv ==
  ASSUME ReleaseInv, NEW s \in Slots, NEW op \in {"share", "unshare"}, NEW v \in Versions,
         NEW share \in {"none"} \cup Decisions, Change(s, op, v, [ver[v] EXCEPT !.share = share])
  PROVE  ReleaseInv'
  <1> DEFINE row == [ver[v] EXCEPT !.share = share]
  <1>1. ver[v] \in Version /\ Exists(ver[v]) /\ RowOK(v, ver[v])
    BY DEF Change, ReleaseInv, TypeOK
  <1>2. row \in Version /\ row.status = ver[v].status /\ row.review = ver[v].review /\ row.sandbox = ver[v].sandbox
    BY <1>1 DEF Version
  <1>3. Left(op, v, ver[v], row)
    BY <1>1, <1>2 DEF Left, RowOK, Vetted, Exists
  <1> QED BY <1>2, <1>3, ChangeInv

\* The gate lets a row through only if what the policy asks for is there.
LEMMA VerdictIs ==
  ASSUME NEW row \in Version, NEW issues \in BOOLEAN, policy \in Policy
  PROVE  LET r == Verdict(row, issues) IN
         /\ r \in Version /\ r.sandbox = row.sandbox /\ r.scan = row.scan /\ r.share = row.share
         /\ r.status \in {"rejected", "review", "production"}
         /\ r.review = "approved" => row.review = "approved"
         /\ r.status = "production" =>
               /\ row.scan # "failed"
               /\ policy.sandbox => row.sandbox \in {"none", "passed"}
               /\ policy.review => row.review = "approved"
  <1> DEFINE asked == IF policy.review /\ row.review = "not_required" THEN "pending" ELSE row.review
             r     == Verdict(row, issues)
  <1>1. asked \in {"not_required"} \cup Decisions /\ (asked = "approved" => row.review = "approved")
    BY DEF Version, Decisions
  <1>2. CASE row.scan = "failed" \/ Blocked(row, asked)
    <2>1. r = [row EXCEPT !.status = "rejected", !.review = asked]
      BY <1>2 DEF Verdict
    <2> QED BY <1>1, <2>1 DEF Version
  <1>3. CASE ~(row.scan = "failed" \/ Blocked(row, asked)) /\ (Unreviewed(asked) \/ issues)
    <2>1. r = [row EXCEPT !.status = "review", !.review = asked]
      BY <1>3 DEF Verdict
    <2> QED BY <1>1, <2>1 DEF Version
  <1>4. CASE ~(row.scan = "failed" \/ Blocked(row, asked)) /\ ~(Unreviewed(asked) \/ issues)
    <2> DEFINE review == IF row.review = "pending" THEN "not_required" ELSE asked
    <2>1. r = [row EXCEPT !.status = "production", !.review = review]
      BY <1>4 DEF Verdict
    <2>2. review \in {"not_required"} \cup Decisions /\ (review = "approved" => row.review = "approved")
      BY <1>1
    <2>3. r \in Version /\ r.status = "production" /\ r.review = review /\ r.sandbox = row.sandbox
          /\ r.scan = row.scan /\ r.share = row.share
      BY <2>1, <2>2 DEF Version
    <2>4. row.scan # "failed" /\ (policy.sandbox => row.sandbox \in {"none", "passed"})
      BY <1>4 DEF Blocked
    <2>5. policy.review => row.review = "approved"
      BY <1>1, <1>4 DEF Unreviewed
    <2> QED BY <2>2, <2>3, <2>4, <2>5
  <1> QED BY <1>2, <1>3, <1>4

LEMMA ApproveInv ==
  ASSUME ReleaseInv, NEW s \in Slots, NEW v \in Versions, NEW issues \in BOOLEAN, Approve(s, v, issues)
  PROVE  ReleaseInv'
  <1> DEFINE old == [ver[v] EXCEPT !.review = "approved"]
             row == Verdict(old, issues)
  <1>1. ver[v] \in Version /\ Exists(ver[v]) /\ RowOK(v, ver[v]) /\ policy \in Policy
    BY DEF Approve, Change, ReleaseInv, TypeOK
  <1>2. old \in Version /\ old.sandbox = ver[v].sandbox
    BY <1>1 DEF Version, Decisions
  <1>3. /\ row \in Version /\ row.sandbox = ver[v].sandbox
        /\ row.status \in {"rejected", "review", "production"}
        /\ row.status = "production" => (policy.sandbox => ver[v].sandbox \in {"none", "passed"})
    BY <1>1, <1>2, VerdictIs
  <1>4. Left("review", v, ver[v], row)
    BY <1>1, <1>3 DEF Left, RowOK
  <1>5. Change(s, "review", v, row)
    BY DEF Approve
  <1> QED BY <1>3, <1>4, <1>5, ChangeInv

LEMMA RejectInv == ASSUME ReleaseInv, NEW s \in Slots, NEW v \in Versions, Reject(s, v) PROVE ReleaseInv'
  <1> DEFINE row == [ver[v] EXCEPT !.review = "rejected", !.status = "rejected"]
  <1>1. ver[v] \in Version /\ Exists(ver[v]) /\ RowOK(v, ver[v]) /\ Change(s, "row", v, row)
    BY DEF Reject, Change, ReleaseInv, TypeOK
  <1>2. row \in Version /\ row.status = "rejected" /\ row.review = "rejected" /\ row.sandbox = ver[v].sandbox
    BY <1>1 DEF Version, Decisions
  <1>3. Left("row", v, ver[v], row)
    BY <1>1, <1>2 DEF Left, RowOK
  <1> QED BY <1>1, <1>2, <1>3, ChangeInv

LEMMA ResetInv == ASSUME ReleaseInv, NEW s \in Slots, NEW v \in Versions, Reset(s, v) PROVE ReleaseInv'
  <1> DEFINE review == IF ver[v].required THEN "pending" ELSE "not_required"
             status == IF ver[v].required THEN "review" ELSE "quarantine"
             row    == [ver[v] EXCEPT !.review = review, !.status = status]
  <1>1. ver[v] \in Version /\ Exists(ver[v]) /\ RowOK(v, ver[v]) /\ Change(s, "row", v, row)
    BY DEF Reset, Change, ReleaseInv, TypeOK
  <1>2. review \in {"pending", "not_required"} /\ status \in {"review", "quarantine"}
    OBVIOUS
  <1>3. row \in Version /\ row.status = status /\ row.review = review /\ row.sandbox = ver[v].sandbox
    BY <1>1, <1>2 DEF Version, Decisions
  <1>4. Left("row", v, ver[v], row)
    BY <1>1, <1>2, <1>3 DEF Left, RowOK
  <1> QED BY <1>1, <1>3, <1>4, ChangeInv

LEMMA PublishInv ==
  ASSUME ReleaseInv, NEW s \in Slots, NEW v \in Versions, NEW via \in Publishers, NEW share \in BOOLEAN,
         Publish(s, v, via, share)
  PROVE  ReleaseInv'
  <1> DEFINE row == IF via = "api"
               THEN [status |-> "quarantine", review |-> IF policy.review THEN "pending" ELSE "not_required",
                     required |-> policy.review, share |-> IF share THEN Shared ELSE "none",
                     scan |-> "pending", sandbox |-> "pending"]
               ELSE [NoRow EXCEPT !.status = "quarantine", !.share = IF share THEN "approved" ELSE "none"]
             new == [ver EXCEPT ![v] = row]
  <1>1. Start(s, "publish", {v}, new, skill, {}, {}) /\ ver \in [Versions -> Version]
        /\ policy.review \in BOOLEAN /\ skill \in {"active", "deleted", "purged"}
    BY DEF Publish, ReleaseInv, TypeOK, Policy
  <1>2. row \in Version /\ row.status = "quarantine" /\ row.review # "approved" /\ row.sandbox # "passed"
        /\ (via = "api" => row.sandbox # "none")
    BY <1>1, SharedType DEF Version, NoRow, Decisions
  <1>3. Left("publish", v, ver[v], row)
    BY <1>2 DEF Left, Api
  <1>4. new[v] = row /\ ver[v].status = "absent" /\ "publish" \in Kinds /\ {} \in SUBSET Versions
    BY <1>1 DEF Publish, Kinds
  <1> HIDE DEF new, row
  <1> QED BY <1>1, <1>2, <1>3, <1>4, StartOne

LEMMA RescanInv == ASSUME ReleaseInv, NEW s \in Slots, NEW v \in Versions, Rescan(s, v) PROVE ReleaseInv'
  <1> DEFINE new == [ver EXCEPT ![v].status = "quarantine", ![v].scan = "pending", ![v].sandbox = "pending"]
  <1>1. /\ Exists(ver[v]) /\ ver \in [Versions -> Version] /\ RowOK(v, ver[v])
        /\ rescans[v] + Cardinality(Rescanning(v)) < MaxRescans
        /\ Start(s, "rescan", {v}, new, skill, {}, {}) /\ skill \in {"active", "deleted", "purged"}
    BY DEF Rescan, Rescanning, ReleaseInv, TypeOK
  <1>2. new[v] = [ver[v] EXCEPT !.status = "quarantine", !.scan = "pending", !.sandbox = "pending"]
    BY <1>1
  <1>3. new[v] \in Version /\ new[v].status = "quarantine" /\ new[v].review = ver[v].review
        /\ new[v].sandbox = "pending"
    BY <1>1, <1>2 DEF Version
  <1>4. Left("rescan", v, ver[v], new[v]) /\ ver[v].status # "absent"
    BY <1>1, <1>3 DEF Left, RowOK, Exists
  <1>5. "rescan" \in Kinds /\ {} \in SUBSET Versions
    BY DEF Kinds
  <1> HIDE DEF new
  <1> QED BY <1>1, <1>3, <1>4, <1>5, StartOne

LEMMA DeleteVersionInv ==
  ASSUME ReleaseInv, NEW s \in Slots, NEW v \in Versions, DeleteVersion(s, v) PROVE ReleaseInv'
  <1> DEFINE drop == IF SharedVersions = {v} THEN Versions ELSE Tombstone(v, Live(ver[v]), Gone)
             new  == [ver EXCEPT ![v] = Gone]
  <1>1. Start(s, "delete", {v}, new, skill, drop, {}) /\ Exists(ver[v])
        /\ ver \in [Versions -> Version] /\ skill \in {"active", "deleted", "purged"}
    BY DEF DeleteVersion, ReleaseInv, TypeOK
  <1>2. new[v] = Gone /\ drop \in SUBSET Versions /\ ver[v].status # "absent"
    BY <1>1, TombstoneType DEF Exists
  <1>3. "delete" \in Kinds /\ {} \in SUBSET Versions
    BY DEF Kinds
  <1>4. new[v] \in Version /\ Left("delete", v, ver[v], new[v])
    BY <1>2, Gones, GoneLeft
  <1> HIDE DEF new, drop
  <1> QED BY <1>1, <1>2, <1>3, <1>4, StartOne

LEMMA SkillInv ==
  ASSUME ReleaseInv, NEW s \in Slots, DeleteSkill(s) \/ RestoreSkill(s) \/ PurgeSkill(s) PROVE ReleaseInv'
  <1>1. Rows \in SUBSET Versions /\ ver \in [Versions -> Version]
        /\ \A v \in Rows : ver[v].status # "absent" /\ Left("skill", v, ver[v], ver[v])
    BY SameLeft DEF Rows, Exists, ReleaseInv, TypeOK
  <1>5. "skill" \in Kinds /\ {} \in SUBSET Versions
    BY DEF Kinds
  <1>6. \A v \in Rows : ver[v] \in Version /\ Gone \in Version /\ Left("skill", v, ver[v], Gone)
    BY <1>1, Gones, GoneLeft
  <1>2. CASE DeleteSkill(s)
    <2> DEFINE drop == IF SharedVersions # {} THEN Versions ELSE {}
    <2>1. Start(s, "skill", Rows, ver, "deleted", drop, {}) /\ drop \in SUBSET Versions
      BY <1>2 DEF DeleteSkill
    <2> HIDE DEF drop
    <2> QED BY <1>1, <1>5, <1>6, <2>1, StartInv
  <1>3. CASE RestoreSkill(s)
    <2> DEFINE add == {v \in Versions : Live(ver[v])}
    <2>1. Start(s, "skill", Rows, ver, "active", {}, add) /\ add \in SUBSET Versions
      BY <1>3 DEF RestoreSkill
    <2> HIDE DEF add
    <2> QED BY <1>1, <1>5, <1>6, <2>1, StartInv
  <1>4. CASE PurgeSkill(s)
    <2> DEFINE new == [v \in Versions |-> IF v \in Rows THEN Gone ELSE ver[v]]
    <2>1. Start(s, "skill", Rows, new, "purged", {}, {})
      BY <1>4 DEF PurgeSkill
    <2>2. \A v \in Rows : new[v] = Gone
      BY <1>1
    <2> HIDE DEF new
    <2>3. \A v \in Rows : new[v] \in Version /\ Left("skill", v, ver[v], new[v]) /\ ver[v].status # "absent"
      BY <1>1, <1>6, <2>2
    <2> QED BY <1>1, <1>5, <2>1, <2>3, StartInv
  <1> QED BY <1>2, <1>3, <1>4

LEMMA BeginInv == ASSUME ReleaseInv, NEW s \in Slots, BeginSome(s) PROVE ReleaseInv'
  <1>1. CASE \E v \in Versions, via \in Publishers, share \in BOOLEAN : Publish(s, v, via, share)
    BY <1>1, PublishInv
  <1>2. CASE \E v \in Versions : Share(s, v) \/ Unshare(s, v)
    BY <1>2, SharingInv, SharedType DEF Share, Unshare
  <1>3. CASE \E v \in Versions, decision \in Decisions : ApproveShare(s, v, decision)
    BY <1>3, SharingInv DEF ApproveShare
  <1>4. CASE \E v \in Versions, issues \in BOOLEAN : Approve(s, v, issues)
    BY <1>4, ApproveInv
  <1>5. CASE \E v \in Versions : Reject(s, v) \/ Reset(s, v) \/ Rescan(s, v) \/ DeleteVersion(s, v)
    BY <1>5, RejectInv, ResetInv, RescanInv, DeleteVersionInv
  <1>6. CASE DeleteSkill(s) \/ RestoreSkill(s) \/ PurgeSkill(s)
    BY <1>6, SkillInv
  <1> QED BY <1>1, <1>2, <1>3, <1>4, <1>5, <1>6 DEF BeginSome
-------------------------------------------------------------------------------
(* The end of a request *)

\* One more message.
LEMMA OneMore ==
  ASSUME NEW f \in [0 .. ScanRetries -> Nat], NEW i \in 0 .. ScanRetries
  PROVE  LET g == [f EXCEPT ![i] = @ + 1] IN
         /\ g \in [0 .. ScanRetries -> Nat]
         /\ g[i] > 0
         /\ \A n \in 0 .. ScanRetries : f[n] > 0 => g[n] > 0
  <1> DEFINE g == [f EXCEPT ![i] = @ + 1]
  <1>1. f[i] \in Nat /\ f[i] + 1 \in Nat /\ f[i] + 1 > 0
    OBVIOUS
  <1>2. g[i] = f[i] + 1 /\ \A n \in 0 .. ScanRetries : n # i => g[n] = f[n]
    OBVIOUS
  <1>3. g \in [0 .. ScanRetries -> Nat]
    BY <1>1
  <1> HIDE DEF g
  <1>4. g[i] > 0
    BY <1>1, <1>2
  <1>5. \A n \in 0 .. ScanRetries : f[n] > 0 => g[n] > 0
    BY <1>2, <1>4
  <1> QED BY <1>3, <1>4, <1>5 DEF g

\* What is left of a version after a request has been flushed.
LEMMA FlushedOK ==
  ASSUME ReleaseInv, NEW s \in Slots, NEW v \in Versions, req[s].op # "none"
  PROVE  LET row == Flushed(req[s])[v] IN
         /\ row \in Version
         /\ row.status = "deleted" => row = Gone
         /\ row.status = "absent" => row = NoRow
         /\ row.status = "scanning" => ver[v].status = "scanning"
         /\ ver[v].status # "absent" => row.status # "absent"
         /\ Api => /\ row.sandbox = "passed" => v \in passed
                   /\ row.review = "approved" => v \in signed \/ (req[s].op = "review" /\ v \in req[s].v)
                   /\ Exists(row) => row.sandbox # "none"
                   /\ row.status = "production" =>
                        /\ policy.sandbox => v \in passed
                        /\ policy.review => v \in signed \/ (req[s].op = "review" /\ v \in req[s].v)
  <1> DEFINE r    == req[s]
             cur  == ver[v]
             snap == r.snap[v]
             new  == r.new[v]
             row  == Flushed(r)[v]
  <1>1. cur \in Version /\ snap \in Version /\ new \in Version /\ RowOK(v, cur)
        /\ (v \notin r.v => snap = NoRow /\ new = NoRow)
        /\ (v \in r.v => Left(r.op, v, snap, new) /\ (r.op # "publish" => cur.status # "absent")
                         /\ (r.op = "publish" => snap = NoRow))
    BY DEF ReleaseInv, TypeOK, Request, ReqOK
  <1>2. row = IF Gone \in {cur, new} THEN Gone ELSE Flush(cur, snap, new)
    BY DEF Flushed
  <1>3. CASE Gone \in {cur, new}
    BY <1>2, <1>3, Gones
  <1>4. CASE Gone \notin {cur, new}
    <2>1. /\ row \in Version
          /\ row.status  = IF new.status  = snap.status  THEN cur.status  ELSE new.status
          /\ row.review  = IF new.review  = snap.review  THEN cur.review  ELSE new.review
          /\ row.sandbox = IF new.sandbox = snap.sandbox THEN cur.sandbox ELSE new.sandbox
      BY <1>1, <1>2, <1>4, FlushedRow
    <2>2. CASE v \notin r.v
      <3>1. row.status = cur.status /\ row.review = cur.review /\ row.sandbox = cur.sandbox
        BY <1>1, <2>1, <2>2
      <3>2. row = cur
        <4>1. row = [c \in DOMAIN cur |-> cur[c]]
          BY <1>1, <1>2, <1>4, <2>2 DEF Flush
        <4> QED BY <1>1, <4>1 DEF Version
      <3> QED BY <1>1, <1>4, <2>1, <3>1, <3>2 DEF RowOK, Exists, Vetted
    <2>3. CASE v \in r.v
      <3>1. new.status \notin {"absent", "deleted"} /\ cur.status # "deleted"
        BY <1>1, <1>4, <2>3 DEF Left, RowOK
      <3>2. row.status # "deleted" /\ row.status # "absent"
        BY <1>1, <2>1, <2>3, <3>1, Gones
      <3>3. row.status = "scanning" => cur.status = "scanning"
        BY <1>1, <2>1, <2>3 DEF Left
      <3>4. ASSUME Api, Exists(row) PROVE row.sandbox # "none"
        <4>1. new.sandbox # "none"
          BY <1>1, <2>3, <3>1, <3>4 DEF Left, Exists
        <4>2. CASE r.op # "publish"
          <5>1. cur.sandbox # "none"
            BY <1>1, <2>3, <3>1, <3>4, <4>2 DEF RowOK, Exists
          <5> QED BY <2>1, <4>1, <5>1
        <4>3. CASE r.op = "publish"
          BY <1>1, <2>1, <2>3, <4>1, <4>3, Gones
        <4> QED BY <4>2, <4>3
      <3>5. ASSUME Api
            PROVE  /\ row.sandbox = "passed" => v \in passed
                   /\ row.review = "approved" => v \in signed \/ r.op = "review"
                   /\ row.status = "production" =>
                        (policy.sandbox => v \in passed) /\ (policy.review => v \in signed \/ r.op = "review")
        BY <1>1, <2>1, <2>3, <3>5 DEF Left, RowOK, Vetted
      <3> QED BY <2>1, <2>3, <3>2, <3>3, <3>4, <3>5
    <2> QED BY <2>2, <2>3
  <1> QED BY <1>3, <1>4

LEMMA CommitInv == ASSUME ReleaseInv, NEW s \in Slots, NEW lost \in BOOLEAN, Commit(s, lost) PROVE ReleaseInv'
  <1> DEFINE r == req[s]
  <1>1. /\ r.op # "none" /\ r \in Request
        /\ lost => faults < MaxFaults
        /\ req' = [req EXCEPT ![s] = NoRequest] /\ UNCHANGED <<policy, scanner, passed>>
    BY DEF Commit, ReleaseInv, TypeOK
  <1>2. \/ UNCHANGED <<skill, ver, mirror, queue, rescans, faults, signed>>
        \/ /\ ver' = Flushed(r) /\ skill' = (IF r.op = "skill" THEN r.skill ELSE skill)
           /\ mirror' = (mirror \ r.drop) \cup r.add /\ queue' = Sent(r, lost)
           /\ faults' = (IF lost THEN faults + 1 ELSE faults)
           /\ rescans' = [v \in Versions |-> IF r.op = "rescan" /\ v \in r.v THEN rescans[v] + 1 ELSE rescans[v]]
           /\ signed' = (IF r.op = "review" THEN signed \cup r.v ELSE signed)
    BY DEF Commit
  <1>3. req'[s] = NoRequest /\ \A t \in Slots \ {s} : req'[t] = req[t]
    BY <1>1 DEF ReleaseInv, TypeOK
  <1>4. /\ ver' \in [Versions -> Version] /\ signed \subseteq signed' /\ signed' \in SUBSET Versions
        /\ \A v \in Versions : RowOK(v, ver[v])'
        /\ \A v \in Versions : ver'[v].status = "scanning" => ver[v].status = "scanning"
        /\ \A v \in Versions : ver[v].status # "absent" => ver'[v].status # "absent"
    <2>1. CASE UNCHANGED <<ver, signed>>
      BY <1>1, <2>1 DEF ReleaseInv, TypeOK, RowOK, Vetted, Exists
    <2>2. CASE ver' = Flushed(r) /\ signed' = (IF r.op = "review" THEN signed \cup r.v ELSE signed)
      <3>1. signed \subseteq signed' /\ signed' \in SUBSET Versions
            /\ \A v \in Versions : v \in signed \/ (r.op = "review" /\ v \in r.v) => v \in signed'
        BY <1>1, <2>2 DEF ReleaseInv, TypeOK, Request
      <3>2. ASSUME NEW v \in Versions
            PROVE  /\ ver'[v] \in Version /\ RowOK(v, ver[v])'
                   /\ ver'[v].status = "scanning" => ver[v].status = "scanning"
                   /\ ver[v].status # "absent" => ver'[v].status # "absent"
        BY <1>1, <2>2, <3>1, FlushedOK DEF RowOK, Vetted, Exists
      <3>3. ver' \in [Versions -> Version]
        BY <2>2, <3>2 DEF Flushed
      <3> QED BY <3>1, <3>2, <3>3
    <2> QED BY <1>2, <2>1, <2>2
  <1>5. queue' \in [Versions -> [0 .. ScanRetries -> Nat]]
        /\ \A v \in Versions, n \in 0 .. ScanRetries : queue[v][n] > 0 => queue'[v][n] > 0
    <2>1. CASE queue' = queue
      BY <2>1 DEF ReleaseInv, TypeOK
    <2>2. CASE queue' = [v \in Versions |-> IF v \in r.v THEN [queue[v] EXCEPT ![0] = @ + 1] ELSE queue[v]]
      <3>1. ASSUME NEW v \in Versions
            PROVE  /\ [queue[v] EXCEPT ![0] = @ + 1] \in [0 .. ScanRetries -> Nat]
                   /\ \A n \in 0 .. ScanRetries : queue[v][n] > 0 => [queue[v] EXCEPT ![0] = @ + 1][n] > 0
        <4>1. queue[v] \in [0 .. ScanRetries -> Nat] /\ 0 \in 0 .. ScanRetries
          BY DEF ReleaseInv, TypeOK, ScanRetries
        <4> QED BY <4>1, OneMore
      <3>2. \A v \in Versions : queue[v] \in [0 .. ScanRetries -> Nat]
        BY DEF ReleaseInv, TypeOK
      <3> QED BY <2>2, <3>1, <3>2
    <2> QED BY <1>2, <2>1, <2>2 DEF Sent
  <1>6. RescansBounded' /\ rescans' \in [Versions -> 0 .. MaxRescans]
    <2>1. ASSUME NEW v \in Versions
          PROVE  /\ rescans'[v] \in 0 .. MaxRescans /\ rescans'[v] + Cardinality(Rescanning(v)') <= MaxRescans
      <3>1. rescans[v] \in Nat /\ rescans[v] + Cardinality(Rescanning(v)) <= MaxRescans /\ MaxRescans \in Nat
            /\ IsFiniteSet(Rescanning(v)) /\ Cardinality(Rescanning(v)) \in Nat
        BY RescanningFinite, ReleaseAssumption DEF ReleaseInv, RescansBounded, TypeOK
      <3>2. Rescanning(v)' = Rescanning(v) \ {s}
        BY <1>3, NoRequestFacts DEF Rescanning
      <3>3. Cardinality(Rescanning(v)') = IF s \in Rescanning(v) THEN Cardinality(Rescanning(v)) - 1
                                                                  ELSE Cardinality(Rescanning(v))
        BY <3>1, <3>2, FS_RemoveElement
      <3>4. rescans'[v] = rescans[v] \/ (s \in Rescanning(v) /\ rescans'[v] = rescans[v] + 1)
        BY <1>2 DEF Rescanning
      <3>5. CASE s \in Rescanning(v)
        <4>1. Cardinality(Rescanning(v)') = Cardinality(Rescanning(v)) - 1
              /\ Cardinality(Rescanning(v)) # 0
          BY <3>1, <3>3, <3>5, FS_EmptySet
        <4> QED BY <3>1, <3>4, <4>1
      <3>6. CASE s \notin Rescanning(v)
        <4>1. Cardinality(Rescanning(v)') = Cardinality(Rescanning(v)) /\ rescans'[v] = rescans[v]
          BY <3>3, <3>4, <3>6
        <4> QED BY <3>1, <4>1
      <3> QED BY <3>5, <3>6
    <2>2. rescans' \in [Versions -> 0 .. MaxRescans]
      <3>1. DOMAIN rescans' = Versions /\ rescans' = [v \in Versions |-> rescans'[v]]
        BY <1>2 DEF ReleaseInv, TypeOK
      <3> QED BY <2>1, <3>1
    <2> QED BY <2>1, <2>2 DEF RescansBounded
  <1>7. TypeOK'
    <2>1. skill' \in {"active", "deleted", "purged"} /\ mirror' \in SUBSET Versions
      BY <1>1, <1>2 DEF ReleaseInv, TypeOK, Request
    <2>2. faults' \in 0 .. MaxFaults
      BY <1>1, <1>2, ReleaseAssumption DEF ReleaseInv, TypeOK
    <2>3. req' \in [Slots -> Request]
      BY <1>1, NoRequestFacts DEF ReleaseInv, TypeOK
    <2> QED BY <1>1, <1>4, <1>5, <1>6, <2>1, <2>2, <2>3 DEF ReleaseInv, TypeOK
  <1>8. ScanningIsHeld'
    BY <1>1, <1>4, <1>5 DEF ReleaseInv, ScanningIsHeld, Outstanding
  <1>9. ASSUME NEW t \in Slots PROVE ReqOK(t)'
    <2>1. CASE t = s
      BY <1>3, <2>1, NoRequestFacts DEF ReqOK
    <2>2. CASE t # s
      <3>1. ReqOK(t) /\ req'[t] = req[t]
        BY <1>3, <2>2 DEF ReleaseInv
      <3> QED BY <1>1, <1>4, <3>1 DEF ReqOK, Left
    <2> QED BY <2>1, <2>2
  <1>10. \A w \in Scanners : ScanOK(w)'
    BY <1>1, <1>4 DEF ReleaseInv, ScanOK
  <1> QED BY <1>4, <1>6, <1>7, <1>8, <1>9, <1>10 DEF ReleaseInv
-------------------------------------------------------------------------------
(* The scan worker *)

\* A step of worker w on version v leaves a row that is good, a session that remembers what
\* is so, and does not leave a version in scanning that nobody will scan.
LEMMA WorkInv ==
  ASSUME ReleaseInv, NEW w \in Scanners, NEW v \in Versions, NEW row \in Version, NEW scan \in Scan,
         NEW messages \in [0 .. ScanRetries -> Nat], NEW drop \in SUBSET Versions, NEW add \in SUBSET Versions,
         Work(w, v, row, scan, messages, drop, add),
         faults' \in 0 .. MaxFaults, passed \subseteq passed', passed' \in SUBSET Versions,
         scanner[w].v \subseteq {v}, scan.v \subseteq {v}, scan.stage = "idle" => scan.v = {},
         Api /\ scan.v # {} => (scan.review = "approved" => v \in signed),
         row.status = "deleted" => row = Gone, row.status = "absent" => row = ver[v],
         Api => /\ row.sandbox = "passed" => v \in passed'
                /\ row.review = "approved" => v \in signed
                /\ Exists(row) => row.sandbox # "none"
                /\ row.status = "production" => (policy.sandbox => v \in passed') /\ (policy.review => v \in signed),
         row.status = "scanning" => scan.v = {v} \/ \E n \in 0 .. ScanRetries : messages[n] > 0
  PROVE  ReleaseInv'
  <1>1. /\ ver' = [ver EXCEPT ![v] = row] /\ scanner' = [scanner EXCEPT ![w] = scan]
        /\ queue' = [queue EXCEPT ![v] = messages] /\ mirror' = (mirror \ drop) \cup add
        /\ UNCHANGED <<policy, skill, req, rescans, signed>>
    BY DEF Work
  <1>2. TypeOK'
    BY <1>1 DEF ReleaseInv, TypeOK
  <1>3. ver'[v] = row /\ \A u \in Versions \ {v} : ver'[u] = ver[u]
    BY <1>1 DEF ReleaseInv, TypeOK
  <1>4. scanner'[w] = scan /\ \A x \in Scanners \ {w} : scanner'[x] = scanner[x]
    BY <1>1 DEF ReleaseInv, TypeOK
  <1>5. queue'[v] = messages /\ \A u \in Versions \ {v} : queue'[u] = queue[u]
    BY <1>1 DEF ReleaseInv, TypeOK
  <1>6. RescansBounded'
    BY <1>1 DEF ReleaseInv, RescansBounded, Rescanning
  <1>7. ASSUME NEW u \in Versions, ver'[u].status = "scanning" PROVE Outstanding(u)'
    <2>1. CASE u = v
      BY <1>3, <1>4, <1>5, <1>7, <2>1 DEF Outstanding
    <2>2. CASE u # v
      <3>1. Outstanding(u) /\ scanner[w].v # {u}
        BY <1>3, <1>7, <2>2 DEF ReleaseInv, ScanningIsHeld
      <3> QED BY <1>4, <1>5, <2>2, <3>1 DEF Outstanding
    <2> QED BY <2>1, <2>2
  <1>8. ASSUME NEW u \in Versions PROVE RowOK(u, ver[u])'
    <2>1. RowOK(u, ver[u])
      BY DEF ReleaseInv
    <2>2. CASE u = v
      BY <1>1, <1>3, <2>1, <2>2 DEF RowOK, Vetted, Exists
    <2>3. CASE u # v
      BY <1>1, <1>3, <2>1, <2>3 DEF RowOK, Vetted, Exists
    <2> QED BY <2>2, <2>3
  <1>9. \A u \in Versions : ver[u].status # "absent" => ver'[u].status # "absent"
    BY <1>3
  <1>10. \A s \in Slots : ReqOK(s)'
    BY <1>1, <1>9 DEF ReleaseInv, ReqOK, Left
  <1>11. \A x \in Scanners : ScanOK(x)'
    BY <1>1, <1>4 DEF ReleaseInv, ScanOK
  <1> QED BY <1>2, <1>6, <1>7, <1>8, <1>10, <1>11 DEF ReleaseInv, ScanningIsHeld

\* The rows and messages a step starts from.
LEMMA Parts ==
  ASSUME ReleaseInv, NEW v \in Versions, NEW w \in Scanners
  PROVE  /\ ver[v] \in Version /\ RowOK(v, ver[v]) /\ scanner[w] \in Scan /\ ScanOK(w)
         /\ queue[v] \in [0 .. ScanRetries -> Nat] /\ policy \in Policy
         /\ faults \in 0 .. MaxFaults /\ passed \in SUBSET Versions
         /\ scanner[w].tries \in 0 .. ScanRetries /\ {} \in SUBSET Versions
  BY DEF ReleaseInv, TypeOK, Scan

LEMMA RetryType ==
  ASSUME ReleaseInv, NEW v \in Versions, NEW tries \in 0 .. ScanRetries
  PROVE  Retry(v, tries) \in [0 .. ScanRetries -> Nat]
  <1>1. queue[v] \in [0 .. ScanRetries -> Nat]
    BY DEF ReleaseInv, TypeOK
  <1> QED BY <1>1 DEF Retry, ScanRetries

LEMMA RequeuedType ==
  ASSUME ReleaseInv, NEW v \in Versions, NEW tries \in 0 .. ScanRetries
  PROVE  Requeued(v, tries) \in [0 .. ScanRetries -> Nat] /\ Requeued(v, tries)[tries] > 0
  <1>1. queue[v] \in [0 .. ScanRetries -> Nat]
    BY DEF ReleaseInv, TypeOK
  <1> QED BY <1>1, OneMore DEF Requeued

\* A step that ends the session and leaves the row, which is not being scanned.
LEMMA AbandonInv ==
  ASSUME ReleaseInv, NEW w \in Scanners, NEW v \in Versions, NEW messages \in [0 .. ScanRetries -> Nat],
         Work(w, v, ver[v], NoScan, messages, {}, {}), faults' \in 0 .. MaxFaults, passed' = passed,
         scanner[w].v \subseteq {v},
         ver[v].status = "scanning" => \E n \in 0 .. ScanRetries : messages[n] > 0
  PROVE  ReleaseInv'
  BY Parts, NoScanFacts, WorkInv DEF RowOK, Vetted

\* A step that fails the version, if it is there.
LEMMA AbortInv ==
  ASSUME ReleaseInv, NEW w \in Scanners, NEW v \in Versions, NEW messages \in [0 .. ScanRetries -> Nat],
         Work(w, v, Aborted(ver[v]), NoScan, messages, {}, {}), faults' \in 0 .. MaxFaults, passed' = passed,
         scanner[w].v \subseteq {v}
  PROVE  ReleaseInv'
  <1>1. CASE Exists(ver[v])
    <2> DEFINE row == Aborted(ver[v])
    <2>1. row = [ver[v] EXCEPT !.scan = "failed", !.sandbox = "failed", !.status = "rejected"]
      BY <1>1 DEF Aborted
    <2>2. row \in Version /\ row.status = "rejected" /\ row.sandbox = "failed" /\ row.review = ver[v].review
      BY <2>1, Parts DEF Version
    <2> HIDE DEF row
    <2> QED BY <2>2, Parts, NoScanFacts, WorkInv DEF RowOK, row
  <1>2. CASE ~Exists(ver[v])
    <2>1. Aborted(ver[v]) = ver[v] /\ ver[v].status # "scanning"
      BY <1>2 DEF Aborted, Exists
    <2> QED BY <2>1, AbandonInv
  <1> QED BY <1>1, <1>2

LEMMA DeliverInv ==
  ASSUME ReleaseInv, NEW w \in Scanners, NEW v \in Versions, NEW tries \in 0 .. ScanRetries, Deliver(w, v, tries)
  PROVE  ReleaseInv'
  <1> DEFINE old  == ver[v]
             row  == [old EXCEPT !.status = "scanning", !.scan = "running", !.sandbox = "pending"]
             left == [queue[v] EXCEPT ![tries] = @ - 1]
             scan == [stage |-> "static", v |-> {v}, tries |-> tries, review |-> old.review,
                      share |-> old.share, live |-> Live(old)]
  <1>1. /\ scanner[w].stage = "idle" /\ queue[v][tries] > 0 /\ faults' = faults /\ passed' = passed
        /\ IF Exists(old) THEN Work(w, v, row, scan, left, {}, {}) ELSE Work(w, v, old, NoScan, left, {}, {})
    BY DEF Deliver
  <1>2. left \in [0 .. ScanRetries -> Nat]
    <2> DEFINE f == queue[v]
    <2>1. f \in [0 .. ScanRetries -> Nat] /\ f[tries] > 0
      BY <1>1, Parts
    <2> HIDE DEF f
    <2>2. f[tries] \in Nat
      BY <2>1
    <2>3. f[tries] - 1 \in Nat
      BY <2>1, <2>2
    <2>4. [f EXCEPT ![tries] = @ - 1] \in [0 .. ScanRetries -> Nat]
      BY <2>1, <2>3
    <2> QED BY <2>4 DEF f
  <1>3. scanner[w].v = {}
    BY <1>1, Parts DEF ScanOK
  <1>4. CASE Exists(old)
    <2>1. row \in Version /\ row.status = "scanning" /\ row.sandbox = "pending" /\ row.review = old.review
      BY Parts DEF Version
    <2>2. scan \in Scan /\ scan.v = {v} /\ scan.stage = "static" /\ scan.review = old.review
      BY Parts DEF Scan, Version, Live
    <2> HIDE DEF row, scan, left
    <2>3. Work(w, v, row, scan, left, {}, {})
      BY <1>1, <1>4
    <2>4. Api => (old.review = "approved" => v \in signed)
      BY Parts DEF RowOK
    <2> QED BY <1>1, <1>2, <1>3, <2>1, <2>2, <2>3, <2>4, Parts, WorkInv
  <1>5. CASE ~Exists(old)
    <2>1. Work(w, v, ver[v], NoScan, left, {}, {}) /\ ver[v].status # "scanning"
      BY <1>1, <1>5 DEF Exists
    <2> HIDE DEF left
    <2> QED BY <1>1, <1>2, <1>3, <2>1, Parts, AbandonInv
  <1> QED BY <1>4, <1>5

LEMMA SkillGoneInv ==
  ASSUME ReleaseInv, NEW w \in Scanners, NEW v \in Versions, SkillGone(w, v)
  PROVE  ReleaseInv'
  <1>1. Work(w, v, Aborted(ver[v]), NoScan, Retry(v, scanner[w].tries), {}, {})
        /\ faults' = faults /\ passed' = passed /\ scanner[w].v = {v}
    BY DEF SkillGone
  <1> QED BY <1>1, Parts, RetryType, AbortInv

LEMMA RowGoneInv ==
  ASSUME ReleaseInv, NEW w \in Scanners, NEW v \in Versions, RowGone(w, v)
  PROVE  ReleaseInv'
  <1>1. Work(w, v, ver[v], NoScan, Retry(v, scanner[w].tries), {}, {})
        /\ faults' = faults /\ passed' = passed /\ scanner[w].v = {v} /\ ver[v].status # "scanning"
    BY DEF RowGone, Exists
  <1> QED BY <1>1, Parts, RetryType, AbandonInv

LEMMA StaticFailsInv ==
  ASSUME ReleaseInv, NEW w \in Scanners, NEW v \in Versions, StaticFails(w, v)
  PROVE  ReleaseInv'
  <1> DEFINE row == StaticFailure(v)
  <1>1. Work(w, v, row, NoScan, queue[v], Tombstone(v, scanner[w].live, row), Upsert(v, row))
        /\ faults' = faults /\ passed' = passed /\ scanner[w].v = {v}
    BY DEF StaticFails
  <1>2. row \in Version /\ row.status = "rejected" /\ row.sandbox = "skipped" /\ row.review = ver[v].review
    BY Parts DEF StaticFailure, Version
  <1>3. Tombstone(v, scanner[w].live, row) \in SUBSET Versions /\ Upsert(v, row) \in SUBSET Versions
    BY TombstoneType
  <1>4. Api => (row.review = "approved" => v \in signed)
    BY <1>2, Parts DEF RowOK
  <1> HIDE DEF row
  <1> QED BY <1>1, <1>2, <1>3, <1>4, Parts, NoScanFacts, WorkInv

LEMMA StartSandboxInv ==
  ASSUME ReleaseInv, NEW w \in Scanners, NEW v \in Versions, StartSandbox(w, v)
  PROVE  ReleaseInv'
  <1> DEFINE row  == [ver[v] EXCEPT !.sandbox = "running"]
             scan == [scanner[w] EXCEPT !.stage = "sandbox"]
  <1>1. Work(w, v, row, scan, queue[v], {}, {}) /\ Exists(ver[v])
        /\ faults' = faults /\ passed' = passed /\ scanner[w].v = {v}
    BY DEF StartSandbox
  <1>2. row \in Version /\ row.status = ver[v].status /\ row.sandbox = "running" /\ row.review = ver[v].review
    BY Parts DEF Version
  <1>3. scan \in Scan /\ scan.v = {v} /\ scan.stage = "sandbox" /\ scan.review = scanner[w].review
    BY <1>1, Parts DEF Scan
  <1>4. Api => /\ scan.review = "approved" => v \in signed
               /\ row.review = "approved" => v \in signed
               /\ row.status = "production" => (policy.sandbox => v \in passed) /\ (policy.review => v \in signed)
    BY <1>1, <1>2, <1>3, Parts DEF RowOK, ScanOK, Vetted
  <1>5. row.status # "deleted" /\ row.status # "absent"
    BY <1>1, <1>2 DEF Exists
  <1> HIDE DEF row, scan
  <1> QED BY <1>1, <1>2, <1>3, <1>4, <1>5, Parts, WorkInv

\* The row of a version the session of w has decided.
LEMMA DecidedIs ==
  ASSUME ReleaseInv, NEW w \in Scanners, NEW v \in Versions, NEW result \in {"passed", "failed", "skipped"},
         NEW issues \in BOOLEAN
  PROVE  LET decided == Decided(w, v, result, issues) IN
         /\ decided \in Version /\ decided.sandbox = result
         /\ decided.status \in {"rejected", "review", "production"}
         /\ decided.review = "approved" => scanner[w].review = "approved"
         /\ decided.status = "production" =>
               /\ Scanned(result) = "passed"
               /\ policy.sandbox => result = "passed"
               /\ policy.review => scanner[w].review = "approved"
  <1> DEFINE mem     == scanner[w]
             seen    == [ver[v] EXCEPT !.scan = Scanned(result), !.sandbox = result, !.review = mem.review,
                                       !.share = SeenShare(mem.share, @)]
             decided == Decided(w, v, result, issues)
  <1>1. ver[v] \in Version /\ mem \in Scan /\ policy \in Policy /\ Scanned(result) \in {"passed", "failed"}
    BY Parts DEF Scanned
  <1>2. seen \in Version /\ seen.scan = Scanned(result) /\ seen.sandbox = result /\ seen.review = mem.review
    BY <1>1 DEF Version, Scan, SeenShare
  <1>3. decided = IF seen.scan = "failed" THEN [seen EXCEPT !.status = "rejected"] ELSE Verdict(seen, issues)
    BY DEF Decided
  <1> HIDE DEF seen, decided
  <1>4. CASE seen.scan = "failed"
    <2>1. decided = [seen EXCEPT !.status = "rejected"]
      BY <1>3, <1>4
    <2> QED BY <1>2, <2>1 DEF Version, decided
  <1>5. CASE seen.scan # "failed"
    <2>1. decided = Verdict(seen, issues)
      BY <1>3, <1>5
    <2> QED BY <1>1, <1>2, <1>5, <2>1, VerdictIs DEF decided
  <1> QED BY <1>4, <1>5

\* The row that is flushed for it.
LEMMA WrittenIs ==
  ASSUME ReleaseInv, NEW w \in Scanners, NEW v \in Versions, NEW decided \in Version
  PROVE  LET row == Written(w, v, decided) IN
         /\ row \in Version /\ row.status = decided.status /\ row.sandbox = decided.sandbox
         /\ row.share = ver[v].share
         /\ row.review = IF decided.review = scanner[w].review THEN ver[v].review ELSE decided.review
  BY Parts DEF Written, Version

LEMMA FinishScanInv ==
  ASSUME ReleaseInv, NEW w \in Scanners, NEW v \in Versions, NEW result \in {"passed", "failed", "skipped"},
         NEW issues \in BOOLEAN, FinishScan(w, v, result, issues)
  PROVE  ReleaseInv'
  <1> DEFINE mem     == scanner[w]
             decided == Decided(w, v, result, issues)
             row     == Written(w, v, decided)
  <1>1. /\ mem.v = {v} /\ Exists(ver[v])
        /\ Work(w, v, row, NoScan, queue[v], Tombstone(v, mem.live, decided), Upsert(v, decided))
        /\ passed' = (IF Scanned(result) = "passed" /\ (policy.sandbox => result = "passed")
                      THEN passed \cup {v} ELSE passed)
        /\ faults' = faults
    BY DEF FinishScan
  <1>2. RowOK(v, ver[v]) /\ ScanOK(w)
    BY Parts
  <1>4. /\ decided \in Version /\ decided.sandbox = result
        /\ decided.status \in {"rejected", "review", "production"}
        /\ decided.review = "approved" => mem.review = "approved"
        /\ decided.status = "production" =>
              /\ Scanned(result) = "passed"
              /\ policy.sandbox => result = "passed"
              /\ policy.review => mem.review = "approved"
    BY DecidedIs
  <1> HIDE DEF decided
  <1>5. /\ row \in Version /\ row.status = decided.status /\ row.sandbox = result
        /\ row.review = "approved" => ver[v].review = "approved" \/ mem.review = "approved"
    BY <1>4, WrittenIs
  <1>6. passed \subseteq passed' /\ passed' \in SUBSET Versions
        /\ (Scanned(result) = "passed" /\ (policy.sandbox => result = "passed") => v \in passed')
    BY <1>1, Parts
  <1>7. Api => (mem.review = "approved" => v \in signed) /\ (ver[v].review = "approved" => v \in signed)
    BY <1>1, <1>2 DEF RowOK, ScanOK
  <1>8. result = "passed" => Scanned(result) = "passed"
    BY DEF Scanned
  <1>9. Tombstone(v, mem.live, decided) \in SUBSET Versions /\ Upsert(v, decided) \in SUBSET Versions
    BY TombstoneType
  <1>10. Api => /\ row.sandbox = "passed" => v \in passed'
                /\ row.review = "approved" => v \in signed
                /\ Exists(row) => row.sandbox # "none"
                /\ row.status = "production" => (policy.sandbox => v \in passed') /\ (policy.review => v \in signed)
    BY <1>4, <1>5, <1>6, <1>7, <1>8
  <1>11. row.status \notin {"scanning", "deleted", "absent"}
    BY <1>4, <1>5
  <1> HIDE DEF row, mem
  <1>12. scanner[w].v \subseteq {v}
    BY <1>1 DEF mem
  <1> QED BY <1>1, <1>5, <1>6, <1>9, <1>10, <1>11, <1>12, Parts, NoScanFacts, WorkInv

LEMMA FaultBound == ASSUME ReleaseInv, NEW kind, Fault(kind) PROVE faults' \in 0 .. MaxFaults /\ passed' = passed
  BY ReleaseAssumption DEF Fault, ReleaseInv, TypeOK

\* An event that goes out with a rejected row leaves the rows good.
LEMMA LateErrorInv ==
  ASSUME ReleaseInv, NEW w \in Scanners, NEW v \in Versions, NEW decided \in Version,
         decided.status \in {"rejected", "review", "production"},
         decided.review = "approved" => scanner[w].review = "approved" \/ ver[v].review = "approved",
         LateError(w, v, decided)
  PROVE  ReleaseInv'
  <1> DEFINE base == Written(w, v, decided)
             row  == Aborted(base)
  <1>1. /\ Work(w, v, row, NoScan, Retry(v, scanner[w].tries), Tombstone(v, scanner[w].live, decided), Upsert(v, decided))
        /\ faults' \in 0 .. MaxFaults /\ passed' = passed /\ scanner[w].v = {v}
    BY FaultBound DEF LateError
  <1>2. RowOK(v, ver[v]) /\ ScanOK(w)
    BY Parts
  <1>3. /\ base \in Version /\ base.status = decided.status
        /\ base.review = "approved" => ver[v].review = "approved" \/ scanner[w].review = "approved"
    BY WrittenIs
  <1> HIDE DEF base
  <1>4. row = [base EXCEPT !.scan = "failed", !.sandbox = "failed", !.status = "rejected"]
    BY <1>3 DEF Aborted, Exists
  <1>5. row \in Version /\ row.status = "rejected" /\ row.sandbox = "failed" /\ row.review = base.review
    BY <1>3, <1>4 DEF Version
  <1> HIDE DEF row
  <1>6. Api => (row.review = "approved" => v \in signed)
    BY <1>1, <1>2, <1>3, <1>5 DEF RowOK, ScanOK
  <1>7. Tombstone(v, scanner[w].live, decided) \in SUBSET Versions /\ Upsert(v, decided) \in SUBSET Versions
        /\ Retry(v, scanner[w].tries) \in [0 .. ScanRetries -> Nat]
    BY TombstoneType, RetryType, Parts
  <1> QED BY <1>1, <1>5, <1>6, <1>7, Parts, NoScanFacts, WorkInv

LEMMA ErrsInv ==
  ASSUME ReleaseInv, NEW w \in Scanners, NEW v \in Versions,
         \/ StaticErrs(w, v)
         \/ \E result \in {"passed", "failed", "skipped"}, issues \in BOOLEAN : FinishErrs(w, v, result, issues)
  PROVE  ReleaseInv'
  <1>1. CASE StaticErrs(w, v)
    <2>1. StaticFailure(v) \in Version /\ StaticFailure(v).status = "rejected"
          /\ StaticFailure(v).review = ver[v].review
      BY Parts DEF StaticFailure, Version
    <2> QED BY <1>1, <2>1, LateErrorInv DEF StaticErrs
  <1>2. ASSUME NEW result \in {"passed", "failed", "skipped"}, NEW issues \in BOOLEAN,
               FinishErrs(w, v, result, issues)
        PROVE  ReleaseInv'
    <2> DEFINE decided == Decided(w, v, result, issues)
    <2>1. LateError(w, v, decided)
      BY <1>2 DEF FinishErrs
    <2>2. decided \in Version /\ decided.status \in {"rejected", "review", "production"}
          /\ (decided.review = "approved" => scanner[w].review = "approved")
      BY DecidedIs
    <2> HIDE DEF decided
    <2> QED BY <2>1, <2>2, LateErrorInv
  <1> QED BY <1>1, <1>2

LEMMA BreaksInv == ASSUME ReleaseInv, NEW w \in Scanners, Breaks(w) PROVE ReleaseInv'
  <1> PICK v \in Versions :
        \/ \E retried \in BOOLEAN : ScanError(w, v, retried)
        \/ StaticErrs(w, v)
        \/ \E result \in {"passed", "failed", "skipped"}, issues \in BOOLEAN : FinishErrs(w, v, result, issues)
        \/ Crash(w, v)
        \/ Redeliver(w, v)
    BY DEF Breaks
  <1>1. ASSUME NEW retried \in BOOLEAN, ScanError(w, v, retried) PROVE ReleaseInv'
    <2> DEFINE messages == IF retried THEN Retry(v, scanner[w].tries) ELSE queue[v]
    <2>1. Work(w, v, Aborted(ver[v]), NoScan, messages, {}, {}) /\ scanner[w].v = {v}
          /\ faults' \in 0 .. MaxFaults /\ passed' = passed
      BY <1>1, FaultBound DEF ScanError
    <2>2. messages \in [0 .. ScanRetries -> Nat]
      BY Parts, RetryType
    <2> HIDE DEF messages
    <2> QED BY <2>1, <2>2, AbortInv
  <1>2. ASSUME Crash(w, v) PROVE ReleaseInv'
    <2>1. Work(w, v, ver[v], NoScan, Requeued(v, scanner[w].tries), {}, {}) /\ scanner[w].v = {v}
          /\ faults' \in 0 .. MaxFaults /\ passed' = passed
      BY <1>2, FaultBound DEF Crash
    <2>2. Requeued(v, scanner[w].tries) \in [0 .. ScanRetries -> Nat]
          /\ \E n \in 0 .. ScanRetries : Requeued(v, scanner[w].tries)[n] > 0
      BY Parts, RequeuedType
    <2> QED BY <2>1, <2>2, AbandonInv
  <1>3. ASSUME Redeliver(w, v) PROVE ReleaseInv'
    <2>1. Work(w, v, ver[v], scanner[w], Requeued(v, scanner[w].tries), {}, {}) /\ scanner[w].v = {v}
          /\ faults' \in 0 .. MaxFaults /\ passed' = passed
      BY <1>3, FaultBound DEF Redeliver
    <2>2. Requeued(v, scanner[w].tries) \in [0 .. ScanRetries -> Nat]
          /\ \E n \in 0 .. ScanRetries : Requeued(v, scanner[w].tries)[n] > 0
      BY Parts, RequeuedType
    <2>3. scanner[w].stage # "idle" /\ (Api => (scanner[w].review = "approved" => v \in signed))
      BY <2>1, Parts DEF ScanOK
    <2>4. Api => /\ ver[v].sandbox = "passed" => v \in passed'
                 /\ ver[v].review = "approved" => v \in signed
                 /\ Exists(ver[v]) => ver[v].sandbox # "none"
                 /\ ver[v].status = "production" => (policy.sandbox => v \in passed') /\ (policy.review => v \in signed)
      BY <2>1, Parts DEF RowOK, Vetted
    <2>5. ver[v].status = "deleted" => ver[v] = Gone
      BY Parts DEF RowOK
    <2> QED BY <2>1, <2>2, <2>3, <2>4, <2>5, Parts, WorkInv
  <1> QED BY <1>1, <1>2, <1>3, ErrsInv
-------------------------------------------------------------------------------
LEMMA CollectInv == ASSUME ReleaseInv, NEW v \in Versions, Collect(v) PROVE ReleaseInv'
  <1>1. /\ ver' = [ver EXCEPT ![v] = Gone]
        /\ UNCHANGED <<policy, skill, mirror, queue, scanner, req, rescans, faults, passed, signed>>
    BY DEF Collect
  <1>2. ver'[v] = Gone /\ \A u \in Versions \ {v} : ver'[u] = ver[u]
    BY <1>1 DEF ReleaseInv, TypeOK
  <1>3. TypeOK'
    BY <1>1, Gones DEF ReleaseInv, TypeOK
  <1>4. RescansBounded'
    BY <1>1 DEF ReleaseInv, RescansBounded, Rescanning
  <1>5. ScanningIsHeld'
    BY <1>1, <1>2, Gones DEF ReleaseInv, ScanningIsHeld, Outstanding
  <1>6. ASSUME NEW u \in Versions PROVE RowOK(u, ver[u])'
    <2>1. RowOK(u, ver[u])
      BY DEF ReleaseInv
    <2> QED BY <1>1, <1>2, <2>1, Gones DEF RowOK, Vetted, Exists
  <1>7. \A u \in Versions : ver[u].status # "absent" => ver'[u].status # "absent"
    BY <1>2, Gones
  <1>8. \A s \in Slots : ReqOK(s)'
    BY <1>1, <1>7 DEF ReleaseInv, ReqOK, Left
  <1>9. \A w \in Scanners : ScanOK(w)'
    BY <1>1 DEF ReleaseInv, ScanOK
  <1> QED BY <1>3, <1>4, <1>5, <1>6, <1>8, <1>9 DEF ReleaseInv

LEMMA StepInv == ReleaseInv /\ [Next]_vars => ReleaseInv'
  <1> SUFFICES ASSUME ReleaseInv, [Next]_vars PROVE ReleaseInv'
    OBVIOUS
  <1>1. ASSUME NEW s \in Slots, BeginSome(s) \/ \E lost \in BOOLEAN : Commit(s, lost) PROVE ReleaseInv'
    BY <1>1, BeginInv, CommitInv
  <1>2. ASSUME NEW w \in Scanners, Receives(w) PROVE ReleaseInv'
    BY <1>2, DeliverInv DEF Receives
  <1>3. ASSUME NEW w \in Scanners, Scans(w) PROVE ReleaseInv'
    BY <1>3, SkillGoneInv, RowGoneInv, StaticFailsInv, StartSandboxInv, FinishScanInv DEF Scans
  <1>4. ASSUME NEW w \in Scanners, Breaks(w) PROVE ReleaseInv'
    BY <1>4, BreaksInv
  <1>5. ASSUME NEW v \in Versions, Collect(v) PROVE ReleaseInv'
    BY <1>5, CollectInv
  <1>6. CASE UNCHANGED vars
    <2>1. UNCHANGED <<policy, skill, ver, mirror, queue, scanner, req, rescans, faults, passed, signed>>
      BY <1>6 DEF vars
    <2>2. TypeOK' /\ RescansBounded' /\ ScanningIsHeld'
      BY <2>1 DEF ReleaseInv, TypeOK, RescansBounded, Rescanning, ScanningIsHeld, Outstanding
    <2>3. (\A v \in Versions : RowOK(v, ver[v])') /\ (\A s \in Slots : ReqOK(s)') /\ (\A w \in Scanners : ScanOK(w)')
      BY <2>1 DEF ReleaseInv, RowOK, Vetted, ReqOK, Left, ScanOK
    <2> QED BY <2>2, <2>3 DEF ReleaseInv
  <1> QED BY <1>1, <1>2, <1>3, <1>4, <1>5, <1>6 DEF Next

THEOREM Invariance == Spec => []ReleaseInv
  <1> QED BY InitRelease, StepInv, PTL DEF Spec

\* Every variable keeps its type, whatever requests, scans, faults and deletions overlap.
THEOREM ReleaseTypes == Spec => []TypeOK
  <1>1. ReleaseInv => TypeOK
    BY DEF ReleaseInv
  <1> QED BY <1>1, Invariance, PTL

\* No version is left in scanning: for every number of workers, and whatever crashes,
\* exceptions and redeliveries there are, a worker has it or a message for it waits.
THEOREM HeldWhileScanning == Spec => []ScanningIsHeld
  <1>1. ReleaseInv => ScanningIsHeld
    BY DEF ReleaseInv
  <1> QED BY <1>1, Invariance, PTL

\* Where versions come from publish_version, those in production have what the policy asks
\* for: a scan that passed with its sandbox run, and the approval of an administrator,
\* however many scans and requests overlap.
THEOREM VettedInProduction == ASSUME Api PROVE Spec => []ProductionVetted
  <1>1. ReleaseInv => ProductionVetted
    BY DEF ReleaseInv, RowOK, Vetted, ProductionVetted
  <1> QED BY <1>1, Invariance, PTL

-------------------------------------------------------------------------------
(* Where requests come one at a time, to versions that nobody scans.                      *)
(*                                                                                       *)
(* Two requests of people that overlap do leave a rejected version in production, and a  *)
(* request under a scan does leave a follower behind.  Without them a request finds, when *)
(* it is flushed, the rows it has loaded (ReqCalm), and a scan ends with a release and a *)
(* rejection that are still those it remembers (ScanCalm, ScanFollows).                  *)
Alone == \A s, t \in Slots : s = t

NotOut(row) == row.review = "rejected" => row.status # "production"

ReqCalm(s) ==
    \A v \in req[s].v : /\ ~Outstanding(v)
                        /\ ver[v] \in {req[s].snap[v], Gone}
                        /\ NotOut(req[s].new[v])

SameWord(review, other) == review = "rejected" <=> other = "rejected"

ScanCalm(w) ==
    \A v \in Versions : scanner[w].v = {v} /\ Exists(ver[v]) => SameWord(scanner[w].review, ver[v].review)

CalmInv ==
    /\ ReleaseInv
    /\ \A v \in Versions : NotOut(ver[v])
    /\ \A s \in Slots : ReqCalm(s)
    /\ \A w \in Scanners : ScanCalm(w)

\* One message or one scan of a version at most: nothing is delivered twice.
Single(v) ==
    /\ \A n \in 0 .. ScanRetries : queue[v][n] <= 1
    /\ \A n, m \in 0 .. ScanRetries : queue[v][n] > 0 /\ queue[v][m] > 0 => n = m
    /\ \A w \in Scanners : scanner[w].v = {v} => \A n \in 0 .. ScanRetries : queue[v][n] = 0
    /\ \A w, x \in Scanners : scanner[w].v = {v} /\ scanner[x].v = {v} => w = x

Followed(v) == /\ Public(v) => v \in mirror
               /\ v \in mirror /\ ~Public(v) => rescans[v] > 0

\* A version is scanned while its skill is there, and is not live before the verdict.
ScannedApart(v) == Outstanding(v) /\ Exists(ver[v]) => skill = "active" /\ ~Live(ver[v])

ScanFollows(w) ==
    \A v \in Versions : scanner[w].v = {v} /\ Exists(ver[v]) => ~scanner[w].live /\ scanner[w].share = ver[v].share

\* What a request that loaded the rows of touched leaves of them and of a follower's copy.
Follows(op, touched, new, kept, drop, add) ==
    /\ op # "skill" => kept = skill /\ skill = "active"
    /\ add \subseteq touched
    /\ \A u \in Versions \ touched : /\ u \in drop => ver[u].share = "none"
                                     /\ op = "skill" => ~Exists(ver[u])
    /\ \A v \in touched :
          /\ ver[v].status # "deleted"
          /\ op \in {"publish", "rescan"} => new[v].status = "quarantine"
          /\ kept = "active" /\ Live(new[v]) => v \in (mirror \ drop) \cup add
          /\ v \in (mirror \ drop) \cup add /\ ~(kept = "active" /\ Live(new[v])) =>
                rescans[v] > 0 \/ op = "rescan"

ReqFollows(s) ==
    LET r == req[s] IN
    r.op # "none" => /\ Follows(r.op, r.v, r.new, r.skill, r.drop, r.add)
                     /\ \A v \in r.v : ver[v] = r.snap[v]

FeedInv ==
    /\ CalmInv
    /\ \A v \in Versions : Single(v) /\ Followed(v) /\ ScannedApart(v)
    /\ \A w \in Scanners : ScanFollows(w)
    /\ \A s \in Slots : ReqFollows(s)

\* What the rows say of a version that has none.
LEMMA NoRowFacts ==
  ASSUME ReleaseInv, NEW v \in Versions, ~Exists(ver[v])
  PROVE  ver[v].share = "none" /\ ~Live(ver[v]) /\ NotOut(ver[v])
  BY DEF ReleaseInv, RowOK, Exists, NoRow, Gone, Live, NotOut

LEMMA VerdictOut ==
  ASSUME NEW row \in Version, NEW issues \in BOOLEAN
  PROVE  LET r == Verdict(row, issues) IN NotOut(r) /\ SameWord(r.review, row.review)
  <1> DEFINE asked == IF policy.review /\ row.review = "not_required" THEN "pending" ELSE row.review
             r     == Verdict(row, issues)
  <1>1. SameWord(asked, row.review)
    BY DEF SameWord
  <1>2. CASE row.scan = "failed" \/ Blocked(row, asked)
    <2>1. r = [row EXCEPT !.status = "rejected", !.review = asked]
      BY <1>2 DEF Verdict
    <2> QED BY <1>1, <2>1 DEF Version, NotOut
  <1>3. CASE ~(row.scan = "failed" \/ Blocked(row, asked)) /\ (Unreviewed(asked) \/ issues)
    <2>1. r = [row EXCEPT !.status = "review", !.review = asked]
      BY <1>3 DEF Verdict
    <2> QED BY <1>1, <2>1 DEF Version, NotOut
  <1>4. CASE ~(row.scan = "failed" \/ Blocked(row, asked)) /\ ~(Unreviewed(asked) \/ issues)
    <2> DEFINE review == IF row.review = "pending" THEN "not_required" ELSE asked
    <2>1. r = [row EXCEPT !.status = "production", !.review = review]
      BY <1>4 DEF Verdict
    <2>2. asked # "rejected" /\ review # "rejected" /\ row.review # "rejected"
      BY <1>4 DEF Blocked
    <2> QED BY <2>1, <2>2 DEF Version, NotOut, SameWord
  <1> QED BY <1>2, <1>3, <1>4

\* What a request is when it begins.
Clean(s, op, touched, new, kept, drop, add) ==
    /\ Start(s, op, touched, new, kept, drop, add)
    /\ touched \in SUBSET Versions
    /\ op # "none"
    /\ \A v \in touched : NotOut(new[v])
    /\ (\A v \in Versions : Followed(v)) => Follows(op, touched, new, kept, drop, add)

Begun(s) == \E op, touched, new, kept, drop, add : Clean(s, op, touched, new, kept, drop, add)

LEMMA ChangeBegins ==
  ASSUME ReleaseInv, NEW s \in Slots, NEW op \in {"share", "unshare", "row", "review"}, NEW v \in Versions,
         NEW row \in Version, Change(s, op, v, row), NotOut(row)
  PROVE  Begun(s)
  <1> DEFINE new  == [ver EXCEPT ![v] = row]
             drop == Tombstone(v, Live(ver[v]), row)
             add  == Upsert(v, row)
  <1>1. Start(s, op, {v}, new, skill, drop, add) /\ Exists(ver[v]) /\ skill = "active"
    BY DEF Change
  <1>2. new[v] = row
    BY DEF ReleaseInv, TypeOK
  <1>3. drop = (IF Live(ver[v]) /\ ~Live(row) THEN {v} ELSE {}) /\ add = (IF Live(row) THEN {v} ELSE {})
    BY DEF Tombstone, Upsert
  <1> HIDE DEF new, drop, add
  <1>4. ASSUME \A u \in Versions : Followed(u) PROVE Follows(op, {v}, new, skill, drop, add)
    <2>1. v \in mirror /\ ~Live(ver[v]) => rescans[v] > 0
      BY <1>4 DEF Followed, Public
    <2>2. Live(row) => v \in (mirror \ drop) \cup add
      BY <1>3
    <2>3. v \in (mirror \ drop) \cup add /\ ~Live(row) => rescans[v] > 0
      BY <1>3, <2>1
    <2>4. add \subseteq {v} /\ drop \subseteq {v} /\ ver[v].status # "deleted"
      BY <1>1, <1>3 DEF Exists
    <2> QED BY <1>1, <1>2, <2>2, <2>3, <2>4 DEF Follows
  <1>5. Clean(s, op, {v}, new, skill, drop, add)
    BY <1>1, <1>2, <1>4 DEF Clean
  <1> QED BY <1>5 DEF Begun

\* A request that puts version v into quarantine, and records no event.
LEMMA QuarantineBegins ==
  ASSUME ReleaseInv, NEW s \in Slots, NEW op \in {"publish", "rescan"}, NEW v \in Versions, NEW new,
         Start(s, op, {v}, new, skill, {}, {}), skill = "active", ver[v].status # "deleted",
         new[v].status = "quarantine", op = "publish" => ~Exists(ver[v])
  PROVE  Begun(s)
  <1>1. ~Live(new[v]) /\ NotOut(new[v])
    BY DEF Live, NotOut
  <1>2. ASSUME \A u \in Versions : Followed(u) PROVE Follows(op, {v}, new, skill, {}, {})
    <2>1. v \in mirror => rescans[v] > 0 \/ op = "rescan"
      BY <1>2, NoRowFacts DEF Followed, Public
    <2> QED BY <1>1, <2>1 DEF Follows
  <1>3. Clean(s, op, {v}, new, skill, {}, {})
    BY <1>1, <1>2 DEF Clean
  <1> QED BY <1>3 DEF Begun

LEMMA DeleteBegins ==
  ASSUME ReleaseInv, NEW s \in Slots, NEW v \in Versions, DeleteVersion(s, v) PROVE Begun(s)
  <1> DEFINE drop == IF SharedVersions = {v} THEN Versions ELSE Tombstone(v, Live(ver[v]), Gone)
             new  == [ver EXCEPT ![v] = Gone]
  <1>1. Start(s, "delete", {v}, new, skill, drop, {}) /\ Exists(ver[v]) /\ skill = "active"
    BY DEF DeleteVersion
  <1>2. new[v] = Gone /\ ~Live(Gone) /\ NotOut(Gone)
    BY Gones DEF ReleaseInv, TypeOK, Live, NotOut
  <1>3. \/ drop = Versions /\ SharedVersions = {v}
        \/ drop = IF Live(ver[v]) THEN {v} ELSE {}
    BY <1>2 DEF Tombstone
  <1> HIDE DEF new, drop
  <1>4. ASSUME \A u \in Versions : Followed(u) PROVE Follows("delete", {v}, new, skill, drop, {})
    <2>1. v \in mirror \ drop => rescans[v] > 0
      BY <1>3, <1>4 DEF Followed, Public
    <2>2. \A u \in Versions \ {v} : u \in drop => ver[u].share = "none"
      BY <1>3 DEF SharedVersions
    <2>3. ver[v].status # "deleted"
      BY <1>1 DEF Exists
    <2> QED BY <1>1, <1>2, <2>1, <2>2, <2>3 DEF Follows
  <1>5. Clean(s, "delete", {v}, new, skill, drop, {})
    BY <1>1, <1>2, <1>4 DEF Clean
  <1> QED BY <1>5 DEF Begun

LEMMA SkillBegins ==
  ASSUME ReleaseInv, \A v \in Versions : NotOut(ver[v]), NEW s \in Slots,
         DeleteSkill(s) \/ RestoreSkill(s) \/ PurgeSkill(s)
  PROVE  Begun(s)
  <1>1. /\ Rows \in SUBSET Versions
        /\ \A v \in Rows : Exists(ver[v]) /\ ver[v].status # "deleted"
        /\ \A v \in Versions \ Rows : ~Exists(ver[v]) /\ ver[v].share = "none"
    BY NoRowFacts DEF Rows, Exists
  <1>2. CASE DeleteSkill(s)
    <2> DEFINE drop == IF SharedVersions # {} THEN Versions ELSE {}
    <2>1. Start(s, "skill", Rows, ver, "deleted", drop, {}) /\ skill = "active"
      BY <1>2 DEF DeleteSkill
    <2>2. ASSUME \A u \in Versions : Followed(u) PROVE Follows("skill", Rows, ver, "deleted", drop, {})
      <3>1. ASSUME NEW v \in Rows, v \in mirror \ drop PROVE rescans[v] > 0
        <4>1. SharedVersions = {} /\ v \in mirror /\ v \in Versions
          BY <1>1, <3>1
        <4>2. ~Public(v)
          BY <4>1 DEF SharedVersions, Public, Live
        <4> QED BY <2>2, <4>1, <4>2 DEF Followed
      <3> QED BY <1>1, <3>1 DEF Follows
    <2> HIDE DEF drop
    <2>3. Clean(s, "skill", Rows, ver, "deleted", drop, {})
      BY <1>1, <2>1, <2>2 DEF Clean
    <2> QED BY <2>3 DEF Begun
  <1>3. CASE RestoreSkill(s)
    <2> DEFINE add == {v \in Versions : Live(ver[v])}
    <2>1. Start(s, "skill", Rows, ver, "active", {}, add) /\ skill = "deleted"
      BY <1>3 DEF RestoreSkill
    <2>2. ASSUME \A u \in Versions : Followed(u) PROVE Follows("skill", Rows, ver, "active", {}, add)
      <3>1. \A v \in Rows : v \in (mirror \ {}) \cup add /\ ~Live(ver[v]) => rescans[v] > 0
        BY <1>1, <2>2 DEF Followed, Public
      <3>2. add \subseteq Rows
        BY <1>1, NoRowFacts
      <3> QED BY <1>1, <3>1, <3>2 DEF Follows
    <2> HIDE DEF add
    <2>3. Clean(s, "skill", Rows, ver, "active", {}, add)
      BY <1>1, <2>1, <2>2 DEF Clean
    <2> QED BY <2>3 DEF Begun
  <1>4. CASE PurgeSkill(s)
    <2> DEFINE new == [v \in Versions |-> IF v \in Rows THEN Gone ELSE ver[v]]
    <2>1. Start(s, "skill", Rows, new, "purged", {}, {}) /\ skill = "deleted"
      BY <1>4 DEF PurgeSkill
    <2>2. \A v \in Rows : new[v] = Gone /\ NotOut(new[v])
      BY <1>1, Gones DEF NotOut
    <2> HIDE DEF new
    <2>3. ASSUME \A u \in Versions : Followed(u) PROVE Follows("skill", Rows, new, "purged", {}, {})
      <3>1. \A v \in Rows : v \in mirror => rescans[v] > 0
        BY <1>1, <2>1, <2>3 DEF Followed, Public
      <3> QED BY <1>1, <3>1 DEF Follows
    <2>4. Clean(s, "skill", Rows, new, "purged", {}, {})
      BY <1>1, <2>1, <2>2, <2>3 DEF Clean
    <2> QED BY <2>4 DEF Begun
  <1> QED BY <1>2, <1>3, <1>4

\* Requests leave the versions they touch in order.
LEMMA Begins ==
  ASSUME ReleaseInv, \A v \in Versions : NotOut(ver[v]), NEW s \in Slots, BeginSome(s)
  PROVE  Begun(s)
  <1>0. \A v \in Versions : ver[v] \in Version
    BY DEF ReleaseInv, TypeOK
  <1>1. ASSUME NEW v \in Versions, NEW via \in Publishers, NEW share \in BOOLEAN, Publish(s, v, via, share)
        PROVE  Begun(s)
    <2> DEFINE row == IF via = "api"
               THEN [status |-> "quarantine", review |-> IF policy.review THEN "pending" ELSE "not_required",
                     required |-> policy.review, share |-> IF share THEN Shared ELSE "none",
                     scan |-> "pending", sandbox |-> "pending"]
               ELSE [NoRow EXCEPT !.status = "quarantine", !.share = IF share THEN "approved" ELSE "none"]
               new == [ver EXCEPT ![v] = row]
    <2>1. Start(s, "publish", {v}, new, skill, {}, {}) /\ skill = "active" /\ ver[v].status = "absent"
      BY <1>1 DEF Publish
    <2>2. row.status = "quarantine"
      BY DEF NoRow
    <2>3. new[v].status = "quarantine"
      BY <2>2 DEF ReleaseInv, TypeOK
    <2> HIDE DEF new, row
    <2> QED BY <2>1, <2>3, QuarantineBegins DEF Exists
  <1>2. ASSUME NEW op \in {"share", "unshare"}, NEW v \in Versions, NEW share \in {"none"} \cup Decisions,
               Change(s, op, v, [ver[v] EXCEPT !.share = share])
        PROVE  Begun(s)
    <2> DEFINE row == [ver[v] EXCEPT !.share = share]
    <2>1. row \in Version /\ NotOut(row)
      BY <1>0 DEF Version, NotOut
    <2> QED BY <1>2, <2>1, ChangeBegins
  <1>3. CASE \E v \in Versions : Share(s, v) \/ Unshare(s, v)
    BY <1>2, <1>3, SharedType DEF Share, Unshare
  <1>4. CASE \E v \in Versions, decision \in Decisions : ApproveShare(s, v, decision)
    BY <1>2, <1>4 DEF ApproveShare
  <1>5. ASSUME NEW v \in Versions, NEW issues \in BOOLEAN, Approve(s, v, issues) PROVE Begun(s)
    <2> DEFINE old == [ver[v] EXCEPT !.review = "approved"]
               row == Verdict(old, issues)
    <2>1. old \in Version /\ policy \in Policy
      BY <1>0 DEF Version, Decisions, ReleaseInv, TypeOK
    <2>2. row \in Version /\ NotOut(row)
      BY <2>1, VerdictIs, VerdictOut
    <2>3. Change(s, "review", v, row)
      BY <1>5 DEF Approve
    <2> HIDE DEF row
    <2> QED BY <2>2, <2>3, ChangeBegins
  <1>6. ASSUME NEW v \in Versions, Reject(s, v) PROVE Begun(s)
    <2> DEFINE row == [ver[v] EXCEPT !.review = "rejected", !.status = "rejected"]
    <2>1. row \in Version /\ NotOut(row) /\ Change(s, "row", v, row)
      BY <1>0, <1>6 DEF Reject, Version, Decisions, NotOut
    <2> HIDE DEF row
    <2> QED BY <2>1, ChangeBegins
  <1>7. ASSUME NEW v \in Versions, Reset(s, v) PROVE Begun(s)
    <2> DEFINE review == IF ver[v].required THEN "pending" ELSE "not_required"
               status == IF ver[v].required THEN "review" ELSE "quarantine"
               row    == [ver[v] EXCEPT !.review = review, !.status = status]
    <2>1. Change(s, "row", v, row)
      BY <1>7 DEF Reset
    <2>2. review \in {"pending", "not_required"} /\ status \in {"review", "quarantine"}
      OBVIOUS
    <2>3. row \in Version /\ NotOut(row)
      BY <1>0, <2>2 DEF Version, Decisions, NotOut
    <2> HIDE DEF row
    <2> QED BY <2>1, <2>3, ChangeBegins
  <1>8. ASSUME NEW v \in Versions, Rescan(s, v) PROVE Begun(s)
    <2> DEFINE new == [ver EXCEPT ![v].status = "quarantine", ![v].scan = "pending", ![v].sandbox = "pending"]
    <2>1. Start(s, "rescan", {v}, new, skill, {}, {}) /\ skill = "active" /\ ver[v].status # "deleted"
      BY <1>8 DEF Rescan, Exists
    <2>2. new[v] = [ver[v] EXCEPT !.status = "quarantine", !.scan = "pending", !.sandbox = "pending"]
      BY DEF ReleaseInv, TypeOK
    <2>3. new[v].status = "quarantine"
      BY <1>0, <2>2 DEF Version
    <2> HIDE DEF new
    <2> QED BY <2>1, <2>3, QuarantineBegins
  <1>9. CASE \E v \in Versions : DeleteVersion(s, v)
    BY <1>9, DeleteBegins
  <1>10. CASE DeleteSkill(s) \/ RestoreSkill(s) \/ PurgeSkill(s)
    BY <1>10, SkillBegins
  <1> QED BY <1>1, <1>3, <1>4, <1>5, <1>6, <1>7, <1>8, <1>9, <1>10 DEF BeginSome

\* The requests after one has begun.
LEMMA BegunReq ==
  ASSUME ReleaseInv, NEW s \in Slots, NEW op, NEW touched \in SUBSET Versions, NEW new, NEW kept, NEW drop, NEW add,
         Start(s, op, touched, new, kept, drop, add)
  PROVE  /\ UNCHANGED <<policy, skill, ver, mirror, queue, scanner, rescans>>
         /\ Patient => \A v \in touched : ~Outstanding(v)
         /\ req'[s].op = op /\ req'[s].v = touched /\ req'[s].skill = kept
         /\ req'[s].drop = drop /\ req'[s].add = add
         /\ \A v \in touched : req'[s].snap[v] = ver[v] /\ req'[s].new[v] = new[v]
         /\ \A t \in Slots \ {s} : req'[t] = req[t]
  <1> DEFINE q == [op |-> op, v |-> touched, skill |-> kept, drop |-> drop, add |-> add,
                   snap |-> [v \in Versions |-> IF v \in touched THEN ver[v] ELSE NoRow],
                   new  |-> [v \in Versions |-> IF v \in touched THEN new[v] ELSE NoRow]]
  <1>1. /\ UNCHANGED <<policy, skill, ver, mirror, queue, scanner, rescans>>
        /\ Patient => \A v \in touched : ~Outstanding(v)
        /\ req' = [req EXCEPT ![s] = q]
    BY DEF Start
  <1>2. req'[s] = q /\ \A t \in Slots \ {s} : req'[t] = req[t]
    BY <1>1 DEF ReleaseInv, TypeOK
  <1>3. \A v \in touched : q.snap[v] = ver[v] /\ q.new[v] = new[v]
    OBVIOUS
  <1> QED BY <1>1, <1>2, <1>3

LEMMA SameOutstanding ==
  ASSUME UNCHANGED <<queue, scanner>>, NEW v PROVE Outstanding(v)' <=> Outstanding(v)
  BY DEF Outstanding

LEMMA BeginCalm ==
  ASSUME Patient, CalmInv, ReleaseInv', NEW s \in Slots, BeginSome(s)
  PROVE  CalmInv'
  <1>1. PICK op, touched, new, kept, drop, add : Clean(s, op, touched, new, kept, drop, add)
    BY Begins DEF Begun, CalmInv
  <1>2. touched \in SUBSET Versions /\ Start(s, op, touched, new, kept, drop, add) /\ ReleaseInv
    BY <1>1 DEF Clean, CalmInv
  <1>3. /\ UNCHANGED <<ver, queue, scanner>> /\ \A v \in touched : ~Outstanding(v)
        /\ req'[s].v = touched
        /\ \A v \in touched : req'[s].snap[v] = ver[v] /\ req'[s].new[v] = new[v]
        /\ \A t \in Slots \ {s} : req'[t] = req[t]
    BY <1>2, BegunReq
  <1>4. ASSUME NEW t \in Slots, NEW v \in req'[t].v
        PROVE  ~Outstanding(v)' /\ ver'[v] \in {req'[t].snap[v], Gone} /\ NotOut(req'[t].new[v])
    <2>1. CASE t = s
      BY <1>1, <1>3, <2>1, SameOutstanding DEF Clean
    <2>2. CASE t # s
      BY <1>3, <2>2, SameOutstanding DEF CalmInv, ReqCalm
    <2> QED BY <2>1, <2>2
  <1>5. \A t \in Slots : ReqCalm(t)'
    BY <1>4 DEF ReqCalm
  <1>6. (\A v \in Versions : NotOut(ver[v])') /\ \A w \in Scanners : ScanCalm(w)'
    BY <1>3 DEF CalmInv, NotOut, ScanCalm
  <1> QED BY <1>5, <1>6 DEF CalmInv

\* A row that is flushed over what the request has loaded becomes what the request leaves.
LEMMA FlushedSame ==
  ASSUME NEW row \in Version, NEW new \in Version PROVE Flush(row, row, new) = new
  <1>1. DOMAIN row = DOMAIN new /\ new = [c \in DOMAIN new |-> new[c]]
    BY DEF Version
  <1>2. Flush(row, row, new) = [c \in DOMAIN row |-> IF new[c] = row[c] THEN row[c] ELSE new[c]]
    BY DEF Flush
  <1>3. \A c \in DOMAIN row : (IF new[c] = row[c] THEN row[c] ELSE new[c]) = new[c]
    OBVIOUS
  <1> QED BY <1>1, <1>2, <1>3

LEMMA FlushedRows ==
  ASSUME CalmInv, NEW s \in Slots, NEW v \in Versions, req[s].op # "none"
  PROVE  LET r == req[s] IN
         /\ v \notin r.v => Flushed(r)[v] = ver[v]
         /\ v \in r.v => Flushed(r)[v] = (IF ver[v] = Gone THEN Gone ELSE r.new[v])
  <1> DEFINE r == req[s]
  <1>1. ver[v] \in Version /\ r.snap[v] \in Version /\ r.new[v] \in Version
        /\ (v \notin r.v => r.snap[v] = NoRow /\ r.new[v] = NoRow)
    BY DEF CalmInv, ReleaseInv, TypeOK, Request, ReqOK
  <1>2. Flushed(r)[v] = IF Gone \in {ver[v], r.new[v]} THEN Gone ELSE Flush(ver[v], r.snap[v], r.new[v])
    BY DEF Flushed
  <1>3. CASE v \notin r.v
    <2>1. Flush(ver[v], NoRow, NoRow) = ver[v]
      <3>1. Flush(ver[v], NoRow, NoRow) = [c \in DOMAIN ver[v] |-> ver[v][c]]
        BY DEF Flush
      <3> QED BY <1>1, <3>1 DEF Version
    <2> QED BY <1>1, <1>2, <1>3, <2>1, Gones
  <1>4. CASE v \in r.v /\ ver[v] # Gone
    <2>1. ver[v] = r.snap[v]
      BY <1>4 DEF CalmInv, ReqCalm
    <2> QED BY <1>1, <1>2, <1>4, <2>1, FlushedSame
  <1> QED BY <1>2, <1>3, <1>4

\* What the end of a request does: nothing, or what it has computed.
LEMMA CommitIs ==
  ASSUME ReleaseInv, NEW s \in Slots, NEW lost \in BOOLEAN, Commit(s, lost)
  PROVE  /\ req[s].op # "none" /\ req[s] \in Request /\ UNCHANGED <<policy, scanner>>
         /\ req'[s] = NoRequest /\ \A t \in Slots \ {s} : req'[t] = req[t]
         /\ \/ UNCHANGED <<skill, ver, mirror, queue, rescans>>
            \/ LET r == req[s] IN
               /\ ver' = Flushed(r) /\ skill' = (IF r.op = "skill" THEN r.skill ELSE skill)
               /\ mirror' = (mirror \ r.drop) \cup r.add /\ queue' = Sent(r, lost)
               /\ \A v \in Versions : rescans'[v] = IF r.op = "rescan" /\ v \in r.v THEN rescans[v] + 1 ELSE rescans[v]
  <1>1. req' = [req EXCEPT ![s] = NoRequest] /\ UNCHANGED <<policy, scanner>> /\ req[s].op # "none"
    BY DEF Commit
  <1>2. req[s] \in Request /\ req'[s] = NoRequest /\ \A t \in Slots \ {s} : req'[t] = req[t]
    BY <1>1 DEF ReleaseInv, TypeOK
  <1> QED BY <1>1, <1>2 DEF Commit

LEMMA SentTo ==
  ASSUME ReleaseInv, NEW r, NEW lost, NEW v \in Versions
  PROVE  Sent(r, lost)[v] = queue[v]
         \/ (v \in r.v /\ r.op \in {"publish", "rescan"} /\ Sent(r, lost)[v] = [queue[v] EXCEPT ![0] = @ + 1])
  BY DEF Sent

LEMMA CommitCalm ==
  ASSUME Alone, CalmInv, ReleaseInv', NEW s \in Slots, NEW lost \in BOOLEAN, Commit(s, lost)
  PROVE  CalmInv'
  <1> DEFINE r == req[s]
  <1>1. /\ r.op # "none" /\ scanner' = scanner /\ req'[s] = NoRequest
        /\ (UNCHANGED <<ver, queue>> \/ (ver' = Flushed(r) /\ queue' = Sent(r, lost)))
    BY CommitIs DEF CalmInv
  <1>2. \A t \in Slots : ReqCalm(t)'
    BY <1>1, NoRequestFacts DEF Alone, ReqCalm
  <1>3. ASSUME NEW v \in Versions
        PROVE  NotOut(ver'[v]) /\ (v \notin r.v => ver'[v] = ver[v])
    <2>1. NotOut(ver[v]) /\ (v \in r.v => NotOut(r.new[v])) /\ NotOut(Gone)
      BY Gones DEF CalmInv, ReqCalm, NotOut
    <2> QED BY <1>1, <2>1, FlushedRows
  <1>4. \A v \in Versions, w \in Scanners : scanner[w].v = {v} => v \notin r.v
    BY DEF CalmInv, ReqCalm, Outstanding
  <1>5. \A w \in Scanners : ScanCalm(w)'
    BY <1>1, <1>3, <1>4 DEF CalmInv, ScanCalm
  <1> QED BY <1>2, <1>3, <1>5 DEF CalmInv, NotOut

\* A step of a scan that neither brings a rejected version out nor changes what the other
\* scans of it remember.
LEMMA WorkCalm ==
  ASSUME CalmInv, ReleaseInv', NEW w \in Scanners, NEW v \in Versions, NEW row, NEW scan, NEW messages,
         NEW drop, NEW add, Work(w, v, row, scan, messages, drop, add),
         Outstanding(v), scanner[w].v \subseteq {v}, scan.v \subseteq {v}, NotOut(row),
         Exists(row) => Exists(ver[v]) /\ SameWord(row.review, ver[v].review)
                        /\ (scan.v = {v} => SameWord(scan.review, row.review))
  PROVE  CalmInv'
  <1>1. /\ ver' = [ver EXCEPT ![v] = row] /\ scanner' = [scanner EXCEPT ![w] = scan]
        /\ queue' = [queue EXCEPT ![v] = messages] /\ req' = req
    BY DEF Work
  <1>2. /\ ver'[v] = row /\ scanner'[w] = scan
        /\ \A u \in Versions \ {v} : ver'[u] = ver[u] /\ queue'[u] = queue[u]
        /\ \A x \in Scanners \ {w} : scanner'[x] = scanner[x]
    BY <1>1 DEF CalmInv, ReleaseInv, TypeOK
  <1>3. \A u \in Versions \ {v} : Outstanding(u)' => Outstanding(u)
    BY <1>2 DEF Outstanding
  <1>4. ASSUME NEW s \in Slots PROVE ReqCalm(s)'
    <2>1. v \notin req[s].v /\ req[s].v \subseteq Versions
      BY DEF CalmInv, ReqCalm, ReleaseInv, TypeOK, Request
    <2> QED BY <1>1, <1>2, <1>3, <2>1 DEF CalmInv, ReqCalm
  <1>5. ASSUME NEW x \in Scanners, NEW u \in Versions, scanner'[x].v = {u}, Exists(ver'[u])
        PROVE  SameWord(scanner'[x].review, ver'[u].review)
    <2>1. CASE x = w
      BY <1>2, <1>5, <2>1
    <2>2. CASE x # w /\ u = v
      BY <1>2, <1>5, <2>2 DEF CalmInv, ScanCalm, SameWord
    <2>3. CASE x # w /\ u # v
      BY <1>2, <1>5, <2>3 DEF CalmInv, ScanCalm
    <2> QED BY <2>1, <2>2, <2>3
  <1>6. \A x \in Scanners : ScanCalm(x)'
    BY <1>5 DEF ScanCalm
  <1>7. \A u \in Versions : NotOut(ver[u])'
    BY <1>2 DEF CalmInv, NotOut
  <1> QED BY <1>4, <1>6, <1>7 DEF CalmInv

\* A step that leaves the review and ends the scan, or goes on with it.
LEMMA QuietCalm ==
  ASSUME CalmInv, ReleaseInv', NEW w \in Scanners, NEW v \in Versions, NEW row, NEW scan, NEW messages,
         NEW drop, NEW add, Work(w, v, row, scan, messages, drop, add),
         scanner[w].v = {v}, scan.v = {} \/ (scan.v = {v} /\ scan.review = scanner[w].review),
         row = ver[v] \/ (Exists(ver[v]) /\ row.review = ver[v].review /\ row.status \in {ver[v].status, "rejected"})
  PROVE  CalmInv'
  <1>1. Outstanding(v) /\ (Exists(ver[v]) => SameWord(scanner[w].review, ver[v].review)) /\ NotOut(ver[v])
    BY DEF CalmInv, ScanCalm, Outstanding
  <1>2. NotOut(row) /\ (Exists(row) => Exists(ver[v]) /\ SameWord(row.review, ver[v].review))
    BY <1>1 DEF NotOut, SameWord
  <1>3. Exists(row) => (scan.v = {v} => SameWord(scan.review, row.review))
    BY <1>1, <1>2 DEF SameWord
  <1>4. scan.v \subseteq {v} /\ scanner[w].v \subseteq {v}
    OBVIOUS
  <1> QED BY <1>1, <1>2, <1>3, <1>4, WorkCalm

\* The verdict of a scan that remembers whether the version is rejected.
LEMMA DecidedCalm ==
  ASSUME CalmInv, NEW w \in Scanners, NEW v \in Versions, NEW result \in {"passed", "failed", "skipped"},
         NEW issues \in BOOLEAN, scanner[w].v = {v}, Exists(ver[v])
  PROVE  LET decided == Decided(w, v, result, issues)
             row     == Written(w, v, decided) IN
         /\ decided \in Version /\ row \in Version
         /\ NotOut(row) /\ SameWord(row.review, ver[v].review) /\ row.share = ver[v].share
         /\ decided.status \in {"rejected", "review", "production"} /\ row.status = decided.status
         /\ scanner[w].share = ver[v].share => (Live(decided) <=> Live(row))
  <1> DEFINE mem     == scanner[w]
             seen    == [ver[v] EXCEPT !.scan = Scanned(result), !.sandbox = result, !.review = mem.review,
                                       !.share = SeenShare(mem.share, @)]
             decided == Decided(w, v, result, issues)
             row     == Written(w, v, decided)
  <1>0. ReleaseInv
    BY DEF CalmInv
  <1>1. decided \in Version /\ decided.status \in {"rejected", "review", "production"}
    BY <1>0, DecidedIs
  <1>2. ver[v] \in Version /\ mem \in Scan /\ policy \in Policy /\ SameWord(mem.review, ver[v].review)
        /\ Scanned(result) \in {"passed", "failed"}
    BY <1>0, Parts DEF CalmInv, ScanCalm, Scanned
  <1>3. seen \in Version /\ seen.review = mem.review /\ seen.share = SeenShare(mem.share, ver[v].share)
    BY <1>2 DEF Version, Scan, SeenShare
  <1>4. decided = IF seen.scan = "failed" THEN [seen EXCEPT !.status = "rejected"] ELSE Verdict(seen, issues)
    BY DEF Decided
  <1> HIDE DEF seen, decided
  <1>5. decided.share = seen.share /\ NotOut(decided) /\ SameWord(decided.review, mem.review)
    <2>1. CASE seen.scan = "failed"
      <3>1. decided = [seen EXCEPT !.status = "rejected"]
        BY <1>4, <2>1
      <3> QED BY <1>3, <3>1 DEF Version, NotOut, SameWord
    <2>2. CASE seen.scan # "failed"
      <3>1. decided = Verdict(seen, issues)
        BY <1>4, <2>2
      <3> QED BY <1>2, <1>3, <2>2, <3>1, VerdictIs, VerdictOut
    <2> QED BY <2>1, <2>2
  <1>6. /\ row \in Version /\ row.status = decided.status /\ row.share = ver[v].share
        /\ row.review = IF decided.review = mem.review THEN ver[v].review ELSE decided.review
    BY <1>0, <1>1, WrittenIs
  <1> HIDE DEF row
  <1>7. NotOut(row) /\ SameWord(row.review, ver[v].review)
    BY <1>2, <1>5, <1>6 DEF NotOut, SameWord
  <1>8. mem.share = ver[v].share => (Live(decided) <=> Live(row))
    BY <1>3, <1>5, <1>6 DEF SeenShare, Live
  <1> QED BY <1>1, <1>6, <1>7, <1>8 DEF decided, row

LEMMA FinishIs ==
  ASSUME CalmInv, NEW w \in Scanners, NEW v \in Versions, NEW result \in {"passed", "failed", "skipped"},
         NEW issues \in BOOLEAN, FinishScan(w, v, result, issues)
  PROVE  \E row, decided :
            /\ Work(w, v, row, NoScan, queue[v], Tombstone(v, scanner[w].live, decided), Upsert(v, decided))
            /\ scanner[w].v = {v} /\ Exists(ver[v]) /\ NotOut(row) /\ SameWord(row.review, ver[v].review)
            /\ row.share = ver[v].share
            /\ scanner[w].share = ver[v].share => (Live(decided) <=> Live(row))
  <1> DEFINE decided == Decided(w, v, result, issues)
             row     == Written(w, v, decided)
  <1>1. /\ scanner[w].v = {v} /\ Exists(ver[v])
        /\ Work(w, v, row, NoScan, queue[v], Tombstone(v, scanner[w].live, decided), Upsert(v, decided))
    BY DEF FinishScan
  <1>2. /\ NotOut(row) /\ SameWord(row.review, ver[v].review) /\ row.share = ver[v].share
        /\ scanner[w].share = ver[v].share => (Live(decided) <=> Live(row))
    BY <1>1, DecidedCalm
  <1> HIDE DEF decided, row
  <1> QED BY <1>1, <1>2

\* A row that is failed, if it is there.
LEMMA AbortedIs ==
  ASSUME ReleaseInv, NEW v \in Versions
  PROVE  \/ Aborted(ver[v]) = ver[v] /\ ~Exists(ver[v])
         \/ /\ Exists(ver[v]) /\ Aborted(ver[v]).review = ver[v].review /\ Aborted(ver[v]).status = "rejected"
            /\ Aborted(ver[v]).share = ver[v].share
  BY DEF Aborted, ReleaseInv, TypeOK, Version

LEMMA DeliverCalm ==
  ASSUME CalmInv, ReleaseInv', NEW w \in Scanners, NEW v \in Versions, NEW tries \in 0 .. ScanRetries,
         Deliver(w, v, tries)
  PROVE  CalmInv'
  <1> DEFINE row  == [ver[v] EXCEPT !.status = "scanning", !.scan = "running", !.sandbox = "pending"]
             left == [queue[v] EXCEPT ![tries] = @ - 1]
             scan == [stage |-> "static", v |-> {v}, tries |-> tries, review |-> ver[v].review,
                      share |-> ver[v].share, live |-> Live(ver[v])]
  <1>1. /\ scanner[w].v = {} /\ Outstanding(v) /\ NotOut(ver[v]) /\ ver[v] \in Version
        /\ IF Exists(ver[v]) THEN Work(w, v, row, scan, left, {}, {}) ELSE Work(w, v, ver[v], NoScan, left, {}, {})
    BY Parts DEF Deliver, CalmInv, ScanOK, Outstanding
  <1>2. CASE Exists(ver[v])
    <2>1. NotOut(row) /\ SameWord(row.review, ver[v].review) /\ SameWord(scan.review, row.review)
          /\ scan.v = {v}
      BY <1>1 DEF Version, NotOut, SameWord
    <2>2. Work(w, v, row, scan, left, {}, {})
      BY <1>1, <1>2
    <2> HIDE DEF row, scan, left
    <2> QED BY <1>1, <1>2, <2>1, <2>2, WorkCalm
  <1>3. CASE ~Exists(ver[v])
    <2>1. Work(w, v, ver[v], NoScan, left, {}, {}) /\ NoScan.v = {}
      BY <1>1, <1>3, NoScanFacts
    <2> HIDE DEF left
    <2> QED BY <1>1, <1>3, <2>1, WorkCalm
  <1> QED BY <1>2, <1>3

\* One step of a scan: its end, or the row of a version that is not rejected anew.
LEMMA ScansCalm ==
  ASSUME CalmInv, ReleaseInv', NEW w \in Scanners, Scans(w) PROVE CalmInv'
  <1>0. ReleaseInv /\ NoScan.v = {}
    BY NoScanFacts DEF CalmInv
  <1>1. ASSUME NEW v \in Versions, SkillGone(w, v) PROVE CalmInv'
    <2>1. Work(w, v, Aborted(ver[v]), NoScan, Retry(v, scanner[w].tries), {}, {}) /\ scanner[w].v = {v}
      BY <1>1 DEF SkillGone
    <2> QED BY <1>0, <2>1, AbortedIs, QuietCalm
  <1>2. ASSUME NEW v \in Versions, RowGone(w, v) PROVE CalmInv'
    <2>1. Work(w, v, ver[v], NoScan, Retry(v, scanner[w].tries), {}, {}) /\ scanner[w].v = {v}
      BY <1>2 DEF RowGone
    <2> QED BY <1>0, <2>1, QuietCalm
  <1>3. ASSUME NEW v \in Versions, StaticFails(w, v) PROVE CalmInv'
    <2> DEFINE row == StaticFailure(v)
    <2>1. Work(w, v, row, NoScan, queue[v], Tombstone(v, scanner[w].live, row), Upsert(v, row))
          /\ scanner[w].v = {v} /\ Exists(ver[v])
      BY <1>3 DEF StaticFails
    <2>2. row.review = ver[v].review /\ row.status = "rejected"
      BY <1>0, Parts DEF StaticFailure, Version
    <2> HIDE DEF row
    <2> QED BY <1>0, <2>1, <2>2, QuietCalm
  <1>4. ASSUME NEW v \in Versions, StartSandbox(w, v) PROVE CalmInv'
    <2> DEFINE row  == [ver[v] EXCEPT !.sandbox = "running"]
               scan == [scanner[w] EXCEPT !.stage = "sandbox"]
    <2>1. Work(w, v, row, scan, queue[v], {}, {}) /\ scanner[w].v = {v} /\ Exists(ver[v])
      BY <1>4 DEF StartSandbox
    <2>2. row.review = ver[v].review /\ row.status = ver[v].status /\ scan.v = {v}
          /\ scan.review = scanner[w].review
      BY <1>0, <2>1, Parts DEF Version, Scan
    <2> HIDE DEF row, scan
    <2> QED BY <2>1, <2>2, QuietCalm
  <1>5. ASSUME NEW v \in Versions, NEW result \in {"passed", "failed", "skipped"}, NEW issues \in BOOLEAN,
               FinishScan(w, v, result, issues)
        PROVE  CalmInv'
    <2>1. PICK row, decided :
            /\ Work(w, v, row, NoScan, queue[v], Tombstone(v, scanner[w].live, decided), Upsert(v, decided))
            /\ scanner[w].v = {v} /\ Exists(ver[v]) /\ NotOut(row) /\ SameWord(row.review, ver[v].review)
      BY <1>5, FinishIs
    <2>2. Outstanding(v)
      BY <2>1 DEF Outstanding
    <2> QED BY <1>0, <2>1, <2>2, WorkCalm
  <1> QED BY <1>1, <1>2, <1>3, <1>4, <1>5 DEF Scans

\* A scan that fails after its decision keeps the review of the decision.
LEMMA LateErrorCalm ==
  ASSUME CalmInv, ReleaseInv', NEW w \in Scanners, NEW v \in Versions, NEW decided \in Version,
         decided.status \in {"rejected", "review", "production"},
         SameWord(Written(w, v, decided).review, ver[v].review), LateError(w, v, decided)
  PROVE  CalmInv'
  <1> DEFINE base == Written(w, v, decided)
             row  == Aborted(base)
  <1>0. ReleaseInv /\ NoScan.v = {}
    BY NoScanFacts DEF CalmInv
  <1>1. /\ Work(w, v, row, NoScan, Retry(v, scanner[w].tries), Tombstone(v, scanner[w].live, decided), Upsert(v, decided))
        /\ scanner[w].v = {v} /\ Exists(ver[v])
    BY DEF LateError
  <1>2. base \in Version /\ base.status = decided.status /\ SameWord(base.review, ver[v].review)
    BY <1>0, WrittenIs
  <1> HIDE DEF base
  <1>3. row = [base EXCEPT !.scan = "failed", !.sandbox = "failed", !.status = "rejected"]
    BY <1>2 DEF Aborted, Exists
  <1>4. row.status = "rejected" /\ row.review = base.review
    BY <1>2, <1>3 DEF Version
  <1> HIDE DEF row
  <1>5. NotOut(row) /\ SameWord(row.review, ver[v].review) /\ Outstanding(v)
    BY <1>1, <1>2, <1>4 DEF NotOut, Outstanding
  <1> QED BY <1>0, <1>1, <1>5, WorkCalm

LEMMA ErrsCalm ==
  ASSUME CalmInv, ReleaseInv', NEW w \in Scanners, NEW v \in Versions,
         \/ StaticErrs(w, v)
         \/ \E result \in {"passed", "failed", "skipped"}, issues \in BOOLEAN : FinishErrs(w, v, result, issues)
  PROVE  CalmInv'
  <1>0. ReleaseInv
    BY DEF CalmInv
  <1>1. CASE StaticErrs(w, v)
    <2>1. StaticFailure(v) \in Version /\ StaticFailure(v).status = "rejected"
          /\ StaticFailure(v).review = ver[v].review
      BY <1>0, Parts DEF StaticFailure, Version
    <2>2. Written(w, v, StaticFailure(v)).review = ver[v].review
      BY <1>0, <2>1, WrittenIs
    <2>3. SameWord(Written(w, v, StaticFailure(v)).review, ver[v].review)
      BY <2>2 DEF SameWord
    <2> QED BY <1>1, <2>1, <2>3, LateErrorCalm DEF StaticErrs
  <1>2. ASSUME NEW result \in {"passed", "failed", "skipped"}, NEW issues \in BOOLEAN,
               FinishErrs(w, v, result, issues)
        PROVE  CalmInv'
    <2> DEFINE decided == Decided(w, v, result, issues)
    <2>1. LateError(w, v, decided) /\ scanner[w].v = {v} /\ Exists(ver[v])
      BY <1>2 DEF FinishErrs, LateError
    <2>2. decided \in Version /\ decided.status \in {"rejected", "review", "production"}
          /\ SameWord(Written(w, v, decided).review, ver[v].review)
      BY <2>1, DecidedCalm
    <2> HIDE DEF decided
    <2> QED BY <2>1, <2>2, LateErrorCalm
  <1> QED BY <1>1, <1>2

LEMMA BreaksCalm ==
  ASSUME CalmInv, ReleaseInv', NEW w \in Scanners, Breaks(w) PROVE CalmInv'
  <1>0. ReleaseInv /\ NoScan.v = {}
    BY NoScanFacts DEF CalmInv
  <1>1. ASSUME NEW v \in Versions, NEW retried \in BOOLEAN, ScanError(w, v, retried) PROVE CalmInv'
    <2> DEFINE messages == IF retried THEN Retry(v, scanner[w].tries) ELSE queue[v]
    <2>1. Work(w, v, Aborted(ver[v]), NoScan, messages, {}, {}) /\ scanner[w].v = {v}
      BY <1>1 DEF ScanError
    <2> HIDE DEF messages
    <2> QED BY <1>0, <2>1, AbortedIs, QuietCalm
  <1>2. ASSUME NEW v \in Versions, Crash(w, v) PROVE CalmInv'
    <2>1. Work(w, v, ver[v], NoScan, Requeued(v, scanner[w].tries), {}, {}) /\ scanner[w].v = {v}
      BY <1>2 DEF Crash
    <2> QED BY <1>0, <2>1, QuietCalm
  <1>3. ASSUME NEW v \in Versions, Redeliver(w, v) PROVE CalmInv'
    <2>1. Work(w, v, ver[v], scanner[w], Requeued(v, scanner[w].tries), {}, {}) /\ scanner[w].v = {v}
      BY <1>3 DEF Redeliver
    <2> QED BY <2>1, QuietCalm
  <1> QED BY <1>1, <1>2, <1>3, ErrsCalm DEF Breaks

LEMMA CollectCalm ==
  ASSUME CalmInv, ReleaseInv', NEW v \in Versions, Collect(v) PROVE CalmInv'
  <1>1. ver' = [ver EXCEPT ![v] = Gone] /\ UNCHANGED <<queue, scanner, req>>
    BY DEF Collect
  <1>2. ver'[v] = Gone /\ \A u \in Versions \ {v} : ver'[u] = ver[u]
    BY <1>1 DEF CalmInv, ReleaseInv, TypeOK
  <1>3. NotOut(Gone) /\ ~Exists(Gone)
    BY Gones DEF NotOut
  <1>4. \A s \in Slots : req[s].v \subseteq Versions
    BY DEF CalmInv, ReleaseInv, TypeOK, Request
  <1>5. \A s \in Slots : ReqCalm(s)'
    BY <1>1, <1>2, <1>4, SameOutstanding DEF CalmInv, ReqCalm
  <1>6. (\A u \in Versions : NotOut(ver[u])') /\ \A w \in Scanners : ScanCalm(w)'
    BY <1>1, <1>2, <1>3 DEF CalmInv, ScanCalm, NotOut
  <1> QED BY <1>5, <1>6 DEF CalmInv

LEMMA StepCalm == ASSUME Alone, Patient PROVE CalmInv /\ [Next]_vars => CalmInv'
  <1> SUFFICES ASSUME CalmInv, [Next]_vars PROVE CalmInv'
    OBVIOUS
  <1>0. ReleaseInv'
    BY StepInv DEF CalmInv
  <1>1. CASE \E s \in Slots : BeginSome(s) \/ \E lost \in BOOLEAN : Commit(s, lost)
    BY <1>0, <1>1, BeginCalm, CommitCalm
  <1>2. CASE \E w \in Scanners : Receives(w) \/ Scans(w) \/ Breaks(w)
    BY <1>0, <1>2, DeliverCalm, ScansCalm, BreaksCalm DEF Receives
  <1>3. CASE \E v \in Versions : Collect(v)
    BY <1>0, <1>3, CollectCalm
  <1>4. CASE UNCHANGED vars
    <2>1. UNCHANGED <<ver, queue, scanner, req>>
      BY <1>4 DEF vars
    <2> QED BY <1>0, <2>1, SameOutstanding DEF CalmInv, NotOut, ReqCalm, ScanCalm
  <1> QED BY <1>1, <1>2, <1>3, <1>4 DEF Next

LEMMA InitCalm == Init => CalmInv
  <1> SUFFICES ASSUME Init PROVE CalmInv
    OBVIOUS
  <1>1. ReleaseInv
    BY InitRelease
  <1>2. (\A s \in Slots : req[s].v = {}) /\ (\A w \in Scanners : scanner[w].v = {})
        /\ \A v \in Versions : ver[v] = NoRow
    BY NoRequestFacts, NoScanFacts DEF Init
  <1>3. NotOut(NoRow)
    BY Gones DEF NotOut
  <1> QED BY <1>1, <1>2, <1>3 DEF CalmInv, ReqCalm, ScanCalm

\* A version whose review is rejected is out of production and stays out when it is scanned
\* again, with any number of workers, crashes, retries and redeliveries, where people act one
\* at a time and leave a version alone until its scan has ended.
THEOREM RejectedOut == ASSUME Alone, Patient PROVE Spec => []RejectedStaysOut
  <1>1. CalmInv => RejectedStaysOut
    BY DEF CalmInv, NotOut, RejectedStaysOut
  <1> QED BY <1>1, InitCalm, StepCalm, PTL DEF Spec

\* A follower's copy, by the requests.
LEMMA BeginFeed ==
  ASSUME Patient, FeedInv, CalmInv', NEW s \in Slots, BeginSome(s)
  PROVE  FeedInv'
  <1>1. PICK op, touched, new, kept, drop, add : Clean(s, op, touched, new, kept, drop, add)
    BY Begins DEF Begun, FeedInv, CalmInv
  <1>2. touched \in SUBSET Versions /\ Start(s, op, touched, new, kept, drop, add) /\ ReleaseInv
        /\ Follows(op, touched, new, kept, drop, add)
    BY <1>1 DEF Clean, FeedInv, CalmInv
  <1>3. /\ UNCHANGED <<policy, skill, ver, mirror, queue, scanner, rescans>>
        /\ req'[s].op = op /\ req'[s].v = touched /\ req'[s].skill = kept
        /\ req'[s].drop = drop /\ req'[s].add = add
        /\ \A v \in touched : req'[s].snap[v] = ver[v] /\ req'[s].new[v] = new[v]
        /\ \A t \in Slots \ {s} : req'[t] = req[t]
    BY <1>2, BegunReq
  <1>4. ASSUME NEW t \in Slots PROVE ReqFollows(t)'
    <2>1. CASE t = s
      <3>1. PICK left : left = req'[s].new
        OBVIOUS
      <3>2. Follows(op, touched, left, kept, drop, add)
        BY <1>2, <1>3, <3>1 DEF Follows
      <3>3. Follows(op, touched, left, kept, drop, add)'
        BY <1>3, <3>2 DEF Follows
      <3> QED BY <1>3, <2>1, <3>1, <3>3 DEF ReqFollows, Follows
    <2>2. CASE t # s
      <3>1. ReqFollows(t) /\ req'[t] = req[t]
        BY <1>3, <2>2 DEF FeedInv
      <3> QED BY <1>3, <3>1 DEF ReqFollows, Follows
    <2> QED BY <2>1, <2>2
  <1>5. ASSUME NEW v \in Versions PROVE Single(v)' /\ Followed(v)' /\ ScannedApart(v)'
    <2>1. Single(v) /\ Followed(v) /\ ScannedApart(v)
      BY DEF FeedInv
    <2> QED BY <1>3, <2>1 DEF Single, Followed, Public, ScannedApart, Outstanding
  <1>6. \A w \in Scanners : ScanFollows(w)'
    BY <1>3 DEF FeedInv, ScanFollows
  <1> QED BY <1>4, <1>5, <1>6 DEF FeedInv

\* Numbers of messages, of which there is one at most.
AtMostOne(f) == /\ \A n \in 0 .. ScanRetries : f[n] <= 1
                /\ \A n, m \in 0 .. ScanRetries : f[n] > 0 /\ f[m] > 0 => n = m
NoneLeft(f) == \A n \in 0 .. ScanRetries : f[n] = 0

LEMMA OneMessage ==
  ASSUME NEW f \in [0 .. ScanRetries -> Nat], NoneLeft(f), NEW i \in 0 .. ScanRetries
  PROVE  AtMostOne([f EXCEPT ![i] = @ + 1])
  <1> DEFINE g == [f EXCEPT ![i] = @ + 1]
  <1>1. g[i] = 1 /\ \A n \in 0 .. ScanRetries : n # i => g[n] = 0
    BY DEF NoneLeft
  <1> HIDE DEF g
  <1>2. AtMostOne(g)
    BY <1>1 DEF AtMostOne
  <1> QED BY <1>2 DEF g

LEMMA TakenMessage ==
  ASSUME NEW f \in [0 .. ScanRetries -> Nat], AtMostOne(f), NEW i \in 0 .. ScanRetries, f[i] > 0
  PROVE  NoneLeft([f EXCEPT ![i] = @ - 1])
  <1> DEFINE g == [f EXCEPT ![i] = @ - 1]
  <1>1. f[i] <= 1 /\ f[i] \in Nat /\ \A n \in 0 .. ScanRetries : n # i => ~(f[n] > 0) /\ f[n] \in Nat
    BY DEF AtMostOne
  <1>2. f[i] = 1 /\ \A n \in 0 .. ScanRetries : n # i => f[n] = 0
    BY <1>1
  <1>3. g[i] = 0 /\ \A n \in 0 .. ScanRetries : n # i => g[n] = 0
    BY <1>2
  <1> HIDE DEF g
  <1>4. NoneLeft(g)
    BY <1>3 DEF NoneLeft
  <1> QED BY <1>4 DEF g

LEMMA FewMessages ==
  ASSUME NEW f \in [0 .. ScanRetries -> Nat], NoneLeft(f)
  PROVE  AtMostOne(f)
  BY DEF AtMostOne, NoneLeft

\* A version after the request that touched it.
LEMMA CommitFeed ==
  ASSUME Alone, FeedInv, CalmInv', NEW s \in Slots, NEW lost \in BOOLEAN, Commit(s, lost)
  PROVE  FeedInv'
  <1> DEFINE r == req[s]
  <1>0. ReleaseInv /\ CalmInv
    BY DEF FeedInv, CalmInv
  <1>1. /\ r.op # "none" /\ r \in Request /\ UNCHANGED scanner /\ req'[s] = NoRequest
        /\ \/ UNCHANGED <<skill, ver, mirror, queue, rescans>>
           \/ /\ ver' = Flushed(r) /\ skill' = (IF r.op = "skill" THEN r.skill ELSE skill)
              /\ mirror' = (mirror \ r.drop) \cup r.add /\ queue' = Sent(r, lost)
              /\ \A v \in Versions : rescans'[v] = IF r.op = "rescan" /\ v \in r.v THEN rescans[v] + 1 ELSE rescans[v]
    BY <1>0, CommitIs
  <1>2. \A t \in Slots : ReqFollows(t)'
    BY <1>1, NoRequestFacts DEF Alone, ReqFollows
  <1>3. CASE UNCHANGED <<skill, ver, mirror, queue, rescans>>
    <2>1. ASSUME NEW v \in Versions PROVE Single(v)' /\ Followed(v)' /\ ScannedApart(v)'
      <3>1. Single(v) /\ Followed(v) /\ ScannedApart(v)
        BY DEF FeedInv
      <3> QED BY <1>1, <1>3, <3>1 DEF Single, Followed, Public, ScannedApart, Outstanding
    <2>2. \A w \in Scanners : ScanFollows(w)'
      BY <1>1, <1>3 DEF FeedInv, ScanFollows
    <2> QED BY <1>2, <2>1, <2>2 DEF FeedInv
  <1>4. CASE /\ ver' = Flushed(r) /\ skill' = (IF r.op = "skill" THEN r.skill ELSE skill)
             /\ mirror' = (mirror \ r.drop) \cup r.add /\ queue' = Sent(r, lost)
             /\ \A v \in Versions : rescans'[v] = IF r.op = "rescan" /\ v \in r.v THEN rescans[v] + 1 ELSE rescans[v]
    <2>1. Follows(r.op, r.v, r.new, r.skill, r.drop, r.add) /\ \A v \in r.v : ver[v] = r.snap[v]
      BY <1>1 DEF FeedInv, ReqFollows
    <2>2. skill' = r.skill
      BY <1>4, <2>1 DEF Follows
    <2>3. ASSUME NEW v \in Versions
          PROVE  ver'[v] = IF v \in r.v THEN r.new[v] ELSE ver[v]
      <3>1. v \in r.v => ver[v] # Gone
        BY <2>1, Gones DEF Follows
      <3> QED BY <1>0, <1>1, <1>4, <3>1, FlushedRows
    <2>4. \A v \in r.v : ~Outstanding(v)
      BY DEF FeedInv, CalmInv, ReqCalm
    <2>5. ASSUME NEW v \in Versions PROVE Single(v)'
      <3>1. Single(v) /\ queue[v] \in [0 .. ScanRetries -> Nat] /\ 0 \in 0 .. ScanRetries
        BY DEF FeedInv, CalmInv, ReleaseInv, TypeOK, ScanRetries
      <3>2. CASE queue'[v] = queue[v]
        BY <1>1, <3>1, <3>2 DEF Single
      <3>3. CASE v \in r.v /\ queue'[v] = [queue[v] EXCEPT ![0] = @ + 1]
        <4>0. ~Outstanding(v)
          BY <2>4, <3>3
        <4>3. \A n \in 0 .. ScanRetries : queue[v][n] \in Nat /\ ~(queue[v][n] > 0)
          BY <3>1, <4>0 DEF Outstanding
        <4>1. NoneLeft(queue[v]) /\ \A w \in Scanners : scanner[w].v # {v}
          BY <4>0, <4>3 DEF Outstanding, NoneLeft
        <4>2. AtMostOne(queue'[v])
          BY <3>1, <3>3, <4>1, OneMessage
        <4> QED BY <1>1, <4>1, <4>2 DEF Single, AtMostOne
      <3> QED BY <1>0, <1>4, <3>2, <3>3, SentTo
    <2>6. ASSUME NEW v \in Versions PROVE Followed(v)'
      <3>1. Followed(v) /\ rescans[v] \in Nat
        BY DEF FeedInv, CalmInv, ReleaseInv, TypeOK
      <3>2. CASE v \in r.v
        <4>1. /\ skill' = "active" /\ Live(ver'[v]) => v \in mirror'
              /\ v \in mirror' /\ ~(skill' = "active" /\ Live(ver'[v])) => rescans[v] > 0 \/ r.op = "rescan"
          BY <1>4, <2>1, <2>2, <2>3, <3>2 DEF Follows
        <4>2. rescans[v] > 0 \/ r.op = "rescan" => rescans'[v] > 0
          BY <1>4, <3>1, <3>2
        <4> QED BY <4>1, <4>2 DEF Followed, Public
      <3>3. CASE v \notin r.v
        <4>1. /\ ver'[v] = ver[v] /\ rescans'[v] = rescans[v]
              /\ v \notin r.add /\ (v \in r.drop => ver[v].share = "none")
              /\ (r.op = "skill" => ~Live(ver[v])) /\ (r.op # "skill" => skill' = skill)
          BY <1>0, <1>4, <2>1, <2>3, <3>3, NoRowFacts DEF Follows
        <4>2. v \in mirror' <=> v \in mirror /\ v \notin r.drop
          BY <1>4, <4>1
        <4>3. Public(v)' => Public(v) /\ v \notin r.drop
          BY <4>1 DEF Public, Live
        <4>4. Public(v) => Public(v)'
          BY <4>1 DEF Public
        <4> QED BY <3>1, <4>1, <4>2, <4>3, <4>4 DEF Followed
      <3> QED BY <3>2, <3>3
    <2>7. ASSUME NEW v \in Versions, Outstanding(v)', Exists(ver'[v])
          PROVE  skill' = "active" /\ ~Live(ver'[v])
      <3>1. CASE v \in r.v
        <4>1. r.op \in {"publish", "rescan"}
          <5>1. ~Outstanding(v)
            BY <2>4, <3>1
          <5>2. queue'[v] # queue[v]
            BY <1>1, <2>7, <5>1 DEF Outstanding
          <5>3. Sent(r, lost)[v] = queue[v] \/ r.op \in {"publish", "rescan"}
            BY <1>0, SentTo
          <5>4. queue' = Sent(r, lost)
            BY <1>4
          <5> QED BY <5>2, <5>3, <5>4
        <4> QED BY <2>1, <2>2, <2>3, <3>1, <4>1 DEF Follows, Live
      <3>2. CASE v \notin r.v
        <4>1. Outstanding(v) /\ ver'[v] = ver[v]
          BY <1>0, <1>1, <1>4, <2>3, <2>7, <3>2, SentTo DEF Outstanding
        <4>2. skill = "active" /\ ~Live(ver[v]) /\ r.op # "skill"
          BY <2>1, <2>7, <3>2, <4>1 DEF FeedInv, ScannedApart, Follows
        <4> QED BY <2>1, <2>2, <4>1, <4>2 DEF Follows
      <3> QED BY <3>1, <3>2
    <2>8. ASSUME NEW w \in Scanners PROVE ScanFollows(w)'
      <3>1. \A v \in Versions : scanner[w].v = {v} => ver'[v] = ver[v]
        BY <2>3, <2>4 DEF Outstanding
      <3> QED BY <1>1, <3>1 DEF FeedInv, ScanFollows
    <2> QED BY <1>2, <2>5, <2>6, <2>7, <2>8 DEF FeedInv, ScannedApart
  <1> QED BY <1>1, <1>3, <1>4

\* A step of the only scan of a version, which records what it makes of it.
LEMMA WorkFeed ==
  ASSUME FeedInv, CalmInv', NEW w \in Scanners, NEW v \in Versions, NEW row, NEW scan, NEW messages,
         NEW add, Work(w, v, row, scan, messages, {}, add),
         Outstanding(v), scanner[w].v \subseteq {v}, scan.v \subseteq {v},
         \A x \in Scanners : x # w => scanner[x].v # {v},
         AtMostOne(messages), scan.v = {v} => NoneLeft(messages),
         Exists(row) => Exists(ver[v]), ~Exists(row) => ~Live(row),
         add = IF Live(row) THEN {v} ELSE {},
         Live(row) => scan.v = {} /\ NoneLeft(messages),
         row.share = ver[v].share,
         scan.v = {v} /\ Exists(row) => ~scan.live /\ scan.share = row.share
  PROVE  FeedInv'
  <1>1. /\ ver' = [ver EXCEPT ![v] = row] /\ scanner' = [scanner EXCEPT ![w] = scan]
        /\ queue' = [queue EXCEPT ![v] = messages] /\ mirror' = mirror \cup add
        /\ UNCHANGED <<policy, skill, req, rescans>>
    BY DEF Work
  <1>2. /\ ver'[v] = row /\ scanner'[w] = scan /\ queue'[v] = messages
        /\ \A u \in Versions \ {v} : ver'[u] = ver[u] /\ queue'[u] = queue[u]
        /\ \A x \in Scanners \ {w} : scanner'[x] = scanner[x]
    BY <1>1 DEF FeedInv, CalmInv, ReleaseInv, TypeOK
  <1>3. \A u \in Versions \ {v} : /\ Outstanding(u)' <=> Outstanding(u)
                                  /\ u \in mirror' <=> u \in mirror
    BY <1>1, <1>2 DEF Outstanding
  <1>4. Exists(ver[v]) => skill = "active" /\ ~Live(ver[v])
    BY DEF FeedInv, ScannedApart
  <1>5. ~Live(ver[v])
    BY <1>4, NoRowFacts DEF FeedInv, CalmInv
  <1>6. ASSUME NEW u \in Versions PROVE Single(u)'
    <2>1. CASE u = v
      BY <1>2, <2>1 DEF Single, AtMostOne, NoneLeft
    <2>2. CASE u # v
      <3>1. Single(u)
        BY DEF FeedInv
      <3> QED BY <1>2, <2>2, <3>1 DEF Single
    <2> QED BY <2>1, <2>2
  <1>7. ASSUME NEW u \in Versions PROVE Followed(u)'
    <2>1. Followed(u)
      BY DEF FeedInv
    <2>2. CASE u = v
      <3>1. CASE Live(row)
        BY <1>1, <1>2, <1>4, <2>2, <3>1 DEF Followed, Public
      <3>2. CASE ~Live(row)
        <4>1. mirror' = mirror /\ ~Public(v)
          BY <1>1, <1>5, <3>2 DEF Public
        <4> QED BY <1>1, <1>2, <2>1, <2>2, <3>2, <4>1 DEF Followed, Public
      <3> QED BY <3>1, <3>2
    <2>3. CASE u # v
      BY <1>1, <1>2, <1>3, <2>1, <2>3 DEF Followed, Public
    <2> QED BY <2>2, <2>3
  <1>8. ASSUME NEW u \in Versions, Outstanding(u)', Exists(ver'[u]) PROVE skill' = "active" /\ ~Live(ver'[u])
    <2>1. CASE u = v
      <3>1. Exists(ver[v]) /\ skill' = "active"
        BY <1>1, <1>2, <1>4, <1>8, <2>1
      <3>2. ASSUME Live(row) PROVE FALSE
        <4>1. (\A n \in 0 .. ScanRetries : queue'[v][n] = 0) /\ \A x \in Scanners : scanner'[x].v # {v}
          BY <1>2, <3>2 DEF NoneLeft
        <4> QED BY <1>8, <2>1, <4>1 DEF Outstanding
      <3> QED BY <1>2, <2>1, <3>1, <3>2
    <2>2. CASE u # v
      BY <1>1, <1>2, <1>3, <1>8, <2>2 DEF FeedInv, ScannedApart
    <2> QED BY <2>1, <2>2
  <1>9. ASSUME NEW x \in Scanners, NEW u \in Versions, scanner'[x].v = {u}, Exists(ver'[u])
        PROVE  ~scanner'[x].live /\ scanner'[x].share = ver'[u].share
    <2>1. CASE x = w
      BY <1>2, <1>9, <2>1
    <2>2. CASE x # w
      BY <1>2, <1>9, <2>2 DEF FeedInv, ScanFollows
    <2> QED BY <2>1, <2>2
  <1>10. ASSUME NEW s \in Slots PROVE ReqFollows(s)'
    <2> DEFINE r == req[s]
    <2>1. v \notin r.v /\ r.v \subseteq Versions
      BY DEF FeedInv, CalmInv, ReqCalm, ReleaseInv, TypeOK, Request
    <2>2. CASE r.op = "none"
      BY <1>1, <2>2 DEF ReqFollows
    <2>3. CASE r.op # "none"
      <3>1. Follows(r.op, r.v, r.new, r.skill, r.drop, r.add) /\ \A u \in r.v : ver[u] = r.snap[u]
        BY <2>3 DEF FeedInv, ReqFollows
      <3>2. \A u \in r.v : ver'[u] = ver[u] /\ (u \in mirror' <=> u \in mirror)
        BY <1>2, <1>3, <2>1
      <3>3. \A u \in Versions \ r.v : ver'[u].share = ver[u].share /\ (Exists(ver'[u]) => Exists(ver[u]))
        BY <1>2
      <3>4. /\ r.op # "skill" => r.skill = skill' /\ skill' = "active"
            /\ r.add \subseteq r.v
            /\ \A u \in Versions \ r.v : /\ u \in r.drop => ver'[u].share = "none"
                                         /\ r.op = "skill" => ~Exists(ver'[u])
        BY <1>1, <3>1, <3>3 DEF Follows
      <3>5. ASSUME NEW u \in r.v
            PROVE  /\ ver'[u].status # "deleted"
                   /\ r.op \in {"publish", "rescan"} => r.new[u].status = "quarantine"
                   /\ r.skill = "active" /\ Live(r.new[u]) => u \in (mirror' \ r.drop) \cup r.add
                   /\ u \in (mirror' \ r.drop) \cup r.add /\ ~(r.skill = "active" /\ Live(r.new[u])) =>
                         rescans'[u] > 0 \/ r.op = "rescan"
        BY <1>1, <3>1, <3>2 DEF Follows
      <3> QED BY <1>1, <3>1, <3>2, <3>4, <3>5 DEF ReqFollows, Follows
    <2> QED BY <2>2, <2>3
  <1> QED BY <1>6, <1>7, <1>8, <1>9, <1>10 DEF FeedInv, ScannedApart, ScanFollows

\* The scan of a version is the only one, and no message for it waits.
LEMMA OnlyScan ==
  ASSUME FeedInv, NEW w \in Scanners, NEW v \in Versions, scanner[w].v = {v}
  PROVE  /\ Outstanding(v) /\ NoneLeft(queue[v]) /\ AtMostOne(queue[v])
         /\ AtMostOne(Retry(v, scanner[w].tries)) /\ AtMostOne(Requeued(v, scanner[w].tries))
         /\ \A x \in Scanners : x # w => scanner[x].v # {v}
         /\ Exists(ver[v]) => /\ skill = "active" /\ ~Live(ver[v])
                              /\ ~scanner[w].live /\ scanner[w].share = ver[v].share
         /\ ~Live(ver[v])
  <1>1. Outstanding(v) /\ Single(v) /\ ScannedApart(v) /\ ScanFollows(w) /\ ReleaseInv
    BY DEF Outstanding, FeedInv, CalmInv
  <1>2. queue[v] \in [0 .. ScanRetries -> Nat] /\ scanner[w].tries \in 0 .. ScanRetries
    BY <1>1, Parts
  <1>3. NoneLeft(queue[v]) /\ \A x \in Scanners : x # w => scanner[x].v # {v}
    BY <1>1 DEF Single, NoneLeft
  <1>4. AtMostOne(queue[v]) /\ AtMostOne(Requeued(v, scanner[w].tries))
    BY <1>2, <1>3, FewMessages, OneMessage DEF Requeued
  <1>5. AtMostOne(Retry(v, scanner[w].tries))
    <2>1. CASE scanner[w].tries < ScanRetries
      <3>1. scanner[w].tries + 1 \in 0 .. ScanRetries
        BY <1>2, <2>1 DEF ScanRetries
      <3> QED BY <1>2, <1>3, <2>1, <3>1, OneMessage DEF Retry
    <2>2. CASE ~(scanner[w].tries < ScanRetries)
      BY <1>4, <2>2 DEF Retry
    <2> QED BY <2>1, <2>2
  <1>6. Exists(ver[v]) => skill = "active" /\ ~Live(ver[v]) /\ ~scanner[w].live /\ scanner[w].share = ver[v].share
    BY <1>1 DEF ScannedApart, ScanFollows
  <1>7. ~Live(ver[v])
    BY <1>1, <1>6, NoRowFacts
  <1> QED BY <1>1, <1>3, <1>4, <1>5, <1>6, <1>7

\* A step that leaves a row that is not live, and records no event.
LEMMA QuietFeed ==
  ASSUME FeedInv, CalmInv', NEW w \in Scanners, NEW v \in Versions, NEW row, NEW scan, NEW messages,
         Work(w, v, row, scan, messages, {}, {}), scanner[w].v = {v}, AtMostOne(messages),
         scan.v = {} \/ (/\ scan.v = {v} /\ NoneLeft(messages)
                         /\ scan.live = scanner[w].live /\ scan.share = scanner[w].share),
         row = ver[v] \/ (Exists(ver[v]) /\ row.share = ver[v].share /\ row.status \in {ver[v].status, "rejected"})
  PROVE  FeedInv'
  <1>1. /\ Outstanding(v) /\ \A x \in Scanners : x # w => scanner[x].v # {v}
        /\ Exists(ver[v]) => ~scanner[w].live /\ scanner[w].share = ver[v].share
        /\ ~Live(ver[v])
    BY OnlyScan
  <1>2. ~Live(row) /\ row.share = ver[v].share /\ (Exists(row) => Exists(ver[v]))
    BY <1>1 DEF Live
  <1>3. scan.v \subseteq {v} /\ (scan.v = {v} => NoneLeft(messages))
    OBVIOUS
  <1>4. scan.v = {v} /\ Exists(row) => ~scan.live /\ scan.share = row.share
    BY <1>1, <1>2
  <1>5. Live(row) => scan.v = {} /\ NoneLeft(messages)
    BY <1>2
  <1>6. {} = IF Live(row) THEN {v} ELSE {}
    BY <1>2
  <1>7. scanner[w].v \subseteq {v}
    OBVIOUS
  <1> QED BY <1>1, <1>2, <1>3, <1>4, <1>5, <1>6, <1>7, WorkFeed

LEMMA DeliverFeed ==
  ASSUME FeedInv, CalmInv', NEW w \in Scanners, NEW v \in Versions, NEW tries \in 0 .. ScanRetries,
         Deliver(w, v, tries)
  PROVE  FeedInv'
  <1> DEFINE row  == [ver[v] EXCEPT !.status = "scanning", !.scan = "running", !.sandbox = "pending"]
             left == [queue[v] EXCEPT ![tries] = @ - 1]
             scan == [stage |-> "static", v |-> {v}, tries |-> tries, review |-> ver[v].review,
                      share |-> ver[v].share, live |-> Live(ver[v])]
  <1>0. ReleaseInv
    BY DEF FeedInv, CalmInv
  <1>1. /\ scanner[w].v = {} /\ Outstanding(v) /\ ver[v] \in Version
        /\ queue[v] \in [0 .. ScanRetries -> Nat] /\ queue[v][tries] > 0
        /\ IF Exists(ver[v]) THEN Work(w, v, row, scan, left, {}, {}) ELSE Work(w, v, ver[v], NoScan, left, {}, {})
    BY <1>0, Parts DEF Deliver, ScanOK, Outstanding
  <1>2. Single(v) /\ (Exists(ver[v]) => ~Live(ver[v]))
    BY <1>1 DEF FeedInv, ScannedApart
  <1>3. NoneLeft(left)
    BY <1>1, <1>2, TakenMessage DEF Single, AtMostOne
  <1>4. left \in [0 .. ScanRetries -> Nat]
    <2> DEFINE f == queue[v]
    <2>1. f \in [0 .. ScanRetries -> Nat] /\ DOMAIN left = 0 .. ScanRetries
      BY <1>1
    <2>2. left = [n \in 0 .. ScanRetries |-> left[n]]
      BY <1>1
    <2> HIDE DEF left
    <2> QED BY <1>3, <2>2 DEF NoneLeft
  <1>5. AtMostOne(left)
    BY <1>3, <1>4, FewMessages
  <1>6. \A x \in Scanners : scanner[x].v # {v}
    <2>1. ASSUME NEW x \in Scanners, scanner[x].v = {v} PROVE FALSE
      <3>1. queue[v][tries] = 0
        BY <1>2, <2>1 DEF Single
      <3> QED BY <1>1, <3>1
    <2> QED BY <2>1
  <1>7. CASE Exists(ver[v])
    <2>1. /\ ~Live(row) /\ row.share = ver[v].share /\ scan.v = {v} /\ scan.share = ver[v].share
          /\ scan.live = Live(ver[v])
      BY <1>1 DEF Version, Live
    <2>2. Work(w, v, row, scan, left, {}, {})
      BY <1>1, <1>7
    <2> HIDE DEF row, scan, left
    <2>3. {} = IF Live(row) THEN {v} ELSE {}
      BY <2>1
    <2>4. scan.v \subseteq {v} /\ scanner[w].v \subseteq {v} /\ ~scan.live
      BY <1>1, <1>2, <1>7, <2>1
    <2> QED BY <1>1, <1>3, <1>5, <1>6, <1>7, <2>1, <2>2, <2>3, <2>4, WorkFeed
  <1>8. CASE ~Exists(ver[v])
    <2>1. Work(w, v, ver[v], NoScan, left, {}, {}) /\ NoScan.v = {} /\ ~Live(ver[v])
      BY <1>0, <1>1, <1>8, NoScanFacts, NoRowFacts
    <2> HIDE DEF left
    <2>2. {} = IF Live(ver[v]) THEN {v} ELSE {}
      BY <2>1
    <2>3. NoScan.v \subseteq {v} /\ scanner[w].v \subseteq {v} /\ NoScan.v # {v}
      BY <1>1, <2>1
    <2> QED BY <1>1, <1>3, <1>5, <1>6, <1>8, <2>1, <2>2, <2>3, WorkFeed
  <1> QED BY <1>7, <1>8

LEMMA ScansFeed ==
  ASSUME FeedInv, CalmInv', NEW w \in Scanners, Scans(w) PROVE FeedInv'
  <1>0. ReleaseInv /\ CalmInv /\ NoScan.v = {}
    BY NoScanFacts DEF FeedInv, CalmInv
  <1>1. ASSUME NEW v \in Versions, SkillGone(w, v) PROVE FeedInv'
    <2>1. Work(w, v, Aborted(ver[v]), NoScan, Retry(v, scanner[w].tries), {}, {}) /\ scanner[w].v = {v}
      BY <1>1 DEF SkillGone
    <2> QED BY <1>0, <2>1, AbortedIs, OnlyScan, QuietFeed
  <1>2. ASSUME NEW v \in Versions, RowGone(w, v) PROVE FeedInv'
    <2>1. Work(w, v, ver[v], NoScan, Retry(v, scanner[w].tries), {}, {}) /\ scanner[w].v = {v}
      BY <1>2 DEF RowGone
    <2> QED BY <1>0, <2>1, OnlyScan, QuietFeed
  <1>3. ASSUME NEW v \in Versions, StaticFails(w, v) PROVE FeedInv'
    <2> DEFINE row == StaticFailure(v)
    <2>1. Work(w, v, row, NoScan, queue[v], Tombstone(v, scanner[w].live, row), Upsert(v, row))
          /\ scanner[w].v = {v} /\ Exists(ver[v])
      BY <1>3 DEF StaticFails
    <2>2. row.share = ver[v].share /\ row.status = "rejected"
      BY <1>0, Parts DEF StaticFailure, Version
    <2>3. AtMostOne(queue[v]) /\ ~scanner[w].live
      BY <2>1, OnlyScan
    <2> HIDE DEF row
    <2>4. Tombstone(v, scanner[w].live, row) = {} /\ Upsert(v, row) = {}
      BY <2>2, <2>3 DEF Tombstone, Upsert, Live
    <2>5. Work(w, v, row, NoScan, queue[v], {}, {})
      BY <2>1, <2>4
    <2> QED BY <1>0, <2>1, <2>2, <2>3, <2>5, QuietFeed
  <1>4. ASSUME NEW v \in Versions, StartSandbox(w, v) PROVE FeedInv'
    <2> DEFINE row  == [ver[v] EXCEPT !.sandbox = "running"]
               scan == [scanner[w] EXCEPT !.stage = "sandbox"]
    <2>1. Work(w, v, row, scan, queue[v], {}, {}) /\ scanner[w].v = {v} /\ Exists(ver[v])
      BY <1>4 DEF StartSandbox
    <2>2. row.share = ver[v].share /\ row.status = ver[v].status /\ scan.v = {v}
          /\ scan.live = scanner[w].live /\ scan.share = scanner[w].share
      BY <1>0, <2>1, Parts DEF Version, Scan
    <2> HIDE DEF row, scan
    <2>3. AtMostOne(queue[v]) /\ NoneLeft(queue[v])
      BY <2>1, OnlyScan
    <2> QED BY <2>1, <2>2, <2>3, QuietFeed
  <1>5. ASSUME NEW v \in Versions, NEW result \in {"passed", "failed", "skipped"}, NEW issues \in BOOLEAN,
               FinishScan(w, v, result, issues)
        PROVE  FeedInv'
    <2>1. PICK row, decided :
            /\ Work(w, v, row, NoScan, queue[v], Tombstone(v, scanner[w].live, decided), Upsert(v, decided))
            /\ scanner[w].v = {v} /\ Exists(ver[v]) /\ row.share = ver[v].share
            /\ scanner[w].share = ver[v].share => (Live(decided) <=> Live(row))
      BY <1>0, <1>5, FinishIs
    <2>2. /\ Outstanding(v) /\ AtMostOne(queue[v]) /\ NoneLeft(queue[v])
          /\ \A x \in Scanners : x # w => scanner[x].v # {v}
          /\ ~scanner[w].live /\ scanner[w].share = ver[v].share
      BY <2>1, OnlyScan
    <2>3. Tombstone(v, scanner[w].live, decided) = {} /\ Upsert(v, decided) = IF Live(row) THEN {v} ELSE {}
      BY <2>1, <2>2 DEF Tombstone, Upsert
    <2> DEFINE add == IF Live(row) THEN {v} ELSE {}
    <2>4. Work(w, v, row, NoScan, queue[v], {}, add) /\ add = (IF Live(row) THEN {v} ELSE {})
      BY <2>1, <2>3
    <2> HIDE DEF add
    <2>5. ~Exists(row) => ~Live(row)
      BY DEF Exists, Live
    <2>6. scanner[w].v \subseteq {v} /\ NoScan.v \subseteq {v} /\ NoScan.v # {v}
      BY <1>0, <2>1
    <2> QED BY <1>0, <2>1, <2>2, <2>4, <2>5, <2>6, WorkFeed
  <1> QED BY <1>1, <1>2, <1>3, <1>4, <1>5 DEF Scans

LEMMA BreaksFeed ==
  ASSUME Faults \cap {"late", "redelivery"} = {}, FeedInv, CalmInv', NEW w \in Scanners, Breaks(w) PROVE FeedInv'
  <1>0. ReleaseInv /\ NoScan.v = {}
    BY NoScanFacts DEF FeedInv, CalmInv
  <1>1. ASSUME NEW v \in Versions, NEW retried \in BOOLEAN, ScanError(w, v, retried) PROVE FeedInv'
    <2> DEFINE messages == IF retried THEN Retry(v, scanner[w].tries) ELSE queue[v]
    <2>1. Work(w, v, Aborted(ver[v]), NoScan, messages, {}, {}) /\ scanner[w].v = {v}
      BY <1>1 DEF ScanError
    <2>2. AtMostOne(messages)
      BY <2>1, OnlyScan
    <2> HIDE DEF messages
    <2> QED BY <1>0, <2>1, <2>2, AbortedIs, QuietFeed
  <1>2. ASSUME NEW v \in Versions, Crash(w, v) PROVE FeedInv'
    <2>1. Work(w, v, ver[v], NoScan, Requeued(v, scanner[w].tries), {}, {}) /\ scanner[w].v = {v}
      BY <1>2 DEF Crash
    <2> QED BY <1>0, <2>1, OnlyScan, QuietFeed
  <1>3. ASSUME NEW v \in Versions, Redeliver(w, v) PROVE FALSE
    BY <1>3 DEF Redeliver, Fault
  <1>4. ASSUME NEW v \in Versions, NEW decided, LateError(w, v, decided) PROVE FALSE
    BY <1>4 DEF LateError, Fault
  <1> QED BY <1>1, <1>2, <1>3, <1>4 DEF Breaks, StaticErrs, FinishErrs

LEMMA StepFeed ==
  ASSUME Alone, Patient, Faults \cap {"late", "redelivery"} = {}, ~Retention
  PROVE  FeedInv /\ [Next]_vars => FeedInv'
  <1> SUFFICES ASSUME FeedInv, [Next]_vars PROVE FeedInv'
    OBVIOUS
  <1>0. CalmInv'
    BY StepCalm DEF FeedInv
  <1>1. CASE \E s \in Slots : BeginSome(s) \/ \E lost \in BOOLEAN : Commit(s, lost)
    BY <1>0, <1>1, BeginFeed, CommitFeed
  <1>2. CASE \E w \in Scanners : Receives(w) \/ Scans(w) \/ Breaks(w)
    BY <1>0, <1>2, DeliverFeed, ScansFeed, BreaksFeed DEF Receives
  <1>3. CASE \E v \in Versions : Collect(v)
    BY <1>3 DEF Collect
  <1>4. CASE UNCHANGED vars
    <2>1. UNCHANGED <<policy, skill, ver, mirror, queue, scanner, req, rescans>>
      BY <1>4 DEF vars
    <2>2. \A s \in Slots : ReqFollows(s)'
      BY <2>1 DEF FeedInv, ReqFollows, Follows
    <2>3. ASSUME NEW v \in Versions PROVE Single(v)' /\ Followed(v)' /\ ScannedApart(v)'
      <3>1. Single(v) /\ Followed(v) /\ ScannedApart(v)
        BY DEF FeedInv
      <3> QED BY <2>1, <3>1 DEF Single, Followed, Public, ScannedApart, Outstanding
    <2>4. \A w \in Scanners : ScanFollows(w)'
      BY <2>1 DEF FeedInv, ScanFollows
    <2> QED BY <1>0, <2>2, <2>3, <2>4 DEF FeedInv
  <1> QED BY <1>1, <1>2, <1>3, <1>4 DEF Next

LEMMA InitFeed == Init => FeedInv
  <1> SUFFICES ASSUME Init PROVE FeedInv
    OBVIOUS
  <1>1. CalmInv
    BY InitCalm
  <1>2. (\A s \in Slots : req[s].op = "none") /\ (\A w \in Scanners : scanner[w].v = {})
        /\ (\A v \in Versions : ver[v] = NoRow /\ v \notin mirror)
        /\ (\A v \in Versions, n \in 0 .. ScanRetries : queue[v][n] = 0)
    BY NoRequestFacts, NoScanFacts DEF Init
  <1>3. ~Live(NoRow) /\ ~Exists(NoRow)
    BY Gones DEF Live
  <1> QED BY <1>1, <1>2, <1>3 DEF FeedInv, Single, Followed, Public, ScannedApart, ScanFollows, ReqFollows

\* A follower that replays the public events has every public version, and has one that is
\* not public only if a second scan of it was asked for: with any number of workers, crashes
\* and retries, where people act one at a time and leave a version alone until its scan has
\* ended, nothing is delivered twice, nothing is deleted without an event, and no scan fails
\* between the record of its event and its commit (such a scan announces a version it rejects).
THEOREM FollowersKeepUp ==
  ASSUME Alone, Patient, Faults \cap {"late", "redelivery"} = {}, ~Retention PROVE Spec => []FeedKeepsUp
  <1>1. FeedInv => FeedKeepsUp
    BY DEF FeedInv, Followed, FeedKeepsUp
  <1> QED BY <1>1, InitFeed, StepFeed, PTL DEF Spec
===============================================================================
