------------------------------ MODULE SkillRelease ------------------------------
(*******************************************************************************)
(* The versions of one skill: publication, scan, release gate, review, public  *)
(* sharing, deletion, and the event stream other registries follow.            *)
(*                                                                             *)
(* Two kinds of actors write the rows.  The API serves requests; each is a     *)
(* transaction of two steps (see UnitOfWork): Begin loads the rows and         *)
(* computes what the handler assigns, Commit flushes it.  A Celery worker      *)
(* scans: it commits the version as scanning, runs the static scan, commits    *)
(* the sandbox as running, runs it, and commits the verdict, all in a session  *)
(* that never reads again a row it has loaded (expire_on_commit=False).        *)
(*                                                                             *)
(* A version is a row of skill_versions with its rows in scan_results,         *)
(* sandbox_validation_runs and public_skill_releases; each row has a tag of    *)
(* its own, so a deleted version does not come back.  Releases have no expiry  *)
(* date, and the policy of the namespace does not change.                      *)
(*******************************************************************************)
EXTENDS Naturals, FiniteSets, UnitOfWork

CONSTANTS
    Versions,     \* skill_versions rows that may be created
    Slots,        \* requests the API serves at the same time
    Scanners,     \* Celery worker processes
    Requests,     \* bound: the kinds of requests that are made
    Policies,     \* policies the namespace may have
    Publishers,   \* publication endpoints in use: "api", "clawhub"
    Faults,       \* what may go wrong: "error", "late", "crash", "redelivery", "lost"
    Retention,    \* whether a retention policy deletes versions
    Patient,      \* whether people leave a version alone until its scan has ended
    MaxRescans,   \* bound: scans of one version asked for by hand
    MaxFaults     \* bound: faults

ASSUME ReleaseAssumption ==
    /\ IsFiniteSet(Slots) /\ Publishers \subseteq {"api", "clawhub"}
    /\ Faults \subseteq {"error", "late", "crash", "redelivery", "lost"}
    /\ Policies \subseteq [review : BOOLEAN, sandbox : BOOLEAN, approval : BOOLEAN]
    /\ {Retention, Patient} \subseteq BOOLEAN
    /\ {MaxRescans, MaxFaults} \subseteq Nat

VARIABLES
    policy,    \* the governance policy of the namespace
    skill,     \* the skill: active, soft-deleted or purged
    ver,       \* [Versions -> Version]: the rows
    mirror,    \* the versions a follower has that replays the public events
    queue,     \* scan messages of each version, by the times they were retried
    scanner,   \* [Scanners -> Scan]: the sessions of the workers
    req,       \* [Slots -> Request]: the requests the API is serving
    rescans,   \* scans asked for by hand
    faults,    \* faults so far
    passed,    \* history: versions that passed every check the policy asks for
    signed     \* history: versions an administrator approved

vars == <<policy, skill, ver, mirror, queue, scanner, req, rescans, faults, passed, signed>>
-------------------------------------------------------------------------------
\* Celery's max_retries.
ScanRetries == 2

Policy == [review : BOOLEAN, sandbox : BOOLEAN, approval : BOOLEAN]

Decisions == {"approved", "rejected", "pending"}

\* "absent" and "deleted" versions have no row; a passed scan may have warnings.
Version == [status   : {"absent", "quarantine", "scanning", "review", "production",
                        "rejected", "deleted"},
            review   : {"not_required"} \cup Decisions,
            required : BOOLEAN,
            share    : {"none"} \cup Decisions,
            scan     : {"pending", "running", "passed", "failed"},
            sandbox  : {"none", "pending", "running", "passed", "failed", "skipped"}]

NoRow == [status |-> "absent", review |-> "not_required", required |-> FALSE,
          share |-> "none", scan |-> "pending", sandbox |-> "none"]
Gone  == [NoRow EXCEPT !.status = "deleted"]

\* What a request does to the rows: it loaded snap and leaves new; one that
\* loaded a release row updates that row, one that loaded none inserts one.  The
\* events it records take drop out of a follower's copy and put add into it.
Request == [op      : {"none", "publish", "share", "unshare", "row", "review", "rescan",
                       "delete", "skill"},
            v       : SUBSET Versions,
            snap    : [Versions -> Version],
            new     : [Versions -> Version],
            skill   : {"active", "deleted", "purged"},
            drop    : SUBSET Versions,
            add     : SUBSET Versions]

\* What a scan remembers of the rows it loaded when it started.
Scan == [stage  : {"idle", "static", "sandbox"},
         v      : SUBSET Versions,
         tries  : 0 .. ScanRetries,
         review : {"not_required"} \cup Decisions,
         share  : {"none"} \cup Decisions,
         live   : BOOLEAN]

NoRequest == [op |-> "none", v |-> {}, snap |-> [v \in Versions |-> NoRow],
              new |-> [v \in Versions |-> NoRow], skill |-> "active", drop |-> {}, add |-> {}]
NoScan == [stage |-> "idle", v |-> {}, tries |-> 0, review |-> "not_required",
           share |-> "none", live |-> FALSE]

TypeOK ==
    /\ policy \in Policy
    /\ skill \in {"active", "deleted", "purged"}
    /\ ver \in [Versions -> Version]
    /\ mirror \in SUBSET Versions
    /\ queue \in [Versions -> [0 .. ScanRetries -> Nat]]
    /\ scanner \in [Scanners -> Scan]
    /\ req \in [Slots -> Request]
    /\ rescans \in [Versions -> 0 .. MaxRescans]
    /\ faults \in 0 .. MaxFaults
    /\ passed \in SUBSET Versions
    /\ signed \in SUBSET Versions

Init ==
    /\ policy \in Policies
    /\ skill = "active"
    /\ ver = [v \in Versions |-> NoRow]
    /\ mirror = {}
    /\ queue = [v \in Versions |-> [n \in 0 .. ScanRetries |-> 0]]
    /\ scanner = [w \in Scanners |-> NoScan]
    /\ req = [s \in Slots |-> NoRequest]
    /\ rescans = [v \in Versions |-> 0]
    /\ faults = 0
    /\ passed = {}
    /\ signed = {}
-------------------------------------------------------------------------------
Exists(row) == row.status \notin {"absent", "deleted"}

\* is_publicly_available.
Live(row) == row.status = "production" /\ row.share = "approved"

\* Scan messages waiting or being worked on.
Outstanding(v) == (\E n \in 0 .. ScanRetries : queue[v][n] > 0)
                  \/ (\E w \in Scanners : scanner[w].v = {v})

\* Faults: definitions of the form Fault... are not part of the model.  Each is a
\* plausible mistake in the definition that follows it, and PROJECT.json names the
\* property that fails when the definition is replaced by it.
FaultTombstone(v, before, row) == {}

\* record_version_sync_event: a version that was live and is not is buried, a live
\* one is announced, anything else is a state event that followers do not get.
Tombstone(v, before, row) == IF before /\ ~Live(row) THEN {v} ELSE {}
Upsert(v, row)            == IF Live(row) THEN {v} ELSE {}

FaultBlocked(row, review) ==
    \/ policy.sandbox /\ row.sandbox = "failed"
    \/ review = "rejected"
FaultVeto(row, review) == policy.sandbox /\ row.sandbox \notin {"none", "passed"}

\* ReleaseGateService.evaluate, its parts: what rejects, what asks for a review.
Blocked(row, review) ==
    \/ policy.sandbox /\ row.sandbox \notin {"none", "passed"}
    \/ review = "rejected"

Unreviewed(review) == policy.review /\ review # "approved"

\* issues: an example or a validation spec is missing, or the clinic's evaluation
\* of the namespace is missing, stale or below the threshold.
Verdict(row, issues) ==
    LET asked == IF policy.review /\ row.review = "not_required" THEN "pending" ELSE row.review
    IN  CASE row.scan = "failed" \/ Blocked(row, asked) ->
                [row EXCEPT !.status = "rejected", !.review = asked]
          [] OTHER ->
                IF Unreviewed(asked) \/ issues
                THEN [row EXCEPT !.status = "review", !.review = asked]
                ELSE [row EXCEPT !.status = "production",
                                 !.review = IF @ = "pending" THEN "not_required" ELSE asked]
-------------------------------------------------------------------------------
(* Requests.                                                                   *)

\* A request that loads the versions it touches and leaves them as in new.
Start(s, op, touched, new, kept, drop, add) ==
    /\ req[s].op = "none" /\ op \in Requests
    /\ Patient => \A v \in touched : ~Outstanding(v)
    /\ req' = [req EXCEPT ![s] =
                 [op |-> op, v |-> touched, skill |-> kept, drop |-> drop, add |-> add,
                  snap |-> [v \in Versions |-> IF v \in touched THEN ver[v] ELSE NoRow],
                  new  |-> [v \in Versions |-> IF v \in touched THEN new[v] ELSE NoRow]]]
    /\ UNCHANGED <<policy, skill, ver, mirror, queue, scanner, rescans, faults, passed, signed>>

\* One that leaves version v as row and records the event of the change.
Change(s, op, v, row) ==
    /\ skill = "active" /\ Exists(ver[v])
    /\ Start(s, op, {v}, [ver EXCEPT ![v] = row], skill,
             Tombstone(v, Live(ver[v]), row), Upsert(v, row))

\* set_public_release with the policy of the namespace.
Shared == IF policy.approval THEN "pending" ELSE "approved"

\* publish_version; ClawHub publishes without the policy and without a sandbox row.
\* A primary key is given out once, to whoever asks first.
Publish(s, v, via, share) ==
    LET row == IF via = "api"
               THEN [status |-> "quarantine", review |-> IF policy.review THEN "pending" ELSE "not_required",
                     required |-> policy.review, share |-> IF share THEN Shared ELSE "none",
                     scan |-> "pending", sandbox |-> "pending"]
               ELSE [NoRow EXCEPT !.status = "quarantine", !.share = IF share THEN "approved" ELSE "none"]
    IN  /\ skill = "active" /\ ver[v].status = "absent"
        /\ share => "share" \in Requests
        /\ \A t \in Slots : req[t].op = "publish" => v \notin req[t].v
        /\ Start(s, "publish", {v}, [ver EXCEPT ![v] = row], skill, {}, {})

Share(s, v)   == Change(s, "share", v, [ver[v] EXCEPT !.share = Shared])
Unshare(s, v) == Change(s, "unshare", v, [ver[v] EXCEPT !.share = "none"])

ApproveShare(s, v, decision) ==
    /\ ver[v].share # "none"
    /\ Change(s, "share", v, [ver[v] EXCEPT !.share = decision])

\* update_version_review.
Approve(s, v, issues) ==
    Change(s, "review", v, Verdict([ver[v] EXCEPT !.review = "approved"], issues))
Reject(s, v) ==
    Change(s, "row", v, [ver[v] EXCEPT !.review = "rejected", !.status = "rejected"])
Reset(s, v) ==
    Change(s, "row", v, [ver[v] EXCEPT !.review = IF ver[v].required THEN "pending" ELSE "not_required",
                                       !.status = IF ver[v].required THEN "review" ELSE "quarantine"])

\* trigger_scan_endpoint records no event.
Rescan(s, v) ==
    /\ skill = "active" /\ Exists(ver[v])
    /\ rescans[v] + Cardinality({t \in Slots : req[t].op = "rescan" /\ v \in req[t].v}) < MaxRescans
    /\ Start(s, "rescan", {v},
             [ver EXCEPT ![v].status = "quarantine", ![v].scan = "pending", ![v].sandbox = "pending"],
             skill, {}, {})

SharedVersions == {v \in Versions : ver[v].share # "none"}

\* delete_version: its own tombstone, and one for the skill with the last release.
DeleteVersion(s, v) ==
    /\ skill = "active" /\ Exists(ver[v])
    /\ Start(s, "delete", {v}, [ver EXCEPT ![v] = Gone], skill,
             IF SharedVersions = {v} THEN Versions ELSE Tombstone(v, Live(ver[v]), Gone), {})

Rows == {v \in Versions : Exists(ver[v])}

\* delete_skill, restore_skill and, for the same rows, those of the namespace.
DeleteSkill(s) ==
    /\ skill = "active"
    /\ Start(s, "skill", Rows, ver, "deleted", IF SharedVersions # {} THEN Versions ELSE {}, {})
RestoreSkill(s) ==
    /\ skill = "deleted"
    /\ Start(s, "skill", Rows, ver, "active", {}, {v \in Versions : Live(ver[v])})
PurgeSkill(s) ==
    /\ skill = "deleted"
    /\ Start(s, "skill", Rows, [v \in Versions |-> IF v \in Rows THEN Gone ELSE ver[v]], "purged", {}, {})

\* Flushing an update of a row that is gone, a second release of a version, or a
\* child of a purged skill fails, and the handler's transaction is rolled back.
Refused(r) ==
    \/ r.op \in {"share", "review", "row", "rescan"} /\ \E v \in r.v : ~Exists(ver[v])
    \/ r.op = "share" /\ \E v \in r.v : (r.snap[v].share = "none") # (ver[v].share = "none")
    \/ r.op \in {"publish", "skill"} /\ skill = "purged"
    \/ r.op = "skill" /\ r.skill = "purged" /\ \E v \in Versions : Exists(ver[v]) /\ ~Exists(r.snap[v])

Flushed(r) == [v \in Versions |-> IF Gone \in {ver[v], r.new[v]} THEN Gone
                                  ELSE Flush(ver[v], r.snap[v], r.new[v])]

\* Messages sent after the commit: one lost with its process is never sent.
Sent(r, lost) ==
    IF r.op \in {"publish", "rescan"} /\ ~lost
    THEN [v \in Versions |-> IF v \in r.v THEN [queue[v] EXCEPT ![0] = @ + 1] ELSE queue[v]]
    ELSE queue

Commit(s, lost) ==
    LET r == req[s] IN
    /\ r.op # "none"
    /\ lost => "lost" \in Faults /\ faults < MaxFaults /\ r.op \in {"publish", "rescan"}
    /\ req' = [req EXCEPT ![s] = NoRequest]
    /\ IF Refused(r)
       THEN UNCHANGED <<skill, ver, mirror, queue, rescans, faults, signed>>
       ELSE /\ ver' = Flushed(r)
            /\ skill' = IF r.op = "skill" THEN r.skill ELSE skill
            /\ mirror' = (mirror \ r.drop) \cup r.add
            /\ queue' = Sent(r, lost)
            /\ faults' = IF lost THEN faults + 1 ELSE faults
            /\ rescans' = [v \in Versions |-> IF r.op = "rescan" /\ v \in r.v
                                              THEN rescans[v] + 1 ELSE rescans[v]]
            /\ signed' = IF r.op = "review" THEN signed \cup r.v ELSE signed
    /\ UNCHANGED <<policy, scanner, passed>>

BeginSome(s) ==
    \/ \E v \in Versions :
          \/ \E via \in Publishers, share \in BOOLEAN : Publish(s, v, via, share)
          \/ Share(s, v)
          \/ Unshare(s, v)
          \/ \E decision \in Decisions : ApproveShare(s, v, decision)
          \/ \E issues \in BOOLEAN : Approve(s, v, issues)
          \/ Reject(s, v)
          \/ Reset(s, v)
          \/ Rescan(s, v)
          \/ DeleteVersion(s, v)
    \/ DeleteSkill(s)
    \/ RestoreSkill(s)
    \/ PurgeSkill(s)
-------------------------------------------------------------------------------
(* The scan worker.                                                            *)

\* The rows of v become row, the session of worker w becomes scan.
Work(w, v, row, scan, messages, drop, add) ==
    /\ ver' = [ver EXCEPT ![v] = row]
    /\ scanner' = [scanner EXCEPT ![w] = scan]
    /\ queue' = [queue EXCEPT ![v] = messages]
    /\ mirror' = (mirror \ drop) \cup add
    /\ UNCHANGED <<policy, skill, req, rescans, signed>>

\* trigger_scan takes a message; nothing is left to do for a deleted version.
Deliver(w, v, tries) ==
    LET row  == ver[v]
        left == [queue[v] EXCEPT ![tries] = @ - 1]
    IN  /\ scanner[w].stage = "idle" /\ queue[v][tries] > 0
        /\ IF Exists(row)
           THEN Work(w, v, [row EXCEPT !.status = "scanning", !.scan = "running", !.sandbox = "pending"],
                     [stage |-> "static", v |-> {v}, tries |-> tries, review |-> row.review,
                      share |-> row.share, live |-> Live(row)], left, {}, {})
           ELSE Work(w, v, row, NoScan, left, {}, {})
        /\ UNCHANGED <<faults, passed>>

FaultRetry(v, tries) == IF tries <= ScanRetries
                        THEN [n \in DOMAIN queue[v] \cup {tries + 1} |->
                                IF n = tries + 1 THEN 1 ELSE queue[v][n]]
                        ELSE queue[v]

Retry(v, tries) == IF tries < ScanRetries THEN [queue[v] EXCEPT ![tries + 1] = @ + 1] ELSE queue[v]

FaultAborted(row) == IF Exists(row) THEN [row EXCEPT !.scan = "failed", !.sandbox = "failed"] ELSE row

\* _fail_scan rejects the version and records no event.
Aborted(row) == IF Exists(row)
                THEN [row EXCEPT !.scan = "failed", !.sandbox = "failed", !.status = "rejected"]
                ELSE row

\* The scan of a deleted skill fails on the missing row: the lines that mean to
\* put its version back into quarantine are reached by no execution.
SkillGone(w, v) ==
    /\ scanner[w].stage = "static" /\ scanner[w].v = {v} /\ skill # "active"
    /\ Work(w, v, Aborted(ver[v]), NoScan, Retry(v, scanner[w].tries), {}, {})
    /\ UNCHANGED <<faults, passed>>

\* The row was deleted under the scan: its first flush fails, and so does the next
\* attempt to report that; a retried message finds no version.
RowGone(w, v) ==
    /\ scanner[w].v = {v} /\ ~Exists(ver[v])
    /\ Work(w, v, ver[v], NoScan, Retry(v, scanner[w].tries), {}, {})
    /\ UNCHANGED <<faults, passed>>

\* Critical or high issues: the version is rejected and the sandbox skipped.
StaticFailure(v) == [ver[v] EXCEPT !.status = "rejected", !.scan = "failed", !.sandbox = "skipped"]

StaticFails(w, v) ==
    LET row == StaticFailure(v) IN
    /\ scanner[w].stage = "static" /\ scanner[w].v = {v} /\ skill = "active" /\ Exists(ver[v])
    /\ Work(w, v, row, NoScan, queue[v], Tombstone(v, scanner[w].live, row), Upsert(v, row))
    /\ UNCHANGED <<faults, passed>>

StartSandbox(w, v) ==
    /\ scanner[w].stage = "static" /\ scanner[w].v = {v} /\ skill = "active" /\ Exists(ver[v])
    /\ Work(w, v, [ver[v] EXCEPT !.sandbox = "running"],
            [scanner[w] EXCEPT !.stage = "sandbox"], queue[v], {}, {})
    /\ UNCHANGED <<faults, passed>>

\* A release the session loaded is seen as it was then, unless it was deleted.
SeenShare(loaded, share) == IF "none" \in {loaded, share} THEN share ELSE loaded

\* A sandbox that fails where it is required fails the scan.
Scanned(result) == IF result = "failed" /\ policy.sandbox THEN "failed" ELSE "passed"

\* The row as the session of worker w sees it when the version has been decided.
Decided(w, v, result, issues) ==
    LET mem  == scanner[w]
        seen == [ver[v] EXCEPT !.scan = Scanned(result), !.sandbox = result, !.review = mem.review,
                               !.share = SeenShare(mem.share, @)]
    IN  IF seen.scan = "failed" THEN [seen EXCEPT !.status = "rejected"] ELSE Verdict(seen, issues)

\* What the flush leaves: the release is another row, and a review that the session
\* did not change is not written.
Written(w, v, decided) ==
    [decided EXCEPT !.share = ver[v].share, !.review = IF @ = scanner[w].review THEN ver[v].review ELSE @]

FinishScan(w, v, result, issues) ==
    LET mem     == scanner[w]
        decided == Decided(w, v, result, issues)
    IN  /\ mem.stage = "sandbox" /\ mem.v = {v} /\ Exists(ver[v])
        /\ Work(w, v, Written(w, v, decided), NoScan, queue[v], Tombstone(v, mem.live, decided), Upsert(v, decided))
        /\ passed' = IF Scanned(result) = "passed" /\ (policy.sandbox => result = "passed")
                     THEN passed \cup {v} ELSE passed
        /\ UNCHANGED faults

\* One step of the scan of worker w.
Scans(w) ==
    \E v \in Versions :
       \/ SkillGone(w, v)
       \/ RowGone(w, v)
       \/ StaticFails(w, v)
       \/ StartSandbox(w, v)
       \/ \E result \in {"passed", "failed", "skipped"}, issues \in BOOLEAN :
             FinishScan(w, v, result, issues)

Receives(w) == \E v \in Versions, tries \in 0 .. ScanRetries : Deliver(w, v, tries)

Fault(kind) == kind \in Faults /\ faults < MaxFaults /\ faults' = faults + 1 /\ UNCHANGED passed

\* An exception, which is retried, or an unreadable repository, which is not.
ScanError(w, v, retried) ==
    /\ Fault("error")
    /\ scanner[w].stage # "idle" /\ scanner[w].v = {v} /\ Exists(ver[v])
    /\ retried \/ (scanner[w].stage = "static" /\ skill = "active")
    /\ Work(w, v, Aborted(ver[v]), NoScan,
            IF retried THEN Retry(v, scanner[w].tries) ELSE queue[v], {}, {})

\* An exception after the event of the verdict is recorded (the broker refuses a
\* webhook): _fail_scan commits in the same session, so the event goes out with a row
\* that is rejected, and the scan is retried.
LateError(w, v, decided) ==
    /\ Fault("late")
    /\ scanner[w].v = {v} /\ Exists(ver[v])
    /\ Work(w, v, Aborted(Written(w, v, decided)), NoScan, Retry(v, scanner[w].tries),
            Tombstone(v, scanner[w].live, decided), Upsert(v, decided))

StaticErrs(w, v) == scanner[w].stage = "static" /\ skill = "active" /\ LateError(w, v, StaticFailure(v))

FinishErrs(w, v, result, issues) ==
    scanner[w].stage = "sandbox" /\ LateError(w, v, Decided(w, v, result, issues))

FaultRequeued(v, tries) == queue[v]

\* A message is acknowledged when its task has ended: one whose worker is lost, or
\* that takes longer than the visibility timeout, is delivered again.
Requeued(v, tries) == [queue[v] EXCEPT ![tries] = @ + 1]

Crash(w, v) ==
    /\ Fault("crash")
    /\ scanner[w].v = {v}
    /\ Work(w, v, ver[v], NoScan, Requeued(v, scanner[w].tries), {}, {})

Redeliver(w, v) ==
    /\ Fault("redelivery")
    /\ scanner[w].v = {v}
    /\ Work(w, v, ver[v], scanner[w], Requeued(v, scanner[w].tries), {}, {})

Breaks(w) ==
    \E v \in Versions :
       \/ \E retried \in BOOLEAN : ScanError(w, v, retried)
       \/ StaticErrs(w, v)
       \/ \E result \in {"passed", "failed", "skipped"}, issues \in BOOLEAN :
             FinishErrs(w, v, result, issues)
       \/ Crash(w, v)
       \/ Redeliver(w, v)
-------------------------------------------------------------------------------
(* The retention policy of the namespace.                                      *)

\* A version is chosen by its age, its rank or because it was rejected; no event.
Collect(v) ==
    /\ Retention /\ Exists(ver[v])
    /\ ver' = [ver EXCEPT ![v] = Gone]
    /\ UNCHANGED <<policy, skill, mirror, queue, scanner, req, rescans, faults, passed, signed>>
-------------------------------------------------------------------------------
Next ==
    \/ \E s \in Slots : BeginSome(s) \/ \E lost \in BOOLEAN : Commit(s, lost)
    \/ \E w \in Scanners : Receives(w) \/ Scans(w) \/ Breaks(w)
    \/ \E v \in Versions : Collect(v)

Spec == Init /\ [][Next]_vars

\* The worker pool takes messages as long as there are some, and a worker goes on
\* with its scan: the static scan, the sandbox and the model calls have timeouts.
Fairness == WF_vars(\E w \in Scanners : Receives(w)) /\ \A w \in Scanners : WF_vars(Scans(w))

FairSpec == Spec /\ Fairness
-------------------------------------------------------------------------------
(* Properties.                                                                 *)

\* A version reaches production under a policy that requires the sandbox only if a scan of
\* it once passed with its sandbox run, and under a policy that requires a review only if an
\* administrator once approved it, however many scans and requests overlap: neither an
\* approval read before the scan nor a second scan can let it through.
ProductionVetted ==
    \A v \in Versions : ver[v].status = "production" =>
        /\ policy.sandbox => v \in passed
        /\ policy.review => v \in signed

\* No version is left in scanning: somebody still scans it or a message for it is
\* still in the queue, after crashes, exceptions, retries and redeliveries.
ScanningIsHeld ==
    \A v \in Versions : ver[v].status = "scanning" => Outstanding(v)

\* Nobody acts on v at the moment.
Settled(v) == ~Outstanding(v) /\ \A s \in Slots : req[s].op = "none"
Public(v)  == skill = "active" /\ Live(ver[v])

\* A follower that replays the events in order has every public version, and has
\* a version that is not public only if somebody asked for a second scan of it.
FeedKeepsUp ==
    \A v \in Versions : Settled(v) =>
        /\ Public(v) => v \in mirror
        /\ v \in mirror /\ ~Public(v) => rescans[v] > 0

\* What docs/registry-sync-contract.md promises: a follower has the public versions
\* and removes those that are no longer public.
FeedMirrorsLive == \A v \in Versions : Settled(v) => (v \in mirror <=> Public(v))

\* A version whose review is rejected is out of production, and stays out when it is
\* scanned again.
RejectedStaysOut ==
    \A v \in Versions : ver[v].review = "rejected" => ver[v].status # "production"

\* A scan that is asked for leads to a verdict on its version (or the version is
\* deleted), even when workers are lost, messages are delivered twice, scans raise
\* exceptions, and people review, delete and restore on the way.
VerdictReached ==
    \A v \in Versions :
        Outstanding(v) ~> ver[v].status \notin {"quarantine", "scanning"}
=================================================================================
