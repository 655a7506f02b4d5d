# DuckDock verification

TLA+ models of DuckDock (`backend/app`, its analysis worker and its runtime tool server), TLC
configurations that check them on small instances, and TLAPS proofs of what holds for every size.
DuckDock is a control plane for AI agents and their skills: it takes in reports of agents, has workers
analyze them, keeps the assets they find, hands the assets of a leaving employee over, and runs a
registry of skills that are scanned, reviewed, evaluated and shared with other registries. It is a
FastAPI application on MySQL with Celery workers, Redis, an object store, git repositories, and
programs that live outside and speak HTTP.

## The system and its modules

| Part | State | Operations | Module |
| --- | --- | --- | --- |
| Request transactions (`core/database.py`) | one session per request | snapshot, flush, commit, rollback | `UnitOfWork` |
| Report upload and ingestion (`report_upload_service.py`) | upload sessions, packs in the object store, jobs | create, sign again, put, finalize, ingest | `ReportIntake` |
| Runtimes and reporters (`endpoints/control_plane.py`) | runtimes, reporter credentials, report tokens | enrol, heartbeat, rotate, revoke, edit | `RuntimeReporters` |
| Assets, traces, candidates (`adapter_collection_service.py`, `structured_report_service.py`, `analysis_materializer.py`) | assets, owners, bindings, traces, candidates | pack, backup, structured report, analysis result, edits by hand | `AssetCatalog` |
| Runtime tool server (`tools/duckdock-runtime-mcp`) | configuration file, reporter skill, automations | install, configure, create, run, pause, uninstall | `RuntimeMcp` |
| Organisation and people (`endpoints/iam.py`, `people.py`) | units with stored paths, affiliations, handover profiles | create, rename, move, affiliate, edit | `OrgDirectory` |
| Report analysis queue (`analysis_service.py`), analysis worker script | job, session, collection job, artifacts, worker; stage of one process | enqueue, finalize again, ingest past the queue, lease, heartbeat, finalize, fail, cancel, retry, disable, reap; poll, PUT, crash | `AnalysisQueue`, `WorkLease` |
| Handover cases (`endpoints/control_plane.py`) | case, items, approvals, actions, keys | collect, add item, analyze, submit, decide, execute, receipt, verify | `Handover` |
| Skill releases (`skills.py`, `scans.py`, `scan_tasks.py`, `release_gate_service.py`) | version, scan, sandbox run, release | publish, scan, gate, review, rescan, delete, restore, purge, retention | `SkillRelease` |
| Git and artifact stores, replication (`git_service.py`, `artifact_service.py`, `replication_service.py`) | rows, tags, trees, bundles, manifests | publish, delete, purge, collect, replicate | `SkillStores` |
| Registry feed (`endpoints/registry.py`, `sync_event_service.py`) | releases, numbered events, cursors | share, approve, expire, delete, follow, reconcile, index | `RegistryFeed` |
| Clients (`endpoints/clawhub.py`, `registry.py`) | bundles, signed links, standing of clients | resolve, download, file, manifest, sign, open | `SkillClients` |
| Scanner and clinic (`scanner_service.py`, `clinic_service.py`, `clinic_tasks.py`) | findings of versions, suppressions, evaluations | publish, scan, suppress, ask, load, judge, complete, retry | `SkillAssessment` |
| Namespaces and access (`namespaces.py`, `iam_service.py`, `deps.py`) | members, roles, bindings, robots, trash | create, edit, bind, delete, restore, check, list | `NamespaceAccess` |
| Logins (`sso_service.py`, `auth.py`) | accounts, identity links, mappings, bindings | register, log in, link, edit mappings, revoke | `SsoLogin` |
| Failure lockout (`core/ratelimit.py`) | counters and locks in Redis | precheck, count, lock, expire | `AuthThrottle` |
| Tenant backfill (`tenant_resolution_service.py`, `tenant_backfill_service.py`, the command) | namespace of each row, runs, checkpoint file | resolve, load a batch, fill, commit, save, build rows | `TenantBackfill` |

`PROJECT.json` lists the components with their files, and those that are not modelled with the reason.

How they interact. A reporter enrolled by `RuntimeReporters` sends packs (`ReportIntake`) or, from the tool
server (`RuntimeMcp`), structured reports; a finalized pack enqueues an analysis job (`AnalysisQueue`), and
packs, reports and accepted results become assets (`AssetCatalog`), which handover cases name. Publication
of a skill version writes a tag, artifacts and rows (`SkillStores`) and then sends a Celery message; the
scan worker decides the version (`SkillRelease`), changes of its public visibility add events (most of them
do) that other registries pull (`RegistryFeed`), and clients fetch it through the API or a signed link
(`SkillClients`). Who may do any of it comes from memberships and role bindings (`NamespaceAccess`), some of
which logins write (`SsoLogin`). Everything goes through shared rows. What is hard is the same everywhere:
handlers read rows without locks, wait (for a model, a hash of a large object, a sandbox, another store),
and flush what they decided on the old reading; stores outside the transaction keep what a rollback takes
back; messages are delivered again after a worker is lost; leases, links and locks lapse while their holder
still works.

### `UnitOfWork`: what overlapping requests do to a row

`core/database.py` opens one session per request, commits at the end and rolls back on an exception.
No isolation level is set, so MySQL uses REPEATABLE READ: plain SELECTs read the snapshot of the
first, `FOR UPDATE` and UPDATE see the latest row. SQLAlchemy writes only columns whose value
differs from the loaded one. `Flush(cur, snap, new)` says so in one line, and most modules model a
request as two steps: one that loads (snapshot, plain guards) and a commit (locked guards, flush).
With one slot requests are serial; with two, every overlap of two is explored. Properties the code keeps
only while requests do not overlap carry a history flag (`mixed`, `uploadMixed`, ...) that becomes true
with the first overlap of two requests, so that one instance checks both what holds in every overlap
and what holds without.

### The intake of reports

`ReportIntake`. `upload[i]` is a session with the hash finalize recorded and the pack ingestion parsed;
`packObject[i]` what is in the object store now, which the holder of a signed URL changes whenever it
likes. Signing again extends a session; a clock lets sessions lapse.

`RuntimeReporters`. A credential belongs to a runtime and a device; enrolment and rotation look for the
others of the device and supersede them. The older report tokens and the status of the runtime row
(which heartbeats write) are in the same module.

`AssetCatalog`. One record `catalog` holds five tables. Each way of writing looks a row up and raises
if it finds two, which rolls the whole request back. `RefIds` and the derived external ids ("named",
"digest") are what the services compute when a report gives none.

`RuntimeMcp`. `mcpCall[p]` is the tool call a server is in the middle of, `mcpConfig` and
`reporterSkill` are files, `automation[a]` a row of WorkBuddy, reached over a bridge that may be down.
Names are matched by substring, so runtime 1 also finds "runtime 12" (`ReadsAs`).

`OrgDirectory`. A unit repeats the path of the units above it; a rename or a move rewrites every path
below (`Refreshed`). Affiliations keep one primary unit per user.

### `AnalysisQueue`

`db[j]` is the record of the rows that belong to report `j`: status, worker, lease, attempts and stored hash
of the job, the statuses of session and collection job, the recorded files. A lease deadline is `none`,
`live` or `lapsed` (`Lapse` is the passing of time). `object[j]` holds which lease's content each
object-store key has; file 0 stands for the four result files whose names do not carry the attempt number.
`proc[p]` is a copy of the worker script with one heartbeat thread, its 60-second client timeouts (`Detach`:
the request goes on without its caller) and its fail report. `grants` counts leases and is history: the n-th
lease writes content n. Job priority is left out, `SKIP LOCKED` is `Contended`, the reaper's batch is one
transaction. Of the service, the read-only metrics, the enrolment of workers and the review of memory
candidates are not modelled. Two requests write session and collection job from outside the queue. A report
finalized again (`BeginRefinalize`, for the jobs in `Repeatable`) is refused while the session is ingesting
or succeeded and is otherwise set to uploaded; its job, also one that failed or was cancelled, is left as it
is, and so is the collection job. An administrator's ingest (`Ingest`, for `Ingestible`) is one step that
needs a free slot, does not look at the job and sets both to what came of it; it is checked among serial
requests only.

`WorkLease` is the abstract specification: a job is queued, held, done or dead; a newer lease makes
older ones worthless; the accepted result is that of the newest lease. `AnalysisQueue` implements it
(`Abstract == INSTANCE WorkLease WITH ...`, property `ImplementsWorkLease`) when requests do not overlap.

### `Handover`

One case with its items, approval tasks, actions and idempotency keys; cases share no rows. Each
endpoint is an action; only execute locks the case, so its guards are evaluated at Commit. `FreshItem`
and `FreshTask` are primary keys. Updating the case, evidence, packages and replays of receipts
change no modelled row. `cancelled` is a status (docs/architecture.md:212) that no code sets, and
`analyzing` is never committed. A case may end, so deadlock is not checked. `MCHandover` instantiates it
twice: three items with one request at a time, and one item with two requests at once.

### `SkillRelease`

One skill. `ver[v]` is the row of a version with its scan, sandbox and release rows; `queue` the
Celery messages, `scanner[w]` what the session of a worker has loaded. Sessions use
`expire_on_commit=False` and so never see later changes of a row they loaded: `FinishScan` computes
the verdict from the review it remembers and the event from the release it remembers (`SeenShare`).
`mirror` is the set of versions a follower has that replays the public events in commit order.
The deletion of a row under a writer is a refused flush (`Refused`, `RowGone`). Namespace deletion and
restoration do to the versions what those of the skill do. A scan that starts on a deleted skill fails
on the missing row, so the lines that put its version back into quarantine are never reached.
A scan that raises is rejected in its own session: before its event is recorded nothing else is committed
(`ScanError`), behind it the event goes out with the rejected row (`LateError`, fault "late").
The first transaction of a scan reads and writes in one step. Versions have distinct tags; policy and
expiry dates are fixed; git tags and artifacts are in `SkillStores`. A message whose scan has ended and
that is delivered again is a `Redeliver` whose copy is taken after the end.

### The stores, the feed and the clients

`SkillStores`. One skill in two namespaces. A request is a sequence of steps, one per call of a store (push,
upload, delete), because only the rows are rolled back. `CutOff` ends one anywhere between its first step
and its commit: by a lost process, or by an error nobody answers for, of which step `raise` marks those that
surely come (an object store that cannot be reached, a git that refuses to take a tag back). `torn`
remembers the tags such a request had touched, and those retention could not delete; a purge that commits
clears them. The tree of a tag contains what earlier versions left.

`RegistryFeed`. Event numbers are given out at flush (`feedReq[s]` holds them) and become visible at commit.
A follower reads pages after its cursor, or starts again from the index with cursor 0. `silent` are the
versions withdrawn without an event since they were last announced: their share ran out (`Expire`), they
were scanned again or their scan was given up (`Rescan`), retention deleted them (`Collect`), or the event
of a scan that failed behind it said they were public (`FailRelease`). A scan is a request whose first
commit is `Rescan`: it may have read the state before that commit, which is what `Before` chooses from.

`SkillClients`. `entitledAgo` remembers how long ago a client was last entitled to a version, and
`got[c]` what it got last, by which way and how long its entitlement had been over: the property
compares the two. A signed link names namespace, skill and tag, not a version.

### Assessment, access and tenants

`SkillAssessment`. A package is a record of what the checks tell apart of its files; `Findings` are the
rules over it, scores are integer arithmetic, grades come from thresholds. An evaluation is a row and a
Celery task with the retries and redeliveries of `clinic_tasks.py`; the model may fail at any of its calls.
A scan starts on a row of any status, since its message may be retried or delivered again.

`NamespaceAccess`. A handler is one step here: each writes rows of its own, and the overlaps that matter
(a skill's deletion with its namespace's) are in the departures. `OpensAs` follows the checks of
`deps.py` and `iam_service.py`, `ShownAs` the lists, which the code computes apart.

`SsoLogin`. `claimed` remembers what the last login of an account through a provider asked for, `byHand`
the bindings administrators made.

`AuthThrottle`. Each call to Redis is a step; several requests are between precheck and lock at once.

`TenantBackfill`. `Verdict` is the resolver. A run loads a batch under a snapshot, fills rows whose
verdict is one namespace with a current read, commits, and then saves the checkpoint; it may stop
anywhere. The application's builders add rows meanwhile.

## What is checked

| Run | Instance | What it shows |
| --- | --- | --- |
| `queue_races` | 1 job, 2 workers, 2 overlapping requests, 2 attempts, 1 retry | no row is left without a lease deadline, no increment lost, no key shared, no live lease stolen |
| `queue_serial` | 1 job, serial requests, 3 attempts, 2 retries, finalized again and ingested past the queue | rows of a report agree (or are what an ingest past the queue left, whole), the newest lease's result is intact, decisions are final, refinement of `WorkLease` |
| `queue_live` | 1 job, serial, resetting retries | every job is decided (beat running); a dead worker's job is picked up without beat |
| `handover` | serial: 3 items of 2 assets, 2 approvers, 2 executions; overlapping: 1 item, 2 keys, 2 requests | approval gate, one direction, receipts against status, nothing executed twice; in every overlap action and item agree and a key creates one set |
| `release_safe` | 1 version, 2 scan workers, 1 request, 1 fault (also behind the event of a verdict), 1 second scan, retention | nothing unvetted or unapproved in production, nothing left in scanning |
| `release_feed` | 2 versions, both publishers, people who wait for scans | a follower keeps up; a rejected version stays out |
| `release_live` | 1 version, 2 faults, impatient people | every scan that is asked for ends in a verdict |
| `intake` | five modules, one at a time (below) | retries of a reporter meet one session, what is ingested is what was sealed, one credential per device, reports find one row, the tool configuration goes last, the directory is consistent |
| `platform` | eight modules, one at a time (below) | tags match rows, caught-up mirrors hold what is public, a checkpoint covers what it passed, verdicts keep, critical findings cap the score, bindings follow logins, locks come from failures only, restored as left, what is listed opens, clients get what was offered |

`intake` and `platform` hold several modules at once: a variable `focus`, chosen in the initial state,
says which of them moves, and the others stutter. The modules share no variable, so this is the union of
their state spaces, not their product. The foci and the bounds each adds (`MCIntake`, `MCPlatform`):

- `upload`: 2 sessions, 1 key, 2 packs, 2 slots, one tick of the clock, 4 calls. `reporter`: 1 runtime, 3
  credentials of one device (active, superseded and revoked at once), 4 calls. `catalog`: 3 requests in a
  row or 2 at once, with and without an external id, two assets in one pack.
- `mcp`: one server and automations of two runtimes, one of which reads as the other; `mcps`: two servers
  and one runtime. `org`: three units (a move has something above and below), serial; `orgs`: two units
  and requests that overlap once.
- `stores`: 2 tags, 2 slots, 3 calls. `feed`: an anonymous client, serial requests, 3 events, two versions
  of which the second is always shared and never rejected (it is what else there is when the first, which
  does everything, is withdrawn); `feeds`: a client that signs in, 1 version, requests that overlap once.
- `fill`: seven old rows of five tables, batches of three, runs one after the other; `fills`: overlapping runs
  without the second asset. `clinic`: one evaluation of two skills, whose versions stay as loaded (a rule is
  suppressed only while there is no second); `clinics`: two evaluations of one, which has a command and is
  scanned once.
- `sso`: one account with two grants through two providers; `ssos`: two accounts, logins that overlap once.
  `throttle`: 1 key, 2 requests, a window of 2 seconds, 5 seconds. `ns`: roles and bindings; `nss`: the trash,
  two skills and a robot. `clients`: two versions under one tag, two tags or two skills, 5 edits.

Bounds. Two overlapping requests are enough for a lost update, which needs one reader and one writer; two
workers, for a stale and a current holder; two attempts, for "the last" and "not the last"; two versions,
tags and skills, for a step on several rows (skill tombstone, retention) and for one thing that replaces
another; jobs share no row but their worker's, so the queue runs have one and what a reap or a disable does
to several is left to the proofs; three credentials and three units, for something between two others.
Retries, executions, calls, scans asked for by hand, edits, the clock and faults are counters bounded by
constants named `Max...`. `Requests` and `Policies` narrow what people do in a run of `SkillRelease`: the
policies checked require the sandbox and the approval of releases, with and without a manual review.
In `release_safe` the whole skill is deleted and restored only where there is a review (`MCSafeSpec`).
`release_feed` leaves the history variables out of the state (VIEW), since no step and no property of that
run reads them. Symmetry is used for slots, workers, versions and packs, never with liveness. Deadlock is
checked only in the queue runs: elsewhere bounds, or the end of a case, stop the system.

Fairness. The API answers what it accepted (WF of `Serve`) and does not refuse a polling worker for
ever (SF of `PollFor`, because slots are contended); the script's calls have timeouts (WF of `Work`);
time passes (WF of `Lapse`). The beat task is only a hypothesis of `Decided`; `PickedUpInline` does
without it. Scan workers take messages and go on with a scan (WF): static scan, sandbox and model calls
have timeouts. No fairness is assumed of people, faults or retention. The other modules have no liveness
property: what they do ends with the request.

### Disagreements between code and documents

Runs that end in a counterexample:

- `queue_race_terminal`: a heartbeat read before a cancel flushes RUNNING over CANCELLED
  (analysis_service.py:402).
- `release_rescan`: a live version whose second scan fails is withdrawn without a tombstone (scans.py:144).
- `registry_latest`: with `latest_only` the index takes the newest production version of a skill first and
  then asks whether it is shared, so a skill whose newest one is not is left out (registry.py:159), where
  docs/registry-sync-contract.md:44 promises the newest visible version.

Departures seen while modelling, explored with the same modules (most by dropping a flag or widening a
bound) but without a run of their own:

- queue: a finalize that outlives its lease records the old hash under the new lease
  (analysis_service.py:452); a disable with a stale snapshot requeues a job without attempts left (725);
  retry without reset does the same (796); a retry with reset attempts derives a result key an old worker
  may still write to (849); the four result files without attempt number can be overwritten by a stale
  worker (1184); replicas that share one token are one identity to the queue (1303, docker-compose.yml:190).
  Finalizing a report again whose job failed or was cancelled shows it as uploaded, waiting for a job that
  nobody runs again (report_upload_service.py:248, analysis_service.py:281); an administrator's ingest
  writes session and collection job at any status of the job (report_upload_service.py:264), so that they
  may say succeeded while it fails, and the other way round.
- handover: an approval that overlaps a rejection of the same task reverses it (control_plane.py:2774); two
  last approvals at once leave the case pending (2776), two last receipts leave it executing (2988), a late
  failed receipt lands in a completed case (2932); a stale second approval reopens an executing case (2780);
  executing only some items leads to a case nobody can close (2811); items can be added after the end (2518);
  execute and receipt lock in opposite orders (527), and InnoDB rolls one of them back.
- release: a rejection during a scan does not stop the promotion, an approval during a scan leaves the
  version in review (scan_tasks.py:308); a release approved during a scan is never announced (319); without
  a sandbox requirement, or for a ClawHub publication before its first scan, an approval promotes a version
  nobody has scanned (release_gate_service.py:95) although docs/user-manual.zh-CN.md:98 speaks of scanned
  versions only; a publication whose message is lost stays in quarantine (skills.py:890); an error behind
  the event of a verdict (scan_tasks.py:344, a broker that refuses the webhook) commits that event with the
  row it rejects (387), so that a version is announced which is not public.
- retention: garbage collection with `keep_days` compares a naive with an aware date and raises, after it
  has deleted the tags of earlier skills (lifecycle_tasks.py:124); it and the sweep (lifecycle_tasks.py:59)
  write no registry event, which docs/registry-sync-contract.md calls not yet formalized, and leave
  artifacts.
- feed: numbers of overlapping requests become visible out of order, so a follower that has passed the
  higher never sees the lower (sync_event_service.py:172); a share that runs out leaves the index without
  a tombstone, and so does one that is shared again as pending after that, a version that is scanned again
  (`release_rescan`) and one that retention deletes; `changed_since` does not see
  sharing or approval.
- stores: a tag left by a request that was cut off blocks its name for good. Besides a lost process it is
  left by a fingerprint that cannot be computed (skills.py:805), by a connection error of the object store,
  which is no `ClientError` (artifact_service.py:383, 76), by a later replication rule that raises
  (replication_service.py:49, 57: the mirror's tags stay and its rows are rolled back), and by a
  compensation git refuses (skills.py:873); a deletion whose object store cannot be asked keeps the row and
  has deleted the tag (skills.py:1382, artifact_service.py:157); a version without its tag can not be
  deleted (500); a crash after the purge of a repository leaves a skill in the trash without one; an
  overlapping replication that fails deletes the other's tag; replication copies the status without a scan
  or a review; a healed bundle is packed from the git tree, which holds files of earlier versions, although
  a fingerprint is promised to be that of the upload (`FingerprintIsUpload`, which a run with two files
  refutes; the reading of the comment is open to argument, so there is no run for it).
- clients: a link outlives unsharing, the trash and the loss of membership by its life, and opens the new
  version's bundle once the tag is used again; a ClawHub download gives the newest visible version when
  the one asked for can not be seen (a header tells), where the same request for a file is a 404; a skill
  whose name contains `--` is read as namespace and skill; readonly members get production only from
  ClawHub, but links to every version from the registry; the index lists by membership, not by role binding.
- intake: two creations with one key that overlap leave two sessions (report_upload_service.py:142); a
  failed finalize rolls its own FAILED back (246); finalizing again keeps the job's old hash; ingestion does
  not look at the status; its error path commits part of the catalog; a heartbeat re-activates a disabled
  runtime; two rotations that overlap leave two credentials, and rotating a revoked one issues a new active
  one; structured reports that overlap leave two traces, after which every lookup raises; an administrator's
  feedback is lost at the next ingestion.
- tool server: pausing runtime 1 pauses "runtime 12" too; a refusal of WorkBuddy counts as paused; an
  uninstall that can not list the automations removes the configuration and leaves them active; an automation
  named for one runtime reports with whatever is configured later; the report key has a second's precision.
- organisation: a unit can be moved below its own descendant, which recurses until it fails and is rolled
  back; two such moves that overlap can each be fine and make a cycle; two overlapping affiliations can both
  be primary.
- logins: a login through a second provider takes over a binding the first manages, although
  specs/007-enterprise-identity-sso/spec.md:18 says a mapping manages only the bindings it created (the
  property follows the code: the taker's claims count); an expired manual binding blocks the same grant from
  SSO; two first registrations that overlap both become admin; of an LDAP attribute only the first value
  counts.
- lockout: attempts that have passed the precheck each prolong the lock; neither success nor the end of
  the lock resets the counter; it is off by default.
- access: a skill deleted in the second its namespace is deleted in comes back with it; a readonly
  membership shadows a stronger binding in API checks while ClawHub takes the stronger; restore checks no
  quota; a robot can not delete a skill (its negative id breaks the foreign key); edits of built-in roles
  are put right at the next checked request; organisation-scoped bindings grant nothing.
- clinic: a completed evaluation that is delivered again runs again; one whose message is lost stays
  pending; after a model failure some dimensions keep the model's scores in a run labelled baseline; a row whose
  scan is still running counts its old findings, so a score may pass the cap; a fenced block that is not
  closed is never searched for shell commands.
- backfill: quiescence is what the operator asserts; the demo clean-up and foreign writers are what it excludes.

## What is proved

Every theorem is for every value of the constants that the modules' `...Assumption` allows: any number of
rows, requests, workers and faults. Each invariant and each action property of a passing run is one of
them; TLC checks the same properties on the instances above. Some theorems have hypotheses of their own,
because the code keeps the property only then (*Disagreements* names the counterexamples):

| Theorems | Hypothesis |
| --- | --- |
| `StatesStayCoupled`, `DecisionsStand` | `OneAtATime`: one slot for requests, since a stale flush undoes a decision; for reports in `Ingestible` session and collection job may be what an ingest left |
| `QueueImplementsWorkLease` | also `OwnTokens`: scripts that share a worker token are one worker to the queue |
| `ResultsStayIntact` | also no resetting retries, which give out result keys again |
| `AttemptsAreCounted`, `ResultKeysAreDistinct` | no resetting retries, in any overlap |
| `VettedInProduction` | `Api`: ClawHub publications ask for no sandbox run |
| `RejectedOut` | `Alone` and `Patient`: one request at a time, to versions whose scan has ended |
| `FollowersKeepUp` | also no redelivery, no retention sweep, which writes no event, and no error behind the event of a verdict (`"late" \notin Faults`), which announces a version that it rejects |

Where a module has a flag like `mixed`, the hypothesis is in the property instead: the run and the theorem
cover what happens before the first overlap.

`AnalysisQueueProofs`. `TypeCorrect`, `LeaseRecoverable` (`NoStrandedLease`) and `LiveLeaseIsKept` (the
action property `LiveLeaseKept`) hold in every overlap. The inductive invariant is `Inv`: the type
invariant, `RowOK` (an active row has a deadline), `RequestOK` (what an open request has read and names: the
snapshot is of rows, a worker's call names a job whose row was active) and `ProcOK` (a script past its lease
has a job). `RowOK` alone is not inductive: a heartbeat flushes a status it read earlier, and only the
columns it changes, so one must know what it had read. There is one lemma per handler (`LeaseStep`,
`AcceptStep`, `HeartbeatStep`, ...), gathered in `ServeStep`, `AdministerStep`, `BackgroundStep` and
`ScriptStep`. The counting theorems add `CountInv` (attempts equal leases, which needs the locked reading of
`CommitLease`) and `KeysCounted` (a script's key is the number of its lease). Serial requests add
`SerialInv`: what an open request read is what the tables hold, but for leases that lapsed and jobs that
entered the queue meanwhile, so that its flush writes what its handler meant. For `Coupled` and
`TerminalIsFinal` that is enough. The refinement needs that a script which the row names as worker works
under the newest lease (`TokenInv`); `ResultIntact`, that only the n-th lease writes the n-th file
(`FilesOwned`), so that a verified object stays as it is until it is accepted and after. Each step of the
queue is then one of `WorkLease` for each job, or a stutter (`AbstractMove`).

`HandoverProofs`: `HandoverTypes`, `GateHolds`, `WorkMatches`, `OnlyOnce`, `GoesForward`. Two arguments meet
in `HandoverInv`. While requests have not overlapped (`~mixed`), one request is open and its snapshot is the
database, so that its flush leaves the rows as its handler computed them, and it is enough to show that each
handler keeps `CaseOK` (`SerialOK`). Whatever overlaps, `RowsOK` and `KeysOK` relate items, actions and
keys; they are kept because no row is ever taken back, because an added item is added by one request
(`Adds`) and because execute takes its decision under the lock (`RequestOK`).

`SkillReleaseProofs`: `ReleaseTypes`, `HeldWhileScanning`, `VettedInProduction`, `RejectedOut`,
`FollowersKeepUp`. That production is vetted is not inductive: one must know it of everything that may still
be written. `ReleaseInv` therefore says of the rows a request has computed (`ReqOK`) and of the review a
scan remembers (`ScanOK`) what it says of the rows (`RowOK`): a passed sandbox column belongs to a version
that passed, an approved review to one an administrator approved, and a version published through the API
always has a sandbox row. A flush mixes columns of two readings (`FlushedRow`), each of which is good, and
the one combination that must be justified, status production, is justified by the request that wrote it.
`CalmInv` adds that a scan remembers a rejection just if the row has one (`SameWord`), since nobody reviews
a version under scan. `FeedInv` adds that a version has one message or one scan (`Single`), that what is
scanned is not live, so that a scan that is lost withdraws nothing (`ScannedApart`), and that the events an
open request carries are what a follower lacks (`Follows`). That `Slots` is finite is what the cardinality
of its subsets needs.

`SkillClientsProofs`. `ClientTypes` and `OfferedOnly` (`GetsWhatWasOffered`): a link is judged by the tag it
names, so `LinkOK` is said of every version that has ever had the tag, and `StoredOK` says that a key holds
the bundle of one of these; `EntitledNow` and `OneOfTag` connect them to the version the link was signed
for. `StoreTypes` and `TagsFollowRows` (`TagsMatchRows`): between its steps a request has changed tags whose
rows it has not committed, so `TagAgrees` compares the tags with the rows the transaction will leave, but
for `torn`. A request that is cut off adds to `torn` the tags in which the two differ (`Touched`), and a
refusal of the object store takes the request's own tag back, which `ReadsHold` and `AddsAreNew` justify. So
the theorem says which requests can leave a tag without a row or a row without a tag, and that no other
does.

`TenantBackfillProofs`: `VerdictStable`, a theorem about the resolver alone: filling rows with their
verdicts, in any order, and adding rows the way the builders do, changes no verdict. It is what makes
batches, repetitions, crashes and old snapshots safe. From it `VerdictsSafe` (the action property
`VerdictsKeep`), `CheckpointSafe` (`CheckpointCovers`) and `TenantTypes` by the invariant `TInv`: links are
whole, a run's view is an older state of which the present one is a filling, what a run has passed has no
verdict, and the file covers what it names.

`IntakeProofs`, part by part:

- Uploads: `OneSessionPerKey` (`RetriesMeetOneSession`), `SealHolds` (the action property
  `IngestedIsSealed`). In `UploadInv`, types and `JobFirst` (an uploaded session has its job) hold in every
  overlap; `Serial` holds while none overlapped. It says of the table that of the sessions of a key only the
  newest can be uploaded to (`Table`), the same of what an open request has computed, and that what such a
  request has read still stands but for the status (`Alone`): the analysis of a job may have moved that one,
  and a flush must not take the move back.
- Reporters: `OneCredential` (`OneCredentialPerDevice`) by the same argument, where a snapshot stands as a
  whole; that an enrolment makes a runtime of its own, which no credential names yet (`RuntimesOK`), keeps a
  new credential apart from the ones a device has.
- Tool servers: `UninstallsInOrder` (the action property `ConfigGoesLast`). What a call has listed is there
  and what it has dealt with is not active (`McpInv`): nothing makes an automation active but its creation
  (`Settles`), and what another server creates meanwhile is not among what the call found, which is what the
  property is about.
- Catalog: `LookupsFindOne` (`ReportsFindOneRow`). A request folds its writes over what it was sent.
  `Kept(alone, hand)` are the catalogs in which lookups find one row; each single write keeps it
  (`KeepTraceKept`, `KeepCandidateKept`, ...), so the fold over a list of any length does (`AllCollected`,
  `AllReferred`, `AllCarded`), by the least number of items for which it does not.
- Directory: `DirectoryHolds` (`DirectoryConsistent`). Below a unit is what a recursive function reaches in
  as many rounds as there are units. The rounds end before (`LevelsEnd`, by counting), so the result is the
  least set that is closed under children (`BelowIs`). From that, a move after which the moved unit is not
  below itself puts no unit below itself (`MovedLoops`), and the rewritten paths (`RefreshedIs`) are those
  of the tree it leaves (`MovedTree`); any other move is rolled back.
- `UploadTypesHold`, `ReporterTypesHold`, `McpTypesHold`, `CatalogTypesHold`, `DirectoryTypesHold`; and,
  since a behaviour of the run's composition is one of every part (`PartsSideBySide`), `IntakeTypesHold`
  (`IntakeTypesOK`) of the whole.

`PlatformProofs`, part by part:

- Trash and access: `TrashKeepsApart` (`RestoredAsLeft`), `ListsAgreeWithChecks` (`ListedOpens`). `TrashInv`
  says of each skill what its stamp means beside the stamp of its namespace (`Kept`), which is all restore
  goes by. `BoundInScope`, that no binding for a namespace has a system role, is what a list needs to agree
  with a check.
- Lockout: `LockedByFailures` (`LockedOnlyForFailures`). A counter is `Backed`: its window starts with a
  failure that happened and holds as many as it counts. `Burst`, more failures than allowed within a window,
  stays true once it is true, which covers attempts that count now and lock later. `ThrottleCounts` bounds a
  counter by all failures there were, for `ThrottleTypesHold`.
- Logins: `BindingsFollow` (`BindingsFollowLogins`). While logins have not overlapped, every row that a
  login made is among what that provider's last login claimed, of the table and of what the open login has
  computed (`Follows`, `OneLogin`).
- Feed: `FollowersMirror` (`CaughtUpMirrors`). Of versions that are not `silent`, `Told`: the last event a
  client may see about a version says whether it is public. `Holds`: a client that has read all events about
  it has it just if it is. A page is a prefix of what is missing, so reading on keeps `Holds`; an open
  request carries, after all there are, the events that say so of the rows it leaves (`Announced`). A
  version that is `silent` is not public, and stops being so with an event of its own or of the skill that
  anonymous clients see too; that is what lets the next commit restore `Told`.
- Clinic: `FindingsAreFelt` (`CriticalHolds`) and `ScoresArePercentages` (`AssessTypeOK`). A sum over skills
  is the cardinality of a set of units (`Units`), so that bounds on sums follow from injections and
  inclusions; with them the score of a skill with a critical finding is bounded whatever the others have.
  `ClinicInv` says that a row that passed counts nothing critical and that a score goes by the rows seen.
  This proof found a mistake of the model: a completed evaluation forgot that its task had been retried, so
  that a redelivery was granted another retry; the retries of the message are kept now.
- `NsTypesHold`, `ThrottleTypesHold`, `LoginTypesHold`, `FeedTypes`; with `PlatformSideBySide`, that a
  behaviour of the composition is one of every part, `PlatformTypesHold` (`PlatformTypesOK`) of the whole.

`SetLemmas` has what these proofs share: a family of subsets of a finite set has a least member, sets of
numbers have a lowest and a greatest one, and the folds of the community modules have a value that unfolds
one element at a time. It takes the place of induction.

What is assumed of the constants, besides types: the ids of skills, units, evaluations and releases are
finitely many; a clinic looks at one skill at least and a judge's scores are 0 to 100 (clinic_service.py:390
cuts them off); there is a tag and a unit name; `Hand`, which marks bindings made by hand, is no provider.

Only model-checked: liveness (`PickedUpInline`, `Decided`, `VerdictReached`), which rests on fairness and so
on ENABLED, out of the prover's reach.

## Not modelled

- The sandbox driver, language models, webhooks, outbound HTTP: their results and failures are choices of
  the handlers that call them. Webhooks are a wake-up only, by the contract; they are queued before the commit.
- The text the scanner's rules match, the parsing of packs and reports, recommendations, slugs, scores of
  searches: data. The deep scan of the scanner is an action, but its issues are left out of the run
  (`DeepIssues` is empty there).
- Sessions, tokens and the exchange with a provider: `SsoLogin` starts from the claims. Neither the exchange nor
  the state token is single-use, which needs no model to see.
- Quotas other than that of skills, audit log, metrics, overview, agent insights: append-only or read-only.
- Governance policies, retention policies, webhooks, replication rules and components as objects of their
  own: single-row edits. `AssetCatalog` leaves out evidence, principals, cursors and raw records, and
  candidates given in the body of a finalize.
- Settings, schemas, migrations, frontend, scripts.

## What is left

1. The feed's abstract specification (a set of public versions and its replica), with `RegistryFeed` as its
   implementation for requests that do not overlap; the proof has its mapping already (`Told`, `Holds`).
2. The same for `Handover`, whose abstract specification is a case that goes forward.
3. Larger instances of `SkillStores` and `RegistryFeed`: two followers, three versions.
