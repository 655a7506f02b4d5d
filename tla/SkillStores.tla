------------------------------ MODULE SkillStores ------------------------------
(*******************************************************************************)
(* One skill in two namespaces and the three stores it lives in: rows of the   *)
(* database, tags of a bare git repository (git_service), bundles and          *)
(* manifests in the object store (artifact_service).  Publication, deletion,   *)
(* purge, retention and replication change them one after the other within a   *)
(* request; only the rows take part in its transaction.                        *)
(*                                                                             *)
(* A publication commits its files on top of the head of a fresh clone, so     *)
(* that files of earlier versions stay in the tree; pushing a branch or a tag  *)
(* that has moved in between is refused without an exception.                  *)
(*******************************************************************************)
EXTENDS Naturals, FiniteSets

CONSTANTS
    Files,         \* paths (a path has one content)
    Tags,          \* tags of versions
    StoreSlots,    \* requests served at the same time
    MaxStoreCalls  \* bound: requests served

ASSUME StoreAssumption == MaxStoreCalls \in Nat /\ Tags # {}

VARIABLES
    skill,       \* [Namespaces -> the skill's row: "absent", "live" or "trash"]
    version,     \* [Namespaces -> [Tags -> VersionRow]]
    repo,        \* [Namespaces -> Repo]: the git repositories
    bundle,      \* [Namespaces -> [Tags -> Tree]]: the object store, archives
    manifest,    \* [Namespaces -> [Tags -> a status, or "none"]]: and manifests
    storeReq,    \* [StoreSlots -> StoreRequest]
    storeCalls,  \* requests served so far
    storeMixed,  \* history: whether two requests were ever served at once
    torn         \* history: the tags a request that was cut off had been working on

stores    == <<repo, bundle, manifest>>
storeVars == <<skill, version, repo, bundle, manifest, storeReq, storeCalls, storeMixed, torn>>
-------------------------------------------------------------------------------
Namespaces == {"source", "mirror"}

Tree   == [there : BOOLEAN, files : SUBSET Files]
NoTree == [there |-> FALSE, files |-> {}]
TreeOf(fs) == [there |-> TRUE, files |-> fs]

Statuses == {"quarantine", "production", "rejected"}

\* sent: the files that were handed in; print: those the stored fingerprint covers.
VersionRow == [there : BOOLEAN, status : Statuses, sent : SUBSET Files, print : SUBSET Files]
NoVersion  == [there |-> FALSE, status |-> "quarantine", sent |-> {}, print |-> {}]

Repo   == [made : BOOLEAN, head : SUBSET Files, tag : [Tags -> Tree]]
NoRepo == [made |-> FALSE, head |-> {}, tag |-> [t \in Tags |-> NoTree]]

\* step: what comes next, "raise" being the end by an error; add and drop: rows the transaction inserts and deletes;
\* head: the head of the clone; locked: whether the row of the skill is locked.
StoreRequest == [step : {"idle", "push", "flush", "copy", "commit", "raise"}, ns : Namespaces,
                 tag : Tags, files : SUBSET Files, head : SUBSET Files, locked : BOOLEAN,
                 add : [Tags -> VersionRow], drop : SUBSET Tags, todo : SUBSET Tags,
                 skill : {"kept", "added", "dropped"}]
NoAdd  == [t \in Tags |-> NoVersion]
NoStoreRequest == [step |-> "idle", ns |-> "source", tag |-> CHOOSE t \in Tags : TRUE,
                   files |-> {}, head |-> {}, locked |-> FALSE, add |-> NoAdd, drop |-> {},
                   todo |-> {}, skill |-> "kept"]

StoreTypeOK ==
    /\ skill \in [Namespaces -> {"absent", "live", "trash"}]
    /\ version \in [Namespaces -> [Tags -> VersionRow]]
    /\ repo \in [Namespaces -> Repo]
    /\ bundle \in [Namespaces -> [Tags -> Tree]]
    /\ manifest \in [Namespaces -> [Tags -> Statuses \cup {"none"}]]
    /\ storeReq \in [StoreSlots -> StoreRequest]
    /\ storeCalls \in 0 .. MaxStoreCalls
    /\ storeMixed \in BOOLEAN /\ torn \in SUBSET (Namespaces \X Tags)

StoreInit ==
    /\ skill = [n \in Namespaces |-> "absent"]
    /\ version = [n \in Namespaces |-> [t \in Tags |-> NoVersion]]
    /\ repo = [n \in Namespaces |-> NoRepo]
    /\ bundle = [n \in Namespaces |-> [t \in Tags |-> NoTree]]
    /\ manifest = [n \in Namespaces |-> [t \in Tags |-> "none"]]
    /\ storeReq = [s \in StoreSlots |-> NoStoreRequest]
    /\ storeCalls = 0
    /\ storeMixed = FALSE /\ torn = {}
-------------------------------------------------------------------------------
HasTag(n, t) == repo[n].tag[t].there
DeleteTag(n, ts) == repo' = [repo EXCEPT ![n].tag =
                        [t \in Tags |-> IF t \in ts THEN NoTree ELSE repo[n].tag[t]]]

PutArtifacts(n, t, fs, st) == /\ bundle' = [bundle EXCEPT ![n][t] = TreeOf(fs)]
                              /\ manifest' = [manifest EXCEPT ![n][t] = st]
DeleteArtifacts(n, ts) ==
    /\ bundle' = [bundle EXCEPT ![n] = [t \in Tags |-> IF t \in ts THEN NoTree ELSE @[t]]]
    /\ manifest' = [manifest EXCEPT ![n] = [t \in Tags |-> IF t \in ts THEN "none" ELSE @[t]]]

ServeStore(s, req) ==
    /\ storeReq[s].step = "idle" /\ storeCalls < MaxStoreCalls
    /\ storeCalls' = storeCalls + 1
    /\ storeReq' = [storeReq EXCEPT ![s] = req]
    /\ storeMixed' = (storeMixed \/ \E o \in StoreSlots : storeReq[o].step # "idle")
    /\ UNCHANGED <<skill, version>>

Goes(s, req) == /\ storeReq' = [storeReq EXCEPT ![s] = req]
                /\ UNCHANGED <<skill, version, storeCalls, storeMixed, torn>>

\* create_skill: the repository first, then the row.  One left by a lost request
\* makes every later attempt fail.
CreateSkill(s, n) ==
    /\ skill[n] = "absent" /\ ~repo[n].made
    /\ repo' = [repo EXCEPT ![n].made = TRUE]
    /\ ServeStore(s, [NoStoreRequest EXCEPT !.step = "commit", !.ns = n, !.skill = "added"])
    /\ UNCHANGED <<bundle, manifest, torn>>

\* publish_version through the API, up to the clone.  The row of the skill is locked; a
\* tag the clone has, with or without a row, ends the request.
ApiPublish(s, n, t, fs) ==
    /\ skill[n] = "live" /\ repo[n].made /\ ~version[n][t].there /\ ~HasTag(n, t)
    /\ \A o \in StoreSlots : ~(storeReq[o].locked /\ storeReq[o].ns = n)
    /\ ServeStore(s, [NoStoreRequest EXCEPT !.step = "push", !.ns = n, !.tag = t, !.files = fs,
                                            !.head = repo[n].head, !.locked = TRUE])
    /\ UNCHANGED <<stores, torn>>

\* _publish_compat_skill: without the lock; a skill that is not there is created.
CompatPublish(s, n, t, fs) ==
    LET new == skill[n] = "absent" IN
    /\ skill[n] # "trash" /\ (new <=> ~repo[n].made) /\ ~version[n][t].there /\ ~HasTag(n, t)
    /\ repo' = [repo EXCEPT ![n].made = TRUE]
    /\ ServeStore(s, [NoStoreRequest EXCEPT !.step = "push", !.ns = n, !.tag = t, !.files = fs,
                                            !.head = repo[n].head,
                                            !.skill = IF new THEN "added" ELSE "kept"])
    /\ UNCHANGED <<bundle, manifest, torn>>

\* publish_version of git_service: the tree that is committed, and the push, of which
\* each part is refused if it is not new.
Committed(head, fs) == head \cup fs
Push(s) ==
    LET r == storeReq[s]
        n == r.ns
        new == Committed(r.head, r.files)
    IN  /\ r.step = "push"
        /\ repo' = [repo EXCEPT ![n].head = IF @ = r.head THEN new ELSE @,
                                ![n].tag[r.tag] = IF @.there THEN @ ELSE TreeOf(new)]
        /\ Goes(s, [r EXCEPT !.step = "flush", !.add[r.tag] =
                [there |-> TRUE, status |-> "quarantine", sent |-> r.files,
                 print |-> repo'[n].tag[r.tag].files]])
        /\ UNCHANGED <<bundle, manifest>>

\* The row is flushed: its tag is unique, and a row of an open transaction is waited for.
\* Then the artifacts are stored; if the object store refuses them, they and the tag are
\* removed, unless git refuses that.  A connection that breaks is no refusal: what has
\* been stored stays, and so does the tag.
Unique(s, n, t) == /\ ~version[n][t].there
                   /\ \A o \in StoreSlots \ {s} :
                        ~(storeReq[o].step = "commit" /\ storeReq[o].ns = n /\ storeReq[o].add[t].there)

Duplicate(s) ==
    LET r == storeReq[s] IN
    /\ r.step = "flush" /\ version[r.ns][r.tag].there
    /\ Goes(s, NoStoreRequest) /\ UNCHANGED stores

Store(s) ==
    LET r == storeReq[s] IN
    /\ r.step = "flush" /\ Unique(s, r.ns, r.tag)
    /\ PutArtifacts(r.ns, r.tag, r.files, "quarantine")
    /\ Goes(s, [r EXCEPT !.step = "commit"]) /\ UNCHANGED repo

\* A fault: the tag stays.
FaultStoreFails(s) ==
    LET r == storeReq[s] IN
    /\ r.step = "flush" /\ Unique(s, r.ns, r.tag)
    /\ DeleteArtifacts(r.ns, {r.tag})
    /\ Goes(s, NoStoreRequest) /\ UNCHANGED repo
StoreFails(s) ==
    LET r == storeReq[s] IN
    /\ r.step = "flush" /\ Unique(s, r.ns, r.tag)
    /\ DeleteArtifacts(r.ns, {r.tag})
    /\ \/ DeleteTag(r.ns, {r.tag}) /\ Goes(s, NoStoreRequest)
       \/ UNCHANGED repo /\ Goes(s, [r EXCEPT !.step = "raise"])

StoreBreaks(s) ==
    LET r == storeReq[s] IN
    /\ r.step = "flush" /\ Unique(s, r.ns, r.tag)
    /\ bundle' = [bundle EXCEPT ![r.ns][r.tag] = TreeOf(r.files)]
    /\ Goes(s, [r EXCEPT !.step = "raise"])
    /\ UNCHANGED <<repo, manifest>>
-------------------------------------------------------------------------------
\* execute_replication_rule: every version of the source, or only the one just published,
\* goes to the mirror, whose rows are read once.  The mirror's skill is created with it;
\* one in the trash, whose name is taken, ends the run.
CopyRequest(only) ==
    [NoStoreRequest EXCEPT !.step = "copy", !.ns = "mirror",
                           !.todo = {t \in only : version["source"][t].there},
                           !.add = [t \in Tags |-> [version["source"][t] EXCEPT
                                        !.there = FALSE]],
                           !.drop = {t \in Tags : version["mirror"][t].there},
                           !.skill = IF skill["mirror"] = "absent" THEN "added" ELSE "kept"]

CopyStarts == /\ skill["source"] = "live" /\ skill["mirror"] # "trash"
              /\ repo' = [repo EXCEPT !["mirror"].made = @ \/ skill["mirror"] = "absent"]

RunRule(s, only) ==
    /\ CopyStarts
    /\ ServeStore(s, CopyRequest(only)) /\ UNCHANGED <<bundle, manifest, torn>>

\* One version: one the mirror has is skipped (drop holds those it had); otherwise any
\* failure, of the read, of the publication or of the artifacts, deletes the mirror's tag;
\* where git refuses that, the run is at its end.
FaultMirrored(r, t) == FALSE
Mirrored(r, t) == t \in r.drop

CopyOne(s, t) ==
    LET r == storeReq[s]
        from == repo["source"].tag[t]
        new == Committed(repo["mirror"].head, from.files)
    IN  /\ r.step = "copy" /\ t \in r.todo
        /\ \/ /\ Mirrored(r, t)
              /\ Goes(s, [r EXCEPT !.todo = @ \ {t}]) /\ UNCHANGED stores
           \/ /\ ~Mirrored(r, t) /\ from.there /\ repo["mirror"].made /\ ~HasTag("mirror", t)
              /\ repo' = [repo EXCEPT !["mirror"].head = new, !["mirror"].tag[t] = TreeOf(new)]
              /\ PutArtifacts("mirror", t, from.files, r.add[t].status)
              /\ Goes(s, [r EXCEPT !.todo = @ \ {t}, !.add[t].there = TRUE,
                                !.add[t].sent = from.files])
           \/ /\ ~Mirrored(r, t)
              /\ DeleteTag("mirror", {t})
              /\ \/ UNCHANGED <<bundle, manifest>>
                 \/ from.there /\ ~HasTag("mirror", t) /\ DeleteArtifacts("mirror", {t})
              /\ Goes(s, [r EXCEPT !.todo = @ \ {t}])
           \/ /\ ~Mirrored(r, t) /\ from.there /\ repo["mirror"].made /\ ~HasTag("mirror", t)
              /\ repo' = [repo EXCEPT !["mirror"].head = new, !["mirror"].tag[t] = TreeOf(new)]
              /\ DeleteArtifacts("mirror", {t})
              /\ Goes(s, [r EXCEPT !.step = "raise", !.drop = {}, !.add[t].there = TRUE])

\* The end of a run: a row that another request has committed meanwhile rolls all back.
CopyEnds(s) ==
    LET r == storeReq[s] IN
    /\ r.step = "copy" /\ r.todo = {}
    /\ IF \E t \in Tags : r.add[t].there /\ version["mirror"][t].there
       THEN Goes(s, NoStoreRequest)
       ELSE Goes(s, [r EXCEPT !.step = "commit", !.drop = {}])
    /\ UNCHANGED stores

\* delete_version: a version whose tag is gone cannot be deleted.  When the object store
\* can not be asked, the tag is gone already.
DeleteVersion(s, n, t) ==
    LET drops(step) == [NoStoreRequest EXCEPT !.step = step, !.ns = n, !.drop = {t}] IN
    /\ skill[n] = "live" /\ version[n][t].there /\ HasTag(n, t)
    /\ DeleteTag(n, {t})
    /\ \/ DeleteArtifacts(n, {t}) /\ ServeStore(s, drops("commit"))
       \/ UNCHANGED <<bundle, manifest>> /\ ServeStore(s, drops("raise"))
    /\ UNCHANGED torn

\* _async_gc: the tags of what the policy names, then the rows; the artifacts are left,
\* and so are the tags git refuses to delete.
Retain(s, n, ts, refused) ==
    /\ ts # {} /\ \A t \in ts : version[n][t].there
    /\ DeleteTag(n, ts \ refused)
    /\ torn' = torn \cup ({n} \X refused)
    /\ ServeStore(s, [NoStoreRequest EXCEPT !.step = "commit", !.ns = n, !.drop = ts])
    /\ UNCHANGED <<bundle, manifest>>

\* purge_skill, of a skill in the trash: artifacts, repository, rows.  One without a
\* repository can not be purged.
Purge(s, n) ==
    LET drops == [NoStoreRequest EXCEPT !.step = "commit", !.ns = n, !.drop = Tags, !.skill = "dropped"]
    IN  /\ skill[n] = "trash"
        /\ DeleteArtifacts(n, Tags)
        /\ \/ repo[n].made /\ repo' = [repo EXCEPT ![n] = NoRepo] /\ ServeStore(s, drops)
           \/ ~repo[n].made /\ UNCHANGED repo /\ ServeStore(s, [drops EXCEPT !.step = "raise", !.drop = {}])
        /\ UNCHANGED torn

\* The commit.  Rows of a skill that was purged meanwhile are refused; a purge leaves
\* nothing that could disagree.
Orphaned(r) == r.skill = "kept" /\ skill[r.ns] = "absent" /\ \E t \in Tags : r.add[t].there

CommitStore(s) ==
    LET r == storeReq[s] IN
    /\ r.step = "commit"
    /\ IF Orphaned(r) THEN UNCHANGED <<skill, version, torn>>
       ELSE /\ version' = [version EXCEPT ![r.ns] = [t \in Tags |->
                              IF t \in r.drop THEN NoVersion
                              ELSE IF r.add[t].there THEN r.add[t] ELSE @[t]]]
            /\ skill' = [skill EXCEPT ![r.ns] = CASE r.skill = "added" -> "live"
                                                 [] r.skill = "dropped" -> "absent"
                                                 [] OTHER -> @]
            /\ torn' = IF r.skill = "dropped" THEN torn \ ({r.ns} \X Tags) ELSE torn
    /\ storeReq' = [storeReq EXCEPT ![s] = NoStoreRequest]
    /\ UNCHANGED <<stores, storeCalls, storeMixed>>

\* The tags a request has pushed or deleted so far.
Touched(r) == {t \in Tags : r.add[t].there} \cup (IF r.step = "copy" THEN {} ELSE r.drop)

\* A request is cut off: a process is lost, the database refuses the commit, or an error
\* is raised that nobody answers for (the fingerprint of a publication, a connection to
\* the object store, a webhook's queue, a date in retention, a later replication rule).
\* The rows are rolled back, the other stores stay as they are.
CutOff(s) ==
    LET r == storeReq[s] IN
    /\ r.step # "idle"
    /\ storeReq' = [storeReq EXCEPT ![s] = NoStoreRequest]
    /\ torn' = torn \cup ({r.ns} \X Touched(r))
    /\ UNCHANGED <<skill, version, stores, storeCalls, storeMixed>>
-------------------------------------------------------------------------------
Quiet == UNCHANGED <<storeReq, storeCalls, storeMixed, torn>>

ToTrash(n) == /\ skill[n] = "live" /\ skill' = [skill EXCEPT ![n] = "trash"]
              /\ UNCHANGED <<version, stores>> /\ Quiet
FromTrash(n) == /\ skill[n] = "trash" /\ skill' = [skill EXCEPT ![n] = "live"]
                /\ UNCHANGED <<version, stores>> /\ Quiet

Judged(n, t) == /\ version[n][t].there /\ version[n][t].status = "quarantine"
                /\ \E st \in Statuses : version' = [version EXCEPT ![n][t].status = st]
                /\ UNCHANGED <<skill, stores>> /\ Quiet

\* ensure_version_artifacts, whenever a manifest, a link or the index is asked for:
\* artifacts that are missing or whose manifest is not the row's are made from git.
Heal(n, t) ==
    /\ skill[n] = "live" /\ version[n][t].there
    /\ ~(bundle[n][t].there /\ manifest[n][t] = version[n][t].status)
    /\ \/ HasTag(n, t) /\ PutArtifacts(n, t, repo[n].tag[t].files, version[n][t].status)
       \/ HasTag(n, t) /\ DeleteArtifacts(n, {t})
       \/ /\ ~HasTag(n, t) /\ ~bundle[n][t].there
          /\ manifest' = [manifest EXCEPT ![n][t] = "none"] /\ UNCHANGED bundle
    /\ UNCHANGED <<skill, version, repo>> /\ Quiet

StoreNext ==
    \/ \E s \in StoreSlots, n \in Namespaces :
         \/ CreateSkill(s, n) \/ Purge(s, n)
         \/ \E t \in Tags : DeleteVersion(s, n, t)
         \/ \E t \in Tags, fs \in SUBSET Files \ {{}} : ApiPublish(s, n, t, fs) \/ CompatPublish(s, n, t, fs)
         \/ \E ts \in SUBSET Tags : \E refused \in SUBSET ts : Retain(s, n, ts, refused)
    \/ \E s \in StoreSlots :
         \/ Push(s) \/ Duplicate(s) \/ Store(s) \/ StoreFails(s) \/ StoreBreaks(s)
         \/ CopyEnds(s) \/ CommitStore(s) \/ CutOff(s) \/ RunRule(s, Tags)
         \/ \E t \in Tags : RunRule(s, {t}) \/ CopyOne(s, t)
    \/ \E n \in Namespaces : ToTrash(n) \/ FromTrash(n) \/ \E t \in Tags : Judged(n, t) \/ Heal(n, t)

StoreSpec == StoreInit /\ [][StoreNext]_storeVars
-------------------------------------------------------------------------------
\* The stores come apart only where a request failed: unless requests overlapped, a
\* namespace that no request is working on has a tag for every version and no other tag,
\* but for the tags that a request which was cut off, or refused by git, had been working
\* on.  What the object store refuses is put right again.  (A version without its tag can
\* neither be downloaded nor deleted; a tag without a version blocks its name.)
TagsMatchRows ==
    ~storeMixed =>
        \A n \in Namespaces, t \in Tags :
            (\A s \in StoreSlots : storeReq[s].step = "idle" \/ storeReq[s].ns # n) /\ <<n, t>> \notin torn
            => (HasTag(n, t) <=> version[n][t].there)

\* git_service says that uploads to the ClawHub compatible API keep their exact
\* fingerprints (resolve looks versions up by them).
FingerprintIsUpload ==
    \A t \in Tags : version["source"][t].there => version["source"][t].print = version["source"][t].sent
=================================================================================
