------------------------------ MODULE AssetCatalog ------------------------------
(*******************************************************************************)
(* The assets, owners, work traces and memory candidates of one runtime, and   *)
(* the three ways by which reports write them: report packs and OpenClaw       *)
(* backups (adapter_collection_service), structured reports                    *)
(* (structured_report_service) and the results of an analysis                  *)
(* (analysis_materializer); administrators edit them through the API.          *)
(*                                                                             *)
(* Requests are transactions of two steps (see UnitOfWork).  Each way looks a  *)
(* row up first; scalar_one_or_none raises when it finds two, and the whole    *)
(* request is rolled back.  Of the tables only ai_assets has a unique key.     *)
(*******************************************************************************)
EXTENDS Naturals, FiniteSets, Sequences, SequencesExt, UnitOfWork

CONSTANTS
    AssetIds,       \* ids of ai_assets
    OwnerIds,       \* ids of asset_ownerships
    TraceIds,       \* ids of work_traces
    CandidateIds,   \* ids of memory_candidates
    BindIds,        \* ids of runtime_bindings
    ExternalIds,    \* external ids reports use for assets
    Hashes,         \* content hashes
    Owners,         \* users
    TraceKeys,      \* external session ids and idempotency keys of reports
    CatalogSlots,   \* requests served at the same time
    Packed,         \* bound: the lists of assets reports contain
    MaxReports      \* bound: requests served

ASSUME CatalogAssumption == /\ UNION {AssetIds, OwnerIds, TraceIds, CandidateIds, BindIds} \subseteq Nat
                            /\ MaxReports \in Nat
                            /\ Packed \subseteq Seq([ext : ExternalIds \cup {"none"}, hash : Hashes,
                                                     user : Owners \cup {"none"}])
                            /\ "none" \notin UNION {ExternalIds, Hashes, Owners, TraceKeys}
                            /\ {"named", "digest"} \cap ExternalIds = {}

VARIABLES
    catalog,       \* the tables: CatalogRows
    catalogReq,    \* [CatalogSlots -> CatalogRequest]
    reports,       \* requests served so far
    catalogMixed,  \* history: whether two requests were ever served at once
    catalogByHand  \* history: whether an owner was ever added by hand

catalogVars == <<catalog, catalogReq, reports, catalogMixed, catalogByHand>>
-------------------------------------------------------------------------------
OwnerTypes == {"creator", "maintainer"}

\* Of an asset without an external id a structured report makes one from type and name,
\* an analysis one from a digest of them.
RefIds == ExternalIds \cup {"none", "named", "digest"}

\* A row that was not made is not there.  noted: the feedback of a user, which is kept
\* in the metadata of the asset.  long: the title was cut when the candidate was stored.
CatalogRows ==
    [asset : [AssetIds -> [made : BOOLEAN, ext : RefIds,
                           hash : Hashes \cup {"none"}, noted : BOOLEAN]],
     owner : [OwnerIds -> [made : BOOLEAN, asset : AssetIds \cup {0}, user : Owners \cup {"none"},
                           type : OwnerTypes, primary : BOOLEAN]],
     trace : [TraceIds -> [made : BOOLEAN, key : TraceKeys \cup {"none"}]],
     candidate : [CandidateIds -> [made : BOOLEAN, key : TraceKeys \cup {"none"}, long : BOOLEAN,
                                   signal : BOOLEAN,
                                   status : {"candidate", "accepted", "rejected"}]],
     bind : [BindIds -> [made : BOOLEAN, asset : AssetIds \cup {0}, ref : RefIds]]]

NoAsset     == [made |-> FALSE, ext |-> "none", hash |-> "none", noted |-> FALSE]
NoOwner     == [made |-> FALSE, asset |-> 0, user |-> "none", type |-> "creator", primary |-> FALSE]
NoTrace     == [made |-> FALSE, key |-> "none"]
NoCandidate == [made |-> FALSE, key |-> "none", long |-> FALSE, signal |-> FALSE, status |-> "candidate"]
NoBind      == [made |-> FALSE, asset |-> 0, ref |-> "none"]

NoCatalog == [asset |-> [i \in AssetIds |-> NoAsset], owner |-> [i \in OwnerIds |-> NoOwner],
              trace |-> [i \in TraceIds |-> NoTrace],
              candidate |-> [i \in CandidateIds |-> NoCandidate],
              bind |-> [i \in BindIds |-> NoBind]]

CatalogRequest == [busy : BOOLEAN, snap : CatalogRows, new : CatalogRows]
NoCatalogRequest == [busy |-> FALSE, snap |-> NoCatalog, new |-> NoCatalog]

CatalogTypeOK ==
    /\ catalog \in CatalogRows
    /\ catalogReq \in [CatalogSlots -> CatalogRequest]
    /\ reports \in 0 .. MaxReports
    /\ catalogMixed \in BOOLEAN
    /\ catalogByHand \in BOOLEAN

CatalogInit ==
    /\ catalog = NoCatalog
    /\ catalogReq = [s \in CatalogSlots |-> NoCatalogRequest]
    /\ reports = 0
    /\ catalogMixed = FALSE
    /\ catalogByHand = FALSE
-------------------------------------------------------------------------------
(* A handler maps the tables c to the set of what it may leave: none if it raises, or *)
(* if the bounds leave it no id.                                                      *)

\* INSERT: the lowest id no row and no open transaction has.
FreeId(c, t) ==
    LET taken == {i \in DOMAIN c[t] : \/ c[t][i].made
                                     \/ \E s \in CatalogSlots : catalogReq[s].new[t][i].made}
    IN  {i \in DOMAIN c[t] \ taken : \A j \in DOMAIN c[t] \ taken : i <= j}
Insert(c, t, row) == {[c EXCEPT ![t][i] = row] : i \in FreeId(c, t)}

AssetWith(c, e)  == {i \in AssetIds : c.asset[i].made /\ e # "none" /\ c.asset[i].ext = e}
HashedAs(c, h)   == {i \in AssetIds : c.asset[i].made /\ h # "none" /\ c.asset[i].hash = h}
OwnersOf(c, i)   == {o \in OwnerIds : c.owner[o].made /\ c.owner[o].asset = i}
BindsOf(c, i, e) == {b \in BindIds : c.bind[b].made /\ c.bind[b].asset = i /\ c.bind[b].ref = e}
TracesWith(c, k) == {i \in TraceIds : c.trace[i].made /\ c.trace[i].key = k}

\* An asset is rewritten as the report has it; its metadata, and with it the feedback
\* of users, is replaced.  Its external id stays what it was.
Rewrite(c, i, h) == [c EXCEPT !.asset[i].hash = h, !.asset[i].noted = FALSE]
NewAsset(c, e, h) == Insert(c, "asset", [made |-> TRUE, ext |-> e, hash |-> h, noted |-> FALSE])

AddOwner(c, i, u, t, p) ==
    Insert(c, "owner", [made |-> TRUE, asset |-> i, user |-> u, type |-> t, primary |-> p])

\* One asset of a pack, found by its external id and, failing that, by its content
\* hash; its owner, if a user, becomes a primary creator.
CollectOwner(c, i, u) ==
    LET rows == {o \in OwnersOf(c, i) : c.owner[o].user = u /\ c.owner[o].type = "creator"} IN
    IF u = "none" \/ Cardinality(rows) = 1 THEN {c}
    ELSE IF rows = {} THEN AddOwner(c, i, u, "creator", TRUE) ELSE {}

CollectAsset(c, x) ==
    LET found == IF AssetWith(c, x.ext) # {} THEN AssetWith(c, x.ext) ELSE HashedAs(c, x.hash)
        kept  == IF found = {} THEN NewAsset(c, x.ext, x.hash)
                 ELSE IF Cardinality(found) = 1 THEN {Rewrite(c, i, x.hash) : i \in found} ELSE {}
    IN  UNION {CollectOwner(d, i, x.user) : d \in kept,
               i \in IF found = {} THEN FreeId(c, "asset") ELSE found}

\* A fault: looks for the maintainers only.
FaultRefOwner(c, i, u) ==
    LET rows == {o \in OwnersOf(c, i) : c.owner[o].user = u /\ c.owner[o].type = "maintainer"} IN
    IF u = "none" \/ Cardinality(rows) = 1 THEN {c}
    ELSE IF rows = {} THEN AddOwner(c, i, u, "creator", TRUE) ELSE {}

\* Where a pack stands when one of its lookups finds two rows.
StoppedAt(c, x) ==
    LET found == IF AssetWith(c, x.ext) # {} THEN AssetWith(c, x.ext) ELSE HashedAs(c, x.hash)
    IN  IF Cardinality(found) > 1 THEN {c}
        ELSE {Rewrite(c, i, x.hash) : i \in {j \in found : Cardinality({o \in OwnersOf(c, j) :
                                c.owner[o].user = x.user /\ c.owner[o].type = "creator"}) > 1}}

\* The binding of an asset to the runtime, by the reference a report has for it.
KeepBind(c, i, e) ==
    CASE BindsOf(c, i, e) = {}             -> Insert(c, "bind", [made |-> TRUE, asset |-> i, ref |-> e])
      [] Cardinality(BindsOf(c, i, e)) = 1 -> {c}
      [] OTHER                             -> {}

\* One asset reference of a structured report: by external id only; the reporter's user
\* becomes a primary creator unless he owns the asset in any way.
RefOwner(c, i, u) ==
    LET rows == {o \in OwnersOf(c, i) : c.owner[o].user = u} IN
    IF u = "none" \/ Cardinality(rows) = 1 THEN {c}
    ELSE IF rows = {} THEN AddOwner(c, i, u, "creator", TRUE) ELSE {}

RefId(x) == IF x.ext = "none" THEN "named" ELSE x.ext
ReferAsset(c, x) ==
    LET found == AssetWith(c, RefId(x))
        kept  == IF found = {} THEN NewAsset(c, RefId(x), x.hash)
                 ELSE {Rewrite(c, i, x.hash) : i \in found}
    IN  UNION {UNION {RefOwner(e, i, x.user) : e \in KeepBind(d, i, RefId(x))} : d \in kept,
               i \in IF found = {} THEN FreeId(c, "asset") ELSE found}

\* One asset card of an analysis: by external id only; a new owner is primary if the
\* asset has no primary one, and two primary owners make the lookup raise.
CardOwner(c, i, u, t) ==
    LET rows    == {o \in OwnersOf(c, i) : c.owner[o].user = u /\ c.owner[o].type = t}
        primary == {o \in OwnersOf(c, i) : c.owner[o].primary}
    IN  IF u = "none" \/ Cardinality(rows) = 1 THEN {c}
        ELSE IF rows = {} /\ Cardinality(primary) <= 1
             THEN AddOwner(c, i, u, t, primary = {}) ELSE {}

CardId(x) == IF x.ext = "none" THEN "digest" ELSE x.ext
CardAsset(c, x) ==
    LET found == AssetWith(c, CardId(x))
        kept  == IF found = {} THEN NewAsset(c, CardId(x), x.hash)
                 ELSE {Rewrite(c, i, x.hash) : i \in found}
    IN  UNION {UNION {KeepBind(e, i, CardId(x)) : e \in CardOwner(d, i, x.user, t)} :
               d \in kept, t \in OwnerTypes,
               i \in IF found = {} THEN FreeId(c, "asset") ELSE found}

\* The trace of a report: one that has its key is rewritten, two make the lookup raise.
KeepTrace(c, k) ==
    CASE TracesWith(c, k) = {}               -> Insert(c, "trace", [made |-> TRUE, key |-> k])
      [] Cardinality(TracesWith(c, k)) = 1   -> {c}
      [] OTHER                               -> {}

\* _ensure_memory_candidate compares the full title with the stored one, which is cut.
KeepCandidate(c, k, signal, long) ==
    IF ~long /\ \E i \in CandidateIds : /\ c.candidate[i].made /\ c.candidate[i].key = k
                                         /\ c.candidate[i].signal = signal /\ ~c.candidate[i].long
    THEN {c}
    ELSE Insert(c, "candidate",
                [made |-> TRUE, key |-> k, long |-> long, signal |-> signal, status |-> "candidate"])

\* What a structured report says of projects, memory, signals and blockers: a new
\* candidate, one for all of them.
ReportCandidate(c, k) ==
    Insert(c, "candidate",
           [made |-> TRUE, key |-> k, long |-> FALSE, signal |-> FALSE, status |-> "candidate"])

\* The items of a report, one after the other, in one transaction.
All(Handle(_, _), c, xs) == FoldLeft(LAMBDA cs, x : UNION {Handle(d, x) : d \in cs}, {c}, xs)

\* The items of a pack or a backup.  An owner is a user only if the pack describes him
\* as a principal whose email or name is that of a user.
PackItems(xs, known) ==
    [j \in DOMAIN xs |-> [xs[j] EXCEPT !.user = IF @ \in known THEN @ ELSE "none"]]
BackupItems(xs, known) == PackItems(xs, known)

\* The user of a reporter credential, or else of the runtime's enrolment, if there is one.
ReporterUser(xs, user) == [j \in DOMAIN xs |-> [xs[j] EXCEPT !.user = user]]

\* The hints of a card name its owner directly.
CardItems(xs, known) == [j \in DOMAIN xs |-> [xs[j] EXCEPT !.user = IF @ \in known THEN @ ELSE "none"]]

\* persist_collection_result, from an ingested pack or an OpenClaw backup.
Collect(c, xs, k) == UNION {KeepTrace(d, k) : d \in All(CollectAsset, c, xs)}

\* A pack that fails is marked so and committed as far as it came
\* (ingest_report_upload_session); a backup that fails is rolled back.
Stopped(c, xs) ==
    UNION {UNION {StoppedAt(d, xs[j]) : d \in All(CollectAsset, c, SubSeq(xs, 1, j - 1))} :
           j \in DOMAIN xs}

\* The answer to a report that came before; its key must have left one trace.
Deduped(c, k) == IF Cardinality(TracesWith(c, k)) = 1 THEN {c} ELSE {}

\* ingest_structured_report: a report whose key has a trace is answered from it.
Structured(c, xs, k) ==
    IF TracesWith(c, k) # {} THEN Deduped(c, k)
    ELSE UNION {ReportCandidate(e, k) :
                e \in UNION {Insert(d, "trace", [made |-> TRUE, key |-> k]) :
                             d \in All(ReferAsset, c, xs)}}

\* materialize_analysis_result: an artifact that cannot be read is left out, the
\* others are materialized; any other error rolls all of them back.
Candidates(c, k, long) == {c} \cup KeepCandidate(c, k, FALSE, long)
Signals(c, k, long)    == {c} \cup KeepCandidate(c, k, TRUE, long)

Materialize(c, xs, k, long) ==
    LET cards  == {c} \cup All(CardAsset, c, xs)
        traced == cards \cup UNION {KeepTrace(d, k) : d \in cards}
        noted  == UNION {Candidates(d, k, long) : d \in traced}
    IN  UNION {Signals(d, k, long) : d \in noted} \ {c}

\* A free slot; every handler is guarded by it.
Serves(s) == ~catalogReq[s].busy /\ reports < MaxReports

ServeCatalog(s, new) ==
    /\ Serves(s)
    /\ catalogReq' = [catalogReq EXCEPT ![s] = [busy |-> TRUE, snap |-> catalog, new |-> new]]
    /\ reports' = reports + 1
    /\ catalogMixed' = (catalogMixed \/ \E t \in CatalogSlots : catalogReq[t].busy)
    /\ UNCHANGED catalog

ByReport == UNCHANGED catalogByHand

ReportPack(s) == Serves(s) /\ \E xs \in Packed, known \in SUBSET Owners, k \in TraceKeys :
    LET items == PackItems(xs, known) IN
    \E new \in Collect(catalog, items, k) \cup Stopped(catalog, items) :
        ServeCatalog(s, new) /\ ByReport
OpenClawBackup(s) == Serves(s) /\ \E xs \in Packed, known \in SUBSET Owners, k \in TraceKeys :
    \E new \in Collect(catalog, BackupItems(xs, known), k) : ServeCatalog(s, new) /\ ByReport
StructuredReport(s) == Serves(s) /\ \E xs \in Packed, user \in Owners \cup {"none"}, k \in TraceKeys :
    \E new \in Structured(catalog, ReporterUser(xs, user), k) : ServeCatalog(s, new) /\ ByReport
AnalysisResult(s) ==
    Serves(s) /\ \E xs \in Packed, known \in SUBSET Owners, k \in TraceKeys, long \in BOOLEAN :
        \E new \in Materialize(catalog, CardItems(xs, known), k, long) : ServeCatalog(s, new) /\ ByReport

\* create_asset, outside of any report; a taken external id is refused by the table.
CreateAsset(s) ==
    \E e \in ExternalIds \cup {"none"}, h \in Hashes : \E new \in NewAsset(catalog, e, h) :
        AssetWith(catalog, e) = {} /\ ServeCatalog(s, new) /\ ByReport

\* update_asset: metadata that is given replaces what was there, feedback included.
UpdateAsset(s) ==
    \E i \in AssetIds :
        /\ catalog.asset[i].made
        /\ ServeCatalog(s, [catalog EXCEPT !.asset[i].noted = FALSE]) /\ ByReport

\* submit_asset_feedback, by an administrator or somebody the asset is linked to.
Feedback(s) ==
    \E i \in AssetIds :
        /\ catalog.asset[i].made
        /\ ServeCatalog(s, [catalog EXCEPT !.asset[i].noted = TRUE]) /\ ByReport

\* create_asset_ownership: a primary owner takes the place of those of his type.
AddOwnerByHand(s) ==
    \E i \in AssetIds, u \in Owners, t \in OwnerTypes, p \in BOOLEAN :
        LET c == [catalog EXCEPT !.owner = [o \in OwnerIds |->
                     IF p /\ o \in OwnersOf(catalog, i) /\ catalog.owner[o].type = t
                     THEN [catalog.owner[o] EXCEPT !.primary = FALSE] ELSE catalog.owner[o]]]
        IN  /\ catalog.asset[i].made
            /\ \E new \in AddOwner(c, i, u, t, p) : ServeCatalog(s, new)
            /\ catalogByHand' = TRUE

\* review_memory_candidate, at any status.
ReviewCandidate(s) ==
    \E i \in CandidateIds, st \in {"candidate", "accepted", "rejected"} :
        /\ catalog.candidate[i].made
        /\ ServeCatalog(s, [catalog EXCEPT !.candidate[i].status = st]) /\ ByReport

\* The commit; ai_assets has a unique key on runtime and external id.
Merged(r) == [t \in DOMAIN catalog |-> FlushRows(catalog[t], r.snap[t], r.new[t])]
ExtTaken(c) == \E i, j \in AssetIds : i # j /\ c.asset[i].ext = c.asset[j].ext /\ c.asset[i].ext # "none"

CommitCatalog(s) ==
    LET r == catalogReq[s] IN
    /\ r.busy
    /\ catalog' = IF ExtTaken(Merged(r)) THEN catalog ELSE Merged(r)
    /\ catalogReq' = [catalogReq EXCEPT ![s] = NoCatalogRequest]
    /\ UNCHANGED <<reports, catalogMixed, catalogByHand>>

CatalogNext == \E s \in CatalogSlots :
    \/ ReportPack(s) \/ OpenClawBackup(s) \/ StructuredReport(s) \/ AnalysisResult(s)
    \/ CreateAsset(s) \/ UpdateAsset(s) \/ Feedback(s)
    \/ AddOwnerByHand(s) \/ ReviewCandidate(s) \/ CommitCatalog(s)

CatalogSpec == CatalogInit /\ [][CatalogNext]_catalogVars
-------------------------------------------------------------------------------
\* A report that is sent again, by whichever way, finds what the first one left: unless two
\* requests overlapped, no key has two traces, no asset two bindings of one reference, and
\* unless an owner was added by hand a user is listed as the creator of an asset once (with
\* two rows of either kind every later pack that looks them up is refused).
ReportsFindOneRow ==
    ~catalogMixed =>
        /\ \A k \in TraceKeys : Cardinality(TracesWith(catalog, k)) <= 1
        /\ \A i \in AssetIds, e \in RefIds : Cardinality(BindsOf(catalog, i, e)) <= 1
        /\ catalogByHand \/ \A o, p \in OwnerIds :
               /\ catalog.owner[o].made /\ catalog.owner[p].made
               /\ catalog.owner[o].asset = catalog.owner[p].asset
               /\ catalog.owner[o].user = catalog.owner[p].user
               /\ catalog.owner[o].type = catalog.owner[p].type
               => o = p
=================================================================================
