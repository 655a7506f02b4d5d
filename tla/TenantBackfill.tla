----------------------------- MODULE TenantBackfill -----------------------------
(*******************************************************************************)
(* Rows of five tables get the namespace they belong to: from the application, *)
(* which writes new rows with one (tenant_write_service), and from a command   *)
(* that fills old rows without one, a batch of them per invocation, from what  *)
(* they are linked to (tenant_resolution_service, tenant_backfill_service and  *)
(* scripts/backfill_foundation_tenants.py).                                    *)
(*                                                                             *)
(* A row is a number: the order of the numbers is the order in which the       *)
(* command visits the rows, by table and then by id.  The command's operator   *)
(* confirms that links, owners and rows without a namespace are not written    *)
(* meanwhile; all that the application's builders write is in the model.       *)
(*******************************************************************************)
EXTENDS Naturals

CONSTANTS
    Assets, Runtimes, Bindings, Traces, Evidence,   \* rows of the five tables
    Spaces,      \* namespaces; one that is deleted keeps its row and counts
    Runs,        \* invocations of the command at the same time
    BatchSizes   \* sizes of a batch

Rows == Assets \cup Runtimes \cup Bindings \cup Traces \cup Evidence

ASSUME TenantAssumption ==
    /\ Rows \subseteq Nat \ {0} /\ BatchSizes \subseteq Nat \ {0}
    /\ Assets \cap (Runtimes \cup Bindings \cup Traces \cup Evidence) = {}
    /\ Runtimes \cap (Bindings \cup Traces \cup Evidence) = {}
    /\ Bindings \cap (Traces \cup Evidence) = {}
    /\ Traces \cap Evidence = {}
    /\ "null" \notin Spaces /\ "absent" \notin Spaces

VARIABLES
    links,      \* Links: what the rows are linked to (never changed)
    tenant,     \* [Rows -> Tenants]: committed rows
    file,       \* the file with the checkpoint
    fill        \* [Runs -> FillRun]

tenantVars == <<links, tenant, file, fill>>
-------------------------------------------------------------------------------
Tenants == Spaces \cup {"null", "absent"}

\* owners: the namespaces of an asset's owners; 0 is no link.
Links == [owners    : [Assets -> SUBSET Spaces],
          assetOf   : [Bindings \cup Traces -> Assets \cup {0}],
          runtimeOf : [Bindings \cup Traces -> Runtimes \cup {0}],
          traceOf   : [Evidence -> Traces \cup {0}]]

CheckpointFile == [mode : {"none", "dry_run", "apply"}, last : Nat]
NoFile == [mode |-> "none", last |-> 0]

\* view: the snapshot of the rows and what this run has written into it (wrote).
FillRun == [phase : {"idle", "scan", "save"}, mode : {"dry_run", "apply"}, last : Nat,
            left : Nat, view : [Rows -> Tenants], wrote : SUBSET Rows]
NoRun   == [phase |-> "idle", mode |-> "dry_run", last |-> 0, left |-> 0,
            view |-> [e \in Rows |-> "absent"], wrote |-> {}]

TenantTypeOK ==
    /\ links \in Links
    /\ tenant \in [Rows -> Tenants]
    /\ file \in CheckpointFile
    /\ fill \in [Runs -> FillRun]

\* What a row is linked to is there (foreign keys); both links of a binding are set.
There(t, e) == t[e] # "absent"
Linked(l, t) ==
    /\ \A x \in Bindings \cup Traces : There(t, x) =>
         /\ l.assetOf[x] # 0 => There(t, l.assetOf[x])
         /\ l.runtimeOf[x] # 0 => There(t, l.runtimeOf[x])
    /\ \A x \in Evidence : There(t, x) /\ l.traceOf[x] # 0 => There(t, l.traceOf[x])
Whole(l) == \A b \in Bindings : l.assetOf[b] # 0 /\ l.runtimeOf[b] # 0

TenantInit ==
    /\ links \in Links /\ Whole(links)
    /\ tenant \in [Rows -> Tenants] /\ Linked(links, tenant)
    /\ file = NoFile
    /\ fill = [r \in Runs |-> NoRun]
-------------------------------------------------------------------------------
(* The resolver: its verdict is the set of namespaces a row may belong to.  It *)
(* is resolved with one of them, a conflict with more, unresolved with none.   *)

Conflict(v) == \E m, n \in v : m # n
Resolved(v) == v # {} /\ ~Conflict(v)

\* All must be resolved, and agree.
Agreed(vs) == IF {} \in vs /\ \A v \in vs : ~Conflict(v) THEN {} ELSE UNION vs

AssetVerdict(l, t, a) == IF t[a] \in Spaces THEN {t[a]} ELSE l.owners[a]

Bound(l, t, r) == {l.assetOf[b] : b \in {x \in Bindings : There(t, x) /\ l.runtimeOf[x] = r}}

\* A fault: only the namespaces that assets already have count.
FaultRuntimeVerdict(l, t, r) ==
    IF t[r] \in Spaces THEN {t[r]} ELSE {t[a] : a \in Bound(l, t, r)} \cap Spaces
RuntimeVerdict(l, t, r) ==
    IF t[r] \in Spaces THEN {t[r]} ELSE Agreed({AssetVerdict(l, t, a) : a \in Bound(l, t, r)})

BindingVerdict(l, t, b) ==
    IF t[b] \in Spaces THEN {t[b]}
    ELSE Agreed({RuntimeVerdict(l, t, l.runtimeOf[b]), AssetVerdict(l, t, l.assetOf[b])})

\* The asset decides; the runtime must not disagree, and decides if there is no asset.
TraceVerdict(l, t, w) ==
    LET a == IF l.assetOf[w] = 0 THEN {} ELSE AssetVerdict(l, t, l.assetOf[w])
        r == IF l.runtimeOf[w] = 0 THEN {} ELSE RuntimeVerdict(l, t, l.runtimeOf[w])
    IN  IF t[w] \in Spaces THEN {t[w]}
        ELSE IF l.assetOf[w] # 0 /\ a = {} /\ ~Conflict(r) THEN {} ELSE a \cup r

EvidenceVerdict(l, t, i) ==
    IF t[i] \in Spaces THEN {t[i]}
    ELSE IF l.traceOf[i] = 0 THEN {} ELSE TraceVerdict(l, t, l.traceOf[i])

Verdict(l, t, e) == CASE e \in Assets   -> AssetVerdict(l, t, e)
                      [] e \in Runtimes -> RuntimeVerdict(l, t, e)
                      [] e \in Bindings -> BindingVerdict(l, t, e)
                      [] e \in Traces   -> TraceVerdict(l, t, e)
                      [] e \in Evidence -> EvidenceVerdict(l, t, e)
-------------------------------------------------------------------------------
(* The command.                                                                *)

FillGoes(r, run) == fill' = [fill EXCEPT ![r] = run] /\ UNCHANGED links

\* load_checkpoint: one of the other mode is refused.
FaultLoadable(mode) == TRUE
Loadable(mode) == file.mode \in {"none", mode}

Start(r, mode, size) ==
    /\ fill[r].phase = "idle" /\ Loadable(mode)
    /\ FillGoes(r, [phase |-> "scan", mode |-> mode, last |-> file.last, left |-> size,
                view |-> tenant, wrote |-> {}])
    /\ UNCHANGED <<tenant, file>>

\* The next row of the batch: the first without a namespace after the last one.
Waiting(r) == {e \in Rows : fill[r].view[e] = "null" /\ e > fill[r].last}
\* A fault: a batch without an end.
FaultNextRow(r, e) == /\ fill[r].phase = "scan"
                      /\ e \in Waiting(r) /\ \A d \in Waiting(r) : e <= d
NextRow(r, e) == /\ fill[r].phase = "scan" /\ fill[r].left > 0
                 /\ e \in Waiting(r) /\ \A d \in Waiting(r) : e <= d

Passed(r, e) == [fill[r] EXCEPT !.last = e, !.left = @ - 1]

\* _apply_resolution: an update of the row where it has no namespace, which waits for
\* another run's uncommitted update of it.
FillRow(r, e) ==
    LET run == fill[r] IN
    /\ NextRow(r, e) /\ run.mode = "apply"
    /\ Resolved(Verdict(links, run.view, e)) /\ tenant[e] = "null"
    /\ \A o \in Runs \ {r} : e \notin fill[o].wrote
    /\ \E n \in Verdict(links, run.view, e) :
         FillGoes(r, [Passed(r, e) EXCEPT !.view[e] = n, !.wrote = @ \cup {e}])
    /\ UNCHANGED <<tenant, file>>

\* Only reported: a dry run, no verdict, or a row that has one by now.
PassRow(r, e) ==
    LET run == fill[r] IN
    /\ NextRow(r, e)
    /\ run.mode = "dry_run" \/ ~Resolved(Verdict(links, run.view, e)) \/ tenant[e] # "null"
    /\ FillGoes(r, Passed(r, e)) /\ UNCHANGED <<tenant, file>>

\* The end of the batch: commit, or the rollback of a dry run.
EndBatch(r) ==
    LET run == fill[r] IN
    /\ run.phase = "scan" /\ (run.left = 0 \/ Waiting(r) = {})
    /\ tenant' = [e \in Rows |-> IF e \in run.wrote THEN run.view[e] ELSE tenant[e]]
    /\ FillGoes(r, [run EXCEPT !.phase = "save", !.wrote = {}])
    /\ UNCHANGED file

\* save_checkpoint: the file is replaced (there is none to save if no row was seen).
SaveCheckpoint(r) ==
    LET run == fill[r] IN
    /\ run.phase = "save"
    /\ file' = (IF run.last = 0 THEN file ELSE [mode |-> run.mode, last |-> run.last])
    /\ FillGoes(r, NoRun) /\ UNCHANGED tenant

\* An error, or the end of the process: the transaction is rolled back.
Fail(r) == /\ fill[r].phase # "idle"
           /\ FillGoes(r, NoRun) /\ UNCHANGED <<tenant, file>>

\* The operator starts another pass without the checkpoint.
NewPass == /\ file # NoFile /\ file' = NoFile
           /\ UNCHANGED <<links, tenant, fill>>
-------------------------------------------------------------------------------
\* ensure_resource_namespace and the builders: a new row is linked to rows of its
\* own namespace only.
Within(e, n) ==
    /\ e \in Bindings \cup Traces =>
         /\ links.assetOf[e] # 0 => tenant[links.assetOf[e]] = n
         /\ links.runtimeOf[e] # 0 => tenant[links.runtimeOf[e]] = n
    /\ e \in Evidence /\ links.traceOf[e] # 0 => tenant[links.traceOf[e]] = n

AddRow(e, n) ==
    /\ ~There(tenant, e) /\ Within(e, n)
    /\ tenant' = [tenant EXCEPT ![e] = n]
    /\ UNCHANGED <<links, file, fill>>

TenantNext ==
    \/ \E r \in Runs :
         \/ \E mode \in {"dry_run", "apply"}, size \in BatchSizes : Start(r, mode, size)
         \/ \E e \in Rows : FillRow(r, e) \/ PassRow(r, e)
         \/ EndBatch(r) \/ SaveCheckpoint(r) \/ Fail(r)
    \/ NewPass
    \/ \E e \in Rows, n \in Spaces : AddRow(e, n)

TenantSpec == TenantInit /\ [][TenantNext]_tenantVars
-------------------------------------------------------------------------------
\* The runbook's claim that batches, repetitions and crashes are safe: no step, of the
\* command or of the application, changes the verdict on a row that is there.  So it does
\* not matter which rows were filled before, by whom, or how old the snapshot is.
VerdictsKeep ==
    [][\A e \in Rows : There(tenant, e) =>
          There(tenant', e) /\ Verdict(links', tenant', e) = Verdict(links, tenant, e)]_tenantVars

\* What the checkpoint of an apply has passed needs no second look: a row up to it that
\* still has no namespace has no verdict either.
CheckpointCovers ==
    file.mode = "apply" =>
        \A e \in Rows : e <= file.last /\ tenant[e] = "null" => ~Resolved(Verdict(links, tenant, e))
=================================================================================
