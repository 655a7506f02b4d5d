--------------------------- MODULE TenantBackfillProofs ---------------------------
(*******************************************************************************)
(* Why batches, repetitions, overlapping runs and crashes of the backfill are  *)
(* safe, for every set of rows and every way they are linked: filling a row    *)
(* with its verdict changes no verdict (VerdictStable), so a run that resolves *)
(* against an old snapshot decides as if it read the rows of this moment.      *)
(*******************************************************************************)
EXTENDS TenantBackfill, TLAPS

\* t comes from s by filling rows with their verdict and by adding rows with a
\* namespace, bindings of a runtime only if that has one.
Fills(l, s, t) ==
    \A e \in Rows :
        /\ s[e] \in Spaces => t[e] = s[e]
        /\ s[e] = "null" => t[e] = "null" \/ (t[e] \in Spaces /\ Verdict(l, s, e) = {t[e]})
        /\ s[e] = "absent" => \/ t[e] = "absent"
                              \/ /\ t[e] \in Spaces
                                 /\ e \in Bindings => t[l.runtimeOf[e]] \in Spaces

\* What holds of two states of the rows, the second of them a filling of the first.
FillsOnly(l, s, t) == /\ l \in Links /\ Whole(l)
                      /\ s \in [Rows -> Tenants] /\ t \in [Rows -> Tenants]
                      /\ Linked(l, s) /\ Fills(l, s, t)

\* The verdict on a row is that of its table.
LEMMA VerdictOf ==
    ASSUME NEW l, NEW t, NEW e \in Rows
    PROVE  /\ e \in Assets => Verdict(l, t, e) = AssetVerdict(l, t, e)
           /\ e \in Runtimes => Verdict(l, t, e) = RuntimeVerdict(l, t, e)
           /\ e \in Bindings => Verdict(l, t, e) = BindingVerdict(l, t, e)
           /\ e \in Traces => Verdict(l, t, e) = TraceVerdict(l, t, e)
           /\ e \in Evidence => Verdict(l, t, e) = EvidenceVerdict(l, t, e)
<1>1. CASE e \in Assets BY <1>1, TenantAssumption DEF Verdict
<1>2. CASE e \in Runtimes BY <1>2, TenantAssumption DEF Verdict
<1>3. CASE e \in Bindings BY <1>3, TenantAssumption DEF Verdict
<1>4. CASE e \in Traces BY <1>4, TenantAssumption DEF Verdict
<1>5. CASE e \in Evidence BY <1>5, TenantAssumption DEF Verdict
<1>6. QED BY <1>1, <1>2, <1>3, <1>4, <1>5 DEF Rows

\* A row with a namespace has it as its verdict.
LEMMA OwnVerdict ==
    ASSUME NEW l, NEW t, NEW e \in Rows, t[e] \in Spaces
    PROVE  Verdict(l, t, e) = {t[e]}
<1>1. CASE e \in Assets BY <1>1, VerdictOf DEF AssetVerdict
<1>2. CASE e \in Runtimes BY <1>2, VerdictOf DEF RuntimeVerdict
<1>3. CASE e \in Bindings BY <1>3, VerdictOf DEF BindingVerdict
<1>4. CASE e \in Traces BY <1>4, VerdictOf DEF TraceVerdict
<1>5. CASE e \in Evidence BY <1>5, VerdictOf DEF EvidenceVerdict
<1>6. QED BY <1>1, <1>2, <1>3, <1>4, <1>5 DEF Rows

\* A filled row keeps its verdict, and no row goes away.
LEMMA FilledKeeps ==
    ASSUME NEW l, NEW s, NEW t, FillsOnly(l, s, t), NEW e \in Rows, There(s, e)
    PROVE  /\ There(t, e)
           /\ t[e] = "null" => s[e] = "null"
           /\ t[e] \in Spaces => Verdict(l, t, e) = Verdict(l, s, e)
<1>1. s[e] \in Spaces \/ s[e] = "null"
  BY DEF FillsOnly, Tenants, There
<1>2. CASE s[e] \in Spaces
  <2>1. t[e] = s[e] BY <1>2 DEF FillsOnly, Fills
  <2>2. QED BY <1>2, <2>1, OwnVerdict, TenantAssumption DEF There
<1>3. CASE s[e] = "null"
  <2>1. t[e] = "null" \/ (t[e] \in Spaces /\ Verdict(l, s, e) = {t[e]})
    BY <1>3 DEF FillsOnly, Fills
  <2>2. QED BY <1>3, <2>1, OwnVerdict, TenantAssumption DEF There
<1>4. QED BY <1>1, <1>2, <1>3

LEMMA AssetStable ==
    ASSUME NEW l, NEW s, NEW t, FillsOnly(l, s, t), NEW a \in Assets, There(s, a)
    PROVE  AssetVerdict(l, t, a) = AssetVerdict(l, s, a)
<1>1. a \in Rows BY DEF Rows
<1>2. t[a] \in Spaces \/ t[a] = "null"
  BY <1>1, FilledKeeps DEF FillsOnly, Tenants, There
<1>3. CASE t[a] \in Spaces BY <1>1, <1>3, FilledKeeps, VerdictOf
<1>4. CASE t[a] = "null"
  BY <1>1, <1>4, FilledKeeps, TenantAssumption DEF AssetVerdict
<1>5. QED BY <1>2, <1>3, <1>4

\* A runtime without a namespace has the bindings it had: new ones need a namespace.
LEMMA RuntimeStable ==
    ASSUME NEW l, NEW s, NEW t, FillsOnly(l, s, t), NEW r \in Runtimes, There(s, r)
    PROVE  RuntimeVerdict(l, t, r) = RuntimeVerdict(l, s, r)
<1>1. r \in Rows BY DEF Rows
<1>2. t[r] \in Spaces \/ t[r] = "null"
  BY <1>1, FilledKeeps DEF FillsOnly, Tenants, There
<1>3. CASE t[r] \in Spaces BY <1>1, <1>3, FilledKeeps, VerdictOf
<1>4. CASE t[r] = "null"
  <2>1. s[r] = "null" BY <1>1, <1>4, FilledKeeps
  <2>2. ASSUME NEW b \in Bindings, l.runtimeOf[b] = r
        PROVE  There(t, b) <=> There(s, b)
    <3>1. b \in Rows BY DEF Rows
    <3>2. There(s, b) => There(t, b) BY <3>1, FilledKeeps
    <3>3. s[b] = "absent" => t[b] = "absent"
      BY <3>1, <2>2, <1>4, TenantAssumption DEF FillsOnly, Fills
    <3>4. QED BY <3>2, <3>3 DEF There
  <2>3. Bound(l, t, r) = Bound(l, s, r) BY <2>2 DEF Bound
  <2>4. ASSUME NEW a \in Bound(l, s, r)
        PROVE  AssetVerdict(l, t, a) = AssetVerdict(l, s, a)
    <3>1. PICK b \in Bindings : There(s, b) /\ l.runtimeOf[b] = r /\ a = l.assetOf[b]
      BY <2>4 DEF Bound
    <3>2. a \in Assets /\ There(s, a)
      BY <3>1 DEF FillsOnly, Links, Whole, Linked
    <3>3. QED BY <3>2, AssetStable
  <2>5. {AssetVerdict(l, t, a) : a \in Bound(l, t, r)} = {AssetVerdict(l, s, a) : a \in Bound(l, s, r)}
    BY <2>3, <2>4
  <2>6. QED BY <2>1, <2>5, <1>4, TenantAssumption DEF RuntimeVerdict
<1>5. QED BY <1>2, <1>3, <1>4

\* What a binding or a trace is linked to is there, and keeps its verdict.
LEMMA LinkStable ==
    ASSUME NEW l, NEW s, NEW t, FillsOnly(l, s, t), NEW x \in Bindings \cup Traces, There(s, x)
    PROVE  /\ l.assetOf[x] # 0 => AssetVerdict(l, t, l.assetOf[x]) = AssetVerdict(l, s, l.assetOf[x])
           /\ l.runtimeOf[x] # 0 =>
                RuntimeVerdict(l, t, l.runtimeOf[x]) = RuntimeVerdict(l, s, l.runtimeOf[x])
<1>1. l.assetOf[x] # 0 => l.assetOf[x] \in Assets /\ There(s, l.assetOf[x])
  BY DEF FillsOnly, Links, Linked
<1>2. l.runtimeOf[x] # 0 => l.runtimeOf[x] \in Runtimes /\ There(s, l.runtimeOf[x])
  BY DEF FillsOnly, Links, Linked
<1>3. QED BY <1>1, <1>2, AssetStable, RuntimeStable

LEMMA BindingStable ==
    ASSUME NEW l, NEW s, NEW t, FillsOnly(l, s, t), NEW b \in Bindings, There(s, b)
    PROVE  BindingVerdict(l, t, b) = BindingVerdict(l, s, b)
<1>1. b \in Rows BY DEF Rows
<1>2. t[b] \in Spaces \/ t[b] = "null"
  BY <1>1, FilledKeeps DEF FillsOnly, Tenants, There
<1>3. CASE t[b] \in Spaces BY <1>1, <1>3, FilledKeeps, VerdictOf
<1>4. CASE t[b] = "null"
  <2>1. s[b] = "null" BY <1>1, <1>4, FilledKeeps
  <2>2. l.assetOf[b] # 0 /\ l.runtimeOf[b] # 0 BY DEF FillsOnly, Whole
  <2>3. QED BY <2>1, <2>2, <1>4, LinkStable, TenantAssumption DEF BindingVerdict
<1>5. QED BY <1>2, <1>3, <1>4

LEMMA TraceStable ==
    ASSUME NEW l, NEW s, NEW t, FillsOnly(l, s, t), NEW w \in Traces, There(s, w)
    PROVE  TraceVerdict(l, t, w) = TraceVerdict(l, s, w)
<1>1. w \in Rows BY DEF Rows
<1>2. t[w] \in Spaces \/ t[w] = "null"
  BY <1>1, FilledKeeps DEF FillsOnly, Tenants, There
<1>3. CASE t[w] \in Spaces BY <1>1, <1>3, FilledKeeps, VerdictOf
<1>4. CASE t[w] = "null"
  <2>1. s[w] = "null" BY <1>1, <1>4, FilledKeeps
  <2>2. QED BY <2>1, <1>4, LinkStable, TenantAssumption DEF TraceVerdict
<1>5. QED BY <1>2, <1>3, <1>4

LEMMA EvidenceStable ==
    ASSUME NEW l, NEW s, NEW t, FillsOnly(l, s, t), NEW i \in Evidence, There(s, i)
    PROVE  EvidenceVerdict(l, t, i) = EvidenceVerdict(l, s, i)
<1>1. i \in Rows BY DEF Rows
<1>2. t[i] \in Spaces \/ t[i] = "null"
  BY <1>1, FilledKeeps DEF FillsOnly, Tenants, There
<1>3. CASE t[i] \in Spaces BY <1>1, <1>3, FilledKeeps, VerdictOf
<1>4. CASE t[i] = "null"
  <2>1. s[i] = "null" BY <1>1, <1>4, FilledKeeps
  <2>2. l.traceOf[i] # 0 => l.traceOf[i] \in Traces /\ There(s, l.traceOf[i])
    BY DEF FillsOnly, Links, Linked
  <2>3. QED BY <2>1, <2>2, <1>4, TraceStable, TenantAssumption DEF EvidenceVerdict
<1>5. QED BY <1>2, <1>3, <1>4

\* Filling rows with their verdicts, in any order and by whomever, and adding rows the way
\* the application does changes the verdict on no row.
THEOREM VerdictStable ==
    ASSUME NEW l, NEW s, NEW t, FillsOnly(l, s, t), NEW e \in Rows, There(s, e)
    PROVE  There(t, e) /\ Verdict(l, t, e) = Verdict(l, s, e)
<1>1. There(t, e) BY FilledKeeps
<1>2. CASE e \in Assets BY <1>1, <1>2, VerdictOf, AssetStable
<1>3. CASE e \in Runtimes BY <1>1, <1>3, VerdictOf, RuntimeStable
<1>4. CASE e \in Bindings BY <1>1, <1>4, VerdictOf, BindingStable
<1>5. CASE e \in Traces BY <1>1, <1>5, VerdictOf, TraceStable
<1>6. CASE e \in Evidence BY <1>1, <1>6, VerdictOf, EvidenceStable
<1>7. QED BY <1>1, <1>2, <1>3, <1>4, <1>5, <1>6 DEF Rows
-------------------------------------------------------------------------------
\* Up to a row, what has no namespace has no verdict, but for what a run has written.
Covered(last, wrote) ==
    \A e \in Rows : e <= last /\ tenant[e] = "null" =>
        e \in wrote \/ ~Resolved(Verdict(links, tenant, e))

\* A run's view is an older state of the rows that gives the same verdicts.
ScanOK(run) ==
    /\ Linked(links, run.view)
    /\ \A e \in Rows : There(run.view, e) =>
         There(tenant, e) /\ Verdict(links, tenant, e) = Verdict(links, run.view, e)
    /\ \A e \in Rows : tenant[e] = "null" => run.view[e] = "null" \/ e \in run.wrote
    /\ \A e \in run.wrote : /\ tenant[e] = "null" /\ run.view[e] \in Spaces
                            /\ Verdict(links, tenant, e) = {run.view[e]}

RunOK(run) ==
    /\ run.phase = "scan" => ScanOK(run)
    /\ run.phase # "scan" => run.wrote = {}
    /\ run.phase # "idle" /\ run.mode = "apply" => Covered(run.last, run.wrote)

\* The locks of the rows: no row is written by two runs.
LocksOK == \A r, o \in Runs : r # o => fill[r].wrote \cap fill[o].wrote = {}

FileOK == /\ file.mode = "none" => file.last = 0
          /\ file.mode = "apply" => Covered(file.last, {})

TInv == /\ TenantTypeOK /\ Whole(links) /\ Linked(links, tenant)
        /\ \A r \in Runs : RunOK(fill[r])
        /\ LocksOK /\ FileOK

LEMMA TenantInitInv == TenantInit => TInv
<1> SUFFICES ASSUME TenantInit PROVE TInv
  OBVIOUS
<1>1. TenantTypeOK
  BY DEF TenantInit, TenantTypeOK, NoFile, CheckpointFile, NoRun, FillRun, Tenants
<1>2. \A r \in Runs : fill[r] = NoRun BY DEF TenantInit
<1>3. \A r \in Runs : RunOK(fill[r]) BY <1>2 DEF RunOK, NoRun
<1>4. LocksOK BY <1>2 DEF LocksOK, NoRun
<1>5. FileOK BY DEF TenantInit, FileOK, NoFile
<1>6. QED BY <1>1, <1>3, <1>4, <1>5 DEF TInv, TenantInit

\* If the committed rows change by a filling, what was covered stays covered, and a run
\* stays right whose own rows nobody has touched.
LEMMA CoveredStable ==
    ASSUME TInv, links' = links, FillsOnly(links, tenant, tenant'),
           NEW last, NEW wrote, Covered(last, wrote)
    PROVE  Covered(last, wrote)'
<1> SUFFICES ASSUME NEW e \in Rows, e <= last, tenant'[e] = "null", e \notin wrote
             PROVE  ~Resolved(Verdict(links', tenant', e))
  BY DEF Covered
<1>1. tenant[e] = "null" /\ There(tenant, e)
  BY TenantAssumption DEF FillsOnly, Fills, There, Tenants
<1>2. ~Resolved(Verdict(links, tenant, e)) BY <1>1 DEF Covered
<1>3. QED BY <1>1, <1>2, VerdictStable

LEMMA RunStable ==
    ASSUME TInv, links' = links, FillsOnly(links, tenant, tenant'),
           NEW r \in Runs, fill'[r] = fill[r],
           \A e \in fill[r].wrote : tenant'[e] = "null"
    PROVE  RunOK(fill[r])'
<1> DEFINE run == fill[r]
<1>1. RunOK(run) /\ run \in FillRun BY DEF TInv, TenantTypeOK
<1>2. CASE run.phase = "scan"
  <2>1. ScanOK(run) BY <1>1, <1>2 DEF RunOK
  <2>2. \A e \in Rows : There(tenant, e) =>
          There(tenant', e) /\ Verdict(links, tenant', e) = Verdict(links, tenant, e)
    BY VerdictStable
  <2>3. \A e \in Rows : tenant'[e] = "null" => tenant[e] = "null"
    BY TenantAssumption DEF FillsOnly, Fills, Tenants
  <2>4. \A e \in run.wrote : e \in Rows BY <1>1 DEF FillRun
  <2>5. \A e \in run.wrote : /\ tenant'[e] = "null" /\ run.view[e] \in Spaces
                             /\ Verdict(links, tenant', e) = {run.view[e]}
    BY <2>1, <2>2, <2>4 DEF ScanOK, There
  <2>6. ScanOK(fill[r])' BY <2>1, <2>2, <2>3, <2>5 DEF ScanOK
  <2>7. run.mode = "apply" => Covered(run.last, run.wrote)'
    BY <1>1, <1>2, CoveredStable DEF RunOK
  <2>8. QED BY <1>2, <2>6, <2>7 DEF RunOK
<1>3. CASE run.phase # "scan"
  <2>1. run.phase # "idle" /\ run.mode = "apply" => Covered(run.last, run.wrote)'
    BY <1>1, CoveredStable DEF RunOK
  <2>2. QED BY <1>1, <1>3, <2>1 DEF RunOK
<1>4. QED BY <1>2, <1>3

\* No change is a filling.
LEMMA NoFilling == ASSUME TInv, links' = links, tenant' = tenant
                   PROVE  FillsOnly(links, tenant, tenant')
BY TenantAssumption DEF FillsOnly, Fills, TInv, TenantTypeOK, Tenants

\* A step of one run that leaves the committed rows alone keeps the others right.
LEMMA OthersStable ==
    ASSUME TInv, NEW r \in Runs, NEW run, FillGoes(r, run), tenant' = tenant,
           NEW o \in Runs \ {r}
    PROVE  RunOK(fill[o])'
<1>1. fill'[o] = fill[o] /\ links' = links
  BY DEF FillGoes, TInv, TenantTypeOK
<1>2. \A e \in fill[o].wrote : tenant'[e] = "null"
  BY DEF TInv, RunOK, ScanOK, TenantTypeOK, FillRun
<1>3. QED BY <1>1, <1>2, NoFilling, RunStable
-------------------------------------------------------------------------------
\* A verdict names namespaces.
LEMMA VerdictSpaces ==
    ASSUME NEW l \in Links, Whole(l), NEW t, NEW e \in Rows
    PROVE  Verdict(l, t, e) \subseteq Spaces
<1>1. \A a \in Assets : AssetVerdict(l, t, a) \subseteq Spaces
  BY DEF AssetVerdict, Links
<1>2. ASSUME NEW vs, \A v \in vs : v \subseteq Spaces PROVE Agreed(vs) \subseteq Spaces
  BY <1>2 DEF Agreed
<1>3. \A r \in Runtimes : RuntimeVerdict(l, t, r) \subseteq Spaces
  <2> TAKE r \in Runtimes
  <2>1. \A a \in Bound(l, t, r) : a \in Assets BY DEF Bound, Links, Whole
  <2>2. Agreed({AssetVerdict(l, t, a) : a \in Bound(l, t, r)}) \subseteq Spaces
    BY <1>1, <1>2, <2>1
  <2>3. QED BY <2>2 DEF RuntimeVerdict
<1>4. \A x \in Bindings \cup Traces : /\ l.assetOf[x] \in Assets \cup {0}
                                      /\ l.runtimeOf[x] \in Runtimes \cup {0}
  BY DEF Links
<1>5. \A b \in Bindings : BindingVerdict(l, t, b) \subseteq Spaces
  <2> TAKE b \in Bindings
  <2>1. l.assetOf[b] \in Assets /\ l.runtimeOf[b] \in Runtimes BY <1>4 DEF Whole
  <2>2. Agreed({RuntimeVerdict(l, t, l.runtimeOf[b]), AssetVerdict(l, t, l.assetOf[b])}) \subseteq Spaces
    BY <1>1, <1>2, <1>3, <2>1
  <2>3. QED BY <2>2 DEF BindingVerdict
<1>6. \A w \in Traces : TraceVerdict(l, t, w) \subseteq Spaces
  BY <1>1, <1>3, <1>4 DEF TraceVerdict
<1>7. \A i \in Evidence : EvidenceVerdict(l, t, i) \subseteq Spaces
  BY <1>6 DEF EvidenceVerdict, Links
<1>8. QED BY <1>1, <1>3, <1>5, <1>6, <1>7, VerdictOf DEF Rows

\* Links depend only on which rows are there.
LEMMA LinkedSame ==
    ASSUME NEW l \in Links, NEW s, NEW t, Linked(l, s),
           \A e \in Rows : There(t, e) <=> There(s, e)
    PROVE  Linked(l, t)
<1>1. \A x \in Bindings \cup Traces : /\ l.assetOf[x] # 0 => l.assetOf[x] \in Rows
                                      /\ l.runtimeOf[x] # 0 => l.runtimeOf[x] \in Rows
  BY DEF Links, Rows
<1>2. \A x \in Evidence : l.traceOf[x] # 0 => l.traceOf[x] \in Rows BY DEF Links, Rows
<1>3. \A x \in Bindings \cup Traces \cup Evidence : x \in Rows BY DEF Rows
<1>4. QED BY <1>1, <1>2, <1>3 DEF Linked

\* A step of one run: what is left to show for it.
LEMMA RunStep ==
    ASSUME TInv, NEW r \in Runs, NEW run \in FillRun, FillGoes(r, run), tenant' = tenant,
           file' \in CheckpointFile, FileOK', RunOK(run)',
           \A o \in Runs \ {r} : run.wrote \cap fill[o].wrote = {}
    PROVE  TInv'
<1>1. fill' = [fill EXCEPT ![r] = run] /\ links' = links /\ fill \in [Runs -> FillRun]
  BY DEF FillGoes, TInv, TenantTypeOK
<1>2. TenantTypeOK' BY <1>1 DEF TInv, TenantTypeOK
<1>3. RunOK(fill[r])' BY <1>1
<1>4. \A o \in Runs : RunOK(fill[o])' BY <1>3, OthersStable
<1>5. LocksOK' BY <1>1 DEF LocksOK, TInv
<1>6. QED BY <1>1, <1>2, <1>4, <1>5 DEF TInv

\* The file is not touched, or not its claim.
LEMMA FileStable ==
    ASSUME TInv, links' = links, tenant' = tenant, file' = file
    PROVE  FileOK' /\ file' \in CheckpointFile
BY DEF TInv, FileOK, Covered, TenantTypeOK

LEMMA StartInv ==
    ASSUME TInv, NEW r \in Runs, NEW mode \in {"dry_run", "apply"}, NEW size \in BatchSizes,
           Start(r, mode, size)
    PROVE  TInv'
<1> DEFINE run == [phase |-> "scan", mode |-> mode, last |-> file.last, left |-> size,
                   view |-> tenant, wrote |-> {}]
<1>1. FillGoes(r, run) /\ tenant' = tenant /\ file' = file /\ links' = links
  BY DEF Start, FillGoes
<1>2. run \in FillRun BY TenantAssumption DEF TInv, TenantTypeOK, FillRun, CheckpointFile
<1>3. ScanOK(run)' BY <1>1 DEF ScanOK, TInv
<1>4. mode = "apply" => Covered(file.last, {})
  <2>1. SUFFICES ASSUME mode = "apply" PROVE Covered(file.last, {})
    OBVIOUS
  <2>2. CASE file.mode = "none"
    <3>1. file.last = 0 BY <2>2 DEF TInv, FileOK
    <3>2. \A e \in Rows : ~(e <= 0) BY TenantAssumption
    <3>3. QED BY <3>1, <3>2 DEF Covered
  <2>3. CASE file.mode = "apply" BY <2>3 DEF TInv, FileOK
  <2>4. QED BY <2>1, <2>2, <2>3 DEF Start, Loadable
<1>5. mode = "apply" => Covered(file.last, {})' BY <1>1, <1>4 DEF Covered
<1>6. RunOK(run)' BY <1>1, <1>3, <1>5 DEF RunOK
<1>7. \A o \in Runs \ {r} : run.wrote \cap fill[o].wrote = {} OBVIOUS
<1>8. QED BY <1>1, <1>2, <1>6, <1>7, FileStable, RunStep

\* What lies before the next row has been passed, or waits for nothing.
LEMMA NextCovered ==
    ASSUME TInv, NEW r \in Runs, NEW e \in Rows, NextRow(r, e), fill[r].mode = "apply",
           NEW d \in Rows, d < e, tenant[d] = "null"
    PROVE  d \in fill[r].wrote \/ ~Resolved(Verdict(links, tenant, d))
<1> DEFINE run == fill[r]
<1>1. run.phase = "scan" /\ RunOK(run) /\ run \in FillRun
  BY DEF NextRow, TInv, TenantTypeOK
<1>2. CASE d <= run.last BY <1>1, <1>2 DEF RunOK, Covered
<1>3. CASE d > run.last
  <2>1. run.view[d] = "null" \/ d \in run.wrote BY <1>1 DEF RunOK, ScanOK
  <2>2. ~(e <= d)
    <3>1. d \in Nat /\ e \in Nat BY TenantAssumption
    <3>2. QED BY <3>1
  <2>3. d \notin Waiting(r) BY <2>2 DEF NextRow
  <2>4. run.view[d] # "null" BY <1>3, <2>3 DEF Waiting
  <2>5. QED BY <2>1, <2>4
<1>4. d \in Nat /\ run.last \in Nat BY <1>1, TenantAssumption DEF FillRun
<1>5. d <= run.last \/ d > run.last BY <1>4
<1>6. QED BY <1>2, <1>3, <1>5

LEMMA PassRowInv ==
    ASSUME TInv, NEW r \in Runs, NEW e \in Rows, PassRow(r, e)
    PROVE  TInv'
<1>a. PICK run \in FillRun : run = fill[r]
  BY DEF TInv, TenantTypeOK
<1> USE <1>a
<1>b. PICK new \in FillRun : new = Passed(r, e)
  <2>1. run.left > 0 BY DEF PassRow, NextRow
  <2>2. run.left - 1 \in Nat /\ e \in Nat BY <2>1, TenantAssumption DEF FillRun
  <2>3. Passed(r, e) \in FillRun BY <2>2 DEF Passed, FillRun
  <2>4. QED BY <2>3
<1> USE <1>b
<1>1. FillGoes(r, new) /\ tenant' = tenant /\ file' = file /\ links' = links
  BY DEF PassRow, FillGoes
<1>2. run \in FillRun /\ run.phase = "scan" /\ run.left > 0 /\ ScanOK(run) /\ RunOK(run)
  BY DEF PassRow, NextRow, TInv, TenantTypeOK, RunOK
<1>4. /\ new.view = run.view /\ new.wrote = run.wrote /\ new.phase = "scan"
      /\ new.mode = run.mode /\ new.last = e
  BY <1>2 DEF Passed, FillRun
<1>5. ScanOK(new)' BY <1>1, <1>2, <1>4 DEF ScanOK
<1>6. ASSUME run.mode = "apply"
      PROVE  Covered(e, run.wrote)
  <2>1. tenant[e] = "null" => ~Resolved(Verdict(links, tenant, e))
    <3>1. run.view[e] = "null" BY DEF PassRow, NextRow, Waiting
    <3>2. There(run.view, e) BY <3>1 DEF There
    <3>3. QED BY <1>2, <1>6, <3>2 DEF PassRow, ScanOK
  <2>2. \A d \in Rows : d <= e => d < e \/ d = e BY TenantAssumption
  <2>3. QED BY <1>6, <2>1, <2>2, NextCovered DEF Covered, PassRow
<1>7. new.mode = "apply" => Covered(new.last, new.wrote)'
  BY <1>1, <1>4, <1>6 DEF Covered
<1>8. RunOK(new)' BY <1>4, <1>5, <1>7 DEF RunOK
<1>9. \A o \in Runs \ {r} : new.wrote \cap fill[o].wrote = {}
  BY <1>4 DEF TInv, LocksOK
<1>10. QED BY <1>1, <1>8, <1>9, FileStable, RunStep

LEMMA FillRowInv ==
    ASSUME TInv, NEW r \in Runs, NEW e \in Rows, FillRow(r, e)
    PROVE  TInv'
<1>a. PICK run \in FillRun : run = fill[r]
  BY DEF TInv, TenantTypeOK
<1> USE <1>a
<1>1. PICK n \in Verdict(links, run.view, e) :
        FillGoes(r, [Passed(r, e) EXCEPT !.view[e] = n, !.wrote = @ \cup {e}])
  BY DEF FillRow
<1>2. FillGoes(r, [Passed(r, e) EXCEPT !.view[e] = n, !.wrote = @ \cup {e}]) /\ tenant' = tenant /\ file' = file /\ links' = links
  BY <1>1 DEF FillRow, FillGoes
<1>3. /\ run \in FillRun /\ run.phase = "scan" /\ run.left > 0 /\ ScanOK(run) /\ RunOK(run)
      /\ run.mode = "apply" /\ run.view[e] = "null" /\ tenant[e] = "null"
      /\ links \in Links /\ Whole(links) /\ tenant \in [Rows -> Tenants]
  BY DEF FillRow, NextRow, Waiting, TInv, TenantTypeOK, RunOK
<1>4. /\ Verdict(links, run.view, e) = {n}
      /\ Verdict(links, tenant, e) = {n}
  <2>1. Verdict(links, run.view, e) = {n}
    BY <1>1 DEF FillRow, Resolved, Conflict
  <2>2. There(run.view, e) BY <1>3 DEF There
  <2>3. QED BY <1>3, <2>1, <2>2 DEF ScanOK
<1>5. n \in Spaces
  <2>1. Verdict(links, run.view, e) \subseteq Spaces BY <1>3, VerdictSpaces
  <2>2. QED BY <2>1, <1>4
<1>b. PICK new \in FillRun : new = [Passed(r, e) EXCEPT !.view[e] = n, !.wrote = @ \cup {e}]
  <2>1. run.left - 1 \in Nat /\ e \in Nat BY <1>3, TenantAssumption DEF FillRun
  <2>2. Passed(r, e) \in FillRun /\ Passed(r, e).view = run.view /\ Passed(r, e).wrote = run.wrote
    BY <2>1 DEF Passed, FillRun
  <2>3. [run.view EXCEPT ![e] = n] \in [Rows -> Tenants] BY <1>5 DEF FillRun, Tenants
  <2>4. QED BY <2>2, <2>3 DEF FillRun
<1> USE <1>b
<1>6. /\ new.view = [run.view EXCEPT ![e] = n] /\ new.wrote = run.wrote \cup {e}
      /\ new.phase = "scan" /\ new.mode = "apply" /\ new.last = e
      /\ run.view \in [Rows -> Tenants] /\ run.wrote \subseteq Rows
  BY <1>3 DEF Passed, FillRun
<1>8. FillsOnly(links, run.view, new.view)
  <2>1. new.view \in [Rows -> Tenants] /\ Linked(links, run.view)
    BY <1>3 DEF FillRun, ScanOK
  <2>2. ASSUME NEW d \in Rows, d # e PROVE new.view[d] = run.view[d] BY <1>6, <2>2
  <2>3. new.view[e] = n BY <1>6
  <2>4. Fills(links, run.view, new.view)
    BY <1>3, <1>4, <1>5, <2>2, <2>3, TenantAssumption DEF Fills
  <2>5. QED BY <1>3, <1>6, <2>1, <2>4 DEF FillsOnly
<1>9. \A d \in Rows : There(new.view, d) <=> There(run.view, d)
  BY <1>3, <1>5, <1>6, TenantAssumption DEF There
<1>10. Linked(links, new.view)
  BY <1>3, <1>9, LinkedSame, <1>6, <1>8 DEF ScanOK, FillsOnly
<1>11. \A d \in Rows : There(new.view, d) =>
         There(tenant, d) /\ Verdict(links, tenant, d) = Verdict(links, new.view, d)
  BY <1>3, <1>8, <1>9, VerdictStable DEF ScanOK
<1>12. \A d \in Rows : tenant[d] = "null" => new.view[d] = "null" \/ d \in new.wrote
  BY <1>3, <1>6 DEF ScanOK
<1>13. \A d \in new.wrote : /\ tenant[d] = "null" /\ new.view[d] \in Spaces
                            /\ Verdict(links, tenant, d) = {new.view[d]}
  BY <1>3, <1>4, <1>5, <1>6 DEF ScanOK
<1>14. ScanOK(new) BY <1>10, <1>11, <1>12, <1>13 DEF ScanOK
<1>15. ScanOK(new)' BY <1>2, <1>14 DEF ScanOK
<1>16. Covered(e, run.wrote \cup {e})
  <2>1. \A d \in Rows : d <= e => d < e \/ d = e BY TenantAssumption
  <2>2. QED BY <1>3, <2>1, NextCovered DEF Covered, FillRow
<1>17. Covered(new.last, new.wrote)' BY <1>2, <1>6, <1>16 DEF Covered
<1>18. RunOK(new)' BY <1>6, <1>15, <1>17 DEF RunOK
<1>19. \A o \in Runs \ {r} : new.wrote \cap fill[o].wrote = {}
  BY <1>6 DEF TInv, LocksOK, FillRow
<1>20. QED BY <1>2, <1>18, <1>19, FileStable, RunStep

LEMMA EndBatchInv ==
    ASSUME TInv, NEW r \in Runs, EndBatch(r)
    PROVE  TInv' /\ FillsOnly(links, tenant, tenant')
<1>a. PICK run \in FillRun : run = fill[r]
  BY DEF TInv, TenantTypeOK
<1> USE <1>a
<1>b. PICK new \in FillRun : new = [run EXCEPT !.phase = "save", !.wrote = {}]
  BY DEF FillRun
<1> USE <1>b
<1>1. /\ FillGoes(r, new) /\ file' = file /\ links' = links
      /\ fill' = [fill EXCEPT ![r] = new] /\ fill \in [Runs -> FillRun]
  BY DEF EndBatch, FillGoes, TInv, TenantTypeOK
<1>2. /\ run \in FillRun /\ run.phase = "scan" /\ ScanOK(run) /\ RunOK(run)
      /\ links \in Links /\ Whole(links) /\ tenant \in [Rows -> Tenants] /\ Linked(links, tenant)
  BY DEF EndBatch, TInv, TenantTypeOK, RunOK
<1>3. /\ new \in FillRun /\ new.phase = "save" /\ new.wrote = {}
      /\ new.mode = run.mode /\ new.last = run.last
  BY <1>2 DEF FillRun
<1>4. tenant' = [e \in Rows |-> IF e \in run.wrote THEN run.view[e] ELSE tenant[e]]
  BY DEF EndBatch
<1>5. tenant' \in [Rows -> Tenants] BY <1>2, <1>4 DEF ScanOK, Tenants
<1>6. FillsOnly(links, tenant, tenant')
  <2> SUFFICES ASSUME NEW e \in Rows
               PROVE  /\ tenant[e] \in Spaces => tenant'[e] = tenant[e]
                      /\ tenant[e] = "null" =>
                           \/ tenant'[e] = "null"
                           \/ tenant'[e] \in Spaces /\ Verdict(links, tenant, e) = {tenant'[e]}
                      /\ tenant[e] = "absent" => tenant'[e] = "absent"
    BY <1>2, <1>5 DEF FillsOnly, Fills
  <2>1. CASE e \in run.wrote BY <1>2, <1>4, <2>1, TenantAssumption DEF ScanOK
  <2>2. CASE e \notin run.wrote BY <1>4, <2>2
  <2>3. QED BY <2>1, <2>2
<1>7. ASSUME NEW e \in run.wrote PROVE tenant'[e] # "null"
  BY <1>2, <1>4, TenantAssumption DEF ScanOK, FillRun
<1>8. ASSUME NEW o \in Runs \ {r} PROVE RunOK(fill[o])'
  <2>1. fill'[o] = fill[o] BY <1>1
  <2>2. \A e \in fill[o].wrote : tenant'[e] = "null"
    <3>1. \A e \in fill[o].wrote : tenant[e] = "null" /\ e \in Rows
      BY <1>1 DEF TInv, RunOK, ScanOK, FillRun
    <3>2. \A e \in fill[o].wrote : e \notin run.wrote BY DEF TInv, LocksOK
    <3>3. QED BY <1>4, <3>1, <3>2
  <2>3. QED BY <1>1, <1>6, <2>1, <2>2, RunStable
<1>9. RunOK(new)'
  <2>1. ASSUME run.mode = "apply" PROVE Covered(run.last, {})'
    <3>1. Covered(run.last, run.wrote)' BY <1>1, <1>2, <1>6, <2>1, CoveredStable DEF RunOK
    <3>2. QED BY <1>7, <3>1 DEF Covered
  <2>2. QED BY <1>3, <2>1 DEF RunOK
<1>10. \A o \in Runs : RunOK(fill[o])' BY <1>1, <1>8, <1>9
<1>11. LocksOK' BY <1>1, <1>3 DEF LocksOK, TInv
<1>12. FileOK' BY <1>1, <1>6, CoveredStable DEF FileOK, TInv
<1>13. TenantTypeOK' BY <1>1, <1>3, <1>5 DEF TInv, TenantTypeOK
<1>14. Linked(links, tenant')
  <2>1. \A e \in Rows : There(tenant', e) <=> There(tenant, e)
    BY <1>2, <1>4, TenantAssumption DEF ScanOK, There
  <2>2. QED BY <1>2, <2>1, LinkedSame
<1>15. QED BY <1>1, <1>2, <1>6, <1>10, <1>11, <1>12, <1>13, <1>14 DEF TInv

LEMMA SaveInv ==
    ASSUME TInv, NEW r \in Runs, SaveCheckpoint(r)
    PROVE  TInv'
<1>a. PICK run \in FillRun : run = fill[r]
  BY DEF TInv, TenantTypeOK
<1> USE <1>a
<1>1. FillGoes(r, NoRun) /\ tenant' = tenant /\ links' = links
  BY DEF SaveCheckpoint, FillGoes
<1>2. run \in FillRun /\ run.phase = "save" /\ RunOK(run) /\ file \in CheckpointFile /\ FileOK
  BY DEF SaveCheckpoint, TInv, TenantTypeOK
<1>3. NoRun \in FillRun BY DEF NoRun, FillRun, Tenants
<1>4. file' \in CheckpointFile /\ FileOK'
  <2>1. CASE run.last = 0
    BY <1>1, <2>1, FileStable DEF SaveCheckpoint
  <2>2. CASE run.last # 0
    <3>1. file' = [mode |-> run.mode, last |-> run.last] BY <2>2 DEF SaveCheckpoint
    <3>2. file' \in CheckpointFile /\ file'.mode = run.mode /\ file'.last = run.last
          /\ run.mode # "none"
      BY <1>2, <3>1 DEF FillRun, CheckpointFile
    <3>3. run.mode = "apply" => Covered(run.last, {})'
      BY <1>1, <1>2 DEF RunOK, Covered
    <3>4. QED BY <3>2, <3>3 DEF FileOK
  <2>3. QED BY <2>1, <2>2
<1>5. RunOK(NoRun)' BY DEF RunOK, NoRun
<1>6. \A o \in Runs \ {r} : NoRun.wrote \cap fill[o].wrote = {} BY DEF NoRun
<1>7. QED BY <1>1, <1>3, <1>4, <1>5, <1>6, RunStep

LEMMA FailInv ==
    ASSUME TInv, NEW r \in Runs, Fail(r)
    PROVE  TInv'
<1>1. FillGoes(r, NoRun) /\ tenant' = tenant /\ file' = file /\ links' = links
  BY DEF Fail, FillGoes
<1>2. NoRun \in FillRun BY DEF NoRun, FillRun, Tenants
<1>3. RunOK(NoRun)' BY DEF RunOK, NoRun
<1>4. \A o \in Runs \ {r} : NoRun.wrote \cap fill[o].wrote = {} BY DEF NoRun
<1>5. QED BY <1>1, <1>2, <1>3, <1>4, FileStable, RunStep

\* Steps that touch no run.
LEMMA RunsStable ==
    ASSUME TInv, links' = links, fill' = fill, FillsOnly(links, tenant, tenant'),
           \A e \in Rows : tenant[e] = "null" => tenant'[e] = "null",
           tenant' \in [Rows -> Tenants], Linked(links, tenant'),
           file' \in CheckpointFile, FileOK'
    PROVE  TInv'
<1>1. ASSUME NEW r \in Runs PROVE RunOK(fill[r])'
  <2>1. \A e \in fill[r].wrote : tenant'[e] = "null"
    BY DEF TInv, RunOK, ScanOK, TenantTypeOK, FillRun
  <2>2. QED BY <2>1, RunStable
<1>2. TenantTypeOK' BY DEF TInv, TenantTypeOK
<1>3. LocksOK' BY DEF TInv, LocksOK
<1>4. QED BY <1>1, <1>2, <1>3 DEF TInv

LEMMA NewPassInv == ASSUME TInv, NewPass PROVE TInv'
<1>1. links' = links /\ tenant' = tenant /\ fill' = fill /\ file' = NoFile BY DEF NewPass
<1>2. FileOK' /\ file' \in CheckpointFile BY <1>1 DEF FileOK, NoFile, CheckpointFile
<1>3. QED BY <1>1, <1>2, NoFilling, RunsStable DEF TInv, TenantTypeOK

LEMMA AddRowInv ==
    ASSUME TInv, NEW e \in Rows, NEW n \in Spaces, AddRow(e, n)
    PROVE  TInv' /\ FillsOnly(links, tenant, tenant')
<1>1. /\ links' = links /\ fill' = fill /\ file' = file
      /\ tenant' = [tenant EXCEPT ![e] = n] /\ tenant[e] = "absent"
      /\ links \in Links /\ Whole(links) /\ tenant \in [Rows -> Tenants] /\ Linked(links, tenant)
  BY DEF AddRow, There, TInv, TenantTypeOK
<1>2. tenant' \in [Rows -> Tenants] BY <1>1 DEF Tenants
<1>3. e \in Bindings => tenant'[links.runtimeOf[e]] \in Spaces
  <2> SUFFICES ASSUME e \in Bindings PROVE tenant'[links.runtimeOf[e]] \in Spaces
    OBVIOUS
  <2>1. links.runtimeOf[e] # 0 /\ links.runtimeOf[e] \in Runtimes BY <1>1 DEF Links, Whole
  <2>2. tenant[links.runtimeOf[e]] = n BY <2>1 DEF AddRow, Within
  <2>3. QED BY <1>1, <2>1, <2>2 DEF Rows
<1>4. FillsOnly(links, tenant, tenant')
  <2>1. ASSUME NEW d \in Rows, d # e PROVE tenant'[d] = tenant[d] BY <1>1, <2>1
  <2>2. tenant'[e] = n BY <1>1
  <2>3. Fills(links, tenant, tenant')
    BY <1>1, <1>3, <2>1, <2>2, TenantAssumption DEF Fills
  <2>4. QED BY <1>1, <1>2, <2>3 DEF FillsOnly
<1>5. \A d \in Rows : There(tenant, d) => There(tenant', d)
  BY <1>1, TenantAssumption DEF There
<1>6. Linked(links, tenant')
  <2>1. ASSUME NEW x \in Bindings \cup Traces, There(tenant', x)
        PROVE  /\ links.assetOf[x] # 0 => There(tenant', links.assetOf[x])
               /\ links.runtimeOf[x] # 0 => There(tenant', links.runtimeOf[x])
    <3>1. /\ links.assetOf[x] # 0 => links.assetOf[x] \in Rows
          /\ links.runtimeOf[x] # 0 => links.runtimeOf[x] \in Rows
          /\ x \in Rows
      BY <1>1 DEF Links, Rows
    <3>2. CASE x = e
      <4>1. /\ links.assetOf[x] # 0 => tenant[links.assetOf[x]] = n
            /\ links.runtimeOf[x] # 0 => tenant[links.runtimeOf[x]] = n
        BY <2>1, <3>2 DEF AddRow, Within
      <4>2. QED BY <1>5, <3>1, <4>1, TenantAssumption DEF There
    <3>3. CASE x # e
      <4>1. There(tenant, x) BY <1>1, <2>1, <3>1, <3>3 DEF There
      <4>2. QED BY <1>1, <1>5, <3>1, <4>1 DEF Linked
    <3>4. QED BY <3>2, <3>3
  <2>2. ASSUME NEW x \in Evidence, There(tenant', x), links.traceOf[x] # 0
        PROVE  There(tenant', links.traceOf[x])
    <3>1. links.traceOf[x] \in Rows /\ x \in Rows
      BY <1>1, <2>2 DEF Links, Rows
    <3>2. CASE x = e
      <4>1. tenant[links.traceOf[x]] = n BY <2>2, <3>2 DEF AddRow, Within
      <4>2. QED BY <1>5, <3>1, <4>1, TenantAssumption DEF There
    <3>3. CASE x # e
      <4>1. There(tenant, x) BY <1>1, <2>2, <3>1, <3>3 DEF There
      <4>2. QED BY <1>1, <1>5, <2>2, <3>1, <4>1 DEF Linked
    <3>4. QED BY <3>2, <3>3
  <2>3. QED BY <2>1, <2>2 DEF Linked
<1>7. FileOK' BY <1>1, <1>4, CoveredStable DEF FileOK, TInv
<1>8. \A d \in Rows : tenant[d] = "null" => tenant'[d] = "null" BY <1>1
<1>9. file' \in CheckpointFile BY <1>1 DEF TInv, TenantTypeOK
<1>10. QED BY <1>1, <1>2, <1>4, <1>6, <1>7, <1>8, <1>9, RunsStable

\* One step: the invariant, and the rows change by a filling at most.
LEMMA NextInv ==
    ASSUME TInv, [TenantNext]_tenantVars
    PROVE  TInv' /\ links' = links /\ FillsOnly(links, tenant, tenant')
<1>1. CASE UNCHANGED tenantVars
  BY <1>1, NoFilling, RunsStable, FileStable DEF tenantVars, TInv, TenantTypeOK
<1>2. ASSUME NEW r \in Runs, NEW mode \in {"dry_run", "apply"}, NEW size \in BatchSizes,
             Start(r, mode, size)
      PROVE  TInv' /\ links' = links /\ FillsOnly(links, tenant, tenant')
  BY <1>2, StartInv, NoFilling DEF Start, FillGoes
<1>3. ASSUME NEW r \in Runs, NEW e \in Rows, FillRow(r, e) \/ PassRow(r, e)
      PROVE  TInv' /\ links' = links /\ FillsOnly(links, tenant, tenant')
  <2>1. TInv' BY <1>3, FillRowInv, PassRowInv
  <2>2. links' = links /\ tenant' = tenant BY <1>3 DEF FillRow, PassRow, FillGoes
  <2>3. QED BY <2>1, <2>2, NoFilling
<1>4. ASSUME NEW r \in Runs, EndBatch(r)
      PROVE  TInv' /\ links' = links /\ FillsOnly(links, tenant, tenant')
  <2>1. links' = links BY <1>4 DEF EndBatch, FillGoes
  <2>2. QED BY <1>4, <2>1, EndBatchInv
<1>5. ASSUME NEW r \in Runs, SaveCheckpoint(r) \/ Fail(r)
      PROVE  TInv' /\ links' = links /\ FillsOnly(links, tenant, tenant')
  BY <1>5, SaveInv, FailInv, NoFilling DEF SaveCheckpoint, Fail, FillGoes
<1>6. CASE NewPass
  BY <1>6, NewPassInv, NoFilling DEF NewPass
<1>7. ASSUME NEW e \in Rows, NEW n \in Spaces, AddRow(e, n)
      PROVE  TInv' /\ links' = links /\ FillsOnly(links, tenant, tenant')
  BY <1>7, AddRowInv DEF AddRow
<1>8. QED BY <1>1, <1>2, <1>3, <1>4, <1>5, <1>6, <1>7 DEF TenantNext

\* The variables keep their types, whatever the tables and links.
THEOREM TenantTypes == TenantSpec => []TenantTypeOK
<1>1. TInv => TenantTypeOK BY DEF TInv
<1>2. TInv /\ [TenantNext]_tenantVars => TInv' BY NextInv
<1>3. QED BY TenantInitInv, <1>1, <1>2, PTL DEF TenantSpec

\* A checkpoint of an apply leaves no row behind that has a verdict.
THEOREM CheckpointSafe == TenantSpec => []CheckpointCovers
<1>1. TInv => CheckpointCovers BY DEF TInv, FileOK, Covered, CheckpointCovers
<1>2. TInv /\ [TenantNext]_tenantVars => TInv' BY NextInv
<1>3. QED BY TenantInitInv, <1>1, <1>2, PTL DEF TenantSpec

\* No step of the command or of the application changes a verdict.
THEOREM VerdictsSafe == TenantSpec => VerdictsKeep
<1>1. TInv /\ [TenantNext]_tenantVars =>
        [\A e \in Rows : There(tenant, e) =>
            There(tenant', e) /\ Verdict(links', tenant', e) = Verdict(links, tenant, e)]_tenantVars
  BY NextInv, VerdictStable
<1>2. TInv /\ [TenantNext]_tenantVars => TInv' BY NextInv
<1>3. QED BY TenantInitInv, <1>1, <1>2, PTL DEF TenantSpec, VerdictsKeep
=================================================================================
