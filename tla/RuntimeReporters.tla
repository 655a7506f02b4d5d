---------------------------- MODULE RuntimeReporters ----------------------------
(*******************************************************************************)
(* Runtimes and the credentials of the reporters that speak for them           *)
(* (endpoints/control_plane.py, services/report_upload_service.py): enrolment, *)
(* heartbeats, rotation and revocation of reporter credentials, the older      *)
(* report tokens of a runtime, and the runtime's own row.                      *)
(*                                                                             *)
(* Requests are transactions of two steps (see UnitOfWork).                    *)
(*******************************************************************************)
EXTENDS Naturals, FiniteSets, UnitOfWork

CONSTANTS
    Runtimes,       \* runtime_instances rows that may be created
    Reporters,      \* reporter_credentials rows, in the order of creation
    ReportTokens,   \* runtime_report_tokens rows
    Devices,        \* pairs of a user and a device
    ReporterSlots,  \* requests served at the same time
    MaxReporterCalls  \* bound: requests served

ASSUME ReporterAssumption == /\ Reporters \subseteq Nat /\ MaxReporterCalls \in Nat
                             /\ "none" \notin Runtimes \cup Devices

VARIABLES
    runtime,        \* [Runtimes -> RuntimeRow]
    reporter,       \* [Reporters -> ReporterRow]
    token,          \* [ReportTokens -> TokenRow]
    reporterReq,    \* [ReporterSlots -> ReporterRequest]
    reporterCalls,  \* requests served so far
    reporterMixed   \* history: whether two requests were ever served at once

reporterVars == <<runtime, reporter, token, reporterReq, reporterCalls, reporterMixed>>
-------------------------------------------------------------------------------
\* ref says where the runtime's own credential is: an outside reference or a record
\* of the credential store, which is replaced in place from then on.
RuntimeRow  == [status : {"absent", "active", "degraded", "disabled"}, ref : {"none", "outside", "record"}]
ReporterRow == [state : {"absent", "active", "revoked"}, runtime : Runtimes \cup {"none"},
                device : Devices \cup {"none"}, seen : BOOLEAN]
TokenRow    == [state : {"absent", "active", "revoked"}, runtime : Runtimes \cup {"none"}]

NoRuntimeRow  == [status |-> "absent", ref |-> "none"]
NoReporter == [state |-> "absent", runtime |-> "none", device |-> "none", seen |-> FALSE]
NoToken    == [state |-> "absent", runtime |-> "none"]

ReporterDb == [rt : [Runtimes -> RuntimeRow], rep : [Reporters -> ReporterRow],
               tok : [ReportTokens -> TokenRow]]
ReporterRequest == [busy : BOOLEAN, snap : ReporterDb, new : ReporterDb]

NoReporterDb == [rt |-> [r \in Runtimes |-> NoRuntimeRow], rep |-> [c \in Reporters |-> NoReporter],
                 tok |-> [k \in ReportTokens |-> NoToken]]
NoReporterRequest == [busy |-> FALSE, snap |-> NoReporterDb, new |-> NoReporterDb]

ReporterTypeOK ==
    /\ runtime \in [Runtimes -> RuntimeRow]
    /\ reporter \in [Reporters -> ReporterRow]
    /\ token \in [ReportTokens -> TokenRow]
    /\ reporterReq \in [ReporterSlots -> ReporterRequest]
    /\ reporterCalls \in 0 .. MaxReporterCalls
    /\ reporterMixed \in BOOLEAN

ReporterInit ==
    /\ runtime = NoReporterDb.rt
    /\ reporter = NoReporterDb.rep
    /\ token = NoReporterDb.tok
    /\ reporterReq = [s \in ReporterSlots |-> NoReporterRequest]
    /\ reporterCalls = 0
    /\ reporterMixed = FALSE
-------------------------------------------------------------------------------
ReporterRows == [rt |-> runtime, rep |-> reporter, tok |-> token]

ServeReporter(s, new) ==
    /\ ~reporterReq[s].busy /\ reporterCalls < MaxReporterCalls
    /\ reporterCalls' = reporterCalls + 1
    /\ reporterReq' = [reporterReq EXCEPT ![s] = [busy |-> TRUE, snap |-> ReporterRows, new |-> new]]
    /\ reporterMixed' = (reporterMixed \/ \E t \in ReporterSlots : reporterReq[t].busy)
    /\ UNCHANGED <<runtime, reporter, token>>

\* Ids not taken by a row or by another open transaction, lowest first.
NextReporter ==
    {c \in Reporters : \A d \in Reporters : d >= c =>
        /\ reporter[d].state = "absent"
        /\ \A s \in ReporterSlots : reporterReq[s].new.rep[d].state = "absent"}
NextReporterId == {c \in NextReporter : \A d \in NextReporter : c <= d}
NextRuntime == {r \in Runtimes : /\ runtime[r].status = "absent"
                                 /\ \A s \in ReporterSlots : reporterReq[s].new.rt[r].status = "absent"}
NextToken == {k \in ReportTokens : /\ token[k].state = "absent"
                                   /\ \A s \in ReporterSlots : reporterReq[s].new.tok[k].state = "absent"}

FreshReporter(r, d) == [state |-> "active", runtime |-> r, device |-> d, seen |-> FALSE]

\* A runtime of its own for every enrolment, also of a device that has one already.
Enroll(s) ==
    \E r \in NextRuntime, c \in NextReporterId, d \in Devices :
        ServeReporter(s, [ReporterRows EXCEPT !.rt[r].status = "active", !.rep[c] = FreshReporter(r, d)])

\* authenticate_runtime_report_token: reporter credentials first, then the older tokens.
\* The status of the runtime is not asked for, and a heartbeat sets it.
Authentic(r) == \/ \E c \in Reporters : reporter[c].state = "active" /\ reporter[c].runtime = r
                \/ \E k \in ReportTokens : token[k].state = "active" /\ token[k].runtime = r

Heartbeat(s) ==
    \E r \in Runtimes, st \in {"active", "degraded"} :
        \/ \E c \in Reporters :
             /\ reporter[c].state = "active" /\ reporter[c].runtime = r
             /\ ServeReporter(s, [ReporterRows EXCEPT !.rt[r].status = st, !.rep[c].seen = TRUE])
        \/ /\ Authentic(r)
           /\ \A c \in Reporters : ~(reporter[c].state = "active" /\ reporter[c].runtime = r)
           /\ ServeReporter(s, [ReporterRows EXCEPT !.rt[r].status = st])

\* A fault: gives up the rotated credential only.
FaultSuperseded(c) == {c}

\* rotate_reporter_credential, of a revoked credential as well: the old one and every
\* other active one of the same runtime, user and device give way to a new one.
Superseded(c) == {c} \cup {d \in Reporters : /\ reporter[d].state = "active"
                                             /\ reporter[d].runtime = reporter[c].runtime
                                             /\ reporter[d].device = reporter[c].device}

Rotate(s) ==
    \E c \in Reporters, n \in NextReporterId :
        /\ reporter[c].state # "absent"
        /\ ServeReporter(s, [ReporterRows EXCEPT !.rep =
                [d \in Reporters |->
                    IF d = n THEN FreshReporter(reporter[c].runtime, reporter[c].device)
                    ELSE IF d \in Superseded(c) THEN [reporter[d] EXCEPT !.state = "revoked"]
                    ELSE reporter[d]]])

Revoke(s) ==
    \E c \in Reporters :
        /\ reporter[c].state # "absent"
        /\ ServeReporter(s, [ReporterRows EXCEPT !.rep[c].state = "revoked"])

CreateToken(s) ==
    \E r \in Runtimes, k \in NextToken :
        /\ runtime[r].status # "absent"
        /\ ServeReporter(s, [ReporterRows EXCEPT !.tok[k] = [state |-> "active", runtime |-> r]])

RevokeToken(s) ==
    \E k \in ReportTokens :
        /\ token[k].state # "absent"
        /\ ServeReporter(s, [ReporterRows EXCEPT !.tok[k].state = "revoked"])

\* create_runtime and update_runtime: a credential given in clear goes to the credential
\* store; the record a runtime already has is overwritten, otherwise one is added.
CreateRuntime(s) ==
    \E r \in NextRuntime, ref \in {"none", "outside", "record"} :
        ServeReporter(s, [ReporterRows EXCEPT !.rt[r] = [status |-> "active", ref |-> ref]])

UpdateRuntime(s) ==
    \E r \in Runtimes, row \in RuntimeRow :
        /\ "absent" \notin {runtime[r].status, row.status}
        /\ ServeReporter(s, [ReporterRows EXCEPT !.rt[r] = row])

CommitReporter(s) ==
    LET q == reporterReq[s] IN
    /\ q.busy
    /\ runtime' = FlushRows(runtime, q.snap.rt, q.new.rt)
    /\ reporter' = FlushRows(reporter, q.snap.rep, q.new.rep)
    /\ token' = FlushRows(token, q.snap.tok, q.new.tok)
    /\ reporterReq' = [reporterReq EXCEPT ![s] = NoReporterRequest]
    /\ UNCHANGED <<reporterCalls, reporterMixed>>

ReporterNext == \E s \in ReporterSlots :
    \/ Enroll(s) \/ Heartbeat(s) \/ Rotate(s) \/ Revoke(s) \/ CreateToken(s) \/ RevokeToken(s)
    \/ CreateRuntime(s) \/ UpdateRuntime(s) \/ CommitReporter(s)

ReporterSpec == ReporterInit /\ [][ReporterNext]_reporterVars
-------------------------------------------------------------------------------
\* After a rotation the device has one credential, whichever of its credentials, active,
\* superseded or revoked, was rotated: unless requests overlapped, no runtime has two
\* active credentials of one device.
OneCredentialPerDevice ==
    ~reporterMixed => \A c, d \in Reporters :
        /\ reporter[c].state = "active" /\ reporter[d].state = "active"
        /\ reporter[c].runtime = reporter[d].runtime /\ reporter[c].device = reporter[d].device
        => c = d
=================================================================================
