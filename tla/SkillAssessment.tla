---------------------------- MODULE SkillAssessment ----------------------------
(* What the platform says about the skills of a namespace: the scanner's findings about  *)
(* each version, the rules that suppress some of them, and the clinic, which a person     *)
(* asks for an evaluation and which a Celery worker computes from the newest versions and *)
(* their scan rows, helped by a language model if one is configured.                      *)
(*                                                                                        *)
(* A package is what the checks tell apart of its files, and a rule finds at most one     *)
(* issue in it.  Scores are whole points (the code's are floats).  How a version gets     *)
(* from its scan to production is SkillRelease.                                           *)
EXTENDS Integers, Sequences, FiniteSets, FiniteSetsExt

CONSTANTS
    Skills,          \* skills of the namespace
    Naming,          \* [Skills -> Name]: their names
    Packages,        \* contents that are published
    Suppressions,    \* (rule, file) pairs that may be suppressed
    DeepIssues,      \* issues the deep scan may report
    Evals,           \* evaluations that may be asked for, oldest first: 1 .. n
    JudgeScores,     \* scores the model gives
    FailsAt,         \* bound: the calls of the model at which it may fail
    MaxVersions,     \* bound: versions of a skill
    MaxAge,          \* bound: age classes a version reaches
    MaxAsked         \* bound: scans asked for by hand

Name == [stem : STRING, style : {"dash", "underscore", "plain"}, topics : SUBSET STRING]
Severities == {"critical", "high", "medium", "low", "info"}

ASSUME AssessmentAssumption ==
    /\ \A s \in Skills : DOMAIN Naming[s] = {"stem", "style", "topics"}
    /\ FailsAt \subseteq 1 .. 8 /\ MaxAge \in 0 .. 3
    /\ MaxVersions \in Nat /\ MaxAsked \in Nat /\ Evals = 1 .. Cardinality(Evals)
    /\ IsFiniteSet(Skills) /\ Skills # {} /\ \A s \in Skills : IsFiniteSet(Naming[s].topics)
    /\ IsFiniteSet(Evals) /\ IsFiniteSet(DeepIssues) /\ JudgeScores \subseteq 0 .. 100

VARIABLES
    versions,     \* [Skills -> Seq(Version)]: skill_versions with their scan_results
    suppressed,   \* scanner_rule_suppressions
    asked,        \* scans asked for by hand
    evaluation,   \* [Evals -> Evaluation]: clinic_evaluations
    task          \* [Evals -> EvalTask]: the Celery message and the worker's session

assessVars == <<versions, suppressed, asked, evaluation, task>>

Dims == <<"skill_completeness", "skill_quality", "skill_coherence", "security_health", "documentation",
          "version_currency", "style_consistency", "interaction_quality">>
DimSet == {Dims[i] : i \in DOMAIN Dims}
Weight == [skill_completeness |-> 15, skill_quality |-> 20, skill_coherence |-> 15, security_health |-> 10,
           documentation |-> 10, version_currency |-> 15, style_consistency |-> 5, interaction_quality |-> 10]

\* shell: where a command stands: in a script, in a fenced block of the documents, in a
\* block that is never closed, or in their prose.
Package == [manifest : {"missing", "bare", "partial", "whole"}, dependency : {"none", "known", "unknown"},
            shell : {"none", "script", "fence", "open fence", "prose"}, injection : BOOLEAN, exfil : BOOLEAN,
            examples : BOOLEAN, prompt : {"none", "short", "good"}]

ScanRow == [status : {"pending", "running", "passed", "warned", "failed"}, counts : [Severities -> Nat]]
NoCounts == [v \in Severities |-> 0]
NewScan == [status |-> "pending", counts |-> NoCounts]

Version == [package : Packages, production : BOOLEAN, scan : ScanRow, age : 0 .. MaxAge]

\* sources: which scores a model has a part in; judged: history, whether a call to it
\* failed; prev: the evaluation the trends compare with; seen: history, the scan rows the
\* evaluation was computed from.
Evaluation == [status : {"none", "pending", "running", "completed", "failed"}, scores : [DimSet -> 0 .. 100],
               sources : SUBSET DimSet, mode : {"none", "llm", "baseline"}, judgeFailed : BOOLEAN,
               prev : {0} \cup Evals, seen : SUBSET ScanRow]
NoEvaluation == [status |-> "none", scores |-> [d \in DimSet |-> 0], sources |-> {}, mode |-> "none",
                 judgeFailed |-> FALSE, prev |-> 0, seen |-> {}]

\* base, rows, prev: what the session has loaded and the scores it has computed from it.
EvalTask == [state : {"none", "lost", "sent", "run", "loaded", "done"}, retries : 0 .. 1,
             base : [DimSet -> 0 .. 100], rows : SUBSET ScanRow, prev : {0} \cup Evals]
NoTask == [state |-> "none", retries |-> 0, base |-> [d \in DimSet |-> 0], rows |-> {}, prev |-> 0]

AssessTypeOK ==
    /\ \A s \in Skills : versions[s] \in Seq(Version) /\ Len(versions[s]) <= MaxVersions
    /\ suppressed \subseteq Suppressions
    /\ asked \in 0 .. MaxAsked
    /\ evaluation \in [Evals -> Evaluation]
    /\ task \in [Evals -> EvalTask]

AssessInit ==
    /\ versions = [s \in Skills |-> <<>>]
    /\ suppressed = {}
    /\ asked = 0
    /\ evaluation = [e \in Evals |-> NoEvaluation]
    /\ task = [e \in Evals |-> NoTask]
-------------------------------------------------------------------------------
(* The scanner. *)

Issue(rule, severity, file) == [rule |-> rule, severity |-> severity, file |-> file]

\* _check_skillmd_compliance: a missing or bare SKILL.md hides what else is wrong with it.
Compliance(p) == CASE p.manifest = "missing" -> {Issue("SKILLMD_MISSING", "high", "SKILL.md")}
                   [] p.manifest = "bare"    -> {Issue("SKILLMD_NO_FRONTMATTER", "medium", "SKILL.md")}
                   [] p.manifest = "partial" -> {Issue("SKILLMD_MISSING_FIELD", "low", "SKILL.md")}
                   [] OTHER -> {}

\* _check_bash_injection: of a document only the fenced blocks that are closed.
Shell(p) == CASE p.shell = "script" -> {Issue("BASH_EXEC", "critical", "run.sh")}
              [] p.shell = "fence"  -> {Issue("BASH_EXEC", "critical", "SKILL.md")}
              [] OTHER -> {}

PromptInjection(p) == IF p.injection THEN {Issue("PI_ROLE_OVERRIDE", "high", "SKILL.md")} ELSE {}
Exfiltration(p) == IF p.exfil THEN {Issue("EXFIL_ENV_ACCESS", "high", "run.sh")} ELSE {}
Dependencies(p) == IF p.manifest \in {"partial", "whole"} /\ p.dependency = "unknown"
                   THEN {Issue("DEP_NOT_FOUND", "medium", "SKILL.md")} ELSE {}

StaticIssues(p) == Compliance(p) \cup Shell(p) \cup PromptInjection(p) \cup Exfiltration(p) \cup Dependencies(p)

\* _find_matching_rule: an issue without a file is suppressed by any pattern of its rule.
Matches(rule, issue) == rule.rule = issue.rule /\ (rule.file = "*" \/ issue.file \in {rule.file, "none"})

Unsuppressed(issues) == {i \in issues : ~\E r \in suppressed : Matches(r, i)}

CountsOf(issues) == [v \in Severities |-> Cardinality({i \in issues : i.severity = v})]

FaultStatusOf(counts) == IF counts["high"] > 0 THEN "failed"
                         ELSE IF counts["critical"] + counts["medium"] > 0 THEN "warned" ELSE "passed"

\* aggregate_issues.
StatusOf(counts) == IF counts["critical"] + counts["high"] > 0 THEN "failed"
                    ELSE IF counts["medium"] > 0 THEN "warned" ELSE "passed"

Publish(s, p) ==
    /\ Len(versions[s]) < MaxVersions
    /\ versions' = [versions EXCEPT ![s] =
            Append(@, [package |-> p, production |-> FALSE, scan |-> NewScan, age |-> 0])]
    /\ UNCHANGED <<suppressed, asked, evaluation, task>>

\* The worker commits the row as running with the counts it had, and takes the version out
\* of production, whatever the row says: a message may be retried or delivered again.
StartScan(s, i) ==
    /\ versions[s][i].scan.status # "running"
    /\ versions' = [versions EXCEPT ![s][i].scan.status = "running", ![s][i].production = FALSE]
    /\ UNCHANGED <<suppressed, asked, evaluation, task>>

\* The verdict; deep is what the model reported, nothing if it was not asked; a sandbox run
\* that fails counts as one more high issue if the policy requires it.  Whether a version
\* that passed is promoted is for the gate.
FinishScan(s, i, deep, sandbox, promoted) ==
    /\ versions[s][i].scan.status = "running"
    /\ LET found  == CountsOf(Unsuppressed(StaticIssues(versions[s][i].package) \cup deep))
           failed == sandbox = "failed" /\ StatusOf(found) # "failed"
           counts == IF failed THEN [found EXCEPT !["high"] = @ + 1] ELSE found
           row    == [status |-> IF failed THEN "failed" ELSE StatusOf(found), counts |-> counts]
       IN  /\ StatusOf(found) = "failed" => sandbox = "passed"
           /\ promoted => row.status # "failed"
           /\ versions' = [versions EXCEPT ![s][i].scan = row, ![s][i].production = promoted]
    /\ UNCHANGED <<suppressed, asked, evaluation, task>>

\* _fail_scan: of the counts only the high ones are set.
ScanFails(s, i) ==
    /\ versions[s][i].scan.status = "running"
    /\ versions' = [versions EXCEPT ![s][i].scan.status = "failed", ![s][i].scan.counts["high"] = 1,
                                    ![s][i].production = FALSE]
    /\ UNCHANGED <<suppressed, asked, evaluation, task>>

\* trigger_scan_endpoint: the row starts afresh, and the version leaves production.
AskScan(s, i) ==
    /\ asked < MaxAsked
    /\ asked' = asked + 1
    /\ versions' = [versions EXCEPT ![s][i].scan = NewScan, ![s][i].production = FALSE]
    /\ UNCHANGED <<suppressed, evaluation, task>>

\* create_scanner_suppression, delete_scanner_suppression: scans that are done keep their counts.
Suppress(r) == r \notin suppressed /\ suppressed' = suppressed \cup {r} /\ UNCHANGED <<versions, asked, evaluation, task>>
Unsuppress(r) == r \in suppressed /\ suppressed' = suppressed \ {r} /\ UNCHANGED <<versions, asked, evaluation, task>>

\* Months pass.
Age(s, i) ==
    /\ versions[s][i].age < MaxAge
    /\ versions' = [versions EXCEPT ![s][i].age = @ + 1]
    /\ UNCHANGED <<suppressed, asked, evaluation, task>>
-------------------------------------------------------------------------------
(* The clinic's heuristics. *)

\* The version an evaluation looks at: the newest in production, else the newest.
Latest(s) == LET prod == {i \in DOMAIN versions[s] : versions[s][i].production}
             IN  versions[s][IF prod # {} THEN Max(prod) ELSE Len(versions[s])]

Published == {s \in Skills : versions[s] # <<>>}
Total == Cardinality(Skills)
Points(f(_), S) == MapThenSumSet(f, S)
Share(part, weight) == (weight * Cardinality(part)) \div Total

Completeness ==
    Share({s \in Published : Latest(s).package.manifest = "whole"}, 35)
    + Share({s \in Published : Latest(s).package.prompt # "none"}, 20)
    + Share({s \in Published : Latest(s).package.examples}, 20)
    + Share({s \in Published : Latest(s).production}, 25)

PromptOf(s) == IF s \in Published THEN Latest(s).package.prompt ELSE "none"
ExamplesOf(s) == s \in Published /\ Latest(s).package.examples

QualityOf(s) ==
    ((CASE PromptOf(s) = "good" -> 88 + 90 + 85 [] OTHER -> 35 + 60 + 50)
     + (IF ExamplesOf(s) THEN 90 ELSE 55)) \div 4
Quality == Points(QualityOf, Skills) \div Total

Coherence ==
    LET topics == UNION {Naming[s].topics : s \in Skills}
        mixed  == \E s, t \in Skills : Naming[s].style = "dash" /\ Naming[t].style = "underscore"
        twins  == Total - Cardinality({Naming[s].stem : s \in Skills})
    IN  (35 * (IF mixed THEN 68 ELSE 95) + 40 * Max({30, 100 - 25 * twins})
         + 25 * Min({100, 50 + 8 * Cardinality(topics)})) \div 100

SeenRows == {Latest(s).scan : s \in Published}
SumCounts(v) == Points(LAMBDA s : Latest(s).scan.counts[v], Published)

\* Coverage of all versions, share of passing scans, and a penalty for what is open.
Security ==
    LET all     == Points(LAMBDA s : Len(versions[s]), Skills)
        scanned == Cardinality(Published)
        passed  == Cardinality({s \in Published : Latest(s).scan.status \in {"passed", "warned"}})
        failed  == Cardinality({s \in Published : Latest(s).scan.status = "failed"})
        penalty == Min({85, 18 * SumCounts("critical") + 8 * SumCounts("high") + 10 * failed})
    IN  Max({0, (35 * scanned) \div Max({all, 1}) + (65 * passed) \div Max({scanned, 1}) - penalty})

DocumentationOf(s) ==
    IF s \notin Published \/ Latest(s).package.manifest = "missing" THEN 35
    ELSE 35 + 20 + 15 + (IF ExamplesOf(s) THEN 20 ELSE 0)
Documentation == Points(DocumentationOf, Skills) \div Total

CurrencyOf(s) == IF s \notin Published THEN 25 ELSE <<100, 82, 60, 28>>[Latest(s).age + 1]
Currency == Points(CurrencyOf, Skills) \div Total

\* Of the prompts there are: the share with headings, and how far their lengths differ.
Style ==
    LET with == {s \in Published : Latest(s).package.prompt # "none"}
        good == {s \in with : Latest(s).package.prompt = "good"}
    IN  IF with = {} THEN 50
        ELSE (50 * Cardinality(good)) \div Cardinality(with) + (IF good \in {{}, with} THEN 50 ELSE 31)

InteractionOf(s) == 45 + (CASE PromptOf(s) = "good" -> 50 [] PromptOf(s) = "short" -> 15 [] OTHER -> 0)
Interaction == Points(InteractionOf, Skills) \div Total

Baseline ==
    [skill_completeness |-> Completeness, skill_quality |-> Quality, skill_coherence |-> Coherence,
     security_health |-> Security, documentation |-> Documentation, version_currency |-> Currency,
     style_consistency |-> Style, interaction_quality |-> Interaction]
-------------------------------------------------------------------------------
(* The evaluation. *)

Done(e) == evaluation[e].status = "completed"

\* trigger_evaluation commits the row and sends the message: the process may end between.
Trigger(e, sent) ==
    /\ evaluation[e].status = "none" /\ \A f \in Evals : f < e => evaluation[f].status # "none"
    /\ evaluation' = [evaluation EXCEPT ![e].status = "pending"]
    /\ task' = [task EXCEPT ![e].state = IF sent THEN "sent" ELSE "lost"]
    /\ UNCHANGED <<versions, suppressed, asked>>

\* _async_evaluate marks the row running whatever its status is.
StartEvaluation(e) ==
    /\ task[e].state = "sent"
    /\ evaluation' = [evaluation EXCEPT ![e].status = "running"]
    /\ task' = [task EXCEPT ![e].state = "run"]
    /\ UNCHANGED <<versions, suppressed, asked>>

\* The newest other evaluation, by the time it was asked for.
Previous(e) == LET others == {f \in Evals \ {e} : Done(f)}
               IN  IF others = {} THEN 0 ELSE Max(others)

\* A snapshot of skills, versions, scan rows and the previous evaluation.
LoadSkills(e) ==
    /\ task[e].state = "run"
    /\ task' = [task EXCEPT ![e].state = "loaded", ![e].base = Baseline, ![e].rows = SeenRows,
                            ![e].prev = Previous(e)]
    /\ UNCHANGED <<versions, suppressed, asked, evaluation>>

\* _blend_with_llm of every dimension in order: after the first call that fails the model
\* is not asked again.  asks: how many calls are made; failed: whether the last one failed;
\* blank: the dimensions it has nothing to say about.
AssistedScores(asks, failed, blank) == {Dims[i] : i \in 1 .. (IF failed THEN asks - 1 ELSE asks)} \ blank
Blended(base, judge) == (45 * base + 55 * judge) \div 100
\* _ai_assist_indicator: the model is still in use at the end, and had a part in a score.
Mode(sources, failed) == IF ~failed /\ sources # {} THEN "llm" ELSE "baseline"

FinishEvaluation(e, asks, failed, blank, judge) ==
    LET sources == AssistedScores(asks, failed, blank) IN
    /\ task[e].state = "loaded"
    /\ IF failed THEN asks \in FailsAt ELSE asks \in {0, 8} /\ (asks = 0 => blank = {})
    /\ evaluation' = [evaluation EXCEPT ![e] =
            [status |-> "completed", sources |-> sources, mode |-> Mode(sources, failed),
             scores |-> [d \in DimSet |-> IF d \in sources THEN Blended(task[e].base[d], judge)
                                                           ELSE task[e].base[d]],
             judgeFailed |-> failed, prev |-> task[e].prev, seen |-> task[e].rows]]
    /\ task' = [task EXCEPT ![e] = [NoTask EXCEPT !.state = "done", !.retries = task[e].retries]]
    /\ UNCHANGED <<versions, suppressed, asked>>

\* An error (the namespace is gone, a file cannot be read): failed, and tried once more.
FailEvaluation(e) ==
    /\ task[e].state \in {"run", "loaded"}
    /\ evaluation' = [evaluation EXCEPT ![e].status = "failed"]
    /\ task' = [task EXCEPT ![e] = IF task[e].retries = 0
                                   THEN [NoTask EXCEPT !.state = "sent", !.retries = 1]
                                   ELSE [NoTask EXCEPT !.state = "done", !.retries = 1]]
    /\ UNCHANGED <<versions, suppressed, asked>>

\* The worker dies, perhaps after the commit: the message is delivered again.
RedeliverEvaluation(e) ==
    /\ task[e].state \in {"run", "loaded", "done"}
    /\ task' = [task EXCEPT ![e] = [NoTask EXCEPT !.state = "sent", !.retries = task[e].retries]]
    /\ UNCHANGED <<versions, suppressed, asked, evaluation>>

\* The grade is given for the weighted score.
Overall(scores) == MapThenSumSet(LAMBDA d : Weight[d] * scores[d], DimSet) \div 100
Grade(score) == CASE score >= 90 -> "A" [] score >= 80 -> "B+" [] score >= 70 -> "B"
                  [] score >= 60 -> "C+" [] score >= 50 -> "C" [] OTHER -> "D"

AssessNext ==
    \/ \E s \in Skills :
         \/ \E p \in Packages : Publish(s, p)
         \/ \E i \in DOMAIN versions[s] :
              \/ StartScan(s, i) \/ ScanFails(s, i) \/ AskScan(s, i) \/ Age(s, i)
              \/ \E deep \in SUBSET DeepIssues, sandbox \in {"passed", "failed"}, promoted \in BOOLEAN :
                      FinishScan(s, i, deep, sandbox, promoted)
    \/ \E r \in Suppressions : Suppress(r) \/ Unsuppress(r)
    \/ \E e \in Evals :
         \/ \E sent \in BOOLEAN : Trigger(e, sent)
         \/ StartEvaluation(e) \/ LoadSkills(e) \/ FailEvaluation(e) \/ RedeliverEvaluation(e)
         \/ \E asks \in FailsAt \cup {0, 8}, failed \in BOOLEAN, judge \in JudgeScores,
               blank \in {{}, {"security_health"}} : FinishEvaluation(e, asks, failed, blank, judge)

AssessSpec == AssessInit /\ [][AssessNext]_assessVars
-------------------------------------------------------------------------------
\* A critical finding keeps the security score that the heuristics give below the one that
\* needs no recommendation, whatever is scanned, suppressed, scanned again and published in
\* the meantime; while a scan is in progress its row says neither passed nor failed.
Critical(rows) == \E r \in rows : r.counts["critical"] > 0
InProgress(rows) == \E r \in rows : r.status \in {"pending", "running"}
Strong == 80

CriticalHolds ==
    \A e \in Evals : evaluation[e].status = "completed" =>
        LET v == evaluation[e] IN
        Critical(v.seen) /\ ~InProgress(v.seen) /\ "security_health" \notin v.sources
            => v.scores["security_health"] < Strong
=================================================================================
