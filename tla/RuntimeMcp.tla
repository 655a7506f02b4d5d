------------------------------- MODULE RuntimeMcp -------------------------------
(* duckdock-runtime-mcp, the tool server on a person's machine: it installs the reporter  *)
(* skill, keeps the configuration file, creates and pauses the automations WorkBuddy runs *)
(* (over WorkBuddy's own bridge, which may be down), and sends reports.  Each client      *)
(* starts a server of its own, which serves one call at a time and may be killed during   *)
(* one; files are written in place.                                                       *)
EXTENDS Naturals, FiniteSets

CONSTANTS
    RuntimeIds,     \* runtimes registered for this machine
    ReadsAs,       \* pairs (r, q): the number q in a name also reads as r at its start
    AutomationIds,  \* bound: automations that may be created
    Servers,        \* tool servers at the same time
    MaxTraces       \* bound: work traces at the platform

NoRuntime == 0

ASSUME McpAssumption == /\ RuntimeIds \subseteq Nat \ {NoRuntime} /\ MaxTraces \in Nat
                        /\ ReadsAs \subseteq RuntimeIds \X RuntimeIds

VARIABLES
    mcpConfig,      \* config.json
    reporterSkill,  \* the skill's directory
    automation,     \* [AutomationIds -> Automation]: what WorkBuddy has
    bridge,         \* whether WorkBuddy's bridge can be called
    mcpCall,        \* [Servers -> McpCall]: the call each server is in
    traces          \* work traces the reports have left at the platform

mcpVars == <<mcpConfig, reporterSkill, automation, bridge, mcpCall, traces>>

McpConfig == [file : {"none", "torn", "whole"}, runtime : {NoRuntime} \cup RuntimeIds, token : BOOLEAN]
NoConfig == [file |-> "none", runtime |-> NoRuntime, token |-> FALSE]

Automation == [status : {"none", "ACTIVE", "PAUSED", "deleted", "done"}, once : BOOLEAN,
               runtime : {NoRuntime} \cup RuntimeIds]

\* todo: automations the call has listed and not dealt with; refused: those WorkBuddy has
\* answered with an error that the call counts as dealt with.
McpCall == [tool : {"idle", "install", "configure", "run", "pause", "uninstall", "files"},
            runtime : {NoRuntime} \cup RuntimeIds, flag : BOOLEAN,
            listed : SUBSET AutomationIds,
            todo : SUBSET AutomationIds, refused : SUBSET AutomationIds]
Idle == [tool |-> "idle", runtime |-> NoRuntime, flag |-> FALSE, listed |-> {}, todo |-> {}, refused |-> {}]

McpTypeOK ==
    /\ mcpConfig \in McpConfig
    /\ reporterSkill \in {"none", "partial", "whole"}
    /\ automation \in [AutomationIds -> Automation]
    /\ bridge \in BOOLEAN
    /\ mcpCall \in [Servers -> McpCall]
    /\ traces \in 0 .. MaxTraces

McpInit ==
    /\ mcpConfig = NoConfig
    /\ reporterSkill = "none"
    /\ automation = [a \in AutomationIds |-> [status |-> "none", once |-> FALSE, runtime |-> NoRuntime]]
    /\ bridge = TRUE
    /\ mcpCall = [p \in Servers |-> Idle]
    /\ traces = 0
-------------------------------------------------------------------------------
Enter(p, call) == mcpCall[p] = Idle /\ mcpCall' = [mcpCall EXCEPT ![p] = call]
Leave(p) == mcpCall' = [mcpCall EXCEPT ![p] = Idle]

\* A file that is half written cannot be read, and the tool answers with an error.
Readable == mcpConfig.file # "torn"

\* _runtime_id_from_config is only asked when the caller names no runtime.
Target(named) == IF named # NoRuntime THEN named ELSE mcpConfig.runtime

\* install_reporter: the old directory goes before the new one is copied.
StartInstall(p, overwrite) ==
    /\ reporterSkill = "none" \/ overwrite
    /\ Enter(p, [Idle EXCEPT !.tool = "install"])
    /\ reporterSkill' = "partial"
    /\ UNCHANGED <<mcpConfig, automation, bridge, traces>>

EndInstall(p) ==
    /\ mcpCall[p].tool = "install"
    /\ reporterSkill' = "whole"
    /\ Leave(p)
    /\ UNCHANGED <<mcpConfig, automation, bridge, traces>>

\* configure_reporter: write_private_json truncates the file and then writes it; if it was
\* removed meanwhile, what is written is lost.
StartConfigure(p, r, token) ==
    /\ Enter(p, [Idle EXCEPT !.tool = "configure", !.runtime = r, !.flag = token])
    /\ mcpConfig' = [NoConfig EXCEPT !.file = "torn"]
    /\ UNCHANGED <<reporterSkill, automation, bridge, traces>>

EndConfigure(p) ==
    /\ mcpCall[p].tool = "configure"
    /\ mcpConfig' = IF mcpConfig.file = "none" THEN NoConfig
                    ELSE [file |-> "whole", runtime |-> mcpCall[p].runtime, token |-> mcpCall[p].flag]
    /\ Leave(p)
    /\ UNCHANGED <<reporterSkill, automation, bridge, traces>>

\* dry_run and schedule: what the call names goes before what is configured.
CreateAutomation(p, a, named, token, once) ==
    /\ mcpCall[p] = Idle
    /\ Readable /\ Target(named) # NoRuntime /\ (token \/ mcpConfig.token) /\ bridge
    /\ automation[a].status = "none"
    /\ automation' = [automation EXCEPT ![a] = [status |-> "ACTIVE", once |-> once, runtime |-> Target(named)]]
    /\ UNCHANGED <<mcpConfig, reporterSkill, bridge, mcpCall, traces>>

\* run_structured: a heartbeat, and then the report; the key of a report is the second it is
\* sent in, so that sending it again leaves another trace.
StartReport(p) ==
    /\ Readable /\ mcpConfig.runtime # NoRuntime /\ mcpConfig.token
    /\ Enter(p, [Idle EXCEPT !.tool = "run"])
    /\ UNCHANGED <<mcpConfig, reporterSkill, automation, bridge, traces>>

SendReport(p) ==
    /\ mcpCall[p].tool = "run" /\ traces < MaxTraces
    /\ traces' = traces + 1
    /\ Leave(p)
    /\ UNCHANGED <<mcpConfig, reporterSkill, automation, bridge>>

\* WorkBuddy runs an automation: its agent calls run_structured, with the configuration
\* that is there by then.
RunAutomation(p, a) ==
    /\ automation[a].status = "ACTIVE"
    /\ automation' = [automation EXCEPT ![a].status = IF automation[a].once THEN "done" ELSE @]
    /\ Enter(p, IF Readable /\ mcpConfig.token THEN [Idle EXCEPT !.tool = "run"] ELSE Idle)
    /\ UNCHANGED <<mcpConfig, reporterSkill, bridge, traces>>

\* _matching_automations: by the name, which the runtime's number is only looked for in;
\* with no runtime every automation of the reporter; none if the bridge is down.
Listed(r) == IF ~bridge THEN {}
             ELSE {a \in AutomationIds : /\ automation[a].status \notin {"none", "deleted"}
                                         /\ \/ r \in {NoRuntime, automation[a].runtime}
                                            \/ <<r, automation[a].runtime>> \in ReadsAs}

StartPause(p, tool, named, delete) ==
    /\ named # NoRuntime \/ Readable
    /\ tool = "pause" => ~delete
    /\ LET found == Listed(Target(named)) IN
       Enter(p, [Idle EXCEPT !.tool = tool, !.runtime = Target(named), !.flag = delete,
                             !.listed = found, !.todo = found])
    /\ UNCHANGED <<mcpConfig, reporterSkill, automation, bridge, traces>>

\* automation_update of one of them; an error in WorkBuddy's answer is not looked at.
Touch(p, a, accepted) ==
    /\ mcpCall[p].tool \in {"pause", "uninstall"} /\ a \in mcpCall[p].todo /\ bridge
    /\ automation' = IF ~accepted \/ automation[a].status = "deleted" THEN automation
                     ELSE [automation EXCEPT ![a].status = IF mcpCall[p].flag THEN "deleted" ELSE "PAUSED"]
    /\ mcpCall' = [mcpCall EXCEPT ![p].todo = @ \ {a}, ![p].refused = IF accepted THEN @ ELSE @ \cup {a}]
    /\ UNCHANGED <<mcpConfig, reporterSkill, bridge, traces>>

\* The bridge cannot be reached: the tool ends with an error, and what it has done stays.
TouchFails(p) ==
    /\ mcpCall[p].tool \in {"pause", "uninstall"} /\ mcpCall[p].todo # {} /\ ~bridge
    /\ Leave(p)
    /\ UNCHANGED <<mcpConfig, reporterSkill, automation, bridge, traces>>

EndPause(p) ==
    /\ mcpCall[p].tool = "pause" /\ mcpCall[p].todo = {}
    /\ Leave(p)
    /\ UNCHANGED <<mcpConfig, reporterSkill, automation, bridge, traces>>

FaultRemoveConfig(p) ==
    /\ mcpCall[p].tool = "uninstall"
    /\ mcpConfig' = NoConfig
    /\ mcpCall' = [mcpCall EXCEPT ![p].tool = "files"]
    /\ UNCHANGED <<reporterSkill, automation, bridge, traces>>

\* uninstall: the configuration goes when the automations have been dealt with, so that
\* an uninstall that did not get that far finds its runtime when it is called again.
RemoveConfig(p) ==
    /\ mcpCall[p].tool = "uninstall" /\ mcpCall[p].todo = {}
    /\ mcpConfig' = NoConfig
    /\ mcpCall' = [mcpCall EXCEPT ![p].tool = "files"]
    /\ UNCHANGED <<reporterSkill, automation, bridge, traces>>

RemoveSkill(p, remove) ==
    /\ mcpCall[p].tool = "files"
    /\ IF remove THEN reporterSkill' = "none" ELSE UNCHANGED reporterSkill
    /\ Leave(p)
    /\ UNCHANGED <<mcpConfig, automation, bridge, traces>>

\* The client closes the server; while it removes files, some of them are left.
Kill(p) ==
    /\ mcpCall[p] # Idle
    /\ Leave(p)
    /\ reporterSkill' \in {reporterSkill} \cup
            (IF mcpCall[p].tool = "files" /\ reporterSkill # "none" THEN {"partial"} ELSE {})
    /\ UNCHANGED <<mcpConfig, automation, bridge, traces>>

Bridge == bridge' = ~bridge /\ UNCHANGED <<mcpConfig, reporterSkill, automation, mcpCall, traces>>

McpNext ==
    \/ \E p \in Servers :
         \/ \E overwrite \in BOOLEAN : StartInstall(p, overwrite)
         \/ \E r \in RuntimeIds, token \in BOOLEAN : StartConfigure(p, r, token)
         \/ \E a \in AutomationIds, named \in {NoRuntime} \cup RuntimeIds, token, once \in BOOLEAN :
              CreateAutomation(p, a, named, token, once)
         \/ \E tool \in {"pause", "uninstall"}, named \in {NoRuntime} \cup RuntimeIds, delete \in BOOLEAN :
              StartPause(p, tool, named, delete)
         \/ \E a \in AutomationIds : RunAutomation(p, a) \/ \E accepted \in BOOLEAN : Touch(p, a, accepted)
         \/ \E remove \in BOOLEAN : RemoveSkill(p, remove)
         \/ EndInstall(p) \/ EndConfigure(p) \/ StartReport(p) \/ SendReport(p)
         \/ TouchFails(p) \/ EndPause(p) \/ RemoveConfig(p) \/ Kill(p)
    \/ Bridge

McpSpec == McpInit /\ [][McpNext]_mcpVars
-------------------------------------------------------------------------------
\* An uninstall takes the configuration away only when none of the automations it found
\* is active any more, but for those WorkBuddy refused to change: whatever other servers
\* do, whenever the bridge or a server goes away.
ConfigGoesLast ==
    [][mcpConfig.file # "none" /\ mcpConfig'.file = "none" =>
         \E p \in Servers :
            /\ mcpCall[p].tool = "uninstall"
            /\ \A a \in mcpCall[p].listed \ mcpCall[p].refused : automation[a].status # "ACTIVE"]_mcpVars
=================================================================================
