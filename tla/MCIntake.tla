-------------------------------- MODULE MCIntake --------------------------------
(* The parts of the control plane that feed it, for TLC, one at a time (focus): report    *)
(* upload, reporters, the asset catalog, the tool server of a runtime, the directory of   *)
(* people.                                                                                *)
EXTENDS ReportIntake, RuntimeReporters, AssetCatalog, RuntimeMcp, OrgDirectory, TLC

VARIABLE focus

MCInit ==
    /\ focus \in {"upload", "reporter", "catalog", "mcp", "mcps", "org", "orgs"}
    /\ UploadInit /\ ReporterInit /\ CatalogInit /\ McpInit /\ OrgInit

\* The tree alone, or requests that overlap once on two units and all the rest.
Organising ==
    \/ /\ focus = "org" /\ ~orgMixed'
       /\ \A s \in OrgSlots : /\ orgReq'[s].aff2 = orgReq'[s].aff /\ orgReq'[s].prof2 = orgReq'[s].prof
                              /\ \A u \in DOMAIN orgReq'[s].unit2 : orgReq'[s].unit2[u].code = NoCode
    \/ /\ focus = "orgs" /\ ~unit'[3].there /\ (orgMixed => \A s \in OrgSlots : orgReq'[s].busy => orgReq[s].busy)
       /\ unit'[2].there => unit'[1].there
       /\ \A s \in OrgSlots, u \in {1, 2} : orgReq'[s].busy => orgReq'[s].unit2[u].name = "x"

\* One server and an automation of each runtime, or two servers and an automation of one.
AutomationOf(a, r) == automation'[a].runtime \in {NoRuntime, r} /\ (r = 0 => automation'[a].status = "none")
                      /\ (r = 12 => ~automation'[a].once)

MCNext ==
    \/ /\ focus = "upload" /\ UploadNext
       /\ UNCHANGED <<focus, reporterVars, catalogVars, mcpVars, orgVars>>
    \/ /\ focus = "reporter" /\ ReporterNext
       /\ UNCHANGED <<focus, uploadVars, catalogVars, mcpVars, orgVars>>
    \/ /\ focus = "catalog" /\ CatalogNext
       /\ catalogMixed' => reports' <= 2       \* three requests in a row, or two at once
       /\ UNCHANGED <<focus, uploadVars, reporterVars, mcpVars, orgVars>>
    \/ /\ focus \in {"mcp", "mcps"} /\ McpNext /\ UNCHANGED <<focus, uploadVars, reporterVars, catalogVars, orgVars>>
       /\ mcpConfig'.runtime # NoRuntime => mcpConfig'.token
       /\ \/ focus = "mcp" /\ mcpCall'[2] = Idle /\ AutomationOf(1, 1) /\ AutomationOf(2, 12)
          \/ /\ focus = "mcps" /\ AutomationOf(1, 1) /\ AutomationOf(2, 0) /\ reporterSkill' = "none"
             /\ mcpConfig'.runtime # 12 /\ \A p \in Servers : mcpCall'[p].runtime # 12
    \/ /\ focus \in {"org", "orgs"} /\ OrgNext /\ Organising
       /\ UNCHANGED <<focus, uploadVars, reporterVars, catalogVars, mcpVars>>

MCSpec == MCInit /\ [][MCNext]_<<focus, uploadVars, reporterVars, catalogVars, mcpVars, orgVars>>

\* "runtime 12" is found where "runtime 1" is looked for.
MCReadsAs == {<<1, 12>>}
MCItem(e, u) == [ext |-> e, hash |-> CHOOSE h \in Hashes : TRUE, user |-> u]
MCPacked == {<<MCItem(e, u)>> : e \in ExternalIds \cup {"none"}, u \in Owners \cup {"none"}}
            \cup {<<MCItem(e, u), MCItem("none", u)>> : e \in ExternalIds, u \in Owners}
MCSlots == Permutations(UploadSlots) \cup Permutations(Packs)

IntakeTypesOK ==
    CASE focus = "upload"              -> UploadTypeOK
      [] focus = "reporter"            -> ReporterTypeOK
      [] focus = "catalog"             -> CatalogTypeOK
      [] focus \in {"mcp", "mcps"}     -> McpTypeOK
      [] focus \in {"org", "orgs"}     -> OrgTypeOK
=================================================================================
