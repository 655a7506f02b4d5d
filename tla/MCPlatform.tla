------------------------------- MODULE MCPlatform -------------------------------
(* The parts of the platform that keep their own rows, for TLC, one at a time (focus). *)
EXTENDS SkillStores, RegistryFeed, TenantBackfill, SkillAssessment, SsoLogin, AuthThrottle, NamespaceAccess, SkillClients, TLC

VARIABLE focus

\* Old rows: two assets (1, 2) that may be bound (4, 5) to a runtime (3), a trace (6) and
\* its evidence (7); overlapping runs are checked without the second asset.
OldLinks == [owners    : [Assets -> {{}} \cup {{n} : n \in Spaces}],
             assetOf   : {[x \in Bindings \cup Traces |-> CASE x = 4 -> 1 [] x = 5 -> 2 [] x = 6 -> a] :
                              a \in {0, 1}},
             runtimeOf : {[x \in Bindings \cup Traces |-> 3]},
             traceOf   : {[x \in Evidence |-> 6]}]

OldTenants(e) ==
    IF focus = "fill" THEN CASE e = 2 -> {"null"} \cup Spaces
                             [] e \in {5, 7} -> {"null", "absent"}
                             [] OTHER -> {"null"}
    ELSE IF focus = "fills" /\ e \notin {2, 5, 7} THEN {"null"} ELSE {"absent"}

\* Skill packages: one with a command, and one that is wanting in most other ways.
MCPackages ==
    LET fine == [manifest |-> "whole", dependency |-> "none", shell |-> "none", injection |-> FALSE,
                 exfil |-> FALSE, examples |-> TRUE, prompt |-> "good"]
    IN  {[fine EXCEPT !.shell = "fence", !.prompt = "short"],
         [fine EXCEPT !.manifest = "partial", !.dependency = "unknown", !.shell = "open fence",
                      !.prompt = "none", !.examples = FALSE]}
MCNaming == <<[stem |-> "review", style |-> "dash", topics |-> {"code"}],
              [stem |-> "review", style |-> "plain", topics |-> {}]>>
MCNsSkills == <<1, 1>>
MCCustomRoles == [auditor |-> "namespace", steward |-> "system"]
MCSuppressions == {[rule |-> "BASH_EXEC", file |-> "SKILL.md"]}

MCInit ==
    /\ focus \in {"stores", "feed", "feeds", "fill", "fills", "clinic", "clinics", "sso", "ssos", "throttle", "ns", "nss", "clients"}
    /\ AssessInit /\ SsoInit /\ ThrottleInit /\ NsInit
    /\ ClientInit /\ (focus # "clients" => signedIn = {})
    /\ StoreInit
    /\ FeedInit /\ \A f \in Followers : follower[f].anonymous <=> focus # "feeds"
    /\ links \in OldLinks
    /\ tenant \in {t \in [Rows -> Tenants] : \A e \in Rows : t[e] \in OldTenants(e)}
    /\ TenantInit
    /\ focus \notin {"fill", "fills"} => \A e \in Assets : links.owners[e] = {} /\ links.assetOf[6] = 0

\* Runs that overlap are checked with old rows; events of one request at a time for an
\* anonymous client of two versions, of which one is announced in every way, and those of
\* requests that overlap once for a client that signs in, with one version.
Apart(busy) == \A s, t \in DOMAIN busy : s # t => ~busy[s] \/ ~busy[t]
Feeding == [s \in FeedSlots |-> feedReq'[s].busy]
Filling == [r \in Runs |-> fill'[r].phase # "idle"]
Following ==
    \/ /\ focus = "feed" /\ Apart(Feeding) /\ silent' \subseteq {1}
       /\ \A r \in {release'[2]} \cup {feedReq'[s].new[2] : s \in FeedSlots} : r.status # "rejected" /\ r.share = IF r.status = "absent" THEN "none" ELSE "approved"
    \/ /\ focus = "feeds" /\ \A v \in Releases, s \in FeedSlots : v # 1 => feedReq'[s].new[v] = NoRelease
       /\ \A s \in FeedSlots : feedReq'[s].wrong = {} /\ (feedMixed /\ feedReq'[s].busy => feedReq[s].busy)

\* One evaluation of two skills, of which the second is published and scanned without
\* errors and not while a rule is suppressed, or two evaluations of one, which has the
\* command and is scanned once; versions stay as loaded.
Unloaded == \A e \in Evals : evaluation[e].seen = {} /\ task[e].state # "loaded"
Plain == \A i \in DOMAIN versions'[2] : versions'[2][i].age = 0 /\ versions'[2][i].scan.counts["high"] = 0
Assessing ==
    /\ (versions' # versions \/ suppressed' # suppressed) => Unloaded
    /\ \/ /\ focus = "clinic" /\ evaluation'[2].status = "none" /\ Plain
          /\ asked' # asked => versions'[2] = versions[2]
          /\ suppressed' # {} => versions'[2] = <<>>
       \/ /\ focus = "clinics" /\ versions'[2] = <<>> /\ suppressed' = {} /\ asked' = 0
          /\ evaluation'[2].status # "none" => evaluation'[1].seen # {}
          /\ \A i \in DOMAIN versions'[1] : versions'[1][i].age = 0 /\ versions'[1][i].package.shell = "fence"
          /\ \A i \in DOMAIN versions[1] : versions[1][i].scan.status \in {"passed", "warned", "failed"}
                                            => versions'[1][i].scan = versions[1][i].scan

\* One account with two grants, or two accounts with one, of which requests overlap once.
LoggingIn ==
    \/ /\ focus = "sso" /\ ~loginMixed'
       /\ \A u \in Accounts : account'[u].active \/ ~account'[u].there
       /\ \A s \in LoginSlots : \A u \in DOMAIN loginReq'[s].acc2 :
             loginReq'[s].acc2[u].there => u = 1 /\ loginReq'[s].acc2[u].uid = Generated
       /\ [provider |-> "ldap", group |-> "g", grant |-> 2] \notin mappings'
    \/ /\ focus = "ssos" /\ (loginMixed => \A s \in LoginSlots : loginReq'[s].busy => loginReq[s].busy)
       /\ \A m \in mappings' : m.grant = 1 /\ m.provider = "oidc"
       /\ account'[2].active \/ ~account'[2].there
       /\ \A b \in BindingIds : binding'[b].there => b = 1 /\ binding'[b].grant = 1

\* Roles and bindings of one namespace, or the trash of one namespace and a robot.
Governing ==
    \/ /\ focus = "ns" /\ skillAt' = skillAt /\ quota' = quota /\ robot' = robot /\ nsTime' <= 2
       /\ rolePerms'["auditor"] \in {{}, {"read", "write"}} /\ rolePerms'["steward"] \in {{}, {"read"}, {"iam"}}
       /\ rolePerms'["readonly"] \in {{"read"}, {"read", "write"}}
       /\ \A r \in {"admin", "developer", "enterprise"} : rolePerms'[r] = BuiltIn[r]
       /\ Cardinality(grants') <= 2 /\ \A g \in grants' :
             g.user = 2 /\ <<g.role, g.until>> \in {"readonly", "steward"} \X {Never} \cup {"auditor"} \X {2, Never}
    \/ /\ focus = "nss" /\ grants' = grants /\ rolePerms' = rolePerms /\ member'[<<1, 2>>] = "none"
       /\ \A i \in RobotIds : robot'[i].state # "absent" => robot'[i].level = "developer" /\ robot'[i].until = 2

\* Two versions of a skill, with one tag or two, or one of each skill.
Offering == \A v \in Offers : v > 1 => offer'[v].key \in {<<1, "v1">>, <<1, "v2">>, <<2, "v1">>}
            /\ offer'[1].key = <<1, "v1">> /\ \A c \in Clients : standing'[<<c, 2>>] # "developer"

MCNext ==
    \/ focus = "stores" /\ StoreNext /\ UNCHANGED <<focus, feedVars, tenantVars, assessVars, ssoVars, throttleVars, nsVars, clientVars>>
    \/ focus \in {"clinic", "clinics"} /\ AssessNext /\ Assessing
       /\ UNCHANGED <<focus, storeVars, feedVars, tenantVars, ssoVars, throttleVars, nsVars, clientVars>>
    \/ /\ focus \in {"feed", "feeds"} /\ FeedNext /\ UNCHANGED <<focus, storeVars, tenantVars, assessVars, ssoVars, throttleVars, nsVars, clientVars>>
       /\ Following
    \/ /\ focus \in {"fill", "fills"} /\ TenantNext /\ UNCHANGED <<focus, storeVars, feedVars, assessVars, ssoVars, throttleVars, nsVars, clientVars>>
       /\ (focus = "fill" /\ Apart(Filling)) \/ (focus = "fills" /\ tenant'[2] = "absent")
    \/ focus \in {"sso", "ssos"} /\ SsoNext /\ LoggingIn /\ UNCHANGED <<focus, storeVars, feedVars, tenantVars, assessVars, throttleVars, nsVars, clientVars>>
    \/ focus = "throttle" /\ ThrottleNext
       /\ UNCHANGED <<focus, storeVars, feedVars, tenantVars, assessVars, ssoVars, nsVars, clientVars>>
    \/ focus \in {"ns", "nss"} /\ NsNext /\ Governing
       /\ UNCHANGED <<focus, storeVars, feedVars, tenantVars, assessVars, ssoVars, throttleVars, clientVars>>
    \/ focus = "clients" /\ ClientNext /\ Offering
       /\ UNCHANGED <<focus, storeVars, feedVars, tenantVars, assessVars, ssoVars, throttleVars, nsVars>>

MCSpec == MCInit /\ [][MCNext]_<<focus, storeVars, feedVars, tenantVars, assessVars, ssoVars, throttleVars, nsVars, clientVars>>

\* The requests of all parts are the same set.
MCSymmetry == Permutations(StoreSlots)

PlatformTypesOK ==
    CASE focus = "stores"               -> StoreTypeOK
      [] focus \in {"feed", "feeds"}     -> FeedTypeOK
      [] focus \in {"fill", "fills"}     -> TenantTypeOK
      [] focus \in {"clinic", "clinics"} -> AssessTypeOK
      [] focus \in {"sso", "ssos"}       -> SsoTypeOK
      [] focus \in {"ns", "nss"}         -> NsTypeOK
      [] focus = "clients"              -> ClientTypeOK
      [] focus = "throttle"             -> ThrottleTypeOK
=================================================================================
