----------------------------- MODULE NamespaceAccess -----------------------------
(* Namespaces, who may do what in them, and the trash: memberships, role bindings and the *)
(* permissions of roles (iam_service.py, deps.py), robots, and the deletion and restore   *)
(* of namespaces and of their skills (endpoints/namespaces.py, skills.py, clawhub.py).    *)
(* A handler is one step; each writes rows of its own, the two deletions excepted         *)
(* (README, departures).                                                                  *)
EXTENDS Integers, FiniteSets

CONSTANTS
    NsIds, NsUsers,
    SysAdmins,         \* users whose system role is admin
    NsSkills,          \* [names -> NsIds]
    CustomRoles,       \* [roles made by administrators -> "system" or "namespace"]
    RobotIds,          \* bound: robot accounts
    MaxNsTime          \* bound: seconds

Everywhere == 0
Never == MaxNsTime + 1
ASSUME NamespaceAssumption == /\ NsIds \subseteq Nat \ {Everywhere} /\ SysAdmins \subseteq NsUsers
                              /\ NsSkills \in [DOMAIN NsSkills -> NsIds]
                              /\ DOMAIN CustomRoles \cap {"admin", "developer", "readonly", "enterprise"} = {}
                              /\ IsFiniteSet(DOMAIN NsSkills) /\ MaxNsTime \in Nat \ {0}

VARIABLES
    spaceAt,     \* [NsIds -> Stamp]: deleted_at
    skillAt,     \* [skills -> Stamp]
    quota,       \* [NsIds -> Nat]: max_skills
    member,      \* [NsIds \X NsUsers -> MaybeLevel]
    rolePerms,   \* [Roles -> SUBSET Keys]
    grants,      \* rows of role_bindings
    robot,       \* [RobotIds -> Robot]
    nsTime,
    onItsOwn     \* history: skills in the trash that were deleted on their own

nsVars == <<spaceAt, skillAt, quota, member, rolePerms, grants, robot, nsTime, onItsOwn>>

\* deleted_at is kept in whole seconds.
Absent == -1
Live == 0
Stamp == {Absent, Live} \cup 1 .. MaxNsTime

Levels == {"admin", "developer", "readonly"}
MaybeLevel == Levels \cup {"none"}

\* The permissions that differ in who has them.
Keys == {"iam", "read", "write", "admin", "integrations"}
LevelKeys == [admin |-> Keys \ {"iam"}, developer |-> {"read", "write"}, readonly |-> {"read"}]
BuiltIn == [r \in Levels \cup {"enterprise"} |-> IF r \in Levels THEN LevelKeys[r] ELSE {"iam"}]
Roles == DOMAIN BuiltIn \cup DOMAIN CustomRoles
ScopeOf(r) == IF r \in DOMAIN CustomRoles THEN CustomRoles[r] ELSE IF r \in Levels THEN "namespace" ELSE "system"

Grant == [user : NsUsers, role : Roles, space : {Everywhere} \cup NsIds, until : 0 .. Never]
Robot == [space : {Everywhere} \cup NsIds, level : MaybeLevel, state : {"absent", "active", "disabled"},
          until : 0 .. Never]
NoRobot == [space |-> Everywhere, level |-> "none", state |-> "absent", until |-> 0]

NsTypeOK ==
    /\ spaceAt \in [NsIds -> Stamp] /\ skillAt \in [DOMAIN NsSkills -> Stamp]
    /\ quota \in [NsIds -> Nat]
    /\ member \in [NsIds \X NsUsers -> MaybeLevel]
    /\ rolePerms \in [Roles -> SUBSET Keys] /\ grants \subseteq Grant
    /\ robot \in [RobotIds -> Robot]
    /\ nsTime \in 1 .. MaxNsTime /\ onItsOwn \subseteq DOMAIN NsSkills

NsInit ==
    /\ spaceAt = [n \in NsIds |-> Absent] /\ skillAt = [k \in DOMAIN NsSkills |-> Absent]
    /\ quota = [n \in NsIds |-> Cardinality(DOMAIN NsSkills)]
    /\ member = [e \in NsIds \X NsUsers |-> "none"]
    /\ rolePerms = [r \in Roles |-> IF r \in DOMAIN BuiltIn THEN BuiltIn[r] ELSE {}]
    /\ grants = {} /\ robot = [i \in RobotIds |-> NoRobot]
    /\ nsTime = 1 /\ onItsOwn = {}
-------------------------------------------------------------------------------
(* Access *)

\* ensure_builtin_rbac: the built-in roles get back the permissions of the program.
Ensured == [r \in Roles |-> IF r \in DOMAIN BuiltIn THEN BuiltIn[r] ELSE rolePerms[r]]

Valid(g) == g.until > nsTime
\* The strongest of what some permissions are good for.
LevelOf(keys) == CASE "admin" \in keys -> "admin"
                   [] "admin" \notin keys /\ "write" \in keys -> "developer"
                   [] keys \cap {"admin", "write"} = {} /\ "read" \in keys -> "readonly"
                   [] OTHER -> "none"

\* effective_permissions, for a namespace or Everywhere.
Effective(u, n) ==
    IF u \in SysAdmins THEN Keys
    ELSE UNION {Ensured[g.role] : g \in {h \in grants : h.user = u /\ Valid(h) /\ h.space \in {Everywhere, n}}}
         \cup IF n # Everywhere /\ member[<<n, u>>] # "none" THEN LevelKeys[member[<<n, u>>]] ELSE {}

\* require_namespace_member: a membership counts before any role.
OpensAs(u, n) == IF member[<<n, u>>] # "none" THEN member[<<n, u>>] ELSE LevelOf(Effective(u, n))

\* namespace_access_map: bindings for namespaces, with the permissions roles have now.
FaultValidFor(u, n) == {g \in grants : g.user = u /\ g.space = n}
ValidFor(u, n) == {g \in grants : g.user = u /\ g.space = n /\ Valid(g)}
MapKeys(u, n) == IF u \in SysAdmins THEN {} ELSE UNION {rolePerms[g.role] : g \in ValidFor(u, n)}

\* What list_namespaces and ClawHub show of a namespace: the stronger of the two.
ShownAs(u, n) == LevelOf(MapKeys(u, n) \cup IF member[<<n, u>>] # "none" THEN LevelKeys[member[<<n, u>>]] ELSE {})

\* Who asks has been checked: built-in roles are put right where roles were looked at.
Looked(u, n) == rolePerms' = IF member[<<n, u>>] # "none" THEN rolePerms ELSE Ensured
As(u, n, levels) == OpensAs(u, n) \in levels /\ Looked(u, n)

\* require_namespace_integrations_manager
Manages(u, n) ==
    \/ member[<<n, u>>] = "admin" /\ UNCHANGED rolePerms
    \/ member[<<n, u>>] # "admin" /\ "integrations" \in Effective(u, n) /\ rolePerms' = Ensured

ManagesIam(u) == u \in SysAdmins \/ "iam" \in Effective(u, Everywhere)
-------------------------------------------------------------------------------
(* Namespaces *)
OpenNamespace(u, n) ==
    /\ spaceAt[n] = Live /\ As(u, n, Levels) /\ rolePerms' # rolePerms
    /\ UNCHANGED <<spaceAt, skillAt, quota, member, grants, robot, nsTime, onItsOwn>>

CreateNamespace(u, n) ==
    /\ spaceAt[n] = Absent
    /\ spaceAt' = [spaceAt EXCEPT ![n] = Live]
    /\ member' = [member EXCEPT ![<<n, u>>] = "admin"]
    /\ UNCHANGED <<skillAt, quota, rolePerms, grants, robot, nsTime, onItsOwn>>

AddMember(u, n, v, l) ==
    /\ spaceAt[n] = Live /\ As(u, n, {"admin"})
    /\ member[<<n, v>>] = "none"
    /\ member' = [member EXCEPT ![<<n, v>>] = l]
    /\ UNCHANGED <<spaceAt, skillAt, quota, grants, robot, nsTime, onItsOwn>>

SkillsWith(n, at) == {k \in DOMAIN NsSkills : NsSkills[k] = n /\ skillAt[k] = at}

\* delete_namespace: its skills go with it, with its stamp; those in the trash keep theirs.
DeleteNamespace(u, n) ==
    /\ spaceAt[n] = Live /\ As(u, n, {"admin"})
    /\ spaceAt' = [spaceAt EXCEPT ![n] = nsTime]
    /\ skillAt' = [k \in DOMAIN NsSkills |-> IF k \in SkillsWith(n, Live) THEN nsTime ELSE skillAt[k]]
    /\ onItsOwn' = onItsOwn \ SkillsWith(n, nsTime)   \* the stamps of this second are alike
    /\ UNCHANGED <<quota, member, grants, robot, nsTime>>

FaultRevived(n) == {k \in DOMAIN NsSkills : NsSkills[k] = n /\ skillAt[k] # Absent}
Revived(n) == SkillsWith(n, spaceAt[n])

\* restore_namespace
RestoreNamespace(u, n) ==
    /\ spaceAt[n] \notin {Absent, Live} /\ As(u, n, {"admin"})
    /\ spaceAt' = [spaceAt EXCEPT ![n] = Live]
    /\ skillAt' = [k \in DOMAIN NsSkills |-> IF k \in Revived(n) THEN Live ELSE skillAt[k]]
    /\ UNCHANGED <<quota, member, grants, robot, nsTime, onItsOwn>>

\* update_quota: also below what there is.
SetQuota(u, n, q) ==
    /\ spaceAt[n] = Live /\ Manages(u, n) /\ q # quota[n]
    /\ quota' = [quota EXCEPT ![n] = q]
    /\ UNCHANGED <<spaceAt, skillAt, member, grants, robot, nsTime, onItsOwn>>
-------------------------------------------------------------------------------
(* Skills of a live namespace, by those who may write in it *)
Writing(u, k) == spaceAt[NsSkills[k]] = Live /\ As(u, NsSkills[k], {"admin", "developer"})
Restamp(k, at) == skillAt' = [skillAt EXCEPT ![k] = at]
                  /\ UNCHANGED <<spaceAt, quota, member, grants, robot, nsTime>>

CreateNsSkill(u, k) ==
    /\ skillAt[k] = Absent /\ Writing(u, k)
    /\ Cardinality(SkillsWith(NsSkills[k], Live)) < quota[NsSkills[k]]
    /\ Restamp(k, Live) /\ UNCHANGED onItsOwn

DeleteNsSkill(u, k) ==
    /\ skillAt[k] = Live /\ Writing(u, k)
    /\ Restamp(k, nsTime) /\ onItsOwn' = onItsOwn \cup {k}

\* restore_skill counts no quota.  ClawHub's goes by what it shows of the namespace.
RestoreNsSkill(u, k) ==
    /\ skillAt[k] \notin {Absent, Live}
    /\ \/ Writing(u, k)
       \/ /\ spaceAt[NsSkills[k]] = Live /\ ShownAs(u, NsSkills[k]) \in {"admin", "developer"}
          /\ UNCHANGED rolePerms
    /\ Restamp(k, Live) /\ onItsOwn' = onItsOwn \ {k}

PurgeNsSkill(u, k) ==
    /\ skillAt[k] \notin {Absent, Live} /\ Writing(u, k)
    /\ Restamp(k, Absent) /\ onItsOwn' = onItsOwn \ {k}
-------------------------------------------------------------------------------
(* Robots.  One writes in its namespace, but has no user id to delete with. *)
RobotWrites(i, k) == /\ robot[i].state = "active" /\ robot[i].until >= nsTime
                     /\ robot[i].space = NsSkills[k] /\ robot[i].level \in {"admin", "developer"}
                     /\ spaceAt[NsSkills[k]] = Live

RobotRestores(i, k) ==
    /\ RobotWrites(i, k) /\ skillAt[k] \notin {Absent, Live}
    /\ \E at \in {Live, Absent} : Restamp(k, at)
    /\ onItsOwn' = onItsOwn \ {k} /\ UNCHANGED rolePerms

SetRobot(u, i, r) ==
    /\ robot' = [robot EXCEPT ![i] = r] /\ robot'[i] # robot[i]
    /\ LET n == IF r = NoRobot THEN robot[i].space ELSE r.space
       IN  spaceAt[n] = Live /\ Manages(u, n)
    /\ UNCHANGED <<spaceAt, skillAt, quota, member, grants, nsTime, onItsOwn>>

CreateRobot(u, i, n, l, until) ==
    robot[i].state = "absent" /\ SetRobot(u, i, [space |-> n, level |-> l, state |-> "active", until |-> until])
DisableRobot(u, i) == robot[i].state # "absent" /\ SetRobot(u, i, [robot[i] EXCEPT !.state = "disabled"])
DeleteRobot(u, i) == robot[i].state # "absent" /\ SetRobot(u, i, NoRobot)
-------------------------------------------------------------------------------
(* Roles: requests of those who manage them *)
IamOnly == UNCHANGED <<spaceAt, skillAt, quota, member, robot, nsTime, onItsOwn>>

\* update_role_permissions; what is done to a built-in role lasts until somebody looks.
SetRolePermissions(r, keys) ==
    /\ rolePerms' = [Ensured EXCEPT ![r] = keys]
    /\ IamOnly /\ UNCHANGED grants

\* create_binding: also for a namespace in the trash, and with an end in the past.
BindRole(g) ==
    /\ (g.space = Everywhere) = (ScopeOf(g.role) = "system")
    /\ g.space # Everywhere => spaceAt[g.space] # Absent
    /\ grants' = grants \cup {g} /\ rolePerms' = Ensured
    /\ IamOnly

UnbindRole(u, g) ==
    /\ grants' = grants \ {g} /\ rolePerms' = IF u \in SysAdmins THEN rolePerms ELSE Ensured
    /\ IamOnly

NsTick ==
    /\ nsTime < MaxNsTime
    /\ nsTime' = nsTime + 1
    /\ UNCHANGED <<spaceAt, skillAt, quota, member, rolePerms, grants, robot, onItsOwn>>

NsNext ==
    \/ \E u \in NsUsers :
         \/ \E n \in NsIds :
              \/ OpenNamespace(u, n) \/ CreateNamespace(u, n) \/ DeleteNamespace(u, n) \/ RestoreNamespace(u, n)
              \/ \E v \in NsUsers, l \in Levels : AddMember(u, n, v, l)
              \/ \E q \in 0 .. Cardinality(DOMAIN NsSkills) : SetQuota(u, n, q)
              \/ \E i \in RobotIds, l \in Levels, until \in 1 .. Never : CreateRobot(u, i, n, l, until)
         \/ \E i \in RobotIds : DisableRobot(u, i) \/ DeleteRobot(u, i)
         \/ \E k \in DOMAIN NsSkills :
              CreateNsSkill(u, k) \/ DeleteNsSkill(u, k) \/ RestoreNsSkill(u, k) \/ PurgeNsSkill(u, k)
         \/ /\ ManagesIam(u)
            /\ \/ \E r \in Roles, keys \in SUBSET Keys : SetRolePermissions(r, keys)
               \/ \E g \in Grant : BindRole(g)
               \/ \E g \in grants : UnbindRole(u, g)
    \/ \E i \in RobotIds, k \in DOMAIN NsSkills : RobotRestores(i, k)
    \/ NsTick

NsSpec == NsInit /\ [][NsNext]_nsVars
-------------------------------------------------------------------------------
\* A namespace that is deleted and restored comes back with the skills that went with it
\* and without those that were in its trash, however often either is done in between; only
\* a skill deleted in the second the namespace was deleted in cannot be told apart.
RestoredAsLeft ==
    \A k \in DOMAIN NsSkills :
        /\ k \in onItsOwn => skillAt[k] \notin {Absent, Live}
        /\ skillAt[k] # Absent => /\ spaceAt[NsSkills[k]] = Live => (skillAt[k] = Live \/ k \in onItsOwn)
                                  /\ spaceAt[NsSkills[k]] # Live => skillAt[k] # Live

\* The lists and the checks compute access apart and agree: what is listed can be opened;
\* and while no edit of a built-in role waits to be put right, a person without membership
\* and without a global role is shown a namespace with the very rights the checks grant.
ListedOpens ==
    \A u \in NsUsers \ SysAdmins, n \in NsIds :
        /\ ShownAs(u, n) # "none" => OpensAs(u, n) # "none"
        /\ rolePerms = Ensured /\ member[<<n, u>>] = "none" /\ ~(\E g \in grants : g.user = u /\ g.space = Everywhere)
              => ShownAs(u, n) = OpensAs(u, n)
=================================================================================
