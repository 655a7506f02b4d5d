---------------------------- MODULE PlatformProofs -----------------------------
(* What holds of the parts of the platform that keep their own rows, for every value of   *)
(* their constants: namespaces, their trash and access to them, the lockout of failed     *)
(* logins, logins through providers, the feed of other registries, the clinic.            *)
EXTENDS MCPlatform, SkillClientsProofs, TenantBackfillProofs, SetLemmas

(* The trash *)

Names == DOMAIN NsSkills

\* In a live namespace what is in the trash was deleted on its own.  In the trash of a
\* namespace that is deleted, the skills that went with it bear its stamp and no other
\* skill does.  That is what restore_namespace goes by.
Stamped(k) ==
    LET at == spaceAt[NsSkills[k]] IN
    /\ k \in onItsOwn => skillAt[k] \notin {Absent, Live}
    /\ at = Absent => skillAt[k] = Absent
    /\ at = Live => skillAt[k] \in {Absent, Live} \/ k \in onItsOwn
    /\ at \notin {Absent, Live} => skillAt[k] = Absent \/ (k \in onItsOwn /\ skillAt[k] # at)
                                   \/ (k \notin onItsOwn /\ skillAt[k] = at)

TrashInv ==
    /\ DOMAIN spaceAt = NsIds /\ DOMAIN skillAt = Names
    /\ nsTime \in Nat \ {0}
    /\ \A k \in Names : Stamped(k)

LEMMA Stamps == Absent # Live /\ \A t \in Nat \ {0} : t \notin {Absent, Live}
  BY DEF Absent, Live

LEMMA SpaceOf == \A k \in Names : NsSkills[k] \in NsIds
  BY NamespaceAssumption DEF Names

LEMMA TrashInitInv == NsInit => TrashInv
  BY Stamps, SpaceOf DEF NsInit, TrashInv, Stamped, Names

\* Steps that leave the trash alone.
LEMMA TrashUntouched ==
  ASSUME TrashInv, UNCHANGED <<spaceAt, skillAt, nsTime, onItsOwn>> PROVE TrashInv'
  BY DEF TrashInv, Stamped

\* One skill is stamped anew, in a live namespace, or in none.
LEMMA RestampInv ==
  ASSUME TrashInv, NEW k \in Names, NEW at, Restamp(k, at), spaceAt[NsSkills[k]] = Live,
         \/ at \in {Absent, Live} /\ onItsOwn' = onItsOwn \ {k}
         \/ at \notin {Absent, Live} /\ onItsOwn' = onItsOwn \cup {k}
  PROVE  TrashInv'
  <1>1. skillAt' = [skillAt EXCEPT ![k] = at] /\ UNCHANGED <<spaceAt, nsTime>>
    BY DEF Restamp
  <1>2. ASSUME NEW j \in Names PROVE Stamped(j)'
    <2>1. CASE j = k
      BY <1>1, <2>1, Stamps DEF TrashInv, Stamped
    <2>2. CASE j # k
      BY <1>1, <2>2 DEF TrashInv, Stamped
    <2> QED BY <2>1, <2>2
  <1> QED BY <1>1, <1>2 DEF TrashInv

LEMMA CreateNamespaceInv ==
  ASSUME TrashInv, NEW u, NEW n \in NsIds, CreateNamespace(u, n) PROVE TrashInv'
  <1>1. spaceAt[n] = Absent /\ spaceAt' = [spaceAt EXCEPT ![n] = Live] /\ UNCHANGED <<skillAt, nsTime, onItsOwn>>
    BY DEF CreateNamespace
  <1>2. ASSUME NEW k \in Names PROVE Stamped(k)'
    BY <1>1, SpaceOf, Stamps DEF TrashInv, Stamped
  <1> QED BY <1>1, <1>2 DEF TrashInv

LEMMA DeleteNamespaceInv ==
  ASSUME TrashInv, NEW u, NEW n \in NsIds, DeleteNamespace(u, n) PROVE TrashInv'
  <1>1. /\ spaceAt[n] = Live /\ spaceAt' = [spaceAt EXCEPT ![n] = nsTime] /\ nsTime' = nsTime
        /\ skillAt' = [k \in Names |-> IF k \in SkillsWith(n, Live) THEN nsTime ELSE skillAt[k]]
        /\ onItsOwn' = onItsOwn \ SkillsWith(n, nsTime)
    BY DEF DeleteNamespace, Names
  <1>2. ASSUME NEW k \in Names PROVE Stamped(k)'
    <2>1. CASE NsSkills[k] = n
      <3>1. spaceAt[n] = Live /\ spaceAt'[n] = nsTime /\ nsTime \notin {Absent, Live}
        BY <1>1, Stamps DEF TrashInv
      <3>2. skillAt'[k] = (IF skillAt[k] = Live THEN nsTime ELSE skillAt[k])
            /\ (k \in onItsOwn' <=> k \in onItsOwn /\ skillAt[k] # nsTime)
        BY <1>1, <2>1 DEF SkillsWith, Names
      <3> QED BY <2>1, <3>1, <3>2 DEF TrashInv, Stamped
    <2>2. CASE NsSkills[k] # n
      <3>1. spaceAt'[NsSkills[k]] = spaceAt[NsSkills[k]] /\ skillAt'[k] = skillAt[k]
            /\ (k \in onItsOwn' <=> k \in onItsOwn)
        BY <1>1, <2>2, SpaceOf DEF SkillsWith, TrashInv
      <3> QED BY <3>1 DEF TrashInv, Stamped
    <2> QED BY <2>1, <2>2
  <1> QED BY <1>1, <1>2 DEF TrashInv

LEMMA RestoreNamespaceInv ==
  ASSUME TrashInv, NEW u, NEW n \in NsIds, RestoreNamespace(u, n) PROVE TrashInv'
  <1>1. /\ spaceAt[n] \notin {Absent, Live} /\ spaceAt' = [spaceAt EXCEPT ![n] = Live]
        /\ skillAt' = [k \in Names |-> IF k \in Revived(n) THEN Live ELSE skillAt[k]]
        /\ UNCHANGED <<nsTime, onItsOwn>>
    BY DEF RestoreNamespace, Names
  <1>2. ASSUME NEW k \in Names PROVE Stamped(k)'
    <2>1. CASE NsSkills[k] = n
      <3>1. spaceAt'[n] = Live
        BY <1>1 DEF TrashInv
      <3>2. skillAt'[k] = (IF skillAt[k] = spaceAt[n] THEN Live ELSE skillAt[k])
        BY <1>1, <2>1 DEF Revived, SkillsWith, Names
      <3> QED BY <1>1, <2>1, <3>1, <3>2, Stamps DEF TrashInv, Stamped
    <2>2. CASE NsSkills[k] # n
      <3>1. spaceAt'[NsSkills[k]] = spaceAt[NsSkills[k]] /\ skillAt'[k] = skillAt[k]
        BY <1>1, <2>2, SpaceOf DEF Revived, SkillsWith, TrashInv
      <3> QED BY <1>1, <3>1 DEF TrashInv, Stamped
    <2> QED BY <2>1, <2>2
  <1> QED BY <1>1, <1>2 DEF TrashInv

\* Skills, whoever deletes, restores or purges them.
LEMMA SkillStepInv ==
  ASSUME TrashInv, NEW u, NEW k \in Names,
         \/ CreateNsSkill(u, k) \/ DeleteNsSkill(u, k) \/ RestoreNsSkill(u, k) \/ PurgeNsSkill(u, k)
         \/ \E i \in RobotIds : RobotRestores(i, k)
  PROVE  TrashInv'
  <1>1. CASE CreateNsSkill(u, k)
    <2>1. spaceAt[NsSkills[k]] = Live /\ Restamp(k, Live) /\ onItsOwn' = onItsOwn /\ skillAt[k] = Absent
      BY <1>1 DEF CreateNsSkill, Writing
    <2>2. k \notin onItsOwn
      BY <2>1 DEF TrashInv, Stamped
    <2> QED BY <2>1, <2>2, RestampInv
  <1>2. CASE DeleteNsSkill(u, k)
    <2>1. nsTime \notin {Absent, Live}
      BY Stamps DEF TrashInv
    <2> QED BY <1>2, <2>1, RestampInv DEF DeleteNsSkill, Writing
  <1>3. CASE RestoreNsSkill(u, k)
    BY <1>3, RestampInv DEF RestoreNsSkill, Writing
  <1>4. CASE PurgeNsSkill(u, k)
    BY <1>4, RestampInv DEF PurgeNsSkill, Writing
  <1>5. CASE \E i \in RobotIds : RobotRestores(i, k)
    BY <1>5, RestampInv DEF RobotRestores, RobotWrites
  <1> QED BY <1>1, <1>2, <1>3, <1>4, <1>5

LEMMA TrashStepInv == TrashInv /\ [NsNext]_nsVars => TrashInv'
  <1> SUFFICES ASSUME TrashInv, [NsNext]_nsVars PROVE TrashInv'
    OBVIOUS
  <1>1. CASE UNCHANGED nsVars
    BY <1>1, TrashUntouched DEF nsVars
  <1>2. CASE NsTick
    <2>1. nsTime' \in Nat \ {0} /\ UNCHANGED <<spaceAt, skillAt, onItsOwn>>
      BY <1>2 DEF NsTick, TrashInv
    <2> QED BY <2>1 DEF TrashInv, Stamped
  <1>3. ASSUME NEW u \in NsUsers, NEW n \in NsIds,
               CreateNamespace(u, n) \/ DeleteNamespace(u, n) \/ RestoreNamespace(u, n)
        PROVE  TrashInv'
    BY <1>3, CreateNamespaceInv, DeleteNamespaceInv, RestoreNamespaceInv
  <1>4. ASSUME NEW u \in NsUsers, NEW n \in NsIds,
               \/ OpenNamespace(u, n)
               \/ \E v \in NsUsers, l \in Levels : AddMember(u, n, v, l)
               \/ \E q \in 0 .. Cardinality(DOMAIN NsSkills) : SetQuota(u, n, q)
               \/ \E i \in RobotIds, l \in Levels, until \in 1 .. Never : CreateRobot(u, i, n, l, until)
        PROVE  TrashInv'
    BY <1>4, TrashUntouched DEF OpenNamespace, AddMember, SetQuota, CreateRobot, SetRobot
  <1>5. ASSUME NEW u \in NsUsers, NEW i \in RobotIds, DisableRobot(u, i) \/ DeleteRobot(u, i) PROVE TrashInv'
    BY <1>5, TrashUntouched DEF DisableRobot, DeleteRobot, SetRobot
  <1>6. ASSUME NEW u, NEW k \in Names,
               \/ CreateNsSkill(u, k) \/ DeleteNsSkill(u, k) \/ RestoreNsSkill(u, k) \/ PurgeNsSkill(u, k)
               \/ \E i \in RobotIds : RobotRestores(i, k)
        PROVE  TrashInv'
    BY <1>6, SkillStepInv
  <1>7. ASSUME NEW u \in NsUsers,
               \/ \E r \in Roles, keys \in SUBSET Keys : SetRolePermissions(r, keys)
               \/ \E g \in Grant : BindRole(g)
               \/ \E g \in grants : UnbindRole(u, g)
        PROVE  TrashInv'
    BY <1>7, TrashUntouched DEF SetRolePermissions, BindRole, UnbindRole, IamOnly
  <1> QED BY <1>1, <1>2, <1>3, <1>4, <1>5, <1>6, <1>7 DEF NsNext, Names

\* A restored namespace has the skills that went with it and none of those that were in its
\* trash, for every number of namespaces and skills and however often they are deleted.
THEOREM TrashKeepsApart == NsSpec => []RestoredAsLeft
  <1>1. TrashInv => RestoredAsLeft
    BY Stamps, SpaceOf DEF TrashInv, Stamped, RestoredAsLeft, Names
  <1> QED BY <1>1, TrashInitInv, TrashStepInv, PTL DEF NsSpec
-------------------------------------------------------------------------------
(* Lists and checks *)

\* A role is bound for a namespace only if it is one for namespaces.
BoundInScope == grants \subseteq {g \in Grant : g.space # Everywhere => ScopeOf(g.role) # "system"}

LEMMA BuiltInRoles == /\ DOMAIN BuiltIn = Levels \cup {"enterprise"}
                      /\ \A l \in Levels : BuiltIn[l] = LevelKeys[l] /\ "read" \in LevelKeys[l]
  BY DEF BuiltIn, LevelKeys, Levels, Keys

LEMMA ScopeInit == NsInit => BoundInScope
  BY DEF NsInit, BoundInScope

LEMMA ScopeStep == BoundInScope /\ [NsNext]_nsVars => BoundInScope'
  <1> SUFFICES ASSUME BoundInScope, [NsNext]_nsVars PROVE BoundInScope'
    OBVIOUS
  <1>1. ASSUME NEW g \in Grant, BindRole(g) PROVE BoundInScope'
    <2>1. g.space # Everywhere => ScopeOf(g.role) # "system"
      BY <1>1 DEF BindRole
    <2>2. grants' = grants \cup {g}
      BY <1>1 DEF BindRole
    <2> QED BY <2>1, <2>2 DEF BoundInScope
  <1>2. CASE grants' \subseteq grants
    BY <1>2 DEF BoundInScope
  <1>3. ASSUME NEW u \in NsUsers, NEW g \in grants, UnbindRole(u, g) PROVE BoundInScope'
    <2>1. grants' \subseteq grants
      BY <1>3 DEF UnbindRole
    <2> QED BY <1>2, <2>1
  <1>4. ASSUME NEW u \in NsUsers, NEW n \in NsIds,
               \/ OpenNamespace(u, n) \/ CreateNamespace(u, n) \/ DeleteNamespace(u, n) \/ RestoreNamespace(u, n)
               \/ \E v \in NsUsers, l \in Levels : AddMember(u, n, v, l)
               \/ \E q \in 0 .. Cardinality(DOMAIN NsSkills) : SetQuota(u, n, q)
               \/ \E i \in RobotIds, l \in Levels, until \in 1 .. Never : CreateRobot(u, i, n, l, until)
        PROVE  grants' = grants
    BY <1>4 DEF OpenNamespace, CreateNamespace, DeleteNamespace, RestoreNamespace, AddMember, SetQuota,
           CreateRobot, SetRobot
  <1>5. ASSUME NEW u \in NsUsers,
               \/ \E i \in RobotIds : DisableRobot(u, i) \/ DeleteRobot(u, i)
               \/ \E k \in Names : CreateNsSkill(u, k) \/ DeleteNsSkill(u, k) \/ RestoreNsSkill(u, k)
                                    \/ PurgeNsSkill(u, k)
               \/ \E r \in Roles, keys \in SUBSET Keys : SetRolePermissions(r, keys)
        PROVE  grants' = grants
    BY <1>5 DEF DisableRobot, DeleteRobot, SetRobot, CreateNsSkill, DeleteNsSkill, RestoreNsSkill, PurgeNsSkill,
           Restamp, SetRolePermissions
  <1>6. CASE NsTick \/ UNCHANGED nsVars \/ \E i \in RobotIds, k \in Names : RobotRestores(i, k)
    <2>1. grants' = grants
      BY <1>6 DEF NsTick, nsVars, RobotRestores, Restamp
    <2> QED BY <1>2, <2>1
  <1> QED BY <1>1, <1>2, <1>3, <1>4, <1>5, <1>6 DEF NsNext, Names

\* What a person is shown of a namespace by the lists can be opened, and with the same
\* rights where nothing but bindings counts, for every set of roles, people and bindings.
THEOREM ListsAgreeWithChecks == NsSpec => []ListedOpens
  <1>1. ASSUME BoundInScope PROVE ListedOpens
    <2> SUFFICES ASSUME NEW u \in NsUsers \ SysAdmins, NEW n \in NsIds
                 PROVE  /\ ShownAs(u, n) # "none" => OpensAs(u, n) # "none"
                        /\ rolePerms = Ensured /\ member[<<n, u>>] = "none"
                             /\ ~(\E g \in grants : g.user = u /\ g.space = Everywhere)
                             => ShownAs(u, n) = OpensAs(u, n)
      BY DEF ListedOpens
    <2>1. CASE member[<<n, u>>] # "none"
      BY <2>1 DEF OpensAs
    <2>2. CASE member[<<n, u>>] = "none"
      <3>1. ShownAs(u, n) = LevelOf(MapKeys(u, n)) /\ OpensAs(u, n) = LevelOf(Effective(u, n))
        <4>1. MapKeys(u, n) \cup {} = MapKeys(u, n)
          OBVIOUS
        <4> QED BY <2>2, <4>1 DEF ShownAs, OpensAs
      <3>2. ASSUME ShownAs(u, n) # "none" PROVE OpensAs(u, n) # "none"
        <4>1. PICK key \in {"admin", "write", "read"} : key \in MapKeys(u, n)
          BY <3>1, <3>2 DEF LevelOf
        <4>2. PICK g \in ValidFor(u, n) : key \in rolePerms[g.role]
          BY <4>1 DEF MapKeys
        <4>3. ScopeOf(g.role) # "system" /\ g.role \in Roles
          BY <1>1, <4>2, NamespaceAssumption DEF ValidFor, BoundInScope, Grant
        <4>4. \E k \in {"admin", "write", "read"} : k \in Ensured[g.role]
          <5>1. CASE g.role \in Levels
            BY <4>3, <5>1, BuiltInRoles DEF Ensured
          <5>2. CASE g.role \notin Levels
            <6>1. g.role \notin DOMAIN BuiltIn
              BY <4>3, <5>2, BuiltInRoles, NamespaceAssumption DEF ScopeOf
            <6> QED BY <4>1, <4>2, <4>3, <6>1 DEF Ensured
          <5> QED BY <5>1, <5>2
        <4>5. Ensured[g.role] \subseteq Effective(u, n)
          BY <4>2, <2>2 DEF Effective, ValidFor
        <4>6. LevelOf(Effective(u, n)) # "none"
          BY <4>4, <4>5 DEF LevelOf
        <4> QED BY <3>1, <4>6
      <3>3. ASSUME rolePerms = Ensured, ~(\E g \in grants : g.user = u /\ g.space = Everywhere)
            PROVE  ShownAs(u, n) = OpensAs(u, n)
        <4>1. ValidFor(u, n) = {h \in grants : h.user = u /\ Valid(h) /\ h.space \in {Everywhere, n}}
          BY <3>3 DEF ValidFor
        <4>2. MapKeys(u, n) = Effective(u, n)
          BY <2>2, <3>3, <4>1 DEF MapKeys, Effective
        <4> QED BY <3>1, <4>2
      <3> QED BY <3>2, <3>3
    <2> QED BY <2>1, <2>2
  <1> QED BY <1>1, ScopeInit, ScopeStep, PTL DEF NsSpec
-------------------------------------------------------------------------------
(* Types of namespaces *)

LEMMA NsNumbers == /\ MaxNsTime \in Nat /\ MaxNsTime >= 1 /\ Never = MaxNsTime + 1
                   /\ Cardinality(DOMAIN NsSkills) \in Nat
                   /\ Absent \in Stamp /\ Live \in Stamp /\ 1 .. MaxNsTime \subseteq Stamp
  BY NamespaceAssumption, FS_CardinalityType DEF Never, Absent, Live, Stamp

LEMMA RoleTypes ==
  /\ \A r \in DOMAIN BuiltIn : r \in Roles /\ BuiltIn[r] \in SUBSET Keys
  /\ rolePerms \in [Roles -> SUBSET Keys] => Ensured \in [Roles -> SUBSET Keys]
  <1>1. ASSUME NEW r \in DOMAIN BuiltIn PROVE r \in Roles /\ BuiltIn[r] \in SUBSET Keys
    <2>1. r \in Levels \cup {"enterprise"}
      BY DEF BuiltIn
    <2>2. CASE r \in Levels
      <3>1. BuiltIn[r] = LevelKeys[r]
        BY <2>2 DEF BuiltIn
      <3>2. LevelKeys[r] \in SUBSET Keys
        BY <2>2 DEF LevelKeys, Levels, Keys
      <3> QED BY <3>1, <3>2 DEF Roles
    <2>3. CASE r \notin Levels
      <3>1. BuiltIn[r] = {"iam"}
        BY <2>1, <2>3 DEF BuiltIn
      <3> QED BY <3>1 DEF Roles, Keys
    <2> QED BY <2>2, <2>3
  <1> QED BY <1>1 DEF Ensured

LEMMA NoRobotType == NoRobot \in Robot
  BY NsNumbers DEF NoRobot, Robot, MaybeLevel

LEMMA NsInitTypes == NsInit => NsTypeOK
  <1> SUFFICES ASSUME NsInit PROVE NsTypeOK
    OBVIOUS
  <1>1. rolePerms \in [Roles -> SUBSET Keys]
    BY RoleTypes DEF NsInit
  <1>2. spaceAt \in [NsIds -> Stamp] /\ skillAt \in [DOMAIN NsSkills -> Stamp]
    BY NsNumbers DEF NsInit
  <1>3. quota \in [NsIds -> Nat] /\ nsTime \in 1 .. MaxNsTime
    BY NsNumbers DEF NsInit
  <1>4. member \in [NsIds \X NsUsers -> MaybeLevel]
    BY DEF NsInit, MaybeLevel
  <1>5. robot \in [RobotIds -> Robot]
    BY NoRobotType DEF NsInit
  <1> QED BY <1>1, <1>2, <1>3, <1>4, <1>5 DEF NsInit, NsTypeOK

\* Steps that look at roles put the built-in ones right or leave them.
LEMMA LookedTypes ==
  ASSUME NsTypeOK, NEW u, NEW n, Looked(u, n) \/ Manages(u, n)
  PROVE  rolePerms' \in [Roles -> SUBSET Keys]
  BY RoleTypes DEF NsTypeOK, Looked, Manages

LEMMA SpaceTypes ==
  ASSUME NsTypeOK, NEW u \in NsUsers, NEW n \in NsIds,
         OpenNamespace(u, n) \/ CreateNamespace(u, n) \/ DeleteNamespace(u, n) \/ RestoreNamespace(u, n)
  PROVE  NsTypeOK'
  <1> USE NsNumbers
  <1>1. CASE OpenNamespace(u, n)
    <2>1. rolePerms' \in [Roles -> SUBSET Keys]
      BY <1>1, LookedTypes DEF OpenNamespace, As
    <2> QED BY <1>1, <2>1 DEF OpenNamespace, NsTypeOK
  <1>2. CASE CreateNamespace(u, n)
    <2>1. spaceAt' \in [NsIds -> Stamp] /\ member' \in [NsIds \X NsUsers -> MaybeLevel]
      BY <1>2 DEF CreateNamespace, NsTypeOK, MaybeLevel, Levels
    <2> QED BY <1>2, <2>1 DEF CreateNamespace, NsTypeOK
  <1>3. CASE DeleteNamespace(u, n)
    <2>1. rolePerms' \in [Roles -> SUBSET Keys]
      BY <1>3, LookedTypes DEF DeleteNamespace, As
    <2>2. nsTime \in Stamp
      BY DEF NsTypeOK
    <2>3. spaceAt' \in [NsIds -> Stamp] /\ skillAt' \in [DOMAIN NsSkills -> Stamp]
      BY <1>3, <2>2 DEF DeleteNamespace, NsTypeOK
    <2>4. onItsOwn' \subseteq DOMAIN NsSkills
      BY <1>3 DEF DeleteNamespace, NsTypeOK
    <2> QED BY <1>3, <2>1, <2>3, <2>4 DEF DeleteNamespace, NsTypeOK
  <1>4. CASE RestoreNamespace(u, n)
    <2>1. rolePerms' \in [Roles -> SUBSET Keys]
      BY <1>4, LookedTypes DEF RestoreNamespace, As
    <2>2. spaceAt' \in [NsIds -> Stamp] /\ skillAt' \in [DOMAIN NsSkills -> Stamp]
      BY <1>4 DEF RestoreNamespace, NsTypeOK
    <2> QED BY <1>4, <2>1, <2>2 DEF RestoreNamespace, NsTypeOK
  <1> QED BY <1>1, <1>2, <1>3, <1>4

LEMMA MemberTypes ==
  ASSUME NsTypeOK, NEW u \in NsUsers, NEW n \in NsIds,
         \/ \E v \in NsUsers, l \in Levels : AddMember(u, n, v, l)
         \/ \E q \in 0 .. Cardinality(DOMAIN NsSkills) : SetQuota(u, n, q)
  PROVE  NsTypeOK'
  <1> USE NsNumbers
  <1>1. ASSUME NEW v \in NsUsers, NEW l \in Levels, AddMember(u, n, v, l) PROVE NsTypeOK'
    <2>1. rolePerms' \in [Roles -> SUBSET Keys]
      BY <1>1, LookedTypes DEF AddMember, As
    <2>2. member' \in [NsIds \X NsUsers -> MaybeLevel]
      BY <1>1 DEF AddMember, NsTypeOK, MaybeLevel
    <2> QED BY <1>1, <2>1, <2>2 DEF AddMember, NsTypeOK
  <1>2. ASSUME NEW q \in 0 .. Cardinality(DOMAIN NsSkills), SetQuota(u, n, q) PROVE NsTypeOK'
    <2>1. rolePerms' \in [Roles -> SUBSET Keys]
      BY <1>2, LookedTypes DEF SetQuota
    <2>2. quota' \in [NsIds -> Nat]
      BY <1>2 DEF SetQuota, NsTypeOK
    <2> QED BY <1>2, <2>1, <2>2 DEF SetQuota, NsTypeOK
  <1> QED BY <1>1, <1>2

LEMMA RobotTypes ==
  ASSUME NsTypeOK, NEW u \in NsUsers, NEW i \in RobotIds,
         \/ \E n \in NsIds, l \in Levels, until \in 1 .. Never : CreateRobot(u, i, n, l, until)
         \/ DisableRobot(u, i) \/ DeleteRobot(u, i)
  PROVE  NsTypeOK'
  <1>1. PICK r \in Robot : SetRobot(u, i, r)
    <2>1. ASSUME NEW n \in NsIds, NEW l \in Levels, NEW until \in 1 .. Never, CreateRobot(u, i, n, l, until)
          PROVE  \E r \in Robot : SetRobot(u, i, r)
      <3>1. until \in 0 .. Never
        BY NsNumbers
      <3>2. [space |-> n, level |-> l, state |-> "active", until |-> until] \in Robot
        BY <3>1 DEF Robot, MaybeLevel
      <3> QED BY <2>1, <3>2 DEF CreateRobot
    <2>2. CASE DisableRobot(u, i)
      <3>1. [robot[i] EXCEPT !.state = "disabled"] \in Robot
        BY DEF NsTypeOK, Robot
      <3> QED BY <2>2, <3>1 DEF DisableRobot
    <2>3. CASE DeleteRobot(u, i)
      BY <2>3, NoRobotType DEF DeleteRobot
    <2> QED BY <2>1, <2>2, <2>3
  <1>2. rolePerms' \in [Roles -> SUBSET Keys]
    BY <1>1, LookedTypes DEF SetRobot
  <1>3. robot' \in [RobotIds -> Robot]
    BY <1>1 DEF SetRobot, NsTypeOK
  <1> QED BY <1>1, <1>2, <1>3 DEF SetRobot, NsTypeOK

LEMMA RestampTypes ==
  ASSUME NsTypeOK, NEW k \in DOMAIN NsSkills, NEW at \in Stamp, Restamp(k, at),
         rolePerms' \in [Roles -> SUBSET Keys], onItsOwn' \subseteq onItsOwn \cup {k}
  PROVE  NsTypeOK'
  <1>1. skillAt' \in [DOMAIN NsSkills -> Stamp]
    BY DEF Restamp, NsTypeOK
  <1> QED BY <1>1 DEF Restamp, NsTypeOK

LEMMA SkillTypes ==
  ASSUME NsTypeOK, NEW k \in DOMAIN NsSkills,
         \/ \E u \in NsUsers : CreateNsSkill(u, k) \/ DeleteNsSkill(u, k) \/ RestoreNsSkill(u, k) \/ PurgeNsSkill(u, k)
         \/ \E i \in RobotIds : RobotRestores(i, k)
  PROVE  NsTypeOK'
  <1> USE NsNumbers
  <1>1. ASSUME NEW u \in NsUsers, Writing(u, k) PROVE rolePerms' \in [Roles -> SUBSET Keys]
    BY <1>1, LookedTypes DEF Writing, As
  <1>2. UNCHANGED rolePerms => rolePerms' \in [Roles -> SUBSET Keys]
    BY DEF NsTypeOK
  <1>3. ASSUME NEW u \in NsUsers, CreateNsSkill(u, k) PROVE NsTypeOK'
    BY <1>1, <1>3, RestampTypes DEF CreateNsSkill
  <1>4. ASSUME NEW u \in NsUsers, DeleteNsSkill(u, k) PROVE NsTypeOK'
    <2>1. nsTime \in Stamp
      BY DEF NsTypeOK
    <2> QED BY <1>1, <1>4, <2>1, RestampTypes DEF DeleteNsSkill
  <1>5. ASSUME NEW u \in NsUsers, RestoreNsSkill(u, k) PROVE NsTypeOK'
    <2>1. rolePerms' \in [Roles -> SUBSET Keys]
      BY <1>1, <1>2, <1>5 DEF RestoreNsSkill
    <2> QED BY <1>5, <2>1, RestampTypes DEF RestoreNsSkill
  <1>6. ASSUME NEW u \in NsUsers, PurgeNsSkill(u, k) PROVE NsTypeOK'
    BY <1>1, <1>6, RestampTypes DEF PurgeNsSkill
  <1>7. ASSUME NEW i \in RobotIds, RobotRestores(i, k) PROVE NsTypeOK'
    <2>1. PICK at \in {Live, Absent} : Restamp(k, at)
      BY <1>7 DEF RobotRestores
    <2>2. at \in Stamp /\ onItsOwn' \subseteq onItsOwn \cup {k} /\ UNCHANGED rolePerms
      BY <1>7 DEF RobotRestores
    <2> QED BY <1>2, <2>1, <2>2, RestampTypes
  <1> QED BY <1>3, <1>4, <1>5, <1>6, <1>7

LEMMA NsStepTypes == NsTypeOK /\ [NsNext]_nsVars => NsTypeOK'
  <1> SUFFICES ASSUME NsTypeOK, [NsNext]_nsVars PROVE NsTypeOK'
    OBVIOUS
  <1>1. ASSUME NEW u \in NsUsers, NEW n \in NsIds,
               OpenNamespace(u, n) \/ CreateNamespace(u, n) \/ DeleteNamespace(u, n) \/ RestoreNamespace(u, n)
        PROVE  NsTypeOK'
    BY <1>1, SpaceTypes
  <1>2. ASSUME NEW u \in NsUsers, NEW n \in NsIds,
               \/ \E v \in NsUsers, l \in Levels : AddMember(u, n, v, l)
               \/ \E q \in 0 .. Cardinality(DOMAIN NsSkills) : SetQuota(u, n, q)
        PROVE  NsTypeOK'
    BY <1>2, MemberTypes
  <1>3. ASSUME NEW u \in NsUsers, NEW i \in RobotIds,
               \/ \E n \in NsIds, l \in Levels, until \in 1 .. Never : CreateRobot(u, i, n, l, until)
               \/ DisableRobot(u, i) \/ DeleteRobot(u, i)
        PROVE  NsTypeOK'
    BY <1>3, RobotTypes
  <1>4. ASSUME NEW k \in DOMAIN NsSkills,
               \/ \E u \in NsUsers : CreateNsSkill(u, k) \/ DeleteNsSkill(u, k) \/ RestoreNsSkill(u, k)
                                     \/ PurgeNsSkill(u, k)
               \/ \E i \in RobotIds : RobotRestores(i, k)
        PROVE  NsTypeOK'
    BY <1>4, SkillTypes
  <1>5. ASSUME NEW r \in Roles, NEW keys \in SUBSET Keys, SetRolePermissions(r, keys) PROVE NsTypeOK'
    <2>1. Ensured \in [Roles -> SUBSET Keys]
      BY RoleTypes DEF NsTypeOK
    <2>2. rolePerms' \in [Roles -> SUBSET Keys]
      BY <1>5, <2>1 DEF SetRolePermissions
    <2> QED BY <1>5, <2>2 DEF SetRolePermissions, IamOnly, NsTypeOK
  <1>6. ASSUME NEW g \in Grant, BindRole(g) PROVE NsTypeOK'
    <2>1. Ensured \in [Roles -> SUBSET Keys]
      BY RoleTypes DEF NsTypeOK
    <2> QED BY <1>6, <2>1 DEF BindRole, IamOnly, NsTypeOK
  <1>7. ASSUME NEW u \in NsUsers, NEW g \in grants, UnbindRole(u, g) PROVE NsTypeOK'
    <2>1. Ensured \in [Roles -> SUBSET Keys]
      BY RoleTypes DEF NsTypeOK
    <2> QED BY <1>7, <2>1 DEF UnbindRole, IamOnly, NsTypeOK
  <1>8. CASE NsTick
    <2>1. nsTime' \in 1 .. MaxNsTime
      BY <1>8, NsNumbers DEF NsTick, NsTypeOK
    <2> QED BY <1>8, <2>1 DEF NsTick, NsTypeOK
  <1>9. CASE UNCHANGED nsVars
    BY <1>9 DEF nsVars, NsTypeOK
  <1> QED BY <1>1, <1>2, <1>3, <1>4, <1>5, <1>6, <1>7, <1>8, <1>9 DEF NsNext

\* Namespaces, members, roles, bindings, robots and the trash stay well formed whoever
\* does what, and however often; no permission but those that are there is ever given.
THEOREM NsTypesHold == NsSpec => []NsTypeOK
  BY NsInitTypes, NsStepTypes, PTL DEF NsSpec
-------------------------------------------------------------------------------
(* The lockout *)

\* The failures of a key within the window that starts with its i-th one.
Span(at, i) == {j \in DOMAIN at : at[j] - at[i] \in 0 .. WindowSeconds - 1}
From(k, i) == Span(failedAt[k], i)
Burst(k) == \E i \in DOMAIN failedAt[k] : Cardinality(From(k, i)) > MaxAttempts

\* What a counter counts has happened: its window starts with a failure, and holds as
\* many as it says, whatever else it holds.
Backed(k) == counter[k] # Fresh =>
    \E i \in DOMAIN failedAt[k] : /\ failedAt[k][i] + WindowSeconds = counter[k].until
                                  /\ Cardinality(From(k, i)) >= counter[k].count

ThrottleTypes ==
    /\ counter \in [ThrottleKeys -> [count : Nat, until : Nat]]
    /\ lock \in [ThrottleKeys -> Nat]
    /\ attempt \in [AttemptSlots -> Attempt]
    /\ throttleTime \in Nat
    /\ failedAt \in [ThrottleKeys -> Seq(Nat)]

ThrottleInv ==
    /\ ThrottleTypes
    /\ \A k \in ThrottleKeys : /\ \A i \in DOMAIN failedAt[k] : failedAt[k][i] <= throttleTime
                               /\ Backed(k)
                               /\ lock[k] > 0 => Burst(k)
    /\ \A s \in AttemptSlots : /\ attempt[s].state # "none" => attempt[s].key \in ThrottleKeys
                               /\ \A k \in ThrottleKeys :
                                     attempt[s].state = "exceeded" /\ attempt[s].key = k => Burst(k)

LEMMA WindowTypes == WindowSeconds \in Nat /\ WindowSeconds > 0 /\ LockoutSeconds \in Nat /\ LockoutSeconds > 0
                     /\ MaxAttempts \in Nat
  BY ThrottleAssumption

LEMMA NoAttemptType == NoAttempt \in Attempt /\ NoAttempt.state = "none"
  BY DEF NoAttempt, Attempt

LEMMA FreshType == Fresh \in [count : Nat, until : Nat] /\ Fresh.until = 0
  BY DEF Fresh

\* A window is a finite set of failures.
LEMMA SpanFinite ==
  ASSUME NEW at \in Seq(Nat), NEW i
  PROVE  IsFiniteSet(Span(at, i)) /\ Cardinality(Span(at, i)) \in Nat
  <1>1. DOMAIN at = 1 .. Len(at) /\ Len(at) \in Nat
    OBVIOUS
  <1>2. IsFiniteSet(DOMAIN at)
    BY <1>1, FS_Interval
  <1>3. Span(at, i) \subseteq DOMAIN at
    BY DEF Span
  <1> QED BY <1>2, <1>3, FS_Subset, FS_CardinalityType

LEMMA ThrottleInitInv == ThrottleInit => ThrottleInv
  <1> SUFFICES ASSUME ThrottleInit PROVE ThrottleInv
    OBVIOUS
  <1>1. <<>> \in Seq(Nat)
    OBVIOUS
  <1>2. ThrottleTypes
    BY <1>1, FreshType, NoAttemptType DEF ThrottleInit, ThrottleTypes
  <1>3. \A k \in ThrottleKeys : failedAt[k] = <<>> /\ lock[k] = 0 /\ counter[k] = Fresh
    BY FreshType DEF ThrottleInit
  <1>4. \A k \in ThrottleKeys : DOMAIN failedAt[k] = {}
    BY <1>3
  <1>5. \A s \in AttemptSlots : attempt[s].state = "none"
    BY NoAttemptType DEF ThrottleInit
  <1> QED BY <1>2, <1>3, <1>4, <1>5 DEF ThrottleInv, Backed

\* Steps without a failure: they leave the windows alone.
LEMMA NoFailureInv ==
  ASSUME ThrottleInv, ThrottleTypes', failedAt' = failedAt, throttleTime' >= throttleTime,
         \A k \in ThrottleKeys : /\ counter'[k] \in {counter[k], Fresh}
                                 /\ lock'[k] > 0 => lock[k] > 0 \/ Burst(k),
         \A s \in AttemptSlots : /\ attempt'[s].state # "none" => attempt'[s].key \in ThrottleKeys
                                 /\ attempt'[s].state = "exceeded" => attempt'[s] = attempt[s]
  PROVE  ThrottleInv'
  <1>1. ASSUME NEW k \in ThrottleKeys PROVE Burst(k)' <=> Burst(k)
    BY DEF Burst, From, Span
  <1>2. ASSUME NEW k \in ThrottleKeys PROVE Backed(k)'
    <2>1. CASE counter'[k] = counter[k]
      BY <2>1 DEF ThrottleInv, Backed, From, Span
    <2>2. CASE counter'[k] = Fresh
      BY <2>2 DEF Backed
    <2> QED BY <2>1, <2>2
  <1>3. ASSUME NEW k \in ThrottleKeys, NEW i \in DOMAIN failedAt'[k] PROVE failedAt'[k][i] <= throttleTime'
    <2>1. failedAt[k][i] \in Nat /\ failedAt[k][i] <= throttleTime
      BY <1>3 DEF ThrottleInv, ThrottleTypes
    <2> QED BY <2>1 DEF ThrottleInv, ThrottleTypes
  <1>4. ASSUME NEW s \in AttemptSlots, NEW k \in ThrottleKeys, attempt'[s].state = "exceeded", attempt'[s].key = k
        PROVE  Burst(k)'
    <2>1. Burst(k)
      BY <1>4 DEF ThrottleInv
    <2> QED BY <1>1, <2>1
  <1>5. ASSUME NEW k \in ThrottleKeys, lock'[k] > 0 PROVE Burst(k)'
    BY <1>1, <1>5 DEF ThrottleInv
  <1> QED BY <1>2, <1>3, <1>4, <1>5 DEF ThrottleInv

\* A failure is counted: in the window there is, or in one that it starts.
LEMMA RegisterFailureInv ==
  ASSUME ThrottleInv, NEW s \in AttemptSlots, RegisterFailure(s),
         NEW f \in ThrottleKeys, attempt[s].key = f, NEW n \in Nat \ {0}, n = Len(failedAt[f]) + 1
  PROVE  ThrottleInv'
  <1>1. /\ counter' = [counter EXCEPT ![f] = Counted(f)]
        /\ attempt' = [attempt EXCEPT ![s] = IF Counted(f).count > MaxAttempts
                                             THEN [@ EXCEPT !.state = "exceeded"] ELSE NoAttempt]
        /\ failedAt' = [failedAt EXCEPT ![f] = Append(@, throttleTime)]
        /\ lock' = lock /\ throttleTime' = throttleTime
    BY DEF RegisterFailure
  <1>2. failedAt[f] \in Seq(Nat) /\ throttleTime \in Nat /\ counter[f] \in [count : Nat, until : Nat]
    BY DEF ThrottleInv, ThrottleTypes
  <1>3. /\ failedAt'[f] = Append(failedAt[f], throttleTime)
        /\ \A k \in ThrottleKeys \ {f} : failedAt'[k] = failedAt[k] /\ counter'[k] = counter[k]
        /\ counter'[f] = Counted(f)
    BY <1>1, <1>2 DEF ThrottleInv, ThrottleTypes
  <1>4. /\ DOMAIN failedAt[f] = 1 .. n - 1 /\ DOMAIN failedAt'[f] = 1 .. n
        /\ failedAt'[f][n] = throttleTime /\ \A i \in 1 .. n - 1 : failedAt'[f][i] = failedAt[f][i]
        /\ failedAt'[f] \in Seq(Nat) /\ \A i \in 1 .. n - 1 : failedAt[f][i] \in Nat
    BY <1>2, <1>3
  <1>5. Counted(f) \in [count : Nat, until : Nat]
    BY <1>2, WindowTypes DEF Counted
  <1>6. ThrottleTypes'
    <2>1. [attempt[s] EXCEPT !.state = "exceeded"] \in Attempt
      BY DEF ThrottleInv, ThrottleTypes, Attempt
    <2>2. attempt' \in [AttemptSlots -> Attempt]
      BY <1>1, <2>1, NoAttemptType DEF ThrottleInv, ThrottleTypes
    <2>3. counter' \in [ThrottleKeys -> [count : Nat, until : Nat]]
      BY <1>1, <1>5 DEF ThrottleInv, ThrottleTypes
    <2>4. failedAt' \in [ThrottleKeys -> Seq(Nat)]
      BY <1>1, <1>3, <1>4 DEF ThrottleInv, ThrottleTypes
    <2> QED BY <1>1, <2>2, <2>3, <2>4 DEF ThrottleInv, ThrottleTypes
  <1>7. \A k \in ThrottleKeys : \A i \in DOMAIN failedAt'[k] : failedAt'[k][i] <= throttleTime'
    <2>1. \A i \in DOMAIN failedAt'[f] : failedAt'[f][i] <= throttleTime
      <3>1. \A i \in 1 .. n - 1 : failedAt'[f][i] <= throttleTime
        BY <1>4 DEF ThrottleInv
      <3> QED BY <1>2, <1>4, <3>1
    <2> QED BY <1>1, <1>3, <2>1 DEF ThrottleInv
  <1>8. ASSUME NEW i \in 1 .. n - 1
        PROVE  /\ From(f, i) \subseteq From(f, i)'
               /\ \A j \in 1 .. n - 1 : j \in From(f, i)' <=> j \in From(f, i)
    <2>1. From(f, i) \subseteq 1 .. n - 1
      BY <1>4 DEF From, Span
    <2>2. ASSUME NEW j \in 1 .. n - 1 PROVE j \in From(f, i)' <=> j \in From(f, i)
      <3>1. failedAt'[f][j] - failedAt'[f][i] = failedAt[f][j] - failedAt[f][i]
        BY <1>4
      <3>2. j \in DOMAIN failedAt[f] /\ j \in DOMAIN failedAt'[f]
        BY <1>4
      <3> QED BY <3>1, <3>2 DEF From, Span
    <2> QED BY <2>1, <2>2
  <1>9. ASSUME NEW i \in 1 .. n PROVE IsFiniteSet(From(f, i)') /\ Cardinality(From(f, i)') \in Nat
    BY <1>4, SpanFinite DEF From
  <1>10. ASSUME NEW i \in 1 .. n - 1 PROVE Cardinality(From(f, i)') >= Cardinality(From(f, i))
    BY <1>8, <1>9, FS_Subset
  <1>11. ASSUME NEW k \in ThrottleKeys, Burst(k) PROVE Burst(k)'
    <2>1. CASE k # f
      BY <1>3, <1>11, <2>1 DEF Burst, From, Span
    <2>2. CASE k = f
      <3>1. PICK i \in 1 .. n - 1 : Cardinality(From(f, i)) > MaxAttempts
        BY <1>4, <1>11, <2>2 DEF Burst
      <3>2. Cardinality(From(f, i)') > MaxAttempts
        <4>1. Cardinality(From(f, i)) \in Nat
          BY <1>2, SpanFinite DEF From
        <4>2. Cardinality(From(f, i)') \in Nat
          BY <1>9
        <4> QED BY <1>10, <3>1, <4>1, <4>2, WindowTypes
      <3> QED BY <1>4, <2>2, <3>1, <3>2 DEF Burst
    <2> QED BY <2>1, <2>2
  <1>12. \E i \in 1 .. n : /\ failedAt'[f][i] + WindowSeconds = Counted(f).until
                           /\ Cardinality(From(f, i)') >= Counted(f).count
    <2>1. CASE counter[f].until > throttleTime
      <3>1. Counted(f).until = counter[f].until /\ Counted(f).count = counter[f].count + 1
        BY <1>2, <2>1 DEF Counted
      <3>2. PICK i \in 1 .. n - 1 : /\ failedAt[f][i] + WindowSeconds = counter[f].until
                                    /\ Cardinality(From(f, i)) >= counter[f].count
        <4>1. counter[f] # Fresh
          BY <1>2, <2>1, FreshType
        <4>2. Backed(f)
          BY DEF ThrottleInv
        <4> QED BY <1>4, <4>1, <4>2 DEF Backed
      <3>3. failedAt[f][i] \in Nat /\ failedAt[f][i] <= throttleTime
        BY <1>4 DEF ThrottleInv
      <3>4. From(f, i)' = From(f, i) \cup {n} /\ n \notin From(f, i)
        <4>1. throttleTime - failedAt[f][i] \in 0 .. WindowSeconds - 1
          <5>1. \A at, t, w, until \in Nat : at <= t /\ at + w = until /\ until > t => t - at \in 0 .. w - 1
            OBVIOUS
          <5>2. failedAt[f][i] + WindowSeconds = counter[f].until
            BY <3>2
          <5>3. throttleTime \in Nat /\ counter[f].until \in Nat
            BY <1>2
          <5> QED BY <2>1, <3>3, <5>1, <5>2, <5>3, WindowTypes, Zenon
        <4>2. n \in From(f, i)'
          <5>1. n \in DOMAIN failedAt'[f] /\ failedAt'[f][n] = throttleTime /\ failedAt'[f][i] = failedAt[f][i]
            BY <1>4
          <5>2. failedAt'[f][n] - failedAt'[f][i] \in 0 .. WindowSeconds - 1
            BY <4>1, <5>1
          <5> QED BY <5>1, <5>2 DEF From, Span
        <4>3. \A j \in 1 .. n - 1 : j \in From(f, i)' <=> j \in From(f, i)
          BY <1>8
        <4>4. From(f, i) \subseteq 1 .. n - 1 /\ From(f, i)' \subseteq 1 .. n
          BY <1>4 DEF From, Span
        <4> QED BY <4>2, <4>3, <4>4
      <3>5. IsFiniteSet(From(f, i)) /\ Cardinality(From(f, i)) \in Nat
        BY <1>2, SpanFinite DEF From
      <3>6. Cardinality(From(f, i)') = Cardinality(From(f, i)) + 1
        BY <3>4, <3>5, FS_AddElement
      <3>7. Cardinality(From(f, i)') >= Counted(f).count
        <4>1. PICK x \in Nat, y \in Nat : x = Cardinality(From(f, i)) /\ y = counter[f].count
          BY <1>2, <3>5
        <4>2. x >= y /\ Cardinality(From(f, i)') = x + 1 /\ Counted(f).count = y + 1
          BY <3>1, <3>2, <3>6, <4>1
        <4>3. x + 1 >= y + 1
          BY <4>1, <4>2
        <4> QED BY <4>2, <4>3
      <3>8. i \in 1 .. n /\ failedAt'[f][i] + WindowSeconds = Counted(f).until
        BY <1>4, <3>1, <3>2
      <3> QED BY <3>7, <3>8
    <2>2. CASE ~(counter[f].until > throttleTime)
      <3>1. Counted(f).until = throttleTime + WindowSeconds /\ Counted(f).count = 1
        BY <1>2, <2>2 DEF Counted
      <3>2. n \in From(f, n)'
        BY <1>2, <1>4, WindowTypes DEF From, Span
      <3>3. IsFiniteSet(From(f, n)') /\ Cardinality(From(f, n)') \in Nat
        BY <1>9
      <3>4. Cardinality(From(f, n)') >= 1
        BY <3>2, <3>3, FS_EmptySet
      <3> QED BY <1>4, <3>1, <3>4
    <2> QED BY <2>1, <2>2
  <1>13. ASSUME NEW k \in ThrottleKeys PROVE Backed(k)'
    <2>1. CASE k = f
      BY <1>3, <1>4, <1>12, <2>1 DEF Backed
    <2>2. CASE k # f
      BY <1>3, <2>2 DEF ThrottleInv, Backed, From, Span
    <2> QED BY <2>1, <2>2
  <1>14. ASSUME Counted(f).count > MaxAttempts PROVE Burst(f)'
    <2>1. PICK i \in 1 .. n : Cardinality(From(f, i)') >= Counted(f).count
      BY <1>12
    <2>2. Cardinality(From(f, i)') \in Nat
      BY <1>9
    <2>3. Cardinality(From(f, i)') > MaxAttempts
      BY <1>5, <1>14, <2>1, <2>2, WindowTypes
    <2>4. i \in DOMAIN failedAt'[f]
      BY <1>4
    <2> QED BY <2>3, <2>4 DEF Burst
  <1>15. ASSUME NEW t \in AttemptSlots
         PROVE  /\ attempt'[t].state # "none" => attempt'[t].key \in ThrottleKeys
                /\ \A k \in ThrottleKeys : attempt'[t].state = "exceeded" /\ attempt'[t].key = k => Burst(k)'
    <2>1. CASE t # s
      BY <1>1, <1>11, <2>1 DEF ThrottleInv, ThrottleTypes
    <2>2. CASE t = s /\ Counted(f).count > MaxAttempts
      <3>1. attempt'[t] = [attempt[s] EXCEPT !.state = "exceeded"] /\ attempt[s] \in Attempt
        BY <1>1, <2>2 DEF ThrottleInv, ThrottleTypes
      <3>2. attempt'[t].key = f
        BY <3>1 DEF Attempt
      <3> QED BY <1>14, <2>2, <3>2
    <2>3. CASE t = s /\ ~(Counted(f).count > MaxAttempts)
      <3>1. attempt'[t] = NoAttempt
        BY <1>1, <2>3 DEF ThrottleInv, ThrottleTypes
      <3> QED BY <3>1, NoAttemptType
    <2> QED BY <2>1, <2>2, <2>3
  <1>16. ASSUME NEW k \in ThrottleKeys, lock'[k] > 0 PROVE Burst(k)'
    BY <1>1, <1>11, <1>16 DEF ThrottleInv
  <1> QED BY <1>6, <1>7, <1>13, <1>15, <1>16 DEF ThrottleInv

LEMMA ThrottleStepInv == ThrottleInv /\ [ThrottleNext]_throttleVars => ThrottleInv'
  <1> SUFFICES ASSUME ThrottleInv, [ThrottleNext]_throttleVars PROVE ThrottleInv'
    OBVIOUS
  <1> USE DEF ThrottleTypes
  <1>1. CASE UNCHANGED throttleVars
    <2>1. ThrottleTypes'
      BY <1>1 DEF ThrottleInv, throttleVars
    <2> QED BY <1>1, <2>1, NoFailureInv DEF ThrottleInv, throttleVars
  <1>2. ASSUME NEW s \in AttemptSlots, RegisterFailure(s) PROVE ThrottleInv'
    <2>1. attempt[s].key \in ThrottleKeys
      BY <1>2 DEF RegisterFailure, ThrottleInv
    <2>2. Len(failedAt[attempt[s].key]) + 1 \in Nat \ {0}
      BY <2>1 DEF ThrottleInv
    <2> QED BY <1>2, <2>1, <2>2, RegisterFailureInv
  <1>3. ASSUME NEW s \in AttemptSlots, EndAttempt(s) \/ \E k \in ThrottleKeys : Precheck(s, k) PROVE ThrottleInv'
    <2>1. PICK new \in Attempt : /\ attempt' = [attempt EXCEPT ![s] = new]
                                 /\ new.state # "exceeded" /\ (new.state # "none" => new.key \in ThrottleKeys)
      <3>1. CASE EndAttempt(s)
        BY <3>1, NoAttemptType DEF EndAttempt
      <3>2. CASE \E k \in ThrottleKeys : Precheck(s, k)
        <4>1. PICK k \in ThrottleKeys : Precheck(s, k)
          BY <3>2
        <4>2. [state |-> "checked", key |-> k] \in Attempt
          BY DEF Attempt
        <4> QED BY <4>1, <4>2 DEF Precheck
      <3> QED BY <1>3, <3>1, <3>2
    <2>2. UNCHANGED <<counter, lock, throttleTime, failedAt>>
      BY <1>3 DEF EndAttempt, Precheck
    <2>3. ThrottleTypes'
      BY <2>1, <2>2 DEF ThrottleInv
    <2>4. \A t \in AttemptSlots : /\ attempt'[t].state # "none" => attempt'[t].key \in ThrottleKeys
                                  /\ attempt'[t].state = "exceeded" => attempt'[t] = attempt[t]
      BY <2>1 DEF ThrottleInv
    <2> QED BY <2>2, <2>3, <2>4, NoFailureInv DEF ThrottleInv
  <1>4. ASSUME NEW s \in AttemptSlots, SetLockout(s) PROVE ThrottleInv'
    <2>1. PICK f \in ThrottleKeys : f = attempt[s].key /\ Burst(f)
      BY <1>4 DEF SetLockout, ThrottleInv
    <2>2. lock' = [lock EXCEPT ![f] = throttleTime + LockoutSeconds] /\ attempt' = [attempt EXCEPT ![s] = NoAttempt]
          /\ UNCHANGED <<counter, throttleTime, failedAt>>
      BY <1>4, <2>1 DEF SetLockout
    <2>3. ThrottleTypes'
      BY <2>2, WindowTypes, NoAttemptType DEF ThrottleInv
    <2>4. \A t \in AttemptSlots : /\ attempt'[t].state # "none" => attempt'[t].key \in ThrottleKeys
                                  /\ attempt'[t].state = "exceeded" => attempt'[t] = attempt[t]
      BY <2>2, NoAttemptType DEF ThrottleInv
    <2>5. \A k \in ThrottleKeys : lock'[k] > 0 => lock[k] > 0 \/ Burst(k)
      BY <2>1, <2>2 DEF ThrottleInv
    <2> QED BY <2>2, <2>3, <2>4, <2>5, NoFailureInv DEF ThrottleInv
  <1>5. CASE RedisRestarts
    <2>1. ThrottleTypes'
      BY <1>5, FreshType DEF RedisRestarts, ThrottleInv
    <2>2. \A k \in ThrottleKeys : counter'[k] = Fresh /\ lock'[k] = 0
      BY <1>5 DEF RedisRestarts
    <2> QED BY <1>5, <2>1, <2>2, NoFailureInv DEF RedisRestarts, ThrottleInv
  <1>6. CASE ThrottleTick
    <2>1. ThrottleTypes'
      BY <1>6 DEF ThrottleTick, ThrottleInv
    <2> QED BY <1>6, <2>1, NoFailureInv DEF ThrottleTick, ThrottleInv
  <1> QED BY <1>1, <1>2, <1>3, <1>4, <1>5, <1>6 DEF ThrottleNext

\* Nobody is locked out but by more failures than allowed within one window, for every
\* number of attempts at once and every length of the window and the lockout.
THEOREM LockedByFailures == ThrottleSpec => []LockedOnlyForFailures
  <1>1. ThrottleInv => LockedOnlyForFailures
    <2> SUFFICES ASSUME ThrottleInv, NEW k \in ThrottleKeys, IsLocked(k) PROVE Burst(k)
      BY DEF LockedOnlyForFailures, Burst, From, Span
    <2>1. lock[k] > 0
      BY DEF IsLocked, ThrottleInv, ThrottleTypes
    <2> QED BY <2>1 DEF ThrottleInv
  <1> QED BY <1>1, ThrottleInitInv, ThrottleStepInv, PTL DEF ThrottleSpec

(* Types of the lockout *)

\* Who counts has a key, and a counter counts no more failures than there were.
ThrottleCounts ==
    /\ ThrottleTypeOK
    /\ failedAt \in [ThrottleKeys -> Seq(Nat)]
    /\ \A k \in ThrottleKeys : counter[k].count <= Len(failedAt[k])
    /\ \A s \in AttemptSlots : attempt[s].state # "none" => attempt[s].key \in ThrottleKeys

LEMMA ThrottleNumbers == /\ WindowSeconds \in Nat /\ LockoutSeconds \in Nat /\ WindowSeconds > 0
                         /\ MaxThrottleTime \in Nat /\ MaxFailures \in Nat
  BY ThrottleAssumption

LEMMA BlankTypes == /\ Fresh \in Counter /\ Fresh.count = 0
                    /\ NoAttempt \in Attempt /\ NoAttempt.state = "none"
  BY ThrottleNumbers DEF Fresh, Counter, NoAttempt, Attempt

LEMMA ThrottleInitCounts == ThrottleInit => ThrottleCounts
  <1> SUFFICES ASSUME ThrottleInit PROVE ThrottleCounts
    OBVIOUS
  <1>1. /\ counter \in [ThrottleKeys -> Counter] /\ attempt \in [AttemptSlots -> Attempt]
        /\ lock \in [ThrottleKeys -> 0 .. MaxThrottleTime + LockoutSeconds]
        /\ throttleTime \in 0 .. MaxThrottleTime
    BY BlankTypes, ThrottleNumbers DEF ThrottleInit
  <1>2. <<>> \in Seq(Nat) /\ Len(<<>>) = 0
    OBVIOUS
  <1>3. failedAt \in [ThrottleKeys -> Seq(Nat)] /\ \A k \in ThrottleKeys : Len(failedAt[k]) = 0 /\ counter[k].count = 0
    BY <1>2, BlankTypes DEF ThrottleInit
  <1>4. \A s \in AttemptSlots : attempt[s].state = "none"
    BY BlankTypes DEF ThrottleInit
  <1>5. \A k \in ThrottleKeys : Len(failedAt[k]) <= MaxFailures /\ counter[k].count <= Len(failedAt[k])
    BY <1>3, ThrottleNumbers
  <1> QED BY <1>1, <1>3, <1>4, <1>5 DEF ThrottleCounts, ThrottleTypeOK

LEMMA RegisterCounts ==
  ASSUME ThrottleCounts, NEW s \in AttemptSlots, RegisterFailure(s) PROVE ThrottleCounts'
  <1>1. PICK k : k = attempt[s].key
    OBVIOUS
  <1>2. k \in ThrottleKeys /\ attempt[s].state = "checked" /\ Len(failedAt[k]) < MaxFailures
    BY <1>1 DEF RegisterFailure, ThrottleCounts
  <1>3. counter[k] \in Counter /\ counter[k].count <= Len(failedAt[k]) /\ throttleTime \in 0 .. MaxThrottleTime
        /\ failedAt[k] \in Seq(Nat)
    BY <1>2 DEF ThrottleCounts, ThrottleTypeOK
  <1>4. Counted(k) \in Counter /\ Counted(k).count <= Len(failedAt[k]) + 1
    <2>1. counter[k].count \in Nat /\ counter[k].count + 1 <= MaxFailures /\ counter[k].count + 1 <= Len(failedAt[k]) + 1
      BY <1>2, <1>3, ThrottleNumbers DEF Counter
    <2>2. [counter[k] EXCEPT !.count = @ + 1] \in Counter
      <3>1. counter[k].count + 1 \in 0 .. MaxFailures
        BY <2>1, ThrottleNumbers
      <3> QED BY <1>3, <3>1 DEF Counter
    <2>3. [counter[k] EXCEPT !.count = @ + 1].count = counter[k].count + 1
      BY <1>3 DEF Counter
    <2>4. throttleTime + WindowSeconds \in 0 .. MaxThrottleTime + WindowSeconds /\ 1 \in 0 .. MaxFailures
      BY <1>3, <2>1, ThrottleNumbers
    <2>5. [count |-> 1, until |-> throttleTime + WindowSeconds] \in Counter
      BY <2>4 DEF Counter
    <2>6. 1 <= Len(failedAt[k]) + 1
      BY <1>3
    <2>7. PICK c1, c2 : c1 = [counter[k] EXCEPT !.count = @ + 1] /\ c2 = [count |-> 1, until |-> throttleTime + WindowSeconds]
      OBVIOUS
    <2>8. c1 \in Counter /\ c1.count <= Len(failedAt[k]) + 1 /\ c2 \in Counter /\ c2.count <= Len(failedAt[k]) + 1
      BY <2>1, <2>2, <2>3, <2>5, <2>6, <2>7
    <2>9. Counted(k) \in {c1, c2}
      BY <2>7 DEF Counted
    <2> QED BY <2>8, <2>9
  <1>5. PICK c \in Counter : c = Counted(k) /\ c.count <= Len(failedAt[k]) + 1
    BY <1>4
  <1>6. counter' = [counter EXCEPT ![k] = c]
    BY <1>1, <1>5 DEF RegisterFailure
  <1>7. counter' \in [ThrottleKeys -> Counter]
    BY <1>6 DEF ThrottleCounts, ThrottleTypeOK
  <1>8. PICK new \in Attempt : attempt' = [attempt EXCEPT ![s] = new] /\ (new.state # "none" => new.key = k)
    <2>1. [attempt[s] EXCEPT !.state = "exceeded"] \in Attempt /\ [attempt[s] EXCEPT !.state = "exceeded"].key = k
      BY <1>1 DEF ThrottleCounts, ThrottleTypeOK, Attempt
    <2>2. \/ attempt' = [attempt EXCEPT ![s] = [attempt[s] EXCEPT !.state = "exceeded"]]
          \/ attempt' = [attempt EXCEPT ![s] = NoAttempt]
      BY DEF RegisterFailure
    <2> QED BY <2>1, <2>2, BlankTypes
  <1>9. attempt' \in [AttemptSlots -> Attempt] /\ \A t \in AttemptSlots : attempt'[t].state # "none" => attempt'[t].key \in ThrottleKeys
    BY <1>2, <1>8 DEF ThrottleCounts, ThrottleTypeOK
  <1>10. PICK f \in Seq(Nat) : f = Append(failedAt[k], throttleTime) /\ Len(f) = Len(failedAt[k]) + 1
    <2>1. throttleTime \in Nat
      BY <1>3, ThrottleNumbers
    <2>2. Append(failedAt[k], throttleTime) \in Seq(Nat) /\ Len(Append(failedAt[k], throttleTime)) = Len(failedAt[k]) + 1
      BY <1>3, <2>1
    <2> QED BY <2>2
  <1>11. failedAt' = [failedAt EXCEPT ![k] = f]
    BY <1>1, <1>10 DEF RegisterFailure
  <1>12. failedAt' \in [ThrottleKeys -> Seq(Nat)]
    BY <1>10, <1>11 DEF ThrottleCounts
  <1>13. ASSUME NEW l \in ThrottleKeys
         PROVE  Len(failedAt'[l]) <= MaxFailures /\ counter'[l].count <= Len(failedAt'[l])
    <2>1. CASE l = k
      <3>1. failedAt'[l] = f /\ counter'[l] = c
        BY <1>2, <1>6, <1>11, <2>1 DEF ThrottleCounts, ThrottleTypeOK
      <3>2. Len(failedAt[k]) \in Nat /\ Len(f) <= MaxFailures
        BY <1>2, <1>3, <1>10, ThrottleNumbers
      <3> QED BY <1>5, <1>10, <3>1, <3>2
    <2>2. CASE l # k
      <3>1. failedAt'[l] = failedAt[l] /\ counter'[l] = counter[l]
        BY <1>6, <1>11, <2>2 DEF ThrottleCounts, ThrottleTypeOK
      <3> QED BY <3>1 DEF ThrottleCounts, ThrottleTypeOK
    <2> QED BY <2>1, <2>2
  <1>14. UNCHANGED <<lock, throttleTime>>
    BY DEF RegisterFailure
  <1> QED BY <1>7, <1>9, <1>12, <1>13, <1>14 DEF ThrottleCounts, ThrottleTypeOK

LEMMA ThrottleStepCounts == ThrottleCounts /\ [ThrottleNext]_throttleVars => ThrottleCounts'
  <1> SUFFICES ASSUME ThrottleCounts, [ThrottleNext]_throttleVars PROVE ThrottleCounts'
    OBVIOUS
  <1>1. ASSUME NEW s \in AttemptSlots, RegisterFailure(s) PROVE ThrottleCounts'
    BY <1>1, RegisterCounts
  <1>2. ASSUME NEW s \in AttemptSlots, NEW k \in ThrottleKeys, Precheck(s, k) PROVE ThrottleCounts'
    <2>1. [state |-> "checked", key |-> k] \in Attempt
      BY DEF Attempt
    <2> QED BY <1>2, <2>1 DEF Precheck, ThrottleCounts, ThrottleTypeOK
  <1>3. ASSUME NEW s \in AttemptSlots, EndAttempt(s) PROVE ThrottleCounts'
    BY <1>3, BlankTypes DEF EndAttempt, ThrottleCounts, ThrottleTypeOK
  <1>4. ASSUME NEW s \in AttemptSlots, SetLockout(s) PROVE ThrottleCounts'
    <2>1. throttleTime + LockoutSeconds \in 0 .. MaxThrottleTime + LockoutSeconds
      BY ThrottleNumbers DEF ThrottleCounts, ThrottleTypeOK
    <2>2. lock' \in [ThrottleKeys -> 0 .. MaxThrottleTime + LockoutSeconds]
      BY <1>4, <2>1 DEF SetLockout, ThrottleCounts, ThrottleTypeOK
    <2> QED BY <1>4, <2>2, BlankTypes DEF SetLockout, ThrottleCounts, ThrottleTypeOK
  <1>5. CASE RedisRestarts
    <2>1. /\ counter' \in [ThrottleKeys -> Counter]
          /\ lock' \in [ThrottleKeys -> 0 .. MaxThrottleTime + LockoutSeconds]
      BY <1>5, BlankTypes, ThrottleNumbers DEF RedisRestarts
    <2>2. \A k \in ThrottleKeys : counter'[k].count = 0 /\ Len(failedAt[k]) \in Nat
      BY <1>5, BlankTypes DEF RedisRestarts, ThrottleCounts
    <2>3. \A k \in ThrottleKeys : counter'[k].count <= Len(failedAt[k])
      BY <2>2
    <2> QED BY <1>5, <2>1, <2>3 DEF RedisRestarts, ThrottleCounts, ThrottleTypeOK
  <1>6. CASE ThrottleTick
    <2>1. throttleTime' \in 0 .. MaxThrottleTime
      BY <1>6, ThrottleNumbers DEF ThrottleTick, ThrottleCounts, ThrottleTypeOK
    <2> QED BY <1>6, <2>1 DEF ThrottleTick, ThrottleCounts, ThrottleTypeOK
  <1>7. CASE UNCHANGED throttleVars
    BY <1>7 DEF throttleVars, ThrottleCounts, ThrottleTypeOK
  <1> QED BY <1>1, <1>2, <1>3, <1>4, <1>5, <1>6, <1>7 DEF ThrottleNext

\* Counters, locks and attempts stay well formed, whatever attempts overlap and however
\* often Redis restarts: a counter never counts more failures than there were (ThrottleCounts).
THEOREM ThrottleTypesHold == ThrottleSpec => []ThrottleTypeOK
  <1>1. ThrottleCounts => ThrottleTypeOK
    BY DEF ThrottleCounts
  <1> QED BY ThrottleInitCounts, ThrottleStepCounts, <1>1, PTL DEF ThrottleSpec
-------------------------------------------------------------------------------
(* Numbers of new rows *)

\* The kth of a finite set of numbers.
LEMMA KthNumber ==
  ASSUME NEW S, IsFiniteSet(S), S \subseteq Nat, NEW k \in Nat \ {0}, k <= Cardinality(S)
  PROVE  \E b \in S : Cardinality({c \in S : c <= b}) = k
  <1> DEFINE Closed(T) == \A x \in T, y \in S : y <= x => y \in T
             Fam == {T \in SUBSET S : Closed(T) /\ k <= Cardinality(T)}
  <1>1. S \in Fam
    OBVIOUS
  <1>2. PICK T : LeastOf(T, Fam)
    <2>1. FamilyOf(Fam, S)
      BY <1>1 DEF FamilyOf
    <2> HIDE DEF Fam
    <2> QED BY <2>1, LeastSubset
  <1>3. IsFiniteSet(T) /\ Cardinality(T) \in Nat /\ T \subseteq Nat /\ Closed(T) /\ k <= Cardinality(T)
    BY <1>2, FS_Subset, FS_CardinalityType DEF LeastOf
  <1>4. T # {}
    BY <1>3, FS_EmptySet
  <1>5. PICK m \in T : \A c \in T : c <= m
    BY <1>3, <1>4, Greatest
  <1>6. {c \in S : c <= m} = T
    BY <1>2, <1>3, <1>5 DEF LeastOf
  <1>7. Cardinality(T) = k
    <2> SUFFICES ASSUME k <= Cardinality(T) - 1 PROVE FALSE
      BY <1>3
    <2>1. Cardinality(T \ {m}) = Cardinality(T) - 1
      BY <1>3, FS_RemoveElement
    <2>2. Closed(T \ {m})
      BY <1>3, <1>5
    <2>3. T \ {m} \in Fam
      BY <1>2, <2>1, <2>2, <1>3 DEF LeastOf
    <2>4. T \ {m} \subseteq T /\ T \ {m} # T
      BY <1>5
    <2> HIDE DEF Fam
    <2> QED BY <1>2, <2>3, <2>4 DEF LeastOf
  <1> QED BY <1>6, <1>7

\* A new grant takes a number that is free.
LEMMA NumberIsFree ==
  ASSUME NEW new \in SUBSET Grants, NEW g \in new, Cardinality(FreeBindings) >= Cardinality(new)
  PROVE  NumberFor(g, new) \in FreeBindings
  <1> DEFINE upto == {h \in new : h <= g}
             k == Cardinality(upto)
  <1>1. IsFiniteSet(FreeBindings) /\ FreeBindings \subseteq Nat /\ Cardinality(FreeBindings) \in Nat
    BY SsoAssumption, FS_Subset, FS_CardinalityType DEF FreeBindings
  <1>2. IsFiniteSet(new) /\ Cardinality(new) \in Nat /\ g \in Nat
    BY SsoAssumption, FS_Subset, FS_CardinalityType
  <1>3. IsFiniteSet(upto) /\ k \in Nat /\ k <= Cardinality(new)
    BY <1>2, FS_Subset, FS_CardinalityType
  <1>4. k # 0
    <2>1. g \in upto
      BY <1>2
    <2> QED BY <1>3, <2>1, FS_EmptySet
  <1>5. k \in Nat \ {0} /\ k <= Cardinality(FreeBindings)
    BY <1>1, <1>2, <1>3, <1>4
  <1> HIDE DEF k
  <1>6. \E b \in FreeBindings : Cardinality({c \in FreeBindings : c <= b}) = k
    BY <1>1, <1>5, KthNumber
  <1> QED BY <1>6 DEF NumberFor, k

-------------------------------------------------------------------------------
(* Accounts and bindings: types *)

\* A login that has done its work: who, whose account, and the rows before and after.
LoginRow(r) == r.busy =>
    /\ r.by \in {NoPerson} \cup People /\ r.user \in Accounts /\ r.desired \in SUBSET Grants
    /\ r.acc \in [Accounts -> Account] /\ r.acc2 \in [Accounts -> Account]
    /\ r.bind \in [BindingIds -> Binding] /\ r.bind2 \in [BindingIds -> Binding]

LoginTypes ==
    /\ SsoTypeOK /\ loginMixed \in BOOLEAN /\ DOMAIN loginReq = LoginSlots
    /\ \A s \in LoginSlots : loginReq[s].busy \in BOOLEAN /\ LoginRow(loginReq[s])

LEMMA NoLoginIdle == NoLogin.busy = FALSE
  BY DEF NoLogin

LEMMA NoBindingRow == NoBinding \in Binding /\ NoBinding.there = FALSE
  BY DEF NoBinding, Binding

LEMMA PersonIsSomebody ==
  ASSUME NEW e \in People PROVE e[1] \in Providers /\ e # NoPerson
  BY DEF People, NoPerson

\* Rows a transaction writes are rows.
LEMMA FlushAccount ==
  ASSUME NEW cur \in Account, NEW snap \in Account, NEW new \in Account
  PROVE  Flush(cur, snap, new) \in Account
  <1>1. DOMAIN cur = {"there", "uid", "person", "active", "admin"}
    BY DEF Account
  <1>2. Flush(cur, snap, new) = [there |-> IF new.there = snap.there THEN cur.there ELSE new.there,
                                 uid |-> IF new.uid = snap.uid THEN cur.uid ELSE new.uid,
                                 person |-> IF new.person = snap.person THEN cur.person ELSE new.person,
                                 active |-> IF new.active = snap.active THEN cur.active ELSE new.active,
                                 admin |-> IF new.admin = snap.admin THEN cur.admin ELSE new.admin]
    BY <1>1 DEF Flush
  <1> QED BY <1>2 DEF Account

LEMMA FlushBinding ==
  ASSUME NEW cur \in Binding, NEW snap \in Binding, NEW new \in Binding
  PROVE  /\ Flush(cur, snap, new) \in Binding
         /\ cur = snap => Flush(cur, snap, new) = new
  <1>1. DOMAIN cur = {"there", "user", "grant", "by"}
    BY DEF Binding
  <1>2. Flush(cur, snap, new) = [there |-> IF new.there = snap.there THEN cur.there ELSE new.there,
                                 user |-> IF new.user = snap.user THEN cur.user ELSE new.user,
                                 grant |-> IF new.grant = snap.grant THEN cur.grant ELSE new.grant,
                                 by |-> IF new.by = snap.by THEN cur.by ELSE new.by]
    BY <1>1 DEF Flush
  <1>3. Flush(cur, snap, new) \in Binding
    BY <1>2 DEF Binding
  <1>4. cur = snap => Flush(cur, snap, new) = new
    BY <1>2 DEF Binding
  <1> QED BY <1>3, <1>4

LEMMA FlushTables ==
  /\ \A cur, snap, new \in [Accounts -> Account] : FlushRows(cur, snap, new) \in [Accounts -> Account]
  /\ \A cur, snap, new \in [BindingIds -> Binding] : FlushRows(cur, snap, new) \in [BindingIds -> Binding]
  /\ \A cur, new \in [BindingIds -> Binding] : FlushRows(cur, cur, new) = new
  <1>1. ASSUME NEW cur \in [Accounts -> Account], NEW snap \in [Accounts -> Account], NEW new \in [Accounts -> Account]
        PROVE  FlushRows(cur, snap, new) \in [Accounts -> Account]
    BY FlushAccount DEF FlushRows
  <1>2. ASSUME NEW cur \in [BindingIds -> Binding], NEW snap \in [BindingIds -> Binding],
               NEW new \in [BindingIds -> Binding]
        PROVE  FlushRows(cur, snap, new) \in [BindingIds -> Binding]
    BY FlushBinding DEF FlushRows
  <1>3. ASSUME NEW cur \in [BindingIds -> Binding], NEW new \in [BindingIds -> Binding]
        PROVE  FlushRows(cur, cur, new) = new
    <2>1. \A b \in BindingIds : FlushRows(cur, cur, new)[b] = new[b]
      BY FlushBinding DEF FlushRows
    <2> QED BY <2>1 DEF FlushRows
  <1> QED BY <1>1, <1>2, <1>3

LEMMA ServeLoginTypes ==
  ASSUME LoginTypes, NEW s \in LoginSlots, NEW person \in {NoPerson} \cup People, NEW u \in Accounts,
         NEW desired \in SUBSET Grants, NEW accounts \in [Accounts -> Account],
         NEW bindings \in [BindingIds -> Binding],
         ServeLogin(s, person, u, desired, accounts, bindings)
  PROVE  LoginTypes'
  <1> DEFINE r == [busy |-> TRUE, by |-> person, user |-> u, desired |-> desired,
                   acc |-> account, acc2 |-> accounts, bind |-> binding, bind2 |-> bindings]
  <1>1. /\ loginReq' = [loginReq EXCEPT ![s] = r] /\ loginMixed' \in BOOLEAN
        /\ UNCHANGED <<account, link, mappings, binding, claimed, byHand>>
    BY DEF ServeLogin, LoginTypes
  <1>2. r.busy = TRUE /\ LoginRow(r)
    BY DEF LoginRow, LoginTypes, SsoTypeOK
  <1> HIDE DEF r
  <1>3. /\ DOMAIN loginReq' = LoginSlots
        /\ \A t \in LoginSlots : loginReq'[t] = IF t = s THEN r ELSE loginReq[t]
    BY <1>1 DEF LoginTypes
  <1>4. \A t \in LoginSlots : loginReq'[t].busy \in BOOLEAN /\ LoginRow(loginReq'[t])
    BY <1>2, <1>3 DEF LoginTypes
  <1>5. \A t \in LoginSlots : loginReq'[t].busy => /\ loginReq'[t].acc2 \in [Accounts -> Account]
                                                   /\ loginReq'[t].bind2 \in [BindingIds -> Binding]
    BY <1>4 DEF LoginRow
  <1>6. \A t \in LoginSlots : LoginRow(loginReq[t])'
    BY <1>4 DEF LoginRow
  <1>7. SsoTypeOK'
    BY <1>1, <1>5 DEF LoginTypes, SsoTypeOK
  <1> QED BY <1>1, <1>3, <1>4, <1>6, <1>7 DEF LoginTypes

LEMMA RegisterTypes == ASSUME LoginTypes, NEW s \in LoginSlots, Register(s) PROVE LoginTypes'
  <1>1. PICK u \in FreeAccounts :
          ServeLogin(s, NoPerson, u, {}, [account EXCEPT ![u] = NewAccount(Generated, NoPerson)], binding)
    BY DEF Register
  <1>2. u \in Accounts
    BY DEF FreeAccounts
  <1>3. NewAccount(Generated, NoPerson) \in Account
    BY DEF NewAccount, Account
  <1>4. [account EXCEPT ![u] = NewAccount(Generated, NoPerson)] \in [Accounts -> Account]
    BY <1>2, <1>3 DEF LoginTypes, SsoTypeOK
  <1>5. binding \in [BindingIds -> Binding]
    BY DEF LoginTypes, SsoTypeOK
  <1> QED BY <1>1, <1>2, <1>4, <1>5, ServeLoginTypes

\* What the mappings of a provider leave: rows, of which only new ones take a number, and
\* only from the free.
LEMMA AppliedRows ==
  ASSUME LoginTypes, NEW p \in Providers, NEW u \in Accounts, NEW desired \in SUBSET Grants,
         NEW seen \in SUBSET UNION {Having(u, g) : g \in desired},
         Cardinality(FreeBindings) >= Cardinality({g \in desired : Having(u, g) = {}})
  PROVE  LET rows == MappingsApplied(p, u, desired, seen) IN
         /\ rows \in [BindingIds -> Binding]
         /\ \A b \in BindingIds :
              \/ b \in FreeBindings /\ rows[b].by = p /\ rows[b].user = u /\ rows[b].grant \in desired
              \/ /\ b \in seen /\ binding[b].by # Hand /\ binding[b].user = u /\ binding[b].grant \in desired
                 /\ rows[b] = [binding[b] EXCEPT !.by = p]
              \/ rows[b] = NoBinding /\ binding[b].by = p
              \/ rows[b] = binding[b] /\ (binding[b].user = u /\ binding[b].by = p => binding[b].grant \in desired)
  <1> DEFINE new == {g \in desired : Having(u, g) = {}}
             added == {<<NumberFor(g, new), g>> : g \in new}
             Row(b) == IF \E g \in new : <<b, g>> \in added
                       THEN [there |-> TRUE, user |-> u, grant |-> CHOOSE g \in new : <<b, g>> \in added, by |-> p]
                       ELSE IF b \in seen /\ binding[b].by # Hand THEN [binding[b] EXCEPT !.by = p]
                       ELSE Kept(p, u, desired)[b]
             rows == MappingsApplied(p, u, desired, seen)
             Cases(b) ==
              \/ b \in FreeBindings /\ rows[b].by = p /\ rows[b].user = u /\ rows[b].grant \in desired
              \/ /\ b \in seen /\ binding[b].by # Hand /\ binding[b].user = u /\ binding[b].grant \in desired
                 /\ rows[b] = [binding[b] EXCEPT !.by = p]
              \/ rows[b] = NoBinding /\ binding[b].by = p
              \/ rows[b] = binding[b] /\ (binding[b].user = u /\ binding[b].by = p => binding[b].grant \in desired)
  <1>1. rows = [b \in BindingIds |-> Row(b)]
    BY DEF MappingsApplied
  <1>2. \A b \in BindingIds : binding[b] \in Binding
    BY DEF LoginTypes, SsoTypeOK
  <1>3. ASSUME NEW b \in BindingIds PROVE rows[b] \in Binding /\ Cases(b)
    <2>0. rows[b] = Row(b)
      BY <1>1
    <2>1. CASE \E g \in new : <<b, g>> \in added
      <3>1. PICK g \in new : <<b, g>> \in added
        BY <2>1
      <3>2. b = NumberFor(g, new)
        <4>1. PICK h \in new : <<b, g>> = <<NumberFor(h, new), h>>
          BY <3>1
        <4> QED BY <4>1
      <3>3. b \in FreeBindings
        <4>1. new \in SUBSET Grants
          OBVIOUS
        <4> HIDE DEF new
        <4> QED BY <3>2, <4>1, NumberIsFree DEF new
      <3> DEFINE c == CHOOSE h \in new : <<b, h>> \in added
      <3>4. c \in new
        BY <2>1
      <3>5. rows[b] = [there |-> TRUE, user |-> u, grant |-> c, by |-> p]
        BY <2>0, <2>1
      <3> HIDE DEF c
      <3>6. c \in desired /\ c \in Grants
        BY <3>4
      <3>7. rows[b] \in Binding /\ rows[b].by = p /\ rows[b].user = u /\ rows[b].grant = c
        BY <3>5, <3>6 DEF Binding
      <3> QED BY <3>3, <3>6, <3>7
    <2>2. CASE ~(\E g \in new : <<b, g>> \in added) /\ b \in seen /\ binding[b].by # Hand
      <3>1. rows[b] = [binding[b] EXCEPT !.by = p]
        BY <2>0, <2>2
      <3>2. PICK g \in desired : b \in Having(u, g)
        BY <2>2
      <3>3. binding[b].user = u /\ binding[b].grant = g
        BY <3>2 DEF Having
      <3>4. rows[b] \in Binding
        BY <1>2, <3>1 DEF Binding
      <3> QED BY <2>2, <3>1, <3>3, <3>4
    <2>3. CASE ~(\E g \in new : <<b, g>> \in added) /\ ~(b \in seen /\ binding[b].by # Hand)
      <3>1. rows[b] = Kept(p, u, desired)[b]
        BY <2>0, <2>3
      <3>2. rows[b] = IF binding[b].user = u /\ binding[b].by = p /\ binding[b].grant \notin desired
                      THEN NoBinding ELSE binding[b]
        BY <3>1 DEF Kept
      <3> QED BY <1>2, <3>2, NoBindingRow
    <2> QED BY <2>1, <2>2, <2>3
  <1>4. rows \in [BindingIds -> Binding]
    BY <1>1, <1>3
  <1> QED BY <1>3, <1>4

\* What a login through a provider hands over to its transaction.
LEMMA ProviderLoginServes ==
  ASSUME LoginTypes, NEW s \in LoginSlots, NEW person \in People, NEW uid \in {NoUid} \cup Uids,
         NEW groups \in SUBSET Groups, ProviderLogin(s, person, uid, groups)
  PROVE  \E u \in Accounts, desired \in SUBSET Grants, accounts \in [Accounts -> Account] :
         \E seen \in SUBSET UNION {Having(u, g) : g \in desired} :
           /\ Cardinality(FreeBindings) >= Cardinality({g \in desired : Having(u, g) = {}})
           /\ ServeLogin(s, person, u, desired, accounts, MappingsApplied(person[1], u, desired, seen))
  <1> DEFINE desired == Desired(person[1], groups)
             found == Known(person, uid)
             Accounts2(u) == IF found = {}
                     THEN [account EXCEPT ![u] = NewAccount(IF uid = NoUid THEN Generated ELSE uid, person)]
                     ELSE [account EXCEPT ![u].person = IF @ = NoPerson THEN person ELSE @]
  <1>1. PICK u \in IF found = {} THEN FreeAccounts ELSE found :
           /\ Cardinality(FreeBindings) >= Cardinality({g \in desired : Having(u, g) = {}})
           /\ \E seen \in SUBSET UNION {Having(u, g) : g \in desired} :
                ServeLogin(s, person, u, desired, Accounts2(u), MappingsApplied(person[1], u, desired, seen))
    BY DEF ProviderLogin
  <1>2. account \in [Accounts -> Account] /\ link \in [People -> {NoAccount} \cup Accounts] /\ mappings \subseteq Mapping
    BY DEF LoginTypes, SsoTypeOK
  <1>3. u \in Accounts
    <2>1. Present(account) \subseteq Accounts /\ FreeAccounts \subseteq Accounts
      BY <1>2 DEF Present, FreeAccounts
    <2>2. found \subseteq Accounts
      BY <1>2, <2>1 DEF Known
    <2> QED BY <1>1, <2>1, <2>2
  <1>4. desired \in SUBSET Grants
    BY <1>2 DEF Desired, Mapping
  <1>5. Accounts2(u) \in [Accounts -> Account]
    <2>1. NewAccount(IF uid = NoUid THEN Generated ELSE uid, person) \in Account
      BY DEF NewAccount, Account
    <2>2. account[u] \in Account
      BY <1>2, <1>3
    <2>3. [account[u] EXCEPT !.person = IF @ = NoPerson THEN person ELSE @] \in Account
      BY <2>2 DEF Account
    <2> QED BY <1>2, <1>3, <2>1, <2>3
  <1> HIDE DEF desired, found, Accounts2
  <1>6. PICK seen \in SUBSET UNION {Having(u, g) : g \in desired} :
          ServeLogin(s, person, u, desired, Accounts2(u), MappingsApplied(person[1], u, desired, seen))
    BY <1>1
  <1> QED BY <1>1, <1>3, <1>4, <1>5, <1>6

LEMMA ProviderLoginTypes ==
  ASSUME LoginTypes, NEW s \in LoginSlots, NEW person \in People, NEW uid \in {NoUid} \cup Uids,
         NEW groups \in SUBSET Groups, ProviderLogin(s, person, uid, groups)
  PROVE  LoginTypes'
  <1>0. PICK u \in Accounts, desired \in SUBSET Grants, accounts \in [Accounts -> Account] :
         \E seen \in SUBSET UNION {Having(u, g) : g \in desired} :
           /\ Cardinality(FreeBindings) >= Cardinality({g \in desired : Having(u, g) = {}})
           /\ ServeLogin(s, person, u, desired, accounts, MappingsApplied(person[1], u, desired, seen))
    BY ProviderLoginServes
  <1>1. PICK seen \in SUBSET UNION {Having(u, g) : g \in desired} :
           /\ Cardinality(FreeBindings) >= Cardinality({g \in desired : Having(u, g) = {}})
           /\ ServeLogin(s, person, u, desired, accounts, MappingsApplied(person[1], u, desired, seen))
    BY <1>0
  <1>2. person[1] \in Providers
    BY PersonIsSomebody
  <1>3. MappingsApplied(person[1], u, desired, seen) \in [BindingIds -> Binding]
    BY <1>1, <1>2, AppliedRows
  <1> QED BY <1>1, <1>3, ServeLoginTypes

\* A request that ends, with what it leaves.
LEMMA EndLoginTypes ==
  ASSUME LoginTypes, NEW s \in LoginSlots, loginReq' = [loginReq EXCEPT ![s] = NoLogin],
         loginMixed' = loginMixed, mappings' = mappings, byHand' = byHand,
         account' \in [Accounts -> Account], binding' \in [BindingIds -> Binding],
         link' \in [People -> {NoAccount} \cup Accounts], claimed' \in [Providers \X Accounts -> SUBSET Grants]
  PROVE  LoginTypes'
  <1>1. /\ DOMAIN loginReq' = LoginSlots
        /\ \A t \in LoginSlots : loginReq'[t] = IF t = s THEN NoLogin ELSE loginReq[t]
    BY DEF LoginTypes
  <1>2. \A t \in LoginSlots : loginReq'[t].busy \in BOOLEAN /\ LoginRow(loginReq'[t])
    BY <1>1, NoLoginIdle DEF LoginTypes, LoginRow
  <1>3. \A t \in LoginSlots : LoginRow(loginReq[t])'
    BY <1>2 DEF LoginRow
  <1>4. \A t \in LoginSlots : loginReq'[t].busy => /\ loginReq'[t].acc2 \in [Accounts -> Account]
                                                   /\ loginReq'[t].bind2 \in [BindingIds -> Binding]
    BY <1>2 DEF LoginRow
  <1>5. SsoTypeOK'
    BY <1>4 DEF LoginTypes, SsoTypeOK
  <1> QED BY <1>1, <1>2, <1>3, <1>5 DEF LoginTypes

LEMMA CommitLoginTypes == ASSUME LoginTypes, NEW s \in LoginSlots, CommitLogin(s) PROVE LoginTypes'
  <1> DEFINE r == loginReq[s]
  <1>1. r.busy /\ r.busy \in BOOLEAN /\ LoginRow(r)
    BY DEF CommitLogin, LoginTypes
  <1>2. /\ r.by \in {NoPerson} \cup People /\ r.user \in Accounts /\ r.desired \in SUBSET Grants
        /\ r.acc \in [Accounts -> Account] /\ r.acc2 \in [Accounts -> Account]
        /\ r.bind \in [BindingIds -> Binding] /\ r.bind2 \in [BindingIds -> Binding]
    BY <1>1 DEF LoginRow
  <1>3. /\ account' = FlushRows(account, r.acc, r.acc2) /\ binding' = FlushRows(binding, r.bind, r.bind2)
        /\ link' = IF r.by = NoPerson THEN link ELSE [link EXCEPT ![r.by] = r.user]
        /\ claimed' = IF r.by = NoPerson THEN claimed ELSE [claimed EXCEPT ![<<r.by[1], r.user>>] = r.desired]
        /\ loginReq' = [loginReq EXCEPT ![s] = NoLogin]
        /\ UNCHANGED <<mappings, byHand, loginMixed>>
    BY DEF CommitLogin
  <1>4. account' \in [Accounts -> Account] /\ binding' \in [BindingIds -> Binding]
    BY <1>2, <1>3, FlushTables DEF LoginTypes, SsoTypeOK
  <1>5. link' \in [People -> {NoAccount} \cup Accounts]
    BY <1>2, <1>3 DEF LoginTypes, SsoTypeOK
  <1>6. claimed' \in [Providers \X Accounts -> SUBSET Grants]
    BY <1>2, <1>3 DEF LoginTypes, SsoTypeOK
  <1> QED BY <1>3, <1>4, <1>5, <1>6, EndLoginTypes

LEMMA RefuseLoginTypes == ASSUME LoginTypes, NEW s \in LoginSlots, RefuseLogin(s) PROVE LoginTypes'
  <1>1. loginReq' = [loginReq EXCEPT ![s] = NoLogin]
        /\ UNCHANGED <<account, link, mappings, binding, claimed, byHand, loginMixed>>
    BY DEF RefuseLogin
  <1> QED BY <1>1, EndLoginTypes DEF LoginTypes, SsoTypeOK

\* Administrators write one row.
LEMMA AdminTypes ==
  ASSUME LoginTypes, Meanwhile, loginReq' = loginReq, link' = link, claimed' = claimed,
         account' \in [Accounts -> Account], binding' \in [BindingIds -> Binding],
         mappings' \subseteq Mapping, byHand' \subseteq BindingIds
  PROVE  LoginTypes'
  <1>1. loginMixed' \in BOOLEAN
    BY DEF Meanwhile, LoginTypes
  <1>2. \A t \in LoginSlots : LoginRow(loginReq[t])'
    BY DEF LoginTypes, LoginRow
  <1>3. SsoTypeOK'
    BY DEF LoginTypes, SsoTypeOK
  <1> QED BY <1>1, <1>2, <1>3 DEF LoginTypes

LEMMA AdminsTypes ==
  ASSUME LoginTypes
  PROVE  /\ \A m \in Mapping : EditMappings(m) => LoginTypes'
         /\ \A u \in Accounts : Disable(u) => LoginTypes'
         /\ \A u \in Accounts, g \in Grants : Bind(u, g) => LoginTypes'
         /\ \A b \in BindingIds : Unbind(b) => LoginTypes'
  <1>0. /\ account \in [Accounts -> Account] /\ binding \in [BindingIds -> Binding]
        /\ mappings \subseteq Mapping /\ byHand \subseteq BindingIds
    BY DEF LoginTypes, SsoTypeOK
  <1>1. ASSUME NEW m \in Mapping, EditMappings(m) PROVE LoginTypes'
    <2>1. mappings' \subseteq Mapping /\ Meanwhile /\ UNCHANGED <<account, link, binding, loginReq, claimed, byHand>>
      BY <1>0, <1>1 DEF EditMappings
    <2> QED BY <1>0, <2>1, AdminTypes
  <1>2. ASSUME NEW u \in Accounts, Disable(u) PROVE LoginTypes'
    <2>1. account[u] \in Account
      BY <1>0
    <2>2. [account[u] EXCEPT !.active = FALSE] \in Account
      BY <2>1 DEF Account
    <2>3. account' = [account EXCEPT ![u].active = FALSE]
          /\ Meanwhile /\ UNCHANGED <<link, mappings, binding, loginReq, claimed, byHand>>
      BY <1>2 DEF Disable
    <2>4. account' \in [Accounts -> Account]
      BY <1>0, <2>2, <2>3
    <2> QED BY <1>0, <2>3, <2>4, AdminTypes
  <1>3. ASSUME NEW u \in Accounts, NEW g \in Grants, Bind(u, g) PROVE LoginTypes'
    <2>1. PICK b \in FreeBindings :
            /\ binding' = [binding EXCEPT ![b] = [there |-> TRUE, user |-> u, grant |-> g, by |-> Hand]]
            /\ byHand' = byHand \cup {b}
      BY <1>3 DEF Bind
    <2>2. b \in BindingIds
      BY DEF FreeBindings
    <2>3. [there |-> TRUE, user |-> u, grant |-> g, by |-> Hand] \in Binding
      BY DEF Binding
    <2>4. binding' \in [BindingIds -> Binding] /\ byHand' \subseteq BindingIds
      BY <1>0, <2>1, <2>2, <2>3
    <2>5. Meanwhile /\ UNCHANGED <<account, link, mappings, loginReq, claimed>>
      BY <1>3 DEF Bind
    <2> QED BY <1>0, <2>4, <2>5, AdminTypes
  <1>4. ASSUME NEW b \in BindingIds, Unbind(b) PROVE LoginTypes'
    <2>1. /\ binding' = [binding EXCEPT ![b] = NoBinding] /\ byHand' = byHand \ {b}
          /\ Meanwhile /\ UNCHANGED <<account, link, mappings, loginReq, claimed>>
      BY <1>4 DEF Unbind
    <2>2. binding' \in [BindingIds -> Binding] /\ byHand' \subseteq BindingIds
      BY <1>0, <2>1, NoBindingRow
    <2> QED BY <1>0, <2>1, <2>2, AdminTypes
  <1> QED BY <1>1, <1>2, <1>3, <1>4

-------------------------------------------------------------------------------
(* Bindings follow logins *)

\* Rows that a login made are what claims say; rows made by hand are there.
Follows(rows, claims) ==
    \A b \in BindingIds :
        /\ b \in byHand => rows[b].there /\ rows[b].by = Hand
        /\ rows[b].there /\ b \notin byHand =>
             /\ rows[b].by \in Providers
             /\ rows[b].grant \in claims[<<rows[b].by, rows[b].user>>]

\* What a login will have claimed when it has committed.
ClaimedThen(r) == IF r.by = NoPerson THEN claimed ELSE [claimed EXCEPT ![<<r.by[1], r.user>>] = r.desired]

OneLogin ==
    /\ \A s, t \in LoginSlots : loginReq[s].busy /\ loginReq[t].busy => s = t
    /\ Follows(binding, claimed)
    /\ \A s \in LoginSlots : loginReq[s].busy =>
          loginReq[s].bind = binding /\ Follows(loginReq[s].bind2, ClaimedThen(loginReq[s]))

SsoInv == LoginTypes /\ (~loginMixed => OneLogin)

\* A request that is served alone.
LEMMA ServedFollows ==
  ASSUME SsoInv, LoginTypes', NEW s \in LoginSlots, NEW person \in {NoPerson} \cup People, NEW u \in Accounts,
         NEW desired, NEW accounts, NEW bindings, ServeLogin(s, person, u, desired, accounts, bindings),
         Follows(binding, claimed) =>
            Follows(bindings, IF person = NoPerson THEN claimed ELSE [claimed EXCEPT ![<<person[1], u>>] = desired])
  PROVE  SsoInv'
  <1> SUFFICES ASSUME ~loginMixed' PROVE OneLogin'
    BY DEF SsoInv
  <1> DEFINE r == [busy |-> TRUE, by |-> person, user |-> u, desired |-> desired,
                   acc |-> account, acc2 |-> accounts, bind |-> binding, bind2 |-> bindings]
  <1>1. /\ loginReq' = [loginReq EXCEPT ![s] = r]
        /\ loginMixed' = (loginMixed \/ \E t \in LoginSlots : loginReq[t].busy)
        /\ UNCHANGED <<account, link, mappings, binding, claimed, byHand>>
    BY DEF ServeLogin
  <1>2. r.by = person /\ r.user = u /\ r.desired = desired /\ r.bind = binding /\ r.bind2 = bindings
    OBVIOUS
  <1> HIDE DEF r
  <1>3. ~loginMixed /\ OneLogin /\ \A t \in LoginSlots : ~loginReq[t].busy
    BY <1>1 DEF SsoInv
  <1>4. \A t \in LoginSlots : loginReq'[t] = IF t = s THEN r ELSE loginReq[t]
    BY <1>1 DEF SsoInv, LoginTypes
  <1>5. Follows(binding, claimed)'
    BY <1>1, <1>3 DEF OneLogin, Follows
  <1>6. Follows(loginReq[s].bind2, ClaimedThen(loginReq[s]))'
    <2>1. Follows(r.bind2, ClaimedThen(r))
      BY <1>2, <1>3 DEF OneLogin, ClaimedThen
    <2>2. byHand' = byHand /\ claimed' = claimed /\ loginReq'[s] = r
      BY <1>1, <1>4
    <2> QED BY <2>1, <2>2 DEF Follows, ClaimedThen
  <1>7. loginReq'[s].bind = binding'
    BY <1>1, <1>2, <1>4
  <1>8. \A t \in LoginSlots : loginReq'[t].busy => t = s
    BY <1>3, <1>4
  <1> QED BY <1>5, <1>6, <1>7, <1>8 DEF OneLogin

LEMMA RegisterFollows == ASSUME SsoInv, NEW s \in LoginSlots, Register(s) PROVE SsoInv'
  <1>1. PICK u \in FreeAccounts :
          ServeLogin(s, NoPerson, u, {}, [account EXCEPT ![u] = NewAccount(Generated, NoPerson)], binding)
    BY DEF Register
  <1>2. u \in Accounts
    BY DEF FreeAccounts
  <1>3. LoginTypes'
    BY RegisterTypes DEF SsoInv
  <1> QED BY <1>1, <1>2, <1>3, ServedFollows

\* Bindings of other users and other providers, and those made by hand, are as before; what
\* is left of this provider's for this user is what this login asks for.
LEMMA AppliedFollows ==
  ASSUME LoginTypes, NEW p \in Providers, NEW u \in Accounts, NEW desired \in SUBSET Grants,
         NEW seen \in SUBSET UNION {Having(u, g) : g \in desired},
         Cardinality(FreeBindings) >= Cardinality({g \in desired : Having(u, g) = {}}),
         Follows(binding, claimed)
  PROVE  Follows(MappingsApplied(p, u, desired, seen), [claimed EXCEPT ![<<p, u>>] = desired])
  <1> DEFINE rows == MappingsApplied(p, u, desired, seen)
             claims == [claimed EXCEPT ![<<p, u>>] = desired]
  <1>1. rows \in [BindingIds -> Binding] /\ binding \in [BindingIds -> Binding]
    BY AppliedRows DEF LoginTypes, SsoTypeOK
  <1>2. \A q \in Providers, v \in Accounts :
          claims[<<q, v>>] = IF q = p /\ v = u THEN desired ELSE claimed[<<q, v>>]
    BY DEF LoginTypes, SsoTypeOK
  <1>3. Hand # p
    BY SsoAssumption
  <1>4. ASSUME NEW b \in BindingIds
        PROVE  /\ b \in byHand => rows[b].there /\ rows[b].by = Hand
               /\ rows[b].there /\ b \notin byHand => rows[b].by \in Providers
                                                     /\ rows[b].grant \in claims[<<rows[b].by, rows[b].user>>]
    <2>0. /\ b \in byHand => binding[b].there /\ binding[b].by = Hand
          /\ binding[b].there /\ b \notin byHand =>
               binding[b].by \in Providers /\ binding[b].grant \in claimed[<<binding[b].by, binding[b].user>>]
      BY DEF Follows
    <2>1. \/ b \in FreeBindings /\ rows[b].by = p /\ rows[b].user = u /\ rows[b].grant \in desired
          \/ /\ b \in seen /\ binding[b].by # Hand /\ binding[b].user = u /\ binding[b].grant \in desired
             /\ rows[b] = [binding[b] EXCEPT !.by = p]
          \/ rows[b] = NoBinding /\ binding[b].by = p
          \/ rows[b] = binding[b] /\ (binding[b].user = u /\ binding[b].by = p => binding[b].grant \in desired)
      BY AppliedRows
    <2>2. binding[b] \in Binding /\ binding[b].user \in {NoAccount} \cup Accounts
      <3>1. \A row \in Binding : row.user \in {NoAccount} \cup Accounts
        BY DEF Binding
      <3>2. binding[b] \in Binding
        BY <1>1
      <3> QED BY <3>1, <3>2
    <2>3. CASE b \in FreeBindings /\ rows[b].by = p /\ rows[b].user = u /\ rows[b].grant \in desired
      <3>1. ~binding[b].there
        BY <1>1, <2>3 DEF FreeBindings, Present
      <3> QED BY <1>2, <2>0, <2>3, <3>1
    <2>4. CASE /\ b \in seen /\ binding[b].by # Hand /\ binding[b].user = u /\ binding[b].grant \in desired
               /\ rows[b] = [binding[b] EXCEPT !.by = p]
      <3>1. rows[b].by = p /\ rows[b].user = u /\ rows[b].grant \in desired
        BY <2>2, <2>4 DEF Binding
      <3> QED BY <1>2, <2>0, <2>4, <3>1
    <2>5. CASE rows[b] = NoBinding /\ binding[b].by = p
      BY <1>3, <2>0, <2>5, NoBindingRow
    <2>6. CASE rows[b] = binding[b] /\ (binding[b].user = u /\ binding[b].by = p => binding[b].grant \in desired)
      <3>1. ASSUME rows[b].there, b \notin byHand
            PROVE  rows[b].by \in Providers /\ rows[b].grant \in claims[<<rows[b].by, rows[b].user>>]
        <4>1. rows[b].by \in Providers /\ rows[b].grant \in claimed[<<rows[b].by, rows[b].user>>]
          BY <2>0, <2>6, <3>1
        <4>2. CASE rows[b].by = p /\ rows[b].user = u
          BY <1>2, <2>6, <4>1, <4>2
        <4>3. CASE ~(rows[b].by = p /\ rows[b].user = u)
          <5>1. claims[<<rows[b].by, rows[b].user>>] = claimed[<<rows[b].by, rows[b].user>>]
            BY <4>1, <4>3 DEF LoginTypes, SsoTypeOK
          <5> QED BY <4>1, <5>1
        <4> QED BY <4>2, <4>3
      <3> QED BY <2>0, <2>6, <3>1
    <2> QED BY <2>1, <2>3, <2>4, <2>5, <2>6
  <1> QED BY <1>4 DEF Follows

LEMMA ProviderLoginFollows ==
  ASSUME SsoInv, NEW s \in LoginSlots, NEW person \in People, NEW uid \in {NoUid} \cup Uids,
         NEW groups \in SUBSET Groups, ProviderLogin(s, person, uid, groups)
  PROVE  SsoInv'
  <1>0. LoginTypes /\ LoginTypes'
    BY ProviderLoginTypes DEF SsoInv
  <1>1. PICK u \in Accounts, desired \in SUBSET Grants, accounts \in [Accounts -> Account] :
         \E seen \in SUBSET UNION {Having(u, g) : g \in desired} :
           /\ Cardinality(FreeBindings) >= Cardinality({g \in desired : Having(u, g) = {}})
           /\ ServeLogin(s, person, u, desired, accounts, MappingsApplied(person[1], u, desired, seen))
    BY <1>0, ProviderLoginServes
  <1>2. PICK seen \in SUBSET UNION {Having(u, g) : g \in desired} :
           /\ Cardinality(FreeBindings) >= Cardinality({g \in desired : Having(u, g) = {}})
           /\ ServeLogin(s, person, u, desired, accounts, MappingsApplied(person[1], u, desired, seen))
    BY <1>1
  <1>3. person[1] \in Providers /\ person # NoPerson
    BY PersonIsSomebody
  <1> DEFINE rows == MappingsApplied(person[1], u, desired, seen)
  <1>4. Follows(binding, claimed) => Follows(rows, [claimed EXCEPT ![<<person[1], u>>] = desired])
    BY <1>0, <1>2, <1>3, AppliedFollows
  <1>5. ServeLogin(s, person, u, desired, accounts, rows)
    BY <1>2
  <1> HIDE DEF rows
  <1> QED BY <1>0, <1>3, <1>4, <1>5, ServedFollows

LEMMA CommitLoginFollows == ASSUME SsoInv, NEW s \in LoginSlots, CommitLogin(s) PROVE SsoInv'
  <1>0. LoginTypes'
    BY CommitLoginTypes DEF SsoInv
  <1> SUFFICES ASSUME ~loginMixed' PROVE OneLogin'
    BY <1>0 DEF SsoInv
  <1> DEFINE r == loginReq[s]
  <1>1. /\ r.busy /\ binding' = FlushRows(binding, r.bind, r.bind2)
        /\ claimed' = ClaimedThen(r)
        /\ loginReq' = [loginReq EXCEPT ![s] = NoLogin]
        /\ UNCHANGED <<mappings, byHand, loginMixed>>
    BY DEF CommitLogin, ClaimedThen
  <1>2. OneLogin /\ LoginRow(r)
    BY <1>1 DEF SsoInv, LoginTypes
  <1>3. r.bind = binding /\ Follows(r.bind2, ClaimedThen(r)) /\ \A t \in LoginSlots : loginReq[t].busy => t = s
    BY <1>1, <1>2 DEF OneLogin
  <1>4. binding' = r.bind2
    BY <1>1, <1>2, <1>3, FlushTables DEF LoginRow
  <1>5. \A t \in LoginSlots : ~loginReq'[t].busy
    BY <1>1, <1>3, NoLoginIdle DEF SsoInv, LoginTypes
  <1>6. Follows(binding, claimed)'
    BY <1>1, <1>3, <1>4 DEF Follows
  <1> QED BY <1>5, <1>6 DEF OneLogin

LEMMA RefuseLoginFollows == ASSUME SsoInv, NEW s \in LoginSlots, RefuseLogin(s) PROVE SsoInv'
  <1>0. LoginTypes'
    BY RefuseLoginTypes DEF SsoInv
  <1> SUFFICES ASSUME ~loginMixed' PROVE OneLogin'
    BY <1>0 DEF SsoInv
  <1>1. /\ loginReq' = [loginReq EXCEPT ![s] = NoLogin] /\ loginReq[s].busy
        /\ UNCHANGED <<account, link, mappings, binding, claimed, byHand, loginMixed>>
    BY DEF RefuseLogin
  <1>2. OneLogin /\ \A t \in LoginSlots : loginReq[t].busy => t = s
    BY <1>1 DEF SsoInv, OneLogin
  <1>3. \A t \in LoginSlots : ~loginReq'[t].busy
    BY <1>1, <1>2, NoLoginIdle DEF SsoInv, LoginTypes
  <1>4. Follows(binding, claimed)'
    BY <1>1, <1>2 DEF OneLogin, Follows
  <1> QED BY <1>3, <1>4 DEF OneLogin

\* An administrator whose step overlaps no request.
LEMMA AdminFollows ==
  ASSUME SsoInv, LoginTypes', Meanwhile, loginReq' = loginReq,
         Follows(binding, claimed) => Follows(binding, claimed)'
  PROVE  SsoInv'
  <1> SUFFICES ASSUME ~loginMixed' PROVE OneLogin'
    BY DEF SsoInv
  <1>1. OneLogin /\ \A t \in LoginSlots : ~loginReq[t].busy
    BY DEF SsoInv, Meanwhile
  <1> QED BY <1>1 DEF OneLogin

LEMMA AdminsFollow ==
  ASSUME SsoInv
  PROVE  /\ \A m \in Mapping : EditMappings(m) => SsoInv'
         /\ \A u \in Accounts : Disable(u) => SsoInv'
         /\ \A u \in Accounts, g \in Grants : Bind(u, g) => SsoInv'
         /\ \A b \in BindingIds : Unbind(b) => SsoInv'
  <1>0. LoginTypes /\ binding \in [BindingIds -> Binding]
    BY DEF SsoInv, LoginTypes, SsoTypeOK
  <1>1. ASSUME NEW m \in Mapping, EditMappings(m) PROVE SsoInv'
    <2>1. LoginTypes'
      BY <1>0, <1>1, AdminsTypes
    <2>2. Meanwhile /\ UNCHANGED <<account, link, binding, loginReq, claimed, byHand>>
      BY <1>1 DEF EditMappings
    <2>3. Follows(binding, claimed) => Follows(binding, claimed)'
      BY <2>2 DEF Follows
    <2> QED BY <2>1, <2>2, <2>3, AdminFollows
  <1>2. ASSUME NEW u \in Accounts, Disable(u) PROVE SsoInv'
    <2>1. LoginTypes'
      BY <1>0, <1>2, AdminsTypes
    <2>2. Meanwhile /\ UNCHANGED <<link, mappings, binding, loginReq, claimed, byHand>>
      BY <1>2 DEF Disable
    <2>3. Follows(binding, claimed) => Follows(binding, claimed)'
      BY <2>2 DEF Follows
    <2> QED BY <2>1, <2>2, <2>3, AdminFollows
  <1>3. ASSUME NEW u \in Accounts, NEW g \in Grants, Bind(u, g) PROVE SsoInv'
    <2>1. LoginTypes'
      BY <1>0, <1>3, AdminsTypes
    <2>2. Meanwhile /\ UNCHANGED <<account, link, mappings, loginReq, claimed>>
      BY <1>3 DEF Bind
    <2>3. PICK b \in FreeBindings :
            /\ binding' = [binding EXCEPT ![b] = [there |-> TRUE, user |-> u, grant |-> g, by |-> Hand]]
            /\ byHand' = byHand \cup {b}
      BY <1>3 DEF Bind
    <2>4. \A c \in BindingIds : c # b => binding'[c] = binding[c] /\ (c \in byHand' <=> c \in byHand)
      BY <1>0, <2>3
    <2>5. b \in BindingIds /\ b \in byHand' /\ binding'[b].there /\ binding'[b].by = Hand
      BY <1>0, <2>3 DEF FreeBindings
    <2>6. Follows(binding, claimed) => Follows(binding, claimed)'
      BY <2>2, <2>4, <2>5 DEF Follows
    <2> QED BY <2>1, <2>2, <2>6, AdminFollows
  <1>4. ASSUME NEW b \in BindingIds, Unbind(b) PROVE SsoInv'
    <2>1. LoginTypes'
      BY <1>0, <1>4, AdminsTypes
    <2>2. /\ binding' = [binding EXCEPT ![b] = NoBinding] /\ byHand' = byHand \ {b}
          /\ Meanwhile /\ UNCHANGED <<account, link, mappings, loginReq, claimed>>
      BY <1>4 DEF Unbind
    <2>3. \A c \in BindingIds : c # b => binding'[c] = binding[c] /\ (c \in byHand' <=> c \in byHand)
      BY <1>0, <2>2
    <2>4. b \notin byHand' /\ binding'[b].there = FALSE
      BY <1>0, <2>2, NoBindingRow
    <2>5. Follows(binding, claimed) => Follows(binding, claimed)'
      BY <2>2, <2>3, <2>4 DEF Follows
    <2> QED BY <2>1, <2>2, <2>5, AdminFollows
  <1> QED BY <1>1, <1>2, <1>3, <1>4

LEMMA SsoInitInv == SsoInit => SsoInv
  <1> SUFFICES ASSUME SsoInit PROVE SsoInv
    OBVIOUS
  <1>1. NotThere \in Account
    BY DEF NotThere, Account
  <1>2. SsoTypeOK
    BY <1>1, NoBindingRow, NoLoginIdle DEF SsoInit, SsoTypeOK
  <1>3. LoginTypes
    BY <1>2, NoLoginIdle DEF SsoInit, LoginTypes, LoginRow
  <1>4. OneLogin
    BY NoLoginIdle, NoBindingRow DEF SsoInit, OneLogin, Follows
  <1> QED BY <1>3, <1>4 DEF SsoInv

LEMMA SsoInvHolds == SsoSpec => []SsoInv
  <1>1. ASSUME SsoInv, SsoNext PROVE SsoInv'
    <2>1. CASE \E s \in LoginSlots : Register(s) \/ CommitLogin(s) \/ RefuseLogin(s)
      BY <1>1, <2>1, RegisterFollows, CommitLoginFollows, RefuseLoginFollows
    <2>2. CASE \E s \in LoginSlots, person \in People, uid \in {NoUid} \cup Uids, groups \in SUBSET Groups :
                 OidcLogin(s, person, uid, groups) \/ LdapLogin(s, person, uid, groups)
      BY <1>1, <2>2, ProviderLoginFollows DEF OidcLogin, LdapLogin
    <2>3. CASE \/ \E m \in Mapping : EditMappings(m)
               \/ \E u \in Accounts : Disable(u) \/ \E g \in Grants : Bind(u, g)
               \/ \E b \in BindingIds : Unbind(b)
      BY <1>1, <2>3, AdminsFollow
    <2> QED BY <1>1, <2>1, <2>2, <2>3 DEF SsoNext
  <1>2. ASSUME SsoInv, UNCHANGED ssoVars PROVE SsoInv'
    <2>1. UNCHANGED <<account, link, mappings, binding, loginReq, claimed, byHand, loginMixed>>
      BY <1>2 DEF ssoVars
    <2>2. SsoTypeOK' /\ \A s \in LoginSlots : LoginRow(loginReq[s])'
      BY <1>2, <2>1 DEF SsoInv, LoginTypes, SsoTypeOK, LoginRow
    <2>3. LoginTypes'
      BY <1>2, <2>1, <2>2 DEF SsoInv, LoginTypes
    <2>4. OneLogin => OneLogin'
      BY <2>1 DEF OneLogin, Follows, ClaimedThen
    <2> QED BY <1>2, <2>1, <2>3, <2>4 DEF SsoInv
  <1> QED BY SsoInitInv, <1>1, <1>2, PTL DEF SsoSpec

\* Registrations, logins, commits that mix rows and administrators leave accounts, links,
\* mappings and bindings in their types.
THEOREM LoginTypesHold == SsoSpec => []SsoTypeOK
  <1>1. SsoInv => SsoTypeOK
    BY DEF SsoInv, LoginTypes
  <1> QED BY <1>1, SsoInvHolds, PTL

\* As long as no requests overlap, whatever a login manages is what the last login of the
\* user through that provider asked for, and bindings made by hand stay, for every number of
\* providers, people, groups, grants and mappings.
THEOREM BindingsFollow == SsoSpec => []BindingsFollowLogins
  <1>1. SsoInv => BindingsFollowLogins
    BY DEF SsoInv, OneLogin, Follows, BindingsFollowLogins
  <1> QED BY <1>1, SsoInvHolds, PTL

-------------------------------------------------------------------------------
(* What followers of the registry hold                                                    *)
(*                                                                                        *)
(* As long as requests come one at a time, the last event a client may see about a version *)
(* says whether the version is public (Told), a client that has read all of them about it  *)
(* holds it just if it is (Holds), and a request carries the events that say so of the     *)
(* versions it leaves (Announced).                                                        *)

\* Events about version v that count for a client, in a table or a sequence of events.
NewsAbout(ev, anon, v) == {e \in DOMAIN ev : /\ ev[e].kind \in {"upsert", "tombstone"}
                                             /\ ev[e].of \in {v, 0} /\ (anon => ev[e].public)}
LastOf(S, e) == e \in S /\ \A d \in S : d <= e

Told(anon, v) ==
    \A e \in EventIds : LastOf(NewsAbout(feed, anon, v), e) => (feed[e].kind = "upsert" <=> v \in LiveReleases)

Holds(f, v) ==
    (\A e \in NewsAbout(feed, f.anonymous, v) : e <= f.cursor) => (v \in f.copy <=> v \in LiveReleases)

Announced(ev, anon, v, before, after) ==
    /\ NewsAbout(ev, anon, v) = {} => (after <=> before)
    /\ \A e \in DOMAIN ev : LastOf(NewsAbout(ev, anon, v), e) => (ev[e].kind = "upsert" <=> after)

\* Whether the version is public once a request that does trash to the skill leaves row of it.
PublicAfter(trash, row) == ~(IF trash = "kept" THEN trashed ELSE trash = "in") /\ Available(row)

Snapped(v, row) == release[v] = row \/ (v \in silent /\ release[v] = [row EXCEPT !.expired = TRUE])

AtWork(r) ==
    /\ \A e \in EventIds : IF r.events[e].kind = "none" THEN r.events[e] = NoEvent
                           ELSE e < nextEvent /\ \A d \in EventIds : feed[d].kind # "none" => d < e
    /\ \A v \in Releases : /\ Snapped(v, r.snap[v]) /\ (r.new[v].expired => r.snap[v].expired)
                           /\ v \in r.wrong => ~Available(r.new[v])
                           /\ v \notin r.wrong => \A anon \in BOOLEAN :
                                Announced(r.events, anon, v, ~trashed /\ Available(r.snap[v]),
                                          PublicAfter(r.trash, r.new[v]))

OneServed ==
    /\ \A s, t \in FeedSlots : feedReq[s].busy /\ feedReq[t].busy => s = t
    /\ \A e \in EventIds : feed[e].kind # "none" => e < nextEvent
    /\ \A f \in Followers : follower[f].cursor = 0 \/ feed[follower[f].cursor].kind # "none"
    /\ \A v \in Releases : release[v].expired => v \in silent
    /\ \A v \in silent : v \notin LiveReleases
    /\ \A s \in FeedSlots : feedReq[s].busy => AtWork(feedReq[s])
    /\ \A v \in Releases \ silent : /\ \A anon \in BOOLEAN : Told(anon, v)
                                    /\ \A f \in Followers : Holds(follower[f], v)

FeedInv == FeedTypeOK /\ (~feedMixed => OneServed)

LEMMA NoReleaseFacts == NoRelease \in ReleaseRow /\ ~Available(NoRelease) /\ ~NoRelease.expired /\ NoRelease.share = "none"
  BY DEF NoRelease, ReleaseRow, Available

LEMMA NoEventFacts == NoEvent \in Event /\ NoEvent.kind = "none" /\ NoEvents \in [EventIds -> Event]
  BY DEF NoEvent, Event, NoEvents

LEMMA NoFeedRequestFacts == NoFeedRequest \in FeedRequest /\ ~NoFeedRequest.busy
  BY NoReleaseFacts, NoEventFacts DEF NoFeedRequest, FeedRequest

LEMMA Numbers == /\ \A e \in EventIds : e \in Nat /\ e >= 1 /\ e <= MaxEvents
                 /\ MaxEvents \in Nat /\ IsFiniteSet(EventIds) /\ 0 \notin Releases
                 /\ \A v \in Releases : v \in Nat
  BY FeedAssumption, FS_Interval DEF EventIds

LEMMA MaxOf ==
  ASSUME NEW S \in SUBSET EventIds, S # {} PROVE Max(S) \in S /\ \A e \in S : e <= Max(S)
  <1>1. IsFiniteSet(S) /\ S \subseteq Nat
    BY Numbers, FS_Subset
  <1>2. \E m \in S : \A e \in S : m >= e
    <2>1. PICK m \in S : \A c \in S : c <= m
      BY <1>1, Greatest
    <2> QED BY <1>1, <2>1
  <1>3. Max(S) \in S /\ \A e \in S : Max(S) >= e
    BY <1>2 DEF Max
  <1> QED BY <1>1, <1>3

LEMMA SyncLive ==
  ASSUME NEW r \in ReleaseRow PROVE (SyncState(r) = "live" <=> Available(r)) /\ SyncState(r) \in {"live", "hidden", "pending"}
  BY DEF SyncState, Available, ReleaseRow

\* The event of one version counts where the version is, or was, public.
LEMMA EventIs ==
  ASSUME NEW v \in Releases, NEW was, NEW now
  PROVE  LET e == EventOf(v, was, now) IN
         /\ e \in Event /\ e.kind # "none" /\ e.of = v
         /\ e.kind = "upsert" <=> now = "live"
         /\ e.kind = "tombstone" <=> was = "live" /\ now # "live"
         /\ e.kind # "state" => e.public
  <1>1. CASE was = "live" /\ now # "live"
    BY <1>1 DEF EventOf, Event
  <1>2. CASE now = "live"
    BY <1>2 DEF EventOf, Event
  <1>3. CASE was # "live" /\ now # "live"
    <2>1. EventOf(v, was, now) = [kind |-> "state", of |-> v, public |-> now = "pending"]
      BY <1>3 DEF EventOf
    <2> QED BY <1>3, <2>1 DEF Event
  <1> QED BY <1>1, <1>2, <1>3

LEMMA TombstoneIs ==
  ASSUME NEW public \in BOOLEAN
  PROVE  LET e == SkillTombstone(public) IN e \in Event /\ e.kind = "tombstone" /\ e.of = 0 /\ e.public = public
  BY DEF SkillTombstone, Event
-------------------------------------------------------------------------------
(* A request begins *)

\* The events of a request have the numbers that follow.
LEMMA NumberedIs ==
  ASSUME FeedTypeOK, NEW events \in Seq(Event), nextEvent + Len(events) <= MaxEvents + 1
  PROVE  /\ Numbered(events) \in [EventIds -> Event]
         /\ \A e \in EventIds : Numbered(events)[e] # NoEvent => /\ e - nextEvent + 1 \in DOMAIN events
                                                                 /\ e >= nextEvent /\ e < nextEvent + Len(events)
         /\ \A e \in EventIds : e - nextEvent + 1 \in DOMAIN events => Numbered(events)[e] = events[e - nextEvent + 1]
         /\ \A i \in DOMAIN events : i + nextEvent - 1 \in EventIds /\ (i + nextEvent - 1) - nextEvent + 1 = i
  <1>1. nextEvent \in Nat /\ nextEvent >= 1 /\ Len(events) \in Nat /\ DOMAIN events = 1 .. Len(events)
        /\ \A i \in DOMAIN events : events[i] \in Event
    BY Numbers DEF FeedTypeOK
  <1>2. \A e \in EventIds : Numbered(events)[e] = IF e - nextEvent + 1 \in DOMAIN events
                                                  THEN events[e - nextEvent + 1] ELSE NoEvent
    BY DEF Numbered
  <1>3. Numbered(events) \in [EventIds -> Event]
    BY <1>1, NoEventFacts DEF Numbered
  <1>4. ASSUME NEW e \in EventIds, e - nextEvent + 1 \in DOMAIN events
        PROVE  e >= nextEvent /\ e < nextEvent + Len(events)
    BY <1>1, <1>4, Numbers
  <1>5. ASSUME NEW i \in DOMAIN events PROVE i + nextEvent - 1 \in EventIds /\ (i + nextEvent - 1) - nextEvent + 1 = i
    BY <1>1, Numbers DEF EventIds
  <1> QED BY <1>2, <1>3, <1>4, <1>5

\* What a sequence of events announces, it announces with its numbers.
LEMMA NumberedAnnounced ==
  ASSUME FeedTypeOK, NEW events \in Seq(Event), nextEvent + Len(events) <= MaxEvents + 1,
         NEW anon \in BOOLEAN, NEW v \in Releases, NEW before, NEW after, Announced(events, anon, v, before, after)
  PROVE  Announced(Numbered(events), anon, v, before, after)
  <1> DEFINE table == Numbered(events)
             old   == NewsAbout(events, anon, v)
             new   == NewsAbout(table, anon, v)
             at(i) == i + nextEvent - 1
             of(e) == e - nextEvent + 1
  <1>0. nextEvent \in Nat /\ DOMAIN events \subseteq Nat /\ DOMAIN table = EventIds
    BY Numbers DEF FeedTypeOK, Numbered
  <1>1. \A e \in EventIds : table[e] # NoEvent => of(e) \in DOMAIN events
    BY NumberedIs
  <1>2. \A e \in EventIds : of(e) \in DOMAIN events => table[e] = events[of(e)]
    BY NumberedIs
  <1>3. \A i \in DOMAIN events : at(i) \in EventIds /\ of(at(i)) = i
    BY NumberedIs
  <1>4. ASSUME NEW e \in new PROVE e \in EventIds /\ of(e) \in old /\ table[e] = events[of(e)]
    <2>1. e \in EventIds /\ table[e].kind \in {"upsert", "tombstone"}
      BY <1>0 DEF NewsAbout
    <2>2. table[e] # NoEvent
      BY <2>1, NoEventFacts
    <2>3. of(e) \in DOMAIN events /\ table[e] = events[of(e)]
      BY <1>1, <1>2, <2>1, <2>2
    <2> HIDE DEF table, of
    <2> QED BY <2>1, <2>3 DEF NewsAbout
  <1>5. ASSUME NEW i \in old PROVE at(i) \in new
    <2>1. i \in DOMAIN events
      BY DEF NewsAbout
    <2>2. at(i) \in EventIds /\ table[at(i)] = events[i]
      BY <1>2, <1>3, <2>1
    <2> HIDE DEF table, at
    <2> QED BY <1>0, <2>2 DEF NewsAbout
  <1>6. new = {} => (after <=> before)
    BY <1>5 DEF Announced
  <1>7. ASSUME NEW e \in EventIds, LastOf(new, e) PROVE table[e].kind = "upsert" <=> after
    <2>1. e \in new /\ of(e) \in old /\ table[e] = events[of(e)] /\ of(e) \in DOMAIN events
      BY <1>4, <1>7 DEF LastOf, NewsAbout
    <2>2. ASSUME NEW i \in old PROVE i <= of(e)
      <3>1. at(i) <= e /\ i \in Nat /\ e \in Nat
        BY <1>0, <1>5, <1>7, <2>2, Numbers DEF LastOf, NewsAbout
      <3> QED BY <1>0, <3>1
    <2>3. LastOf(old, of(e))
      BY <2>1, <2>2 DEF LastOf
    <2> HIDE DEF of, table, old, new
    <2> QED BY <2>1, <2>3 DEF Announced, old
  <1> HIDE DEF new
  <1> QED BY <1>0, <1>6, <1>7 DEF Announced, new

LEMMA ServeTypes ==
  ASSUME FeedTypeOK, NEW s \in FeedSlots, NEW new \in [Releases -> ReleaseRow], NEW trash \in {"kept", "in", "out"},
         NEW events \in Seq(Event), NEW wrong \in SUBSET Releases, ServeFeed(s, new, trash, events, wrong)
  PROVE  /\ FeedTypeOK'
         /\ feedReq'[s] = [busy |-> TRUE, snap |-> release, new |-> new, trash |-> trash, events |-> Numbered(events),
                                wrong |-> wrong]
         /\ \A t \in FeedSlots \ {s} : feedReq'[t] = feedReq[t]
         /\ nextEvent' = nextEvent + Len(events) /\ nextEvent + Len(events) <= MaxEvents + 1
         /\ UNCHANGED <<release, trashed, feed, follower, silent>>
         /\ feedMixed' = (feedMixed \/ \E o \in FeedSlots : feedReq[o].busy)
  <1> DEFINE q == [busy |-> TRUE, snap |-> release, new |-> new, trash |-> trash, events |-> Numbered(events),
                                wrong |-> wrong]
  <1>1. /\ nextEvent + Len(events) <= MaxEvents + 1 /\ nextEvent' = nextEvent + Len(events)
        /\ feedReq' = [feedReq EXCEPT ![s] = q] /\ UNCHANGED <<release, trashed, feed, follower, silent>>
        /\ feedMixed' = (feedMixed \/ \E o \in FeedSlots : feedReq[o].busy)
    BY DEF ServeFeed
  <1>2. q \in FeedRequest
    BY <1>1, NumberedIs DEF FeedRequest, FeedTypeOK
  <1>3. nextEvent' \in 1 .. MaxEvents + 1
    <2>1. Len(events) \in Nat
      OBVIOUS
    <2> QED BY <1>1, <2>1, Numbers DEF FeedTypeOK
  <1> QED BY <1>1, <1>2, <1>3 DEF FeedTypeOK

LEMMA ServeInv ==
  ASSUME FeedInv, NEW s \in FeedSlots, NEW new \in [Releases -> ReleaseRow], NEW trash \in {"kept", "in", "out"},
         NEW events \in Seq(Event), NEW wrong \in SUBSET Releases, ServeFeed(s, new, trash, events, wrong),
         \A v \in Releases : new[v].expired => release[v].expired,
         \A i \in DOMAIN events : events[i].kind # "none",
         \A v \in wrong : ~Available(new[v]),
         \A v \in Releases \ wrong, anon \in BOOLEAN :
            Announced(events, anon, v, ~trashed /\ Available(release[v]), PublicAfter(trash, new[v]))
  PROVE  FeedInv'
  <1> DEFINE q == [busy |-> TRUE, snap |-> release, new |-> new, trash |-> trash, events |-> Numbered(events),
                                wrong |-> wrong]
  <1>1. /\ FeedTypeOK /\ FeedTypeOK' /\ feedReq'[s] = q /\ \A t \in FeedSlots \ {s} : feedReq'[t] = feedReq[t]
        /\ nextEvent' = nextEvent + Len(events) /\ nextEvent + Len(events) <= MaxEvents + 1
        /\ UNCHANGED <<release, trashed, feed, follower, silent>>
        /\ feedMixed' = (feedMixed \/ \E o \in FeedSlots : feedReq[o].busy)
    BY ServeTypes DEF FeedInv
  <1> SUFFICES ASSUME ~feedMixed' PROVE OneServed'
    BY <1>1 DEF FeedInv
  <1>2. OneServed /\ \A o \in FeedSlots : ~feedReq[o].busy
    BY <1>1 DEF FeedInv
  <1>3. nextEvent \in Nat /\ Len(events) \in Nat
    BY <1>1, Numbers DEF FeedTypeOK
  <1>4. \A e \in EventIds : feed[e].kind # "none" => e < nextEvent /\ e < nextEvent'
    BY <1>1, <1>2, <1>3, Numbers DEF OneServed
  <1>5. ASSUME NEW e \in EventIds
        PROVE  IF q.events[e].kind = "none" THEN q.events[e] = NoEvent
               ELSE e < nextEvent' /\ \A d \in EventIds : feed[d].kind # "none" => d < e
    <2>1. CASE Numbered(events)[e] = NoEvent
      BY <2>1, NoEventFacts
    <2>2. CASE Numbered(events)[e] # NoEvent
      <3>1. e - nextEvent + 1 \in DOMAIN events /\ e >= nextEvent /\ e < nextEvent + Len(events)
            /\ Numbered(events)[e] = events[e - nextEvent + 1]
        BY <1>1, <2>2, NumberedIs
      <3>2. q.events[e].kind # "none"
        BY <3>1
      <3>3. \A d \in EventIds : feed[d].kind # "none" => d < e
        BY <1>3, <1>4, <3>1, Numbers
      <3> QED BY <1>1, <3>1, <3>2, <3>3
    <2> QED BY <2>1, <2>2
  <1>6. ASSUME NEW v \in Releases \ wrong, NEW anon \in BOOLEAN
        PROVE  Announced(q.events, anon, v, ~trashed /\ Available(release[v]), PublicAfter(trash, new[v]))
    BY <1>1, NumberedAnnounced
  <1>7. AtWork(feedReq[s])'
    <2>1. q.snap = release /\ q.new = new /\ q.trash = trash /\ q.wrong = wrong
      OBVIOUS
    <2>2. PICK r : r = q /\ feedReq'[s] = r
      BY <1>1
    <2>3. \A e \in EventIds : IF r.events[e].kind = "none" THEN r.events[e] = NoEvent
                             ELSE e < nextEvent' /\ \A d \in EventIds : feed'[d].kind # "none" => d < e
      BY <1>1, <1>5, <2>2
    <2> HIDE DEF q
    <2>4. \A v \in Releases : Snapped(v, r.snap[v])' /\ (r.new[v].expired => r.snap[v].expired)
                              /\ (v \in r.wrong => ~Available(r.new[v]))
      BY <1>1, <2>1, <2>2 DEF Snapped
    <2>5. \A v \in Releases \ r.wrong, anon \in BOOLEAN :
             Announced(r.events, anon, v, ~trashed' /\ Available(r.snap[v]), PublicAfter(r.trash, r.new[v])')
      BY <1>1, <1>6, <2>1, <2>2 DEF PublicAfter
    <2>6. AtWork(r)'
      BY <2>3, <2>4, <2>5 DEF AtWork
    <2> QED BY <2>2, <2>6 DEF AtWork, Snapped, Announced, PublicAfter
  <1>8. ASSUME NEW t \in FeedSlots, feedReq'[t].busy PROVE t = s /\ AtWork(feedReq[t])'
    <2>1. t = s
      BY <1>1, <1>2, <1>8
    <2> QED BY <1>7, <2>1
  <1> QED BY <1>1, <1>2, <1>4, <1>8 DEF OneServed, Told, Holds, LiveReleases

\* Whether an event counts for a client and a version.
Counts(e, anon, v) == e.kind \in {"upsert", "tombstone"} /\ e.of \in {v, 0} /\ (anon => e.public)

LEMMA NoNews ==
  ASSUME NEW events, NEW anon, NEW v, NEW before, NEW after,
         \A i \in DOMAIN events : ~Counts(events[i], anon, v), after <=> before
  PROVE  Announced(events, anon, v, before, after)
  BY DEF Announced, NewsAbout, Counts, LastOf

\* Where all that counts says the same, and it is so.
LEMMA SameNews ==
  ASSUME NEW events, NEW anon, NEW v, NEW before, NEW after,
         \A i \in DOMAIN events : Counts(events[i], anon, v) => (events[i].kind = "upsert" <=> after),
         (\A i \in DOMAIN events : ~Counts(events[i], anon, v)) => (after <=> before)
  PROVE  Announced(events, anon, v, before, after)
  <1>1. NewsAbout(events, anon, v) = {i \in DOMAIN events : Counts(events[i], anon, v)}
    BY DEF NewsAbout, Counts
  <1> QED BY <1>1 DEF Announced, LastOf

\* A request about one version leaves the others as they are.  Its event may tell of
\* another row than the one it leaves, which is then not public.
LEMMA OneChanged ==
  ASSUME FeedInv, NEW s \in FeedSlots, NEW v \in Releases, NEW row \in ReleaseRow, NEW said \in ReleaseRow, NEW was,
         NEW wrong \in SUBSET {v},
         ServeFeed(s, [release EXCEPT ![v] = row], "kept", <<EventOf(v, was, SyncState(said))>>, wrong),
         was = "live" \/ was = SyncState(release[v]),
         IF v \in wrong THEN ~Available(row) ELSE Available(said) <=> Available(row),
         ~trashed, row.expired => release[v].expired
  PROVE  FeedInv'
  <1> DEFINE new    == [release EXCEPT ![v] = row]
             event  == EventOf(v, was, SyncState(said))
             events == <<event>>
  <1>1. release \in [Releases -> ReleaseRow]
    BY DEF FeedInv, FeedTypeOK
  <1>2. new \in [Releases -> ReleaseRow] /\ new[v] = row /\ \A u \in Releases \ {v} : new[u] = release[u]
    BY <1>1
  <1>3. /\ event \in Event /\ event.kind # "none" /\ event.of = v
        /\ event.kind = "upsert" <=> Available(said)
        /\ event.kind = "tombstone" <=> was = "live" /\ ~Available(said)
        /\ event.kind # "state" => event.public
    BY <1>1, EventIs, SyncLive
  <1>10. Available(release[v]) => was = "live"
    BY <1>1, SyncLive
  <1> HIDE DEF event
  <1>4. events \in Seq(Event) /\ DOMAIN events = {1} /\ events[1] = event
    BY <1>3
  <1>5. \A u \in Releases : PublicAfter("kept", new[u]) <=> Available(new[u])
    BY DEF PublicAfter
  <1> HIDE DEF new, events
  <1>6. ASSUME NEW u \in Releases \ wrong, NEW anon \in BOOLEAN
        PROVE  Announced(events, anon, u, ~trashed /\ Available(release[u]), PublicAfter("kept", new[u]))
    <2>1. CASE u = v
      <3>0. Available(said) <=> Available(row)
        BY <2>1
      <3>1. Counts(event, anon, v) => (event.kind = "upsert" <=> Available(row))
        BY <1>3, <3>0
      <3>2. ~Counts(event, anon, v) => (Available(row) <=> Available(release[v]))
        BY <1>3, <1>10, <3>0 DEF Counts
      <3> QED BY <1>2, <1>4, <1>5, <2>1, <3>1, <3>2, SameNews
    <2>2. CASE u # v
      <3>1. ~Counts(event, anon, u)
        BY <1>3, <2>2, Numbers DEF Counts
      <3>2. new[u] = release[u] /\ (PublicAfter("kept", new[u]) <=> ~trashed /\ Available(release[u]))
        BY <1>2, <1>5, <2>2
      <3>3. \A i \in DOMAIN events : ~Counts(events[i], anon, u)
        BY <1>4, <3>1
      <3> QED BY <3>2, <3>3, NoNews
    <2> QED BY <2>1, <2>2
  <1>7. (\A u \in Releases : new[u].expired => release[u].expired) /\ \A i \in DOMAIN events : events[i].kind # "none"
    BY <1>2, <1>3, <1>4
  <1>8. ServeFeed(s, new, "kept", events, wrong)
    BY DEF new, events, event
  <1>9. wrong \in SUBSET Releases /\ \A u \in wrong : ~Available(new[u])
    BY <1>2
  <1> QED BY <1>2, <1>4, <1>6, <1>7, <1>8, <1>9, ServeInv

LEMMA ChangeReleaseInv ==
  ASSUME FeedInv, NEW s \in FeedSlots, NEW v \in Releases, NEW row \in ReleaseRow, NEW was, ChangeRelease(s, v, was, row),
         was = "live" \/ was = SyncState(release[v]), row.expired => release[v].expired
  PROVE  FeedInv'
  <1>1. /\ ~trashed /\ {} \in SUBSET {v}
        /\ ServeFeed(s, [release EXCEPT ![v] = row], "kept", <<EventOf(v, was, SyncState(row))>>, {})
    BY DEF ChangeRelease
  <1> QED BY <1>1, OneChanged

LEMMA ShareInv ==
  ASSUME FeedInv, NEW s \in FeedSlots, NEW v \in Releases, NEW share \in {"none", "pending", "approved"},
         ShareRelease(s, v, share)
  PROVE  FeedInv'
  <1> DEFINE row == [release[v] EXCEPT !.share = share, !.expired = FALSE]
  <1>0. release[v] \in ReleaseRow
    BY DEF FeedInv, FeedTypeOK
  <1>1. row \in ReleaseRow /\ ~row.expired /\ ChangeRelease(s, v, SyncState(release[v]), row)
    BY <1>0 DEF ReleaseRow, ShareRelease
  <1> HIDE DEF row
  <1> QED BY <1>1, ChangeReleaseInv

LEMMA DecidedIs ==
  ASSUME FeedInv, NEW v \in Releases, NEW status \in {"quarantine", "production", "rejected"}
  PROVE  Decided(v, status) \in ReleaseRow /\ Decided(v, status).expired = release[v].expired
         /\ Decided(v, status).status = status
  <1>1. release[v] \in ReleaseRow
    BY DEF FeedInv, FeedTypeOK
  <1> QED BY <1>1 DEF ReleaseRow, Decided

LEMMA JudgeInv ==
  ASSUME FeedInv, NEW s \in FeedSlots, NEW v \in Releases, NEW was, NEW status \in {"quarantine", "production", "rejected"},
         JudgeRelease(s, v, was, status)
  PROVE  FeedInv'
  <1>1. (was = "live" \/ was = SyncState(release[v])) /\ ChangeRelease(s, v, was, Decided(v, status))
    BY DEF JudgeRelease, Before
  <1> QED BY <1>1, DecidedIs, ChangeReleaseInv

LEMMA FailReleaseInv ==
  ASSUME FeedInv, NEW s \in FeedSlots, NEW v \in Releases, NEW was, NEW status \in {"quarantine", "production", "rejected"},
         FailRelease(s, v, was, status)
  PROVE  FeedInv'
  <1> DEFINE row   == Decided(v, "rejected")
             said  == Decided(v, status)
             wrong == IF Available(said) THEN {v} ELSE {}
  <1>1. /\ row \in ReleaseRow /\ row.expired = release[v].expired /\ row.status = "rejected" /\ said \in ReleaseRow
        /\ (was = "live" \/ was = SyncState(release[v])) /\ ~trashed
    BY DecidedIs DEF FailRelease, Before
  <1>2. ServeFeed(s, [release EXCEPT ![v] = row], "kept", <<EventOf(v, was, SyncState(said))>>, wrong)
    <2>1. [release EXCEPT ![v].status = "rejected"] = [release EXCEPT ![v] = row]
      BY DEF Decided
    <2> QED BY <2>1 DEF FailRelease
  <1>3. ~Available(row)
    BY <1>1 DEF Available
  <1>4. wrong \in SUBSET {v} /\ (v \in wrong <=> Available(said))
    OBVIOUS
  <1> HIDE DEF row, said, wrong
  <1> QED BY <1>1, <1>2, <1>3, <1>4, OneChanged

\* A version that does not exist is neither public nor shared.
LEMMA AddReleaseInv ==
  ASSUME FeedInv, NEW s \in FeedSlots, NEW v \in Releases, NEW share \in {"none", "pending", "approved"},
         AddRelease(s, v, share)
  PROVE  FeedInv'
  <1> DEFINE row   == [NoRelease EXCEPT !.status = "quarantine", !.share = share]
             new   == [release EXCEPT ![v] = row]
             event == EventOf(v, "hidden", SyncState(row))
  <1>1. release \in [Releases -> ReleaseRow] /\ ~trashed /\ release[v].status = "absent"
    BY Numbers DEF FeedInv, FeedTypeOK, AddRelease
  <1>2. row \in ReleaseRow /\ ~Available(row) /\ ~row.expired
    BY DEF NoRelease, ReleaseRow, Available
  <1>3. ServeFeed(s, new, "kept", IF share = "none" THEN <<>> ELSE <<event>>, {})
    BY DEF AddRelease
  <1>4. event \in Event /\ event.kind = "state"
    BY <1>2, EventIs, SyncLive DEF Event
  <1>5. new \in [Releases -> ReleaseRow] /\ new[v] = row /\ \A u \in Releases \ {v} : new[u] = release[u]
    BY <1>1, <1>2
  <1> DEFINE events == IF share = "none" THEN <<>> ELSE <<event>>
  <1>6. events \in Seq(Event) /\ \A i \in DOMAIN events : events[i] = event
    <2> HIDE DEF event
    <2>1. <<event>> \in Seq(Event) /\ <<>> \in Seq(Event)
      BY <1>4
    <2> QED BY <2>1
  <1> HIDE DEF event, new, row, events
  <1>7. ServeFeed(s, new, "kept", events, {})
    BY <1>3 DEF events
  <1>8. ASSUME NEW u \in Releases, NEW anon \in BOOLEAN
        PROVE  Announced(events, anon, u, ~trashed /\ Available(release[u]), PublicAfter("kept", new[u]))
    <2>1. \A i \in DOMAIN events : ~Counts(events[i], anon, u)
      BY <1>4, <1>6 DEF Counts
    <2>2. PublicAfter("kept", new[u]) <=> ~trashed /\ Available(release[u])
      BY <1>1, <1>2, <1>5 DEF PublicAfter, Available
    <2> QED BY <2>1, <2>2, NoNews
  <1>9. (\A u \in Releases : new[u].expired => release[u].expired) /\ \A i \in DOMAIN events : events[i].kind # "none"
    BY <1>2, <1>4, <1>5, <1>6
  <1> QED BY <1>5, <1>6, <1>7, <1>8, <1>9, ServeInv

LEMMA DeleteReleaseInv ==
  ASSUME FeedInv, NEW s \in FeedSlots, NEW v \in Releases, DeleteRelease(s, v) PROVE FeedInv'
  <1> DEFINE last   == release[v].share # "none" /\ ~Shared(Releases \ {v})
             new    == [release EXCEPT ![v] = NoRelease]
             event  == EventOf(v, SyncState(release[v]), "hidden")
             all    == SkillTombstone(TRUE)
             events == <<event>> \o IF last THEN <<all>> ELSE <<>>
  <1>1. release \in [Releases -> ReleaseRow] /\ ~trashed /\ ServeFeed(s, new, "kept", events, {})
    BY DEF FeedInv, FeedTypeOK, DeleteRelease
  <1>2. /\ event \in Event /\ event.kind \notin {"none", "upsert"} /\ event.of = v
        /\ event.kind = "tombstone" <=> Available(release[v])
        /\ event.kind # "state" => event.public
    BY <1>1, EventIs, SyncLive
  <1>3. all \in Event /\ all.kind = "tombstone" /\ all.of = 0 /\ all.public
    BY TombstoneIs
  <1>4. new \in [Releases -> ReleaseRow] /\ ~Available(new[v]) /\ ~new[v].expired
        /\ \A u \in Releases \ {v} : new[u] = release[u]
    BY <1>1, NoReleaseFacts
  <1>5. last => \A u \in Releases \ {v} : ~Available(release[u])
    BY DEF Shared, Available
  <1> HIDE DEF last, event, all, new
  <1>6. events \in Seq(Event) /\ \A i \in DOMAIN events : events[i] = event \/ (last /\ events[i] = all)
    BY <1>2, <1>3
  <1>7. 1 \in DOMAIN events /\ events[1] = event /\ (last => 2 \in DOMAIN events /\ events[2] = all)
    BY <1>2, <1>3
  <1> HIDE DEF events
  <1>8. ASSUME NEW u \in Releases, NEW anon \in BOOLEAN
        PROVE  Announced(events, anon, u, ~trashed /\ Available(release[u]), PublicAfter("kept", new[u]))
    <2>0. PublicAfter("kept", new[u]) <=> Available(new[u])
      BY <1>1 DEF PublicAfter
    <2>1. \A i \in DOMAIN events : events[i].kind # "upsert"
      BY <1>2, <1>3, <1>6
    <2>2. ASSUME \A i \in DOMAIN events : ~Counts(events[i], anon, u)
          PROVE  Available(new[u]) <=> Available(release[u])
      <3>1. ~last
        BY <1>3, <1>7, <2>2 DEF Counts
      <3>2. u = v => ~Available(release[v])
        BY <1>2, <1>7, <2>2 DEF Counts
      <3> QED BY <1>4, <3>2
    <2>3. ASSUME NEW i \in DOMAIN events, Counts(events[i], anon, u) PROVE ~Available(new[u])
      <3>1. u = v \/ last
        BY <1>2, <1>6, <2>3, Numbers DEF Counts
      <3> QED BY <1>4, <1>5, <3>1
    <2> QED BY <1>1, <2>0, <2>1, <2>2, <2>3, SameNews
  <1>9. (\A u \in Releases : new[u].expired => release[u].expired) /\ \A i \in DOMAIN events : events[i].kind # "none"
    BY <1>2, <1>3, <1>4, <1>6
  <1> QED BY <1>1, <1>4, <1>6, <1>8, <1>9, ServeInv

LEMMA TrashSkillInv == ASSUME FeedInv, NEW s \in FeedSlots, TrashSkill(s) PROVE FeedInv'
  <1> DEFINE event  == SkillTombstone(Shared(Releases))
             events == <<event>>
  <1>1. release \in [Releases -> ReleaseRow] /\ ServeFeed(s, release, "in", events, {})
    BY DEF FeedInv, FeedTypeOK, TrashSkill
  <1>2. event \in Event /\ event.kind = "tombstone" /\ event.of = 0 /\ event.public = Shared(Releases)
    <2>1. Shared(Releases) \in BOOLEAN
      BY DEF Shared
    <2> QED BY <2>1, TombstoneIs
  <1>3. ~Shared(Releases) => \A u \in Releases : ~Available(release[u])
    BY DEF Shared, Available
  <1> HIDE DEF event
  <1>4. events \in Seq(Event) /\ DOMAIN events = {1} /\ events[1] = event
    BY <1>2
  <1> HIDE DEF events
  <1>5. ASSUME NEW u \in Releases, NEW anon \in BOOLEAN
        PROVE  Announced(events, anon, u, ~trashed /\ Available(release[u]), PublicAfter("in", release[u]))
    <2>1. ~PublicAfter("in", release[u])
      BY DEF PublicAfter
    <2>2. \A i \in DOMAIN events : events[i].kind # "upsert"
      BY <1>2, <1>4
    <2>3. (\A i \in DOMAIN events : ~Counts(events[i], anon, u)) => ~Available(release[u])
      BY <1>2, <1>3, <1>4 DEF Counts
    <2> QED BY <2>1, <2>2, <2>3, SameNews
  <1>6. \A i \in DOMAIN events : events[i].kind # "none"
    BY <1>2, <1>4
  <1> QED BY <1>1, <1>4, <1>5, <1>6, ServeInv

\* A restored skill announces the versions that are public.
LEMMA UntrashSkillInv == ASSUME FeedInv, NEW s \in FeedSlots, UntrashSkill(s) PROVE FeedInv'
  <1> DEFINE vs     == {v \in Releases : release[v].status # "absent"}
             n      == Cardinality(vs)
             of(i)  == EventOf(Nth(vs, i), "tombstone", SyncState(release[Nth(vs, i)]))
             events == [i \in 1 .. n |-> of(i)]
  <1>1. release \in [Releases -> ReleaseRow] /\ trashed /\ ServeFeed(s, release, "out", events, {})
    BY DEF FeedInv, FeedTypeOK, UntrashSkill
  <1>2. vs \subseteq Releases /\ vs \subseteq Nat /\ IsFiniteSet(vs) /\ n \in Nat
    BY FeedAssumption, FS_Subset, FS_CardinalityType
  <1>3. ASSUME NEW i \in 1 .. n
        PROVE  /\ Nth(vs, i) \in vs /\ Cardinality({u \in vs : u <= Nth(vs, i)}) = i
               /\ of(i) \in Event /\ of(i).kind \notin {"none", "tombstone"} /\ of(i).of = Nth(vs, i)
               /\ of(i).kind = "upsert" <=> Available(release[Nth(vs, i)])
               /\ of(i).kind # "state" => of(i).public
    <2>1. i \in Nat \ {0} /\ i <= n
      BY <1>2
    <2>2. \E b \in vs : Cardinality({c \in vs : c <= b}) = i
      <3> HIDE DEF vs
      <3> QED BY <1>2, <2>1, KthNumber
    <2>3. Nth(vs, i) \in vs /\ Cardinality({u \in vs : u <= Nth(vs, i)}) = i
      <3> HIDE DEF vs
      <3> QED BY <2>2 DEF Nth
    <2>4. Nth(vs, i) \in Releases
      BY <2>3
    <2> HIDE DEF vs
    <2> QED BY <1>1, <2>3, <2>4, EventIs, SyncLive
  <1>4. ASSUME NEW v \in vs PROVE \E i \in 1 .. n : Nth(vs, i) = v
    <2> DEFINE upto(u) == {c \in vs : c <= u}
               i == Cardinality(upto(v))
    <2>1. IsFiniteSet(upto(v)) /\ upto(v) \subseteq vs /\ v \in upto(v)
      BY <1>2, FS_Subset
    <2>2. i \in Nat /\ i <= n /\ i # 0
      BY <1>2, <2>1, FS_Subset, FS_CardinalityType, FS_EmptySet
    <2>3. i \in 1 .. n
      BY <1>2, <2>2
    <2> DEFINE u == Nth(vs, i)
    <2>4. u \in vs /\ Cardinality(upto(u)) = i
      BY <1>3, <2>3
    <2>5. ASSUME NEW a \in vs, NEW b \in vs, a < b PROVE Cardinality(upto(a)) < Cardinality(upto(b))
      <3>1. IsFiniteSet(upto(a)) /\ IsFiniteSet(upto(b))
        BY <1>2, FS_Subset
      <3>2. upto(a) \subseteq upto(b) /\ b \in upto(b) /\ b \notin upto(a)
        BY <1>2, <2>5
      <3>3. Cardinality(upto(a)) < Cardinality(upto(b))
        <4> HIDE DEF upto
        <4>1. Cardinality(upto(a)) <= Cardinality(upto(b)) /\ upto(a) # upto(b)
              /\ (Cardinality(upto(a)) = Cardinality(upto(b)) => upto(a) = upto(b))
          BY <3>1, <3>2, FS_Subset
        <4>2. Cardinality(upto(a)) \in Nat /\ Cardinality(upto(b)) \in Nat
          BY <3>1, FS_CardinalityType
        <4> QED BY <4>1, <4>2
      <3> QED BY <3>3
    <2>6. \A a \in vs : Cardinality(upto(a)) \in Nat
      BY <1>2, FS_Subset, FS_CardinalityType
    <2> HIDE DEF upto, vs
    <2>7. u = v
      <3>1. u \in Nat /\ v \in Nat
        BY <1>2, <2>4
      <3>2. CASE u < v
        BY <2>4, <2>5, <2>6, <3>2
      <3>3. CASE v < u
        BY <2>4, <2>5, <2>6, <3>3
      <3> QED BY <3>1, <3>2, <3>3
    <2> QED BY <2>3, <2>7
  <1>5. events \in Seq(Event) /\ DOMAIN events = 1 .. n /\ \A i \in 1 .. n : events[i] = of(i)
    <2>1. events \in [1 .. n -> Event]
      BY <1>3
    <2> HIDE DEF events, of, n
    <2>2. events \in Seq(Event) /\ DOMAIN events = 1 .. n
      BY <1>2, <2>1
    <2> QED BY <2>2 DEF events
  <1>6. ASSUME NEW u \in Releases, NEW anon \in BOOLEAN
        PROVE  Announced(events, anon, u, ~trashed /\ Available(release[u]), PublicAfter("out", release[u]))
    <2>1. PublicAfter("out", release[u]) <=> Available(release[u])
      BY DEF PublicAfter
    <2>2. ASSUME NEW i \in DOMAIN events, Counts(events[i], anon, u)
          PROVE  events[i].kind = "upsert" <=> Available(release[u])
      <3>1. i \in 1 .. n /\ events[i] = of(i) /\ of(i).of = Nth(vs, i) /\ Nth(vs, i) \in Releases
            /\ (of(i).kind = "upsert" <=> Available(release[Nth(vs, i)]))
        BY <1>3, <1>5
      <3> HIDE DEF events, of, vs, n
      <3>2. Nth(vs, i) = u
        BY <2>2, <3>1, Numbers DEF Counts
      <3> QED BY <3>1, <3>2
    <2>3. ASSUME Available(release[u]) PROVE \E i \in DOMAIN events : Counts(events[i], anon, u)
      <3>1. u \in vs
        BY <2>3 DEF Available
      <3>2. PICK i \in 1 .. n : Nth(vs, i) = u
        BY <1>4, <3>1
      <3>3. events[i] = of(i) /\ of(i).kind = "upsert" /\ of(i).public /\ of(i).of = u
        BY <1>3, <1>5, <2>3, <3>2
      <3>4. Counts(events[i], anon, u)
        BY <3>3 DEF Counts
      <3> QED BY <1>5, <3>2, <3>4
    <2> HIDE DEF events
    <2> QED BY <1>1, <2>1, <2>2, <2>3, SameNews
  <1>7. \A i \in DOMAIN events : events[i].kind # "none"
    BY <1>3, <1>5
  <1> HIDE DEF events
  <1>8. {} \in SUBSET Releases /\ \A v \in Releases : release[v].expired => release[v].expired
    OBVIOUS
  <1> QED BY <1>1, <1>5, <1>6, <1>7, <1>8, ServeInv

-------------------------------------------------------------------------------
(* A request ends *)

LEMMA FlushRelease ==
  ASSUME NEW cur \in ReleaseRow, NEW snap \in ReleaseRow, NEW new \in ReleaseRow
  PROVE  /\ Flush(cur, snap, new) \in ReleaseRow
         /\ cur = snap => Flush(cur, snap, new) = new
         /\ cur = [snap EXCEPT !.expired = TRUE] /\ ~Flush(cur, snap, new).expired => Flush(cur, snap, new) = new
         /\ Flush(cur, snap, new).expired => cur.expired \/ (new.expired /\ ~snap.expired)
         /\ cur.expired /\ ~Flush(cur, snap, new).expired => (snap.expired <=> ~new.expired)
  <1>1. DOMAIN cur = {"status", "share", "expired"}
    BY DEF ReleaseRow
  <1>2. Flush(cur, snap, new) = [status |-> IF new.status = snap.status THEN cur.status ELSE new.status,
                                 share |-> IF new.share = snap.share THEN cur.share ELSE new.share,
                                 expired |-> IF new.expired = snap.expired THEN cur.expired ELSE new.expired]
    BY <1>1 DEF Flush
  <1>3. Flush(cur, snap, new) \in ReleaseRow
    BY <1>2 DEF ReleaseRow
  <1>4. cur = snap => Flush(cur, snap, new) = new
    BY <1>2 DEF ReleaseRow
  <1>5. ASSUME cur = [snap EXCEPT !.expired = TRUE], ~Flush(cur, snap, new).expired PROVE Flush(cur, snap, new) = new
    <2>1. cur.status = snap.status /\ cur.share = snap.share /\ cur.expired = TRUE
      BY <1>5 DEF ReleaseRow
    <2>2. new.expired # snap.expired
      BY <1>2, <1>5, <2>1
    <2> QED BY <1>2, <2>1, <2>2 DEF ReleaseRow
  <1>6. Flush(cur, snap, new).expired => cur.expired \/ (new.expired /\ ~snap.expired)
    BY <1>2 DEF ReleaseRow
  <1>7. cur.expired /\ ~Flush(cur, snap, new).expired => (snap.expired <=> ~new.expired)
    BY <1>2 DEF ReleaseRow
  <1> QED BY <1>3, <1>4, <1>5, <1>6, <1>7

LEMMA CommitFeedTypes ==
  ASSUME FeedTypeOK, NEW s \in FeedSlots, CommitFeed(s)
  PROVE  /\ FeedTypeOK'
         /\ \A v \in Releases : release'[v] = Flush(release[v], feedReq[s].snap[v], feedReq[s].new[v])
         /\ \A t \in FeedSlots : feedReq'[t].busy => t # s /\ feedReq[t].busy
  <1> DEFINE r == feedReq[s]
  <1>1. r \in FeedRequest /\ release \in [Releases -> ReleaseRow]
    BY DEF FeedTypeOK
  <1>2. r.snap \in [Releases -> ReleaseRow] /\ r.new \in [Releases -> ReleaseRow]
        /\ r.trash \in {"kept", "in", "out"} /\ r.events \in [EventIds -> Event] /\ r.wrong \subseteq Releases
    BY <1>1 DEF FeedRequest
  <1>3. /\ release' = FlushRows(release, r.snap, r.new)
        /\ trashed' = (IF r.trash = "kept" THEN trashed ELSE r.trash = "in")
        /\ feed' = [e \in EventIds |-> IF r.events[e] = NoEvent THEN feed[e] ELSE r.events[e]]
        /\ feedReq' = [feedReq EXCEPT ![s] = NoFeedRequest]
        /\ silent' \subseteq r.wrong \cup silent /\ UNCHANGED <<nextEvent, follower, feedMixed>>
    BY DEF CommitFeed
  <1> HIDE DEF r
  <1>4. release' = [v \in Releases |-> Flush(release[v], r.snap[v], r.new[v])]
    BY <1>1, <1>3 DEF FlushRows
  <1>5. release' \in [Releases -> ReleaseRow]
    BY <1>1, <1>2, <1>4, FlushRelease
  <1>6. feed' \in [EventIds -> Event] /\ trashed' \in BOOLEAN
    BY <1>2, <1>3 DEF FeedTypeOK
  <1>7. FeedTypeOK'
    BY <1>2, <1>3, <1>5, <1>6, NoFeedRequestFacts DEF FeedTypeOK
  <1>8. \A t \in FeedSlots : feedReq'[t].busy => t # s /\ feedReq[t].busy
    BY <1>3, NoFeedRequestFacts DEF FeedTypeOK
  <1> QED BY <1>4, <1>7, <1>8 DEF r

\* What the events of a request add to the stream comes last.
Adds(ev) ==
    /\ feed' = [e \in EventIds |-> IF ev[e] = NoEvent THEN feed[e] ELSE ev[e]]
    /\ \A e \in EventIds : IF ev[e].kind = "none" THEN ev[e] = NoEvent
                           ELSE \A d \in EventIds : feed[d].kind # "none" => d < e

LEMMA NewsGrows ==
  ASSUME FeedTypeOK, NEW ev \in [EventIds -> Event], NEW anon \in BOOLEAN, NEW v \in Releases, Adds(ev)
  PROVE  /\ NewsAbout(feed', anon, v) = NewsAbout(feed, anon, v) \cup NewsAbout(ev, anon, v)
         /\ \A e \in NewsAbout(ev, anon, v) : feed'[e] = ev[e]
         /\ \A d \in NewsAbout(feed, anon, v) : feed'[d] = feed[d] /\ \A e \in NewsAbout(ev, anon, v) : d < e
  <1>0. \A e \in EventIds : IF ev[e].kind = "none" THEN ev[e] = NoEvent
                           ELSE \A d \in EventIds : feed[d].kind # "none" => d < e
    BY DEF Adds
  <1>10. feed' = [e \in EventIds |-> IF ev[e] = NoEvent THEN feed[e] ELSE ev[e]]
    BY DEF Adds
  <1>1. DOMAIN feed = EventIds /\ DOMAIN feed' = EventIds /\ DOMAIN ev = EventIds
    BY <1>10 DEF FeedTypeOK
  <1>2. ASSUME NEW d \in EventIds, feed[d].kind # "none" PROVE feed'[d] = feed[d]
    <2>1. ~(d < d)
      BY Numbers
    <2>2. ev[d] = NoEvent
      BY <1>0, <1>2, <2>1
    <2> QED BY <1>10, <2>2
  <1>3. ASSUME NEW e \in EventIds, ev[e].kind # "none" PROVE feed'[e] = ev[e]
    BY <1>10, <1>3, NoEventFacts
  <1>4. \A e \in EventIds : feed'[e] = feed[e] \/ feed'[e] = ev[e]
    BY <1>10
  <1>5. ASSUME NEW e \in NewsAbout(ev, anon, v) PROVE e \in EventIds /\ ev[e].kind # "none" /\ feed'[e] = ev[e]
    BY <1>1, <1>3 DEF NewsAbout
  <1>6. ASSUME NEW d \in NewsAbout(feed, anon, v) PROVE d \in EventIds /\ feed[d].kind # "none" /\ feed'[d] = feed[d]
    BY <1>1, <1>2 DEF NewsAbout
  <1>7. NewsAbout(feed', anon, v) = NewsAbout(feed, anon, v) \cup NewsAbout(ev, anon, v)
    <2>1. NewsAbout(feed', anon, v) \subseteq NewsAbout(feed, anon, v) \cup NewsAbout(ev, anon, v)
      BY <1>1, <1>4 DEF NewsAbout
    <2>2. NewsAbout(feed, anon, v) \subseteq NewsAbout(feed', anon, v)
      BY <1>1, <1>6 DEF NewsAbout
    <2>3. NewsAbout(ev, anon, v) \subseteq NewsAbout(feed', anon, v)
      BY <1>1, <1>5 DEF NewsAbout
    <2> QED BY <2>1, <2>2, <2>3
  <1>8. ASSUME NEW d \in NewsAbout(feed, anon, v), NEW e \in NewsAbout(ev, anon, v) PROVE d < e
    BY <1>0, <1>5, <1>6
  <1> QED BY <1>5, <1>6, <1>7, <1>8

\* Every version that a commit leaves outside silent is as the request made it, and where the
\* request says nothing of it, it was outside before and is as it was.
LEMMA CommitFeedRows ==
  ASSUME FeedInv, ~feedMixed, NEW s \in FeedSlots, CommitFeed(s), NEW r \in FeedRequest, r = feedReq[s],
         NEW v \in Releases, v \notin silent', NEW anon \in BOOLEAN
  PROVE  /\ v \in LiveReleases' <=> PublicAfter(r.trash, r.new[v])
         /\ Announced(r.events, anon, v, ~trashed /\ Available(r.snap[v]), PublicAfter(r.trash, r.new[v]))
         /\ NewsAbout(r.events, anon, v) = {} =>
               v \notin silent /\ (v \in LiveReleases <=> ~trashed /\ Available(r.snap[v]))
  <1>1. /\ r.busy /\ AtWork(r) /\ OneServed
        /\ trashed' = (IF r.trash = "kept" THEN trashed ELSE r.trash = "in")
        /\ silent' = r.wrong \cup {u \in silent : release'[u].expired \/ \A e \in EventIds :
                        r.events[e].kind \in {"upsert", "tombstone"} /\ r.events[e].public
                            => r.events[e].of \notin {u, 0}}
    BY DEF CommitFeed, FeedInv, OneServed
  <1>2. /\ release[v] \in ReleaseRow /\ r.snap[v] \in ReleaseRow /\ r.new[v] \in ReleaseRow
        /\ r.events \in [EventIds -> Event]
        /\ release'[v] = Flush(release[v], r.snap[v], r.new[v]) /\ release' \in [Releases -> ReleaseRow]
    BY CommitFeedTypes DEF FeedInv, FeedTypeOK, FeedRequest
  <1>3. Snapped(v, r.snap[v]) /\ (release[v].expired => v \in silent) /\ v \notin r.wrong
    BY <1>1 DEF AtWork, OneServed
  <1>4. CASE v \notin silent
    <2>1. release[v] = r.snap[v]
      BY <1>3, <1>4 DEF Snapped
    <2>2. release'[v] = r.new[v]
      BY <1>2, <2>1, FlushRelease
    <2> QED BY <1>1, <1>3, <1>4, <2>1, <2>2 DEF AtWork, LiveReleases, PublicAfter
  <1>5. CASE v \in silent
    <2>1. /\ ~release'[v].expired
          /\ \E e \in EventIds : r.events[e].kind \in {"upsert", "tombstone"} /\ r.events[e].public
                                 /\ r.events[e].of \in {v, 0}
      BY <1>1, <1>5
    <2>2. release'[v] = r.new[v]
      BY <1>2, <1>3, <2>1, FlushRelease DEF Snapped
    <2>3. NewsAbout(r.events, anon, v) # {}
      BY <1>2, <2>1 DEF NewsAbout
    <2> QED BY <1>1, <1>3, <2>2, <2>3 DEF AtWork, LiveReleases, PublicAfter
  <1> QED BY <1>4, <1>5

\* What a commit leaves in silent is not public.
LEMMA CommitFeedSilent ==
  ASSUME FeedInv, ~feedMixed, NEW s \in FeedSlots, CommitFeed(s), NEW r \in FeedRequest, r = feedReq[s],
         NEW v \in Releases, v \in silent'
  PROVE  v \notin LiveReleases'
  <1>1. /\ r.busy /\ AtWork(r) /\ OneServed
        /\ trashed' = (IF r.trash = "kept" THEN trashed ELSE r.trash = "in")
        /\ silent' = r.wrong \cup {u \in silent : release'[u].expired \/ \A e \in EventIds :
                        r.events[e].kind \in {"upsert", "tombstone"} /\ r.events[e].public
                            => r.events[e].of \notin {u, 0}}
    BY DEF CommitFeed, FeedInv, OneServed
  <1>2. /\ release[v] \in ReleaseRow /\ r.snap[v] \in ReleaseRow /\ r.new[v] \in ReleaseRow
        /\ r.events \in [EventIds -> Event]
        /\ release'[v] = Flush(release[v], r.snap[v], r.new[v]) /\ release' \in [Releases -> ReleaseRow]
    BY CommitFeedTypes DEF FeedInv, FeedTypeOK, FeedRequest
  <1>3. Snapped(v, r.snap[v]) /\ (r.new[v].expired => r.snap[v].expired)
    BY <1>1 DEF AtWork
  <1>4. CASE release'[v].expired
    BY <1>4 DEF LiveReleases, Available
  <1>5. CASE ~release'[v].expired
    <2>1. release'[v] = r.new[v]
      BY <1>2, <1>3, <1>5, FlushRelease DEF Snapped
    <2>2. v \in LiveReleases' <=> PublicAfter(r.trash, r.new[v])
      BY <1>1, <2>1 DEF LiveReleases, PublicAfter
    <2>3. CASE v \in r.wrong
      BY <1>1, <2>2, <2>3 DEF AtWork, PublicAfter
    <2>4. CASE v \notin r.wrong
      <3>1. v \in silent /\ NewsAbout(r.events, TRUE, v) = {}
        <4>1. v \in silent /\ \A e \in EventIds :
                 r.events[e].kind \in {"upsert", "tombstone"} /\ r.events[e].public => r.events[e].of \notin {v, 0}
          BY <1>1, <1>5, <2>4
        <4> QED BY <1>2, <4>1 DEF NewsAbout
      <3>2. PublicAfter(r.trash, r.new[v]) <=> ~trashed /\ Available(r.snap[v])
        BY <1>1, <2>4, <3>1 DEF AtWork, Announced
      <3>3. trashed \/ ~Available(release[v])
        BY <1>1, <3>1 DEF OneServed, LiveReleases
      <3>4. CASE release[v] = r.snap[v]
        BY <2>2, <3>2, <3>3, <3>4
      <3>5. CASE release[v] = [r.snap[v] EXCEPT !.expired = TRUE]
        <4>1. release[v].expired
          BY <1>2, <3>5 DEF ReleaseRow
        <4>2. r.snap[v].expired
          <5>1. PICK cur \in ReleaseRow, old \in ReleaseRow, new \in ReleaseRow :
                   cur = release[v] /\ old = r.snap[v] /\ new = r.new[v]
            BY <1>2
          <5>2. cur.expired /\ ~Flush(cur, old, new).expired /\ (new.expired => old.expired)
            BY <1>2, <1>3, <1>5, <4>1, <5>1
          <5> QED BY <5>1, <5>2, FlushRelease
        <4> QED BY <2>2, <3>2, <4>2 DEF Available
      <3> QED BY <1>3, <3>4, <3>5 DEF Snapped
    <2> QED BY <2>3, <2>4
  <1> QED BY <1>4, <1>5

LEMMA CommitFeedInv == ASSUME FeedInv, NEW s \in FeedSlots, CommitFeed(s) PROVE FeedInv'
  <1>0. FeedTypeOK /\ FeedTypeOK' /\ \A t \in FeedSlots : feedReq'[t].busy => t # s /\ feedReq[t].busy
    BY CommitFeedTypes DEF FeedInv
  <1> SUFFICES ASSUME ~feedMixed' PROVE OneServed'
    BY <1>0 DEF FeedInv
  <1>1. PICK r \in FeedRequest : r = feedReq[s]
    BY <1>0 DEF FeedTypeOK
  <1>2. /\ ~feedMixed /\ r.busy /\ AtWork(r) /\ OneServed
        /\ feed' = [e \in EventIds |-> IF r.events[e] = NoEvent THEN feed[e] ELSE r.events[e]]
        /\ silent' = r.wrong \cup {u \in silent : release'[u].expired \/ \A e \in EventIds :
                        r.events[e].kind \in {"upsert", "tombstone"} /\ r.events[e].public
                            => r.events[e].of \notin {u, 0}}
        /\ UNCHANGED <<nextEvent, follower>>
    BY <1>1 DEF CommitFeed, FeedInv, OneServed
  <1>3. r.events \in [EventIds -> Event]
    BY DEF FeedRequest
  <1>4. \A t \in FeedSlots : ~feedReq'[t].busy
    BY <1>0, <1>1, <1>2 DEF OneServed
  <1>5. ASSUME NEW e \in EventIds, feed'[e].kind # "none" PROVE e < nextEvent'
    <2>1. CASE feed'[e] = feed[e]
      BY <1>2, <1>5, <2>1 DEF OneServed
    <2>2. CASE feed'[e] = r.events[e]
      BY <1>2, <1>5, <2>2 DEF AtWork
    <2> QED BY <1>2, <2>1, <2>2
  <1>6. ASSUME NEW f \in Followers PROVE follower'[f].cursor = 0 \/ feed'[follower'[f].cursor].kind # "none"
    <2> DEFINE c == follower[f].cursor
    <2>1. c \in 0 .. MaxEvents /\ (c = 0 \/ feed[c].kind # "none")
      BY <1>0, <1>2 DEF FeedTypeOK, Follower, OneServed
    <2>2. CASE c # 0
      <3>1. c \in EventIds
        BY <2>1, <2>2, Numbers DEF EventIds
      <3>2. r.events[c].kind = "none" => r.events[c] = NoEvent
        BY <1>2, <3>1 DEF AtWork
      <3> QED BY <1>2, <2>1, <2>2, <3>1, <3>2
    <2> QED BY <1>2, <2>2
  <1>7. ASSUME NEW v \in Releases, release'[v].expired PROVE v \in silent'
    <2>1. /\ release[v] \in ReleaseRow /\ r.snap[v] \in ReleaseRow /\ r.new[v] \in ReleaseRow
          /\ release'[v] = Flush(release[v], r.snap[v], r.new[v])
      BY <1>0, <1>1, CommitFeedTypes DEF FeedTypeOK, FeedRequest
    <2>2. r.new[v].expired => r.snap[v].expired
      BY <1>2 DEF AtWork
    <2>3. release[v].expired
      BY <1>7, <2>1, <2>2, FlushRelease
    <2> QED BY <1>2, <1>7, <2>3 DEF OneServed
  <1>8. ASSUME NEW v \in Releases, v \notin silent', NEW anon \in BOOLEAN
        PROVE  /\ Told(anon, v)'
               /\ \A f \in Followers : follower[f].anonymous = anon => Holds(follower[f], v)'
    <2> DEFINE news == NewsAbout(r.events, anon, v)
               old  == NewsAbout(feed, anon, v)
               now  == NewsAbout(feed', anon, v)
    <2>1. /\ v \in LiveReleases' <=> PublicAfter(r.trash, r.new[v])
          /\ Announced(r.events, anon, v, ~trashed /\ Available(r.snap[v]), PublicAfter(r.trash, r.new[v]))
          /\ NewsAbout(r.events, anon, v) = {} =>
               v \notin silent /\ (v \in LiveReleases <=> ~trashed /\ Available(r.snap[v]))
      BY <1>1, <1>2, <1>8, CommitFeedRows
    <2>2. \A e \in EventIds : IF r.events[e].kind = "none" THEN r.events[e] = NoEvent
                             ELSE \A d \in EventIds : feed[d].kind # "none" => d < e
      BY <1>2 DEF AtWork
    <2>3. /\ now = old \cup news /\ \A e \in news : feed'[e] = r.events[e]
          /\ \A d \in old : feed'[d] = feed[d] /\ \A e \in news : d < e
      <3>1. PICK ev \in [EventIds -> Event] : ev = r.events
        BY <1>3
      <3>2. Adds(ev)
        BY <1>2, <2>2, <3>1 DEF Adds
      <3>3. /\ now = old \cup NewsAbout(ev, anon, v)
            /\ \A e \in NewsAbout(ev, anon, v) : feed'[e] = ev[e]
            /\ \A d \in old : feed'[d] = feed[d] /\ \A e \in NewsAbout(ev, anon, v) : d < e
        BY <1>0, <3>2, NewsGrows
      <3> QED BY <3>1, <3>3
    <2>4. news \subseteq EventIds /\ old \subseteq EventIds
      BY <1>0, <1>3 DEF NewsAbout, FeedTypeOK
    <2>5. \A e \in news : r.events[e].kind # "none"
      BY DEF NewsAbout
    <2>6. \A e \in news, d \in EventIds : feed[d].kind # "none" => d < e
      BY <2>2, <2>4, <2>5
    <2>7. CASE news = {}
      <3>1. v \notin silent /\ (v \in LiveReleases' <=> v \in LiveReleases) /\ now = old
            /\ \A d \in old : feed'[d] = feed[d]
        BY <2>1, <2>3, <2>7 DEF Announced
      <3>2. Told(anon, v) /\ \A f \in Followers : Holds(follower[f], v)
        BY <1>2, <3>1 DEF OneServed
      <3>3. Told(anon, v)'
        <4>1. ASSUME NEW e \in EventIds, LastOf(now, e) PROVE feed'[e].kind = "upsert" <=> v \in LiveReleases'
          <5>1. LastOf(old, e) /\ feed'[e] = feed[e]
            BY <3>1, <4>1 DEF LastOf
          <5> QED BY <3>1, <3>2, <5>1 DEF Told
        <4> QED BY <4>1 DEF Told
      <3>4. ASSUME NEW f \in Followers, follower[f].anonymous = anon PROVE Holds(follower[f], v)'
        BY <1>2, <3>1, <3>2, <3>4 DEF Holds
      <3> QED BY <3>3, <3>4
    <2>8. CASE news # {}
      <3>1. ASSUME NEW e \in EventIds, LastOf(now, e) PROVE feed'[e].kind = "upsert" <=> v \in LiveReleases'
        <4>1. e \in news
          <5>1. PICK d \in news : TRUE
            BY <2>8
          <5>2. d <= e /\ e \in old \cup news /\ d \in Nat /\ e \in Nat
            BY <2>3, <2>4, <3>1, Numbers DEF LastOf
          <5>3. ~(e < d)
            BY <5>2
          <5> QED BY <2>3, <5>2, <5>3
        <4>2. LastOf(news, e) /\ feed'[e] = r.events[e] /\ e \in DOMAIN r.events
          BY <1>3, <2>3, <3>1, <4>1 DEF LastOf
        <4> QED BY <2>1, <4>2 DEF Announced
      <3>2. ASSUME NEW f \in Followers, follower[f].anonymous = anon PROVE Holds(follower[f], v)'
        <4> DEFINE c == follower[f].cursor
        <4>1. c \in 0 .. MaxEvents /\ (c = 0 \/ feed[c].kind # "none")
          BY <1>0, <1>2 DEF FeedTypeOK, Follower, OneServed
        <4>2. PICK e \in news : TRUE
          BY <2>8
        <4>3. e \in EventIds /\ e \in now
          BY <2>3, <2>4, <4>2
        <4>4. ~(e <= c)
          <5>1. CASE c = 0
            BY <4>3, <5>1, Numbers
          <5>2. CASE c # 0
            <6>1. c \in EventIds
              BY <4>1, <5>2, Numbers DEF EventIds
            <6>2. c < e
              BY <2>6, <4>1, <4>2, <5>2, <6>1
            <6> QED BY <4>3, <6>1, <6>2, Numbers
          <5> QED BY <5>1, <5>2
        <4>5. follower'[f] = follower[f]
          BY <1>2
        <4> QED BY <3>2, <4>3, <4>4, <4>5 DEF Holds
      <3> QED BY <3>1, <3>2 DEF Told
    <2> QED BY <2>7, <2>8
  <1>9. ASSUME NEW v \in Releases, v \notin silent', NEW f \in Followers PROVE Holds(follower[f], v)'
    <2>1. follower[f].anonymous \in BOOLEAN /\ follower'[f] = follower[f]
      BY <1>0, <1>2 DEF FeedTypeOK, Follower
    <2>2. Holds(follower[f], v)'
      BY <1>8, <1>9, <2>1
    <2> QED BY <2>2
  <1>10. \A v \in silent' : v \notin LiveReleases'
    <2>1. silent' \subseteq Releases
      BY <1>0 DEF FeedTypeOK
    <2> QED BY <1>1, <1>2, <2>1, CommitFeedSilent
  <1> QED BY <1>4, <1>5, <1>6, <1>7, <1>8, <1>9, <1>10 DEF OneServed

LEMMA AbortFeedInv == ASSUME FeedInv, NEW s \in FeedSlots, AbortFeed(s) PROVE FeedInv'
  <1>1. /\ feedReq' = [feedReq EXCEPT ![s] = NoFeedRequest]
        /\ UNCHANGED <<release, trashed, feed, nextEvent, follower, silent, feedMixed>>
    BY DEF AbortFeed
  <1>2. FeedTypeOK /\ FeedTypeOK'
    BY <1>1, NoFeedRequestFacts DEF FeedInv, FeedTypeOK
  <1>3. \A t \in FeedSlots : feedReq'[t].busy => feedReq'[t] = feedReq[t]
    BY <1>1, <1>2, NoFeedRequestFacts DEF FeedTypeOK
  <1> SUFFICES ASSUME ~feedMixed' PROVE OneServed'
    BY <1>2 DEF FeedInv
  <1>4. OneServed
    BY <1>1 DEF FeedInv
  <1>5. ASSUME NEW t \in FeedSlots, feedReq'[t].busy PROVE feedReq[t].busy /\ AtWork(feedReq[t])'
    <2>1. PICK r : r = feedReq[t] /\ r = feedReq'[t]
      BY <1>3, <1>5
    <2>2. r.busy /\ AtWork(r)
      BY <1>4, <1>5, <2>1 DEF OneServed
    <2>3. AtWork(r)'
      BY <1>1, <2>2 DEF AtWork, Snapped, Announced, PublicAfter
    <2> QED BY <2>1, <2>2, <2>3 DEF AtWork, Snapped, Announced, PublicAfter
  <1>6. \A anon \in BOOLEAN, v \in Releases : Told(anon, v) => Told(anon, v)'
    BY <1>1 DEF Told, LiveReleases
  <1>7. \A f \in Followers, v \in Releases : Holds(follower[f], v) => Holds(follower[f], v)'
    BY <1>1 DEF Holds, LiveReleases
  <1>8. \A v \in silent' : v \notin LiveReleases'
    BY <1>1, <1>4 DEF OneServed, LiveReleases
  <1> QED BY <1>1, <1>4, <1>5, <1>6, <1>7, <1>8 DEF OneServed
-------------------------------------------------------------------------------
(* Time, the sweep, and what goes without an event *)

LEMMA ExpireInv == ASSUME FeedInv, NEW v \in Releases, Expire(v) PROVE FeedInv'
  <1>1. /\ ~release[v].expired /\ release' = [release EXCEPT ![v].expired = TRUE] /\ silent' = silent \cup {v}
        /\ UNCHANGED <<trashed, feed, nextEvent, feedReq, follower, feedMixed>>
    BY DEF Expire
  <1>2. FeedTypeOK /\ release \in [Releases -> ReleaseRow]
    BY DEF FeedInv, FeedTypeOK
  <1>3. /\ release'[v] = [release[v] EXCEPT !.expired = TRUE] /\ release'[v] \in ReleaseRow
        /\ \A u \in Releases \ {v} : release'[u] = release[u]
        /\ release' \in [Releases -> ReleaseRow]
    BY <1>1, <1>2 DEF ReleaseRow
  <1>4. FeedTypeOK'
    BY <1>1, <1>2, <1>3 DEF FeedTypeOK
  <1> SUFFICES ASSUME ~feedMixed' PROVE OneServed'
    BY <1>4 DEF FeedInv
  <1>5. OneServed
    BY <1>1 DEF FeedInv
  <1>6. \A u \in Releases : release'[u].expired => u \in silent'
    BY <1>1, <1>3, <1>5 DEF OneServed
  <1>7. ASSUME NEW r \in FeedRequest, AtWork(r) PROVE AtWork(r)'
    <2>1. ASSUME NEW u \in Releases PROVE Snapped(u, r.snap[u])'
      <3>1. Snapped(u, r.snap[u]) /\ r.snap[u] \in ReleaseRow
        BY <1>7 DEF AtWork, FeedRequest
      <3>2. CASE u # v
        BY <1>1, <1>3, <3>1, <3>2 DEF Snapped
      <3>3. CASE u = v
        <4>1. [r.snap[v] EXCEPT !.expired = TRUE].expired = TRUE
          BY <3>1, <3>3 DEF ReleaseRow
        <4>2. release[v] = r.snap[v]
          BY <1>1, <3>1, <3>3, <4>1 DEF Snapped
        <4> QED BY <1>1, <1>3, <3>3, <4>2 DEF Snapped
      <3> QED BY <3>2, <3>3
    <2>2. \A e \in EventIds : IF r.events[e].kind = "none" THEN r.events[e] = NoEvent
                             ELSE e < nextEvent' /\ \A d \in EventIds : feed'[d].kind # "none" => d < e
      BY <1>1, <1>7 DEF AtWork
    <2>3. \A u \in Releases :
             /\ (r.new[u].expired => r.snap[u].expired) /\ (u \in r.wrong => ~Available(r.new[u]))
             /\ u \notin r.wrong => \A anon \in BOOLEAN : Announced(r.events, anon, u, ~trashed' /\ Available(r.snap[u]),
                                                PublicAfter(r.trash, r.new[u])')
      BY <1>1, <1>7 DEF AtWork, PublicAfter
    <2> QED BY <2>1, <2>2, <2>3 DEF AtWork
  <1>8. ASSUME NEW t \in FeedSlots, feedReq'[t].busy PROVE AtWork(feedReq[t])'
    <2>1. PICK r \in FeedRequest : r = feedReq[t] /\ r = feedReq'[t]
      BY <1>1, <1>2 DEF FeedTypeOK
    <2>2. AtWork(r)'
      BY <1>1, <1>5, <1>7, <1>8, <2>1 DEF OneServed
    <2> QED BY <2>1, <2>2 DEF AtWork, Snapped, Announced, PublicAfter
  <1>9. \A u \in Releases \ silent' : u \notin silent /\ (u \in LiveReleases' <=> u \in LiveReleases)
    BY <1>1, <1>3 DEF LiveReleases
  <1>10. \A u \in Releases \ silent', anon \in BOOLEAN : Told(anon, u)'
    BY <1>1, <1>5, <1>9 DEF OneServed, Told
  <1>11. \A u \in Releases \ silent', f \in Followers : Holds(follower[f], u)'
    BY <1>1, <1>5, <1>9 DEF OneServed, Holds
  <1>12. \A u \in silent' : u \notin LiveReleases'
    <2>1. ~Available(release'[v]) /\ \A u \in Releases \ {v} : release'[u] = release[u]
      BY <1>2, <1>3 DEF Available, ReleaseRow
    <2> QED BY <1>1, <1>5, <2>1 DEF OneServed, LiveReleases
  <1> QED BY <1>1, <1>5, <1>6, <1>8, <1>10, <1>11, <1>12 DEF OneServed

\* Versions that are withdrawn, or are not public, change without an event.
LEMMA UnannouncedInv ==
  ASSUME FeedInv, Unannounced, release' \in [Releases -> ReleaseRow], silent \subseteq silent', silent' \subseteq Releases,
         \A u \in Releases : release'[u] = release[u] \/ (u \in silent' /\ ~Available(release'[u])),
         \A u \in silent' : u \in silent \/ ~Available(release'[u])
  PROVE  FeedInv'
  <1>1. /\ feedMixed' = (feedMixed \/ \E o \in FeedSlots : feedReq[o].busy)
        /\ UNCHANGED <<trashed, feed, nextEvent, feedReq, follower>>
    BY DEF Unannounced
  <1>2. FeedTypeOK'
    BY <1>1 DEF FeedInv, FeedTypeOK
  <1> SUFFICES ASSUME ~feedMixed' PROVE OneServed'
    BY <1>2 DEF FeedInv
  <1>3. OneServed /\ \A t \in FeedSlots : ~feedReq'[t].busy
    BY <1>1 DEF FeedInv
  <1>4. \A u \in Releases : release'[u].expired => u \in silent'
    BY <1>3 DEF OneServed
  <1>5. \A u \in Releases \ silent' : u \notin silent /\ (u \in LiveReleases' <=> u \in LiveReleases)
    BY <1>1 DEF LiveReleases
  <1>6. \A u \in Releases \ silent', anon \in BOOLEAN : Told(anon, u)'
    BY <1>1, <1>3, <1>5 DEF OneServed, Told
  <1>7. \A u \in Releases \ silent', f \in Followers : Holds(follower[f], u)'
    BY <1>1, <1>3, <1>5 DEF OneServed, Holds
  <1>8. ASSUME NEW u \in silent' PROVE u \notin LiveReleases'
    <2>1. CASE ~Available(release'[u])
      BY <2>1 DEF LiveReleases
    <2>2. CASE u \in silent /\ release'[u] = release[u]
      BY <1>1, <1>3, <2>2 DEF OneServed, LiveReleases
    <2> QED BY <2>1, <2>2
  <1> QED BY <1>1, <1>3, <1>4, <1>6, <1>7, <1>8 DEF OneServed

\* A share that has run out is silent, as long as no requests overlap.
LEMMA SweepInv == ASSUME FeedInv, NEW v \in Releases, Sweep(v) PROVE FeedInv'
  <1>1. /\ release[v].expired /\ release' = [release EXCEPT ![v].share = "none", ![v].expired = FALSE]
        /\ feedMixed' = (feedMixed \/ \E o \in FeedSlots : feedReq[o].busy)
        /\ UNCHANGED <<trashed, feed, nextEvent, feedReq, follower, silent>>
    BY DEF Sweep, Unannounced
  <1>2. FeedTypeOK /\ release \in [Releases -> ReleaseRow] /\ silent \subseteq Releases
    BY DEF FeedInv, FeedTypeOK
  <1>3. /\ release'[v].share = "none" /\ \A u \in Releases \ {v} : release'[u] = release[u]
        /\ release' \in [Releases -> ReleaseRow]
    BY <1>1, <1>2 DEF ReleaseRow
  <1>4. FeedTypeOK'
    BY <1>1, <1>2, <1>3 DEF FeedTypeOK
  <1>5. CASE feedMixed'
    BY <1>4, <1>5 DEF FeedInv
  <1>6. CASE ~feedMixed'
    <2>1. v \in silent
      BY <1>1, <1>6 DEF FeedInv, OneServed
    <2>2. ~Available(release'[v])
      BY <1>3 DEF Available
    <2>3. Unannounced
      BY <1>1 DEF Unannounced
    <2> QED BY <1>1, <1>2, <1>3, <2>1, <2>2, <2>3, UnannouncedInv
  <1> QED BY <1>1, <1>5, <1>6 DEF FeedInv

LEMMA RescanInv ==
  ASSUME FeedInv, NEW v \in Releases, NEW status \in {"quarantine", "rejected"}, Rescan(v, status) PROVE FeedInv'
  <1>1. release' = [release EXCEPT ![v].status = status] /\ silent' = silent \cup {v} /\ Unannounced
    BY DEF Rescan
  <1>2. release \in [Releases -> ReleaseRow] /\ silent \subseteq Releases
    BY DEF FeedInv, FeedTypeOK
  <1>3. /\ release'[v].status = status /\ \A u \in Releases \ {v} : release'[u] = release[u]
        /\ release' \in [Releases -> ReleaseRow]
    BY <1>1, <1>2 DEF ReleaseRow
  <1>4. ~Available(release'[v])
    BY <1>3 DEF Available
  <1> QED BY <1>1, <1>2, <1>3, <1>4, UnannouncedInv

LEMMA CollectInv == ASSUME FeedInv, NEW vs \in SUBSET Releases, Collect(vs) PROVE FeedInv'
  <1>1. /\ release' = [v \in Releases |-> IF v \in vs THEN NoRelease ELSE release[v]]
        /\ silent' = silent \cup vs /\ Unannounced
    BY DEF Collect
  <1>2. release \in [Releases -> ReleaseRow] /\ silent \subseteq Releases
    BY DEF FeedInv, FeedTypeOK
  <1>3. release' \in [Releases -> ReleaseRow]
    BY <1>1, <1>2, NoReleaseFacts
  <1>4. \A u \in Releases : IF u \in vs THEN ~Available(release'[u]) ELSE release'[u] = release[u]
    BY <1>1, NoReleaseFacts
  <1> QED BY <1>1, <1>2, <1>3, <1>4, UnannouncedInv

-------------------------------------------------------------------------------
(* Clients read *)

\* A step of one follower that keeps its state in type, its cursor at an event, and its copy.
LEMMA FollowerSteps ==
  ASSUME FeedInv, NEW f \in Followers, NEW g \in Follower,
         follower' = [follower EXCEPT ![f] = g], UNCHANGED <<release, trashed, feed, nextEvent, feedReq, silent, feedMixed>>,
         g.cursor = 0 \/ feed[g.cursor].kind # "none",
         OneServed => \A v \in Releases \ silent : Holds(g, v)
  PROVE  FeedInv'
  <1>1. FeedTypeOK /\ follower'[f] = g /\ \A h \in Followers \ {f} : follower'[h] = follower[h]
    BY DEF FeedInv, FeedTypeOK
  <1>2. FeedTypeOK'
    BY <1>1 DEF FeedTypeOK
  <1> SUFFICES ASSUME ~feedMixed' PROVE OneServed'
    BY <1>2 DEF FeedInv
  <1>3. OneServed
    BY DEF FeedInv
  <1>4. ASSUME NEW h \in Followers PROVE follower'[h].cursor = 0 \/ feed'[follower'[h].cursor].kind # "none"
    BY <1>1, <1>3 DEF OneServed
  <1>5. ASSUME NEW t \in FeedSlots, feedReq'[t].busy PROVE AtWork(feedReq[t])'
    BY <1>3, <1>5 DEF OneServed, AtWork, Snapped, Announced, PublicAfter
  <1>6. \A anon \in BOOLEAN, v \in Releases \ silent : Told(anon, v)'
    BY <1>3 DEF OneServed, Told, LiveReleases
  <1>7. ASSUME NEW h \in Followers, NEW v \in Releases \ silent PROVE Holds(follower[h], v)'
    <2>1. PICK k : k = follower'[h] /\ (k = g \/ k = follower[h])
      BY <1>1
    <2>2. Holds(k, v)
      BY <1>3, <2>1 DEF OneServed
    <2>3. Holds(k, v)'
      BY <2>2 DEF Holds, LiveReleases
    <2> QED BY <2>1, <2>3 DEF Holds
  <1>8. \A v \in silent' : v \notin LiveReleases'
    BY <1>3 DEF OneServed, LiveReleases
  <1> QED BY <1>3, <1>4, <1>5, <1>6, <1>7, <1>8 DEF OneServed

\* A page holds whatever comes before one of its events.
LEMMA PageClosed ==
  ASSUME NEW f, NEW p \in PageOf(f), NEW e \in After(f), e <= p
  PROVE  e \in PageOf(f)
  <1> DEFINE upto(d) == {c \in After(f) : c <= d}
  <1>1. After(f) \subseteq EventIds /\ p \in After(f) /\ Cardinality(upto(p)) <= PageSize
    BY DEF After, PageOf
  <1>2. e \in Nat /\ p \in Nat /\ \A c \in After(f) : c \in Nat
    BY <1>1, Numbers
  <1>3. upto(e) \subseteq upto(p)
    <2>1. \A c \in After(f) : c <= e => c <= p
      BY <1>2
    <2> QED BY <2>1
  <1>4. IsFiniteSet(After(f))
    BY <1>1, Numbers, FS_Subset
  <1>5. upto(p) \subseteq After(f)
    OBVIOUS
  <1> HIDE DEF upto
  <1>6. IsFiniteSet(upto(p)) /\ IsFiniteSet(upto(e))
    BY <1>3, <1>4, <1>5, FS_Subset
  <1>7. Cardinality(upto(e)) <= Cardinality(upto(p))
    BY <1>3, <1>6, FS_Subset
  <1>8. Cardinality(upto(e)) \in Nat /\ Cardinality(upto(p)) \in Nat /\ PageSize \in Nat
    BY <1>6, FS_CardinalityType, FeedAssumption
  <1>9. Cardinality(upto(e)) <= PageSize
    BY <1>1, <1>7, <1>8
  <1> QED BY <1>9 DEF PageOf, upto

\* What a client holds of a version when it has read a page.
LEMMA PageHolds ==
  ASSUME FeedTypeOK, NEW f \in Follower, PageOf(f) # {}, NEW v \in Releases,
         Told(f.anonymous, v), Holds(f, v),
         NEW g \in Follower, g.anonymous = f.anonymous, g.cursor = Max(PageOf(f)),
         g.copy = Applied(f.copy, PageOf(f))
  PROVE  Holds(g, v)
  <1> DEFINE page  == PageOf(f)
             top   == Max(page)
             news  == NewsAbout(feed, f.anonymous, v)
             about == {e \in page : feed[e].of \in {v, 0} /\ feed[e].kind # "state"}
  <1>1. page \subseteq After(f) /\ After(f) \subseteq EventIds /\ f.cursor \in Nat /\ feed \in [EventIds -> Event]
    BY Numbers DEF PageOf, After, Follower, FeedTypeOK
  <1>2. top \in page /\ \A e \in page : e <= top
    BY <1>1, MaxOf
  <1>3. ASSUME NEW e \in about PROVE e \in news /\ e \in page /\ f.cursor < e
    <2>1. e \in EventIds /\ e > f.cursor /\ Visible(f, e) /\ feed[e] \in Event
      BY <1>1 DEF After
    <2> QED BY <1>1, <2>1, Numbers DEF Visible, Event, NewsAbout
  <1>4. ASSUME NEW e \in news, e <= top, ~(e <= f.cursor) PROVE e \in about
    <2>1. e \in EventIds /\ feed[e].kind \in {"upsert", "tombstone"} /\ feed[e].of \in {v, 0}
          /\ (f.anonymous => feed[e].public)
      BY <1>1 DEF NewsAbout
    <2>2. e \in After(f)
      BY <1>1, <1>4, <2>1, Numbers DEF After, Visible
    <2>3. e \in page
      BY <1>2, <1>4, <2>2, PageClosed
    <2> QED BY <2>1, <2>3
  <1>5. v \in g.copy <=> IF about = {} THEN v \in f.copy ELSE feed[Max(about)].kind = "upsert"
    BY DEF Applied
  <1>6. about \subseteq EventIds /\ news \subseteq EventIds
    BY <1>1 DEF NewsAbout
  <1> HIDE DEF page, top, about
  <1>7. SUFFICES ASSUME \A e \in news : e <= top PROVE v \in g.copy <=> v \in LiveReleases
    BY DEF Holds, top, page
  <1>8. CASE about = {}
    <2>1. \A e \in news : e <= f.cursor
      BY <1>4, <1>7, <1>8
    <2> QED BY <1>5, <1>8, <2>1 DEF Holds
  <1>9. CASE about # {}
    <2>1. Max(about) \in about /\ \A e \in about : e <= Max(about)
      BY <1>6, <1>9, MaxOf
    <2>2. PICK m \in about : m = Max(about)
      BY <2>1
    <2>3. ASSUME NEW e \in news PROVE e <= m
      <3>1. CASE e <= f.cursor
        <4>1. f.cursor < m /\ e \in Nat /\ m \in Nat /\ f.cursor \in Nat
          BY <1>1, <1>3, <1>6, Numbers
        <4> QED BY <3>1, <4>1
      <3>2. CASE ~(e <= f.cursor)
        BY <1>4, <1>7, <2>1, <2>2, <3>2
      <3> QED BY <3>1, <3>2
    <2>4. LastOf(news, m) /\ m \in EventIds
      BY <1>3, <1>6, <2>3 DEF LastOf
    <2> QED BY <1>5, <1>9, <2>2, <2>4 DEF Told
  <1> QED BY <1>8, <1>9

LEMMA PullInv == ASSUME FeedInv, NEW f \in Followers, Pull(f) PROVE FeedInv'
  <1> DEFINE old == follower[f]
             g   == [old EXCEPT !.cursor = NextCursor(old), !.copy = Applied(old.copy, PageOf(old))]
  <1>1. FeedTypeOK /\ old \in Follower
    BY DEF FeedInv, FeedTypeOK
  <1>2. /\ PageOf(old) # {} /\ follower' = [follower EXCEPT ![f] = g]
        /\ UNCHANGED <<release, trashed, feed, nextEvent, feedReq, silent, feedMixed>>
    BY <1>1 DEF Pull, FeedTypeOK
  <1>3. PageOf(old) \subseteq EventIds /\ \A e \in PageOf(old) : feed[e].kind # "none"
    BY DEF PageOf, After, Visible
  <1>4. NextCursor(old) = Max(PageOf(old)) /\ NextCursor(old) \in PageOf(old)
    BY <1>2, <1>3, MaxOf DEF NextCursor
  <1>5. Applied(old.copy, PageOf(old)) \subseteq Releases
    BY DEF Applied
  <1>6. NextCursor(old) \in 0 .. MaxEvents /\ feed[NextCursor(old)].kind # "none"
    BY <1>3, <1>4, Numbers
  <1>7. g \in Follower /\ g.anonymous = old.anonymous /\ g.cursor = NextCursor(old)
        /\ g.copy = Applied(old.copy, PageOf(old))
    BY <1>1, <1>5, <1>6 DEF Follower
  <1> HIDE DEF g
  <1>8. ASSUME OneServed, NEW v \in Releases \ silent PROVE Holds(g, v)
    <2>1. old.anonymous \in BOOLEAN
      BY <1>1 DEF Follower
    <2>2. Told(old.anonymous, v) /\ Holds(old, v)
      BY <1>8, <2>1 DEF OneServed
    <2> QED BY <1>1, <1>2, <1>4, <1>7, <2>2, PageHolds
  <1> QED BY <1>2, <1>6, <1>7, <1>8, FollowerSteps

LEMMA ColdStartInv == ASSUME FeedInv, NEW f \in Followers, ColdStart(f) PROVE FeedInv'
  <1> DEFINE old == follower[f]
             g   == [old EXCEPT !.cursor = 0, !.copy = IndexOf(FALSE)]
  <1>1. FeedTypeOK /\ old \in Follower
    BY DEF FeedInv, FeedTypeOK
  <1>2. /\ follower' = [follower EXCEPT ![f] = g]
        /\ UNCHANGED <<release, trashed, feed, nextEvent, feedReq, silent, feedMixed>>
    BY <1>1 DEF ColdStart, FeedTypeOK
  <1>3. IndexOf(FALSE) = LiveReleases /\ LiveReleases \subseteq Releases
    BY DEF IndexOf, LiveReleases, Available
  <1>4. g \in Follower /\ g.cursor = 0 /\ g.copy = LiveReleases
    <2>1. PICK index \in SUBSET Releases : index = LiveReleases /\ index = IndexOf(FALSE)
      BY <1>3
    <2>2. 0 \in 0 .. MaxEvents /\ g = [old EXCEPT !.cursor = 0, !.copy = index]
      BY <2>1, Numbers
    <2> HIDE DEF g, old
    <2> QED BY <1>1, <2>1, <2>2 DEF Follower
  <1> HIDE DEF g
  <1>5. \A v \in Releases : Holds(g, v)
    BY <1>4 DEF Holds
  <1> QED BY <1>2, <1>4, <1>5, FollowerSteps
-------------------------------------------------------------------------------
LEMMA FeedInitInv == FeedInit => FeedInv
  <1> SUFFICES ASSUME FeedInit PROVE FeedInv
    OBVIOUS
  <1>1. nextEvent \in 1 .. MaxEvents + 1
    BY Numbers DEF FeedInit
  <1>2. FeedTypeOK
    BY <1>1, NoReleaseFacts, NoEventFacts, NoFeedRequestFacts DEF FeedInit, FeedTypeOK
  <1>3. LiveReleases = {} /\ \A v \in Releases : ~release[v].expired
    BY NoReleaseFacts DEF FeedInit, LiveReleases
  <1>4. \A e \in EventIds : feed[e].kind = "none"
    BY NoEventFacts DEF FeedInit, NoEvents
  <1>5. \A t \in FeedSlots : ~feedReq[t].busy
    BY NoFeedRequestFacts DEF FeedInit
  <1>6. \A f \in Followers : follower[f].cursor = 0 /\ follower[f].copy = {}
    BY DEF FeedInit
  <1>7. \A anon \in BOOLEAN, v \in Releases : Told(anon, v)
    BY <1>3, <1>4 DEF Told, LastOf, NewsAbout
  <1>8. \A f \in Followers, v \in Releases : Holds(follower[f], v)
    BY <1>3, <1>6 DEF Holds
  <1> QED BY <1>2, <1>3, <1>4, <1>5, <1>6, <1>7, <1>8 DEF FeedInv, OneServed

LEMMA FeedStepInv == FeedInv /\ [FeedNext]_feedVars => FeedInv'
  <1>1. ASSUME FeedInv, FeedNext PROVE FeedInv'
    <2>1. ASSUME NEW s \in FeedSlots, TrashSkill(s) \/ UntrashSkill(s) \/ CommitFeed(s) \/ AbortFeed(s)
          PROVE  FeedInv'
      BY <1>1, <2>1, TrashSkillInv, UntrashSkillInv, CommitFeedInv, AbortFeedInv
    <2>2. ASSUME NEW s \in FeedSlots, NEW v \in Releases,
                 \E share \in {"none", "pending", "approved"} : AddRelease(s, v, share)
          PROVE  FeedInv'
      BY <1>1, <2>2, AddReleaseInv
    <2>3. ASSUME NEW s \in FeedSlots, NEW v \in Releases,
                 \E share \in {"none", "pending", "approved"} : ShareRelease(s, v, share)
          PROVE  FeedInv'
      BY <1>1, <2>3, ShareInv
    <2>7. ASSUME NEW s \in FeedSlots, NEW v \in Releases, NEW was, NEW status \in {"quarantine", "production", "rejected"},
                 JudgeRelease(s, v, was, status) \/ FailRelease(s, v, was, status)
          PROVE  FeedInv'
      BY <1>1, <2>7, JudgeInv, FailReleaseInv
    <2>8. ASSUME NEW v \in Releases, \E status \in {"quarantine", "rejected"} : Rescan(v, status) PROVE FeedInv'
      BY <1>1, <2>8, RescanInv
    <2>9. ASSUME NEW vs \in SUBSET Releases, Collect(vs) PROVE FeedInv'
      BY <1>1, <2>9, CollectInv
    <2>4. ASSUME NEW s \in FeedSlots, NEW v \in Releases, DeleteRelease(s, v) PROVE FeedInv'
      BY <1>1, <2>4, DeleteReleaseInv
    <2>5. ASSUME NEW v \in Releases, Expire(v) \/ Sweep(v) PROVE FeedInv'
      BY <1>1, <2>5, ExpireInv, SweepInv
    <2>6. ASSUME NEW f \in Followers, Pull(f) \/ ColdStart(f) PROVE FeedInv'
      BY <1>1, <2>6, PullInv, ColdStartInv
    <2> QED BY <1>1, <2>1, <2>2, <2>3, <2>4, <2>5, <2>6, <2>7, <2>8, <2>9 DEF FeedNext
  <1>2. ASSUME FeedInv, UNCHANGED feedVars PROVE FeedInv'
    <2>1. UNCHANGED <<release, trashed, feed, nextEvent, feedReq, follower, silent, feedMixed>>
      BY <1>2 DEF feedVars
    <2>2. FeedTypeOK'
      BY <1>2, <2>1 DEF FeedInv, FeedTypeOK
    <2>3. OneServed => OneServed'
      BY <2>1 DEF OneServed, AtWork, Told, Holds, Snapped, Announced, PublicAfter, LiveReleases
    <2> QED BY <1>2, <2>1, <2>2, <2>3 DEF FeedInv
  <1> QED BY <1>1, <1>2

LEMMA FeedInvHolds == FeedSpec => []FeedInv
  BY FeedInitInv, FeedStepInv, PTL DEF FeedSpec

\* Requests that commit over one another, expiry, the sweep, rescans, retention and the
\* clients leave versions, events, requests and clients in their types.
THEOREM FeedTypes == FeedSpec => []FeedTypeOK
  <1>1. FeedInv => FeedTypeOK
    BY DEF FeedInv
  <1> QED BY <1>1, FeedInvHolds, PTL

\* As long as no requests overlap, a client that has read the events it may see to their end
\* holds every public version, and no other but those that were withdrawn without an event
\* since they were last announced: for every number of versions, requests, clients and
\* events, and every size of a page.
THEOREM FollowersMirror == FeedSpec => []CaughtUpMirrors
  <1>1. FeedInv => CaughtUpMirrors
    <2> SUFFICES ASSUME FeedInv, ~feedMixed, NEW f \in Followers, After(follower[f]) = {}
                 PROVE  /\ LiveReleases \subseteq follower[f].copy
                        /\ follower[f].copy \ LiveReleases \subseteq silent
      BY DEF CaughtUpMirrors
    <2>1. follower[f] \in Follower /\ feed \in [EventIds -> Event] /\ OneServed
      BY DEF FeedInv, FeedTypeOK
    <2>2. ASSUME NEW v \in Releases \ silent PROVE v \in follower[f].copy <=> v \in LiveReleases
      <3>1. ASSUME NEW e \in NewsAbout(feed, follower[f].anonymous, v) PROVE e <= follower[f].cursor
        <4>1. e \in EventIds /\ Visible(follower[f], e)
          BY <2>1 DEF NewsAbout, Visible
        <4>2. ~(e > follower[f].cursor)
          BY <4>1 DEF After
        <4>3. e \in Nat /\ follower[f].cursor \in Nat
          BY <2>1, <4>1, Numbers DEF Follower
        <4> QED BY <4>2, <4>3
      <3>2. Holds(follower[f], v)
        BY <2>1 DEF OneServed
      <3> QED BY <3>1, <3>2 DEF Holds
    <2>3. LiveReleases \subseteq Releases \ silent /\ follower[f].copy \subseteq Releases
      BY <2>1 DEF OneServed, LiveReleases, Follower
    <2> QED BY <2>2, <2>3
  <1> QED BY <1>1, FeedInvHolds, PTL

-------------------------------------------------------------------------------
(* Sums *)

\* A sum over a finite set counts units: h[x] of them for every x.  MapThenSumSet is a
\* recursive function; this is the only function there is that unrolls the way it does.
Units(h, s) == {u \in s \X Nat : u[2] \in 1 .. h[u[1]]}
OneIn(s) == CHOOSE x \in s : TRUE
Unrolled(h, S, iter) == [s \in SUBSET S |-> IF s = {} THEN 0 ELSE h[OneIn(s)] + iter[s \ {OneIn(s)}]]

LEMMA UnitsOfOne ==
  ASSUME NEW x, NEW n \in Nat
  PROVE  IsFiniteSet({x} \X (1 .. n)) /\ Cardinality({x} \X (1 .. n)) = n
  <1>1. IsFiniteSet(1 .. n) /\ Cardinality(1 .. n) = n
    BY FS_Interval
  <1>2. IsFiniteSet({x}) /\ Cardinality({x}) = 1
    BY FS_Singleton
  <1>3. IsFiniteSet({x} \X (1 .. n)) /\ Cardinality({x} \X (1 .. n)) = 1 * n
    BY <1>1, <1>2, FS_Product
  <1> QED BY <1>3

LEMMA UnitsAddUp ==
  ASSUME NEW S, NEW h \in [S -> Nat], NEW s \in SUBSET S, NEW x \in s, IsFiniteSet(Units(h, s \ {x}))
  PROVE  /\ IsFiniteSet(Units(h, s))
         /\ Cardinality(Units(h, s)) = h[x] + Cardinality(Units(h, s \ {x}))
  <1>1. h[x] \in Nat
    OBVIOUS
  <1>2. PICK A, B : A = {x} \X (1 .. h[x]) /\ B = Units(h, s \ {x})
    OBVIOUS
  <1>3. Units(h, s) = A \cup B /\ A \cap B = {}
    BY <1>1, <1>2 DEF Units
  <1>4. IsFiniteSet(A) /\ Cardinality(A) = h[x]
    BY <1>1, <1>2, UnitsOfOne
  <1>5. IsFiniteSet(B) /\ Cardinality(B) \in Nat
    BY <1>2, FS_CardinalityType
  <1>6. IsFiniteSet(A \cup B) /\ Cardinality(A \cup B) = Cardinality(A) + Cardinality(B) - Cardinality(A \cap B)
    BY <1>4, <1>5, FS_Union
  <1>7. Cardinality(A \cap B) = 0
    BY <1>3, FS_EmptySet
  <1>8. Cardinality(A \cup B) = h[x] + Cardinality(B)
    BY <1>1, <1>4, <1>5, <1>6, <1>7
  <1> QED BY <1>2, <1>3, <1>6, <1>8

LEMMA UnitsFinite ==
  ASSUME NEW S, IsFiniteSet(S), NEW h \in [S -> Nat]
  PROVE  \A s \in SUBSET S : IsFiniteSet(Units(h, s))
  <1> DEFINE Fam == {s \in SUBSET S : ~IsFiniteSet(Units(h, s))}
  <1> SUFFICES ASSUME Fam # {} PROVE FALSE
    OBVIOUS
  <1>1. PICK s : LeastOf(s, Fam)
    <2>1. FamilyOf(Fam, S)
      BY DEF FamilyOf
    <2> HIDE DEF Fam
    <2> QED BY <2>1, LeastSubset
  <1>2. s \in SUBSET S /\ ~IsFiniteSet(Units(h, s))
    BY <1>1 DEF LeastOf
  <1>3. CASE s = {}
    <2>1. Units(h, s) = {}
      BY <1>3 DEF Units
    <2> QED BY <2>1, <1>2, FS_EmptySet
  <1>4. CASE s # {}
    <2>1. PICK x \in s : TRUE
      BY <1>4
    <2>2. s \ {x} \notin Fam
      BY <1>1, <2>1 DEF LeastOf
    <2>3. IsFiniteSet(Units(h, s \ {x}))
      BY <2>2, <1>2
    <2> QED BY <2>3, <1>2, UnitsAddUp
  <1> QED BY <1>3, <1>4

LEMMA AnyIsOne == ASSUME NEW s, s # {} PROVE OneIn(s) \in s
  BY DEF OneIn

LEMMA UnitsUnroll ==
  ASSUME NEW S, IsFiniteSet(S), NEW h \in [S -> Nat]
  PROVE  LET count == [s \in SUBSET S |-> Cardinality(Units(h, s))] IN count = Unrolled(h, S, count)
  <1> DEFINE count == [s \in SUBSET S |-> Cardinality(Units(h, s))]
  <1>1. ASSUME NEW s \in SUBSET S
        PROVE  count[s] = IF s = {} THEN 0 ELSE h[OneIn(s)] + count[s \ {OneIn(s)}]
    <2>1. CASE s = {}
      <3>1. Units(h, s) = {}
        BY <2>1 DEF Units
      <3> QED BY <2>1, <3>1, FS_EmptySet
    <2>2. CASE s # {}
      <3>1. PICK x : x = OneIn(s)
        OBVIOUS
      <3>2. x \in s /\ s \ {x} \in SUBSET S
        BY <3>1, <2>2, AnyIsOne
      <3>3. IsFiniteSet(Units(h, s \ {x}))
        BY <3>2, UnitsFinite
      <3>4. Cardinality(Units(h, s)) = h[x] + Cardinality(Units(h, s \ {x}))
        BY <3>2, <3>3, UnitsAddUp
      <3> QED BY <2>2, <3>1, <3>2, <3>4
    <2> QED BY <2>1, <2>2
  <1> QED BY <1>1 DEF Unrolled

LEMMA UnrollsOneWay ==
  ASSUME NEW S, IsFiniteSet(S), NEW h \in [S -> Nat], NEW iter, iter = Unrolled(h, S, iter)
  PROVE  iter[S] = Cardinality(Units(h, S))
  <1> DEFINE Fam == {s \in SUBSET S : iter[s] # Cardinality(Units(h, s))}
  <1> SUFFICES ASSUME Fam # {} PROVE FALSE
    OBVIOUS
  <1>1. PICK s : LeastOf(s, Fam)
    <2>1. FamilyOf(Fam, S)
      BY DEF FamilyOf
    <2> HIDE DEF Fam
    <2> QED BY <2>1, LeastSubset
  <1>2. s \in SUBSET S /\ iter[s] # Cardinality(Units(h, s))
    BY <1>1 DEF LeastOf
  <1>3. iter[s] = IF s = {} THEN 0 ELSE h[OneIn(s)] + iter[s \ {OneIn(s)}]
    BY <1>2 DEF Unrolled
  <1>4. CASE s = {}
    <2>1. Units(h, s) = {}
      BY <1>4 DEF Units
    <2> QED BY <2>1, <1>2, <1>3, <1>4, FS_EmptySet
  <1>5. CASE s # {}
    <2>1. PICK x : x = OneIn(s)
      OBVIOUS
    <2>2. x \in s /\ s \ {x} \in SUBSET S /\ s \ {x} # s /\ s \ {x} \subseteq s
      BY <2>1, <1>2, <1>5, AnyIsOne
    <2>3. s \ {x} \notin Fam
      BY <1>1, <2>2 DEF LeastOf
    <2>4. iter[s \ {x}] = Cardinality(Units(h, s \ {x}))
      BY <2>2, <2>3
    <2>5. IsFiniteSet(Units(h, s \ {x}))
      BY <2>2, UnitsFinite
    <2>6. Cardinality(Units(h, s)) = h[x] + Cardinality(Units(h, s \ {x}))
      BY <1>2, <2>2, <2>5, UnitsAddUp
    <2> QED BY <1>2, <1>3, <1>5, <2>1, <2>4, <2>6
  <1> QED BY <1>4, <1>5


\* The sums of the score are such functions.
LEMMA CountsAreUnits ==
  ASSUME IsFiniteSet(Published), NEW v, NEW h \in [Published -> Nat],
         h = [s \in Published |-> Latest(s).scan.counts[v]]
  PROVE  SumCounts(v) = Cardinality(Units(h, Published))
  <1> DEFINE Step(iter) == [s \in SUBSET Published |->
                               IF s = {} THEN 0 ELSE Latest(CHOOSE x \in s : TRUE).scan.counts[v]
                                                     + iter[s \ {CHOOSE x \in s : TRUE}]]
             sum == CHOOSE iter : iter = Step(iter)
  <1>1. SumCounts(v) = sum[Published]
    BY DEF SumCounts, Points, MapThenSumSet, MapThenFoldSet
  <1>2. ASSUME NEW iter PROVE Step(iter) = Unrolled(h, Published, iter)
    <2>1. ASSUME NEW s \in SUBSET Published, s # {}
          PROVE  h[OneIn(s)] = Latest(CHOOSE x \in s : TRUE).scan.counts[v]
      BY <2>1, AnyIsOne DEF OneIn
    <2> QED BY <2>1 DEF Unrolled, OneIn
  <1> HIDE DEF Step
  <1>3. \E iter : iter = Step(iter)
    BY <1>2, UnitsUnroll
  <1>4. sum = Step(sum)
    BY <1>3
  <1>5. sum = Unrolled(h, Published, sum)
    BY <1>2, <1>4
  <1> QED BY <1>1, <1>5, UnrollsOneWay

LEMMA VersionsAreUnits ==
  ASSUME IsFiniteSet(Skills), NEW h \in [Skills -> Nat], h = [s \in Skills |-> Len(versions[s])]
  PROVE  Points(LAMBDA s : Len(versions[s]), Skills) = Cardinality(Units(h, Skills))
  <1> DEFINE Step(iter) == [s \in SUBSET Skills |->
                               IF s = {} THEN 0 ELSE Len(versions[CHOOSE x \in s : TRUE])
                                                     + iter[s \ {CHOOSE x \in s : TRUE}]]
             sum == CHOOSE iter : iter = Step(iter)
  <1>1. Points(LAMBDA s : Len(versions[s]), Skills) = sum[Skills]
    BY DEF Points, MapThenSumSet, MapThenFoldSet
  <1>2. ASSUME NEW iter PROVE Step(iter) = Unrolled(h, Skills, iter)
    <2>1. ASSUME NEW s \in SUBSET Skills, s # {}
          PROVE  h[OneIn(s)] = Len(versions[CHOOSE x \in s : TRUE])
      BY <2>1, AnyIsOne DEF OneIn
    <2> QED BY <2>1 DEF Unrolled, OneIn
  <1> HIDE DEF Step
  <1>3. \E iter : iter = Step(iter)
    BY <1>2, UnitsUnroll
  <1>4. sum = Step(sum)
    BY <1>3
  <1>5. sum = Unrolled(h, Skills, sum)
    BY <1>2, <1>4
  <1> QED BY <1>1, <1>5, UnrollsOneWay

\* A sum is at least the number of those that add something to it.
LEMMA UnitsAtLeast ==
  ASSUME NEW S, IsFiniteSet(S), NEW h \in [S -> Nat], NEW P \in SUBSET S, \A x \in P : h[x] >= 1
  PROVE  Cardinality(Units(h, S)) \in Nat /\ Cardinality(P) <= Cardinality(Units(h, S))
  <1>1. IsFiniteSet(Units(h, S))
    BY UnitsFinite
  <1>2. [x \in P |-> <<x, 1>>] \in Injection(P, Units(h, S))
    BY DEF Injection, IsInjective, Units
  <1> QED BY <1>1, <1>2, FS_Injection, FS_CardinalityType

LEMMA QuotientBound ==
  ASSUME NEW k \in Nat, NEW a \in Nat, NEW m \in Nat \ {0}, a <= k * m
  PROVE  a \div m \in Int /\ a \div m <= k
  OBVIOUS

LEMMA QuotientRange ==
  ASSUME NEW k \in Nat, NEW a \in Nat, NEW m \in Nat \ {0}, a <= k * m
  PROVE  a \div m \in 0 .. k
  <1>1. a \div m \in Int /\ a \div m <= k
    BY QuotientBound
  <1>2. a \div m >= 0
    OBVIOUS
  <1> QED BY <1>1, <1>2

LEMMA MaxOfTwo ==
  ASSUME NEW a \in Int, NEW b \in Int
  PROVE  Max({a, b}) \in {a, b} /\ Max({a, b}) >= a /\ Max({a, b}) >= b
  <1>1. \E x \in {a, b} : \A y \in {a, b} : x >= y
    OBVIOUS
  <1> QED BY <1>1 DEF Max

LEMMA MinOfTwo ==
  ASSUME NEW a \in Int, NEW b \in Int
  PROVE  Min({a, b}) \in {a, b} /\ Min({a, b}) <= a /\ Min({a, b}) <= b
  <1>1. \E x \in {a, b} : \A y \in {a, b} : x <= y
    OBVIOUS
  <1> QED BY <1>1 DEF Min

\* A sum of numbers up to k, and its mean.
LEMMA UnitsAtMost ==
  ASSUME NEW S, IsFiniteSet(S), S # {}, NEW k \in Nat, NEW h \in [S -> 0 .. k]
  PROVE  /\ h \in [S -> Nat] /\ Cardinality(S) \in Nat \ {0}
         /\ Cardinality(Units(h, S)) \div Cardinality(S) \in 0 .. k
  <1>1. h \in [S -> Nat]
    OBVIOUS
  <1>2. IsFiniteSet(Units(h, S)) /\ Cardinality(Units(h, S)) \in Nat
    BY <1>1, UnitsFinite, FS_CardinalityType
  <1>3. IsFiniteSet(1 .. k) /\ Cardinality(1 .. k) = k
    BY FS_Interval
  <1>4. IsFiniteSet(S \X (1 .. k)) /\ Cardinality(S \X (1 .. k)) = Cardinality(S) * k
    BY <1>3, FS_Product
  <1>5. Units(h, S) \subseteq S \X (1 .. k)
    BY DEF Units
  <1>6. Cardinality(Units(h, S)) <= Cardinality(S) * k
    BY <1>4, <1>5, FS_Subset
  <1>7. Cardinality(S) \in Nat \ {0}
    BY FS_CardinalityType, FS_EmptySet
  <1>8. PICK a, m \in Nat : a = Cardinality(Units(h, S)) /\ m = Cardinality(S) /\ m # 0
    BY <1>2, <1>7
  <1>9. a <= k * m
    BY <1>6, <1>8
  <1>10. a \div m \in 0 .. k
    BY <1>8, <1>9, QuotientRange
  <1> QED BY <1>1, <1>7, <1>8, <1>10

-------------------------------------------------------------------------------
(* The clinic's scores *)

\* A row that says passed or warned counts nothing critical.
GoodRow == {r \in [status : {"pending", "running", "passed", "warned", "failed"}, counts : [Severities -> Nat]] :
               r.status \in {"passed", "warned"} => r.counts["critical"] = 0}
GoodVersion == [package : Packages, production : BOOLEAN, scan : GoodRow, age : 0 .. MaxAge]

\* What is said of a score goes by the rows it was computed from.
Cautious(rows, score) == Critical(rows) /\ ~InProgress(rows) => score < Strong
ScoredTask(t) == /\ DOMAIN t = DOMAIN NoTask
                 /\ t.state = "loaded" => Cautious(t.rows, t.base["security_health"])
ScoredEvaluation(v) ==
    /\ DOMAIN v = DOMAIN NoEvaluation
    /\ v.status = "completed" /\ "security_health" \notin v.sources => Cautious(v.seen, v.scores["security_health"])

VersionsGood == /\ versions \in [Skills -> Seq(GoodVersion)]
                /\ \A s \in Skills : Len(versions[s]) <= MaxVersions
Records == /\ evaluation = [e \in Evals |-> evaluation[e]] /\ task = [e \in Evals |-> task[e]]
           /\ \A e \in Evals : ScoredTask(task[e]) /\ ScoredEvaluation(evaluation[e])
ClinicInv == VersionsGood /\ Records

LEMMA LatestIsGood ==
  ASSUME VersionsGood, NEW s \in Published PROVE Latest(s) \in GoodVersion
  <1> DEFINE prod == {i \in DOMAIN versions[s] : versions[s][i].production}
  <1>1. s \in Skills /\ versions[s] \in Seq(GoodVersion) /\ versions[s] # <<>>
    BY DEF Published, VersionsGood
  <1>2. Len(versions[s]) \in DOMAIN versions[s] /\ DOMAIN versions[s] = 1 .. Len(versions[s]) /\ Len(versions[s]) \in Nat
    BY <1>1
  <1>3. prod # {} => Max(prod) \in prod
    <2>1. prod \subseteq Nat /\ IsFiniteSet(prod)
      <3>0. PICK n \in Nat : n = Len(versions[s])
        BY <1>2
      <3>1. prod \in SUBSET (1 .. n)
        BY <1>2, <3>0
      <3>2. IsFiniteSet(1 .. n)
        BY ONLY FS_Interval, <3>0
      <3>3. 1 .. n \subseteq Nat
        OBVIOUS
      <3> HIDE DEF prod
      <3>4. IsFiniteSet(prod)
        BY <3>1, <3>2, FS_Subset
      <3> QED BY <3>1, <3>3, <3>4
    <2>2. prod # {} => \E m \in prod : \A c \in prod : m >= c
      <3> HIDE DEF prod
      <3> SUFFICES ASSUME prod # {} PROVE \E m \in prod : \A c \in prod : m >= c
        OBVIOUS
      <3>1. PICK m \in prod : \A c \in prod : c <= m
        BY <2>1, Greatest
      <3> QED BY <2>1, <3>1
    <2> HIDE DEF prod
    <2> QED BY <2>2 DEF Max
  <1>4. PICK i : i = IF prod # {} THEN Max(prod) ELSE Len(versions[s])
    OBVIOUS
  <1>5. i \in DOMAIN versions[s]
    BY <1>2, <1>3, <1>4
  <1>6. Latest(s) = versions[s][i]
    BY <1>4 DEF Latest
  <1> QED BY <1>1, <1>5, <1>6

\* What Security is made of: coverage, passing scans, penalty.
LEMMA SecurityParts ==
  ASSUME VersionsGood
  PROVE  \E cover \in 0 .. 35, passing \in 0 .. 65, penalty \in Nat :
            /\ Security \in {0, cover + passing - penalty} /\ Security >= 0
            /\ (\E s \in Published : Latest(s).scan.status = "failed" /\ Latest(s).scan.counts["critical"] > 0)
                  => penalty >= 28
  <1> DEFINE all == Points(LAMBDA s : Len(versions[s]), Skills)
             scanned == Cardinality(Published)
             passed == Cardinality({s \in Published : Latest(s).scan.status \in {"passed", "warned"}})
             failed == Cardinality({s \in Published : Latest(s).scan.status = "failed"})
             criticals == SumCounts("critical")
             highs == SumCounts("high")
             spread == Max({all, 1})
             seen == Max({scanned, 1})
             penalty == Min({85, 18 * criticals + 8 * highs + 10 * failed})
             Alarm(s) == Latest(s).scan.status = "failed" /\ Latest(s).scan.counts["critical"] > 0
  <1>1. Published \subseteq Skills /\ IsFiniteSet(Skills) /\ IsFiniteSet(Published)
    BY AssessmentAssumption, FS_Subset DEF Published
  <1>2. \A s \in Published : Latest(s).scan \in GoodRow
    BY LatestIsGood DEF GoodVersion
  <1>3. scanned \in Nat /\ all \in Nat /\ scanned <= all
    <2>1. PICK h : h = [x \in Skills |-> Len(versions[x])]
      OBVIOUS
    <2>2. h \in [Skills -> Nat] /\ \A x \in Published : h[x] >= 1
      BY <1>1, <2>1 DEF Published, VersionsGood
    <2>3. all = Cardinality(Units(h, Skills))
      BY <1>1, <2>1, <2>2, VersionsAreUnits
    <2> HIDE DEF all
    <2> QED BY <1>1, <2>2, <2>3, UnitsAtLeast, FS_CardinalityType
  <1>4. passed \in Nat /\ passed <= scanned
    BY <1>1, FS_Subset, FS_CardinalityType
  <1>5. failed \in Nat /\ ((\E s \in Published : Alarm(s)) => failed >= 1)
    <2>1. PICK F : F = {x \in Published : Latest(x).scan.status = "failed"}
      OBVIOUS
    <2>2. IsFiniteSet(F) /\ Cardinality(F) \in Nat
      BY <1>1, <2>1, FS_Subset, FS_CardinalityType
    <2>3. (\E s \in Published : Alarm(s)) => F # {}
      BY <2>1
    <2>4. F # {} => Cardinality(F) >= 1
      BY <2>2, FS_EmptySet
    <2> QED BY <2>1, <2>2, <2>3, <2>4
  <1>6. ASSUME NEW v \in Severities
        PROVE  /\ SumCounts(v) \in Nat
               /\ \A s \in Published : Latest(s).scan.counts[v] > 0 => SumCounts(v) >= 1
    <2>1. PICK h : h = [x \in Published |-> Latest(x).scan.counts[v]]
      OBVIOUS
    <2>2. h \in [Published -> Nat]
      BY <1>2, <2>1 DEF GoodRow
    <2>3. SumCounts(v) = Cardinality(Units(h, Published))
      BY <1>1, <2>1, <2>2, CountsAreUnits
    <2>4. SumCounts(v) \in Nat
      <3>1. {} \in SUBSET Published /\ \A x \in {} : h[x] >= 1
        OBVIOUS
      <3> QED BY ONLY <1>1, <2>2, <2>3, <3>1, UnitsAtLeast
    <2>5. ASSUME NEW s \in Published, Latest(s).scan.counts[v] > 0 PROVE SumCounts(v) >= 1
      <3>1. h[s] \in Nat /\ h[s] >= 1
        BY <2>1, <2>2, <2>5
      <3>2. Cardinality({s}) <= Cardinality(Units(h, Published))
        BY <1>1, <2>2, <3>1, UnitsAtLeast
      <3> QED BY <2>3, <2>4, <3>2, FS_Singleton
    <2> QED BY <2>4, <2>5
  <1>7. /\ criticals \in Nat /\ highs \in Nat
        /\ (\E s \in Published : Alarm(s)) => criticals >= 1
    BY <1>6 DEF Severities
  <1>8. Security = Max({0, (35 * scanned) \div spread + (65 * passed) \div seen - penalty})
    BY DEF Security
  <1> HIDE DEF all, scanned, passed, failed, criticals, highs
  <1>9. spread \in Nat \ {0} /\ scanned <= spread
    BY <1>3, MaxOfTwo
  <1>10. seen \in Nat \ {0} /\ passed <= seen
    <2>1. seen \in {scanned, 1} /\ seen >= scanned /\ seen >= 1
      BY <1>3, MaxOfTwo
    <2> HIDE DEF seen
    <2> QED BY <1>3, <1>4, <2>1
  <1>11. penalty \in Nat /\ (failed >= 1 /\ criticals >= 1 => penalty >= 28)
    <2>1. PICK x \in Nat : x = 18 * criticals + 8 * highs + 10 * failed
      BY <1>5, <1>7
    <2>2. PICK most \in Nat : most = 85
      OBVIOUS
    <2>3. Min({most, x}) \in {most, x}
      BY <2>1, <2>2, MinOfTwo
    <2>4. penalty \in {85, x}
      BY <2>1, <2>2, <2>3
    <2> HIDE DEF penalty
    <2> QED BY <1>5, <1>7, <2>1, <2>4
  <1> HIDE DEF spread, seen, penalty
  <1>12. (35 * scanned) \div spread \in 0 .. 35
    BY <1>3, <1>9, QuotientRange
  <1>13. (65 * passed) \div seen \in 0 .. 65
    BY <1>4, <1>10, QuotientRange
  <1>14. PICK cover \in 0 .. 35, passing \in 0 .. 65 :
            cover = (35 * scanned) \div spread /\ passing = (65 * passed) \div seen
    BY <1>12, <1>13
  <1>15. cover + passing - penalty \in Int
    BY <1>11
  <1>16. Security \in {0, cover + passing - penalty} /\ Security >= 0
    <2>1. PICK x \in Int : x = cover + passing - penalty
      BY <1>15
    <2>2. Security = Max({0, x})
      BY <1>8, <1>14, <2>1
    <2> QED BY <2>1, <2>2, MaxOfTwo
  <1>17. (\E s \in Published : Alarm(s)) => penalty >= 28
    BY <1>5, <1>7, <1>11
  <1> QED BY <1>11, <1>16, <1>17

LEMMA SecurityBound ==
  ASSUME VersionsGood, Critical(SeenRows), ~InProgress(SeenRows) PROVE Security < Strong
  <1>1. PICK s \in Published : Latest(s).scan.counts["critical"] > 0
    BY DEF Critical, SeenRows
  <1>2. Latest(s).scan.status = "failed"
    <2>1. Latest(s).scan.status \notin {"pending", "running"}
      BY DEF InProgress, SeenRows
    <2>2. Latest(s).scan \in GoodRow
      BY LatestIsGood DEF GoodVersion
    <2> QED BY <1>1, <2>1, <2>2 DEF GoodRow
  <1>3. PICK cover \in 0 .. 35, passing \in 0 .. 65, penalty \in Nat :
            Security \in {0, cover + passing - penalty} /\ penalty >= 28
    BY <1>1, <1>2, SecurityParts
  <1> QED BY <1>3 DEF Strong

(* Scores are percentages *)

LEMMA SkillCount == IsFiniteSet(Skills) /\ Total \in Nat \ {0}
  BY AssessmentAssumption, FS_CardinalityType, FS_EmptySet DEF Total

LEMMA ShareRange ==
  ASSUME NEW part \in SUBSET Skills, NEW weight \in Nat PROVE Share(part, weight) \in 0 .. weight
  <1>1. Cardinality(part) \in Nat /\ Cardinality(part) <= Total
    BY SkillCount, FS_Subset, FS_CardinalityType DEF Total
  <1>2. PICK c, t \in Nat : c = Cardinality(part) /\ t = Total /\ t # 0 /\ c <= t
    BY <1>1, SkillCount
  <1>3. weight * c <= weight * t
    BY <1>2
  <1>4. (weight * c) \div t \in 0 .. weight
    BY <1>2, <1>3, QuotientRange
  <1> QED BY <1>2, <1>4 DEF Share

LEMMA CompletenessRange == Completeness \in 0 .. 100
  <1>1. /\ {s \in Published : Latest(s).package.manifest = "whole"} \in SUBSET Skills
        /\ {s \in Published : Latest(s).package.prompt # "none"} \in SUBSET Skills
        /\ {s \in Published : Latest(s).package.examples} \in SUBSET Skills
        /\ {s \in Published : Latest(s).production} \in SUBSET Skills
    BY DEF Published
  <1>2. PICK a \in 0 .. 35, b \in 0 .. 20, c \in 0 .. 20, d \in 0 .. 25 : Completeness = a + b + c + d
    BY <1>1, ShareRange DEF Completeness
  <1> QED BY <1>2

\* The mean over the skills of what h says of each.
LEMMA MeanRange ==
  ASSUME NEW h \in [Skills -> 0 .. 100], NEW sum,
         (\E iter : iter = Unrolled(h, Skills, iter)) => sum = Unrolled(h, Skills, sum)
  PROVE  sum[Skills] \div Total \in 0 .. 100
  <1>1. h \in [Skills -> Nat] /\ Cardinality(Units(h, Skills)) \div Total \in 0 .. 100
    BY SkillCount, AssessmentAssumption, UnitsAtMost DEF Total
  <1>2. sum = Unrolled(h, Skills, sum)
    BY <1>1, SkillCount, UnitsUnroll
  <1>3. sum[Skills] = Cardinality(Units(h, Skills))
    BY <1>1, <1>2, SkillCount, UnrollsOneWay
  <1> QED BY <1>1, <1>3

LEMMA QualityRange == Quality \in 0 .. 100
  <1>1. PICK h : h = [s \in Skills |-> QualityOf(s)]
    OBVIOUS
  <1>2. h \in [Skills -> 0 .. 100]
    BY <1>1 DEF QualityOf
  <1> DEFINE Step(iter) == [s \in SUBSET Skills |->
                               IF s = {} THEN 0 ELSE QualityOf(CHOOSE x \in s : TRUE)
                                                     + iter[s \ {CHOOSE x \in s : TRUE}]]
             sum == CHOOSE iter : iter = Step(iter)
  <1>3. Points(QualityOf, Skills) = sum[Skills]
    BY DEF Points, MapThenSumSet, MapThenFoldSet
  <1>4. ASSUME NEW iter PROVE Step(iter) = Unrolled(h, Skills, iter)
    <2>1. ASSUME NEW s \in SUBSET Skills, s # {} PROVE h[OneIn(s)] = QualityOf(CHOOSE x \in s : TRUE)
      BY <1>1, <2>1, AnyIsOne DEF OneIn
    <2> QED BY <2>1 DEF Unrolled, OneIn
  <1> HIDE DEF Step
  <1>5. (\E iter : iter = Step(iter)) => sum = Step(sum)
    OBVIOUS
  <1>6. sum[Skills] \div Total \in 0 .. 100
    BY <1>2, <1>4, <1>5, MeanRange
  <1> QED BY <1>3, <1>6 DEF Quality

LEMMA DocumentationRange == Documentation \in 0 .. 100
  <1>1. PICK h : h = [s \in Skills |-> DocumentationOf(s)]
    OBVIOUS
  <1>2. h \in [Skills -> 0 .. 100]
    BY <1>1 DEF DocumentationOf
  <1> DEFINE Step(iter) == [s \in SUBSET Skills |->
                               IF s = {} THEN 0 ELSE DocumentationOf(CHOOSE x \in s : TRUE)
                                                     + iter[s \ {CHOOSE x \in s : TRUE}]]
             sum == CHOOSE iter : iter = Step(iter)
  <1>3. Points(DocumentationOf, Skills) = sum[Skills]
    BY DEF Points, MapThenSumSet, MapThenFoldSet
  <1>4. ASSUME NEW iter PROVE Step(iter) = Unrolled(h, Skills, iter)
    <2>1. ASSUME NEW s \in SUBSET Skills, s # {} PROVE h[OneIn(s)] = DocumentationOf(CHOOSE x \in s : TRUE)
      BY <1>1, <2>1, AnyIsOne DEF OneIn
    <2> QED BY <2>1 DEF Unrolled, OneIn
  <1> HIDE DEF Step
  <1>5. (\E iter : iter = Step(iter)) => sum = Step(sum)
    OBVIOUS
  <1>6. sum[Skills] \div Total \in 0 .. 100
    BY <1>2, <1>4, <1>5, MeanRange
  <1> QED BY <1>3, <1>6 DEF Documentation

LEMMA InteractionRange == Interaction \in 0 .. 100
  <1>1. PICK h : h = [s \in Skills |-> InteractionOf(s)]
    OBVIOUS
  <1>2. h \in [Skills -> 0 .. 100]
    BY <1>1 DEF InteractionOf
  <1> DEFINE Step(iter) == [s \in SUBSET Skills |->
                               IF s = {} THEN 0 ELSE InteractionOf(CHOOSE x \in s : TRUE)
                                                     + iter[s \ {CHOOSE x \in s : TRUE}]]
             sum == CHOOSE iter : iter = Step(iter)
  <1>3. Points(InteractionOf, Skills) = sum[Skills]
    BY DEF Points, MapThenSumSet, MapThenFoldSet
  <1>4. ASSUME NEW iter PROVE Step(iter) = Unrolled(h, Skills, iter)
    <2>1. ASSUME NEW s \in SUBSET Skills, s # {} PROVE h[OneIn(s)] = InteractionOf(CHOOSE x \in s : TRUE)
      BY <1>1, <2>1, AnyIsOne DEF OneIn
    <2> QED BY <2>1 DEF Unrolled, OneIn
  <1> HIDE DEF Step
  <1>5. (\E iter : iter = Step(iter)) => sum = Step(sum)
    OBVIOUS
  <1>6. sum[Skills] \div Total \in 0 .. 100
    BY <1>2, <1>4, <1>5, MeanRange
  <1> QED BY <1>3, <1>6 DEF Interaction

LEMMA CurrencyRange == VersionsGood => Currency \in 0 .. 100
  <1> SUFFICES ASSUME VersionsGood PROVE Currency \in 0 .. 100
    OBVIOUS
  <1>1. PICK h : h = [s \in Skills |-> CurrencyOf(s)]
    OBVIOUS
  <1>2. h \in [Skills -> 0 .. 100]
    <2>1. ASSUME NEW s \in Published PROVE <<100, 82, 60, 28>>[Latest(s).age + 1] \in 0 .. 100
      <3>1. Latest(s).age \in 0 .. 3
        BY LatestIsGood, AssessmentAssumption DEF GoodVersion
      <3> QED BY <3>1
    <2> QED BY <1>1, <2>1 DEF CurrencyOf
  <1> DEFINE Step(iter) == [s \in SUBSET Skills |->
                               IF s = {} THEN 0 ELSE CurrencyOf(CHOOSE x \in s : TRUE)
                                                     + iter[s \ {CHOOSE x \in s : TRUE}]]
             sum == CHOOSE iter : iter = Step(iter)
  <1>3. Points(CurrencyOf, Skills) = sum[Skills]
    BY DEF Points, MapThenSumSet, MapThenFoldSet
  <1>4. ASSUME NEW iter PROVE Step(iter) = Unrolled(h, Skills, iter)
    <2>1. ASSUME NEW s \in SUBSET Skills, s # {} PROVE h[OneIn(s)] = CurrencyOf(CHOOSE x \in s : TRUE)
      BY <1>1, <2>1, AnyIsOne DEF OneIn
    <2> QED BY <2>1 DEF Unrolled, OneIn
  <1> HIDE DEF Step
  <1>5. (\E iter : iter = Step(iter)) => sum = Step(sum)
    OBVIOUS
  <1>6. sum[Skills] \div Total \in 0 .. 100
    BY <1>2, <1>4, <1>5, MeanRange
  <1> QED BY <1>3, <1>6 DEF Currency

LEMMA StyleRange == Style \in 0 .. 100
  <1>1. PICK with : with = {s \in Published : Latest(s).package.prompt # "none"}
    OBVIOUS
  <1>2. PICK good : good = {s \in with : Latest(s).package.prompt = "good"}
    OBVIOUS
  <1>3. IsFiniteSet(with) /\ good \subseteq with
    BY <1>1, <1>2, SkillCount, FS_Subset DEF Published
  <1>4. Style = IF with = {} THEN 50
                ELSE (50 * Cardinality(good)) \div Cardinality(with) + (IF good \in {{}, with} THEN 50 ELSE 31)
    BY <1>1, <1>2 DEF Style
  <1>5. ASSUME with # {} PROVE (50 * Cardinality(good)) \div Cardinality(with) \in 0 .. 50
    <2>1. PICK c, t \in Nat : c = Cardinality(good) /\ t = Cardinality(with) /\ t # 0 /\ c <= t
      BY <1>3, <1>5, FS_Subset, FS_CardinalityType, FS_EmptySet
    <2>2. PICK n \in Nat : n = 50 * c /\ n <= 50 * t
      BY <2>1
    <2>3. n \div t \in 0 .. 50
      BY <2>1, <2>2, QuotientRange
    <2> QED BY <2>1, <2>2, <2>3
  <1> QED BY <1>4, <1>5

LEMMA CoherenceRange == Coherence \in 0 .. 100
  <1> DEFINE topics == UNION {Naming[s].topics : s \in Skills}
             mixed == \E s, t \in Skills : Naming[s].style = "dash" /\ Naming[t].style = "underscore"
             stems == {Naming[s].stem : s \in Skills}
             twins == Total - Cardinality(stems)
             apart == Max({30, 100 - 25 * twins})
             spread == Min({100, 50 + 8 * Cardinality(topics)})
  <1>1. Cardinality(topics) \in Nat
    <2>1. IsFiniteSet({Naming[s].topics : s \in Skills})
      <3>1. PICK f : f = [s \in Skills |-> Naming[s].topics]
        OBVIOUS
      <3>2. f \in Surjection(Skills, {Naming[s].topics : s \in Skills})
        BY <3>1 DEF Surjection
      <3> QED BY <3>2, SkillCount, FS_Surjection
    <2>2. IsFiniteSet(topics)
      <3>1. PICK sets : sets = {Naming[s].topics : s \in Skills}
        OBVIOUS
      <3>2. IsFiniteSet(sets) /\ \A t \in sets : IsFiniteSet(t)
        BY <2>1, <3>1, AssessmentAssumption
      <3>3. IsFiniteSet(UNION sets)
        BY <3>2, FS_UNION
      <3> QED BY <3>1, <3>3
    <2> HIDE DEF topics
    <2> QED BY <2>2, FS_CardinalityType
  <1>2. twins \in Nat
    <2>1. IsFiniteSet(stems) /\ Cardinality(stems) <= Cardinality(Skills)
      <3>1. PICK f : f = [s \in Skills |-> Naming[s].stem]
        OBVIOUS
      <3>2. f \in Surjection(Skills, stems)
        BY <3>1 DEF Surjection
      <3> HIDE DEF stems
      <3> QED BY <3>2, SkillCount, FS_Surjection
    <2> HIDE DEF stems
    <2>2. PICK a, b \in Nat : a = Cardinality(stems) /\ b = Cardinality(Skills) /\ a <= b
      BY <2>1, SkillCount, FS_CardinalityType
    <2> QED BY <2>2 DEF Total
  <1>3. Coherence = (35 * (IF mixed THEN 68 ELSE 95) + 40 * apart + 25 * spread) \div 100
    BY DEF Coherence
  <1> HIDE DEF topics, mixed, twins
  <1>4. apart \in 30 .. 100
    <2>1. PICK x \in Int : x = 100 - 25 * twins /\ x <= 100
      BY <1>2
    <2>2. PICK low \in Int : low = 30
      OBVIOUS
    <2>3. Max({low, x}) \in {low, x} /\ Max({low, x}) >= low
      BY <2>1, <2>2, MaxOfTwo
    <2> QED BY <2>1, <2>2, <2>3
  <1>5. spread \in 50 .. 100
    <2>1. PICK x \in Int : x = 50 + 8 * Cardinality(topics) /\ x >= 50
      BY <1>1
    <2>2. PICK high \in Int : high = 100
      OBVIOUS
    <2>3. Min({high, x}) \in {high, x} /\ Min({high, x}) <= high
      BY <2>1, <2>2, MinOfTwo
    <2> QED BY <2>1, <2>2, <2>3
  <1> HIDE DEF apart, spread
  <1>6. PICK style \in {68, 95} : style = IF mixed THEN 68 ELSE 95
    OBVIOUS
  <1>7. PICK n \in Nat : n = 35 * style + 40 * apart + 25 * spread /\ n <= 10000
    BY <1>4, <1>5
  <1>8. n \div 100 \in 0 .. 100
    BY ONLY <1>7
  <1> QED BY <1>3, <1>6, <1>7, <1>8

LEMMA SecurityRange == VersionsGood => Security \in 0 .. 100
  <1> SUFFICES ASSUME VersionsGood PROVE Security \in 0 .. 100
    OBVIOUS
  <1>1. PICK cover \in 0 .. 35, passing \in 0 .. 65, penalty \in Nat :
            Security \in {0, cover + passing - penalty} /\ Security >= 0
    BY SecurityParts
  <1> QED BY <1>1

LEMMA DimSetIs == DimSet = {"skill_completeness", "skill_quality", "skill_coherence", "security_health", "documentation",
                            "version_currency", "style_consistency", "interaction_quality"}
  BY DEF DimSet, Dims

LEMMA BaselineRange == VersionsGood => Baseline \in [DimSet -> 0 .. 100]
  <1> SUFFICES ASSUME VersionsGood PROVE Baseline \in [DimSet -> 0 .. 100]
    OBVIOUS
  <1>1. /\ Completeness \in 0 .. 100 /\ Quality \in 0 .. 100 /\ Coherence \in 0 .. 100 /\ Security \in 0 .. 100
        /\ Documentation \in 0 .. 100 /\ Currency \in 0 .. 100 /\ Style \in 0 .. 100 /\ Interaction \in 0 .. 100
    BY CompletenessRange, QualityRange, CoherenceRange, SecurityRange, DocumentationRange, CurrencyRange,
       StyleRange, InteractionRange
  <1> QED BY <1>1, DimSetIs DEF Baseline

LEMMA BlendedRange ==
  ASSUME NEW base \in 0 .. 100, NEW judge \in 0 .. 100 PROVE Blended(base, judge) \in 0 .. 100
  <1>1. PICK n \in Nat : n = 45 * base + 55 * judge /\ n <= 10000
    OBVIOUS
  <1>2. n \div 100 \in 0 .. 100
    BY ONLY <1>1
  <1> QED BY <1>1, <1>2 DEF Blended

(* What is said of versions *)

LEMMA CountsAreNumbers ==
  ASSUME NEW issues, IsFiniteSet(issues) PROVE CountsOf(issues) \in [Severities -> Nat]
  <1>1. ASSUME NEW v \in Severities PROVE Cardinality({i \in issues : i.severity = v}) \in Nat
    BY FS_Subset, FS_CardinalityType
  <1> QED BY <1>1 DEF CountsOf

LEMMA IssuesFinite ==
  ASSUME NEW p, NEW deep \in SUBSET DeepIssues
  PROVE  IsFiniteSet(Unsuppressed(StaticIssues(p) \cup deep))
  <1>1. IsFiniteSet({}) /\ \A x : IsFiniteSet({x})
    BY FS_EmptySet, FS_Singleton
  <1>2. IsFiniteSet(Compliance(p))
    BY <1>1 DEF Compliance
  <1>3. IsFiniteSet(Shell(p))
    BY <1>1 DEF Shell
  <1>4. IsFiniteSet(PromptInjection(p)) /\ IsFiniteSet(Exfiltration(p)) /\ IsFiniteSet(Dependencies(p))
    BY <1>1 DEF PromptInjection, Exfiltration, Dependencies
  <1>5. IsFiniteSet(StaticIssues(p))
    <2>1. IsFiniteSet(Compliance(p) \cup Shell(p))
      BY <1>2, <1>3, FS_Union
    <2>2. IsFiniteSet(Compliance(p) \cup Shell(p) \cup PromptInjection(p))
      BY <2>1, <1>4, FS_Union
    <2>3. IsFiniteSet(Compliance(p) \cup Shell(p) \cup PromptInjection(p) \cup Exfiltration(p))
      BY <2>2, <1>4, FS_Union
    <2> QED BY <2>3, <1>4, FS_Union DEF StaticIssues
  <1>6. IsFiniteSet(deep)
    BY AssessmentAssumption, FS_Subset
  <1>7. IsFiniteSet(StaticIssues(p) \cup deep)
    BY <1>5, <1>6, FS_Union
  <1> QED BY <1>7, FS_Subset DEF Unsuppressed

\* A verdict counts nothing critical unless it is failed.
LEMMA VerdictIsGood ==
  ASSUME NEW counts \in [Severities -> Nat]
  PROVE  /\ [status |-> StatusOf(counts), counts |-> counts] \in GoodRow
         /\ [status |-> "failed", counts |-> [counts EXCEPT !["high"] = @ + 1]] \in GoodRow
         /\ [status |-> "failed", counts |-> [counts EXCEPT !["high"] = 1]] \in GoodRow
  <1>1. "critical" \in Severities /\ "high" \in Severities
    BY DEF Severities
  <1>2. counts["critical"] \in Nat /\ counts["high"] \in Nat
    BY <1>1
  <1>3. /\ StatusOf(counts) \in {"passed", "warned", "failed"}
        /\ StatusOf(counts) # "failed" => counts["critical"] = 0
    BY <1>2 DEF StatusOf
  <1>4. /\ [counts EXCEPT !["high"] = @ + 1] \in [Severities -> Nat]
        /\ [counts EXCEPT !["high"] = 1] \in [Severities -> Nat]
    BY <1>1, <1>2
  <1> QED BY <1>3, <1>4 DEF GoodRow

LEMMA NewScanIsGood == NewScan \in GoodRow
  BY DEF NewScan, NoCounts, GoodRow

\* A version of one skill changes.
LEMMA ChangeVersion ==
  ASSUME VersionsGood, NEW s \in Skills, NEW i \in DOMAIN versions[s], NEW new \in GoodVersion,
         versions' = [versions EXCEPT ![s] = [versions[s] EXCEPT ![i] = new]]
  PROVE  VersionsGood'
  <1>1. PICK q \in Seq(GoodVersion) : q = versions[s] /\ i \in DOMAIN q /\ Len(q) <= MaxVersions
    BY DEF VersionsGood
  <1>2. PICK r : r = [q EXCEPT ![i] = new]
    OBVIOUS
  <1>3. r \in Seq(GoodVersion) /\ Len(r) = Len(q)
    BY <1>1, <1>2
  <1>4. versions' = [versions EXCEPT ![s] = r]
    BY <1>1, <1>2
  <1> QED BY <1>1, <1>3, <1>4 DEF VersionsGood

LEMMA VersionAt ==
  ASSUME VersionsGood, NEW s \in Skills, NEW i \in DOMAIN versions[s]
  PROVE  versions[s][i] \in GoodVersion
  BY DEF VersionsGood

LEMMA PublishGood ==
  ASSUME VersionsGood, NEW s \in Skills, NEW p \in Packages, Publish(s, p) PROVE VersionsGood'
  <1>1. [package |-> p, production |-> FALSE, scan |-> NewScan, age |-> 0] \in GoodVersion
    BY NewScanIsGood, AssessmentAssumption DEF GoodVersion
  <1> HIDE DEF VersionsGood
  <1>2. PICK new \in GoodVersion : versions' = [versions EXCEPT ![s] = Append(@, new)]
    BY <1>1 DEF Publish
  <1>3. versions[s] \in Seq(GoodVersion) /\ Len(versions[s]) < MaxVersions /\ MaxVersions \in Nat
    BY AssessmentAssumption DEF VersionsGood, Publish
  <1>4. PICK q \in Seq(GoodVersion) : q = Append(versions[s], new) /\ Len(q) <= MaxVersions
    <2>1. Append(versions[s], new) \in Seq(GoodVersion) /\ Len(Append(versions[s], new)) = Len(versions[s]) + 1
      BY <1>3
    <2>2. Len(versions[s]) + 1 <= MaxVersions
      BY <1>3
    <2> QED BY <2>1, <2>2
  <1>5. versions' = [versions EXCEPT ![s] = q]
    BY <1>2, <1>4
  <1> QED BY <1>4, <1>5 DEF VersionsGood

LEMMA ScanGood ==
  ASSUME VersionsGood, NEW s \in Skills, NEW i \in DOMAIN versions[s],
         StartScan(s, i) \/ ScanFails(s, i) \/ AskScan(s, i) \/ Age(s, i)
  PROVE  VersionsGood'
  <1>1. PICK v \in GoodVersion : v = versions[s][i]
    BY VersionAt
  <1>2. PICK r \in GoodRow : r = v.scan
    BY DEF GoodVersion
  <1>3. r.counts \in [Severities -> Nat] /\ v = [v EXCEPT !.scan = r]
    BY <1>2 DEF GoodRow, GoodVersion
  <1>4. CASE StartScan(s, i)
    <2>1. [r EXCEPT !.status = "running"] \in GoodRow
      BY DEF GoodRow
    <2>2. PICK v1 : v1 = [v EXCEPT !.scan = [r EXCEPT !.status = "running"]]
      OBVIOUS
    <2>3. PICK new : new = [v1 EXCEPT !.production = FALSE]
      OBVIOUS
    <2>4. new \in GoodVersion
      BY <2>1, <2>2, <2>3 DEF GoodVersion
    <2>5. s \in DOMAIN versions /\ i \in DOMAIN versions[s]
      BY DEF VersionsGood
    <2>6. versions' = [versions EXCEPT ![s] = [versions[s] EXCEPT ![i] = new]]
      <3>1. versions' = [versions EXCEPT ![s][i].scan.status = "running", ![s][i].production = FALSE]
        BY <1>4 DEF StartScan
      <3>2. [v EXCEPT !.scan.status = "running"] = v1
        BY <1>2, <2>2
      <3>3. [versions EXCEPT ![s][i].scan.status = "running"] = [versions EXCEPT ![s] = [versions[s] EXCEPT ![i] = v1]]
        BY <1>1, <2>5, <3>2
      <3> QED BY <2>3, <2>5, <3>1, <3>3 DEF VersionsGood
    <2> QED BY <2>4, <2>6, ChangeVersion
  <1>5. CASE ScanFails(s, i)
    <2>1. PICK r1 : r1 = [status |-> "failed", counts |-> r.counts]
      OBVIOUS
    <2>2. PICK r2 : r2 = [status |-> "failed", counts |-> [r.counts EXCEPT !["high"] = 1]]
      OBVIOUS
    <2>3. [r EXCEPT !.status = "failed"] = r1 /\ [r1 EXCEPT !.counts["high"] = 1] = r2
      <3>1. r = [status |-> r.status, counts |-> r.counts]
        BY <1>2 DEF GoodRow
      <3>2. [r EXCEPT !.status = "failed"] = r1
        BY <2>1, <3>1
      <3>3. [r1 EXCEPT !.counts["high"] = 1] = r2
        BY <2>1, <2>2
      <3> QED BY <3>2, <3>3
    <2>4. PICK v1 : v1 = [v EXCEPT !.scan = r1]
      OBVIOUS
    <2>5. PICK v2 : v2 = [v EXCEPT !.scan = r2]
      OBVIOUS
    <2>6. PICK v3 : v3 = [v2 EXCEPT !.production = FALSE]
      OBVIOUS
    <2>7. [v EXCEPT !.scan.status = "failed"] = v1 /\ [v1 EXCEPT !.scan.counts["high"] = 1] = v2
      <3>1. [v EXCEPT !.scan.status = "failed"] = v1
        BY <1>2, <2>3, <2>4
      <3>2. [v1 EXCEPT !.scan.counts["high"] = 1] = [v1 EXCEPT !.scan = r2]
        BY <2>3, <2>4 DEF GoodVersion
      <3>3. [v1 EXCEPT !.scan = r2] = v2
        BY <2>4, <2>5
      <3> QED BY <3>1, <3>2, <3>3
    <2>8. s \in DOMAIN versions /\ i \in DOMAIN versions[s]
      BY DEF VersionsGood
    <2>9. [versions EXCEPT ![s][i].scan.status = "failed"] = [versions EXCEPT ![s] = [versions[s] EXCEPT ![i] = v1]]
      BY <1>1, <2>7
    <2>10. [versions EXCEPT ![s][i].scan.status = "failed", ![s][i].scan.counts["high"] = 1]
             = [versions EXCEPT ![s] = [versions[s] EXCEPT ![i] = v2]]
      <3>1. PICK w : w = [versions EXCEPT ![s] = [versions[s] EXCEPT ![i] = v1]]
        OBVIOUS
      <3>2. w[s][i] = v1
        BY <2>8, <3>1
      <3>3. [w EXCEPT ![s][i].scan.counts["high"] = 1] = [w EXCEPT ![s] = [w[s] EXCEPT ![i] = v2]]
        BY <2>7, <3>2
      <3>4. [w EXCEPT ![s] = [w[s] EXCEPT ![i] = v2]] = [versions EXCEPT ![s] = [versions[s] EXCEPT ![i] = v2]]
        BY <2>8, <3>1
      <3> QED BY <2>9, <3>1, <3>3, <3>4
    <2>11. versions' = [versions EXCEPT ![s] = [versions[s] EXCEPT ![i] = v3]]
      <3>1. PICK w : w = [versions EXCEPT ![s] = [versions[s] EXCEPT ![i] = v2]]
        OBVIOUS
      <3>2. w[s][i] = v2
        BY <2>8, <3>1
      <3>3. versions' = [w EXCEPT ![s][i].production = FALSE]
        BY <1>5, <2>10, <3>1 DEF ScanFails
      <3>4. versions' = [w EXCEPT ![s] = [w[s] EXCEPT ![i] = v3]]
        BY <2>6, <3>2, <3>3
      <3> QED BY <2>8, <3>1, <3>4
    <2>12. v3 \in GoodVersion
      BY <1>3, <2>2, <2>5, <2>6, VerdictIsGood DEF GoodVersion
    <2> QED BY <2>11, <2>12, ChangeVersion
  <1>6. CASE AskScan(s, i)
    <2>1. PICK new : new = [[v EXCEPT !.scan = NewScan] EXCEPT !.production = FALSE]
      OBVIOUS
    <2>2. new \in GoodVersion
      BY <2>1, NewScanIsGood DEF GoodVersion
    <2>3. versions' = [versions EXCEPT ![s] = [versions[s] EXCEPT ![i] = new]]
      BY <1>1, <1>6, <2>1 DEF AskScan
    <2> QED BY <2>2, <2>3, ChangeVersion
  <1>7. CASE Age(s, i)
    <2>1. v.age \in Nat /\ v.age < MaxAge /\ MaxAge \in Nat
      BY <1>1, <1>7, AssessmentAssumption DEF Age, GoodVersion
    <2>2. [v EXCEPT !.age = @ + 1] \in GoodVersion
      BY <2>1 DEF GoodVersion
    <2>3. versions' = [versions EXCEPT ![s] = [versions[s] EXCEPT ![i] = [v EXCEPT !.age = @ + 1]]]
      BY <1>1, <1>7 DEF Age
    <2> QED BY <2>2, <2>3, ChangeVersion
  <1> QED BY <1>4, <1>5, <1>6, <1>7

LEMMA FinishScanGood ==
  ASSUME VersionsGood, NEW s \in Skills, NEW i \in DOMAIN versions[s], NEW deep \in SUBSET DeepIssues,
         NEW sandbox, NEW promoted \in BOOLEAN, FinishScan(s, i, deep, sandbox, promoted)
  PROVE  VersionsGood'
  <1>1. PICK v \in GoodVersion : v = versions[s][i]
    BY VersionAt
  <1>2. PICK found : found = CountsOf(Unsuppressed(StaticIssues(v.package) \cup deep))
    OBVIOUS
  <1>3. found \in [Severities -> Nat]
    BY <1>2, IssuesFinite, CountsAreNumbers
  <1>4. PICK row \in GoodRow : versions' = [versions EXCEPT ![s][i].scan = row, ![s][i].production = promoted]
    <2> DEFINE failed == sandbox = "failed" /\ StatusOf(found) # "failed"
               counts == IF failed THEN [found EXCEPT !["high"] = @ + 1] ELSE found
               row == [status |-> IF failed THEN "failed" ELSE StatusOf(found), counts |-> counts]
    <2>1. versions' = [versions EXCEPT ![s][i].scan = row, ![s][i].production = promoted]
      BY <1>1, <1>2 DEF FinishScan
    <2>2. CASE failed
      <3>1. row = [status |-> "failed", counts |-> [found EXCEPT !["high"] = @ + 1]]
        BY <2>2
      <3>2. row \in GoodRow
        BY ONLY <1>3, <3>1, VerdictIsGood
      <3> HIDE DEF row
      <3> QED BY <2>1, <3>2
    <2>3. CASE ~failed
      <3>1. row = [status |-> StatusOf(found), counts |-> found]
        BY <2>3
      <3>2. row \in GoodRow
        BY ONLY <1>3, <3>1, VerdictIsGood
      <3> HIDE DEF row
      <3> QED BY <2>1, <3>2
    <2> QED BY <2>2, <2>3
  <1>5. PICK new : new = [[v EXCEPT !.scan = row] EXCEPT !.production = promoted]
    OBVIOUS
  <1>6. new \in GoodVersion
    BY <1>5 DEF GoodVersion
  <1>7. versions' = [versions EXCEPT ![s] = [versions[s] EXCEPT ![i] = new]]
    BY <1>1, <1>4, <1>5
  <1> QED BY <1>6, <1>7, ChangeVersion

LEMMA VersionsStepGood ==
  ASSUME VersionsGood, [AssessNext]_assessVars PROVE VersionsGood'
  <1>1. CASE UNCHANGED versions
    BY <1>1 DEF VersionsGood
  <1>2. ASSUME NEW s \in Skills, NEW p \in Packages, Publish(s, p) PROVE VersionsGood'
    BY <1>2, PublishGood
  <1>3. ASSUME NEW s \in Skills, NEW i \in DOMAIN versions[s],
               StartScan(s, i) \/ ScanFails(s, i) \/ AskScan(s, i) \/ Age(s, i)
        PROVE  VersionsGood'
    BY <1>3, ScanGood
  <1>4. ASSUME NEW s \in Skills, NEW i \in DOMAIN versions[s], NEW deep \in SUBSET DeepIssues,
               NEW sandbox \in {"passed", "failed"}, NEW promoted \in BOOLEAN,
               FinishScan(s, i, deep, sandbox, promoted)
        PROVE  VersionsGood'
    BY <1>4, FinishScanGood
  <1>5. CASE \E r \in Suppressions : Suppress(r) \/ Unsuppress(r)
    <2>1. UNCHANGED versions
      BY <1>5 DEF Suppress, Unsuppress
    <2> QED BY <2>1, <1>1
  <1>6. ASSUME NEW e \in Evals,
               \/ \E sent \in BOOLEAN : Trigger(e, sent)
               \/ StartEvaluation(e) \/ LoadSkills(e) \/ FailEvaluation(e) \/ RedeliverEvaluation(e)
        PROVE  VersionsGood'
    <2>1. UNCHANGED versions
      BY <1>6 DEF Trigger, StartEvaluation, LoadSkills, FailEvaluation, RedeliverEvaluation
    <2> QED BY <2>1, <1>1
  <1>7. ASSUME NEW e \in Evals, NEW asks, NEW failed, NEW judge, NEW blank,
               FinishEvaluation(e, asks, failed, blank, judge)
        PROVE  VersionsGood'
    <2>1. UNCHANGED versions
      BY <1>7 DEF FinishEvaluation
    <2> QED BY <2>1, <1>1
  <1>8. CASE UNCHANGED assessVars
    BY <1>8, <1>1 DEF assessVars
  <1> QED BY <1>2, <1>3, <1>4, <1>5, <1>6, <1>7, <1>8 DEF AssessNext

(* What is said of evaluations *)

LEMMA SetEvaluation ==
  ASSUME Records, NEW e \in Evals, NEW t, NEW v, ScoredTask(t), ScoredEvaluation(v),
         task' = [task EXCEPT ![e] = t], evaluation' = [evaluation EXCEPT ![e] = v]
  PROVE  Records'
  <1>1. evaluation' = [f \in Evals |-> evaluation'[f]] /\ task' = [f \in Evals |-> task'[f]]
    BY DEF Records
  <1>2. ASSUME NEW f \in Evals
        PROVE  /\ task'[f] = t \/ task'[f] = task[f]
               /\ evaluation'[f] = v \/ evaluation'[f] = evaluation[f]
    BY DEF Records
  <1>3. ASSUME NEW f \in Evals PROVE ScoredTask(task'[f]) /\ ScoredEvaluation(evaluation'[f])
    BY <1>2, <1>3 DEF Records
  <1> QED BY <1>1, <1>3 DEF Records, ScoredTask, ScoredEvaluation, Cautious, Critical, InProgress, NoTask, NoEvaluation

LEMMA PutBack ==
  ASSUME Records, NEW e \in Evals
  PROVE  /\ task = [task EXCEPT ![e] = task[e]] /\ ScoredTask(task[e])
         /\ evaluation = [evaluation EXCEPT ![e] = evaluation[e]] /\ ScoredEvaluation(evaluation[e])
  BY DEF Records

LEMMA MarkedTask ==
  ASSUME NEW t, ScoredTask(t), NEW state, state # "loaded"
  PROVE  ScoredTask([t EXCEPT !.state = state])
  BY DEF ScoredTask, NoTask

LEMMA MarkedEvaluation ==
  ASSUME NEW v, ScoredEvaluation(v), NEW status, status # "completed"
  PROVE  ScoredEvaluation([v EXCEPT !.status = status])
  BY DEF ScoredEvaluation, NoEvaluation

LEMMA FreshTask ==
  ASSUME NEW state, state # "loaded", NEW retries
  PROVE  ScoredTask([[NoTask EXCEPT !.state = state] EXCEPT !.retries = retries])
  BY DEF ScoredTask, NoTask

LEMMA SecurityDim == "security_health" \in DimSet
  <1>1. 4 \in DOMAIN Dims /\ Dims[4] = "security_health"
    BY DEF Dims
  <1> QED BY <1>1 DEF DimSet

LEMMA LoadScored ==
  ASSUME VersionsGood, Records, NEW e \in Evals, LoadSkills(e) PROVE Records'
  <1>1. Cautious(SeenRows, Security)
    BY SecurityBound DEF Cautious
  <1>2. PICK base : base = Baseline
    OBVIOUS
  <1>3. base["security_health"] = Security
    BY <1>2 DEF Baseline
  <1>4. PICK rows, prev : rows = SeenRows /\ prev = Previous(e)
    OBVIOUS
  <1>5. PICK old : old = task[e] /\ DOMAIN old = DOMAIN NoTask
    BY DEF Records, ScoredTask
  <1>6. PICK t : t = [old EXCEPT !.state = "loaded", !.base = base, !.rows = rows, !.prev = prev]
    OBVIOUS
  <1>7. Cautious(rows, base["security_health"])
    BY <1>1, <1>3, <1>4
  <1>8. ScoredTask(t)
    <2>1. DOMAIN t = DOMAIN NoTask /\ t.rows = rows /\ t.base = base
      BY <1>5, <1>6 DEF NoTask
    <2> QED BY <1>7, <2>1 DEF ScoredTask
  <1>9. task' = [task EXCEPT ![e] = t] /\ evaluation' = evaluation
    <2>1. task' = [task EXCEPT ![e].state = "loaded", ![e].base = base, ![e].rows = rows, ![e].prev = prev]
      BY <1>2, <1>4 DEF LoadSkills
    <2>2. e \in DOMAIN task
      BY DEF Records
    <2>3. task' = [task EXCEPT ![e] = t]
      BY <1>5, <1>6, <2>1, <2>2
    <2> QED BY <2>3 DEF LoadSkills
  <1> QED BY <1>8, <1>9, PutBack, SetEvaluation

LEMMA FinishScored ==
  ASSUME Records, NEW e \in Evals, NEW asks, NEW failed, NEW judge, NEW blank,
         FinishEvaluation(e, asks, failed, blank, judge)
  PROVE  Records'
  <1>1. PICK sources : sources = AssistedScores(asks, failed, blank)
    OBVIOUS
  <1>2. PICK scores : scores = [d \in DimSet |-> IF d \in sources THEN Blended(task[e].base[d], judge)
                                                                   ELSE task[e].base[d]]
    OBVIOUS
  <1>3. PICK mode : mode = Mode(sources, failed)
    OBVIOUS
  <1>4. PICK v : v = [status |-> "completed", sources |-> sources, mode |-> mode, scores |-> scores,
                      judgeFailed |-> failed, prev |-> task[e].prev, seen |-> task[e].rows]
    OBVIOUS
  <1>5. Cautious(task[e].rows, task[e].base["security_health"])
    BY DEF FinishEvaluation, Records, ScoredTask
  <1>6. "security_health" \notin sources => scores["security_health"] = task[e].base["security_health"]
    BY <1>2, SecurityDim
  <1>7. ScoredEvaluation(v)
    <2>1. DOMAIN v = DOMAIN NoEvaluation /\ v.sources = sources /\ v.scores = scores /\ v.seen = task[e].rows
      BY <1>4 DEF NoEvaluation
    <2> QED BY <1>5, <1>6, <2>1 DEF ScoredEvaluation
  <1>8. PICK t : t = [NoTask EXCEPT !.state = "done", !.retries = task[e].retries]
    OBVIOUS
  <1>9. ScoredTask(t)
    BY <1>8 DEF ScoredTask, NoTask
  <1>10. evaluation' = [evaluation EXCEPT ![e] = v]
    BY <1>1, <1>2, <1>3, <1>4 DEF FinishEvaluation
  <1>11. task' = [task EXCEPT ![e] = t]
    BY <1>8 DEF FinishEvaluation
  <1> QED BY <1>7, <1>9, <1>10, <1>11, SetEvaluation

LEMMA EvaluationsScored ==
  ASSUME Records, NEW e \in Evals,
         (\E sent \in BOOLEAN : Trigger(e, sent)) \/ StartEvaluation(e) \/ FailEvaluation(e) \/ RedeliverEvaluation(e)
  PROVE  Records'
  <1> USE PutBack
  <1>1. ASSUME NEW sent \in BOOLEAN, Trigger(e, sent) PROVE Records'
    <2>1. PICK state : state = (IF sent THEN "sent" ELSE "lost") /\ state # "loaded"
      OBVIOUS
    <2>2. PICK t : t = [task[e] EXCEPT !.state = state]
      OBVIOUS
    <2>3. PICK v : v = [evaluation[e] EXCEPT !.status = "pending"]
      OBVIOUS
    <2>4. ScoredTask(t) /\ ScoredEvaluation(v)
      BY <2>1, <2>2, <2>3, MarkedTask, MarkedEvaluation
    <2>5. task' = [task EXCEPT ![e] = t] /\ evaluation' = [evaluation EXCEPT ![e] = v]
      BY <1>1, <2>1, <2>2, <2>3 DEF Trigger
    <2> QED BY <2>4, <2>5, SetEvaluation
  <1>2. CASE StartEvaluation(e)
    <2>1. PICK t : t = [task[e] EXCEPT !.state = "run"]
      OBVIOUS
    <2>2. PICK v : v = [evaluation[e] EXCEPT !.status = "running"]
      OBVIOUS
    <2>3. ScoredTask(t) /\ ScoredEvaluation(v)
      BY <2>1, <2>2, MarkedTask, MarkedEvaluation
    <2>4. task' = [task EXCEPT ![e] = t] /\ evaluation' = [evaluation EXCEPT ![e] = v]
      BY <1>2, <2>1, <2>2 DEF StartEvaluation
    <2> QED BY <2>3, <2>4, SetEvaluation
  <1>3. CASE FailEvaluation(e)
    <2>1. PICK state : state \in {"sent", "done"} /\ task' = [task EXCEPT ![e] = [NoTask EXCEPT !.state = state, !.retries = 1]]
      BY <1>3 DEF FailEvaluation
    <2>2. PICK t : t = [[NoTask EXCEPT !.state = state] EXCEPT !.retries = 1]
      OBVIOUS
    <2>3. PICK v : v = [evaluation[e] EXCEPT !.status = "failed"]
      OBVIOUS
    <2>4. ScoredTask(t) /\ ScoredEvaluation(v)
      BY <2>1, <2>2, <2>3, FreshTask, MarkedEvaluation
    <2>5. task' = [task EXCEPT ![e] = t] /\ evaluation' = [evaluation EXCEPT ![e] = v]
      BY <1>3, <2>1, <2>2, <2>3 DEF FailEvaluation
    <2> QED BY <2>4, <2>5, SetEvaluation
  <1>4. CASE RedeliverEvaluation(e)
    <2>1. PICK t : t = [[NoTask EXCEPT !.state = "sent"] EXCEPT !.retries = task[e].retries]
      OBVIOUS
    <2>2. ScoredTask(t)
      BY <2>1, FreshTask
    <2>3. task' = [task EXCEPT ![e] = t] /\ evaluation' = evaluation
      BY <1>4, <2>1 DEF RedeliverEvaluation
    <2> QED BY <2>2, <2>3, SetEvaluation
  <1> QED BY <1>1, <1>2, <1>3, <1>4

LEMMA RecordsStep ==
  ASSUME VersionsGood, Records, [AssessNext]_assessVars PROVE Records'
  <1>1. CASE UNCHANGED <<evaluation, task>>
    BY <1>1 DEF Records, ScoredTask, ScoredEvaluation, Cautious, Critical, InProgress
  <1>2. ASSUME NEW s \in Skills, NEW p \in Packages, Publish(s, p) PROVE Records'
    BY <1>1, <1>2 DEF Publish
  <1>3. ASSUME NEW s \in Skills, NEW i \in DOMAIN versions[s],
               StartScan(s, i) \/ ScanFails(s, i) \/ AskScan(s, i) \/ Age(s, i)
        PROVE  Records'
    BY <1>1, <1>3 DEF StartScan, ScanFails, AskScan, Age
  <1>4. ASSUME NEW s \in Skills, NEW i \in DOMAIN versions[s], NEW deep \in SUBSET DeepIssues,
               NEW sandbox \in {"passed", "failed"}, NEW promoted \in BOOLEAN,
               FinishScan(s, i, deep, sandbox, promoted)
        PROVE  Records'
    BY <1>1, <1>4 DEF FinishScan
  <1>5. CASE \E r \in Suppressions : Suppress(r) \/ Unsuppress(r)
    BY <1>1, <1>5 DEF Suppress, Unsuppress
  <1>6. ASSUME NEW e \in Evals,
               (\E sent \in BOOLEAN : Trigger(e, sent)) \/ StartEvaluation(e) \/ FailEvaluation(e) \/ RedeliverEvaluation(e)
        PROVE  Records'
    BY <1>6, EvaluationsScored
  <1>7. ASSUME NEW e \in Evals, LoadSkills(e) PROVE Records'
    BY <1>7, LoadScored
  <1>8. ASSUME NEW e \in Evals, NEW asks, NEW failed, NEW judge, NEW blank,
               FinishEvaluation(e, asks, failed, blank, judge)
        PROVE  Records'
    BY <1>8, FinishScored
  <1>9. CASE UNCHANGED assessVars
    BY <1>9, <1>1 DEF assessVars
  <1> QED BY <1>2, <1>3, <1>4, <1>5, <1>6, <1>7, <1>8, <1>9 DEF AssessNext

LEMMA ClinicInitInv == AssessInit => ClinicInv
  <1> SUFFICES ASSUME AssessInit PROVE ClinicInv
    OBVIOUS
  <1>1. VersionsGood
    <2>1. <<>> \in Seq(GoodVersion) /\ Len(<<>>) = 0
      OBVIOUS
    <2> QED BY <2>1, AssessmentAssumption DEF AssessInit, VersionsGood
  <1>2. ScoredTask(NoTask) /\ ScoredEvaluation(NoEvaluation)
    BY DEF ScoredTask, ScoredEvaluation, NoTask, NoEvaluation
  <1>3. Records
    BY <1>2 DEF AssessInit, Records
  <1> QED BY <1>1, <1>3 DEF ClinicInv

\* CriticalHolds: a critical finding keeps the heuristics' security score below the one
\* that needs no recommendation, in every evaluation that is completed.
THEOREM FindingsAreFelt == AssessSpec => []CriticalHolds
  <1>1. ClinicInv /\ [AssessNext]_assessVars => ClinicInv'
    BY VersionsStepGood, RecordsStep DEF ClinicInv
  <1>2. ClinicInv => CriticalHolds
    BY DEF ClinicInv, Records, ScoredEvaluation, Cautious, CriticalHolds
  <1> QED BY ClinicInitInv, <1>1, <1>2, PTL DEF AssessSpec

(* Types of versions, tasks and evaluations *)

EvalTypes == evaluation \in [Evals -> Evaluation] /\ task \in [Evals -> EvalTask]
AssessInv == /\ VersionsGood /\ EvalTypes
             /\ suppressed \subseteq Suppressions /\ asked \in 0 .. MaxAsked

LEMMA GoodIsTyped ==
  /\ GoodRow \subseteq ScanRow
  /\ \A q \in Seq(GoodVersion) : q \in Seq(Version)
  <1>1. GoodRow \subseteq ScanRow
    BY DEF GoodRow, ScanRow
  <1>2. GoodVersion \subseteq Version
    BY <1>1 DEF GoodVersion, Version
  <1> QED BY <1>1, <1>2

LEMMA BlankRecords == NoTask \in EvalTask /\ NoEvaluation \in Evaluation
  BY DEF NoTask, EvalTask, NoEvaluation, Evaluation

LEMMA RowsSeen == VersionsGood => SeenRows \in SUBSET ScanRow
  BY GoodIsTyped, LatestIsGood DEF GoodVersion, SeenRows

\* The evaluation before is one of those there are.
LEMMA PreviousIs == ASSUME NEW e \in Evals PROVE Previous(e) \in {0} \cup Evals
  <1> DEFINE others == {f \in Evals \ {e} : Done(f)}
  <1>1. Evals \subseteq Nat /\ IsFiniteSet(Evals)
    <2>1. PICK n \in Nat : n = Cardinality(Evals)
      BY AssessmentAssumption, FS_CardinalityType
    <2>2. Evals = 1 .. n
      BY <2>1, AssessmentAssumption
    <2> QED BY <2>2, AssessmentAssumption
  <1>2. others \subseteq Evals
    OBVIOUS
  <1>3. IsFiniteSet(others) /\ others \subseteq Nat
    BY <1>1, <1>2, FS_Subset
  <1>4. Previous(e) = IF others = {} THEN 0 ELSE Max(others)
    BY DEF Previous
  <1> HIDE DEF others
  <1>5. others # {} => Max(others) \in others
    BY <1>3, MaxIsGreatest
  <1> QED BY <1>2, <1>4, <1>5

LEMMA SetTypes ==
  ASSUME EvalTypes, NEW e \in Evals, NEW t \in EvalTask, NEW v \in Evaluation,
         task' = [task EXCEPT ![e] = t], evaluation' = [evaluation EXCEPT ![e] = v]
  PROVE  EvalTypes'
  BY DEF EvalTypes

LEMMA RowTypes ==
  ASSUME EvalTypes, NEW e \in Evals
  PROVE  /\ task[e] \in EvalTask /\ task = [task EXCEPT ![e] = task[e]]
         /\ evaluation[e] \in Evaluation /\ evaluation = [evaluation EXCEPT ![e] = evaluation[e]]
  BY DEF EvalTypes

LEMMA MarkTypes ==
  /\ \A t \in EvalTask, state \in {"none", "lost", "sent", "run", "loaded", "done"} :
        [t EXCEPT !.state = state] \in EvalTask
  /\ \A v \in Evaluation, status \in {"none", "pending", "running", "completed", "failed"} :
        [v EXCEPT !.status = status] \in Evaluation
  /\ \A state \in {"sent", "done"}, retries \in 0 .. 1 :
        [NoTask EXCEPT !.state = state, !.retries = retries] \in EvalTask
  <1>1. ASSUME NEW t \in EvalTask, NEW state \in {"none", "lost", "sent", "run", "loaded", "done"}
        PROVE  [t EXCEPT !.state = state] \in EvalTask
    BY DEF EvalTask
  <1>2. ASSUME NEW v \in Evaluation, NEW status \in {"none", "pending", "running", "completed", "failed"}
        PROVE  [v EXCEPT !.status = status] \in Evaluation
    BY DEF Evaluation
  <1>3. ASSUME NEW state \in {"sent", "done"}, NEW retries \in 0 .. 1
        PROVE  [NoTask EXCEPT !.state = state, !.retries = retries] \in EvalTask
    BY BlankRecords DEF EvalTask
  <1> QED BY <1>1, <1>2, <1>3

LEMMA LoadTypes == ASSUME VersionsGood, EvalTypes, NEW e \in Evals, LoadSkills(e) PROVE EvalTypes'
  <1>1. PICK base \in [DimSet -> 0 .. 100] : base = Baseline
    BY BaselineRange
  <1>2. PICK rows \in SUBSET ScanRow : rows = SeenRows
    BY RowsSeen
  <1>3. PICK prev \in {0} \cup Evals : prev = Previous(e)
    BY PreviousIs
  <1>4. PICK old \in EvalTask : old = task[e]
    BY RowTypes
  <1>5. PICK t : t = [old EXCEPT !.state = "loaded", !.base = base, !.rows = rows, !.prev = prev]
    OBVIOUS
  <1>6. t \in EvalTask
    BY <1>5 DEF EvalTask
  <1>7. task' = [task EXCEPT ![e] = t]
    <2>1. task' = [task EXCEPT ![e].state = "loaded", ![e].base = base, ![e].rows = rows, ![e].prev = prev]
      BY <1>1, <1>2, <1>3 DEF LoadSkills
    <2>2. e \in DOMAIN task
      BY DEF EvalTypes
    <2> QED BY <1>4, <1>5, <2>1, <2>2
  <1>8. PICK v \in Evaluation : v = evaluation[e] /\ evaluation' = [evaluation EXCEPT ![e] = v]
    BY RowTypes DEF LoadSkills
  <1> QED BY <1>6, <1>7, <1>8, SetTypes

LEMMA FinishTypes ==
  ASSUME EvalTypes, NEW e \in Evals, NEW asks \in FailsAt \cup {0, 8}, NEW failed \in BOOLEAN,
         NEW judge \in JudgeScores, NEW blank, FinishEvaluation(e, asks, failed, blank, judge)
  PROVE  EvalTypes'
  <1>1. PICK sources \in SUBSET DimSet : sources = AssistedScores(asks, failed, blank)
    <2>1. PICK n \in 0 .. 8 : n = IF failed THEN asks - 1 ELSE asks
      <3>1. asks \in 0 .. 8 /\ (failed => asks \in 1 .. 8)
        BY AssessmentAssumption DEF FinishEvaluation
      <3> QED BY <3>1
    <2>2. \A i \in 1 .. n : i \in DOMAIN Dims
      <3>1. DOMAIN Dims = 1 .. 8
        BY DEF Dims
      <3> QED BY <2>1, <3>1
    <2>3. AssistedScores(asks, failed, blank) \subseteq DimSet
      BY <2>1, <2>2 DEF AssistedScores, DimSet
    <2> QED BY <2>3
  <1>2. PICK old \in EvalTask : old = task[e]
    BY RowTypes
  <1>3. PICK scores : scores = [d \in DimSet |-> IF d \in sources THEN Blended(old.base[d], judge) ELSE old.base[d]]
    OBVIOUS
  <1>4. scores \in [DimSet -> 0 .. 100]
    <2>1. \A d \in DimSet : old.base[d] \in 0 .. 100
      BY DEF EvalTask
    <2>2. \A d \in DimSet : Blended(old.base[d], judge) \in 0 .. 100
      BY <2>1, BlendedRange, AssessmentAssumption
    <2> QED BY <1>3, <2>1, <2>2
  <1>5. PICK mode \in {"llm", "baseline"} : mode = Mode(sources, failed)
    BY DEF Mode
  <1>6. PICK v : v = [status |-> "completed", sources |-> sources, mode |-> mode, scores |-> scores,
                      judgeFailed |-> failed, prev |-> old.prev, seen |-> old.rows]
    OBVIOUS
  <1>7. v \in Evaluation
    <2>1. old.prev \in {0} \cup Evals /\ old.rows \in SUBSET ScanRow
      BY DEF EvalTask
    <2> QED BY <1>4, <1>6, <2>1 DEF Evaluation
  <1>8. PICK t \in EvalTask : t = [NoTask EXCEPT !.state = "done", !.retries = old.retries]
    <2>1. old.retries \in 0 .. 1
      BY DEF EvalTask
    <2> QED BY <2>1, MarkTypes
  <1>9. evaluation' = [evaluation EXCEPT ![e] = v]
    BY <1>1, <1>2, <1>3, <1>5, <1>6 DEF FinishEvaluation
  <1>10. task' = [task EXCEPT ![e] = t]
    BY <1>2, <1>8 DEF FinishEvaluation
  <1> QED BY <1>7, <1>9, <1>10, SetTypes

LEMMA MarksTypes ==
  ASSUME EvalTypes, NEW e \in Evals,
         (\E sent \in BOOLEAN : Trigger(e, sent)) \/ StartEvaluation(e) \/ FailEvaluation(e) \/ RedeliverEvaluation(e)
  PROVE  EvalTypes'
  <1>1. PICK old \in EvalTask, row \in Evaluation : /\ old = task[e] /\ task = [task EXCEPT ![e] = old]
                                                    /\ row = evaluation[e] /\ evaluation = [evaluation EXCEPT ![e] = row]
    BY RowTypes
  <1>2. PICK t \in EvalTask, v \in Evaluation : task' = [task EXCEPT ![e] = t] /\ evaluation' = [evaluation EXCEPT ![e] = v]
    <2>1. ASSUME NEW sent \in BOOLEAN, Trigger(e, sent)
          PROVE  \E t \in EvalTask, v \in Evaluation : task' = [task EXCEPT ![e] = t] /\ evaluation' = [evaluation EXCEPT ![e] = v]
      <3>1. PICK state \in {"sent", "lost"} : state = IF sent THEN "sent" ELSE "lost"
        OBVIOUS
      <3>2. PICK t \in EvalTask, v \in Evaluation : t = [old EXCEPT !.state = state] /\ v = [row EXCEPT !.status = "pending"]
        BY MarkTypes
      <3> QED BY <1>1, <2>1, <3>1, <3>2 DEF Trigger
    <2>2. CASE StartEvaluation(e)
      <3>1. PICK t \in EvalTask, v \in Evaluation : t = [old EXCEPT !.state = "run"] /\ v = [row EXCEPT !.status = "running"]
        BY MarkTypes
      <3> QED BY <1>1, <2>2, <3>1 DEF StartEvaluation
    <2>3. CASE FailEvaluation(e)
      <3>1. PICK v \in Evaluation : v = [row EXCEPT !.status = "failed"]
        BY MarkTypes
      <3>2. PICK state \in {"sent", "done"} : task' = [task EXCEPT ![e] = [NoTask EXCEPT !.state = state, !.retries = 1]]
        BY <2>3 DEF FailEvaluation
      <3>3. PICK t \in EvalTask : t = [NoTask EXCEPT !.state = state, !.retries = 1]
        <4>1. PICK one \in 0 .. 1 : one = 1
          OBVIOUS
        <4>2. [NoTask EXCEPT !.state = state, !.retries = one] \in EvalTask
          BY MarkTypes
        <4> QED BY <4>1, <4>2
      <3> QED BY <1>1, <2>3, <3>1, <3>2, <3>3 DEF FailEvaluation
    <2>4. CASE RedeliverEvaluation(e)
      <3>1. old.retries \in 0 .. 1
        BY DEF EvalTask
      <3>2. PICK t \in EvalTask : t = [NoTask EXCEPT !.state = "sent", !.retries = old.retries]
        BY <3>1, MarkTypes
      <3> QED BY <1>1, <2>4, <3>2 DEF RedeliverEvaluation
    <2> QED BY <2>1, <2>2, <2>3, <2>4
  <1> QED BY <1>2, SetTypes

LEMMA AssessStepInv == AssessInv /\ [AssessNext]_assessVars => AssessInv'
  <1> SUFFICES ASSUME AssessInv, [AssessNext]_assessVars PROVE AssessInv'
    OBVIOUS
  <1>1. VersionsGood'
    BY VersionsStepGood DEF AssessInv
  <1>2. CASE UNCHANGED <<suppressed, asked, evaluation, task>>
    BY <1>1, <1>2 DEF AssessInv, EvalTypes
  <1>3. ASSUME NEW s \in Skills, NEW p \in Packages, Publish(s, p) PROVE AssessInv'
    BY <1>2, <1>3 DEF Publish
  <1>4. ASSUME NEW s \in Skills, NEW i \in DOMAIN versions[s], StartScan(s, i) \/ ScanFails(s, i) \/ Age(s, i)
        PROVE  AssessInv'
    BY <1>2, <1>4 DEF StartScan, ScanFails, Age
  <1>5. ASSUME NEW s \in Skills, NEW i \in DOMAIN versions[s], NEW deep \in SUBSET DeepIssues,
               NEW sandbox \in {"passed", "failed"}, NEW promoted \in BOOLEAN,
               FinishScan(s, i, deep, sandbox, promoted)
        PROVE  AssessInv'
    BY <1>2, <1>5 DEF FinishScan
  <1>6. ASSUME NEW s \in Skills, NEW i \in DOMAIN versions[s], AskScan(s, i) PROVE AssessInv'
    <2>1. asked' \in 0 .. MaxAsked /\ UNCHANGED <<suppressed, evaluation, task>>
      BY <1>6, AssessmentAssumption DEF AskScan, AssessInv
    <2> QED BY <1>1, <2>1 DEF AssessInv, EvalTypes
  <1>7. ASSUME NEW r \in Suppressions, Suppress(r) \/ Unsuppress(r) PROVE AssessInv'
    <2>1. suppressed' \subseteq Suppressions /\ UNCHANGED <<asked, evaluation, task>>
      BY <1>7 DEF Suppress, Unsuppress, AssessInv
    <2> QED BY <1>1, <2>1 DEF AssessInv, EvalTypes
  <1>8. ASSUME EvalTypes', UNCHANGED <<suppressed, asked>> PROVE AssessInv'
    BY <1>1, <1>8 DEF AssessInv
  <1>9. ASSUME NEW e \in Evals,
               (\E sent \in BOOLEAN : Trigger(e, sent)) \/ StartEvaluation(e) \/ FailEvaluation(e) \/ RedeliverEvaluation(e)
        PROVE  AssessInv'
    <2>1. EvalTypes'
      BY <1>9, MarksTypes DEF AssessInv
    <2>2. UNCHANGED <<suppressed, asked>>
      BY <1>9 DEF Trigger, StartEvaluation, FailEvaluation, RedeliverEvaluation
    <2> QED BY <1>8, <2>1, <2>2
  <1>10. ASSUME NEW e \in Evals, LoadSkills(e) PROVE AssessInv'
    <2>1. EvalTypes'
      BY <1>10, LoadTypes DEF AssessInv
    <2> QED BY <1>8, <1>10, <2>1 DEF LoadSkills
  <1>11. ASSUME NEW e \in Evals, NEW asks \in FailsAt \cup {0, 8}, NEW failed \in BOOLEAN, NEW judge \in JudgeScores,
                NEW blank, FinishEvaluation(e, asks, failed, blank, judge)
         PROVE  AssessInv'
    <2>1. EvalTypes'
      BY <1>11, FinishTypes DEF AssessInv
    <2> QED BY <1>8, <1>11, <2>1 DEF FinishEvaluation
  <1>12. CASE UNCHANGED assessVars
    BY <1>2, <1>12 DEF assessVars
  <1> QED BY <1>3, <1>4, <1>5, <1>6, <1>7, <1>9, <1>10, <1>11, <1>12 DEF AssessNext

LEMMA AssessInitInv == AssessInit => AssessInv
  <1> SUFFICES ASSUME AssessInit PROVE AssessInv
    OBVIOUS
  <1>1. VersionsGood
    BY ClinicInitInv DEF ClinicInv
  <1>2. EvalTypes
    BY BlankRecords DEF AssessInit, EvalTypes
  <1> QED BY <1>1, <1>2, AssessmentAssumption DEF AssessInit, AssessInv

\* Scores are percentages: whatever is published, scanned, suppressed and judged, every
\* dimension of an evaluation lies between 0 and 100, and its record is well formed.
THEOREM ScoresArePercentages == AssessSpec => []AssessTypeOK
  <1>1. AssessInv => AssessTypeOK
    BY GoodIsTyped DEF AssessInv, EvalTypes, VersionsGood, AssessTypeOK
  <1> QED BY AssessInitInv, AssessStepInv, <1>1, PTL DEF AssessSpec
-------------------------------------------------------------------------------
(* The parts side by side *)

FocusKnown == focus \in {"stores", "feed", "feeds", "fill", "fills", "clinic", "clinics", "sso", "ssos", "throttle",
                         "ns", "nss", "clients"}

PartsNext == /\ [StoreNext]_storeVars /\ [FeedNext]_feedVars /\ [TenantNext]_tenantVars /\ [AssessNext]_assessVars
             /\ [SsoNext]_ssoVars /\ [ThrottleNext]_throttleVars /\ [NsNext]_nsVars /\ [ClientNext]_clientVars

\* Each part takes a step of its own or none.
LEMMA PlatformPartsStep ==
  ASSUME [MCNext]_<<focus, storeVars, feedVars, tenantVars, assessVars, ssoVars, throttleVars, nsVars, clientVars>>
  PROVE  PartsNext /\ UNCHANGED focus
  <1>1. CASE StoreNext /\ UNCHANGED <<focus, feedVars, tenantVars, assessVars, ssoVars, throttleVars, nsVars, clientVars>>
    BY <1>1 DEF PartsNext
  <1>2. CASE FeedNext /\ UNCHANGED <<focus, storeVars, tenantVars, assessVars, ssoVars, throttleVars, nsVars, clientVars>>
    BY <1>2 DEF PartsNext
  <1>3. CASE TenantNext /\ UNCHANGED <<focus, storeVars, feedVars, assessVars, ssoVars, throttleVars, nsVars, clientVars>>
    BY <1>3 DEF PartsNext
  <1>4. CASE AssessNext /\ UNCHANGED <<focus, storeVars, feedVars, tenantVars, ssoVars, throttleVars, nsVars, clientVars>>
    BY <1>4 DEF PartsNext
  <1>5. CASE SsoNext /\ UNCHANGED <<focus, storeVars, feedVars, tenantVars, assessVars, throttleVars, nsVars, clientVars>>
    BY <1>5 DEF PartsNext
  <1>6. CASE ThrottleNext /\ UNCHANGED <<focus, storeVars, feedVars, tenantVars, assessVars, ssoVars, nsVars, clientVars>>
    BY <1>6 DEF PartsNext
  <1>7. CASE NsNext /\ UNCHANGED <<focus, storeVars, feedVars, tenantVars, assessVars, ssoVars, throttleVars, clientVars>>
    BY <1>7 DEF PartsNext
  <1>8. CASE ClientNext /\ UNCHANGED <<focus, storeVars, feedVars, tenantVars, assessVars, ssoVars, throttleVars, nsVars>>
    BY <1>8 DEF PartsNext
  <1>9. CASE UNCHANGED <<focus, storeVars, feedVars, tenantVars, assessVars, ssoVars, throttleVars, nsVars, clientVars>>
    BY <1>9 DEF PartsNext
  <1> QED BY <1>1, <1>2, <1>3, <1>4, <1>5, <1>6, <1>7, <1>8, <1>9 DEF MCNext

\* The composition that the run checks is an execution of every part, so that whatever is
\* proved of a part holds of it.
THEOREM PlatformSideBySide ==
  MCSpec => /\ StoreSpec /\ FeedSpec /\ TenantSpec /\ AssessSpec
            /\ SsoSpec /\ ThrottleSpec /\ NsSpec /\ ClientSpec
  <1>1. MCInit => /\ StoreInit /\ FeedInit /\ TenantInit /\ AssessInit
                  /\ SsoInit /\ ThrottleInit /\ NsInit /\ ClientInit
    BY DEF MCInit
  <1>2. [MCNext]_<<focus, storeVars, feedVars, tenantVars, assessVars, ssoVars, throttleVars, nsVars, clientVars>> => PartsNext
    BY PlatformPartsStep
  <1>3. PartsNext => /\ [StoreNext]_storeVars /\ [FeedNext]_feedVars /\ [TenantNext]_tenantVars
                     /\ [AssessNext]_assessVars /\ [SsoNext]_ssoVars /\ [ThrottleNext]_throttleVars
                     /\ [NsNext]_nsVars /\ [ClientNext]_clientVars
    BY DEF PartsNext
  <1> QED BY <1>1, <1>2, <1>3, PTL
          DEF MCSpec, StoreSpec, FeedSpec, TenantSpec, AssessSpec, SsoSpec, ThrottleSpec, NsSpec, ClientSpec

\* Bundles, releases, rows, scores, logins, locks, members and links: the part at work is
\* well formed.
THEOREM PlatformTypesHold == MCSpec => []PlatformTypesOK
  <1>1. MCInit => FocusKnown
    BY DEF MCInit, FocusKnown
  <1>2. FocusKnown /\ [MCNext]_<<focus, storeVars, feedVars, tenantVars, assessVars, ssoVars, throttleVars, nsVars, clientVars>> => FocusKnown'
    BY PlatformPartsStep DEF FocusKnown
  <1>3. FocusKnown /\ StoreTypeOK /\ FeedTypeOK /\ TenantTypeOK /\ AssessTypeOK /\ SsoTypeOK /\ ThrottleTypeOK
        /\ NsTypeOK /\ ClientTypeOK => PlatformTypesOK
    BY DEF FocusKnown, PlatformTypesOK
  <1> QED BY <1>1, <1>2, <1>3, PlatformSideBySide, StoreTypes, FeedTypes, TenantTypes, ScoresArePercentages,
             LoginTypesHold, ThrottleTypesHold, NsTypesHold, ClientTypes, PTL DEF MCSpec
===============================================================================
