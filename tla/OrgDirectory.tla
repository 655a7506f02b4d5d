------------------------------ MODULE OrgDirectory ------------------------------
(* The organisation: units, each with a stored path that repeats those above it, and the  *)
(* units a user belongs to, one of them the primary one (endpoints/iam.py), and the       *)
(* handover profile that people.py keeps of a user.                                       *)
EXTENDS Naturals, FiniteSets, Sequences, UnitOfWork

CONSTANTS
    Units,       \* bound: organisation units
    UnitNames,   \* what is left of a name in a path
    UnitCodes,
    Members,     \* users
    OrgSlots     \* bound: requests at the same time

NoUnit == 0
NoCode == 0
NoMember == 0

ASSUME OrgAssumption == /\ Units \subseteq Nat \ {NoUnit} /\ IsFiniteSet(Units)
                        /\ UnitNames # {} /\ NoCode \notin UnitCodes /\ NoMember \notin Members

VARIABLES
    unit,         \* [Units -> OrgUnit]
    affiliation,  \* [Members \X Units -> Affiliation]
    profile,      \* [Members -> Profile]
    orgReq,       \* [OrgSlots -> OrgRequest]: handlers whose transaction has not ended
    orgMixed      \* history: whether two requests were ever served at once

orgVars == <<unit, affiliation, profile, orgReq, orgMixed>>

OrgUnit == [there : BOOLEAN, parent : {NoUnit} \cup Units, name : UnitNames,
            code : {NoCode} \cup UnitCodes, path : Seq(UnitNames)]
Affiliation == [there : BOOLEAN, primary : BOOLEAN]
NotAffiliated == [there |-> FALSE, primary |-> FALSE]
Profile == [there : BOOLEAN, receiver : {NoMember} \cup Members]

\* What a handler has read (its snapshot) and what its session is to write.
NoOrgRequest == [busy |-> FALSE, unit |-> <<>>, aff |-> <<>>, prof |-> <<>>,
                 unit2 |-> <<>>, aff2 |-> <<>>, prof2 |-> <<>>]

OrgTypeOK ==
    /\ unit \in [Units -> OrgUnit]
    /\ affiliation \in [Members \X Units -> Affiliation]
    /\ profile \in [Members -> Profile]
    /\ \A s \in OrgSlots : orgReq[s] = NoOrgRequest \/
          /\ orgReq[s].unit2 \in [Units -> OrgUnit]
          /\ orgReq[s].aff2 \in [Members \X Units -> Affiliation]
          /\ orgReq[s].prof2 \in [Members -> Profile]
    /\ orgMixed \in BOOLEAN

OrgInit ==
    /\ unit = [u \in Units |-> [there |-> FALSE, parent |-> NoUnit, name |-> CHOOSE n \in UnitNames : TRUE,
                                code |-> NoCode, path |-> <<>>]]
    /\ affiliation = [a \in Members \X Units |-> NotAffiliated]
    /\ profile = [p \in Members |-> [there |-> FALSE, receiver |-> NoMember]]
    /\ orgReq = [s \in OrgSlots |-> NoOrgRequest]
    /\ orgMixed = FALSE
-------------------------------------------------------------------------------
\* A handler has done its work and is to commit.
ServeOrg(s, units, affs, profs) ==
    /\ ~orgReq[s].busy
    /\ orgReq' = [orgReq EXCEPT ![s] = [busy |-> TRUE, unit |-> unit, aff |-> affiliation, prof |-> profile,
                                        unit2 |-> units, aff2 |-> affs, prof2 |-> profs]]
    /\ orgMixed' = (orgMixed \/ \E t \in OrgSlots : orgReq[t].busy)
    /\ UNCHANGED <<unit, affiliation, profile>>

Inserted(old, new) == {x \in DOMAIN old : ~old[x].there /\ new[x].there}

UnitsThere(units) == {u \in Units : units[u].there}

\* _org_unit_path
UnitPath(units, parent, name) == Append(IF parent = NoUnit THEN <<>> ELSE units[parent].path, name)

\* The units _refresh_descendant_paths comes by: children, their children, and so on.
Below(units, u) ==
    LET Children(us) == {v \in UnitsThere(units) : units[v].parent \in us}
        below[n \in 0 .. Cardinality(Units)] == IF n = 0 THEN Children({u}) ELSE below[n - 1] \cup Children(below[n - 1])
    IN  below[Cardinality(Units)]

\* A unit below itself: the recursion does not end by itself, and the request fails.
Loops(units, u) == u \in Below(units, u)

\* A fault: the recursion stops at the children.
FaultRefreshed(units, u) ==
    [v \in Units |-> IF units[v].there /\ units[v].parent = u
                     THEN [units[v] EXCEPT !.path = UnitPath(units, u, units[v].name)]
                     ELSE units[v]]
\* The units with the paths below u written anew, from the top down.
Refreshed(units, u) ==
    LET path[v \in {u} \cup Below(units, u)] ==
            IF v = u THEN units[u].path ELSE Append(path[units[v].parent], units[v].name)
    IN  [v \in Units |-> IF v \in DOMAIN path THEN [units[v] EXCEPT !.path = path[v]] ELSE units[v]]

CodeFree(units, u, code) == \A v \in UnitsThere(units) \ {u} : code # NoCode => units[v].code # code

CreateUnit(s, u, parent, name, code) ==
    /\ ~unit[u].there /\ \A t \in OrgSlots : u \notin Inserted(orgReq[t].unit, orgReq[t].unit2)
    /\ parent \in {NoUnit} \cup UnitsThere(unit)
    /\ CodeFree(unit, u, code)
    /\ ServeOrg(s, [unit EXCEPT ![u] = [there |-> TRUE, parent |-> parent, name |-> name, code |-> code,
                                        path |-> UnitPath(unit, parent, name)]],
                affiliation, profile)

\* What the request leaves out stays: a unit cannot be made a root again.
UpdateUnit(s, u, parent, name, code) ==
    LET placed == [unit EXCEPT ![u].parent = IF parent = NoUnit THEN @ ELSE parent,
                               ![u].name = name, ![u].code = IF code = NoCode THEN @ ELSE code]
        named == [placed EXCEPT ![u].path = UnitPath(placed, placed[u].parent, name)]
    IN  /\ u \in UnitsThere(unit) /\ parent \in {NoUnit} \cup (UnitsThere(unit) \ {u})
        /\ CodeFree(unit, u, code)
        /\ ~Loops(named, u)
        /\ ServeOrg(s, Refreshed(named, u), affiliation, profile)

\* A primary affiliation takes that from the others its user has.
WithAffiliation(p, u, primary) ==
    [a \in Members \X Units |->
        IF a = <<p, u>> THEN [there |-> TRUE, primary |-> primary]
        ELSE IF a[1] = p /\ primary THEN [affiliation[a] EXCEPT !.primary = FALSE]
        ELSE affiliation[a]]

AddAffiliation(s, p, u, primary) ==
    /\ u \in UnitsThere(unit) /\ ~affiliation[<<p, u>>].there
    /\ ServeOrg(s, unit, WithAffiliation(p, u, primary), profile)

UpdateAffiliation(s, p, u, primary) ==
    /\ affiliation[<<p, u>>].there
    /\ ServeOrg(s, unit, WithAffiliation(p, u, primary), profile)

\* update_person_handover_profile: the profile is made by the first edit.
EditProfile(s, p, receiver) ==
    ServeOrg(s, unit, affiliation, [profile EXCEPT ![p] = [there |-> TRUE, receiver |-> receiver]])

\* Rows with the key of r's have come to be meanwhile: its flush is refused, and the
\* transaction rolled back.
OrgRefused(r) ==
    \/ \E a \in Inserted(r.aff, r.aff2) : affiliation[a].there
    \/ \E p \in Inserted(r.prof, r.prof2) : profile[p].there
    \/ \E u, v \in Units : /\ v \in UnitsThere(unit) \ {u} /\ r.unit2[u].code # r.unit[u].code
                           /\ r.unit2[u].code = unit[v].code

CommitOrg(s) ==
    LET r == orgReq[s] IN
    /\ r.busy
    /\ IF OrgRefused(r) THEN UNCHANGED <<unit, affiliation, profile>>
       ELSE /\ unit' = FlushRows(unit, r.unit, r.unit2)
            /\ affiliation' = FlushRows(affiliation, r.aff, r.aff2)
            /\ profile' = FlushRows(profile, r.prof, r.prof2)
    /\ orgReq' = [orgReq EXCEPT ![s] = NoOrgRequest]
    /\ UNCHANGED orgMixed

OrgNext ==
    \E s \in OrgSlots :
        \/ \E u \in Units, parent \in {NoUnit} \cup Units, name \in UnitNames, code \in {NoCode} \cup UnitCodes :
              CreateUnit(s, u, parent, name, code) \/ UpdateUnit(s, u, parent, name, code)
        \/ \E p \in Members, u \in Units, primary \in BOOLEAN :
              AddAffiliation(s, p, u, primary) \/ UpdateAffiliation(s, p, u, primary)
        \/ \E p \in Members, receiver \in {NoMember} \cup Members : EditProfile(s, p, receiver)
        \/ CommitOrg(s)

OrgSpec == OrgInit /\ [][OrgNext]_orgVars
-------------------------------------------------------------------------------
\* Unless requests overlapped, after any renames and moves every unit is below a root,
\* its stored path is that of the units above it, and no user has two primary units.
DirectoryConsistent ==
    ~orgMixed =>
        /\ \A u \in UnitsThere(unit) : /\ ~Loops(unit, u)
                                  /\ unit[u].path = UnitPath(unit, unit[u].parent, unit[u].name)
        /\ \A p \in Members : Cardinality({u \in Units : affiliation[<<p, u>>].primary}) <= 1
=================================================================================
