------------------------------ MODULE SkillClients ------------------------------
(* What clients get of skills, and when: the ClawHub API gives the files of a version at  *)
(* once (endpoints/clawhub.py), the registry gives signed links to the bundle of a        *)
(* version, which the object store honours until they run out (endpoints/registry.py,     *)
(* artifact_service.py).  Meanwhile versions are published, judged, shared, withdrawn and *)
(* deleted, skills go to the trash, tags are used again and members lose their standing.  *)
EXTENDS Naturals, FiniteSets

CONSTANTS
    Namesakes,      \* skills of one name in different namespaces
    Offers,         \* bound: rows of skill_versions, in the order of their creation
    OfferTags,      \* tags of versions
    Clients,        \* those who ask
    LinkLife,       \* how long a signed link is honoured
    MaxOfferEdits   \* bound: changes that are made to versions, skills and members

ASSUME ClientsAssumption == /\ Offers \subseteq Nat \ {0} /\ IsFiniteSet(Offers)
                            /\ LinkLife \in Nat /\ MaxOfferEdits \in Nat
                            /\ Namesakes # {} /\ OfferTags # {}

VARIABLES
    offer,       \* [Offers -> OfferRow]
    binned,      \* the skills that are in the trash, themselves or with their namespace
    object,      \* [Keys -> Offers \cup {Nothing}]: whose bundle is stored under a key
    standing,    \* [Clients \X Namesakes -> Standing]
    signedIn,    \* the clients who have signed in
    signed,      \* [Clients -> SignedLink]
    offerEdits,  \* changes made
    entitledAgo, \* history: [Clients \X Offers -> Ages]: for how long one has not been entitled
    got,         \* history: [Clients -> Receipt]: what clients have just got
    retagged     \* history: the keys whose tag has been used again

clientVars == <<offer, binned, object, standing, signedIn, signed, offerEdits, entitledAgo, got, retagged>>
-------------------------------------------------------------------------------
OfferKeys == Namesakes \X OfferTags
Nothing == 0
Ages == 0 .. LinkLife + 1      \* LinkLife + 1: longer than that, or never
Standing == {"none", "readonly", "developer"}

\* Statuses differ in whether they are production, releases in whether they are approved
\* and their date has not passed.
OfferRow == [state : {"new", "there", "deleted"}, key : OfferKeys, production : BOOLEAN, shared : BOOLEAN]
NoOffer == [state |-> "new", key |-> CHOOSE k \in OfferKeys : TRUE, production |-> FALSE, shared |-> FALSE]

SignedLink == [there : BOOLEAN, key : OfferKeys, age : 0 .. LinkLife]
NoLink == [there |-> FALSE, key |-> CHOOSE k \in OfferKeys : TRUE, age |-> 0]

Receipt == [of : Offers \cup {Nothing}, by : {"files", "link", "trash"}, ago : Ages]
GetNothing == [c \in Clients |-> [of |-> Nothing, by |-> "files", ago |-> 0]]

ClientTypeOK ==
    /\ offer \in [Offers -> OfferRow]
    /\ binned \subseteq Namesakes
    /\ object \in [OfferKeys -> Offers \cup {Nothing}]
    /\ standing \in [Clients \X Namesakes -> Standing]
    /\ signedIn \subseteq Clients
    /\ signed \in [Clients -> SignedLink]
    /\ offerEdits \in 0 .. MaxOfferEdits
    /\ entitledAgo \in [Clients \X Offers -> Ages]
    /\ got \in [Clients -> Receipt]
    /\ retagged \subseteq OfferKeys

ClientInit ==
    /\ offer = [v \in Offers |-> NoOffer]
    /\ binned = {}
    /\ object = [k \in OfferKeys |-> Nothing]
    /\ signedIn \in SUBSET Clients
    /\ standing \in [Clients \X Namesakes -> Standing]
    /\ \A c \in Clients \ signedIn, n \in Namesakes : standing[<<c, n>>] = "none"
    /\ signed = [c \in Clients |-> NoLink]
    /\ offerEdits = 0
    /\ entitledAgo = [e \in Clients \X Offers |-> LinkLife + 1]
    /\ got = GetNothing
    /\ retagged = {}
-------------------------------------------------------------------------------
OfferedRows == {v \in Offers : offer[v].state = "there"}
SkillOf(v) == offer[v].key[1]
RowOf(k) == {v \in OfferedRows : offer[v].key = k}

\* A version anonymous clients may have: in production, shared, approved, in time.
Public(v) == offer[v].production /\ offer[v].shared

(* The history: who is entitled to what after a step. *)
Entitled(c, v) ==
    /\ offer[v].state = "there" /\ SkillOf(v) \notin binned
    /\ IF c \in signedIn THEN standing[<<c, SkillOf(v)>>] # "none" ELSE Public(v)

Remembered(later) ==
    entitledAgo' = [e \in Clients \X Offers |->
                       CASE Entitled(e[1], e[2])'               -> 0
                         [] ~Entitled(e[1], e[2])' /\ later
                            /\ entitledAgo[e] <= LinkLife       -> entitledAgo[e] + 1
                         [] OTHER                               -> entitledAgo[e]]
-------------------------------------------------------------------------------
(* ClawHub *)

\* _visible_versions: in the eyes of anonymous clients, of readers, of the others.
FaultVisibleTo(c, n) ==
    {v \in OfferedRows : SkillOf(v) = n /\ offer[v].production}
VisibleTo(c, n) ==
    {v \in OfferedRows : /\ SkillOf(v) = n
                         /\ c \notin signedIn => Public(v)
                         /\ standing[<<c, n>>] = "readonly" => offer[v].production}

\* _public_skills: the skills that have a public version.
PublicSkills == {n \in Namesakes \ binned : \E v \in OfferedRows : SkillOf(v) = n /\ Public(v)}

\* _resolve_visible_skill: the skill a slug names, with the namespace before it or
\* without; those who have signed in see the skills of their namespaces only.  A name
\* that several skills have is refused.
Visibles(c) == IF c \in signedIn THEN {n \in Namesakes \ binned : standing[<<c, n>>] # "none"}
               ELSE PublicSkills
Named(c, hints) == IF Cardinality(Visibles(c) \cap hints) = 1 THEN Visibles(c) \cap hints ELSE {}

\* _select_version_by_reference: a tag, or the newest.
NewestOf(vs) == {v \in vs : \A u \in vs : u <= v}
Selected(vs, ref) == IF ref = "latest" THEN NewestOf(vs) ELSE {v \in vs : offer[v].key[2] = ref}

Gets(c, v, by) == got' = [GetNothing EXCEPT ![c] = [of |-> v, by |-> by, ago |-> entitledAgo[<<c, v>>]]]
Reading == UNCHANGED <<offer, binned, object, standing, signedIn, signed, offerEdits, entitledAgo, retagged>>

\* clawhub_get_version, clawhub_get_file: of the version asked for, or nothing.
ReadFile(c, hints, ref) ==
    \E n \in Named(c, hints) : \E v \in Selected(VisibleTo(c, n), ref) : Gets(c, v, "files") /\ Reading

\* clawhub_download: of the newest version instead of one that cannot be seen.
Download(c, hints, ref) ==
    \E n \in Named(c, hints) :
        LET asked == Selected(VisibleTo(c, n), ref)
        IN  \E v \in IF asked = {} THEN NewestOf(VisibleTo(c, n)) ELSE asked : Gets(c, v, "files") /\ Reading
\* clawhub_resolve: the version that has the files the client has, and the newest one.
Resolve(c, hints) ==
    \E n \in Named(c, hints) : \E v \in VisibleTo(c, n) : Gets(c, v, "files") /\ Reading

\* _resolve_deleted_skill: members see the trash of their namespaces.  A namespace that is
\* in the trash itself shows nothing, so of the skills in binned any may be missing.
Trashed(c, hints) ==
    {n \in binned \cap hints : c \in signedIn /\ standing[<<c, n>>] # "none"}
Describes(c, n) == \E v \in NewestOf({u \in OfferedRows : SkillOf(u) = n}) : Gets(c, v, "trash") /\ Reading

\* clawhub_search, clawhub_list_deleted_skills, clawhub_list_skills: the newest version
\* of each skill is described; for one in the trash, the newest of all.
ListSkills(c) ==
    \/ \E n \in Visibles(c) : \E v \in NewestOf(VisibleTo(c, n)) : Gets(c, v, "files") /\ Reading
    \/ \E n \in Trashed(c, Namesakes) : Describes(c, n)

\* clawhub_get_skill: the trash is looked at when there is no skill of the name.
DescribeSkill(c, hints) ==
    \/ \E n \in Named(c, hints) : \E v \in NewestOf(VisibleTo(c, n)) : Gets(c, v, "files") /\ Reading
    \/ /\ Visibles(c) \cap hints = {}
       /\ \E n \in Trashed(c, hints) : Describes(c, n)
-------------------------------------------------------------------------------
(* The registry *)

\* registry_manifest, registry_download_link: members get every version.
Linkable(c, v) ==
    /\ SkillOf(v) \notin binned
    /\ IF c \in signedIn THEN standing[<<c, SkillOf(v)>>] # "none" ELSE Public(v)

\* ensure_version_artifacts: a bundle that is missing is packed again.
Healed(k, v) == IF object[k] = Nothing THEN [object EXCEPT ![k] = v] ELSE object

\* generate_signed_urls.
Sign(c, k) == signed' = [signed EXCEPT ![c] = [there |-> TRUE, key |-> k, age |-> 0]]

IssueLink(c, v) ==
    /\ v \in OfferedRows /\ Linkable(c, v)
    /\ object' = Healed(offer[v].key, v)
    /\ Sign(c, offer[v].key)
    /\ UNCHANGED <<offer, binned, standing, signedIn, offerEdits, entitledAgo, retagged>>
    /\ got' = GetNothing

\* registry_index with links (_build_entry), of which the client uses one.
Indexed(c, n, latest, all) ==
    LET vs     == {v \in OfferedRows : SkillOf(v) = n /\ ((all /\ c \in signedIn) \/ offer[v].production)}
        chosen == IF latest THEN NewestOf(vs) ELSE vs
    IN  IF c \in signedIn THEN chosen ELSE {v \in chosen : Public(v)}

IndexLink(c, latest, all) ==
    \E n \in Visibles(c) : \E v \in Indexed(c, n, latest, all) :
        /\ object' = Healed(offer[v].key, v)
        /\ Sign(c, offer[v].key)
        /\ UNCHANGED <<offer, binned, standing, signedIn, offerEdits, entitledAgo, retagged>>
        /\ got' = GetNothing

\* The object store looks at the signature and its date only.
OpenLink(c) ==
    /\ signed[c].there /\ object[signed[c].key] # Nothing
    /\ Gets(c, object[signed[c].key], "link")
    /\ Reading

ClientTick ==
    /\ signed' = [c \in Clients |-> IF signed[c].age < LinkLife /\ signed[c].there
                                    THEN [signed[c] EXCEPT !.age = @ + 1] ELSE NoLink]
    /\ got' = GetNothing
    /\ UNCHANGED <<offer, binned, object, standing, signedIn, offerEdits, retagged>>
    /\ Remembered(TRUE)
-------------------------------------------------------------------------------
(* Meanwhile *)
OfferEdit ==
    /\ offerEdits < MaxOfferEdits /\ offerEdits' = offerEdits + 1
    /\ got' = GetNothing /\ UNCHANGED <<signedIn, signed>>
    /\ Remembered(FALSE)

\* publish_version, publish_compat: rows in the order of their numbers.
PublishOffer(k) ==
    /\ k[1] \notin binned /\ RowOf(k) = {}
    /\ \E v \in Offers :
        /\ \A u \in Offers : (u < v) = (offer[u].state # "new")
        /\ offer' = [offer EXCEPT ![v] = [state |-> "there", key |-> k, production |-> FALSE, shared |-> FALSE]]
        /\ object' = [object EXCEPT ![k] = v]
    /\ retagged' = IF \E u \in Offers : offer[u].state # "new" /\ offer[u].key = k THEN retagged \cup {k} ELSE retagged
    /\ UNCHANGED <<binned, standing>> /\ OfferEdit

\* _resolve_publish_target: without a namespace before it, a slug is published to the one
\* namespace the client can write to; namespaces that are gone do not count.
PublishTarget(c, hints, gone) ==
    LET writable == {n \in hints \ gone : standing[<<c, n>>] = "developer"}
    IN  IF Cardinality(writable) = 1 THEN writable ELSE {}

\* clawhub_publish_skill.
PublishFrom(c, hints, tag) ==
    \E gone \in SUBSET binned : \E n \in PublishTarget(c, hints, gone) : PublishOffer(<<n, tag>>)

\* The scan, update_version_review, update_version_sharing and its approval, the date.
ChangeOffer(v, row) ==
    /\ v \in OfferedRows /\ SkillOf(v) \notin binned
    /\ offer' = [offer EXCEPT ![v] = row]
    /\ UNCHANGED <<binned, object, standing, retagged>> /\ OfferEdit

\* delete_version: an error of the object store is swallowed, the bundle stays.  What is
\* left of the row here says that its number and its tag have been used.
DeleteOffer(v) ==
    /\ v \in OfferedRows /\ SkillOf(v) \notin binned
    /\ offer' = [offer EXCEPT ![v] = [state |-> "deleted", key |-> @.key, production |-> FALSE, shared |-> FALSE]]
    /\ object' \in {object, [object EXCEPT ![offer[v].key] = Nothing]}
    /\ UNCHANGED <<binned, standing, retagged>> /\ OfferEdit

\* delete_skill, restore_skill: bundles stay.
BinSkill(n) ==
    /\ binned' = IF n \in binned THEN binned \ {n} ELSE binned \cup {n}
    /\ UNCHANGED <<offer, object, standing, retagged>> /\ OfferEdit

SetStanding(c, n, st) ==
    /\ c \in signedIn /\ standing[<<c, n>>] # st
    /\ standing' = [standing EXCEPT ![<<c, n>>] = st]
    /\ UNCHANGED <<offer, binned, object, retagged>> /\ OfferEdit

LoseBundle(k) ==
    /\ object[k] # Nothing
    /\ object' = [object EXCEPT ![k] = Nothing]
    /\ UNCHANGED <<offer, binned, standing, retagged>> /\ OfferEdit

ClientNext ==
    \/ \E c \in Clients :
         \/ OpenLink(c)
         \/ \E v \in Offers : IssueLink(c, v)
         \/ \E latest, all \in BOOLEAN : IndexLink(c, latest, all)
         \/ \E hints \in {Namesakes} \cup {{n} : n \in Namesakes}, ref \in OfferTags \cup {"latest"} :
              ReadFile(c, hints, ref) \/ Download(c, hints, ref)
         \/ \E hints \in {Namesakes} \cup {{n} : n \in Namesakes} :
              \/ DescribeSkill(c, hints) \/ Resolve(c, hints)
              \/ \E tag \in OfferTags : PublishFrom(c, hints, tag)
         \/ ListSkills(c)
         \/ \E n \in Namesakes, st \in Standing : SetStanding(c, n, st)
    \/ \E k \in OfferKeys : LoseBundle(k) \/ PublishOffer(k)
    \/ \E v \in Offers :
         \/ DeleteOffer(v)
         \/ ChangeOffer(v, [offer[v] EXCEPT !.production = ~@])
         \/ ChangeOffer(v, [offer[v] EXCEPT !.shared = ~@])
    \/ \E n \in Namesakes : BinSkill(n)
    \/ ClientTick

ClientSpec == ClientInit /\ [][ClientNext]_clientVars
-------------------------------------------------------------------------------
\* What a client gets is a version it was entitled to when it got the files, or within the
\* life of a link before: withdrawing, deleting, trashing and losing one's standing end all
\* access after that time, unless the tag was used again (a link names a tag, so it opens
\* the bundle of the version that has the tag now).  Of a skill in the trash members get the
\* description.
GetsWhatWasOffered ==
    \A c \in Clients :
        got[c].of # Nothing =>
            \/ got[c].by = "files" /\ got[c].ago = 0
            \/ got[c].by = "link" /\ got[c].ago <= LinkLife
            \/ got[c].by = "link" /\ offer[got[c].of].key \in retagged
            \/ got[c].by = "trash" /\ standing[<<c, SkillOf(got[c].of)>>] # "none"
=================================================================================
