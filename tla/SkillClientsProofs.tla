--------------------------- MODULE SkillClientsProofs ---------------------------
(* What clients get is what they were offered, for every number of skills, versions, *)
(* tags and clients, and every life of a link.                                       *)
(*                                                                                   *)
(* A link is judged by the tag it names: what the invariant says of it (LinkOK) is   *)
(* said of every version that has ever had the tag, stored or not, so that bundles   *)
(* may be deleted, lost, packed again and uploaded between signing and opening.      *)
(*                                                                                   *)
(* Where those bundles come from: the rows and the tags of the git repository agree  *)
(* after every request, for every number of tags and files, as long as no requests   *)
(* overlap; an error takes only the tags its request was working on.                 *)
EXTENDS SkillClients, SkillStores, TLAPS

Used(v) == offer[v].state # "new"

\* Who is entitled now has been so until now.
EntitledNow == \A c \in Clients, v \in Offers : Entitled(c, v) => entitledAgo[<<c, v>>] = 0

\* A key holds the bundle of a version that has, or had, its tag.
StoredOK == \A k \in OfferKeys : object[k] # Nothing => object[k] \in Offers /\ Used(object[k])
                                                         /\ offer[object[k]].key = k

\* A tag that has not been used again belongs to one version.
OneOfTag == \A u, v \in Offers :
    Used(u) /\ Used(v) /\ offer[u].key = offer[v].key /\ offer[u].key \notin retagged => u = v

\* A link names a tag that was used, and unless it has been used again the client was
\* entitled to its version when the link was signed or later.
LinkOK == \A c \in Clients : signed[c].there =>
    /\ \E v \in Offers : Used(v) /\ offer[v].key = signed[c].key
    /\ \A v \in Offers : Used(v) /\ offer[v].key = signed[c].key /\ signed[c].key \notin retagged
                         => entitledAgo[<<c, v>>] <= signed[c].age

ClientInv == ClientTypeOK /\ EntitledNow /\ StoredOK /\ OneOfTag /\ LinkOK /\ GetsWhatWasOffered
-------------------------------------------------------------------------------
LEMMA NothingGot == ASSUME got' = GetNothing PROVE GetsWhatWasOffered' /\ got' \in [Clients -> Receipt]
  BY ClientsAssumption DEF GetsWhatWasOffered, GetNothing, Receipt, Nothing, Ages

LEMMA KeysThere == (CHOOSE k \in OfferKeys : TRUE) \in OfferKeys
  <1>1. PICK n \in Namesakes, t \in OfferTags : TRUE
    BY ClientsAssumption
  <1>2. <<n, t>> \in OfferKeys
    BY DEF OfferKeys
  <1> QED BY <1>2

LEMMA ClientInitInv == ClientInit => ClientInv
  <1> SUFFICES ASSUME ClientInit PROVE ClientInv
    OBVIOUS
  <1>1. ClientTypeOK
    BY KeysThere, ClientsAssumption DEF ClientInit, ClientTypeOK, GetNothing, NoOffer, NoLink, OfferRow, SignedLink,
       Receipt, Ages, Nothing, Standing
  <1>2. EntitledNow /\ StoredOK /\ OneOfTag /\ LinkOK
    BY ClientsAssumption DEF ClientInit, EntitledNow, Entitled, StoredOK, OneOfTag, LinkOK, Used, NoOffer,
       NoLink, Nothing
  <1>3. GetsWhatWasOffered
    BY DEF ClientInit, GetsWhatWasOffered, GetNothing
  <1> QED BY <1>1, <1>2, <1>3 DEF ClientInv

\* The history after a step: it has its type, it starts again for who is entitled, and it
\* grows by one at most, and only with time.
LEMMA RememberedOK ==
  ASSUME ClientTypeOK, NEW later \in BOOLEAN, Remembered(later)
  PROVE  /\ entitledAgo' \in [Clients \X Offers -> Ages]
         /\ EntitledNow'
         /\ \A c \in Clients, v \in Offers :
              entitledAgo'[<<c, v>>] <= entitledAgo[<<c, v>>] + IF later THEN 1 ELSE 0
  <1>1. \A e \in Clients \X Offers : entitledAgo[e] \in 0 .. LinkLife + 1 /\ LinkLife \in Nat
    BY ClientsAssumption DEF ClientTypeOK, Ages
  <1>2. \A e \in Clients \X Offers :
          /\ entitledAgo'[e] \in Ages
          /\ Entitled(e[1], e[2])' => entitledAgo'[e] = 0
          /\ entitledAgo'[e] <= entitledAgo[e] + IF later THEN 1 ELSE 0
    BY <1>1 DEF Remembered, Ages
  <1>3. entitledAgo' \in [Clients \X Offers -> Ages]
    BY <1>2 DEF Remembered
  <1>4. \A c \in Clients, v \in Offers : <<c, v>> \in Clients \X Offers /\ <<c, v>>[1] = c /\ <<c, v>>[2] = v
    OBVIOUS
  <1>5. EntitledNow'
    BY <1>2, <1>4 DEF EntitledNow
  <1> QED BY <1>2, <1>3, <1>4, <1>5
-------------------------------------------------------------------------------
(* Reads *)

\* Nothing has changed but what clients have got.
LEMMA ReadingKeeps ==
  ASSUME ClientInv, Reading
  PROVE  EntitledNow' /\ StoredOK' /\ OneOfTag' /\ LinkOK'
  BY DEF ClientInv, Reading, EntitledNow, Entitled, StoredOK, OneOfTag, LinkOK, Used, Public, SkillOf

LEMMA GetsType ==
  ASSUME ClientTypeOK, Reading, NEW c \in Clients, NEW v \in Offers, NEW by \in {"files", "link", "trash"},
         Gets(c, v, by)
  PROVE  ClientTypeOK' /\ got'[c] = [of |-> v, by |-> by, ago |-> entitledAgo[<<c, v>>]]
         /\ \A d \in Clients : d # c => got'[d].of = Nothing
  BY ClientsAssumption DEF ClientTypeOK, Reading, Gets, GetNothing, Receipt, Ages, Nothing, Standing

\* Files of a version the client is entitled to.
LEMMA FilesInv ==
  ASSUME ClientInv, Reading, NEW c \in Clients, NEW v \in Offers, Entitled(c, v), Gets(c, v, "files")
  PROVE  ClientInv'
  <1>1. ClientTypeOK' /\ got'[c] = [of |-> v, by |-> "files", ago |-> entitledAgo[<<c, v>>]]
        /\ \A d \in Clients : d # c => got'[d].of = Nothing
    BY GetsType DEF ClientInv
  <1>2. entitledAgo[<<c, v>>] = 0
    BY DEF ClientInv, EntitledNow
  <1>3. GetsWhatWasOffered'
    BY <1>1, <1>2 DEF GetsWhatWasOffered
  <1> QED BY <1>1, <1>3, ReadingKeeps DEF ClientInv

\* What a client sees of a skill it can name is what it is entitled to.
LEMMA VisibleEntitled ==
  ASSUME NEW c \in Clients, NEW n \in Visibles(c), NEW v \in VisibleTo(c, n)
  PROVE  v \in Offers /\ Entitled(c, v)
  <1>1. v \in Offers /\ offer[v].state = "there" /\ SkillOf(v) = n
    BY DEF VisibleTo, OfferedRows
  <1>2. n \notin binned
    BY DEF Visibles, PublicSkills
  <1>3. CASE c \in signedIn
    BY <1>1, <1>2, <1>3 DEF Visibles, Entitled
  <1>4. CASE c \notin signedIn
    <2>1. Public(v)
      BY <1>4 DEF VisibleTo
    <2> QED BY <1>1, <1>2, <1>4, <2>1 DEF Entitled
  <1> QED BY <1>1, <1>3, <1>4

LEMMA ReadFileInv ==
  ASSUME ClientInv, NEW c \in Clients, NEW hints, NEW ref, ReadFile(c, hints, ref)
  PROVE  ClientInv'
  <1>1. PICK n \in Named(c, hints) : \E v \in Selected(VisibleTo(c, n), ref) : Gets(c, v, "files") /\ Reading
    BY DEF ReadFile
  <1>2. PICK v \in Selected(VisibleTo(c, n), ref) : Gets(c, v, "files") /\ Reading
    BY <1>1
  <1>3. n \in Visibles(c) /\ v \in VisibleTo(c, n)
    BY <1>1, <1>2 DEF Named, Selected, NewestOf
  <1> QED BY <1>2, <1>3, VisibleEntitled, FilesInv

LEMMA DownloadInv ==
  ASSUME ClientInv, NEW c \in Clients, NEW hints, NEW ref, Download(c, hints, ref)
  PROVE  ClientInv'
  <1>1. PICK n \in Named(c, hints) : \E v \in VisibleTo(c, n) : Gets(c, v, "files") /\ Reading
    BY DEF Download, Selected, NewestOf
  <1>2. PICK v \in VisibleTo(c, n) : Gets(c, v, "files") /\ Reading
    BY <1>1
  <1>3. n \in Visibles(c)
    BY <1>1 DEF Named
  <1> QED BY <1>2, <1>3, VisibleEntitled, FilesInv

LEMMA ResolveInv ==
  ASSUME ClientInv, NEW c \in Clients, NEW hints, Resolve(c, hints)
  PROVE  ClientInv'
  <1>1. PICK n \in Named(c, hints) : \E v \in VisibleTo(c, n) : Gets(c, v, "files") /\ Reading
    BY DEF Resolve
  <1>2. PICK v \in VisibleTo(c, n) : Gets(c, v, "files") /\ Reading
    BY <1>1
  <1>3. n \in Visibles(c)
    BY <1>1 DEF Named
  <1> QED BY <1>2, <1>3, VisibleEntitled, FilesInv

\* The description of a skill in the trash.
LEMMA DescribesInv ==
  ASSUME ClientInv, NEW c \in Clients, NEW hints, NEW n \in Trashed(c, hints), Describes(c, n)
  PROVE  ClientInv'
  <1>1. PICK v \in Offers : SkillOf(v) = n /\ Gets(c, v, "trash") /\ Reading
    BY DEF Describes, NewestOf, OfferedRows
  <1>2. ClientTypeOK' /\ got'[c] = [of |-> v, by |-> "trash", ago |-> entitledAgo[<<c, v>>]]
        /\ \A d \in Clients : d # c => got'[d].of = Nothing
    BY <1>1, GetsType DEF ClientInv
  <1>3. standing'[<<c, SkillOf(v)'>>] # "none"
    BY <1>1 DEF Trashed, Reading, SkillOf
  <1>4. GetsWhatWasOffered'
    BY <1>2, <1>3 DEF GetsWhatWasOffered
  <1> QED BY <1>1, <1>2, <1>4, ReadingKeeps DEF ClientInv

LEMMA ListSkillsInv ==
  ASSUME ClientInv, NEW c \in Clients, ListSkills(c)
  PROVE  ClientInv'
  <1>1. CASE \E n \in Visibles(c) : \E v \in NewestOf(VisibleTo(c, n)) : Gets(c, v, "files") /\ Reading
    <2>1. PICK n \in Visibles(c) : \E v \in VisibleTo(c, n) : Gets(c, v, "files") /\ Reading
      BY <1>1 DEF NewestOf
    <2>2. PICK v \in VisibleTo(c, n) : Gets(c, v, "files") /\ Reading
      BY <2>1
    <2> QED BY <2>2, VisibleEntitled, FilesInv
  <1>2. CASE \E n \in Trashed(c, Namesakes) : Describes(c, n)
    BY <1>2, DescribesInv
  <1> QED BY <1>1, <1>2 DEF ListSkills

LEMMA DescribeSkillInv ==
  ASSUME ClientInv, NEW c \in Clients, NEW hints, DescribeSkill(c, hints)
  PROVE  ClientInv'
  <1>1. CASE \E n \in Named(c, hints) : \E v \in NewestOf(VisibleTo(c, n)) : Gets(c, v, "files") /\ Reading
    <2>1. PICK n \in Visibles(c) : \E v \in VisibleTo(c, n) : Gets(c, v, "files") /\ Reading
      BY <1>1 DEF NewestOf, Named
    <2>2. PICK v \in VisibleTo(c, n) : Gets(c, v, "files") /\ Reading
      BY <2>1
    <2> QED BY <2>2, VisibleEntitled, FilesInv
  <1>2. CASE \E n \in Trashed(c, hints) : Describes(c, n)
    BY <1>2, DescribesInv
  <1> QED BY <1>1, <1>2 DEF DescribeSkill
-------------------------------------------------------------------------------
(* Links *)

LEMMA OpenLinkInv ==
  ASSUME ClientInv, NEW c \in Clients, OpenLink(c)
  PROVE  ClientInv'
  <1> DEFINE k == signed[c].key
             v == object[k]
  <1>1. k \in OfferKeys /\ signed[c].there /\ v # Nothing /\ Gets(c, v, "link") /\ Reading
    BY DEF OpenLink, ClientInv, ClientTypeOK, SignedLink
  <1>2. v \in Offers /\ Used(v) /\ offer[v].key = k
    BY <1>1 DEF ClientInv, StoredOK
  <1>3. ClientTypeOK' /\ got'[c] = [of |-> v, by |-> "link", ago |-> entitledAgo[<<c, v>>]]
        /\ \A d \in Clients : d # c => got'[d].of = Nothing
    BY <1>1, <1>2, GetsType DEF ClientInv
  <1>4. k \notin retagged => entitledAgo[<<c, v>>] <= signed[c].age
    BY <1>1, <1>2 DEF ClientInv, LinkOK
  <1>5. signed[c].age <= LinkLife /\ signed[c].age \in Nat /\ LinkLife \in Nat /\ entitledAgo[<<c, v>>] \in Nat
    BY <1>2, ClientsAssumption DEF ClientInv, ClientTypeOK, SignedLink, Ages
  <1>6. k \notin retagged => entitledAgo[<<c, v>>] <= LinkLife
    BY <1>4, <1>5
  <1>7. offer' = offer /\ retagged' = retagged
    BY <1>1 DEF Reading
  <1>8. GetsWhatWasOffered'
    BY <1>2, <1>3, <1>6, <1>7 DEF GetsWhatWasOffered
  <1> QED BY <1>1, <1>3, <1>8, ReadingKeeps DEF ClientInv

\* A link to a version the client is entitled to, packed again if need be.
LEMMA SignInv ==
  ASSUME ClientInv, NEW c \in Clients, NEW v \in OfferedRows, Entitled(c, v),
         object' = Healed(offer[v].key, v), Sign(c, offer[v].key), got' = GetNothing,
         UNCHANGED <<offer, binned, standing, signedIn, offerEdits, entitledAgo, retagged>>
  PROVE  ClientInv'
  <1> DEFINE k == offer[v].key
  <1>1. v \in Offers /\ Used(v) /\ k \in OfferKeys /\ entitledAgo[<<c, v>>] = 0
    BY DEF OfferedRows, Used, ClientInv, ClientTypeOK, OfferRow, EntitledNow
  <1>2. signed' = [signed EXCEPT ![c] = [there |-> TRUE, key |-> k, age |-> 0]]
    BY DEF Sign
  <1>3. object' = object \/ object' = [object EXCEPT ![k] = v]
    BY DEF Healed
  <1>4. ClientTypeOK'
    <2>1. [there |-> TRUE, key |-> k, age |-> 0] \in SignedLink
      BY <1>1, ClientsAssumption DEF SignedLink
    <2>2. signed' \in [Clients -> SignedLink]
      BY <1>2, <2>1 DEF ClientInv, ClientTypeOK
    <2>3. object' \in [OfferKeys -> Offers \cup {Nothing}]
      BY <1>1, <1>3 DEF ClientInv, ClientTypeOK
    <2> QED BY <2>2, <2>3, NothingGot DEF ClientInv, ClientTypeOK
  <1>5. EntitledNow' /\ OneOfTag'
    BY DEF ClientInv, EntitledNow, Entitled, OneOfTag, Used, Public, SkillOf
  <1>6. StoredOK'
    <2>1. CASE object' = object
      BY <2>1 DEF ClientInv, StoredOK, Used
    <2>2. CASE object' = [object EXCEPT ![k] = v]
      <3>1. \A l \in OfferKeys : object'[l] = IF l = k THEN v ELSE object[l]
        BY <1>1, <2>2 DEF ClientInv, ClientTypeOK
      <3> QED BY <1>1, <3>1 DEF ClientInv, StoredOK, Used
    <2> QED BY <1>3, <2>1, <2>2
  <1>7. \A u \in Offers : Used(u) /\ offer[u].key = k /\ k \notin retagged => u = v
    BY <1>1 DEF ClientInv, OneOfTag
  <1>8. LinkOK'
    <2> SUFFICES ASSUME NEW d \in Clients, signed'[d].there
                 PROVE  /\ \E u \in Offers : Used(u) /\ offer[u].key = signed'[d].key
                        /\ \A u \in Offers : Used(u) /\ offer[u].key = signed'[d].key
                              /\ signed'[d].key \notin retagged => entitledAgo[<<d, u>>] <= signed'[d].age
      BY DEF LinkOK, Used
    <2>1. CASE d = c
      <3>1. signed'[d] = [there |-> TRUE, key |-> k, age |-> 0]
        BY <1>2, <2>1 DEF ClientInv, ClientTypeOK
      <3> QED BY <1>1, <1>7, <2>1, <3>1
    <2>2. CASE d # c
      BY <1>2, <2>2 DEF ClientInv, ClientTypeOK, LinkOK
    <2> QED BY <2>1, <2>2
  <1> QED BY <1>4, <1>5, <1>6, <1>8, NothingGot DEF ClientInv

LEMMA IssueLinkInv ==
  ASSUME ClientInv, NEW c \in Clients, NEW v \in Offers, IssueLink(c, v)
  PROVE  ClientInv'
  <1>1. v \in OfferedRows /\ Entitled(c, v)
    BY DEF IssueLink, Linkable, Entitled, OfferedRows
  <1> QED BY <1>1, SignInv DEF IssueLink

LEMMA IndexLinkInv ==
  ASSUME ClientInv, NEW c \in Clients, NEW latest \in BOOLEAN, NEW all \in BOOLEAN,
         IndexLink(c, latest, all)
  PROVE  ClientInv'
  <1>1. PICK n \in Visibles(c) : \E v \in Indexed(c, n, latest, all) :
          /\ object' = Healed(offer[v].key, v) /\ Sign(c, offer[v].key)
          /\ UNCHANGED <<offer, binned, standing, signedIn, offerEdits, entitledAgo, retagged>>
          /\ got' = GetNothing
    BY DEF IndexLink
  <1>2. PICK v \in Indexed(c, n, latest, all) :
          /\ object' = Healed(offer[v].key, v) /\ Sign(c, offer[v].key)
          /\ UNCHANGED <<offer, binned, standing, signedIn, offerEdits, entitledAgo, retagged>>
          /\ got' = GetNothing
    BY <1>1
  <1>3. v \in OfferedRows /\ SkillOf(v) = n /\ (c \notin signedIn => Public(v))
    BY <1>2 DEF Indexed, NewestOf
  <1>4. Entitled(c, v)
    BY <1>1, <1>3 DEF Visibles, PublicSkills, Entitled, OfferedRows
  <1> QED BY <1>2, <1>3, <1>4, SignInv
-------------------------------------------------------------------------------
(* Time and changes *)

LEMMA TickInv == ASSUME ClientInv, ClientTick PROVE ClientInv'
  <1>1. /\ entitledAgo' \in [Clients \X Offers -> Ages] /\ EntitledNow'
        /\ \A c \in Clients, v \in Offers : entitledAgo'[<<c, v>>] <= entitledAgo[<<c, v>>] + 1
    <2>1. Remembered(TRUE)
      BY DEF ClientTick
    <2> QED BY <2>1, RememberedOK DEF ClientInv
  <1>2. \A c \in Clients : signed[c].age \in Nat /\ signed'[c] =
          IF signed[c].age < LinkLife /\ signed[c].there THEN [signed[c] EXCEPT !.age = @ + 1] ELSE NoLink
    BY ClientsAssumption DEF ClientTick, ClientInv, ClientTypeOK, SignedLink
  <1>3. signed' \in [Clients -> SignedLink]
    <2>1. NoLink \in SignedLink
      BY KeysThere, ClientsAssumption DEF NoLink, SignedLink
    <2>2. ASSUME NEW c \in Clients, signed[c].age < LinkLife
          PROVE  [signed[c] EXCEPT !.age = @ + 1] \in SignedLink
      <3>1. signed[c] \in SignedLink /\ signed[c].age + 1 \in 0 .. LinkLife
        BY <2>2, ClientsAssumption DEF ClientInv, ClientTypeOK, SignedLink
      <3> QED BY <3>1 DEF SignedLink
    <2>3. \A c \in Clients : signed'[c] \in SignedLink
      BY <1>2, <2>1, <2>2
    <2> QED BY <2>3 DEF ClientTick
  <1>4. ClientTypeOK'
    BY <1>1, <1>3, NothingGot DEF ClientInv, ClientTypeOK, ClientTick
  <1>5. StoredOK' /\ OneOfTag'
    BY DEF ClientTick, ClientInv, StoredOK, OneOfTag, Used
  <1>6. \A c \in Clients : signed'[c].there =>
          signed[c].there /\ signed'[c].key = signed[c].key /\ signed'[c].age = signed[c].age + 1
    <2> SUFFICES ASSUME NEW c \in Clients, signed'[c].there
                 PROVE  signed[c].there /\ signed'[c].key = signed[c].key /\ signed'[c].age = signed[c].age + 1
      OBVIOUS
    <2>1. signed[c] \in SignedLink
      BY DEF ClientInv, ClientTypeOK
    <2>2. ~NoLink.there
      BY DEF NoLink
    <2>3. signed[c].there /\ signed'[c] = [signed[c] EXCEPT !.age = @ + 1]
      BY <1>2, <2>2
    <2> QED BY <2>1, <2>3 DEF SignedLink
  <1>7. \A e \in Clients \X Offers : entitledAgo[e] \in Nat /\ entitledAgo'[e] \in Nat
    BY <1>1, ClientsAssumption DEF ClientInv, ClientTypeOK, Ages
  <1>8. LinkOK'
    <2> SUFFICES ASSUME NEW c \in Clients, signed'[c].there
                 PROVE  /\ \E v \in Offers : Used(v) /\ offer[v].key = signed'[c].key
                        /\ \A v \in Offers : Used(v) /\ offer[v].key = signed'[c].key
                              /\ signed'[c].key \notin retagged => entitledAgo'[<<c, v>>] <= signed'[c].age
      BY DEF LinkOK, Used, ClientTick
    <2>1. \E v \in Offers : Used(v) /\ offer[v].key = signed'[c].key
      BY <1>6 DEF ClientInv, LinkOK
    <2>2. ASSUME NEW v \in Offers, Used(v), offer[v].key = signed'[c].key, signed'[c].key \notin retagged
          PROVE  entitledAgo'[<<c, v>>] <= signed'[c].age
      <3>1. entitledAgo[<<c, v>>] <= signed[c].age
        BY <1>6, <2>2 DEF ClientInv, LinkOK
      <3>2. entitledAgo'[<<c, v>>] <= entitledAgo[<<c, v>>] + 1
        BY <1>1
      <3>3. entitledAgo[<<c, v>>] \in Nat /\ entitledAgo'[<<c, v>>] \in Nat
        BY <1>7
      <3>4. signed[c].age \in Nat /\ signed'[c].age = signed[c].age + 1
        BY <1>2, <1>6
      <3> QED BY <3>1, <3>2, <3>3, <3>4
    <2> QED BY <2>1, <2>2
  <1> QED BY <1>1, <1>4, <1>5, <1>8, NothingGot DEF ClientInv, ClientTick

\* A change after which used versions have the tags they had, and a new one a tag nobody
\* had, or one that is now used again.
LEMMA EditKeeps ==
  ASSUME ClientInv, OfferEdit,
         offer' \in [Offers -> OfferRow], object' \in [OfferKeys -> Offers \cup {Nothing}],
         binned' \subseteq Namesakes, standing' \in [Clients \X Namesakes -> Standing],
         retagged' \subseteq OfferKeys, retagged \subseteq retagged',
         StoredOK', OneOfTag',
         \A v \in Offers : Used(v) => Used(v)' /\ offer'[v].key = offer[v].key,
         \A v \in Offers : Used(v)' /\ ~Used(v) => \/ offer'[v].key \in retagged'
                                              \/ \A u \in Offers : Used(u) => offer[u].key # offer'[v].key
  PROVE  ClientInv'
  <1>1. /\ entitledAgo' \in [Clients \X Offers -> Ages] /\ EntitledNow'
        /\ \A c \in Clients, v \in Offers : entitledAgo'[<<c, v>>] <= entitledAgo[<<c, v>>] + 0
    <2>1. Remembered(FALSE)
      BY DEF OfferEdit
    <2> QED BY <2>1, RememberedOK DEF ClientInv
  <1>2. signed' = signed /\ signedIn' = signedIn /\ got' = GetNothing /\ offerEdits' \in 0 .. MaxOfferEdits
    BY ClientsAssumption DEF OfferEdit, ClientInv, ClientTypeOK
  <1>3. ClientTypeOK'
    BY <1>1, <1>2, NothingGot DEF ClientInv, ClientTypeOK
  <1>4. \A e \in Clients \X Offers : entitledAgo[e] \in Nat /\ entitledAgo'[e] \in Nat
    BY <1>1, ClientsAssumption DEF ClientInv, ClientTypeOK, Ages
  <1>5. \A c \in Clients, v \in Offers : entitledAgo'[<<c, v>>] <= entitledAgo[<<c, v>>]
    <2> SUFFICES ASSUME NEW c \in Clients, NEW v \in Offers PROVE entitledAgo'[<<c, v>>] <= entitledAgo[<<c, v>>]
      OBVIOUS
    <2>1. entitledAgo'[<<c, v>>] <= entitledAgo[<<c, v>>] + 0
      BY <1>1
    <2>2. entitledAgo[<<c, v>>] \in Nat /\ entitledAgo'[<<c, v>>] \in Nat
      BY <1>4
    <2> QED BY <2>1, <2>2
  <1>6. LinkOK'
    <2> SUFFICES ASSUME NEW c \in Clients, signed[c].there
                 PROVE  /\ \E v \in Offers : Used(v)' /\ offer'[v].key = signed[c].key
                        /\ \A v \in Offers : Used(v)' /\ offer'[v].key = signed[c].key
                              /\ signed[c].key \notin retagged' => entitledAgo'[<<c, v>>] <= signed[c].age
      BY <1>2 DEF LinkOK
    <2>1. PICK u \in Offers : Used(u) /\ offer[u].key = signed[c].key
      BY DEF ClientInv, LinkOK
    <2>2. ASSUME NEW v \in Offers, Used(v)', offer'[v].key = signed[c].key, signed[c].key \notin retagged'
          PROVE  entitledAgo'[<<c, v>>] <= signed[c].age
      <3>1. Used(v) /\ offer[v].key = signed[c].key
        BY <2>1, <2>2
      <3>2. entitledAgo[<<c, v>>] <= signed[c].age
        BY <2>2, <3>1 DEF ClientInv, LinkOK
      <3>3. signed[c].age \in Nat
        BY ClientsAssumption DEF ClientInv, ClientTypeOK, SignedLink
      <3> QED BY <1>4, <1>5, <3>2, <3>3
    <2> QED BY <2>1, <2>2
  <1> QED BY <1>1, <1>2, <1>3, <1>6, NothingGot DEF ClientInv

LEMMA PublishOfferInv ==
  ASSUME ClientInv, NEW k \in OfferKeys, PublishOffer(k)
  PROVE  ClientInv'
  <1> DEFINE taken == \E u \in Offers : Used(u) /\ offer[u].key = k
  <1>1. PICK v \in Offers :
          /\ \A u \in Offers : (u < v) = Used(u)
          /\ offer' = [offer EXCEPT ![v] = [state |-> "there", key |-> k, production |-> FALSE, shared |-> FALSE]]
          /\ object' = [object EXCEPT ![k] = v]
    BY DEF PublishOffer, Used
  <1>2. ~Used(v)
    <2>1. (v < v) = Used(v)
      BY <1>1
    <2>2. ~(v < v)
      BY ClientsAssumption
    <2> QED BY <2>1, <2>2
  <1>3. /\ Used(v)' /\ offer'[v].key = k
        /\ offer'[v] = [state |-> "there", key |-> k, production |-> FALSE, shared |-> FALSE]
        /\ \A u \in Offers : u # v => offer'[u] = offer[u]
    BY <1>1 DEF Used, ClientInv, ClientTypeOK
  <1>4. offer' \in [Offers -> OfferRow]
    BY <1>1 DEF ClientInv, ClientTypeOK, OfferRow
  <1>5. retagged' = (IF taken THEN retagged \cup {k} ELSE retagged)
    BY DEF PublishOffer, Used
  <1>6. binned' = binned /\ standing' = standing /\ OfferEdit
    BY DEF PublishOffer
  <1>7. object' \in [OfferKeys -> Offers \cup {Nothing}]
    BY <1>1 DEF ClientInv, ClientTypeOK
  <1>8. \A u \in Offers : Used(u) => Used(u)' /\ offer'[u].key = offer[u].key /\ u # v
    BY <1>2, <1>3 DEF Used
  <1>9. StoredOK'
    BY <1>1, <1>3, <1>7, <1>8 DEF ClientInv, ClientTypeOK, StoredOK
  <1>10. OneOfTag'
    <2> SUFFICES ASSUME NEW u \in Offers, NEW w \in Offers, Used(u)', Used(w)', offer'[u].key = offer'[w].key,
                        offer'[u].key \notin retagged'
                 PROVE  u = w
      BY DEF OneOfTag
    <2>1. CASE u # v /\ w # v
      BY <1>3, <1>5, <2>1 DEF ClientInv, OneOfTag, Used
    <2>2. CASE (u = v) # (w = v)
      <3>1. taken
        BY <1>3, <2>2 DEF Used
      <3> QED BY <1>3, <1>5, <2>2, <3>1
    <2> QED BY <2>1, <2>2
  <1>11. \A u \in Offers : Used(u)' /\ ~Used(u) => \/ offer'[u].key \in retagged'
                                            \/ \A w \in Offers : Used(w) => offer[w].key # offer'[u].key
    <2>1. \A u \in Offers : Used(u)' /\ ~Used(u) => u = v
      BY <1>3 DEF Used
    <2> QED BY <1>3, <1>5, <2>1
  <1>12. binned' \subseteq Namesakes /\ standing' \in [Clients \X Namesakes -> Standing]
         /\ retagged' \subseteq OfferKeys /\ retagged \subseteq retagged'
    BY <1>5, <1>6 DEF ClientInv, ClientTypeOK
  <1> QED BY <1>4, <1>6, <1>7, <1>8, <1>9, <1>10, <1>11, <1>12, EditKeeps

LEMMA PublishFromInv ==
  ASSUME ClientInv, NEW c \in Clients, NEW hints \in SUBSET Namesakes, NEW tag \in OfferTags,
         PublishFrom(c, hints, tag)
  PROVE  ClientInv'
  <1>1. PICK n \in Namesakes : PublishOffer(<<n, tag>>)
    BY DEF PublishFrom, PublishTarget
  <1>2. <<n, tag>> \in OfferKeys
    BY DEF OfferKeys
  <1> QED BY <1>1, <1>2, PublishOfferInv

\* A change after which every version is used as before, with the tag it had, and bundles
\* stay or are gone.
LEMMA SameTagsKeep ==
  ASSUME ClientInv, OfferEdit, retagged' = retagged,
         offer' \in [Offers -> OfferRow], object' \in [OfferKeys -> Offers \cup {Nothing}],
         binned' \subseteq Namesakes, standing' \in [Clients \X Namesakes -> Standing],
         \A v \in Offers : (Used(v)' <=> Used(v)) /\ offer'[v].key = offer[v].key,
         \A k \in OfferKeys : object'[k] \in {object[k], Nothing}
  PROVE  ClientInv'
  <1>1. StoredOK'
    BY DEF ClientInv, StoredOK
  <1>2. OneOfTag'
    BY DEF ClientInv, OneOfTag
  <1>3. retagged' \subseteq OfferKeys /\ retagged \subseteq retagged'
    BY DEF ClientInv, ClientTypeOK
  <1> QED BY <1>1, <1>2, <1>3, EditKeeps

LEMMA ChangeOfferInv ==
  ASSUME ClientInv, NEW v \in Offers, NEW row \in OfferRow, ChangeOffer(v, row),
         row.key = offer[v].key, row.state = offer[v].state
  PROVE  ClientInv'
  <1>1. offer' = [offer EXCEPT ![v] = row]
        /\ UNCHANGED <<binned, object, standing, retagged>> /\ OfferEdit
    BY DEF ChangeOffer
  <1>2. offer' \in [Offers -> OfferRow] /\ \A u \in Offers : (Used(u)' <=> Used(u)) /\ offer'[u].key = offer[u].key
    BY <1>1 DEF ClientInv, ClientTypeOK, Used
  <1> QED BY <1>1, <1>2, SameTagsKeep DEF ClientInv, ClientTypeOK

LEMMA DeleteOfferInv == ASSUME ClientInv, NEW v \in Offers, DeleteOffer(v) PROVE ClientInv'
  <1>1. /\ offer' = [offer EXCEPT ![v] = [state |-> "deleted", key |-> @.key, production |-> FALSE, shared |-> FALSE]]
        /\ object' \in {object, [object EXCEPT ![offer[v].key] = Nothing]}
        /\ UNCHANGED <<binned, standing, retagged>> /\ OfferEdit /\ offer[v].state = "there"
    BY DEF DeleteOffer, OfferedRows
  <1>3. offer' \in [Offers -> OfferRow] /\ \A u \in Offers : (Used(u)' <=> Used(u)) /\ offer'[u].key = offer[u].key
    BY <1>1 DEF ClientInv, ClientTypeOK, OfferRow, Used
  <1>4. object' \in [OfferKeys -> Offers \cup {Nothing}] /\ \A k \in OfferKeys : object'[k] \in {object[k], Nothing}
    BY <1>1 DEF ClientInv, ClientTypeOK
  <1> QED BY <1>1, <1>3, <1>4, SameTagsKeep DEF ClientInv, ClientTypeOK

LEMMA BinSkillInv == ASSUME ClientInv, NEW n \in Namesakes, BinSkill(n) PROVE ClientInv'
  <1>1. binned' \subseteq Namesakes /\ UNCHANGED <<offer, object, standing, retagged>> /\ OfferEdit
    BY DEF BinSkill, ClientInv, ClientTypeOK
  <1> QED BY <1>1, SameTagsKeep DEF ClientInv, ClientTypeOK, Used

LEMMA SetStandingInv ==
  ASSUME ClientInv, NEW c \in Clients, NEW n \in Namesakes, NEW st \in Standing, SetStanding(c, n, st)
  PROVE  ClientInv'
  <1>1. standing' = [standing EXCEPT ![<<c, n>>] = st] /\ UNCHANGED <<offer, binned, object, retagged>> /\ OfferEdit
    BY DEF SetStanding
  <1>2. standing' \in [Clients \X Namesakes -> Standing]
    BY <1>1 DEF ClientInv, ClientTypeOK
  <1> QED BY <1>1, <1>2, SameTagsKeep DEF ClientInv, ClientTypeOK, Used

LEMMA LoseBundleInv == ASSUME ClientInv, NEW k \in OfferKeys, LoseBundle(k) PROVE ClientInv'
  <1>1. object' = [object EXCEPT ![k] = Nothing] /\ UNCHANGED <<offer, binned, standing, retagged>> /\ OfferEdit
    BY DEF LoseBundle
  <1>2. object' \in [OfferKeys -> Offers \cup {Nothing}] /\ \A l \in OfferKeys : object'[l] \in {object[l], Nothing}
    BY <1>1 DEF ClientInv, ClientTypeOK
  <1> QED BY <1>1, <1>2, SameTagsKeep DEF ClientInv, ClientTypeOK, Used
-------------------------------------------------------------------------------
(* The invariant and the theorems *)

LEMMA StepInv == ASSUME ClientInv, ClientNext PROVE ClientInv'
  <1>1. CASE \E c \in Clients : OpenLink(c) \/ ListSkills(c)
    BY <1>1, OpenLinkInv, ListSkillsInv
  <1>2. CASE \E c \in Clients, v \in Offers : IssueLink(c, v)
    BY <1>2, IssueLinkInv
  <1>3. CASE \E c \in Clients, latest, all \in BOOLEAN : IndexLink(c, latest, all)
    BY <1>3, IndexLinkInv
  <1>4. CASE \E c \in Clients, hints \in SUBSET Namesakes, ref \in OfferTags \cup {"latest"} :
               ReadFile(c, hints, ref) \/ Download(c, hints, ref)
    BY <1>4, ReadFileInv, DownloadInv
  <1>5. CASE \E c \in Clients, hints \in SUBSET Namesakes : DescribeSkill(c, hints) \/ Resolve(c, hints)
    BY <1>5, DescribeSkillInv, ResolveInv
  <1>6. CASE \E c \in Clients, hints \in SUBSET Namesakes, tag \in OfferTags : PublishFrom(c, hints, tag)
    BY <1>6, PublishFromInv
  <1>7. CASE \E c \in Clients, n \in Namesakes, st \in Standing : SetStanding(c, n, st)
    BY <1>7, SetStandingInv
  <1>8. CASE \E k \in OfferKeys : LoseBundle(k) \/ PublishOffer(k)
    BY <1>8, LoseBundleInv, PublishOfferInv
  <1>9. CASE \E v \in Offers : \/ ChangeOffer(v, [offer[v] EXCEPT !.production = ~@])
                              \/ ChangeOffer(v, [offer[v] EXCEPT !.shared = ~@])
    <2>1. PICK v \in Offers : \/ ChangeOffer(v, [offer[v] EXCEPT !.production = ~@])
                              \/ ChangeOffer(v, [offer[v] EXCEPT !.shared = ~@])
      BY <1>9
    <2>2. offer[v] \in OfferRow
      BY DEF ClientInv, ClientTypeOK
    <2>3. \A row \in {[offer[v] EXCEPT !.production = ~@], [offer[v] EXCEPT !.shared = ~@]} :
            row \in OfferRow /\ row.key = offer[v].key /\ row.state = offer[v].state
      BY <2>2 DEF OfferRow
    <2> QED BY <2>1, <2>3, ChangeOfferInv
  <1>10. CASE \E v \in Offers : DeleteOffer(v)
    BY <1>10, DeleteOfferInv
  <1>11. CASE \E n \in Namesakes : BinSkill(n)
    BY <1>11, BinSkillInv
  <1>12. CASE ClientTick
    BY <1>12, TickInv
  <1>13. \A hints \in {Namesakes} \cup {{n} : n \in Namesakes} : hints \in SUBSET Namesakes
    OBVIOUS
  <1> QED BY <1>1, <1>2, <1>3, <1>4, <1>5, <1>6, <1>7, <1>8, <1>9, <1>10, <1>11, <1>12, <1>13 DEF ClientNext

LEMMA ClientInvHolds == ClientSpec => []ClientInv
  <1>1. ClientInv /\ UNCHANGED clientVars => ClientInv'
    BY DEF clientVars, ClientInv, ClientTypeOK, EntitledNow, Entitled, StoredOK, OneOfTag, LinkOK, Used,
       Public, SkillOf, GetsWhatWasOffered
  <1>2. ClientInv /\ [ClientNext]_clientVars => ClientInv'
    BY <1>1, StepInv
  <1> QED BY ClientInitInv, <1>2, PTL DEF ClientSpec

\* Every step of ClawHub, the registry and the people meanwhile leaves the variables in
\* their types, for every set of skills, tags and clients and every life of a link.
THEOREM ClientTypes == ClientSpec => []ClientTypeOK
  <1>1. ClientInv => ClientTypeOK
    BY DEF ClientInv
  <1> QED BY <1>1, ClientInvHolds, PTL

\* A client gets the files of a version only while it is entitled to it, or through a link
\* that was signed then and has not run out (or whose tag has been used again), however
\* versions, tags, skills and members change between signing and opening.
THEOREM OfferedOnly == ClientSpec => []GetsWhatWasOffered
  <1>1. ClientInv => GetsWhatWasOffered
    BY DEF ClientInv
  <1> QED BY <1>1, ClientInvHolds, PTL

-------------------------------------------------------------------------------
(* The three stores of a skill: types *)

LEMMA NoStoreRequestType ==
  /\ NoStoreRequest \in StoreRequest
  /\ NoStoreRequest.step = "idle" /\ NoStoreRequest.drop = {} /\ NoStoreRequest.todo = {}
  /\ \A t \in Tags : NoStoreRequest.add[t].there = FALSE
  <1>1. (CHOOSE t \in Tags : TRUE) \in Tags
    BY StoreAssumption
  <1>2. NoVersion \in VersionRow /\ NoVersion.there = FALSE
    BY DEF NoVersion, VersionRow, Statuses
  <1>3. NoAdd \in [Tags -> VersionRow] /\ \A t \in Tags : NoAdd[t].there = FALSE
    BY <1>2 DEF NoAdd
  <1> QED BY <1>1, <1>3 DEF NoStoreRequest, StoreRequest, Namespaces

LEMMA TreeTypes ==
  /\ NoTree \in Tree /\ NoTree.there = FALSE
  /\ \A fs \in SUBSET Files : TreeOf(fs) \in Tree /\ TreeOf(fs).there = TRUE
  BY DEF NoTree, TreeOf, Tree

LEMMA NoRepoType == NoRepo \in Repo /\ \A t \in Tags : NoRepo.tag[t] = NoTree
  BY TreeTypes DEF NoRepo, Repo

\* What a request does to the tags of its namespace, as types.
LEMMA DeleteTagType ==
  ASSUME StoreTypeOK, NEW n \in Namespaces, NEW ts \in SUBSET Tags, DeleteTag(n, ts)
  PROVE  /\ repo' \in [Namespaces -> Repo]
         /\ \A t \in Tags : repo'[n].tag[t] = IF t \in ts THEN NoTree ELSE repo[n].tag[t]
         /\ \A m \in Namespaces : m # n => repo'[m] = repo[m]
  <1> DEFINE tags == [t \in Tags |-> IF t \in ts THEN NoTree ELSE repo[n].tag[t]]
  <1>1. repo \in [Namespaces -> Repo] /\ repo[n] \in Repo
    BY DEF StoreTypeOK
  <1>2. tags \in [Tags -> Tree]
    BY <1>1, TreeTypes DEF Repo
  <1>3. repo' = [repo EXCEPT ![n].tag = tags]
    BY DEF DeleteTag
  <1>4. [repo[n] EXCEPT !.tag = tags] \in Repo /\ [repo[n] EXCEPT !.tag = tags].tag = tags
    BY <1>1, <1>2 DEF Repo
  <1> HIDE DEF tags
  <1>5. repo' \in [Namespaces -> Repo] /\ repo'[n].tag = tags
        /\ \A m \in Namespaces : m # n => repo'[m] = repo[m]
    BY <1>1, <1>3, <1>4
  <1> QED BY <1>5 DEF tags

LEMMA PutArtifactsType ==
  ASSUME StoreTypeOK, NEW n \in Namespaces, NEW t \in Tags, NEW fs \in SUBSET Files,
         NEW st \in Statuses, PutArtifacts(n, t, fs, st)
  PROVE  bundle' \in [Namespaces -> [Tags -> Tree]] /\ manifest' \in [Namespaces -> [Tags -> Statuses \cup {"none"}]]
  <1>1. TreeOf(fs) \in Tree
    BY TreeTypes
  <1> QED BY <1>1 DEF PutArtifacts, StoreTypeOK

LEMMA DeleteArtifactsType ==
  ASSUME StoreTypeOK, NEW n \in Namespaces, NEW ts \in SUBSET Tags, DeleteArtifacts(n, ts)
  PROVE  bundle' \in [Namespaces -> [Tags -> Tree]] /\ manifest' \in [Namespaces -> [Tags -> Statuses \cup {"none"}]]
  BY TreeTypes DEF DeleteArtifacts, StoreTypeOK

\* What holds of the stores holds of them again, whoever writes the rows.
StoresOK == /\ repo \in [Namespaces -> Repo]
            /\ bundle \in [Namespaces -> [Tags -> Tree]]
            /\ manifest \in [Namespaces -> [Tags -> Statuses \cup {"none"}]]

LEMMA ServeType ==
  ASSUME StoreTypeOK, NEW s \in StoreSlots, NEW r \in StoreRequest, ServeStore(s, r), StoresOK',
         torn' = torn \/ torn' \in SUBSET (Namespaces \X Tags)
  PROVE  StoreTypeOK'
  <1>1. storeCalls' \in 0 .. MaxStoreCalls
    BY StoreAssumption DEF ServeStore, StoreTypeOK
  <1> QED BY <1>1 DEF ServeStore, StoreTypeOK, StoresOK

LEMMA GoesType ==
  ASSUME StoreTypeOK, NEW s \in StoreSlots, NEW r \in StoreRequest, Goes(s, r), StoresOK'
  PROVE  StoreTypeOK'
  BY DEF Goes, StoreTypeOK, StoresOK

-------------------------------------------------------------------------------
(* The types of the stores, request by request *)

LEMMA MadeType ==
  ASSUME StoreTypeOK, NEW n \in Namespaces, NEW b \in BOOLEAN, repo' = [repo EXCEPT ![n].made = b]
  PROVE  /\ repo' \in [Namespaces -> Repo]
         /\ \A m \in Namespaces : repo'[m].tag = repo[m].tag
  <1>1. repo \in [Namespaces -> Repo] /\ repo[n] \in Repo
    BY DEF StoreTypeOK
  <1>2. [repo[n] EXCEPT !.made = b] \in Repo /\ [repo[n] EXCEPT !.made = b].tag = repo[n].tag
    BY <1>1 DEF Repo
  <1> QED BY <1>1, <1>2

LEMMA CreateSkillType ==
  ASSUME StoreTypeOK, NEW s \in StoreSlots, NEW n \in Namespaces, CreateSkill(s, n) PROVE StoreTypeOK'
  <1> DEFINE r == [NoStoreRequest EXCEPT !.step = "commit", !.ns = n, !.skill = "added"]
  <1>1. r \in StoreRequest
    BY NoStoreRequestType DEF StoreRequest
  <1>2. ServeStore(s, r) /\ repo' = [repo EXCEPT ![n].made = TRUE] /\ UNCHANGED <<bundle, manifest, torn>>
    BY DEF CreateSkill
  <1>3. StoresOK'
    BY <1>2, MadeType DEF StoresOK, StoreTypeOK
  <1> HIDE DEF r
  <1> QED BY <1>1, <1>2, <1>3, ServeType

LEMMA ApiPublishType ==
  ASSUME StoreTypeOK, NEW s \in StoreSlots, NEW n \in Namespaces, NEW t \in Tags,
         NEW fs \in SUBSET Files, ApiPublish(s, n, t, fs)
  PROVE  StoreTypeOK'
  <1> DEFINE r == [NoStoreRequest EXCEPT !.step = "push", !.ns = n, !.tag = t, !.files = fs,
                                         !.head = repo[n].head, !.locked = TRUE]
  <1>0. repo[n].head \in SUBSET Files
    BY DEF StoreTypeOK, Repo
  <1>1. r \in StoreRequest
    BY <1>0, NoStoreRequestType DEF StoreRequest
  <1>2. ServeStore(s, r) /\ UNCHANGED stores /\ torn' = torn
    BY DEF ApiPublish
  <1>3. StoresOK'
    BY <1>2 DEF StoresOK, StoreTypeOK, stores
  <1> HIDE DEF r
  <1> QED BY <1>1, <1>2, <1>3, ServeType

LEMMA CompatPublishType ==
  ASSUME StoreTypeOK, NEW s \in StoreSlots, NEW n \in Namespaces, NEW t \in Tags,
         NEW fs \in SUBSET Files, CompatPublish(s, n, t, fs)
  PROVE  StoreTypeOK'
  <1> DEFINE r == [NoStoreRequest EXCEPT !.step = "push", !.ns = n, !.tag = t, !.files = fs,
                                         !.head = repo[n].head,
                                         !.skill = IF skill[n] = "absent" THEN "added" ELSE "kept"]
  <1>0. repo[n].head \in SUBSET Files
    BY DEF StoreTypeOK, Repo
  <1>1. r \in StoreRequest
    BY <1>0, NoStoreRequestType DEF StoreRequest
  <1>2. ServeStore(s, r) /\ repo' = [repo EXCEPT ![n].made = TRUE] /\ UNCHANGED <<bundle, manifest, torn>>
    BY DEF CompatPublish
  <1>3. StoresOK'
    BY <1>2, MadeType DEF StoresOK, StoreTypeOK
  <1> HIDE DEF r
  <1> QED BY <1>1, <1>2, <1>3, ServeType

\* The repository after a push: the head moves or not, one tag may be new.
LEMMA PushedRepo ==
  ASSUME StoreTypeOK, NEW n \in Namespaces, NEW t \in Tags, NEW hd \in SUBSET Files,
         NEW tr \in Tree, repo' = [repo EXCEPT ![n].head = hd, ![n].tag[t] = tr]
  PROVE  /\ repo' \in [Namespaces -> Repo]
         /\ repo'[n].tag = [repo[n].tag EXCEPT ![t] = tr]
         /\ \A m \in Namespaces : m # n => repo'[m] = repo[m]
  <1>1. repo \in [Namespaces -> Repo] /\ repo[n] \in Repo
    BY DEF StoreTypeOK
  <1>2. repo[n].tag \in [Tags -> Tree] /\ [repo[n].tag EXCEPT ![t] = tr] \in [Tags -> Tree]
    BY <1>1 DEF Repo
  <1> DEFINE new == [repo[n] EXCEPT !.head = hd, !.tag[t] = tr]
  <1>3. new.tag = [repo[n].tag EXCEPT ![t] = tr] /\ new \in Repo
    BY <1>1, <1>2 DEF Repo
  <1>4. repo' = [repo EXCEPT ![n] = new]
    BY <1>1
  <1> HIDE DEF new
  <1> QED BY <1>1, <1>3, <1>4

LEMMA PushFacts ==
  ASSUME StoreTypeOK, NEW s \in StoreSlots, Push(s)
  PROVE  /\ StoreTypeOK'
         /\ storeReq[s].step = "push"
         /\ storeReq'[s].step = "flush"
         /\ storeReq'[s].ns = storeReq[s].ns /\ storeReq'[s].tag = storeReq[s].tag
         /\ storeReq'[s].drop = storeReq[s].drop /\ storeReq'[s].todo = storeReq[s].todo
         /\ storeReq'[s].skill = storeReq[s].skill
         /\ \A t \in Tags : storeReq'[s].add[t].there <=> t = storeReq[s].tag \/ storeReq[s].add[t].there
         /\ \A t \in Tags : repo'[storeReq[s].ns].tag[t].there <=>
                               t = storeReq[s].tag \/ repo[storeReq[s].ns].tag[t].there
         /\ \A m \in Namespaces : m # storeReq[s].ns => repo'[m] = repo[m]
         /\ \A o \in StoreSlots : o # s => storeReq'[o] = storeReq[o]
         /\ UNCHANGED <<skill, version, storeMixed, torn>>
  <1> DEFINE r == storeReq[s]  n == r.ns  t == r.tag
             new == Committed(r.head, r.files)
             hd == IF repo[n].head = r.head THEN new ELSE repo[n].head
             tr == IF repo[n].tag[t].there THEN repo[n].tag[t] ELSE TreeOf(new)
             row == [there |-> TRUE, status |-> "quarantine", sent |-> r.files,
                     print |-> repo'[n].tag[t].files]
             q == [r EXCEPT !.step = "flush", !.add[t] = row]
  <1>1. r \in StoreRequest /\ n \in Namespaces /\ t \in Tags /\ r.add \in [Tags -> VersionRow]
    BY DEF StoreTypeOK, StoreRequest
  <1>2. repo[n] \in Repo /\ repo[n].tag[t] \in Tree /\ repo[n].head \in SUBSET Files
    BY <1>1 DEF StoreTypeOK, Repo
  <1>3. new \in SUBSET Files
    BY <1>1 DEF Committed, StoreRequest
  <1>4. hd \in SUBSET Files /\ tr \in Tree /\ tr.there
    BY <1>2, <1>3, TreeTypes
  <1>5. repo' = [repo EXCEPT ![n].head = hd, ![n].tag[t] = tr]
    BY <1>1, <1>2 DEF Push, StoreTypeOK, Repo
  <1>6. r.step = "push" /\ Goes(s, q) /\ UNCHANGED <<bundle, manifest>>
    BY DEF Push
  <1> HIDE DEF hd, tr, new
  <1>7. /\ repo' \in [Namespaces -> Repo]
        /\ repo'[n].tag = [repo[n].tag EXCEPT ![t] = tr]
        /\ \A m \in Namespaces : m # n => repo'[m] = repo[m]
    BY <1>1, <1>4, <1>5, PushedRepo
  <1>8. row \in VersionRow /\ row.there
    BY <1>1, <1>7 DEF VersionRow, Statuses, Repo, Tree, StoreRequest
  <1> HIDE DEF row
  <1>9. q \in StoreRequest /\ q.step = "flush" /\ q.ns = n /\ q.tag = t /\ q.drop = r.drop
        /\ q.todo = r.todo /\ q.skill = r.skill /\ q.add = [r.add EXCEPT ![t] = row]
    BY <1>1, <1>8 DEF StoreRequest
  <1>10. \A u \in Tags : q.add[u].there <=> u = t \/ r.add[u].there
    BY <1>1, <1>8, <1>9
  <1> HIDE DEF q
  <1>11. storeReq'[s] = q /\ \A o \in StoreSlots : o # s => storeReq'[o] = storeReq[o]
    BY <1>6 DEF Goes, StoreTypeOK
  <1>12. StoresOK'
    BY <1>6, <1>7 DEF StoresOK, StoreTypeOK
  <1>13. StoreTypeOK'
    BY <1>6, <1>9, <1>12, GoesType
  <1>14. \A u \in Tags : repo'[n].tag[u].there <=> u = t \/ repo[n].tag[u].there
    BY <1>2, <1>4, <1>7 DEF Repo
  <1>15. UNCHANGED <<skill, version, storeMixed, torn>>
    BY <1>6 DEF Goes
  <1> QED BY <1>6, <1>7, <1>9, <1>10, <1>11, <1>13, <1>14, <1>15

\* What a request leaves when it ends, and what it was.
LEMMA GoesFacts ==
  ASSUME StoreTypeOK, NEW s \in StoreSlots, NEW r, Goes(s, r)
  PROVE  /\ storeReq'[s] = r
         /\ \A o \in StoreSlots : o # s => storeReq'[o] = storeReq[o]
         /\ UNCHANGED <<skill, version, storeMixed, torn>>
  BY DEF Goes, StoreTypeOK

LEMMA SlotType ==
  ASSUME StoreTypeOK, NEW s \in StoreSlots
  PROVE  /\ storeReq[s] \in StoreRequest /\ storeReq[s].ns \in Namespaces /\ storeReq[s].tag \in Tags
         /\ storeReq[s].files \in SUBSET Files /\ storeReq[s].head \in SUBSET Files
         /\ storeReq[s].add \in [Tags -> VersionRow]
         /\ storeReq[s].drop \in SUBSET Tags /\ storeReq[s].todo \in SUBSET Tags
  BY DEF StoreTypeOK, StoreRequest

LEMMA DuplicateType == ASSUME StoreTypeOK, NEW s \in StoreSlots, Duplicate(s) PROVE StoreTypeOK'
  <1>1. Goes(s, NoStoreRequest) /\ UNCHANGED stores
    BY DEF Duplicate
  <1>2. StoresOK'
    BY <1>1 DEF StoresOK, stores, StoreTypeOK
  <1> QED BY <1>1, <1>2, NoStoreRequestType, GoesType

LEMMA StoreFacts ==
  ASSUME StoreTypeOK, NEW s \in StoreSlots, Store(s)
  PROVE  /\ StoreTypeOK'
         /\ storeReq[s].step = "flush" /\ repo' = repo
         /\ storeReq'[s].step = "commit"
         /\ storeReq'[s].ns = storeReq[s].ns /\ storeReq'[s].tag = storeReq[s].tag
         /\ storeReq'[s].drop = storeReq[s].drop /\ storeReq'[s].todo = storeReq[s].todo
         /\ storeReq'[s].skill = storeReq[s].skill /\ storeReq'[s].add = storeReq[s].add
         /\ \A o \in StoreSlots : o # s => storeReq'[o] = storeReq[o]
         /\ UNCHANGED <<skill, version, storeMixed, torn>>
  <1> DEFINE r == storeReq[s]  q == [r EXCEPT !.step = "commit"]
  <1>1. q \in StoreRequest /\ q.step = "commit" /\ q.ns = r.ns /\ q.tag = r.tag /\ q.drop = r.drop
        /\ q.todo = r.todo /\ q.skill = r.skill /\ q.add = r.add
    BY SlotType DEF StoreRequest
  <1>2. r.step = "flush" /\ Goes(s, q) /\ UNCHANGED repo /\ PutArtifacts(r.ns, r.tag, r.files, "quarantine")
    BY DEF Store
  <1>3. StoresOK'
    BY <1>2, SlotType, PutArtifactsType DEF StoresOK, StoreTypeOK, Statuses
  <1> HIDE DEF q
  <1> QED BY <1>1, <1>2, <1>3, GoesType, GoesFacts

LEMMA RaisedType ==
  ASSUME StoreTypeOK, NEW s \in StoreSlots
  PROVE  LET r == storeReq[s]  q == [r EXCEPT !.step = "raise"] IN
         /\ q \in StoreRequest /\ q.step = "raise" /\ q.ns = r.ns /\ q.tag = r.tag /\ q.drop = r.drop
         /\ q.todo = r.todo /\ q.skill = r.skill /\ q.add = r.add
  BY SlotType DEF StoreRequest

LEMMA StoreFailsType == ASSUME StoreTypeOK, NEW s \in StoreSlots, StoreFails(s) PROVE StoreTypeOK'
  <1> DEFINE q == [storeReq[s] EXCEPT !.step = "raise"]
  <1>1. /\ DeleteArtifacts(storeReq[s].ns, {storeReq[s].tag})
        /\ \/ DeleteTag(storeReq[s].ns, {storeReq[s].tag}) /\ Goes(s, NoStoreRequest)
           \/ UNCHANGED repo /\ Goes(s, q)
    BY DEF StoreFails
  <1>2. {storeReq[s].tag} \in SUBSET Tags
    BY SlotType
  <1>3. StoresOK'
    BY <1>1, <1>2, SlotType, DeleteTagType, DeleteArtifactsType DEF StoresOK, StoreTypeOK
  <1>4. q \in StoreRequest
    BY RaisedType
  <1> HIDE DEF q
  <1> QED BY <1>1, <1>3, <1>4, NoStoreRequestType, GoesType

LEMMA StoreBreaksType == ASSUME StoreTypeOK, NEW s \in StoreSlots, StoreBreaks(s) PROVE StoreTypeOK'
  <1> DEFINE r == storeReq[s]  q == [r EXCEPT !.step = "raise"]
  <1>1. /\ bundle' = [bundle EXCEPT ![r.ns][r.tag] = TreeOf(r.files)]
        /\ Goes(s, q) /\ UNCHANGED <<repo, manifest>>
    BY DEF StoreBreaks
  <1>2. TreeOf(r.files) \in Tree /\ r.ns \in Namespaces /\ r.tag \in Tags
    BY SlotType, TreeTypes
  <1>3. StoresOK'
    BY <1>1, <1>2 DEF StoresOK, StoreTypeOK
  <1>4. q \in StoreRequest
    BY RaisedType
  <1> HIDE DEF q
  <1> QED BY <1>1, <1>3, <1>4, GoesType

LEMMA CopyRequestType ==
  ASSUME StoreTypeOK, NEW only \in SUBSET Tags
  PROVE  LET r == CopyRequest(only) IN
         /\ r \in StoreRequest /\ r.step = "copy" /\ r.ns = "mirror"
         /\ \A t \in Tags : r.add[t].there = FALSE
         /\ r.drop = {t \in Tags : version["mirror"][t].there}
         /\ r.skill # "dropped" /\ (r.skill = "kept" => skill["mirror"] # "absent")
  <1> DEFINE add == [t \in Tags |-> [version["source"][t] EXCEPT !.there = FALSE]]
             drop == {t \in Tags : version["mirror"][t].there}
             todo == {t \in only : version["source"][t].there}
             sk == IF skill["mirror"] = "absent" THEN "added" ELSE "kept"
  <1>0. \A t \in Tags : version["source"][t] \in VersionRow
    BY DEF StoreTypeOK, Namespaces
  <1>1. \A t \in Tags : [version["source"][t] EXCEPT !.there = FALSE] \in VersionRow
                        /\ [version["source"][t] EXCEPT !.there = FALSE].there = FALSE
    BY <1>0 DEF VersionRow
  <1>2. add \in [Tags -> VersionRow] /\ \A t \in Tags : add[t].there = FALSE
    BY <1>1
  <1>3. drop \in SUBSET Tags /\ todo \in SUBSET Tags /\ sk \in {"added", "kept"}
        /\ (sk = "kept" => skill["mirror"] # "absent")
    OBVIOUS
  <1>4. CopyRequest(only) = [NoStoreRequest EXCEPT !.step = "copy", !.ns = "mirror", !.todo = todo, !.add = add,
                                                   !.drop = drop, !.skill = sk]
    BY DEF CopyRequest
  <1> HIDE DEF add, todo, sk, drop
  <1>5. /\ CopyRequest(only) \in StoreRequest /\ CopyRequest(only).step = "copy" /\ CopyRequest(only).ns = "mirror"
        /\ CopyRequest(only).add = add /\ CopyRequest(only).drop = drop /\ CopyRequest(only).skill = sk
    BY <1>2, <1>3, <1>4, NoStoreRequestType DEF StoreRequest, Namespaces
  <1>6. drop = {t \in Tags : version["mirror"][t].there}
    BY DEF drop
  <1> QED BY <1>2, <1>3, <1>5, <1>6

LEMMA RunRuleType ==
  ASSUME StoreTypeOK, NEW s \in StoreSlots, NEW only \in SUBSET Tags, RunRule(s, only)
  PROVE  StoreTypeOK' /\ \A m \in Namespaces : repo'[m].tag = repo[m].tag
  <1> DEFINE b == repo["mirror"].made \/ skill["mirror"] = "absent"
  <1>1. ServeStore(s, CopyRequest(only)) /\ repo' = [repo EXCEPT !["mirror"].made = b] /\ UNCHANGED <<bundle, manifest, torn>>
    BY DEF RunRule, CopyStarts, StoreTypeOK, Namespaces
  <1>2. b \in BOOLEAN /\ "mirror" \in Namespaces
    BY DEF Namespaces
  <1> HIDE DEF b
  <1>3. repo' \in [Namespaces -> Repo] /\ \A m \in Namespaces : repo'[m].tag = repo[m].tag
    BY <1>1, <1>2, MadeType
  <1>4. StoresOK'
    BY <1>1, <1>3 DEF StoresOK, StoreTypeOK
  <1>5. CopyRequest(only) \in StoreRequest
    BY CopyRequestType
  <1> QED BY <1>1, <1>3, <1>4, <1>5, ServeType

LEMMA CopyEndsFacts ==
  ASSUME StoreTypeOK, NEW s \in StoreSlots, CopyEnds(s)
  PROVE  /\ StoreTypeOK'
         /\ storeReq[s].step = "copy" /\ storeReq[s].todo = {} /\ repo' = repo
         /\ \/ storeReq'[s] = NoStoreRequest /\ \E t \in Tags : storeReq[s].add[t].there /\ version["mirror"][t].there
            \/ /\ storeReq'[s].step = "commit" /\ storeReq'[s].drop = {} /\ storeReq'[s].todo = {}
               /\ storeReq'[s].ns = storeReq[s].ns /\ storeReq'[s].tag = storeReq[s].tag
               /\ storeReq'[s].skill = storeReq[s].skill /\ storeReq'[s].add = storeReq[s].add
         /\ \A o \in StoreSlots : o # s => storeReq'[o] = storeReq[o]
         /\ UNCHANGED <<skill, version, storeMixed, torn>>
  <1> DEFINE r == storeReq[s]  q == [r EXCEPT !.step = "commit", !.drop = {}]
             clash == \E t \in Tags : r.add[t].there /\ version["mirror"][t].there
  <1>1. q \in StoreRequest /\ q.step = "commit" /\ q.drop = {} /\ q.todo = r.todo /\ q.ns = r.ns /\ q.tag = r.tag
        /\ q.skill = r.skill /\ q.add = r.add
    BY SlotType DEF StoreRequest
  <1>2. /\ r.step = "copy" /\ r.todo = {} /\ UNCHANGED stores
        /\ (clash /\ Goes(s, NoStoreRequest)) \/ Goes(s, q)
    BY DEF CopyEnds
  <1>3. StoresOK' /\ repo' = repo
    BY <1>2 DEF StoresOK, stores, StoreTypeOK
  <1> HIDE DEF q
  <1>4. CASE clash /\ Goes(s, NoStoreRequest)
    BY <1>2, <1>3, <1>4, NoStoreRequestType, GoesType, GoesFacts
  <1>5. CASE Goes(s, q)
    BY <1>1, <1>2, <1>3, <1>5, GoesType, GoesFacts
  <1> QED BY <1>2, <1>4, <1>5

\* One version of a run: skipped, copied, or given up, with its tag deleted.
Copied(s, t, made) ==
    /\ storeReq'[s].step = "copy"
    /\ storeReq'[s].ns = storeReq[s].ns /\ storeReq'[s].drop = storeReq[s].drop
    /\ storeReq'[s].skill = storeReq[s].skill /\ storeReq'[s].todo = storeReq[s].todo \ {t}
    /\ \A u \in Tags : storeReq'[s].add[u].there <=> (u = t /\ made) \/ storeReq[s].add[u].there
CopyRaised(s, t) ==
    /\ storeReq'[s].step = "raise" /\ storeReq'[s].drop = {}
    /\ storeReq'[s].ns = storeReq[s].ns /\ storeReq'[s].skill = storeReq[s].skill
    /\ \A u \in Tags : storeReq'[s].add[u].there <=> u = t \/ storeReq[s].add[u].there
TagMoved(n, t, there) ==
    /\ \A u \in Tags : u # t => repo'[n].tag[u] = repo[n].tag[u]
    /\ repo'[n].tag[t].there = there
    /\ \A m \in Namespaces : m # n => repo'[m] = repo[m]

LEMMA CopyOneFacts ==
  ASSUME StoreTypeOK, NEW s \in StoreSlots, NEW t \in Tags, CopyOne(s, t)
  PROVE  /\ StoreTypeOK'
         /\ storeReq[s].step = "copy" /\ t \in storeReq[s].todo
         /\ \/ t \in storeReq[s].drop /\ Copied(s, t, FALSE) /\ repo' = repo
            \/ t \notin storeReq[s].drop /\ Copied(s, t, TRUE) /\ TagMoved("mirror", t, TRUE)
            \/ t \notin storeReq[s].drop /\ Copied(s, t, FALSE) /\ TagMoved("mirror", t, FALSE)
            \/ t \notin storeReq[s].drop /\ CopyRaised(s, t) /\ TagMoved("mirror", t, TRUE)
         /\ \A o \in StoreSlots : o # s => storeReq'[o] = storeReq[o]
         /\ UNCHANGED <<skill, version, storeMixed, torn>>
  <1> DEFINE r == storeReq[s]
             from == repo["source"].tag[t]
             new == Committed(repo["mirror"].head, from.files)
             p == [r EXCEPT !.todo = @ \ {t}]
             q == [r EXCEPT !.todo = @ \ {t}, !.add[t].there = TRUE, !.add[t].sent = from.files]
  <1>1. r \in StoreRequest /\ r.add \in [Tags -> VersionRow] /\ r.add[t] \in VersionRow /\ {t} \in SUBSET Tags
    BY SlotType
  <1>2. "mirror" \in Namespaces /\ "source" \in Namespaces
    BY DEF Namespaces
  <1>3. from \in Tree /\ from.files \in SUBSET Files /\ repo["mirror"].head \in SUBSET Files
        /\ r.add[t].status \in Statuses
    BY <1>1, <1>2 DEF StoreTypeOK, Repo, Tree, VersionRow
  <1>4. new \in SUBSET Files
    BY <1>3 DEF Committed
  <1>5. r.step = "copy" /\ t \in r.todo
    BY DEF CopyOne
  <1>6. /\ p \in StoreRequest /\ p.step = r.step /\ p.ns = r.ns /\ p.drop = r.drop /\ p.skill = r.skill
        /\ p.todo = r.todo \ {t} /\ p.add = r.add
    BY <1>1 DEF StoreRequest
  <1> DEFINE row == [r.add[t] EXCEPT !.there = TRUE, !.sent = from.files]
             add == [r.add EXCEPT ![t] = row]
  <1>7. row \in VersionRow /\ row.there
    BY <1>1, <1>3 DEF VersionRow
  <1>8. q = [r EXCEPT !.todo = @ \ {t}, !.add = add]
    BY <1>1 DEF StoreRequest, VersionRow
  <1> HIDE DEF row
  <1>9. add \in [Tags -> VersionRow] /\ \A u \in Tags : add[u].there <=> u = t \/ r.add[u].there
    BY <1>1, <1>7
  <1> HIDE DEF add
  <1>10. /\ q \in StoreRequest /\ q.step = r.step /\ q.ns = r.ns /\ q.drop = r.drop /\ q.skill = r.skill
         /\ q.todo = r.todo \ {t} /\ q.add = add
    BY <1>1, <1>8, <1>9 DEF StoreRequest
  <1> DEFINE row2 == [r.add[t] EXCEPT !.there = TRUE]
             add2 == [r.add EXCEPT ![t] = row2]
             q2 == [r EXCEPT !.step = "raise", !.drop = {}, !.add[t].there = TRUE]
  <1>16. row2 \in VersionRow /\ row2.there
    BY <1>1, <1>3 DEF VersionRow
  <1>17. q2 = [r EXCEPT !.step = "raise", !.drop = {}, !.add = add2]
    BY <1>1 DEF StoreRequest, VersionRow
  <1> HIDE DEF row2
  <1>18. add2 \in [Tags -> VersionRow] /\ \A u \in Tags : add2[u].there <=> u = t \/ r.add[u].there
    BY <1>1, <1>16
  <1> HIDE DEF add2
  <1>19. /\ q2 \in StoreRequest /\ q2.step = "raise" /\ q2.ns = r.ns /\ q2.drop = {} /\ q2.skill = r.skill
         /\ q2.add = add2
    BY <1>1, <1>17, <1>18 DEF StoreRequest
  <1> HIDE DEF p, q, q2
  <1>11. ASSUME Goes(s, p), StoresOK'
         PROVE  /\ StoreTypeOK' /\ Copied(s, t, FALSE) /\ \A o \in StoreSlots : o # s => storeReq'[o] = storeReq[o]
                /\ UNCHANGED <<skill, version, storeMixed, torn>>
    BY <1>5, <1>6, <1>11, GoesType, GoesFacts DEF Copied
  <1>12. CASE t \in r.drop /\ Goes(s, p) /\ UNCHANGED stores
    <2>1. StoresOK' /\ repo' = repo
      BY <1>12 DEF StoresOK, stores, StoreTypeOK
    <2> QED BY <2>1, <1>5, <1>11, <1>12
  <1>13. CASE /\ t \notin r.drop
              /\ repo' = [repo EXCEPT !["mirror"].head = new, !["mirror"].tag[t] = TreeOf(new)]
              /\ PutArtifacts("mirror", t, from.files, r.add[t].status)
              /\ Goes(s, q)
    <2>1. TreeOf(new) \in Tree /\ TreeOf(new).there
      BY <1>4, TreeTypes
    <2>2. repo["mirror"].tag \in [Tags -> Tree]
      BY <1>2 DEF StoreTypeOK, Repo
    <2> HIDE DEF new
    <2>3. /\ repo' \in [Namespaces -> Repo]
          /\ repo'["mirror"].tag = [repo["mirror"].tag EXCEPT ![t] = TreeOf(new)]
          /\ \A m \in Namespaces : m # "mirror" => repo'[m] = repo[m]
      BY <1>2, <1>4, <1>13, <2>1, PushedRepo
    <2>4. TagMoved("mirror", t, TRUE)
      BY <2>1, <2>2, <2>3 DEF TagMoved, Tree
    <2>5. StoresOK'
      BY <1>2, <1>3, <1>13, <2>3, PutArtifactsType DEF StoresOK
    <2>6. StoreTypeOK' /\ Copied(s, t, TRUE)
      BY <1>5, <1>9, <1>10, <1>13, <2>5, GoesType, GoesFacts DEF Copied
    <2>7. (\A o \in StoreSlots : o # s => storeReq'[o] = storeReq[o]) /\ UNCHANGED <<skill, version, storeMixed, torn>>
      BY <1>13, GoesFacts
    <2> QED BY <1>5, <1>13, <2>4, <2>6, <2>7
  <1>14. CASE /\ t \notin r.drop /\ DeleteTag("mirror", {t}) /\ Goes(s, p)
              /\ UNCHANGED <<bundle, manifest>> \/ DeleteArtifacts("mirror", {t})
    <2>1. /\ repo' \in [Namespaces -> Repo]
          /\ \A u \in Tags : repo'["mirror"].tag[u] = IF u \in {t} THEN NoTree ELSE repo["mirror"].tag[u]
          /\ \A m \in Namespaces : m # "mirror" => repo'[m] = repo[m]
      BY <1>1, <1>2, <1>14, DeleteTagType
    <2>2. TagMoved("mirror", t, FALSE)
      BY <2>1, TreeTypes DEF TagMoved
    <2>3. /\ bundle' \in [Namespaces -> [Tags -> Tree]]
          /\ manifest' \in [Namespaces -> [Tags -> Statuses \cup {"none"}]]
      BY <1>1, <1>2, <1>14, DeleteArtifactsType DEF StoreTypeOK
    <2>4. StoresOK'
      BY <2>1, <2>3 DEF StoresOK
    <2> QED BY <2>2, <2>4, <1>5, <1>11, <1>14
  <1>20. CASE /\ t \notin r.drop
              /\ repo' = [repo EXCEPT !["mirror"].head = new, !["mirror"].tag[t] = TreeOf(new)]
              /\ DeleteArtifacts("mirror", {t})
              /\ Goes(s, q2)
    <2>1. TreeOf(new) \in Tree /\ TreeOf(new).there
      BY <1>4, TreeTypes
    <2>2. repo["mirror"].tag \in [Tags -> Tree]
      BY <1>2 DEF StoreTypeOK, Repo
    <2> HIDE DEF new
    <2>3. /\ repo' \in [Namespaces -> Repo]
          /\ repo'["mirror"].tag = [repo["mirror"].tag EXCEPT ![t] = TreeOf(new)]
          /\ \A m \in Namespaces : m # "mirror" => repo'[m] = repo[m]
      BY <1>2, <1>4, <1>20, <2>1, PushedRepo
    <2>4. TagMoved("mirror", t, TRUE)
      BY <2>1, <2>2, <2>3 DEF TagMoved, Tree
    <2>5. StoresOK'
      BY <1>1, <1>2, <1>20, <2>3, DeleteArtifactsType DEF StoresOK
    <2>6. StoreTypeOK' /\ CopyRaised(s, t)
      BY <1>18, <1>19, <1>20, <2>5, GoesType, GoesFacts DEF CopyRaised
    <2>7. (\A o \in StoreSlots : o # s => storeReq'[o] = storeReq[o]) /\ UNCHANGED <<skill, version, storeMixed, torn>>
      BY <1>20, GoesFacts
    <2> QED BY <1>5, <1>20, <2>4, <2>6, <2>7
  <1>15. \/ t \in r.drop /\ Goes(s, p) /\ UNCHANGED stores
         \/ /\ t \notin r.drop
            /\ repo' = [repo EXCEPT !["mirror"].head = new, !["mirror"].tag[t] = TreeOf(new)]
            /\ PutArtifacts("mirror", t, from.files, r.add[t].status)
            /\ Goes(s, q)
         \/ /\ t \notin r.drop /\ DeleteTag("mirror", {t}) /\ Goes(s, p)
            /\ UNCHANGED <<bundle, manifest>> \/ DeleteArtifacts("mirror", {t})
         \/ /\ t \notin r.drop
            /\ repo' = [repo EXCEPT !["mirror"].head = new, !["mirror"].tag[t] = TreeOf(new)]
            /\ DeleteArtifacts("mirror", {t})
            /\ Goes(s, q2)
    BY DEF CopyOne, Mirrored, p, q, q2
  <1> QED BY <1>12, <1>13, <1>14, <1>15, <1>20

LEMMA ServeFacts ==
  ASSUME StoreTypeOK, NEW s \in StoreSlots, NEW r, ServeStore(s, r)
  PROVE  /\ storeReq[s].step = "idle" /\ storeReq'[s] = r
         /\ \A o \in StoreSlots : o # s => storeReq'[o] = storeReq[o]
         /\ UNCHANGED <<skill, version>>
         /\ storeMixed \in BOOLEAN
         /\ ~storeMixed' => ~storeMixed /\ \A o \in StoreSlots : storeReq[o].step = "idle"
  BY DEF ServeStore, StoreTypeOK

\* A request that drops the versions ts: it goes on to its commit, or it raises.
DropRequest(n, ts, step) == [NoStoreRequest EXCEPT !.step = step, !.ns = n, !.drop = ts]

Ends(r) == r.step \in {"commit", "raise"}
NothingAdded(r) == \A t \in Tags : r.add[t].there = FALSE
Drops(r, n, ts) == Ends(r) /\ r.ns = n /\ r.drop = ts /\ r.skill = "kept" /\ NothingAdded(r)
Purges(s, n, r) ==
    /\ ServeStore(s, r) /\ r.ns = n /\ r.skill = "dropped" /\ NothingAdded(r)
    /\ \/ r.step = "commit" /\ r.drop = Tags /\ repo' = [repo EXCEPT ![n] = NoRepo]
       \/ r.step = "raise" /\ r.drop = {} /\ repo' = repo

LEMMA DropRequestType ==
  ASSUME NEW n \in Namespaces, NEW ts \in SUBSET Tags, NEW step \in {"commit", "raise"}
  PROVE  DropRequest(n, ts, step) \in StoreRequest /\ Drops(DropRequest(n, ts, step), n, ts)
  <1> DEFINE r == DropRequest(n, ts, step)
  <1>1. /\ r \in StoreRequest /\ r.step = step /\ r.ns = n /\ r.drop = ts
        /\ r.skill = NoStoreRequest.skill /\ r.add = NoStoreRequest.add
    BY NoStoreRequestType DEF StoreRequest, DropRequest
  <1>2. NoStoreRequest.skill = "kept" /\ \A t \in Tags : NoStoreRequest.add[t].there = FALSE
    BY NoStoreRequestType DEF NoStoreRequest
  <1> HIDE DEF r
  <1>3. Drops(r, n, ts)
    BY <1>1, <1>2 DEF Drops, Ends, NothingAdded
  <1> QED BY <1>1, <1>3 DEF r

LEMMA DeleteVersionFacts ==
  ASSUME StoreTypeOK, NEW s \in StoreSlots, NEW n \in Namespaces, NEW t \in Tags, DeleteVersion(s, n, t)
  PROVE  /\ StoreTypeOK' /\ DeleteTag(n, {t}) /\ torn' = torn
         /\ \E step \in {"commit", "raise"} : ServeStore(s, DropRequest(n, {t}, step))
  <1>1. DeleteTag(n, {t}) /\ torn' = torn /\ {t} \in SUBSET Tags
    BY DEF DeleteVersion
  <1>2. PICK step \in {"commit", "raise"} :
             /\ ServeStore(s, DropRequest(n, {t}, step))
             /\ DeleteArtifacts(n, {t}) \/ UNCHANGED <<bundle, manifest>>
    BY DEF DeleteVersion, DropRequest
  <1>3. StoresOK'
    BY <1>1, <1>2, DeleteTagType, DeleteArtifactsType DEF StoresOK, StoreTypeOK
  <1>4. DropRequest(n, {t}, step) \in StoreRequest
    BY <1>1, DropRequestType
  <1> QED BY <1>1, <1>2, <1>3, <1>4, ServeType

LEMMA RetainFacts ==
  ASSUME StoreTypeOK, NEW s \in StoreSlots, NEW n \in Namespaces, NEW ts \in SUBSET Tags,
         NEW refused \in SUBSET ts, Retain(s, n, ts, refused)
  PROVE  /\ StoreTypeOK' /\ DeleteTag(n, ts \ refused) /\ torn' = torn \cup ({n} \X refused)
         /\ ServeStore(s, DropRequest(n, ts, "commit"))
  <1>1. /\ DeleteTag(n, ts \ refused) /\ torn' = torn \cup ({n} \X refused)
        /\ ServeStore(s, DropRequest(n, ts, "commit")) /\ UNCHANGED <<bundle, manifest>>
    BY DEF Retain, DropRequest
  <1>2. ts \ refused \in SUBSET Tags
    OBVIOUS
  <1>3. StoresOK'
    BY <1>1, <1>2, DeleteTagType DEF StoresOK, StoreTypeOK
  <1>4. torn' \in SUBSET (Namespaces \X Tags)
    BY <1>1 DEF StoreTypeOK
  <1>5. DropRequest(n, ts, "commit") \in StoreRequest
    BY DropRequestType
  <1> QED BY <1>1, <1>3, <1>4, <1>5, ServeType

LEMMA PurgeFacts ==
  ASSUME StoreTypeOK, NEW s \in StoreSlots, NEW n \in Namespaces, Purge(s, n)
  PROVE  /\ StoreTypeOK' /\ torn' = torn
         /\ \E r \in StoreRequest : Purges(s, n, r)
  <1> DEFINE p == [NoStoreRequest EXCEPT !.step = "commit", !.ns = n, !.drop = Tags, !.skill = "dropped"]
             q == [p EXCEPT !.step = "raise", !.drop = {}]
  <1>1. /\ p \in StoreRequest /\ p.step = "commit" /\ p.ns = n /\ p.drop = Tags /\ p.skill = "dropped"
        /\ p.add = NoStoreRequest.add
    BY NoStoreRequestType DEF StoreRequest
  <1>2. /\ q \in StoreRequest /\ q.step = "raise" /\ q.ns = n /\ q.drop = {} /\ q.skill = "dropped"
        /\ q.add = NoStoreRequest.add
    BY <1>1 DEF StoreRequest
  <1>3. /\ DeleteArtifacts(n, Tags) /\ torn' = torn
        /\ \/ repo' = [repo EXCEPT ![n] = NoRepo] /\ ServeStore(s, p)
           \/ repo' = repo /\ ServeStore(s, q)
    BY DEF Purge
  <1>4. repo' \in [Namespaces -> Repo]
    BY <1>3, NoRepoType DEF StoreTypeOK
  <1>5. StoresOK'
    BY <1>3, <1>4, DeleteArtifactsType DEF StoresOK
  <1> HIDE DEF p, q
  <1>6. StoreTypeOK'
    BY <1>1, <1>2, <1>3, <1>5, ServeType
  <1>7. CASE repo' = [repo EXCEPT ![n] = NoRepo] /\ ServeStore(s, p)
    BY <1>1, <1>3, <1>6, <1>7, NoStoreRequestType DEF Purges, NothingAdded
  <1>8. CASE repo' = repo /\ ServeStore(s, q)
    BY <1>2, <1>3, <1>6, <1>8, NoStoreRequestType DEF Purges, NothingAdded
  <1> QED BY <1>3, <1>7, <1>8

\* The rows after a commit that was not refused.
RowsOf(r) == [t \in Tags |-> IF t \in r.drop THEN NoVersion
                              ELSE IF r.add[t].there THEN r.add[t] ELSE version[r.ns][t]]

TornAfter(r) == IF r.skill = "dropped" THEN torn \ ({r.ns} \X Tags) ELSE torn

LEMMA RowsOfType ==
  ASSUME StoreTypeOK, NEW s \in StoreSlots
  PROVE  /\ RowsOf(storeReq[s]) \in [Tags -> VersionRow]
         /\ \A t \in Tags : RowsOf(storeReq[s])[t].there <=>
              t \notin storeReq[s].drop /\ (storeReq[s].add[t].there \/ version[storeReq[s].ns][t].there)
  <1> DEFINE r == storeReq[s]
  <1>1. r.ns \in Namespaces /\ r.add \in [Tags -> VersionRow] /\ version[r.ns] \in [Tags -> VersionRow]
    BY SlotType DEF StoreTypeOK
  <1>2. NoVersion \in VersionRow /\ NoVersion.there = FALSE
    BY DEF NoVersion, VersionRow, Statuses
  <1>3. \A t \in Tags : r.add[t] \in VersionRow /\ version[r.ns][t] \in VersionRow
    BY <1>1
  <1>4. \A t \in Tags : r.add[t].there \in BOOLEAN /\ version[r.ns][t].there \in BOOLEAN
    BY <1>3 DEF VersionRow
  <1>5. ASSUME NEW t \in Tags
        PROVE  /\ RowsOf(r)[t] \in VersionRow
               /\ RowsOf(r)[t].there <=> t \notin r.drop /\ (r.add[t].there \/ version[r.ns][t].there)
    <2>1. CASE t \in r.drop
      BY <1>2, <2>1 DEF RowsOf
    <2>2. CASE t \notin r.drop /\ r.add[t].there
      BY <1>3, <2>2 DEF RowsOf
    <2>3. CASE t \notin r.drop /\ ~r.add[t].there
      <3>1. RowsOf(r)[t] = version[r.ns][t]
        BY <2>3 DEF RowsOf
      <3> QED BY <1>3, <2>3, <3>1
    <2> QED BY <2>1, <2>2, <2>3
  <1>6. RowsOf(r) = [t \in Tags |-> RowsOf(r)[t]]
    BY DEF RowsOf
  <1> QED BY <1>5, <1>6

LEMMA CommitStoreFacts ==
  ASSUME StoreTypeOK, NEW s \in StoreSlots, CommitStore(s)
  PROVE  /\ StoreTypeOK'
         /\ storeReq[s].step = "commit" /\ repo' = repo /\ storeMixed' = storeMixed
         /\ storeReq'[s] = NoStoreRequest
         /\ \A o \in StoreSlots : o # s => storeReq'[o] = storeReq[o]
         /\ \/ Orphaned(storeReq[s]) /\ version' = version /\ torn' = torn
            \/ /\ version'[storeReq[s].ns] = RowsOf(storeReq[s])
               /\ torn' = TornAfter(storeReq[s])
               /\ \A m \in Namespaces : m # storeReq[s].ns => version'[m] = version[m]
  <1> DEFINE r == storeReq[s]
             sk == CASE r.skill = "added" -> "live" [] r.skill = "dropped" -> "absent" [] OTHER -> skill[r.ns]
  <1>1. r.ns \in Namespaces /\ skill \in [Namespaces -> {"absent", "live", "trash"}]
        /\ version \in [Namespaces -> [Tags -> VersionRow]]
    BY SlotType DEF StoreTypeOK
  <1>2. sk \in {"absent", "live", "trash"}
    BY <1>1
  <1>3. /\ r.step = "commit" /\ UNCHANGED <<repo, bundle, manifest, storeCalls, storeMixed>>
        /\ storeReq' = [storeReq EXCEPT ![s] = NoStoreRequest]
    BY DEF CommitStore, stores
  <1>4. storeReq' \in [StoreSlots -> StoreRequest] /\ storeReq'[s] = NoStoreRequest
        /\ \A o \in StoreSlots : o # s => storeReq'[o] = storeReq[o]
    BY <1>3, NoStoreRequestType DEF StoreTypeOK
  <1>5. CASE Orphaned(r) /\ UNCHANGED <<skill, version, torn>>
    BY <1>3, <1>4, <1>5 DEF StoreTypeOK
  <1>6. CASE /\ version' = [version EXCEPT ![r.ns] = RowsOf(r)]
             /\ skill' = [skill EXCEPT ![r.ns] = sk]
             /\ torn' = TornAfter(r)
    <2>3. torn' \in SUBSET (Namespaces \X Tags)
      BY <1>6 DEF TornAfter, StoreTypeOK
    <2>1. /\ version' \in [Namespaces -> [Tags -> VersionRow]] /\ version'[r.ns] = RowsOf(r)
          /\ \A m \in Namespaces : m # r.ns => version'[m] = version[m]
      BY <1>1, <1>6, RowsOfType
    <2>2. skill' \in [Namespaces -> {"absent", "live", "trash"}]
      BY <1>1, <1>2, <1>6
    <2> QED BY <1>3, <1>4, <1>6, <2>1, <2>2, <2>3 DEF StoreTypeOK
  <1>7. \/ Orphaned(r) /\ UNCHANGED <<skill, version, torn>>
        \/ /\ version' = [version EXCEPT ![r.ns] = RowsOf(r)] /\ skill' = [skill EXCEPT ![r.ns] = sk]
           /\ torn' = TornAfter(r)
    <2>1. version' = [version EXCEPT ![r.ns] = [t \in Tags |->
                        IF t \in r.drop THEN NoVersion ELSE IF r.add[t].there THEN r.add[t] ELSE @[t]]]
          => version' = [version EXCEPT ![r.ns] = RowsOf(r)]
      BY <1>1 DEF RowsOf
    <2>2. skill' = [skill EXCEPT ![r.ns] = CASE r.skill = "added" -> "live" [] r.skill = "dropped" -> "absent"
                                               [] OTHER -> @]
          => skill' = [skill EXCEPT ![r.ns] = sk]
      BY <1>1
    <2> QED BY <2>1, <2>2 DEF CommitStore, TornAfter
  <1> QED BY <1>3, <1>4, <1>5, <1>6, <1>7

-------------------------------------------------------------------------------
(* Requests one at a time: tags follow rows.  A request that is at work has already *)
(* changed the tags, and its transaction says how the rows will be.                  *)

StoreBusy(s) == storeReq[s].step # "idle"

\* The tags of the namespace that are not torn, and all once it is purged, are those of
\* its rows as the transaction would leave them.
TagAgrees(r, t) ==
    <<r.ns, t>> \notin torn \/ (r.skill = "dropped" /\ r.step = "commit") =>
        (HasTag(r.ns, t) <=> IF Ends(r) /\ t \in r.drop THEN FALSE
                             ELSE version[r.ns][t].there \/ r.add[t].there)

\* What the request has read still holds, and what it inserts is new.
ReadsHold(r) ==
    /\ r.step \in {"push", "flush", "copy"} => r.skill # "dropped"
    /\ r.step \in {"push", "flush"} => r.drop = {} /\ ~version[r.ns][r.tag].there
    /\ r.step = "push" => \A t \in Tags : ~r.add[t].there
    /\ r.step = "flush" => \A t \in Tags : r.add[t].there => t = r.tag
    /\ r.step = "copy" => r.ns = "mirror" /\ r.drop = {t \in Tags : version["mirror"][t].there}
AddsAreNew(r) == \A t \in Tags : r.add[t].there =>
    /\ ~version[r.ns][t].there
    /\ (r.step = "copy" => t \notin r.todo) /\ (Ends(r) => t \notin r.drop)
SkillStays(r) ==
    r.skill = "kept" /\ (r.step \in {"push", "flush", "copy"} \/ \E t \in Tags : r.add[t].there)
    => skill[r.ns] # "absent"
RequestSound(r) == (\A t \in Tags : TagAgrees(r, t)) /\ ReadsHold(r) /\ AddsAreNew(r) /\ SkillStays(r)

TagsAgree(n) == \A t \in Tags : <<n, t>> \notin torn => (HasTag(n, t) <=> version[n][t].there)

\* What is torn in other namespaces stays so, and no more.
TornElsewhere(n) == \A m \in Namespaces : m # n => \A t \in Tags : <<m, t>> \in torn' <=> <<m, t>> \in torn

StoreSerial ==
    /\ \A s, o \in StoreSlots : StoreBusy(s) /\ StoreBusy(o) => s = o
    /\ \A n \in Namespaces : (\A s \in StoreSlots : ~StoreBusy(s) \/ storeReq[s].ns # n) => TagsAgree(n)
    /\ \A s \in StoreSlots : StoreBusy(s) => RequestSound(storeReq[s])

StoreInv == StoreTypeOK /\ (~storeMixed => StoreSerial)

\* A step of the only request at work, or of the first, in the namespace n.
LEMMA OneRequest ==
  ASSUME StoreSerial, NEW s \in StoreSlots, NEW n \in Namespaces,
         \A o \in StoreSlots : o # s => ~StoreBusy(o) /\ storeReq'[o] = storeReq[o],
         StoreBusy(s) => storeReq[s].ns = n, torn' = torn \/ TornElsewhere(n),
         \A m \in Namespaces : m # n => \A t \in Tags :
            (repo'[m].tag[t].there <=> repo[m].tag[t].there) /\ (version'[m][t].there <=> version[m][t].there),
         \/ storeReq'[s].step = "idle" /\ TagsAgree(n)'
         \/ storeReq'[s].step # "idle" /\ storeReq'[s].ns = n /\ RequestSound(storeReq[s])'
  PROVE  StoreSerial'
  <1>1. \A o \in StoreSlots : o # s => ~StoreBusy(o)'
    BY DEF StoreBusy
  <1>2. ASSUME NEW m \in Namespaces, \A o \in StoreSlots : ~StoreBusy(o)' \/ storeReq'[o].ns # m
        PROVE  TagsAgree(m)'
    <2>1. CASE m = n
      <3>1. ~StoreBusy(s)' \/ storeReq'[s].ns # n
        BY <1>2, <2>1
      <3>2. CASE storeReq'[s].step = "idle" /\ TagsAgree(n)'
        BY <2>1, <3>2
      <3> QED BY <3>1, <3>2 DEF StoreBusy
    <2>2. CASE m # n
      <3>1. \A o \in StoreSlots : ~StoreBusy(o) \/ storeReq[o].ns # m
        BY <2>2
      <3>2. TagsAgree(m)
        BY <3>1 DEF StoreSerial
      <3> QED BY <2>2, <3>2 DEF TagsAgree, HasTag, TornElsewhere
    <2> QED BY <2>1, <2>2
  <1>3. ASSUME NEW o \in StoreSlots, StoreBusy(o)' PROVE RequestSound(storeReq[o])'
    <2>1. o = s
      BY <1>1, <1>3
    <2> QED BY <1>3, <2>1 DEF StoreBusy
  <1>4. \A a, b \in StoreSlots : StoreBusy(a)' /\ StoreBusy(b)' => a = b
    BY <1>1
  <1> QED BY <1>2, <1>3, <1>4 DEF StoreSerial

\* A request that is the only one starts when the stores agree.
LEMMA AllAgree ==
  ASSUME StoreInv, NEW s \in StoreSlots, NEW r, ServeStore(s, r), ~storeMixed'
  PROVE  /\ StoreSerial /\ \A o \in StoreSlots : ~StoreBusy(o)
         /\ \A n \in Namespaces : TagsAgree(n)
  <1>1. StoreSerial /\ \A o \in StoreSlots : ~StoreBusy(o)
    BY ServeFacts DEF StoreInv, StoreBusy
  <1> QED BY <1>1 DEF StoreSerial

LEMMA ServedAlone ==
  ASSUME StoreInv, NEW s \in StoreSlots, NEW n \in Namespaces, NEW r, ServeStore(s, r),
         ~storeMixed', r.step # "idle", r.ns = n, torn' = torn \/ TornElsewhere(n),
         \A m \in Namespaces : m # n => \A t \in Tags : repo'[m].tag[t].there <=> repo[m].tag[t].there,
         RequestSound(storeReq[s])'
  PROVE  StoreSerial'
  <1>1. StoreSerial /\ \A o \in StoreSlots : ~StoreBusy(o)
    BY AllAgree
  <1>2. storeReq'[s] = r /\ version' = version /\ \A o \in StoreSlots : o # s => storeReq'[o] = storeReq[o]
    BY ServeFacts DEF StoreInv
  <1> QED BY <1>1, <1>2, OneRequest

LEMMA CreateSkillSerial ==
  ASSUME StoreInv, NEW s \in StoreSlots, NEW n \in Namespaces, CreateSkill(s, n) PROVE StoreInv'
  <1> DEFINE r == [NoStoreRequest EXCEPT !.step = "commit", !.ns = n, !.skill = "added"]
  <1>1. ServeStore(s, r) /\ repo' = [repo EXCEPT ![n].made = TRUE] /\ torn' = torn
    BY DEF CreateSkill
  <1>2. r.step = "commit" /\ r.ns = n /\ r.skill = "added" /\ r.drop = {} /\ \A t \in Tags : r.add[t].there = FALSE
    BY NoStoreRequestType DEF StoreRequest
  <1> HIDE DEF r
  <1>3. StoreTypeOK' /\ \A m \in Namespaces : repo'[m].tag = repo[m].tag
    BY <1>1, CreateSkillType, MadeType DEF StoreInv
  <1>4. ASSUME ~storeMixed' PROVE StoreSerial'
    <2>1. storeReq'[s] = r /\ version' = version
      BY <1>1, ServeFacts DEF StoreInv
    <2>2. \A t \in Tags : <<n, t>> \notin torn => (repo[n].tag[t].there <=> version[n][t].there)
      BY <1>1, <1>4, AllAgree DEF HasTag, TagsAgree
    <2>3. RequestSound(storeReq[s])'
      BY <1>1, <1>2, <1>3, <2>1, <2>2 DEF RequestSound, TagAgrees, Ends, HasTag, ReadsHold, AddsAreNew, SkillStays
    <2> QED BY <1>1, <1>2, <1>3, <1>4, <2>3, ServedAlone
  <1> QED BY <1>3, <1>4 DEF StoreInv

LEMMA ApiPublishSerial ==
  ASSUME StoreInv, NEW s \in StoreSlots, NEW n \in Namespaces, NEW t \in Tags,
         NEW fs \in SUBSET Files, ApiPublish(s, n, t, fs)
  PROVE  StoreInv'
  <1> DEFINE r == [NoStoreRequest EXCEPT !.step = "push", !.ns = n, !.tag = t, !.files = fs,
                                         !.head = repo[n].head, !.locked = TRUE]
  <1>1. ServeStore(s, r) /\ repo' = repo /\ skill[n] = "live" /\ ~version[n][t].there /\ torn' = torn
    BY DEF ApiPublish, stores
  <1>2. r.step = "push" /\ r.ns = n /\ r.tag = t /\ r.drop = {} /\ \A u \in Tags : r.add[u].there = FALSE
    BY NoStoreRequestType DEF StoreRequest
  <1>5. r.skill # "dropped"
    BY DEF NoStoreRequest
  <1> HIDE DEF r
  <1>3. StoreTypeOK'
    BY ApiPublishType DEF StoreInv
  <1>4. ASSUME ~storeMixed' PROVE StoreSerial'
    <2>1. storeReq'[s] = r /\ version' = version /\ skill' = skill
      BY <1>1, ServeFacts DEF StoreInv
    <2>2. \A u \in Tags : <<n, u>> \notin torn => (repo[n].tag[u].there <=> version[n][u].there)
      BY <1>1, <1>4, AllAgree DEF HasTag, TagsAgree
    <2>3. RequestSound(storeReq[s])'
      BY <1>1, <1>2, <1>5, <2>1, <2>2 DEF RequestSound, TagAgrees, Ends, HasTag, ReadsHold, AddsAreNew, SkillStays
    <2> QED BY <1>1, <1>2, <1>4, <2>3, ServedAlone
  <1> QED BY <1>3, <1>4 DEF StoreInv

LEMMA CompatPublishSerial ==
  ASSUME StoreInv, NEW s \in StoreSlots, NEW n \in Namespaces, NEW t \in Tags,
         NEW fs \in SUBSET Files, CompatPublish(s, n, t, fs)
  PROVE  StoreInv'
  <1> DEFINE r == [NoStoreRequest EXCEPT !.step = "push", !.ns = n, !.tag = t, !.files = fs,
                                         !.head = repo[n].head,
                                         !.skill = IF skill[n] = "absent" THEN "added" ELSE "kept"]
  <1>1. ServeStore(s, r) /\ repo' = [repo EXCEPT ![n].made = TRUE] /\ ~version[n][t].there /\ torn' = torn
    BY DEF CompatPublish
  <1>2. /\ r.step = "push" /\ r.ns = n /\ r.tag = t /\ r.drop = {} /\ \A u \in Tags : r.add[u].there = FALSE
        /\ r.skill # "dropped" /\ (r.skill = "kept" => skill[n] # "absent")
    BY NoStoreRequestType DEF StoreRequest
  <1> HIDE DEF r
  <1>3. StoreTypeOK' /\ \A m \in Namespaces : repo'[m].tag = repo[m].tag
    BY <1>1, CompatPublishType, MadeType DEF StoreInv
  <1>4. ASSUME ~storeMixed' PROVE StoreSerial'
    <2>1. storeReq'[s] = r /\ version' = version /\ skill' = skill
      BY <1>1, ServeFacts DEF StoreInv
    <2>2. \A u \in Tags : <<n, u>> \notin torn => (repo[n].tag[u].there <=> version[n][u].there)
      BY <1>1, <1>4, AllAgree DEF HasTag, TagsAgree
    <2>3. RequestSound(storeReq[s])'
      BY <1>1, <1>2, <1>3, <2>1, <2>2 DEF RequestSound, TagAgrees, Ends, HasTag, ReadsHold, AddsAreNew, SkillStays
    <2> QED BY <1>1, <1>2, <1>3, <1>4, <2>3, ServedAlone
  <1> QED BY <1>3, <1>4 DEF StoreInv

LEMMA RunRuleSerial ==
  ASSUME StoreInv, NEW s \in StoreSlots, NEW only \in SUBSET Tags, RunRule(s, only)
  PROVE  StoreInv'
  <1> DEFINE r == CopyRequest(only)
  <1>1. ServeStore(s, r) /\ "mirror" \in Namespaces /\ torn' = torn
    BY DEF RunRule, Namespaces
  <1>2. /\ r.step = "copy" /\ r.ns = "mirror" /\ \A t \in Tags : r.add[t].there = FALSE
        /\ r.drop = {t \in Tags : version["mirror"][t].there}
        /\ r.skill # "dropped" /\ (r.skill = "kept" => skill["mirror"] # "absent")
    BY CopyRequestType DEF StoreInv
  <1> HIDE DEF r
  <1>3. StoreTypeOK' /\ \A m \in Namespaces : repo'[m].tag = repo[m].tag
    BY RunRuleType DEF StoreInv
  <1>4. ASSUME ~storeMixed' PROVE StoreSerial'
    <2>1. storeReq'[s] = r /\ version' = version /\ skill' = skill
      BY <1>1, ServeFacts DEF StoreInv
    <2>2. \A u \in Tags : <<"mirror", u>> \notin torn => (repo["mirror"].tag[u].there <=> version["mirror"][u].there)
      BY <1>1, <1>4, AllAgree DEF HasTag, TagsAgree
    <2>3. RequestSound(storeReq[s])'
      BY <1>1, <1>2, <1>3, <2>1, <2>2 DEF RequestSound, TagAgrees, Ends, HasTag, ReadsHold, AddsAreNew, SkillStays
    <2> QED BY <1>1, <1>2, <1>3, <1>4, <2>3, ServedAlone
  <1> QED BY <1>3, <1>4 DEF StoreInv

\* Deleting a version, retention and a purge: the tags go first, but for those in kept.
OnlyDropped(n, ts) ==
    /\ \A t \in Tags : repo'[n].tag[t].there <=> t \notin ts /\ repo[n].tag[t].there
    /\ \A m \in Namespaces : m # n => repo'[m] = repo[m]
TornBy(n, kept) == torn' = torn \cup ({n} \X kept)

LEMMA DropSerial ==
  ASSUME StoreInv, NEW s \in StoreSlots, NEW n \in Namespaces, NEW ts \in SUBSET Tags, NEW kept \in SUBSET ts,
         NEW r, ServeStore(s, r), Ends(r), r.ns = n, r.drop = ts, NothingAdded(r), OnlyDropped(n, ts \ kept),
         TornBy(n, kept), r.skill = "dropped" /\ r.step = "commit" => ts = Tags /\ kept = {}, ~storeMixed'
  PROVE  StoreSerial'
  <1>1. storeReq'[s] = r /\ version' = version /\ r.step # "idle"
    BY ServeFacts DEF StoreInv, Ends
  <1>2. \A u \in Tags : <<n, u>> \notin torn => (repo[n].tag[u].there <=> version[n][u].there)
    BY AllAgree DEF HasTag, TagsAgree
  <1>3. \A u \in Tags : <<n, u>> \in torn' <=> <<n, u>> \in torn \/ u \in kept
    BY DEF TornBy
  <1>4. TornElsewhere(n)
    BY DEF TornBy, TornElsewhere
  <1>5. ASSUME NEW u \in Tags PROVE TagAgrees(r, u)'
    <2>1. repo'[n].tag[u].there <=> ~(u \in ts /\ u \notin kept) /\ repo[n].tag[u].there
      BY DEF OnlyDropped
    <2>2. r.add[u].there = FALSE
      BY DEF NothingAdded
    <2> QED BY <1>1, <1>2, <1>3, <2>1, <2>2 DEF TagAgrees, HasTag
  <1>6. ReadsHold(r)' /\ AddsAreNew(r)' /\ SkillStays(r)'
    BY <1>1 DEF NothingAdded, ReadsHold, AddsAreNew, SkillStays, Ends
  <1>7. RequestSound(storeReq[s])'
    BY <1>1, <1>5, <1>6 DEF RequestSound
  <1> QED BY <1>1, <1>4, <1>7, ServedAlone DEF OnlyDropped

LEMMA TagsGone ==
  ASSUME StoreTypeOK, NEW n \in Namespaces, NEW ts \in SUBSET Tags, DeleteTag(n, ts)
  PROVE  OnlyDropped(n, ts)
  <1>1. \A t \in Tags : repo[n].tag[t].there \in BOOLEAN
    BY DEF StoreTypeOK, Repo, Tree
  <1> QED BY <1>1, DeleteTagType, TreeTypes DEF OnlyDropped

LEMMA DropInv ==
  ASSUME StoreInv, NEW s \in StoreSlots, NEW n \in Namespaces
  PROVE  /\ \A t \in Tags : DeleteVersion(s, n, t) => StoreInv'
         /\ \A ts \in SUBSET Tags : \A refused \in SUBSET ts : Retain(s, n, ts, refused) => StoreInv'
         /\ Purge(s, n) => StoreInv'
  <1>1. ASSUME NEW t \in Tags, DeleteVersion(s, n, t) PROVE StoreInv'
    <2>1. StoreTypeOK' /\ DeleteTag(n, {t}) /\ torn' = torn /\ {t} \in SUBSET Tags
      BY <1>1, DeleteVersionFacts DEF StoreInv
    <2>2. PICK step \in {"commit", "raise"} : ServeStore(s, DropRequest(n, {t}, step))
      BY <1>1, DeleteVersionFacts DEF StoreInv
    <2> DEFINE r == DropRequest(n, {t}, step)
    <2>3. Drops(r, n, {t})
      BY <2>1, <2>2, DropRequestType
    <2>4. OnlyDropped(n, {t})
      BY <2>1, TagsGone DEF StoreInv
    <2>5. OnlyDropped(n, {t} \ {}) /\ TornBy(n, {}) /\ {} \in SUBSET {t}
      <3>1. {t} \ {} = {t} /\ torn \cup ({n} \X {}) = torn
        OBVIOUS
      <3> QED BY <2>1, <2>4, <3>1 DEF TornBy
    <2> HIDE DEF r
    <2>6. ServeStore(s, r)
      BY <2>2 DEF r
    <2>7. ~storeMixed' => StoreSerial'
      BY <2>1, <2>3, <2>5, <2>6, DropSerial DEF Drops
    <2> QED BY <2>1, <2>7 DEF StoreInv
  <1>2. ASSUME NEW ts \in SUBSET Tags, NEW refused \in SUBSET ts, Retain(s, n, ts, refused) PROVE StoreInv'
    <2> DEFINE r == DropRequest(n, ts, "commit")
    <2>1. /\ StoreTypeOK' /\ DeleteTag(n, ts \ refused) /\ TornBy(n, refused) /\ ServeStore(s, r)
          /\ ts \ refused \in SUBSET Tags
      BY <1>2, RetainFacts DEF StoreInv, TornBy
    <2>2. Drops(r, n, ts)
      BY DropRequestType
    <2>3. OnlyDropped(n, ts \ refused)
      BY <2>1, TagsGone DEF StoreInv
    <2> HIDE DEF r
    <2>4. ~storeMixed' => StoreSerial'
      BY <2>1, <2>2, <2>3, DropSerial DEF Drops
    <2> QED BY <2>1, <2>4 DEF StoreInv
  <1>3. ASSUME Purge(s, n) PROVE StoreInv'
    <2>1. StoreTypeOK' /\ torn' = torn
      BY <1>3, PurgeFacts DEF StoreInv
    <2>2. PICK r \in StoreRequest : Purges(s, n, r)
      BY <1>3, PurgeFacts DEF StoreInv
    <2>3. Ends(r) /\ NothingAdded(r) /\ r.drop \in SUBSET Tags /\ ServeStore(s, r) /\ r.ns = n
      BY <2>2 DEF Ends, Purges
    <2>4. OnlyDropped(n, r.drop)
      <3>1. CASE repo' = [repo EXCEPT ![n] = NoRepo] /\ r.drop = Tags
        <4>1. repo'[n] = NoRepo /\ \A m \in Namespaces : m # n => repo'[m] = repo[m]
          BY <3>1 DEF StoreInv, StoreTypeOK
        <4> QED BY <3>1, <4>1, NoRepoType, TreeTypes DEF OnlyDropped
      <3>2. CASE repo' = repo /\ r.drop = {}
        BY <3>2 DEF OnlyDropped
      <3> QED BY <2>2, <3>1, <3>2 DEF Purges
    <2>5. OnlyDropped(n, r.drop \ {}) /\ TornBy(n, {}) /\ {} \in SUBSET r.drop
      <3>1. r.drop \ {} = r.drop /\ torn \cup ({n} \X {}) = torn
        OBVIOUS
      <3> QED BY <2>1, <2>4, <3>1 DEF TornBy
    <2>6. r.skill = "dropped" /\ r.step = "commit" => r.drop = Tags
      BY <2>2 DEF Purges
    <2>7. ~storeMixed' => StoreSerial'
      BY <2>3, <2>5, <2>6, DropSerial
    <2> QED BY <2>1, <2>7 DEF StoreInv
  <1> QED BY <1>1, <1>2, <1>3

\* A request at work is the only one, and is sound.
LEMMA WorksAlone ==
  ASSUME StoreInv, ~storeMixed, NEW s \in StoreSlots, StoreBusy(s)
  PROVE  /\ StoreSerial /\ RequestSound(storeReq[s])
         /\ \A o \in StoreSlots : o # s => ~StoreBusy(o)
  BY DEF StoreInv, StoreSerial

LEMMA PushSerial == ASSUME StoreInv, NEW s \in StoreSlots, Push(s) PROVE StoreInv'
  <1> DEFINE r == storeReq[s]  n == r.ns
  <1>1. /\ StoreTypeOK'
        /\ r.step = "push" /\ storeReq'[s].step = "flush"
        /\ storeReq'[s].ns = n /\ storeReq'[s].tag = r.tag
        /\ storeReq'[s].drop = r.drop /\ storeReq'[s].todo = r.todo /\ storeReq'[s].skill = r.skill
        /\ \A t \in Tags : storeReq'[s].add[t].there <=> t = r.tag \/ r.add[t].there
        /\ \A t \in Tags : repo'[n].tag[t].there <=> t = r.tag \/ repo[n].tag[t].there
    BY PushFacts DEF StoreInv
  <1>2. /\ \A m \in Namespaces : m # n => repo'[m] = repo[m]
        /\ \A o \in StoreSlots : o # s => storeReq'[o] = storeReq[o]
        /\ UNCHANGED <<skill, version, storeMixed, torn>>
    BY PushFacts DEF StoreInv
  <1>3. ASSUME ~storeMixed' PROVE StoreSerial'
    <2>1. /\ StoreSerial /\ RequestSound(r) /\ \A o \in StoreSlots : o # s => ~StoreBusy(o)
      BY <1>1, <1>2, <1>3, WorksAlone DEF StoreBusy
    <2>2. /\ r.drop = {} /\ r.skill # "dropped" /\ ~version[n][r.tag].there /\ \A t \in Tags : ~r.add[t].there
          /\ \A t \in Tags : <<n, t>> \notin torn => (repo[n].tag[t].there <=> version[n][t].there)
      BY <1>1, <2>1 DEF RequestSound, ReadsHold, TagAgrees, Ends, HasTag
    <2>6. r.skill = "kept" => skill[n] # "absent"
      BY <1>1, <2>1 DEF RequestSound, SkillStays
    <2>3. ASSUME NEW t \in Tags PROVE TagAgrees(storeReq[s], t)'
      BY <1>1, <1>2, <2>2 DEF TagAgrees, Ends, HasTag
    <2>4. ReadsHold(storeReq[s])'
      BY <1>1, <1>2, <2>2 DEF ReadsHold
    <2>5. AddsAreNew(storeReq[s])' /\ SkillStays(storeReq[s])'
      BY <1>1, <1>2, <2>2, <2>6 DEF AddsAreNew, Ends, SkillStays
    <2> QED BY <1>1, <1>2, <2>1, <2>3, <2>4, <2>5, OneRequest, SlotType DEF RequestSound, StoreInv
  <1> QED BY <1>1, <1>3 DEF StoreInv

LEMMA StoreSerialStep == ASSUME StoreInv, NEW s \in StoreSlots, Store(s) PROVE StoreInv'
  <1> DEFINE r == storeReq[s]  n == r.ns
  <1>1. /\ StoreTypeOK' /\ repo' = repo
        /\ r.step = "flush" /\ storeReq'[s].step = "commit"
        /\ storeReq'[s].ns = n /\ storeReq'[s].drop = r.drop
        /\ storeReq'[s].skill = r.skill /\ storeReq'[s].add = r.add
        /\ \A o \in StoreSlots : o # s => storeReq'[o] = storeReq[o]
        /\ UNCHANGED <<skill, version, storeMixed, torn>>
    BY StoreFacts DEF StoreInv
  <1>2. ASSUME ~storeMixed' PROVE StoreSerial'
    <2>1. /\ StoreSerial /\ RequestSound(r) /\ \A o \in StoreSlots : o # s => ~StoreBusy(o)
      BY <1>1, <1>2, WorksAlone DEF StoreBusy
    <2>2. r.drop = {}
      BY <1>1, <2>1 DEF RequestSound, ReadsHold
    <2>3. RequestSound(storeReq[s])'
      BY <1>1, <2>1, <2>2 DEF RequestSound, TagAgrees, Ends, HasTag, ReadsHold, AddsAreNew, SkillStays
    <2> QED BY <1>1, <2>1, <2>3, OneRequest, SlotType DEF StoreInv
  <1> QED BY <1>1, <1>2 DEF StoreInv

LEMMA DuplicateSerial == ASSUME StoreInv, NEW s \in StoreSlots, Duplicate(s) PROVE StoreInv'
  <1>1. /\ storeReq[s].step = "flush" /\ version[storeReq[s].ns][storeReq[s].tag].there
        /\ Goes(s, NoStoreRequest)
    BY DEF Duplicate
  <1>2. StoreTypeOK'
    BY DuplicateType DEF StoreInv
  <1>3. storeMixed
    BY <1>1, WorksAlone DEF StoreBusy, RequestSound, ReadsHold
  <1> QED BY <1>1, <1>2, <1>3, GoesFacts DEF StoreInv

\* A publication that raises leaves its tag behind, as if it went on to its commit.
LEMMA RaisedSerial ==
  ASSUME StoreInv, StoreTypeOK', NEW s \in StoreSlots, storeReq[s].step = "flush", repo' = repo,
         Goes(s, [storeReq[s] EXCEPT !.step = "raise"])
  PROVE  StoreInv'
  <1> DEFINE r == storeReq[s]  n == r.ns
  <1>1. /\ storeReq'[s].step = "raise" /\ storeReq'[s].ns = n /\ storeReq'[s].drop = r.drop
        /\ storeReq'[s].skill = r.skill /\ storeReq'[s].add = r.add
        /\ \A o \in StoreSlots : o # s => storeReq'[o] = storeReq[o]
        /\ UNCHANGED <<skill, version, storeMixed, torn>>
    BY RaisedType, GoesFacts DEF StoreInv
  <1>2. ASSUME ~storeMixed' PROVE StoreSerial'
    <2>1. /\ StoreSerial /\ RequestSound(r) /\ \A o \in StoreSlots : o # s => ~StoreBusy(o)
      BY <1>1, <1>2, WorksAlone DEF StoreBusy
    <2>2. r.drop = {}
      BY <1>1, <2>1 DEF RequestSound, ReadsHold
    <2>3. RequestSound(storeReq[s])'
      BY <1>1, <2>1, <2>2 DEF RequestSound, TagAgrees, Ends, HasTag, ReadsHold, AddsAreNew, SkillStays
    <2> QED BY <1>1, <2>1, <2>3, OneRequest, SlotType DEF StoreInv
  <1> QED BY <1>1, <1>2 DEF StoreInv

LEMMA StoreBreaksSerial == ASSUME StoreInv, NEW s \in StoreSlots, StoreBreaks(s) PROVE StoreInv'
  <1>1. storeReq[s].step = "flush" /\ repo' = repo /\ Goes(s, [storeReq[s] EXCEPT !.step = "raise"])
    BY DEF StoreBreaks
  <1> QED BY <1>1, RaisedSerial, StoreBreaksType DEF StoreInv

\* The store refuses: the request takes its tag back, unless git refuses that.
LEMMA StoreFailsSerial == ASSUME StoreInv, NEW s \in StoreSlots, StoreFails(s) PROVE StoreInv'
  <1> DEFINE r == storeReq[s]
  <1>0. PICK n \in Namespaces : n = r.ns
    BY SlotType DEF StoreInv
  <1>1. /\ r.step = "flush"
        /\ \/ DeleteTag(n, {r.tag}) /\ Goes(s, NoStoreRequest)
           \/ repo' = repo /\ Goes(s, [r EXCEPT !.step = "raise"])
    BY <1>0 DEF StoreFails
  <1>6. CASE repo' = repo /\ Goes(s, [r EXCEPT !.step = "raise"])
    BY <1>1, <1>6, RaisedSerial, StoreFailsType DEF StoreInv
  <1>7. CASE DeleteTag(n, {r.tag}) /\ Goes(s, NoStoreRequest)
    <2>2. r.tag \in Tags /\ n \in Namespaces /\ {r.tag} \in SUBSET Tags
      BY <1>0, SlotType DEF StoreInv
    <2>3. OnlyDropped(n, {r.tag})
      BY <1>0, <1>7, <2>2, TagsGone DEF StoreInv
    <2>4. /\ storeReq'[s].step = "idle" /\ \A o \in StoreSlots : o # s => storeReq'[o] = storeReq[o]
          /\ UNCHANGED <<skill, version, storeMixed, torn>>
      BY <1>0, <1>7, GoesFacts, NoStoreRequestType DEF StoreInv
    <2>5. ASSUME ~storeMixed' PROVE StoreSerial'
      <3>1. /\ StoreSerial /\ RequestSound(r) /\ \A o \in StoreSlots : o # s => ~StoreBusy(o)
        BY <1>0, <1>1, <2>4, <2>5, WorksAlone DEF StoreBusy
      <3>2. /\ ~version[n][r.tag].there /\ \A t \in Tags : r.add[t].there => t = r.tag
            /\ \A t \in Tags : <<n, t>> \notin torn => (repo[n].tag[t].there <=> version[n][t].there \/ r.add[t].there)
        BY <1>0, <1>1, <3>1 DEF RequestSound, ReadsHold, TagAgrees, Ends, HasTag
      <3>3. TagsAgree(n)'
        BY <1>0, <2>3, <2>4, <3>2 DEF OnlyDropped, TagsAgree, HasTag
      <3> QED BY <1>0, <2>2, <2>3, <2>4, <3>1, <3>3, OneRequest DEF OnlyDropped
    <2> QED BY <1>0, <2>5, StoreFailsType DEF StoreInv
  <1> QED BY <1>1, <1>6, <1>7

LEMMA CopyOneSerial ==
  ASSUME StoreInv, NEW s \in StoreSlots, NEW t \in Tags, CopyOne(s, t) PROVE StoreInv'
  <1> DEFINE r == storeReq[s]
  <1>1. /\ StoreTypeOK' /\ r.step = "copy" /\ t \in r.todo
        /\ \A o \in StoreSlots : o # s => storeReq'[o] = storeReq[o]
        /\ UNCHANGED <<skill, version, storeMixed, torn>>
    BY CopyOneFacts DEF StoreInv
  <1>2. \/ t \in r.drop /\ Copied(s, t, FALSE) /\ repo' = repo
        \/ t \notin r.drop /\ Copied(s, t, TRUE) /\ TagMoved("mirror", t, TRUE)
        \/ t \notin r.drop /\ Copied(s, t, FALSE) /\ TagMoved("mirror", t, FALSE)
        \/ t \notin r.drop /\ CopyRaised(s, t) /\ TagMoved("mirror", t, TRUE)
    BY CopyOneFacts DEF StoreInv
  <1>3. ASSUME ~storeMixed' PROVE StoreSerial'
    <2>1. /\ StoreSerial /\ RequestSound(r) /\ \A o \in StoreSlots : o # s => ~StoreBusy(o)
      BY <1>1, <1>3, WorksAlone DEF StoreBusy
    <2>2. r.ns = "mirror" /\ \A u \in Tags : u \in r.drop <=> version["mirror"][u].there
      BY <1>1, <2>1 DEF RequestSound, ReadsHold
    <2>3. \A u \in Tags : /\ <<"mirror", u>> \notin torn =>
                              (repo["mirror"].tag[u].there <=> version["mirror"][u].there \/ r.add[u].there)
                          /\ r.add[u].there => u \notin r.todo /\ ~version["mirror"][u].there
      BY <1>1, <2>1, <2>2 DEF RequestSound, TagAgrees, Ends, HasTag, AddsAreNew
    <2>4. r.skill = "kept" => skill["mirror"] # "absent"
      BY <1>1, <2>1, <2>2 DEF RequestSound, SkillStays
    <2>5. ~r.add[t].there /\ (t \in r.drop <=> version["mirror"][t].there)
      BY <1>1, <2>2, <2>3
    <2>6. /\ storeReq'[s].ns = "mirror" /\ storeReq'[s].skill = r.skill
          /\ \/ storeReq'[s].step = "copy" /\ storeReq'[s].drop = r.drop /\ storeReq'[s].todo = r.todo \ {t}
             \/ storeReq'[s].step = "raise" /\ storeReq'[s].drop = {}
      BY <1>2, <2>2 DEF Copied, CopyRaised
    <2>7. \A u \in Tags : <<"mirror", u>> \notin torn =>
                 (repo'["mirror"].tag[u].there <=> version["mirror"][u].there \/ storeReq'[s].add[u].there)
      BY <1>2, <2>3, <2>5 DEF Copied, CopyRaised, TagMoved
    <2>8. \A u \in Tags : storeReq'[s].add[u].there => u \notin r.todo \ {t} /\ ~version["mirror"][u].there
      BY <1>2, <2>3, <2>5 DEF Copied, CopyRaised
    <2>9. \A u \in Tags : TagAgrees(storeReq[s], u)'
      BY <1>1, <2>6, <2>7 DEF TagAgrees, Ends, HasTag
    <2>10. ReadsHold(storeReq[s])'
      BY <1>1, <2>1, <2>2, <2>6 DEF ReadsHold, RequestSound
    <2>11. AddsAreNew(storeReq[s])' /\ SkillStays(storeReq[s])'
      BY <1>1, <2>4, <2>6, <2>8 DEF AddsAreNew, Ends, SkillStays
    <2>12. RequestSound(storeReq[s])'
      BY <2>9, <2>10, <2>11 DEF RequestSound
    <2>13. \A m \in Namespaces : m # "mirror" => repo'[m] = repo[m]
      BY <1>2 DEF TagMoved
    <2>14. "mirror" \in Namespaces
      BY DEF Namespaces
    <2> QED BY <1>1, <2>1, <2>2, <2>6, <2>12, <2>13, <2>14, OneRequest
  <1> QED BY <1>1, <1>3 DEF StoreInv

LEMMA CopyEndsSerial == ASSUME StoreInv, NEW s \in StoreSlots, CopyEnds(s) PROVE StoreInv'
  <1> DEFINE r == storeReq[s]
  <1>1. /\ StoreTypeOK' /\ r.step = "copy" /\ r.todo = {} /\ repo' = repo
        /\ \A o \in StoreSlots : o # s => storeReq'[o] = storeReq[o]
        /\ UNCHANGED <<skill, version, storeMixed, torn>>
    BY CopyEndsFacts DEF StoreInv
  <1>2. \/ storeReq'[s] = NoStoreRequest /\ \E t \in Tags : r.add[t].there /\ version["mirror"][t].there
        \/ /\ storeReq'[s].step = "commit" /\ storeReq'[s].drop = {}
           /\ storeReq'[s].ns = r.ns /\ storeReq'[s].skill = r.skill /\ storeReq'[s].add = r.add
    BY CopyEndsFacts DEF StoreInv
  <1>3. ASSUME ~storeMixed' PROVE StoreSerial'
    <2>1. /\ StoreSerial /\ RequestSound(r) /\ \A o \in StoreSlots : o # s => ~StoreBusy(o)
      BY <1>1, <1>3, WorksAlone DEF StoreBusy
    <2>2. r.ns = "mirror" /\ \A t \in Tags : r.add[t].there => ~version["mirror"][t].there
      BY <1>1, <2>1 DEF RequestSound, ReadsHold, AddsAreNew
    <2>3. /\ storeReq'[s].step = "commit" /\ storeReq'[s].drop = {}
          /\ storeReq'[s].ns = r.ns /\ storeReq'[s].skill = r.skill /\ storeReq'[s].add = r.add
      BY <1>2, <2>2
    <2>4. RequestSound(storeReq[s])'
      BY <1>1, <2>1, <2>3 DEF RequestSound, TagAgrees, Ends, HasTag, ReadsHold, AddsAreNew, SkillStays
    <2> QED BY <1>1, <2>1, <2>3, <2>4, OneRequest, SlotType DEF StoreInv
  <1> QED BY <1>1, <1>3 DEF StoreInv

LEMMA CommitStoreSerial == ASSUME StoreInv, NEW s \in StoreSlots, CommitStore(s) PROVE StoreInv'
  <1> DEFINE r == storeReq[s]
  <1>0. PICK n \in Namespaces : n = r.ns
    BY SlotType DEF StoreInv
  <1>1. /\ StoreTypeOK' /\ r.step = "commit" /\ repo' = repo /\ storeMixed' = storeMixed
        /\ storeReq'[s].step = "idle" /\ \A o \in StoreSlots : o # s => storeReq'[o] = storeReq[o]
    BY <1>0, CommitStoreFacts, NoStoreRequestType DEF StoreInv
  <1>2. \/ Orphaned(r) /\ version' = version /\ torn' = torn
        \/ version'[n] = RowsOf(r) /\ torn' = TornAfter(r) /\ \A m \in Namespaces : m # n => version'[m] = version[m]
    BY <1>0, CommitStoreFacts DEF StoreInv
  <1>3. ASSUME ~storeMixed' PROVE StoreSerial'
    <2>1. /\ StoreSerial /\ RequestSound(r) /\ \A o \in StoreSlots : o # s => ~StoreBusy(o)
      BY <1>0, <1>1, <1>3, WorksAlone DEF StoreBusy
    <2>2. ~Orphaned(r)
      BY <1>0, <1>1, <2>1 DEF Orphaned, RequestSound, SkillStays
    <2>3. \A t \in Tags : RowsOf(r)[t].there <=> t \notin r.drop /\ (r.add[t].there \/ version[n][t].there)
      BY <1>0, RowsOfType DEF StoreInv
    <2>4. \A t \in Tags : <<n, t>> \notin torn \/ r.skill = "dropped" =>
             (repo[n].tag[t].there <=> t \notin r.drop /\ (r.add[t].there \/ version[n][t].there))
      BY <1>0, <1>1, <2>1 DEF RequestSound, TagAgrees, Ends, HasTag
    <2>6. \A t \in Tags : <<n, t>> \notin torn' => <<n, t>> \notin torn \/ r.skill = "dropped"
      BY <1>0, <1>2, <2>2 DEF TornAfter
    <2>7. TornElsewhere(n)
      BY <1>0, <1>2, <2>2 DEF TornAfter, TornElsewhere
    <2>5. TagsAgree(n)'
      BY <1>0, <1>1, <1>2, <2>2, <2>3, <2>4, <2>6 DEF TagsAgree, HasTag
    <2> QED BY <1>0, <1>1, <1>2, <2>1, <2>2, <2>5, <2>7, OneRequest, SlotType DEF StoreInv
  <1> QED BY <1>0, <1>1, <1>3 DEF StoreInv

\* A request that is cut off: what it had touched is torn, and the rest agrees.
LEMMA CutOffSerial == ASSUME StoreInv, NEW s \in StoreSlots, CutOff(s) PROVE StoreInv'
  <1> DEFINE r == storeReq[s]
  <1>0. PICK n \in Namespaces : n = r.ns
    BY SlotType DEF StoreInv
  <1>1. /\ r.step # "idle" /\ storeReq' = [storeReq EXCEPT ![s] = NoStoreRequest]
        /\ torn' = torn \cup ({n} \X Touched(r))
        /\ UNCHANGED <<skill, version, repo, bundle, manifest, storeCalls, storeMixed>>
    BY <1>0 DEF CutOff, stores
  <1>2. Touched(r) \in SUBSET Tags
    BY SlotType DEF Touched, StoreInv
  <1>3. StoreTypeOK'
    BY <1>1, <1>2, NoStoreRequestType DEF StoreInv, StoreTypeOK
  <1>4. storeReq'[s].step = "idle" /\ \A o \in StoreSlots : o # s => storeReq'[o] = storeReq[o]
    BY <1>1, NoStoreRequestType DEF StoreInv, StoreTypeOK
  <1>5. ASSUME ~storeMixed' PROVE StoreSerial'
    <2>1. /\ StoreSerial /\ RequestSound(r) /\ \A o \in StoreSlots : o # s => ~StoreBusy(o)
      BY <1>1, <1>5, WorksAlone DEF StoreBusy
    <2>2. ASSUME NEW t \in Tags, <<n, t>> \notin torn'
          PROVE  HasTag(n, t)' <=> version'[n][t].there
      <3>1. <<n, t>> \notin torn /\ t \notin Touched(r)
        BY <1>1, <2>2
      <3>2. TagAgrees(r, t)
        BY <2>1 DEF RequestSound
      <3>3. ~r.add[t].there /\ ~(Ends(r) /\ t \in r.drop)
        BY <3>1 DEF Touched, Ends
      <3> QED BY <1>0, <1>1, <3>1, <3>2, <3>3 DEF TagAgrees, HasTag
    <2>3. TagsAgree(n)'
      BY <2>2 DEF TagsAgree
    <2>4. TornElsewhere(n)
      BY <1>1 DEF TornElsewhere
    <2> QED BY <1>0, <1>1, <1>4, <2>1, <2>3, <2>4, OneRequest
  <1> QED BY <1>3, <1>5 DEF StoreInv

\* What people and readers do meanwhile touches neither tags nor which rows there are.
LEMMA QuietSerial ==
  ASSUME StoreInv, UNCHANGED <<repo, storeReq, storeCalls, storeMixed, torn>>,
         StoreTypeOK',
         \A n \in Namespaces : \A t \in Tags : version'[n][t].there <=> version[n][t].there,
         \A n \in Namespaces : skill'[n] = "absent" <=> skill[n] = "absent"
  PROVE  StoreInv'
  <1>1. \A s \in StoreSlots : storeReq[s].ns \in Namespaces /\ storeReq[s].tag \in Tags
    BY SlotType DEF StoreInv
  <1>2. ASSUME StoreSerial PROVE StoreSerial'
    <2>1. \A n \in Namespaces : TagsAgree(n) => TagsAgree(n)'
      BY DEF TagsAgree, HasTag
    <2>2. ASSUME NEW s \in StoreSlots, RequestSound(storeReq[s]) PROVE RequestSound(storeReq[s])'
      <3>1. \A t \in Tags : TagAgrees(storeReq[s], t)'
        BY <1>1, <2>2 DEF RequestSound, TagAgrees, HasTag
      <3>2. AddsAreNew(storeReq[s])' /\ SkillStays(storeReq[s])'
        BY <1>1, <2>2 DEF RequestSound, AddsAreNew, SkillStays
      <3>3. ReadsHold(storeReq[s])'
        <4>1. "mirror" \in Namespaces
          BY DEF Namespaces
        <4> QED BY <1>1, <2>2, <4>1 DEF RequestSound, ReadsHold
      <3> QED BY <3>1, <3>2, <3>3 DEF RequestSound
    <2> QED BY <1>2, <2>1, <2>2 DEF StoreSerial, StoreBusy
  <1> QED BY <1>2 DEF StoreInv

LEMMA JudgedInv == ASSUME StoreInv, NEW n \in Namespaces, NEW t \in Tags, Judged(n, t) PROVE StoreInv'
  <1>1. PICK st \in Statuses : version' = [version EXCEPT ![n][t].status = st]
    BY DEF Judged
  <1>2. UNCHANGED <<skill, repo, bundle, manifest, storeReq, storeCalls, storeMixed, torn>>
    BY DEF Judged, Quiet, stores
  <1>3. version \in [Namespaces -> [Tags -> VersionRow]] /\ version[n] \in [Tags -> VersionRow]
        /\ version[n][t] \in VersionRow
    BY DEF StoreInv, StoreTypeOK
  <1> DEFINE row == [version[n][t] EXCEPT !.status = st]
             rows == [version[n] EXCEPT ![t] = row]
  <1>4. row \in VersionRow /\ row.there = version[n][t].there
    BY <1>3 DEF VersionRow
  <1>5. version' = [version EXCEPT ![n] = rows]
    BY <1>1, <1>3
  <1> HIDE DEF row
  <1>6. rows \in [Tags -> VersionRow] /\ \A u \in Tags : rows[u].there = version[n][u].there
    BY <1>3, <1>4
  <1> HIDE DEF rows
  <1>7. version' \in [Namespaces -> [Tags -> VersionRow]]
        /\ \A m \in Namespaces : \A u \in Tags : version'[m][u].there <=> version[m][u].there
    BY <1>3, <1>5, <1>6
  <1>8. StoreTypeOK'
    BY <1>2, <1>7 DEF StoreInv, StoreTypeOK
  <1> QED BY <1>2, <1>7, <1>8, QuietSerial

LEMMA HealInv == ASSUME StoreInv, NEW n \in Namespaces, NEW t \in Tags, Heal(n, t) PROVE StoreInv'
  <1>1. UNCHANGED <<skill, version, repo, storeReq, storeCalls, storeMixed, torn>>
    BY DEF Heal, Quiet
  <1>2. repo[n].tag[t].files \in SUBSET Files /\ version[n][t].status \in Statuses /\ {t} \in SUBSET Tags
    BY DEF StoreInv, StoreTypeOK, Repo, Tree, VersionRow
  <1>3. \/ PutArtifacts(n, t, repo[n].tag[t].files, version[n][t].status)
        \/ DeleteArtifacts(n, {t})
        \/ manifest' = [manifest EXCEPT ![n][t] = "none"] /\ UNCHANGED bundle
    BY DEF Heal
  <1>4. bundle' \in [Namespaces -> [Tags -> Tree]] /\ manifest' \in [Namespaces -> [Tags -> Statuses \cup {"none"}]]
    <2>1. CASE manifest' = [manifest EXCEPT ![n][t] = "none"] /\ UNCHANGED bundle
      BY <2>1 DEF StoreInv, StoreTypeOK
    <2> QED BY <1>2, <1>3, <2>1, PutArtifactsType, DeleteArtifactsType DEF StoreInv
  <1>5. StoreTypeOK'
    BY <1>1, <1>4 DEF StoreInv, StoreTypeOK
  <1> QED BY <1>1, <1>5, QuietSerial

LEMMA StoreTrashInv == ASSUME StoreInv, NEW n \in Namespaces, ToTrash(n) \/ FromTrash(n) PROVE StoreInv'
  <1>1. UNCHANGED <<version, repo, bundle, manifest, storeReq, storeCalls, storeMixed, torn>>
    BY DEF ToTrash, FromTrash, Quiet, stores
  <1>2. /\ skill[n] # "absent"
        /\ skill' = [skill EXCEPT ![n] = "trash"] \/ skill' = [skill EXCEPT ![n] = "live"]
    BY DEF ToTrash, FromTrash
  <1>3. /\ skill' \in [Namespaces -> {"absent", "live", "trash"}]
        /\ \A m \in Namespaces : skill'[m] = "absent" <=> skill[m] = "absent"
    BY <1>2 DEF StoreInv, StoreTypeOK
  <1>4. StoreTypeOK'
    BY <1>1, <1>3 DEF StoreInv, StoreTypeOK
  <1> QED BY <1>1, <1>3, <1>4, QuietSerial

LEMMA StoreInitInv == StoreInit => StoreInv
  <1> SUFFICES ASSUME StoreInit PROVE StoreInv
    OBVIOUS
  <1>1. NoVersion \in VersionRow /\ NoVersion.there = FALSE
    BY DEF NoVersion, VersionRow, Statuses
  <1>2. NoRepo \in Repo /\ \A t \in Tags : NoRepo.tag[t].there = FALSE
    BY NoRepoType, TreeTypes
  <1>3. StoreTypeOK
    <2>1. version \in [Namespaces -> [Tags -> VersionRow]] /\ repo \in [Namespaces -> Repo]
      BY <1>1, <1>2 DEF StoreInit
    <2>2. /\ bundle \in [Namespaces -> [Tags -> Tree]] /\ storeReq \in [StoreSlots -> StoreRequest]
          /\ manifest \in [Namespaces -> [Tags -> Statuses \cup {"none"}]]
      BY NoStoreRequestType, TreeTypes DEF StoreInit
    <2>3. skill \in [Namespaces -> {"absent", "live", "trash"}] /\ storeCalls \in 0 .. MaxStoreCalls
      BY StoreAssumption DEF StoreInit
    <2> QED BY <2>1, <2>2, <2>3 DEF StoreInit, StoreTypeOK
  <1>4. \A n \in Namespaces : TagsAgree(n)
    BY <1>1, <1>2 DEF TagsAgree, HasTag, StoreInit
  <1>5. \A s \in StoreSlots : ~StoreBusy(s)
    BY NoStoreRequestType DEF StoreBusy, StoreInit
  <1> QED BY <1>3, <1>4, <1>5 DEF StoreInv, StoreSerial

LEMMA StoreStepInv == ASSUME StoreInv, StoreNext PROVE StoreInv'
  <1>1. CASE \E s \in StoreSlots, n \in Namespaces :
               \/ CreateSkill(s, n) \/ Purge(s, n)
               \/ \E t \in Tags : DeleteVersion(s, n, t)
               \/ \E t \in Tags, fs \in SUBSET Files \ {{}} : ApiPublish(s, n, t, fs) \/ CompatPublish(s, n, t, fs)
               \/ \E ts \in SUBSET Tags : \E refused \in SUBSET ts : Retain(s, n, ts, refused)
    <2>1. PICK s \in StoreSlots, n \in Namespaces :
               \/ CreateSkill(s, n) \/ Purge(s, n)
               \/ \E t \in Tags : DeleteVersion(s, n, t)
               \/ \E t \in Tags, fs \in SUBSET Files \ {{}} : ApiPublish(s, n, t, fs) \/ CompatPublish(s, n, t, fs)
               \/ \E ts \in SUBSET Tags : \E refused \in SUBSET ts : Retain(s, n, ts, refused)
      BY <1>1
    <2>2. CASE CreateSkill(s, n)
      BY <2>2, CreateSkillSerial
    <2>3. CASE \/ Purge(s, n) \/ \E t \in Tags : DeleteVersion(s, n, t)
               \/ \E ts \in SUBSET Tags : \E refused \in SUBSET ts : Retain(s, n, ts, refused)
      BY <2>3, DropInv
    <2>4. CASE \E t \in Tags, fs \in SUBSET Files \ {{}} : ApiPublish(s, n, t, fs) \/ CompatPublish(s, n, t, fs)
      BY <2>4, ApiPublishSerial, CompatPublishSerial
    <2> QED BY <2>1, <2>2, <2>3, <2>4
  <1>2. CASE \E s \in StoreSlots :
               \/ Push(s) \/ Duplicate(s) \/ Store(s) \/ StoreFails(s) \/ StoreBreaks(s) \/ CopyEnds(s)
               \/ CommitStore(s) \/ CutOff(s)
    BY <1>2, PushSerial, DuplicateSerial, StoreSerialStep, StoreFailsSerial, StoreBreaksSerial, CopyEndsSerial,
       CommitStoreSerial, CutOffSerial
  <1>3. CASE \E s \in StoreSlots : RunRule(s, Tags) \/ \E t \in Tags : RunRule(s, {t}) \/ CopyOne(s, t)
    <2>1. Tags \in SUBSET Tags /\ \A t \in Tags : {t} \in SUBSET Tags
      OBVIOUS
    <2> QED BY <1>3, <2>1, RunRuleSerial, CopyOneSerial
  <1>4. CASE \E n \in Namespaces : ToTrash(n) \/ FromTrash(n) \/ \E t \in Tags : Judged(n, t) \/ Heal(n, t)
    BY <1>4, StoreTrashInv, JudgedInv, HealInv
  <1> QED BY <1>1, <1>2, <1>3, <1>4 DEF StoreNext

LEMMA StoreInvHolds == StoreSpec => []StoreInv
  <1>1. StoreInv /\ UNCHANGED storeVars => StoreInv'
    <2> SUFFICES ASSUME StoreInv, UNCHANGED storeVars PROVE StoreInv'
      OBVIOUS
    <2>1. UNCHANGED <<skill, version, repo, bundle, manifest, storeReq, storeCalls, storeMixed, torn>>
      BY DEF storeVars
    <2>2. StoreTypeOK'
      BY <2>1 DEF StoreInv, StoreTypeOK
    <2> QED BY <2>1, <2>2, QuietSerial
  <1>2. StoreInv /\ [StoreNext]_storeVars => StoreInv'
    BY <1>1, StoreStepInv
  <1> QED BY StoreInitInv, <1>2, PTL DEF StoreSpec

\* Every publication, deletion, purge, run of a rule, loss and repair leaves rows,
\* repositories and artifacts in their types.
THEOREM StoreTypes == StoreSpec => []StoreTypeOK
  <1>1. StoreInv => StoreTypeOK
    BY DEF StoreInv
  <1> QED BY <1>1, StoreInvHolds, PTL

\* As long as no requests overlapped, a namespace nobody is working on has a tag for
\* every version and no other tag, but for the tags a request that was cut off or refused
\* by git had been working on; for every number of tags, files, requests and errors.
THEOREM TagsFollowRows == StoreSpec => []TagsMatchRows
  <1>1. StoreInv => TagsMatchRows
    <2> SUFFICES ASSUME StoreInv, ~storeMixed, NEW n \in Namespaces, NEW t \in Tags, <<n, t>> \notin torn,
                        \A s \in StoreSlots : storeReq[s].step = "idle" \/ storeReq[s].ns # n
                 PROVE  HasTag(n, t) <=> version[n][t].there
      BY DEF TagsMatchRows
    <2>1. TagsAgree(n)
      BY DEF StoreInv, StoreSerial, StoreBusy
    <2> QED BY <2>1 DEF TagsAgree
  <1> QED BY <1>1, StoreInvHolds, PTL
===============================================================================
