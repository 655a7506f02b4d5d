------------------------------ MODULE RegistryFeed ------------------------------
(*******************************************************************************)
(* What clients of the registry see of one skill: the current index, and the   *)
(* stream of events they follow with a cursor (endpoints/registry.py and       *)
(* sync_event_service).                                                        *)
(*                                                                             *)
(* A request that changes versions inserts its events before it commits: their *)
(* numbers are given out at the insert and never taken back, the rows are seen *)
(* after the commit.                                                           *)
(*******************************************************************************)
EXTENDS Naturals, Sequences, FiniteSets, FiniteSetsExt, UnitOfWork

CONSTANTS
    Releases,     \* versions, numbered in the order of their creation
    FeedSlots,    \* requests served at the same time
    Followers,    \* clients that follow the events
    PageSize,     \* events of one answer
    MaxEvents     \* bound: event numbers given out

ASSUME FeedAssumption ==
    /\ Releases \subseteq Nat \ {0} /\ IsFiniteSet(Releases)
    /\ PageSize \in Nat \ {0} /\ MaxEvents \in Nat

VARIABLES
    release,     \* [Releases -> ReleaseRow]
    trashed,     \* whether the skill is in the trash
    feed,        \* [EventIds -> Event]: committed events
    nextEvent,   \* the number of the next event
    feedReq,     \* [FeedSlots -> FeedRequest]
    follower,    \* [Followers -> Follower]
    silent,      \* history: versions withdrawn without an event, until they are announced again
    feedMixed    \* history: whether two requests were ever served at once

feedVars == <<release, trashed, feed, nextEvent, feedReq, follower, silent, feedMixed>>
-------------------------------------------------------------------------------
EventIds == 1 .. MaxEvents

\* expired: the date until which the version is shared has passed.
ReleaseRow == [status : {"absent", "quarantine", "production", "rejected"},
               share  : {"none", "pending", "approved"}, expired : BOOLEAN]
NoRelease  == [status |-> "absent", share |-> "none", expired |-> FALSE]

\* of: the version, or 0 for the whole skill.
Event   == [kind : {"none", "upsert", "state", "tombstone"}, of : Releases \cup {0}, public : BOOLEAN]
NoEvent == [kind |-> "none", of |-> 0, public |-> FALSE]
NoEvents == [e \in EventIds |-> NoEvent]

\* wrong: the versions of which the events say that they are public, and the rows do not.
FeedRequest == [busy : BOOLEAN, snap : [Releases -> ReleaseRow], new : [Releases -> ReleaseRow],
                trash : {"kept", "in", "out"}, events : [EventIds -> Event], wrong : SUBSET Releases]
NoFeedRequest == [busy |-> FALSE, snap |-> [v \in Releases |-> NoRelease],
                  new |-> [v \in Releases |-> NoRelease], trash |-> "kept", events |-> NoEvents,
                  wrong |-> {}]

\* anonymous: whether it signs in; copy: the versions it holds.
Follower == [anonymous : BOOLEAN, cursor : 0 .. MaxEvents, copy : SUBSET Releases]

FeedTypeOK ==
    /\ release \in [Releases -> ReleaseRow] /\ trashed \in BOOLEAN
    /\ feed \in [EventIds -> Event] /\ nextEvent \in 1 .. MaxEvents + 1
    /\ feedReq \in [FeedSlots -> FeedRequest]
    /\ follower \in [Followers -> Follower]
    /\ silent \subseteq Releases /\ feedMixed \in BOOLEAN

FeedInit ==
    /\ release = [v \in Releases |-> NoRelease] /\ trashed = FALSE
    /\ feed = NoEvents /\ nextEvent = 1
    /\ feedReq = [s \in FeedSlots |-> NoFeedRequest]
    /\ follower \in [Followers -> {f \in Follower : f.cursor = 0 /\ f.copy = {}}]
    /\ silent = {} /\ feedMixed = FALSE
-------------------------------------------------------------------------------
\* is_publicly_available, and derive_sync_state.
Available(r) == r.status = "production" /\ r.share = "approved" /\ ~r.expired
SyncState(r) ==
    CASE Available(r) -> "live"
      [] r.share = "none" -> "hidden"
      [] OTHER -> IF (r.share = "pending" /\ ~r.expired) \/ r.status = "quarantine"
                  THEN "pending" ELSE "hidden"

\* What anonymous clients may see now.
LiveReleases == IF trashed THEN {} ELSE {v \in Releases : Available(release[v])}

\* record_version_sync_event: the event of one version.
EventOf(v, was, now) ==
    CASE was = "live" /\ now # "live" -> [kind |-> "tombstone", of |-> v, public |-> TRUE]
      [] now = "live" -> [kind |-> "upsert", of |-> v, public |-> TRUE]
      [] OTHER -> [kind |-> "state", of |-> v, public |-> now = "pending"]

\* A request that has inserted events, in this order.
Numbered(events) ==
    [e \in EventIds |-> IF e - nextEvent + 1 \in DOMAIN events THEN events[e - nextEvent + 1] ELSE NoEvent]

ServeFeed(s, new, trash, events, wrong) ==
    /\ ~feedReq[s].busy
    /\ nextEvent + Len(events) <= MaxEvents + 1
    /\ nextEvent' = nextEvent + Len(events)
    /\ feedReq' = [feedReq EXCEPT ![s] = [busy |-> TRUE, snap |-> release, new |-> new,
                                          trash |-> trash, events |-> Numbered(events), wrong |-> wrong]]
    /\ feedMixed' = (feedMixed \/ \E o \in FeedSlots : feedReq[o].busy)
    /\ UNCHANGED <<release, trashed, feed, follower, silent>>

Shared(vs) == \E v \in vs : release[v].share # "none"

\* Publication of a version, the newest: it is announced if it is shared.
AddRelease(s, v, share) ==
    LET r == [NoRelease EXCEPT !.status = "quarantine", !.share = share] IN
    /\ ~trashed /\ \A u \in Releases : u >= v => release[u].status = "absent"
    /\ ServeFeed(s, [release EXCEPT ![v] = r], "kept",
                 IF share = "none" THEN <<>> ELSE <<EventOf(v, "hidden", SyncState(r))>>, {})

\* The other handlers derive the state before and after their own change: scan and review
\* change the status, sharing and its approval the release, with a new date or none.
ChangeRelease(s, v, was, r) ==
    /\ ~trashed /\ release[v].status # "absent" /\ (r # release[v] \/ was # SyncState(release[v]))
    /\ ServeFeed(s, [release EXCEPT ![v] = r], "kept", <<EventOf(v, was, SyncState(r))>>, {})

ShareRelease(s, v, share) ==
    ChangeRelease(s, v, SyncState(release[v]), [release[v] EXCEPT !.share = share, !.expired = FALSE])

\* A scan that is delivered again has read the state before it took the version out.
Before(v) == {SyncState(release[v])} \cup (IF v \in silent THEN {"live"} ELSE {})

Decided(v, status) == [release[v] EXCEPT !.status = status]
JudgeRelease(s, v, was, status) == was \in Before(v) /\ ChangeRelease(s, v, was, Decided(v, status))

\* A scan that fails behind its event (_fail_scan): the event of what was decided is
\* committed with the rejected row.
FailRelease(s, v, was, status) ==
    /\ ~trashed /\ release[v].status # "absent" /\ was \in Before(v)
    /\ ServeFeed(s, [release EXCEPT ![v].status = "rejected"], "kept",
                 <<EventOf(v, was, SyncState(Decided(v, status)))>>,
                 IF Available(Decided(v, status)) THEN {v} ELSE {})

\* delete_version: when the last version that was shared goes, also a tombstone of the skill.
SkillTombstone(public) == [kind |-> "tombstone", of |-> 0, public |-> public]

DeleteRelease(s, v) ==
    LET last == release[v].share # "none" /\ ~Shared(Releases \ {v}) IN
    /\ ~trashed /\ release[v].status # "absent"
    /\ ServeFeed(s, [release EXCEPT ![v] = NoRelease], "kept",
                 <<EventOf(v, SyncState(release[v]), "hidden")>>
                 \o IF last THEN <<SkillTombstone(TRUE)>> ELSE <<>>, {})

\* The ith of some versions, by age.
Nth(vs, i) == CHOOSE v \in vs : Cardinality({u \in vs : u <= v}) = i

\* delete_skill: public if any version was shared.  restore_skill: an event for each version.
TrashSkill(s) ==
    /\ ~trashed
    /\ ServeFeed(s, release, "in", <<SkillTombstone(Shared(Releases))>>, {})

UntrashSkill(s) ==
    LET vs == {v \in Releases : release[v].status # "absent"} IN
    /\ trashed
    /\ ServeFeed(s, release, "out",
                 [i \in 1 .. Cardinality(vs) |->
                     EventOf(Nth(vs, i), "tombstone", SyncState(release[Nth(vs, i)]))], {})

CommitFeed(s) ==
    LET r == feedReq[s] IN
    /\ r.busy
    /\ release' = FlushRows(release, r.snap, r.new)
    /\ trashed' = (IF r.trash = "kept" THEN trashed ELSE r.trash = "in")
    /\ feed' = [e \in EventIds |-> IF r.events[e] = NoEvent THEN feed[e] ELSE r.events[e]]
    /\ feedReq' = [feedReq EXCEPT ![s] = NoFeedRequest]
    /\ silent' = r.wrong \cup {v \in silent : release'[v].expired \/ \A e \in EventIds :
                        r.events[e].kind \in {"upsert", "tombstone"} /\ r.events[e].public
                            => r.events[e].of \notin {v, 0}}
    /\ UNCHANGED <<nextEvent, follower, feedMixed>>

\* An error after the flush: the numbers are lost.
AbortFeed(s) ==
    /\ feedReq[s].busy
    /\ feedReq' = [feedReq EXCEPT ![s] = NoFeedRequest]
    /\ UNCHANGED <<release, trashed, feed, nextEvent, follower, silent, feedMixed>>

\* The date passes.  Nothing is recorded, then or when the sweep deletes the release.
Expire(v) ==
    /\ release[v].share # "none" /\ ~release[v].expired
    /\ release' = [release EXCEPT ![v].expired = TRUE]
    /\ silent' = silent \cup {v}
    /\ UNCHANGED <<trashed, feed, nextEvent, feedReq, follower, feedMixed>>

Unannounced == /\ feedMixed' = (feedMixed \/ \E o \in FeedSlots : feedReq[o].busy)
               /\ UNCHANGED <<trashed, feed, nextEvent, feedReq, follower>>

Sweep(v) ==
    /\ release[v].expired
    /\ release' = [release EXCEPT ![v].share = "none", ![v].expired = FALSE]
    /\ Unannounced /\ UNCHANGED silent

\* A version is scanned again (it is quarantined, and scanning), or its scan is given up
\* (it is rejected): neither is recorded.
Rescan(v, status) ==
    /\ release[v].status \notin {"absent", status}
    /\ release' = [release EXCEPT ![v].status = status]
    /\ silent' = silent \cup {v}
    /\ Unannounced

\* Retention (_async_gc) deletes rejected versions and the oldest of the others.
Expendable(vs) == \A v \in vs : \/ release[v].status = "rejected"
                                \/ \A u \in Releases \ vs : u < v => release[u].status \in {"absent", "rejected"}
Collect(vs) ==
    /\ vs # {} /\ Expendable(vs) /\ \A v \in vs : release[v].status # "absent"
    /\ release' = [v \in Releases |-> IF v \in vs THEN NoRelease ELSE release[v]]
    /\ silent' = silent \cup vs
    /\ Unannounced
-------------------------------------------------------------------------------
\* registry_events: the page after the cursor, of the events the caller may see.
Visible(f, e) ==
    /\ feed[e].kind # "none"
    /\ f.anonymous => feed[e].public /\ feed[e].kind # "state"

After(f)  == {e \in EventIds : e > f.cursor /\ Visible(f, e)}
PageOf(f) == {e \in After(f) : Cardinality({d \in After(f) : d <= e}) <= PageSize}

\* A fault: the newest number there is.
FaultNextCursor(f) == LET there == {e \in EventIds : feed[e].kind # "none"} IN
                      IF PageOf(f) = {} THEN f.cursor ELSE Max(there)
NextCursor(f) == IF PageOf(f) = {} THEN f.cursor ELSE Max(PageOf(f))

\* The client applies the page in order: what counts for a version is the last event of
\* its own or of the skill.
Applied(copy, page) ==
    LET about(v) == {e \in page : feed[e].of \in {v, 0} /\ feed[e].kind # "state"} IN
    {v \in Releases : IF about(v) = {} THEN v \in copy
                      ELSE feed[Max(about(v))].kind = "upsert"}

Pull(f) ==
    /\ PageOf(follower[f]) # {}
    /\ follower' = [follower EXCEPT ![f].cursor = NextCursor(follower[f]),
                                    ![f].copy = Applied(@, PageOf(follower[f]))]
    /\ UNCHANGED <<release, trashed, feed, nextEvent, feedReq, silent, feedMixed>>

\* registry_index for anonymous clients: the versions in production, newest first, only the
\* first of them if asked, and of these the public ones.
IndexOf(latest) ==
    LET production == {v \in Releases : release[v].status = "production"}
        selected == IF latest /\ production # {} THEN {Max(production)} ELSE production
    IN  selected \cap LiveReleases

\* A client that has lost its copy starts from the index and cursor 0.
ColdStart(f) ==
    /\ follower[f].cursor # 0
    /\ follower' = [follower EXCEPT ![f].cursor = 0, ![f].copy = IndexOf(FALSE)]
    /\ UNCHANGED <<release, trashed, feed, nextEvent, feedReq, silent, feedMixed>>

FeedNext ==
    \/ \E s \in FeedSlots :
         \/ TrashSkill(s) \/ UntrashSkill(s) \/ CommitFeed(s) \/ AbortFeed(s)
         \/ \E v \in Releases :
              \/ \E share \in {"none", "pending", "approved"} : AddRelease(s, v, share)
              \/ \E share \in {"none", "pending", "approved"} : ShareRelease(s, v, share)
              \/ \E was \in {"live", "pending", "hidden"} :
                    \/ \E status \in {"quarantine", "production", "rejected"} : JudgeRelease(s, v, was, status)
                    \/ \E status \in {"production", "rejected"} : FailRelease(s, v, was, status)
              \/ DeleteRelease(s, v)
    \/ \E v \in Releases : Expire(v) \/ Sweep(v) \/ \E status \in {"quarantine", "rejected"} : Rescan(v, status)
    \/ \E vs \in SUBSET Releases : Collect(vs)
    \/ \E f \in Followers : Pull(f) \/ ColdStart(f)

FeedSpec == FeedInit /\ [][FeedNext]_feedVars
-------------------------------------------------------------------------------
\* A client that has read the stream to its end holds every public version, whatever it
\* skipped, missed or replayed, and no other but those that were withdrawn without an event
\* since they were last announced (a share that ran out, a rescan or a failed scan,
\* retention): unless requests overlapped (the numbers of two of them may become visible in
\* the other order; a scan is a request from its start).
CaughtUpMirrors ==
    ~feedMixed =>
        \A f \in Followers : After(follower[f]) = {} =>
            /\ LiveReleases \subseteq follower[f].copy
            /\ follower[f].copy \ LiveReleases \subseteq silent

\* registry-sync-contract.md on latest_only: the newest visible version of the skill.
NewestVisibleListed == LiveReleases # {} => IndexOf(TRUE) = {Max(LiveReleases)}
=================================================================================
