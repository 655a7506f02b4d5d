-------------------------------- MODULE Handover --------------------------------
(*******************************************************************************)
(* A handover case: backend/app/api/v1/endpoints/control_plane.py, the          *)
(* endpoints under /handovers.                                                 *)
(*                                                                             *)
(* A manager collects and analyzes the assets of a subject into items, asks    *)
(* approvers, executes the approved items by hand and files a receipt per      *)
(* action; the receiver verifies.  The rows of a case are shared with no other *)
(* case, so the module is about one of them.                                   *)
(*                                                                             *)
(* Every endpoint is a transaction of two steps (see UnitOfWork).  Begin reads *)
(* the snapshot, evaluates the guards and computes what the handler assigns;   *)
(* Commit flushes it.  Only execute reads the case FOR UPDATE, so only its     *)
(* guards are evaluated at Commit.  With one slot requests never overlap.      *)
(*******************************************************************************)
EXTENDS Naturals, FiniteSets, UnitOfWork

CONSTANTS
    Items,          \* handover_items rows that may be created
    Assets,         \* AI assets of the subject
    AssetOf,        \* [Items -> Assets]
    Tasks,          \* approval_tasks rows that may be created
    Keys,           \* idempotency keys of execute requests
    Slots,          \* requests the API serves at the same time
    None,           \* SQL NULL
    MaxExecutions   \* bound: execute requests that create actions

ASSUME HandoverAssumption ==
    /\ AssetOf \in [Items -> Assets]
    /\ None \notin Keys
    /\ MaxExecutions \in Nat \ {0}

VARIABLES
    db,    \* the rows of the case
    req,   \* [Slots -> Request]: the requests the API is serving
    mixed  \* history: whether two requests were ever served at once

vars == <<db, req, mixed>>

-------------------------------------------------------------------------------
\* HandoverStatus.  analyzing is only ever set inside a transaction that goes on
\* to pending_approval, and nothing sets cancelled.
Status   == {"draft", "collecting", "analyzing", "pending_approval", "approved",
             "executing", "verifying", "completed", "rejected", "cancelled"}
Terminal == {"completed", "rejected", "cancelled"}

\* The actions created by the n-th execution, one for each executed item.
Rounds  == 1 .. MaxExecutions
Actions == Items \X Rounds

\* "none" is a row that does not exist.
Case == [status : Status,
         item   : [Items -> {"none", "proposed", "executing", "done", "failed"}],
         task   : [Tasks -> {"none", "pending", "approved", "rejected"}],
         act    : [Actions -> {"none", "pending", "succeeded", "failed"}],
         key    : [Rounds -> Keys \cup {None}],
         acked  : BOOLEAN]     \* acknowledge_failures, as the audit log has it

NewCase == [status |-> "draft",
            item   |-> [i \in Items |-> "none"],
            task   |-> [t \in Tasks |-> "none"],
            act    |-> [a \in Actions |-> "none"],
            key    |-> [r \in Rounds |-> None],
            acked  |-> FALSE]

\* A request: the rows it loaded and the rows as the handler leaves them.  An
\* execute request names its items and key instead; it assigns when it commits.
Request == [op : {"none", "write", "execute"}, snap : Case, new : Case,
            selected : SUBSET Items, key : Keys \cup {None}]
NoRequest == [op |-> "none", snap |-> NewCase, new |-> NewCase, selected |-> {}, key |-> None]

TypeOK == db \in Case /\ req \in [Slots -> Request] /\ mixed \in BOOLEAN

Init == db = NewCase /\ req = [s \in Slots |-> NoRequest] /\ mixed = FALSE
-------------------------------------------------------------------------------
Existing(c) == {i \in Items : c.item[i] # "none"}
Asked(c)    == {t \in Tasks : c.task[t] # "none"}
Undone(c)   == {a \in Actions : c.act[a] = "pending"}
OpenItems(c) == {i \in Items : c.item[i] \in {"proposed", "executing"}}
HasFailure(c) ==
    (\E a \in Actions : c.act[a] = "failed") \/ (\E i \in Items : c.item[i] = "failed")

\* Primary keys: a row number is given out once, to whoever asks first.
FreshItem(i) == i \notin Existing(db) /\ \A s \in Slots : i \notin Existing(req[s].new)
FreshTask(t) == t \notin Asked(db)    /\ \A s \in Slots : t \notin Asked(req[s].new)

\* Faults: definitions of the form Fault... are not part of the model.  Each is a
\* plausible mistake in the definition that follows it, and PROJECT.json names the
\* property that fails when the definition is replaced by it.
FaultTransition(allowed) == TRUE

\* _assert_transition, on the snapshot.
Transition(allowed) == db.status \in allowed

Accept(s, q) ==
    /\ req[s] = NoRequest
    /\ req' = [req EXCEPT ![s] = q]
    /\ mixed' = (mixed \/ \E o \in Slots \ {s} : req[o] # NoRequest)
    /\ UNCHANGED db

Begin(s, new) ==
    Accept(s, [op |-> "write", snap |-> db, new |-> new, selected |-> {}, key |-> None])

Collect(s) ==
    /\ Transition({"draft", "collecting"})
    /\ Begin(s, [db EXCEPT !.status = "collecting"])

\* create_handover_item has no guard on the status of the case.
CreateItem(s, i) ==
    /\ FreshItem(i)
    /\ Begin(s, [db EXCEPT !.item[i] = "proposed"])

\* One new item for each asset that has none; found are the assets of the subject.
Analyze(s, found, fresh) ==
    LET covered == {AssetOf[i] : i \in Existing(db)} IN
    /\ Transition({"draft", "collecting", "analyzing"})
    /\ \A i \in fresh : FreshItem(i)
    /\ {AssetOf[i] : i \in fresh} = found \ covered
    /\ Cardinality(fresh) = Cardinality(found \ covered)
    /\ Begin(s, [db EXCEPT !.status = "pending_approval",
                           !.item = [i \in Items |-> IF i \in fresh THEN "proposed" ELSE @[i]]])

\* The list of approvals may be empty.
Submit(s, approvals) ==
    /\ Transition({"draft", "analyzing", "pending_approval"})
    /\ Existing(db) # {}
    /\ \A t \in approvals : FreshTask(t)
    /\ Begin(s, [db EXCEPT !.status = "pending_approval",
                           !.task = [t \in Tasks |-> IF t \in approvals THEN "pending" ELSE @[t]]])

FaultDecided(c, t, decision) == IF decision = "rejected" THEN "rejected" ELSE "approved"

\* The status of the case after the decision on t, in decide_approval.
Decided(c, t, decision) ==
    CASE decision = "rejected" -> "rejected"
      [] decision = "approved" /\ (\A u \in Asked(c) \ {t} : c.task[u] = "approved") -> "approved"
      [] OTHER -> c.status

Decide(s, t, decision) ==
    /\ db.status = "pending_approval"
    /\ db.task[t] = "pending"
    /\ Begin(s, [db EXCEPT !.task[t] = decision, !.status = Decided(db, t, decision)])

FaultItemResult(result) == result

\* What a receipt makes of the item its action was for.
ItemResult(result) == IF result = "succeeded" THEN "done" ELSE "failed"

FaultFinished(c, a) == TRUE

\* No action of the case remains to be done but a.
Finished(c, a) == Undone(c) \subseteq {a}

\* complete_execution_action.  A receipt may be refused for want of evidence, and a
\* repeated receipt is answered from the first one; neither changes a row.
Complete(s, a, result) ==
    /\ db.act[a] = "pending"
    /\ db.status = "executing"
    /\ Begin(s, [db EXCEPT !.act[a] = result,
                           !.item[a[1]] = ItemResult(result),
                           !.status = IF Finished(db, a) THEN "verifying" ELSE @])

\* HANDOVER-05: failures must be acknowledged.
Acknowledged(c, ack) == HasFailure(c) => ack

Verify(s, ack) ==
    /\ db.status = "verifying"
    /\ OpenItems(db) = {}
    /\ Acknowledged(db, ack)
    /\ Begin(s, [db EXCEPT !.status = "completed", !.acked = ack])

\* The flush: a row or a column the handler left as it loaded it is not written.
Commit(s) ==
    LET q == req[s] IN
    /\ q.op = "write"
    /\ db' = [status |-> IF q.new.status = q.snap.status THEN db.status ELSE q.new.status,
              item   |-> Flush(db.item, q.snap.item, q.new.item),
              task   |-> Flush(db.task, q.snap.task, q.new.task),
              act    |-> Flush(db.act, q.snap.act, q.new.act),
              key    |-> db.key,
              acked  |-> IF q.new.acked = q.snap.acked THEN db.acked ELSE q.new.acked]
    /\ req' = [req EXCEPT ![s] = NoRequest]
    /\ UNCHANGED mixed

\* execute_handover up to the SELECT ... FOR UPDATE of the case.
BeginExecute(s, selected, key) ==
    /\ selected # {} /\ selected \subseteq Existing(db)
    /\ Accept(s, [op |-> "execute", snap |-> db, new |-> db, selected |-> selected, key |-> key])

\* _existing_execution_actions_for_idempotency reads the latest rows, and
\* uq_execution_actions_case_idempotency_key says the same.
KeyTaken(q) == \E r \in Rounds : db.key[r] = q.key /\ q.key # None

FaultExecutable(q) == q.snap.status \notin Terminal

\* The status was read FOR UPDATE.
Executable(q) == db.status = "approved"

\* The items come from the snapshot, the case and the keys are current.
CommitExecute(s, r) ==
    LET q == req[s] IN
    /\ q.op = "execute"
    /\ ~KeyTaken(q)
    /\ Executable(q)
    /\ \A i \in Items : db.act[<<i, r>>] = "none"
    /\ \A n \in 1 .. r - 1 : \E i \in Items : db.act[<<i, n>>] # "none"
    /\ db' = [db EXCEPT
                 !.status = "executing",
                 !.item = [i \in Items |-> IF i \in q.selected /\ q.snap.item[i] # "executing"
                                           THEN "executing" ELSE @[i]],
                 !.act = [a \in Actions |-> IF a \in q.selected \X {r} THEN "pending" ELSE @[a]],
                 !.key[r] = q.key]
    /\ req' = [req EXCEPT ![s] = NoRequest]
    /\ UNCHANGED mixed

\* The actions made under the same key are returned, or 409.
RefuseExecute(s) ==
    LET q == req[s] IN
    /\ q.op = "execute"
    /\ KeyTaken(q) \/ ~Executable(q)
    /\ req' = [req EXCEPT ![s] = NoRequest]
    /\ UNCHANGED <<db, mixed>>

-------------------------------------------------------------------------------
Manage(s) ==
    \/ Collect(s)
    \/ \E i \in Items : CreateItem(s, i)
    \/ \E found \in SUBSET Assets, fresh \in SUBSET Items : Analyze(s, found, fresh)
    \/ \E approvals \in SUBSET Tasks : Submit(s, approvals)
    \/ \E selected \in SUBSET Items, key \in Keys \cup {None} : BeginExecute(s, selected, key)
    \/ \E a \in Actions, result \in {"succeeded", "failed"} : Complete(s, a, result)

Approve(s) == \E t \in Tasks, decision \in {"approved", "rejected"} : Decide(s, t, decision)

Confirm(s) == \E ack \in BOOLEAN : Verify(s, ack)

Serve(s) == Commit(s) \/ (\E r \in Rounds : CommitExecute(s, r)) \/ RefuseExecute(s)

Next == \E s \in Slots : Manage(s) \/ Approve(s) \/ Confirm(s) \/ Serve(s)

Spec == Init /\ [][Next]_vars
-------------------------------------------------------------------------------
(* Safety, most of it while requests have not overlapped *)

\* FR-011: nothing is approved, executed, verified or closed unless somebody was
\* asked and everybody who was asked has approved.
GateRespected ==
    ~mixed /\ db.status \in {"approved", "executing", "verifying", "completed"} =>
        Asked(db) # {} /\ \A t \in Asked(db) : db.task[t] = "approved"

\* FR-010: the case goes through its statuses in one direction, and a completed or
\* rejected case stays so.
Rank(status) ==
    CASE status = "draft"            -> 0
      [] status = "collecting"       -> 1
      [] status = "analyzing"        -> 2
      [] status = "pending_approval" -> 3
      [] status = "approved"         -> 4
      [] status = "executing"        -> 5
      [] status = "verifying"        -> 6
      [] status \in Terminal         -> 7
ForwardOnly ==
    [][~mixed => /\ Rank(db'.status) >= Rank(db.status)
                 /\ db.status \in Terminal => db'.status = db.status]_vars

\* Receipts, items and the case agree.  The receipt of an item that was executed once
\* decides its status, whatever overlaps: two receipts for one action never leave the
\* action and the item with different results.  While requests have not overlapped, the
\* case is executing exactly while an action waits for its receipt, and it does not wait
\* for approvals when everybody who was asked has approved; and (HANDOVER-05) it is not
\* completed with a failed action unless the failure was acknowledged.
WorkMatchesStatus ==
    /\ \A i \in Items, r \in Rounds :
          (\A n \in Rounds \ {r} : db.act[<<i, n>>] = "none") =>
              /\ db.act[<<i, r>>] = "succeeded" <=> db.item[i] = "done"
              /\ db.act[<<i, r>>] = "failed" <=> db.item[i] = "failed"
    /\ \/ mixed
       \/ /\ db.status = "executing" <=> Undone(db) # {}
          /\ db.status = "pending_approval" /\ Asked(db) # {} =>
               \E t \in Asked(db) : db.task[t] # "approved"
          /\ db.status = "completed" /\ (\E a \in Actions : db.act[a] = "failed") => db.acked

\* HANDOVER-02: no item is disposed of twice: an idempotency key creates at most one set
\* of actions, whatever overlaps, and other keys only for items that have none yet.
ExecutedOnce ==
    /\ \A r, n \in Rounds : db.key[r] = db.key[n] /\ db.key[r] # None => r = n
    /\ ~mixed => \A i \in Items, r, n \in Rounds :
          db.act[<<i, r>>] # "none" /\ db.act[<<i, n>>] # "none" => r = n

=================================================================================
