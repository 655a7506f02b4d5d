----------------------------- MODULE HandoverProofs -----------------------------
(* The properties of Handover for every number of items, assets, approvers, keys,  *)
(* overlapping requests and executions.                                            *)
(*                                                                                 *)
(* Two arguments meet in the invariant.  While requests have not overlapped, the   *)
(* one that is served has loaded the rows as they are, so that its flush leaves    *)
(* them as its handler computed them (SerialOK).  Whatever overlaps, rows are      *)
(* never taken back, and a request knows what it may write from what it has loaded *)
(* (RequestOK), which keeps actions, items and keys together (RowsOK, KeysOK).     *)
EXTENDS Handover, TLAPS

Busy(s) == req[s] # NoRequest

(* Whatever overlaps *)

\* Actions are of items that are there; an item that is executing has an action; the
\* receipt of an item that was executed once decides its status.
RowsOK(c) ==
    \A i \in Items :
        /\ c.item[i] = "none" => \A r \in Rounds : c.act[<<i, r>>] = "none"
        /\ c.item[i] = "executing" => \E r \in Rounds : c.act[<<i, r>>] # "none"
        /\ \A r \in Rounds :
              (\A n \in Rounds \ {r} : c.act[<<i, n>>] = "none") =>
                  /\ c.act[<<i, r>>] = "succeeded" <=> c.item[i] = "done"
                  /\ c.act[<<i, r>>] = "failed" <=> c.item[i] = "failed"

\* What handlers do to the rows they have loaded: add items, or file a receipt.
Grows(c, d) ==
    /\ d.act = c.act
    /\ \A i \in Items : d.item[i] = c.item[i] \/ (c.item[i] = "none" /\ d.item[i] = "proposed")
Files(c, d) ==
    \E a \in Actions, result \in {"succeeded", "failed"} :
        /\ c.act[a] = "pending"
        /\ d.act = [c.act EXCEPT ![a] = result]
        /\ d.item = [c.item EXCEPT ![a[1]] = ItemResult(result)]
Handled(c, d) == d.key = c.key /\ (Grows(c, d) \/ Files(c, d))

\* Rows that were there are there.
Since(c) == /\ \A i \in Items : c.item[i] # "none" => db.item[i] # "none"
            /\ \A a \in Actions : c.act[a] # "none" => db.act[a] # "none"

\* Items a request adds are added by no other.
Adds(q, i) == q.snap.item[i] = "none" /\ q.new.item[i] # "none"

RequestOK(s) ==
    /\ req[s].op = "none" => req[s] = NoRequest
    /\ Busy(s) => RowsOK(req[s].snap) /\ Since(req[s].snap)
    /\ req[s].op = "write" => Handled(req[s].snap, req[s].new)
    /\ req[s].op = "execute" => req[s].selected # {} /\ req[s].new = req[s].snap
                                /\ \A i \in req[s].selected : req[s].snap.item[i] # "none"
    /\ \A i \in Items : Adds(req[s], i) =>
          db.item[i] = "none" /\ \A t \in Slots \ {s} : req[t].new.item[i] = "none"

KeysOK == \A r, n \in Rounds : db.key[r] = db.key[n] /\ db.key[r] # None => r = n

(* While requests have not overlapped *)
CaseOK(c) ==
    /\ c.status \in {"approved", "executing", "verifying", "completed"} =>
          Asked(c) # {} /\ \A t \in Asked(c) : c.task[t] = "approved"
    /\ c.status \in {"draft", "collecting", "analyzing"} => Asked(c) = {}
    /\ c.status \in {"draft", "collecting", "analyzing", "pending_approval", "approved"} =>
          \A a \in Actions : c.act[a] = "none"
    /\ c.status = "executing" <=> Undone(c) # {}
    /\ c.status = "pending_approval" /\ Asked(c) # {} => \E t \in Asked(c) : c.task[t] # "approved"
    /\ c.status = "completed" /\ (\E a \in Actions : c.act[a] = "failed") => c.acked
    /\ \A i \in Items, r, n \in Rounds : c.act[<<i, r>>] # "none" /\ c.act[<<i, n>>] # "none" => r = n

Moves(c, d) == /\ Rank(d.status) >= Rank(c.status)
               /\ c.status \in Terminal => d.status = c.status

SerialOK ==
    /\ CaseOK(db)
    /\ \A s, t \in Slots : Busy(s) /\ Busy(t) => s = t
    /\ \A s \in Slots : Busy(s) => req[s].snap = db
    /\ \A s \in Slots : req[s].op = "write" => CaseOK(req[s].new) /\ Moves(db, req[s].new)

HandoverInv == TypeOK /\ RowsOK(db) /\ KeysOK /\ (\A s \in Slots : RequestOK(s)) /\ (~mixed => SerialOK)
-------------------------------------------------------------------------------
LEMMA RoundsFacts == Rounds \subseteq Nat /\ \A i \in Items, r \in Rounds : <<i, r>> \in Actions
  BY HandoverAssumption DEF Rounds, Actions

LEMMA ActionParts == \A a \in Actions : a = <<a[1], a[2]>> /\ a[1] \in Items /\ a[2] \in Rounds
  BY DEF Actions

LEMMA NewCaseType == NewCase \in Case /\ NoRequest \in Request /\ NoRequest.op = "none"
                     /\ NoRequest.new = NewCase /\ NoRequest.snap = NewCase
  <1>1. NewCase \in Case
    BY DEF NewCase, Case, Status
  <1> QED BY <1>1 DEF NoRequest, Request

LEMMA RankIs == /\ Rank("draft") = 0 /\ Rank("collecting") = 1 /\ Rank("analyzing") = 2
                /\ Rank("pending_approval") = 3 /\ Rank("approved") = 4 /\ Rank("executing") = 5
                /\ Rank("verifying") = 6
                /\ \A status \in Terminal : Rank(status) = 7
  BY DEF Rank, Terminal

LEMMA RankNat == \A status \in Status : Rank(status) \in Nat /\ Rank(status) >= Rank(status)
  BY RankIs DEF Status, Terminal

LEMMA InitHandover == Init => HandoverInv
  <1> SUFFICES ASSUME Init PROVE HandoverInv
    OBVIOUS
  <1>1. TypeOK
    BY NewCaseType DEF Init, TypeOK
  <1>2. RowsOK(db) /\ KeysOK
    BY RoundsFacts DEF Init, RowsOK, KeysOK, NewCase
  <1>3. \A s \in Slots : RequestOK(s)
    BY NewCaseType DEF Init, RequestOK, Busy, Adds, NewCase
  <1>4. CaseOK(db)
    BY RoundsFacts DEF Init, CaseOK, NewCase, Asked, Undone
  <1>5. SerialOK
    BY <1>4, NewCaseType DEF Init, SerialOK, Busy
  <1> QED BY <1>1, <1>2, <1>3, <1>5 DEF HandoverInv
-------------------------------------------------------------------------------
(* Accepting a request *)

\* A request that loads the rows as they are and does to them what handlers do.
LEMMA BeginInv ==
  ASSUME HandoverInv, NEW s \in Slots, NEW new \in Case, Begin(s, new), Handled(db, new),
         \A i \in Items : db.item[i] = "none" /\ new.item[i] # "none" => FreshItem(i),
         ~mixed => CaseOK(new) /\ Moves(db, new)
  PROVE  HandoverInv'
  <1> DEFINE q == [op |-> "write", snap |-> db, new |-> new, selected |-> {}, key |-> None]
  <1>1. /\ req[s] = NoRequest /\ req' = [req EXCEPT ![s] = q] /\ db' = db
        /\ mixed' = (mixed \/ \E o \in Slots \ {s} : req[o] # NoRequest)
    BY DEF Begin, Accept
  <1>2. TypeOK'
    <2>1. q \in Request
      BY DEF Request, HandoverInv, TypeOK
    <2> QED BY <1>1, <2>1 DEF HandoverInv, TypeOK
  <1>3. req'[s] = q /\ \A t \in Slots \ {s} : req'[t] = req[t]
    BY <1>1 DEF HandoverInv, TypeOK
  <1>4. RowsOK(db)' /\ KeysOK'
    BY <1>1 DEF HandoverInv, RowsOK, KeysOK
  <1>5. ASSUME NEW t \in Slots PROVE RequestOK(t)'
    <2>1. CASE t = s
      <3>1. q # NoRequest /\ q.op = "write" /\ q.snap = db /\ q.new = new
        BY DEF NoRequest
      <3>2. RowsOK(db) /\ Since(db)
        BY DEF HandoverInv, Since
      <3>3. \A i \in Items : Adds(q, i) => db.item[i] = "none" /\ \A u \in Slots \ {s} : req[u].new.item[i] = "none"
        BY DEF Adds, FreshItem, Existing
      <3>4. RowsOK(q.snap)' /\ Since(q.snap)'
        BY <1>1, <3>1, <3>2 DEF Since
      <3> QED BY <1>1, <1>3, <2>1, <3>1, <3>3, <3>4 DEF RequestOK, Busy, Adds
    <2>2. CASE t # s
      <3>1. RequestOK(t) /\ req'[t] = req[t]
        BY <1>3, <2>2 DEF HandoverInv
      <3>2. ASSUME NEW i \in Items, Adds(req[t], i) PROVE new.item[i] = "none"
        <4>1. req[t].new.item[i] # "none" /\ db.item[i] = "none"
          BY <3>1, <3>2 DEF RequestOK, Adds
        <4>2. ~FreshItem(i)
          BY <4>1 DEF FreshItem, Existing
        <4> QED BY <4>1, <4>2
      <3> QED BY <1>1, <1>3, <2>2, <3>1, <3>2 DEF RequestOK, Busy, Adds, Since
    <2> QED BY <2>1, <2>2
  <1>6. ASSUME ~mixed' PROVE SerialOK'
    <2>1. ~mixed /\ \A t \in Slots \ {s} : req'[t] = NoRequest
      BY <1>1, <1>3, <1>6
    <2>2. CaseOK(db)' /\ CaseOK(new) /\ Moves(db, new)
      BY <1>1, <2>1 DEF HandoverInv, SerialOK, CaseOK, Asked, Undone
    <2>3. \A t \in Slots : Busy(t)' => t = s /\ req'[t] = q
      BY <1>3, <2>1 DEF Busy
    <2>4. \A t \in Slots : req'[t].op = "write" => t = s
      BY <2>1, NewCaseType
    <2>5. CaseOK(req'[s].new) /\ Moves(db', req'[s].new)
      BY <1>1, <1>3, <2>2
    <2> QED BY <1>1, <1>3, <2>2, <2>3, <2>4, <2>5 DEF SerialOK
  <1> QED BY <1>2, <1>4, <1>5, <1>6 DEF HandoverInv

LEMMA CollectInv == ASSUME HandoverInv, NEW s \in Slots, Collect(s) PROVE HandoverInv'
  <1> DEFINE new == [db EXCEPT !.status = "collecting"]
  <1>1. db.status \in {"draft", "collecting"} /\ Begin(s, new) /\ db \in Case
    BY DEF Collect, Transition, HandoverInv, TypeOK
  <1>2. new \in Case /\ new.status = "collecting" /\ new.item = db.item /\ new.task = db.task
        /\ new.act = db.act /\ new.key = db.key /\ new.acked = db.acked
    BY <1>1 DEF Case, Status
  <1>3. Handled(db, new)
    BY <1>2 DEF Handled, Grows
  <1>4. ~mixed => CaseOK(new) /\ Moves(db, new)
    BY <1>1, <1>2, RankIs DEF HandoverInv, SerialOK, CaseOK, Asked, Undone, Moves, Terminal
  <1> QED BY <1>1, <1>2, <1>3, <1>4, BeginInv

LEMMA CreateItemInv ==
  ASSUME HandoverInv, NEW s \in Slots, NEW i \in Items, CreateItem(s, i) PROVE HandoverInv'
  <1> DEFINE new == [db EXCEPT !.item[i] = "proposed"]
  <1>1. FreshItem(i) /\ Begin(s, new) /\ db \in Case
    BY DEF CreateItem, HandoverInv, TypeOK
  <1>2. new \in Case /\ new.status = db.status /\ new.item = [db.item EXCEPT ![i] = "proposed"]
        /\ new.task = db.task /\ new.act = db.act /\ new.key = db.key /\ new.acked = db.acked
    BY <1>1 DEF Case
  <1>3. db.item \in [Items -> {"none", "proposed", "executing", "done", "failed"}] /\ db.item[i] = "none"
    BY <1>1 DEF Case, FreshItem, Existing
  <1>4. Handled(db, new)
    BY <1>2, <1>3 DEF Handled, Grows
  <1>5. \A j \in Items : db.item[j] = "none" /\ new.item[j] # "none" => FreshItem(j)
    BY <1>1, <1>2, <1>3
  <1>6. db.status \in Status
    BY <1>1 DEF Case
  <1>7. ~mixed => CaseOK(new) /\ Moves(db, new)
    BY <1>2, <1>6, RankNat DEF HandoverInv, SerialOK, CaseOK, Asked, Undone, Moves
  <1> QED BY <1>1, <1>2, <1>4, <1>5, <1>7, BeginInv

LEMMA AnalyzeInv ==
  ASSUME HandoverInv, NEW s \in Slots, NEW found \in SUBSET Assets, NEW fresh \in SUBSET Items,
         Analyze(s, found, fresh)
  PROVE  HandoverInv'
  <1> DEFINE items == [i \in Items |-> IF i \in fresh THEN "proposed" ELSE db.item[i]]
             new   == [db EXCEPT !.status = "pending_approval", !.item = items]
  <1>1. db.status \in {"draft", "collecting", "analyzing"} /\ (\A i \in fresh : FreshItem(i))
        /\ Begin(s, new) /\ db \in Case
    BY DEF Analyze, Transition, HandoverInv, TypeOK
  <1>2. items \in [Items -> {"none", "proposed", "executing", "done", "failed"}]
    BY <1>1 DEF Case
  <1>3. new \in Case /\ new.status = "pending_approval" /\ new.item = items /\ new.task = db.task
        /\ new.act = db.act /\ new.key = db.key /\ new.acked = db.acked
    BY <1>1, <1>2 DEF Case, Status
  <1>4. Handled(db, new)
    BY <1>1, <1>3 DEF Handled, Grows, FreshItem, Existing
  <1>5. \A j \in Items : db.item[j] = "none" /\ new.item[j] # "none" => FreshItem(j)
    BY <1>1, <1>3
  <1>6. ~mixed => CaseOK(new) /\ Moves(db, new)
    BY <1>1, <1>3, RankIs DEF HandoverInv, SerialOK, CaseOK, Asked, Undone, Moves, Terminal
  <1> QED BY <1>1, <1>3, <1>4, <1>5, <1>6, BeginInv

LEMMA SubmitInv ==
  ASSUME HandoverInv, NEW s \in Slots, NEW approvals \in SUBSET Tasks, Submit(s, approvals)
  PROVE  HandoverInv'
  <1> DEFINE tasks == [t \in Tasks |-> IF t \in approvals THEN "pending" ELSE db.task[t]]
             new   == [db EXCEPT !.status = "pending_approval", !.task = tasks]
  <1>1. db.status \in {"draft", "analyzing", "pending_approval"} /\ Begin(s, new) /\ db \in Case
        /\ \A t \in approvals : db.task[t] = "none"
    BY DEF Submit, Transition, HandoverInv, TypeOK, FreshTask, Asked
  <1>2. tasks \in [Tasks -> {"none", "pending", "approved", "rejected"}]
    BY <1>1 DEF Case
  <1>3. new \in Case /\ new.status = "pending_approval" /\ new.item = db.item /\ new.task = tasks
        /\ new.act = db.act /\ new.key = db.key /\ new.acked = db.acked
    BY <1>1, <1>2 DEF Case, Status
  <1>4. Handled(db, new)
    BY <1>3 DEF Handled, Grows
  <1>5. ASSUME ~mixed PROVE CaseOK(new) /\ Moves(db, new)
    <2>1. CaseOK(db)
      BY <1>5 DEF HandoverInv, SerialOK
    <2>2. Moves(db, new)
      BY <1>1, <1>3, RankIs DEF Moves, Terminal
    <2>3. Undone(new) = Undone(db) /\ Undone(db) = {}
      BY <1>1, <1>3, <2>1 DEF Undone, CaseOK
    <2>4. Asked(new) # {} => \E t \in Asked(new) : new.task[t] # "approved"
      <3>1. CASE approvals # {}
        BY <1>3, <3>1 DEF Asked
      <3>2. CASE approvals = {}
        BY <1>1, <1>3, <2>1, <3>2 DEF Asked, CaseOK
      <3> QED BY <3>1, <3>2
    <2>5. \A a \in Actions : new.act[a] = "none"
      BY <1>1, <1>3, <2>1 DEF CaseOK
    <2> QED BY <1>3, <2>1, <2>2, <2>3, <2>4, <2>5, RoundsFacts DEF CaseOK
  <1> QED BY <1>1, <1>3, <1>4, <1>5, BeginInv

LEMMA DecideInv ==
  ASSUME HandoverInv, NEW s \in Slots, NEW t \in Tasks, NEW decision \in {"approved", "rejected"},
         Decide(s, t, decision)
  PROVE  HandoverInv'
  <1> DEFINE d   == Decided(db, t, decision)
             new == [db EXCEPT !.task[t] = decision, !.status = d]
  <1>1. db.status = "pending_approval" /\ db.task[t] = "pending" /\ Begin(s, new) /\ db \in Case
    BY DEF Decide, HandoverInv, TypeOK
  <1>2. d \in {"rejected", "approved", "pending_approval"}
        /\ (decision = "rejected" => d = "rejected")
        /\ (decision = "approved" => d # "rejected")
        /\ (d = "approved" <=> decision = "approved" /\ \A u \in Asked(db) \ {t} : db.task[u] = "approved")
    BY <1>1 DEF Decided
  <1>3. new \in Case /\ new.status = d /\ new.item = db.item /\ new.task = [db.task EXCEPT ![t] = decision]
        /\ new.act = db.act /\ new.key = db.key /\ new.acked = db.acked
    BY <1>1, <1>2 DEF Case, Status
  <1>4. Handled(db, new)
    BY <1>3 DEF Handled, Grows
  <1>5. ASSUME ~mixed PROVE CaseOK(new) /\ Moves(db, new)
    <2>1. CaseOK(db)
      BY <1>5 DEF HandoverInv, SerialOK
    <2>2. Moves(db, new)
      BY <1>1, <1>2, <1>3, RankIs DEF Moves, Terminal
    <2>3. Undone(new) = {} /\ \A a \in Actions : new.act[a] = "none"
      BY <1>1, <1>3, <2>1 DEF Undone, CaseOK
    <2>4. \A u \in Tasks : new.task[u] = IF u = t THEN decision ELSE db.task[u]
      BY <1>1, <1>3 DEF Case
    <2>5. Asked(new) = Asked(db) /\ t \in Asked(new)
      BY <1>1, <2>4 DEF Asked
    <2>6. d = "approved" => \A u \in Asked(new) : new.task[u] = "approved"
      BY <1>2, <2>4, <2>5 DEF Asked
    <2>7. d = "pending_approval" => \E u \in Asked(new) : new.task[u] # "approved"
      BY <1>2, <2>4, <2>5 DEF Asked
    <2> QED BY <1>2, <1>3, <2>2, <2>3, <2>5, <2>6, <2>7, RoundsFacts DEF CaseOK
  <1> QED BY <1>1, <1>3, <1>4, <1>5, BeginInv

LEMMA CompleteInv ==
  ASSUME HandoverInv, NEW s \in Slots, NEW a \in Actions, NEW result \in {"succeeded", "failed"},
         Complete(s, a, result)
  PROVE  HandoverInv'
  <1> DEFINE st  == IF Finished(db, a) THEN "verifying" ELSE db.status
             new == [db EXCEPT !.act[a] = result, !.item[a[1]] = ItemResult(result), !.status = st]
  <1>1. db.act[a] = "pending" /\ db.status = "executing" /\ Begin(s, new) /\ db \in Case
    BY DEF Complete, HandoverInv, TypeOK
  <1>2. a[1] \in Items /\ ItemResult(result) \in {"done", "failed"}
    BY ActionParts DEF ItemResult
  <1>3. new \in Case /\ new.status = st /\ new.item = [db.item EXCEPT ![a[1]] = ItemResult(result)]
        /\ new.task = db.task /\ new.act = [db.act EXCEPT ![a] = result]
        /\ new.key = db.key /\ new.acked = db.acked
    BY <1>1, <1>2 DEF Case, Status
  <1>4. Handled(db, new)
    BY <1>1, <1>3 DEF Handled, Files
  <1>5. \A b \in Actions : new.act[b] = IF b = a THEN result ELSE db.act[b]
    BY <1>1, <1>3 DEF Case
  <1>6. \A j \in Items : db.item[j] = "none" /\ new.item[j] # "none" => FreshItem(j)
    <2>1. db.item[a[1]] # "none"
      BY <1>1, ActionParts DEF HandoverInv, RowsOK
    <2> QED BY <1>1, <1>3, <2>1 DEF Case
  <1>7. ASSUME ~mixed PROVE CaseOK(new) /\ Moves(db, new)
    <2>1. CaseOK(db)
      BY <1>7 DEF HandoverInv, SerialOK
    <2>2. Moves(db, new)
      BY <1>1, <1>3, RankIs DEF Moves, Terminal
    <2>3. Undone(new) = Undone(db) \ {a}
      BY <1>5 DEF Undone
    <2>4. st = "executing" <=> Undone(new) # {}
      BY <1>1, <2>3 DEF Finished
    <2>5. st \in {"executing", "verifying"}
      BY <1>1
    <2>6. Asked(new) = Asked(db) /\ new.task = db.task
      BY <1>3 DEF Asked
    <2>7. \A b \in Actions : new.act[b] # "none" => db.act[b] # "none"
      BY <1>1, <1>5
    <2>8. \A i \in Items, r, n \in Rounds : new.act[<<i, r>>] # "none" /\ new.act[<<i, n>>] # "none" => r = n
      BY <2>1, <2>7, RoundsFacts DEF CaseOK
    <2> QED BY <1>1, <1>3, <2>1, <2>2, <2>4, <2>5, <2>6, <2>8 DEF CaseOK
  <1> QED BY <1>1, <1>3, <1>4, <1>6, <1>7, BeginInv

LEMMA VerifyInv == ASSUME HandoverInv, NEW s \in Slots, NEW ack \in BOOLEAN, Verify(s, ack) PROVE HandoverInv'
  <1> DEFINE new == [db EXCEPT !.status = "completed", !.acked = ack]
  <1>1. db.status = "verifying" /\ (HasFailure(db) => ack) /\ Begin(s, new) /\ db \in Case
    BY DEF Verify, Acknowledged, HandoverInv, TypeOK
  <1>2. new \in Case /\ new.status = "completed" /\ new.item = db.item /\ new.task = db.task
        /\ new.act = db.act /\ new.key = db.key /\ new.acked = ack
    BY <1>1 DEF Case, Status
  <1>3. Handled(db, new)
    BY <1>2 DEF Handled, Grows
  <1>4. ASSUME ~mixed PROVE CaseOK(new) /\ Moves(db, new)
    <2>1. CaseOK(db)
      BY <1>4 DEF HandoverInv, SerialOK
    <2>2. Moves(db, new)
      BY <1>1, <1>2, RankIs DEF Moves, Terminal
    <2>3. (\E a \in Actions : new.act[a] = "failed") => new.acked
      BY <1>1, <1>2 DEF HasFailure
    <2> QED BY <1>1, <1>2, <2>1, <2>2, <2>3 DEF CaseOK, Asked, Undone
  <1> QED BY <1>1, <1>2, <1>3, <1>4, BeginInv

LEMMA BeginExecuteInv ==
  ASSUME HandoverInv, NEW s \in Slots, NEW selected \in SUBSET Items, NEW key \in Keys \cup {None},
         BeginExecute(s, selected, key)
  PROVE  HandoverInv'
  <1> DEFINE q == [op |-> "execute", snap |-> db, new |-> db, selected |-> selected, key |-> key]
  <1>1. /\ selected # {} /\ \A i \in selected : db.item[i] # "none"
        /\ req[s] = NoRequest /\ req' = [req EXCEPT ![s] = q] /\ db' = db
        /\ mixed' = (mixed \/ \E o \in Slots \ {s} : req[o] # NoRequest)
    BY DEF BeginExecute, Accept, Existing
  <1>2. TypeOK'
    <2>1. q \in Request
      BY DEF Request, HandoverInv, TypeOK
    <2> QED BY <1>1, <2>1 DEF HandoverInv, TypeOK
  <1>3. req'[s] = q /\ \A t \in Slots \ {s} : req'[t] = req[t]
    BY <1>1 DEF HandoverInv, TypeOK
  <1>4. RowsOK(db)' /\ KeysOK'
    BY <1>1 DEF HandoverInv, RowsOK, KeysOK
  <1>5. ASSUME NEW t \in Slots PROVE RequestOK(t)'
    <2>1. CASE t = s
      <3>1. q.op = "execute" /\ q.snap = db /\ q.new = db /\ q.selected = selected
        OBVIOUS
      <3>2. RowsOK(db) /\ Since(db)
        BY DEF HandoverInv, Since
      <3>3. RowsOK(q.snap)' /\ Since(q.snap)'
        BY <1>1, <3>1, <3>2 DEF Since
      <3> QED BY <1>1, <1>3, <2>1, <3>1, <3>3 DEF RequestOK, Adds
    <2>2. CASE t # s
      <3>1. RequestOK(t) /\ req'[t] = req[t]
        BY <1>3, <2>2 DEF HandoverInv
      <3> QED BY <1>1, <1>3, <2>2, <3>1 DEF RequestOK, Busy, Adds, Since
    <2> QED BY <2>1, <2>2
  <1>6. ASSUME ~mixed' PROVE SerialOK'
    <2>1. ~mixed /\ \A t \in Slots \ {s} : req'[t] = NoRequest
      BY <1>1, <1>3, <1>6
    <2>2. CaseOK(db)'
      BY <1>1, <2>1 DEF HandoverInv, SerialOK, CaseOK, Asked, Undone
    <2>3. \A t \in Slots : Busy(t)' => t = s /\ req'[t] = q
      BY <1>3, <2>1 DEF Busy
    <2>4. \A t \in Slots : req'[t].op # "write"
      BY <1>3, <2>1, NewCaseType
    <2> QED BY <1>1, <2>2, <2>3, <2>4 DEF SerialOK
  <1> QED BY <1>2, <1>4, <1>5, <1>6 DEF HandoverInv
-------------------------------------------------------------------------------
(* Answering a request *)

\* The request is gone and rows have only been added: what the others have loaded and will
\* write is as good as it was, and if requests have not overlapped there are no others.
LEMMA ServedInv ==
  ASSUME HandoverInv, NEW s \in Slots, Busy(s), req' = [req EXCEPT ![s] = NoRequest], mixed' = mixed,
         db' \in Case, RowsOK(db)', KeysOK',
         \A i \in Items : db.item[i] # "none" => db'.item[i] # "none",
         \A a \in Actions : db.act[a] # "none" => db'.act[a] # "none",
         \A i \in Items : db.item[i] = "none" /\ req[s].new.item[i] = "none" => db'.item[i] = "none",
         ~mixed => CaseOK(db)'
  PROVE  HandoverInv'
  <1>1. req'[s] = NoRequest /\ \A t \in Slots \ {s} : req'[t] = req[t]
    BY DEF HandoverInv, TypeOK
  <1>2. TypeOK'
    BY NewCaseType DEF HandoverInv, TypeOK
  <1>3. ASSUME NEW t \in Slots PROVE RequestOK(t)'
    <2>1. CASE t = s
      BY <1>1, <2>1, NewCaseType DEF RequestOK, Busy, Adds
    <2>2. CASE t # s
      <3>1. RequestOK(t) /\ req'[t] = req[t]
        BY <1>1, <2>2 DEF HandoverInv
      <3>2. Busy(t) => RowsOK(req[t].snap) /\ Since(req[t].snap)'
        BY <3>1 DEF RequestOK, Since
      <3>3. \A i \in Items : Adds(req[t], i) =>
              db'.item[i] = "none" /\ \A u \in Slots \ {t} : req'[u].new.item[i] = "none"
        BY <1>1, <2>2, <3>1, NewCaseType DEF RequestOK, NewCase
      <3> QED BY <3>1, <3>2, <3>3 DEF RequestOK, Busy, Adds, Since
    <2> QED BY <2>1, <2>2
  <1>4. ASSUME ~mixed PROVE SerialOK'
    <2>1. \A t \in Slots : req'[t] = NoRequest
      BY <1>1, <1>4 DEF HandoverInv, SerialOK, Busy
    <2> QED BY <1>4, <2>1, NewCaseType DEF SerialOK, Busy
  <1> QED BY <1>2, <1>3, <1>4 DEF HandoverInv

LEMMA RefuseInv == ASSUME HandoverInv, NEW s \in Slots, RefuseExecute(s) PROVE HandoverInv'
  <1>1. req[s].op = "execute" /\ req' = [req EXCEPT ![s] = NoRequest] /\ db' = db /\ mixed' = mixed
    BY DEF RefuseExecute
  <1>2. Busy(s)
    BY <1>1, NewCaseType DEF Busy
  <1>3. db' \in Case /\ RowsOK(db)' /\ KeysOK'
    BY <1>1 DEF HandoverInv, TypeOK, RowsOK, KeysOK
  <1>4. ~mixed => CaseOK(db)'
    BY <1>1 DEF HandoverInv, SerialOK, CaseOK, Asked, Undone
  <1> QED BY <1>1, <1>2, <1>3, <1>4, ServedInv

LEMMA CommitInv == ASSUME HandoverInv, NEW s \in Slots, Commit(s) PROVE HandoverInv'
  <1> DEFINE q == req[s]
  <1>1. /\ q.op = "write" /\ req' = [req EXCEPT ![s] = NoRequest] /\ mixed' = mixed
        /\ db' = [status |-> IF q.new.status = q.snap.status THEN db.status ELSE q.new.status,
                  item   |-> Flush(db.item, q.snap.item, q.new.item),
                  task   |-> Flush(db.task, q.snap.task, q.new.task),
                  act    |-> Flush(db.act, q.snap.act, q.new.act),
                  key    |-> db.key,
                  acked  |-> IF q.new.acked = q.snap.acked THEN db.acked ELSE q.new.acked]
    BY DEF Commit
  <1>2. Busy(s) /\ RequestOK(s) /\ db \in Case /\ q.snap \in Case /\ q.new \in Case
    BY <1>1, NewCaseType DEF Busy, HandoverInv, TypeOK, Request
  <1>3. /\ db'.item \in [Items -> {"none", "proposed", "executing", "done", "failed"}]
        /\ \A i \in Items : db'.item[i] = IF q.new.item[i] = q.snap.item[i] THEN db.item[i] ELSE q.new.item[i]
    BY <1>1, <1>2 DEF Case, Flush
  <1>4. /\ db'.task \in [Tasks -> {"none", "pending", "approved", "rejected"}]
        /\ \A t \in Tasks : db'.task[t] = IF q.new.task[t] = q.snap.task[t] THEN db.task[t] ELSE q.new.task[t]
    BY <1>1, <1>2 DEF Case, Flush
  <1>5. /\ db'.act \in [Actions -> {"none", "pending", "succeeded", "failed"}]
        /\ \A a \in Actions : db'.act[a] = IF q.new.act[a] = q.snap.act[a] THEN db.act[a] ELSE q.new.act[a]
    BY <1>1, <1>2 DEF Case, Flush
  <1>6. db' \in Case
    BY <1>1, <1>2, <1>3, <1>4, <1>5 DEF Case
  <1>7. KeysOK'
    BY <1>1 DEF HandoverInv, KeysOK
  <1>8. RowsOK(db) /\ RowsOK(q.snap) /\ Since(q.snap) /\ Handled(q.snap, q.new)
    BY <1>1, <1>2 DEF HandoverInv, RequestOK
  <1>9. /\ RowsOK(db)'
        /\ \A i \in Items : db.item[i] # "none" => db'.item[i] # "none"
        /\ \A a \in Actions : db.act[a] # "none" => db'.act[a] # "none"
    <2>1. CASE Grows(q.snap, q.new)
      <3>1. \A a \in Actions : db'.act[a] = db.act[a]
        BY <1>5, <2>1 DEF Grows
      <3>2. \A i \in Items : db'.item[i] = db.item[i] \/ (db.item[i] = "none" /\ db'.item[i] = "proposed")
        <4> SUFFICES ASSUME NEW i \in Items, q.new.item[i] # q.snap.item[i]
                     PROVE  db.item[i] = "none" /\ db'.item[i] = "proposed"
          BY <1>3
        <4>1. q.snap.item[i] = "none" /\ q.new.item[i] = "proposed"
          BY <2>1 DEF Grows
        <4>2. db.item[i] = "none"
          BY <1>2, <4>1 DEF RequestOK, Adds
        <4> QED BY <1>3, <4>1, <4>2
      <3>3. RowsOK(db)'
        BY <1>8, <3>1, <3>2, RoundsFacts DEF RowsOK
      <3> QED BY <3>1, <3>2, <3>3
    <2>2. CASE Files(q.snap, q.new)
      <3>1. PICK a \in Actions, result \in {"succeeded", "failed"} :
              /\ q.snap.act[a] = "pending"
              /\ q.new.act = [q.snap.act EXCEPT ![a] = result]
              /\ q.new.item = [q.snap.item EXCEPT ![a[1]] = ItemResult(result)]
        BY <2>2 DEF Files
      <3> DEFINE i == a[1]
                 r == a[2]
      <3>2. a = <<i, r>> /\ i \in Items /\ r \in Rounds
        BY ActionParts
      <3>3. db'.act[a] = result /\ \A b \in Actions \ {a} : db'.act[b] = db.act[b]
        BY <1>2, <1>5, <3>1 DEF Case
      <3>4. \A j \in Items \ {i} : db'.item[j] = db.item[j]
        BY <1>2, <1>3, <3>1 DEF Case
      <3>5. q.new.item[i] = ItemResult(result) /\ ItemResult(result) \in {"done", "failed"}
        BY <1>2, <3>1, <3>2 DEF Case, ItemResult
      <3>6. db.item[i] # "none" /\ db'.item[i] # "none" /\ db.act[a] # "none"
        BY <1>3, <1>8, <3>1, <3>2, <3>5 DEF RowsOK, Since
      <3>7. (\A n \in Rounds \ {r} : db.act[<<i, n>>] = "none") => db'.item[i] = ItemResult(result)
        <4> SUFFICES ASSUME \A n \in Rounds \ {r} : db.act[<<i, n>>] = "none"
                     PROVE  db'.item[i] = ItemResult(result)
          OBVIOUS
        <4>1. \A n \in Rounds \ {r} : q.snap.act[<<i, n>>] = "none"
          BY <1>8, <3>2, RoundsFacts DEF Since
        <4>2. q.snap.item[i] \notin {"done", "failed"}
          BY <1>8, <3>1, <3>2, <4>1 DEF RowsOK
        <4> QED BY <1>3, <3>2, <3>5, <4>2
      <3>8. db'.item[i] # "executing" \/ db.item[i] = "executing"
        BY <1>3, <3>2, <3>5
      <3>9. \A n \in Rounds : n # r => <<i, n>> # a /\ <<i, n>> \in Actions
        BY <3>2, RoundsFacts
      <3>10. \A j \in Items, n \in Rounds : j # i => <<j, n>> # a /\ <<j, n>> \in Actions
        BY <3>2, RoundsFacts
      <3>11. ASSUME NEW j \in Items
             PROVE  /\ db'.item[j] = "none" => \A n \in Rounds : db'.act[<<j, n>>] = "none"
                    /\ db'.item[j] = "executing" => \E n \in Rounds : db'.act[<<j, n>>] # "none"
                    /\ \A n \in Rounds : (\A m \in Rounds \ {n} : db'.act[<<j, m>>] = "none") =>
                          /\ db'.act[<<j, n>>] = "succeeded" <=> db'.item[j] = "done"
                          /\ db'.act[<<j, n>>] = "failed" <=> db'.item[j] = "failed"
        <4>1. CASE j # i
          <5>1. db'.item[j] = db.item[j] /\ \A n \in Rounds : db'.act[<<j, n>>] = db.act[<<j, n>>]
            BY <3>3, <3>4, <3>10, <4>1
          <5> QED BY <1>8, <5>1 DEF RowsOK
        <4>2. CASE j = i
          <5>1. db'.item[j] # "none" /\ db'.act[<<j, r>>] = result
            BY <3>2, <3>3, <3>6, <4>2
          <5>2. ASSUME NEW n \in Rounds, \A m \in Rounds \ {n} : db'.act[<<j, m>>] = "none"
                PROVE  n = r /\ db'.item[j] = ItemResult(result)
            <6>1. n = r
              BY <3>2, <5>1, <5>2
            <6>2. \A m \in Rounds \ {r} : db.act[<<i, m>>] = "none"
              BY <3>3, <3>9, <4>2, <5>2, <6>1
            <6> QED BY <3>7, <4>2, <6>1, <6>2
          <5> QED BY <3>2, <5>1, <5>2 DEF ItemResult
        <4> QED BY <4>1, <4>2
      <3>12. RowsOK(db)'
        BY <3>11 DEF RowsOK
      <3> QED BY <3>3, <3>4, <3>6, <3>12
    <2> QED BY <1>8, <2>1, <2>2 DEF Handled
  <1>10. \A i \in Items : db.item[i] = "none" /\ q.new.item[i] = "none" => db'.item[i] = "none"
    BY <1>3
  <1>11. ASSUME ~mixed PROVE CaseOK(db)'
    <2>1. q.snap = db /\ CaseOK(q.new)
      BY <1>1, <1>2, <1>11 DEF HandoverInv, SerialOK
    <2>2. db'.status = q.new.status /\ db'.acked = q.new.acked
      BY <1>1, <2>1
    <2>3. \A t \in Tasks : db'.task[t] = q.new.task[t]
      BY <1>4, <2>1
    <2>4. \A a \in Actions : db'.act[a] = q.new.act[a]
      BY <1>5, <2>1
    <2>5. Asked(db') = Asked(q.new) /\ Undone(db') = Undone(q.new)
      BY <2>3, <2>4 DEF Asked, Undone
    <2> QED BY <2>1, <2>2, <2>3, <2>4, <2>5, RoundsFacts DEF CaseOK, Asked
  <1> QED BY <1>1, <1>2, <1>6, <1>7, <1>9, <1>10, <1>11, ServedInv

LEMMA CommitExecuteInv ==
  ASSUME HandoverInv, NEW s \in Slots, NEW r \in Rounds, CommitExecute(s, r) PROVE HandoverInv'
  <1> DEFINE q     == req[s]
             items == [i \in Items |-> IF i \in q.selected /\ q.snap.item[i] # "executing"
                                       THEN "executing" ELSE db.item[i]]
             acts  == [a \in Actions |-> IF a \in q.selected \X {r} THEN "pending" ELSE db.act[a]]
  <1>1. /\ q.op = "execute" /\ ~KeyTaken(q) /\ db.status = "approved"
        /\ \A i \in Items : db.act[<<i, r>>] = "none"
        /\ db' = [db EXCEPT !.status = "executing", !.item = items, !.act = acts, !.key[r] = q.key]
        /\ req' = [req EXCEPT ![s] = NoRequest] /\ mixed' = mixed
    BY DEF CommitExecute, Executable
  <1>2. Busy(s) /\ RequestOK(s) /\ db \in Case /\ q \in Request
    BY <1>1, NewCaseType DEF Busy, HandoverInv, TypeOK
  <1>3. /\ items \in [Items -> {"none", "proposed", "executing", "done", "failed"}]
        /\ acts \in [Actions -> {"none", "pending", "succeeded", "failed"}]
        /\ [db.key EXCEPT ![r] = q.key] \in [Rounds -> Keys \cup {None}]
    BY <1>2 DEF Case, Request
  <1>4. /\ db' \in Case /\ db'.status = "executing" /\ db'.item = items /\ db'.act = acts
        /\ db'.task = db.task /\ db'.key = [db.key EXCEPT ![r] = q.key] /\ db'.acked = db.acked
    BY <1>1, <1>2, <1>3 DEF Case, Status
  <1>5. KeysOK'
    <2>1. \A n \in Rounds : db'.key[n] = IF n = r THEN q.key ELSE db.key[n]
      BY <1>2, <1>4 DEF Case
    <2>2. \A n \in Rounds : db.key[n] = q.key => q.key = None
      BY <1>1 DEF KeyTaken
    <2> QED BY <2>1, <2>2 DEF KeysOK, HandoverInv
  <1>6. /\ q.selected # {} /\ q.selected \subseteq Items /\ q.new = q.snap
        /\ \A i \in q.selected : q.snap.item[i] # "none" /\ db.item[i] # "none"
        /\ RowsOK(q.snap) /\ Since(q.snap) /\ RowsOK(db)
    BY <1>1, <1>2 DEF RequestOK, Since, HandoverInv, Request
  <1>7. \A i \in Items, n \in Rounds :
          db'.act[<<i, n>>] = IF i \in q.selected /\ n = r THEN "pending" ELSE db.act[<<i, n>>]
    BY <1>4, RoundsFacts
  <1>8. \A i \in Items : db'.item[i] = IF i \in q.selected /\ q.snap.item[i] # "executing"
                                       THEN "executing" ELSE db.item[i]
    BY <1>4
  <1>9. ASSUME NEW j \in Items
        PROVE  /\ db'.item[j] = "none" => \A n \in Rounds : db'.act[<<j, n>>] = "none"
               /\ db'.item[j] = "executing" => \E n \in Rounds : db'.act[<<j, n>>] # "none"
               /\ \A n \in Rounds : (\A m \in Rounds \ {n} : db'.act[<<j, m>>] = "none") =>
                     /\ db'.act[<<j, n>>] = "succeeded" <=> db'.item[j] = "done"
                     /\ db'.act[<<j, n>>] = "failed" <=> db'.item[j] = "failed"
    <2>1. CASE j \notin q.selected
      <3>1. db'.item[j] = db.item[j] /\ \A n \in Rounds : db'.act[<<j, n>>] = db.act[<<j, n>>]
        BY <1>7, <1>8, <2>1
      <3> QED BY <1>6, <3>1 DEF RowsOK
    <2>2. CASE j \in q.selected
      <3>1. db'.item[j] # "none" /\ db'.act[<<j, r>>] = "pending"
        BY <1>6, <1>7, <1>8, <2>2
      <3>2. ASSUME NEW n \in Rounds, \A m \in Rounds \ {n} : db'.act[<<j, m>>] = "none"
            PROVE  n = r /\ db'.item[j] = "executing"
        <4>1. n = r
          BY <3>1, <3>2
        <4>2. \A m \in Rounds : db.act[<<j, m>>] = "none"
          BY <1>1, <1>7, <3>2, <4>1
        <4>3. \A m \in Rounds : q.snap.act[<<j, m>>] = "none"
          BY <1>6, <4>2, RoundsFacts DEF Since
        <4>4. q.snap.item[j] # "executing"
          BY <1>6, <4>3 DEF RowsOK
        <4> QED BY <1>8, <2>2, <4>1, <4>4
      <3> QED BY <3>1, <3>2
    <2> QED BY <2>1, <2>2
  <1>10. RowsOK(db)'
    BY <1>9 DEF RowsOK
  <1>11. /\ \A i \in Items : db.item[i] # "none" => db'.item[i] # "none"
         /\ \A i \in Items : db.item[i] = "none" /\ q.new.item[i] = "none" => db'.item[i] = "none"
    BY <1>6, <1>8
  <1>12. \A a \in Actions : db.act[a] # "none" => db'.act[a] # "none"
    BY <1>4
  <1>13. ASSUME ~mixed PROVE CaseOK(db)'
    <2>1. CaseOK(db)
      BY <1>13 DEF HandoverInv, SerialOK
    <2>2. \A a \in Actions : db.act[a] = "none"
      BY <1>1, <2>1 DEF CaseOK
    <2>3. Asked(db') = Asked(db) /\ db'.task = db.task
      BY <1>4 DEF Asked
    <2>4. Undone(db') # {}
      <3>1. PICK i \in q.selected : TRUE
        BY <1>6
      <3>2. <<i, r>> \in Actions /\ db'.act[<<i, r>>] = "pending"
        BY <1>6, <1>7, <3>1, RoundsFacts
      <3> QED BY <3>2 DEF Undone
    <2>5. \A i \in Items, m, n \in Rounds : db'.act[<<i, m>>] # "none" /\ db'.act[<<i, n>>] # "none" => m = n
      BY <1>7, <2>2, RoundsFacts
    <2>6. db'.status = "executing" /\ \A t \in Asked(db) : db.task[t] = "approved"
      BY <1>1, <1>4, <2>1 DEF CaseOK
    <2>7. Asked(db) # {}
      BY <1>1, <2>1 DEF CaseOK
    <2> QED BY <2>3, <2>4, <2>5, <2>6, <2>7 DEF CaseOK
  <1> QED BY <1>1, <1>2, <1>4, <1>5, <1>10, <1>11, <1>12, <1>13, ServedInv
-------------------------------------------------------------------------------
(* The invariant and the theorems *)

LEMMA StepInv == ASSUME HandoverInv, Next PROVE HandoverInv'
  <1>1. PICK s \in Slots : Manage(s) \/ Approve(s) \/ Confirm(s) \/ Serve(s)
    BY DEF Next
  <1>2. CASE Manage(s)
    BY <1>2, CollectInv, CreateItemInv, AnalyzeInv, SubmitInv, BeginExecuteInv, CompleteInv DEF Manage
  <1>3. CASE Approve(s)
    BY <1>3, DecideInv DEF Approve
  <1>4. CASE Confirm(s)
    BY <1>4, VerifyInv DEF Confirm
  <1>5. CASE Serve(s)
    BY <1>5, CommitInv, CommitExecuteInv, RefuseInv DEF Serve
  <1> QED BY <1>1, <1>2, <1>3, <1>4, <1>5

LEMMA StutterInv == ASSUME HandoverInv, UNCHANGED vars PROVE HandoverInv'
  <1>1. db' = db /\ req' = req /\ mixed' = mixed
    BY DEF vars
  <1>2. (TypeOK /\ RowsOK(db) /\ KeysOK)'
    BY <1>1 DEF HandoverInv, TypeOK, RowsOK, KeysOK
  <1>3. \A s \in Slots : RequestOK(s)'
    BY <1>1 DEF HandoverInv, RequestOK, Busy, Since, Adds
  <1>4. (~mixed => SerialOK)'
    BY <1>1 DEF HandoverInv, SerialOK, Busy
  <1> QED BY <1>2, <1>3, <1>4 DEF HandoverInv

LEMMA InvHolds == Spec => []HandoverInv
  <1>1. HandoverInv /\ [Next]_vars => HandoverInv'
    BY StepInv, StutterInv
  <1> QED BY InitHandover, <1>1, PTL DEF Spec

\* Every handler leaves the rows of the case and the requests in their types.
THEOREM HandoverTypes == Spec => []TypeOK
  <1>1. HandoverInv => TypeOK
    BY DEF HandoverInv
  <1> QED BY <1>1, InvHolds, PTL

\* Nothing is approved, executed, verified or closed without every approval that was asked
\* for, while requests have not overlapped.
THEOREM GateHolds == Spec => []GateRespected
  <1>1. HandoverInv => GateRespected
    BY DEF HandoverInv, SerialOK, CaseOK, GateRespected
  <1> QED BY <1>1, InvHolds, PTL

\* Receipts, items and the case agree.
THEOREM WorkMatches == Spec => []WorkMatchesStatus
  <1>1. HandoverInv => WorkMatchesStatus
    BY DEF HandoverInv, RowsOK, SerialOK, CaseOK, WorkMatchesStatus
  <1> QED BY <1>1, InvHolds, PTL

\* An idempotency key creates one set of actions, and no item is disposed of twice.
THEOREM OnlyOnce == Spec => []ExecutedOnce
  <1>1. HandoverInv => ExecutedOnce
    BY DEF HandoverInv, KeysOK, SerialOK, CaseOK, ExecutedOnce
  <1> QED BY <1>1, InvHolds, PTL

\* The case goes through its statuses in one direction.
THEOREM GoesForward == Spec => ForwardOnly
  <1>1. ASSUME HandoverInv, [Next]_vars, ~mixed
        PROVE  Rank(db'.status) >= Rank(db.status) /\ (db.status \in Terminal => db'.status = db.status)
    <2>1. db.status \in Status
      BY <1>1 DEF HandoverInv, TypeOK, Case
    <2>2. CASE UNCHANGED db
      BY <2>1, <2>2, RankNat
    <2>3. ASSUME NEW s \in Slots, Commit(s)
          PROVE  Rank(db'.status) >= Rank(db.status) /\ (db.status \in Terminal => db'.status = db.status)
      <3>1. req[s].op = "write" /\ Busy(s)
        BY <2>3, NewCaseType DEF Commit, Busy
      <3>2. req[s].snap = db /\ Moves(db, req[s].new)
        BY <1>1, <3>1 DEF HandoverInv, SerialOK
      <3>3. db'.status = req[s].new.status
        BY <2>3, <3>2 DEF Commit
      <3> QED BY <3>2, <3>3 DEF Moves
    <2>4. ASSUME NEW s \in Slots, NEW r \in Rounds, CommitExecute(s, r)
          PROVE  Rank(db'.status) >= Rank(db.status) /\ (db.status \in Terminal => db'.status = db.status)
      <3>1. db.status = "approved" /\ db'.status = "executing"
        BY <1>1, <2>4 DEF CommitExecute, Executable, HandoverInv, TypeOK, Case
      <3> QED BY <3>1, RankIs DEF Terminal
    <2>5. CASE Next
      <3>1. PICK s \in Slots : Manage(s) \/ Approve(s) \/ Confirm(s) \/ Serve(s)
        BY <2>5 DEF Next
      <3>2. CASE Manage(s) \/ Approve(s) \/ Confirm(s)
        <4>1. UNCHANGED db
          BY <3>2 DEF Manage, Approve, Confirm, Collect, CreateItem, Analyze, Submit, BeginExecute, Complete,
             Decide, Verify, Begin, Accept
        <4> QED BY <2>2, <4>1
      <3>3. CASE Serve(s)
        BY <2>2, <2>3, <2>4, <3>3 DEF Serve, RefuseExecute
      <3> QED BY <3>1, <3>2, <3>3
    <2> QED BY <1>1, <2>2, <2>5 DEF vars
  <1>2. HandoverInv /\ [Next]_vars =>
          [~mixed => /\ Rank(db'.status) >= Rank(db.status)
                     /\ db.status \in Terminal => db'.status = db.status]_vars
    BY <1>1
  <1> QED BY <1>2, InvHolds, PTL DEF Spec, ForwardOnly
===============================================================================
