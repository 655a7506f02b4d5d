------------------------------- MODULE WorkLease -------------------------------
(*******************************************************************************)
(* What the analysis queue promises about its jobs, without workers, requests, *)
(* clocks or object keys: a job is queued, then held under a lease; a newer    *)
(* lease makes every older one worthless; it is decided once, by the result of *)
(* the newest lease or by giving up; only a job given up may be queued again.  *)
(* Several jobs may move in one step (a worker is disabled, leases are reaped).*)
(*******************************************************************************)
EXTENDS Naturals

CONSTANT Jobs

VARIABLES
    phase,   \* [Jobs -> {"absent", "queued", "held", "done", "dead"}]
    lease,   \* [Jobs -> Nat]: number of the newest lease, 0 before the first
    winner   \* [Jobs -> Nat]: lease whose result was accepted, 0 if none

Init ==
    /\ phase = [j \in Jobs |-> "absent"]
    /\ lease = [j \in Jobs |-> 0]
    /\ winner = [j \in Jobs |-> 0]

Keep(j) == lease'[j] = lease[j] /\ winner'[j] = winner[j]

Submit(j) == phase[j] = "absent" /\ phase'[j] = "queued" /\ Keep(j)

\* A lease is granted on a queued job or takes over one whose holder was silent.
Grant(j) ==
    /\ phase[j] \in {"queued", "held"}
    /\ phase'[j] = "held"
    /\ lease'[j] = lease[j] + 1
    /\ winner'[j] = winner[j]

Accept(j) ==
    /\ phase[j] = "held"
    /\ phase'[j] = "done"
    /\ lease'[j] = lease[j]
    /\ winner'[j] = lease[j]

Release(j) == phase[j] = "held" /\ phase'[j] = "queued" /\ Keep(j)

GiveUp(j) == phase[j] \in {"queued", "held"} /\ phase'[j] = "dead" /\ Keep(j)

Revive(j) == phase[j] = "dead" /\ phase'[j] = "queued" /\ Keep(j)

Stay(j) == phase'[j] = phase[j] /\ Keep(j)

Next == \A j \in Jobs :
    Submit(j) \/ Grant(j) \/ Accept(j) \/ Release(j) \/ GiveUp(j) \/ Revive(j) \/ Stay(j)

Spec == Init /\ [][Next]_<<phase, lease, winner>>
=================================================================================
