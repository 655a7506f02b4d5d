---------------------------- MODULE MCSkillRelease ----------------------------
(* Small instances of SkillRelease for TLC. *)
EXTENDS SkillRelease, TLC

\* With and without a manual review.
MCStrict == {p \in Policy : p.approval /\ p.sandbox}

\* Workers and versions are interchangeable.
MCWorkerSymmetry  == Permutations(Scanners)
MCVersionSymmetry == Permutations(Versions)

\* The histories, which no step reads, are not told apart where none is checked.
MCNoHistory == <<policy, skill, ver, mirror, queue, scanner, req, rescans, faults>>

\* The skill is deleted, restored and purged where a review is asked for, which is
\* the policy with more ways to and from production.
MCSafeNext == Next /\ \A s \in Slots : req'[s].op = "skill" => policy.review
MCSafeSpec == Init /\ [][MCSafeNext]_vars
=================================================================================
