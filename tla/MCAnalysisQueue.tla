---------------------------- MODULE MCAnalysisQueue ----------------------------
(* Instances of AnalysisQueue for TLC. *)
EXTENDS AnalysisQueue, TLC

CONSTANTS j1, j2, w1, w2, p1, p2, s1, s2

\* Each process has a token of its own.
OwnToken    == p1 :> w1 @@ p2 :> w2
\* Two replicas of one compose service share its token.
SharedToken == p1 :> w1 @@ p2 :> w1

SlotSymmetry == Permutations(Slots)
=================================================================================
