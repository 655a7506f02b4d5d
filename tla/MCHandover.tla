------------------------------ MODULE MCHandover ------------------------------
(* Two instances of Handover for TLC, by focus: many items with requests one at *)
(* a time, and one item with two requests at once.                             *)
EXTENDS Handover, TLC

CONSTANTS a1, a2, b1, a, b, s1, k1

VARIABLE focus

\* Two items of one asset and one of another.
MCAssetOf == [i \in Items |-> IF i = b1 THEN b ELSE a]

OneAtATime == \A s \in Slots \ {s1} : req'[s] = NoRequest
OneKey     == \A s \in Slots : req'[s].key \in {k1, None}
OneItem    == \A s \in Slots : Existing(req'[s].new) \subseteq {a1}

MCInit == focus \in {"serial", "races"} /\ Init
MCNext == /\ Next
          /\ focus = "serial" => OneAtATime /\ OneKey
          /\ focus = "races"  => OneItem
          /\ UNCHANGED focus
MCSpec == MCInit /\ [][MCNext]_<<focus, vars>>
=================================================================================
