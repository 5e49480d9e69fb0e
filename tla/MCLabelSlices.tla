---------------------------- MODULE MCLabelSlices ----------------------------
(* The instances of LabelSlices that TLC checks. *)
EXTENDS LabelSlices

CONSTANTS l1, l2, l3, r1

ThreeLabels == {l1, l2, l3}
OneReader == {r1}

Same == Permutations(ThreeLabels)
==============================================================================
