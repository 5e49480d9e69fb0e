------------------------------- MODULE MCLabels -------------------------------
(* The instances of Labels that TLC checks. *)
EXTENDS Labels

CONSTANTS l1, l2, l3, n1, n2, n3, h1, h2

ThreeLabels == {l1, l2, l3}
ThreeNames == {n1, n2, n3}
TwoHandlers == {h1, h2}
LabelsAndFolders == {"label", "folder"}

Interchangeable == Permutations(ThreeLabels) \cup Permutations(ThreeNames)
==============================================================================
