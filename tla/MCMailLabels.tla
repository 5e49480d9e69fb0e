----------------------------- MODULE MCMailLabels -----------------------------
(* The instance of MailLabels that TLC checks. *)
EXTENDS MailLabels

CONSTANTS l1, l2, n1, n2, h1, m1, i1

TwoLabels == {l1, l2}
TwoNames == {n1, n2}
OneHandler == {h1}
LabelsAndFolders == {"label", "folder"}
OneMessage == {m1}
OneImport == {i1}

SameLabels == Permutations(TwoLabels) \cup Permutations(TwoNames)
==============================================================================
