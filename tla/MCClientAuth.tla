---------------------------- MODULE MCClientAuth ----------------------------
(* The instances of ClientAuth that TLC checks. *)
EXTENDS ClientAuthInv

CONSTANTS c1, c2, a1, z1

OneCaller == {c1}
TwoCallers == {c1, c2}
NoOne == {}
OneAdder == {a1}
OneCloser == {z1}

==============================================================================
