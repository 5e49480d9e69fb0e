------------------------------- MODULE EventFeed -------------------------------
(***************************************************************************)
(* What the event stream promises its reader: the updates of the account   *)
(* are numbered, and the reader is told of them in order, none twice and   *)
(* none left out, except that after a reset (RefreshAll) it may be taken   *)
(* straight to the reset, which tells it to fetch everything anew.         *)
(***************************************************************************)
EXTENDS Integers, FiniteSetsExt

VARIABLES
    made,     \* how many updates have been made
    resets,   \* the numbers of the updates that were resets
    told      \* the updates the reader has been told of

vars == <<made, resets, told>>

Read == Max(told \cup {1})    \* where the reader is; it starts at update 1

Init == made = 1 /\ resets = {} /\ told = {}

Make ==
    /\ made' = made + 1
    /\ resets' \in {resets, resets \cup {made + 1}}
    /\ UNCHANGED told

Tell ==
    /\ \E from \in {Read + 1} \cup {r \in resets : r > Read} :
          \E to \in from .. made : told' = told \cup from .. to
    /\ UNCHANGED <<made, resets>>

Next == Make \/ Tell

Spec == Init /\ [][Next]_vars
==============================================================================
