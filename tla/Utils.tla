-------------------------------- MODULE Utils --------------------------------
(***************************************************************************)
(* What the server uses of package utils (pkg/utils/slices.go).            *)
(***************************************************************************)
EXTENDS Integers, Sequences

\* utils.Filter: what is not gone, in its order.
Filter(list, gone) ==
    LET kept[n \in 0 .. Len(list)] ==
            IF n = 0 THEN <<>>
            ELSE IF list[n] \in gone THEN kept[n - 1] ELSE Append(kept[n - 1], list[n])
    IN  kept[Len(list)]
==============================================================================
