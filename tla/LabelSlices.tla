----------------------------- MODULE LabelSlices -----------------------------
(***************************************************************************)
(* The slice message.labelIDs of one message and the answers built from it *)
(* (server/backend/message.go): toMetadata appends the system labels to    *)
(* the message's own slice, under the read lock of the backend, and the    *)
(* handler encodes the result after the lock is released.                  *)
(*                                                                         *)
(* A slice is an array and a length; an append writes in place if the      *)
(* array has room, and otherwise copies to a new one.                      *)
(***************************************************************************)
EXTENDS Integers, SequencesExt

CONSTANTS
    UserLabels,   \* IDs of labels (LabelTypeLabel) that exist
    Readers,      \* requests that get the message
    AllMail, Inbox,   \* system labels
    Nothing       \* the empty string, in the unused part of an array

VARIABLES
    heap,      \* the arrays
    labelIDs,  \* message.labelIDs
    inInbox,   \* is message.sysLabel nil, so that it is in the inbox?
    pc,        \* of each reader
    answer,    \* its MessageMetadata.LabelIDs
    meant      \* what toMetadata put into it

vars == <<heap, labelIDs, inInbox, pc, answer, meant>>

\* Enough arrays for the message, every answer and one that is being made.
Arrays == 0 .. Cardinality(Readers) + 2

NoSlice == [arr |-> 0, len |-> 0]

Content(s) == SubSeq(heap[s.arr], 1, s.len)

\* An array that neither the message nor an answer uses.
Fresh == CHOOSE a \in Arrays \ {0} : \A r \in Readers : a \notin {labelIDs.arr, answer[r].arr}

Init ==
    /\ heap = [a \in Arrays |-> <<>>]
    /\ labelIDs = NoSlice
    /\ inInbox = FALSE
    /\ pc = [r \in Readers |-> "idle"]
    /\ answer = [r \in Readers |-> NoSlice]
    /\ meant = [r \in Readers |-> <<>>]

Padded(xs, cap) == [k \in 1 .. cap |-> IF k <= Len(xs) THEN xs[k] ELSE Nothing]

\* The capacity of a slice that has to grow (for the few elements there are).
Grown(cap, need) == IF need > 2 * cap THEN need ELSE 2 * cap

\* append(s, xs...).
Appended(s, xs) ==
    LET need == s.len + Len(xs)
        old == heap[s.arr]
    IN  IF need <= Len(old)
        THEN [slice |-> [arr |-> s.arr, len |-> need],
              array |-> [k \in DOMAIN old |->
                            IF k \in s.len + 1 .. need THEN xs[k - s.len] ELSE old[k]]]
        ELSE [slice |-> [arr |-> Fresh, len |-> need],
              array |-> Padded(Content(s) \o xs, Grown(Len(old), need))]

------------------------------------------------------------------------------
(* Writers, under the write lock. *)

\* addUserLabel of a label.
AddUserLabel(l) ==
    /\ l \notin ToSet(Content(labelIDs))
    /\ LET a == Appended(labelIDs, <<l>>)
       IN  labelIDs' = a.slice /\ heap' = [heap EXCEPT ![a.slice.arr] = a.array]
    /\ UNCHANGED <<inInbox, pc, answer, meant>>

\* remUserLabel: utils.Filter deletes from a clone of exactly the old length.
RemUserLabel(l) ==
    /\ l \in ToSet(Content(labelIDs))
    /\ LET kept == SelectSeq(Content(labelIDs), LAMBDA k : k # l)
       IN  /\ labelIDs' = [arr |-> Fresh, len |-> Len(kept)]
           /\ heap' = [heap EXCEPT ![Fresh] = Padded(kept, labelIDs.len)]
    /\ UNCHANGED <<inInbox, pc, answer, meant>>

\* addFlagLabel: the filter keeps all labels, in a clone.
AddInbox ==
    /\ inInbox' = TRUE
    /\ labelIDs' = [arr |-> Fresh, len |-> labelIDs.len]
    /\ heap' = [heap EXCEPT ![Fresh] = Content(labelIDs)]
    /\ UNCHANGED <<pc, answer, meant>>

\* remFlagLabel.
RemInbox ==
    /\ inInbox
    /\ inInbox' = FALSE
    /\ UNCHANGED <<heap, labelIDs, pc, answer, meant>>

------------------------------------------------------------------------------
(* Readers. *)

\* getLabelIDs of a received message.
SystemLabels == IF inInbox THEN <<AllMail, Inbox>> ELSE <<AllMail>>

\* GetMessage, GetMessages, GetEvent: toMetadata under the read lock.
ToMetadata(r) ==
    /\ pc[r] = "idle"
    /\ LET a == Appended(labelIDs, SystemLabels)
       IN  answer' = [answer EXCEPT ![r] = a.slice] /\ heap' = [heap EXCEPT ![a.slice.arr] = a.array]
    /\ meant' = [meant EXCEPT ![r] = Content(labelIDs) \o SystemLabels]
    /\ pc' = [pc EXCEPT ![r] = "encode"]
    /\ UNCHANGED <<labelIDs, inInbox>>

\* c.JSON, without a lock.
Encode(r) ==
    /\ pc[r] = "encode"
    /\ pc' = [pc EXCEPT ![r] = "idle"]
    /\ answer' = [answer EXCEPT ![r] = NoSlice]
    /\ meant' = [meant EXCEPT ![r] = <<>>]
    /\ UNCHANGED <<heap, labelIDs, inInbox>>

Next ==
    \/ \E l \in UserLabels : AddUserLabel(l) \/ RemUserLabel(l)
    \/ AddInbox \/ RemInbox
    \/ \E r \in Readers : ToMetadata(r) \/ Encode(r)

Spec == Init /\ [][Next]_vars

------------------------------------------------------------------------------
(* Properties. *)

\* An answer that is being encoded holds the labels the message had when the
\* answer was built.
AnswersAreTrue == \A r \in Readers : pc[r] = "encode" => Content(answer[r]) = meant[r]
==============================================================================
