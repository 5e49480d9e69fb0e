-------------------------------- MODULE Labels --------------------------------
(***************************************************************************)
(* The labels, folders and contact groups of one account in the            *)
(* development server (server/labels.go, server/backend/api.go, label.go). *)
(*                                                                         *)
(* A call of the backend runs under its lock and is one step.  Creating    *)
(* and updating a label are two: the handler looks the name up and then    *)
(* calls CreateLabel or UpdateLabel, with the lock released in between.    *)
(***************************************************************************)
EXTENDS Integers, SequencesExt, Utils

CONSTANTS
    LabelIDs,    \* IDs of user labels; an ID is used once
    Names,       \* names of user labels
    Types,       \* proton.LabelType of user labels: "label", "folder", "group"
    Root,        \* the parent ID ""
    Handlers     \* the goroutines that serve POST and PUT, a request at a time

ASSUME LabelAssumption ==
    /\ Root \notin LabelIDs /\ IsFiniteSet(LabelIDs)
    /\ Types \subseteq {"label", "folder", "group"}

VARIABLES
    labels,      \* Backend.labels; a deleted label keeps its type here
    labelIDs,    \* account.labelIDs
    request,     \* the request of each handler that has checked its name
    hung         \* does a handler loop for ever under the backend's lock?

labelVars == <<labels, labelIDs, request, hung>>

Unused == [st |-> "unused", name |-> Root, type |-> "none", parent |-> Root]
NoRequest == [kind |-> "none", id |-> Root, name |-> Root, type |-> "none", parent |-> Root]

Live == {l \in LabelIDs : labels[l].st = "live"}

LabelsInit ==
    /\ labels = [l \in LabelIDs |-> Unused]
    /\ labelIDs = <<>>
    /\ request = [h \in Handlers |-> NoRequest]
    /\ hung = FALSE

\* The label n steps above l in ls, or Root.
Above(ls, l, n) ==
    LET up[k \in 0 .. n] ==
            IF k = 0 THEN l ELSE IF up[k - 1] = Root THEN Root ELSE ls[up[k - 1]].parent
    IN  up[n]

Depth == Cardinality(LabelIDs)

\* toLabel's walk to the root ends.
Ends(ls, l) == Above(ls, l, Depth) = Root

\* toLabel finds every label on its way.
Complete(ls, l) ==
    \A n \in 0 .. Depth : Above(ls, l, n) # Root => ls[Above(ls, l, n)].st = "live"

\* GetLabels: the one with this name that HasLabel finds first, or Root.
HasLabel(name) ==
    LET found == SelectSeq(labelIDs, LAMBDA l : labels[l].name = name)
    IN  IF found = <<>> THEN Root ELSE Head(found)

\* Only a folder can have a parent, and the parent must be there.
ParentAllowed(type, parent) == parent = Root \/ (type = "folder" /\ parent \in Live)

------------------------------------------------------------------------------
(* handlePostMailLabels. *)

NameFree(name) == HasLabel(name) = Root

CheckPost(h) ==
    /\ request[h] = NoRequest
    /\ \E name \in Names, type \in Types, parent \in LabelIDs \cup {Root} :
          /\ NameFree(name)
          /\ request' = [request EXCEPT ![h] =
                            [kind |-> "post", id |-> Root, name |-> name, type |-> type, parent |-> parent]]
    /\ UNCHANGED <<labels, labelIDs, hung>>

\* CreateLabel.
CreateLabel(h, l) ==
    /\ labels[l] = Unused
    /\ ParentAllowed(request[h].type, request[h].parent)
    /\ labels' = [labels EXCEPT ![l] = [st |-> "live", name |-> request[h].name,
                                       type |-> request[h].type, parent |-> request[h].parent]]
    /\ labelIDs' = Append(labelIDs, l)

PostLabel(h) ==
    /\ request[h].kind = "post"
    /\ \/ \E l \in LabelIDs : CreateLabel(h, l)
       \/ /\ ~ParentAllowed(request[h].type, request[h].parent)
          /\ UNCHANGED <<labels, labelIDs>>
    /\ request' = [request EXCEPT ![h] = NoRequest]
    /\ UNCHANGED hung

------------------------------------------------------------------------------
(* handlePutMailLabel. *)

CheckPut(h) ==
    /\ request[h] = NoRequest
    /\ \E l \in LabelIDs, name \in Names, parent \in LabelIDs \cup {Root} :
          /\ HasLabel(name) \in {l, Root}
          /\ request' = [request EXCEPT ![h] =
                            [kind |-> "put", id |-> l, name |-> name, type |-> "none", parent |-> parent]]
    /\ UNCHANGED <<labels, labelIDs, hung>>

\* Faulty variant: an updated label is listed once more.
ListAgain(l) == labelIDs' = Append(labelIDs, l)

KeepList(l) == UNCHANGED labelIDs

\* UpdateLabel.  A label that is gone makes it panic, a parent that is not
\* allowed makes it fail; a label that becomes its own ancestor makes toLabel
\* go round for ever.
PutLabel(h) ==
    /\ request[h].kind = "put"
    /\ LET r == request[h]
           valid == r.id \in Live /\ ParentAllowed(labels[r.id].type, r.parent)
           updated == [labels EXCEPT ![r.id].name = r.name, ![r.id].parent = r.parent]
       IN  IF valid
           THEN labels' = updated /\ hung' = ~Ends(updated, r.id) /\ KeepList(r.id)
           ELSE UNCHANGED <<labels, labelIDs, hung>>
    /\ request' = [request EXCEPT ![h] = NoRequest]

------------------------------------------------------------------------------
(* handleDeleteMailLabel. *)

\* Faulty variant: the children stay.
ToDeleteAlone(l) == {l}

\* getLabelIDsToDelete.
ToDelete(l) == {d \in Live : \E n \in 0 .. Depth : Above(labels, d, n) = l}

\* DeleteLabel.  The messages keep the IDs of what is deleted.
DeleteLabel(l) ==
    /\ l \in Live
    /\ labels' = [d \in LabelIDs |->
                     IF d \in ToDelete(l)
                     THEN [st |-> "deleted", name |-> Root, type |-> labels[d].type, parent |-> Root]
                     ELSE labels[d]]
    /\ labelIDs' = Filter(labelIDs, ToDelete(l))
    /\ UNCHANGED <<request, hung>>

LabelsNext ==
    /\ ~hung
    /\ \/ \E h \in Handlers : CheckPost(h) \/ PostLabel(h) \/ CheckPut(h) \/ PutLabel(h)
       \/ \E l \in LabelIDs : DeleteLabel(l)

LabelsSpec == LabelsInit /\ [][LabelsNext]_labelVars

------------------------------------------------------------------------------
(* Properties. *)

LabelsTypeOK ==
    /\ labels \in [LabelIDs -> [st : {"unused", "live", "deleted"}, name : Names \cup {Root},
                                type : Types \cup {"none"}, parent : LabelIDs \cup {Root}]]
    /\ labelIDs \in Seq(LabelIDs) /\ IsInjective(labelIDs)
    /\ request \in [Handlers ->
                       [kind : {"none", "post", "put"}, id : LabelIDs \cup {Root}, name : Names \cup {Root},
                        type : Types \cup {"none"}, parent : LabelIDs \cup {Root}]]
    /\ hung \in BOOLEAN

\* Whatever is created, moved and deleted in whatever order, the account
\* lists exactly the labels there are, and GetLabels can build the path of
\* each: no label outlives a folder above it, and no path goes round in a
\* circle unless the request that made the circle still holds the lock.
ListingWorks ==
    ~hung => /\ ToSet(labelIDs) = Live
             /\ \A l \in Live : Ends(labels, l) /\ Complete(labels, l)

\* The labels there are and the list of them fit together.
LabelsIntact == LabelsTypeOK /\ ListingWorks

\* No two labels of an account have the same name.
NamesUnique ==
    \A l, k \in Live : labels[l].name = labels[k].name => l = k
==============================================================================
