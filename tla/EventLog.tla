------------------------------- MODULE EventLog -------------------------------
(***************************************************************************)
(* The update log of one account in the development server: the operations *)
(* that append to account.updateIDs (server/backend/api.go, backend.go)    *)
(* and Backend.GetEvent, which merges a window of the log into one event.  *)
(*                                                                         *)
(* Messages, labels and addresses log the same three kinds of update and   *)
(* are merged alike, so an item stands for any of them; MailItems are the  *)
(* ones RefreshMail is about, and AddressItems the ones GetEvent looks for *)
(* a primary address in.  An item's content is a version number.           *)
(* Every operation runs under the backend's lock; what logs one update is  *)
(* one step.                                                               *)
(***************************************************************************)
EXTENDS Integers, SequencesExt

CONSTANTS
    Items,       \* items that exist now or may be created; an ID is used once
    MailItems,   \* the items that are messages
    AddressItems,   \* the items that are addresses
    First,       \* the address there is at the start
    Limits,      \* what maxUpdatesPerEvent is set to
    MaxUpdates   \* bound: updates ever made

ASSUME LogAssumption ==
    /\ MailItems \subseteq Items /\ Items \cap {"mail", "all"} = {}
    /\ AddressItems \subseteq Items \ MailItems /\ First \in AddressItems
    /\ Limits \subseteq Int /\ MaxUpdates \in Nat

VARIABLES
    store,       \* the content of each item: a version, Absent or Gone
    primaries,   \* the addresses with order 1
    updates,     \* Backend.updates: the update with ID n is updates[n]
    updateIDs,   \* account.updateIDs
    maxUpdatesPerEvent   \* Backend.maxUpdatesPerEvent, 0 or less for no limit

logVars == <<store, primaries, updates, updateIDs, maxUpdatesPerEvent>>

Absent == 0      \* not created yet
Gone == -1       \* deleted
NoEntry == -2    \* not named by an event

Exists(i) == store[i] > 0

Kinds == {"created", "updated", "deleted"}
Flags == {"mail", "all"}

Updates == [kind : Kinds, of : Items] \cup [kind : {"refreshed"}, of : Flags]

LogInit ==
    /\ store = [i \in Items |-> IF i = First THEN 1 ELSE Absent]
    /\ primaries = {First}
    /\ updates = <<[kind |-> "created", of |-> First]>>
    /\ updateIDs = <<1>>
    /\ maxUpdatesPerEvent = 0

------------------------------------------------------------------------------
(* Operations. *)

\* newUpdate, and the append to the account's log.
NewUpdate(kind, of) ==
    /\ Len(updates) < MaxUpdates
    /\ updates' = Append(updates, [kind |-> kind, of |-> of])
    /\ updateIDs' = Append(updateIDs, Len(updates) + 1)
    /\ UNCHANGED maxUpdatesPerEvent

\* Every operation on a new item makes an ID that nothing has named before.
FreshID(i) == store[i] = Absent /\ \A n \in DOMAIN updates : updates[n].of # i

\* CreateLabel, CreateDraft, ImportMessage.
CreateItem(i) ==
    /\ i \notin AddressItems /\ FreshID(i)
    /\ store' = [store EXCEPT ![i] = 1]
    /\ NewUpdate("created", i)
    /\ UNCHANGED primaries

\* createAddress: the order is one more than the number of addresses, so that
\* only the first of all gets order 1.  It may log an update instead.
CreateAddress(i) ==
    /\ i \in AddressItems /\ FreshID(i)
    /\ store' = [store EXCEPT ![i] = 1]
    /\ primaries' = IF \E a \in AddressItems : Exists(a) THEN primaries ELSE primaries \cup {i}
    /\ \E kind \in {"created", "updated"} : NewUpdate(kind, i)

\* UpdateLabel, UpdateDraft, LabelMessages, SetMessagesRead, EnableAddress...
UpdateItem(i) ==
    /\ Exists(i)
    /\ store' = [store EXCEPT ![i] = @ + 1]
    /\ NewUpdate("updated", i)
    /\ UNCHANGED primaries

\* SetAddressOrder, at an address whose order becomes 1 or is 1 no more; any
\* other change of order is UpdateItem.  Nothing keeps a list from naming an
\* address twice, whose order is then not 1.  Order 1 is given at the start of a
\* call, which panics if there is no primary address then.
SetAddressOrder(i) ==
    /\ i \in AddressItems /\ Exists(i)
    /\ primaries # {}
    /\ primaries' = IF i \in primaries THEN primaries \ {i} ELSE primaries \cup {i}
    /\ store' = [store EXCEPT ![i] = @ + 1]
    /\ NewUpdate("updated", i)

\* AddLabelCreatedUpdate, AddMessageCreatedUpdate, AddAddressCreatedUpdate,
\* AddAddressUpdatedEvent, and UnlabelMessages with a label that is gone: the
\* item need not be there.
AddUpdate(kind, i) ==
    /\ kind \in IF i \in MailItems \cup AddressItems THEN {"created", "updated"} ELSE {"created"}
    /\ NewUpdate(kind, i)
    /\ UNCHANGED <<store, primaries>>

\* Faulty variant: the deletion is not logged.
DeleteItemSilently(i) ==
    /\ Exists(i)
    /\ store' = [store EXCEPT ![i] = Gone]
    /\ primaries' = primaries \ {i}
    /\ UNCHANGED <<updates, updateIDs, maxUpdatesPerEvent>>

\* DeleteMessage, DeleteLabel, DeleteAddress, RemoveAddress: also the primary
\* address goes, and no other takes its place.
DeleteItem(i) ==
    /\ Exists(i)
    /\ store' = [store EXCEPT ![i] = Gone]
    /\ primaries' = primaries \ {i}
    /\ NewUpdate("deleted", i)

\* RefreshUser: RefreshAll forgets the log.
RefreshUser(flag) ==
    /\ Len(updates) < MaxUpdates
    /\ updates' = Append(updates, [kind |-> "refreshed", of |-> flag])
    /\ updateIDs' = IF flag = "all" THEN <<Len(updates) + 1>> ELSE Append(updateIDs, Len(updates) + 1)
    /\ UNCHANGED <<store, primaries, maxUpdatesPerEvent>>

\* SetMaxUpdatesPerEvent, also between two pages (where it changes anything).
SetMaxUpdatesPerEvent(max) ==
    /\ max # maxUpdatesPerEvent
    /\ maxUpdatesPerEvent' = max
    /\ UNCHANGED <<store, primaries, updates, updateIDs>>

LogNext ==
    \/ \E i \in Items :
          \/ CreateItem(i) \/ CreateAddress(i) \/ UpdateItem(i) \/ SetAddressOrder(i) \/ DeleteItem(i)
          \/ \E kind \in {"created", "updated"} : AddUpdate(kind, i)
    \/ \E flag \in Flags : RefreshUser(flag)
    \/ \E max \in Limits : SetMaxUpdatesPerEvent(max)

------------------------------------------------------------------------------
(* GetEvent. *)

\* Faulty variant: a deletion replaces nothing.
ReplacesUpdatedOnly(u, other) == u.kind = "updated" /\ other.kind = "updated" /\ u.of = other.of

\* update.replaces: an update replaces updates, a deletion replaces everything.
Replaces(u, other) ==
    /\ u.of = other.of
    /\ \/ u.kind = "updated" /\ other.kind = "updated"
       \/ u.kind = "deleted" /\ other.kind \in {"created", "updated"}

\* merge: from the right, an update stays unless a later one that stayed
\* replaces it.
Merge(us) ==
    FoldRight(LAMBDA u, merged :
                  IF \E other \in ToSet(merged) : Replaces(other, u) THEN merged ELSE <<u>> \o merged,
              us, <<>>)

\* Faulty variant: an ID the log does not have leads to its end.
FirstUpdateOrEnd(id) ==
    IF id \in ToSet(updateIDs) THEN CHOOSE k \in DOMAIN updateIDs : updateIDs[k] = id ELSE Len(updateIDs)

\* slices.Index(...) + 1: an ID the log does not have leads to its start.
FirstUpdate(id) ==
    IF id \in ToSet(updateIDs) THEN CHOOSE k \in DOMAIN updateIDs : updateIDs[k] = id ELSE 0

\* getLastUpdateIndex.
LastUpdate(id) ==
    IF maxUpdatesPerEvent <= 0 \/ FirstUpdate(id) + maxUpdatesPerEvent > Len(updateIDs)
    THEN Len(updateIDs)
    ELSE FirstUpdate(id) + maxUpdatesPerEvent

Window(id) == SubSeq(updateIDs, FirstUpdate(id) + 1, LastUpdate(id))

Merged(id) == Merge([k \in DOMAIN Window(id) |-> updates[Window(id)[k]]])

More(id) == LastUpdate(id) # Len(updateIDs)

\* toUser, which GetEvent calls for every event, panics without a primary
\* address, and buildEvent on an update of an item that is not there; gin's
\* recovery turns that into a 500.
Panics(id) ==
    \/ primaries = {}
    \/ \E u \in ToSet(Merged(id)) : u.kind \in {"created", "updated"} /\ ~Exists(u.of)

\* The nth update named an item that was not there when it was logged: one that
\* was never made, or had been deleted.
Stray(n) ==
    /\ updates[n].kind \in {"created", "updated"}
    /\ \/ store[updates[n].of] = Absent
       \/ \E m \in 1 .. n - 1 : updates[m].kind = "deleted" /\ updates[m].of = updates[n].of

\* buildEvent: the last refresh flag and, for every item that an update which
\* stayed is about, what its last entry says: that it was deleted, or the
\* content the item has now.  (window is what was merged.)
Event(id) ==
    LET m == Merged(id)
        flags == {k \in DOMAIN m : m[k].kind = "refreshed"}
        entries(i) == {k \in DOMAIN m : m[k].of = i}
    IN  [id |-> updateIDs[LastUpdate(id)],
         refresh |-> IF flags = {} THEN "none" ELSE m[Max(flags)].of,
         items |-> [i \in Items |->
                       IF entries(i) = {} THEN NoEntry
                       ELSE IF m[Max(entries(i))].kind = "deleted" THEN Absent ELSE store[i]],
         window |-> ToSet(Window(id))]

==============================================================================
