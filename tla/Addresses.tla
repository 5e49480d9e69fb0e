------------------------------ MODULE Addresses ------------------------------
(***************************************************************************)
(* The addresses of one account of the development server, their order and *)
(* their keys (backend.go, api.go, account.go, addresses.go, users.go).    *)
(*                                                                         *)
(* A call of the backend is one step under its lock, a panic of it         *)
(* included (gin answers 500, and the deferred unlock runs).  PUT          *)
(* /addresses/order is two: the handler compares the list with the         *)
(* addresses there are, and then calls SetAddressOrder.                    *)
(*                                                                         *)
(* A call that fails before it changes anything is no step.  Whether a key *)
(* can be made for an address is in Unlock.  told is what a client knows   *)
(* that applies every update: an event holds the address as it is when the *)
(* event is built.                                                         *)
(***************************************************************************)
EXTENDS Integers, SequencesExt

CONSTANTS
    AddressIDs,     \* IDs of addresses; an ID is used once, which comes first is the same
    Orderers,       \* goroutines that serve PUT /addresses/order
    MaxKeys,        \* bound: keys of each address
    MaxOrdered,     \* bound: IDs in the list of an ordering
    NoAddress

ASSUME AddressAssumption ==
    IsFiniteSet(AddressIDs) /\ NoAddress \notin AddressIDs /\ MaxKeys \in Nat \ {0}
    /\ MaxOrdered \in Nat /\ Cardinality(AddressIDs) <= MaxOrdered

VARIABLES
    addresses,      \* account.addresses, with what became of each ID
    ordering,       \* the list of each orderer, compared and not yet applied
    told,           \* each address as the last update told it
    toldPrimary,    \* the address of the user as GetUser or an update told it
    disturbed       \* since the last ordering of all of them, was an address deleted or
                    \* an ordering applied that is not one: in part, or with one twice?

addressVars == <<addresses, ordering, told, toldPrimary, disturbed>>

NeverUsed == [st |-> "unused", order |-> 0, enabled |-> FALSE, keys |-> 0]
Deleted == [NeverUsed EXCEPT !.st = "deleted"]

NewAddressID ==
    LET fresh == {a \in AddressIDs : addresses[a] = NeverUsed}
    IN  IF fresh = {} THEN {} ELSE {CHOOSE a \in fresh : TRUE}

Present == {a \in AddressIDs : addresses[a].st = "live"}

\* Server.CreateUser has made the account and its key, and not its address yet.
AddressesInit ==
    /\ addresses = [a \in AddressIDs |-> NeverUsed]
    /\ ordering = [h \in Orderers |-> <<>>]
    /\ told = addresses
    /\ toldPrimary = NoAddress
    /\ disturbed = FALSE

\* acc.primary: any of those with order 1; it panics if there is none.
Primaries(as) == {a \in AddressIDs : as[a].st = "live" /\ as[a].order = 1}

\* Faulty variant: no update is recorded.
TellNothing(ids) == UNCHANGED told

\* newUpdate for each of ids.
Tell(ids) == told' = [a \in AddressIDs |-> IF a \in ids THEN addresses'[a] ELSE told[a]]

\* Faulty variant: the address is numbered from zero.
OrderFromZero == Cardinality(Present)

NextOrder == Cardinality(Present) + 1

\* createAddress, with a key or without, also CreateAddressAsUpdate.
CreateAddress(a) ==
    /\ a \in NewAddressID
    /\ \E withKey \in BOOLEAN, enabled \in BOOLEAN :
          /\ addresses' = [addresses EXCEPT ![a] =
                              [st |-> "live", order |-> NextOrder, enabled |-> enabled,
                               keys |-> IF withKey THEN 1 ELSE 0]]
    /\ Tell({a})
    /\ UNCHANGED <<ordering, toldPrimary, disturbed>>

CreateAddressKey(a) ==
    /\ a \in Present /\ addresses[a].keys < MaxKeys
    /\ addresses' = [addresses EXCEPT ![a].keys = @ + 1]
    /\ Tell({a})
    /\ UNCHANGED <<ordering, toldPrimary, disturbed>>

RemoveAddressKey(a) ==
    /\ a \in Present /\ addresses[a].keys > 0
    /\ addresses' = [addresses EXCEPT ![a].keys = @ - 1]
    /\ Tell({a})
    /\ UNCHANGED <<ordering, toldPrimary, disturbed>>

\* EnableAddress and DisableAddress.
SwitchAddress(a) ==
    /\ a \in Present
    /\ \E enabled \in BOOLEAN : addresses' = [addresses EXCEPT ![a].enabled = enabled]
    /\ Tell({a})
    /\ UNCHANGED <<ordering, toldPrimary, disturbed>>

\* DeleteAddress of a disabled one, or RemoveAddress of any.
DeleteAddress(a) ==
    /\ a \in Present
    /\ addresses' = [addresses EXCEPT ![a] = Deleted]
    /\ Tell({a})
    /\ disturbed' = (Present # {a})
    /\ UNCHANGED <<ordering, toldPrimary>>

------------------------------------------------------------------------------
(* The order of the addresses. *)

\* What a list may hold: an address twice, or one that is not there.
AddressLists == UNION {[1 .. n -> AddressIDs] : n \in 1 .. MaxOrdered}

\* handlePutAddressesOrder: GetAddresses, and the two comparisons, of the lengths
\* and of the addresses with the list, so that none of them is in it twice.
CompareOrder(h) ==
    /\ ordering[h] = <<>>
    /\ \E list \in AddressLists :
          /\ Len(list) = Cardinality(Present) /\ Present \subseteq ToSet(list)
          /\ ordering' = [ordering EXCEPT ![h] = list]
    /\ UNCHANGED <<addresses, told, toldPrimary, disturbed>>

\* The part of the list that the loop of SetAddressOrder comes to.
Applied(list) ==
    LET Absent == {i \in DOMAIN list : list[i] \notin Present}
    IN  IF Absent = {} THEN list ELSE SubSeq(list, 1, Min(Absent) - 1)

\* Faulty variant: the position in the list is taken as it is.
PositionFromZero(list, a) == (CHOOSE i \in DOMAIN list : list[i] = a) - 1

\* The order the loop leaves an address with: that of its last place.
Position(list, a) ==
    CHOOSE i \in DOMAIN list : list[i] = a /\ \A j \in DOMAIN list : list[j] = a => j <= i

\* Faulty variant: the loop records no update.
ReorderedNone(list) == {}

\* The addresses for which the loop comes to a place that is not their order yet;
\* one that is there twice always does.
Reordered(list) == {list[i] : i \in {i \in DOMAIN list : addresses[list[i]].order # i}}

\* Faulty variant: a new primary is not announced.
SamePrimary(p, list) == toldPrimary' = toldPrimary

\* The update of the user, if another address is the primary now; with none,
\* acc.primary panics, and what was done stays.
TellPrimary(p, list) ==
    IF Applied(list) # list \/ Primaries(addresses') = {} THEN toldPrimary' = toldPrimary
    ELSE \E q \in Primaries(addresses') : toldPrimary' = IF p = q THEN toldPrimary ELSE q

\* Faulty variant: acc.primary finds an address if there is any.
AnyPrimary == Present

Primary == Primaries(addresses)

\* All addresses there are, each once.
OrdersAll(list) == ToSet(list) = Present /\ IsInjective(list)

\* SetAddressOrder; an unknown ID ends the loop with an error, and what was
\* done stays.
SetAddressOrder(list) ==
    /\ addresses' = [a \in AddressIDs |->
                        IF a \in ToSet(Applied(list))
                        THEN [addresses[a] EXCEPT !.order = Position(Applied(list), a)] ELSE addresses[a]]
    /\ Tell(Reordered(Applied(list)))
    /\ \E p \in Primary : TellPrimary(p, list)
    /\ disturbed' = IF OrdersAll(list) THEN FALSE ELSE disturbed \/ addresses' # addresses

ApplyOrder(h) ==
    /\ ordering[h] # <<>>
    /\ ordering' = [ordering EXCEPT ![h] = <<>>]
    /\ \/ SetAddressOrder(ordering[h])
       \/ /\ Primary = {}
          /\ UNCHANGED <<addresses, told, toldPrimary, disturbed>>

\* Server.SetAddressOrder, which compares nothing.
OrderSome ==
    /\ \E list \in AddressLists : SetAddressOrder(list)
    /\ UNCHANGED ordering

\* GetUser, which panics when there is no primary; a client asks it once.
GetUser ==
    /\ toldPrimary = NoAddress
    /\ toldPrimary' \in Primaries(addresses)
    /\ UNCHANGED <<addresses, ordering, told, disturbed>>

AddressesNext ==
    \/ \E a \in AddressIDs :
          \/ CreateAddress(a) \/ CreateAddressKey(a) \/ RemoveAddressKey(a)
          \/ SwitchAddress(a) \/ DeleteAddress(a)
    \/ GetUser
    \/ \E h \in Orderers : CompareOrder(h) \/ ApplyOrder(h)
    \/ OrderSome

AddressesSpec == AddressesInit /\ [][AddressesNext]_addressVars

------------------------------------------------------------------------------
(* Properties. *)

AddressesTypeOK ==
    /\ addresses \in [AddressIDs -> [st : {"unused", "live", "deleted"}, order : 0 .. MaxOrdered,
                                     enabled : BOOLEAN, keys : 0 .. MaxKeys]]
    /\ ordering \in [Orderers -> Seq(AddressIDs)]
    /\ told \in [AddressIDs -> [st : {"unused", "live", "deleted"}, order : 0 .. MaxOrdered,
                                enabled : BOOLEAN, keys : 0 .. MaxKeys]]
    /\ toldPrimary \in AddressIDs \cup {NoAddress}
    /\ disturbed \in BOOLEAN /\ \A a \in Present : addresses[a].order # 0

\* createAddress counts the addresses there are to number a new one: the
\* numbers are 1 to n, each once, unless an address was deleted, or an ordering
\* stopped halfway, left one out or named one twice, since the last one of all.
OrderIsComplete ==
    ~disturbed => {addresses[a].order : a \in Present} = 1 .. Cardinality(Present)

\* Once the primary is deleted, or an ordering that names it twice has left the
\* first place empty, nothing makes another address the primary: GetUser and
\* SetAddressOrder panic until the account has no address at all.
NoPrimaryForGood ==
    [][Present # {} /\ Primaries(addresses) = {} =>
          Primaries(addresses') = {}]_addressVars

\* A client that applies all updates knows the order, the status and the
\* keys of every address, also when an ordering has stopped halfway, named an
\* address twice, or panicked over the primary it has taken away.
AddressesTold == told = addresses

\* An ordering of all addresses tells the user's new address to a client that
\* knew the old one, if there was one primary only.
PrimaryTold ==
    [][/\ Primaries(addresses) = {toldPrimary} /\ disturbed' = FALSE
       /\ Cardinality(Primaries(addresses')) = 1
       => Primaries(addresses') = {toldPrimary'}]_addressVars

\* The addresses have the order they were given, clients know it, and a
\* primary that is gone stays so.
AddressesOrdered ==
    /\ [](AddressesTypeOK /\ OrderIsComplete /\ AddressesTold)
    /\ NoPrimaryForGood /\ PrimaryTold
==============================================================================
