-------------------------------- MODULE Unlock --------------------------------
(***************************************************************************)
(* The keys of one account (backend/backend.go) and a client that unlocks  *)
(* them (unlock.go, keyring.go, salt_types.go).                            *)
(*                                                                         *)
(* A user key is locked with the password and a salt, an address key with  *)
(* a token that is encrypted to a user key.  The account keeps one salt,   *)
(* that of its first user key.  The client reads the user, the salts and   *)
(* the addresses in three requests, in any order, while keys come and go.  *)
(* Everyone has the right password, and every key is active.               *)
(***************************************************************************)
EXTENDS Integers, FiniteSets, SequencesExt

CONSTANTS
    KeyAddresses,     \* the addresses of the account
    MaxUserKeys,      \* bound: user keys that are ever made
    MaxAddressKeys    \* bound: address keys that are ever made

ASSUME UnlockAssumption == MaxUserKeys \in Nat \ {0} /\ MaxAddressKeys \in Nat

VARIABLES
    accKeys,     \* account.keys: each with its ID and its salt
    addrKeys,    \* the keys of each address: the ID and the user key of its token
    keysMade,    \* user keys and address keys made so far
    reader       \* what the client has read, and what it got by unlocking it

unlockVars == <<accKeys, addrKeys, keysMade, reader>>

Unread == [user |-> <<>>, salts |-> {}, addrs |-> [a \in KeyAddresses |-> <<>>],
           seen |-> {}, result |-> "none", userKR |-> {}, addrKRs |-> [a \in KeyAddresses |-> {}]]

AccountSalt == "account"

\* CreateUser.
UnlockInit ==
    /\ accKeys = <<[id |-> 1, salt |-> AccountSalt]>>
    /\ addrKeys = [a \in KeyAddresses |-> <<>>]
    /\ keysMade = [user |-> 1, addr |-> 0]
    /\ reader = Unread

------------------------------------------------------------------------------
(* The server. *)

IDs(keys) == {keys[i].id : i \in DOMAIN keys}

\* CreateUserKey: the salt is the key's own, and nobody keeps it.
MakeUserKey ==
    /\ keysMade.user < MaxUserKeys
    /\ accKeys' = Append(accKeys, [id |-> keysMade.user + 1, salt |-> "own"])
    /\ keysMade' = [keysMade EXCEPT !.user = @ + 1]
    /\ UNCHANGED <<addrKeys, reader>>

\* RemoveUserKey: any key, the first one too.
DropUserKey ==
    /\ \E i \in DOMAIN accKeys : accKeys' = RemoveAt(accKeys, i)
    /\ UNCHANGED <<addrKeys, keysMade, reader>>

\* Faulty variant: the newest user key, which nothing has to unlock.
LastKey == {accKeys[Len(accKeys)]}

\* The user key that the token of a new address key is encrypted to.  It must
\* unlock with the account's salt; without any key at all the server panics.
TokenKey == {k \in {accKeys[1]} : k.salt = AccountSalt}

\* createAddress with a key, CreateAddressKey.
MakeAddressKey(a) ==
    /\ keysMade.addr < MaxAddressKeys /\ accKeys # <<>>
    /\ \E k \in TokenKey :
          addrKeys' = [addrKeys EXCEPT ![a] = Append(@, [id |-> keysMade.addr + 1, by |-> k.id])]
    /\ keysMade' = [keysMade EXCEPT !.addr = @ + 1]
    /\ UNCHANGED <<accKeys, reader>>

\* RemoveAddressKey.
DropAddressKey(a) ==
    /\ \E i \in DOMAIN addrKeys[a] : addrKeys' = [addrKeys EXCEPT ![a] = RemoveAt(@, i)]
    /\ UNCHANGED <<accKeys, keysMade, reader>>

------------------------------------------------------------------------------
(* The client. *)

Reads(what) == reader.result = "none" /\ what \notin reader.seen

\* GetUser: the first key is the primary one.
ReadUser ==
    /\ Reads("user")
    /\ reader' = [reader EXCEPT !.user = accKeys, !.seen = @ \cup {"user"}]
    /\ UNCHANGED <<accKeys, addrKeys, keysMade>>

\* GetSalts: the account's salt, for each of its keys.
ReadSalts ==
    /\ Reads("salts")
    /\ reader' = [reader EXCEPT !.salts = IDs(accKeys), !.seen = @ \cup {"salts"}]
    /\ UNCHANGED <<accKeys, addrKeys, keysMade>>

\* GetAddresses.
ReadAddresses ==
    /\ Reads("addrs")
    /\ reader' = [reader EXCEPT !.addrs = addrKeys, !.seen = @ \cup {"addrs"}]
    /\ UNCHANGED <<accKeys, addrKeys, keysMade>>

\* Keys.Unlock of the user keys: those the password opens with that salt.
UserKeyRing == {k.id : k \in {reader.user[i] : i \in {j \in DOMAIN reader.user : reader.user[j].salt = AccountSalt}}}

\* Faulty variant: an address counts if its first key opens.
FirstOpens(a) ==
    IF reader.addrs[a] # <<>> /\ reader.addrs[a][1].by \in UserKeyRing THEN {reader.addrs[a][1].id} ELSE {}

\* Keys.TryUnlock: the keys of the address whose token the user's ring opens.
AddressKeyRing(a) ==
    {k.id : k \in {reader.addrs[a][i] : i \in {j \in DOMAIN reader.addrs[a] : reader.addrs[a][j].by \in UserKeyRing}}}

\* Faulty variant: a user's ring is enough.
UserIsEnough == UserKeyRing # {}

\* Unlock fails without a user key and without an address key.
Opens == UserKeyRing # {} /\ \E a \in KeyAddresses : AddressKeyRing(a) # {}

HasSalt == reader.user[1].id \in reader.salts

\* Keys.Primary, SaltForKey, Unlock.  Primary panics if there is no key.
UnlockKeys ==
    /\ reader.result = "none" /\ reader.seen = {"user", "salts", "addrs"} /\ reader.user # <<>>
    /\ reader' =
         IF HasSalt /\ Opens
         THEN [reader EXCEPT !.result = "ok", !.userKR = UserKeyRing,
                             !.addrKRs = [a \in KeyAddresses |-> AddressKeyRing(a)]]
         ELSE [reader EXCEPT !.result = "err"]
    /\ UNCHANGED <<accKeys, addrKeys, keysMade>>

\* The client does it all again.
ReadAgain ==
    /\ reader.result # "none"
    /\ reader' = Unread
    /\ UNCHANGED <<accKeys, addrKeys, keysMade>>

UnlockNext ==
    \/ MakeUserKey \/ DropUserKey
    \/ \E a \in KeyAddresses : MakeAddressKey(a) \/ DropAddressKey(a)
    \/ ReadUser \/ ReadSalts \/ ReadAddresses \/ UnlockKeys \/ ReadAgain

UnlockSpec == UnlockInit /\ [][UnlockNext]_unlockVars

------------------------------------------------------------------------------
(* Properties. *)

UnlockTypeOK ==
    /\ IDs(accKeys) \subseteq 1 .. MaxUserKeys /\ Cardinality(IDs(accKeys)) = Len(accKeys)
    /\ \A a \in KeyAddresses :
          IDs(addrKeys[a]) \subseteq 1 .. MaxAddressKeys /\ reader.addrKRs[a] \subseteq 1 .. MaxAddressKeys
    /\ reader.userKR \subseteq 1 .. MaxUserKeys
    /\ reader.result \in {"none", "ok", "err"}
    /\ reader.result = "ok" => \E a \in KeyAddresses : reader.addrKRs[a] # {}

\* Every key of an address has a token for a key the account was made with: no
\* address key is made that its owner could not open at the time, though user
\* keys are made with salts that are lost.
TokensCanBeOpened ==
    \A a \in KeyAddresses : \A i \in DOMAIN addrKeys[a] : addrKeys[a][i].by = 1

\* A client that unlocks has every key of every address it has read, or none:
\* keys that are added or removed between its requests do not leave it with a
\* part of an address.
UnlocksAll ==
    reader.result = "ok" => \A a \in KeyAddresses : reader.addrKRs[a] = IDs(reader.addrs[a])

\* A client that holds the password cannot unlock only if no address it has
\* read has a key, the first user key is gone, or the primary key it has read
\* had no salt by the time it asked for the salts.
LockedOutForAReason ==
    reader.result = "err" =>
        \/ \A a \in KeyAddresses : reader.addrs[a] = <<>>
        \/ 1 \notin IDs(reader.user)
        \/ reader.user[1].id \notin reader.salts

\* The keys of an account can be unlocked, all of them, or it is known why not.
KeysUsable == UnlockTypeOK /\ TokensCanBeOpened /\ UnlocksAll /\ LockedOutForAReason
==============================================================================
