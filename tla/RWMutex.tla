------------------------------- MODULE RWMutex -------------------------------
(***************************************************************************)
(* Go's sync.RWMutex as the client uses it (Client.authLock and            *)
(* Client.hookLock).  A lock is a record                                   *)
(*                                                                         *)
(*   readers  the read holds granted now; a hold is named by who took it,  *)
(*            so a goroutine that takes the lock twice has two holds;      *)
(*   writer   the goroutine that has announced itself in Lock, NoWriter if *)
(*            there is none.  It owns the lock once the readers that were  *)
(*            there before it have left;                                   *)
(*   waiting  the read holds asked for after the announcement.  They are   *)
(*            all granted by the writer's Unlock, before another writer    *)
(*            can announce itself.                                         *)
(*                                                                         *)
(* A pending writer therefore stops new readers, also a goroutine that     *)
(* already holds the lock for reading.                                     *)
(***************************************************************************)
CONSTANT NoWriter

Unlocked == [readers |-> {}, writer |-> NoWriter, waiting |-> {}]

RWMutexes(Holds, Threads) ==
    [readers : SUBSET Holds, writer : Threads \cup {NoWriter}, waiting : SUBSET Holds]

\* RLock by hold h: granted at once, or parked behind the announced writer.
RLock(lock, h) ==
    IF lock.writer = NoWriter
    THEN [lock EXCEPT !.readers = @ \cup {h}]
    ELSE [lock EXCEPT !.waiting = @ \cup {h}]

HoldsRead(lock, h) == h \in lock.readers

RUnlock(lock, h) == [lock EXCEPT !.readers = @ \ {h}]

\* Lock in two steps: announce (one writer at a time), then own.
CanAnnounce(lock) == lock.writer = NoWriter

Announce(lock, t) == [lock EXCEPT !.writer = t]

HoldsWrite(lock, t) == lock.writer = t /\ lock.readers = {}

Unlock(lock) == [readers |-> lock.waiting, writer |-> NoWriter, waiting |-> {}]
==============================================================================
