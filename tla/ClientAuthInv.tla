---------------------------- MODULE ClientAuthInv ----------------------------
(***************************************************************************)
(* The inductive invariant behind the safety properties of ClientAuth: how *)
(* the program counters, the two locks, the exchanges and the session go   *)
(* together.  TLC checks it on the instance with handlers and Close;       *)
(* ClientAuthProofs proves it for every set of goroutines and every bound. *)
(***************************************************************************)
EXTENDS ClientAuth

PCsOK ==
    /\ \A t \in Callers : pc[t] \in CallerPCs
    /\ \A t \in Adders : pc[t] \in AdderPCs
    /\ \A t \in Closers : pc[t] \in CloserPCs

\* Between announcing itself on authLock and releasing it.
WriterPCs ==
    {"refreshHook", "refreshSend", "refreshWait", "refreshed", "failed",
     "closing", "cleared", "clearing"}

\* Owning authLock: the readers have left.
OwnerPCs == WriterPCs \ {"refreshHook", "closing"}

AuthLockOK ==
    /\ \A t \in Callers :
          /\ pc[t] \in {"send", "wait"} <=> t \in authLock.readers \cup authLock.waiting
          /\ pc[t] = "wait" => t \in authLock.readers
    /\ authLock.readers \cap authLock.waiting = {}
    /\ authLock.writer = NoWriter => authLock.waiting = {}
    /\ \A t \in Threads :
          /\ pc[t] \in WriterPCs <=> authLock.writer = t
          /\ pc[t] \in OwnerPCs => authLock.readers = {}

\* An exchange and the program counter of its goroutine.
Fits(x, p) ==
    /\ x.kind = "api" <=> p = "wait"
    /\ x.kind = "refresh" <=> p = "refreshWait"
    /\ x.kind = "none" <=> x.st = "none"
    /\ x.auth # NoTok <=> x.kind = "refresh" /\ x.st = "ok"

ExchangesOK == \A t \in Callers : Fits(net[t], pc[t])

\* A closed client has no tokens, and no handler of the application once the
\* closing goroutine has released authLock.
ClosedOK ==
    /\ \A t \in Closers : pc[t] \in {"cleared", "clearing"} => ~uid
    /\ ~uid => /\ acc = NoTok /\ ref = NoTok
               /\ \/ App \notin authHandlers \cup deauthHandlers
                  \/ \E t \in Closers : pc[t] \in {"cleared", "clearing"}
    /\ uid => ref # NoTok /\ App \in authHandlers

HandlersOK ==
    uid => \A h \in Handlers : told[h] = IF h \in authHandlers /\ told[h] # NoTok THEN ref ELSE NoTok

\* The server's refresh token against the client's.
SessionOK ==
    /\ \A t \in Callers :
          /\ net[t].auth # NoTok => net[t].cred.uid /\ net[t].auth = session.ref
          /\ lost = 0 /\ net[t].kind = "refresh" /\ net[t].st = "invalid" /\ uid => ~session.live
    /\ \A c \in limbo :
          /\ c.tok <= session.ref
          /\ AuthOnItsWay => c.tok < session.ref
    /\ ref <= session.ref
    /\ AuthOnItsWay => ref < session.ref
    /\ lost = 0 => limbo = {} /\ (uid /\ ~AuthOnItsWay => ref = session.ref)

IInv ==
    /\ TypeOK
    /\ PCsOK
    /\ AuthLockOK
    /\ ExchangesOK
    /\ CarriesCurrentTokens
    /\ ClosedOK
    /\ HandlersOK
    /\ SessionOK
    /\ uid => told[App] = ref
    /\ NoSpuriousDeauth
==============================================================================
