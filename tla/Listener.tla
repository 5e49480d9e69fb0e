------------------------------- MODULE Listener -------------------------------
(***************************************************************************)
(* Listener, hangConn and dropConn (netctl.go): a listener of the test     *)
(* server whose connections can be told to stop reading or writing while   *)
(* they are in use.  A hanging connection waits for the listener to close; *)
(* a dropping one moves half of the buffer and closes.                     *)
(*                                                                         *)
(* Each connection has a goroutine that reads and one that writes.  Both   *)
(* keep rlock or wlock read-locked during the I/O, so SetCanRead and       *)
(* SetCanWrite wait for it, and hold up the other connections meanwhile.   *)
(***************************************************************************)
EXTENDS Integers, RWMutex, FiniteSets

CONSTANTS
    Peers,        \* connections the listener may accept
    Setters,      \* goroutines that call SetCanRead and SetCanWrite
    MaxSets       \* bound: their calls

ASSUME ListenerAssumption ==
    IsFiniteSet(Peers) /\ IsFiniteSet(Setters) /\ NoWriter \notin Setters /\ MaxSets \in Nat

VARIABLES
    kind,         \* what NewListener was given: NewHangConn or NewDropConn
    allowed,      \* canRead and canWrite
    gate,         \* rlock and wlock
    accepted,     \* Listener.conns
    doing,        \* where the Read and the Write of each connection are
    setting,      \* the call of each setter
    shut,         \* is done closed?
    sets          \* how many setters were called

listenerVars == <<kind, allowed, gate, accepted, doing, setting, shut, sets>>

Sides == {"read", "write"}
Unset == [at |-> "idle", side |-> "read", val |-> TRUE]

ListenerInit ==
    /\ kind \in {"hang", "drop"}
    /\ allowed = [s \in Sides |-> TRUE]
    /\ gate = [s \in Sides |-> Unlocked]
    /\ accepted = [p \in Peers |-> "none"]
    /\ doing = [p \in Peers |-> [s \in Sides |-> "idle"]]
    /\ setting = [t \in Setters |-> Unset]
    /\ shut = FALSE
    /\ sets = 0

------------------------------------------------------------------------------
(* The listener. *)

\* Accept.
Accept(p) ==
    /\ ~shut /\ accepted[p] = "none"
    /\ accepted' = [accepted EXCEPT ![p] = "open"]
    /\ UNCHANGED <<kind, allowed, gate, doing, setting, shut, sets>>

\* SetCanRead and SetCanWrite: Lock...
CallSet(t) ==
    /\ setting[t].at = "idle" /\ sets < MaxSets
    /\ \E s \in Sides, v \in BOOLEAN :
          /\ CanAnnounce(gate[s])
          /\ gate' = [gate EXCEPT ![s] = Announce(@, t)]
          /\ setting' = [setting EXCEPT ![t] = [at |-> "lock", side |-> s, val |-> v]]
    /\ sets' = sets + 1
    /\ UNCHANGED <<kind, allowed, accepted, doing, shut>>

\* ...the assignment, and the deferred Unlock.
FinishSet(t) ==
    /\ setting[t].at = "lock"
    /\ HoldsWrite(gate[setting[t].side], t)
    /\ allowed' = [allowed EXCEPT ![setting[t].side] = setting[t].val]
    /\ gate' = [gate EXCEPT ![setting[t].side] = Unlock(@)]
    /\ setting' = [setting EXCEPT ![t] = Unset]
    /\ UNCHANGED <<kind, accepted, doing, shut, sets>>

\* Close, once: connections stay open, and those that hang go on.
CloseListener ==
    /\ ~shut
    /\ shut' = TRUE
    /\ UNCHANGED <<kind, allowed, gate, accepted, doing, setting, sets>>

\* DropAll, and the peer closing its end.
DropAll ==
    /\ \E p \in Peers : accepted[p] = "open"
    /\ accepted' = [p \in Peers |-> IF accepted[p] = "open" THEN "closed" ELSE accepted[p]]
    /\ UNCHANGED <<kind, allowed, gate, doing, setting, shut, sets>>

------------------------------------------------------------------------------
(* Read and Write of a connection, up to the end of the I/O. *)

Now(p, s, what) == doing' = [doing EXCEPT ![p][s] = what]

\* RLock, at once or behind a setter that waits.
Begin(p, s) ==
    /\ accepted[p] = "open" /\ doing[p][s] = "idle"
    /\ gate' = [gate EXCEPT ![s] = RLock(@, p)]
    /\ Now(p, s, "check")
    /\ UNCHANGED <<kind, allowed, accepted, setting, shut, sets>>

\* Faulty variant: the lock is kept while the connection hangs.
HangLocked(p, s) ==
    /\ kind = "hang" /\ doing[p][s] = "check" /\ HoldsRead(gate[s], p)
    /\ Now(p, s, IF allowed[s] THEN "move" ELSE "hang")
    /\ UNCHANGED <<kind, allowed, gate, accepted, setting, shut, sets>>

\* hangConn: the lock is released for the wait on Done.
HangCheck(p, s) ==
    /\ kind = "hang" /\ doing[p][s] = "check" /\ HoldsRead(gate[s], p)
    /\ Now(p, s, IF allowed[s] THEN "move" ELSE "hang")
    /\ gate' = IF allowed[s] THEN gate ELSE [gate EXCEPT ![s] = RUnlock(@, p)]
    /\ UNCHANGED <<kind, allowed, accepted, setting, shut, sets>>

\* Done is closed: RLock again, and then the I/O, with no second check.
HangEnd(p, s) ==
    /\ doing[p][s] = "hang" /\ shut
    /\ gate' = [gate EXCEPT ![s] = RLock(@, p)]
    /\ Now(p, s, "relock")
    /\ UNCHANGED <<kind, allowed, accepted, setting, shut, sets>>

Relocked(p, s) ==
    /\ doing[p][s] = "relock" /\ HoldsRead(gate[s], p)
    /\ Now(p, s, "move")
    /\ UNCHANGED <<kind, allowed, gate, accepted, setting, shut, sets>>

\* Faulty variant: the lock is released before the I/O.
DropUnlocked(p, s) ==
    /\ kind = "drop" /\ doing[p][s] = "check" /\ HoldsRead(gate[s], p)
    /\ Now(p, s, IF allowed[s] THEN "move" ELSE "half")
    /\ gate' = [gate EXCEPT ![s] = RUnlock(@, p)]
    /\ UNCHANGED <<kind, allowed, accepted, setting, shut, sets>>

\* dropConn: the lock is kept.
DropCheck(p, s) ==
    /\ kind = "drop" /\ doing[p][s] = "check" /\ HoldsRead(gate[s], p)
    /\ Now(p, s, IF allowed[s] THEN "move" ELSE "half")
    /\ UNCHANGED <<kind, allowed, gate, accepted, setting, shut, sets>>

EndIO(p, s) ==
    /\ gate' = [gate EXCEPT ![s] = RUnlock(@, p)]
    /\ Now(p, s, "idle")
    /\ UNCHANGED <<kind, allowed, setting, shut, sets>>

\* The peer sends, or takes what is sent: it may never do so.
Transfer(p, s) ==
    /\ doing[p][s] \in {"move", "half"} /\ accepted[p] = "open"
    /\ accepted' = IF doing[p][s] = "half" THEN [accepted EXCEPT ![p] = "closed"] ELSE accepted
    /\ EndIO(p, s)

\* The connection is closed: the I/O fails.
Broken(p, s) ==
    /\ doing[p][s] \in {"move", "half"} /\ accepted[p] = "closed"
    /\ UNCHANGED accepted
    /\ EndIO(p, s)

IOStep(p, s) ==
    \/ HangCheck(p, s) \/ HangEnd(p, s) \/ Relocked(p, s) \/ DropCheck(p, s) \/ Broken(p, s)

ListenerNext ==
    \/ \E p \in Peers : Accept(p)
    \/ \E t \in Setters : CallSet(t) \/ FinishSet(t)
    \/ CloseListener \/ DropAll
    \/ \E p \in Peers, s \in Sides : Begin(p, s) \/ IOStep(p, s) \/ Transfer(p, s)

\* Goroutines run; nothing is assumed of the peers.
ListenerFairness ==
    /\ \A t \in Setters : WF_listenerVars(FinishSet(t))
    /\ \A p \in Peers, s \in Sides : WF_listenerVars(IOStep(p, s))

ListenerSpec == ListenerInit /\ [][ListenerNext]_listenerVars /\ ListenerFairness

------------------------------------------------------------------------------
(* Properties. *)

ListenerTypeOK ==
    /\ kind \in {"hang", "drop"}
    /\ allowed \in [Sides -> BOOLEAN]
    /\ gate \in [Sides -> RWMutexes(Peers, Setters)]
    /\ accepted \in [Peers -> {"none", "open", "closed"}]
    /\ doing \in [Peers -> [Sides -> {"idle", "check", "hang", "relock", "move", "half"}]]
    /\ \A p \in Peers, s \in Sides :
          p \in gate[s].readers \cup gate[s].waiting <=> doing[p][s] \notin {"idle", "hang"}
    /\ setting \in [Setters -> [at : {"idle", "lock"}, side : Sides, val : BOOLEAN]]
    /\ \A t \in Setters, s \in Sides : gate[s].writer = t <=> setting[t].at = "lock" /\ setting[t].side = s
    /\ shut \in BOOLEAN /\ sets \in 0 .. MaxSets

\* When SetCanRead(FALSE) or SetCanWrite(FALSE) has returned, no whole buffer
\* moves that way: what was in progress has ended before.  Only a hanging
\* connection of a closed listener goes on as if nothing had been set.
OffStaysOff ==
    \A p \in Peers, s \in Sides :
        doing[p][s] = "move" => allowed[s] \/ (kind = "hang" /\ shut)

\* A setter returns if, again and again, no I/O of its side is in progress:
\* connections that hang do not hold it up, nor do those that begin after it.
SetterReturns ==
    \A t \in Setters, s \in Sides :
        []<>(\A p \in Peers : doing[p][s] \notin {"move", "half"})
            => (setting[t].at = "lock" /\ setting[t].side = s ~> setting[t].at = "idle")

\* A setter of the listener takes effect, and returns.
ListenerObeys == [](ListenerTypeOK /\ OffStaysOff) /\ SetterReturns
==============================================================================
