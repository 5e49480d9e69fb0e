-------------------------------- MODULE NetCtl --------------------------------
(***************************************************************************)
(* NetCtl (netctl.go): the controller through which tests cut a client off *)
(* the network, limit what it may dial, read and write, and switch it back *)
(* on, while its connections are in use.                                   *)
(*                                                                         *)
(* dial holds dlock while it dials.  A setter holds dlock too, closes      *)
(* every connection and then takes rlock or wlock for the assignment.      *)
(* read and write hold rlock or wlock for the check and for the count, and *)
(* release it for the I/O in between.  rlock and wlock are held for no     *)
(* step of another goroutine, so they are no state here.  The callbacks of *)
(* OnDial, OnRead and OnWrite and the speeds' sleeps are left out; a speed *)
(* setter still closes the connections.                                    *)
(***************************************************************************)
EXTENDS Integers, FiniteSets, SequencesExt

CONSTANTS
    Conns,       \* connections, which are numbers, each dialled once
    Buf,         \* len(b) of every Read and Write
    DialLimits,  \* what dialLimit is set to; 0 is no limit
    Limits,      \* what readLimit and writeLimit are set to; 0 is no limit
    MaxCalls,    \* bound: calls of setters
    MaxIO,       \* bound: Reads and Writes
    NoConn

ASSUME NetCtlAssumption ==
    /\ IsFiniteSet(Conns) /\ Conns \subseteq Nat /\ NoConn \notin Conns
    /\ Buf \in Nat \ {0} /\ DialLimits \subseteq Nat /\ Limits \subseteq Nat
    /\ MaxCalls \in Nat /\ MaxIO \in Nat

VARIABLES
    can,         \* canDial, canRead, canWrite
    limit,       \* dialLimit, readLimit, writeLimit
    count,       \* dialCount, readCount, writeCount
    dialing,     \* the connection whose dial holds dlock, or NoConn
    conn,        \* NetCtl.conns, with what became of each connection
    io,          \* the Read and the Write in progress of each connection
    call,        \* the setter called last: its name and what is left of it
    calls,       \* how many setters were called
    ios          \* how many Reads and Writes passed their check

netVars == <<can, limit, count, dialing, conn, io, call, calls, ios>>

Ways == {"read", "write"}
NoIO == [at |-> "idle", n |-> 0]
NoCall == [name |-> "none", todo |-> <<>>, closed |-> FALSE]

NetInit ==
    /\ can = [w \in Ways \cup {"dial"} |-> TRUE]
    /\ limit = [w \in Ways \cup {"dial"} |-> 0]
    /\ count = [w \in Ways \cup {"dial"} |-> 0]
    /\ dialing = NoConn
    /\ conn = [c \in Conns |-> "new"]
    /\ io = [c \in Conns |-> [w \in Ways |-> NoIO]]
    /\ call = NoCall
    /\ calls = 0
    /\ ios = 0

\* dlock is held by the dial in progress, or by the setter that has closed the
\* connections and has not assigned yet.
DlockFree == dialing = NoConn /\ ~call.closed

------------------------------------------------------------------------------
(* Setters.  A step of a call is a record: which field, and its new value. *)

SetCan(w, v) == [field |-> "can", way |-> w, val |-> v]
SetLimit(w, v) == [field |-> "limit", way |-> w, val |-> v]
SetSpeed(w) == [field |-> "speed", way |-> w, val |-> 0]

\* Faulty variant: the dialer is switched off last.
DisableDialLast == <<SetCan("read", FALSE), SetCan("write", FALSE), SetCan("dial", FALSE)>>

Disable == <<SetCan("dial", FALSE), SetCan("read", FALSE), SetCan("write", FALSE)>>

Enable == <<SetCan("dial", TRUE), SetCan("read", TRUE), SetCan("write", TRUE)>>

Singles ==
    {SetCan(w, v) : w \in Ways \cup {"dial"}, v \in BOOLEAN}
    \cup {SetLimit("dial", v) : v \in DialLimits} \cup {SetLimit(w, v) : w \in Ways, v \in Limits}
    \cup {SetSpeed(w) : w \in Ways}

CallSetter ==
    /\ call.todo = <<>> /\ calls < MaxCalls
    /\ call' \in {[name |-> "Disable", todo |-> Disable, closed |-> FALSE],
                  [name |-> "Enable", todo |-> Enable, closed |-> FALSE]}
                 \cup {[name |-> "Set", todo |-> <<s>>, closed |-> FALSE] : s \in Singles}
    /\ calls' = calls + 1
    /\ UNCHANGED <<can, limit, count, dialing, conn, io, ios>>

\* SetCanDial and SetDialLimit: one assignment under dlock.
SetDial ==
    /\ call.todo # <<>> /\ DlockFree
    /\ Head(call.todo).way = "dial"
    /\ can' = IF Head(call.todo).field = "can" THEN [can EXCEPT !["dial"] = Head(call.todo).val] ELSE can
    /\ limit' = IF Head(call.todo).field = "limit" THEN [limit EXCEPT !["dial"] = Head(call.todo).val] ELSE limit
    /\ call' = [call EXCEPT !.todo = Tail(@)]
    /\ UNCHANGED <<count, dialing, conn, io, calls, ios>>

\* Faulty variant: the connections stay open.
KeepConns == conn

Closed == [c \in Conns |-> IF conn[c] = "open" THEN "closed" ELSE conn[c]]

\* The other setters: dlock.Lock, and every connection is closed...
CloseConns ==
    /\ call.todo # <<>> /\ DlockFree
    /\ Head(call.todo).way # "dial"
    /\ conn' = Closed
    /\ call' = [call EXCEPT !.closed = TRUE]
    /\ UNCHANGED <<can, limit, count, dialing, io, calls, ios>>

\* ...then rlock.Lock or wlock.Lock, the assignment, and both are released.
Assign(field, way) ==
    /\ call.closed
    /\ Head(call.todo).field = field /\ Head(call.todo).way = way
    /\ call' = [call EXCEPT !.todo = Tail(@), !.closed = FALSE]
    /\ UNCHANGED <<dialing, conn, io, calls, ios>>

SetCanRead ==
    /\ Assign("can", "read")
    /\ can' = [can EXCEPT !["read"] = Head(call.todo).val]
    /\ UNCHANGED <<limit, count>>

SetReadLimit ==
    /\ Assign("limit", "read")
    /\ limit' = [limit EXCEPT !["read"] = Head(call.todo).val]
    /\ count' = [count EXCEPT !["read"] = 0]
    /\ UNCHANGED can

SetReadSpeed == Assign("speed", "read") /\ UNCHANGED <<can, limit, count>>

SetCanWrite ==
    /\ Assign("can", "write")
    /\ can' = [can EXCEPT !["write"] = Head(call.todo).val]
    /\ UNCHANGED <<limit, count>>

SetWriteLimit ==
    /\ Assign("limit", "write")
    /\ limit' = [limit EXCEPT !["write"] = Head(call.todo).val]
    /\ count' = [count EXCEPT !["write"] = 0]
    /\ UNCHANGED can

SetWriteSpeed == Assign("speed", "write") /\ UNCHANGED <<can, limit, count>>

Setter ==
    \/ SetDial \/ CloseConns
    \/ SetCanRead \/ SetReadLimit \/ SetReadSpeed
    \/ SetCanWrite \/ SetWriteLimit \/ SetWriteSpeed

------------------------------------------------------------------------------
(* Connections. *)

Below(w) == limit[w] = 0 \/ count[w] < limit[w]

\* Which connection is dialled first is the same.
IsNext(c) == \A d \in Conns : d < c => conn[d] # "new"

\* Faulty variant: dlock is not held while dialling.
DialUnlocked(c) ==
    /\ conn[c] = "new" /\ DlockFree /\ IsNext(c)
    /\ can["dial"] /\ Below("dial")
    /\ conn' = [conn EXCEPT ![c] = "dialing"]
    /\ UNCHANGED <<can, limit, count, dialing, io, call, calls, ios>>

\* dial: dlock.Lock and the checks.
Dial(c) ==
    /\ conn[c] = "new" /\ DlockFree /\ IsNext(c)
    /\ can["dial"] /\ Below("dial")
    /\ conn' = [conn EXCEPT ![c] = "dialing"]
    /\ dialing' = c
    /\ UNCHANGED <<can, limit, count, io, call, calls, ios>>

\* DialContext returns, the connection is added, dlock is released.
Dialled(c) ==
    /\ conn[c] = "dialing"
    /\ dialing' = NoConn
    /\ \/ conn' = [conn EXCEPT ![c] = "open"] /\ count' = [count EXCEPT !["dial"] = @ + 1]
       \/ conn' = [conn EXCEPT ![c] = "failed"] /\ UNCHANGED count
    /\ UNCHANGED <<can, limit, io, call, calls, ios>>

\* Faulty variant: the buffer is not cut to what the limit leaves.
WholeBuffer(w) == Buf

\* rem, the part of the buffer that is read or written.
Rem(w) == IF limit[w] > 0 /\ limit[w] - count[w] < Buf THEN limit[w] - count[w] ELSE Buf

\* read and write, up to the point where they release the lock for the I/O.
\* A Read that is not allowed fails and changes nothing.
Check(c, w) ==
    /\ conn[c] \in {"open", "closed"} /\ io[c][w].at = "idle"
    /\ can[w] /\ Below(w)
    /\ ios < MaxIO
    /\ ios' = ios + 1
    /\ io' = [io EXCEPT ![c][w] = [at |-> "io", n |-> Rem(w)]]
    /\ UNCHANGED <<can, limit, count, dialing, conn, call, calls>>

\* The I/O itself: some of the bytes, or an error when the connection is closed.
Move(c, w) ==
    /\ io[c][w].at = "io"
    /\ \E n \in IF conn[c] = "open" THEN 1 .. io[c][w].n ELSE {0} :
          io' = [io EXCEPT ![c][w] = [at |-> "moved", n |-> n]]
    /\ UNCHANGED <<can, limit, count, dialing, conn, call, calls, ios>>

\* The lock is taken again and the bytes are counted.
Count(c, w) ==
    /\ io[c][w].at = "moved"
    /\ count' = [count EXCEPT ![w] = @ + io[c][w].n]
    /\ io' = [io EXCEPT ![c][w] = NoIO]
    /\ UNCHANGED <<can, limit, dialing, conn, call, calls, ios>>

NetNext ==
    \/ CallSetter \/ Setter
    \/ \E c \in Conns : Dial(c) \/ Dialled(c)
    \/ \E c \in Conns, w \in Ways : Check(c, w) \/ Move(c, w) \/ Count(c, w)

NetSpec == NetInit /\ [][NetNext]_netVars

------------------------------------------------------------------------------
(* Properties. *)

NetTypeOK ==
    /\ can \in [Ways \cup {"dial"} -> BOOLEAN]
    /\ limit \in [Ways \cup {"dial"} -> DialLimits \cup Limits \cup {0}]
    /\ count \in [Ways \cup {"dial"} -> Nat]
    /\ dialing \in Conns \cup {NoConn}
    /\ conn \in [Conns -> {"new", "dialing", "open", "closed", "failed"}]
    /\ \A c \in Conns : conn[c] = "dialing" <=> dialing = c
    /\ io \in [Conns -> [Ways -> [at : {"idle", "io", "moved"}, n : 0 .. Buf]]]
    /\ call.todo \in Seq(Singles) /\ (call.closed => call.todo # <<>> /\ dialing = NoConn)
    /\ calls \in 0 .. MaxCalls /\ ios \in 0 .. MaxIO

\* Once SetCanRead(FALSE) or SetCanWrite(FALSE) is through, not a byte moves
\* that way any more, also not by a Read or Write that passed its check before
\* the switch: the connection it is about to use has been closed.
NothingMovesWhenOff ==
    \A c \in Conns, w \in Ways : io[c][w].at = "io" /\ conn[c] = "open" => can[w]

\* The limits hold for one connection; with several, each of the others can
\* add at most what it was allowed when they checked the same count.  One
\* that was open when the limit was set can add a buffer that moved before.
OvershootBounded ==
    \A w \in Ways :
        LET Others(most) == (Cardinality(Conns) - 1) * most IN
        limit[w] > 0 =>
            count[w] <= IF \A c \in Conns : conn[c] # "closed"
                        THEN limit[w] + Others(Min({Buf, limit[w]}))
                        ELSE Max({Buf, limit[w]}) + Others(Buf)

\* dialLimit is exact, however many goroutines dial.
DialLimitExact ==
    [][count'["dial"] > count["dial"] => Below("dial")]_netVars

\* After Disable no connection is left open and none is being dialled.
DisabledIsDark ==
    call.name = "Disable" /\ call.todo = <<>> =>
        \A c \in Conns : conn[c] \notin {"dialing", "open"}

\* What NetCtl was told to stop has stopped, and its limits hold up to what
\* concurrent Reads and Writes can add.
NetObeys ==
    /\ [](NetTypeOK /\ NothingMovesWhenOff /\ OvershootBounded /\ DisabledIsDark)
    /\ DialLimitExact
==============================================================================
