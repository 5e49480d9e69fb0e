---------------------------- MODULE ManagerStatus ----------------------------
(***************************************************************************)
(* The connection status of a Manager (manager.go): the hooks of its       *)
(* requests set it, in the goroutine of each request, and call the         *)
(* observers with statusLock held.                                         *)
(*                                                                         *)
(* What a request ends with is in Endings: resty runs checkConnUp after    *)
(* an answer that is no API error, and checkConnDown, once, for a request  *)
(* that has failed for good.                                               *)
(***************************************************************************)
EXTENDS Integers, SequencesExt

CONSTANTS
    Calls,         \* requests, each made once
    Observers,     \* functions given to AddStatusObserver
    Nobody         \* statusLock is free

ASSUME StatusAssumption ==
    /\ IsFiniteSet(Calls) /\ IsFiniteSet(Observers)
    /\ Nobody \notin Calls \cup Observers

VARIABLES
    status,        \* Manager.status
    observers,     \* Manager.observers
    heard,          \* what each observer was called with
    since,         \* the status when it was added
    holder,        \* who holds statusLock
    ended,         \* what each request ended with
    left           \* the observers the holder has not called yet

statusVars == <<status, observers, heard, since, holder, ended, left>>

\* An answer; an API error (429 and 503 when retries are used up included); no
\* response; a network error in the middle of one; an error that is no
\* ResponseError; a context that was cancelled.
Endings == {"answer", "apiError", "noResponse", "opError", "other", "cancelled"}

\* What checkConnUp and checkConnDown make of it.
Verdict(end) ==
    IF end \in {"answer", "apiError"} THEN "up" ELSE IF end = "cancelled" THEN "none" ELSE "down"

StatusInit ==
    /\ status = "up"
    /\ observers = <<>>
    /\ heard = [o \in Observers |-> <<>>]
    /\ since = [o \in Observers |-> "none"]
    /\ holder = Nobody
    /\ ended = [c \in Calls |-> "none"]
    /\ left = <<>>

\* AddStatusObserver: the observer is not told the status it starts from.
AddStatusObserver(o) ==
    /\ holder = Nobody /\ since[o] = "none"
    /\ observers' = Append(observers, o)
    /\ since' = [since EXCEPT ![o] = status]
    /\ UNCHANGED <<status, heard, holder, ended, left>>

\* A request ends; its hook will ask for the lock.
End(c) ==
    /\ ended[c] = "none"
    /\ \E e \in Endings : ended' = [ended EXCEPT ![c] = e]
    /\ UNCHANGED <<status, observers, heard, since, holder, left>>

Pending(c) == ended[c] \in Endings

\* The hook of a cancelled request does nothing.
Ignore(c) ==
    /\ Pending(c) /\ Verdict(ended[c]) = "none"
    /\ ended' = [ended EXCEPT ![c] = "done"]
    /\ UNCHANGED <<status, observers, heard, since, holder, left>>

\* Faulty variant: the observers are called after the lock is released.
LockNot(c) == Nobody

LockIs(c) == c

\* Faulty variant: the observers are called for every answer.
AlwaysChanges(v) == TRUE

Changes(v) == status # v

\* onConnUp and onConnDown: Lock, and return if the status is that already.
OnConn(c) ==
    /\ Pending(c) /\ Verdict(ended[c]) # "none" /\ holder = Nobody
    /\ ended' = [ended EXCEPT ![c] = "done"]
    /\ IF Changes(Verdict(ended[c]))
       THEN /\ status' = Verdict(ended[c])
            /\ left' = left \o observers
            /\ holder' = IF observers = <<>> THEN Nobody ELSE LockIs(c)
       ELSE UNCHANGED <<status, holder, left>>
    /\ UNCHANGED <<observers, heard, since>>

\* The loop over the observers, with m.status; the lock is released at its end.
Notify ==
    /\ left # <<>>
    /\ heard' = [heard EXCEPT ![Head(left)] = Append(@, status)]
    /\ left' = Tail(left)
    /\ holder' = IF Len(left) = 1 THEN Nobody ELSE holder
    /\ UNCHANGED <<status, observers, since, ended>>

StatusNext ==
    \/ \E o \in Observers : AddStatusObserver(o)
    \/ \E c \in Calls : End(c) \/ Ignore(c) \/ OnConn(c)
    \/ Notify

StatusSpec == StatusInit /\ [][StatusNext]_statusVars

------------------------------------------------------------------------------
(* Properties. *)

Statuses == {"up", "down"}

StatusTypeOK ==
    /\ status \in Statuses
    /\ observers \in Seq(Observers) /\ IsInjective(observers)
    /\ heard \in [Observers -> Seq(Statuses)]
    /\ since \in [Observers -> Statuses \cup {"none"}]
    /\ holder \in Calls \cup {Nobody}
    /\ ended \in [Calls -> Endings \cup {"none", "done"}]
    /\ left \in Seq(Observers) /\ (left # <<>> <=> holder # Nobody)

\* What an observer knows: the last status it was told, or the one it was added in.
Known(o) == IF heard[o] = <<>> THEN since[o] ELSE Last(heard[o])

\* However the hooks of concurrent requests interleave, an observer is told
\* every change, in order: what it hears alternates, from the status it was
\* added in.
ToldAlternates ==
    \A o \in Observers :
        \A i \in 1 .. Len(heard[o]) :
            heard[o][i] # (IF i = 1 THEN since[o] ELSE heard[o][i - 1])

\* Whenever nobody holds the lock, all observers know the status GetStatus
\* returns: none is left with an older one.
ObserversAgree ==
    holder = Nobody => \A o \in ToSet(observers) : Known(o) = status

\* The observers are told what GetStatus says, all of it and nothing else.
StatusIsTold == StatusTypeOK /\ ToldAlternates /\ ObserversAgree
==============================================================================
