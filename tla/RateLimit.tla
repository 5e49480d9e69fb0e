------------------------------- MODULE RateLimit -------------------------------
(***************************************************************************)
(* The development server's rate limit (server/rate_limit.go, router.go)   *)
(* and the clients that wait as it tells them (response.go).               *)
(*                                                                         *)
(* Time is counted in half seconds: the server tells whole seconds, and    *)
(* rounds them down.  The limiter looks at the clock twice, so that a      *)
(* window may end between the check and the answer.  A client waits what   *)
(* it is told and some whole seconds more, but no longer than a minute.    *)
(* Delays of the network are part of when a client sends, and so are the   *)
(* tenths of a second resty waits when it was told to wait for nothing.    *)
(***************************************************************************)
EXTENDS Integers, FiniteSets

CONSTANTS
    Senders,      \* requests of clients
    Limit,        \* rateLimiter.limit
    Window,       \* rateLimiter.window
    Jitters,      \* the seconds catchRetryAfter adds: 0 to 9
    MaxWait,      \* SetRetryMaxWaitTime: the longest wait, a minute
    Attempts,     \* how often resty sends a request
    LastTick      \* bound: the clock

ASSUME RateAssumption ==
    /\ Limit \in Nat /\ Window \in Nat \ {0} /\ Jitters \subseteq Nat
    /\ MaxWait \in Nat /\ Attempts \in Nat \ {0} /\ LastTick \in Nat

VARIABLES
    clock,
    limiter,     \* rateLimiter.count and nextReset
    sender,      \* when each request is sent next, how often it was, its window, how it waits
    passed       \* the requests that were let through, when, and what was left then

rateVars == <<clock, limiter, sender, passed>>

RateInit ==
    /\ clock = 0
    /\ limiter = [count |-> 0, nextReset |-> -1]
    /\ sender \in [Senders -> [at : {"sending"}, due : {0}, tries : {0}, refused : {-1}, jitter : {0}, cut : {FALSE}]]
    /\ passed = {}

\* Faulty variant: the count is never reset.
FirstOnly(now) == limiter.nextReset = -1

\* Faulty variant: the window starts with the last request.
Sliding(now) == now > limiter.nextReset - Window

\* time.Now().After(nextReset).
Over(now) == now > limiter.nextReset

\* exceeded, up to its answer: a new window, or one more in this one.
Counted(now) ==
    IF Over(now) THEN [count |-> 1, nextReset |-> now + Window]
    ELSE [limiter EXCEPT !.count = @ + 1]

\* Faulty variant: the jitter is not added.
NoJitter(wait, jitter) == 2 * (wait \div 2)

\* catchRetryAfter: the wait in whole seconds, and the jitter.
RetryAfter(wait, jitter) == 2 * ((wait \div 2) + jitter)

\* resty cuts it to the longest wait.
IsCut(wait, jitter) == RetryAfter(wait, jitter) > MaxWait

WaitFor(wait, jitter) == IF IsCut(wait, jitter) THEN MaxWait ELSE RetryAfter(wait, jitter)

\* exceeded and applyRateLimit.  The clock may tick before time.Until.
Arrive(s) ==
    /\ sender[s].at = "sending" /\ sender[s].due <= clock
    /\ limiter' = Counted(clock)
    /\ \E later \in {0, 1} :
          LET wait == limiter'.nextReset - (clock + later)
              exceeds == limiter'.count > Limit /\ wait > 0
          IN  /\ clock + later <= LastTick
              /\ clock' = clock + later
              /\ IF ~exceeds
                 THEN /\ sender' = [sender EXCEPT ![s].at = "served", ![s].tries = @ + 1]
                      /\ passed' = passed \cup {[who |-> s, time |-> clock, left |-> wait]}
                 ELSE /\ IF sender[s].tries + 1 = Attempts
                         THEN sender' = [sender EXCEPT ![s].at = "refused", ![s].tries = @ + 1]
                         ELSE \E j \in Jitters :
                                 sender' = [sender EXCEPT
                                     ![s].due = clock' + WaitFor(wait, j), ![s].tries = @ + 1,
                                     ![s].refused = limiter'.nextReset, ![s].jitter = j,
                                     ![s].cut = IsCut(wait, j)]
                      /\ passed' = passed

Tick ==
    /\ clock < LastTick
    /\ clock' = clock + 1
    /\ UNCHANGED <<limiter, sender, passed>>

RateNext == Tick \/ \E s \in Senders : Arrive(s)

RateSpec == RateInit /\ [][RateNext]_rateVars

------------------------------------------------------------------------------
(* Properties. *)

RateTypeOK ==
    /\ clock \in 0 .. LastTick
    /\ limiter.count \in Nat /\ limiter.nextReset \in -1 .. LastTick + Window
    /\ limiter.nextReset = -1 \/ limiter.nextReset <= clock + Window
    /\ \A s \in Senders : sender[s].tries \in 0 .. Attempts
    /\ \A p \in passed : p.left >= -1

\* In no time as long as the window more than twice the limit of requests are
\* let through, but for those that come at the very end of a window, which is
\* over when its end is past: the wait that is told is nothing by then.
LimitHolds ==
    \A p \in passed :
       Cardinality({q \in passed : q.left > 0 /\ q.time \in p.time .. p.time + Window - 1}) <= 2 * Limit

\* A request that waits as it was told is refused twice in one window only
\* without jitter, since the seconds it was told are rounded down, or when its
\* wait was cut and the window is no shorter than the longest wait.
RefusedOnce ==
    [][\A s \in Senders :
          sender'[s].tries = sender[s].tries + 1 /\ sender'[s].at # "served"
             /\ limiter'.nextReset = sender[s].refused
          => sender[s].jitter = 0 \/ (sender[s].cut /\ Window >= MaxWait)]_rateVars

\* The limiter lets through what it may, and tells the others when to return.
LimitKept == [](RateTypeOK /\ LimitHolds) /\ RefusedOnce
==============================================================================
