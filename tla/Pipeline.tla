------------------------------- MODULE Pipeline -------------------------------
(***************************************************************************)
(* What the development server does with a request before and after its    *)
(* handler (server_builder.go, router.go, call.go), and the callbacks that *)
(* tests register (server.go).                                             *)
(*                                                                         *)
(* A request is logged around everything else: offline, app version,       *)
(* status hooks, rate limit, handler, and then the call watchers.  Hooks   *)
(* and watchers run with their lock held for reading, and may themselves   *)
(* register another hook or watcher.  A panic is answered by gin's         *)
(* recovery, which is outside of the logging.  The client has read the     *)
(* whole answer only when the request is through: net/http ends it then.   *)
(***************************************************************************)
EXTENDS Integers, FiniteSets, RWMutex

CONSTANTS
    Arrivals,       \* requests
    Adders,         \* calls of AddStatusHook and AddCallWatcher from outside
    AddsTo,         \* which of the two each is
    MaxCallbacks    \* bound: hooks, and watchers

ASSUME PipelineAssumption ==
    /\ AddsTo \in [Adders -> {"hooks", "watchers"}]
    /\ IsFiniteSet(Arrivals) /\ IsFiniteSet(Adders) /\ Arrivals \cap Adders = {}
    /\ NoWriter \notin Arrivals \cup Adders /\ MaxCallbacks \in Nat \ {0}

VARIABLES
    offline,      \* Server.offline, which no lock protects
    callbacks,    \* how many statusHooks and callWatchers there are
    locks,        \* statusHooksLock and callWatchersLock
    arrival,      \* where each request is, and what it has run
    adder,        \* where each call from outside is
    nested        \* the locks callbacks were run and registered under

pipelineVars == <<offline, callbacks, locks, arrival, adder, nested>>

Lists == {"hooks", "watchers"}
NewArrival == [at |-> "new", list |-> "hooks", next |-> 1, to |-> "hooks",
               status |-> "none", ran |-> 0, before |-> [k \in Lists |-> 0]]

PipelineInit ==
    /\ offline = FALSE
    /\ callbacks = [k \in Lists |-> 1]
    /\ locks = [k \in Lists |-> Unlocked]
    /\ arrival = [r \in Arrivals |-> NewArrival]
    /\ adder = [a \in Adders |-> "new"]
    /\ nested = {}

------------------------------------------------------------------------------
(* The middleware. *)

\* logCalls and handleOffline: SetOffline may come between.
Come(r) ==
    /\ arrival[r].at = "new"
    /\ arrival' = [arrival EXCEPT ![r].at = "online?", ![r].before = callbacks]
    /\ UNCHANGED <<offline, callbacks, locks, adder, nested>>

SetOffline ==
    /\ offline' = TRUE
    /\ UNCHANGED <<callbacks, locks, arrival, adder, nested>>

\* Where the request goes once it has a status: an aborted one is still logged.
Ended(r, status) == [arrival EXCEPT ![r].status = status, ![r].at = "callbacks", ![r].list = "watchers", ![r].next = 1]

\* Faulty variant: the status hooks come after the handler.
ToHandler(r) == [arrival EXCEPT ![r].at = "handler"]

ToHooks(r) == [arrival EXCEPT ![r].at = "callbacks", ![r].list = "hooks"]

\* handleOffline, requireValidAppVersion.
CheckRequest(r) ==
    /\ arrival[r].at = "online?"
    /\ arrival' \in {Ended(r, "refused")} \cup (IF offline THEN {} ELSE {ToHooks(r)})
    /\ UNCHANGED <<offline, callbacks, locks, adder, nested>>

\* RLock, of applyStatusHooks and of logCalls.
AskForCallbacks(r) ==
    /\ arrival[r].at = "callbacks"
    /\ locks' = [locks EXCEPT ![arrival[r].list] = RLock(@, r)]
    /\ arrival' = [arrival EXCEPT ![r].at = "running"]
    /\ UNCHANGED <<offline, callbacks, adder, nested>>

Running(r) == arrival[r].at = "running" /\ HoldsRead(locks[arrival[r].list], r)
Release(r) == locks' = [locks EXCEPT ![arrival[r].list] = RUnlock(@, r)]
Left(r) == arrival[r].next <= callbacks[arrival[r].list]
Panicked(r) == [arrival EXCEPT ![r].at = "answered", ![r].status = "panicked"]

\* A hook lets the request pass, or a watcher returns.
CallbackReturns(r) ==
    /\ Running(r) /\ Left(r)
    /\ arrival' = [arrival EXCEPT ![r].next = @ + 1]
    /\ UNCHANGED <<offline, callbacks, locks, adder, nested>>

\* Faulty variant: the lock is not released by a hook that ends the request.
KeepsLock(r) == locks' = locks

ReleaseAtStatus(r) == Release(r)

\* A hook has a status for the request.
HookEnds(r) ==
    /\ Running(r) /\ Left(r) /\ arrival[r].list = "hooks"
    /\ arrival' = Ended(r, "refused")
    /\ ReleaseAtStatus(r)
    /\ UNCHANGED <<offline, callbacks, adder, nested>>

\* A callback panics: the lock is released by its defer.
CallbackPanics(r) ==
    /\ Running(r) /\ Left(r)
    /\ arrival' = Panicked(r)
    /\ Release(r)
    /\ UNCHANGED <<offline, callbacks, adder, nested>>

\* A callback calls AddStatusHook or AddCallWatcher.
CallbackAdds(r, k) ==
    /\ Running(r) /\ Left(r) /\ callbacks[k] < MaxCallbacks
    /\ arrival' = [arrival EXCEPT ![r].at = "adding", ![r].to = k]
    /\ nested' = nested \cup {<<arrival[r].list, k>>}
    /\ UNCHANGED <<offline, callbacks, locks, adder>>

\* Faulty variant: the last callback is left out.
AllButLastRun(r) == arrival[r].next >= callbacks[arrival[r].list]

AllRun(r) == ~Left(r)

\* The loop is over: on to the rate limit, or the request is through.
CallbacksDone(r) ==
    /\ Running(r) /\ AllRun(r)
    /\ arrival' = IF arrival[r].list = "hooks"
                  THEN [arrival EXCEPT ![r].at = "handler", ![r].ran = arrival[r].next - 1]
                  ELSE [arrival EXCEPT ![r].at = "answered"]
    /\ Release(r)
    /\ UNCHANGED <<offline, callbacks, adder, nested>>

\* applyRateLimit, and the handler.
Handle(r) ==
    /\ arrival[r].at = "handler"
    /\ arrival' \in {Ended(r, "handled"), Panicked(r)}
    /\ UNCHANGED <<offline, callbacks, locks, adder, nested>>

------------------------------------------------------------------------------
(* AddStatusHook and AddCallWatcher: Lock, append, Unlock. *)

Locks(k, who) == CanAnnounce(locks[k]) /\ locks' = [locks EXCEPT ![k] = Announce(@, who)]
Adds(k, who) ==
    /\ HoldsWrite(locks[k], who)
    /\ callbacks' = [callbacks EXCEPT ![k] = @ + 1]
    /\ locks' = [locks EXCEPT ![k] = Unlock(@)]

NestedLock(r) ==
    /\ arrival[r].at = "adding"
    /\ Locks(arrival[r].to, r)
    /\ arrival' = [arrival EXCEPT ![r].at = "locking"]
    /\ UNCHANGED <<offline, callbacks, adder, nested>>

NestedAdd(r) ==
    /\ arrival[r].at = "locking"
    /\ Adds(arrival[r].to, r)
    /\ arrival' = [arrival EXCEPT ![r].at = "running", ![r].to = "hooks", ![r].next = @ + 1]
    /\ UNCHANGED <<offline, adder, nested>>

AddLock(a) ==
    /\ adder[a] = "new" /\ callbacks[AddsTo[a]] < MaxCallbacks
    /\ Locks(AddsTo[a], a)
    /\ adder' = [adder EXCEPT ![a] = "locking"]
    /\ UNCHANGED <<offline, callbacks, arrival, nested>>

Add(a) ==
    /\ adder[a] = "locking"
    /\ Adds(AddsTo[a], a)
    /\ adder' = [adder EXCEPT ![a] = "added"]
    /\ UNCHANGED <<offline, arrival, nested>>

Callback(r) == CallbackReturns(r) \/ HookEnds(r) \/ CallbackPanics(r) \/ \E k \in Lists : CallbackAdds(r, k)

Advance(r) ==
    \/ CheckRequest(r) \/ AskForCallbacks(r) \/ Callback(r) \/ CallbacksDone(r)
    \/ Handle(r) \/ NestedLock(r) \/ NestedAdd(r)

PipelineNext ==
    \/ \E r \in Arrivals : Come(r) \/ Advance(r)
    \/ SetOffline
    \/ \E a \in Adders : AddLock(a) \/ Add(a)

\* A request that has come is served, callbacks return, and a mutex that is
\* free is given to somebody.  Requests need not come, nor need anyone add.
PipelineFairness ==
    /\ \A r \in Arrivals : WF_pipelineVars(Advance(r))
    /\ \A a \in Adders : WF_pipelineVars(Add(a))

PipelineSpec == PipelineInit /\ [][PipelineNext]_pipelineVars /\ PipelineFairness

------------------------------------------------------------------------------
(* Properties. *)

PipelineTypeOK ==
    /\ offline \in BOOLEAN
    /\ callbacks \in [Lists -> 1 .. MaxCallbacks + Cardinality(Arrivals \cup Adders)]
    /\ locks \in [Lists -> RWMutexes(Arrivals, Arrivals \cup Adders)]
    /\ \A r \in Arrivals : \A k \in Lists :
          r \in locks[k].readers => arrival[r].list = k /\ arrival[r].at \in {"running", "adding", "locking"}
    /\ nested \subseteq Lists \X Lists

\* A request was served only after every status hook that was there when it
\* came has let it pass, whatever else was registered meanwhile.
HooksApply ==
    \A r \in Arrivals : arrival[r].status = "handled" => arrival[r].ran >= arrival[r].before["hooks"]

\* When a client has its answer, every call watcher that was there when the
\* request came has seen the call, also one that was refused before any handler
\* ran.  Only a panic is not logged.
WatchersSee ==
    \A r \in Arrivals : arrival[r].at = "answered" /\ arrival[r].status # "panicked"
        => arrival[r].next > arrival[r].before["watchers"]

\* Callbacks have registered others under the lock they run under, or hooks have
\* registered watchers and watchers hooks.
Tangled == (\E k \in Lists : <<k, k>> \in nested) \/ {<<"hooks", "watchers">>, <<"watchers", "hooks">>} \subseteq nested

\* Every request is answered, and every registration returns, unless callbacks
\* tangle the locks: then the server may stand still for good.
RequestsAnswered ==
    /\ \A r \in Arrivals : arrival[r].at = "online?" ~> arrival[r].at = "answered" \/ Tangled
    /\ \A a \in Adders : adder[a] = "locking" ~> adder[a] = "added" \/ Tangled

\* Requests go past the hooks and watchers that were there, and are answered.
PipelineAnswers == [](PipelineTypeOK /\ HooksApply /\ WatchersSee) /\ RequestsAnswered
==============================================================================
