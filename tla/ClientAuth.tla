------------------------------ MODULE ClientAuth ------------------------------
(***************************************************************************)
(* Client (client.go): the goroutines that call the API through one client *)
(* (doRes, exec, authRefresh), the ones that register handlers and hooks   *)
(* (AddAuthHandler, AddDeauthHandler, AddPreRequestHook,                   *)
(* AddPostRequestHook) and the ones that Close it, under the two           *)
(* RWMutexes of the client, with the HTTP client's retries, an unreliable  *)
(* network and the server's session.                                       *)
(*                                                                         *)
(* Each lock operation, each request sent, each step of the server and     *)
(* each response received is a step of its own.                            *)
(***************************************************************************)
EXTENDS AuthSession

CONSTANTS
    Callers,     \* goroutines that call the API with this client, forever
    Adders,      \* goroutines that register one handler or hook each
    Closers,     \* goroutines that call Close once
    App,         \* the handler the application registers before any call
    NoWriter,    \* sync.RWMutex without a writer
    RetryCount,  \* resty's retry count (builder.retryCount)
    MaxLost,     \* bound: requests lost, delayed, cancelled or garbled
    MaxRefused,  \* bound: requests the server refuses before its handler runs
    MaxExpiries  \* bound: how often the session outlives authLife

Threads == Callers \cup Adders \cup Closers
Handlers == Adders \cup {App}

ASSUME ThreadAssumption ==
    /\ Callers \cap Adders = {} /\ Callers \cap Closers = {} /\ Adders \cap Closers = {}
    /\ NoWriter \notin Threads
    /\ App \notin Threads

ASSUME BoundAssumption ==
    /\ RetryCount \in Nat /\ MaxLost \in Nat /\ MaxRefused \in Nat /\ MaxExpiries \in Nat

INSTANCE RWMutex

VARIABLES
    pc,          \* where each goroutine is
    second,      \* is the caller's exec the one after the refresh?
    result,      \* what the caller's last doRes returned
    authLock,    \* Client.authLock
    hookLock,    \* Client.hookLock
    uid,         \* is Client.uid set (it is cleared by Close)?
    acc,         \* Client.acc
    ref,         \* Client.ref
    authHandlers,    \* Client.authHandlers
    deauthHandlers,  \* Client.deauthHandlers
    deauthOnce,      \* has Client.deauthOnce fired?
    told,        \* the last auth each auth handler was given
    deauths,     \* how often each deauth handler was called
    net,         \* the HTTP exchange each caller is in
    session,     \* the server's session
    limbo,       \* refresh requests the client gave up on, still to arrive
    lost,        \* how many exchanges the network or a context has broken
    refused,     \* how many requests the server has refused unseen
    expiries     \* how often the session has expired

clientVars == <<uid, acc, ref, authHandlers, deauthHandlers, deauthOnce, told, deauths>>
netVars == <<net, limbo, lost, refused>>
serverVars == <<session, expiries>>
vars == <<pc, second, result, authLock, hookLock, clientVars, netVars, serverVars>>

------------------------------------------------------------------------------
(* The holds of the locks and the exchanges. *)

\* hookLock is held for reading by doRes and, once more, by authRefresh.
DoRes(t) == <<t, "doRes">>
AuthRefresh(t) == <<t, "authRefresh">>

HookHolds == Callers \X {"doRes", "authRefresh"}

\* "unauth" is 401; "invalid" 400 or 422; "busy" 429 or 503, refused before the
\* handler ran; "fault" 409 or 500; "garbled" is a 200 whose post-processing
\* fails (updateTime); "lost" no answer, or the connection dropped; "cancelled"
\* the caller's context ended.
Answers == {"ok", "unauth", "invalid", "busy", "fault", "garbled", "lost", "cancelled"}

Exchanges ==
    [kind : {"none", "api", "refresh"}, cred : Credentials, tries : Nat,
     st : {"none", "sent"} \cup Answers, auth : Tokens]

NoExchange ==
    [kind |-> "none", cred |-> [uid |-> FALSE, tok |-> NoTok], tries |-> 0,
     st |-> "none", auth |-> NoTok]

Request(kind, tok) ==
    [kind |-> kind, cred |-> [uid |-> uid, tok |-> tok], tries |-> 0,
     st |-> "sent", auth |-> NoTok]

\* The exchange with its outcome.
Outcome(x, st, auth) ==
    [kind |-> x.kind, cred |-> x.cred, tries |-> x.tries, st |-> st, auth |-> auth]

\* The retry conditions: catchTooManyRequests, catchDialError, catchDropError
\* and retryRefreshFailed.
Retryable(x) == x.st \in {"lost", "busy"} \/ (x.kind = "refresh" /\ x.st = "invalid")

\* The HTTP client is done with the exchange: it returns to exec or authRefresh.
Finished(x) == x.st \in Answers /\ ~(Retryable(x) /\ x.tries < RetryCount)

CallerPCs ==
    {"idle", "exec", "send", "wait", "refresh", "refreshHook", "refreshSend",
     "refreshWait", "refreshed", "failed", "leave"}
AdderPCs == {"idle", "adding", "done"}
CloserPCs == {"idle", "closing", "cleared", "clearing", "done"}

------------------------------------------------------------------------------
Init ==
    /\ pc = [t \in Threads |-> "idle"]
    /\ second = [t \in Callers |-> FALSE]
    /\ result = [t \in Callers |-> "none"]
    /\ authLock = Unlocked
    /\ hookLock = Unlocked
    /\ uid = TRUE
    /\ acc = FirstTok
    /\ ref = FirstTok
    /\ authHandlers = {App}
    /\ deauthHandlers = {App}
    /\ deauthOnce = FALSE
    /\ told = [h \in Handlers |-> IF h = App THEN FirstTok ELSE NoTok]
    /\ deauths = [h \in Handlers |-> 0]
    /\ net = [t \in Callers |-> NoExchange]
    /\ session = NewSession
    /\ limbo = {}
    /\ lost = 0
    /\ refused = 0
    /\ expiries = 0

------------------------------------------------------------------------------
(* doRes and exec. *)

\* doRes starts with hookLock.RLock.
Call(t) ==
    /\ pc[t] = "idle"
    /\ pc' = [pc EXCEPT ![t] = "exec"]
    /\ second' = [second EXCEPT ![t] = FALSE]
    /\ result' = [result EXCEPT ![t] = "none"]
    /\ hookLock' = RLock(hookLock, DoRes(t))
    /\ UNCHANGED <<authLock, clientVars, netVars, serverVars>>

\* exec starts with authLock.RLock.
ExecLock(t) ==
    /\ pc[t] = "exec"
    /\ HoldsRead(hookLock, DoRes(t))
    /\ pc' = [pc EXCEPT ![t] = "send"]
    /\ authLock' = RLock(authLock, t)
    /\ UNCHANGED <<second, result, hookLock, clientVars, netVars, serverVars>>

\* Faulty variant: exec holds authLock only while it builds the request.
ExecSendThenUnlock(t) ==
    /\ pc[t] = "send"
    /\ HoldsRead(authLock, t)
    /\ pc' = [pc EXCEPT ![t] = "wait"]
    /\ net' = [net EXCEPT ![t] = Request("api", acc)]
    /\ authLock' = RUnlock(authLock, t)
    /\ UNCHANGED <<second, result, hookLock, clientVars, limbo, lost, refused, serverVars>>

\* exec builds the request with the client's uid and access token and runs it.
ExecSend(t) ==
    /\ pc[t] = "send"
    /\ HoldsRead(authLock, t)
    /\ pc' = [pc EXCEPT ![t] = "wait"]
    /\ net' = [net EXCEPT ![t] = Request("api", acc)]
    /\ UNCHANGED <<second, result, authLock, hookLock, clientVars, limbo, lost, refused, serverVars>>

\* exec returns, releasing authLock: a first 401 leads to authRefresh, anything
\* else leaves doRes.
ExecDone(t) ==
    /\ pc[t] = "wait"
    /\ Finished(net[t])
    /\ authLock' = RUnlock(authLock, t)
    /\ net' = [net EXCEPT ![t] = NoExchange]
    /\ IF net[t].st = "unauth" /\ ~second[t]
       THEN /\ pc' = [pc EXCEPT ![t] = "refresh"]
            /\ UNCHANGED result
       ELSE /\ pc' = [pc EXCEPT ![t] = "leave"]
            /\ result' = [result EXCEPT ![t] = IF net[t].st = "ok" THEN "ok" ELSE "error"]
    /\ UNCHANGED <<second, hookLock, clientVars, limbo, lost, refused, serverVars>>

\* doRes returns, releasing hookLock.
Leave(t) ==
    /\ pc[t] = "leave"
    /\ pc' = [pc EXCEPT ![t] = "idle"]
    /\ hookLock' = RUnlock(hookLock, DoRes(t))
    /\ UNCHANGED <<second, result, authLock, clientVars, netVars, serverVars>>

------------------------------------------------------------------------------
(* authRefresh. *)

RefreshAnnounce(t) ==
    /\ pc[t] = "refresh"
    /\ CanAnnounce(authLock)
    /\ pc' = [pc EXCEPT ![t] = "refreshHook"]
    /\ authLock' = Announce(authLock, t)
    /\ UNCHANGED <<second, result, hookLock, clientVars, netVars, serverVars>>

\* With authLock owned, hookLock.RLock a second time.
RefreshHook(t) ==
    /\ pc[t] = "refreshHook"
    /\ HoldsWrite(authLock, t)
    /\ pc' = [pc EXCEPT ![t] = "refreshSend"]
    /\ hookLock' = RLock(hookLock, AuthRefresh(t))
    /\ UNCHANGED <<second, result, authLock, clientVars, netVars, serverVars>>

RefreshSend(t) ==
    /\ pc[t] = "refreshSend"
    /\ HoldsRead(hookLock, AuthRefresh(t))
    /\ pc' = [pc EXCEPT ![t] = "refreshWait"]
    /\ net' = [net EXCEPT ![t] = Request("refresh", ref)]
    /\ UNCHANGED <<second, result, authLock, hookLock, clientVars, limbo, lost, refused, serverVars>>

\* Faulty variants: only the access token is stored; the handlers are not told.
StoreAcc(auth) == acc' = auth /\ UNCHANGED ref
TellNoOne(auth) == UNCHANGED told

StoreAuth(auth) == acc' = auth /\ ref' = auth

TellHandlers(auth) ==
    told' = [h \in Handlers |-> IF h \in authHandlers THEN auth ELSE told[h]]

\* The new auth is stored and given to every auth handler.
RefreshOk(t) ==
    /\ pc[t] = "refreshWait"
    /\ net[t].st = "ok"
    /\ pc' = [pc EXCEPT ![t] = "refreshed"]
    /\ second' = [second EXCEPT ![t] = TRUE]
    /\ StoreAuth(net[t].auth)
    /\ TellHandlers(net[t].auth)
    /\ net' = [net EXCEPT ![t] = NoExchange]
    /\ UNCHANGED <<result, authLock, hookLock, uid, authHandlers, deauthHandlers,
                   deauthOnce, deauths, limbo, lost, refused, serverVars>>

\* Faulty variants: a busy server deauths as well; no answer does.
DeauthWhenBusy(x) == x.st \in {"invalid", "busy", "fault"}
DeauthNever(x) == FALSE

Deauths(x) == x.st = "invalid"

\* 400 and 422: the deauth handlers run, once in the client's life.
RefreshDeauth(t) ==
    /\ pc[t] = "refreshWait"
    /\ Deauths(net[t]) /\ Finished(net[t])
    /\ pc' = [pc EXCEPT ![t] = "failed"]
    /\ deauthOnce' = TRUE
    /\ deauths' = [h \in Handlers |->
                      IF ~deauthOnce /\ h \in deauthHandlers THEN deauths[h] + 1 ELSE deauths[h]]
    /\ net' = [net EXCEPT ![t] = NoExchange]
    /\ UNCHANGED <<second, result, authLock, hookLock, uid, acc, ref, authHandlers,
                   deauthHandlers, told, limbo, lost, refused, serverVars>>

\* Every other error leaves the client as it is.
RefreshFail(t) ==
    /\ pc[t] = "refreshWait"
    /\ net[t].st # "ok" /\ ~Deauths(net[t]) /\ Finished(net[t])
    /\ pc' = [pc EXCEPT ![t] = "failed"]
    /\ net' = [net EXCEPT ![t] = NoExchange]
    /\ UNCHANGED <<second, result, authLock, hookLock, clientVars, limbo, lost, refused, serverVars>>

\* authRefresh's deferred unlocks; doRes then retries the request or returns.
RefreshUnlock(t) ==
    /\ pc[t] \in {"refreshed", "failed"}
    /\ hookLock' = RUnlock(hookLock, AuthRefresh(t))
    /\ authLock' = Unlock(authLock)
    /\ IF pc[t] = "refreshed"
       THEN /\ pc' = [pc EXCEPT ![t] = "exec"]
            /\ UNCHANGED result
       ELSE /\ pc' = [pc EXCEPT ![t] = "leave"]
            /\ result' = [result EXCEPT ![t] = "error"]
    /\ UNCHANGED <<second, clientVars, netVars, serverVars>>

------------------------------------------------------------------------------
(* The HTTP client and the network. *)

\* Faulty variant: the attempt is not counted.
ResendUncounted(x) == [x EXCEPT !.st = "sent", !.auth = NoTok]

Resend(x) ==
    [kind |-> x.kind, cred |-> x.cred, tries |-> x.tries + 1, st |-> "sent", auth |-> NoTok]

\* resty sends the same request, headers and body included, once more.
Retry(t) ==
    /\ net[t].st \in Answers /\ ~Finished(net[t])
    /\ net' = [net EXCEPT ![t] = Resend(@)]
    /\ UNCHANGED <<pc, second, result, authLock, hookLock, clientVars, limbo, lost, refused, serverVars>>

Break == lost < MaxLost /\ lost' = lost + 1

\* The request is dropped, or its answer is, or the caller's context ends.
Lose(t) ==
    /\ net[t].st \notin {"none", "lost", "cancelled"}
    /\ Break
    /\ \E st \in {"lost", "cancelled"} : net' = [net EXCEPT ![t] = Outcome(@, st, NoTok)]
    /\ UNCHANGED <<pc, second, result, authLock, hookLock, clientVars, limbo, refused, serverVars>>

\* The client gives a refresh up before the server has seen it.
Delay(t) ==
    /\ net[t].st = "sent" /\ net[t].kind = "refresh"
    /\ Break
    /\ \E st \in {"lost", "cancelled"} : net' = [net EXCEPT ![t] = Outcome(@, st, NoTok)]
    /\ limbo' = limbo \cup {net[t].cred}
    /\ UNCHANGED <<pc, second, result, authLock, hookLock, clientVars, refused, serverVars>>

\* An answer 200 that an AfterResponse middleware turns into an error.
Garble(t) ==
    /\ net[t].st = "ok"
    /\ Break
    /\ net' = [net EXCEPT ![t] = Outcome(@, "garbled", NoTok)]
    /\ UNCHANGED <<pc, second, result, authLock, hookLock, clientVars, limbo, refused, serverVars>>

------------------------------------------------------------------------------
(* The server. *)

\* A rate limit or a failing server answers before the handler runs.
Refuse(t) ==
    /\ net[t].st = "sent"
    /\ refused < MaxRefused
    /\ refused' = refused + 1
    /\ \E st \in {"busy", "fault"} : net' = [net EXCEPT ![t] = Outcome(@, st, NoTok)]
    /\ UNCHANGED <<pc, second, result, authLock, hookLock, clientVars, limbo, lost, serverVars>>

\* requireAuth, then the handler.
ServeApi(t) ==
    /\ net[t].st = "sent" /\ net[t].kind = "api"
    /\ \/ VerifyOK(session, net[t].cred) /\ net' = [net EXCEPT ![t] = Outcome(@, "ok", NoTok)]
       \/ ~VerifyOK(session, net[t].cred) /\ net' = [net EXCEPT ![t] = Outcome(@, "unauth", NoTok)]
    /\ session' = AfterVerify(session, net[t].cred)
    /\ UNCHANGED <<pc, second, result, authLock, hookLock, clientVars, limbo, lost, refused, expiries>>

\* handlePostAuthRefresh.
ServeRefresh(t) ==
    /\ net[t].st = "sent" /\ net[t].kind = "refresh"
    /\ \/ /\ RefreshOK(session, net[t].cred)
          /\ session' = AfterRefresh(session)
          /\ net' = [net EXCEPT ![t] = Outcome(@, "ok", AfterRefresh(session).ref)]
       \/ /\ ~RefreshOK(session, net[t].cred)
          /\ net' = [net EXCEPT ![t] = Outcome(@, "invalid", NoTok)]
          /\ UNCHANGED session
    /\ UNCHANGED <<pc, second, result, authLock, hookLock, clientVars, limbo, lost, refused, expiries>>

\* handlePostAuthRefresh for a request nobody waits for.
ServeLimbo ==
    /\ \E c \in limbo :
          /\ limbo' = limbo \ {c}
          /\ session' = IF RefreshOK(session, c) THEN AfterRefresh(session) ELSE session
    /\ UNCHANGED <<pc, second, result, authLock, hookLock, clientVars, net, lost, refused, expiries>>

\* authLife passes.
Expire ==
    /\ session.live /\ ~session.old
    /\ expiries < MaxExpiries
    /\ session' = [session EXCEPT !.old = TRUE]
    /\ expiries' = expiries + 1
    /\ UNCHANGED <<pc, second, result, authLock, hookLock, clientVars, netVars>>

\* Another session of the user, or RevokeUser, deletes this one.
Revoke ==
    /\ session.live
    /\ session' = AfterDelete(session)
    /\ UNCHANGED <<pc, second, result, authLock, hookLock, clientVars, netVars, expiries>>

------------------------------------------------------------------------------
(* Registering handlers and hooks: hookLock.Lock, append, hookLock.Unlock. *)

AddAnnounce(t) ==
    /\ pc[t] = "idle"
    /\ CanAnnounce(hookLock)
    /\ pc' = [pc EXCEPT ![t] = "adding"]
    /\ hookLock' = Announce(hookLock, t)
    /\ UNCHANGED <<second, result, authLock, clientVars, netVars, serverVars>>

Registered(t) ==
    /\ pc[t] = "adding"
    /\ HoldsWrite(hookLock, t)
    /\ pc' = [pc EXCEPT ![t] = "done"]
    /\ hookLock' = Unlock(hookLock)
    /\ UNCHANGED <<second, result, authLock, uid, acc, ref, deauthOnce, told, deauths,
                   netVars, serverVars>>

AddAuthHandler(t) ==
    /\ Registered(t)
    /\ authHandlers' = authHandlers \cup {t}
    /\ UNCHANGED deauthHandlers

AddDeauthHandler(t) ==
    /\ Registered(t)
    /\ deauthHandlers' = deauthHandlers \cup {t}
    /\ UNCHANGED authHandlers

\* The hooks themselves belong to the manager's HTTP client.
AddRequestHook(t) ==
    /\ Registered(t)
    /\ UNCHANGED <<authHandlers, deauthHandlers>>

------------------------------------------------------------------------------
(* Close. *)

CloseAnnounce(t) ==
    /\ pc[t] = "idle"
    /\ CanAnnounce(authLock)
    /\ pc' = [pc EXCEPT ![t] = "closing"]
    /\ authLock' = Announce(authLock, t)
    /\ UNCHANGED <<second, result, hookLock, clientVars, netVars, serverVars>>

CloseTokens(t) ==
    /\ pc[t] = "closing"
    /\ HoldsWrite(authLock, t)
    /\ pc' = [pc EXCEPT ![t] = "cleared"]
    /\ uid' = FALSE
    /\ acc' = NoTok
    /\ ref' = NoTok
    /\ UNCHANGED <<second, result, authLock, hookLock, authHandlers, deauthHandlers,
                   deauthOnce, told, deauths, netVars, serverVars>>

CloseHookAnnounce(t) ==
    /\ pc[t] = "cleared"
    /\ CanAnnounce(hookLock)
    /\ pc' = [pc EXCEPT ![t] = "clearing"]
    /\ hookLock' = Announce(hookLock, t)
    /\ UNCHANGED <<second, result, authLock, clientVars, netVars, serverVars>>

\* Faulty variant: the deauth handlers stay registered.
DropAuthHandlers == authHandlers' = {} /\ UNCHANGED deauthHandlers

DropHandlers == authHandlers' = {} /\ deauthHandlers' = {}

CloseHandlers(t) ==
    /\ pc[t] = "clearing"
    /\ HoldsWrite(hookLock, t)
    /\ pc' = [pc EXCEPT ![t] = "done"]
    /\ DropHandlers
    /\ hookLock' = Unlock(hookLock)
    /\ authLock' = Unlock(authLock)
    /\ UNCHANGED <<second, result, uid, acc, ref, deauthOnce, told, deauths, netVars, serverVars>>

------------------------------------------------------------------------------
Caller(t) ==
    \/ ExecLock(t) \/ ExecSend(t) \/ ExecDone(t) \/ Leave(t)
    \/ RefreshAnnounce(t) \/ RefreshHook(t) \/ RefreshSend(t)
    \/ RefreshOk(t) \/ RefreshDeauth(t) \/ RefreshFail(t) \/ RefreshUnlock(t)
    \/ Retry(t)

Serve(t) == ServeApi(t) \/ ServeRefresh(t)

Adder(t) == AddAnnounce(t) \/ AddAuthHandler(t) \/ AddDeauthHandler(t) \/ AddRequestHook(t)

Closer(t) == CloseAnnounce(t) \/ CloseTokens(t) \/ CloseHookAnnounce(t) \/ CloseHandlers(t)

Network(t) == Lose(t) \/ Delay(t) \/ Garble(t) \/ Refuse(t)

Next ==
    \/ \E t \in Callers : Call(t) \/ Caller(t) \/ Serve(t) \/ Network(t)
    \/ \E t \in Adders : Adder(t)
    \/ \E t \in Closers : Closer(t)
    \/ ServeLimbo \/ Expire \/ Revoke

Spec == Init /\ [][Next]_vars

(***************************************************************************)
(* Goroutines that can run do run and the server answers what reaches it.  *)
(* A goroutine waiting in Lock is not overtaken for ever: sync.Mutex hands *)
(* over to a starving waiter.  Nobody has to start a call, to register or  *)
(* to close; nothing has to be lost or refused, no session has to expire.  *)
(***************************************************************************)
Fairness ==
    /\ \A t \in Callers : WF_vars(Caller(t)) /\ SF_vars(RefreshAnnounce(t)) /\ WF_vars(Serve(t))
    /\ \A t \in Adders : WF_vars(Adder(t) /\ pc[t] # "idle")
    /\ \A t \in Closers :
          WF_vars(Closer(t) /\ pc[t] # "idle") /\ SF_vars(CloseHookAnnounce(t))

FairSpec == Spec /\ Fairness

------------------------------------------------------------------------------
(* Properties. *)

TypeOK ==
    /\ pc \in [Threads -> CallerPCs \cup AdderPCs \cup CloserPCs]
    /\ second \in [Callers -> BOOLEAN]
    /\ result \in [Callers -> {"none", "ok", "error"}]
    /\ authLock \in RWMutexes(Callers, Threads)
    /\ hookLock \in RWMutexes(HookHolds, Threads)
    /\ uid \in BOOLEAN
    /\ acc \in Tokens
    /\ ref \in Tokens
    /\ authHandlers \subseteq Handlers
    /\ deauthHandlers \subseteq Handlers
    /\ deauthOnce \in BOOLEAN
    /\ told \in [Handlers -> Tokens]
    /\ deauths \in [Handlers -> Nat]
    /\ net \in [Callers -> Exchanges]
    /\ session \in Sessions
    /\ limbo \subseteq Credentials
    /\ lost \in Nat
    /\ refused \in Nat
    /\ expiries \in Nat

\* A refresh has the client to itself: while one is on the wire (client.go
\* keeps authLock over the whole exchange) no other goroutine has a request
\* or a second refresh on the wire.
RefreshIsAlone ==
    \A t, u \in Callers : net[t].kind = "refresh" /\ net[u].kind # "none" => t = u

\* Every request on the wire, its retries included, carries the client's
\* current uid and token: nothing rotates or clears them under it.
CarriesCurrentTokens ==
    \A t \in Callers :
        /\ net[t].kind = "api" => net[t].cred = [uid |-> uid, tok |-> acc]
        /\ net[t].kind = "refresh" => net[t].cred = [uid |-> uid, tok |-> ref]

\* Is an answer with a new auth on its way to the client?
AuthOnItsWay == \E t \in Callers : net[t].auth # NoTok

\* As long as no exchange is broken, whatever the goroutines do and however
\* often the server refuses a refresh, what the application was last given
\* by its auth handler is the server's current refresh token, so that
\* NewClientWithRefresh can resume the session after a restart.
Resumable ==
    uid /\ lost = 0 /\ ~AuthOnItsWay => told[App] = session.ref /\ ref = session.ref

\* A registered auth handler knows the auth the client uses, unless it has
\* been registered since the last refresh.
HandlersCurrent ==
    uid => \A h \in authHandlers : told[h] \in {NoTok, ref}

\* The application's deauth handler runs only for a session the server has
\* deleted, or after the network or a context has broken an exchange: not
\* because goroutines race to refresh, nor because the server is busy.
NoSpuriousDeauth ==
    deauths[App] > 0 => ~session.live \/ lost > 0

\* A call fails only if an exchange was broken or refused, the session is
\* gone, the client is closed, or the session expired again between the
\* refresh and the retry; never because another call refreshed first.
CallsFailForAReason ==
    \A t \in Callers :
        result[t] = "error" =>
            lost > 0 \/ refused > 0 \/ ~session.live \/ ~uid \/ expiries > 1

\* Once Close has cleared the tokens, a refresh that was waiting neither
\* brings tokens back nor calls the handlers the application had registered.
ClosedStaysClosed ==
    [][~uid => /\ ~uid' /\ acc' = NoTok /\ ref' = NoTok
               /\ told'[App] = told[App] /\ deauths'[App] = deauths[App]]_vars

\* The auth on its way to the client.
PendingAuth ==
    IF AuthOnItsWay THEN CHOOSE a \in {net[t].auth : t \in Callers} : a # NoTok ELSE NoTok

Custody ==
    INSTANCE AuthCustody WITH
        server <- session.ref, client <- ref, app <- told[App], pending <- PendingAuth

\* Whatever the goroutines do, the tokens are handed on as by one owner that
\* does one refresh at a time: Client implements AuthCustody.
CustodySpec == Custody!Spec

\* Without goroutines that register or close, every call returns.
CallsReturn ==
    \A t \in Callers : pc[t] # "idle" ~> pc[t] = "idle"

\* A call that finds the session deleted ends with the application's deauth
\* handler called, if the server keeps answering.
DeauthDelivered ==
    \A t \in Callers :
        pc[t] = "refresh" /\ ~session.live ~> deauths[App] > 0 \/ lost > 0 \/ refused > 0

\* Close returns.
CloseReturns ==
    \A t \in Closers : pc[t] = "closing" ~> pc[t] = "done"
==============================================================================
