------------------------------- MODULE AuthProxy -------------------------------
(***************************************************************************)
(* Logins through the development server's proxy with a cache              *)
(* (server/proxy.go, server/cache.go).  The cache keeps, for each user     *)
(* name, the answers of POST /auth/v4/info and POST /auth/v4; this is one  *)
(* user.  A request looks the cache up under its lock, asks the upstream   *)
(* server without, which answers the client at once, and then stores the   *)
(* answer.  Everything but those two requests and DELETE /auth/v4 goes to  *)
(* the upstream server untouched.                                          *)
(*                                                                         *)
(* An error of the upstream server that has a JSON body (a status hook, a  *)
(* bad app version) is read as an answer without fields, and stored; one   *)
(* without a body (a refusal, a panic) cannot be read.                     *)
(***************************************************************************)
EXTENDS Integers, FiniteSets, Sequences

CONSTANTS
    Proxied,      \* clients that log in through the proxy
    Verifiers,    \* those that verify the server's proof
    Forgetful,    \* those that have a wrong password
    MaxTries,     \* bound: logins of each client
    MaxRenewed,   \* bound: no session is refreshed once one has been so often
    MaxErrors     \* bound: errors of the upstream server

ASSUME ProxyAssumption ==
    /\ Verifiers \subseteq Proxied /\ Forgetful \subseteq Proxied
    /\ MaxTries \in Nat /\ MaxRenewed \in Nat /\ MaxErrors \in Nat

VARIABLES
    infoCache,    \* authCache.info: an SRP session, EmptySRP or NoSRP
    authCache,    \* authCache.auth
    storing,      \* what requests have yet to store
    upSRP,        \* the SRP sessions of the upstream server and which are left
    upSession,    \* its sessions: how often refreshed, whether alive
    comer         \* the clients

proxyVars == <<infoCache, authCache, storing, upSRP, upSession, comer>>
serverSide == <<upSRP, upSession>>
cacheSide == <<infoCache, authCache, storing>>

NoAuth == [uid |-> 0, ref |-> 0, by |-> "none"]       \* nothing is cached
EmptyAuth == [uid |-> 0, ref |-> 0, by |-> "empty"]   \* an Auth without fields
NoSRP == 0
EmptySRP == -1                                        \* an AuthInfo without fields

ProxyInit ==
    /\ infoCache = NoSRP
    /\ authCache = NoAuth
    /\ storing = {}
    /\ upSRP = [made |-> 0, left |-> {}, errors |-> 0]
    /\ upSession = <<>>
    /\ comer = [c \in Proxied |-> [at |-> "out", srp |-> NoSRP, uid |-> 0, ref |-> 0, tries |-> 0]]

At(c, place) == comer[c].at = place
Goes(c, place) == comer' = [comer EXCEPT ![c].at = place]
Leaves(c, place) == comer' = [comer EXCEPT ![c] = [at |-> place, srp |-> NoSRP, uid |-> 0, ref |-> 0, tries |-> @.tries]]
Enters(c, uid, ref) == comer' = [comer EXCEPT ![c] = [at |-> "in", srp |-> NoSRP, uid |-> uid, ref |-> ref, tries |-> @.tries]]

\* NewClientWithLogin.
LogIn(c) ==
    /\ comer[c].at \in {"out", "failed"} /\ comer[c].tries < MaxTries
    /\ comer' = [comer EXCEPT ![c].at = "info", ![c].tries = @ + 1]
    /\ UNCHANGED <<cacheSide, serverSide>>

------------------------------------------------------------------------------
(* handleProxyAuthInfo. *)

\* Faulty variant: the cached answer is not looked at.
NeverCached == FALSE

InfoCached == infoCache # NoSRP

\* GetAuthInfo.  Without a modulus the client cannot go on.
LookUpInfo(c) ==
    /\ At(c, "info")
    /\ IF ~InfoCached THEN Goes(c, "ask info")
       ELSE IF infoCache = EmptySRP THEN Leaves(c, "failed")
       ELSE comer' = [comer EXCEPT ![c].at = "proof", ![c].srp = infoCache]
    /\ UNCHANGED <<cacheSide, serverSide>>

\* The answer of the upstream server, NewAuthInfo.
FetchInfo(c) ==
    /\ At(c, "ask info")
    /\ upSRP' = [upSRP EXCEPT !.made = @ + 1, !.left = @ \cup {upSRP.made + 1}]
    /\ comer' = [comer EXCEPT ![c].at = "proof", ![c].srp = upSRP.made + 1]
    /\ storing' = storing \cup {[to |-> "info", value |-> upSRP.made + 1]}
    /\ UNCHANGED <<infoCache, authCache, upSession>>

\* SetAuthInfo.
StoreInfo ==
    /\ \E s \in storing : s.to = "info" /\ infoCache' = s.value /\ storing' = storing \ {s}
    /\ UNCHANGED <<authCache, serverSide, comer>>

------------------------------------------------------------------------------
(* handleProxyAuthPost. *)

AuthCached == authCache # NoAuth

\* Faulty variant: the client does not compare the proofs.
AcceptsAny(c, auth) == TRUE

\* What the client makes of an answer from the cache: the proof in it is that
\* of the login it was first made for.
Accepts(c, auth) == c \notin Verifiers

\* GetAuth: whoever asks, the password is not looked at.
LookUpAuth(c) ==
    /\ At(c, "proof")
    /\ IF ~AuthCached THEN Goes(c, "ask auth")
       ELSE IF Accepts(c, authCache) THEN Enters(c, authCache.uid, authCache.ref)
       ELSE Leaves(c, "failed")
    /\ UNCHANGED <<cacheSide, serverSide>>

\* Faulty variant: an SRP session can be used again.
LeaveSRP(s) == upSRP

SpendSRP(s) == [upSRP EXCEPT !.left = @ \ {s}]

\* The answer of the upstream server, NewAuth: the SRP session is used up,
\* whether the proof is right or not, and a refusal has no body.
FetchAuth(c) ==
    /\ At(c, "ask auth")
    /\ upSRP' = SpendSRP(comer[c].srp)
    /\ IF comer[c].srp \in upSRP.left /\ c \notin Forgetful
       THEN LET uid == Len(upSession) + 1 IN
            /\ upSession' = Append(upSession, [ref |-> 0, live |-> TRUE])
            /\ Enters(c, uid, 0)
            /\ storing' = storing \cup {[to |-> "auth", value |-> [uid |-> uid, ref |-> 0, by |-> c]]}
       ELSE Leaves(c, "failed") /\ UNCHANGED <<upSession, storing>>
    /\ UNCHANGED <<infoCache, authCache>>

\* SetAuth.
StoreAuth ==
    /\ \E s \in storing : s.to = "auth" /\ authCache' = s.value /\ storing' = storing \ {s}
    /\ UNCHANGED <<infoCache, serverSide, comer>>

\* The upstream server fails, with a body or without, also when the proxy
\* cannot reach it.  The client sends the request again, or gives up.
UpstreamFails(c) ==
    /\ comer[c].at \in {"ask info", "ask auth"} /\ upSRP.errors < MaxErrors
    /\ upSRP' = [upSRP EXCEPT !.errors = @ + 1]
    /\ \/ Leaves(c, "failed")
       \/ Goes(c, IF At(c, "ask info") THEN "info" ELSE "proof")
    /\ \/ UNCHANGED storing
       \/ storing' = storing \cup {IF At(c, "ask info") THEN [to |-> "info", value |-> EmptySRP]
                                   ELSE [to |-> "auth", value |-> EmptyAuth]}
    /\ UNCHANGED <<infoCache, authCache, upSession>>

------------------------------------------------------------------------------
(* A client that is logged in. *)

HasCurrent(c) == At(c, "in") /\ comer[c].uid # 0 /\ comer[c].ref = upSession[comer[c].uid].ref

\* POST /auth/v4/refresh: handleProxyAll, and nothing is cached.
Renew(c) ==
    /\ HasCurrent(c) /\ upSession[comer[c].uid].live
    /\ \A u \in DOMAIN upSession : upSession[u].ref < MaxRenewed
    /\ upSession' = [upSession EXCEPT ![comer[c].uid].ref = @ + 1]
    /\ comer' = [comer EXCEPT ![c].ref = @ + 1]
    /\ UNCHANGED <<cacheSide, upSRP>>

\* Faulty variant: DELETE is sent on.
DeletesToo(c) == [upSession EXCEPT ![comer[c].uid].live = FALSE]

AfterLogout(c) == upSession

\* handleProxyAuthDelete: nothing is done.
LogOut(c) ==
    /\ HasCurrent(c)
    /\ upSession' = AfterLogout(c)
    /\ Leaves(c, "out")
    /\ UNCHANGED <<cacheSide, upSRP>>

ProxyNext ==
    \/ \E c \in Proxied :
          \/ LogIn(c) \/ LookUpInfo(c) \/ FetchInfo(c) \/ LookUpAuth(c) \/ FetchAuth(c)
          \/ UpstreamFails(c) \/ Renew(c) \/ LogOut(c)
    \/ StoreInfo \/ StoreAuth

ProxySpec == ProxyInit /\ [][ProxyNext]_proxyVars

------------------------------------------------------------------------------
(* Properties. *)

ProxyTypeOK ==
    /\ infoCache \in {NoSRP, EmptySRP} \cup 1 .. upSRP.made
    /\ authCache.uid \in 0 .. Len(upSession) /\ authCache.by \in Proxied \cup {"none", "empty"}
    /\ upSRP.left \subseteq 1 .. upSRP.made /\ upSRP.errors <= MaxErrors
    /\ Len(upSession) + Cardinality(upSRP.left) <= upSRP.made
    /\ \A c \in Proxied :
          comer[c].at \in {"out", "info", "ask info", "proof", "ask auth", "in", "failed"}

\* Clients that share a session through the cache do not log each other out:
\* whoever holds the current tokens of a session can use it, because a logout
\* through the proxy reaches no server.
LogoutIsLocal ==
    \A c \in Proxied : HasCurrent(c) => upSession[comer[c].uid].live

\* A client that verifies proofs is in only with a session it made itself, with
\* no other verifying client in the same one, whatever the cache holds.
ProofsTellApart ==
    \A c \in Verifiers : At(c, "in") =>
       /\ comer[c].uid # 0
       /\ \A d \in Verifiers \ {c} : At(d, "in") => comer[d].uid # comer[c].uid

\* No answer to POST /auth/v4 is under way or about to be stored.
AuthSettled == (\A s \in storing : s.to # "auth") /\ (\A c \in Proxied : ~At(c, "ask auth"))

\* Three logins through the proxy make one session (server_test.go): once an
\* answer is cached and the requests that had missed it are through, no login
\* reaches the upstream server or makes another session.
CachedOnce ==
    [][LET once == authCache # NoAuth /\ AuthSettled
       IN  once => once' /\ Len(upSession') = Len(upSession)]_proxyVars

\* The cached SRP session is used up, or what is cached has no fields, and no
\* request is under way that could change that.
LockedOut ==
    /\ authCache \in {NoAuth, EmptyAuth} /\ infoCache # NoSRP /\ infoCache \notin upSRP.left
    /\ \A s \in storing : s = [to |-> "auth", value |-> EmptyAuth]
    /\ \A c \in Proxied : ~At(c, "ask info")
    /\ \A c \in Proxied : comer[c].at \in {"proof", "ask auth"} => comer[c].srp \notin upSRP.left

\* One wrong password, or one error with a body, can lock the user out of the
\* proxy for as long as it runs: from then on no login makes a session, and
\* those that are let in have none.
LockedOutForGood ==
    [][LockedOut => LockedOut' /\ \A c \in Proxied : ~At(c, "in") /\ At(c, "in")' => comer'[c].uid = 0]_proxyVars

\* What the proxy's caches give to whom, and for how long.
ProxyExact == [](ProxyTypeOK /\ LogoutIsLocal /\ ProofsTellApart) /\ CachedOnce /\ LockedOutForGood
==============================================================================
