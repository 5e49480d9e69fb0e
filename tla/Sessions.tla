------------------------------- MODULE Sessions -------------------------------
(***************************************************************************)
(* The sessions of the users of the development server: login with SRP     *)
(* (manager_auth.go, auth.go, server/auth.go, backend/api_auth.go), the    *)
(* refresh and the expiry of each session, as AuthSession has them, and    *)
(* the deletion of one session and of many.                                *)
(*                                                                         *)
(* A call of the backend is one step under its lock.  A login is two       *)
(* requests of the client, each sent again when its answer is lost.        *)
(* DELETE /auth/v4/sessions and Server.RevokeUser list the sessions under  *)
(* one lock and delete them one by one under others.                       *)
(*                                                                         *)
(* IDs are random, each made once: they are taken in a fixed order.        *)
(***************************************************************************)
EXTENDS AuthSession, FiniteSets

CONSTANTS
    Users,         \* accounts
    Logins,        \* calls of NewClientWithLogin
    UserOf,        \* whose name a login uses
    SRPs,          \* IDs of SRP sessions, each made once
    UIDs,          \* IDs of authentication sessions, each made once
    Purges,        \* requests of DELETE sessions and calls of RevokeUser
    MaxRefresh,    \* bound: refreshes of a session
    Missing        \* no user, no session

ASSUME SessionAssumption ==
    /\ IsFiniteSet(UIDs) /\ MaxRefresh \in Nat
    /\ UserOf \in [Logins -> Users] /\ Missing \notin Users \cup Logins \cup SRPs \cup UIDs
    /\ Users \cap {"unused", "used"} = {}

VARIABLES
    known,      \* the accounts there are
    srp,        \* Backend.srp: whose verifier each entry has
    session,    \* account.auth of all accounts, and what was deleted
    login,      \* where each login is, with the IDs it was given
    purge       \* what each purge has listed, kept and not deleted yet

sessionVars == <<known, srp, session, login, purge>>

NoSession == [user |-> Missing, by |-> Missing, auth |-> [NewSession EXCEPT !.live = FALSE]]
NoPurge == [at |-> "new", user |-> Missing, own |-> Missing, listed |-> {}, todo |-> {}]

\* The next of the IDs that were never used, if there is one.
Fresh(ids) == IF ids = {} THEN {} ELSE {CHOOSE i \in ids : TRUE}
NewSRP == Fresh({s \in SRPs : srp[s] = "unused"})
NewUID == Fresh({u \in UIDs : session[u] = NoSession})

Alive == {u \in UIDs : session[u].auth.live}
UsersSessions(user) == {u \in Alive : session[u].user = user}

SessionsInit ==
    /\ known = Users
    /\ srp = [s \in SRPs |-> "unused"]
    /\ session = [u \in UIDs |-> NoSession]
    /\ login = [l \in Logins |-> [at |-> "info", srp |-> Missing, uid |-> Missing]]
    /\ purge = [p \in Purges |-> NoPurge]

------------------------------------------------------------------------------
(* NewClientWithLogin. *)

\* NewAuthInfo; when the answer is lost the client asks again, and the SRP
\* session stays for good.
AuthInfo(l) ==
    /\ login[l].at = "info" /\ UserOf[l] \in known
    /\ \E s \in NewSRP :
          /\ srp' = [srp EXCEPT ![s] = UserOf[l]]
          /\ \/ login' = [login EXCEPT ![l].at = "proof", ![l].srp = s]
             \/ UNCHANGED login
    /\ UNCHANGED <<known, session, purge>>

\* Faulty variant: the SRP session can be used again.
KeepSRP(s) == srp' = srp

UseSRP(s) == srp' = [srp EXCEPT ![s] = "used"]

\* NewAuth: the SRP session is deleted, and the proof is right or not.
Prove(l) ==
    /\ login[l].at = "proof" /\ UserOf[l] \in known
    /\ srp[login[l].srp] = UserOf[l]
    /\ UseSRP(login[l].srp)
    /\ \/ \E u \in NewUID :
             /\ session' = [session EXCEPT ![u] = [user |-> UserOf[l], by |-> l, auth |-> NewSession]]
             \* the answer arrives, or it is lost and the request is sent again
             /\ \/ login' = [login EXCEPT ![l].at = "in", ![l].uid = u]
                \/ UNCHANGED login
       \/ login' = [login EXCEPT ![l].at = "refused"] /\ UNCHANGED session
    /\ UNCHANGED <<known, purge>>

\* The user, or the SRP session, is not there: 401.
LoginRefused(l) ==
    /\ \/ login[l].at \in {"info", "proof"} /\ UserOf[l] \notin known
       \/ login[l].at = "proof" /\ srp[login[l].srp] = "used"
    /\ login' = [login EXCEPT ![l].at = "refused"]
    /\ UNCHANGED <<known, srp, session, purge>>

------------------------------------------------------------------------------
(* Requests with the tokens of a session. *)

\* Faulty variant: a session that was deleted is made again.
RefreshAny(u) == session[u] # NoSession

RefreshFinds(u) == u \in Alive

\* NewAuthRef by a holder of the current refresh token.
Refresh(u) ==
    /\ RefreshFinds(u) /\ session[u].auth.ref <= MaxRefresh
    /\ session' = [session EXCEPT ![u].auth = AfterRefresh(@)]
    /\ UNCHANGED <<known, srp, login, purge>>

\* Time passes; the next request with the access token blanks it.
Age(u) ==
    /\ u \in Alive /\ ~session[u].auth.old
    /\ session' = [session EXCEPT ![u].auth.old = TRUE]
    /\ UNCHANGED <<known, srp, login, purge>>

Verify(u) ==
    LET c == [uid |-> TRUE, tok |-> session[u].auth.acc]
    IN  /\ u \in Alive
        /\ session' = [session EXCEPT ![u].auth = AfterVerify(@, c)]
        /\ UNCHANGED <<known, srp, login, purge>>

\* A request that requireAuth lets through now.
Authorised(u) == u \in Alive /\ VerifyOK(session[u].auth, [uid |-> TRUE, tok |-> session[u].auth.acc])

\* DELETE /auth/v4, and DELETE /auth/v4/sessions/:authUID of the same user.
DeleteOne(u) ==
    /\ \E own \in UIDs : Authorised(own) /\ session[own].user = session[u].user
    /\ session' = [session EXCEPT ![u].auth = AfterDelete(@)]
    /\ UNCHANGED <<known, srp, login, purge>>

------------------------------------------------------------------------------
(* Deleting the sessions of a user. *)

\* GetSessions, for the request of a session or for RevokeUser.
List(p) ==
    /\ purge[p].at = "new"
    /\ \E user \in known :
       \E own \in {Missing} \cup {u \in UIDs : Authorised(u) /\ session[u].user = user} :
          purge' = [purge EXCEPT ![p] = [at |-> "delete", user |-> user, own |-> own,
                                        listed |-> UsersSessions(user), todo |-> UsersSessions(user) \ {own}]]
    /\ UNCHANGED <<known, srp, session, login>>

\* Faulty variant: the loop ends one session early.
OneLeft(p) == Cardinality(purge[p].todo) <= 1

NoneLeft(p) == purge[p].todo = {}

\* DeleteSession of the next one, in the order of a map; it fails when the
\* user was removed.
DeleteNext(p) ==
    /\ purge[p].at = "delete" /\ ~NoneLeft(p)
    /\ \/ /\ purge[p].user \in known
          /\ \E u \in purge[p].todo :
                /\ session' = [session EXCEPT ![u].auth = AfterDelete(@)]
                /\ purge' = [purge EXCEPT ![p].todo = @ \ {u}]
       \/ /\ purge[p].user \notin known
          /\ purge' = [purge EXCEPT ![p].at = "failed"]
          /\ UNCHANGED session
    /\ UNCHANGED <<known, srp, login>>

Purged(p) ==
    /\ purge[p].at = "delete" /\ NoneLeft(p)
    /\ purge' = [purge EXCEPT ![p].at = "done"]
    /\ UNCHANGED <<known, srp, session, login>>

\* RemoveUser deletes the account with its sessions, not its SRP sessions.
RemoveAccount(user) ==
    /\ user \in known
    /\ known' = known \ {user}
    /\ session' = [u \in UIDs |-> IF session[u].user = user
                                  THEN [session[u] EXCEPT !.auth = AfterDelete(@)] ELSE session[u]]
    /\ UNCHANGED <<srp, login, purge>>

SessionsNext ==
    \/ \E l \in Logins : AuthInfo(l) \/ Prove(l) \/ LoginRefused(l)
    \/ \E u \in UIDs : Refresh(u) \/ Age(u) \/ Verify(u) \/ DeleteOne(u)
    \/ \E p \in Purges : List(p) \/ DeleteNext(p) \/ Purged(p)
    \/ \E user \in Users : RemoveAccount(user)

SessionsSpec == SessionsInit /\ [][SessionsNext]_sessionVars

------------------------------------------------------------------------------
(* Properties. *)

SessionsTypeOK ==
    /\ known \subseteq Users
    /\ srp \in [SRPs -> Users \cup {"unused", "used"}]
    /\ \A u \in UIDs :
          /\ session[u].user \in Users \cup {Missing} /\ session[u].by \in Logins \cup {Missing}
          /\ session[u].auth \in Sessions
          /\ session[u].auth.live => session[u].user \in known
    /\ login \in [Logins -> [at : {"info", "proof", "in", "refused"}, srp : SRPs \cup {Missing},
                             uid : UIDs \cup {Missing}]]
    /\ \A p \in Purges :
          /\ purge[p].at \in {"new", "delete", "failed", "done"}
          /\ purge[p].todo \subseteq purge[p].listed /\ purge[p].listed \subseteq UIDs

\* However often the answers of a login are lost and its requests sent again,
\* it makes one session at most: the proof is good once.  (If the answer with
\* the session is lost, the login fails and the session stays.)
OneSessionPerLogin ==
    \A l \in Logins : Cardinality({u \in UIDs : session[u].by = l}) <= 1

\* When a deletion of all sessions has ended, the sessions the user has are
\* those it was to keep and those made after it listed them: a refresh in
\* between brings none of the others back.
PurgeIsComplete ==
    \A p \in Purges :
        purge[p].at = "done" => purge[p].listed \cap Alive \subseteq {purge[p].own}

\* An account has the sessions that were made and not deleted.
SessionsExact == SessionsTypeOK /\ OneSessionPerLogin /\ PurgeIsComplete
==============================================================================
