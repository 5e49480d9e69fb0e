------------------------------ MODULE DataProofs ------------------------------
(***************************************************************************)
(* Proofs about components whose state is data that operations change one  *)
(* after the other: the sessions of the users, the keys and the client     *)
(* that unlocks them, the packages of a message that is sent, the messages *)
(* and attachments of several accounts, the calls that cut a list of       *)
(* messages into chunks, and what becomes of an imported message.  Each    *)
(* has a section, with its inductive invariant first and its theorem last. *)
(***************************************************************************)
EXTENDS Sessions, Unlock, SendPackages, MailStore, ChunkedCalls, ImportMail,
        FiniteSetTheorems, SequenceTheorems, WellFoundedInduction, NaturalsInduction, TLAPS

------------------------------------------------------------------------------
(* Sessions. *)

\* A set without two elements has one at most.
LEMMA AtMostOne == ASSUME NEW S, \A x, y \in S : x = y PROVE Cardinality(S) <= 1
<1>1. CASE S = {}
  BY <1>1, FS_EmptySet
<1>2. ASSUME NEW x \in S
      PROVE  Cardinality(S) <= 1
  <2>1. S = {x}
    BY <1>2
  <2>2. Cardinality({x}) = 1
    BY FS_Singleton
  <2> QED
    BY <2>1, <2>2
<1> QED
  BY <1>1, <1>2

SessionRecords == [user : Users \cup {Missing}, by : Logins \cup {Missing}, auth : Sessions]
LoginRecords == [at : {"info", "proof", "in", "refused"}, srp : SRPs \cup {Missing}, uid : UIDs \cup {Missing}]
PurgeRecords ==
    [at : {"new", "delete", "failed", "done"}, user : Users \cup {Missing}, own : UIDs \cup {Missing},
     listed : SUBSET UIDs, todo : SUBSET UIDs]

SessionsTyped ==
    /\ known \subseteq Users
    /\ srp \in [SRPs -> Users \cup {"unused", "used"}]
    /\ session \in [UIDs -> SessionRecords]
    /\ login \in [Logins -> LoginRecords]
    /\ purge \in [Purges -> PurgeRecords]

\* The sessions that were ever made: none of their IDs is given again.
Made == {u \in UIDs : session[u].by # Missing}

\* A live session was made by a login of an account that is there.
LiveMade == \A u \in Alive : u \in Made /\ session[u].user \in known

\* A login makes no second session: as long as the SRP session it proves with
\* is not used up, it has made none.
ProofGoodOnce ==
    \A l \in Logins :
        /\ login[l].at = "proof" => login[l].srp \in SRPs
        /\ login[l].at = "info" \/ (login[l].at = "proof" /\ srp[login[l].srp] # "used") =>
              \A u \in UIDs : session[u].by # l
        /\ \A u, v \in UIDs : session[u].by = l /\ session[v].by = l => u = v

\* What a purge has listed was made before, and is dead, kept or still to do.
PurgeOnItsWay ==
    \A p \in Purges :
        /\ purge[p].todo \subseteq purge[p].listed /\ purge[p].listed \subseteq Made
        /\ purge[p].at \in {"delete", "done"} =>
              purge[p].listed \cap Alive \subseteq purge[p].todo \cup {purge[p].own}
        /\ purge[p].at = "done" => purge[p].todo = {}

SessionsInv == SessionsTyped /\ LiveMade /\ ProofGoodOnce /\ PurgeOnItsWay

\* What is done to the authentication of one session.
LEMMA AuthEdit ==
    ASSUME SessionsTyped, NEW u \in UIDs, NEW a \in Sessions, session' = [session EXCEPT ![u].auth = a]
    PROVE  /\ session' \in [UIDs -> SessionRecords]
           /\ session'[u] = [user |-> session[u].user, by |-> session[u].by, auth |-> a]
           /\ \A v \in UIDs \ {u} : session'[v] = session[v]
<1>1. session \in [UIDs -> SessionRecords]
  BY DEF SessionsTyped
<1>2. [session[u] EXCEPT !.auth = a] = [user |-> session[u].user, by |-> session[u].by, auth |-> a]
  BY <1>1 DEF SessionRecords
<1>3. [user |-> session[u].user, by |-> session[u].by, auth |-> a] \in SessionRecords
  BY <1>1 DEF SessionRecords
<1> QED
  BY <1>1, <1>2, <1>3

\* A step in which no session comes up.
Fades ==
    /\ session' \in [UIDs -> SessionRecords] /\ known' \subseteq known
    /\ \A u \in UIDs :
          /\ session'[u].by = session[u].by
          /\ u \in Alive' => u \in Alive /\ session'[u].user = session[u].user /\ session[u].user \in known'

LEMMA FadingKeepsSessions ==
    ASSUME SessionsInv, Fades
    PROVE  /\ Made' = Made /\ Alive' \subseteq Alive /\ LiveMade'
           /\ UNCHANGED <<srp, login>> => ProofGoodOnce'
           /\ UNCHANGED purge => PurgeOnItsWay'
<1>1. Made' = Made
  BY DEF Fades, Made
<1>2. Alive' \subseteq Alive
  BY DEF Fades, Alive
<1>3. LiveMade'
  BY <1>1 DEF Fades, LiveMade, Alive, SessionsInv
<1>4. UNCHANGED <<srp, login>> => ProofGoodOnce'
  BY DEF Fades, ProofGoodOnce, SessionsInv
<1>5. UNCHANGED purge => PurgeOnItsWay'
  BY <1>1, <1>2 DEF PurgeOnItsWay, SessionsInv
<1> QED
  BY <1>1, <1>2, <1>3, <1>4, <1>5

\* The steps that edit one session: Refresh, Age, Verify and DeleteOne.
LEMMA AuthStepKeepsSessions ==
    ASSUME SessionsInv, NEW u \in UIDs, Refresh(u) \/ Age(u) \/ Verify(u) \/ DeleteOne(u)
    PROVE  SessionsInv'
<1>1. SessionsTyped /\ session[u].auth \in Sessions
  BY DEF SessionsInv, SessionsTyped, SessionRecords
<1>2. PICK a \in Sessions : /\ session' = [session EXCEPT ![u].auth = a]
                            /\ a.live => session[u].auth.live
  <2>1. CASE Refresh(u)
    <3>1. AfterRefresh(session[u].auth) \in Sessions
      BY <1>1 DEF AfterRefresh, Sessions, Tokens, NoTok
    <3> QED
      BY <2>1, <3>1 DEF Refresh, RefreshFinds, Alive
  <2>2. CASE Age(u)
    <3>1. [session[u].auth EXCEPT !.old = TRUE] \in Sessions
      BY <1>1 DEF Sessions
    <3>2. session' = [session EXCEPT ![u].auth = [session[u].auth EXCEPT !.old = TRUE]]
      BY <2>2 DEF Age
    <3> QED
      BY <2>2, <3>1, <3>2 DEF Age, Alive
  <2>3. CASE Verify(u)
    <3>1. \A c : AfterVerify(session[u].auth, c) \in Sessions
      BY <1>1 DEF AfterVerify, Sessions, Tokens, NoTok
    <3> QED
      BY <2>3, <3>1 DEF Verify, Alive
  <2>4. CASE DeleteOne(u)
    <3>1. AfterDelete(session[u].auth) \in Sessions /\ ~AfterDelete(session[u].auth).live
      BY <1>1 DEF AfterDelete, Sessions
    <3> QED
      BY <2>4, <3>1 DEF DeleteOne
  <2> QED
    BY <2>1, <2>2, <2>3, <2>4
<1>3. UNCHANGED <<known, srp, login, purge>>
  BY DEF Refresh, Age, Verify, DeleteOne
<1>4. Fades
  <2>1. /\ session' \in [UIDs -> SessionRecords]
        /\ session'[u].user = session[u].user /\ session'[u].by = session[u].by /\ session'[u].auth = a
        /\ \A v \in UIDs \ {u} : session'[v] = session[v]
    <3>1. /\ session' \in [UIDs -> SessionRecords]
          /\ session'[u] = [user |-> session[u].user, by |-> session[u].by, auth |-> a]
          /\ \A v \in UIDs \ {u} : session'[v] = session[v]
      BY <1>1, <1>2, AuthEdit
    <3> QED
      BY <3>1
  <2>2. \A v \in UIDs : v \in Alive' => v \in Alive
    BY <1>2, <2>1 DEF Alive
  <2>3. \A v \in UIDs : session'[v].user = session[v].user /\ session'[v].by = session[v].by
    BY <2>1
  <2> QED
    BY <1>3, <2>1, <2>2, <2>3 DEF Fades, SessionsInv, LiveMade
<1>5. SessionsTyped'
  BY <1>1, <1>3, <1>4 DEF SessionsTyped, Fades
<1> QED
  BY <1>3, <1>4, <1>5, FadingKeepsSessions DEF SessionsInv

\* RemoveAccount.
LEMMA RemoveAccountKeepsSessions ==
    ASSUME SessionsInv, NEW user \in Users, RemoveAccount(user)
    PROVE  SessionsInv'
<1>1. session \in [UIDs -> SessionRecords]
  BY DEF SessionsInv, SessionsTyped
<1>2. \A u \in UIDs :
         [session[u] EXCEPT !.auth = AfterDelete(@)]
            = [user |-> session[u].user, by |-> session[u].by, auth |-> AfterDelete(session[u].auth)]
  BY <1>1 DEF SessionRecords
<1>3. \A u \in UIDs : AfterDelete(session[u].auth) \in Sessions /\ ~AfterDelete(session[u].auth).live
  <2>1. \A u \in UIDs : session[u].auth \in Sessions
    BY <1>1 DEF SessionRecords
  <2> QED
    BY <2>1 DEF AfterDelete, Sessions
<1>4. \A u \in UIDs :
         session'[u] = IF session[u].user = user
                       THEN [user |-> session[u].user, by |-> session[u].by, auth |-> AfterDelete(session[u].auth)]
                       ELSE session[u]
  BY <1>2 DEF RemoveAccount
<1>5. ASSUME NEW u \in UIDs
      PROVE  session'[u] \in SessionRecords
  <2>1. session[u] \in SessionRecords
    BY <1>1
  <2>2. [user |-> session[u].user, by |-> session[u].by, auth |-> AfterDelete(session[u].auth)] \in SessionRecords
    BY <1>3, <2>1 DEF SessionRecords
  <2> QED
    BY <1>4, <2>1, <2>2
<1>6. Fades
  <2>1. session' \in [UIDs -> SessionRecords]
    BY <1>5 DEF RemoveAccount
  <2>2. known' = known \ {user}
    BY DEF RemoveAccount
  <2>3. \A u \in UIDs :
           /\ session'[u].by = session[u].by
           /\ u \in Alive' => u \in Alive /\ session'[u] = session[u] /\ session[u].user # user
    <3> SUFFICES ASSUME NEW u \in UIDs
                 PROVE  /\ session'[u].by = session[u].by
                        /\ u \in Alive' => u \in Alive /\ session'[u] = session[u] /\ session[u].user # user
      OBVIOUS
    <3>1. CASE session[u].user = user
      <4>1. session'[u] = [user |-> session[u].user, by |-> session[u].by, auth |-> AfterDelete(session[u].auth)]
        BY <1>4, <3>1
      <4>2. session'[u].by = session[u].by /\ session'[u].auth = AfterDelete(session[u].auth)
        BY <4>1
      <4> QED
        BY <1>3, <4>2 DEF Alive
    <3>2. CASE session[u].user # user
      <4>1. session'[u] = session[u]
        BY <1>4, <3>2
      <4> QED
        BY <3>2, <4>1 DEF Alive
    <3> QED
      BY <3>1, <3>2
  <2> QED
    BY <2>1, <2>2, <2>3 DEF Fades, SessionsInv, LiveMade
<1>7. UNCHANGED <<srp, login, purge>>
  BY DEF RemoveAccount
<1>8. SessionsTyped'
  BY <1>6, <1>7 DEF SessionsTyped, Fades, SessionsInv
<1> QED
  BY <1>6, <1>7, <1>8, FadingKeepsSessions DEF SessionsInv

\* One field of a login, and two.
LEMMA LoginEdit ==
    ASSUME SessionsTyped, NEW l \in Logins, NEW at
    PROVE  LET one == [login EXCEPT ![l].at = at]
           IN  /\ one = [login EXCEPT ![l] = [at |-> at, srp |-> login[l].srp, uid |-> login[l].uid]]
               /\ one[l] = [at |-> at, srp |-> login[l].srp, uid |-> login[l].uid]
               /\ DOMAIN one = Logins
<1>1. login[l] = [at |-> login[l].at, srp |-> login[l].srp, uid |-> login[l].uid]
  BY DEF LoginRecords, SessionsTyped
<1>2. [login[l] EXCEPT !.at = at] = [at |-> at, srp |-> login[l].srp, uid |-> login[l].uid]
  BY <1>1
<1> QED
  BY <1>2 DEF SessionsTyped

LEMMA LoginEdits ==
    ASSUME SessionsTyped, NEW l \in Logins, NEW v
    PROVE  /\ [login EXCEPT ![l].at = "proof", ![l].srp = v]
                 = [login EXCEPT ![l] = [at |-> "proof", srp |-> v, uid |-> login[l].uid]]
           /\ [login EXCEPT ![l].at = "in", ![l].uid = v]
                 = [login EXCEPT ![l] = [at |-> "in", srp |-> login[l].srp, uid |-> v]]
<1>1. [login EXCEPT ![l].at = "proof", ![l].srp = v]
         = [login EXCEPT ![l] = [at |-> "proof", srp |-> v, uid |-> login[l].uid]]
  <2> DEFINE one == [login EXCEPT ![l].at = "proof"]
  <2>1. [login EXCEPT ![l].at = "proof", ![l].srp = v] = [one EXCEPT ![l].srp = v]
    OBVIOUS
  <2>2. /\ one = [login EXCEPT ![l] = [at |-> "proof", srp |-> login[l].srp, uid |-> login[l].uid]]
        /\ one[l] = [at |-> "proof", srp |-> login[l].srp, uid |-> login[l].uid]
    BY LoginEdit
  <2> HIDE DEF one
  <2>3. [one[l] EXCEPT !.srp = v] = [at |-> "proof", srp |-> v, uid |-> login[l].uid]
    BY <2>2
  <2> QED
    BY <2>1, <2>2, <2>3
<1>2. [login EXCEPT ![l].at = "in", ![l].uid = v]
         = [login EXCEPT ![l] = [at |-> "in", srp |-> login[l].srp, uid |-> v]]
  <2> DEFINE one == [login EXCEPT ![l].at = "in"]
  <2>1. [login EXCEPT ![l].at = "in", ![l].uid = v] = [one EXCEPT ![l].uid = v]
    OBVIOUS
  <2>2. /\ one = [login EXCEPT ![l] = [at |-> "in", srp |-> login[l].srp, uid |-> login[l].uid]]
        /\ one[l] = [at |-> "in", srp |-> login[l].srp, uid |-> login[l].uid]
    BY LoginEdit
  <2> HIDE DEF one
  <2>3. [one[l] EXCEPT !.uid = v] = [at |-> "in", srp |-> login[l].srp, uid |-> v]
    BY <2>2
  <2> QED
    BY <2>1, <2>2, <2>3
<1> QED
  BY <1>1, <1>2

\* A login that has come to another place.
LEMMA LoginTyped ==
    ASSUME SessionsTyped, NEW l \in Logins, NEW r \in LoginRecords, login' = [login EXCEPT ![l] = r]
    PROVE  /\ login' \in [Logins -> LoginRecords] /\ login'[l] = r
           /\ \A k \in Logins \ {l} : login'[k] = login[k]
  BY DEF SessionsTyped

LEMMA AuthInfoKeepsSessions ==
    ASSUME SessionsInv, NEW l \in Logins, AuthInfo(l)
    PROVE  SessionsInv'
<1>1. SessionsTyped /\ login[l].at = "info" /\ UNCHANGED <<known, session, purge>>
  BY DEF SessionsInv, AuthInfo
<1>2. PICK s \in SRPs : /\ srp[s] = "unused" /\ srp' = [srp EXCEPT ![s] = UserOf[l]]
                        /\ \/ login' = [login EXCEPT ![l].at = "proof", ![l].srp = s]
                           \/ UNCHANGED login
  BY DEF AuthInfo, NewSRP, Fresh
<1>3. srp' \in [SRPs -> Users \cup {"unused", "used"}]
  BY <1>1, <1>2, SessionAssumption DEF SessionsTyped
<1>4. /\ login' \in [Logins -> LoginRecords]
      /\ \A k \in Logins \ {l} : login'[k] = login[k]
      /\ login'[l] = login[l] \/ (login'[l].at = "proof" /\ login'[l].srp = s)
  <2>1. CASE UNCHANGED login
    BY <1>1, <2>1 DEF SessionsTyped
  <2>2. CASE login' = [login EXCEPT ![l].at = "proof", ![l].srp = s]
    <3> DEFINE r == [at |-> "proof", srp |-> s, uid |-> login[l].uid]
    <3>2. login[l].uid \in UIDs \cup {Missing}
      BY <1>1 DEF SessionsTyped, LoginRecords
    <3>3. r \in LoginRecords
      BY <3>2 DEF LoginRecords
    <3>4. login' = [login EXCEPT ![l] = r]
      <4>2. [login EXCEPT ![l].at = "proof", ![l].srp = s] = [login EXCEPT ![l] = r]
        BY <1>1, LoginEdits
      <4> QED
        BY <2>2, <4>2
    <3>5. /\ login' \in [Logins -> LoginRecords] /\ login'[l] = r
          /\ \A k \in Logins \ {l} : login'[k] = login[k]
      <4> HIDE DEF r
      <4> QED BY <1>1, <3>3, <3>4, LoginTyped
    <3> QED
      BY <3>5
  <2> QED
    BY <1>2, <2>1, <2>2
<1>5. ProofGoodOnce'
  <2>1. ASSUME NEW k \in Logins
        PROVE  /\ login'[k].at = "proof" => login'[k].srp \in SRPs
               /\ login'[k].at = "info" \/ (login'[k].at = "proof" /\ srp'[login'[k].srp] # "used") =>
                     \A u \in UIDs : session'[u].by # k
               /\ \A u, v \in UIDs : session'[u].by = k /\ session'[v].by = k => u = v
    <3>1. \A u, v \in UIDs : session'[u].by = k /\ session'[v].by = k => u = v
      BY <1>1 DEF SessionsInv, ProofGoodOnce
    <3>2. CASE login'[k] = login[k]
      <4>1. login'[k].at = "proof" /\ srp[login'[k].srp] = "used" => srp'[login'[k].srp] = "used"
        BY <1>2, <1>1, <3>2 DEF SessionsTyped, SessionsInv, ProofGoodOnce
      <4> QED
        BY <1>1, <3>1, <3>2, <4>1 DEF SessionsInv, ProofGoodOnce
    <3>3. CASE login'[k] # login[k]
      <4>1. k = l /\ login'[k].at = "proof" /\ login'[k].srp = s
        BY <1>4, <3>3
      <4> QED
        BY <1>1, <3>1, <4>1 DEF SessionsInv, ProofGoodOnce
    <3> QED
      BY <3>2, <3>3
  <2> QED
    BY <2>1 DEF ProofGoodOnce
<1> QED
  BY <1>1, <1>3, <1>4, <1>5 DEF SessionsInv, SessionsTyped, LiveMade, PurgeOnItsWay, Alive, Made

LEMMA LoginRefusedKeepsSessions ==
    ASSUME SessionsInv, NEW l \in Logins, LoginRefused(l)
    PROVE  SessionsInv'
<1>1. SessionsTyped /\ UNCHANGED <<known, srp, session, purge>>
  BY DEF SessionsInv, LoginRefused
<1> DEFINE r == [at |-> "refused", srp |-> login[l].srp, uid |-> login[l].uid]
<1>2. r \in LoginRecords
  BY <1>1 DEF SessionsTyped, LoginRecords
<1>3. login' = [login EXCEPT ![l] = r]
  <2>1. login' = [login EXCEPT ![l].at = "refused"]
    BY DEF LoginRefused
  <2>3. [login EXCEPT ![l].at = "refused"] = [login EXCEPT ![l] = r]
    BY <1>1, LoginEdit
  <2> QED
    BY <2>1, <2>3
<1>4. /\ login' \in [Logins -> LoginRecords] /\ login'[l].at = "refused"
      /\ \A k \in Logins \ {l} : login'[k] = login[k]
  <2>1. r.at = "refused"
    OBVIOUS
  <2> HIDE DEF r
  <2> QED BY <1>1, <1>2, <1>3, <2>1, LoginTyped
<1>5. ProofGoodOnce'
  BY <1>1, <1>4 DEF SessionsInv, ProofGoodOnce
<1> QED
  BY <1>1, <1>4, <1>5 DEF SessionsInv, SessionsTyped, LiveMade, PurgeOnItsWay, Alive, Made

\* Prove: the proof is used up, and the session, if there is one, is the first
\* that this login makes.
LEMMA ProveKeepsSessions ==
    ASSUME SessionsInv, NEW l \in Logins, Prove(l)
    PROVE  SessionsInv'
<1> DEFINE s == login[l].srp
           Moved == /\ login' \in [Logins -> LoginRecords] /\ login'[l].at # "info" /\ login'[l].srp = s
                    /\ \A k \in Logins \ {l} : login'[k] = login[k]
<1>1. /\ SessionsTyped /\ UNCHANGED <<known, purge>> /\ UserOf[l] \in known
      /\ login[l].at = "proof" /\ s \in SRPs /\ srp[s] = UserOf[l]
      /\ srp' = [srp EXCEPT ![s] = "used"]
  BY DEF SessionsInv, Prove, UseSRP, ProofGoodOnce
<1>2. \A u \in UIDs : session[u].by # l
  <2>1. UserOf[l] # "used"
    BY SessionAssumption
  <2> QED
    BY <1>1, <2>1 DEF SessionsInv, ProofGoodOnce
<1>3. /\ srp' \in [SRPs -> Users \cup {"unused", "used"}] /\ srp'[s] = "used"
      /\ \A t \in SRPs : srp[t] = "used" => srp'[t] = "used"
  BY <1>1 DEF SessionsTyped
<1>4. \A r \in LoginRecords :
         r.at # "info" /\ r.srp = s /\ login' = [login EXCEPT ![l] = r] => Moved
  BY <1>1, LoginTyped
<1>5. s \in SRPs \cup {Missing} /\ login[l].uid \in UIDs \cup {Missing}
  BY <1>1 DEF SessionsTyped, LoginRecords
<1>6. \/ UNCHANGED session
      \/ \E u \in UIDs : /\ session[u] = NoSession
                         /\ session' = [session EXCEPT ![u] = [user |-> UserOf[l], by |-> l, auth |-> NewSession]]
  BY DEF Prove, NewUID, Fresh
<1>7. Moved
  <2>1. CASE UNCHANGED login
    BY <1>1, <2>1 DEF SessionsTyped
  <2>2. CASE login' = [login EXCEPT ![l].at = "refused"]
    <3> DEFINE r == [at |-> "refused", srp |-> s, uid |-> login[l].uid]
    <3>1. r \in LoginRecords
      BY <1>5 DEF LoginRecords
    <3>2. login' = [login EXCEPT ![l] = r]
      BY <1>1, <2>2, LoginEdit
    <3> QED
      BY <1>4, <3>1, <3>2
  <2>3. ASSUME NEW u \in UIDs, login' = [login EXCEPT ![l].at = "in", ![l].uid = u]
        PROVE  Moved
    <3> DEFINE r == [at |-> "in", srp |-> s, uid |-> u]
    <3>1. r \in LoginRecords
      BY <1>5 DEF LoginRecords
    <3>2. [login EXCEPT ![l].at = "in", ![l].uid = u] = [login EXCEPT ![l] = r]
      BY <1>1, LoginEdits
    <3>3. login' = [login EXCEPT ![l] = r]
      BY <2>3, <3>2
    <3> QED
      BY <1>4, <3>1, <3>3
  <2>4. \/ UNCHANGED login \/ login' = [login EXCEPT ![l].at = "refused"]
        \/ \E u \in UIDs : login' = [login EXCEPT ![l].at = "in", ![l].uid = u]
    BY DEF Prove, NewUID, Fresh
  <2> QED
    BY <2>1, <2>2, <2>3, <2>4
<1>8. CASE UNCHANGED session
  <2>1. ProofGoodOnce'
    <3>1. ASSUME NEW k \in Logins \ {l}, login'[k].at = "proof"
          PROVE  login'[k].srp \in SRPs /\ (srp[login'[k].srp] = "used" => srp'[login'[k].srp] = "used")
      BY <1>3, <1>7, <3>1 DEF SessionsInv, ProofGoodOnce
    <3> QED
      BY <1>1, <1>2, <1>3, <1>7, <1>8, <3>1 DEF SessionsInv, ProofGoodOnce
  <2> QED
    BY <1>1, <1>3, <1>7, <1>8, <2>1 DEF SessionsInv, SessionsTyped, LiveMade, PurgeOnItsWay, Alive, Made
<1>9. ASSUME NEW u \in UIDs, session[u] = NoSession,
             session' = [session EXCEPT ![u] = [user |-> UserOf[l], by |-> l, auth |-> NewSession]]
      PROVE  SessionsInv'
  <2>1. [user |-> UserOf[l], by |-> l, auth |-> NewSession] \in SessionRecords
    BY SessionAssumption DEF SessionRecords, NewSession, Sessions, Tokens, NoTok, FirstTok
  <2>2. /\ session' \in [UIDs -> SessionRecords]
        /\ session'[u].by = l /\ session'[u].user = UserOf[l] /\ session[u].by = Missing /\ ~session[u].auth.live
        /\ \A v \in UIDs \ {u} : session'[v] = session[v]
    BY <1>1, <1>9, <2>1 DEF SessionsTyped, NoSession, NewSession
  <2>3. Made' = Made \cup {u} /\ Alive' \subseteq Alive \cup {u} /\ u \notin Made /\ l # Missing
    BY <2>2, SessionAssumption DEF Made, Alive
  <2>4. LiveMade'
    <3>1. ASSUME NEW v \in Alive'
          PROVE  v \in Made' /\ session'[v].user \in known'
      <4>1. CASE v = u
        BY <1>1, <2>2, <2>3, <4>1
      <4>2. CASE v \in Alive /\ v # u
        <5>1. v \in UIDs /\ v \in Made /\ session[v].user \in known
          BY <4>2 DEF SessionsInv, LiveMade, Alive
        <5> QED
          BY <1>1, <2>2, <2>3, <4>2, <5>1
      <4> QED
        BY <2>3, <3>1, <4>1, <4>2
    <3> QED
      BY <3>1 DEF LiveMade
  <2>5. ProofGoodOnce'
    <3>1. ASSUME NEW k \in Logins \ {l}
          PROVE  \A v \in UIDs : session'[v].by = k <=> session[v].by = k
      BY <2>2, <3>1, SessionAssumption
    <3>2. ASSUME NEW k \in Logins \ {l}, login'[k].at = "proof"
          PROVE  login'[k].srp \in SRPs /\ (srp[login'[k].srp] = "used" => srp'[login'[k].srp] = "used")
      BY <1>3, <1>7, <3>2 DEF SessionsInv, ProofGoodOnce
    <3>3. \A v, w \in UIDs : session'[v].by = l /\ session'[w].by = l => v = w
      BY <1>2, <2>2
    <3> QED
      BY <1>1, <1>3, <1>7, <3>1, <3>2, <3>3 DEF SessionsInv, ProofGoodOnce
  <2>6. PurgeOnItsWay'
    BY <1>1, <2>3 DEF SessionsInv, PurgeOnItsWay
  <2> QED
    BY <1>1, <1>3, <1>7, <2>2, <2>4, <2>5, <2>6 DEF SessionsInv, SessionsTyped
<1> QED
  BY <1>6, <1>8, <1>9

\* What a purge does next.
LEMMA PurgeTyped ==
    ASSUME SessionsTyped, NEW p \in Purges, NEW r \in PurgeRecords, purge' = [purge EXCEPT ![p] = r]
    PROVE  /\ purge' \in [Purges -> PurgeRecords] /\ purge'[p] = r
           /\ \A q \in Purges \ {p} : purge'[q] = purge[q]
  BY DEF SessionsTyped

LEMMA PurgeEdit ==
    ASSUME SessionsTyped, NEW p \in Purges, NEW v
    PROVE  /\ [purge EXCEPT ![p].at = v]
                 = [purge EXCEPT ![p] = [at |-> v, user |-> purge[p].user, own |-> purge[p].own,
                                         listed |-> purge[p].listed, todo |-> purge[p].todo]]
           /\ [purge EXCEPT ![p].todo = v]
                 = [purge EXCEPT ![p] = [at |-> purge[p].at, user |-> purge[p].user, own |-> purge[p].own,
                                         listed |-> purge[p].listed, todo |-> v]]
<1>1. purge[p] = [at |-> purge[p].at, user |-> purge[p].user, own |-> purge[p].own,
                  listed |-> purge[p].listed, todo |-> purge[p].todo]
  BY DEF PurgeRecords, SessionsTyped
<1>2. [purge[p] EXCEPT !.at = v] = [at |-> v, user |-> purge[p].user, own |-> purge[p].own,
                                    listed |-> purge[p].listed, todo |-> purge[p].todo]
  BY <1>1
<1>3. [purge[p] EXCEPT !.todo = v] = [at |-> purge[p].at, user |-> purge[p].user, own |-> purge[p].own,
                                      listed |-> purge[p].listed, todo |-> v]
  BY <1>1
<1> QED
  BY <1>2, <1>3

LEMMA ListKeepsSessions ==
    ASSUME SessionsInv, NEW p \in Purges, List(p)
    PROVE  SessionsInv'
<1>1. SessionsTyped /\ UNCHANGED <<known, srp, session, login>>
  BY DEF SessionsInv, List
<1>2. PICK user \in known, own \in {Missing} \cup UIDs :
         purge' = [purge EXCEPT ![p] = [at |-> "delete", user |-> user, own |-> own,
                                       listed |-> UsersSessions(user), todo |-> UsersSessions(user) \ {own}]]
  BY DEF List
<1>3. UsersSessions(user) \subseteq UIDs /\ UsersSessions(user) \subseteq Made
  BY DEF UsersSessions, Alive, SessionsInv, LiveMade
<1> DEFINE r == [at |-> "delete", user |-> user, own |-> own,
                 listed |-> UsersSessions(user), todo |-> UsersSessions(user) \ {own}]
<1>4. r \in PurgeRecords
  BY <1>1, <1>3 DEF PurgeRecords, SessionsTyped
<1>5. /\ purge' \in [Purges -> PurgeRecords] /\ purge'[p] = r
      /\ \A q \in Purges \ {p} : purge'[q] = purge[q]
  <2> HIDE DEF r
  <2> QED
    BY <1>1, <1>2, <1>4, PurgeTyped DEF r
<1>6. Made' = Made /\ Alive' = Alive
  BY <1>1 DEF Made, Alive
<1>7. PurgeOnItsWay'
  <2>1. /\ purge'[p].todo = UsersSessions(user) \ {own} /\ purge'[p].listed = UsersSessions(user)
        /\ purge'[p].at = "delete" /\ purge'[p].own = own
    BY <1>5
  <2>2. ASSUME NEW q \in Purges
        PROVE  /\ purge'[q].todo \subseteq purge'[q].listed /\ purge'[q].listed \subseteq Made
               /\ purge'[q].at \in {"delete", "done"} =>
                     purge'[q].listed \cap Alive \subseteq purge'[q].todo \cup {purge'[q].own}
               /\ purge'[q].at = "done" => purge'[q].todo = {}
    <3>1. CASE q = p
      BY <1>3, <2>1, <3>1
    <3>2. CASE q # p
      BY <1>5, <3>2 DEF SessionsInv, PurgeOnItsWay
    <3> QED
      BY <3>1, <3>2
  <2> QED
    BY <1>6, <2>2 DEF PurgeOnItsWay
<1>8. ProofGoodOnce' /\ LiveMade'
  BY <1>1, <1>6 DEF SessionsInv, ProofGoodOnce, LiveMade
<1> QED
  BY <1>1, <1>5, <1>7, <1>8 DEF SessionsInv, SessionsTyped

\* DeleteNext: what is deleted was to do, or the account is gone.
LEMMA DeleteNextKeepsSessions ==
    ASSUME SessionsInv, NEW p \in Purges, DeleteNext(p)
    PROVE  SessionsInv'
<1>1. SessionsTyped /\ UNCHANGED <<known, srp, login>> /\ purge[p].at = "delete" /\ purge[p] \in PurgeRecords
  BY DEF SessionsInv, DeleteNext, SessionsTyped
<1>2. ASSUME NEW u \in purge[p].todo, session' = [session EXCEPT ![u].auth = AfterDelete(@)],
             purge' = [purge EXCEPT ![p].todo = @ \ {u}]
      PROVE  SessionsInv'
  <2>1. u \in UIDs /\ session[u].auth \in Sessions
    BY <1>1 DEF SessionsTyped, SessionRecords, PurgeRecords
  <2>2. AfterDelete(session[u].auth) \in Sessions /\ ~AfterDelete(session[u].auth).live
    BY <2>1 DEF AfterDelete, Sessions
  <2>3. session' = [session EXCEPT ![u].auth = AfterDelete(session[u].auth)]
    BY <1>2
  <2>4. /\ session' \in [UIDs -> SessionRecords]
        /\ session'[u] = [user |-> session[u].user, by |-> session[u].by, auth |-> AfterDelete(session[u].auth)]
        /\ \A v \in UIDs \ {u} : session'[v] = session[v]
    BY <1>1, <2>1, <2>2, <2>3, AuthEdit
  <2>5. /\ session'[u].user = session[u].user /\ session'[u].by = session[u].by /\ ~session'[u].auth.live
    BY <2>2, <2>4
  <2>6. Fades /\ u \notin Alive'
    <3>1. \A v \in UIDs : v \in Alive' => v \in Alive /\ v # u
      BY <2>4, <2>5 DEF Alive
    <3>2. \A v \in UIDs : session'[v].user = session[v].user /\ session'[v].by = session[v].by
      BY <2>4, <2>5
    <3> QED
      BY <1>1, <2>1, <2>4, <3>1, <3>2 DEF Fades, SessionsInv, LiveMade
  <2> DEFINE r == [at |-> purge[p].at, user |-> purge[p].user, own |-> purge[p].own,
                   listed |-> purge[p].listed, todo |-> purge[p].todo \ {u}]
  <2>7. r \in PurgeRecords
    BY <1>1 DEF PurgeRecords
  <2>8. purge' = [purge EXCEPT ![p] = r]
    <3>1. purge' = [purge EXCEPT ![p].todo = purge[p].todo \ {u}]
      BY <1>2
    <3>2. [purge EXCEPT ![p].todo = purge[p].todo \ {u}] = [purge EXCEPT ![p] = r]
      BY <1>1, PurgeEdit
    <3> QED
      BY <3>1, <3>2
  <2>9. /\ purge' \in [Purges -> PurgeRecords] /\ purge'[p] = r
        /\ \A q \in Purges \ {p} : purge'[q] = purge[q]
    <3> HIDE DEF r
    <3> QED
      BY <1>1, <2>7, <2>8, PurgeTyped
  <2>10. Made' = Made /\ Alive' \subseteq Alive /\ LiveMade' /\ ProofGoodOnce'
    BY <1>1, <2>6, FadingKeepsSessions
  <2>11. PurgeOnItsWay'
    <3>1. /\ purge'[p].todo = purge[p].todo \ {u} /\ purge'[p].listed = purge[p].listed
          /\ purge'[p].at = "delete" /\ purge'[p].own = purge[p].own
      BY <1>1, <2>9
    <3>2. ASSUME NEW q \in Purges
          PROVE  /\ purge'[q].todo \subseteq purge'[q].listed /\ purge'[q].listed \subseteq Made'
                 /\ purge'[q].at \in {"delete", "done"} =>
                       purge'[q].listed \cap Alive' \subseteq purge'[q].todo \cup {purge'[q].own}
                 /\ purge'[q].at = "done" => purge'[q].todo = {}
      <4>1. CASE q = p
        <5>1. /\ purge[p].todo \subseteq purge[p].listed /\ purge[p].listed \subseteq Made
              /\ purge[p].listed \cap Alive \subseteq purge[p].todo \cup {purge[p].own}
          BY <1>1 DEF SessionsInv, PurgeOnItsWay
        <5> QED
          BY <2>6, <2>10, <3>1, <4>1, <5>1
      <4>2. CASE q # p
        <5>1. purge'[q] = purge[q]
          BY <2>9, <4>2
        <5>2. /\ purge[q].todo \subseteq purge[q].listed /\ purge[q].listed \subseteq Made
              /\ purge[q].at \in {"delete", "done"} =>
                    purge[q].listed \cap Alive \subseteq purge[q].todo \cup {purge[q].own}
              /\ purge[q].at = "done" => purge[q].todo = {}
          BY DEF SessionsInv, PurgeOnItsWay
        <5> QED
          BY <2>10, <5>1, <5>2
      <4> QED
        BY <4>1, <4>2
    <3> QED
      BY <3>2 DEF PurgeOnItsWay
  <2> QED
    BY <1>1, <2>4, <2>9, <2>10, <2>11 DEF SessionsInv, SessionsTyped
<1>3. CASE purge' = [purge EXCEPT ![p].at = "failed"] /\ UNCHANGED session
  <2> DEFINE r == [at |-> "failed", user |-> purge[p].user, own |-> purge[p].own,
                   listed |-> purge[p].listed, todo |-> purge[p].todo]
  <2>1. r \in PurgeRecords
    BY <1>1 DEF PurgeRecords
  <2>2. purge' = [purge EXCEPT ![p] = r]
    BY <1>1, <1>3, PurgeEdit
  <2>3. /\ purge' \in [Purges -> PurgeRecords] /\ purge'[p] = r
        /\ \A q \in Purges \ {p} : purge'[q] = purge[q]
    <3> HIDE DEF r
    <3> QED
      BY <1>1, <2>1, <2>2, PurgeTyped
  <2>4. Made' = Made /\ Alive' = Alive /\ LiveMade' /\ ProofGoodOnce'
    BY <1>1, <1>3 DEF Made, Alive, SessionsInv, LiveMade, ProofGoodOnce
  <2>5. PurgeOnItsWay'
    <3>1. purge'[p].todo = purge[p].todo /\ purge'[p].listed = purge[p].listed /\ purge'[p].at = "failed"
      BY <2>3
    <3> QED
      BY <2>3, <2>4, <3>1 DEF SessionsInv, PurgeOnItsWay
  <2> QED
    BY <1>1, <1>3, <2>3, <2>4, <2>5 DEF SessionsInv, SessionsTyped
<1> QED
  BY <1>2, <1>3 DEF DeleteNext

LEMMA PurgedKeepsSessions ==
    ASSUME SessionsInv, NEW p \in Purges, Purged(p)
    PROVE  SessionsInv'
<1>1. /\ SessionsTyped /\ UNCHANGED <<known, srp, session, login>> /\ purge[p].at = "delete"
      /\ purge[p].todo = {} /\ purge[p] \in PurgeRecords
  BY DEF SessionsInv, Purged, NoneLeft, SessionsTyped
<1> DEFINE r == [at |-> "done", user |-> purge[p].user, own |-> purge[p].own,
                 listed |-> purge[p].listed, todo |-> purge[p].todo]
<1>2. r \in PurgeRecords
  BY <1>1 DEF PurgeRecords
<1>3. purge' = [purge EXCEPT ![p] = r]
  BY <1>1, PurgeEdit DEF Purged
<1>4. /\ purge' \in [Purges -> PurgeRecords] /\ purge'[p] = r
      /\ \A q \in Purges \ {p} : purge'[q] = purge[q]
  <2> HIDE DEF r
  <2> QED
    BY <1>1, <1>2, <1>3, PurgeTyped
<1>5. Made' = Made /\ Alive' = Alive /\ LiveMade' /\ ProofGoodOnce'
  BY <1>1 DEF Made, Alive, SessionsInv, LiveMade, ProofGoodOnce
<1>6. PurgeOnItsWay'
  <2>1. /\ purge'[p].todo = {} /\ purge'[p].listed = purge[p].listed /\ purge'[p].own = purge[p].own
    BY <1>1, <1>4
  <2>2. /\ purge[p].listed \subseteq Made
        /\ purge[p].listed \cap Alive \subseteq {purge[p].own}
    BY <1>1 DEF SessionsInv, PurgeOnItsWay
  <2> QED
    BY <1>4, <1>5, <2>1, <2>2 DEF SessionsInv, PurgeOnItsWay
<1> QED
  BY <1>1, <1>4, <1>5, <1>6 DEF SessionsInv, SessionsTyped

\* A login makes one session at most, however often its requests are sent again,
\* and a deletion of all sessions of a user that has ended has left of those it
\* listed at most the one it was to keep, whatever is refreshed, made and
\* deleted meanwhile (backend/api_auth.go; server/auth.go).
THEOREM SessionsAreExact == SessionsSpec => []SessionsExact
<1>1. SessionsInit => SessionsInv
  <2> SUFFICES ASSUME SessionsInit
               PROVE  SessionsInv
    OBVIOUS
  <2>1. NoSession \in SessionRecords /\ NoSession.by = Missing /\ ~NoSession.auth.live
    <3>1. NewSession \in Sessions
      BY DEF NewSession, FirstTok, Sessions, Tokens, NoTok
    <3>2. AfterDelete(NewSession) \in Sessions /\ ~AfterDelete(NewSession).live
      <4> HIDE DEF NewSession
      <4> QED
        BY <3>1 DEF AfterDelete, Sessions
    <3> QED
      BY <3>2 DEF NoSession, SessionRecords, AfterDelete
  <2>2. NoPurge \in PurgeRecords
    BY DEF NoPurge, PurgeRecords
  <2>3. SessionsTyped
    BY <2>1, <2>2 DEF SessionsInit, SessionsTyped, LoginRecords
  <2>4. Alive = {}
    BY <2>1 DEF SessionsInit, Alive
  <2>5. \A u \in UIDs, l \in Logins : session[u].by # l
    BY <2>1, SessionAssumption DEF SessionsInit
  <2> QED
    BY <2>3, <2>4, <2>5 DEF SessionsInit, SessionsInv, LiveMade, ProofGoodOnce, PurgeOnItsWay, NoPurge
<1>2. SessionsInv /\ [SessionsNext]_sessionVars => SessionsInv'
  <2> SUFFICES ASSUME SessionsInv, [SessionsNext]_sessionVars
               PROVE  SessionsInv'
    OBVIOUS
  <2>1. CASE UNCHANGED sessionVars
    BY <2>1 DEF sessionVars, SessionsInv, SessionsTyped, LiveMade, ProofGoodOnce, PurgeOnItsWay, Alive, Made
  <2>2. ASSUME NEW l \in Logins, AuthInfo(l) \/ Prove(l) \/ LoginRefused(l)
        PROVE  SessionsInv'
    BY <2>2, AuthInfoKeepsSessions, ProveKeepsSessions, LoginRefusedKeepsSessions
  <2>3. ASSUME NEW u \in UIDs, Refresh(u) \/ Age(u) \/ Verify(u) \/ DeleteOne(u)
        PROVE  SessionsInv'
    BY <2>3, AuthStepKeepsSessions
  <2>4. ASSUME NEW p \in Purges, List(p) \/ DeleteNext(p) \/ Purged(p)
        PROVE  SessionsInv'
    BY <2>4, ListKeepsSessions, DeleteNextKeepsSessions, PurgedKeepsSessions
  <2>5. ASSUME NEW user \in Users, RemoveAccount(user)
        PROVE  SessionsInv'
    BY <2>5, RemoveAccountKeepsSessions
  <2> QED
    BY <2>1, <2>2, <2>3, <2>4, <2>5 DEF SessionsNext
<1>3. SessionsInv => SessionsExact
  <2> SUFFICES ASSUME SessionsInv
               PROVE  SessionsExact
    OBVIOUS
  <2>1. SessionsTypeOK
    <3>1. \A u \in UIDs : session[u].auth.live => u \in Alive
      BY DEF Alive
    <3> QED
      BY <3>1 DEF SessionsTypeOK, SessionsInv, SessionsTyped, SessionRecords, LoginRecords, PurgeRecords,
                  LiveMade, PurgeOnItsWay
  <2>2. OneSessionPerLogin
    <3>1. ASSUME NEW l \in Logins
          PROVE  Cardinality({u \in UIDs : session[u].by = l}) <= 1
      <4>1. \A u, v \in {u \in UIDs : session[u].by = l} : u = v
        BY DEF SessionsInv, ProofGoodOnce
      <4> QED
        BY <4>1, AtMostOne
    <3> QED
      BY <3>1 DEF OneSessionPerLogin
  <2>3. PurgeIsComplete
    BY DEF PurgeIsComplete, SessionsInv, PurgeOnItsWay
  <2> QED
    BY <2>1, <2>2, <2>3 DEF SessionsExact
<1> QED
  BY <1>1, <1>2, <1>3, PTL DEF SessionsSpec

------------------------------------------------------------------------------
(* Keys and their unlocking. *)

\* The same list without the entry at i.
LEMMA RemoveAtIs ==
    ASSUME NEW S, NEW s \in Seq(S), NEW i \in DOMAIN s
    PROVE  /\ RemoveAt(s, i) \in Seq(S) /\ Len(RemoveAt(s, i)) = Len(s) - 1
           /\ \A j \in DOMAIN RemoveAt(s, i) :
                 /\ j < i => j \in DOMAIN s /\ RemoveAt(s, i)[j] = s[j]
                 /\ i <= j => j + 1 \in DOMAIN s /\ RemoveAt(s, i)[j] = s[j + 1]
<1>1. DOMAIN s = 1 .. Len(s) /\ Len(s) \in Nat
  OBVIOUS
<1>2. /\ SubSeq(s, 1, i - 1) \in Seq(S) /\ Len(SubSeq(s, 1, i - 1)) = i - 1
      /\ \A j \in 1 .. i - 1 : SubSeq(s, 1, i - 1)[j] = s[j]
  BY <1>1
<1>3. /\ SubSeq(s, i + 1, Len(s)) \in Seq(S) /\ Len(SubSeq(s, i + 1, Len(s))) = Len(s) - i
      /\ \A j \in 1 .. Len(s) - i : SubSeq(s, i + 1, Len(s))[j] = s[i + j]
  BY <1>1
<1> DEFINE before == SubSeq(s, 1, i - 1)
           after == SubSeq(s, i + 1, Len(s))
<1> HIDE DEF before, after
<1>4. /\ before \o after \in Seq(S) /\ Len(before \o after) = Len(before) + Len(after)
      /\ \A j \in 1 .. Len(before) + Len(after) :
            (before \o after)[j] = IF j <= Len(before) THEN before[j] ELSE after[j - Len(before)]
  <2>1. before \in Seq(S) /\ after \in Seq(S)
    BY <1>2, <1>3 DEF before, after
  <2> QED
    BY <2>1
<1>5. RemoveAt(s, i) = before \o after
  BY DEF RemoveAt, before, after
<1>6. Len(before) = i - 1 /\ Len(after) = Len(s) - i
  BY <1>2, <1>3 DEF before, after
<1>7. Len(RemoveAt(s, i)) = Len(s) - 1 /\ DOMAIN RemoveAt(s, i) = 1 .. Len(s) - 1
  <2>1. Len(before) + Len(after) = Len(s) - 1
    BY <1>1, <1>6
  <2> QED
    BY <1>4, <1>5, <2>1
<1>8. ASSUME NEW j \in 1 .. Len(s) - 1, j < i
      PROVE  j \in DOMAIN s /\ RemoveAt(s, i)[j] = s[j]
  <2>1. j \in 1 .. i - 1 /\ before[j] = s[j]
    BY <1>1, <1>2, <1>8 DEF before
  <2> QED
    BY <1>1, <1>4, <1>5, <1>6, <2>1
<1>9. ASSUME NEW j \in 1 .. Len(s) - 1, i <= j
      PROVE  j + 1 \in DOMAIN s /\ RemoveAt(s, i)[j] = s[j + 1]
  <2>1. j - (i - 1) \in 1 .. Len(s) - i /\ i + (j - (i - 1)) = j + 1
    BY <1>1, <1>9
  <2>2. after[j - (i - 1)] = s[j + 1]
    BY <1>3, <2>1 DEF after
  <2>3. j \in 1 .. Len(before) + Len(after) /\ ~(j <= Len(before)) /\ j - Len(before) = j - (i - 1)
    BY <1>1, <1>6, <1>9
  <2> QED
    BY <1>1, <1>4, <1>5, <2>2, <2>3
<1> QED
  BY <1>4, <1>5, <1>7, <1>8, <1>9

UserKeys == [id : 1 .. MaxUserKeys, salt : {AccountSalt, "own"}]
AddressKeys == [id : 1 .. MaxAddressKeys, by : 1 .. MaxUserKeys]
Readers ==
    [user : Seq(UserKeys), salts : SUBSET (1 .. MaxUserKeys), addrs : [KeyAddresses -> Seq(AddressKeys)],
     seen : SUBSET {"user", "salts", "addrs"}, result : {"none", "ok", "err"},
     userKR : SUBSET (1 .. MaxUserKeys), addrKRs : [KeyAddresses -> SUBSET (1 .. MaxAddressKeys)]]

UnlockTyped ==
    /\ accKeys \in Seq(UserKeys) /\ addrKeys \in [KeyAddresses -> Seq(AddressKeys)]
    /\ keysMade \in [user : 1 .. MaxUserKeys, addr : 0 .. MaxAddressKeys]
    /\ reader \in Readers

\* The key the account was made with is the one with the account's salt.
FirstHasSalt(keys) == \A i \in DOMAIN keys : keys[i].salt = AccountSalt <=> keys[i].id = 1

KeysDiffer(keys) == \A i, j \in DOMAIN keys : keys[i].id = keys[j].id => i = j

\* What a client reads has what is true of the server's lists.
ReadIsTrue ==
    /\ FirstHasSalt(reader.user)
    /\ \A a \in KeyAddresses : \A i \in DOMAIN reader.addrs[a] : reader.addrs[a][i].by = 1

OpensSome == reader.result = "ok" => \E a \in KeyAddresses : reader.addrKRs[a] # {}

UnlockInv ==
    /\ UnlockTyped
    /\ \A i \in DOMAIN accKeys : accKeys[i].id <= keysMade.user
    /\ KeysDiffer(accKeys) /\ FirstHasSalt(accKeys) /\ TokensCanBeOpened
    /\ ReadIsTrue /\ OpensSome /\ UnlocksAll /\ LockedOutForAReason

\* What a reader is that gets one more thing.
LEMMA UserEdit ==
    ASSUME reader \in Readers, NEW v, NEW w
    PROVE  [reader EXCEPT !.user = v, !.seen = w]
              = [user |-> v, salts |-> reader.salts, addrs |-> reader.addrs, seen |-> w,
                 result |-> reader.result, userKR |-> reader.userKR, addrKRs |-> reader.addrKRs]
<1>1. reader = [user |-> reader.user, salts |-> reader.salts, addrs |-> reader.addrs, seen |-> reader.seen,
                result |-> reader.result, userKR |-> reader.userKR, addrKRs |-> reader.addrKRs]
  BY DEF Readers
<1> DEFINE one == [reader EXCEPT !.user = v]
<1>2. one = [user |-> v, salts |-> reader.salts, addrs |-> reader.addrs, seen |-> reader.seen,
             result |-> reader.result, userKR |-> reader.userKR, addrKRs |-> reader.addrKRs]
  BY <1>1
<1>3. [reader EXCEPT !.user = v, !.seen = w] = [one EXCEPT !.seen = w]
  OBVIOUS
<1> HIDE DEF one
<1>4. [one EXCEPT !.seen = w]
         = [user |-> v, salts |-> reader.salts, addrs |-> reader.addrs, seen |-> w,
            result |-> reader.result, userKR |-> reader.userKR, addrKRs |-> reader.addrKRs]
  BY <1>2
<1> QED
  BY <1>3, <1>4

LEMMA SaltsEdit ==
    ASSUME reader \in Readers, NEW v, NEW w
    PROVE  [reader EXCEPT !.salts = v, !.seen = w]
              = [user |-> reader.user, salts |-> v, addrs |-> reader.addrs, seen |-> w,
                 result |-> reader.result, userKR |-> reader.userKR, addrKRs |-> reader.addrKRs]
<1>1. reader = [user |-> reader.user, salts |-> reader.salts, addrs |-> reader.addrs, seen |-> reader.seen,
                result |-> reader.result, userKR |-> reader.userKR, addrKRs |-> reader.addrKRs]
  BY DEF Readers
<1> DEFINE one == [reader EXCEPT !.salts = v]
<1>2. one = [user |-> reader.user, salts |-> v, addrs |-> reader.addrs, seen |-> reader.seen,
             result |-> reader.result, userKR |-> reader.userKR, addrKRs |-> reader.addrKRs]
  BY <1>1
<1>3. [reader EXCEPT !.salts = v, !.seen = w] = [one EXCEPT !.seen = w]
  OBVIOUS
<1> HIDE DEF one
<1>4. [one EXCEPT !.seen = w]
         = [user |-> reader.user, salts |-> v, addrs |-> reader.addrs, seen |-> w,
            result |-> reader.result, userKR |-> reader.userKR, addrKRs |-> reader.addrKRs]
  BY <1>2
<1> QED
  BY <1>3, <1>4

LEMMA AddrsEdit ==
    ASSUME reader \in Readers, NEW v, NEW w
    PROVE  [reader EXCEPT !.addrs = v, !.seen = w]
              = [user |-> reader.user, salts |-> reader.salts, addrs |-> v, seen |-> w,
                 result |-> reader.result, userKR |-> reader.userKR, addrKRs |-> reader.addrKRs]
<1>1. reader = [user |-> reader.user, salts |-> reader.salts, addrs |-> reader.addrs, seen |-> reader.seen,
                result |-> reader.result, userKR |-> reader.userKR, addrKRs |-> reader.addrKRs]
  BY DEF Readers
<1> DEFINE one == [reader EXCEPT !.addrs = v]
<1>2. one = [user |-> reader.user, salts |-> reader.salts, addrs |-> v, seen |-> reader.seen,
             result |-> reader.result, userKR |-> reader.userKR, addrKRs |-> reader.addrKRs]
  BY <1>1
<1>3. [reader EXCEPT !.addrs = v, !.seen = w] = [one EXCEPT !.seen = w]
  OBVIOUS
<1> HIDE DEF one
<1>4. [one EXCEPT !.seen = w]
         = [user |-> reader.user, salts |-> reader.salts, addrs |-> v, seen |-> w,
            result |-> reader.result, userKR |-> reader.userKR, addrKRs |-> reader.addrKRs]
  BY <1>2
<1> QED
  BY <1>3, <1>4

LEMMA ErrEdit ==
    ASSUME reader \in Readers, NEW v
    PROVE  [reader EXCEPT !.result = v]
              = [user |-> reader.user, salts |-> reader.salts, addrs |-> reader.addrs, seen |-> reader.seen,
                 result |-> v, userKR |-> reader.userKR, addrKRs |-> reader.addrKRs]
<1>1. reader = [user |-> reader.user, salts |-> reader.salts, addrs |-> reader.addrs, seen |-> reader.seen,
                result |-> reader.result, userKR |-> reader.userKR, addrKRs |-> reader.addrKRs]
  BY DEF Readers
<1> QED
  BY <1>1

LEMMA RingsEdit ==
    ASSUME reader \in Readers, NEW v, NEW w, NEW x
    PROVE  [reader EXCEPT !.result = v, !.userKR = w, !.addrKRs = x]
              = [user |-> reader.user, salts |-> reader.salts, addrs |-> reader.addrs, seen |-> reader.seen,
                 result |-> v, userKR |-> w, addrKRs |-> x]
<1>1. reader = [user |-> reader.user, salts |-> reader.salts, addrs |-> reader.addrs, seen |-> reader.seen,
                result |-> reader.result, userKR |-> reader.userKR, addrKRs |-> reader.addrKRs]
  BY DEF Readers
<1> DEFINE one == [reader EXCEPT !.result = v]
<1>2. one = [user |-> reader.user, salts |-> reader.salts, addrs |-> reader.addrs, seen |-> reader.seen,
             result |-> v, userKR |-> reader.userKR, addrKRs |-> reader.addrKRs]
  BY <1>1
<1> DEFINE two == [one EXCEPT !.userKR = w]
<1>3. [reader EXCEPT !.result = v, !.userKR = w, !.addrKRs = x] = [two EXCEPT !.addrKRs = x]
  OBVIOUS
<1> HIDE DEF one
<1>4. two = [user |-> reader.user, salts |-> reader.salts, addrs |-> reader.addrs, seen |-> reader.seen,
             result |-> v, userKR |-> w, addrKRs |-> reader.addrKRs]
  BY <1>2
<1> HIDE DEF two
<1>5. [two EXCEPT !.addrKRs = x]
         = [user |-> reader.user, salts |-> reader.salts, addrs |-> reader.addrs, seen |-> reader.seen,
            result |-> v, userKR |-> w, addrKRs |-> x]
  BY <1>4
<1> QED
  BY <1>3, <1>5

\* A list of keys after one was removed.
LEMMA KeyRemoved ==
    ASSUME NEW keys \in Seq(UserKeys), NEW i \in DOMAIN keys, KeysDiffer(keys), FirstHasSalt(keys)
    PROVE  LET left == RemoveAt(keys, i)
           IN  /\ left \in Seq(UserKeys) /\ KeysDiffer(left) /\ FirstHasSalt(left)
               /\ \A j \in DOMAIN left : \E k \in DOMAIN keys : left[j] = keys[k]
<1> DEFINE left == RemoveAt(keys, i)
<1>1. /\ left \in Seq(UserKeys) /\ Len(left) = Len(keys) - 1
      /\ \A j \in DOMAIN left :
            /\ j < i => j \in DOMAIN keys /\ left[j] = keys[j]
            /\ i <= j => j + 1 \in DOMAIN keys /\ left[j] = keys[j + 1]
  BY RemoveAtIs
<1> HIDE DEF left
<1>2. i \in Nat /\ DOMAIN left \subseteq Nat
  BY <1>1
<1>3. \A j \in DOMAIN left : \E k \in DOMAIN keys : left[j] = keys[k]
  BY <1>1, <1>2
<1>4. KeysDiffer(left)
  <2>1. ASSUME NEW j \in DOMAIN left, NEW k \in DOMAIN left, left[j].id = left[k].id, j # k
        PROVE  FALSE
    <3> DEFINE At(n) == IF n < i THEN n ELSE n + 1
    <3>1. /\ At(j) \in DOMAIN keys /\ left[j] = keys[At(j)]
          /\ At(k) \in DOMAIN keys /\ left[k] = keys[At(k)] /\ At(j) # At(k)
      BY <1>1, <1>2, <2>1
    <3> HIDE DEF At
    <3> QED
      BY <2>1, <3>1 DEF KeysDiffer
  <2> QED
    BY <2>1 DEF KeysDiffer
<1>5. FirstHasSalt(left)
  BY <1>3 DEF FirstHasSalt
<1> QED
  BY <1>1, <1>3, <1>4, <1>5 DEF left

\* The server's steps.
LEMMA ServerKeepsKeys ==
    ASSUME UnlockInv,
           MakeUserKey \/ DropUserKey \/ \E a \in KeyAddresses : MakeAddressKey(a) \/ DropAddressKey(a)
    PROVE  UnlockInv'
<1>1. /\ accKeys \in Seq(UserKeys) /\ addrKeys \in [KeyAddresses -> Seq(AddressKeys)]
      /\ keysMade \in [user : 1 .. MaxUserKeys, addr : 0 .. MaxAddressKeys]
      /\ reader' = reader
  BY DEF UnlockInv, UnlockTyped, MakeUserKey, DropUserKey, MakeAddressKey, DropAddressKey
<1>2. reader' \in Readers /\ ReadIsTrue' /\ OpensSome' /\ UnlocksAll' /\ LockedOutForAReason'
  BY <1>1 DEF UnlockInv, UnlockTyped, ReadIsTrue, OpensSome, UnlocksAll, LockedOutForAReason, IDs
<1> DEFINE Accounted == /\ accKeys' \in Seq(UserKeys)
                        /\ \A i \in DOMAIN accKeys' : accKeys'[i].id <= keysMade'.user
                        /\ KeysDiffer(accKeys') /\ FirstHasSalt(accKeys')
           Addressed == addrKeys' \in [KeyAddresses -> Seq(AddressKeys)] /\ TokensCanBeOpened'
           Counted == keysMade' \in [user : 1 .. MaxUserKeys, addr : 0 .. MaxAddressKeys]
<1>3. CASE MakeUserKey
  <2> DEFINE n == keysMade.user + 1
             k == [id |-> n, salt |-> "own"]
  <2>1. n \in 1 .. MaxUserKeys /\ keysMade.user \in Nat /\ n # 1
    BY <1>1, <1>3, UnlockAssumption DEF MakeUserKey
  <2>2. k \in UserKeys
    BY <2>1 DEF UserKeys
  <2>3. keysMade' = [keysMade EXCEPT !.user = n] /\ UNCHANGED addrKeys /\ accKeys' = Append(accKeys, k)
    BY <1>3 DEF MakeUserKey
  <2>4. Counted /\ keysMade'.user = n /\ keysMade'.user = keysMade.user + 1
    BY <1>1, <2>1, <2>3
  <2>5. k.id = n /\ k.salt = "own"
    OBVIOUS
  <2> HIDE DEF k
  <2>6. /\ accKeys' \in Seq(UserKeys) /\ DOMAIN accKeys' = DOMAIN accKeys \cup {Len(accKeys) + 1}
        /\ Len(accKeys) + 1 \notin DOMAIN accKeys
        /\ accKeys'[Len(accKeys) + 1] = k /\ \A i \in DOMAIN accKeys : accKeys'[i] = accKeys[i]
    BY <1>1, <2>2, <2>3
  <2>7. \A i \in DOMAIN accKeys : accKeys[i].id \in Nat /\ accKeys[i].id <= keysMade.user
    <3>1. \A i \in DOMAIN accKeys : accKeys[i] \in UserKeys
      BY <1>1
    <3>2. \A i \in DOMAIN accKeys : accKeys[i].id \in Nat
      BY <3>1, UnlockAssumption DEF UserKeys
    <3> QED
      BY <3>2 DEF UnlockInv
  <2>8. \A i \in DOMAIN accKeys : accKeys[i].id # n
    BY <2>1, <2>7
  <2>9. Accounted
    <3>1. \A i \in DOMAIN accKeys' : accKeys'[i].id <= keysMade'.user
      BY <2>1, <2>4, <2>5, <2>6, <2>7
    <3> HIDE DEF n
    <3>2. KeysDiffer(accKeys')
      BY <2>5, <2>6, <2>8 DEF UnlockInv, KeysDiffer
    <3>3. FirstHasSalt(accKeys')
      BY <2>1, <2>5, <2>6 DEF UnlockInv, FirstHasSalt, AccountSalt
    <3> QED
      BY <2>6, <3>1, <3>2, <3>3
  <2>10. Addressed
    BY <1>1, <2>3 DEF UnlockInv, TokensCanBeOpened
  <2> QED
    BY <1>2, <2>4, <2>9, <2>10 DEF UnlockInv, UnlockTyped
<1>4. CASE DropUserKey
  <2>1. PICK i \in DOMAIN accKeys : accKeys' = RemoveAt(accKeys, i)
    BY <1>4 DEF DropUserKey
  <2>2. UNCHANGED <<addrKeys, keysMade>>
    BY <1>4 DEF DropUserKey
  <2>3. /\ accKeys' \in Seq(UserKeys) /\ KeysDiffer(accKeys') /\ FirstHasSalt(accKeys')
        /\ \A j \in DOMAIN accKeys' : \E k \in DOMAIN accKeys : accKeys'[j] = accKeys[k]
    BY <1>1, <2>1, KeyRemoved DEF UnlockInv
  <2>4. Accounted
    BY <2>2, <2>3 DEF UnlockInv
  <2> QED
    BY <1>1, <1>2, <2>2, <2>3, <2>4 DEF UnlockInv, UnlockTyped, TokensCanBeOpened
<1>5. ASSUME NEW a \in KeyAddresses, MakeAddressKey(a)
      PROVE  UnlockInv'
  <2> DEFINE n == keysMade.addr + 1
  <2>1. PICK k \in TokenKey : addrKeys' = [addrKeys EXCEPT ![a] = Append(@, [id |-> n, by |-> k.id])]
    BY <1>5 DEF MakeAddressKey
  <2>2. /\ n \in 1 .. MaxAddressKeys /\ accKeys # <<>> /\ UNCHANGED accKeys
        /\ keysMade' = [keysMade EXCEPT !.addr = n]
    BY <1>1, <1>5, UnlockAssumption DEF MakeAddressKey
  <2>3. k.id = 1
    <3>1. 1 \in DOMAIN accKeys
      BY <1>1, <2>2
    <3> QED
      BY <2>1, <3>1 DEF TokenKey, UnlockInv, FirstHasSalt
  <2> DEFINE key == [id |-> n, by |-> 1]
  <2>4. key \in AddressKeys /\ key.by = 1
    BY <2>2, UnlockAssumption DEF AddressKeys
  <2>5. addrKeys' = [addrKeys EXCEPT ![a] = Append(addrKeys[a], key)]
    BY <2>1, <2>3
  <2>6. Counted /\ keysMade'.user = keysMade.user
    BY <1>1, <2>2
  <2> HIDE DEF key
  <2>7. /\ Append(addrKeys[a], key) \in Seq(AddressKeys)
        /\ \A i \in DOMAIN Append(addrKeys[a], key) :
              \/ i \in DOMAIN addrKeys[a] /\ Append(addrKeys[a], key)[i] = addrKeys[a][i]
              \/ Append(addrKeys[a], key)[i] = key
    <3>1. addrKeys[a] \in Seq(AddressKeys)
      BY <1>1
    <3> QED
      BY <2>4, <3>1
  <2>8. addrKeys' \in [KeyAddresses -> Seq(AddressKeys)]
    BY <1>1, <2>5, <2>7
  <2>9. TokensCanBeOpened'
    <3>1. ASSUME NEW b \in KeyAddresses, NEW i \in DOMAIN addrKeys'[b]
          PROVE  addrKeys'[b][i].by = 1
      <4>1. CASE b = a
        <5>1. addrKeys'[b] = Append(addrKeys[a], key)
          BY <1>1, <2>5, <4>1
        <5> QED
          BY <2>4, <2>7, <3>1, <5>1 DEF UnlockInv, TokensCanBeOpened
      <4>2. CASE b # a
        BY <1>1, <2>5, <3>1, <4>2 DEF UnlockInv, TokensCanBeOpened
      <4> QED
        BY <4>1, <4>2
    <3> QED
      BY <3>1 DEF TokensCanBeOpened
  <2> QED
    BY <1>1, <1>2, <2>2, <2>6, <2>8, <2>9 DEF UnlockInv, UnlockTyped
<1>6. ASSUME NEW a \in KeyAddresses, DropAddressKey(a)
      PROVE  UnlockInv'
  <2>1. PICK i \in DOMAIN addrKeys[a] : addrKeys' = [addrKeys EXCEPT ![a] = RemoveAt(addrKeys[a], i)]
    BY <1>6 DEF DropAddressKey
  <2>2. UNCHANGED <<accKeys, keysMade>>
    BY <1>6 DEF DropAddressKey
  <2> DEFINE left == RemoveAt(addrKeys[a], i)
  <2>3. addrKeys[a] \in Seq(AddressKeys)
    BY <1>1
  <2>4. /\ left \in Seq(AddressKeys)
        /\ \A j \in DOMAIN left :
              /\ j < i => j \in DOMAIN addrKeys[a] /\ left[j] = addrKeys[a][j]
              /\ i <= j => j + 1 \in DOMAIN addrKeys[a] /\ left[j] = addrKeys[a][j + 1]
    BY <2>3, RemoveAtIs
  <2>5. addrKeys' = [addrKeys EXCEPT ![a] = left]
    BY <2>1
  <2> HIDE DEF left
  <2>6. \A j \in DOMAIN left : left[j].by = 1
    <3>1. i \in Nat /\ DOMAIN left \subseteq Nat
      BY <2>3, <2>4
    <3>2. \A j \in DOMAIN left : \E k \in DOMAIN addrKeys[a] : left[j] = addrKeys[a][k]
      BY <2>4, <3>1
    <3> QED
      BY <3>2 DEF UnlockInv, TokensCanBeOpened
  <2>7. addrKeys' \in [KeyAddresses -> Seq(AddressKeys)] /\ TokensCanBeOpened'
    BY <1>1, <2>4, <2>5, <2>6 DEF UnlockInv, TokensCanBeOpened
  <2> QED
    BY <1>1, <1>2, <2>2, <2>7 DEF UnlockInv, UnlockTyped
<1> QED
  BY <1>3, <1>4, <1>5, <1>6

\* One more of the three answers.
LEMMA ReadKeepsKeys ==
    ASSUME UnlockInv, ReadUser \/ ReadSalts \/ ReadAddresses
    PROVE  UnlockInv'
<1>1. reader \in Readers /\ reader.result = "none" /\ UNCHANGED <<accKeys, addrKeys, keysMade>>
  BY DEF UnlockInv, UnlockTyped, Reads, ReadUser, ReadSalts, ReadAddresses
<1>2. /\ reader' \in Readers /\ reader'.result = "none"
      /\ reader'.user \in {reader.user, accKeys} /\ reader'.addrs \in {reader.addrs, addrKeys}
  <2>1. reader.seen \in SUBSET {"user", "salts", "addrs"}
    BY <1>1 DEF Readers
  <2>2. CASE ReadUser
    <3> DEFINE w == reader.seen \cup {"user"}
               r == [user |-> accKeys, salts |-> reader.salts, addrs |-> reader.addrs, seen |-> w,
                     result |-> reader.result, userKR |-> reader.userKR, addrKRs |-> reader.addrKRs]
    <3>1. reader' = [reader EXCEPT !.user = accKeys, !.seen = w]
      BY <2>2 DEF ReadUser
    <3>2. w \in SUBSET {"user", "salts", "addrs"}
      BY <2>1
    <3> HIDE DEF w
    <3>3. [reader EXCEPT !.user = accKeys, !.seen = w] = r
      BY <1>1, UserEdit
    <3>4. r \in Readers
      BY <1>1, <3>2 DEF Readers, UnlockInv, UnlockTyped
    <3>5. r.result = "none" /\ r.user = accKeys /\ r.addrs = reader.addrs
      BY <1>1
    <3> QED
      BY <3>1, <3>3, <3>4, <3>5
  <2>3. CASE ReadSalts
    <3> DEFINE v == IDs(accKeys)
               w == reader.seen \cup {"salts"}
               r == [user |-> reader.user, salts |-> v, addrs |-> reader.addrs, seen |-> w,
                     result |-> reader.result, userKR |-> reader.userKR, addrKRs |-> reader.addrKRs]
    <3>1. reader' = [reader EXCEPT !.salts = v, !.seen = w]
      BY <2>3 DEF ReadSalts
    <3>2. w \in SUBSET {"user", "salts", "addrs"}
      BY <2>1
    <3>3. v \in SUBSET (1 .. MaxUserKeys)
      <4>1. \A i \in DOMAIN accKeys : accKeys[i] \in UserKeys
        BY DEF UnlockInv, UnlockTyped
      <4> QED
        BY <4>1 DEF IDs, UserKeys
    <3> HIDE DEF v, w
    <3>4. [reader EXCEPT !.salts = v, !.seen = w] = r
      BY <1>1, SaltsEdit
    <3>5. r \in Readers
      BY <1>1, <3>2, <3>3 DEF Readers
    <3>6. r.result = "none" /\ r.user = reader.user /\ r.addrs = reader.addrs
      BY <1>1
    <3> QED
      BY <3>1, <3>4, <3>5, <3>6
  <2>4. CASE ReadAddresses
    <3> DEFINE w == reader.seen \cup {"addrs"}
               r == [user |-> reader.user, salts |-> reader.salts, addrs |-> addrKeys, seen |-> w,
                     result |-> reader.result, userKR |-> reader.userKR, addrKRs |-> reader.addrKRs]
    <3>1. reader' = [reader EXCEPT !.addrs = addrKeys, !.seen = w]
      BY <2>4 DEF ReadAddresses
    <3>2. w \in SUBSET {"user", "salts", "addrs"}
      BY <2>1
    <3> HIDE DEF w
    <3>3. [reader EXCEPT !.addrs = addrKeys, !.seen = w] = r
      BY <1>1, AddrsEdit
    <3>4. r \in Readers
      BY <1>1, <3>2 DEF Readers, UnlockInv, UnlockTyped
    <3>5. r.result = "none" /\ r.user = reader.user /\ r.addrs = addrKeys
      BY <1>1
    <3> QED
      BY <3>1, <3>3, <3>4, <3>5
  <2> QED
    BY <2>2, <2>3, <2>4
<1>3. ReadIsTrue'
  <2>1. FirstHasSalt(reader'.user)
    BY <1>2 DEF UnlockInv, ReadIsTrue
  <2>2. \A a \in KeyAddresses : \A i \in DOMAIN reader'.addrs[a] : reader'.addrs[a][i].by = 1
    BY <1>2 DEF UnlockInv, ReadIsTrue, TokensCanBeOpened
  <2> QED
    BY <2>1, <2>2 DEF ReadIsTrue
<1> QED
  BY <1>1, <1>2, <1>3 DEF UnlockInv, UnlockTyped, TokensCanBeOpened, OpensSome, UnlocksAll, LockedOutForAReason

LEMMA ReadAgainKeepsKeys ==
    ASSUME UnlockInv, ReadAgain
    PROVE  UnlockInv'
<1>1. Unread \in Readers /\ Unread.result = "none" /\ Unread.user = <<>>
      /\ \A a \in KeyAddresses : Unread.addrs[a] = <<>>
  BY DEF Unread, Readers
<1>2. reader' = Unread /\ UNCHANGED <<accKeys, addrKeys, keysMade>>
  BY DEF ReadAgain
<1>3. ReadIsTrue'
  BY <1>1, <1>2 DEF ReadIsTrue, FirstHasSalt
<1> QED
  BY <1>1, <1>2, <1>3 DEF UnlockInv, UnlockTyped, TokensCanBeOpened, OpensSome, UnlocksAll, LockedOutForAReason

\* With the key the account was made with, and only then, all keys open.
LEMMA RingIsAll ==
    ASSUME UnlockInv
    PROVE  /\ UserKeyRing \subseteq {1} /\ (1 \in IDs(reader.user) => UserKeyRing = {1})
           /\ \A a \in KeyAddresses :
                 AddressKeyRing(a) = IF UserKeyRing = {} THEN {} ELSE IDs(reader.addrs[a])
<1>1. reader.user \in Seq(UserKeys) /\ FirstHasSalt(reader.user)
  BY DEF UnlockInv, UnlockTyped, Readers, ReadIsTrue
<1>2. UserKeyRing \subseteq {1}
  BY <1>1 DEF UserKeyRing, FirstHasSalt
<1>3. ASSUME 1 \in IDs(reader.user)
      PROVE  1 \in UserKeyRing
  <2>1. PICK i \in DOMAIN reader.user : reader.user[i].id = 1
    BY <1>3 DEF IDs
  <2>2. reader.user[i].salt = AccountSalt
    BY <1>1, <2>1 DEF FirstHasSalt
  <2> QED
    BY <2>1, <2>2 DEF UserKeyRing
<1>4. ASSUME NEW a \in KeyAddresses
      PROVE  AddressKeyRing(a) = IF UserKeyRing = {} THEN {} ELSE IDs(reader.addrs[a])
  <2>1. \A i \in DOMAIN reader.addrs[a] : reader.addrs[a][i].by = 1
    BY DEF UnlockInv, ReadIsTrue
  <2>2. CASE UserKeyRing = {}
    BY <2>2 DEF AddressKeyRing
  <2>3. CASE UserKeyRing = {1}
    BY <2>1, <2>3 DEF AddressKeyRing, IDs
  <2> QED
    BY <1>2, <2>2, <2>3
<1> QED
  BY <1>2, <1>3, <1>4

LEMMA UnlockKeysKeepsKeys ==
    ASSUME UnlockInv, UnlockKeys
    PROVE  UnlockInv'
<1>1. /\ reader \in Readers /\ reader.result = "none" /\ reader.user # <<>>
      /\ UNCHANGED <<accKeys, addrKeys, keysMade>>
  BY DEF UnlockInv, UnlockTyped, UnlockKeys
<1>2. \A a \in KeyAddresses : IDs(reader.addrs[a]) \subseteq 1 .. MaxAddressKeys
  <2>1. \A a \in KeyAddresses : \A i \in DOMAIN reader.addrs[a] : reader.addrs[a][i] \in AddressKeys
    BY <1>1 DEF Readers
  <2> QED
    BY <2>1 DEF IDs, AddressKeys
<1>3. CASE HasSalt /\ Opens
  <2> DEFINE rings == [a \in KeyAddresses |-> AddressKeyRing(a)]
             ring == UserKeyRing
             r == [user |-> reader.user, salts |-> reader.salts, addrs |-> reader.addrs, seen |-> reader.seen,
                   result |-> "ok", userKR |-> ring, addrKRs |-> rings]
  <2>1. reader' = [reader EXCEPT !.result = "ok", !.userKR = ring, !.addrKRs = rings]
    BY <1>3 DEF UnlockKeys
  <2>2. \A a \in KeyAddresses : rings[a] = IDs(reader.addrs[a])
    BY <1>3, RingIsAll DEF Opens
  <2>3. \E a \in KeyAddresses : rings[a] # {}
    BY <1>3 DEF Opens
  <2>4. rings \in [KeyAddresses -> SUBSET (1 .. MaxAddressKeys)] /\ ring \in SUBSET (1 .. MaxUserKeys)
    <3>1. 1 \in 1 .. MaxUserKeys
      BY UnlockAssumption
    <3> QED
      BY <1>2, <2>2, <3>1, RingIsAll
  <2> HIDE DEF rings, ring
  <2>5. [reader EXCEPT !.result = "ok", !.userKR = ring, !.addrKRs = rings] = r
    BY <1>1, RingsEdit
  <2>6. r \in Readers
    BY <1>1, <2>4 DEF Readers
  <2>7. r.result = "ok" /\ r.user = reader.user /\ r.addrs = reader.addrs /\ r.addrKRs = rings
    OBVIOUS
  <2>8. /\ reader' \in Readers /\ reader'.result = "ok" /\ reader'.user = reader.user
        /\ reader'.addrs = reader.addrs /\ reader'.addrKRs = rings
    BY <2>1, <2>5, <2>6, <2>7
  <2>9. ReadIsTrue' /\ OpensSome' /\ UnlocksAll' /\ LockedOutForAReason'
    BY <2>2, <2>3, <2>8 DEF UnlockInv, ReadIsTrue, OpensSome, UnlocksAll, LockedOutForAReason, IDs
  <2> QED
    BY <1>1, <2>8, <2>9 DEF UnlockInv, UnlockTyped, TokensCanBeOpened
<1>4. CASE ~(HasSalt /\ Opens)
  <2> DEFINE r == [user |-> reader.user, salts |-> reader.salts, addrs |-> reader.addrs, seen |-> reader.seen,
                   result |-> "err", userKR |-> reader.userKR, addrKRs |-> reader.addrKRs]
  <2>1. reader' = [reader EXCEPT !.result = "err"]
    BY <1>4 DEF UnlockKeys
  <2>2. [reader EXCEPT !.result = "err"] = r
    BY <1>1, ErrEdit
  <2>3. r \in Readers
    BY <1>1 DEF Readers
  <2>4. /\ r.result = "err" /\ r.user = reader.user /\ r.salts = reader.salts
        /\ r.addrs = reader.addrs
    OBVIOUS
  <2>5. /\ reader' \in Readers /\ reader'.result = "err" /\ reader'.user = reader.user
        /\ reader'.salts = reader.salts /\ reader'.addrs = reader.addrs
    BY <2>1, <2>2, <2>3, <2>4
  <2>6. \/ \A a \in KeyAddresses : reader.addrs[a] = <<>>
        \/ 1 \notin IDs(reader.user)
        \/ reader.user[1].id \notin reader.salts
    <3>1. CASE ~HasSalt
      BY <3>1 DEF HasSalt
    <3>2. CASE HasSalt /\ 1 \in IDs(reader.user)
      <4>1. \A a \in KeyAddresses : AddressKeyRing(a) = {} /\ AddressKeyRing(a) = IDs(reader.addrs[a])
        BY <1>4, <3>2, RingIsAll DEF Opens
      <4>2. ASSUME NEW a \in KeyAddresses
            PROVE  reader.addrs[a] = <<>>
        <5>1. reader.addrs[a] \in Seq(AddressKeys) /\ IDs(reader.addrs[a]) = {}
          BY <1>1, <4>1 DEF Readers
        <5>2. DOMAIN reader.addrs[a] = {}
          BY <5>1 DEF IDs
        <5>3. reader.addrs[a] # <<>> => 1 \in DOMAIN reader.addrs[a]
          BY <5>1
        <5> QED
          BY <5>2, <5>3
      <4> QED
        BY <4>2
    <3> QED
      BY <3>1, <3>2
  <2>7. ReadIsTrue' /\ OpensSome' /\ UnlocksAll' /\ LockedOutForAReason'
    <3>1. ReadIsTrue' /\ OpensSome' /\ UnlocksAll'
      BY <2>5 DEF UnlockInv, ReadIsTrue, OpensSome, UnlocksAll
    <3>2. LockedOutForAReason'
      BY <2>5, <2>6 DEF LockedOutForAReason, IDs
    <3> QED
      BY <3>1, <3>2
  <2> QED
    BY <1>1, <2>5, <2>7 DEF UnlockInv, UnlockTyped, TokensCanBeOpened
<1> QED
  BY <1>3, <1>4

\* Keys with different IDs are as many as there are IDs.
LEMMA AsManyIDs ==
    ASSUME NEW keys \in Seq(UserKeys), KeysDiffer(keys)
    PROVE  Cardinality(IDs(keys)) = Len(keys)
<1> DEFINE f == [i \in 1 .. Len(keys) |-> keys[i].id]
<1>1. DOMAIN keys = 1 .. Len(keys) /\ Len(keys) \in Nat
  OBVIOUS
<1>2. f \in Bijection(1 .. Len(keys), IDs(keys))
  BY <1>1 DEF Bijection, Injection, Surjection, IsInjective, KeysDiffer, IDs
<1>3. ExistsBijection(1 .. Len(keys), IDs(keys))
  BY <1>2 DEF ExistsBijection
<1>4. IsFiniteSet(1 .. Len(keys)) /\ Cardinality(1 .. Len(keys)) = Len(keys)
  BY <1>1, FS_Interval
<1> QED
  BY <1>3, <1>4, FS_Bijection

\* Every address key can be opened with the key the account was made with, so
\* that a client unlocks all keys it has read or can be told why it unlocks
\* none, however keys come and go between its requests
\* (backend/backend.go; unlock.go, keyring.go).
THEOREM KeysStayUsable == UnlockSpec => []KeysUsable
<1>1. UnlockInit => UnlockInv
  <2> SUFFICES ASSUME UnlockInit
               PROVE  UnlockInv
    OBVIOUS
  <2> DEFINE k == [id |-> 1, salt |-> AccountSalt]
  <2>1. k \in UserKeys /\ k.id = 1 /\ k.salt = AccountSalt
    BY UnlockAssumption DEF UserKeys
  <2>2. accKeys = <<k>>
    BY DEF UnlockInit
  <2> HIDE DEF k
  <2>3. accKeys \in Seq(UserKeys) /\ DOMAIN accKeys = {1} /\ accKeys[1] = k
    BY <2>1, <2>2
  <2>4. Unread \in Readers /\ Unread.result = "none" /\ Unread.user = <<>>
        /\ \A a \in KeyAddresses : Unread.addrs[a] = <<>>
    BY DEF Unread, Readers
  <2>5. keysMade \in [user : 1 .. MaxUserKeys, addr : 0 .. MaxAddressKeys] /\ keysMade.user = 1
    BY UnlockAssumption DEF UnlockInit
  <2>6. /\ reader = Unread /\ addrKeys \in [KeyAddresses -> Seq(AddressKeys)]
        /\ \A a \in KeyAddresses : addrKeys[a] = <<>>
    BY DEF UnlockInit
  <2>7. KeysDiffer(accKeys) /\ FirstHasSalt(accKeys) /\ \A i \in DOMAIN accKeys : accKeys[i].id <= keysMade.user
    BY <2>1, <2>3, <2>5 DEF KeysDiffer, FirstHasSalt
  <2> QED
    BY <2>3, <2>4, <2>5, <2>6, <2>7
       DEF UnlockInv, UnlockTyped, TokensCanBeOpened, ReadIsTrue, FirstHasSalt, OpensSome, UnlocksAll,
           LockedOutForAReason
<1>2. UnlockInv /\ [UnlockNext]_unlockVars => UnlockInv'
  <2> SUFFICES ASSUME UnlockInv, [UnlockNext]_unlockVars
               PROVE  UnlockInv'
    OBVIOUS
  <2>1. CASE UNCHANGED unlockVars
    BY <2>1 DEF unlockVars, UnlockInv, UnlockTyped, TokensCanBeOpened, ReadIsTrue, OpensSome, UnlocksAll,
                LockedOutForAReason, IDs
  <2>2. CASE UnlockNext
    BY <2>2, ServerKeepsKeys, ReadKeepsKeys, ReadAgainKeepsKeys, UnlockKeysKeepsKeys DEF UnlockNext
  <2> QED
    BY <2>1, <2>2
<1>3. UnlockInv => KeysUsable
  <2> SUFFICES ASSUME UnlockInv
               PROVE  KeysUsable
    OBVIOUS
  <2>1. accKeys \in Seq(UserKeys) /\ reader \in Readers /\ addrKeys \in [KeyAddresses -> Seq(AddressKeys)]
    BY DEF UnlockInv, UnlockTyped
  <2>2. IDs(accKeys) \subseteq 1 .. MaxUserKeys
    <3>1. \A i \in DOMAIN accKeys : accKeys[i] \in UserKeys
      BY <2>1
    <3> QED
      BY <3>1 DEF IDs, UserKeys
  <2>3. \A a \in KeyAddresses : IDs(addrKeys[a]) \subseteq 1 .. MaxAddressKeys
    <3>1. \A a \in KeyAddresses : \A i \in DOMAIN addrKeys[a] : addrKeys[a][i] \in AddressKeys
      BY <2>1
    <3> QED
      BY <3>1 DEF IDs, AddressKeys
  <2>4. UnlockTypeOK
    BY <2>1, <2>2, <2>3, AsManyIDs DEF UnlockTypeOK, Readers, UnlockInv, OpensSome
  <2> QED
    BY <2>4 DEF UnlockInv, KeysUsable
<1> QED
  BY <1>1, <1>2, <1>3, PTL DEF UnlockSpec

------------------------------------------------------------------------------
(* Packages. *)

PackageAddresses == [email : Recipients, type : Schemes, body : BOOLEAN, atts : SUBSET Attachments]
Packages ==
    [mimeType : MIMETypes \cup {"none"}, addresses : Seq(PackageAddresses), bodyKey : BOOLEAN,
     attKeys : SUBSET Attachments]

\* What holds of a package, from the first recipient on.
ReadBy(p) ==
    \A i \in DOMAIN p.addresses : p.addresses[i].body \/ p.bodyKey \/ p.addresses[i].type = "inline"

Keeps(p) ==
    p.bodyKey \/ p.attKeys # {} => \E i \in DOMAIN p.addresses : p.addresses[i].type \in {"clear", "clearmime"}

Packeted(p) ==
    \A i \in DOMAIN p.addresses :
        p.addresses[i].type = "internal" => p.addresses[i].body /\ p.addresses[i].atts = attKeys

FitsAll(p) == ReadBy(p) /\ Keeps(p) /\ Packeted(p)

SendTyped ==
    /\ draftAtts \subseteq Attachments /\ (attKeys = NotRead \/ attKeys \subseteq draftAtts)
    /\ package \in Packages /\ packages \in Seq(Packages)
    /\ sent \in {"no", "ok", "refused"}

\* No package is begun before the keys are read, nor after the request.
InTime ==
    /\ attKeys = NotRead => package = NoPackage /\ packages = <<>> /\ copies = {}
    /\ sent # "no" => package = NoPackage
    /\ Len(packages) <= MaxPackages /\ (package # NoPackage => Len(packages) < MaxPackages)

\* A copy was made for an internal recipient with its packets.
CopiesFit == \A c \in copies : c.email \in Local /\ c.body /\ c.packets = attKeys

SendInv ==
    /\ SendTyped /\ InTime /\ CopiesFit /\ SentToAll
    /\ FitsAll(package) /\ \A p \in DOMAIN packages : FitsAll(packages[p])

\* The packages and their recipients, entry by entry.
LEMMA SendParts ==
    ASSUME SendTyped
    PROVE  /\ package.addresses \in Seq(PackageAddresses)
           /\ \A p \in DOMAIN packages :
                 packages[p] \in Packages /\ packages[p].addresses \in Seq(PackageAddresses)
<1>1. package \in Packages /\ packages \in Seq(Packages)
  BY DEF SendTyped
<1>2. \A p \in DOMAIN packages : packages[p] \in Packages
  BY <1>1
<1>3. \A q \in Packages : q.addresses \in Seq(PackageAddresses)
  BY DEF Packages
<1> QED
  BY <1>1, <1>2, <1>3

\* The recipient that AddRecipient adds.
LEMMA RecipientIs ==
    ASSUME SendTyped, attKeys # NotRead, NEW addr \in Recipients, NEW prefs \in SendPreferences
    PROVE  LET new == MessageRecipient(addr, prefs)
           IN  /\ new \in PackageAddresses
               /\ new.type = prefs.scheme /\ new.body = WantsPackets(prefs) /\ new.atts = Packets(prefs).atts
<1>1. /\ Packets(prefs).body = WantsPackets(prefs)
      /\ Packets(prefs).atts \in {attKeys, {}}
  BY DEF Packets
<1>2. /\ Packets(prefs).atts \in SUBSET Attachments /\ prefs.scheme \in Schemes
      /\ WantsPackets(prefs) \in BOOLEAN
  BY <1>1 DEF SendTyped, SendPreferences, WantsPackets
<1> DEFINE body == Packets(prefs).body
           packets == Packets(prefs).atts
<1>3. MessageRecipient(addr, prefs) = [email |-> addr, type |-> prefs.scheme, body |-> body, atts |-> packets]
  BY DEF MessageRecipient
<1>4. body \in BOOLEAN /\ body = WantsPackets(prefs) /\ packets \in SUBSET Attachments
  BY <1>1, <1>2
<1> HIDE DEF body, packets
<1>5. MessageRecipient(addr, prefs) \in PackageAddresses
  BY <1>2, <1>3, <1>4 DEF PackageAddresses
<1>6. /\ MessageRecipient(addr, prefs).type = prefs.scheme
      /\ MessageRecipient(addr, prefs).body = body /\ MessageRecipient(addr, prefs).atts = packets
  BY <1>3
<1> QED
  BY <1>4, <1>5, <1>6 DEF packets

\* What a package gets with one more recipient.
LEMMA PackageEdit ==
    ASSUME package \in Packages, NEW v, NEW w, NEW x
    PROVE  [package EXCEPT !.addresses = v, !.bodyKey = w, !.attKeys = x]
              = [mimeType |-> package.mimeType, addresses |-> v, bodyKey |-> w, attKeys |-> x]
<1>1. package = [mimeType |-> package.mimeType, addresses |-> package.addresses, bodyKey |-> package.bodyKey,
                 attKeys |-> package.attKeys]
  BY DEF Packages
<1> DEFINE one == [package EXCEPT !.addresses = v]
<1>2. one = [mimeType |-> package.mimeType, addresses |-> v, bodyKey |-> package.bodyKey,
             attKeys |-> package.attKeys]
  BY <1>1
<1> DEFINE two == [one EXCEPT !.bodyKey = w]
<1>3. [package EXCEPT !.addresses = v, !.bodyKey = w, !.attKeys = x] = [two EXCEPT !.attKeys = x]
  OBVIOUS
<1> HIDE DEF one
<1>4. two = [mimeType |-> package.mimeType, addresses |-> v, bodyKey |-> w, attKeys |-> package.attKeys]
  BY <1>2
<1> HIDE DEF two
<1>5. [two EXCEPT !.attKeys = x]
         = [mimeType |-> package.mimeType, addresses |-> v, bodyKey |-> w, attKeys |-> x]
  BY <1>4
<1> QED
  BY <1>3, <1>5

\* A package fits with every recipient that is good for it.
LEMMA WithFits ==
    ASSUME SendTyped, attKeys # NotRead, FitsAll(package),
           NEW addr \in Recipients, NEW prefs \in SendPreferences, Good(prefs)
    PROVE  With(addr, prefs) \in Packages /\ FitsAll(With(addr, prefs))
<1> DEFINE new == MessageRecipient(addr, prefs)
           list == Append(package.addresses, new)
           bodyKey == package.bodyKey \/ InClear(prefs)
           keys == IF InClear(prefs) /\ package.mimeType # "mixed" THEN attKeys ELSE package.attKeys
           p == [mimeType |-> package.mimeType, addresses |-> list, bodyKey |-> bodyKey, attKeys |-> keys]
<1>1. /\ new \in PackageAddresses
      /\ new.type = prefs.scheme /\ new.body = WantsPackets(prefs) /\ new.atts = Packets(prefs).atts
  BY RecipientIs
<1>2. package \in Packages /\ package.addresses \in Seq(PackageAddresses)
  BY SendParts DEF SendTyped
<1>3. With(addr, prefs) = p
  <2>1. With(addr, prefs) = [package EXCEPT !.addresses = list, !.bodyKey = bodyKey, !.attKeys = keys]
    BY DEF With
  <2> HIDE DEF list, bodyKey, keys
  <2> QED
    BY <1>2, <2>1, PackageEdit
<1>4. /\ WantsPackets(prefs) \/ InClear(prefs) \/ prefs.scheme = "inline"
      /\ prefs.scheme = "internal" => WantsPackets(prefs) /\ package.mimeType # "mixed"
  BY DEF Good, GoodForMIME, GoodForText, WantsPackets, InClear, SendPreferences
<1>5. prefs.scheme = "internal" => new.atts = attKeys
  <2>1. prefs.scheme = "internal" => Packets(prefs).atts = attKeys
    BY <1>4 DEF Packets
  <2> HIDE DEF new
  <2> QED
    BY <1>1, <2>1
<1>6. keys \in SUBSET Attachments /\ bodyKey \in BOOLEAN /\ package.mimeType \in MIMETypes \cup {"none"}
  BY <1>2 DEF SendTyped, Packages, InClear
<1> HIDE DEF new
<1>7. /\ list \in Seq(PackageAddresses) /\ DOMAIN list = DOMAIN package.addresses \cup {Len(package.addresses) + 1}
      /\ list[Len(package.addresses) + 1] = new
      /\ \A i \in DOMAIN package.addresses : list[i] = package.addresses[i]
  BY <1>1, <1>2
<1> HIDE DEF list
<1>8. p \in Packages
  <2> HIDE DEF bodyKey, keys
  <2> QED
    BY <1>6, <1>7 DEF Packages
<1>9. /\ (package.bodyKey => bodyKey) /\ (InClear(prefs) => bodyKey)
      /\ bodyKey \/ keys # {} => package.bodyKey \/ package.attKeys # {} \/ InClear(prefs)
  OBVIOUS
<1> HIDE DEF bodyKey, keys
<1>10. p.addresses = list /\ p.bodyKey = bodyKey /\ p.attKeys = keys
  OBVIOUS
<1> HIDE DEF p
<1>11. ReadBy(p)
  BY <1>1, <1>4, <1>7, <1>9, <1>10 DEF FitsAll, ReadBy
<1>12. Keeps(p)
  <2>1. CASE InClear(prefs)
    <3>1. list[Len(package.addresses) + 1].type \in {"clear", "clearmime"}
      BY <1>1, <1>7, <2>1 DEF InClear
    <3> QED
      BY <1>7, <1>10, <3>1 DEF Keeps
  <2>2. CASE ~InClear(prefs)
    BY <1>7, <1>9, <1>10, <2>2 DEF FitsAll, Keeps
  <2> QED
    BY <2>1, <2>2
<1>13. Packeted(p)
  BY <1>1, <1>4, <1>5, <1>7, <1>10 DEF FitsAll, Packeted
<1> QED
  BY <1>3, <1>8, <1>11, <1>12, <1>13 DEF FitsAll

\* AddAttachment, ReadKeys, NewPackage: the sender has not begun, or begins.
LEMMA BeginningFits ==
    ASSUME SendInv, AddAttachment \/ ReadKeys \/ NewPackage
    PROVE  SendInv'
<1>1. CASE AddAttachment
  <2>1. draftAtts' \subseteq Attachments /\ draftAtts \subseteq draftAtts'
    BY <1>1 DEF AddAttachment, SendInv, SendTyped
  <2>2. SendTyped'
    BY <1>1, <2>1 DEF AddAttachment, SendInv, SendTyped
  <2>3. InTime' /\ CopiesFit' /\ SentToAll'
    BY <1>1 DEF AddAttachment, SendInv, InTime, CopiesFit, SentToAll, Finished
  <2> QED
    BY <1>1, <2>2, <2>3 DEF AddAttachment, SendInv, FitsAll, ReadBy, Keeps, Packeted
<1>2. CASE ReadKeys
  <2>1. package = NoPackage /\ packages = <<>> /\ copies = {}
    BY <1>2 DEF ReadKeys, SendInv, InTime
  <2>2. SendTyped' /\ InTime' /\ CopiesFit' /\ SentToAll'
    BY <1>2, <2>1 DEF ReadKeys, SendInv, SendTyped, InTime, CopiesFit, SentToAll, Finished
  <2>3. DOMAIN package.addresses = {} /\ DOMAIN packages = {}
    BY <2>1 DEF NoPackage
  <2> QED
    BY <1>2, <2>2, <2>3 DEF ReadKeys, SendInv, FitsAll, ReadBy, Keeps, Packeted
<1>3. CASE NewPackage
  <2>1. PICK type \in MIMETypes : package' = [NoPackage EXCEPT !.mimeType = type]
    BY <1>3 DEF NewPackage
  <2> DEFINE p == [mimeType |-> type, addresses |-> <<>>, bodyKey |-> FALSE, attKeys |-> {}]
  <2>2. package' = p
    BY <2>1 DEF NoPackage
  <2>3. p \in Packages
    BY DEF Packages
  <2>4. DOMAIN p.addresses = {} /\ p.bodyKey = FALSE /\ p.attKeys = {}
    OBVIOUS
  <2>5. FitsAll(p)
    BY <2>4 DEF FitsAll, ReadBy, Keeps, Packeted
  <2> HIDE DEF p
  <2>6. SendTyped' /\ InTime'
    BY <1>3, <2>2, <2>3 DEF NewPackage, SendInv, SendTyped, InTime
  <2>7. CopiesFit' /\ SentToAll'
    BY <1>3 DEF NewPackage, SendInv, CopiesFit, SentToAll, Finished
  <2> QED
    BY <1>3, <2>2, <2>5, <2>6, <2>7 DEF NewPackage, SendInv, FitsAll, ReadBy, Keeps, Packeted
<1> QED
  BY <1>1, <1>2, <1>3

\* AddRecipient and AddPackage, or the package is dropped.
LEMMA BuildingFits ==
    ASSUME SendInv, AddPackage \/ \E addr \in Recipients : AddRecipient(addr)
    PROVE  SendInv'
<1>1. package # NoPackage /\ attKeys # NotRead /\ sent = "no"
  BY DEF AddPackage, AddRecipient, SendInv, InTime, SendTyped
<1>2. NoPackage \in Packages /\ DOMAIN NoPackage.addresses = {} /\ NoPackage.bodyKey = FALSE
      /\ NoPackage.attKeys = {}
  BY DEF NoPackage, Packages
<1>3. FitsAll(NoPackage)
  BY <1>2 DEF FitsAll, ReadBy, Keeps, Packeted
<1>4. CASE AddPackage
  <2>1. /\ packages \in Seq(Packages) /\ package \in Packages /\ Len(packages) < MaxPackages
        /\ packages' = Append(packages, package) /\ package' = NoPackage
    BY <1>1, <1>4 DEF AddPackage, SendInv, SendTyped, InTime
  <2>2. /\ packages' \in Seq(Packages) /\ Len(packages') = Len(packages) + 1
        /\ DOMAIN packages' = DOMAIN packages \cup {Len(packages) + 1}
        /\ packages'[Len(packages) + 1] = package
        /\ \A p \in DOMAIN packages : packages'[p] = packages[p]
    BY <2>1
  <2>3. SendTyped' /\ InTime'
    BY <1>1, <1>2, <1>4, <2>1, <2>2, SendAssumption DEF AddPackage, SendInv, SendTyped, InTime
  <2>4. CopiesFit' /\ SentToAll'
    BY <1>1, <1>4 DEF AddPackage, SendInv, CopiesFit, SentToAll
  <2>5. \A p \in DOMAIN packages' : FitsAll(packages'[p])
    BY <2>2 DEF SendInv
  <2> QED
    BY <1>3, <1>4, <2>1, <2>3, <2>4, <2>5 DEF AddPackage, SendInv, FitsAll, ReadBy, Keeps, Packeted
<1>5. CASE \E addr \in Recipients : AddRecipient(addr)
  <2>1. /\ UNCHANGED <<draftAtts, attKeys, packages, copies, sent>>
        /\ package' = NoPackage \/ \E addr \in Recipients : \E prefs \in SendPreferences :
                                     Good(prefs) /\ package' = With(addr, prefs)
    BY <1>5 DEF AddRecipient
  <2>2. package' \in Packages /\ FitsAll(package')
    <3>1. CASE package' = NoPackage
      BY <1>2, <1>3, <3>1
    <3>2. ASSUME NEW addr \in Recipients, NEW prefs \in SendPreferences, Good(prefs), package' = With(addr, prefs)
          PROVE  package' \in Packages /\ FitsAll(package')
      BY <1>1, <3>2, WithFits DEF SendInv
    <3> QED
      BY <2>1, <3>1, <3>2
  <2>3. SendTyped' /\ InTime' /\ CopiesFit' /\ SentToAll'
    BY <1>1, <2>1, <2>2 DEF SendInv, SendTyped, InTime, CopiesFit, SentToAll, Finished
  <2> QED
    BY <2>1, <2>2, <2>3 DEF SendInv, FitsAll, ReadBy, Keeps, Packeted
<1> QED
  BY <1>4, <1>5

\* What is delivered of a package.
LEMMA CopiesAre ==
    ASSUME SendInv, NEW p \in DOMAIN packages, NEW c \in CopiesOf(p)
    PROVE  c.email \in Local /\ c.body /\ c.packets = attKeys
<1>1. PICK i \in Reachable(p) : c = Copy(p, i)
  BY DEF CopiesOf
<1>2. /\ i \in DOMAIN packages[p].addresses /\ packages[p].addresses[i].type = "internal"
      /\ packages[p].addresses[i].email \in Local
  BY DEF Reachable, ToDeliver, InternalOf
<1>3. packages[p].addresses[i].body /\ packages[p].addresses[i].atts = attKeys
  BY <1>2 DEF SendInv, FitsAll, Packeted
<1>4. /\ c.email = packages[p].addresses[i].email /\ c.body = packages[p].addresses[i].body
      /\ c.packets = packages[p].addresses[i].atts
  BY <1>1 DEF Copy
<1> QED
  BY <1>2, <1>3, <1>4

\* SendRequest.
LEMMA SendingFits ==
    ASSUME SendInv, SendRequest
    PROVE  SendInv'
<1> DEFINE stops == {p \in DOMAIN packages : Reachable(p) # ToDeliver(p)}
<1>1. /\ sent = "no" /\ package = NoPackage /\ packages # <<>>
      /\ UNCHANGED <<draftAtts, attKeys, package, packages>>
  BY DEF SendRequest
<1>2. \A c \in copies' : \E p \in DOMAIN packages : c \in CopiesOf(p)
  <2>1. DOMAIN packages = 1 .. Len(packages) /\ Len(packages) \in Nat
    BY DEF SendInv, SendTyped
  <2>2. CASE copies' = UNION {CopiesOf(p) : p \in DOMAIN packages}
    BY <2>2
  <2>3. ASSUME NEW p \in stops, NEW some \in SUBSET CopiesOf(p),
               copies' = some \cup UNION {CopiesOf(q) : q \in 1 .. p - 1}
        PROVE  \A c \in copies' : \E q \in DOMAIN packages : c \in CopiesOf(q)
    <3>1. p \in DOMAIN packages /\ 1 .. p - 1 \subseteq DOMAIN packages
      BY <2>1
    <3> QED
      BY <2>3, <3>1
  <2> QED
    BY <2>2, <2>3 DEF SendRequest
<1>3. CopiesFit'
  BY <1>1, <1>2, CopiesAre DEF CopiesFit
<1>4. sent' \in {"ok", "refused"}
  BY DEF SendRequest
<1>5. SentToAll'
  <2> SUFFICES ASSUME sent' = "ok", NEW p \in DOMAIN packages, NEW i \in DOMAIN packages[p].addresses,
                      packages[p].addresses[i].type = "internal"
               PROVE  \E c \in copies' : c.email = packages[p].addresses[i].email
    BY <1>1 DEF SentToAll, Finished
  <2>1. stops = {} /\ copies' = UNION {CopiesOf(q) : q \in DOMAIN packages}
    BY DEF SendRequest
  <2>2. i \in Reachable(p)
    BY <2>1 DEF ToDeliver, InternalOf
  <2>3. Copy(p, i) \in copies'
    BY <2>1, <2>2 DEF CopiesOf
  <2>4. Copy(p, i).email = packages[p].addresses[i].email
    BY DEF Copy
  <2> QED
    BY <2>3, <2>4
<1>6. SendTyped'
  BY <1>1, <1>4 DEF SendInv, SendTyped
<1>7. InTime'
  BY <1>1, <1>4 DEF SendInv, InTime
<1> QED
  BY <1>1, <1>3, <1>5, <1>6, <1>7 DEF SendInv, FitsAll, ReadBy, Keeps, Packeted

\* Whoever a package is for can read the body by a packet of its own or the key
\* in the package, keys are in a package only for recipients in the clear, an
\* internal recipient has packets for all attachments the sender knew, and an
\* accepted request reaches every internal recipient, for any recipients,
\* preferences and order (message_send_types.go; backend/api.go, SendMessage).
THEOREM PackagesAlwaysFit == SendSpec => []PackagesFit
<1>1. SendInit => SendInv
  <2> SUFFICES ASSUME SendInit
               PROVE  SendInv
    OBVIOUS
  <2>1. /\ NoPackage \in Packages /\ DOMAIN NoPackage.addresses = {} /\ NoPackage.bodyKey = FALSE
        /\ NoPackage.attKeys = {}
    BY DEF NoPackage, Packages
  <2>2. FitsAll(package)
    BY <2>1 DEF SendInit, FitsAll, ReadBy, Keeps, Packeted
  <2>3. packages \in Seq(Packages) /\ Len(packages) = 0 /\ DOMAIN packages = {}
    BY DEF SendInit
  <2>4. SendTyped /\ InTime
    BY <2>1, <2>3, SendAssumption DEF SendInit, SendTyped, InTime
  <2> QED
    BY <2>2, <2>3, <2>4 DEF SendInit, SendInv, CopiesFit, SentToAll
<1>2. SendInv /\ [SendNext]_sendVars => SendInv'
  <2> SUFFICES ASSUME SendInv, [SendNext]_sendVars
               PROVE  SendInv'
    OBVIOUS
  <2>1. CASE UNCHANGED sendVars
    BY <2>1 DEF sendVars, SendInv, SendTyped, InTime, CopiesFit, SentToAll, Finished, FitsAll, ReadBy, Keeps,
                Packeted
  <2>2. CASE SendNext
    BY <2>2, BeginningFits, BuildingFits, SendingFits DEF SendNext
  <2> QED
    BY <2>1, <2>2
<1>3. SendInv => PackagesFit
  <2> SUFFICES ASSUME SendInv
               PROVE  PackagesFit
    OBVIOUS
  <2>1. SendTypeOK
    BY DEF SendInv, SendTyped, InTime, CopiesFit, Packages, SendTypeOK
  <2>2. EveryoneReads /\ KeysStayPrivate
    BY DEF SendInv, FitsAll, ReadBy, Keeps, Packeted, EveryoneReads, KeysStayPrivate, Finished
  <2>3. CopiesReadable
    BY DEF SendInv, CopiesFit, CopiesReadable
  <2> QED
    BY <2>1, <2>2, <2>3 DEF SendInv, PackagesFit
<1> QED
  BY <1>1, <1>2, <1>3, PTL DEF SendSpec

------------------------------------------------------------------------------
(* The messages of several accounts. *)

MailRecords == [live : BOOLEAN, atts : SUBSET AttIDs, request : Requests \cup {Unasked}]
AttRecords == [name : AttNames, data : AttIDs, st : {"kept", "replaced", "late"}]
CallRecords ==
    [kind : {"none", "draft", "import", "upload", "send", "delete"}, msgs : Seq(Nat), names : Seq(AttNames)]
TryRecords ==
    [at : {"new", "asked", "atts", "ok", "err", "panicked"}, msg : 0 .. MaxMail, step : Nat \ {0}]

MailTyped ==
    /\ mail \in Seq(MailRecords) /\ Len(mail) <= MaxMail
    /\ mailbox \in [Accounts -> SUBSET Nat] /\ users \subseteq Accounts
    /\ attCount \in 0 .. MaxAtts /\ DOMAIN atts \subseteq 1 .. attCount
    /\ atts \in [DOMAIN atts -> AttRecords]

CallsTyped == asked \in [Requests -> CallRecords] /\ doing \in [Tries -> TryRecords]

\* A live message is in one mailbox at most, a dead one in none.
BoxesApart ==
    /\ \A u \in Accounts : mailbox[u] \subseteq LiveMail
    /\ \A u, v \in Accounts : u # v => mailbox[u] \cap mailbox[v] = {}

\* With deduplication no two messages are of one import.
MadeOnce ==
    Deduplicate =>
        \A m, k \in LiveMail : mail[m].request = mail[k].request /\ mail[m].request \in Requests => m = k

MailFine ==
    MailTyped /\ BoxesApart /\ MadeOnce /\ DataIsShared /\ AttachmentsOfOne /\ OrphansHaveACause

\* A call names messages that were made, and are in no other mailbox.
AsksForOwn(r) ==
    /\ \A i \in DOMAIN asked[r].msgs :
          /\ asked[r].msgs[i] \in DOMAIN mail
          /\ \A v \in Accounts : v # Owner[r] => asked[r].msgs[i] \notin mailbox[v]
    /\ asked[r].kind = "upload" => Len(asked[r].names) = 1

HasName(m, name) == \E a \in mail[m].atts : atts[a].name = name

\* How far a request has come: an import has attached what is before its
\* step, a deletion has deleted it.
GoesOn(t) ==
    /\ asked[t[1]] = NotAsked => doing[t].at = "new"
    /\ doing[t].at \in {"new", "asked"} => doing[t].msg = 0
    /\ doing[t].at = "new" \/ (doing[t].at = "asked" /\ asked[t[1]].kind # "delete") => doing[t].step = 1
    /\ doing[t].at = "atts" => asked[t[1]].kind = "import"
    /\ doing[t].msg <= Len(mail)
    /\ doing[t].at \in {"atts", "ok"} /\ doing[t].msg \in LiveMail =>
          /\ \A i \in DOMAIN asked[t[1]].names : i < doing[t].step => HasName(doing[t].msg, asked[t[1]].names[i])
          /\ doing[t].at = "ok" => doing[t].step > Len(asked[t[1]].names)
    /\ asked[t[1]].kind = "delete" =>
          /\ doing[t].at \in {"asked", "ok"} =>
                \A i \in DOMAIN asked[t[1]].msgs : i < doing[t].step => asked[t[1]].msgs[i] \notin LiveMail
          /\ doing[t].at = "ok" => doing[t].step > Len(asked[t[1]].msgs)
          /\ doing[t].at = "err" =>
                Caller(t) \notin users \/ \E i \in DOMAIN asked[t[1]].msgs : asked[t[1]].msgs[i] \notin LiveMail

CallsFine == CallsTyped /\ (\A r \in Requests : AsksForOwn(r)) /\ \A t \in Tries : GoesOn(t)

StoreInv == MailFine /\ CallsFine

\* What a change of the messages may do to the calls under way.
Evolves ==
    /\ DOMAIN mail \subseteq DOMAIN mail' /\ Len(mail) <= Len(mail') /\ Len(mail') \in Nat /\ users' \subseteq users
    /\ \A m \in LiveMail' : m <= Len(mail) =>
          m \in LiveMail /\ \A name \in AttNames : HasName(m, name) => HasName(m, name)'
    /\ \A m \in DOMAIN mail : \A u \in Accounts : m \in mailbox'[u] => m \in mailbox[u]

\* A request that does nothing goes on all the same.
LEMMA OthersGoOn ==
    ASSUME StoreInv, Evolves, asked' = asked, NEW t \in Tries, doing'[t] = doing[t]
    PROVE  GoesOn(t)'
<1>1. t[1] \in Requests
  BY DEF Tries
<1>2. /\ GoesOn(t) /\ doing[t] \in TryRecords /\ asked[t[1]] \in CallRecords /\ AsksForOwn(t[1])
  BY <1>1 DEF StoreInv, CallsFine, CallsTyped
<1>3. mail \in Seq(MailRecords)
  BY DEF StoreInv, MailFine, MailTyped
<1>4. doing[t].msg \in Nat /\ doing[t].step \in Nat /\ doing[t].msg <= Len(mail) /\ Len(mail) \in Nat
  BY <1>2, <1>3 DEF GoesOn, TryRecords
<1>5. doing[t].msg <= Len(mail')
  BY <1>4 DEF Evolves
<1>6. ASSUME doing[t].at \in {"atts", "ok"}, doing[t].msg \in LiveMail'
      PROVE  /\ \A i \in DOMAIN asked[t[1]].names :
                    i < doing[t].step => HasName(doing[t].msg, asked[t[1]].names[i])'
             /\ doing[t].at = "ok" => doing[t].step > Len(asked[t[1]].names)
  <2>1. doing[t].msg \in LiveMail
        /\ \A name \in AttNames : HasName(doing[t].msg, name) => HasName(doing[t].msg, name)'
    BY <1>4, <1>6 DEF Evolves
  <2>2. \A i \in DOMAIN asked[t[1]].names : asked[t[1]].names[i] \in AttNames
    BY <1>2 DEF CallRecords
  <2> QED
    BY <1>2, <1>6, <2>1, <2>2 DEF GoesOn
<1>7. \A i \in DOMAIN asked[t[1]].msgs : asked[t[1]].msgs[i] \notin LiveMail => asked[t[1]].msgs[i] \notin LiveMail'
  <2>1. \A i \in DOMAIN asked[t[1]].msgs : asked[t[1]].msgs[i] \in Nat /\ asked[t[1]].msgs[i] <= Len(mail)
    BY <1>2, <1>3 DEF AsksForOwn
  <2> QED
    BY <2>1 DEF Evolves
<1>8. Caller(t)' = Caller(t) /\ users' \subseteq users
  BY DEF Caller, Evolves
<1> QED
  BY <1>2, <1>5, <1>6, <1>7, <1>8 DEF GoesOn

\* The calls are as fine when one request of one call goes on.
LEMMA CallsKeep ==
    ASSUME StoreInv, Evolves, asked' = asked, CallsTyped',
           NEW t \in Tries, GoesOn(t)', \A s \in Tries : s # t => doing'[s] = doing[s]
    PROVE  CallsFine'
<1>1. \A s \in Tries : GoesOn(s)'
  BY OthersGoOn
<1>2. ASSUME NEW r \in Requests
      PROVE  AsksForOwn(r)'
  <2>1. AsksForOwn(r)
    BY DEF StoreInv, CallsFine
  <2> QED
    BY <2>1 DEF AsksForOwn, Evolves
<1> QED
  BY <1>1, <1>2 DEF CallsFine

\* What a request does to its own record.
LEMMA PlaceEdit ==
    ASSUME CallsTyped, NEW t \in Tries, NEW v
    PROVE  [doing EXCEPT ![t].at = v]
              = [doing EXCEPT ![t] = [at |-> v, msg |-> doing[t].msg, step |-> doing[t].step]]
<1>1. doing[t] = [at |-> doing[t].at, msg |-> doing[t].msg, step |-> doing[t].step]
  BY DEF CallsTyped, TryRecords
<1>2. [doing[t] EXCEPT !.at = v] = [at |-> v, msg |-> doing[t].msg, step |-> doing[t].step]
  BY <1>1
<1> QED
  BY <1>2

LEMMA StepEdit ==
    ASSUME CallsTyped, NEW t \in Tries, NEW w
    PROVE  [doing EXCEPT ![t].step = w]
              = [doing EXCEPT ![t] = [at |-> doing[t].at, msg |-> doing[t].msg, step |-> w]]
<1>1. doing[t] = [at |-> doing[t].at, msg |-> doing[t].msg, step |-> doing[t].step]
  BY DEF CallsTyped, TryRecords
<1>2. [doing[t] EXCEPT !.step = w] = [at |-> doing[t].at, msg |-> doing[t].msg, step |-> w]
  BY <1>1
<1> QED
  BY <1>2

LEMMA MessageEdit ==
    ASSUME CallsTyped, NEW t \in Tries, NEW v, NEW w
    PROVE  [doing EXCEPT ![t].at = v, ![t].msg = w]
              = [doing EXCEPT ![t] = [at |-> v, msg |-> w, step |-> doing[t].step]]
<1> DEFINE one == [doing EXCEPT ![t].at = v]
           d == [at |-> v, msg |-> doing[t].msg, step |-> doing[t].step]
<1>1. [doing EXCEPT ![t].at = v, ![t].msg = w] = [one EXCEPT ![t].msg = w]
  OBVIOUS
<1>2. one = [doing EXCEPT ![t] = d] /\ doing \in [Tries -> TryRecords]
  BY PlaceEdit DEF CallsTyped
<1> HIDE DEF one
<1>3. one[t] = d /\ [d EXCEPT !.msg = w] = [at |-> v, msg |-> w, step |-> doing[t].step]
  BY <1>2
<1> HIDE DEF d
<1>4. [one EXCEPT ![t].msg = w] = [one EXCEPT ![t] = [at |-> v, msg |-> w, step |-> doing[t].step]]
  BY <1>3
<1>5. [one EXCEPT ![t] = [at |-> v, msg |-> w, step |-> doing[t].step]]
         = [doing EXCEPT ![t] = [at |-> v, msg |-> w, step |-> doing[t].step]]
  BY <1>2
<1> QED
  BY <1>1, <1>4, <1>5

LEMMA AttachedEdit ==
    ASSUME CallsTyped, NEW t \in Tries, NEW live \in BOOLEAN
    PROVE  [doing EXCEPT ![t].step = @ + 1, ![t].at = IF live THEN @ ELSE "panicked"]
              = [doing EXCEPT ![t] = [at |-> IF live THEN doing[t].at ELSE "panicked", msg |-> doing[t].msg,
                                      step |-> doing[t].step + 1]]
<1> DEFINE one == [doing EXCEPT ![t].step = @ + 1]
           d == [at |-> doing[t].at, msg |-> doing[t].msg, step |-> doing[t].step + 1]
           v == IF live THEN doing[t].at ELSE "panicked"
           e == [at |-> v, msg |-> doing[t].msg, step |-> doing[t].step + 1]
<1>1. [doing EXCEPT ![t].step = @ + 1, ![t].at = IF live THEN @ ELSE "panicked"]
         = [one EXCEPT ![t].at = IF live THEN @ ELSE "panicked"]
  OBVIOUS
<1>2. one = [doing EXCEPT ![t] = d] /\ doing \in [Tries -> TryRecords]
  <2>1. one = [doing EXCEPT ![t].step = doing[t].step + 1]
    BY DEF CallsTyped
  <2> HIDE DEF one
  <2> QED
    BY <2>1, StepEdit DEF CallsTyped
<1> HIDE DEF one
<1>3. one[t] = d /\ one[t].at = doing[t].at
  BY <1>2
<1>4. [d EXCEPT !.at = v] = e
  <2> HIDE DEF v
  <2> QED
    OBVIOUS
<1> HIDE DEF d, e
<1>5. [one EXCEPT ![t].at = IF live THEN @ ELSE "panicked"] = [one EXCEPT ![t].at = v]
  BY <1>2, <1>3
<1> HIDE DEF v
<1>6. [one EXCEPT ![t].at = v] = [one EXCEPT ![t] = e]
  BY <1>3, <1>4
<1>7. [one EXCEPT ![t] = e] = [doing EXCEPT ![t] = e]
  BY <1>2
<1> QED
  BY <1>1, <1>5, <1>6, <1>7 DEF e, v

\* To: only the place changes.
LEMMA ToIs ==
    ASSUME CallsTyped, NEW t \in Tries, NEW place \in {"new", "asked", "atts", "ok", "err", "panicked"},
           To(t, place)
    PROVE  /\ doing' \in [Tries -> TryRecords]
           /\ doing'[t].at = place /\ doing'[t].msg = doing[t].msg /\ doing'[t].step = doing[t].step
           /\ \A s \in Tries : s # t => doing'[s] = doing[s]
<1>1. doing \in [Tries -> TryRecords] /\ doing[t] \in TryRecords
  BY DEF CallsTyped
<1> DEFINE d == [at |-> place, msg |-> doing[t].msg, step |-> doing[t].step]
<1>2. d \in TryRecords
  BY <1>1 DEF TryRecords
<1>3. doing' = [doing EXCEPT ![t] = d]
  BY PlaceEdit DEF To
<1>4. d.at = place /\ d.msg = doing[t].msg /\ d.step = doing[t].step
  OBVIOUS
<1> HIDE DEF d
<1> QED
  BY <1>1, <1>2, <1>3, <1>4

\* A message that is made is the last one.
LEMMA MailAppended ==
    ASSUME MailTyped, NEW new \in MailRecords, new.live, Len(mail) < MaxMail, mail' = Append(mail, new)
    PROVE  /\ mail' \in Seq(MailRecords) /\ Len(mail) \in Nat
           /\ Len(mail') = Len(mail) + 1 /\ Len(mail) + 1 <= MaxMail
           /\ DOMAIN mail = 1 .. Len(mail) /\ DOMAIN mail' = DOMAIN mail \cup {Len(mail) + 1}
           /\ Len(mail) + 1 \notin DOMAIN mail /\ mail'[Len(mail) + 1] = new
           /\ \A m \in DOMAIN mail : mail'[m] = mail[m]
           /\ LiveMail' = LiveMail \cup {Len(mail) + 1}
<1>1. mail \in Seq(MailRecords) /\ MaxMail \in Nat
  BY MailStoreAssumption DEF MailTyped
<1>2. /\ mail' \in Seq(MailRecords) /\ Len(mail) \in Nat
      /\ Len(mail') = Len(mail) + 1 /\ Len(mail) + 1 <= MaxMail
      /\ DOMAIN mail = 1 .. Len(mail) /\ DOMAIN mail' = DOMAIN mail \cup {Len(mail) + 1}
      /\ Len(mail) + 1 \notin DOMAIN mail /\ mail'[Len(mail) + 1] = new
      /\ \A m \in DOMAIN mail : mail'[m] = mail[m]
  BY <1>1
<1>3. LiveMail' = LiveMail \cup {Len(mail) + 1}
  BY <1>2 DEF LiveMail
<1> QED
  BY <1>2, <1>3

\* Adds: a message without attachments in the mailbox of the caller.
LEMMA AddsIsFine ==
    ASSUME StoreInv, NEW t \in Tries, NEW request \in Requests \cup {Unasked}, Adds(t, request),
           Deduplicate /\ request \in Requests => \A m \in LiveMail : mail[m].request # request,
           UNCHANGED <<users, atts, attCount, attData>>
    PROVE  MailFine' /\ Evolves /\ Len(mail') = Len(mail) + 1 /\ Len(mail) + 1 \in 0 .. MaxMail
<1> DEFINE new == NewMail(request)
           id == Len(mail) + 1
<1>1. new \in MailRecords /\ new.live /\ new.atts = {} /\ new.request = request
  BY DEF NewMail, MailRecords
<1>2. MailTyped /\ Len(mail) < MaxMail /\ mail' = Append(mail, new)
  BY DEF Adds, StoreInv, MailFine
<1> HIDE DEF new
<1>3. /\ mail' \in Seq(MailRecords) /\ Len(mail) \in Nat
      /\ Len(mail') = id /\ id <= MaxMail
      /\ DOMAIN mail = 1 .. Len(mail) /\ DOMAIN mail' = DOMAIN mail \cup {id}
      /\ id \notin DOMAIN mail /\ mail'[id] = new
      /\ \A m \in DOMAIN mail : mail'[m] = mail[m]
      /\ LiveMail' = LiveMail \cup {id}
  BY <1>1, <1>2, MailAppended
<1>4. Caller(t) \in Accounts /\ MaxMail \in Nat /\ id \in Nat /\ ~(id <= Len(mail))
  <2>1. t[1] \in Requests
    BY DEF Tries
  <2>2. Caller(t) \in Accounts /\ MaxMail \in Nat
    BY <2>1, MailStoreAssumption DEF Caller
  <2> QED
    BY <1>3, <2>2
<1> HIDE DEF id
<1>5. mailbox \in [Accounts -> SUBSET Nat] /\ mailbox' = [mailbox EXCEPT ![Caller(t)] = @ \cup {id}]
  BY DEF Adds, StoreInv, MailFine, MailTyped, id
<1>6. /\ mailbox' \in [Accounts -> SUBSET Nat]
      /\ \A u \in Accounts : mailbox'[u] = mailbox[u] \/ (u = Caller(t) /\ mailbox'[u] = mailbox[u] \cup {id})
  BY <1>4, <1>5
<1>7. LiveMail \subseteq DOMAIN mail
  BY DEF LiveMail
<1>8. MailTyped'
  BY <1>2, <1>3, <1>6 DEF MailTyped
<1>9. BoxesApart'
  <2>1. BoxesApart
    BY DEF StoreInv, MailFine
  <2> QED
    BY <1>3, <1>6, <1>7, <2>1 DEF BoxesApart
<1>10. MadeOnce'
  <2>1. MadeOnce
    BY DEF StoreInv, MailFine
  <2> QED
    BY <1>1, <1>3, <1>7, <2>1 DEF MadeOnce
<1>11. DataIsShared'
  BY DEF StoreInv, MailFine, DataIsShared
<1>12. AttachmentsOfOne'
  <2>1. AttachmentsOfOne
    BY DEF StoreInv, MailFine
  <2> QED
    BY <1>1, <1>3, <1>7, <2>1 DEF AttachmentsOfOne
<1>13. OrphansHaveACause'
  <2>1. OrphansHaveACause
    BY DEF StoreInv, MailFine
  <2> QED
    BY <1>1, <1>3, <1>7, <2>1 DEF OrphansHaveACause
<1>14. Evolves
  <2>1. Len(mail) <= Len(mail') /\ Len(mail') \in Nat /\ users' \subseteq users
    BY <1>3, <1>4 DEF id
  <2>2. ASSUME NEW m \in LiveMail', m <= Len(mail)
        PROVE  m \in LiveMail /\ \A name \in AttNames : HasName(m, name) => HasName(m, name)'
    BY <1>3, <1>4, <1>7, <2>2 DEF HasName
  <2>3. ASSUME NEW m \in DOMAIN mail, NEW u \in Accounts, m \in mailbox'[u]
        PROVE  m \in mailbox[u]
    BY <1>3, <1>6, <2>3
  <2> QED
    BY <1>3, <2>1, <2>2, <2>3 DEF Evolves
<1> QED
  BY <1>3, <1>4, <1>8, <1>9, <1>10, <1>11, <1>12, <1>13, <1>14 DEF MailFine, id

\* Induction: a set of naturals with 0 and, with n, also n + 1 has them all.
LEMMA NatSet ==
    ASSUME NEW X, X \subseteq Nat, 0 \in X, \A n \in X : n + 1 \in X
    PROVE  X = Nat
<1> DEFINE R == OpToRel(<, Nat)
           B == Nat \ X
<1>1. IsWellFoundedOn(R, Nat)
  BY NatLessThanWellFounded
<1>2. B \subseteq Nat
  OBVIOUS
<1>3. SUFFICES ASSUME B # {} PROVE FALSE
  OBVIOUS
<1>4. \A x, y \in Nat : y < x => <<y, x>> \in R
  BY DEF OpToRel
<1> HIDE DEF B, R
<1>5. PICK x \in B : \A y \in B : ~(<<y, x>> \in R)
  BY <1>1, <1>2, <1>3, WFMin
<1>6. x \in Nat /\ x # 0
  BY <1>2 DEF B
<1>7. x - 1 \in Nat /\ x - 1 < x
  BY <1>6
<1>8. x - 1 \notin B
  BY <1>4, <1>5, <1>6, <1>7
<1>9. x - 1 \in X
  BY <1>7, <1>8 DEF B
<1>10. x \in X
  BY <1>6, <1>9
<1> QED
  BY <1>10 DEF B

Upwards(s) == \A i, j \in DOMAIN s : i < j => s[i] < s[j]

\* A set of numbers can be listed in their order.
LEMMA ListedUpwards ==
    ASSUME NEW n \in Nat, NEW S, S \subseteq 1 .. n
    PROVE  \E s \in [1 .. Cardinality(S) -> S] : Upwards(s)
<1> DEFINE Listable(k) == \A T \in SUBSET (1 .. k) : \E s \in [1 .. Cardinality(T) -> T] : Upwards(s)
           X == {k \in Nat : Listable(k)}
<1>1. 0 \in X
  <2>1. 1 .. 0 = {} /\ Cardinality({}) = 0
    BY FS_EmptySet
  <2> DEFINE s == [i \in {} |-> i]
  <2>2. s \in [{} -> {}] /\ DOMAIN s = {}
    OBVIOUS
  <2> HIDE DEF s
  <2>3. Upwards(s)
    BY <2>2 DEF Upwards
  <2>4. ASSUME NEW T \in SUBSET (1 .. 0)
        PROVE  \E q \in [1 .. Cardinality(T) -> T] : Upwards(q)
    <3>1. T = {}
      BY <2>1
    <3>2. 1 .. Cardinality(T) = {}
      BY <2>1, <3>1
    <3>3. s \in [1 .. Cardinality(T) -> T]
      BY <2>2, <3>1, <3>2
    <3> QED
      BY <2>3, <3>3
  <2> QED
    BY <2>4
<1>2. ASSUME NEW k \in X
      PROVE  k + 1 \in X
  <2> SUFFICES ASSUME NEW T \in SUBSET (1 .. k + 1)
               PROVE  \E s \in [1 .. Cardinality(T) -> T] : Upwards(s)
    OBVIOUS
  <2>1. CASE k + 1 \notin T
    <3>1. T \in SUBSET (1 .. k)
      BY <2>1
    <3> QED
      BY <3>1
  <2>2. CASE k + 1 \in T
    <3> DEFINE U == T \ {k + 1}
    <3>1. U \in SUBSET (1 .. k)
      OBVIOUS
    <3>2. PICK s \in [1 .. Cardinality(U) -> U] : Upwards(s)
      BY <3>1
    <3>3. IsFiniteSet(1 .. k + 1)
      BY FS_Interval
    <3>4. IsFiniteSet(T)
      BY <3>3, FS_Subset
    <3>5. Cardinality(U) = Cardinality(T) - 1 /\ Cardinality(T) \in Nat /\ Cardinality(U) \in Nat
      <4>1. IsFiniteSet(U) /\ Cardinality(U) = Cardinality(T) - 1
        BY <2>2, <3>4, FS_RemoveElement
      <4> QED
        BY <3>4, <4>1, FS_CardinalityType
    <3> DEFINE c == Cardinality(T)
               w == [i \in 1 .. c |-> IF i = c THEN k + 1 ELSE s[i]]
    <3>6. ASSUME NEW i \in 1 .. c, i # c
          PROVE  i \in 1 .. Cardinality(U) /\ s[i] \in T /\ s[i] <= k /\ s[i] \in Nat
      <4> HIDE DEF U
      <4>1. i \in 1 .. Cardinality(U)
        BY <3>5, <3>6
      <4>2. s[i] \in U
        BY <3>2, <4>1
      <4>3. s[i] \in 1 .. k
        BY <3>1, <4>2
      <4> QED
        BY <4>1, <4>2, <4>3 DEF U
    <3>7. w \in [1 .. c -> T]
      BY <2>2, <3>6
    <3>8. DOMAIN w = 1 .. c /\ (\A i \in 1 .. c : w[i] = IF i = c THEN k + 1 ELSE s[i]) /\ c \in Nat
      BY <3>5
    <3> HIDE DEF w, c
    <3>9. Upwards(w)
      <4> SUFFICES ASSUME NEW i \in 1 .. c, NEW j \in 1 .. c, i < j
                   PROVE  w[i] < w[j]
        BY <3>8 DEF Upwards
      <4>0. i # c
        BY <3>8
      <4>1. i # c /\ w[i] = s[i] /\ i \in 1 .. Cardinality(U) /\ s[i] <= k /\ s[i] \in Nat
        BY <3>6, <3>8, <4>0
      <4>2. CASE j = c
        BY <3>8, <4>1, <4>2
      <4>3. CASE j # c
        <5>1. w[j] = s[j] /\ j \in 1 .. Cardinality(U)
          BY <3>6, <3>8, <4>3
        <5>2. DOMAIN s = 1 .. Cardinality(U)
          BY <3>2
        <5> HIDE DEF U
        <5> QED
          BY <3>2, <4>1, <5>1, <5>2 DEF Upwards
      <4> QED
        BY <4>2, <4>3
    <3> QED
      BY <3>7, <3>9 DEF c
  <2> QED
    BY <2>1, <2>2
<1>3. X = Nat
  <2> HIDE DEF Listable
  <2>1. X \subseteq Nat
    OBVIOUS
  <2> HIDE DEF X
  <2> QED
    BY <1>1, <1>2, <2>1, NatSet
<1> QED
  BY <1>3

\* CopyMail: a message with copies of the attachments, in a mailbox or, when
\* it was not finished, in none.
LEMMA CopyIsFine ==
    ASSUME StoreInv, NEW t \in Tries, NEW m \in LiveMail, NEW to \in users,
           NEW k \in 0 .. Cardinality(mail[m].atts), CopyMail(t, m, to, k), UNCHANGED <<users, attData>>
    PROVE  MailFine' /\ Evolves /\ (To(t, "ok") \/ To(t, "err"))
<1> DEFINE A == mail[m].atts
           c == Cardinality(A)
           source == CHOOSE s \in [1 .. c -> A] : Upwards(s)
           fresh == FreshAtts(m, k)
           old == NewMail(Unasked)
           new == [old EXCEPT !.atts = fresh]
           id == Len(mail) + 1
<1>1. /\ MailTyped /\ BoxesApart /\ MadeOnce /\ DataIsShared /\ AttachmentsOfOne /\ OrphansHaveACause
      /\ mail \in Seq(MailRecords) /\ attCount \in 0 .. MaxAtts /\ MaxAtts \in Nat
      /\ DOMAIN atts \subseteq 1 .. attCount /\ atts \in [DOMAIN atts -> AttRecords]
  BY MailStoreAssumption DEF StoreInv, MailFine, MailTyped
<1>2. A \subseteq 1 .. MaxAtts /\ A \subseteq DOMAIN atts
  <2>1. mail[m] \in MailRecords
    BY <1>1 DEF LiveMail
  <2> QED
    BY <1>1, <2>1 DEF MailRecords, AttachmentsOfOne, AttIDs
<1>3. source \in [1 .. c -> A] /\ Upwards(source)
  <2> HIDE DEF A
  <2>1. \E s \in [1 .. Cardinality(A) -> A] : Upwards(s)
    BY <1>1, <1>2, ListedUpwards
  <2> HIDE DEF c
  <2>2. \E s \in [1 .. c -> A] : Upwards(s)
    BY <2>1 DEF c
  <2> DEFINE lists == [1 .. c -> A]
  <2>3. source = CHOOSE s \in lists : Upwards(s)
    OBVIOUS
  <2>4. \E s \in lists : Upwards(s)
    BY <2>2
  <2> HIDE DEF lists, source
  <2>5. source \in lists /\ Upwards(source)
    BY <2>3, <2>4
  <2> QED
    BY <2>5 DEF lists
<1>4. IsFiniteSet(A) /\ c \in Nat
  <2> HIDE DEF A
  <2> HIDE DEF source, fresh, old, new, id
  <2>0. MaxAtts \in Int /\ 1 \in Int
    BY <1>1
  <2>1. IsFiniteSet(1 .. MaxAtts)
    BY ONLY <2>0, FS_Interval
  <2> QED
    BY <1>2, <2>1, FS_Subset, FS_CardinalityType
<1>5. /\ Len(mail) < MaxMail /\ attCount + k \in {0} \cup AttIDs /\ attCount' = attCount + k
      /\ atts' = [b \in DOMAIN atts \cup fresh |-> IF b > attCount THEN atts[source[b - attCount]] ELSE atts[b]]
      /\ mail' = Append(mail, new)
      /\ \/ k = Len(source) /\ mailbox' = [mailbox EXCEPT ![to] = @ \cup {id}] /\ To(t, "ok")
         \/ k < Len(source) /\ mailbox' = mailbox /\ To(t, "err")
  BY DEF CopyMail, Upwards
<1>6. fresh = (attCount + 1) .. (attCount + k)
  BY DEF FreshAtts
<1>7. old \in MailRecords /\ old.live /\ old.request = Unasked
  BY DEF NewMail, MailRecords
<1> HIDE DEF source, fresh, old
<1>8. k \in 0 .. c
  OBVIOUS
<1> HIDE DEF A, c
<1>9. fresh \subseteq AttIDs /\ attCount' \in 0 .. MaxAtts /\ fresh \subseteq 1 .. attCount' /\ attCount <= attCount'
  BY <1>1, <1>4, <1>5, <1>6, <1>8 DEF AttIDs
<1>10. new \in MailRecords /\ new.live /\ new.atts = fresh /\ new.request = Unasked
  <2>1. old = [live |-> old.live, atts |-> old.atts, request |-> old.request]
    BY <1>7 DEF MailRecords
  <2>2. new = [live |-> old.live, atts |-> fresh, request |-> old.request]
    BY <2>1
  <2> QED
    BY <1>7, <1>9, <2>2 DEF MailRecords
<1>11. mail' = Append(mail, new)
  BY <1>5
<1> HIDE DEF new
<1>12. /\ mail' \in Seq(MailRecords) /\ Len(mail) \in Nat
       /\ Len(mail') = id /\ id <= MaxMail
       /\ DOMAIN mail = 1 .. Len(mail) /\ DOMAIN mail' = DOMAIN mail \cup {id}
       /\ id \notin DOMAIN mail /\ mail'[id] = new
       /\ \A j \in DOMAIN mail : mail'[j] = mail[j]
       /\ LiveMail' = LiveMail \cup {id}
  BY <1>1, <1>5, <1>10, <1>11, MailAppended
<1>13. id \in Nat /\ ~(id <= Len(mail)) /\ Len(mail) <= id
  BY <1>12
<1> HIDE DEF id
<1>14. \A b \in DOMAIN atts : b \in DOMAIN atts' /\ atts'[b] = atts[b] /\ b \notin fresh
  <2>1. \A b \in DOMAIN atts : b \in Nat /\ b <= attCount /\ ~(b > attCount)
    BY <1>1
  <2> QED
    BY <1>1, <1>5, <1>6, <2>1
<1>15. \A b \in fresh : b \in DOMAIN atts' /\ b - attCount \in 1 .. c /\ source[b - attCount] \in A
                        /\ atts'[b] = atts[source[b - attCount]]
  <2>1. \A b \in fresh : b \in Nat /\ b > attCount /\ b - attCount \in 1 .. c
    BY <1>1, <1>4, <1>6, <1>8
  <2> QED
    BY <1>3, <1>5, <2>1
<1>16. DOMAIN atts' = DOMAIN atts \cup fresh
  BY <1>5
<1>17. \A b \in fresh : \E a \in A : a \in DOMAIN atts /\ atts'[b] = atts[a]
  BY <1>2, <1>15
<1>18. /\ mailbox' \in [Accounts -> SUBSET Nat]
       /\ \A u \in Accounts : mailbox'[u] = mailbox[u] \/ (u = to /\ mailbox'[u] = mailbox[u] \cup {id})
  <2>1. mailbox \in [Accounts -> SUBSET Nat] /\ to \in Accounts
    BY <1>1 DEF MailTyped
  <2> QED
    BY <1>5, <1>13, <2>1
<1>19. LiveMail \subseteq DOMAIN mail
  BY DEF LiveMail
<1>20. MailTyped'
  <2>1. atts' \in [DOMAIN atts' -> AttRecords]
    <3>1. \A b \in DOMAIN atts' : atts'[b] \in AttRecords
      BY <1>1, <1>14, <1>16, <1>17
    <3>2. atts' = [b \in DOMAIN atts' |-> atts'[b]]
      BY <1>5
    <3> QED
      BY <3>1, <3>2
  <2>2. DOMAIN atts' \subseteq 1 .. attCount'
    BY <1>1, <1>9, <1>16
  <2>3. users' \subseteq Accounts
    BY <1>1 DEF MailTyped
  <2> QED
    BY <1>9, <1>12, <1>18, <2>1, <2>2, <2>3 DEF MailTyped
<1>21. BoxesApart'
  <2>1. BoxesApart
    BY <1>1
  <2> QED
    BY <1>12, <1>18, <1>19, <2>1 DEF BoxesApart
<1>22. MadeOnce'
  BY <1>1, <1>10, <1>12, <1>19, MailStoreAssumption DEF MadeOnce
<1>23. DataIsShared'
  <2>1. {atts'[a].data : a \in DOMAIN atts'} = {atts[a].data : a \in DOMAIN atts}
    BY <1>14, <1>16, <1>17
  <2> QED
    BY <1>1, <2>1 DEF DataIsShared
<1>24. AttachmentsOfOne'
  <2>1. \A j \in LiveMail : mail'[j] = mail[j] /\ mail[j].atts \subseteq DOMAIN atts /\ id # j
    BY <1>1, <1>12, <1>19 DEF AttachmentsOfOne
  <2>2. \A a, b \in fresh : atts'[a].name = atts'[b].name => a = b
    <3> SUFFICES ASSUME NEW a \in fresh, NEW b \in fresh, atts'[a].name = atts'[b].name
                 PROVE  a = b
      OBVIOUS
    <3>1. source[a - attCount] \in A /\ source[b - attCount] \in A
          /\ atts[source[a - attCount]].name = atts[source[b - attCount]].name
      BY <1>15
    <3>2. source[a - attCount] = source[b - attCount]
      BY <1>1, <3>1 DEF AttachmentsOfOne, A
    <3>3. a \in Nat /\ b \in Nat /\ attCount \in Nat
      BY <1>1, <1>6
    <3>4. DOMAIN source = 1 .. c /\ a - attCount \in 1 .. c /\ b - attCount \in 1 .. c
      BY <1>3, <1>15
    <3>5. source[a - attCount] \in Nat /\ source[b - attCount] \in Nat
      <4>1. \A x \in A : x \in Nat
        BY <1>1, <1>2
      <4> QED
        BY <3>1, <4>1
    <3>6. ~(a - attCount < b - attCount) /\ ~(b - attCount < a - attCount)
      BY <1>3, <3>2, <3>4, <3>5 DEF Upwards
    <3> QED
      BY <3>3, <3>6
  <2>3. \A j \in LiveMail' : j = id \/ j \in LiveMail
    BY <1>12
  <2>4. mail'[id].atts = fresh
    BY <1>10, <1>12
  <2>5. \A j \in LiveMail' :
           /\ mail'[j].atts \subseteq DOMAIN atts'
           /\ \A a, b \in mail'[j].atts : atts'[a].name = atts'[b].name => a = b
    <3>1. ASSUME NEW j \in LiveMail
          PROVE  /\ mail'[j].atts \subseteq DOMAIN atts'
                 /\ \A a, b \in mail'[j].atts : atts'[a].name = atts'[b].name => a = b
      <4>1. mail[j].atts \subseteq DOMAIN atts
            /\ \A a, b \in mail[j].atts : atts[a].name = atts[b].name => a = b
        BY <1>1 DEF AttachmentsOfOne
      <4> QED
        BY <1>14, <2>1, <4>1
    <3>2. fresh \subseteq DOMAIN atts'
      BY <1>16
    <3> QED
      BY <2>2, <2>3, <2>4, <3>1, <3>2
  <2>6. \A j \in LiveMail' : \A l \in LiveMail' \ {j} : mail'[j].atts \cap mail'[l].atts = {}
    <3>1. \A j \in LiveMail : \A l \in LiveMail \ {j} : mail'[j].atts \cap mail'[l].atts = {}
      BY <1>1, <2>1 DEF AttachmentsOfOne
    <3>2. \A j \in LiveMail : mail'[j].atts \cap fresh = {}
      BY <1>14, <2>1
    <3> QED
      BY <2>3, <2>4, <3>1, <3>2
  <2> QED
    BY <2>5, <2>6 DEF AttachmentsOfOne
<1>25. OrphansHaveACause'
  <2> SUFFICES ASSUME NEW a \in DOMAIN atts', atts'[a].st = "kept"
               PROVE  \E j \in LiveMail' : a \in mail'[j].atts
    BY DEF OrphansHaveACause
  <2>1. CASE a \in fresh
    BY <1>10, <1>12, <2>1
  <2>2. CASE a \in DOMAIN atts
    <3>1. PICK j \in LiveMail : a \in mail[j].atts
      BY <1>1, <1>14, <2>2 DEF OrphansHaveACause
    <3> QED
      BY <1>12, <1>19, <3>1
  <2> QED
    BY <1>16, <2>1, <2>2
<1>26. Evolves
  <2>1. Len(mail) <= Len(mail') /\ Len(mail') \in Nat /\ users' \subseteq users
    BY <1>12, <1>13
  <2>2. ASSUME NEW j \in LiveMail', j <= Len(mail)
        PROVE  j \in LiveMail /\ \A name \in AttNames : HasName(j, name) => HasName(j, name)'
    <3>1. j \in LiveMail /\ mail'[j] = mail[j] /\ mail[j].atts \subseteq DOMAIN atts
      BY <1>1, <1>12, <1>13, <1>19, <2>2 DEF AttachmentsOfOne
    <3> QED
      BY <1>14, <3>1 DEF HasName
  <2>3. ASSUME NEW j \in DOMAIN mail, NEW u \in Accounts, j \in mailbox'[u]
        PROVE  j \in mailbox[u]
    BY <1>12, <1>18, <2>3
  <2> QED
    BY <1>12, <2>1, <2>2, <2>3 DEF Evolves
<1> QED
  BY <1>5, <1>20, <1>21, <1>22, <1>23, <1>24, <1>25, <1>26 DEF MailFine

\* What Attach does to the list of a message.
LEMMA ListEdit ==
    ASSUME mail \in Seq(MailRecords), NEW m \in DOMAIN mail, NEW v \in SUBSET AttIDs
    PROVE  LET new == [mail EXCEPT ![m].atts = v]
           IN  /\ new \in Seq(MailRecords) /\ DOMAIN new = DOMAIN mail /\ Len(new) = Len(mail)
               /\ new[m].atts = v /\ new[m].live = mail[m].live /\ new[m].request = mail[m].request
               /\ \A j \in DOMAIN mail : j # m => new[j] = mail[j]
<1> DEFINE e == [live |-> mail[m].live, atts |-> v, request |-> mail[m].request]
           new == [mail EXCEPT ![m].atts = v]
<1>1. mail[m] \in MailRecords
  OBVIOUS
<1>2. mail[m] = [live |-> mail[m].live, atts |-> mail[m].atts, request |-> mail[m].request] /\ e \in MailRecords
  BY <1>1 DEF MailRecords
<1>3. [mail[m] EXCEPT !.atts = v] = e
  BY <1>2
<1>4. e.atts = v /\ e.live = mail[m].live /\ e.request = mail[m].request
  OBVIOUS
<1> HIDE DEF e
<1>5. new = [mail EXCEPT ![m] = e]
  BY <1>3
<1> HIDE DEF new
<1>6. /\ new \in Seq(MailRecords) /\ DOMAIN new = DOMAIN mail /\ Len(new) = Len(mail) /\ new[m] = e
      /\ \A j \in DOMAIN mail : j # m => new[j] = mail[j]
  BY <1>2, <1>5
<1> QED
  BY <1>4, <1>6 DEF new

\* CreateAttachment: the attachment takes the place of one of the same name.
LEMMA AttachIsFine ==
    ASSUME StoreInv, NEW m, NEW name \in AttNames, Attach(m, name), UNCHANGED <<mailbox, users>>
    PROVE  MailFine' /\ Evolves /\ (m \in LiveMail => HasName(m, name)')
<1>0. PICK live \in BOOLEAN : live <=> m \in LiveMail
  OBVIOUS
<1> DEFINE a == attCount + 1
           kept == Kept(m, name)
           off == IF live THEN mail[m].atts \ kept ELSE {}
           new == [name |-> name, data |-> a, st |-> IF live THEN "kept" ELSE "late"]
<1>1. /\ MailTyped /\ BoxesApart /\ MadeOnce /\ DataIsShared /\ AttachmentsOfOne /\ OrphansHaveACause
      /\ mail \in Seq(MailRecords) /\ attCount \in 0 .. MaxAtts /\ MaxAtts \in Nat
      /\ DOMAIN atts \subseteq 1 .. attCount /\ atts \in [DOMAIN atts -> AttRecords]
  BY MailStoreAssumption DEF StoreInv, MailFine, MailTyped
<1>2. /\ a \in AttIDs /\ attCount' = a /\ attData' = attData \cup {a}
      /\ atts' = [b \in DOMAIN atts \cup {a} |->
                     IF b = a THEN new ELSE IF b \in off THEN [atts[b] EXCEPT !.st = "replaced"] ELSE atts[b]]
      /\ mail' = IF live THEN [mail EXCEPT ![m].atts = kept \cup {a}] ELSE mail
  BY <1>0 DEF Attach
<1>3. new \in AttRecords /\ new.name = name /\ new.data = a /\ (new.st = "kept" => live)
  BY <1>2 DEF AttRecords
<1>4. live => kept = {b \in mail[m].atts : atts[b].name # name}
  BY DEF Kept
<1>5. live => m \in DOMAIN mail /\ mail[m].atts \subseteq DOMAIN atts /\ mail[m].live
  BY <1>0, <1>1 DEF AttachmentsOfOne, LiveMail
<1>6. LiveMail \subseteq DOMAIN mail
  BY DEF LiveMail
<1>7. a \in Nat /\ a \notin DOMAIN atts /\ a \in 0 .. MaxAtts /\ DOMAIN atts \cup {a} \subseteq 1 .. a
  BY <1>1, <1>2 DEF AttIDs
<1> HIDE DEF new, kept, off
<1>8. /\ DOMAIN atts' = DOMAIN atts \cup {a} /\ atts'[a] = new
      /\ \A b \in DOMAIN atts : b \in off => atts'[b] = [atts[b] EXCEPT !.st = "replaced"]
      /\ \A b \in DOMAIN atts : b \notin off => atts'[b] = atts[b]
  BY <1>2, <1>7
<1> HIDE DEF a
<1>9. \A b \in DOMAIN atts : /\ atts'[b] \in AttRecords
                             /\ atts'[b].name = atts[b].name /\ atts'[b].data = atts[b].data
                             /\ b \in off => atts'[b].st = "replaced"
  <2> SUFFICES ASSUME NEW b \in DOMAIN atts
               PROVE  /\ atts'[b] \in AttRecords
                      /\ atts'[b].name = atts[b].name /\ atts'[b].data = atts[b].data
                      /\ b \in off => atts'[b].st = "replaced"
    OBVIOUS
  <2>1. atts[b] \in AttRecords
    BY <1>1
  <2>2. atts[b] = [name |-> atts[b].name, data |-> atts[b].data, st |-> atts[b].st]
    BY <2>1 DEF AttRecords
  <2>3. [atts[b] EXCEPT !.st = "replaced"] = [name |-> atts[b].name, data |-> atts[b].data, st |-> "replaced"]
    BY <2>2
  <2> QED
    BY <1>8, <2>1, <2>3 DEF AttRecords
<1>10. /\ MailTyped' /\ DOMAIN mail' = DOMAIN mail /\ Len(mail') = Len(mail) /\ Len(mail) \in Nat
       /\ \A j \in DOMAIN mail : mail'[j].live = mail[j].live /\ mail'[j].request = mail[j].request
                                 /\ (j # m \/ ~live => mail'[j].atts = mail[j].atts)
       /\ (live => mail'[m].atts = kept \cup {a})
  <2>1. live => kept \cup {a} \in SUBSET AttIDs
    BY <1>1, <1>2, <1>4, <1>5 DEF AttIDs
  <2>2. /\ mail' \in Seq(MailRecords) /\ DOMAIN mail' = DOMAIN mail /\ Len(mail') = Len(mail) /\ Len(mail) \in Nat
        /\ \A j \in DOMAIN mail : mail'[j].live = mail[j].live /\ mail'[j].request = mail[j].request
                                  /\ (j # m \/ ~live => mail'[j].atts = mail[j].atts)
        /\ (live => mail'[m].atts = kept \cup {a})
    <3>1. CASE ~live
      BY <1>1, <1>2, <3>1
    <3>2. CASE live
      <4> DEFINE w == kept \cup {a}
      <4>1. w \in SUBSET AttIDs /\ m \in DOMAIN mail /\ mail' = [mail EXCEPT ![m].atts = w]
        BY <1>2, <1>5, <2>1, <3>2
      <4> HIDE DEF w
      <4>2. /\ mail' \in Seq(MailRecords) /\ DOMAIN mail' = DOMAIN mail /\ Len(mail') = Len(mail)
            /\ mail'[m].atts = w /\ mail'[m].live = mail[m].live /\ mail'[m].request = mail[m].request
            /\ \A j \in DOMAIN mail : j # m => mail'[j] = mail[j]
        BY <1>1, <4>1, ListEdit
      <4>3. Len(mail) \in Nat
        BY <1>1
      <4> QED
        BY <3>2, <4>2, <4>3 DEF w
    <3> QED
      BY <3>1, <3>2
  <2>3. atts' \in [DOMAIN atts' -> AttRecords]
    <3>1. \A b \in DOMAIN atts' : atts'[b] \in AttRecords
      BY <1>3, <1>8, <1>9
    <3>2. atts' = [b \in DOMAIN atts' |-> atts'[b]]
      BY <1>2
    <3> QED
      BY <3>1, <3>2
  <2>4. attCount' \in 0 .. MaxAtts /\ DOMAIN atts' \subseteq 1 .. attCount'
    BY <1>2, <1>7, <1>8
  <2>5. mailbox' \in [Accounts -> SUBSET Nat] /\ users' \subseteq Accounts /\ Len(mail') <= MaxMail
    BY <1>1, <2>2 DEF MailTyped
  <2> QED
    BY <2>2, <2>3, <2>4, <2>5 DEF MailTyped
<1>11. LiveMail' = LiveMail
  BY <1>10 DEF LiveMail
<1>12. BoxesApart'
  BY <1>1, <1>11 DEF BoxesApart
<1>13. MadeOnce'
  BY <1>1, <1>6, <1>10, <1>11 DEF MadeOnce
<1>14. DataIsShared'
  <2>1. {atts'[b].data : b \in DOMAIN atts'} = {atts[b].data : b \in DOMAIN atts} \cup {a}
    BY <1>3, <1>8, <1>9
  <2> QED
    BY <1>1, <1>2, <2>1 DEF DataIsShared
<1>15. \A j \in LiveMail : mail'[j].atts \subseteq mail[j].atts \cup {a} /\ (j # m => mail'[j].atts = mail[j].atts)
  BY <1>0, <1>4, <1>6, <1>10
<1>16. AttachmentsOfOne'
  <2>1. \A j \in LiveMail : mail[j].atts \subseteq DOMAIN atts
    BY <1>1 DEF AttachmentsOfOne
  <2>2. ASSUME NEW j \in LiveMail
        PROVE  mail'[j].atts \subseteq DOMAIN atts' /\ \A k \in LiveMail \ {j} : mail'[j].atts \cap mail'[k].atts = {}
    <3>1. \A k \in LiveMail \ {j} : mail[j].atts \cap mail[k].atts = {}
      BY <1>1 DEF AttachmentsOfOne
    <3>2. \A k \in LiveMail : a \notin mail[k].atts
      BY <1>7, <2>1
    <3> QED
      BY <1>8, <1>15, <2>1, <3>1, <3>2
  <2>3. ASSUME NEW j \in LiveMail, NEW b \in mail'[j].atts, NEW c \in mail'[j].atts, atts'[b].name = atts'[c].name
        PROVE  b = c
    <3>1. \A x, y \in mail[j].atts : atts[x].name = atts[y].name => x = y
      BY <1>1 DEF AttachmentsOfOne
    <3>2. CASE j # m
      <4>1. b \in mail[j].atts /\ c \in mail[j].atts
        BY <1>15, <2>3, <3>2
      <4> QED
        BY <1>9, <2>1, <2>3, <3>1, <4>1
    <3>3. CASE j = m
      <4>1. live /\ mail'[j].atts = kept \cup {a}
        BY <1>0, <1>10, <3>3
      <4>2. \A x \in kept : x \in mail[j].atts /\ x \in DOMAIN atts /\ atts'[x].name = atts[x].name
                            /\ atts'[x].name # name
        BY <1>4, <1>9, <2>1, <3>3, <4>1
      <4>3. atts'[a].name = name
        BY <1>3, <1>8
      <4> QED
        BY <2>3, <3>1, <4>1, <4>2, <4>3
    <3> QED
      BY <3>2, <3>3
  <2> QED
    BY <1>11, <2>2, <2>3 DEF AttachmentsOfOne
<1>17. OrphansHaveACause'
  <2> SUFFICES ASSUME NEW b \in DOMAIN atts', atts'[b].st = "kept"
               PROVE  \E j \in LiveMail' : b \in mail'[j].atts
    BY DEF OrphansHaveACause
  <2>1. CASE b = a
    <3>1. live
      BY <1>3, <1>8, <2>1
    <3> QED
      BY <1>0, <1>10, <1>11, <2>1, <3>1
  <2>2. CASE b # a
    <3>1. b \in DOMAIN atts /\ b \notin off /\ atts'[b] = atts[b]
      BY <1>8, <1>9, <2>2
    <3>2. PICK j \in LiveMail : b \in mail[j].atts
      BY <1>1, <3>1 DEF OrphansHaveACause
    <3>3. CASE j # m
      BY <1>11, <1>15, <3>2, <3>3
    <3>4. CASE j = m
      <4>1. live /\ b \in kept
        BY <1>0, <3>1, <3>2, <3>4 DEF off
      <4> QED
        BY <1>10, <1>11, <3>2, <3>4, <4>1
    <3> QED
      BY <3>3, <3>4
  <2> QED
    BY <2>1, <2>2
<1>18. live => HasName(m, name)'
  <2>1. live => a \in mail'[m].atts /\ atts'[a].name = name
    BY <1>3, <1>8, <1>10
  <2> QED
    BY <2>1 DEF HasName
<1>19. Evolves
  <2>1. ASSUME NEW j \in LiveMail', NEW n \in AttNames, HasName(j, n)
        PROVE  HasName(j, n)'
    <3>1. PICK b \in mail[j].atts : atts[b].name = n
      BY <2>1 DEF HasName
    <3>2. j \in LiveMail /\ b \in DOMAIN atts /\ atts'[b].name = n
      BY <1>1, <1>9, <1>11, <3>1 DEF AttachmentsOfOne
    <3>3. CASE j # m
      BY <1>15, <3>1, <3>2, <3>3 DEF HasName
    <3>4. CASE j = m /\ n = name
      BY <1>0, <1>18, <3>2, <3>4
    <3>5. CASE j = m /\ n # name
      <4>1. live /\ b \in kept
        BY <1>0, <1>4, <3>1, <3>2, <3>5
      <4>2. b \in mail'[j].atts
        BY <1>10, <3>5, <4>1
      <4> QED
        BY <3>2, <4>2 DEF HasName
    <3> QED
      BY <3>3, <3>4, <3>5
  <2> QED
    BY <1>10, <1>11, <2>1 DEF Evolves
<1> QED
  BY <1>0, <1>10, <1>12, <1>13, <1>14, <1>16, <1>17, <1>18, <1>19 DEF MailFine

\* What is left of a message.
LEMMA DeadIs ==
    ASSUME NEW d \in MailRecords, NEW v, v \in BOOLEAN, ~v
    PROVE  LET new == [d EXCEPT !.live = v, !.atts = {}]
           IN  new \in MailRecords /\ ~new.live /\ new.atts = {}
<1> DEFINE one == [d EXCEPT !.live = v]
           e == [live |-> v, atts |-> {}, request |-> d.request]
<1>1. d = [live |-> d.live, atts |-> d.atts, request |-> d.request]
  BY DEF MailRecords
<1>2. one = [live |-> v, atts |-> d.atts, request |-> d.request]
  BY <1>1
<1>3. [d EXCEPT !.live = v, !.atts = {}] = [one EXCEPT !.atts = {}]
  OBVIOUS
<1> HIDE DEF one
<1>4. [one EXCEPT !.atts = {}] = e
  BY <1>2
<1>5. e \in MailRecords /\ ~e.live /\ e.atts = {}
  BY DEF MailRecords
<1> HIDE DEF e
<1> QED
  BY <1>3, <1>4, <1>5

\* Erase: the messages are dead and their attachments gone, with the data no
\* other attachment uses.
LEMMA EraseIsFine ==
    ASSUME StoreInv, NEW ms, ms \subseteq LiveMail, Erase(ms),
           mailbox' \in [Accounts -> SUBSET Nat], \A u \in Accounts : mailbox'[u] \subseteq mailbox[u] \ ms,
           users' \subseteq users, attCount' = attCount
    PROVE  MailFine' /\ Evolves /\ LiveMail' = LiveMail \ ms
<1> DEFINE gone == AttsOf(ms)
<1>1. /\ MailTyped /\ BoxesApart /\ MadeOnce /\ DataIsShared /\ AttachmentsOfOne /\ OrphansHaveACause
      /\ mail \in Seq(MailRecords) /\ atts \in [DOMAIN atts -> AttRecords]
  BY DEF StoreInv, MailFine, MailTyped
<1>2. /\ attData' = attData \ UnusedData(gone)
      /\ atts' = [a \in DOMAIN atts \ gone |-> atts[a]]
      /\ mail' = [m \in DOMAIN mail |->
                     IF m \in ms THEN [mail[m] EXCEPT !.live = FALSE, !.atts = {}] ELSE mail[m]]
  BY DEF Erase
<1>3. gone = UNION {mail[m].atts : m \in ms}
  BY DEF AttsOf
<1> HIDE DEF gone
<1>4. LiveMail \subseteq DOMAIN mail /\ DOMAIN mail = 1 .. Len(mail) /\ Len(mail) \in Nat
  BY <1>1 DEF LiveMail
<1>5. DOMAIN atts' = DOMAIN atts \ gone /\ \A a \in DOMAIN atts' : atts'[a] = atts[a]
  BY <1>2
<1>6. gone \subseteq DOMAIN atts
  BY <1>1, <1>3 DEF AttachmentsOfOne
<1>7. \A m \in ms : mail'[m] \in MailRecords /\ ~mail'[m].live /\ mail'[m].atts = {}
  <2> SUFFICES ASSUME NEW m \in ms
               PROVE  mail'[m] \in MailRecords /\ ~mail'[m].live /\ mail'[m].atts = {}
    OBVIOUS
  <2>1. m \in DOMAIN mail /\ mail[m] \in MailRecords
    BY <1>1, <1>4
  <2>2. mail'[m] = [mail[m] EXCEPT !.live = FALSE, !.atts = {}]
    BY <1>2, <2>1
  <2>3. /\ [mail[m] EXCEPT !.live = FALSE, !.atts = {}] \in MailRecords
        /\ ~[mail[m] EXCEPT !.live = FALSE, !.atts = {}].live
        /\ [mail[m] EXCEPT !.live = FALSE, !.atts = {}].atts = {}
    BY <2>1, DeadIs
  <2> QED
    BY <2>2, <2>3
<1>8. \A m \in DOMAIN mail : m \notin ms => mail'[m] = mail[m]
  BY <1>2
<1>9. mail' \in Seq(MailRecords) /\ DOMAIN mail' = DOMAIN mail /\ Len(mail') = Len(mail)
  <2>1. DOMAIN mail' = 1 .. Len(mail) /\ mail' = [m \in 1 .. Len(mail) |-> mail'[m]]
    BY <1>2, <1>4
  <2>2. \A m \in 1 .. Len(mail) : mail'[m] \in MailRecords
    BY <1>1, <1>4, <1>7, <1>8
  <2>3. mail' \in [1 .. Len(mail) -> MailRecords]
    BY <2>1, <2>2
  <2>4. mail' \in Seq(MailRecords)
    BY <1>4, <2>3, SeqDef
  <2> QED
    BY <1>4, <2>1, <2>4
<1>10. LiveMail' = LiveMail \ ms
  BY <1>7, <1>8, <1>9 DEF LiveMail
<1>11. MailTyped'
  <2>1. atts' \in [DOMAIN atts' -> AttRecords]
    BY <1>1, <1>2
  <2>2. attCount' \in 0 .. MaxAtts /\ DOMAIN atts' \subseteq 1 .. attCount' /\ users' \subseteq Accounts
        /\ Len(mail') <= MaxMail
    BY <1>1, <1>5, <1>9 DEF MailTyped
  <2> QED
    BY <1>9, <2>1, <2>2 DEF MailTyped
<1>12. BoxesApart'
  <2>1. BoxesApart
    BY <1>1
  <2> QED
    BY <1>10, <2>1 DEF BoxesApart
<1>13. MadeOnce'
  <2>1. \A m \in LiveMail' : m \in LiveMail /\ mail'[m] = mail[m]
    BY <1>4, <1>8, <1>10
  <2> QED
    BY <1>1, <2>1 DEF MadeOnce
<1>14. DataIsShared'
  <2>1. attData = {atts[a].data : a \in DOMAIN atts}
    BY <1>1 DEF DataIsShared
  <2>2. UnusedData(gone) = {atts[a].data : a \in gone} \ {atts[a].data : a \in DOMAIN atts \ gone}
    BY DEF UnusedData
  <2>3. {atts'[a].data : a \in DOMAIN atts'} = {atts[a].data : a \in DOMAIN atts \ gone}
    BY <1>5
  <2>4. {atts[a].data : a \in DOMAIN atts} = {atts[a].data : a \in gone} \cup {atts[a].data : a \in DOMAIN atts \ gone}
    BY <1>6
  <2> QED
    BY <1>2, <2>1, <2>2, <2>3, <2>4 DEF DataIsShared
<1>15. \A m \in LiveMail' : m \in LiveMail /\ m \notin ms /\ mail'[m] = mail[m] /\ mail[m].atts \cap gone = {}
  <2>1. \A m \in LiveMail : \A k \in LiveMail \ {m} : mail[m].atts \cap mail[k].atts = {}
    BY <1>1 DEF AttachmentsOfOne
  <2>2. \A m \in LiveMail' : m \in LiveMail /\ m \notin ms /\ mail'[m] = mail[m]
    BY <1>4, <1>8, <1>10
  <2> QED
    BY <1>3, <2>1, <2>2
<1>16. AttachmentsOfOne'
  <2>1. ASSUME NEW m \in LiveMail'
        PROVE  /\ mail'[m].atts \subseteq DOMAIN atts'
               /\ \A k \in LiveMail' \ {m} : mail'[m].atts \cap mail'[k].atts = {}
               /\ \A a, b \in mail'[m].atts : atts'[a].name = atts'[b].name => a = b
    <3>1. /\ mail[m].atts \subseteq DOMAIN atts
          /\ \A k \in LiveMail \ {m} : mail[m].atts \cap mail[k].atts = {}
          /\ \A a, b \in mail[m].atts : atts[a].name = atts[b].name => a = b
      BY <1>1, <1>15 DEF AttachmentsOfOne
    <3>2. mail'[m].atts = mail[m].atts /\ mail[m].atts \subseteq DOMAIN atts'
      BY <1>5, <1>15, <3>1
    <3>3. \A a, b \in mail'[m].atts : atts'[a].name = atts'[b].name => a = b
      BY <1>5, <3>1, <3>2
    <3>4. \A k \in LiveMail' \ {m} : mail'[m].atts \cap mail'[k].atts = {}
      BY <1>15, <3>1
    <3> QED
      BY <3>2, <3>3, <3>4
  <2> QED
    BY <2>1 DEF AttachmentsOfOne
<1>17. OrphansHaveACause'
  <2> SUFFICES ASSUME NEW a \in DOMAIN atts', atts'[a].st = "kept"
               PROVE  \E m \in LiveMail' : a \in mail'[m].atts
    BY DEF OrphansHaveACause
  <2>1. PICK m \in LiveMail : a \in mail[m].atts
    BY <1>1, <1>5 DEF OrphansHaveACause
  <2>2. m \notin ms
    BY <1>3, <1>5, <2>1
  <2> QED
    BY <1>10, <1>15, <2>1, <2>2
<1>18. Evolves
  <2>1. ASSUME NEW m \in LiveMail', NEW name \in AttNames, HasName(m, name)
        PROVE  HasName(m, name)'
    <3>1. PICK a \in mail[m].atts : atts[a].name = name
      BY <2>1 DEF HasName
    <3>2. mail'[m].atts = mail[m].atts /\ a \in DOMAIN atts'
      BY <1>1, <1>5, <1>15, <3>1 DEF AttachmentsOfOne
    <3> QED
      BY <1>5, <3>1, <3>2 DEF HasName
  <2> QED
    BY <1>4, <1>9, <1>10, <2>1 DEF Evolves
<1> QED
  BY <1>10, <1>11, <1>12, <1>13, <1>14, <1>16, <1>17, <1>18 DEF MailFine

\* Nothing of the mail changes.
LEMMA MailStays ==
    ASSUME StoreInv, UNCHANGED <<mail, mailbox, users, atts, attCount, attData>>
    PROVE  MailFine' /\ Evolves
<1>1. MailFine /\ mail \in Seq(MailRecords)
  BY DEF StoreInv, MailFine, MailTyped
<1>2. LiveMail' = LiveMail /\ Len(mail) \in Nat
  BY <1>1 DEF LiveMail
<1>3. MailFine'
  BY <1>1, <1>2 DEF MailFine, MailTyped, BoxesApart, MadeOnce, DataIsShared, AttachmentsOfOne, OrphansHaveACause
<1>4. Evolves
  BY <1>2 DEF Evolves, HasName
<1> QED
  BY <1>3, <1>4

\* No request goes on.
LEMMA CallsStay ==
    ASSUME StoreInv, Evolves, asked' = asked, doing' = doing
    PROVE  CallsFine'
<1>1. \A s \in Tries : GoesOn(s)'
  BY OthersGoOn
<1>2. ASSUME NEW r \in Requests
      PROVE  AsksForOwn(r)'
  <2>1. AsksForOwn(r)
    BY DEF StoreInv, CallsFine
  <2> QED
    BY <2>1 DEF AsksForOwn, Evolves
<1>3. CallsTyped'
  BY DEF StoreInv, CallsFine, CallsTyped
<1> QED
  BY <1>1, <1>2, <1>3 DEF CallsFine

\* A request ends that is not the success of an import or of a deletion.
LEMMA EndsWell ==
    ASSUME StoreInv, MailFine', Evolves, asked' = asked, NEW t \in Tries,
           NEW place \in {"ok", "err", "panicked"}, To(t, place), doing[t].at # "new",
           asked[t[1]].kind = "delete" => place = "err" /\ Caller(t) \notin users,
           place = "ok" => doing[t].msg = 0
    PROVE  CallsFine'
<1>1. CallsTyped /\ GoesOn(t)
  BY DEF StoreInv, CallsFine
<1>2. /\ doing' \in [Tries -> TryRecords]
      /\ doing'[t].at = place /\ doing'[t].msg = doing[t].msg /\ doing'[t].step = doing[t].step
      /\ \A s \in Tries : s # t => doing'[s] = doing[s]
  BY <1>1, ToIs
<1>3. CallsTyped' /\ mail' \in Seq(MailRecords)
  BY <1>1, <1>2 DEF CallsTyped, MailFine, MailTyped
<1>4. 0 \notin LiveMail'
  BY <1>3 DEF LiveMail
<1>5. doing[t].msg <= Len(mail')
  <2>1. doing[t] \in TryRecords /\ mail \in Seq(MailRecords)
    BY <1>1 DEF CallsTyped, StoreInv, MailFine, MailTyped
  <2>2. doing[t].msg \in Nat /\ Len(mail) \in Nat
    BY <2>1 DEF TryRecords
  <2> QED
    BY <1>1, <2>2 DEF GoesOn, Evolves
<1>6. Caller(t)' = Caller(t) /\ users' \subseteq users
  BY DEF Caller, Evolves
<1>7. asked[t[1]] # NotAsked
  BY <1>1 DEF GoesOn
<1>8. GoesOn(t)'
  BY <1>2, <1>4, <1>5, <1>6, <1>7 DEF GoesOn
<1> QED
  BY <1>2, <1>3, <1>8, CallsKeep

\* NoSuchUser.
LEMMA NoSuchUserIsFine ==
    ASSUME StoreInv, NEW t \in Tries, NoSuchUser(t)
    PROVE  StoreInv'
<1>1. MailFine' /\ Evolves
  BY MailStays DEF NoSuchUser
<1>2. CallsFine'
  BY <1>1, EndsWell DEF NoSuchUser
<1> QED
  BY <1>1, <1>2 DEF StoreInv

\* CreateDraftOf.
LEMMA CreateDraftIsFine ==
    ASSUME StoreInv, NEW t \in Tries, CreateDraftOf(t)
    PROVE  StoreInv'
<1>1. /\ doing[t].at = "asked" /\ asked[t[1]].kind = "draft"
      /\ Adds(t, Unasked) /\ To(t, "ok") /\ UNCHANGED <<users, atts, attCount, attData, asked>>
  BY DEF CreateDraftOf, Asks
<1>2. MailFine' /\ Evolves
  BY <1>1, AddsIsFine, MailStoreAssumption
<1>3. doing[t].msg = 0
  BY <1>1 DEF StoreInv, CallsFine, GoesOn
<1>4. CallsFine'
  BY <1>1, <1>2, <1>3, EndsWell
<1> QED
  BY <1>2, <1>4 DEF StoreInv

\* Upload, to a message that is there, that is gone, or of something bad.
LEMMA UploadIsFine ==
    ASSUME StoreInv, NEW t \in Tries, Upload(t)
    PROVE  StoreInv'
<1> DEFINE m == asked[t[1]].msgs[1]
           name == asked[t[1]].names[1]
<1>1. doing[t].at = "asked" /\ asked[t[1]].kind = "upload" /\ UNCHANGED <<mailbox, users, asked>>
  BY DEF Upload, Asks
<1>2. t[1] \in Requests /\ doing[t].msg = 0
  BY <1>1 DEF StoreInv, CallsFine, GoesOn, Tries
<1>3. name \in AttNames
  <2>1. asked[t[1]] \in CallRecords /\ Len(asked[t[1]].names) = 1
    BY <1>1, <1>2 DEF StoreInv, CallsFine, CallsTyped, AsksForOwn
  <2> QED
    BY <2>1 DEF CallRecords
<1>4. \/ Attach(m, name) /\ \E place \in {"ok", "panicked"} : To(t, place)
      \/ BadAttachment(t, "asked")
  BY DEF Upload
<1> HIDE DEF m, name
<1>5. CASE Attach(m, name) /\ \E place \in {"ok", "panicked"} : To(t, place)
  <2>1. MailFine' /\ Evolves
    BY <1>1, <1>3, <1>5, AttachIsFine
  <2>2. PICK place \in {"ok", "panicked"} : To(t, place)
    BY <1>5
  <2>3. CallsFine'
    BY <1>1, <1>2, <2>1, <2>2, EndsWell
  <2> QED
    BY <2>1, <2>3 DEF StoreInv
<1>6. CASE BadAttachment(t, "asked")
  <2>1. To(t, "err") /\ UNCHANGED <<mail, atts, attCount, attData>>
    BY <1>6 DEF BadAttachment
  <2>2. MailFine' /\ Evolves
    BY <1>1, <2>1, MailStays
  <2>3. CallsFine'
    BY <1>1, <2>1, <2>2, EndsWell
  <2> QED
    BY <2>2, <2>3 DEF StoreInv
<1> QED
  BY <1>4, <1>5, <1>6

\* SendDraft.
LEMMA SendDraftIsFine ==
    ASSUME StoreInv, NEW t \in Tries, SendDraft(t)
    PROVE  StoreInv'
<1> DEFINE m == asked[t[1]].msgs[1]
<1>1. doing[t].at = "asked" /\ asked[t[1]].kind = "send" /\ UNCHANGED <<users, attData, asked>>
  BY DEF SendDraft, Asks
<1>2. doing[t].msg = 0
  BY <1>1 DEF StoreInv, CallsFine, GoesOn
<1>3. \/ m \in LiveMail /\ \E to \in users, k \in 0 .. Cardinality(mail[m].atts) : CopyMail(t, m, to, k)
      \/ (\E place \in {"err", "panicked"} : To(t, place)) /\ UNCHANGED <<mail, mailbox, atts, attCount>>
  BY DEF SendDraft
<1> HIDE DEF m
<1>4. MailFine' /\ Evolves /\ \E place \in {"ok", "err", "panicked"} : To(t, place)
  <2>1. CASE m \in LiveMail /\ \E to \in users, k \in 0 .. Cardinality(mail[m].atts) : CopyMail(t, m, to, k)
    <3>1. PICK to \in users, k \in 0 .. Cardinality(mail[m].atts) : CopyMail(t, m, to, k)
      BY <2>1
    <3>2. MailFine' /\ Evolves /\ (To(t, "ok") \/ To(t, "err"))
      BY <1>1, <2>1, <3>1, CopyIsFine
    <3> QED
      BY <3>2
  <2>2. CASE (\E place \in {"err", "panicked"} : To(t, place)) /\ UNCHANGED <<mail, mailbox, atts, attCount>>
    BY <1>1, <2>2, MailStays
  <2> QED
    BY <1>3, <2>1, <2>2
<1>5. PICK place \in {"ok", "err", "panicked"} : To(t, place)
  BY <1>4
<1>6. CallsFine'
  BY <1>1, <1>2, <1>4, <1>5, EndsWell
<1> QED
  BY <1>4, <1>6 DEF StoreInv

\* ImportBody: a message is made, or taken that was made for the same import.
LEMMA ImportBodyIsFine ==
    ASSUME StoreInv, NEW t \in Tries, ImportBody(t)
    PROVE  StoreInv'
<1>1. /\ doing[t].at = "asked" /\ asked[t[1]].kind = "import" /\ UNCHANGED <<users, atts, attCount, attData, asked>>
      /\ \/ /\ Duplicates(t) = {} /\ Adds(t, t[1])
            /\ doing' = [doing EXCEPT ![t].at = "atts", ![t].msg = Len(mail) + 1]
         \/ /\ \E m \in Duplicates(t) : doing' = [doing EXCEPT ![t].at = "atts", ![t].msg = m]
            /\ UNCHANGED <<mail, mailbox>>
         \/ To(t, "err") /\ UNCHANGED <<mail, mailbox>>
  BY DEF ImportBody, Asks
<1>2. /\ CallsTyped /\ GoesOn(t) /\ t[1] \in Requests /\ doing[t].msg = 0 /\ doing[t].step = 1
      /\ doing[t] \in TryRecords /\ mail \in Seq(MailRecords) /\ Len(mail) <= MaxMail /\ MaxMail \in Nat
      /\ asked[t[1]] \in CallRecords /\ asked[t[1]] # NotAsked
  BY <1>1, MailStoreAssumption
     DEF StoreInv, CallsFine, CallsTyped, MailFine, MailTyped, GoesOn, Tries
<1>3. ASSUME NEW m \in 0 .. MaxMail, doing' = [doing EXCEPT ![t].at = "atts", ![t].msg = m],
             MailFine', Evolves, m <= Len(mail')
      PROVE  CallsFine'
  <2> DEFINE d == [at |-> "atts", msg |-> m, step |-> doing[t].step]
  <2>0. [doing EXCEPT ![t].at = "atts", ![t].msg = m] = [doing EXCEPT ![t] = d]
    <3>1. CallsTyped
      BY <1>2
    <3>2. \A v, w : [doing EXCEPT ![t].at = v, ![t].msg = w]
                       = [doing EXCEPT ![t] = [at |-> v, msg |-> w, step |-> doing[t].step]]
      BY <3>1, MessageEdit
    <3> QED
      BY <3>2
  <2>1. doing' = [doing EXCEPT ![t] = d] /\ doing \in [Tries -> TryRecords]
    BY <1>2, <1>3, <2>0 DEF CallsTyped
  <2>2. d \in TryRecords /\ d.at = "atts" /\ d.msg = m /\ d.step = 1
    BY <1>2 DEF TryRecords
  <2> HIDE DEF d
  <2>3. doing' \in [Tries -> TryRecords] /\ doing'[t] = d /\ \A s \in Tries : s # t => doing'[s] = doing[s]
    BY <2>1, <2>2
  <2>4. CallsTyped'
    BY <1>1, <1>2, <2>3 DEF CallsTyped
  <2>5. \A i \in DOMAIN asked[t[1]].names : ~(i < 1)
    BY <1>2 DEF CallRecords
  <2>6. GoesOn(t)'
    BY <1>1, <1>2, <1>3, <2>2, <2>3, <2>5 DEF GoesOn
  <2> QED
    BY <1>1, <1>3, <2>3, <2>4, <2>6, CallsKeep
<1>4. CASE Duplicates(t) = {} /\ Adds(t, t[1]) /\ doing' = [doing EXCEPT ![t].at = "atts", ![t].msg = Len(mail) + 1]
  <2>1. Deduplicate => \A m \in LiveMail : mail[m].request # t[1]
    BY <1>4 DEF Duplicates
  <2>2. MailFine' /\ Evolves /\ Len(mail') = Len(mail) + 1 /\ Len(mail) + 1 \in 0 .. MaxMail
    BY <1>1, <1>2, <1>4, <2>1, AddsIsFine
  <2>3. CallsFine'
    <3> DEFINE id == Len(mail) + 1
    <3>1. id \in 0 .. MaxMail /\ doing' = [doing EXCEPT ![t].at = "atts", ![t].msg = id] /\ id <= Len(mail')
      BY <1>4, <2>2
    <3> HIDE DEF id
    <3> QED
      BY <1>3, <2>2, <3>1
  <2> QED
    BY <2>2, <2>3 DEF StoreInv
<1>5. CASE (\E m \in Duplicates(t) : doing' = [doing EXCEPT ![t].at = "atts", ![t].msg = m])
           /\ UNCHANGED <<mail, mailbox>>
  <2>1. PICK m \in Duplicates(t) : doing' = [doing EXCEPT ![t].at = "atts", ![t].msg = m]
    BY <1>5
  <2>2. MailFine' /\ Evolves
    BY <1>1, <1>5, MailStays
  <2>3. m \in DOMAIN mail
    BY DEF Duplicates, LiveMail
  <2>4. m \in 0 .. MaxMail /\ m <= Len(mail')
    BY <1>2, <1>5, <2>3
  <2> QED
    BY <1>3, <2>1, <2>2, <2>4 DEF StoreInv
<1>6. CASE To(t, "err") /\ UNCHANGED <<mail, mailbox>>
  <2>1. MailFine' /\ Evolves
    BY <1>1, <1>6, MailStays
  <2>2. CallsFine'
    BY <1>1, <1>6, <2>1, EndsWell
  <2> QED
    BY <2>1, <2>2 DEF StoreInv
<1> QED
  BY <1>1, <1>4, <1>5, <1>6

\* ImportAttachment: the next attachment, on a message that is there or not.
LEMMA ImportAttachmentIsFine ==
    ASSUME StoreInv, NEW t \in Tries, ImportAttachment(t)
    PROVE  StoreInv'
<1>a. PICK m : m = doing[t].msg
  OBVIOUS
<1>b. PICK names : names = asked[t[1]].names
  OBVIOUS
<1>c. PICK name : name = names[doing[t].step]
  OBVIOUS
<1>0. PICK live \in BOOLEAN : live <=> m \in LiveMail
  OBVIOUS
<1>1. /\ doing[t].at = "atts" /\ UNCHANGED <<mailbox, users, asked>> /\ doing[t].step <= Len(names)
      /\ \/ /\ Attach(m, name)
            /\ doing' = [doing EXCEPT ![t].step = @ + 1, ![t].at = IF live THEN @ ELSE "panicked"]
         \/ BadAttachment(t, "atts")
  BY <1>a, <1>b, <1>c, <1>0 DEF ImportAttachment
<1>2. /\ CallsTyped /\ GoesOn(t) /\ doing[t] \in TryRecords /\ asked[t[1]] \in CallRecords
      /\ asked[t[1]].kind = "import" /\ asked[t[1]] # NotAsked
  BY <1>1 DEF StoreInv, CallsFine, CallsTyped, GoesOn, Tries, NotAsked
<1>3. /\ names \in Seq(AttNames) /\ doing[t].step \in Nat \ {0} /\ doing[t].step \in DOMAIN names
      /\ name \in AttNames /\ m \in Nat
  <2>1. names \in Seq(AttNames) /\ doing[t].step \in Nat \ {0} /\ m \in Nat
    BY <1>a, <1>b, <1>2 DEF CallRecords, TryRecords
  <2> QED
    BY <1>c, <1>1, <2>1
<1>4. CASE /\ Attach(m, name)
           /\ doing' = [doing EXCEPT ![t].step = @ + 1, ![t].at = IF live THEN @ ELSE "panicked"]
  <2>1. MailFine' /\ Evolves /\ (m \in LiveMail => HasName(m, name)')
    BY <1>1, <1>3, <1>4, AttachIsFine
  <2> DEFINE d == [at |-> IF live THEN doing[t].at ELSE "panicked", msg |-> doing[t].msg,
                   step |-> doing[t].step + 1]
  <2>2. doing' = [doing EXCEPT ![t] = d] /\ doing \in [Tries -> TryRecords]
    BY <1>2, <1>4, AttachedEdit DEF CallsTyped
  <2>3. /\ d \in TryRecords /\ d.msg = m /\ d.step = doing[t].step + 1
        /\ (live => d.at = "atts") /\ (~live => d.at = "panicked")
    BY <1>a, <1>1, <1>2 DEF TryRecords
  <2> HIDE DEF d
  <2>4. doing' \in [Tries -> TryRecords] /\ doing'[t] = d /\ \A s \in Tries : s # t => doing'[s] = doing[s]
    BY <2>2, <2>3
  <2>5. CallsTyped'
    BY <1>1, <1>2, <2>4 DEF CallsTyped
  <2>6. Len(mail) \in Nat
    BY DEF StoreInv, MailFine, MailTyped
  <2>7. m <= Len(mail) /\ m <= Len(mail')
    BY <1>a, <1>2, <1>3, <2>1, <2>6 DEF GoesOn, Evolves
  <2>8. ASSUME m \in LiveMail', NEW i \in DOMAIN names, i < doing[t].step + 1
        PROVE  HasName(m, names[i])'
    <3>1. /\ m \in LiveMail /\ \A n \in AttNames : HasName(m, n) => HasName(m, n)'
      BY <2>1, <2>7, <2>8 DEF Evolves
    <3>2. names[i] \in AttNames /\ i \in Nat
      BY <1>3
    <3>3. CASE i = doing[t].step
      BY <1>c, <2>1, <3>1, <3>3
    <3>4. CASE i # doing[t].step
      <4>1. i < doing[t].step
        BY <1>3, <2>8, <3>2, <3>4
      <4>2. HasName(m, names[i])
        BY <1>a, <1>b, <1>1, <1>2, <3>1, <4>1 DEF GoesOn
      <4> QED
        BY <3>1, <3>2, <4>2
    <3> QED
      BY <3>3, <3>4
  <2>9. GoesOn(t)'
    <3>1. doing'[t].at \in {"atts", "panicked"} /\ doing'[t].msg = m /\ doing'[t].step = doing[t].step + 1
      BY <1>0, <2>3, <2>4
    <3> QED
      BY <1>b, <1>1, <1>2, <2>7, <2>8, <3>1 DEF GoesOn
  <2>10. CallsFine'
    BY <1>1, <2>1, <2>4, <2>5, <2>9, CallsKeep
  <2> QED
    BY <2>1, <2>10 DEF StoreInv
<1>5. CASE BadAttachment(t, "atts")
  <2>1. To(t, "err") /\ UNCHANGED <<mail, atts, attCount, attData>>
    BY <1>5 DEF BadAttachment
  <2>2. MailFine' /\ Evolves
    BY <1>1, <2>1, MailStays
  <2>3. CallsFine'
    BY <1>1, <1>2, <2>1, <2>2, EndsWell
  <2> QED
    BY <2>2, <2>3 DEF StoreInv
<1> QED
  BY <1>1, <1>4, <1>5

\* A request succeeds that has done all its steps: an import or a deletion.
LEMMA AllDoneIsFine ==
    ASSUME StoreInv, NEW t \in Tries, Imported(t) \/ AllDeleted(t)
    PROVE  StoreInv'
<1>1. /\ To(t, "ok") /\ UNCHANGED <<mail, mailbox, users, atts, attCount, attData, asked>>
      /\ \/ doing[t].at = "atts" /\ doing[t].step > Len(asked[t[1]].names)
         \/ doing[t].at = "asked" /\ asked[t[1]].kind = "delete" /\ doing[t].step > Len(asked[t[1]].msgs)
  BY DEF Imported, AllAttached, AllDeleted, Asks, ListDone
<1>2. MailFine' /\ Evolves
  BY <1>1, MailStays
<1>3. CallsTyped /\ GoesOn(t) /\ mail' \in Seq(MailRecords)
  BY <1>2 DEF StoreInv, CallsFine, MailFine, MailTyped
<1>4. /\ doing' \in [Tries -> TryRecords]
      /\ doing'[t].at = "ok" /\ doing'[t].msg = doing[t].msg /\ doing'[t].step = doing[t].step
      /\ \A s \in Tries : s # t => doing'[s] = doing[s]
  BY <1>1, <1>3, ToIs
<1>5. CallsTyped'
  BY <1>1, <1>3, <1>4 DEF CallsTyped
<1>6. LiveMail' = LiveMail /\ 0 \notin LiveMail /\ \A m, n : HasName(m, n)' <=> HasName(m, n)
  BY <1>1, <1>3 DEF LiveMail, HasName
<1>7. Caller(t)' = Caller(t)
  BY DEF Caller
<1>8. GoesOn(t)'
  BY <1>1, <1>3, <1>4, <1>6, <1>7 DEF GoesOn
<1>9. CallsFine'
  BY <1>1, <1>2, <1>4, <1>5, <1>8, CallsKeep
<1> QED
  BY <1>2, <1>9 DEF StoreInv

\* DeleteNextMail: the message goes, or was gone.
LEMMA DeleteNextIsFine ==
    ASSUME StoreInv, NEW t \in Tries, DeleteNextMail(t)
    PROVE  StoreInv'
<1>a. PICK msgs : msgs = asked[t[1]].msgs
  OBVIOUS
<1>b. PICK m : m = msgs[doing[t].step]
  OBVIOUS
<1>1. /\ doing[t].at = "asked" /\ asked[t[1]].kind = "delete" /\ doing[t].step <= Len(msgs)
      /\ UNCHANGED <<users, attCount, asked>>
      /\ \/ /\ m \in LiveMail /\ Erase({m})
            /\ mailbox' = [mailbox EXCEPT ![Caller(t)] = mailbox[Caller(t)] \ {m}]
            /\ doing' = [doing EXCEPT ![t].step = @ + 1]
         \/ m \notin LiveMail /\ To(t, "err") /\ UNCHANGED <<mail, mailbox, atts, attData>>
  BY <1>a, <1>b DEF DeleteNextMail, Asks, StillListed
<1>2. /\ CallsTyped /\ GoesOn(t) /\ doing[t] \in TryRecords /\ t[1] \in Requests /\ AsksForOwn(t[1])
      /\ msgs \in Seq(Nat) /\ doing[t].step \in Nat \ {0} /\ Caller(t) \in Accounts /\ asked[t[1]] # NotAsked
  <2>1. t[1] \in Requests
    BY DEF Tries
  <2>2. CallsTyped /\ GoesOn(t) /\ doing[t] \in TryRecords /\ AsksForOwn(t[1]) /\ asked[t[1]] \in CallRecords
    BY <2>1 DEF StoreInv, CallsFine, CallsTyped
  <2>3. Caller(t) \in Accounts
    BY <2>1, MailStoreAssumption DEF Caller
  <2> QED
    BY <1>a, <1>1, <2>1, <2>2, <2>3 DEF CallRecords, TryRecords, NotAsked
<1>3. doing[t].step \in DOMAIN msgs /\ m \in Nat /\ m \in DOMAIN mail /\ Len(mail) \in Nat /\ m <= Len(mail)
      /\ \A u \in Accounts : u # Caller(t) => m \notin mailbox[u]
  <2>1. doing[t].step \in DOMAIN msgs
    BY <1>1, <1>2
  <2>2. mail \in Seq(MailRecords)
    BY DEF StoreInv, MailFine, MailTyped
  <2>3. m \in DOMAIN mail /\ \A u \in Accounts : u # Caller(t) => m \notin mailbox[u]
    BY <1>a, <1>b, <1>2, <2>1 DEF AsksForOwn, Caller
  <2> QED
    BY <2>1, <2>2, <2>3
<1>4. Caller(t)' = Caller(t)
  BY DEF Caller
<1>5. CASE /\ m \in LiveMail /\ Erase({m})
           /\ mailbox' = [mailbox EXCEPT ![Caller(t)] = mailbox[Caller(t)] \ {m}]
           /\ doing' = [doing EXCEPT ![t].step = @ + 1]
  <2>1. /\ mailbox' \in [Accounts -> SUBSET Nat]
        /\ \A u \in Accounts : mailbox'[u] \subseteq mailbox[u] \ {m}
    <3>1. mailbox \in [Accounts -> SUBSET Nat]
      BY DEF StoreInv, MailFine, MailTyped
    <3> QED
      BY <1>2, <1>3, <1>5, <3>1
  <2>2. MailFine' /\ Evolves /\ LiveMail' = LiveMail \ {m}
    <3> DEFINE ms == {m}
    <3>1. ms \subseteq LiveMail /\ Erase(ms) /\ \A u \in Accounts : mailbox'[u] \subseteq mailbox[u] \ ms
      BY <1>5, <2>1
    <3> HIDE DEF ms
    <3>2. MailFine' /\ Evolves /\ LiveMail' = LiveMail \ ms
      BY <1>1, <2>1, <3>1, EraseIsFine
    <3> QED
      BY <3>2 DEF ms
  <2> DEFINE d == [at |-> doing[t].at, msg |-> doing[t].msg, step |-> doing[t].step + 1]
  <2>3. doing' = [doing EXCEPT ![t] = d] /\ doing \in [Tries -> TryRecords]
    <3>1. doing' = [doing EXCEPT ![t].step = doing[t].step + 1]
      BY <1>2, <1>5 DEF CallsTyped
    <3> QED
      BY <1>2, <3>1, StepEdit DEF CallsTyped
  <2>4. d \in TryRecords /\ d.at = "asked" /\ d.msg = doing[t].msg /\ d.step = doing[t].step + 1
    BY <1>1, <1>2 DEF TryRecords
  <2> HIDE DEF d
  <2>5. doing' \in [Tries -> TryRecords] /\ doing'[t] = d /\ \A s \in Tries : s # t => doing'[s] = doing[s]
    BY <2>3, <2>4
  <2>6. CallsTyped'
    BY <1>1, <1>2, <2>5 DEF CallsTyped
  <2>7. doing[t].msg = 0
    BY <1>1, <1>2 DEF GoesOn
  <2>8. 0 <= Len(mail') /\ 0 \notin LiveMail'
    BY <2>2 DEF MailFine, MailTyped, LiveMail
  <2>9. ASSUME NEW i \in DOMAIN msgs, i < doing[t].step + 1
        PROVE  msgs[i] \notin LiveMail'
    <3>1. CASE i = doing[t].step
      BY <1>b, <2>2, <3>1
    <3>2. CASE i # doing[t].step
      <4>1. i < doing[t].step
        BY <1>2, <2>9, <3>2
      <4>2. msgs[i] \notin LiveMail
        BY <1>a, <1>1, <1>2, <4>1 DEF GoesOn
      <4> QED
        BY <2>2, <4>2
    <3> QED
      BY <3>1, <3>2
  <2>10. GoesOn(t)'
    <3>1. doing'[t].at = "asked" /\ doing'[t].msg = 0 /\ doing'[t].step = doing[t].step + 1
      BY <2>4, <2>5, <2>7
    <3> QED
      BY <1>a, <1>1, <1>2, <2>8, <2>9, <3>1 DEF GoesOn
  <2>11. CallsFine'
    BY <1>1, <2>2, <2>5, <2>6, <2>10, CallsKeep
  <2> QED
    BY <2>2, <2>11 DEF StoreInv
<1>6. CASE m \notin LiveMail /\ To(t, "err") /\ UNCHANGED <<mail, mailbox, atts, attData>>
  <2>1. MailFine' /\ Evolves
    BY <1>1, <1>6, MailStays
  <2>2. /\ doing' \in [Tries -> TryRecords]
        /\ doing'[t].at = "err" /\ doing'[t].msg = doing[t].msg /\ doing'[t].step = doing[t].step
        /\ \A s \in Tries : s # t => doing'[s] = doing[s]
    BY <1>2, <1>6, ToIs
  <2>3. CallsTyped'
    BY <1>1, <1>2, <2>2 DEF CallsTyped
  <2>4. LiveMail' = LiveMail
    BY <1>6 DEF LiveMail
  <2>5. \E i \in DOMAIN msgs : msgs[i] \notin LiveMail
    BY <1>b, <1>3, <1>6
  <2>6. GoesOn(t)'
    BY <1>a, <1>1, <1>2, <1>6, <2>2, <2>4, <2>5 DEF GoesOn
  <2>7. CallsFine'
    BY <1>1, <2>1, <2>2, <2>3, <2>6, CallsKeep
  <2> QED
    BY <2>1, <2>7 DEF StoreInv
<1> QED
  BY <1>1, <1>5, <1>6

\* Backend.RemoveUser.
LEMMA RemoveUserIsFine ==
    ASSUME StoreInv, NEW u \in Accounts, RemoveUser(u)
    PROVE  StoreInv'
<1>1. /\ Erase(mailbox[u]) /\ mailbox' = [mailbox EXCEPT ![u] = {}] /\ users' = users \ {u}
      /\ UNCHANGED <<attCount, asked, doing>>
  BY DEF RemoveUser
<1>2. mailbox \in [Accounts -> SUBSET Nat] /\ BoxesApart
  BY DEF StoreInv, MailFine, MailTyped
<1>3. mailbox[u] \subseteq LiveMail /\ \A v \in Accounts : v # u => mailbox[v] \cap mailbox[u] = {}
  BY <1>2 DEF BoxesApart
<1>4. mailbox' \in [Accounts -> SUBSET Nat] /\ users' \subseteq users
      /\ \A v \in Accounts : mailbox'[v] \subseteq mailbox[v] \ mailbox[u]
  BY <1>1, <1>2, <1>3
<1>5. MailFine' /\ Evolves
  <2>1. PICK ms : ms = mailbox[u]
    OBVIOUS
  <2>2. ms \subseteq LiveMail /\ Erase(ms) /\ \A v \in Accounts : mailbox'[v] \subseteq mailbox[v] \ ms
    BY <1>1, <1>3, <1>4, <2>1
  <2> QED
    BY <1>1, <1>4, <2>2, EraseIsFine
<1>6. CallsFine'
  BY <1>1, <1>5, CallsStay
<1> QED
  BY <1>5, <1>6 DEF StoreInv

\* CallServer: a call names what the account has at that time.
LEMMA CallServerIsFine ==
    ASSUME StoreInv, NEW r \in Requests, CallServer(r)
    PROVE  StoreInv'
<1>1. /\ asked[r] = NotAsked /\ To(<<r, 1>>, "asked") /\ UNCHANGED <<mail, mailbox, users, atts, attCount, attData>>
  BY DEF CallServer
<1>2. PICK call \in CallsOf(Owner[r]) : asked' = [asked EXCEPT ![r] = call]
  BY DEF CallServer
<1>3. /\ CallsTyped /\ mail \in Seq(MailRecords) /\ Owner[r] \in Accounts
      /\ mailbox \in [Accounts -> SUBSET Nat] /\ mailbox[Owner[r]] \subseteq LiveMail
      /\ \A v \in Accounts : v # Owner[r] => mailbox[Owner[r]] \cap mailbox[v] = {}
  BY MailStoreAssumption DEF StoreInv, CallsFine, MailFine, MailTyped, BoxesApart
<1>4. /\ call \in CallRecords /\ call.kind # "none" /\ (call.kind = "upload" => Len(call.names) = 1)
      /\ \A i \in DOMAIN call.msgs : call.msgs[i] \in mailbox[Owner[r]]
  <2> DEFINE box == mailbox[Owner[r]]
  <2>0. box \subseteq Nat
    BY <1>3
  <2>1. \A m \in box : <<m>> \in Seq(Nat) /\ \A i \in DOMAIN <<m>> : <<m>>[i] \in box
    BY <2>0
  <2>2. \A n \in AttNames : <<n>> \in Seq(AttNames) /\ Len(<<n>>) = 1
    OBVIOUS
  <2>3. \A s \in SeqOf(box, 2) : s \in Seq(Nat) /\ \A i \in DOMAIN s : s[i] \in box
    <3> SUFFICES ASSUME NEW s \in SeqOf(box, 2)
                 PROVE  s \in Seq(Nat) /\ \A i \in DOMAIN s : s[i] \in box
      OBVIOUS
    <3>1. PICK n \in 0 .. 2 : s \in [1 .. n -> box]
      BY DEF SeqOf
    <3>2. n \in Nat /\ s \in [1 .. n -> Nat]
      BY <2>0, <3>1
    <3>3. s \in Seq(Nat)
      BY <3>2, SeqDef
    <3> QED
      BY <3>1, <3>3
  <2>4. <<>> \in Seq(Nat) /\ <<>> \in Seq(AttNames) /\ DOMAIN <<>> = {}
    OBVIOUS
  <2> HIDE DEF box
  <2>5. CASE call \in [kind : {"draft"}, msgs : {<<>>}, names : {<<>>}]
    BY <2>4, <2>5 DEF CallRecords
  <2>6. CASE call \in [kind : {"import"}, msgs : {<<>>}, names : {<<n>> : n \in AttNames}]
    BY <2>2, <2>4, <2>6 DEF CallRecords
  <2>7. CASE call \in [kind : {"upload"}, msgs : {<<m>> : m \in box}, names : {<<n>> : n \in AttNames}]
    BY <2>1, <2>2, <2>7 DEF CallRecords, box
  <2>8. CASE call \in [kind : {"send"}, msgs : {<<m>> : m \in box}, names : {<<>>}]
    BY <2>1, <2>4, <2>8 DEF CallRecords, box
  <2>9. CASE call \in [kind : {"delete"}, msgs : {s \in SeqOf(box, 2) : s # <<>> /\ IsInjective(s)}, names : {<<>>}]
    BY <2>3, <2>4, <2>9 DEF CallRecords, box
  <2> QED
    BY <1>2, <2>5, <2>6, <2>7, <2>8, <2>9 DEF CallsOf, box
<1>5. MailFine' /\ Evolves
  BY <1>1, MailStays
<1>6. /\ <<r, 1>> \in Tries
      /\ doing' \in [Tries -> TryRecords]
      /\ doing'[<<r, 1>>].at = "asked" /\ doing'[<<r, 1>>].msg = doing[<<r, 1>>].msg
      /\ doing'[<<r, 1>>].step = doing[<<r, 1>>].step
      /\ \A s \in Tries : s # <<r, 1>> => doing'[s] = doing[s]
  <2>1. <<r, 1>> \in Tries
    BY DEF Tries
  <2> QED
    BY <1>1, <1>3, <2>1, ToIs
<1>7. /\ asked' \in [Requests -> CallRecords] /\ asked'[r] = call
      /\ \A q \in Requests : q # r => asked'[q] = asked[q]
  BY <1>2, <1>3, <1>4 DEF CallsTyped
<1>8. CallsTyped'
  BY <1>6, <1>7 DEF CallsTyped
<1>9. LiveMail' = LiveMail /\ LiveMail \subseteq DOMAIN mail /\ \A m, n : HasName(m, n)' <=> HasName(m, n)
  BY <1>1 DEF LiveMail, HasName
<1>10. ASSUME NEW q \in Requests
       PROVE  AsksForOwn(q)'
  <2>1. CASE q = r
    BY <1>1, <1>3, <1>4, <1>7, <1>9, <2>1 DEF AsksForOwn
  <2>2. CASE q # r
    <3>1. AsksForOwn(q)
      BY DEF StoreInv, CallsFine
    <3> QED
      BY <1>1, <1>7, <2>2, <3>1 DEF AsksForOwn
  <2> QED
    BY <2>1, <2>2
<1>11. ASSUME NEW t \in Tries
       PROVE  GoesOn(t)'
  <2>1. GoesOn(t) /\ t[1] \in Requests /\ Caller(t)' = Caller(t)
    BY DEF StoreInv, CallsFine, Tries, Caller
  <2>2. CASE t[1] # r
    <3>1. doing'[t] = doing[t] /\ asked'[t[1]] = asked[t[1]]
      BY <1>6, <1>7, <2>1, <2>2
    <3> QED
      BY <1>1, <1>9, <2>1, <3>1 DEF GoesOn
  <2>3. CASE t[1] = r
    <3>1. doing[t].at = "new" /\ doing[t].msg = 0 /\ doing[t].step = 1
      BY <1>1, <2>1, <2>3 DEF GoesOn
    <3>2. doing'[t].at \in {"new", "asked"} /\ doing'[t].msg = 0 /\ doing'[t].step = 1
      <4>1. CASE t = <<r, 1>>
        BY <1>6, <3>1, <4>1
      <4>2. CASE t # <<r, 1>>
        BY <1>6, <3>1, <4>2
      <4> QED
        BY <4>1, <4>2
    <3>3. asked'[t[1]] = call /\ call # NotAsked
      BY <1>4, <1>7, <2>3 DEF NotAsked
    <3>4. \A i \in DOMAIN call.msgs : ~(i < 1)
      BY <1>4 DEF CallRecords
    <3>5. 0 <= Len(mail') /\ 0 \notin LiveMail'
      BY <1>5 DEF MailFine, MailTyped, LiveMail
    <3> QED
      BY <3>2, <3>3, <3>4, <3>5 DEF GoesOn
  <2> QED
    BY <2>2, <2>3
<1> QED
  BY <1>5, <1>8, <1>10, <1>11 DEF StoreInv, CallsFine

\* CallAgain: the second request starts from the beginning.
LEMMA CallAgainIsFine ==
    ASSUME StoreInv, NEW r \in Requests, CallAgain(r)
    PROVE  StoreInv'
<1>1. PICK t : t = <<r, 2>>
  OBVIOUS
<1>2. /\ t \in Tries /\ t[1] = r /\ asked[t[1]] # NotAsked /\ doing[t].at = "new" /\ To(t, "asked")
      /\ UNCHANGED <<mail, mailbox, users, atts, attCount, attData, asked>>
  BY <1>1 DEF CallAgain, Tries
<1>3. MailFine' /\ Evolves
  BY <1>2, MailStays
<1>4. CallsTyped /\ GoesOn(t) /\ asked[t[1]] \in CallRecords
  BY <1>2 DEF StoreInv, CallsFine, CallsTyped
<1>5. /\ doing' \in [Tries -> TryRecords]
      /\ doing'[t].at = "asked" /\ doing'[t].msg = doing[t].msg /\ doing'[t].step = doing[t].step
      /\ \A s \in Tries : s # t => doing'[s] = doing[s]
  BY <1>2, <1>4, ToIs
<1>6. CallsTyped'
  BY <1>2, <1>4, <1>5 DEF CallsTyped
<1>7. doing'[t].msg = 0 /\ doing'[t].step = 1
  BY <1>2, <1>4, <1>5 DEF GoesOn
<1>8. \A i \in DOMAIN asked[t[1]].msgs : ~(i < 1)
  BY <1>4 DEF CallRecords
<1>9. 0 <= Len(mail') /\ 0 \notin LiveMail'
  BY <1>3 DEF MailFine, MailTyped, LiveMail
<1>10. GoesOn(t)'
  BY <1>2, <1>5, <1>7, <1>8, <1>9 DEF GoesOn
<1>11. CallsFine'
  BY <1>2, <1>3, <1>5, <1>6, <1>10, CallsKeep
<1> QED
  BY <1>3, <1>11 DEF StoreInv

\* Every step keeps the invariant.
LEMMA StoreSteps == ASSUME StoreInv, StoreNext PROVE StoreInv'
<1>1. ASSUME NEW r \in Requests, CallServer(r) \/ CallAgain(r)
      PROVE  StoreInv'
  BY <1>1, CallServerIsFine, CallAgainIsFine
<1>2. ASSUME NEW t \in Tries,
             \/ NoSuchUser(t) \/ CreateDraftOf(t) \/ Upload(t) \/ SendDraft(t)
             \/ ImportBody(t) \/ ImportAttachment(t) \/ Imported(t)
             \/ DeleteNextMail(t) \/ AllDeleted(t)
      PROVE  StoreInv'
  <2>1. CASE NoSuchUser(t) \/ CreateDraftOf(t) \/ Upload(t) \/ SendDraft(t)
    BY <2>1, NoSuchUserIsFine, CreateDraftIsFine, UploadIsFine, SendDraftIsFine
  <2>2. CASE ImportBody(t) \/ ImportAttachment(t) \/ DeleteNextMail(t)
    BY <2>2, ImportBodyIsFine, ImportAttachmentIsFine, DeleteNextIsFine
  <2>3. CASE Imported(t) \/ AllDeleted(t)
    BY <2>3, AllDoneIsFine
  <2> QED
    BY <1>2, <2>1, <2>2, <2>3
<1>3. ASSUME NEW u \in Accounts, RemoveUser(u)
      PROVE  StoreInv'
  BY <1>3, RemoveUserIsFine
<1> QED
  BY <1>1, <1>2, <1>3 DEF StoreNext

\* Messages, attachments and their data belong together, an import has all its
\* attachments and is made once, and a deletion says what it did, for any
\* number of calls of any accounts, each of which may lose the answer to its
\* first request (backend/api.go, backend/attachment.go; response.go).
THEOREM StoreStaysIntact == StoreSpec => []StoreIntact
<1>1. StoreInit => StoreInv
  <2> SUFFICES ASSUME StoreInit
               PROVE  StoreInv
    OBVIOUS
  <2> DEFINE d == [at |-> "new", msg |-> 0, step |-> 1]
  <2>1. d \in TryRecords /\ d.at = "new" /\ d.msg = 0 /\ d.step = 1
    BY MailStoreAssumption DEF TryRecords
  <2>2. doing = [t \in Tries |-> d]
    BY DEF StoreInit
  <2> HIDE DEF d
  <2>3. NotAsked \in CallRecords /\ NotAsked.kind = "none" /\ DOMAIN NotAsked.msgs = {}
    BY DEF NotAsked, CallRecords
  <2>4. asked = [r \in Requests |-> NotAsked]
    BY DEF StoreInit
  <2>5. CallsTyped
    BY <2>1, <2>2, <2>3, <2>4 DEF CallsTyped
  <2>6. ASSUME NEW r \in Requests
        PROVE  AsksForOwn(r)
    BY <2>3, <2>4 DEF AsksForOwn
  <2>7. mail \in Seq(MailRecords) /\ Len(mail) = 0 /\ LiveMail = {} /\ DOMAIN atts = {}
    BY DEF StoreInit, LiveMail
  <2>8. ASSUME NEW t \in Tries
        PROVE  GoesOn(t)
    <3>1. t[1] \in Requests
      BY DEF Tries
    <3> QED
      BY <2>1, <2>2, <2>3, <2>4, <2>7, <3>1 DEF GoesOn
  <2>9. MailTyped
    <3>1. MaxMail \in Nat /\ MaxAtts \in Nat
      BY MailStoreAssumption
    <3>2. atts \in [DOMAIN atts -> AttRecords]
      BY <2>7 DEF StoreInit
    <3> QED
      BY <2>7, <3>1, <3>2 DEF StoreInit, MailTyped
  <2>10. MailFine
    BY <2>7, <2>9 DEF StoreInit, MailFine, BoxesApart, MadeOnce, DataIsShared, AttachmentsOfOne, OrphansHaveACause
  <2> QED
    BY <2>5, <2>6, <2>8, <2>10 DEF StoreInv, CallsFine
<1>2. StoreInv /\ [StoreNext]_storeVars => StoreInv'
  <2> SUFFICES ASSUME StoreInv, [StoreNext]_storeVars
               PROVE  StoreInv'
    OBVIOUS
  <2>1. CASE UNCHANGED storeVars
    <3>1. MailFine' /\ Evolves
      BY <2>1, MailStays DEF storeVars
    <3>2. CallsFine'
      BY <2>1, <3>1, CallsStay DEF storeVars
    <3> QED
      BY <3>1, <3>2 DEF StoreInv
  <2>2. CASE StoreNext
    BY <2>2, StoreSteps
  <2> QED
    BY <2>1, <2>2
<1>3. StoreInv => StoreIntact
  <2> SUFFICES ASSUME StoreInv
               PROVE  StoreIntact
    OBVIOUS
  <2>1. MailFine /\ CallsTyped /\ \A t \in Tries : GoesOn(t)
    BY DEF StoreInv, CallsFine
  <2>2. StoreTypeOK
    <3>1. mailbox \in [Accounts -> SUBSET LiveMail]
      BY <2>1 DEF MailFine, MailTyped, BoxesApart
    <3>2. doing \in [Tries -> [at : {"new", "asked", "atts", "ok", "err", "panicked"},
                               msg : 0 .. MaxMail, step : Nat]]
      BY <2>1 DEF CallsTyped, TryRecords
    <3> QED
      BY <2>1, <3>1, <3>2 DEF MailFine, MailTyped, StoreTypeOK, MailRecords, AttRecords
  <2>3. ImportIsComplete
    <3> SUFFICES ASSUME NEW t \in Tries, doing[t].at = "ok", doing[t].msg \in LiveMail,
                        NEW i \in DOMAIN asked[t[1]].names
                 PROVE  \E a \in mail[doing[t].msg].atts : atts[a].name = asked[t[1]].names[i]
      BY DEF ImportIsComplete
    <3>1. asked[t[1]].names \in Seq(AttNames) /\ doing[t].step \in Nat
      BY <2>1 DEF CallsTyped, Tries, CallRecords, TryRecords
    <3>2. i < doing[t].step
      BY <2>1, <3>1 DEF GoesOn
    <3> QED
      BY <2>1, <3>2 DEF GoesOn, HasName
  <2>4. ImportedOnce
    <3> SUFFICES ASSUME Deduplicate, NEW r \in Requests
                 PROVE  Cardinality({m \in LiveMail : mail[m].request = r}) <= 1
      BY DEF ImportedOnce
    <3>1. \A m, k \in {j \in LiveMail : mail[j].request = r} : m = k
      BY <2>1 DEF MailFine, MadeOnce
    <3> QED
      BY <3>1, AtMostOne
  <2>5. DeletionAnswers
    <3> SUFFICES ASSUME NEW t \in Tries, asked[t[1]].kind = "delete", doing[t].at \in {"ok", "err"}
                 PROVE  LET left == {i \in DOMAIN asked[t[1]].msgs : asked[t[1]].msgs[i] \in LiveMail}
                        IN  IF doing[t].at = "ok" THEN left = {}
                            ELSE left # DOMAIN asked[t[1]].msgs \/ Caller(t) \notin users
      BY DEF DeletionAnswers
    <3>1. asked[t[1]].msgs \in Seq(Nat) /\ doing[t].step \in Nat
      BY <2>1 DEF CallsTyped, Tries, CallRecords, TryRecords
    <3>2. GoesOn(t)
      BY <2>1
    <3>3. CASE doing[t].at = "ok"
      <4>1. \A i \in DOMAIN asked[t[1]].msgs : asked[t[1]].msgs[i] \notin LiveMail
        BY <3>1, <3>2, <3>3 DEF GoesOn
      <4> QED
        BY <3>3, <4>1
    <3>4. CASE doing[t].at = "err"
      BY <3>2, <3>4 DEF GoesOn
    <3> QED
      BY <3>3, <3>4
  <2> QED
    BY <2>1, <2>2, <2>3, <2>4, <2>5 DEF StoreIntact, MailFine
<1> QED
  BY <1>1, <1>2, <1>3, PTL DEF StoreSpec

------------------------------------------------------------------------------
(* Calls in chunks. *)

Sizes == [AllListed -> MailSizes]

SumIs(sum, chunk, sizes) ==
    sum = [n \in 0 .. Len(chunk) |-> IF n = 0 THEN 0 ELSE sum[n - 1] + sizes[chunk[n]]]

\* The sum that SizeOf computes.
LEMMA SizeIs ==
    ASSUME NEW sizes \in Sizes, NEW chunk \in Seq(AllListed)
    PROVE  \E sum \in [0 .. Len(chunk) -> Nat] :
              /\ SizeOf(chunk, sizes) = sum[Len(chunk)] /\ sum[0] = 0
              /\ \A n \in 1 .. Len(chunk) : sum[n] = sum[n - 1] + sizes[chunk[n]]
<1>1. Len(chunk) \in Nat /\ \A n \in 1 .. Len(chunk) : chunk[n] \in AllListed /\ sizes[chunk[n]] \in Nat
  <2>1. \A n \in 1 .. Len(chunk) : chunk[n] \in AllListed
    OBVIOUS
  <2>2. \A m \in AllListed : sizes[m] \in Nat
    BY ChunkAssumption DEF Sizes
  <2> QED
    BY <2>1, <2>2
<1> DEFINE n == Len(chunk)
<1>2. \E s : SumIs(s, chunk, sizes)
  <2> DEFINE UpTo(k, s) == s = [i \in 0 .. k |-> IF i = 0 THEN 0 ELSE s[i - 1] + sizes[chunk[i]]]
             X == {k \in Nat : \E s : UpTo(k, s)}
  <2>1. 0 \in X
    <3>1. UpTo(0, [i \in 0 .. 0 |-> 0])
      OBVIOUS
    <3> QED
      BY <3>1
  <2>2. ASSUME NEW k \in X
        PROVE  k + 1 \in X
    <3>1. k \in Nat /\ \E s : UpTo(k, s)
      OBVIOUS
    <3>2. PICK s : UpTo(k, s)
      BY <3>1
    <3> DEFINE t == [i \in 0 .. k + 1 |-> IF i = 0 THEN 0 ELSE s[i - 1] + sizes[chunk[i]]]
    <3>3. \A i \in 0 .. k : t[i] = s[i]
      <4>1. 0 .. k \subseteq 0 .. k + 1
        BY <3>1
      <4> QED
        BY <3>2, <4>1
    <3>4. \A i \in 0 .. k + 1 : i # 0 => i - 1 \in 0 .. k
      BY <3>1
    <3>5. \A i \in 0 .. k + 1 : t[i] = IF i = 0 THEN 0 ELSE t[i - 1] + sizes[chunk[i]]
      BY <3>3, <3>4
    <3>6. t = [i \in 0 .. k + 1 |-> t[i]]
      OBVIOUS
    <3> HIDE DEF t
    <3>7. UpTo(k + 1, t)
      BY <3>5, <3>6
    <3> QED
      BY <3>1, <3>7
  <2>3. n \in X
    <3> HIDE DEF X, n
    <3>1. X \subseteq Nat
      BY DEF X
    <3> QED
      BY <1>1, <2>1, <2>2, <3>1, NatSet DEF n
  <2> QED
    BY <2>3 DEF SumIs
<1> DEFINE sum == CHOOSE s : SumIs(s, chunk, sizes)
<1>3. SumIs(sum, chunk, sizes)
  BY <1>2
<1>4. SizeOf(chunk, sizes) = sum[n]
  BY DEF SizeOf, SumIs
<1> HIDE DEF sum
<1>5. /\ sum = [i \in 0 .. n |-> sum[i]] /\ sum[0] = 0
      /\ \A i \in 1 .. n : sum[i] = sum[i - 1] + sizes[chunk[i]]
  <2>1. \A i \in 0 .. n : sum[i] = IF i = 0 THEN 0 ELSE sum[i - 1] + sizes[chunk[i]]
    BY <1>3 DEF SumIs
  <2>2. sum = [i \in 0 .. n |-> sum[i]]
    BY <1>3 DEF SumIs
  <2> HIDE DEF n
  <2>3. 0 \in 0 .. n /\ \A i \in 1 .. n : i \in 0 .. n /\ i # 0
    BY <1>1 DEF n
  <2> QED
    BY <2>1, <2>2, <2>3
<1> HIDE DEF n
<1> DEFINE X == {i \in Nat : i <= n => sum[i] \in Nat}
<1>6. 0 \in X
  BY <1>5
<1>7. ASSUME NEW i \in X
      PROVE  i + 1 \in X
  <2>1. CASE i + 1 <= n
    <3>1. i + 1 \in 1 .. n /\ (i + 1) - 1 = i /\ i <= n /\ i \in Nat
      BY <1>1, <2>1 DEF n
    <3>2. sum[i + 1] = sum[i] + sizes[chunk[i + 1]] /\ sum[i] \in Nat /\ sizes[chunk[i + 1]] \in Nat
      BY <1>1, <1>5, <3>1 DEF n
    <3> QED
      BY <3>1, <3>2
  <2> QED
    BY <2>1
<1>8. \A i \in 0 .. n : sum[i] \in Nat
  <2> HIDE DEF X
  <2>1. X \subseteq Nat
    BY DEF X
  <2>2. X = Nat
    BY <1>6, <1>7, <2>1, NatSet
  <2>3. \A i \in Nat : i <= n => sum[i] \in Nat
    BY <2>2 DEF X
  <2> QED
    BY <1>1, <2>3 DEF n
<1>9. sum \in [0 .. n -> Nat]
  BY <1>5, <1>8
<1> QED
  BY <1>4, <1>5, <1>9 DEF n

\* Messages are numbers.
LEMMA ListedAreNat == AllListed \subseteq Nat /\ \A s \in Seq(AllListed) : s \in Seq(Nat)
<1>1. AllListed \subseteq Nat
  BY DEF AllListed
<1>2. ASSUME NEW s \in Seq(AllListed)
      PROVE  s \in Seq(Nat)
  <2>1. Len(s) \in Nat /\ s \in [1 .. Len(s) -> AllListed]
    OBVIOUS
  <2>2. s \in [1 .. Len(s) -> Nat]
    BY <1>1, <2>1
  <2> QED
    BY <2>1, <2>2, SeqDef
<1> QED
  BY <1>1, <1>2

\* One more message adds its size.
LEMMA SizeGrows ==
    ASSUME NEW sizes \in Sizes, NEW chunk \in Seq(AllListed), NEW m \in AllListed
    PROVE  /\ SizeOf(chunk, sizes) \in Nat /\ sizes[m] \in Nat
           /\ SizeOf(Append(chunk, m), sizes) = SizeOf(chunk, sizes) + sizes[m]
           /\ SizeOf(<<m>>, sizes) = sizes[m]
<1>0. sizes[m] \in Nat
  BY ChunkAssumption DEF Sizes
<1> DEFINE more == Append(chunk, m)
           n == Len(chunk)
<1>1. /\ n \in Nat /\ more \in Seq(AllListed) /\ Len(more) = n + 1 /\ more[n + 1] = m
      /\ \A i \in 1 .. n : more[i] = chunk[i]
  OBVIOUS
<1> HIDE DEF more
<1>2. PICK sum \in [0 .. n -> Nat] :
         /\ SizeOf(chunk, sizes) = sum[n] /\ sum[0] = 0
         /\ \A i \in 1 .. n : sum[i] = sum[i - 1] + sizes[chunk[i]]
  BY SizeIs
<1>3. PICK all \in [0 .. n + 1 -> Nat] :
         /\ SizeOf(more, sizes) = all[n + 1] /\ all[0] = 0
         /\ \A i \in 1 .. n + 1 : all[i] = all[i - 1] + sizes[more[i]]
  <2>1. more \in Seq(AllListed) /\ Len(more) = n + 1
    BY <1>1
  <2>2. \E all \in [0 .. Len(more) -> Nat] :
           /\ SizeOf(more, sizes) = all[Len(more)] /\ all[0] = 0
           /\ \A i \in 1 .. Len(more) : all[i] = all[i - 1] + sizes[more[i]]
    BY <2>1, SizeIs
  <2> HIDE DEF n
  <2> QED
    BY <2>1, <2>2
<1> HIDE DEF n
<1> DEFINE X == {i \in Nat : i <= n => all[i] = sum[i]}
<1>4. 0 \in X
  BY <1>1, <1>2, <1>3
<1>5. ASSUME NEW i \in X
      PROVE  i + 1 \in X
  <2>1. CASE i + 1 <= n
    <3>1. i + 1 \in 1 .. n /\ i + 1 \in 1 .. n + 1 /\ (i + 1) - 1 = i /\ i <= n
      BY <1>1, <2>1
    <3>2. all[i + 1] = all[i] + sizes[more[i + 1]] /\ sum[i + 1] = sum[i] + sizes[chunk[i + 1]]
      BY <1>2, <1>3, <3>1
    <3> QED
      BY <1>1, <3>1, <3>2
  <2> QED
    BY <2>1
<1>6. all[n] = sum[n]
  <2> HIDE DEF X
  <2>1. X \subseteq Nat
    BY DEF X
  <2>2. n \in X
    BY <1>1, <1>4, <1>5, <2>1, NatSet
  <2> QED
    BY <1>1, <2>2 DEF X
<1>7. all[n + 1] = all[n] + sizes[m]
  BY <1>1, <1>3
<1>8. SizeOf(<<m>>, sizes) = sizes[m]
  <2>1. <<m>> \in Seq(AllListed) /\ Len(<<m>>) = 1 /\ <<m>>[1] = m
    OBVIOUS
  <2>2. PICK one \in [0 .. 1 -> Nat] :
           /\ SizeOf(<<m>>, sizes) = one[1] /\ one[0] = 0
           /\ \A i \in 1 .. 1 : one[i] = one[i - 1] + sizes[<<m>>[i]]
    BY <2>1, SizeIs
  <2>3. one[1] = one[0] + sizes[m]
    BY <2>1, <2>2
  <2> QED
    BY <1>0, <2>2, <2>3
<1> QED
  BY <1>0, <1>1, <1>2, <1>3, <1>6, <1>7, <1>8 DEF more, n

\* The last message of the chunks up to the kth.
EndOf(chunks, k) == IF k = 0 THEN 0 ELSE Last(chunks[k])

\* The chunks are the messages 1 .. n cut up, none is empty, too long or too large.
CutUp(chunks, n, sizes) ==
    /\ chunks \in Seq(Seq(AllListed)) /\ EndOf(chunks, Len(chunks)) = n
    /\ \A k \in DOMAIN chunks :
          /\ Len(chunks[k]) \in 1 .. ChunkLen /\ SizeOf(chunks[k], sizes) <= MaxSize
          /\ \A i \in DOMAIN chunks[k] : chunks[k][i] = EndOf(chunks, k - 1) + i

LEMMA CutGrows ==
    ASSUME NEW sizes \in Sizes, NEW m \in AllListed, sizes[m] <= MaxSize, NEW chunks, CutUp(chunks, m - 1, sizes)
    PROVE  CutUp(WithMessage(chunks, m, sizes), m, sizes)
<1> DEFINE n == Len(chunks)
<1>1. /\ chunks \in Seq(Seq(AllListed)) /\ n \in Nat /\ DOMAIN chunks = 1 .. n
      /\ \A k \in 1 .. n : chunks[k] \in Seq(AllListed)
  <2>1. chunks \in Seq(Seq(AllListed))
    BY DEF CutUp
  <2> QED
    BY <2>1
<1>2. \A k \in 1 .. n :
         /\ Len(chunks[k]) \in 1 .. ChunkLen /\ SizeOf(chunks[k], sizes) <= MaxSize
         /\ \A i \in 1 .. Len(chunks[k]) : chunks[k][i] = EndOf(chunks, k - 1) + i
  <2> TAKE k \in 1 .. n
  <2>1. DOMAIN chunks[k] = 1 .. Len(chunks[k])
    BY <1>1
  <2> QED
    BY <1>1, <2>1 DEF CutUp
<1>3. EndOf(chunks, n) = m - 1 /\ m \in Nat /\ sizes[m] \in Nat /\ ChunkLen \in Nat \ {0}
  <2>1. EndOf(chunks, n) = m - 1
    BY DEF CutUp
  <2>2. m \in Nat /\ ChunkLen \in Nat \ {0}
    BY ChunkAssumption DEF AllListed
  <2>3. sizes[m] \in Nat
    BY ChunkAssumption DEF Sizes
  <2> QED
    BY <2>1, <2>2, <2>3
<1> HIDE DEF n
<1>4. CASE chunks # <<>> /\ Fits(Last(chunks), m, sizes)
  <2> DEFINE last == chunks[n]
             more == Append(last, m)
             new == Append(Front(chunks), more)
  <2>1. n \in 1 .. n /\ Last(chunks) = last /\ n - 1 \in Nat
    BY <1>1, <1>4 DEF n, Last
  <2>2. last \in Seq(AllListed) /\ Len(last) \in Nat
    BY <1>1, <2>1
  <2>3. Len(last) < ChunkLen /\ SizeOf(last, sizes) + sizes[m] <= MaxSize
    BY <1>4, <2>1 DEF Fits
  <2> HIDE DEF last
  <2>4. more \in Seq(AllListed) /\ Len(more) = Len(last) + 1 /\ more[Len(last) + 1] = m
        /\ \A i \in 1 .. Len(last) : more[i] = last[i]
    BY <2>2
  <2>5. SizeOf(more, sizes) <= MaxSize
    BY <2>2, <2>3, SizeGrows
  <2> HIDE DEF more
  <2>6. /\ Front(chunks) \in Seq(Seq(AllListed)) /\ Len(Front(chunks)) = n - 1
        /\ \A k \in 1 .. n - 1 : Front(chunks)[k] = chunks[k]
    <3>1. Front(chunks) = SubSeq(chunks, 1, n - 1) /\ Len(chunks) = n
      BY DEF Front, n
    <3>2. 1 \in 1 .. n + 1 /\ n - 1 \in 0 .. n /\ (n - 1) - 1 + 1 = n - 1
      BY <1>1, <2>1
    <3> QED
      BY <1>1, <3>1, <3>2, SubSeqProperties
  <2>7. new \in Seq(Seq(AllListed)) /\ Len(new) = n /\ new[n] = more /\ \A k \in 1 .. n - 1 : new[k] = chunks[k]
    <3>1. /\ new \in Seq(Seq(AllListed)) /\ Len(new) = (n - 1) + 1 /\ new[(n - 1) + 1] = more
          /\ \A k \in 1 .. n - 1 : new[k] = Front(chunks)[k]
      BY <2>4, <2>6, AppendProperties
    <3>2. (n - 1) + 1 = n
      BY <1>1
    <3> QED
      BY <2>6, <3>1, <3>2
  <2>8. WithMessage(chunks, m, sizes) = new
    BY <1>4, <2>1 DEF WithMessage, last, more
  <2> HIDE DEF new
  <2>9. \A k \in 0 .. n - 1 : EndOf(new, k) = EndOf(chunks, k)
    BY <2>7 DEF EndOf
  <2>10. EndOf(new, n) = m
    BY <2>1, <2>2, <2>4, <2>7 DEF EndOf, Last
  <2>11. EndOf(chunks, n - 1) \in Int
    <3>1. CASE n - 1 = 0
      BY <3>1 DEF EndOf
    <3>2. CASE n - 1 # 0
      <4>1. n - 1 \in 1 .. n
        BY <2>1, <3>2
      <4>2. chunks[n - 1] \in Seq(AllListed) /\ Len(chunks[n - 1]) \in 1 .. Len(chunks[n - 1])
        BY <1>1, <1>2, <4>1
      <4>3. chunks[n - 1][Len(chunks[n - 1])] \in AllListed
        BY <4>2
      <4> QED
        BY <3>2, <4>3 DEF EndOf, Last, AllListed
    <3> QED
      BY <3>1, <3>2
  <2>12. m = EndOf(chunks, n - 1) + Len(last) + 1
    <3>1. Len(last) \in 1 .. Len(last)
      BY <1>2, <2>1, <2>2 DEF last
    <3>2. last[Len(last)] = EndOf(chunks, n - 1) + Len(last)
      BY <1>2, <2>1, <3>1 DEF last
    <3>3. last[Len(last)] = m - 1
      BY <1>3, <2>1 DEF EndOf, Last, last
    <3> QED
      BY <1>3, <2>2, <3>2, <3>3, <2>11
  <2>13. ASSUME NEW k \in DOMAIN new
         PROVE  /\ Len(new[k]) \in 1 .. ChunkLen /\ SizeOf(new[k], sizes) <= MaxSize
                /\ \A i \in DOMAIN new[k] : new[k][i] = EndOf(new, k - 1) + i
    <3>1. k \in 1 .. n
      BY <2>7
    <3>2. CASE k = n
      <4>1. EndOf(new, k - 1) = EndOf(chunks, n - 1)
        BY <2>1, <2>9, <3>2
      <4>2. DOMAIN more = 1 .. Len(last) + 1
        BY <2>4
      <4>3. ASSUME NEW i \in DOMAIN more
            PROVE  more[i] = EndOf(chunks, n - 1) + i
        <5>1. CASE i = Len(last) + 1
          BY <2>2, <2>4, <2>11, <2>12, <5>1, <1>3
        <5>2. CASE i # Len(last) + 1
          <6>1. i \in 1 .. Len(last)
            BY <2>2, <4>2, <5>2
          <6>2. last[i] = EndOf(chunks, n - 1) + i
            BY <1>2, <2>1, <6>1 DEF last
          <6> QED
            BY <2>4, <6>1, <6>2
        <5> QED
          BY <5>1, <5>2
      <4>4. Len(more) \in 1 .. ChunkLen
        BY <1>3, <2>2, <2>3, <2>4
      <4> QED
        BY <2>5, <2>7, <3>2, <4>1, <4>3, <4>4
    <3>3. CASE k # n
      <4>1. k \in 1 .. n - 1 /\ k - 1 \in 0 .. n - 1 /\ new[k] = chunks[k]
        BY <2>1, <2>7, <3>1, <3>3
      <4>2. EndOf(new, k - 1) = EndOf(chunks, k - 1)
        BY <2>9, <4>1
      <4>3. DOMAIN chunks[k] = 1 .. Len(chunks[k])
        BY <1>1, <3>1
      <4> QED
        BY <1>2, <3>1, <4>1, <4>2, <4>3
    <3> QED
      BY <3>2, <3>3
  <2>14. CutUp(new, m, sizes)
    BY <2>7, <2>10, <2>13 DEF CutUp
  <2> QED
    BY <2>8, <2>14
<1>5. CASE ~(chunks # <<>> /\ Fits(Last(chunks), m, sizes))
  <2> DEFINE one == <<m>>
             new == Append(chunks, one)
  <2>1. one \in Seq(AllListed) /\ Len(one) = 1 /\ one[1] = m
    OBVIOUS
  <2>2. SizeOf(one, sizes) = sizes[m]
    <3>1. <<>> \in Seq(AllListed)
      OBVIOUS
    <3> QED
      BY <3>1, SizeGrows
  <2>3. WithMessage(chunks, m, sizes) = new
    BY <1>5 DEF WithMessage
  <2> HIDE DEF one
  <2>4. /\ new \in Seq(Seq(AllListed)) /\ Len(new) = n + 1 /\ new[n + 1] = one
        /\ \A k \in 1 .. n : new[k] = chunks[k]
    BY <1>1, <2>1 DEF n
  <2> HIDE DEF new
  <2>5. ASSUME NEW k \in 0 .. n
        PROVE  EndOf(new, k) = EndOf(chunks, k)
    <3>1. k = 0 \/ k \in 1 .. n
      BY <1>1
    <3> QED
      BY <2>4, <3>1 DEF EndOf
  <2>6. EndOf(new, n + 1) = m
    <3>1. Last(one) = m
      BY <2>1 DEF Last
    <3>2. n + 1 # 0
      BY <1>1
    <3> QED
      BY <2>4, <3>1, <3>2 DEF EndOf
  <2>7. ASSUME NEW k \in DOMAIN new
        PROVE  /\ Len(new[k]) \in 1 .. ChunkLen /\ SizeOf(new[k], sizes) <= MaxSize
               /\ \A i \in DOMAIN new[k] : new[k][i] = EndOf(new, k - 1) + i
    <3>1. k \in 1 .. n + 1
      BY <1>1, <2>4
    <3>2. CASE k = n + 1
      <4>1. EndOf(new, k - 1) = m - 1
        BY <1>1, <1>3, <2>5, <3>2
      <4>2. DOMAIN one = 1 .. 1
        BY <2>1
      <4>3. new[k] = one
        BY <2>4, <3>2
      <4>4. Len(one) \in 1 .. ChunkLen
        BY <1>3, <2>1
      <4>5. \A i \in 1 .. 1 : one[i] = (m - 1) + i
        BY <1>3, <2>1
      <4> QED
        BY <2>2, <4>1, <4>2, <4>3, <4>4, <4>5
    <3>3. CASE k # n + 1
      <4>1. k \in 1 .. n /\ k - 1 \in 0 .. n /\ new[k] = chunks[k]
        BY <1>1, <2>4, <3>1, <3>3
      <4>2. EndOf(new, k - 1) = EndOf(chunks, k - 1)
        BY <2>5, <4>1
      <4>3. DOMAIN chunks[k] = 1 .. Len(chunks[k])
        BY <1>1, <4>1
      <4> QED
        BY <1>2, <4>1, <4>2, <4>3
    <3> QED
      BY <3>2, <3>3
  <2>8. CutUp(new, m, sizes)
    BY <1>1, <2>4, <2>6, <2>7 DEF CutUp
  <2> QED
    BY <2>3, <2>8
<1> QED
  BY <1>4, <1>5

CutIs(cut, sizes) == cut = [m \in 0 .. Listed |-> IF m = 0 THEN <<>> ELSE WithMessage(cut[m - 1], m, sizes)]

\* For every list of sizes that are not too large, ChunkSized cuts up the list.
LEMMA ChunkSizedCuts ==
    ASSUME NEW sizes \in Sizes, \A m \in AllListed : sizes[m] <= MaxSize
    PROVE  CutUp(ChunkSized(sizes), Listed, sizes)
<1>0. Listed \in Nat
  BY ChunkAssumption
<1>1. \E cut : CutIs(cut, sizes)
  <2> DEFINE UpTo(n, f) == f = [m \in 0 .. n |-> IF m = 0 THEN <<>> ELSE WithMessage(f[m - 1], m, sizes)]
             X == {n \in Nat : \E f : UpTo(n, f)}
  <2>1. 0 \in X
    <3>1. UpTo(0, [m \in 0 .. 0 |-> <<>>])
      OBVIOUS
    <3> QED
      BY <3>1
  <2>2. ASSUME NEW n \in X
        PROVE  n + 1 \in X
    <3>1. n \in Nat /\ \E f : UpTo(n, f)
      OBVIOUS
    <3>2. PICK f : UpTo(n, f)
      BY <3>1
    <3> DEFINE g == [m \in 0 .. n + 1 |-> IF m = 0 THEN <<>> ELSE WithMessage(f[m - 1], m, sizes)]
    <3>3. \A m \in 0 .. n : g[m] = f[m]
      <4>1. 0 .. n \subseteq 0 .. n + 1
        BY <3>1
      <4> QED
        BY <3>2, <4>1
    <3>4. \A m \in 0 .. n + 1 : m # 0 => m - 1 \in 0 .. n
      BY <3>1
    <3>5. \A m \in 0 .. n + 1 : g[m] = IF m = 0 THEN <<>> ELSE WithMessage(g[m - 1], m, sizes)
      BY <3>3, <3>4
    <3>6. g = [m \in 0 .. n + 1 |-> g[m]]
      OBVIOUS
    <3> HIDE DEF g
    <3>7. UpTo(n + 1, g)
      BY <3>5, <3>6
    <3> QED
      BY <3>1, <3>7
  <2>3. Listed \in X
    <3> HIDE DEF X
    <3>1. X \subseteq Nat
      BY DEF X
    <3> QED
      BY <1>0, <2>1, <2>2, <3>1, NatSet
  <2> QED
    BY <2>3 DEF CutIs
<1> DEFINE cut == CHOOSE c : CutIs(c, sizes)
<1>2. CutIs(cut, sizes)
  BY <1>1
<1>3. ChunkSized(sizes) = cut[Listed]
  BY DEF ChunkSized, CutIs
<1> HIDE DEF cut
<1>4. \A m \in 0 .. Listed : cut[m] = IF m = 0 THEN <<>> ELSE WithMessage(cut[m - 1], m, sizes)
  BY <1>2 DEF CutIs
<1> DEFINE Y == {m \in Nat : m <= Listed => CutUp(cut[m], m, sizes)}
<1>5. 0 \in Y
  <2>1. cut[0] = <<>>
    BY <1>0, <1>4
  <2>2. CutUp(<<>>, 0, sizes)
    BY DEF CutUp, EndOf
  <2> QED
    BY <2>1, <2>2
<1>6. ASSUME NEW m \in Y
      PROVE  m + 1 \in Y
  <2>1. CASE m + 1 <= Listed
    <3>1. m + 1 \in AllListed /\ m + 1 \in 0 .. Listed /\ m + 1 # 0 /\ (m + 1) - 1 = m /\ m <= Listed
      BY <1>0, <2>1 DEF AllListed
    <3>2. CutUp(cut[m], m, sizes)
      BY <3>1
    <3>3. CutUp(WithMessage(cut[m], m + 1, sizes), m + 1, sizes)
      BY <3>1, <3>2, CutGrows
    <3>4. cut[m + 1] = WithMessage(cut[m], m + 1, sizes)
      BY <1>4, <3>1
    <3> QED
      BY <3>3, <3>4
  <2> QED
    BY <2>1
<1>7. CutUp(cut[Listed], Listed, sizes)
  <2> HIDE DEF Y
  <2>1. Y \subseteq Nat
    BY DEF Y
  <2>2. Listed \in Y
    BY <1>0, <1>5, <1>6, <2>1, NatSet
  <2> QED
    BY <2>2 DEF Y
<1> QED
  BY <1>3, <1>7

\* What the chunks up to the kth are.
LEMMA ChunkIs ==
    ASSUME NEW sizes, NEW n, NEW chunks, CutUp(chunks, n, sizes), NEW k \in 1 .. Len(chunks)
    PROVE  /\ k \in DOMAIN chunks /\ chunks[k] \in Seq(AllListed)
           /\ EndOf(chunks, k) \in AllListed /\ EndOf(chunks, k - 1) \in Nat
           /\ Len(chunks[k]) \in 1 .. ChunkLen
           /\ EndOf(chunks, k) = EndOf(chunks, k - 1) + Len(chunks[k])
           /\ \A i \in 1 .. Len(chunks[k]) : chunks[k][i] = EndOf(chunks, k - 1) + i
           /\ ToSet(chunks[k]) = EndOf(chunks, k - 1) + 1 .. EndOf(chunks, k)
<1>1. chunks \in Seq(Seq(AllListed)) /\ DOMAIN chunks = 1 .. Len(chunks) /\ Len(chunks) \in Nat
  <2>1. chunks \in Seq(Seq(AllListed))
    BY DEF CutUp
  <2> QED
    BY <2>1
<1>2. \A j \in 1 .. Len(chunks) :
         /\ chunks[j] \in Seq(AllListed) /\ DOMAIN chunks[j] = 1 .. Len(chunks[j])
         /\ Len(chunks[j]) \in 1 .. ChunkLen
         /\ \A i \in 1 .. Len(chunks[j]) : chunks[j][i] = EndOf(chunks, j - 1) + i
  <2> TAKE j \in 1 .. Len(chunks)
  <2>1. chunks[j] \in Seq(AllListed)
    BY <1>1
  <2>2. DOMAIN chunks[j] = 1 .. Len(chunks[j])
    BY <2>1
  <2> QED
    BY <1>1, <2>1, <2>2 DEF CutUp
<1>3. \A j \in 1 .. Len(chunks) : EndOf(chunks, j) = chunks[j][Len(chunks[j])] /\ EndOf(chunks, j) \in AllListed
  <2> TAKE j \in 1 .. Len(chunks)
  <2>1. EndOf(chunks, j) = chunks[j][Len(chunks[j])]
    BY <1>1 DEF EndOf, Last
  <2>2. Len(chunks[j]) \in 1 .. Len(chunks[j])
    BY <1>2
  <2>3. chunks[j][Len(chunks[j])] \in AllListed
    BY <1>2, <2>2
  <2> QED
    BY <2>1, <2>3
<1>4. EndOf(chunks, k - 1) \in Nat
  <2>1. CASE k = 1
    BY <2>1 DEF EndOf
  <2>2. CASE k # 1
    <3>1. k - 1 \in 1 .. Len(chunks)
      BY <1>1, <2>2
    <3> QED
      BY <1>3, <3>1 DEF AllListed
  <2> QED
    BY <2>1, <2>2
<1>5. EndOf(chunks, k) = EndOf(chunks, k - 1) + Len(chunks[k])
  <2>1. Len(chunks[k]) \in 1 .. Len(chunks[k])
    BY <1>2
  <2> QED
    BY <1>2, <1>3, <2>1
<1> DEFINE e == EndOf(chunks, k - 1)
           c == chunks[k]
<1>6. ToSet(c) = e + 1 .. e + Len(c)
  <2>1. DOMAIN c = 1 .. Len(c) /\ Len(c) \in Nat /\ e \in Nat /\ \A i \in 1 .. Len(c) : c[i] = e + i
    BY <1>2, <1>4
  <2> HIDE DEF c, e
  <2>2. ToSet(c) = {c[i] : i \in 1 .. Len(c)}
    BY <2>1 DEF ToSet
  <2>3. ASSUME NEW m \in e + 1 .. e + Len(c)
        PROVE  m \in ToSet(c)
    <3>1. m - e \in 1 .. Len(c) /\ e + (m - e) = m
      BY <2>1
    <3>2. c[m - e] = m
      BY <2>1, <3>1
    <3> QED
      BY <2>2, <3>1, <3>2
  <2>4. ASSUME NEW i \in 1 .. Len(c)
        PROVE  c[i] \in e + 1 .. e + Len(c)
    BY <2>1, <2>4
  <2> QED
    BY <2>2, <2>3, <2>4
<1> QED
  BY <1>1, <1>2, <1>3, <1>4, <1>5, <1>6

\* The chunks follow each other, none is longer than it may be.
LEMMA EndsGrow ==
    ASSUME NEW sizes, NEW n, NEW chunks, CutUp(chunks, n, sizes)
    PROVE  /\ \A k \in 0 .. Len(chunks) : EndOf(chunks, k) \in Nat
           /\ \A k, j \in 0 .. Len(chunks) :
                 k <= j => /\ EndOf(chunks, k) <= EndOf(chunks, j)
                           /\ EndOf(chunks, j) - EndOf(chunks, k) <= (j - k) * ChunkLen
<1>0. ChunkLen \in Nat
  BY ChunkAssumption
<1>1. Len(chunks) \in Nat
  <2>1. chunks \in Seq(Seq(AllListed))
    BY DEF CutUp
  <2> QED
    BY <2>1
<1>2. ASSUME NEW k \in 0 .. Len(chunks)
      PROVE  EndOf(chunks, k) \in Nat
  <2>1. CASE k = 0
    BY <2>1 DEF EndOf
  <2>2. CASE k # 0
    <3>1. k \in 1 .. Len(chunks)
      BY <1>1, <2>2
    <3> QED
      BY <3>1, ChunkIs DEF AllListed
  <2> QED
    BY <2>1, <2>2
<1>3. ASSUME NEW k \in 0 .. Len(chunks), NEW j \in 0 .. Len(chunks), k <= j
      PROVE  EndOf(chunks, k) <= EndOf(chunks, j) /\ EndOf(chunks, j) - EndOf(chunks, k) <= (j - k) * ChunkLen
  <2> DEFINE Near(d) == /\ EndOf(chunks, k) <= EndOf(chunks, k + d)
                        /\ EndOf(chunks, k + d) - EndOf(chunks, k) <= d * ChunkLen
             X == {d \in Nat : k + d <= Len(chunks) => Near(d)}
  <2>1. 0 \in X
    BY <1>0, <1>2
  <2>2. ASSUME NEW d \in X
        PROVE  d + 1 \in X
    <3>1. CASE k + (d + 1) <= Len(chunks)
      <4>1. d \in Nat /\ k \in Nat /\ k + d \in 0 .. Len(chunks) /\ k + (d + 1) \in 1 .. Len(chunks)
            /\ (k + (d + 1)) - 1 = k + d
        BY <1>1, <3>1
      <4>2. Near(d)
        BY <4>1
      <4>3. EndOf(chunks, k + (d + 1)) = EndOf(chunks, k + d) + Len(chunks[k + (d + 1)])
            /\ Len(chunks[k + (d + 1)]) \in 1 .. ChunkLen
        BY <4>1, ChunkIs
      <4>4. EndOf(chunks, k) \in Nat /\ EndOf(chunks, k + d) \in Nat
        BY <1>2, <4>1
      <4>5. (d + 1) * ChunkLen = d * ChunkLen + ChunkLen /\ d * ChunkLen \in Nat
        BY <1>0, <4>1
      <4>6. Near(d + 1)
        BY <1>0, <4>2, <4>3, <4>4, <4>5
      <4> QED
        BY <4>1, <4>6
    <3> QED
      BY <3>1
  <2>3. j - k \in X
    <3> HIDE DEF X
    <3>1. X \subseteq Nat
      BY DEF X
    <3>2. j - k \in Nat
      BY <1>1, <1>3
    <3> QED
      BY <2>1, <2>2, <3>1, <3>2, NatSet
  <2>4. k + (j - k) = j /\ j <= Len(chunks)
    BY <1>1
  <2> QED
    BY <2>3, <2>4
<1> QED
  BY <1>2, <1>3

FlatIs(f, chunks) == f = [i \in 1 .. Len(chunks) |-> IF i = 1 THEN chunks[i] ELSE f[i - 1] \o chunks[i]]

\* The messages up to one, and those that follow it.
LEMMA Follow ==
    ASSUME NEW e \in Nat, NEW next \in Seq(Nat), \A i \in 1 .. Len(next) : next[i] = e + i
    PROVE  LET first == [m \in 1 .. e |-> m]
           IN  /\ first \in Seq(Nat) /\ Len(first) = e
               /\ first \o next \in Seq(Nat) /\ first \o next = [m \in 1 .. e + Len(next) |-> m]
<1> DEFINE first == [m \in 1 .. e |-> m]
           both == first \o next
<1>1. first \in [1 .. e -> Nat] /\ \A m \in 1 .. e : first[m] = m
  OBVIOUS
<1>2. first \in Seq(Nat) /\ DOMAIN first = 1 .. e
  BY <1>1, SeqDef
<1> HIDE DEF first
<1>3. Len(first) = e
  BY <1>2
<1>4. Len(next) \in Nat /\ both \in Seq(Nat) /\ Len(both) = e + Len(next)
  BY <1>2, <1>3
<1>5. \A m \in 1 .. e + Len(next) : both[m] = IF m <= e THEN first[m] ELSE next[m - e]
  BY <1>2, <1>3, <1>4
<1>6. ASSUME NEW m \in 1 .. e + Len(next)
      PROVE  both[m] = m
  <2>1. CASE m <= e
    BY <1>1, <1>5, <2>1
  <2>2. CASE ~(m <= e)
    <3>1. m - e \in 1 .. Len(next) /\ e + (m - e) = m
      BY <1>4, <2>2
    <3> QED
      BY <1>5, <2>2, <3>1
  <2> QED
    BY <2>1, <2>2
<1> HIDE DEF both
<1>7. both = [m \in 1 .. e + Len(next) |-> m]
  <2>1. both = [m \in 1 .. Len(both) |-> both[m]]
    BY <1>4
  <2> QED
    BY <1>4, <1>6, <2>1
<1> QED
  BY <1>2, <1>3, <1>4, <1>7 DEF both, first

\* The chunks one after the other are the messages.
LEMMA ChunksAreAll ==
    ASSUME NEW sizes, NEW n \in Nat, NEW chunks, CutUp(chunks, n, sizes), chunks # <<>>
    PROVE  FlattenSeq(chunks) = [m \in 1 .. n |-> m]
<1> DEFINE c == Len(chunks)
<1>1. chunks \in Seq(Seq(AllListed)) /\ c \in Nat /\ c # 0 /\ \A k \in 1 .. c : chunks[k] \in Seq(AllListed)
  <2>1. chunks \in Seq(Seq(AllListed))
    BY DEF CutUp
  <2> QED
    BY <2>1
<1>2. EndOf(chunks, c) = n
  BY DEF CutUp
<1> DEFINE f == CHOOSE g : FlatIs(g, chunks)
<1>3. FlattenSeq(chunks) = f[c]
  BY <1>1 DEF FlattenSeq, FlatIs
<1>4. \E g : FlatIs(g, chunks)
  <2> DEFINE UpTo(k, g) == g = [i \in 1 .. k |-> IF i = 1 THEN chunks[i] ELSE g[i - 1] \o chunks[i]]
             X == {k \in Nat : \E g : UpTo(k, g)}
  <2>1. 0 \in X
    <3>1. UpTo(0, [i \in 1 .. 0 |-> <<>>])
      OBVIOUS
    <3> QED
      BY <3>1
  <2>2. ASSUME NEW k \in X
        PROVE  k + 1 \in X
    <3>1. k \in Nat /\ \E g : UpTo(k, g)
      OBVIOUS
    <3>2. PICK g : UpTo(k, g)
      BY <3>1
    <3> DEFINE h == [i \in 1 .. k + 1 |-> IF i = 1 THEN chunks[i] ELSE g[i - 1] \o chunks[i]]
    <3>3. \A i \in 1 .. k : h[i] = g[i]
      <4>1. 1 .. k \subseteq 1 .. k + 1
        BY <3>1
      <4> QED
        BY <3>2, <4>1
    <3>4. \A i \in 1 .. k + 1 : i # 1 => i - 1 \in 1 .. k
      BY <3>1
    <3>5. \A i \in 1 .. k + 1 : h[i] = IF i = 1 THEN chunks[i] ELSE h[i - 1] \o chunks[i]
      BY <3>3, <3>4
    <3>6. h = [i \in 1 .. k + 1 |-> h[i]]
      OBVIOUS
    <3> HIDE DEF h
    <3>7. UpTo(k + 1, h)
      BY <3>5, <3>6
    <3>8. \E g2 : UpTo(k + 1, g2)
      BY <3>7
    <3> HIDE DEF UpTo
    <3> QED
      BY <3>1, <3>8
  <2>3. c \in X
    <3> HIDE DEF X, c
    <3>1. X \subseteq Nat
      BY DEF X
    <3> QED
      BY <1>1, <2>1, <2>2, <3>1, NatSet
  <2> QED
    BY <2>3 DEF FlatIs
<1>5. FlatIs(f, chunks)
  BY <1>4
<1> HIDE DEF f
<1>6. \A i \in 1 .. c : f[i] = IF i = 1 THEN chunks[i] ELSE f[i - 1] \o chunks[i]
  BY <1>5 DEF FlatIs
<1> HIDE DEF c
<1> DEFINE Y == {k \in Nat : k + 1 <= c => f[k + 1] = [m \in 1 .. EndOf(chunks, k + 1) |-> m]}
<1>7. \A k \in 1 .. c :
         /\ EndOf(chunks, k - 1) \in Nat /\ chunks[k] \in Seq(AllListed) /\ Len(chunks[k]) \in Nat
         /\ EndOf(chunks, k) = EndOf(chunks, k - 1) + Len(chunks[k])
         /\ \A i \in 1 .. Len(chunks[k]) : chunks[k][i] = EndOf(chunks, k - 1) + i
  BY <1>1, ChunkIs DEF c
<1>8. 0 \in Y
  <2>1. 1 \in 1 .. c /\ EndOf(chunks, 1 - 1) = 0
    BY <1>1 DEF EndOf
  <2>2. f[1] = chunks[1] /\ EndOf(chunks, 1) = Len(chunks[1]) /\ \A i \in 1 .. Len(chunks[1]) : chunks[1][i] = i
    BY <1>6, <1>7, <2>1
  <2>3. chunks[1] = [m \in 1 .. Len(chunks[1]) |-> m]
    BY <1>7, <2>1, <2>2
  <2> QED
    BY <2>2, <2>3
<1>9. ASSUME NEW k \in Y
      PROVE  k + 1 \in Y
  <2>1. CASE (k + 1) + 1 <= c
    <3>1. k \in Nat /\ k + 1 <= c /\ (k + 1) + 1 \in 1 .. c /\ (k + 1) + 1 # 1 /\ ((k + 1) + 1) - 1 = k + 1
      BY <1>1, <2>1
    <3> DEFINE e == EndOf(chunks, k + 1)
               next == chunks[(k + 1) + 1]
    <3>2. f[k + 1] = [m \in 1 .. e |-> m]
      BY <3>1
    <3>3. f[(k + 1) + 1] = f[k + 1] \o next
      BY <1>6, <3>1
    <3>4. /\ e \in Nat /\ next \in Seq(AllListed) /\ Len(next) \in Nat
          /\ EndOf(chunks, (k + 1) + 1) = e + Len(next) /\ \A i \in 1 .. Len(next) : next[i] = e + i
      BY <1>7, <3>1
    <3> HIDE DEF e, next
    <3>5. [m \in 1 .. e |-> m] \o next = [m \in 1 .. e + Len(next) |-> m]
      <4>1. next \in Seq(Nat)
        BY <3>4, ListedAreNat
      <4> QED
        BY <3>4, <4>1, Follow
    <3>6. f[(k + 1) + 1] = [m \in 1 .. EndOf(chunks, (k + 1) + 1) |-> m]
      BY <3>2, <3>3, <3>4, <3>5
    <3> QED
      BY <3>1, <3>6
  <2> QED
    BY <2>1
<1>10. c - 1 \in Y
  <2> HIDE DEF Y
  <2>1. Y \subseteq Nat
    BY DEF Y
  <2>2. c - 1 \in Nat
    BY <1>1 DEF c
  <2> HIDE DEF c
  <2> QED
    BY <1>8, <1>9, <2>1, <2>2, NatSet
<1>11. (c - 1) + 1 = c
  BY <1>1
<1>12. f[c] = [m \in 1 .. n |-> m]
  BY <1>2, <1>10, <1>11 DEF c
<1> QED
  BY <1>3, <1>12 DEF c

\* A map's answers give every message of the chunk its response.
LEMMA ByNameIs ==
    ASSUME NEW chunk \in Seq(AllListed), NEW answer \in AnswersTo(chunk)
    PROVE  ByName(answer) = chunk
<1> DEFINE D == DOMAIN chunk
<1>1. D = 1 .. Len(chunk) /\ Len(chunk) \in Nat
  OBVIOUS
<1>2. PICK p \in [D -> D] : IsInjective(p) /\ answer = [i \in D |-> [name |-> p[i], id |-> chunk[p[i]]]]
  BY DEF AnswersTo
<1>3. p \in Surjection(D, D)
  <2>1. IsFiniteSet(D)
    BY <1>1, FS_Interval
  <2>2. p \in Injection(D, D)
    BY <1>2 DEF Injection
  <2> QED
    BY <2>1, <2>2, FS_Injection
<1>4. \A i \in D : \E j \in D : p[j] = i
  BY <1>3 DEF Surjection
<1> HIDE DEF D
<1>5. ToSet(answer) = {[name |-> p[i], id |-> chunk[p[i]]] : i \in D}
  BY <1>2 DEF ToSet
<1>6. ASSUME NEW i \in D
      PROVE  (CHOOSE r \in ToSet(answer) : r.name = i).id = chunk[i]
  <2>1. PICK j \in D : p[j] = i
    BY <1>4
  <2>2. \E r \in ToSet(answer) : r.name = i
    <3>1. [name |-> p[j], id |-> chunk[p[j]]] \in ToSet(answer)
      BY <1>5
    <3>2. [name |-> p[j], id |-> chunk[p[j]]].name = i
      BY <2>1
    <3> QED
      BY <3>1, <3>2
  <2>3. \A r \in ToSet(answer) : r.name = i => r.id = chunk[i]
    BY <1>5
  <2> QED
    BY <2>2, <2>3
<1>7. ByName(answer) = [i \in D |-> chunk[i]]
  <2>1. DOMAIN answer = D
    BY <1>2
  <2>2. ByName(answer) = [i \in D |-> (CHOOSE r \in ToSet(answer) : r.name = i).id]
    BY <2>1, Zenon DEF ByName
  <2> DEFINE id(i) == (CHOOSE r \in ToSet(answer) : r.name = i).id
  <2>3. \A i \in D : id(i) = chunk[i]
    BY <1>6
  <2>4. ByName(answer) = [i \in D |-> id(i)]
    BY <2>2
  <2> HIDE DEF id
  <2> QED
    BY <2>3, <2>4
<1>8. chunk = [i \in 1 .. Len(chunk) |-> chunk[i]]
  OBVIOUS
<1>9. D = 1 .. Len(chunk)
  BY <1>1 DEF D
<1> QED
  BY <1>7, <1>8, <1>9

\* The messages of the chunks before the ith.
Before(i) == {m \in AllListed : m <= (i - 1) * ChunkLen}

\* The messages of the chunks that these tokens can undo.
Covered(tokens) == UNION {Chunk(i) : i \in tokens}

BulkAts == {"new", "chunk", "undo", "undone", "not undone", "refused", "err", "ok"}

BulkRecords ==
    [kind : {"none", "plain", "checked", "undo"}, at : BulkAts, chunk : Nat \ {0},
     tokens : SUBSET Nat, failed : BOOLEAN]

\* How far a call b that marks or labels has come, when t is what was touched.
\* While it undoes, what is left is covered by the tokens it still has, but
\* for the chunk it stopped in.
BulkAccounted(b, t) ==
    /\ b \in BulkRecords /\ t \subseteq AllListed
    /\ b.at = "new" => t = {}
    /\ b.at = "chunk" =>
          /\ b.failed = FALSE /\ t \subseteq Covered(b.tokens)
          /\ b.kind # "plain" => t = Before(b.chunk)
    /\ b.kind # "plain" =>
          /\ b.at = "ok" => t = AllListed
          /\ b.at \in {"err", "refused"} => Before(b.chunk) \subseteq t /\ t \subseteq Before(b.chunk + 1)
    /\ b.at = "undo" /\ b.failed = FALSE => t \subseteq Covered(b.tokens) \cup Chunk(b.chunk)
    /\ b.at = "undone" => t \subseteq Chunk(b.chunk)

BulkInv == BulkAccounted(bulk, touched)

\* The next chunk goes on where the messages before it end.
LEMMA ChunkFollows ==
    ASSUME NEW i \in Nat \ {0}
    PROVE  /\ Before(i + 1) = Before(i) \cup Chunk(i) /\ Chunk(i) \subseteq AllListed
           /\ Chunk(i) = {} => Before(i) = AllListed
<1>1. Listed \in Nat /\ ChunkLen \in Nat \ {0}
  BY ChunkAssumption
<1> DEFINE a == (i - 1) * ChunkLen
           b == i * ChunkLen
<1>2. a \in Nat /\ b = a + ChunkLen /\ ((i + 1) - 1) * ChunkLen = b
  BY <1>1
<1> HIDE DEF a, b
<1>3. Before(i) = {m \in 1 .. Listed : m <= a} /\ Before(i + 1) = {m \in 1 .. Listed : m <= b}
      /\ Chunk(i) = {m \in 1 .. Listed : a < m /\ m <= b}
  BY <1>2 DEF Before, Chunk, AllListed, a, b
<1>4. Before(i + 1) = Before(i) \cup Chunk(i)
  BY <1>1, <1>2, <1>3
<1>5. ASSUME Chunk(i) = {}, NEW m \in 1 .. Listed
      PROVE  m <= a
  <2>1. a + 1 \notin 1 .. Listed
    BY <1>1, <1>2, <1>3, <1>5
  <2> QED
    BY <1>1, <1>2, <2>1
<1> QED
  BY <1>3, <1>4, <1>5 DEF AllListed

LEMMA BulkInvInit == ChunkedInit => BulkInv
  BY DEF ChunkedInit, BulkInv, BulkAccounted, NoBulk, BulkRecords, BulkAts

LEMMA CallBulkKeeps ==
    ASSUME BulkInv, CallBulk
    PROVE  BulkInv'
<1>1. PICK kind \in {"plain", "checked", "undo"} : bulk' = [NoBulk EXCEPT !.kind = kind, !.at = "chunk"]
  BY DEF CallBulk
<1>2. PICK b : b = bulk'
  OBVIOUS
<1>3. b = [kind |-> kind, at |-> "chunk", chunk |-> 1, tokens |-> {}, failed |-> FALSE]
  BY <1>1, <1>2 DEF NoBulk
<1>4. touched' = {}
  BY DEF CallBulk, NotCalled, BulkInv, BulkAccounted, NoBulk
<1>5. Before(1) = {}
  <2>1. (1 - 1) * ChunkLen = 0
    BY ChunkAssumption
  <2> QED
    BY <2>1 DEF Before, AllListed
<1>6. BulkAccounted(b, {})
  BY <1>3, <1>5 DEF BulkAccounted, BulkRecords, BulkAts
<1> QED
  BY <1>2, <1>4, <1>6 DEF BulkInv

LEMMA SendChunkKeeps ==
    ASSUME BulkInv, SendChunk
    PROVE  BulkInv'
<1> DEFINE i == bulk.chunk
           t == bulk.tokens \cup {i}
<1>1. PICK refused \in SUBSET Chunk(i) :
         /\ touched' = touched \cup (Chunk(i) \ refused)
         /\ bulk' = IF ~Refused(i, refused) THEN [bulk EXCEPT !.chunk = i + 1, !.tokens = t]
                    ELSE [bulk EXCEPT !.at = IF bulk.kind = "undo" THEN "undo" ELSE "refused"]
  BY DEF SendChunk, UndoTokens
<1>2. bulk \in BulkRecords /\ bulk.at = "chunk"
  BY DEF SendChunk, BulkInv, BulkAccounted
<1>3. i \in Nat \ {0} /\ bulk.tokens \subseteq Nat
  BY <1>2 DEF BulkRecords
<1>4. /\ bulk.failed = FALSE /\ touched \subseteq Covered(bulk.tokens) /\ touched \subseteq AllListed
      /\ bulk.kind # "plain" => touched = Before(i)
  BY <1>2 DEF BulkInv, BulkAccounted
<1>5. Before(i + 1) = Before(i) \cup Chunk(i) /\ Chunk(i) \subseteq AllListed
  BY <1>3, ChunkFollows
<1>6. PICK b, have : b = bulk' /\ have = touched'
  OBVIOUS
<1>7. CASE ~Refused(i, refused)
  <2>1. b = [bulk EXCEPT !.chunk = i + 1, !.tokens = t]
    BY <1>1, <1>6, <1>7
  <2>2. i + 1 \in Nat \ {0} /\ t \in SUBSET Nat
    BY <1>3
  <2>3. /\ b \in BulkRecords /\ b.kind = bulk.kind /\ b.at = "chunk" /\ b.chunk = i + 1 /\ b.tokens = t
        /\ b.failed = FALSE
    <3> HIDE DEF t, i
    <3> QED
      BY <1>2, <1>4, <2>1, <2>2 DEF BulkRecords
  <2>4. Covered(t) = Covered(bulk.tokens) \cup Chunk(i)
    BY DEF Covered
  <2>5. have \subseteq Covered(t) /\ have \subseteq AllListed
    BY <1>1, <1>4, <1>5, <1>6, <2>4
  <2>6. bulk.kind # "plain" => have = Before(i + 1)
    BY <1>1, <1>4, <1>5, <1>6, <1>7 DEF Refused
  <2> HIDE DEF t
  <2>7. BulkAccounted(b, have)
    BY <2>3, <2>5, <2>6 DEF BulkAccounted
  <2> QED
    BY <1>6, <2>7 DEF BulkInv
<1>8. CASE Refused(i, refused)
  <2>1. PICK at \in {"undo", "refused"} : b = [bulk EXCEPT !.at = at]
    BY <1>1, <1>6, <1>8
  <2>2. at \in BulkAts
    BY DEF BulkAts
  <2>3. /\ b \in BulkRecords /\ b.kind = bulk.kind /\ b.at = at /\ b.chunk = i /\ b.tokens = bulk.tokens
        /\ b.failed = FALSE
    BY <1>2, <1>4, <2>1, <2>2 DEF BulkRecords
  <2>4. bulk.kind # "plain"
    BY <1>8 DEF Refused
  <2>5. Before(i) \subseteq have /\ have \subseteq Before(i + 1) /\ have \subseteq Covered(bulk.tokens) \cup Chunk(i)
        /\ have \subseteq AllListed
    BY <1>1, <1>4, <1>5, <1>6, <2>4
  <2>6. BulkAccounted(b, have)
    BY <2>3, <2>5 DEF BulkAccounted
  <2> QED
    BY <1>6, <2>6 DEF BulkInv
<1> QED
  BY <1>7, <1>8

LEMMA BulkEndsKeeps ==
    ASSUME BulkInv, ChunkFails \/ BulkDone \/ Undone
    PROVE  BulkInv'
<1> DEFINE i == bulk.chunk
<1>1. bulk \in BulkRecords /\ i \in Nat \ {0} /\ touched \subseteq AllListed
  BY DEF BulkInv, BulkAccounted, BulkRecords
<1>2. Chunk(i) \subseteq AllListed /\ Before(i + 1) = Before(i) \cup Chunk(i) /\ (Chunk(i) = {} => Before(i) = AllListed)
  BY <1>1, ChunkFollows
<1>3. PICK b, have : b = bulk' /\ have = touched'
  OBVIOUS
<1>4. ASSUME NEW at \in BulkAts, b = [bulk EXCEPT !.at = at]
      PROVE  b \in BulkRecords /\ b.at = at /\ b.kind = bulk.kind /\ b.chunk = i
  BY <1>1, <1>4 DEF BulkRecords
<1>5. "err" \in BulkAts /\ "ok" \in BulkAts /\ "undone" \in BulkAts /\ "not undone" \in BulkAts
  BY DEF BulkAts
<1>6. CASE ChunkFails
  <2>1. PICK done \in SUBSET Chunk(i) : touched' = touched \cup done
    BY <1>6 DEF ChunkFails
  <2>2. bulk.at = "chunk" /\ b = [bulk EXCEPT !.at = "err"]
    BY <1>3, <1>6 DEF ChunkFails
  <2>3. b \in BulkRecords /\ b.at = "err" /\ b.kind = bulk.kind /\ b.chunk = i
    BY <1>4, <1>5, <2>2
  <2>4. bulk.kind # "plain" => touched = Before(i)
    BY <2>2 DEF BulkInv, BulkAccounted
  <2>5. BulkAccounted(b, have)
    BY <1>1, <1>2, <1>3, <2>1, <2>3, <2>4 DEF BulkAccounted
  <2> QED
    BY <1>3, <2>5 DEF BulkInv
<1>7. CASE BulkDone
  <2>1. bulk.at = "chunk" /\ Chunk(i) = {} /\ b = [bulk EXCEPT !.at = "ok"] /\ have = touched
    BY <1>3, <1>7 DEF BulkDone
  <2>2. b \in BulkRecords /\ b.at = "ok" /\ b.kind = bulk.kind
    BY <1>4, <1>5, <2>1
  <2>3. bulk.kind # "plain" => touched = AllListed
    BY <1>2, <2>1 DEF BulkInv, BulkAccounted
  <2>4. BulkAccounted(b, have)
    BY <1>1, <2>1, <2>2, <2>3 DEF BulkAccounted
  <2> QED
    BY <1>3, <2>4 DEF BulkInv
<1>8. CASE Undone
  <2>1. PICK at \in {"undone", "not undone"} :
           /\ b = [bulk EXCEPT !.at = at]
           /\ at = "undone" => ~bulk.failed /\ bulk.tokens = {}
    BY <1>3, <1>8 DEF Undone
  <2>2. bulk.at = "undo" /\ have = touched
    BY <1>3, <1>8 DEF Undone
  <2>3. b \in BulkRecords /\ b.at = at /\ b.chunk = i
    BY <1>4, <1>5, <2>1
  <2>4. at = "undone" => bulk.failed = FALSE
    BY <1>1, <2>1 DEF BulkRecords
  <2>5. Covered({}) = {}
    BY DEF Covered
  <2>6. at = "undone" => touched \subseteq Chunk(i)
    BY <2>1, <2>2, <2>4, <2>5 DEF BulkInv, BulkAccounted
  <2>7. BulkAccounted(b, have)
    BY <1>1, <2>1, <2>2, <2>3, <2>6 DEF BulkAccounted
  <2> QED
    BY <1>3, <2>7 DEF BulkInv
<1> QED
  BY <1>6, <1>7, <1>8

LEMMA UndoKeeps ==
    ASSUME BulkInv, NEW i \in AllListed, Undo(i)
    PROVE  BulkInv'
<1> DEFINE t == bulk.tokens \ {i}
<1>1. bulk \in BulkRecords /\ touched \subseteq AllListed /\ bulk.at = "undo" /\ bulk.tokens \subseteq Nat
      /\ bulk.failed \in BOOLEAN
  BY DEF Undo, BulkInv, BulkAccounted, BulkRecords
<1>2. PICK b, have : b = bulk' /\ have = touched'
  OBVIOUS
<1>3. t \in SUBSET Nat /\ 1 \in Nat \ {0} /\ "undo" \in BulkAts
  BY <1>1 DEF BulkAts
<1>4. Covered(bulk.tokens) \subseteq Covered(t) \cup Chunk(i)
  BY DEF Covered
<1>5. CASE have = touched \ Chunk(i) /\ b = [bulk EXCEPT !.tokens = t]
  <2>1. /\ b \in BulkRecords /\ b.at = "undo" /\ b.chunk = bulk.chunk /\ b.tokens = t /\ b.failed = bulk.failed
    <3> HIDE DEF t
    <3> QED
      BY <1>1, <1>3, <1>5 DEF BulkRecords
  <2>2. bulk.failed = FALSE => touched \subseteq Covered(bulk.tokens) \cup Chunk(bulk.chunk)
    BY <1>1 DEF BulkInv, BulkAccounted
  <2>3. bulk.failed = FALSE => have \subseteq Covered(t) \cup Chunk(bulk.chunk)
    BY <1>4, <1>5, <2>2
  <2> HIDE DEF t
  <2>4. BulkAccounted(b, have)
    BY <1>1, <1>5, <2>1, <2>3 DEF BulkAccounted
  <2> QED
    BY <1>2, <2>4 DEF BulkInv
<1>6. CASE /\ \E undone \in {{}, Chunk(i)} : have = touched \ undone
           /\ b = [bulk EXCEPT !.tokens = t, !.failed = TRUE]
  <2>1. b \in BulkRecords /\ b.at = "undo" /\ b.failed = TRUE
    <3> HIDE DEF t
    <3> QED
      BY <1>1, <1>3, <1>6 DEF BulkRecords
  <2>2. have \subseteq AllListed
    BY <1>1, <1>6
  <2>3. BulkAccounted(b, have)
    BY <2>1, <2>2 DEF BulkAccounted
  <2> QED
    BY <1>2, <2>3 DEF BulkInv
<1> QED
  BY <1>2, <1>5, <1>6 DEF Undo

Answers == Seq([name : Nat, id : Nat])

ImportRecords ==
    [at : {"new", "open", "too big", "failed", "ended"}, sizes : Sizes \cup {<<>>},
     chunks : Seq(Seq(AllListed)), answers : Seq(Answers), given : Nat, results : Seq(Nat)]

\* How far an import has come, when have is what was imported: the server has
\* what the reader has had and nothing of chunks that were not sent; the stream
\* keeps to its bound.
ImportAccounted(imp, have) ==
    /\ imp \in ImportRecords
    /\ imp.at = "new" => imp.answers = <<>>
    /\ IF imp.at \in {"new", "too big"} THEN imp.chunks = <<>>
       ELSE imp.sizes \in Sizes /\ CutUp(imp.chunks, Listed, imp.sizes)
    /\ imp.given <= Len(imp.answers) /\ Len(imp.answers) <= Len(imp.chunks)
    /\ Len(imp.answers) - imp.given <= Ahead
    /\ \A k \in 1 .. Len(imp.answers) :
          imp.answers[k] \notin {<<>>, Failed} =>
             imp.answers[k] \in AnswersTo(imp.chunks[k]) /\ ToSet(imp.chunks[k]) \subseteq have
    /\ 1 .. EndOf(imp.chunks, imp.given) \subseteq have
    /\ have \subseteq 1 .. EndOf(imp.chunks, Len(imp.answers))
    /\ imp.results = [m \in 1 .. EndOf(imp.chunks, imp.given) |-> m]
    /\ imp.at = "ended" => imp.given = Len(imp.chunks)

ImportInv == ImportAccounted(importing, imported)

ChunkedInv == BulkInv /\ ImportInv

LEMMA ImportIs ==
    ASSUME NEW imp, NEW have, ImportAccounted(imp, have)
    PROVE  /\ imp \in ImportRecords
           /\ imp.answers \in Seq(Answers) /\ Len(imp.answers) \in Nat
           /\ DOMAIN imp.answers = 1 .. Len(imp.answers)
           /\ imp.chunks \in Seq(Seq(AllListed)) /\ Len(imp.chunks) \in Nat
           /\ DOMAIN imp.chunks = 1 .. Len(imp.chunks)
           /\ imp.given \in Nat /\ imp.results \in Seq(Nat)
           /\ imp.given <= Len(imp.answers) /\ Len(imp.answers) <= Len(imp.chunks)
           /\ Len(imp.answers) - imp.given <= Ahead
<1>1. imp \in ImportRecords
  BY DEF ImportAccounted
<1>2. /\ imp.answers \in Seq(Answers) /\ imp.chunks \in Seq(Seq(AllListed)) /\ imp.given \in Nat
      /\ imp.results \in Seq(Nat)
  BY <1>1 DEF ImportRecords
<1>3. /\ Len(imp.answers) \in Nat /\ DOMAIN imp.answers = 1 .. Len(imp.answers)
      /\ Len(imp.chunks) \in Nat /\ DOMAIN imp.chunks = 1 .. Len(imp.chunks)
  BY <1>2
<1>4. /\ imp.given <= Len(imp.answers) /\ Len(imp.answers) <= Len(imp.chunks)
      /\ Len(imp.answers) - imp.given <= Ahead
  BY DEF ImportAccounted
<1> QED
  BY <1>1, <1>2, <1>3, <1>4

\* Where the chunks of a call end, also before there are any.
LEMMA EndsAre ==
    ASSUME NEW imp, NEW have, ImportAccounted(imp, have)
    PROVE  /\ \A k \in 0 .. Len(imp.chunks) : EndOf(imp.chunks, k) \in Nat
           /\ \A k, j \in 0 .. Len(imp.chunks) :
                 k <= j => /\ EndOf(imp.chunks, k) <= EndOf(imp.chunks, j)
                           /\ EndOf(imp.chunks, j) - EndOf(imp.chunks, k) <= (j - k) * ChunkLen
           /\ \A k \in 1 .. Len(imp.chunks) :
                 /\ imp.chunks[k] \in Seq(AllListed)
                 /\ ToSet(imp.chunks[k]) = EndOf(imp.chunks, k - 1) + 1 .. EndOf(imp.chunks, k)
                 /\ EndOf(imp.chunks, k) = EndOf(imp.chunks, k - 1) + Len(imp.chunks[k])
                 /\ \A i \in 1 .. Len(imp.chunks[k]) : imp.chunks[k][i] = EndOf(imp.chunks, k - 1) + i
<1>1. CASE imp.at \in {"new", "too big"}
  <2>1. imp.chunks = <<>>
    BY <1>1 DEF ImportAccounted
  <2>2. Len(imp.chunks) = 0 /\ EndOf(imp.chunks, 0) = 0
    BY <2>1 DEF EndOf
  <2>3. (0 - 0) * ChunkLen = 0
    BY ChunkAssumption
  <2> QED
    BY <2>2, <2>3
<1>2. CASE imp.at \notin {"new", "too big"}
  <2> DEFINE chunks == imp.chunks
  <2>1. CutUp(chunks, Listed, imp.sizes)
    BY <1>2 DEF ImportAccounted
  <2> HIDE DEF chunks
  <2>2. /\ \A k \in 0 .. Len(chunks) : EndOf(chunks, k) \in Nat
        /\ \A k, j \in 0 .. Len(chunks) :
              k <= j => EndOf(chunks, k) <= EndOf(chunks, j) /\ EndOf(chunks, j) - EndOf(chunks, k) <= (j - k) * ChunkLen
    BY <2>1, EndsGrow
  <2>3. ASSUME NEW k \in 1 .. Len(chunks)
        PROVE  /\ chunks[k] \in Seq(AllListed)
               /\ ToSet(chunks[k]) = EndOf(chunks, k - 1) + 1 .. EndOf(chunks, k)
               /\ EndOf(chunks, k) = EndOf(chunks, k - 1) + Len(chunks[k])
               /\ \A i \in 1 .. Len(chunks[k]) : chunks[k][i] = EndOf(chunks, k - 1) + i
    BY <2>1, ChunkIs
  <2> QED
    BY <2>2, <2>3 DEF chunks
<1> QED
  BY <1>1, <1>2

LEMMA ImportInvInit == ChunkedInit => ImportInv
<1> SUFFICES ASSUME ChunkedInit PROVE ImportInv
  OBVIOUS
<1>1. importing = [at |-> "new", sizes |-> <<>>, chunks |-> <<>>, answers |-> <<>>, given |-> 0, results |-> <<>>]
      /\ imported = {}
  BY DEF ChunkedInit, NoImport
<1>2. importing \in ImportRecords /\ Len(importing.answers) = 0 /\ Len(importing.chunks) = 0
  BY <1>1 DEF ImportRecords
<1>3. EndOf(importing.chunks, 0) = 0 /\ importing.results = [m \in 1 .. 0 |-> m]
  BY <1>1 DEF EndOf
<1> QED
  BY <1>1, <1>2, <1>3, ChunkAssumption DEF ImportInv, ImportAccounted

\* A call of ImportMessages that has sent nothing.
LEMMA CallImportKeeps ==
    ASSUME ImportInv, CallImport
    PROVE  ImportInv'
<1>1. importing = NoImport /\ imported' = imported
  BY DEF CallImport, NotCalled
<1>2. Len(NoImport.answers) = 0 /\ NoImport.chunks = <<>>
  BY DEF NoImport
<1>3. imported = {}
  <2>1. imported \subseteq 1 .. EndOf(<<>>, 0)
    BY <1>1, <1>2 DEF ImportInv, ImportAccounted
  <2> QED
    BY <2>1 DEF EndOf
<1>4. PICK sizes \in Sizes :
         importing' = IF \E m \in AllListed : sizes[m] > MaxSize
                      THEN [NoImport EXCEPT !.at = "too big"]
                      ELSE [NoImport EXCEPT !.at = "open", !.sizes = sizes, !.chunks = ChunkSized(sizes)]
  BY DEF CallImport, Sizes
<1>5. PICK imp : imp = importing'
  OBVIOUS
<1>6. <<>> \in Seq(Answers) /\ <<>> \in Seq(Nat) /\ Len(<<>>) = 0 /\ <<>> = [m \in 1 .. 0 |-> m] /\ 1 .. 0 = {}
  OBVIOUS
<1>7. \A c : EndOf(c, 0) = 0
  BY DEF EndOf
<1>8. ASSUME NEW at, at \in {"open", "too big"}, NEW s, NEW c, Len(c) \in Nat, imp \in ImportRecords,
             imp = [at |-> at, sizes |-> s, chunks |-> c, answers |-> <<>>, given |-> 0, results |-> <<>>],
             at = "too big" => c = <<>>, at = "open" => s \in Sizes /\ CutUp(c, Listed, s)
      PROVE  ImportAccounted(imp, {})
  <2>1. imp.at = at /\ imp.sizes = s /\ imp.chunks = c /\ imp.answers = <<>> /\ imp.given = 0 /\ imp.results = <<>>
    BY <1>8
  <2>2. EndOf(c, 0) = 0
    BY <1>7
  <2>3. IF imp.at \in {"new", "too big"} THEN imp.chunks = <<>>
        ELSE imp.sizes \in Sizes /\ CutUp(imp.chunks, Listed, imp.sizes)
    <3>1. CASE at = "too big"
      BY <1>8, <2>1, <3>1
    <3>2. CASE at = "open"
      BY <1>8, <2>1, <3>2
    <3> QED
      BY <1>8, <3>1, <3>2
  <2>4. imp.given <= Len(imp.answers) /\ Len(imp.answers) <= Len(imp.chunks) /\ Len(imp.answers) - imp.given <= Ahead
    <3>1. Len(imp.answers) = 0 /\ imp.given = 0 /\ Len(imp.chunks) \in Nat
      BY <1>8, <1>6, <2>1
    <3>2. Ahead \in Nat
      BY ChunkAssumption
    <3> QED
      BY <3>1, <3>2
  <2>5. \A k \in 1 .. Len(imp.answers) : FALSE
    BY <1>6, <2>1
  <2>6. Len(imp.answers) = 0 /\ imp.given = 0 /\ imp.at # "new" /\ imp.at # "ended"
    BY <1>8, <1>6, <2>1
  <2>7. 1 .. EndOf(imp.chunks, 0) = {}
    BY <1>6, <2>1, <2>2
  <2>8. imp.results = [m \in 1 .. EndOf(imp.chunks, 0) |-> m]
    BY <1>6, <2>1, <2>2
  <2> QED
    BY <1>8, <1>6, <2>1, <2>3, <2>4, <2>7, <2>8, <2>5, <2>6 DEF ImportAccounted
<1>9. CASE \E m \in AllListed : sizes[m] > MaxSize
  <2>1. imp = [at |-> "too big", sizes |-> <<>>, chunks |-> <<>>, answers |-> <<>>, given |-> 0, results |-> <<>>]
    BY <1>4, <1>5, <1>9 DEF NoImport
  <2>2. <<>> \in Seq(Seq(AllListed)) /\ Len(<<>>) \in Nat
    OBVIOUS
  <2>3. imp \in ImportRecords
    BY <1>6, <2>1, <2>2 DEF ImportRecords
  <2> QED
    BY <1>1, <1>3, <1>5, <1>8, <2>1, <2>2, <2>3 DEF ImportInv
<1>10. CASE ~\E m \in AllListed : sizes[m] > MaxSize
  <2>1. imp = [at |-> "open", sizes |-> sizes, chunks |-> ChunkSized(sizes), answers |-> <<>>, given |-> 0,
               results |-> <<>>]
    BY <1>4, <1>5, <1>10 DEF NoImport
  <2>2. \A m \in AllListed : sizes[m] <= MaxSize
    <3>1. \A m \in AllListed : sizes[m] \in Nat
      BY ChunkAssumption DEF Sizes
    <3> QED
      BY <1>10, <3>1, ChunkAssumption
  <2>3. CutUp(ChunkSized(sizes), Listed, sizes)
    BY <2>2, ChunkSizedCuts
  <2>4. ChunkSized(sizes) \in Seq(Seq(AllListed))
    BY <2>3 DEF CutUp
  <2>5. Len(ChunkSized(sizes)) \in Nat
    BY <2>4
  <2>6. imp \in ImportRecords
    BY <1>6, <2>1, <2>4 DEF ImportRecords
  <2> QED
    BY <1>1, <1>3, <1>5, <1>8, <2>1, <2>3, <2>5, <2>6 DEF ImportInv
<1> QED
  BY <1>9, <1>10

LEMMA SendImportKeeps ==
    ASSUME ImportInv, SendImport
    PROVE  ImportInv'
<1> DEFINE n == Len(importing.answers)
           more == Append(importing.answers, <<>>)
           chunks == importing.chunks
<1>0. ImportAccounted(importing, imported)
  BY DEF ImportInv
<1>1. /\ importing.at = "open" /\ n - importing.given < Ahead /\ n < Len(chunks)
      /\ importing' = [importing EXCEPT !.answers = more] /\ imported' = imported
  BY DEF SendImport, HasRoom
<1>2. PICK imp : imp = importing'
  OBVIOUS
<1>3. /\ n \in Nat /\ Len(chunks) \in Nat /\ importing.given \in Nat /\ importing.answers \in Seq(Answers)
      /\ importing.given <= n /\ importing \in ImportRecords
  BY <1>0, ImportIs
<1>4. /\ more \in Seq(Answers) /\ Len(more) = n + 1 /\ more[n + 1] = <<>>
      /\ \A k \in 1 .. n : more[k] = importing.answers[k]
  <2>1. <<>> \in Answers
    BY DEF Answers
  <2> QED
    BY <1>3, <2>1
<1> HIDE DEF more
<1>5. /\ imp \in ImportRecords /\ imp.at = "open" /\ imp.sizes = importing.sizes /\ imp.chunks = chunks
      /\ imp.answers = more /\ imp.given = importing.given /\ imp.results = importing.results
  BY <1>1, <1>2, <1>3, <1>4 DEF ImportRecords
<1>6. EndOf(chunks, n) \in Nat /\ EndOf(chunks, n + 1) \in Nat /\ EndOf(chunks, n) <= EndOf(chunks, n + 1)
  <2>1. n \in 0 .. Len(chunks) /\ n + 1 \in 0 .. Len(chunks) /\ n <= n + 1
    BY <1>1, <1>3
  <2> HIDE DEF n
  <2> QED
    BY <1>0, <2>1, EndsAre
<1>7. /\ importing.sizes \in Sizes /\ CutUp(chunks, Listed, importing.sizes)
      /\ 1 .. EndOf(chunks, importing.given) \subseteq imported /\ imported \subseteq 1 .. EndOf(chunks, n)
      /\ importing.results = [m \in 1 .. EndOf(chunks, importing.given) |-> m]
      /\ \A k \in 1 .. n : importing.answers[k] \notin {<<>>, Failed} =>
                              importing.answers[k] \in AnswersTo(chunks[k]) /\ ToSet(chunks[k]) \subseteq imported
  BY <1>0, <1>1 DEF ImportAccounted
<1> HIDE DEF n, chunks
<1>8. ASSUME NEW k \in 1 .. n + 1, more[k] \notin {<<>>, Failed}
      PROVE  more[k] \in AnswersTo(chunks[k]) /\ ToSet(chunks[k]) \subseteq imported
  <2>1. k \in 1 .. n
    BY <1>3, <1>4, <1>8
  <2> QED
    BY <1>4, <1>7, <1>8, <2>1
<1>9. imported \subseteq 1 .. EndOf(chunks, n + 1)
  BY <1>6, <1>7
<1>10. importing.given <= n + 1 /\ n + 1 <= Len(chunks) /\ (n + 1) - importing.given <= Ahead
  BY <1>1, <1>3, ChunkAssumption DEF n
<1>11. ImportAccounted(imp, imported)
  BY <1>4, <1>5, <1>7, <1>8, <1>9, <1>10 DEF ImportAccounted
<1> QED
  BY <1>1, <1>2, <1>11 DEF ImportInv

\* What is recorded as the answer to one chunk.
LEMMA AnswerEdit ==
    ASSUME NEW imp \in ImportRecords, NEW k \in 1 .. Len(imp.answers), NEW answer \in Answers
    PROVE  LET next == [imp EXCEPT !.answers[k] = answer]
               more == [imp.answers EXCEPT ![k] = answer]
           IN  /\ next \in ImportRecords /\ next.at = imp.at /\ next.sizes = imp.sizes /\ next.chunks = imp.chunks
               /\ next.answers = more /\ next.given = imp.given /\ next.results = imp.results
               /\ Len(more) = Len(imp.answers) /\ more[k] = answer
               /\ \A j \in 1 .. Len(imp.answers) : j # k => more[j] = imp.answers[j]
<1> DEFINE more == [imp.answers EXCEPT ![k] = answer]
           next == [imp EXCEPT !.answers = more]
<1>1. imp.answers \in Seq(Answers)
  BY DEF ImportRecords
<1>2. [imp EXCEPT !.answers[k] = answer] = next
  BY DEF ImportRecords
<1>3. /\ more \in Seq(Answers) /\ Len(more) = Len(imp.answers) /\ more[k] = answer
      /\ \A j \in 1 .. Len(imp.answers) : j # k => more[j] = imp.answers[j]
  BY <1>1
<1> HIDE DEF more
<1>4. /\ next \in ImportRecords /\ next.at = imp.at /\ next.sizes = imp.sizes /\ next.chunks = imp.chunks
      /\ next.answers = more /\ next.given = imp.given /\ next.results = imp.results
  BY <1>3 DEF ImportRecords
<1> HIDE DEF next
<1> QED
  BY <1>2, <1>3, <1>4 DEF more

LEMMA AnswersAre ==
    ASSUME NEW chunk \in Seq(AllListed), NEW answer \in AnswersTo(chunk)
    PROVE  answer \in Answers
<1>1. DOMAIN chunk = 1 .. Len(chunk) /\ Len(chunk) \in Nat
  OBVIOUS
<1>2. \A i \in DOMAIN chunk : chunk[i] \in Nat /\ i \in Nat
  <2>1. \A i \in 1 .. Len(chunk) : chunk[i] \in AllListed
    OBVIOUS
  <2> QED
    BY <1>1, <2>1, ListedAreNat
<1>3. PICK p \in [DOMAIN chunk -> DOMAIN chunk] :
         answer = [i \in DOMAIN chunk |-> [name |-> p[i], id |-> chunk[p[i]]]]
  BY DEF AnswersTo
<1>4. \A i \in DOMAIN chunk : [name |-> p[i], id |-> chunk[p[i]]] \in [name : Nat, id : Nat]
  BY <1>2
<1>5. answer \in [1 .. Len(chunk) -> [name : Nat, id : Nat]]
  BY <1>1, <1>3, <1>4
<1> DEFINE T == [name : Nat, id : Nat]
<1>6. Len(chunk) \in Nat /\ answer \in [1 .. Len(chunk) -> T]
  BY <1>1, <1>5
<1> HIDE DEF T
<1>7. answer \in Seq(T)
  BY <1>6, SeqDef
<1> QED
  BY <1>7 DEF Answers, T

LEMMA ImportAnsweredKeeps ==
    ASSUME ImportInv, NEW k \in AllListed, ImportAnswered(k)
    PROVE  ImportInv'
<1> DEFINE n == Len(importing.answers)
           chunks == importing.chunks
           chunk == chunks[k]
<1>0. ImportAccounted(importing, imported)
  BY DEF ImportInv
<1>1. /\ n \in Nat /\ Len(chunks) \in Nat /\ importing.given \in Nat /\ importing.answers \in Seq(Answers)
      /\ DOMAIN importing.answers = 1 .. n
      /\ importing.given <= n /\ n <= Len(chunks) /\ n - importing.given <= Ahead /\ importing \in ImportRecords
  BY <1>0, ImportIs
<1>2. k \in 1 .. n
  BY <1>1 DEF ImportAnswered
<1>3. /\ chunk \in Seq(AllListed) /\ ToSet(chunk) = EndOf(chunks, k - 1) + 1 .. EndOf(chunks, k)
      /\ EndOf(chunks, k) <= EndOf(chunks, n)
      /\ EndOf(chunks, k - 1) \in Nat /\ EndOf(chunks, k) \in Nat /\ EndOf(chunks, n) \in Nat
  <2>1. /\ k \in 1 .. Len(chunks) /\ k - 1 \in 0 .. Len(chunks) /\ k \in 0 .. Len(chunks)
        /\ n \in 0 .. Len(chunks) /\ k <= n
    BY <1>1, <1>2
  <2> HIDE DEF n
  <2> QED
    BY <1>0, <2>1, EndsAre
<1>4. PICK imp, have : imp = importing' /\ have = imported'
  OBVIOUS
<1>5. PICK answer, done :
         /\ done \subseteq ToSet(chunk)
         /\ imp = [importing EXCEPT !.answers[k] = answer] /\ have = imported \cup done
         /\ answer = Failed \/ (answer \in AnswersTo(chunk) /\ done = ToSet(chunk))
  <2>1. CASE /\ imported' = imported \cup ToSet(chunk)
             /\ \E answer \in AnswersTo(chunk) : importing' = [importing EXCEPT !.answers[k] = answer]
    <3>1. PICK answer \in AnswersTo(chunk) : importing' = [importing EXCEPT !.answers[k] = answer]
      BY <2>1
    <3> QED
      BY <1>4, <2>1, <3>1
  <2>2. CASE /\ \E done \in SUBSET ToSet(chunk) : imported' = imported \cup done
             /\ importing' = [importing EXCEPT !.answers[k] = Failed]
    BY <1>4, <2>2
  <2> QED
    BY <2>1, <2>2 DEF ImportAnswered
<1>6. answer \in Answers
  <2>1. Failed \in Answers
    BY DEF Failed, Answers
  <2> HIDE DEF chunk
  <2> QED
    BY <1>3, <1>5, <2>1, AnswersAre
<1> DEFINE more == [importing.answers EXCEPT ![k] = answer]
<1>7. /\ imp \in ImportRecords /\ imp.at = importing.at /\ imp.sizes = importing.sizes /\ imp.chunks = chunks
      /\ imp.answers = more /\ imp.given = importing.given /\ imp.results = importing.results
      /\ Len(more) = n /\ more[k] = answer /\ \A j \in 1 .. n : j # k => more[j] = importing.answers[j]
  BY <1>1, <1>2, <1>5, <1>6, AnswerEdit
<1>8. /\ IF importing.at \in {"new", "too big"} THEN chunks = <<>>
         ELSE importing.sizes \in Sizes /\ CutUp(chunks, Listed, importing.sizes)
      /\ 1 .. EndOf(chunks, importing.given) \subseteq imported /\ imported \subseteq 1 .. EndOf(chunks, n)
      /\ importing.results = [m \in 1 .. EndOf(chunks, importing.given) |-> m]
      /\ importing.at = "ended" => importing.given = Len(chunks)
      /\ \A j \in 1 .. n : importing.answers[j] \notin {<<>>, Failed} =>
                              importing.answers[j] \in AnswersTo(chunks[j]) /\ ToSet(chunks[j]) \subseteq imported
  BY <1>0 DEF ImportAccounted
<1>9. importing.at # "new"
  <2>1. importing.at = "new" => n = 0
    BY <1>0 DEF ImportAccounted
  <2> QED
    BY <1>2, <2>1
<1> HIDE DEF more, n, chunk, chunks
<1>10. imported \subseteq have /\ have \subseteq 1 .. EndOf(chunks, n)
  <2>1. ToSet(chunk) \subseteq 1 .. EndOf(chunks, n)
    BY <1>3
  <2> QED
    BY <1>5, <1>8, <2>1
<1>11. ASSUME NEW j \in 1 .. n, more[j] \notin {<<>>, Failed}
       PROVE  more[j] \in AnswersTo(chunks[j]) /\ ToSet(chunks[j]) \subseteq have
  <2>1. CASE j = k
    BY <1>5, <1>7, <1>11, <2>1 DEF chunk
  <2>2. CASE j # k
    BY <1>7, <1>8, <1>10, <1>11, <2>2
  <2> QED
    BY <2>1, <2>2
<1>12. ImportAccounted(imp, have)
  BY <1>1, <1>7, <1>8, <1>9, <1>10, <1>11 DEF ImportAccounted
<1> QED
  BY <1>4, <1>12 DEF ImportInv

LEMMA TakeChunkKeeps ==
    ASSUME ImportInv, TakeChunk
    PROVE  ImportInv'
<1> DEFINE k == importing.given + 1
           chunks == importing.chunks
           answer == importing.answers[k]
           chunk == chunks[k]
           e == EndOf(chunks, importing.given)
           longer == importing.results \o ByName(answer)
<1>0. ImportAccounted(importing, imported)
  BY DEF ImportInv
<1>1. /\ importing.at = "open" /\ k \in DOMAIN importing.answers /\ answer \notin {<<>>, Failed}
      /\ importing' = [importing EXCEPT !.given = k, !.results = longer] /\ imported' = imported
  BY DEF TakeChunk
<1>2. PICK imp : imp = importing'
  OBVIOUS
<1>3. /\ Len(importing.answers) \in Nat /\ Len(chunks) \in Nat /\ importing.given \in Nat
      /\ DOMAIN importing.answers = 1 .. Len(importing.answers) /\ importing \in ImportRecords
      /\ Len(importing.answers) <= Len(chunks) /\ Len(importing.answers) - importing.given <= Ahead
  BY <1>0, ImportIs
<1>4. /\ k - 1 = importing.given /\ k \in 1 .. Len(importing.answers) /\ k \in 1 .. Len(chunks) /\ k \in Nat
      /\ k \in 0 .. Len(chunks) /\ importing.given \in 0 .. Len(chunks)
  BY <1>1, <1>3
<1>5. /\ importing.sizes \in Sizes /\ CutUp(chunks, Listed, importing.sizes)
      /\ 1 .. e \subseteq imported /\ imported \subseteq 1 .. EndOf(chunks, Len(importing.answers))
      /\ importing.results = [m \in 1 .. e |-> m]
      /\ \A j \in 1 .. Len(importing.answers) :
            importing.answers[j] \notin {<<>>, Failed} =>
               importing.answers[j] \in AnswersTo(chunks[j]) /\ ToSet(chunks[j]) \subseteq imported
  BY <1>0, <1>1 DEF ImportAccounted
<1>6. answer \in AnswersTo(chunk) /\ ToSet(chunk) \subseteq imported
  BY <1>1, <1>4, <1>5
<1>7. /\ chunk \in Seq(AllListed) /\ ToSet(chunk) = e + 1 .. EndOf(chunks, k)
      /\ EndOf(chunks, k) = e + Len(chunk) /\ \A i \in 1 .. Len(chunk) : chunk[i] = e + i
      /\ e \in Nat /\ EndOf(chunks, k) \in Nat
  <2>1. /\ chunk \in Seq(AllListed) /\ ToSet(chunk) = EndOf(chunks, k - 1) + 1 .. EndOf(chunks, k)
        /\ EndOf(chunks, k) = EndOf(chunks, k - 1) + Len(chunk)
        /\ \A i \in 1 .. Len(chunk) : chunk[i] = EndOf(chunks, k - 1) + i
        /\ EndOf(chunks, importing.given) \in Nat /\ EndOf(chunks, k) \in Nat
    <3> HIDE DEF k
    <3> QED
      BY <1>0, <1>4, EndsAre
  <2>2. EndOf(chunks, k - 1) = e /\ EndOf(chunks, importing.given) = e
    BY <1>4
  <2> HIDE DEF e, chunk, k, chunks
  <2> QED
    BY <2>1, <2>2
<1> HIDE DEF e, chunk, chunks, answer, k
<1>8. ByName(answer) = chunk
  BY <1>6, <1>7, ByNameIs
<1>9. longer = [m \in 1 .. EndOf(chunks, k) |-> m] /\ longer \in Seq(Nat)
  <2>1. chunk \in Seq(Nat)
    BY <1>7, ListedAreNat
  <2> QED
    BY <1>5, <1>7, <1>8, <2>1, Follow
<1>10. 1 .. EndOf(chunks, k) \subseteq imported
  <2>1. 1 .. EndOf(chunks, k) \subseteq 1 .. e \cup ToSet(chunk)
    BY <1>7
  <2> QED
    BY <1>5, <1>6, <2>1
<1> HIDE DEF longer
<1>11. /\ imp \in ImportRecords /\ imp.at = "open" /\ imp.sizes = importing.sizes /\ imp.chunks = importing.chunks
       /\ imp.answers = importing.answers /\ imp.given = k /\ imp.results = longer
  BY <1>1, <1>2, <1>3, <1>4, <1>9 DEF ImportRecords
<1>12. k <= Len(importing.answers) /\ Len(importing.answers) <= Len(chunks) /\ Len(importing.answers) - k <= Ahead
  BY <1>3, <1>4, ChunkAssumption DEF k
<1>13. ImportAccounted(imp, imported)
  BY <1>5, <1>9, <1>10, <1>11, <1>12 DEF ImportAccounted, chunks
<1> QED
  BY <1>1, <1>2, <1>13 DEF ImportInv

LEMMA StreamStopsKeeps ==
    ASSUME ImportInv, StreamFails \/ StreamEnds
    PROVE  ImportInv'
<1>0. ImportAccounted(importing, imported)
  BY DEF ImportInv
<1>1. PICK at \in {"failed", "ended"} :
         /\ importing' = [importing EXCEPT !.at = at] /\ importing.at = "open" /\ imported' = imported
         /\ at = "ended" => importing.given = Len(importing.chunks)
  BY DEF StreamFails, StreamEnds
<1>2. PICK imp : imp = importing'
  OBVIOUS
<1>3. importing \in ImportRecords
  BY <1>0, ImportIs
<1>4. /\ imp \in ImportRecords /\ imp.at = at /\ imp.sizes = importing.sizes /\ imp.chunks = importing.chunks
      /\ imp.answers = importing.answers /\ imp.given = importing.given /\ imp.results = importing.results
  BY <1>1, <1>2, <1>3 DEF ImportRecords
<1>5. ImportAccounted(imp, imported)
  BY <1>0, <1>1, <1>4 DEF ImportAccounted
<1> QED
  BY <1>1, <1>2, <1>5 DEF ImportInv

LEMMA ChunkedInvStep == ChunkedInv /\ [ChunkedNext]_chunkVars => ChunkedInv'
<1> SUFFICES ASSUME ChunkedInv, [ChunkedNext]_chunkVars
             PROVE  ChunkedInv'
  OBVIOUS
<1>0. BulkInv /\ ImportInv
  BY DEF ChunkedInv
<1>1. ASSUME UNCHANGED <<bulk, touched>> PROVE BulkInv'
  BY <1>0, <1>1 DEF BulkInv
<1>2. ASSUME UNCHANGED <<importing, imported>> PROVE ImportInv'
  BY <1>0, <1>2 DEF ImportInv
<1>3. CASE UNCHANGED chunkVars
  BY <1>1, <1>2, <1>3 DEF chunkVars, ChunkedInv
<1>4. CASE CallBulk
  BY <1>0, <1>2, <1>4, CallBulkKeeps DEF CallBulk, ChunkedInv
<1>5. CASE SendChunk
  BY <1>0, <1>2, <1>5, SendChunkKeeps DEF SendChunk, ChunkedInv
<1>6. CASE ChunkFails \/ BulkDone \/ Undone
  <2>1. UNCHANGED <<importing, imported>>
    BY <1>6 DEF ChunkFails, BulkDone, Undone
  <2> QED
    BY <1>0, <1>2, <1>6, <2>1, BulkEndsKeeps DEF ChunkedInv
<1>7. ASSUME NEW i \in AllListed, Undo(i) PROVE ChunkedInv'
  BY <1>0, <1>2, <1>7, UndoKeeps DEF Undo, ChunkedInv
<1>8. CASE CallImport
  BY <1>0, <1>1, <1>8, CallImportKeeps DEF CallImport, ChunkedInv
<1>9. CASE SendImport
  BY <1>0, <1>1, <1>9, SendImportKeeps DEF SendImport, ChunkedInv
<1>10. CASE TakeChunk
  BY <1>0, <1>1, <1>10, TakeChunkKeeps DEF TakeChunk, ChunkedInv
<1>11. CASE StreamFails \/ StreamEnds
  <2>1. UNCHANGED <<bulk, touched>>
    BY <1>11 DEF StreamFails, StreamEnds
  <2> QED
    BY <1>0, <1>1, <1>11, <2>1, StreamStopsKeeps DEF ChunkedInv
<1>12. ASSUME NEW k \in AllListed, ImportAnswered(k) PROVE ChunkedInv'
  BY <1>0, <1>1, <1>12, ImportAnsweredKeeps DEF ImportAnswered, ChunkedInv
<1> QED
  BY <1>3, <1>4, <1>5, <1>6, <1>7, <1>8, <1>9, <1>10, <1>11, <1>12 DEF ChunkedNext

\* What was imported and not reported is in the chunks the stream is ahead by.
LEMMA UnreportedAre ==
    ASSUME ImportInv
    PROVE  UnreportedBounded
<1> DEFINE g == importing.given
           n == Len(importing.answers)
           chunks == importing.chunks
           a == EndOf(chunks, g)
           b == EndOf(chunks, n)
<1>0. ImportAccounted(importing, imported)
  BY DEF ImportInv
<1>1. /\ g \in Nat /\ n \in Nat /\ Len(chunks) \in Nat /\ importing.results \in Seq(Nat)
      /\ g <= n /\ n <= Len(chunks) /\ n - g <= Ahead
  BY <1>0, ImportIs
<1>2. g \in 0 .. Len(chunks) /\ n \in 0 .. Len(chunks)
  BY <1>1
<1>3. a \in Nat /\ b \in Nat /\ a <= b /\ b - a <= (n - g) * ChunkLen
  <2>1. g <= n
    BY <1>1
  <2> HIDE DEF g, n
  <2> QED
    BY <1>0, <1>2, <2>1, EndsAre
<1>4. n - g \in Nat /\ (n - g) * ChunkLen <= Ahead * ChunkLen
  <2>1. n - g \in Nat /\ Ahead \in Nat /\ ChunkLen \in Nat /\ n - g <= Ahead
    BY <1>1, ChunkAssumption
  <2>2. \A x, y, z \in Nat : x <= y => x * z <= y * z
    OBVIOUS
  <2> QED
    BY <2>1, <2>2
<1>5. importing.results = [m \in 1 .. a |-> m] /\ imported \subseteq 1 .. b /\ 1 .. a \subseteq imported
  BY <1>0 DEF ImportAccounted
<1>6. ASSUME importing.at = "ended"
      PROVE  imported = AllListed /\ a = Listed
  <2>1. g = Len(chunks) /\ CutUp(chunks, Listed, importing.sizes)
    BY <1>0, <1>6 DEF ImportAccounted
  <2>2. n = g
    BY <1>1, <2>1
  <2>3. a = Listed /\ b = Listed
    BY <2>1, <2>2 DEF CutUp
  <2> QED
    BY <1>5, <2>3 DEF AllListed
<1> HIDE DEF a, b, g, n
<1>7. ToSet(importing.results) = 1 .. a /\ Len(importing.results) = a
  <2> DEFINE r == importing.results
  <2>1. DOMAIN r = 1 .. a /\ (\A m \in 1 .. a : r[m] = m) /\ r \in Seq(Nat)
    BY <1>1, <1>5
  <2> HIDE DEF r
  <2>2. ToSet(r) = 1 .. a
    BY <2>1 DEF ToSet
  <2>3. Len(r) = a
    BY <1>3, <2>1
  <2> QED
    BY <2>2, <2>3 DEF r
<1>8. Cardinality(imported \ ToSet(importing.results)) <= Ahead * ChunkLen
  <2> DEFINE D == imported \ ToSet(importing.results)
             I == a + 1 .. b
  <2>1. D \subseteq I
    <3>1. \A m \in 1 .. b : m \notin 1 .. a => m \in a + 1 .. b
      BY <1>3
    <3> QED
      BY <1>5, <1>7, <3>1
  <2>2. IsFiniteSet(I) /\ Cardinality(I) = b - a
    <3>1. a + 1 \in Int /\ b \in Int /\ (a + 1 > b => b - a = 0) /\ b - (a + 1) + 1 = b - a
      BY <1>3
    <3>2. IsFiniteSet(I) /\ Cardinality(I) = IF a + 1 > b THEN 0 ELSE b - (a + 1) + 1
      BY <3>1, FS_Interval
    <3> QED
      BY <3>1, <3>2
  <2> HIDE DEF D, I
  <2>3. Cardinality(D) \in Nat /\ Cardinality(D) <= b - a
    <3>1. IsFiniteSet(D) /\ Cardinality(D) <= Cardinality(I)
      BY <2>1, <2>2, FS_Subset
    <3> QED
      BY <2>2, <3>1, FS_CardinalityType
  <2>4. Cardinality(D) <= Ahead * ChunkLen
    <3>1. (n - g) * ChunkLen \in Nat /\ Ahead * ChunkLen \in Nat
      BY <1>4, ChunkAssumption
    <3> QED
      BY <1>3, <1>4, <2>3, <3>1
  <2> QED
    BY <2>4 DEF D
<1> QED
  BY <1>6, <1>7, <1>8 DEF UnreportedBounded

\* The part of the type invariant that says what the chunks are.
LEMMA ImportTyped ==
    ASSUME ImportInv
    PROVE  /\ imported \subseteq AllListed /\ importing.at \in {"new", "open", "too big", "failed", "ended"}
           /\ importing.chunks # <<>> => FlattenSeq(importing.chunks) = [m \in AllListed |-> m]
           /\ \A k \in DOMAIN importing.chunks :
                 /\ Len(importing.chunks[k]) \in 1 .. ChunkLen
                 /\ SizeOf(importing.chunks[k], importing.sizes) <= MaxSize
<1> DEFINE chunks == importing.chunks
           n == Len(importing.answers)
<1>0. ImportAccounted(importing, imported)
  BY DEF ImportInv
<1>1. importing.at \in {"new", "open", "too big", "failed", "ended"}
  <2>1. importing \in ImportRecords
    BY <1>0, ImportIs
  <2> QED
    BY <2>1 DEF ImportRecords
<1>2. n \in Nat /\ Len(chunks) \in Nat /\ n <= Len(chunks) /\ imported \subseteq 1 .. EndOf(chunks, n)
  BY <1>0, ImportIs DEF ImportAccounted
<1>3. CASE chunks = <<>>
  <2>1. Len(chunks) = 0
    BY <1>3
  <2>2. n = 0
    BY <1>2, <2>1
  <2>3. imported = {}
    <3>1. EndOf(chunks, n) = 0
      BY <2>2 DEF EndOf
    <3> QED
      BY <1>2, <3>1
  <2>4. DOMAIN chunks = {}
    BY <1>3
  <2> QED
    BY <1>1, <1>3, <2>3, <2>4
<1>4. CASE chunks # <<>>
  <2>1. CutUp(chunks, Listed, importing.sizes)
    BY <1>0, <1>4 DEF ImportAccounted
  <2>2. EndOf(chunks, Len(chunks)) = Listed
    BY <2>1 DEF CutUp
  <2>3. EndOf(chunks, n) <= Listed /\ EndOf(chunks, n) \in Nat
    <3>1. n \in 0 .. Len(chunks) /\ Len(chunks) \in 0 .. Len(chunks) /\ n <= Len(chunks)
      BY <1>2
    <3> HIDE DEF n, chunks
    <3> QED
      BY <2>1, <2>2, <3>1, EndsGrow
  <2>4. imported \subseteq AllListed
    BY <1>2, <2>3, ChunkAssumption DEF AllListed
  <2>5. FlattenSeq(chunks) = [m \in AllListed |-> m]
    <3>1. Listed \in Nat
      BY ChunkAssumption
    <3> HIDE DEF chunks
    <3> QED
      BY <1>4, <2>1, <3>1, ChunksAreAll DEF AllListed
  <2>6. \A k \in DOMAIN chunks : Len(chunks[k]) \in 1 .. ChunkLen /\ SizeOf(chunks[k], importing.sizes) <= MaxSize
    BY <2>1 DEF CutUp
  <2> QED
    BY <1>1, <2>4, <2>5, <2>6
<1> QED
  BY <1>3, <1>4

\* Whatever is refused, fails, is undone or answered in whatever order, what a
\* call in chunks reports accounts for what it did.
THEOREM ChunksAreAccountedFor == ChunkedSpec => []ChunksAccounted
<1>1. ChunkedInit => ChunkedInv
  BY BulkInvInit, ImportInvInit DEF ChunkedInv
<1>2. ChunkedInv => ChunksAccounted
  <2> SUFFICES ASSUME ChunkedInv
               PROVE  ChunksAccounted
    OBVIOUS
  <2>0. BulkAccounted(bulk, touched) /\ ImportAccounted(importing, imported) /\ ImportInv
    BY DEF ChunkedInv, BulkInv, ImportInv
  <2>1. ChunkedTypeOK
    <3>1. touched \subseteq AllListed /\ bulk.at \in {"new", "chunk", "undo", "undone", "not undone", "refused", "err", "ok"}
      BY <2>0 DEF BulkAccounted, BulkRecords, BulkAts
    <3> QED
      BY <2>0, <3>1, ImportTyped DEF ChunkedTypeOK
  <2>2. DoneOrTold
    <3>1. bulk.at = "ok" /\ bulk.kind # "plain" => touched = AllListed
      BY <2>0 DEF BulkAccounted
    <3>2. ASSUME bulk.at \in {"err", "refused"}, bulk.kind # "plain", NEW m \in AllListed
          PROVE  /\ m \in touched => m <= bulk.chunk * ChunkLen
                 /\ m <= (bulk.chunk - 1) * ChunkLen => m \in touched
      <4>1. Before(bulk.chunk) \subseteq touched /\ touched \subseteq Before(bulk.chunk + 1)
        BY <2>0, <3>2 DEF BulkAccounted
      <4>2. (bulk.chunk + 1) - 1 = bulk.chunk
        <5>1. bulk.chunk \in Nat
          BY <2>0 DEF BulkAccounted, BulkRecords
        <5> QED
          BY <5>1
      <4>3. m \in touched => m <= ((bulk.chunk + 1) - 1) * ChunkLen
        BY <4>1 DEF Before
      <4>4. m <= (bulk.chunk - 1) * ChunkLen => m \in touched
        BY <4>1 DEF Before
      <4> QED
        BY <4>2, <4>3, <4>4
    <3> QED
      BY <3>1, <3>2 DEF DoneOrTold
  <2>3. UndoneUpToAChunk
    BY <2>0 DEF BulkAccounted, UndoneUpToAChunk
  <2>4. ResultsInOrder
    <3> DEFINE e == EndOf(importing.chunks, importing.given)
               r == importing.results
    <3>1. r = [m \in 1 .. e |-> m] /\ r \in Seq(Nat)
      BY <2>0, ImportIs DEF ImportAccounted
    <3>2. importing.given \in 0 .. Len(importing.chunks)
      BY <2>0, ImportIs
    <3>3. e \in Nat
      BY <2>0, <3>2, EndsAre
    <3> HIDE DEF e, r
    <3>4. Len(r) = e
      BY <3>1, <3>3
    <3> QED
      BY <3>1, <3>4 DEF ResultsInOrder, r
  <2>5. UnreportedBounded
    BY <2>0, UnreportedAre
  <2> QED
    BY <2>1, <2>2, <2>3, <2>4, <2>5 DEF ChunksAccounted
<1> QED
  BY <1>1, <1>2, ChunkedInvStep, PTL DEF ChunkedSpec

------------------------------------------------------------------------------
(* Importing a message. *)

\* Of any naturals one is the least.
LEMMA LeastOf ==
    ASSUME NEW X, X \subseteq Nat, X # {}
    PROVE  \E x \in X : \A y \in X : x <= y
<1> DEFINE R == OpToRel(<, Nat)
<1>1. IsWellFoundedOn(R, Nat)
  BY NatLessThanWellFounded
<1>2. \A x, y \in Nat : y < x => <<y, x>> \in R
  BY DEF OpToRel
<1> HIDE DEF R
<1>3. PICK x \in X : \A y \in X : ~(<<y, x>> \in R)
  BY <1>1, WFMin
<1>4. \A y \in X : ~(y < x)
  BY <1>2, <1>3
<1>5. \A y \in X : x <= y
  BY <1>4
<1> QED
  BY <1>5

\* What a leaf of a message is.
FileIDs == FileNames \cup {"", "attachment.bin", "encrypted.asc"}
LeafRecords ==
    [kind : {"leaf"}, type : {"plain", "html", "file"}, ok : BOOLEAN, disposition : {"none", "attachment", "inline"},
     name : FileIDs, cid : FileIDs, enc : {"no", "armored", "base64", "version"}, whole : BOOLEAN]
Clear == {l \in LeafRecords : l.enc = "no" /\ ~l.whole}

\* Parts, one after the other, of which there is one at least.
Row(parts, S) == \E n \in 1 .. MaxParts + 1 : parts \in [1 .. n -> S]

\* A part of a message is a leaf, or has leaves; a message is a leaf, or has parts.
IsPart(t) == t \in Clear \/ (t.kind = "multi" /\ t.type = "related" /\ t = Multi("related", t.parts) /\ Row(t.parts, Clear))
IsTree(t) ==
    \/ t \in Clear
    \/ /\ t.kind = "multi" /\ t.type \in {"mixed", "encrypted", "signed"} /\ t = Multi(t.type, t.parts)
       /\ \E n \in 1 .. MaxParts + 1 : t.parts = [i \in 1 .. n |-> t.parts[i]] /\ \A i \in 1 .. n : IsPart(t.parts[i])

LEMMA BoundIs == MaxParts \in Nat
BY ImportMailAssumption

LEMMA LeavesAre == Texts \cup Files \subseteq Clear
<1>1. ASSUME NEW type \in {"plain", "html", "file"}, NEW ok \in BOOLEAN
      PROVE  Text(type, ok) \in Clear
  BY <1>1 DEF Text, Clear, LeafRecords, FileIDs
<1>2. ASSUME NEW d \in {"none", "attachment", "inline"}, NEW n \in FileIDs, NEW c \in FileIDs
      PROVE  File(d, n, c) \in Clear
  BY <1>2 DEF File, Text, Clear, LeafRecords, FileIDs
<1>3. Texts \subseteq Clear
  BY <1>1 DEF Texts
<1>4. Files \subseteq Clear
  <2>1. FileNames \subseteq FileIDs /\ "" \in FileIDs
    BY DEF FileIDs
  <2>2. (CHOOSE f \in FileNames : TRUE) \in FileNames
    BY ImportMailAssumption
  <2> QED
    BY <1>2, <2>1, <2>2 DEF Files
<1> QED
  BY <1>3, <1>4

LEMMA SomeAre == ASSUME NEW S, NEW parts \in Some(S) PROVE Row(parts, S)
<1>1. PICK m \in 0 .. MaxParts : parts \in [1 .. m -> S]
  BY DEF Some, SeqOf
<1>2. m # 0
  <2> SUFFICES ASSUME m = 0 PROVE FALSE
    OBVIOUS
  <2>1. 1 .. 0 = {}
    OBVIOUS
  <2>2. parts = <<>>
    BY <1>1, <2>1
  <2> QED
    BY <2>2 DEF Some
<1>3. m \in 1 .. MaxParts + 1
  BY <1>2, BoundIs
<1> QED
  BY <1>1, <1>3 DEF Row

LEMMA TreesAre == ASSUME NEW t \in Literals PROVE IsTree(t)
<1>1. \A p \in Inner : IsPart(p)
  <2> SUFFICES ASSUME NEW parts \in Some(Texts \cup Files) PROVE IsPart(Multi("related", parts))
    BY DEF Inner
  <2>1. Row(parts, Texts \cup Files)
    BY SomeAre
  <2>2. Row(parts, Clear)
    BY <2>1, LeavesAre DEF Row
  <2> QED
    BY <2>2 DEF IsPart, Multi
<1>2. \A p \in Texts \cup Files \cup Inner : IsPart(p)
  BY <1>1, LeavesAre DEF IsPart
<1>3. CASE t \in Texts \cup Files
  BY <1>3, LeavesAre DEF IsTree
<1>4. ASSUME NEW sub \in {"mixed", "encrypted", "signed"}, NEW parts \in Some(Texts \cup Files \cup Inner), t = Multi(sub, parts)
      PROVE  IsTree(t)
  <2>1. PICK n \in 1 .. MaxParts + 1 : parts \in [1 .. n -> Texts \cup Files \cup Inner]
    BY SomeAre DEF Row
  <2>2. parts = [i \in 1 .. n |-> parts[i]] /\ \A i \in 1 .. n : IsPart(parts[i])
    BY <1>2, <2>1
  <2>3. t.kind = "multi" /\ t.type = sub /\ t.parts = parts
    BY <1>4 DEF Multi
  <2> QED
    BY <1>4, <2>2, <2>3 DEF IsTree
<1> QED
  BY <1>3, <1>4 DEF Literals

\* A part and a message, seen as the rows below them.
LEMMA PartIs ==
    ASSUME NEW t, IsPart(t)
    PROVE  /\ t.kind \in {"leaf", "multi"}
           /\ t.kind = "leaf" => t \in Clear
           /\ t.kind = "multi" => t.type = "related" /\ t = Multi("related", t.parts) /\ ~IsText(t)
           /\ \E m \in 1 .. MaxParts + 1 : PartsOf(t) \in [1 .. m -> Clear]
<1>1. CASE t \in Clear
  <2>1. t.kind = "leaf"
    BY <1>1 DEF Clear, LeafRecords
  <2>2. PartsOf(t) \in [1 .. 1 -> Clear]
    BY <1>1, <2>1 DEF PartsOf
  <2> QED
    BY <1>1, <2>1, <2>2, BoundIs
<1>2. CASE ~(t \in Clear)
  <2>1. t.kind = "multi" /\ t.type = "related" /\ t = Multi("related", t.parts) /\ Row(t.parts, Clear)
    BY <1>2 DEF IsPart
  <2> QED
    BY <2>1 DEF Row, PartsOf, IsText
<1> QED
  BY <1>1, <1>2

LEMMA TreeIs ==
    ASSUME NEW t, IsTree(t)
    PROVE  /\ t.kind \in {"leaf", "multi"}
           /\ t.kind = "leaf" => t \in Clear
           /\ t.kind = "multi" => t.type \in {"mixed", "encrypted", "signed"} /\ t = Multi(t.type, t.parts)
           /\ \E n \in 1 .. MaxParts + 1 :
                 PartsOf(t) = [i \in 1 .. n |-> PartsOf(t)[i]] /\ \A i \in 1 .. n : IsPart(PartsOf(t)[i])
<1>1. CASE t \in Clear
  <2>1. t.kind = "leaf"
    BY <1>1 DEF Clear, LeafRecords
  <2>2. PartsOf(t) = <<t>> /\ IsPart(t)
    BY <1>1, <2>1 DEF PartsOf, IsPart
  <2>3. 1 \in 1 .. MaxParts + 1 /\ PartsOf(t) = [i \in 1 .. 1 |-> PartsOf(t)[i]] /\ \A i \in 1 .. 1 : IsPart(PartsOf(t)[i])
    BY <2>2, BoundIs
  <2> QED
    BY <1>1, <2>1, <2>3
<1>2. CASE ~(t \in Clear)
  BY <1>2 DEF IsTree, PartsOf
<1> QED
  BY <1>1, <1>2

\* The places of a message and what is there.
LEMMA PlacesAre ==
    ASSUME NEW t, IsTree(t)
    PROVE  /\ Places(t) \subseteq (1 .. MaxParts + 1) \X (1 .. MaxParts + 1)
           /\ IsFiniteSet(Places(t))
           /\ \A p \in Places(t) : p[1] \in DOMAIN PartsOf(t) /\ LeafAt(t, p) \in Clear
           /\ \A i \in DOMAIN PartsOf(t) : <<i, 1>> \in Places(t)
<1>1. PICK n \in 1 .. MaxParts + 1 :
         PartsOf(t) = [i \in 1 .. n |-> PartsOf(t)[i]] /\ \A i \in 1 .. n : IsPart(PartsOf(t)[i])
  BY TreeIs
<1>2. DOMAIN PartsOf(t) = 1 .. n
  BY <1>1
<1>3. \A i \in 1 .. n : \E m \in 1 .. MaxParts + 1 : PartsOf(PartsOf(t)[i]) \in [1 .. m -> Clear]
  BY <1>1, PartIs
<1>4. ASSUME NEW p \in Places(t)
      PROVE  /\ p \in (1 .. MaxParts + 1) \X (1 .. MaxParts + 1)
             /\ p[1] \in DOMAIN PartsOf(t) /\ LeafAt(t, p) \in Clear
  <2>1. PICK i \in 1 .. n : p \in {<<i, j>> : j \in DOMAIN PartsOf(PartsOf(t)[i])}
    BY <1>2 DEF Places
  <2>2. PICK j \in DOMAIN PartsOf(PartsOf(t)[i]) : p = <<i, j>>
    BY <2>1
  <2>3. PICK m \in 1 .. MaxParts + 1 : PartsOf(PartsOf(t)[i]) \in [1 .. m -> Clear]
    BY <1>3
  <2>4. j \in 1 .. m /\ PartsOf(PartsOf(t)[i])[j] \in Clear
    BY <2>2, <2>3
  <2>5. i \in 1 .. MaxParts + 1 /\ j \in 1 .. MaxParts + 1
    BY <2>4, BoundIs
  <2> QED
    BY <1>2, <2>2, <2>4, <2>5 DEF LeafAt
<1>5. ASSUME NEW i \in DOMAIN PartsOf(t)
      PROVE  <<i, 1>> \in Places(t)
  <2>1. PICK m \in 1 .. MaxParts + 1 : PartsOf(PartsOf(t)[i]) \in [1 .. m -> Clear]
    BY <1>2, <1>3
  <2>2. 1 \in DOMAIN PartsOf(PartsOf(t)[i])
    BY <2>1, BoundIs
  <2> QED
    BY <2>2 DEF Places
<1>6. IsFiniteSet(Places(t))
  <2>1. IsFiniteSet(1 .. MaxParts + 1)
    BY BoundIs, FS_Interval
  <2>2. IsFiniteSet((1 .. MaxParts + 1) \X (1 .. MaxParts + 1))
    BY <2>1, FS_Product
  <2> QED
    BY <1>4, <2>2, FS_Subset
<1> QED
  BY <1>4, <1>5, <1>6

\* A message encrypted part by part has the same places, types and keys.
LEMMA EncryptedLeaf ==
    ASSUME NEW l \in Clear
    PROVE  /\ EncryptLeaf(l) = [l EXCEPT !.enc = IF IsText(l) THEN "armored" ELSE "base64"]
           /\ EncryptLeaf(l).kind = "leaf" /\ EncryptLeaf(l).type = l.type /\ EncryptLeaf(l).disposition = l.disposition
           /\ EncryptLeaf(l).name = l.name /\ EncryptLeaf(l).cid = l.cid /\ EncryptLeaf(l).enc # "no"
           /\ EncryptLeaf(l).enc = IF IsText(l) THEN "armored" ELSE "base64"
<1>1. l \in LeafRecords
  BY DEF Clear
<1>2. EncryptLeaf(l) = [l EXCEPT !.enc = IF IsText(l) THEN "armored" ELSE "base64"]
  BY DEF EncryptLeaf
<1> QED
  BY <1>1, <1>2 DEF LeafRecords

LEMMA EncryptedPart ==
    ASSUME NEW t, IsPart(t)
    PROVE  /\ EncryptPart(t).kind = t.kind /\ EncryptPart(t).type = t.type
           /\ PartsOf(EncryptPart(t)) = [j \in DOMAIN PartsOf(t) |-> EncryptLeaf(PartsOf(t)[j])]
<1>1. CASE t.kind = "leaf"
  <2>1. EncryptPart(t) = EncryptLeaf(t) /\ t \in Clear
    BY <1>1, PartIs DEF EncryptPart
  <2>2. EncryptLeaf(t).kind = "leaf" /\ EncryptLeaf(t).type = t.type
    BY <2>1, EncryptedLeaf
  <2>3. PartsOf(t) = <<t>> /\ PartsOf(EncryptLeaf(t)) = <<EncryptLeaf(t)>>
    BY <1>1, <2>2 DEF PartsOf
  <2>4. <<EncryptLeaf(t)>> = [j \in DOMAIN <<t>> |-> EncryptLeaf(<<t>>[j])]
    OBVIOUS
  <2> QED
    BY <1>1, <2>1, <2>2, <2>3, <2>4
<1>2. CASE t.kind = "multi"
  <2>1. t = Multi("related", t.parts)
    BY <1>2, PartIs
  <2> DEFINE parts == [i \in DOMAIN t.parts |-> EncryptLeaf(t.parts[i])]
  <2>2. EncryptPart(t) = [t EXCEPT !.parts = parts]
    BY <1>2 DEF EncryptPart
  <2> HIDE DEF parts
  <2>3. EncryptPart(t) = Multi("related", parts)
    BY <2>1, <2>2 DEF Multi
  <2>4. EncryptPart(t).kind = "multi" /\ EncryptPart(t).type = "related" /\ EncryptPart(t).parts = parts
    BY <2>3 DEF Multi
  <2>5. PartsOf(EncryptPart(t)) = parts /\ PartsOf(t) = t.parts
    BY <1>2, <2>4 DEF PartsOf
  <2> QED
    BY <1>2, <2>4, <2>5, PartIs DEF parts
<1> QED
  BY <1>1, <1>2, PartIs

LEMMA EncryptedTree ==
    ASSUME NEW t, IsTree(t)
    PROVE  /\ EncryptParts(t).kind = t.kind /\ EncryptParts(t).type = t.type
           /\ DOMAIN PartsOf(EncryptParts(t)) = DOMAIN PartsOf(t)
           /\ \A i \in DOMAIN PartsOf(t) :
                 /\ PartsOf(EncryptParts(t))[i].kind = PartsOf(t)[i].kind
                 /\ PartsOf(EncryptParts(t))[i].type = PartsOf(t)[i].type
           /\ Places(EncryptParts(t)) = Places(t)
           /\ \A p \in Places(t) : LeafAt(EncryptParts(t), p) = EncryptLeaf(LeafAt(t, p))
<1> DEFINE e == EncryptParts(t)
<1>1. PICK n \in 1 .. MaxParts + 1 :
         PartsOf(t) = [i \in 1 .. n |-> PartsOf(t)[i]] /\ \A i \in 1 .. n : IsPart(PartsOf(t)[i])
  BY TreeIs
<1>2. e.kind = t.kind /\ e.type = t.type /\ PartsOf(e) = [i \in 1 .. n |-> EncryptPart(PartsOf(t)[i])]
  <2>1. CASE t.kind = "leaf"
    <3>1. e = EncryptLeaf(t) /\ t \in Clear
      BY <2>1, TreeIs DEF EncryptParts
    <3>2. EncryptLeaf(t).kind = "leaf" /\ EncryptLeaf(t).type = t.type
      BY <3>1, EncryptedLeaf
    <3>3. PartsOf(t) = <<t>> /\ PartsOf(e) = <<EncryptLeaf(t)>>
      BY <2>1, <3>1, <3>2 DEF PartsOf
    <3>4. n = 1
      <4>1. DOMAIN PartsOf(t) = 1 .. n
        BY <1>1
      <4>2. DOMAIN PartsOf(t) = 1 .. 1
        BY <3>3
      <4>3. n \in 1 .. n
        BY BoundIs
      <4>4. n \in 1 .. 1
        <5> HIDE DEF e
        <5> QED
          BY <4>1, <4>2, <4>3
      <4> QED
        BY <4>4
    <3>5. EncryptPart(PartsOf(t)[1]) = EncryptLeaf(t)
      <4>1. PartsOf(t)[1] = t
        BY <3>3
      <4>2. EncryptPart(t) = EncryptLeaf(t)
        BY <2>1 DEF EncryptPart
      <4> QED
        BY <4>1, <4>2
    <3> HIDE DEF e
    <3>6. PartsOf(e) = [i \in 1 .. 1 |-> EncryptPart(PartsOf(t)[i])]
      BY <3>3, <3>5
    <3> QED
      BY <2>1, <3>1, <3>2, <3>4, <3>6
  <2>2. CASE t.kind = "multi"
    <3>1. t = Multi(t.type, t.parts) /\ PartsOf(t) = t.parts
      BY <2>2, TreeIs DEF PartsOf
    <3> DEFINE parts == [i \in DOMAIN t.parts |-> EncryptPart(t.parts[i])]
    <3>2. e = [t EXCEPT !.parts = parts]
      BY <2>2 DEF EncryptParts
    <3> HIDE DEF parts, e
    <3>3. e = Multi(t.type, parts)
      BY <3>1, <3>2 DEF Multi
    <3>4. e.kind = "multi" /\ e.type = t.type /\ e.parts = parts
      BY <3>3 DEF Multi
    <3>5. PartsOf(e) = parts
      BY <3>4 DEF PartsOf
    <3>6. DOMAIN t.parts = 1 .. n
      BY <1>1, <3>1
    <3> QED
      BY <2>2, <3>1, <3>4, <3>5, <3>6 DEF parts
  <2> QED
    BY <2>1, <2>2, TreeIs
<1> HIDE DEF e
<1>3. DOMAIN PartsOf(t) = 1 .. n /\ DOMAIN PartsOf(e) = 1 .. n
  BY <1>1, <1>2
<1>4. ASSUME NEW i \in 1 .. n
      PROVE  /\ PartsOf(e)[i].kind = PartsOf(t)[i].kind /\ PartsOf(e)[i].type = PartsOf(t)[i].type
             /\ PartsOf(PartsOf(e)[i]) = [j \in DOMAIN PartsOf(PartsOf(t)[i]) |-> EncryptLeaf(PartsOf(PartsOf(t)[i])[j])]
  <2>1. PartsOf(e)[i] = EncryptPart(PartsOf(t)[i]) /\ IsPart(PartsOf(t)[i])
    BY <1>1, <1>2
  <2> QED
    BY <2>1, EncryptedPart
<1>5. \A i \in 1 .. n : DOMAIN PartsOf(PartsOf(e)[i]) = DOMAIN PartsOf(PartsOf(t)[i])
  BY <1>4
<1>6. Places(e) = Places(t)
  BY <1>3, <1>5 DEF Places
<1>7. ASSUME NEW p \in Places(t)
      PROVE  LeafAt(e, p) = EncryptLeaf(LeafAt(t, p))
  <2>1. PICK i \in 1 .. n : p \in {<<i, j>> : j \in DOMAIN PartsOf(PartsOf(t)[i])}
    BY <1>3 DEF Places
  <2>2. PICK j \in DOMAIN PartsOf(PartsOf(t)[i]) : p = <<i, j>>
    BY <2>1
  <2>3. PartsOf(PartsOf(e)[i])[j] = EncryptLeaf(PartsOf(PartsOf(t)[i])[j])
    BY <1>4, <2>2
  <2> QED
    BY <2>2, <2>3 DEF LeafAt
<1> QED
  BY <1>2, <1>3, <1>4, <1>6, <1>7 DEF e

\* Of any places one is the last.
LEMMA LastPlace ==
    ASSUME NEW m \in Nat, NEW P, P \subseteq (1 .. m) \X (1 .. m), P # {}
    PROVE  \E p \in P : \A q \in P : ~Precedes(p, q)
<1>0. \A q \in P : q[1] \in 1 .. m /\ q[2] \in 1 .. m /\ q = <<q[1], q[2]>>
  OBVIOUS
<1> DEFINE X == {m - q[1] : q \in P}
<1>1. X \subseteq Nat /\ X # {}
  BY <1>0
<1>2. PICK x \in X : \A y \in X : x <= y
  BY <1>1, LeastOf
<1>3. PICK a \in P : x = m - a[1]
  BY <1>2
<1>4. ASSUME NEW q \in P
      PROVE  q[1] <= a[1]
  <2>1. m - a[1] <= m - q[1]
    BY <1>2, <1>3
  <2>2. q[1] \in Int /\ a[1] \in Int
    BY <1>0
  <2> QED
    BY <2>1, <2>2
<1> DEFINE Y == {m - q[2] : q \in {r \in P : r[1] = a[1]}}
<1>5. Y \subseteq Nat /\ Y # {}
  BY <1>0, <1>3
<1>6. PICK y \in Y : \A z \in Y : y <= z
  BY <1>5, LeastOf
<1>7. PICK b \in {r \in P : r[1] = a[1]} : y = m - b[2]
  BY <1>6
<1>8. ASSUME NEW q \in P, q[1] = b[1]
      PROVE  q[2] <= b[2]
  <2>1. q \in {r \in P : r[1] = a[1]}
    BY <1>7, <1>8
  <2>2. m - b[2] <= m - q[2]
    BY <1>6, <1>7, <2>1
  <2>3. q[2] \in Int /\ b[2] \in Int
    BY <1>0, <1>7
  <2> QED
    BY <2>2, <2>3
<1> QED
  BY <1>0, <1>4, <1>7, <1>8 DEF Precedes

\* What sortAttachment drops has the key of a later one that it keeps.
LEMMA LastIsKept ==
    ASSUME NEW m \in Nat, NEW files, DOMAIN files \subseteq (1 .. m) \X (1 .. m)
    PROVE  /\ KeptFiles(files) \subseteq DOMAIN files
           /\ \A p \in DOMAIN files \ KeptFiles(files) :
                 \E q \in KeptFiles(files) : Precedes(p, q) /\ SameKey(files[p], files[q])
<1>1. KeptFiles(files) \subseteq DOMAIN files
  BY DEF KeptFiles
<1>2. ASSUME NEW p \in DOMAIN files, p \notin KeptFiles(files)
      PROVE  \E q \in KeptFiles(files) : Precedes(p, q) /\ SameKey(files[p], files[q])
  <2> DEFINE P == {q \in DOMAIN files : Precedes(p, q) /\ SameKey(files[p], files[q])}
  <2>1. P # {} /\ P \subseteq (1 .. m) \X (1 .. m)
    BY <1>2 DEF KeptFiles
  <2>2. PICK q \in P : \A r \in P : ~Precedes(q, r)
    <3> HIDE DEF P
    <3> QED
      BY <2>1, LastPlace
  <2>3. ASSUME NEW r \in DOMAIN files, Precedes(q, r), SameKey(files[q], files[r])
        PROVE  FALSE
    <3>1. SameKey(files[p], files[r])
      BY <2>2, <2>3 DEF SameKey
    <3>2. Precedes(p, r)
      <4>1. /\ p[1] \in Int /\ p[2] \in Int /\ q[1] \in Int /\ q[2] \in Int /\ r[1] \in Int /\ r[2] \in Int
            /\ Precedes(p, q)
        BY <2>1, <2>2
      <4> QED
        BY <2>3, <4>1 DEF Precedes
    <3> QED
      BY <2>2, <2>3, <3>1, <3>2
  <2>4. q \in KeptFiles(files)
    BY <2>2, <2>3 DEF KeptFiles
  <2> QED
    BY <2>2, <2>4
<1> QED
  BY <1>1, <1>2

------------------------------------------------------------------------------
\* What is posted is made of the message, and what is stored of what is posted.
Posted(t) == IF PartByPart(t) THEN EncryptParts(t) ELSE EncryptFull(t)
FileAt(t, p) == Attachment(LeafAt(t, p))
AttachedFiles(t) == [p \in FilesOf(t) |-> FileAt(t, p)]

ImportStored ==
    /\ stored.st = "panicked" => Bodies(posted) = {}
    /\ stored.st = "failed" => \E p \in FilesOf(posted) : ~Acceptable(FileAt(posted, p))
    /\ stored.st \in {"ok", "built"} =>
          /\ Bodies(posted) # {}
          /\ stored.body = LeafAt(posted, FirstOf(Bodies(posted))) /\ stored.type = TypeOf(posted)
          /\ stored.files = AttachedFiles(posted) /\ stored.kept = KeptFiles(AttachedFiles(posted))
    /\ stored.st = "built" => stored.written = IF stored.type = "mixed" THEN {} ELSE stored.kept

ImportMade ==
    /\ literal \in Literals
    /\ stage \in {"encrypt", "import", "build", "done"}
    /\ stored.st \in {"none", "ok", "failed", "panicked", "built"}
    /\ stage # "encrypt" => posted = Posted(literal)
    /\ stage \in {"encrypt", "import"} => stored.st = "none"
    /\ ImportStored

LEMMA ImportMadeInit == ImportMailInit => ImportMade
BY DEF ImportMailInit, ImportMade, ImportStored, Nothing

LEMMA ImportMadeStep == ImportMade /\ [ImportMailNext]_importVars => ImportMade'
<1> SUFFICES ASSUME ImportMade, [ImportMailNext]_importVars
             PROVE  ImportMade'
  OBVIOUS
<1>1. CASE Encrypt
  BY <1>1 DEF Encrypt, ImportMade, ImportStored, Posted
<1>2. CASE ImportLiteral
  <2> DEFINE files == AttachedFiles(posted)
  <2>1. /\ literal' = literal /\ posted' = posted /\ stage = "import" /\ stage' = "build"
        /\ stored' = IF Bodies(posted) = {} THEN [st |-> "panicked"]
                     ELSE IF \E p \in DOMAIN files : ~Acceptable(files[p]) THEN [st |-> "failed"]
                     ELSE [st |-> "ok", body |-> LeafAt(posted, FirstOf(Bodies(posted))), type |-> TypeOf(posted),
                           files |-> files, kept |-> KeptFiles(files)]
    BY <1>2 DEF ImportLiteral, AttachedFiles, FileAt
  <2>2. \A p \in DOMAIN files : p \in FilesOf(posted) /\ files[p] = FileAt(posted, p)
    BY DEF AttachedFiles
  <2> HIDE DEF files
  <2>3. /\ stored'.st \in {"ok", "failed", "panicked"}
        /\ stored'.st = "panicked" => Bodies(posted) = {}
        /\ stored'.st = "failed" => \E p \in FilesOf(posted) : ~Acceptable(FileAt(posted, p))
        /\ stored'.st = "ok" =>
              /\ Bodies(posted) # {}
              /\ stored'.body = LeafAt(posted, FirstOf(Bodies(posted))) /\ stored'.type = TypeOf(posted)
              /\ stored'.files = files /\ stored'.kept = KeptFiles(files)
    <3>1. CASE Bodies(posted) = {}
      BY <2>1, <3>1
    <3>2. CASE Bodies(posted) # {} /\ \E p \in DOMAIN files : ~Acceptable(files[p])
      BY <2>1, <2>2, <3>2
    <3>3. CASE Bodies(posted) # {} /\ ~\E p \in DOMAIN files : ~Acceptable(files[p])
      BY <2>1, <3>3
    <3> QED
      BY <3>1, <3>2, <3>3
  <2>4. ImportStored'
    <3>1. Bodies(posted)' = Bodies(posted) /\ FilesOf(posted)' = FilesOf(posted) /\ TypeOf(posted)' = TypeOf(posted)
      BY <2>1
    <3> QED
      BY <2>1, <2>3 DEF ImportStored, files
  <2> QED
    BY <2>1, <2>3, <2>4 DEF ImportMade
<1>3. CASE Build
  BY <1>3 DEF Build, ImportMade, ImportStored, Written, BodyOnly
<1>4. CASE UNCHANGED importVars
  BY <1>4 DEF importVars, ImportMade, ImportStored
<1> QED
  BY <1>1, <1>2, <1>3, <1>4 DEF ImportMailNext

\* A message that is encrypted as a whole.
LEMMA FullIs ==
    ASSUME NEW t
    PROVE  /\ Places(EncryptFull(t)) = {<<1, 1>>, <<2, 1>>}
           /\ \A p \in Places(EncryptFull(t)) : LeafAt(EncryptFull(t), p).enc # "no"
           /\ Bodies(EncryptFull(t)) = {<<2, 1>>} /\ FilesOf(EncryptFull(t)) = {}
           /\ LeafAt(EncryptFull(t), <<2, 1>>).whole
           /\ TypeOf(EncryptFull(t)) # "file"
<1> DEFINE e == EncryptFull(t)
           a == [File("none", "", "") EXCEPT !.enc = "version"]
           b == [File("inline", "encrypted.asc", "") EXCEPT !.enc = "armored", !.whole = TRUE]
<1>1. e = Multi("encrypted", <<a, b>>)
  BY DEF EncryptFull
<1>2. a.kind = "leaf" /\ b.kind = "leaf" /\ a.enc = "version" /\ b.enc = "armored" /\ b.whole
  BY DEF File, Text
<1> HIDE DEF a, b, e
<1>3. e.kind = "multi" /\ e.type = "encrypted" /\ e.parts = <<a, b>>
  BY <1>1 DEF Multi
<1>4. PartsOf(e) = <<a, b>> /\ PartsOf(a) = <<a>> /\ PartsOf(b) = <<b>>
  BY <1>2, <1>3 DEF PartsOf
<1>5. Places(e) = {<<1, 1>>, <<2, 1>>}
  <2>1. DOMAIN PartsOf(e) = {1, 2} /\ PartsOf(e)[1] = a /\ PartsOf(e)[2] = b
    BY <1>4
  <2>2. DOMAIN PartsOf(a) = {1} /\ DOMAIN PartsOf(b) = {1}
    BY <1>4
  <2>3. {<<1, j>> : j \in DOMAIN PartsOf(PartsOf(e)[1])} = {<<1, 1>>}
    BY <2>1, <2>2
  <2>4. {<<2, j>> : j \in DOMAIN PartsOf(PartsOf(e)[2])} = {<<2, 1>>}
    BY <2>1, <2>2
  <2>5. Places(e) = UNION {{<<i, j>> : j \in DOMAIN PartsOf(PartsOf(e)[i])} : i \in {1, 2}}
    BY <2>1 DEF Places
  <2> HIDE DEF e
  <2> QED
    BY <2>3, <2>4, <2>5
<1>6. LeafAt(e, <<1, 1>>) = a /\ LeafAt(e, <<2, 1>>) = b
  BY <1>4 DEF LeafAt
<1>7. TypeOf(e) # "file"
  BY <1>3 DEF TypeOf
<1>8. Bodies(e) = {<<2, 1>>} /\ FilesOf(e) = {}
  BY <1>3 DEF Bodies, FilesOf
<1> QED
  BY <1>2, <1>5, <1>6, <1>7, <1>8 DEF e

\* A message that is encrypted part by part: its texts are the bodies, and all
\* else are files with the keys they had.
LEMMA SplitUp ==
    ASSUME NEW t, IsTree(t), PartByPart(t)
    PROVE  LET e == EncryptParts(t) IN
           /\ Bodies(e) = TextsOf(t) /\ TextsOf(e) = TextsOf(t) /\ FilesOf(e) = Places(t) \ TextsOf(t)
           /\ Places(e) = Places(t)
           /\ \A p \in Places(t) : LeafAt(e, p) = EncryptLeaf(LeafAt(t, p)) /\ LeafAt(t, p) \in Clear
           /\ \A p \in FilesOf(e) :
                 /\ FileAt(e, p).cid = LeafAt(t, p).cid
                 /\ Acceptable(LeafAt(t, p)) => Acceptable(FileAt(e, p))
           /\ \A p \in TextsOf(t) : TextsOf(t) = {p}
<1> DEFINE e == EncryptParts(t)
<1>1. e.kind = t.kind /\ e.type = t.type /\ Places(e) = Places(t)
  BY EncryptedTree
<1>2. ASSUME NEW p \in Places(t)
      PROVE  LeafAt(e, p) = EncryptLeaf(LeafAt(t, p)) /\ LeafAt(t, p) \in Clear
  BY EncryptedTree, PlacesAre
<1> HIDE DEF e
<1>3. e.type # "encrypted"
  <2>1. t.type \in Nodes(t)
    BY DEF Nodes
  <2> QED
    BY <1>1, <2>1 DEF PartByPart
<1>4. \A p \in Places(t) : LeafAt(e, p).type = LeafAt(t, p).type
  BY <1>2, EncryptedLeaf
<1>5. TextsOf(e) = TextsOf(t)
  BY <1>1, <1>4 DEF TextsOf, IsText
<1>6. Bodies(e) = TextsOf(t) /\ FilesOf(e) = Places(t) \ TextsOf(t)
  BY <1>1, <1>3, <1>5 DEF Bodies, FilesOf
<1>7. ASSUME NEW p \in FilesOf(e)
      PROVE  /\ FileAt(e, p).cid = LeafAt(t, p).cid
             /\ Acceptable(LeafAt(t, p)) => Acceptable(FileAt(e, p))
  <2> DEFINE l == LeafAt(t, p)
             f == EncryptLeaf(l)
  <2>1. l \in Clear /\ LeafAt(e, p) = f
    BY <1>2, <1>6
  <2>2. f.disposition = l.disposition /\ f.cid = l.cid /\ f = [l EXCEPT !.enc = IF IsText(l) THEN "armored" ELSE "base64"]
    BY <2>1, EncryptedLeaf
  <2>3. FileAt(e, p) = Attachment(f)
    BY <2>1 DEF FileAt
  <2>4. f.disposition # "none" => Attachment(f) = f
    BY DEF Attachment
  <2>5. f.disposition = "none" => Attachment(f).disposition = "attachment" /\ Attachment(f).cid = f.cid
    <3>1. l \in LeafRecords
      BY <2>1 DEF Clear
    <3> HIDE DEF l
    <3> DEFINE v == IF IsText(l) THEN "armored" ELSE "base64"
    <3>2. f = [l EXCEPT !.enc = v]
      BY <2>2
    <3> HIDE DEF f, v
    <3> QED
      BY <3>1, <3>2 DEF Attachment, LeafRecords
  <2> HIDE DEF l, f
  <2>6. FileAt(e, p).cid = l.cid
    BY <2>2, <2>3, <2>4, <2>5
  <2>7. Acceptable(l) => Acceptable(FileAt(e, p))
    BY <2>2, <2>3, <2>4, <2>5 DEF Acceptable
  <2> QED
    BY <2>6, <2>7 DEF l
<1>8. \A p \in TextsOf(t) : TextsOf(t) = {p}
  BY DEF PartByPart
<1> QED
  BY <1>1, <1>2, <1>5, <1>6, <1>7, <1>8 DEF e

\* The type it is stored with: that of a text at the top, if there is one.
LEMMA SplitUpType ==
    ASSUME NEW t, IsTree(t), PartByPart(t), TextsOf(t) # {}
    PROVE  LET e == EncryptParts(t) IN
           /\ TypeOf(e) # "file"
           /\ TypeOf(e) = "mixed" => e.kind = "multi" /\ \A i \in DOMAIN e.parts : ~IsText(e.parts[i])
<1> DEFINE e == EncryptParts(t)
<1> SUFFICES /\ TypeOf(e) # "file"
             /\ TypeOf(e) = "mixed" => e.kind = "multi" /\ \A i \in DOMAIN e.parts : ~IsText(e.parts[i])
  OBVIOUS
<1>1. /\ e.kind = t.kind /\ e.type = t.type /\ DOMAIN PartsOf(e) = DOMAIN PartsOf(t)
      /\ \A i \in DOMAIN PartsOf(t) :
            PartsOf(e)[i].kind = PartsOf(t)[i].kind /\ PartsOf(e)[i].type = PartsOf(t)[i].type
  BY EncryptedTree
<1>2. FilesOf(e) = Places(t) \ TextsOf(t)
  BY SplitUp
<1> HIDE DEF e
<1>3. t.kind \in {"leaf", "multi"}
  BY TreeIs
<1>4. CASE t.kind = "leaf"
  <2>1. PartsOf(t) = <<t>> /\ TypeOf(e) = t.type
    BY <1>1, <1>4 DEF PartsOf, TypeOf
  <2>2. PICK p \in Places(t) : IsText(LeafAt(t, p))
    BY DEF TextsOf
  <2>3. LeafAt(t, p) = t
    <3>1. PICK i \in DOMAIN <<t>> : p \in {<<i, j>> : j \in DOMAIN PartsOf(<<t>>[i])}
      BY <2>1 DEF Places
    <3>2. i = 1 /\ <<t>>[i] = t
      OBVIOUS
    <3>3. PICK j \in DOMAIN <<t>> : p = <<i, j>>
      BY <2>1, <3>1, <3>2
    <3>4. j = 1
      OBVIOUS
    <3> QED
      BY <2>1, <3>2, <3>3, <3>4 DEF LeafAt
  <2> QED
    BY <2>1, <2>2, <2>3 DEF IsText
<1>5. CASE t.kind = "multi"
  <2>1. PICK n \in 1 .. MaxParts + 1 :
           PartsOf(t) = [i \in 1 .. n |-> PartsOf(t)[i]] /\ \A i \in 1 .. n : IsPart(PartsOf(t)[i])
    BY TreeIs
  <2>2. DOMAIN PartsOf(t) = 1 .. n /\ n \in Nat
    BY <2>1, BoundIs
  <2>3. PartsOf(e) = e.parts /\ DOMAIN e.parts = 1 .. n
    BY <1>1, <1>5, <2>2 DEF PartsOf
  <2>4. TypeOf(e) \in {"mixed", "html", "plain"}
    BY <1>1, <1>5 DEF TypeOf
  <2>5. ASSUME NEW i \in DOMAIN e.parts, IsText(e.parts[i])
        PROVE  TypeOf(e) # "mixed"
    <3>1. i \in 1 .. n /\ IsText(PartsOf(t)[i]) /\ IsPart(PartsOf(t)[i])
      BY <1>1, <2>1, <2>2, <2>3, <2>5 DEF IsText
    <3>2. PartsOf(t)[i].kind = "leaf"
      BY <3>1, PartIs
    <3>3. LeafAt(t, <<i, 1>>) = PartsOf(t)[i]
      BY <3>2 DEF LeafAt, PartsOf
    <3>4. \A k \in 1 .. n : <<k, 1>> \in Places(t)
      BY <2>2, PlacesAre
    <3>5. <<i, 1>> \in TextsOf(t)
      BY <3>1, <3>3, <3>4 DEF TextsOf
    <3>6. \A k \in (1 .. n) \ {i} : <<k, 1>> \in FilesOf(e)
      <4>1. TextsOf(t) = {<<i, 1>>}
        BY <3>5 DEF PartByPart
      <4> QED
        BY <1>2, <3>4, <4>1
    <3>7. IsFiniteSet(FilesOf(e))
      BY <1>2, PlacesAre, FS_Subset
    <3> DEFINE Others == (1 .. n) \ {i}
               f == [k \in Others |-> <<k, 1>>]
    <3>8. f \in Injection(Others, FilesOf(e))
      BY <3>6 DEF Injection, IsInjective
    <3>9. Cardinality(Others) <= Cardinality(FilesOf(e))
      <4> HIDE DEF f, Others
      <4> QED
        BY <3>7, <3>8, FS_Injection
    <3>10. Cardinality(Others) = n - 1
      <4>1. IsFiniteSet(1 .. n) /\ Cardinality(1 .. n) = n
        BY <2>2, FS_Interval
      <4> QED
        BY <3>1, <4>1, FS_RemoveElement
    <3>11. Len(e.parts) = n
      <4>1. e.parts = PartsOf(e) /\ e = EncryptParts(t)
        BY <2>3 DEF e
      <4>2. e.parts = [k \in DOMAIN t.parts |-> EncryptPart(t.parts[k])]
        <5>1. t = Multi(t.type, t.parts)
          BY <1>5, TreeIs
        <5>2. e = [t EXCEPT !.parts = [k \in DOMAIN t.parts |-> EncryptPart(t.parts[k])]]
          BY <1>5, <4>1 DEF EncryptParts
        <5> QED
          BY <5>1, <5>2 DEF Multi
      <4>3. DOMAIN t.parts = 1 .. n
        BY <1>5, <2>2 DEF PartsOf
      <4> QED
        BY <2>2, <4>2, <4>3
    <3>12. ~(Len(e.parts) - Cardinality(FilesOf(e)) > 1)
      <4>1. Cardinality(FilesOf(e)) \in Nat
        BY <3>7, FS_CardinalityType
      <4> HIDE DEF Others
      <4> QED
        BY <2>2, <3>9, <3>10, <3>11, <4>1
    <3>13. e.parts[i].type \in {"html", "plain"} /\ e.parts[i].type \in {e.parts[k].type : k \in DOMAIN e.parts}
      BY <2>5 DEF IsText
    <3> QED
      BY <1>1, <1>5, <3>12, <3>13 DEF TypeOf
  <2> QED
    BY <1>1, <1>5, <2>4, <2>5
<1> QED
  BY <1>3, <1>4, <1>5

\* What is made of a message as a whole, and what of its parts, has what is
\* promised.
LEMMA MadeIsIntact == ImportMade => ImportIntact
<1> SUFFICES ASSUME ImportMade
             PROVE  ImportIntact
  OBVIOUS
<1>0. IsTree(literal)
  BY TreesAre DEF ImportMade
<1> DEFINE built == stored.st \in {"ok", "built"}
<1>1. CASE stage = "encrypt"
  BY <1>1 DEF ImportMade, ImportIntact, ImportMailTypeOK, NothingInClear, PartsKept, ImportFailsForAReason, BuildWritesAll
<1>2. CASE stage # "encrypt" /\ ~PartByPart(literal)
  <2>1. posted = EncryptFull(literal)
    BY <1>2 DEF ImportMade, Posted
  <2>2. NothingInClear
    BY <2>1, FullIs DEF NothingInClear
  <2>3. Bodies(posted) = {<<2, 1>>} /\ FilesOf(posted) = {} /\ LeafAt(posted, <<2, 1>>).whole /\ TypeOf(posted) # "file"
    BY <2>1, FullIs
  <2>4. stored.st # "panicked" /\ stored.st # "failed"
    BY <2>3 DEF ImportMade, ImportStored
  <2>5. built => stored.body.whole
    <3>1. FirstOf({<<2, 1>>}) = <<2, 1>>
      BY DEF FirstOf
    <3> QED
      BY <2>3, <3>1 DEF ImportMade, ImportStored
  <2>6. ImportMailTypeOK
    BY <2>3 DEF ImportMade, ImportStored, ImportMailTypeOK, KeptFiles
  <2> QED
    BY <2>2, <2>4, <2>5, <2>6 DEF ImportIntact, PartsKept, ImportFailsForAReason, BuildWritesAll
<1>3. CASE stage # "encrypt" /\ PartByPart(literal)
  <2> DEFINE M == 1 .. MaxParts + 1
             files == AttachedFiles(posted)
  <2>1. posted = EncryptParts(literal)
    BY <1>3 DEF ImportMade, Posted
  <2>2. /\ Bodies(posted) = TextsOf(literal) /\ FilesOf(posted) = Places(literal) \ TextsOf(literal)
        /\ Places(posted) = Places(literal)
        /\ \A p \in Places(literal) : LeafAt(posted, p) = EncryptLeaf(LeafAt(literal, p)) /\ LeafAt(literal, p) \in Clear
        /\ \A p \in FilesOf(posted) :
              /\ FileAt(posted, p).cid = LeafAt(literal, p).cid
              /\ Acceptable(LeafAt(literal, p)) => Acceptable(FileAt(posted, p))
        /\ \A p \in TextsOf(literal) : TextsOf(literal) = {p}
    BY <1>0, <1>3, <2>1, SplitUp
  <2>3. TextsOf(literal) # {} =>
           /\ TypeOf(posted) # "file"
           /\ TypeOf(posted) = "mixed" => posted.kind = "multi" /\ \A i \in DOMAIN posted.parts : ~IsText(posted.parts[i])
    BY <1>0, <1>3, <2>1, SplitUpType
  <2>4. DOMAIN files = Places(literal) \ TextsOf(literal) /\ \A p \in DOMAIN files : files[p] = FileAt(posted, p)
    BY <2>2 DEF AttachedFiles
  <2>5. /\ KeptFiles(files) \subseteq DOMAIN files
        /\ \A p \in DOMAIN files \ KeptFiles(files) :
              \E q \in KeptFiles(files) : Precedes(p, q) /\ SameKey(files[p], files[q])
    <3>1. DOMAIN files \subseteq M \X M
      BY <1>0, <2>4, PlacesAre
    <3>2. MaxParts + 1 \in Nat
      BY BoundIs
    <3> HIDE DEF files
    <3> QED
      BY <3>1, <3>2, LastIsKept
  <2>6. built =>
           /\ TextsOf(literal) # {} /\ stored.body = LeafAt(posted, FirstOf(TextsOf(literal)))
           /\ stored.type = TypeOf(posted) /\ stored.files = files /\ stored.kept = KeptFiles(files)
    BY <2>2 DEF ImportMade, ImportStored
  <2> HIDE DEF files
  <2>7. ImportMailTypeOK
    BY <2>3, <2>5, <2>6 DEF ImportMade, ImportMailTypeOK
  <2>8. NothingInClear
    BY <2>2, EncryptedLeaf DEF NothingInClear
  <2>9. PartsKept
    <3> SUFFICES ASSUME built
                 PROVE  /\ \E p \in Places(literal) :
                              /\ TextsOf(literal) = {p}
                              /\ stored.body = [LeafAt(literal, p) EXCEPT !.enc = "armored"]
                              /\ DOMAIN stored.files = Places(literal) \ {p}
                        /\ \A p \in DOMAIN stored.files : stored.files[p].cid = LeafAt(literal, p).cid
                        /\ \A p \in DOMAIN stored.files \ stored.kept :
                              \E q \in stored.kept : Precedes(p, q) /\ SameKey(stored.files[p], stored.files[q])
      BY DEF PartsKept
    <3>1. PICK p \in TextsOf(literal) : TextsOf(literal) = {p}
      BY <2>2, <2>6
    <3>2. p \in Places(literal) /\ IsText(LeafAt(literal, p))
      BY DEF TextsOf
    <3>3. FirstOf(TextsOf(literal)) = p
      <4>1. FirstOf({p}) = p
        BY DEF FirstOf
      <4> QED
        BY <3>1, <4>1
    <3>4. stored.body = [LeafAt(literal, p) EXCEPT !.enc = "armored"]
      <4>1. stored.body = EncryptLeaf(LeafAt(literal, p)) /\ LeafAt(literal, p) \in Clear
        BY <2>2, <2>6, <3>2, <3>3
      <4> QED
        BY <3>2, <4>1, EncryptedLeaf
    <3>5. DOMAIN stored.files = Places(literal) \ {p}
      BY <2>4, <2>6, <3>1
    <3>6. \A q \in DOMAIN stored.files : stored.files[q].cid = LeafAt(literal, q).cid
      BY <2>2, <2>4, <2>6
    <3> QED
      BY <2>5, <2>6, <3>1, <3>2, <3>4, <3>5, <3>6
  <2>10. ImportFailsForAReason
    BY <2>2 DEF ImportMade, ImportStored, ImportFailsForAReason
  <2>11. BuildWritesAll
    BY <2>3, <2>6 DEF ImportMade, ImportStored, BuildWritesAll
  <2> QED
    BY <2>7, <2>8, <2>9, <2>10, <2>11 DEF ImportIntact
<1> QED
  BY <1>1, <1>2, <1>3

\* Whatever a message is made of, encrypting, importing and building it lose
\* nothing and show nothing, but for the cases the properties name.
THEOREM ImportsStayIntact == ImportMailSpec => []ImportIntact
BY ImportMadeInit, ImportMadeStep, MadeIsIntact, PTL DEF ImportMailSpec
==============================================================================
