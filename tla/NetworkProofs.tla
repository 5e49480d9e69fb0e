---------------------------- MODULE NetworkProofs ----------------------------
(***************************************************************************)
(* Proofs about what the tests' network, the manager, the server's proxy   *)
(* and its rate limit do: ManagerStatus, AuthProxy, NetCtl and RateLimit,  *)
(* for any number of requests, observers, clients and connections.         *)
(*                                                                         *)
(* ManagerStatus: ObserversAgree speaks of the times when nobody holds     *)
(* statusLock.  While it is held, those who have an older status are       *)
(* exactly the observers the loop has not called yet (Behind); that, with  *)
(* the loop calling each of them once (LoopOnce), is what makes            *)
(* StatusIsTold inductive.                                                 *)
(*                                                                         *)
(* AuthProxy: what is cached, about to be stored or held is of sessions    *)
(* that were made and live (ProxyData), and each used up an SRP session    *)
(* (SessionsPaid).  CachedOnce and LockedOutForGood are shown step by step *)
(* from that: the client that moves (Moved) gets nothing from upstream.    *)
(*                                                                         *)
(* NetCtl: a count is bounded with what is under way and not yet counted   *)
(* (FitsIn): one of those has room, and each of the others adds a buffer.  *)
(* DlockHeld, DialAllowed and Disabling say what dlock protects.           *)
(*                                                                         *)
(* RateLimit: the windows there were are apart, and each let through what  *)
(* it may (Windows); a time as long as one of them meets two at most.      *)
(***************************************************************************)
EXTENDS ManagerStatus, AuthProxy, NetCtl, RateLimit, FiniteSetTheorems, SequenceTheorems, TLAPS

-----------------------------------------------------------------------------
(* The status and its observers. *)

\* Those who were added are the observers of the list; nobody else was called.
AddedOnes ==
    \A o \in Observers :
        /\ since[o] # "none" <=> o \in ToSet(observers)
        /\ since[o] = "none" => heard[o] = <<>>

\* The loop has each of the observers to call once.
LoopOnce == IsInjective(left) /\ ToSet(left) \subseteq ToSet(observers)

\* Those who do not know the status are those who will be called.
Behind == \A o \in ToSet(observers) : o \in ToSet(left) <=> Known(o) # status

StatusInv == StatusTypeOK /\ AddedOnes /\ LoopOnce /\ Behind /\ ToldAlternates

-----------------------------------------------------------------------------
(* Lists without repetitions. *)

\* The elements of a list are those it has after the first is gone, and the first.
LEMMA TailSet ==
  ASSUME NEW S, NEW s \in Seq(S), s # <<>>, IsInjective(s)
  PROVE  /\ Tail(s) \in Seq(S) /\ IsInjective(Tail(s))
         /\ ToSet(Tail(s)) = ToSet(s) \ {Head(s)}
         /\ Head(s) \in ToSet(s)
<1>1. /\ Len(s) \in Nat \ {0} /\ DOMAIN s = 1 .. Len(s)
      /\ Tail(s) \in Seq(S) /\ Len(Tail(s)) = Len(s) - 1
      /\ DOMAIN Tail(s) = 1 .. Len(s) - 1
      /\ \A i \in 1 .. Len(s) - 1 : Tail(s)[i] = s[i + 1]
      /\ Head(s) = s[1]
  BY HeadTailProperties, LenProperties, EmptySeq
<1>2. IsInjective(Tail(s))
  BY <1>1 DEF IsInjective
<1>3. ASSUME NEW e \in ToSet(s) \ {Head(s)} PROVE e \in ToSet(Tail(s))
  <2>1. PICK i \in 1 .. Len(s) : e = s[i]
    BY <1>1 DEF ToSet
  <2>2. i - 1 \in 1 .. Len(s) - 1
    BY <1>1, <1>3, <2>1
  <2>3. Tail(s)[i - 1] = e
    BY <1>1, <2>1, <2>2
  <2>4. QED
    BY <1>1, <2>2, <2>3 DEF ToSet
<1>4. ASSUME NEW e \in ToSet(Tail(s)) PROVE e \in ToSet(s) \ {Head(s)}
  <2>1. PICK i \in 1 .. Len(s) - 1 : e = Tail(s)[i]
    BY <1>1 DEF ToSet
  <2>2. e = s[i + 1] /\ i + 1 \in 1 .. Len(s) /\ i + 1 # 1
    BY <1>1, <2>1
  <2>3. e # s[1]
    BY <1>1, <2>2 DEF IsInjective
  <2>4. QED
    BY <1>1, <2>2, <2>3 DEF ToSet
<1>5. QED
  BY <1>1, <1>2, <1>3, <1>4 DEF ToSet

\* A new element at the end of a list is one more.
LEMMA AppendSet ==
  ASSUME NEW S, NEW s \in Seq(S), NEW e \in S, IsInjective(s), e \notin ToSet(s)
  PROVE  /\ Append(s, e) \in Seq(S) /\ IsInjective(Append(s, e))
         /\ ToSet(Append(s, e)) = ToSet(s) \cup {e}
<1>1. /\ Len(s) \in Nat /\ DOMAIN s = 1 .. Len(s)
      /\ Append(s, e) \in Seq(S) /\ DOMAIN Append(s, e) = 1 .. Len(s) + 1
      /\ \A i \in 1 .. Len(s) : Append(s, e)[i] = s[i]
      /\ Append(s, e)[Len(s) + 1] = e
  BY AppendProperties, LenProperties
<1>2. \A i \in 1 .. Len(s) : s[i] # e
  BY <1>1 DEF ToSet
<1>3. IsInjective(Append(s, e))
  BY <1>1, <1>2 DEF IsInjective
<1>4. ToSet(Append(s, e)) = ToSet(s) \cup {e}
  BY <1>1 DEF ToSet
<1>5. QED
  BY <1>1, <1>3, <1>4

-----------------------------------------------------------------------------
(* The invariant. *)

\* A new manager is up and has no observers.
LEMMA StatusInvInit == StatusInit => StatusInv
<1> SUFFICES ASSUME StatusInit PROVE StatusInv
  OBVIOUS
<1>1. ToSet(observers) = {} /\ ToSet(left) = {} /\ IsInjective(observers) /\ IsInjective(left)
  BY DEF StatusInit, ToSet, IsInjective
<1>2. StatusTypeOK
  BY <1>1, StatusAssumption DEF StatusInit, StatusTypeOK, Statuses
<1>3. AddedOnes /\ LoopOnce /\ Behind /\ ToldAlternates
  BY <1>1 DEF StatusInit, AddedOnes, LoopOnce, Behind, ToldAlternates
<1>4. QED
  BY <1>2, <1>3 DEF StatusInv

\* An observer is added while nobody holds the lock: it knows the status.
LEMMA AddKeeps == ASSUME StatusInv, NEW o \in Observers, AddStatusObserver(o) PROVE StatusInv'
<1> USE DEF StatusInv, AddStatusObserver
<1>1. left = <<>> /\ ToSet(left) = {} /\ o \notin ToSet(observers) /\ heard[o] = <<>>
  BY DEF StatusTypeOK, AddedOnes, ToSet
<1>2. /\ observers' \in Seq(Observers) /\ IsInjective(observers')
      /\ ToSet(observers') = ToSet(observers) \cup {o}
  BY <1>1, AppendSet DEF StatusTypeOK
<1>3. /\ since' \in [Observers -> Statuses \cup {"none"}]
      /\ since'[o] = status /\ status # "none"
      /\ \A p \in Observers \ {o} : since'[p] = since[p]
  BY DEF StatusTypeOK, Statuses
<1>4. StatusTypeOK'
  BY <1>2, <1>3 DEF StatusTypeOK
<1>5. AddedOnes'
  BY <1>1, <1>2, <1>3 DEF AddedOnes
<1>6. LoopOnce'
  BY <1>1, <1>2 DEF LoopOnce
<1>7. Behind'
  <2>1. ToSet(observers) \subseteq Observers
    BY LenProperties DEF StatusTypeOK, ToSet
  <2>2. \A p \in ToSet(observers) \ {o} : Known(p)' = Known(p)
    BY <1>3, <2>1 DEF Known
  <2>3. Known(o)' = status
    BY <1>1, <1>3 DEF Known
  <2>4. QED
    BY <1>1, <1>2, <2>2, <2>3 DEF Behind
<1>8. ToldAlternates'
  BY <1>1, <1>3 DEF ToldAlternates
<1>9. QED
  BY <1>4, <1>5, <1>6, <1>7, <1>8

\* What a request ends with is nobody else's business.
LEMMA EndKeeps == ASSUME StatusInv, NEW c \in Calls, End(c) \/ Ignore(c) PROVE StatusInv'
<1> USE DEF StatusInv, End, Ignore
<1>1. ended' \in [Calls -> Endings \cup {"none", "done"}]
  BY DEF StatusTypeOK
<1>2. UNCHANGED <<status, observers, heard, since, holder, left>>
  OBVIOUS
<1>3. QED
  BY <1>1, <1>2 DEF StatusTypeOK, AddedOnes, LoopOnce, Behind, ToldAlternates, Known

\* A change of the status leaves every observer of the list behind, and to be called.
LEMMA OnConnKeeps == ASSUME StatusInv, NEW c \in Calls, OnConn(c) PROVE StatusInv'
<1> USE DEF StatusInv, OnConn, Changes, LockIs
<1>1. left = <<>> /\ ToSet(left) = {} /\ c # Nobody
  BY StatusAssumption DEF StatusTypeOK, ToSet
<1>2. /\ Verdict(ended[c]) \in Statuses
      /\ ended' \in [Calls -> Endings \cup {"none", "done"}]
  BY DEF StatusTypeOK, Verdict, Statuses
<1>3. AddedOnes' /\ ToldAlternates'
  BY DEF AddedOnes, ToldAlternates
<1>4. CASE Changes(Verdict(ended[c]))
  <2>1. left' = observers
    BY <1>1, <1>4, ConcatEmptySeq DEF StatusTypeOK
  <2>2. StatusTypeOK'
    BY <1>1, <1>2, <1>4, <2>1 DEF StatusTypeOK
  <2>3. LoopOnce'
    BY <2>1 DEF LoopOnce, StatusTypeOK
  <2>4. Behind'
    <3>1. \A o \in ToSet(observers) : Known(o)' = Known(o) /\ Known(o) = status
      BY <1>1 DEF Behind, Known
    <3>2. status' # status
      BY <1>4
    <3>3. QED
      BY <2>1, <3>1, <3>2 DEF Behind
  <2>5. QED
    BY <1>3, <2>2, <2>3, <2>4
<1>5. CASE ~Changes(Verdict(ended[c]))
  <2>1. UNCHANGED <<status, observers, heard, since, holder, left>>
    BY <1>5
  <2>2. QED
    BY <1>2, <1>3, <2>1 DEF StatusTypeOK, LoopOnce, Behind, Known
<1>6. QED
  BY <1>4, <1>5

\* The loop calls an observer that is behind, and it is behind no more.
LEMMA NotifyKeeps == ASSUME StatusInv, Notify PROVE StatusInv'
<1> USE DEF StatusInv, Notify
<1>0. PICK h : h = Head(left)
  OBVIOUS
<1>1. /\ left' \in Seq(Observers) /\ IsInjective(left')
      /\ ToSet(left') = ToSet(left) \ {h}
      /\ h \in ToSet(left) /\ h \in ToSet(observers)
  BY <1>0, TailSet DEF StatusTypeOK, LoopOnce
<1>2. h \in Observers /\ ToSet(observers) \subseteq Observers
  BY <1>1, LenProperties DEF StatusTypeOK, ToSet
<1>3. Known(h) # status
  BY <1>1 DEF Behind
<1>4. /\ heard[h] \in Seq(Statuses) /\ Len(heard[h]) \in Nat
      /\ heard'[h] \in Seq(Statuses) /\ heard'[h] # <<>>
      /\ Len(heard'[h]) = Len(heard[h]) + 1
      /\ \A i \in 1 .. Len(heard[h]) : heard'[h][i] = heard[h][i]
      /\ heard'[h][Len(heard[h]) + 1] = status
  <2>1. heard[h] \in Seq(Statuses) /\ status \in Statuses
    BY <1>2 DEF StatusTypeOK
  <2>2. heard'[h] = Append(heard[h], status)
    BY <1>0, <1>2 DEF StatusTypeOK
  <2>3. QED
    BY <2>1, <2>2, AppendProperties, LenProperties
<1>5. \A o \in Observers \ {h} : heard'[o] = heard[o]
  BY <1>0 DEF StatusTypeOK
<1>6. StatusTypeOK'
  <2>1. heard' \in [Observers -> Seq(Statuses)]
    BY <1>2, <1>4 DEF StatusTypeOK
  <2>2. left' # <<>> <=> Len(left) # 1
    <3>1. Len(left') = Len(left) - 1 /\ Len(left) \in Nat
      BY HeadTailProperties, LenProperties DEF StatusTypeOK
    <3>2. left' = <<>> <=> Len(left') = 0
      BY <1>1, EmptySeq
    <3>3. QED
      BY <3>1, <3>2
  <2>3. QED
    BY <1>1, <2>1, <2>2 DEF StatusTypeOK
<1>7. AddedOnes'
  BY <1>1, <1>2, <1>5 DEF AddedOnes
<1>8. LoopOnce'
  BY <1>1 DEF LoopOnce
<1>9. Behind'
  <2>1. Known(h)' = status
    BY <1>4 DEF Known, Last
  <2>2. ASSUME NEW o \in ToSet(observers) \ {h} PROVE Known(o)' = Known(o)
    <3>1. heard'[o] = heard[o] /\ since'[o] = since[o]
      BY <1>2, <1>5
    <3>2. CASE heard[o] = <<>>
      BY <3>1, <3>2 DEF Known
    <3>3. CASE heard[o] # <<>>
      <4>1. Known(o) = Last(heard[o]) /\ Known(o)' = Last(heard'[o])
        BY <3>1, <3>3 DEF Known
      <4>2. QED
        BY <3>1, <4>1
    <3>4. QED
      BY <3>2, <3>3
  <2>3. QED
    BY <1>1, <2>1, <2>2 DEF Behind
<1>10. ToldAlternates'
  <2>1. heard'[h][Len(heard[h]) + 1] # (IF Len(heard[h]) = 0 THEN since[h] ELSE heard[h][Len(heard[h])])
    BY <1>3, <1>4, EmptySeq DEF Known, Last
  <2>2. QED
    BY <1>2, <1>4, <1>5, <2>1 DEF ToldAlternates
<1>11. QED
  BY <1>6, <1>7, <1>8, <1>9, <1>10

\* For every set of requests whose hooks run concurrently and every set of
\* observers: who hears of a change hears it once and in order, and when the
\* lock is free all know what GetStatus returns.
THEOREM ObserversAreTold == StatusSpec => []StatusIsTold
<1>1. StatusInv /\ UNCHANGED statusVars => StatusInv'
  BY DEF StatusInv, statusVars, StatusTypeOK, AddedOnes, LoopOnce, Behind, ToldAlternates, Known
<1>2. StatusInv /\ [StatusNext]_statusVars => StatusInv'
  BY <1>1, AddKeeps, EndKeeps, OnConnKeeps, NotifyKeeps DEF StatusNext
<1>3. StatusInv => StatusIsTold
  <2>1. StatusInv => ObserversAgree
    BY DEF StatusInv, StatusTypeOK, Behind, ObserversAgree, ToSet
  <2>2. QED
    BY <2>1 DEF StatusInv, StatusIsTold
<1>4. QED
  BY <1>2, <1>3, StatusInvInit, PTL DEF StatusSpec

-----------------------------------------------------------------------------
(* The proxy and its caches. *)

Places == {"out", "info", "ask info", "proof", "ask auth", "in", "failed"}
AuthsOf(n) == [uid : 0 .. n, ref : Nat, by : Proxied \cup {"none", "empty"}]
AnswersOf(n, made) ==
    [to : {"info"}, value : {EmptySRP} \cup 1 .. made] \cup [to : {"auth"}, value : AuthsOf(n)]
ComersOf(n) == [at : Places, srp : Int, uid : 0 .. n, ref : Nat, tries : Nat]

Living == [ref : Nat, live : {TRUE}]

\* What is cached, stored and held is of sessions that were made, and all of them live.
ProxyData ==
    /\ infoCache \in {NoSRP, EmptySRP} \cup 1 .. upSRP.made
    /\ authCache \in AuthsOf(Len(upSession))
    /\ upSRP \in [made : Nat, left : SUBSET Nat, errors : 0 .. MaxErrors]
    /\ upSRP.left \subseteq 1 .. upSRP.made
    /\ upSession \in Seq(Living)
    /\ storing \subseteq AnswersOf(Len(upSession), upSRP.made)
    /\ comer \in [Proxied -> ComersOf(Len(upSession))]

\* Each session has used up an SRP session of its own.
SessionsPaid == Len(upSession) + Cardinality(upSRP.left) <= upSRP.made

ProxyInv == ProxyData /\ SessionsPaid /\ ProofsTellApart

LEMMA ProxyInvInit == ProxyInit => ProxyInv
<1> SUFFICES ASSUME ProxyInit PROVE ProxyInv
  OBVIOUS
<1> USE DEF ProxyInit
<1>1. upSession \in Seq(Living) /\ Len(upSession) = 0
  OBVIOUS
<1>2. upSRP.left = {} /\ upSRP.made = 0 /\ Cardinality(upSRP.left) = 0
  BY FS_EmptySet
<1>3. authCache \in AuthsOf(Len(upSession))
  BY <1>1 DEF AuthsOf, NoAuth
<1>4. comer \in [Proxied -> ComersOf(Len(upSession))]
  BY <1>1 DEF ComersOf, Places, NoSRP
<1>5. ProxyData
  BY <1>1, <1>2, <1>3, <1>4, ProxyAssumption DEF ProxyData, NoSRP
<1>6. SessionsPaid
  BY <1>1, <1>2 DEF SessionsPaid
<1>7. ProofsTellApart
  BY ProxyAssumption DEF ProofsTellApart, At
<1>8. QED
  BY <1>5, <1>6, <1>7 DEF ProxyInv

\* A client that moves, and is in only as it was or with what it is given.
LEMMA ComerMoves ==
  ASSUME ProxyInv, NEW c \in Proxied, NEW new \in ComersOf(Len(upSession)),
         comer' = [comer EXCEPT ![c] = new], UNCHANGED upSession,
         new.at = "in" => c \notin Verifiers \/ (comer[c].at = "in" /\ comer[c].uid = new.uid)
  PROVE  comer' \in [Proxied -> ComersOf(Len(upSession'))] /\ ProofsTellApart'
<1>1. comer' \in [Proxied -> ComersOf(Len(upSession'))]
  BY DEF ProxyInv, ProxyData
<1>2. comer'[c] = new /\ \A d \in Proxied \ {c} : comer'[d] = comer[d]
  BY DEF ProxyInv, ProxyData
<1>3. ProofsTellApart'
  BY <1>2, ProxyAssumption DEF ProxyInv, ProofsTellApart, At
<1>4. QED
  BY <1>1, <1>3

\* What a step makes of a client is a client again.
LEMMA ComerShapes ==
  ASSUME NEW n \in Nat, NEW r \in ComersOf(n), NEW p \in Places
  PROVE  /\ [r EXCEPT !.at = p] \in ComersOf(n)
         /\ [r EXCEPT !.at = p, !.tries = @ + 1] \in ComersOf(n)
         /\ \A srp \in Int : [r EXCEPT !.at = p, !.srp = srp] \in ComersOf(n)
         /\ \A uid \in 0 .. n, ref \in Nat :
               [at |-> p, srp |-> NoSRP, uid |-> uid, ref |-> ref, tries |-> r.tries] \in ComersOf(n)
<1>1. r.at \in Places /\ r.srp \in Int /\ r.uid \in 0 .. n /\ r.ref \in Nat /\ r.tries \in Nat
  BY DEF ComersOf
<1>2. NoSRP \in Int /\ r.tries + 1 \in Nat
  BY <1>1 DEF NoSRP
<1>3. [r EXCEPT !.at = p] \in ComersOf(n)
  BY DEF ComersOf
<1>4. [r EXCEPT !.at = p, !.tries = @ + 1] \in ComersOf(n)
  BY <1>1, <1>2 DEF ComersOf
<1>5. \A srp \in Int : [r EXCEPT !.at = p, !.srp = srp] \in ComersOf(n)
  BY DEF ComersOf
<1>6. ASSUME NEW uid \in 0 .. n, NEW ref \in Nat
      PROVE  [at |-> p, srp |-> NoSRP, uid |-> uid, ref |-> ref, tries |-> r.tries] \in ComersOf(n)
  BY <1>1, <1>2 DEF ComersOf
<1>7. QED
  BY <1>3, <1>4, <1>5, <1>6

\* A client goes on, or leaves, or is let in without a check of the proof.
LEMMA ComerGoes ==
  ASSUME ProxyInv, NEW c \in Proxied, UNCHANGED upSession,
         \/ \E p \in Places \ {"in"} :
               \/ Goes(c, p) \/ Leaves(c, p)
               \/ comer' = [comer EXCEPT ![c].at = p, ![c].tries = @ + 1]
               \/ \E srp \in Int : comer' = [comer EXCEPT ![c].at = p, ![c].srp = srp]
         \/ /\ c \notin Verifiers
            /\ \E uid \in 0 .. Len(upSession), ref \in Nat : Enters(c, uid, ref)
  PROVE  comer' \in [Proxied -> ComersOf(Len(upSession'))] /\ ProofsTellApart'
<1>0. PICK n \in Nat : n = Len(upSession)
  BY LenProperties DEF ProxyInv, ProxyData
<1>1. PICK r \in ComersOf(n) : n = Len(upSession) /\ r = comer[c]
  BY <1>0 DEF ProxyInv, ProxyData
<1>2. ASSUME NEW p \in Places \ {"in"}, NEW new \in ComersOf(n), new.at = p,
             comer' = [comer EXCEPT ![c] = new]
      PROVE  comer' \in [Proxied -> ComersOf(Len(upSession'))] /\ ProofsTellApart'
  BY <1>1, <1>2, ComerMoves
<1>3. ASSUME NEW p \in Places \ {"in"},
             \/ Goes(c, p) \/ Leaves(c, p)
             \/ comer' = [comer EXCEPT ![c].at = p, ![c].tries = @ + 1]
             \/ \E srp \in Int : comer' = [comer EXCEPT ![c].at = p, ![c].srp = srp]
      PROVE  \E new \in ComersOf(n) : new.at = p /\ comer' = [comer EXCEPT ![c] = new]
  <2>1. CASE Goes(c, p)
    <3> DEFINE new == [r EXCEPT !.at = p]
    <3>1. new \in ComersOf(n) /\ new.at = p
      BY ComerShapes DEF ComersOf
    <3>2. comer' = [comer EXCEPT ![c] = new]
      BY <1>1, <2>1 DEF Goes
    <3>3. QED
      BY <3>1, <3>2
  <2>2. CASE Leaves(c, p)
    <3> DEFINE new == [at |-> p, srp |-> NoSRP, uid |-> 0, ref |-> 0, tries |-> r.tries]
    <3>0. 0 \in 0 .. n /\ 0 \in Nat
      OBVIOUS
    <3>1. new \in ComersOf(n) /\ new.at = p
      BY <3>0, ComerShapes
    <3>2. comer' = [comer EXCEPT ![c] = new]
      BY <1>1, <2>2 DEF Leaves
    <3>3. QED
      BY <3>1, <3>2
  <2>3. CASE comer' = [comer EXCEPT ![c].at = p, ![c].tries = @ + 1]
    <3> DEFINE new == [r EXCEPT !.at = p, !.tries = @ + 1]
    <3>1. new \in ComersOf(n) /\ new.at = p
      BY ComerShapes DEF ComersOf
    <3>2. comer' = [comer EXCEPT ![c] = new]
      BY <1>1, <2>3
    <3>3. QED
      BY <3>1, <3>2
  <2>4. ASSUME NEW srp \in Int, comer' = [comer EXCEPT ![c].at = p, ![c].srp = srp]
        PROVE  \E new \in ComersOf(n) : new.at = p /\ comer' = [comer EXCEPT ![c] = new]
    <3> DEFINE new == [r EXCEPT !.at = p, !.srp = srp]
    <3>1. new \in ComersOf(n) /\ new.at = p
      BY ComerShapes DEF ComersOf
    <3>2. comer' = [comer EXCEPT ![c] = new]
      BY <1>1, <2>4
    <3>3. QED
      BY <3>1, <3>2
  <2>5. QED
    BY <1>3, <2>1, <2>2, <2>3, <2>4
<1>4. ASSUME NEW uid \in 0 .. Len(upSession), NEW ref \in Nat, c \notin Verifiers, Enters(c, uid, ref)
      PROVE  comer' \in [Proxied -> ComersOf(Len(upSession'))] /\ ProofsTellApart'
  <2> DEFINE new == [at |-> "in", srp |-> NoSRP, uid |-> uid, ref |-> ref, tries |-> r.tries]
  <2>1. new \in ComersOf(n)
    BY <1>1, ComerShapes DEF Places
  <2>2. comer' = [comer EXCEPT ![c] = new]
    BY <1>1, <1>4 DEF Enters
  <2> HIDE DEF new
  <2>3. QED
    BY <1>1, <1>4, <2>1, <2>2, ComerMoves
<1>5. QED
  BY <1>2, <1>3, <1>4

\* A client logs in, or looks a cache up.
LEMMA LookUpKeeps ==
  ASSUME ProxyInv, NEW c \in Proxied, LogIn(c) \/ LookUpInfo(c) \/ LookUpAuth(c)
  PROVE  ProxyInv'
<1>1. UNCHANGED <<infoCache, authCache, storing, upSRP, upSession>>
  BY DEF LogIn, LookUpInfo, LookUpAuth, cacheSide, serverSide
<1>2. infoCache \in Int /\ authCache.uid \in 0 .. Len(upSession) /\ authCache.ref \in Nat
  BY DEF ProxyInv, ProxyData, NoSRP, EmptySRP, AuthsOf
<1>3. {"info", "ask info", "failed", "proof", "ask auth"} \subseteq Places \ {"in"}
  BY DEF Places
<1>4. comer' \in [Proxied -> ComersOf(Len(upSession'))] /\ ProofsTellApart'
  <2>1. CASE LogIn(c)
    BY <1>1, <1>3, <2>1, ComerGoes DEF LogIn
  <2>2. CASE LookUpInfo(c)
    BY <1>1, <1>2, <1>3, <2>2, ComerGoes DEF LookUpInfo
  <2>3. CASE LookUpAuth(c)
    BY <1>1, <1>2, <1>3, <2>3, ComerGoes DEF LookUpAuth, Accepts
  <2>4. QED
    BY <2>1, <2>2, <2>3
<1>5. QED
  BY <1>1, <1>4 DEF ProxyInv, ProxyData, SessionsPaid

\* A cache stores an answer.
LEMMA StoreKeeps == ASSUME ProxyInv, StoreInfo \/ StoreAuth PROVE ProxyInv'
<1>1. /\ UNCHANGED <<upSRP, upSession, comer>> /\ storing' \subseteq storing
      /\ infoCache' \in {NoSRP, EmptySRP} \cup 1 .. upSRP.made
      /\ authCache' \in AuthsOf(Len(upSession))
  <2>1. \A s \in storing :
          /\ s.to = "info" => s.value \in {EmptySRP} \cup 1 .. upSRP.made
          /\ s.to = "auth" => s.value \in AuthsOf(Len(upSession))
    BY DEF ProxyInv, ProxyData, AnswersOf
  <2>2. QED
    BY <2>1 DEF ProxyInv, ProxyData, StoreInfo, StoreAuth, serverSide
<1>2. QED
  BY <1>1 DEF ProxyInv, ProxyData, SessionsPaid, ProofsTellApart, At

\* The upstream server makes an SRP session.
LEMMA FetchInfoKeeps == ASSUME ProxyInv, NEW c \in Proxied, FetchInfo(c) PROVE ProxyInv'
<1> DEFINE made == upSRP.made
<1>1. UNCHANGED <<infoCache, authCache, upSession>>
  BY DEF FetchInfo
<1>2. /\ made \in Nat /\ upSRP'.made = made + 1 /\ upSRP'.left = upSRP.left \cup {made + 1}
      /\ upSRP' \in [made : Nat, left : SUBSET Nat, errors : 0 .. MaxErrors]
  <2>1. /\ made \in Nat /\ upSRP.left \in SUBSET Nat
        /\ upSRP \in [made : Nat, left : SUBSET Nat, errors : 0 .. MaxErrors]
    BY DEF ProxyInv, ProxyData
  <2>2. made + 1 \in Nat /\ upSRP.left \cup {made + 1} \in SUBSET Nat
    BY <2>1
  <2>3. upSRP' = [upSRP EXCEPT !.made = made + 1, !.left = upSRP.left \cup {made + 1}]
    BY DEF FetchInfo
  <2>4. QED
    BY <2>1, <2>2, <2>3
<1>3. upSRP'.left \subseteq 1 .. upSRP'.made /\ 1 .. made \subseteq 1 .. upSRP'.made
  BY <1>2 DEF ProxyInv, ProxyData
<1>4. storing' \subseteq AnswersOf(Len(upSession), upSRP'.made)
  <2>1. storing \subseteq AnswersOf(Len(upSession), upSRP'.made)
    BY <1>3 DEF ProxyInv, ProxyData, AnswersOf
  <2>2. made + 1 \in 1 .. upSRP'.made
    BY <1>2
  <2>3. [to |-> "info", value |-> made + 1] \in AnswersOf(Len(upSession), upSRP'.made)
    BY <2>2 DEF AnswersOf
  <2>4. QED
    BY <2>1, <2>3 DEF FetchInfo
<1>5. comer' \in [Proxied -> ComersOf(Len(upSession'))] /\ ProofsTellApart'
  <2>1. made + 1 \in Int /\ "proof" \in Places \ {"in"}
    BY <1>2 DEF Places
  <2>2. comer' = [comer EXCEPT ![c].at = "proof", ![c].srp = made + 1]
    BY DEF FetchInfo
  <2>3. QED
    BY <1>1, <2>1, <2>2, ComerGoes
<1>6. SessionsPaid'
  <2>1. IsFiniteSet(upSRP.left) /\ made + 1 \notin upSRP.left
    <3>1. IsFiniteSet(1 .. made)
      <4>1. 1 \in Int /\ made \in Int
        BY <1>2
      <4>2. QED
        BY <4>1, FS_Interval
    <3>2. upSRP.left \subseteq 1 .. made
      BY DEF ProxyInv, ProxyData
    <3>3. made + 1 \notin 1 .. made
      BY <1>2
    <3>4. QED
      BY <3>1, <3>2, <3>3, FS_Subset
  <2>2. Cardinality(upSRP'.left) = Cardinality(upSRP.left) + 1 /\ Cardinality(upSRP.left) \in Nat
    BY <1>2, <2>1, FS_AddElement, FS_CardinalityType
  <2>3. Len(upSession) \in Nat
    BY LenProperties DEF ProxyInv, ProxyData
  <2>4. QED
    BY <1>1, <1>2, <2>2, <2>3 DEF ProxyInv, SessionsPaid
<1>7. infoCache' \in {NoSRP, EmptySRP} \cup 1 .. upSRP'.made
  BY <1>1, <1>3 DEF ProxyInv, ProxyData
<1>8. QED
  BY <1>1, <1>2, <1>3, <1>4, <1>5, <1>6, <1>7 DEF ProxyInv, ProxyData

\* An SRP session is used up, and a session of the next number may be made with it.
LEMMA FetchAuthKeeps == ASSUME ProxyInv, NEW c \in Proxied, FetchAuth(c) PROVE ProxyInv'
<1> DEFINE n == Len(upSession)
           srps == upSRP.left
<1>1. UNCHANGED <<infoCache, authCache>> /\ n \in Nat
  BY LenProperties DEF FetchAuth, ProxyInv, ProxyData
<1>2. /\ upSRP'.made = upSRP.made /\ upSRP'.left = srps \ {comer[c].srp}
      /\ upSRP' \in [made : Nat, left : SUBSET Nat, errors : 0 .. MaxErrors]
  BY DEF FetchAuth, SpendSRP, ProxyInv, ProxyData
<1>3. /\ IsFiniteSet(srps) /\ Cardinality(srps) \in Nat /\ Cardinality(upSRP'.left) \in Nat
      /\ Cardinality(upSRP'.left) = Cardinality(srps) - (IF comer[c].srp \in srps THEN 1 ELSE 0)
  <2>1. IsFiniteSet(1 .. upSRP.made)
    <3>1. 1 \in Int /\ upSRP.made \in Int
      BY DEF ProxyInv, ProxyData
    <3>2. QED
      BY <3>1, FS_Interval
  <2>2. IsFiniteSet(srps) /\ IsFiniteSet(upSRP'.left)
    BY <1>2, <2>1, FS_Subset DEF ProxyInv, ProxyData
  <2>3. Cardinality(srps) \in Nat /\ Cardinality(upSRP'.left) \in Nat
    BY <2>2, FS_CardinalityType
  <2>4. QED
    BY <1>2, <2>2, <2>3, FS_RemoveElement
<1>4. CASE comer[c].srp \in srps /\ c \notin Forgetful
  <2>1. /\ upSession' = Append(upSession, [ref |-> 0, live |-> TRUE]) /\ Enters(c, n + 1, 0)
        /\ storing' = storing \cup {[to |-> "auth", value |-> [uid |-> n + 1, ref |-> 0, by |-> c]]}
    BY <1>4 DEF FetchAuth
  <2>2. upSession' \in Seq(Living) /\ Len(upSession') = n + 1
    <3>1. [ref |-> 0, live |-> TRUE] \in Living
      BY DEF Living
    <3>2. upSession \in Seq(Living)
      BY DEF ProxyInv, ProxyData
    <3>3. upSession' = Append(upSession, [ref |-> 0, live |-> TRUE])
      BY <2>1
    <3>4. QED
      BY <3>1, <3>2, <3>3, AppendProperties
  <2>3. 0 .. n \subseteq 0 .. n + 1 /\ n + 1 \in 0 .. n + 1 /\ 0 \in Nat
    BY <1>1
  <2>4. AuthsOf(n) \subseteq AuthsOf(n + 1) /\ ComersOf(n) \subseteq ComersOf(n + 1)
    BY <2>3 DEF AuthsOf, ComersOf
  <2>5. storing' \subseteq AnswersOf(n + 1, upSRP.made)
    <3>1. AnswersOf(n, upSRP.made) \subseteq AnswersOf(n + 1, upSRP.made)
      BY <2>4 DEF AnswersOf
    <3>2. [to |-> "auth", value |-> [uid |-> n + 1, ref |-> 0, by |-> c]] \in AnswersOf(n + 1, upSRP.made)
      BY <2>3 DEF AnswersOf, AuthsOf
    <3>3. QED
      BY <2>1, <3>1, <3>2 DEF ProxyInv, ProxyData
  <2> DEFINE new == [at |-> "in", srp |-> NoSRP, uid |-> n + 1, ref |-> 0, tries |-> comer[c].tries]
  <2>6. new \in ComersOf(n + 1)
    <3>1. comer[c] \in ComersOf(n + 1) /\ n + 1 \in Nat /\ "in" \in Places
      BY <1>1, <2>4 DEF ProxyInv, ProxyData, Places
    <3>2. QED
      BY <2>3, <3>1, ComerShapes
  <2>7. comer' = [comer EXCEPT ![c] = new]
    BY <2>1 DEF Enters
  <2>8. comer' \in [Proxied -> ComersOf(n + 1)]
    BY <2>4, <2>6, <2>7 DEF ProxyInv, ProxyData
  <2>9. ProofsTellApart'
    <3>1. comer'[c].uid = n + 1 /\ \A d \in Proxied \ {c} : comer'[d] = comer[d] /\ comer[d].uid \in 0 .. n
      BY <2>7 DEF ProxyInv, ProxyData, ComersOf
    <3>2. \A d \in Proxied \ {c} : comer'[d].uid # comer'[c].uid
      BY <1>1, <3>1
    <3>3. comer'[c].uid # 0
      BY <1>1, <3>1
    <3>4. QED
      BY <3>1, <3>2, <3>3, ProxyAssumption DEF ProxyInv, ProofsTellApart, At
  <2>10. SessionsPaid'
    BY <1>1, <1>2, <1>3, <1>4, <2>2 DEF ProxyInv, ProxyData, SessionsPaid
  <2>11. QED
    BY <1>1, <1>2, <2>2, <2>4, <2>5, <2>8, <2>9, <2>10 DEF ProxyInv, ProxyData
<1>5. CASE ~(comer[c].srp \in srps /\ c \notin Forgetful)
  <2>1. UNCHANGED <<upSession, storing>> /\ Leaves(c, "failed")
    BY <1>5 DEF FetchAuth
  <2>2. comer' \in [Proxied -> ComersOf(Len(upSession'))] /\ ProofsTellApart'
    <3>1. "failed" \in Places \ {"in"}
      BY DEF Places
    <3>2. QED
      BY <2>1, <3>1, ComerGoes
  <2>3. SessionsPaid'
    BY <1>1, <1>2, <1>3, <2>1 DEF ProxyInv, ProxyData, SessionsPaid
  <2>4. QED
    BY <1>1, <1>2, <2>1, <2>2, <2>3 DEF ProxyInv, ProxyData
<1>6. QED
  BY <1>4, <1>5

\* An error may be stored as an answer without fields.
LEMMA FailsKeeps == ASSUME ProxyInv, NEW c \in Proxied, UpstreamFails(c) PROVE ProxyInv'
<1>1. UNCHANGED <<infoCache, authCache, upSession>>
  BY DEF UpstreamFails
<1>2. /\ upSRP'.made = upSRP.made /\ upSRP'.left = upSRP.left
      /\ upSRP' \in [made : Nat, left : SUBSET Nat, errors : 0 .. MaxErrors]
  <2>1. /\ upSRP.errors \in 0 .. MaxErrors /\ upSRP.errors < MaxErrors
        /\ upSRP \in [made : Nat, left : SUBSET Nat, errors : 0 .. MaxErrors]
    BY DEF UpstreamFails, ProxyInv, ProxyData
  <2>2. upSRP.errors + 1 \in 0 .. MaxErrors
    BY <2>1, ProxyAssumption
  <2>3. upSRP' = [upSRP EXCEPT !.errors = upSRP.errors + 1]
    BY DEF UpstreamFails
  <2>4. QED
    BY <2>1, <2>2, <2>3
<1>3. storing' \subseteq AnswersOf(Len(upSession), upSRP.made)
  <2>1. 0 \in 0 .. Len(upSession)
    BY LenProperties DEF ProxyInv, ProxyData
  <2>2. /\ [to |-> "info", value |-> EmptySRP] \in AnswersOf(Len(upSession), upSRP.made)
        /\ [to |-> "auth", value |-> EmptyAuth] \in AnswersOf(Len(upSession), upSRP.made)
    BY <2>1 DEF AnswersOf, AuthsOf, EmptyAuth
  <2>3. QED
    BY <2>2 DEF UpstreamFails, ProxyInv, ProxyData
<1>4. comer' \in [Proxied -> ComersOf(Len(upSession'))] /\ ProofsTellApart'
  <2>1. {"failed", "info", "proof"} \subseteq Places \ {"in"}
    BY DEF Places
  <2>2. Leaves(c, "failed") \/ Goes(c, "info") \/ Goes(c, "proof")
    BY DEF UpstreamFails
  <2>3. QED
    BY <1>1, <2>1, <2>2, ComerGoes
<1>5. QED
  BY <1>1, <1>2, <1>3, <1>4 DEF ProxyInv, ProxyData, SessionsPaid

\* A refresh leaves the number of sessions as it is.
LEMMA RenewLength ==
  ASSUME ProxyInv, NEW c \in Proxied, Renew(c)
  PROVE  upSession' \in Seq(Living) /\ Len(upSession') = Len(upSession)
<1> DEFINE n == Len(upSession)
           u == comer[c].uid
<1>1. comer[c] \in ComersOf(n) /\ n \in Nat
  BY LenProperties DEF ProxyInv, ProxyData
<1>2. u \in 1 .. n /\ upSession[u] \in Living
  <2>1. u \in 1 .. n
    BY <1>1 DEF Renew, HasCurrent, ComersOf
  <2>2. upSession \in Seq(Living)
    BY DEF ProxyInv, ProxyData
  <2>3. QED
    BY <2>1, <2>2, ElementOfSeq
<1>3. upSession' \in Seq(Living) /\ Len(upSession') = n
  <2>1. [upSession[u] EXCEPT !.ref = @ + 1] \in Living
    <3>1. PICK s \in Living : s = upSession[u]
      BY <1>2
    <3>2. s.ref + 1 \in Nat
      BY DEF Living
    <3>3. [s EXCEPT !.ref = s.ref + 1] \in Living
      BY <3>2, Zenon DEF Living
    <3>4. QED
      BY <3>1, <3>3
  <2>2. upSession' = [upSession EXCEPT ![u] = [upSession[u] EXCEPT !.ref = @ + 1]]
    BY DEF Renew
  <2>3. upSession \in Seq(Living)
    BY DEF ProxyInv, ProxyData
  <2>4. QED
    BY <1>2, <2>1, <2>2, <2>3, ExceptSeq
<1>4. QED
  BY <1>3

\* A session is refreshed by who has its current tokens.
LEMMA RenewKeeps == ASSUME ProxyInv, NEW c \in Proxied, Renew(c) PROVE ProxyInv'
<1> DEFINE n == Len(upSession)
           u == comer[c].uid
<1>1. comer[c] \in ComersOf(n) /\ n \in Nat
  BY LenProperties DEF ProxyInv, ProxyData
<1>3. upSession' \in Seq(Living) /\ Len(upSession') = n
  BY RenewLength
<1>4. comer' \in [Proxied -> ComersOf(n)]
  <2>1. [comer[c] EXCEPT !.ref = @ + 1] \in ComersOf(n)
    BY <1>1 DEF ComersOf
  <2>2. comer' = [comer EXCEPT ![c] = [comer[c] EXCEPT !.ref = @ + 1]]
    BY DEF Renew
  <2>3. QED
    BY <2>1, <2>2 DEF ProxyInv, ProxyData
<1>5. \A d \in Proxied : comer'[d].at = comer[d].at /\ comer'[d].uid = comer[d].uid
  BY DEF Renew, ProxyInv, ProxyData, ComersOf
<1>6. UNCHANGED <<infoCache, authCache, storing, upSRP>>
  BY DEF Renew, cacheSide
<1>7. ProofsTellApart'
  BY <1>5, ProxyAssumption DEF ProxyInv, ProofsTellApart, At
<1>8. QED
  BY <1>3, <1>4, <1>6, <1>7 DEF ProxyInv, ProxyData, SessionsPaid

\* A logout ends nothing but the client's own part.
LEMMA LogOutKeeps == ASSUME ProxyInv, NEW c \in Proxied, LogOut(c) PROVE ProxyInv'
<1>1. UNCHANGED <<infoCache, authCache, storing, upSRP, upSession>>
  BY DEF LogOut, AfterLogout, cacheSide
<1>2. comer' \in [Proxied -> ComersOf(Len(upSession'))] /\ ProofsTellApart'
  <2>1. "out" \in Places \ {"in"}
    BY DEF Places
  <2>2. QED
    BY <1>1, <2>1, ComerGoes DEF LogOut
<1>3. QED
  BY <1>1, <1>2 DEF ProxyInv, ProxyData, SessionsPaid

LEMMA ProxyInvNext == ProxyInv /\ [ProxyNext]_proxyVars => ProxyInv'
<1>1. ASSUME ProxyInv, UNCHANGED proxyVars PROVE ProxyInv'
  BY <1>1 DEF proxyVars, ProxyInv, ProxyData, SessionsPaid, ProofsTellApart, At
<1>2. QED
  BY <1>1, LookUpKeeps, StoreKeeps, FetchInfoKeeps, FetchAuthKeeps, FailsKeeps, RenewKeeps, LogOutKeeps
     DEF ProxyNext
-----------------------------------------------------------------------------
(* What the caches do for good. *)

\* Client c is at p afterwards, with this SRP session and session; the others are as they were.
Moved(c, p, srp, uid) ==
    /\ comer'[c].at = p /\ comer'[c].srp = srp /\ comer'[c].uid = uid
    /\ \A d \in Proxied \ {c} : comer'[d] = comer[d]

LEMMA ComerMoved ==
  ASSUME ProxyInv, NEW c \in Proxied, NEW p, NEW uid, NEW ref
  PROVE  /\ Goes(c, p) => Moved(c, p, comer[c].srp, comer[c].uid)
         /\ Leaves(c, p) => Moved(c, p, NoSRP, 0)
         /\ Enters(c, uid, ref) => Moved(c, "in", NoSRP, uid)
<1>1. /\ comer \in [Proxied -> ComersOf(Len(upSession))]
      /\ comer[c] \in [at : Places, srp : Int, uid : 0 .. Len(upSession), ref : Nat, tries : Nat]
  BY DEF ProxyInv, ProxyData, ComersOf
<1>2. Goes(c, p) => Moved(c, p, comer[c].srp, comer[c].uid)
  BY <1>1 DEF Goes, Moved
<1>3. Leaves(c, p) => Moved(c, p, NoSRP, 0)
  BY <1>1 DEF Leaves, Moved
<1>4. Enters(c, uid, ref) => Moved(c, "in", NoSRP, uid)
  BY <1>1 DEF Enters, Moved
<1>5. QED
  BY <1>2, <1>3, <1>4

\* What each step makes of its client.
LEMMA StepsMove ==
  ASSUME ProxyInv, NEW c \in Proxied
  PROVE  /\ LogIn(c) => Moved(c, "info", comer[c].srp, comer[c].uid)
         /\ LookUpInfo(c) =>
              \/ ~InfoCached /\ Moved(c, "ask info", comer[c].srp, comer[c].uid)
              \/ Moved(c, "failed", NoSRP, 0)
              \/ Moved(c, "proof", infoCache, comer[c].uid)
         /\ FetchInfo(c) => \E srp \in Nat : Moved(c, "proof", srp, comer[c].uid)
         /\ LookUpAuth(c) =>
              \/ ~AuthCached /\ comer[c].at = "proof" /\ Moved(c, "ask auth", comer[c].srp, comer[c].uid)
              \/ AuthCached /\ Moved(c, "in", NoSRP, authCache.uid)
              \/ Moved(c, "failed", NoSRP, 0)
         /\ UpstreamFails(c) =>
              \/ Moved(c, "failed", NoSRP, 0)
              \/ comer[c].at = "ask info" /\ Moved(c, "info", comer[c].srp, comer[c].uid)
              \/ comer[c].at = "ask auth" /\ Moved(c, "proof", comer[c].srp, comer[c].uid)
         /\ Renew(c) => comer[c].at = "in" /\ Moved(c, "in", comer[c].srp, comer[c].uid)
         /\ LogOut(c) => Moved(c, "out", NoSRP, 0)
<1>1. /\ comer \in [Proxied -> ComersOf(Len(upSession))]
      /\ comer[c] \in [at : Places, srp : Int, uid : 0 .. Len(upSession), ref : Nat, tries : Nat]
  BY DEF ProxyInv, ProxyData, ComersOf
<1>2. ASSUME NEW p, NEW srp, comer' = [comer EXCEPT ![c].at = p, ![c].srp = srp]
      PROVE  Moved(c, p, srp, comer[c].uid)
  BY <1>1, <1>2 DEF Moved
<1>3. LogIn(c) => Moved(c, "info", comer[c].srp, comer[c].uid)
  <2>1. LogIn(c) => comer' = [comer EXCEPT ![c].at = "info", ![c].tries = @ + 1]
    BY DEF LogIn
  <2>2. QED
    BY <1>1, <2>1 DEF Moved
<1>4. ASSUME LookUpInfo(c)
      PROVE  \/ ~InfoCached /\ Moved(c, "ask info", comer[c].srp, comer[c].uid)
             \/ Moved(c, "failed", NoSRP, 0)
             \/ Moved(c, "proof", infoCache, comer[c].uid)
  <2>1. CASE ~InfoCached
    <3>1. Goes(c, "ask info")
      BY <1>4, <2>1 DEF LookUpInfo
    <3>2. QED
      BY <2>1, <3>1, ComerMoved
  <2>2. CASE InfoCached /\ infoCache = EmptySRP
    <3>1. Leaves(c, "failed")
      BY <1>4, <2>2 DEF LookUpInfo
    <3>2. QED
      BY <3>1, ComerMoved
  <2>3. CASE InfoCached /\ infoCache # EmptySRP
    <3>1. comer' = [comer EXCEPT ![c].at = "proof", ![c].srp = infoCache]
      BY <1>4, <2>3 DEF LookUpInfo
    <3>2. Moved(c, "proof", infoCache, comer[c].uid)
      BY <1>2, <3>1, Zenon
    <3>3. QED
      BY <3>2
  <2>4. QED
    BY <2>1, <2>2, <2>3
<1>5. ASSUME FetchInfo(c) PROVE \E srp \in Nat : Moved(c, "proof", srp, comer[c].uid)
  <2>1. upSRP.made + 1 \in Nat
    BY DEF ProxyInv, ProxyData
  <2>2. comer' = [comer EXCEPT ![c].at = "proof", ![c].srp = upSRP.made + 1]
    BY <1>5 DEF FetchInfo
  <2>3. Moved(c, "proof", upSRP.made + 1, comer[c].uid)
    BY <1>2, <2>2, Zenon
  <2>4. QED
    BY <2>1, <2>3
<1>6. ASSUME LookUpAuth(c)
      PROVE  \/ ~AuthCached /\ comer[c].at = "proof" /\ Moved(c, "ask auth", comer[c].srp, comer[c].uid)
             \/ AuthCached /\ Moved(c, "in", NoSRP, authCache.uid)
             \/ Moved(c, "failed", NoSRP, 0)
  <2>1. /\ comer[c].at = "proof"
        /\ \/ ~AuthCached /\ Goes(c, "ask auth")
           \/ AuthCached /\ Enters(c, authCache.uid, authCache.ref)
           \/ Leaves(c, "failed")
    BY <1>6 DEF LookUpAuth, At
  <2>2. QED
    BY <2>1, ComerMoved
<1>7. ASSUME UpstreamFails(c)
      PROVE  \/ Moved(c, "failed", NoSRP, 0)
             \/ comer[c].at = "ask info" /\ Moved(c, "info", comer[c].srp, comer[c].uid)
             \/ comer[c].at = "ask auth" /\ Moved(c, "proof", comer[c].srp, comer[c].uid)
  <2>1. \/ Leaves(c, "failed")
        \/ comer[c].at = "ask info" /\ Goes(c, "info")
        \/ comer[c].at = "ask auth" /\ Goes(c, "proof")
    BY <1>7 DEF UpstreamFails, At
  <2>2. QED
    BY <2>1, ComerMoved
<1>8. ASSUME Renew(c) PROVE comer[c].at = "in" /\ Moved(c, "in", comer[c].srp, comer[c].uid)
  <2>1. comer[c].at = "in"
    BY <1>8 DEF Renew, HasCurrent, At
  <2>2. comer' = [comer EXCEPT ![c].ref = @ + 1]
    BY <1>8 DEF Renew
  <2>3. QED
    BY <1>1, <2>1, <2>2 DEF Moved
<1>9. LogOut(c) => Moved(c, "out", NoSRP, 0)
  <2>1. LogOut(c) => Leaves(c, "out")
    BY DEF LogOut
  <2>2. QED
    BY <2>1, ComerMoved
<1>10. QED
  BY <1>3, <1>4, <1>5, <1>6, <1>7, <1>8, <1>9

\* While an answer is cached and no request that missed it is left, no login asks
\* the upstream server, so that nothing of this changes.
LEMMA CachedOnceStep ==
  ASSUME ProxyInv, [ProxyNext]_proxyVars, authCache # NoAuth, AuthSettled
  PROVE  (authCache # NoAuth /\ AuthSettled)' /\ Len(upSession') = Len(upSession)
<1>1. ASSUME authCache' = authCache, Len(upSession') = Len(upSession),
             \A s \in storing' : s \in storing \/ s.to # "auth",
             \A d \in Proxied : comer'[d].at # "ask auth"
      PROVE  (authCache # NoAuth /\ AuthSettled)' /\ Len(upSession') = Len(upSession)
  BY <1>1 DEF AuthSettled, At, NoAuth
<1>2. \A d \in Proxied : comer[d].at # "ask auth"
  BY DEF AuthSettled, At
<1>3. ASSUME NEW c \in Proxied, NEW p, NEW srp, NEW uid, Moved(c, p, srp, uid), p # "ask auth"
      PROVE  \A d \in Proxied : comer'[d].at # "ask auth"
  BY <1>2, <1>3 DEF Moved
<1>4. CASE UNCHANGED proxyVars
  BY <1>1, <1>2, <1>4 DEF proxyVars
<1>5. ASSUME NEW c \in Proxied, LogIn(c) \/ LookUpInfo(c) \/ LookUpAuth(c) \/ FetchInfo(c) \/ UpstreamFails(c)
                                \/ Renew(c) \/ LogOut(c)
      PROVE  \A d \in Proxied : comer'[d].at # "ask auth"
  <2>1. \E p \in Places \ {"ask auth"}, srp \in Int, uid \in Int : Moved(c, p, srp, uid)
    <3>1. /\ comer[c].srp \in Int /\ comer[c].uid \in Int /\ infoCache \in Int
          /\ authCache.uid \in Int /\ NoSRP \in Int /\ 0 \in Int /\ Nat \subseteq Int
      BY LenProperties DEF ProxyInv, ProxyData, ComersOf, AuthsOf, NoSRP, EmptySRP
    <3>2. {"info", "ask info", "failed", "proof", "in", "out"} \subseteq Places \ {"ask auth"} /\ AuthCached
      BY DEF Places, AuthCached
    <3>3. QED
      BY <1>5, <3>1, <3>2, StepsMove
  <2>2. QED
    BY <1>3, <2>1
<1>6. ASSUME NEW c \in Proxied, LogIn(c) \/ LookUpInfo(c) \/ LookUpAuth(c) \/ FetchInfo(c) \/ UpstreamFails(c)
                                \/ Renew(c) \/ LogOut(c)
      PROVE  /\ authCache' = authCache /\ Len(upSession') = Len(upSession)
             /\ \A s \in storing' : s \in storing \/ s.to # "auth"
  <2>1. CASE Renew(c)
    BY <2>1, RenewLength DEF Renew, cacheSide
  <2>2. CASE UpstreamFails(c)
    <3>1. comer[c].at = "ask info" /\ UNCHANGED <<infoCache, authCache, upSession>>
      BY <1>2, <2>2 DEF UpstreamFails
    <3>2. storing' = storing \/ storing' = storing \cup {[to |-> "info", value |-> EmptySRP]}
      BY <2>2, <3>1 DEF UpstreamFails, At
    <3>3. [to |-> "info", value |-> EmptySRP].to # "auth"
      OBVIOUS
    <3>4. QED
      BY <3>1, <3>2, <3>3
  <2>3. CASE FetchInfo(c)
    <3>1. UNCHANGED <<infoCache, authCache, upSession>>
      BY <2>3 DEF FetchInfo
    <3>2. PICK v : storing' = storing \cup {[to |-> "info", value |-> v]}
      BY <2>3 DEF FetchInfo
    <3>3. [to |-> "info", value |-> v].to # "auth"
      OBVIOUS
    <3>4. QED
      BY <3>1, <3>2, <3>3
  <2>4. QED
    BY <1>6, <2>1, <2>2, <2>3 DEF LogIn, LookUpInfo, LookUpAuth, LogOut, AfterLogout, cacheSide, serverSide
<1>7. CASE StoreInfo
  BY <1>1, <1>2, <1>7 DEF StoreInfo, serverSide
<1>8. (\A c \in Proxied : ~FetchAuth(c)) /\ ~StoreAuth
  BY DEF FetchAuth, StoreAuth, AuthSettled
<1>9. ASSUME NEW c \in Proxied, LogIn(c) \/ LookUpInfo(c) \/ LookUpAuth(c) \/ FetchInfo(c) \/ UpstreamFails(c)
                                \/ Renew(c) \/ LogOut(c)
      PROVE  (authCache # NoAuth /\ AuthSettled)' /\ Len(upSession') = Len(upSession)
  <2>1. \A d \in Proxied : comer'[d].at # "ask auth"
    BY <1>5, <1>9
  <2>2. /\ authCache' = authCache /\ Len(upSession') = Len(upSession)
        /\ \A s \in storing' : s \in storing \/ s.to # "auth"
    BY <1>6, <1>9
  <2>3. QED
    BY <1>1, <2>1, <2>2
<1>10. QED
  BY <1>4, <1>7, <1>8, <1>9 DEF ProxyNext

\* A user who is locked out stays so: no step makes an SRP session that is left,
\* and what is stored has no fields.
LEMMA LockedOutStep ==
  ASSUME ProxyInv, [ProxyNext]_proxyVars, LockedOut
  PROVE  LockedOut' /\ \A c \in Proxied : ~At(c, "in") /\ At(c, "in")' => comer'[c].uid = 0
<1> DEFINE Spent(d) == /\ comer'[d].at # "ask info"
                       /\ comer'[d].at \in {"proof", "ask auth"} => comer'[d].srp \notin upSRP.left
                       /\ comer[d].at # "in" /\ comer'[d].at = "in" => comer'[d].uid = 0
           Dry == /\ authCache' \in {NoAuth, EmptyAuth} /\ infoCache' = infoCache
                  /\ upSRP'.left \subseteq upSRP.left
                  /\ \A s \in storing' : s \in storing \/ s = [to |-> "auth", value |-> EmptyAuth]
           Goal == LockedOut' /\ \A c \in Proxied : ~At(c, "in") /\ At(c, "in")' => comer'[c].uid = 0
<1>1. ASSUME \A d \in Proxied : Spent(d), Dry PROVE Goal
  BY <1>1 DEF LockedOut, At, NoAuth, EmptyAuth, NoSRP
<1>2. /\ authCache \in {NoAuth, EmptyAuth} /\ infoCache # NoSRP /\ infoCache \notin upSRP.left
      /\ \A d \in Proxied : comer[d].at # "ask info" /\ (comer[d].at \in {"proof", "ask auth"} => comer[d].srp \notin upSRP.left)
      /\ \A s \in storing : s = [to |-> "auth", value |-> EmptyAuth]
  BY DEF LockedOut, At
<1>3. ASSUME NEW c \in Proxied, NEW p, NEW srp, NEW uid, Moved(c, p, srp, uid),
             p # "ask info", p \in {"proof", "ask auth"} => srp \notin upSRP.left,
             p = "in" => uid = 0 \/ comer[c].at = "in"
      PROVE  \A d \in Proxied : Spent(d)
  BY <1>2, <1>3 DEF Moved
<1>4. CASE UNCHANGED proxyVars
  BY <1>1, <1>2, <1>4 DEF proxyVars
<1>5. ASSUME NEW c \in Proxied, LogIn(c) \/ LookUpInfo(c) \/ LookUpAuth(c) \/ FetchAuth(c) \/ UpstreamFails(c)
                                \/ Renew(c) \/ LogOut(c)
      PROVE  \A d \in Proxied : Spent(d)
  <2>1. CASE LogIn(c)
    BY <1>3, <2>1, StepsMove
  <2>2. CASE LookUpInfo(c)
    BY <1>2, <1>3, <2>2, StepsMove DEF InfoCached
  <2>3. CASE LookUpAuth(c)
    <3>1. AuthCached => authCache.uid = 0
      <4>1. AuthCached => authCache = EmptyAuth
        BY <1>2 DEF AuthCached
      <4>2. EmptyAuth.uid = 0
        BY DEF EmptyAuth
      <4>3. QED
        BY <4>1, <4>2
    <3>2. \/ comer[c].at = "proof" /\ Moved(c, "ask auth", comer[c].srp, comer[c].uid)
          \/ Moved(c, "in", NoSRP, 0)
          \/ Moved(c, "failed", NoSRP, 0)
      BY <2>3, <3>1, StepsMove
    <3>3. QED
      BY <1>2, <1>3, <3>2
  <2>4. CASE FetchAuth(c)
    <3>1. Leaves(c, "failed")
      BY <1>2, <2>4 DEF FetchAuth, At
    <3>2. Moved(c, "failed", NoSRP, 0)
      BY <3>1, ComerMoved
    <3>3. QED
      BY <1>3, <3>2
  <2>5. CASE UpstreamFails(c)
    BY <1>2, <1>3, <2>5, StepsMove
  <2>6. CASE Renew(c)
    BY <1>3, <2>6, StepsMove
  <2>7. CASE LogOut(c)
    BY <1>3, <2>7, StepsMove
  <2>8. QED
    BY <1>5, <2>1, <2>2, <2>3, <2>4, <2>5, <2>6, <2>7
<1>6. ASSUME NEW c \in Proxied, LogIn(c) \/ LookUpInfo(c) \/ LookUpAuth(c) \/ FetchAuth(c) \/ UpstreamFails(c)
                                \/ Renew(c) \/ LogOut(c)
      PROVE  Dry
  <2>1. CASE FetchAuth(c)
    <3>1. upSRP'.left \subseteq upSRP.left
      BY <2>1 DEF FetchAuth, SpendSRP, ProxyInv, ProxyData
    <3>2. UNCHANGED <<infoCache, authCache, storing>>
      BY <1>2, <2>1 DEF FetchAuth, At
    <3>3. QED
      BY <1>2, <3>1, <3>2
  <2>2. CASE UpstreamFails(c)
    <3>1. upSRP'.left = upSRP.left
      BY <2>2 DEF UpstreamFails, ProxyInv, ProxyData
    <3>2. QED
      BY <1>2, <2>2, <3>1 DEF UpstreamFails, At
  <2>3. CASE LogIn(c) \/ LookUpInfo(c) \/ LookUpAuth(c) \/ Renew(c) \/ LogOut(c)
    BY <1>2, <2>3 DEF LogIn, LookUpInfo, LookUpAuth, Renew, LogOut, cacheSide, serverSide
  <2>4. QED
    BY <1>6, <2>1, <2>2, <2>3
<1>7. CASE StoreAuth
  <2>1. authCache' = EmptyAuth /\ storing' \subseteq storing /\ UNCHANGED <<infoCache, upSRP, comer>>
    <3>1. PICK s \in storing : s.to = "auth" /\ authCache' = s.value /\ storing' = storing \ {s}
      BY <1>7 DEF StoreAuth
    <3>2. s = [to |-> "auth", value |-> EmptyAuth]
      BY <1>2
    <3>3. s.value = EmptyAuth
      BY <3>2
    <3>4. UNCHANGED <<infoCache, upSRP, comer>>
      BY <1>7 DEF StoreAuth, serverSide
    <3>5. QED
      BY <3>1, <3>3, <3>4
  <2>2. QED
    BY <1>1, <1>2, <2>1
<1>8. ~StoreInfo /\ \A c \in Proxied : ~FetchInfo(c)
  <2>1. \A s \in storing : s.to # "info"
    <3>1. [to |-> "auth", value |-> EmptyAuth].to # "info"
      OBVIOUS
    <3>2. QED
      BY <1>2, <3>1
  <2>2. ~StoreInfo
    BY <2>1 DEF StoreInfo
  <2>3. \A c \in Proxied : ~FetchInfo(c)
    BY <1>2 DEF FetchInfo, At
  <2>4. QED
    BY <2>2, <2>3
<1>9. ASSUME NEW c \in Proxied, LogIn(c) \/ LookUpInfo(c) \/ LookUpAuth(c) \/ FetchAuth(c) \/ UpstreamFails(c)
                                \/ Renew(c) \/ LogOut(c)
      PROVE  Goal
  <2>1. (\A d \in Proxied : Spent(d)) /\ Dry
    BY <1>5, <1>6, <1>9
  <2>2. QED
    BY <1>1, <2>1
<1>10. QED
  BY <1>4, <1>7, <1>8, <1>9 DEF ProxyNext

\* For any number of clients, passwords and errors: a verifying client is in with
\* a session of its own and with no other one's, a logout ends nobody's session,
\* three logins make one session once its answer is cached, and a user whom the
\* caches lock out stays out.
THEOREM ProxyIsExact == ProxySpec => ProxyExact
<1>1. ProxyInv => ProxyTypeOK /\ LogoutIsLocal /\ ProofsTellApart
  <2> SUFFICES ASSUME ProxyInv PROVE ProxyTypeOK /\ LogoutIsLocal
    BY DEF ProxyInv
  <2>1. ProxyTypeOK
    <3>1. authCache.uid \in 0 .. Len(upSession) /\ authCache.by \in Proxied \cup {"none", "empty"}
      BY DEF ProxyInv, ProxyData, AuthsOf
    <3>2. upSRP.errors <= MaxErrors
      BY ProxyAssumption DEF ProxyInv, ProxyData
    <3>3. \A c \in Proxied : comer[c].at \in Places
      BY DEF ProxyInv, ProxyData, ComersOf
    <3>4. QED
      BY <3>1, <3>2, <3>3 DEF ProxyInv, ProxyData, SessionsPaid, ProxyTypeOK, Places
  <2>2. ASSUME NEW c \in Proxied, HasCurrent(c) PROVE upSession[comer[c].uid].live
    <3>1. upSession \in Seq(Living) /\ comer[c].uid \in 0 .. Len(upSession)
      BY DEF ProxyInv, ProxyData, ComersOf
    <3>2. comer[c].uid \in 1 .. Len(upSession)
      BY <2>2, <3>1, LenProperties DEF HasCurrent
    <3>3. upSession[comer[c].uid] \in Living
      BY <3>1, <3>2, ElementOfSeq
    <3>4. QED
      BY <3>3, Zenon DEF Living
  <2>3. QED
    BY <2>1, <2>2 DEF LogoutIsLocal
<1>2. ProxyInv /\ [ProxyNext]_proxyVars =>
        [LET once == authCache # NoAuth /\ AuthSettled
         IN  once => once' /\ Len(upSession') = Len(upSession)]_proxyVars
  BY CachedOnceStep
<1>3. ProxyInv /\ [ProxyNext]_proxyVars =>
        [LockedOut => LockedOut' /\ \A c \in Proxied : ~At(c, "in") /\ At(c, "in")' => comer'[c].uid = 0]_proxyVars
  BY LockedOutStep
<1>4. QED
  BY <1>1, <1>2, <1>3, ProxyInvInit, ProxyInvNext, PTL DEF ProxySpec, ProxyExact, CachedOnce, LockedOutForGood

-----------------------------------------------------------------------------
(* The controller of the network. *)

NConns == Cardinality(Conns)

\* What the Reads or Writes P may still add, n of each and m at most, leaves the count
\* within top and one buffer of m for each connection but one.
FitsIn(P, n, cnt, top, m) ==
    /\ \A c \in P : n[c] <= m
    /\ P = {} => cnt <= top + (NConns - 1) * m
    /\ P # {} => \E c \in P : cnt + n[c] + (Cardinality(P) - 1) * m <= top + (NConns - 1) * m

LEMMA Products ==
  ASSUME NEW a \in Int, NEW b \in Int, NEW m \in Nat
  PROVE  /\ (a + 1) * m = a * m + m
         /\ (a - 1) * m = a * m - m
         /\ a * m \in Int
         /\ a <= b => a * m <= b * m
         /\ 0 <= a => 0 <= a * m
<1>1. (a + 1) * m = a * m + m /\ (a - 1) * m = a * m - m /\ a * m \in Int
  OBVIOUS
<1>2. 0 <= a => 0 <= a * m
  OBVIOUS
<1>3. a <= b => a * m <= b * m
  <2> SUFFICES ASSUME a <= b PROVE a * m <= b * m
    OBVIOUS
  <2>1. PICK d \in Nat : b = a + d
    <3>1. b - a \in Nat /\ b = a + (b - a)
      OBVIOUS
    <3>2. QED
      BY <3>1
  <2>2. b * m = a * m + d * m /\ d * m \in Nat
    BY <2>1
  <2>3. QED
    BY <1>1, <2>2
<1>4. QED
  BY <1>1, <1>2, <1>3

LEMMA ManyConns ==
  ASSUME NEW P, P \subseteq Conns
  PROVE  /\ IsFiniteSet(P) /\ Cardinality(P) \in Nat /\ NConns \in Nat /\ Cardinality(P) <= NConns
         /\ P = {} <=> Cardinality(P) = 0
<1>1. IsFiniteSet(Conns)
  BY NetCtlAssumption
<1>2. QED
  BY <1>1, FS_Subset, FS_CardinalityType, FS_EmptySet DEF NConns

\* A Read that passes its check, and takes no more than the limit leaves.
LEMMA FitsCheck ==
  ASSUME NEW P, P \subseteq Conns, NEW c \in Conns \ P, NEW n \in [Conns -> Nat], NEW k \in [Conns -> Nat],
         NEW cnt \in Nat, NEW top \in Nat, NEW m \in Nat,
         FitsIn(P, n, cnt, top, m), \A d \in P : k[d] = n[d], k[c] <= m, cnt + k[c] <= top
  PROVE  FitsIn(P \cup {c}, k, cnt, top, m)
<1> DEFINE size == Cardinality(P \cup {c})
<1>1. size \in Nat /\ NConns \in Nat /\ size <= NConns /\ P \cup {c} # {}
  BY ManyConns
<1>2. (size - 1) * m <= (NConns - 1) * m /\ (size - 1) * m \in Int /\ (NConns - 1) * m \in Int
  <2>1. size - 1 \in Int /\ NConns - 1 \in Int /\ size - 1 <= NConns - 1
    BY <1>1
  <2> HIDE DEF size
  <2>2. QED
    BY <2>1, Products
<1>3. cnt + k[c] \in Nat
  OBVIOUS
<1>4. cnt + k[c] + (size - 1) * m <= top + (NConns - 1) * m
  <2> HIDE DEF size
  <2>1. QED
    BY <1>2, <1>3
<1>5. \A d \in P \cup {c} : k[d] <= m
  BY DEF FitsIn
<1>6. QED
  BY <1>1, <1>4, <1>5 DEF FitsIn

\* Some of the bytes, or none.
LEMMA FitsMove ==
  ASSUME NEW P, P \subseteq Conns, NEW n \in [Conns -> Nat], NEW k \in [Conns -> Nat],
         NEW cnt \in Nat, NEW top \in Nat, NEW m \in Nat,
         FitsIn(P, n, cnt, top, m), \A d \in P : k[d] <= n[d]
  PROVE  FitsIn(P, k, cnt, top, m)
<1>1. \A d \in P : n[d] \in Nat /\ k[d] \in Nat /\ k[d] <= n[d]
  OBVIOUS
<1>2. \A d \in P : k[d] <= m
  BY <1>1 DEF FitsIn
<1>3. ASSUME P # {} PROVE \E d \in P : cnt + k[d] + (Cardinality(P) - 1) * m <= top + (NConns - 1) * m
  <2>1. PICK d \in P : cnt + n[d] + (Cardinality(P) - 1) * m <= top + (NConns - 1) * m
    BY <1>3 DEF FitsIn
  <2>2. (Cardinality(P) - 1) * m \in Int /\ (NConns - 1) * m \in Int
    <3>1. Cardinality(P) - 1 \in Int /\ NConns - 1 \in Int
      BY ManyConns
    <3>2. QED
      BY <3>1, Products
  <2>3. QED
    BY <1>1, <2>1, <2>2
<1>4. QED
  BY <1>2, <1>3 DEF FitsIn

\* What moved is counted.
LEMMA FitsCount ==
  ASSUME NEW P, P \subseteq Conns, NEW c \in P, NEW n \in [Conns -> Nat], NEW k \in [Conns -> Nat],
         NEW cnt \in Nat, NEW top \in Nat, NEW m \in Nat,
         FitsIn(P, n, cnt, top, m), \A d \in P \ {c} : k[d] = n[d]
  PROVE  FitsIn(P \ {c}, k, cnt + n[c], top, m)
<1> DEFINE size == Cardinality(P)
           most == top + (NConns - 1) * m
<1>1. /\ size \in Nat /\ NConns \in Nat /\ Cardinality(P \ {c}) = size - 1 /\ most \in Int
      /\ (size - 1) * m \in Int /\ ((size - 1) - 1) * m = (size - 1) * m - m
  <2>1. size \in Nat /\ NConns \in Nat /\ IsFiniteSet(P)
    BY ManyConns
  <2>2. Cardinality(P \ {c}) = size - 1
    BY <2>1, FS_RemoveElement
  <2>3. size - 1 \in Int /\ NConns - 1 \in Int
    BY <2>1
  <2> HIDE DEF size
  <2>4. (size - 1) * m \in Int /\ ((size - 1) - 1) * m = (size - 1) * m - m /\ (NConns - 1) * m \in Int
    BY <2>3, Products
  <2>5. QED
    BY <2>1, <2>2, <2>4
<1>2. \A d \in P : n[d] \in Nat /\ n[d] <= m
  BY DEF FitsIn
<1>3. PICK d \in P : cnt + n[d] + (size - 1) * m <= most
  BY DEF FitsIn
<1>4. \A e \in P \ {c} : k[e] <= m
  BY <1>2
<1> HIDE DEF most
<1>5. ASSUME P \ {c} = {} PROVE cnt + n[c] <= most
  <2>1. d = c /\ size - 1 = 0
    BY <1>1, <1>5, FS_EmptySet
  <2>2. (size - 1) * m = 0
    BY <2>1
  <2> HIDE DEF size
  <2>3. QED
    BY <1>1, <1>2, <1>3, <2>1, <2>2
<1>6. ASSUME P \ {c} # {}
      PROVE  \E e \in P \ {c} : (cnt + n[c]) + k[e] + (Cardinality(P \ {c}) - 1) * m <= most
  <2> HIDE DEF size
  <2>1. ASSUME NEW e \in P \ {c}, d \in {c, e} PROVE (cnt + n[c]) + k[e] + ((size - 1) - 1) * m <= most
    BY <1>1, <1>2, <1>3, <2>1
  <2>2. \E e \in P \ {c} : d \in {c, e}
    BY <1>6
  <2>3. QED
    BY <1>1, <2>1, <2>2
<1>7. QED
  BY <1>4, <1>5, <1>6 DEF FitsIn, most

\* The count starts again.
LEMMA FitsReset ==
  ASSUME NEW P, P \subseteq Conns, NEW n \in [Conns -> Nat], NEW top \in Nat, NEW m \in Nat,
         m <= top, \A c \in P : n[c] <= m
  PROVE  FitsIn(P, n, 0, top, m)
<1> DEFINE size == Cardinality(P)
<1>1. size \in Nat /\ NConns \in Nat /\ size <= NConns /\ (P = {} <=> size = 0)
  BY ManyConns
<1> HIDE DEF size
<1>2. (size - 1) * m \in Int /\ (NConns - 1) * m \in Int /\ (size - 1) * m <= (NConns - 1) * m /\ NConns * m \in Nat
      /\ (NConns - 1) * m = NConns * m - m
  <2>1. size - 1 \in Int /\ NConns - 1 \in Int /\ size - 1 <= NConns - 1 /\ NConns \in Int /\ 0 <= NConns
    BY <1>1
  <2>2. QED
    BY <2>1, Products
<1>3. 0 <= top + (NConns - 1) * m
  BY <1>2
<1>4. \A c \in P : 0 + n[c] + (size - 1) * m <= top + (NConns - 1) * m
  <2> TAKE c \in P
  <2>1. n[c] \in Nat /\ n[c] <= m
    OBVIOUS
  <2>2. QED
    BY <1>2, <2>1
<1>5. QED
  BY <1>3, <1>4 DEF FitsIn, size

\* So that the count itself is within the bound.
LEMMA FitsBound ==
  ASSUME NEW P, P \subseteq Conns, NEW n \in [Conns -> Nat], NEW cnt \in Nat, NEW top \in Nat, NEW m \in Nat,
         FitsIn(P, n, cnt, top, m)
  PROVE  cnt <= top + (NConns - 1) * m
<1> DEFINE size == Cardinality(P)
<1>1. CASE P # {}
  <2>1. size \in Nat /\ size - 1 \in Nat /\ NConns \in Nat
    BY <1>1, ManyConns
  <2>2. PICK c \in P : cnt + n[c] + (size - 1) * m <= top + (NConns - 1) * m
    BY <1>1 DEF FitsIn
  <2>3. n[c] \in Nat
    BY <2>2
  <2> HIDE DEF size
  <2>4. 0 <= (size - 1) * m /\ (size - 1) * m \in Int /\ (NConns - 1) * m \in Int
    <3>1. size - 1 \in Int /\ NConns - 1 \in Int /\ 0 <= size - 1
      BY <2>1
    <3>2. QED
      BY <3>1, Products
  <2>5. QED
    BY <2>2, <2>3, <2>4
<1>2. QED
  BY <1>1 DEF FitsIn

LEMMA Pairs ==
  ASSUME NEW a \in Nat, NEW b \in Nat
  PROVE  /\ Min({a, b}) \in Nat /\ Min({a, b}) <= a /\ Min({a, b}) <= b
         /\ Min({a, b}) = a \/ Min({a, b}) = b
         /\ Max({a, b}) \in Nat /\ Max({a, b}) >= a /\ Max({a, b}) >= b
<1>1. \E x \in {a, b} : \A y \in {a, b} : x <= y
  OBVIOUS
<1>2. \E x \in {a, b} : \A y \in {a, b} : x >= y
  OBVIOUS
<1>3. Min({a, b}) \in {a, b} /\ \A y \in {a, b} : Min({a, b}) <= y
  BY <1>1 DEF Min
<1>4. Max({a, b}) \in {a, b} /\ \A y \in {a, b} : Max({a, b}) >= y
  BY <1>2 DEF Max
<1>5. QED
  BY <1>3, <1>4

-----------------------------------------------------------------------------
(* The inductive invariant. *)

NetWays == Ways \cup {"dial"}
ConnStates == {"new", "dialing", "open", "closed", "failed"}
CallNames == {"none", "Disable", "Enable", "Set"}
IOsOf == [at : {"idle", "io", "moved"}, n : 0 .. Buf]
Remaining == {Disable, <<SetCan("read", FALSE), SetCan("write", FALSE)>>, <<SetCan("write", FALSE)>>, <<>>}

\* Those that may still add to a count, and what.
Pend(w) == {c \in Conns : io[c][w].at # "idle"}
Adds(w) == [c \in Conns |-> io[c][w].n]

NetData ==
    /\ can \in [NetWays -> BOOLEAN]
    /\ limit \in [NetWays -> DialLimits \cup Limits \cup {0}]
    /\ count \in [NetWays -> Nat]
    /\ dialing \in Conns \cup {NoConn}
    /\ conn \in [Conns -> ConnStates]
    /\ io \in [Conns -> [Ways -> IOsOf]]
    /\ call \in [name : CallNames, todo : Seq(Singles), closed : BOOLEAN]
    /\ calls \in 0 .. MaxCalls /\ ios \in 0 .. MaxIO

\* dlock: one dial, or one setter that has closed every connection.
DlockHeld ==
    /\ \A c \in Conns : conn[c] = "dialing" <=> dialing = c
    /\ call.closed => call.todo # <<>> /\ dialing = NoConn /\ \A c \in Conns : conn[c] # "open"

\* A connection is used once it was dialled.
UsedOnceOpen == \A c \in Conns, w \in Ways : conn[c] \notin {"open", "closed"} => io[c][w].at = "idle"

\* A dial in progress passed its check, and nothing changed since.
DialAllowed == dialing # NoConn => Below("dial")

\* A Disable works off its list: first no dial, in the end no connection.
Disabling ==
    call.name = "Disable" =>
        /\ call.todo \in Remaining
        /\ call.todo # Disable => ~can["dial"] /\ dialing = NoConn
        /\ Len(call.todo) < 2 => \A c \in Conns : conn[c] # "open"

\* The counts and what is under way are within the limits.
LimitsFit ==
    \A w \in Ways : limit[w] > 0 =>
        /\ FitsIn(Pend(w), Adds(w), count[w], Max({Buf, limit[w]}), Buf)
        /\ (\A c \in Conns : conn[c] # "closed") =>
               FitsIn(Pend(w), Adds(w), count[w], limit[w], Min({Buf, limit[w]}))

NetInv == NetData /\ DlockHeld /\ UsedOnceOpen /\ NothingMovesWhenOff /\ DialAllowed /\ Disabling /\ LimitsFit

LEMMA NetInvInit == NetInit => NetInv
<1> SUFFICES ASSUME NetInit PROVE NetInv
  OBVIOUS
<1> USE NetCtlAssumption DEF NetInit
<1>1. NoIO \in IOsOf /\ NoIO.at = "idle"
  BY DEF NoIO, IOsOf
<1>2. NoCall \in [name : CallNames, todo : Seq(Singles), closed : BOOLEAN] /\ NoCall.name # "Disable" /\ NoCall.closed = FALSE
  <2>1. <<>> \in Seq(Singles) /\ FALSE \in BOOLEAN /\ "none" \in CallNames
    BY DEF CallNames
  <2>2. NoCall \in [name : CallNames, todo : Seq(Singles), closed : BOOLEAN]
    BY <2>1, Zenon DEF NoCall
  <2>3. NoCall.name # "Disable" /\ NoCall.closed = FALSE
    BY DEF NoCall
  <2>4. QED
    BY <2>2, <2>3
<1>3. can \in [NetWays -> BOOLEAN] /\ count \in [NetWays -> Nat]
  BY DEF NetWays
<1>4. limit \in [NetWays -> DialLimits \cup Limits \cup {0}] /\ \A w \in Ways : limit[w] = 0
  BY DEF NetWays
<1>5. \A c \in Conns, w \in Ways : io[c][w] = NoIO
  OBVIOUS
<1>6. io \in [Conns -> [Ways -> IOsOf]]
  BY <1>1
<1>7. NetData
  BY <1>2, <1>3, <1>4, <1>6 DEF NetData, ConnStates
<1>8. DlockHeld /\ UsedOnceOpen /\ NothingMovesWhenOff
  BY <1>1, <1>2, <1>5 DEF DlockHeld, UsedOnceOpen, NothingMovesWhenOff
<1>9. DialAllowed /\ Disabling /\ LimitsFit
  BY <1>2, <1>4 DEF DialAllowed, Disabling, LimitsFit
<1>10. QED
  BY <1>7, <1>8, <1>9 DEF NetInv

\* What is left of a call.
LEMMA CallSteps ==
  ASSUME NetData, call.todo # <<>>
  PROVE  /\ Head(call.todo) \in Singles /\ Tail(call.todo) \in Seq(Singles)
         /\ Len(Tail(call.todo)) = Len(call.todo) - 1 /\ Len(call.todo) \in Nat \ {0}
<1>1. call.todo \in Seq(Singles)
  BY DEF NetData
<1>2. QED
  BY <1>1, HeadTailProperties, EmptySeq, LenProperties

\* What a setter assigns.
LEMMA SingleShapes ==
  ASSUME NEW s \in Singles
  PROVE  /\ s.way \in NetWays
         /\ s.field = "can" => s.val \in BOOLEAN
         /\ s.field = "limit" => s.val \in DialLimits \cup Limits
<1>1. CASE \E w \in NetWays, v \in BOOLEAN : s = SetCan(w, v)
  BY <1>1 DEF SetCan
<1>2. CASE \E w \in NetWays, v \in DialLimits \cup Limits : s = SetLimit(w, v)
  BY <1>2 DEF SetLimit
<1>3. CASE \E w \in Ways : s = SetSpeed(w)
  BY <1>3 DEF SetSpeed, NetWays
<1>4. QED
  BY <1>1, <1>2, <1>3 DEF Singles, NetWays

\* The steps of Disable.
LEMMA DisableSteps ==
  /\ Disable # <<>> /\ Head(Disable) = SetCan("dial", FALSE)
  /\ Tail(Disable) = <<SetCan("read", FALSE), SetCan("write", FALSE)>>
  /\ Len(Disable) = 3 /\ Disable \in Seq(Singles) /\ Enable \in Seq(Singles)
  /\ \A a, b : Head(<<a, b>>) = a /\ Tail(<<a, b>>) = <<b>> /\ Len(<<a, b>>) = 2 /\ <<a, b>> # <<>>
  /\ \A a : Head(<<a>>) = a /\ Tail(<<a>>) = <<>> /\ Len(<<a>>) = 1 /\ <<a>> # <<>>
  /\ SetCan("dial", FALSE).way = "dial" /\ SetCan("dial", FALSE).field = "can" /\ SetCan("dial", FALSE).val = FALSE
  /\ SetCan("read", FALSE).way = "read" /\ SetCan("write", FALSE).way = "write"
<1>1. \A w \in NetWays, v \in BOOLEAN : SetCan(w, v) \in Singles
  BY DEF Singles, NetWays
<1>2. Disable \in Seq(Singles) /\ Enable \in Seq(Singles)
  <2>1. \A a, b, d \in Singles : <<a, b, d>> \in Seq(Singles)
    OBVIOUS
  <2>2. QED
    BY <1>1, <2>1 DEF Disable, Enable, NetWays, Ways
<1>3. \A a, b, d : Head(<<a, b, d>>) = a /\ Tail(<<a, b, d>>) = <<b, d>> /\ Len(<<a, b, d>>) = 3 /\ <<a, b, d>> # <<>>
  OBVIOUS
<1>4. \A a, b : Head(<<a, b>>) = a /\ Tail(<<a, b>>) = <<b>> /\ Len(<<a, b>>) = 2 /\ <<a, b>> # <<>>
  OBVIOUS
<1>5. \A a : Head(<<a>>) = a /\ Tail(<<a>>) = <<>> /\ Len(<<a>>) = 1 /\ <<a>> # <<>>
  OBVIOUS
<1>6. /\ SetCan("dial", FALSE).way = "dial" /\ SetCan("dial", FALSE).field = "can" /\ SetCan("dial", FALSE).val = FALSE
      /\ SetCan("read", FALSE).way = "read" /\ SetCan("write", FALSE).way = "write"
  BY DEF SetCan
<1>7. /\ Disable # <<>> /\ Head(Disable) = SetCan("dial", FALSE)
      /\ Tail(Disable) = <<SetCan("read", FALSE), SetCan("write", FALSE)>> /\ Len(Disable) = 3
  BY <1>3 DEF Disable
<1>8. QED
  BY <1>2, <1>4, <1>5, <1>6, <1>7, Zenon

-----------------------------------------------------------------------------
(* The setters. *)

\* A setter is called when no call has anything left.
LEMMA CallSetterKeeps == ASSUME NetInv, CallSetter PROVE NetInv'
<1> USE DEF NetInv
<1>1. UNCHANGED <<can, limit, count, dialing, conn, io, ios>> /\ calls' = calls + 1 /\ calls < MaxCalls /\ call.todo = <<>>
  BY DEF CallSetter
<1>2. /\ call' \in [name : CallNames, todo : Seq(Singles), closed : BOOLEAN] /\ call'.closed = FALSE
      /\ call'.name = "Disable" => call'.todo = Disable
  <2>1. CASE call' = [name |-> "Disable", todo |-> Disable, closed |-> FALSE]
    <3>1. Disable \in Seq(Singles) /\ FALSE \in BOOLEAN /\ "Disable" \in CallNames
      BY DisableSteps DEF CallNames
    <3>2. QED
      BY <2>1, <3>1, Zenon
  <2>2. CASE call' = [name |-> "Enable", todo |-> Enable, closed |-> FALSE]
    <3>1. Enable \in Seq(Singles) /\ FALSE \in BOOLEAN /\ "Enable" \in CallNames
      BY DisableSteps DEF CallNames
    <3>2. call' \in [name : CallNames, todo : Seq(Singles), closed : BOOLEAN]
      BY <2>2, <3>1, Zenon
    <3>3. call'.closed = FALSE /\ call'.name # "Disable"
      BY <2>2
    <3>4. QED
      BY <3>2, <3>3
  <2>3. ASSUME NEW s \in Singles, call' = [name |-> "Set", todo |-> <<s>>, closed |-> FALSE]
        PROVE  /\ call' \in [name : CallNames, todo : Seq(Singles), closed : BOOLEAN] /\ call'.closed = FALSE
               /\ call'.name # "Disable"
    <3>1. <<s>> \in Seq(Singles) /\ FALSE \in BOOLEAN /\ "Set" \in CallNames
      BY DEF CallNames
    <3>2. call' \in [name : CallNames, todo : Seq(Singles), closed : BOOLEAN]
      BY <2>3, <3>1, Zenon
    <3>3. call'.closed = FALSE /\ call'.name # "Disable"
      BY <2>3
    <3>4. QED
      BY <3>2, <3>3
  <2>4. QED
    BY <2>1, <2>2, <2>3, Zenon DEF CallSetter
<1>3. NetData'
  BY <1>1, <1>2, NetCtlAssumption DEF NetData
<1>4. DlockHeld' /\ UsedOnceOpen' /\ NothingMovesWhenOff' /\ DialAllowed'
  BY <1>1, <1>2 DEF DlockHeld, UsedOnceOpen, NothingMovesWhenOff, DialAllowed, Below
<1>5. Disabling'
  <2>1. Disable \in Remaining /\ ~(Len(Disable) < 2)
    BY DisableSteps DEF Remaining
  <2>2. QED
    BY <1>2, <2>1 DEF Disabling, Remaining, Disable, SetCan
<1>6. LimitsFit'
  BY <1>1 DEF LimitsFit, Pend, Adds
<1>7. QED
  BY <1>3, <1>4, <1>5, <1>6

\* What is left of a call that has begun.
LEMMA CallShape ==
  ASSUME NetData, call.todo # <<>>, NEW closed \in BOOLEAN
  PROVE  /\ [call EXCEPT !.todo = Tail(@)] \in [name : CallNames, todo : Seq(Singles), closed : BOOLEAN]
         /\ [call EXCEPT !.closed = closed] \in [name : CallNames, todo : Seq(Singles), closed : BOOLEAN]
         /\ [call EXCEPT !.todo = Tail(@), !.closed = closed] \in [name : CallNames, todo : Seq(Singles), closed : BOOLEAN]
<1>1. Tail(call.todo) \in Seq(Singles)
  BY CallSteps
<1>2. call \in [name : CallNames, todo : Seq(Singles), closed : BOOLEAN]
  BY DEF NetData
<1>3. QED
  BY <1>1, <1>2, Zenon

\* Whoever may dial is decided while nobody dials.
LEMMA SetDialKeeps == ASSUME NetInv, SetDial PROVE NetInv'
<1> USE DEF NetInv
<1> DEFINE s == Head(call.todo)
<1>1. /\ call.todo # <<>> /\ dialing = NoConn /\ ~call.closed /\ s.way = "dial"
      /\ UNCHANGED <<count, dialing, conn, io, calls, ios>> /\ call' = [call EXCEPT !.todo = Tail(@)]
  BY DEF SetDial, DlockFree
<1>2. call' \in [name : CallNames, todo : Seq(Singles), closed : BOOLEAN]
  BY <1>1, CallShape
<1>3. call'.closed = call.closed /\ call'.name = call.name /\ call'.todo = Tail(call.todo)
  BY <1>1 DEF NetData
<1>4. s \in Singles
  BY <1>1, CallSteps
<1>5. can' \in [NetWays -> BOOLEAN] /\ \A w \in Ways : can'[w] = can[w]
  <2>1. can \in [NetWays -> BOOLEAN] /\ "dial" \in NetWays /\ "dial" \notin Ways /\ Ways \subseteq NetWays
    BY DEF NetData, NetWays, Ways
  <2>2. s.field = "can" => s.val \in BOOLEAN
    BY <1>4, SingleShapes
  <2>3. can' = can \/ \E v \in BOOLEAN : can' = [can EXCEPT !["dial"] = v]
    BY <2>2, Zenon DEF SetDial
  <2>4. QED
    BY <2>1, <2>3
<1>6. limit' \in [NetWays -> DialLimits \cup Limits \cup {0}] /\ \A w \in Ways : limit'[w] = limit[w]
  <2>1. limit \in [NetWays -> DialLimits \cup Limits \cup {0}] /\ "dial" \in NetWays /\ "dial" \notin Ways /\ Ways \subseteq NetWays
    BY DEF NetData, NetWays, Ways
  <2>2. s.field = "limit" => s.val \in DialLimits \cup Limits
    BY <1>4, SingleShapes
  <2>3. limit' = limit \/ \E v \in DialLimits \cup Limits : limit' = [limit EXCEPT !["dial"] = v]
    BY <2>2, Zenon DEF SetDial
  <2>4. QED
    BY <2>1, <2>3
<1>7. NetData'
  BY <1>1, <1>2, <1>5, <1>6 DEF NetData
<1>8. DlockHeld' /\ UsedOnceOpen' /\ NothingMovesWhenOff' /\ DialAllowed'
  BY <1>1, <1>3, <1>5 DEF DlockHeld, UsedOnceOpen, NothingMovesWhenOff, DialAllowed
<1>9. ASSUME call.name = "Disable"
      PROVE  /\ call'.todo = <<SetCan("read", FALSE), SetCan("write", FALSE)>> /\ ~can'["dial"]
  <2>1. call.todo = Disable
    BY <1>1, <1>9, DisableSteps DEF Disabling, Remaining
  <2>2. s.field = "can" /\ s.val = FALSE
    BY <2>1, DisableSteps
  <2>3. can' = [can EXCEPT !["dial"] = FALSE]
    BY <2>2 DEF SetDial
  <2>4. can \in [NetWays -> BOOLEAN] /\ "dial" \in NetWays
    BY DEF NetData, NetWays
  <2>5. QED
    BY <1>3, <2>1, <2>3, <2>4, DisableSteps
<1>10. Disabling'
  <2> DEFINE two == <<SetCan("read", FALSE), SetCan("write", FALSE)>>
  <2>1. two \in Remaining /\ ~(Len(two) < 2)
    BY DisableSteps DEF Remaining
  <2>2. Remaining' = Remaining
    BY DEF Remaining, Disable, SetCan
  <2>3. call'.name = "Disable" => call'.todo = two /\ ~can'["dial"] /\ dialing' = NoConn
    BY <1>1, <1>3, <1>9
  <2> HIDE DEF two
  <2>4. QED
    BY <2>1, <2>2, <2>3 DEF Disabling
<1>11. LimitsFit'
  BY <1>1, <1>6 DEF LimitsFit, Pend, Adds
<1>12. QED
  BY <1>7, <1>8, <1>10, <1>11

\* Every connection is closed before a setter assigns.
LEMMA CloseConnsKeeps == ASSUME NetInv, CloseConns PROVE NetInv'
<1> USE DEF NetInv
<1>1. /\ call.todo # <<>> /\ dialing = NoConn /\ conn' = Closed
      /\ UNCHANGED <<can, limit, count, dialing, io, calls, ios>> /\ call' = [call EXCEPT !.closed = TRUE]
  BY DEF CloseConns, DlockFree
<1>2. call' \in [name : CallNames, todo : Seq(Singles), closed : BOOLEAN]
  BY <1>1, CallShape
<1>3. call'.name = call.name /\ call'.todo = call.todo
  BY <1>1 DEF NetData
<1>4. /\ conn' \in [Conns -> ConnStates]
      /\ \A c \in Conns : /\ conn'[c] # "open"
                          /\ conn[c] # "open" => conn'[c] = conn[c]
                          /\ conn[c] = "open" => conn'[c] = "closed"
  BY <1>1 DEF NetData, Closed, ConnStates
<1>5. NetData'
  BY <1>1, <1>2, <1>4 DEF NetData
<1>6. DlockHeld' /\ UsedOnceOpen' /\ NothingMovesWhenOff' /\ DialAllowed'
  <2>1. \A c \in Conns : conn'[c] = "dialing" <=> conn[c] = "dialing"
    BY <1>4
  <2>2. DlockHeld'
    BY <1>1, <1>3, <1>4, <2>1 DEF DlockHeld
  <2>3. UsedOnceOpen' /\ NothingMovesWhenOff' /\ DialAllowed'
    BY <1>1, <1>4 DEF UsedOnceOpen, NothingMovesWhenOff, DialAllowed, Below
  <2>4. QED
    BY <2>2, <2>3
<1>7. Disabling'
  BY <1>1, <1>3, <1>4 DEF Disabling, Remaining, Disable, SetCan
<1>8. LimitsFit'
  <2>1. (\A c \in Conns : conn'[c] # "closed") => \A c \in Conns : conn[c] # "closed"
    BY <1>4
  <2>2. QED
    BY <1>1, <2>1 DEF LimitsFit, Pend, Adds
<1>9. QED
  BY <1>5, <1>6, <1>7, <1>8

\* An assignment that starts a count again, or leaves it and its limit alone.
LEMMA AssignKeeps ==
  ASSUME NetInv, NEW field, NEW way \in Ways, Assign(field, way),
         can' \in [NetWays -> BOOLEAN], can'["dial"] = can["dial"],
         limit' \in [NetWays -> DialLimits \cup Limits \cup {0}], limit'["dial"] = limit["dial"],
         count' \in [NetWays -> Nat], count'["dial"] = count["dial"],
         \A w \in Ways : count'[w] = 0 \/ (count'[w] = count[w] /\ limit'[w] = limit[w])
  PROVE  NetInv'
<1> USE DEF NetInv
<1>1. /\ call.closed /\ call.todo # <<>> /\ Head(call.todo).way = way /\ UNCHANGED <<dialing, conn, io, calls, ios>>
      /\ call' = [call EXCEPT !.todo = Tail(@), !.closed = FALSE]
  BY DEF Assign, DlockHeld
<1>2. call' \in [name : CallNames, todo : Seq(Singles), closed : BOOLEAN]
  BY <1>1, CallShape
<1>3. call'.name = call.name /\ call'.todo = Tail(call.todo) /\ call'.closed = FALSE
  BY <1>1 DEF NetData
<1>4. dialing = NoConn /\ \A c \in Conns : conn[c] # "open"
  BY <1>1 DEF DlockHeld
<1>5. NetData'
  BY <1>1, <1>2 DEF NetData
<1>6. DlockHeld' /\ UsedOnceOpen' /\ NothingMovesWhenOff' /\ DialAllowed'
  BY <1>1, <1>3, <1>4 DEF DlockHeld, UsedOnceOpen, NothingMovesWhenOff, DialAllowed
<1>7. Disabling'
  <2>1. Remaining' = Remaining /\ <<SetCan("write", FALSE)>> \in Remaining /\ <<>> \in Remaining /\ Disable' = Disable
    BY DEF Remaining, Disable, SetCan
  <2>2. Len(<<>>) = 0 /\ Disable # <<>>
    BY DisableSteps
  <2>3. ASSUME call.name = "Disable"
        PROVE  call.todo # Disable /\ call'.todo \in {<<SetCan("write", FALSE)>>, <<>>}
    <3>1. call.todo # Disable
      BY <1>1, DisableSteps DEF Ways
    <3>2. call.todo \in Remaining \ {Disable, <<>>}
      BY <1>1, <2>3, <3>1 DEF Disabling
    <3>3. \/ call.todo = <<SetCan("read", FALSE), SetCan("write", FALSE)>>
          \/ call.todo = <<SetCan("write", FALSE)>>
      BY <3>2 DEF Remaining
    <3>4. call'.todo = <<SetCan("write", FALSE)>> \/ call'.todo = <<>>
      <4>1. \A a, b : Tail(<<a, b>>) = <<b>>
        OBVIOUS
      <4>2. Tail(<<SetCan("write", FALSE)>>) = <<>>
        BY DisableSteps
      <4>3. QED
        BY <1>3, <3>3, <4>1, <4>2, ZenonT(60)
    <3>5. QED
      BY <3>1, <3>4
  <2>4. QED
    BY <1>1, <1>3, <1>4, <2>1, <2>3 DEF Disabling
<1>8. LimitsFit'
  <2> SUFFICES ASSUME NEW w \in Ways, limit'[w] > 0
               PROVE  /\ FitsIn(Pend(w), Adds(w), count'[w], Max({Buf, limit'[w]}), Buf)
                      /\ (\A c \in Conns : conn[c] # "closed") =>
                             FitsIn(Pend(w), Adds(w), count'[w], limit'[w], Min({Buf, limit'[w]}))
    BY <1>1 DEF LimitsFit, Pend, Adds
  <2>1. CASE count'[w] = count[w] /\ limit'[w] = limit[w]
    BY <2>1 DEF LimitsFit
  <2>2. CASE count'[w] = 0
    <3>1. w \in NetWays /\ limit'[w] \in Nat /\ Buf \in Nat
      <4>1. w \in NetWays /\ DialLimits \cup Limits \cup {0} \subseteq Nat /\ Buf \in Nat
        BY NetCtlAssumption DEF NetWays
      <4>2. QED
        BY <4>1
    <3>2. /\ Max({Buf, limit'[w]}) \in Nat /\ Buf <= Max({Buf, limit'[w]})
          /\ Min({Buf, limit'[w]}) \in Nat /\ Min({Buf, limit'[w]}) <= limit'[w]
      BY <3>1, Pairs
    <3>3. Adds(w) \in [Conns -> Nat] /\ (\A c \in Conns : Adds(w)[c] <= Buf) /\ Pend(w) \subseteq Conns
      BY <3>1 DEF Adds, Pend, NetData, IOsOf
    <3>4. (\A c \in Conns : conn[c] # "closed") => Pend(w) = {}
      BY <1>4 DEF UsedOnceOpen, Pend
    <3>5. FitsIn(Pend(w), Adds(w), 0, Max({Buf, limit'[w]}), Buf)
      BY <3>1, <3>2, <3>3, FitsReset
    <3>6. (\A c \in Conns : conn[c] # "closed") => FitsIn(Pend(w), Adds(w), 0, limit'[w], Min({Buf, limit'[w]}))
      BY <3>1, <3>2, <3>3, <3>4, FitsReset
    <3>7. QED
      BY <2>2, <3>5, <3>6
  <2>3. QED
    BY <2>1, <2>2
<1>9. QED
  BY <1>5, <1>6, <1>7, <1>8

LEMMA AssignsKeep ==
  ASSUME NetInv, SetCanRead \/ SetReadLimit \/ SetReadSpeed \/ SetCanWrite \/ SetWriteLimit \/ SetWriteSpeed
  PROVE  NetInv'
<1>1. /\ can \in [NetWays -> BOOLEAN] /\ limit \in [NetWays -> DialLimits \cup Limits \cup {0}] /\ count \in [NetWays -> Nat]
      /\ Ways \subseteq NetWays /\ "dial" \notin Ways /\ {"read", "write"} \subseteq Ways
  BY DEF NetInv, NetData, NetWays, Ways
<1>2. ASSUME NEW way \in Ways, Assign("can", way), can' = [can EXCEPT ![way] = Head(call.todo).val], UNCHANGED <<limit, count>>
      PROVE  NetInv'
  <2>1. Head(call.todo).val \in BOOLEAN
    BY <1>2, CallSteps, SingleShapes DEF Assign, NetInv, DlockHeld
  <2>2. can' \in [NetWays -> BOOLEAN] /\ can'["dial"] = can["dial"]
    BY <1>1, <1>2, <2>1
  <2>3. QED
    BY <1>1, <1>2, <2>2, AssignKeeps
<1>3. ASSUME NEW way \in Ways, Assign("limit", way), limit' = [limit EXCEPT ![way] = Head(call.todo).val],
             count' = [count EXCEPT ![way] = 0], UNCHANGED can
      PROVE  NetInv'
  <2>1. Head(call.todo).val \in DialLimits \cup Limits
    BY <1>3, CallSteps, SingleShapes DEF Assign, NetInv, DlockHeld
  <2>2. limit' \in [NetWays -> DialLimits \cup Limits \cup {0}] /\ \A w \in NetWays \ {way} : limit'[w] = limit[w]
    BY <1>1, <1>3, <2>1
  <2>3. count' \in [NetWays -> Nat] /\ count'[way] = 0 /\ \A w \in NetWays \ {way} : count'[w] = count[w]
    BY <1>1, <1>3
  <2>4. "dial" \in NetWays \ {way}
    BY <1>1 DEF NetWays
  <2>5. QED
    BY <1>1, <1>3, <2>2, <2>3, <2>4, AssignKeeps
<1>4. ASSUME NEW way \in Ways, Assign("speed", way), UNCHANGED <<can, limit, count>>
      PROVE  NetInv'
  BY <1>1, <1>4, AssignKeeps
<1>5. QED
  BY <1>1, <1>2, <1>3, <1>4 DEF SetCanRead, SetReadLimit, SetReadSpeed, SetCanWrite, SetWriteLimit, SetWriteSpeed

-----------------------------------------------------------------------------
(* The connections. *)

\* A dial passes its check and holds dlock.
LEMMA DialKeeps == ASSUME NetInv, NEW c \in Conns, Dial(c) PROVE NetInv'
<1> USE DEF NetInv
<1>1. /\ conn[c] = "new" /\ dialing = NoConn /\ ~call.closed /\ can["dial"] /\ Below("dial")
      /\ conn' = [conn EXCEPT ![c] = "dialing"] /\ dialing' = c
      /\ UNCHANGED <<can, limit, count, io, call, calls, ios>>
  BY DEF Dial, DlockFree
<1>2. /\ conn' \in [Conns -> ConnStates] /\ conn'[c] = "dialing" /\ \A d \in Conns \ {c} : conn'[d] = conn[d]
  BY <1>1 DEF NetData, ConnStates
<1>3. \A d \in Conns : d # NoConn
  BY NetCtlAssumption
<1>4. NetData'
  BY <1>1, <1>2 DEF NetData
<1>5. DlockHeld'
  BY <1>1, <1>2, <1>3 DEF DlockHeld
<1>6. UsedOnceOpen' /\ NothingMovesWhenOff' /\ DialAllowed'
  BY <1>1, <1>2 DEF UsedOnceOpen, NothingMovesWhenOff, DialAllowed, Below
<1>7. Disabling'
  <2>1. Remaining' = Remaining /\ Disable' = Disable /\ ~(Len(Disable) < 2)
    BY DisableSteps DEF Remaining, Disable, SetCan
  <2>2. call.name = "Disable" => call.todo = Disable
    BY <1>1 DEF Disabling
  <2>3. QED
    BY <1>1, <2>1, <2>2 DEF Disabling
<1>8. LimitsFit'
  <2>1. (\A d \in Conns : conn'[d] # "closed") => \A d \in Conns : conn[d] # "closed"
    BY <1>1, <1>2
  <2>2. QED
    BY <1>1, <2>1 DEF LimitsFit, Pend, Adds
<1>9. QED
  BY <1>4, <1>5, <1>6, <1>7, <1>8

\* The connection is there, or it is not.
LEMMA DialledKeeps == ASSUME NetInv, NEW c \in Conns, Dialled(c) PROVE NetInv'
<1> USE DEF NetInv
<1>1. /\ conn[c] = "dialing" /\ dialing' = NoConn /\ UNCHANGED <<can, limit, io, call, calls, ios>>
      /\ count' = [count EXCEPT !["dial"] = @ + 1] \/ UNCHANGED count
      /\ \E s \in {"open", "failed"} : conn' = [conn EXCEPT ![c] = s]
  BY DEF Dialled
<1>2. /\ conn' \in [Conns -> ConnStates] /\ conn'[c] \in {"open", "failed"} /\ \A d \in Conns \ {c} : conn'[d] = conn[d]
  BY <1>1 DEF NetData, ConnStates
<1>3. dialing = c /\ c # NoConn /\ ~call.closed
  BY <1>1, NetCtlAssumption DEF DlockHeld
<1>4. count' \in [NetWays -> Nat] /\ \A w \in Ways : count'[w] = count[w]
  <2>1. count \in [NetWays -> Nat] /\ "dial" \in NetWays /\ "dial" \notin Ways /\ Ways \subseteq NetWays
    BY DEF NetData, NetWays, Ways
  <2>2. QED
    BY <1>1, <2>1
<1>5. NetData'
  BY <1>1, <1>2, <1>4 DEF NetData
<1>6. DlockHeld'
  BY <1>1, <1>2, <1>3, NetCtlAssumption DEF DlockHeld
<1>7. UsedOnceOpen' /\ NothingMovesWhenOff' /\ DialAllowed'
  <2>1. \A w \in Ways : io[c][w].at = "idle"
    BY <1>1 DEF UsedOnceOpen
  <2>2. QED
    BY <1>1, <1>2, <2>1 DEF UsedOnceOpen, NothingMovesWhenOff, DialAllowed
<1>8. Disabling'
  <2>1. Remaining' = Remaining /\ Disable' = Disable /\ ~(Len(Disable) < 2)
    BY DisableSteps DEF Remaining, Disable, SetCan
  <2>2. call.name = "Disable" => call.todo = Disable
    BY <1>3 DEF Disabling
  <2>3. QED
    BY <1>1, <2>1, <2>2 DEF Disabling
<1>9. LimitsFit'
  <2>1. (\A d \in Conns : conn'[d] # "closed") => \A d \in Conns : conn[d] # "closed"
    BY <1>1, <1>2
  <2>2. QED
    BY <1>1, <1>4, <2>1 DEF LimitsFit, Pend, Adds
<1>10. QED
  BY <1>5, <1>6, <1>7, <1>8, <1>9
LEMMA IOSet ==
  ASSUME NetData, NEW c \in Conns, NEW w \in Ways, NEW r \in IOsOf, io' = [io EXCEPT ![c][w] = r]
  PROVE  /\ io' \in [Conns -> [Ways -> IOsOf]] /\ io'[c][w] = r
         /\ \A d \in Conns, v \in Ways : <<d, v>> # <<c, w>> => io'[d][v] = io[d][v]
<1>1. io \in [Conns -> [Ways -> IOsOf]]
  BY DEF NetData
<1>2. QED
  BY <1>1

\* The step of a Read or Write that touches no connection.
LEMMA IOKeeps ==
  ASSUME NetInv, NEW c \in Conns, NEW w \in Ways, NEW r \in IOsOf, io' = [io EXCEPT ![c][w] = r],
         UNCHANGED <<can, limit, dialing, conn, call, calls>>,
         ios' \in 0 .. MaxIO, count' \in [NetWays -> Nat], \A v \in NetWays \ {w} : count'[v] = count[v],
         conn[c] \notin {"open", "closed"} => r.at = "idle",
         r.at = "io" /\ conn[c] = "open" => can[w],
         \A top, m \in Nat :
            limit[w] > 0 /\ m <= Buf /\ limit[w] <= top /\ (m = Buf \/ m = limit[w])
              /\ FitsIn(Pend(w), Adds(w), count[w], top, m)
            => FitsIn(Pend(w)', Adds(w)', count'[w], top, m)
  PROVE  NetInv'
<1> USE DEF NetInv
<1>1. /\ io' \in [Conns -> [Ways -> IOsOf]] /\ io'[c][w] = r
      /\ \A d \in Conns, v \in Ways : <<d, v>> # <<c, w>> => io'[d][v] = io[d][v]
  BY IOSet, ZenonT(60)
<1>2. NetData'
  BY <1>1 DEF NetData
<1>3. DlockHeld'
  BY DEF DlockHeld
<1>4. UsedOnceOpen'
  BY <1>1 DEF UsedOnceOpen
<1>5. NothingMovesWhenOff'
  BY <1>1 DEF NothingMovesWhenOff
<1>6. w \in NetWays /\ "dial" \in NetWays \ {w}
  BY DEF NetWays, Ways
<1>7. DialAllowed'
  BY <1>6 DEF DialAllowed, Below
<1>8. Disabling'
  BY DEF Disabling, Remaining, Disable, SetCan
<1>9. LimitsFit'
  <2> SUFFICES ASSUME NEW v \in Ways, limit[v] > 0
               PROVE  /\ FitsIn(Pend(v)', Adds(v)', count'[v], Max({Buf, limit[v]}), Buf)
                      /\ (\A d \in Conns : conn[d] # "closed") =>
                             FitsIn(Pend(v)', Adds(v)', count'[v], limit[v], Min({Buf, limit[v]}))
    BY DEF LimitsFit
  <2>1. CASE v # w
    <3>1. Pend(v)' = Pend(v) /\ Adds(v)' = Adds(v) /\ count'[v] = count[v]
      BY <1>1, <2>1 DEF Pend, Adds, NetWays
    <3>2. QED
      BY <3>1 DEF LimitsFit
  <2>2. CASE v = w
    <3>1. limit[w] \in Nat /\ Buf \in Nat
      <4>1. DialLimits \cup Limits \cup {0} \subseteq Nat /\ Buf \in Nat /\ limit[w] \in DialLimits \cup Limits \cup {0}
        BY <1>6, NetCtlAssumption DEF NetData
      <4>2. QED
        BY <4>1
    <3>2. /\ Max({Buf, limit[w]}) \in Nat /\ limit[w] <= Max({Buf, limit[w]})
          /\ Min({Buf, limit[w]}) \in Nat /\ Min({Buf, limit[w]}) <= Buf
          /\ Min({Buf, limit[w]}) = Buf \/ Min({Buf, limit[w]}) = limit[w]
      BY <3>1, Pairs
    <3>3. FitsIn(Pend(w)', Adds(w)', count'[w], Max({Buf, limit[w]}), Buf)
      BY <2>2, <3>1, <3>2 DEF LimitsFit
    <3>4. (\A d \in Conns : conn[d] # "closed") => FitsIn(Pend(w)', Adds(w)', count'[w], limit[w], Min({Buf, limit[w]}))
      BY <2>2, <3>1, <3>2 DEF LimitsFit
    <3>5. QED
      BY <2>2, <3>3, <3>4
  <2>3. QED
    BY <2>1, <2>2
<1>10. QED
  BY <1>2, <1>3, <1>4, <1>5, <1>7, <1>8, <1>9
\* What such a step makes of the Reads or Writes that may add to the count.
LEMMA IOAdds ==
  ASSUME NetData, NEW c \in Conns, NEW w \in Ways, NEW r \in IOsOf, io' = [io EXCEPT ![c][w] = r]
  PROVE  /\ Adds(w) \in [Conns -> Nat] /\ Adds(w)' \in [Conns -> Nat]
         /\ Adds(w)[c] = io[c][w].n /\ Adds(w)'[c] = r.n /\ \A d \in Conns \ {c} : Adds(w)'[d] = Adds(w)[d]
         /\ Pend(w) \subseteq Conns
         /\ Pend(w)' = IF r.at = "idle" THEN Pend(w) \ {c} ELSE Pend(w) \cup {c}
<1>1. /\ io' \in [Conns -> [Ways -> IOsOf]] /\ io'[c][w] = r
      /\ \A d \in Conns, v \in Ways : <<d, v>> # <<c, w>> => io'[d][v] = io[d][v]
  BY IOSet, ZenonT(60)
<1>2. io \in [Conns -> [Ways -> IOsOf]] /\ \A i \in IOsOf : i.n \in Nat
  BY NetCtlAssumption DEF NetData, IOsOf
<1>3. \A d \in Conns \ {c} : io'[d][w] = io[d][w]
  BY <1>1
<1>4. Adds(w) \in [Conns -> Nat] /\ Adds(w)' \in [Conns -> Nat]
  BY <1>1, <1>2 DEF Adds
<1>5. Adds(w)[c] = io[c][w].n /\ Adds(w)'[c] = r.n /\ \A d \in Conns \ {c} : Adds(w)'[d] = Adds(w)[d]
  BY <1>1, <1>3 DEF Adds
<1>6. Pend(w)' = IF r.at = "idle" THEN Pend(w) \ {c} ELSE Pend(w) \cup {c}
  BY <1>1, <1>3 DEF Pend
<1>7. QED
  BY <1>4, <1>5, <1>6 DEF Pend

\* A Read or Write passes its check, cut to what the limit leaves.
LEMMA CheckKeeps == ASSUME NetInv, NEW c \in Conns, NEW w \in Ways, Check(c, w) PROVE NetInv'
<1> DEFINE r == [at |-> "io", n |-> Rem(w)]
<1>1. /\ conn[c] \in {"open", "closed"} /\ io[c][w].at = "idle" /\ can[w] /\ Below(w) /\ io' = [io EXCEPT ![c][w] = r]
      /\ UNCHANGED <<can, limit, count, dialing, conn, call, calls>>
  BY DEF Check
<1>2. ios' \in 0 .. MaxIO
  BY NetCtlAssumption DEF Check, NetInv, NetData
<1>3. /\ Buf \in Nat \ {0} /\ limit[w] \in Nat /\ count[w] \in Nat /\ w \in NetWays
  <2>1. /\ DialLimits \cup Limits \cup {0} \subseteq Nat /\ w \in NetWays /\ count[w] \in Nat
        /\ limit[w] \in DialLimits \cup Limits \cup {0}
    BY NetCtlAssumption DEF NetInv, NetData, NetWays
  <2>2. QED
    BY <2>1, NetCtlAssumption
<1>4. /\ Rem(w) \in 0 .. Buf
      /\ limit[w] > 0 => Rem(w) <= limit[w] /\ count[w] + Rem(w) <= limit[w]
  BY <1>1, <1>3 DEF Rem, Below
<1>5. r \in IOsOf /\ r.at = "io" /\ r.n = Rem(w)
  BY <1>4 DEF IOsOf
<1> HIDE DEF r
<1>6. ASSUME NEW top \in Nat, NEW m \in Nat, limit[w] > 0, limit[w] <= top, m = Buf \/ m = limit[w],
             FitsIn(Pend(w), Adds(w), count[w], top, m)
      PROVE  FitsIn(Pend(w)', Adds(w)', count'[w], top, m)
  <2>1. c \in Conns \ Pend(w)
    BY <1>1 DEF Pend
  <2>2. /\ Adds(w) \in [Conns -> Nat] /\ Adds(w)' \in [Conns -> Nat] /\ Pend(w) \subseteq Conns
        /\ Adds(w)'[c] = Rem(w) /\ \A d \in Conns \ {c} : Adds(w)'[d] = Adds(w)[d]
        /\ Pend(w)' = Pend(w) \cup {c}
    BY <1>1, <1>5, IOAdds DEF NetInv
  <2>3. Rem(w) <= m /\ count[w] + Rem(w) <= top /\ count'[w] = count[w]
    BY <1>1, <1>3, <1>4, <1>6
  <2>4. \A d \in Pend(w) : Adds(w)'[d] = Adds(w)[d]
    BY <2>1, <2>2
  <2>5. FitsIn(Pend(w) \cup {c}, Adds(w)', count[w], top, m)
    BY <1>3, <1>6, <2>1, <2>2, <2>3, <2>4, FitsCheck
  <2>6. QED
    BY <2>2, <2>3, <2>5
<1>7. count' \in [NetWays -> Nat] /\ \A v \in NetWays \ {w} : count'[v] = count[v]
  BY <1>1 DEF NetInv, NetData
<1>8. QED
  BY <1>1, <1>2, <1>5, <1>6, <1>7, IOKeeps

\* Some of the bytes move, or none once the connection is closed.
LEMMA MoveKeeps == ASSUME NetInv, NEW c \in Conns, NEW w \in Ways, Move(c, w) PROVE NetInv'
<1>1. io[c][w] \in IOsOf /\ io[c][w].n \in 0 .. Buf /\ Buf \in Nat /\ io[c][w].at = "io"
  BY NetCtlAssumption DEF Move, NetInv, NetData, IOsOf
<1>2. PICK n \in 0 .. io[c][w].n : io' = [io EXCEPT ![c][w] = [at |-> "moved", n |-> n]]
  <2>1. PICK n \in IF conn[c] = "open" THEN 1 .. io[c][w].n ELSE {0} : io' = [io EXCEPT ![c][w] = [at |-> "moved", n |-> n]]
    BY DEF Move
  <2>2. n \in 0 .. io[c][w].n
    BY <1>1
  <2>3. QED
    BY <2>1, <2>2
<1> DEFINE r == [at |-> "moved", n |-> n]
<1>3. r \in IOsOf /\ r.at = "moved" /\ r.n = n
  BY <1>1 DEF IOsOf
<1>4. UNCHANGED <<can, limit, count, dialing, conn, call, calls, ios>> /\ io' = [io EXCEPT ![c][w] = r]
  BY <1>2 DEF Move
<1> HIDE DEF r
<1>5. conn[c] \in {"open", "closed"}
  BY <1>1 DEF NetInv, UsedOnceOpen
<1>6. count \in [NetWays -> Nat] /\ w \in NetWays /\ ios \in 0 .. MaxIO
  BY DEF NetInv, NetData, NetWays
<1>7. ASSUME NEW top \in Nat, NEW m \in Nat, FitsIn(Pend(w), Adds(w), count[w], top, m)
      PROVE  FitsIn(Pend(w)', Adds(w)', count'[w], top, m)
  <2>1. c \in Pend(w)
    BY <1>1 DEF Pend
  <2>2. /\ Adds(w) \in [Conns -> Nat] /\ Adds(w)' \in [Conns -> Nat] /\ Pend(w) \subseteq Conns
        /\ Adds(w)[c] = io[c][w].n /\ Adds(w)'[c] = n /\ \A d \in Conns \ {c} : Adds(w)'[d] = Adds(w)[d]
        /\ Pend(w)' = Pend(w) \cup {c}
    BY <1>3, <1>4, IOAdds, ZenonT(60) DEF NetInv
  <2>3. \A d \in Pend(w) : Adds(w)'[d] <= Adds(w)[d]
    <3>1. \A d \in Pend(w) : Adds(w)[d] \in Nat
      BY <2>2
    <3>2. n <= io[c][w].n
      BY <1>1
    <3>3. QED
      BY <2>2, <3>1, <3>2
  <2>4. Pend(w)' = Pend(w) /\ count'[w] = count[w] /\ count[w] \in Nat
    BY <1>4, <1>6, <2>1, <2>2
  <2>5. FitsIn(Pend(w), Adds(w)', count[w], top, m)
    BY <1>7, <2>2, <2>3, <2>4, FitsMove
  <2>6. QED
    BY <2>4, <2>5
<1>8. QED
  BY <1>3, <1>4, <1>5, <1>6, <1>7, IOKeeps

\* What moved is counted, whatever the limit is by now.
LEMMA CountKeeps == ASSUME NetInv, NEW c \in Conns, NEW w \in Ways, Count(c, w) PROVE NetInv'
<1>1. io[c][w] \in IOsOf /\ io[c][w].n \in Nat /\ io[c][w].at = "moved"
  BY NetCtlAssumption DEF Count, NetInv, NetData, IOsOf
<1>2. NoIO \in IOsOf /\ NoIO.at = "idle"
  BY NetCtlAssumption DEF NoIO, IOsOf
<1>3. /\ UNCHANGED <<can, limit, dialing, conn, call, calls, ios>> /\ io' = [io EXCEPT ![c][w] = NoIO]
      /\ count' = [count EXCEPT ![w] = @ + io[c][w].n]
  BY DEF Count
<1>4. count \in [NetWays -> Nat] /\ w \in NetWays /\ ios \in 0 .. MaxIO
  BY DEF NetInv, NetData, NetWays
<1>5. /\ count' \in [NetWays -> Nat] /\ count'[w] = count[w] + io[c][w].n
      /\ \A v \in NetWays \ {w} : count'[v] = count[v]
  BY <1>1, <1>3, <1>4
<1>6. ASSUME NEW top \in Nat, NEW m \in Nat, FitsIn(Pend(w), Adds(w), count[w], top, m)
      PROVE  FitsIn(Pend(w)', Adds(w)', count'[w], top, m)
  <2>1. c \in Pend(w)
    BY <1>1 DEF Pend
  <2>2. /\ Adds(w) \in [Conns -> Nat] /\ Adds(w)' \in [Conns -> Nat] /\ Pend(w) \subseteq Conns
        /\ Adds(w)[c] = io[c][w].n /\ \A d \in Conns \ {c} : Adds(w)'[d] = Adds(w)[d]
        /\ Pend(w)' = Pend(w) \ {c}
    BY <1>2, <1>3, IOAdds, ZenonT(60) DEF NetInv
  <2>3. count[w] \in Nat /\ \A d \in Pend(w) \ {c} : Adds(w)'[d] = Adds(w)[d]
    BY <1>4, <2>2
  <2>4. FitsIn(Pend(w) \ {c}, Adds(w)', count[w] + Adds(w)[c], top, m)
    BY <1>6, <2>1, <2>2, <2>3, FitsCount
  <2>5. QED
    BY <1>5, <2>2, <2>4
<1>7. QED
  BY <1>2, <1>3, <1>4, <1>5, <1>6, IOKeeps

LEMMA NetInvNext == NetInv /\ [NetNext]_netVars => NetInv'
<1>1. ASSUME NetInv, UNCHANGED netVars PROVE NetInv'
  <2>1. NetData' /\ DlockHeld' /\ UsedOnceOpen' /\ NothingMovesWhenOff' /\ DialAllowed'
    BY <1>1 DEF netVars, NetInv, NetData, DlockHeld, UsedOnceOpen, NothingMovesWhenOff, DialAllowed, Below
  <2>2. Disabling'
    BY <1>1 DEF netVars, NetInv, Disabling, Remaining, Disable, SetCan
  <2>3. LimitsFit'
    BY <1>1 DEF netVars, NetInv, LimitsFit, Pend, Adds
  <2>4. QED
    BY <2>1, <2>2, <2>3 DEF NetInv
<1>2. QED
  BY <1>1, CallSetterKeeps, SetDialKeeps, CloseConnsKeeps, AssignsKeep, DialKeeps, DialledKeeps,
     CheckKeeps, MoveKeeps, CountKeeps
     DEF NetNext, Setter

\* For any number of connections, buffer, limits and calls: what is switched off
\* moves not a byte more, the counts exceed the limits by what concurrent Reads
\* and Writes checked together at most, the dial limit by nothing, and after
\* Disable no connection is left.
THEOREM NetCtlIsObeyed == NetSpec => NetObeys
<1>1. NetInv => NetTypeOK
  <2> SUFFICES ASSUME NetInv PROVE NetTypeOK
    OBVIOUS
  <2>1. call.todo \in Seq(Singles)
    BY DEF NetInv, NetData
  <2>2. io \in [Conns -> [Ways -> [at : {"idle", "io", "moved"}, n : 0 .. Buf]]]
    BY DEF NetInv, NetData, IOsOf
  <2>3. QED
    BY <2>1, <2>2 DEF NetInv, NetData, DlockHeld, NetWays, ConnStates, NetTypeOK
<1>2. NetInv => OvershootBounded
  <2> SUFFICES ASSUME NetInv, NEW w \in Ways, limit[w] > 0
               PROVE  count[w] <= IF \A c \in Conns : conn[c] # "closed"
                                  THEN limit[w] + (Cardinality(Conns) - 1) * Min({Buf, limit[w]})
                                  ELSE Max({Buf, limit[w]}) + (Cardinality(Conns) - 1) * Buf
    BY DEF OvershootBounded
  <2>1. /\ DialLimits \cup Limits \cup {0} \subseteq Nat /\ Buf \in Nat /\ w \in NetWays
        /\ limit[w] \in DialLimits \cup Limits \cup {0} /\ count[w] \in Nat
    BY NetCtlAssumption DEF NetInv, NetData, NetWays
  <2>2. limit[w] \in Nat
    BY <2>1
  <2>3. Max({Buf, limit[w]}) \in Nat /\ Min({Buf, limit[w]}) \in Nat
    BY <2>1, <2>2, Pairs
  <2>4. Pend(w) \subseteq Conns /\ Adds(w) \in [Conns -> Nat]
    BY NetCtlAssumption DEF NetInv, NetData, Pend, Adds, IOsOf
  <2>5. count[w] <= Max({Buf, limit[w]}) + (NConns - 1) * Buf
    BY <2>1, <2>3, <2>4, FitsBound DEF NetInv, LimitsFit
  <2>6. (\A c \in Conns : conn[c] # "closed") => count[w] <= limit[w] + (NConns - 1) * Min({Buf, limit[w]})
    BY <2>1, <2>2, <2>3, <2>4, FitsBound DEF NetInv, LimitsFit
  <2>7. QED
    BY <2>5, <2>6 DEF NConns
<1>3. NetInv => DisabledIsDark
  <2> SUFFICES ASSUME NetInv, call.name = "Disable", call.todo = <<>>, NEW c \in Conns
               PROVE  conn[c] \notin {"dialing", "open"}
    BY DEF DisabledIsDark
  <2>1. Len(call.todo) = 0 /\ call.todo # Disable
    BY DisableSteps
  <2>2. dialing = NoConn /\ conn[c] # "open"
    BY <2>1 DEF NetInv, Disabling
  <2>3. QED
    BY <2>2, NetCtlAssumption DEF NetInv, DlockHeld
<1>4. NetInv /\ [NetNext]_netVars => [count'["dial"] > count["dial"] => Below("dial")]_netVars
  <2> SUFFICES ASSUME NetInv, NetNext, count'["dial"] > count["dial"] PROVE Below("dial")
    BY DEF netVars
  <2>1. count["dial"] \in Nat /\ "dial" \in NetWays /\ count \in [NetWays -> Nat] /\ "dial" \notin Ways
    BY DEF NetInv, NetData, NetWays, Ways
  <2>2. count'["dial"] # count["dial"]
    BY <2>1
  <2>3. PICK c \in Conns : Dialled(c)
    <3>1. ASSUME NEW w \in Ways, NEW k, count' = [count EXCEPT ![w] = k] PROVE FALSE
      BY <2>1, <2>2, <3>1
    <3>2. "read" \in Ways /\ "write" \in Ways
      BY DEF Ways
    <3>3. ~CallSetter /\ ~SetDial /\ ~CloseConns /\ ~SetCanRead /\ ~SetReadSpeed /\ ~SetCanWrite /\ ~SetWriteSpeed
      BY <2>2 DEF CallSetter, SetDial, CloseConns, SetCanRead, SetReadSpeed, SetCanWrite, SetWriteSpeed
    <3>4. ~SetReadLimit /\ ~SetWriteLimit
      <4>1. SetReadLimit => count' = [count EXCEPT !["read"] = 0]
        BY DEF SetReadLimit
      <4>2. SetWriteLimit => count' = [count EXCEPT !["write"] = 0]
        BY DEF SetWriteLimit
      <4>3. QED
        BY <3>1, <3>2, <4>1, <4>2, Zenon
    <3>5. ASSUME NEW c \in Conns, NEW w \in Ways PROVE ~Check(c, w) /\ ~Move(c, w) /\ ~Count(c, w)
      <4>1. ~Check(c, w) /\ ~Move(c, w)
        BY <2>2 DEF Check, Move
      <4>2. Count(c, w) => count' = [count EXCEPT ![w] = count[w] + io[c][w].n]
        BY DEF Count
      <4>3. QED
        BY <3>1, <4>1, <4>2, Zenon
    <3>6. \A c \in Conns : ~Dial(c)
      BY <2>2 DEF Dial
    <3>7. QED
      BY <3>3, <3>4, <3>5, <3>6 DEF NetNext, Setter
  <2>4. dialing # NoConn
    BY <2>3, NetCtlAssumption DEF Dialled, NetInv, DlockHeld
  <2>5. QED
    BY <2>4 DEF NetInv, DialAllowed
<1>5. QED
  BY <1>1, <1>2, <1>3, <1>4, NetInvInit, NetInvNext, PTL DEF NetSpec, NetObeys, NetInv, DialLimitExact

-----------------------------------------------------------------------------
(* The rate limit. *)

SenderStates == {"sending", "served", "refused"}
SendersOf == [at : SenderStates, due : Nat, tries : 0 .. Attempts, refused : Int, jitter : Nat, cut : BOOLEAN]
Passes == [who : Senders, time : Nat, left : Int]

\* The requests that were let through in the window that starts at s, but for those
\* that came at its very end.
In(s) == {q \in passed : q.left > 0 /\ q.time \in s .. s + Window}

RateData ==
    /\ clock \in 0 .. LastTick
    /\ limiter \in [count : Nat, nextReset : Int]
    /\ limiter.nextReset \in -1 .. LastTick + Window
    /\ limiter.nextReset = -1 \/ limiter.nextReset <= clock + Window
    /\ sender \in [Senders -> SendersOf]
    /\ \A s \in Senders : sender[s].at = "sending" => sender[s].tries < Attempts
    /\ passed \subseteq Passes /\ IsFiniteSet(passed)
    /\ \A p \in passed : p.left >= -1

\* Who is to come again comes when the window is over, but for the rounding and the longest wait.
InTime(who) == who.jitter = 0 \/ who.due > who.refused \/ (who.cut /\ Window >= MaxWait)

WaitsItsTurn == \A s \in Senders : InTime(sender[s])

\* The windows there were: they are apart, whatever was let through was so in one
\* of them, in none of them more than the limit, and the last is the limiter's.
Windows(S) ==
    /\ S \subseteq Nat
    /\ \A s, r \in S : s < r => s + Window < r
    /\ \A q \in passed : \E s \in S : q.time \in s .. s + Window
    /\ \A s \in S : s + Window <= limiter.nextReset /\ Cardinality(In(s)) <= Limit
    /\ limiter.nextReset # -1 => limiter.nextReset - Window \in S
    /\ Cardinality(In(limiter.nextReset - Window)) <= limiter.count

RateInv == RateData /\ WaitsItsTurn /\ \E S \in SUBSET Nat : Windows(S)

LEMMA RateInvInit == RateInit => RateInv
<1> SUFFICES ASSUME RateInit PROVE RateInv
  OBVIOUS
<1> USE RateAssumption DEF RateInit
<1>1. \A s \in Senders : sender[s] \in [at : {"sending"}, due : {0}, tries : {0}, refused : {-1}, jitter : {0}, cut : {FALSE}]
  OBVIOUS
<1>2. \A s \in Senders : sender[s] \in SendersOf /\ sender[s].tries = 0 /\ sender[s].jitter = 0
  <2> SUFFICES ASSUME NEW x \in [at : {"sending"}, due : {0}, tries : {0}, refused : {-1}, jitter : {0}, cut : {FALSE}]
               PROVE  x \in SendersOf /\ x.tries = 0 /\ x.jitter = 0
    BY <1>1, Zenon
  <2>1. /\ x.at \in SenderStates /\ x.due \in Nat /\ x.tries \in 0 .. Attempts
        /\ x.refused \in Int /\ x.jitter \in Nat /\ x.tries = 0 /\ x.jitter = 0
    BY DEF SenderStates
  <2>2. x.cut \in BOOLEAN
    BY Zenon
  <2>3. x = [at |-> x.at, due |-> x.due, tries |-> x.tries, refused |-> x.refused, jitter |-> x.jitter, cut |-> x.cut]
    OBVIOUS
  <2>4. QED
    BY <2>1, <2>2, <2>3, Zenon DEF SendersOf
<1>3. sender \in [Senders -> SendersOf]
  <2>1. sender \in [Senders -> [at : {"sending"}, due : {0}, tries : {0}, refused : {-1}, jitter : {0}, cut : {FALSE}]]
    OBVIOUS
  <2>2. QED
    BY <1>2, <2>1
<1>4. limiter \in [count : Nat, nextReset : Int] /\ limiter.nextReset = -1 /\ limiter.count = 0
  OBVIOUS
<1>5. RateData
  BY <1>2, <1>3, <1>4, FS_EmptySet DEF RateData
<1>6. WaitsItsTurn
  BY <1>2 DEF WaitsItsTurn, InTime
<1>7. Windows({})
  <2>1. In(limiter.nextReset - Window) = {} /\ Cardinality({}) = 0
    BY FS_EmptySet DEF In
  <2>2. QED
    BY <1>4, <2>1 DEF Windows
<1>8. QED
  BY <1>5, <1>6, <1>7 DEF RateInv

LEMMA TickKeeps == ASSUME RateInv, Tick PROVE RateInv'
<1>1. clock' = clock + 1 /\ clock < LastTick /\ UNCHANGED <<limiter, sender, passed>>
  BY DEF Tick
<1>2. RateData'
  BY <1>1, RateAssumption DEF RateInv, RateData
<1>3. WaitsItsTurn'
  BY <1>1 DEF RateInv, WaitsItsTurn
<1>4. (\E S \in SUBSET Nat : Windows(S))'
  BY <1>1 DEF RateInv, Windows, In
<1>5. QED
  BY <1>2, <1>3, <1>4 DEF RateInv

\* What exceeded makes of the limiter.
LEMMA CountedFacts ==
  ASSUME RateData, limiter' = Counted(clock)
  PROVE  /\ limiter' \in [count : Nat, nextReset : Int]
         /\ limiter'.nextReset \in 0 .. LastTick + Window /\ clock <= limiter'.nextReset /\ limiter'.nextReset <= clock + Window
         /\ Over(clock) => limiter'.count = 1 /\ limiter'.nextReset = clock + Window
         /\ ~Over(clock) => /\ limiter'.count = limiter.count + 1 /\ limiter'.nextReset = limiter.nextReset
                            /\ limiter.nextReset # -1
<1>1. /\ clock \in Nat /\ clock <= LastTick /\ limiter \in [count : Nat, nextReset : Int]
      /\ Window \in Nat \ {0} /\ LastTick \in Nat
  BY RateAssumption DEF RateData
<1>2. CASE Over(clock)
  <2>1. limiter' = [count |-> 1, nextReset |-> clock + Window]
    BY <1>2 DEF Counted
  <2>2. QED
    BY <1>1, <1>2, <2>1
<1>3. CASE ~Over(clock)
  <2>1. limiter' = [limiter EXCEPT !.count = limiter.count + 1]
    BY <1>3 DEF Counted
  <2>2. limiter' \in [count : Nat, nextReset : Int] /\ limiter'.count = limiter.count + 1 /\ limiter'.nextReset = limiter.nextReset
    BY <1>1, <2>1
  <2>3. clock <= limiter.nextReset
    BY <1>1, <1>3 DEF Over
  <2>4. limiter.nextReset # -1 /\ limiter.nextReset <= clock + Window
    BY <1>1, <2>3 DEF RateData
  <2>5. QED
    BY <1>1, <1>3, <2>2, <2>3, <2>4
<1>4. QED
  BY <1>2, <1>3

\* What becomes of a request.
LEMMA ArriveFacts ==
  ASSUME RateData, NEW s \in Senders, Arrive(s)
  PROVE  \E later \in {0, 1} :
           /\ clock' = clock + later /\ clock' <= LastTick /\ limiter' = Counted(clock)
           /\ \/ /\ passed' = passed \cup {[who |-> s, time |-> clock, left |-> limiter'.nextReset - clock']}
                 /\ limiter'.nextReset - clock' > 0 => limiter'.count <= Limit
                 /\ sender' = [sender EXCEPT ![s].at = "served", ![s].tries = @ + 1]
              \/ /\ passed' = passed /\ limiter'.nextReset - clock' > 0
                 /\ \/ sender' = [sender EXCEPT ![s].at = "refused", ![s].tries = @ + 1]
                    \/ /\ sender[s].tries + 1 # Attempts
                       /\ \E j \in Jitters :
                             sender' = [sender EXCEPT
                                 ![s].due = clock' + WaitFor(limiter'.nextReset - clock', j), ![s].tries = @ + 1,
                                 ![s].refused = limiter'.nextReset, ![s].jitter = j,
                                 ![s].cut = IsCut(limiter'.nextReset - clock', j)]
<1>1. limiter' \in [count : Nat, nextReset : Int] /\ Limit \in Nat /\ clock \in Nat
  <2>1. limiter' = Counted(clock)
    BY Zenon DEF Arrive
  <2>2. QED
    BY <2>1, CountedFacts, RateAssumption DEF RateData
<1>2. PICK later \in {0, 1} :
         /\ clock + later <= LastTick /\ clock' = clock + later
         /\ IF ~(limiter'.count > Limit /\ limiter'.nextReset - (clock + later) > 0)
            THEN /\ sender' = [sender EXCEPT ![s].at = "served", ![s].tries = @ + 1]
                 /\ passed' = passed \cup {[who |-> s, time |-> clock, left |-> limiter'.nextReset - (clock + later)]}
            ELSE /\ IF sender[s].tries + 1 = Attempts
                    THEN sender' = [sender EXCEPT ![s].at = "refused", ![s].tries = @ + 1]
                    ELSE \E j \in Jitters :
                            sender' = [sender EXCEPT
                                ![s].due = clock' + WaitFor(limiter'.nextReset - (clock + later), j), ![s].tries = @ + 1,
                                ![s].refused = limiter'.nextReset, ![s].jitter = j,
                                 ![s].cut = IsCut(limiter'.nextReset - clock', j)]
                 /\ passed' = passed
  BY ZenonT(60) DEF Arrive
<1>3. limiter' = Counted(clock)
  BY Zenon DEF Arrive
<1>4. ~(limiter'.count > Limit) => limiter'.count <= Limit
  BY <1>1
<1>5. QED
  BY <1>2, <1>3, <1>4, ZenonT(60)
\* A request that is to come again waits until the window is over when seconds are
\* added to the rounded ones it was told.
LEMMA WaitIsLong ==
  ASSUME NEW now \in Nat, NEW until \in Int, until > now, until <= now + Window, NEW j \in Nat
  PROVE  /\ now + WaitFor(until - now, j) \in Nat
         /\ \/ j = 0 \/ now + WaitFor(until - now, j) > until
            \/ (IsCut(until - now, j) /\ Window >= MaxWait)
<1> DEFINE half == (until - now) \div 2
<1>1. half \in Nat /\ 2 * half >= (until - now) - 1
  OBVIOUS
<1>2. RetryAfter(until - now, j) = 2 * (half + j)
  BY DEF RetryAfter
<1>3. MaxWait \in Nat /\ Window \in Nat
  BY RateAssumption
<1> HIDE DEF half
<1>4. now + 2 * (half + j) \in Nat /\ (j = 0 \/ now + 2 * (half + j) > until)
  BY <1>1
<1>5. CASE IsCut(until - now, j)
  <2>1. WaitFor(until - now, j) = MaxWait
    BY <1>5 DEF WaitFor
  <2>2. now + MaxWait > until \/ Window >= MaxWait
    BY <1>3
  <2>3. QED
    BY <1>3, <1>5, <2>1, <2>2
<1>6. CASE ~IsCut(until - now, j)
  BY <1>2, <1>4, <1>6 DEF WaitFor
<1>7. QED
  BY <1>5, <1>6
LEMMA SenderKeeps ==
  ASSUME RateInv, NEW s \in Senders, Arrive(s)
  PROVE  /\ sender' \in [Senders -> SendersOf]
         /\ \A r \in Senders : sender'[r].at = "sending" => sender'[r].tries < Attempts
         /\ WaitsItsTurn'
         /\ \A r \in Senders \ {s} : sender'[r] = sender[r]
<1>1. PICK later \in {0, 1} :
           /\ clock' = clock + later /\ clock' <= LastTick /\ limiter' = Counted(clock)
           /\ \/ /\ passed' = passed \cup {[who |-> s, time |-> clock, left |-> limiter'.nextReset - clock']}
                 /\ limiter'.nextReset - clock' > 0 => limiter'.count <= Limit
                 /\ sender' = [sender EXCEPT ![s].at = "served", ![s].tries = @ + 1]
              \/ /\ passed' = passed /\ limiter'.nextReset - clock' > 0
                 /\ \/ sender' = [sender EXCEPT ![s].at = "refused", ![s].tries = @ + 1]
                    \/ /\ sender[s].tries + 1 # Attempts
                       /\ \E j \in Jitters :
                             sender' = [sender EXCEPT
                                 ![s].due = clock' + WaitFor(limiter'.nextReset - clock', j), ![s].tries = @ + 1,
                                 ![s].refused = limiter'.nextReset, ![s].jitter = j,
                                 ![s].cut = IsCut(limiter'.nextReset - clock', j)]
  BY ArriveFacts, Zenon DEF RateInv
<1>2. PICK x \in SendersOf : x = sender[s]
  BY DEF RateInv, RateData
<1>3. /\ x.at = "sending" /\ x.tries \in 0 .. Attempts /\ x.tries < Attempts /\ Attempts \in Nat
      /\ x.tries + 1 \in 0 .. Attempts /\ InTime(x)
  <2>1. x.at = "sending"
    BY <1>2, Zenon DEF Arrive
  <2>2. x.tries \in 0 .. Attempts /\ x.tries < Attempts /\ Attempts \in Nat
    BY <1>2, <2>1, RateAssumption DEF RateInv, RateData, SendersOf
  <2>3. InTime(x)
    BY <1>2 DEF RateInv, WaitsItsTurn
  <2>4. x.tries + 1 \in 0 .. Attempts
    BY <2>2
  <2>5. QED
    BY <2>1, <2>2, <2>3, <2>4
<1>4. ASSUME NEW y \in SendersOf, sender' = [sender EXCEPT ![s] = y],
             y.at = "sending" => y.tries < Attempts, InTime(y)
      PROVE  /\ sender' \in [Senders -> SendersOf]
             /\ \A r \in Senders : sender'[r].at = "sending" => sender'[r].tries < Attempts
             /\ WaitsItsTurn'
             /\ \A r \in Senders \ {s} : sender'[r] = sender[r]
  <2>1. sender \in [Senders -> SendersOf] /\ \A r \in Senders : sender[r].at = "sending" => sender[r].tries < Attempts
    BY DEF RateInv, RateData
  <2>2. sender' \in [Senders -> SendersOf] /\ sender'[s] = y /\ \A r \in Senders \ {s} : sender'[r] = sender[r]
    BY <1>4, <2>1
  <2>3. WaitsItsTurn'
    BY <1>4, <2>2 DEF RateInv, WaitsItsTurn
  <2>4. QED
    BY <1>4, <2>1, <2>2, <2>3
<1>5. ASSUME NEW end \in {"served", "refused"}, sender' = [sender EXCEPT ![s].at = end, ![s].tries = @ + 1]
      PROVE  \E y \in SendersOf : /\ sender' = [sender EXCEPT ![s] = y]
                                 /\ y.at # "sending" /\ InTime(y)
  <2> DEFINE y == [x EXCEPT !.at = end, !.tries = x.tries + 1]
  <2>1. y \in SendersOf
    <3>1. end \in SenderStates
      BY DEF SenderStates
    <3>2. QED
      BY <1>3, <3>1 DEF SendersOf
  <2>2. y.at = end /\ InTime(y)
    <3>1. y.at = end /\ y.jitter = x.jitter /\ y.due = x.due /\ y.refused = x.refused /\ y.cut = x.cut
      BY DEF SendersOf
    <3>2. QED
      BY <1>3, <3>1 DEF InTime
  <2>3. sender' = [sender EXCEPT ![s] = y]
    BY <1>2, <1>5
  <2> HIDE DEF y
  <2>4. QED
    BY <1>3, <2>1, <2>2, <2>3
<1>6. ASSUME NEW j \in Jitters, sender[s].tries + 1 # Attempts, limiter'.nextReset - clock' > 0,
             sender' = [sender EXCEPT
                           ![s].due = clock' + WaitFor(limiter'.nextReset - clock', j), ![s].tries = @ + 1,
                           ![s].refused = limiter'.nextReset, ![s].jitter = j,
                                 ![s].cut = IsCut(limiter'.nextReset - clock', j)]
      PROVE  \E y \in SendersOf : /\ sender' = [sender EXCEPT ![s] = y]
                                 /\ y.tries < Attempts /\ InTime(y)
  <2> DEFINE due == clock' + WaitFor(limiter'.nextReset - clock', j)
             until == limiter'.nextReset
             cut == IsCut(limiter'.nextReset - clock', j)
  <2>1. until \in Int /\ clock' \in Nat /\ j \in Nat /\ until <= clock' + Window
    <3>1. clock' = clock + later /\ limiter' = Counted(clock)
      BY <1>1, Zenon
    <3>2. /\ clock \in Nat /\ limiter'.nextReset \in 0 .. LastTick + Window /\ j \in Nat
          /\ limiter'.nextReset <= clock + Window /\ Window \in Nat
      BY <3>1, CountedFacts, RateAssumption DEF RateInv, RateData
    <3>3. QED
      BY <3>1, <3>2
  <2>2. due \in Nat /\ (j = 0 \/ due > until \/ (cut /\ Window >= MaxWait))
    BY <1>6, <2>1, WaitIsLong
  <2>9. cut \in BOOLEAN
    BY DEF IsCut
  <2>3. sender' = [sender EXCEPT ![s].due = due, ![s].tries = @ + 1, ![s].refused = until, ![s].jitter = j,
                                          ![s].cut = cut]
    BY <1>6, Zenon
  <2> HIDE DEF due, until, cut
  <2> DEFINE y == [x EXCEPT !.due = due, !.tries = x.tries + 1, !.refused = until, !.jitter = j, !.cut = cut]
  <2>4. y \in SendersOf
    BY <1>3, <2>1, <2>2, <2>9 DEF SendersOf
  <2>5. y.tries = x.tries + 1 /\ InTime(y)
    <3>1. y.tries = x.tries + 1 /\ y.jitter = j /\ y.due = due /\ y.refused = until /\ y.cut = cut
      BY DEF SendersOf
    <3>2. QED
      BY <2>2, <3>1 DEF InTime
  <2>6. sender' = [sender EXCEPT ![s] = y]
    BY <1>2, <2>3
  <2> HIDE DEF y
  <2>7. x.tries + 1 < Attempts
    BY <1>2, <1>3, <1>6
  <2>8. QED
    BY <2>4, <2>5, <2>6, <2>7
<1>7. QED
  BY <1>1, <1>4, <1>5, <1>6, Zenon

\* Whoever is let through is so in the limiter's window.
LEMMA WindowsKeep ==
  ASSUME RateData, NEW S \in SUBSET Nat, Windows(S), limiter' = Counted(clock), NEW q \in Passes,
         q.time = clock, q.left > 0 => limiter'.count <= Limit,
         passed' = passed \/ passed' = passed \cup {q}
  PROVE  \E T \in SUBSET Nat : Windows(T)'
<1>0. PICK last : last = limiter'.nextReset - Window
  OBVIOUS
<1> DEFINE T == S \cup {last}
<1>1. /\ clock \in Nat /\ Window \in Nat \ {0} /\ Limit \in Nat /\ limiter \in [count : Nat, nextReset : Int]
      /\ passed \subseteq Passes /\ IsFiniteSet(passed)
      /\ S \subseteq Nat
  BY RateAssumption DEF RateData
<1>2. /\ limiter' \in [count : Nat, nextReset : Int] /\ limiter'.nextReset \in Int /\ limiter'.count \in Nat
      /\ clock <= limiter'.nextReset /\ limiter'.nextReset <= clock + Window
      /\ Over(clock) => limiter'.count = 1 /\ limiter'.nextReset = clock + Window
      /\ ~Over(clock) => limiter'.count = limiter.count + 1 /\ limiter'.nextReset = limiter.nextReset /\ limiter.nextReset # -1
  BY CountedFacts DEF RateData
<1>3. last \in Int /\ clock \in last .. last + Window /\ last + Window = limiter'.nextReset
  BY <1>0, <1>1, <1>2
<1>4. ~Over(clock) => last \in S
  BY <1>0, <1>2 DEF Windows
<1>5. last \in Nat
  BY <1>0, <1>1, <1>2, <1>3, <1>4
<1>6. \A s \in S : s + Window <= limiter.nextReset
  BY DEF Windows
<1>7. \A s \in S : s # last => s + Window < last
  <2>1. CASE Over(clock)
    BY <1>0, <1>1, <1>2, <1>6, <2>1 DEF Over
  <2>2. CASE ~Over(clock)
    <3> TAKE s \in S
    <3>1. s \in Nat /\ s <= last
      BY <1>0, <1>1, <1>2, <1>6, <2>2
    <3>2. QED
      BY <1>1, <1>4, <1>5, <2>2, <3>1 DEF Windows
  <2>3. QED
    BY <2>1, <2>2
<1>8. passed' \subseteq passed \cup {q} /\ passed \subseteq passed' /\ (q \in passed' \/ passed' = passed)
  OBVIOUS
<1>9. \A s \in S : s # last => In(s)' = In(s)
  <2> TAKE s \in S
  <2> SUFFICES ASSUME s # last PROVE In(s)' = In(s)
    OBVIOUS
  <2>1. clock \notin s .. s + Window
    BY <1>1, <1>3, <1>5, <1>7
  <2>2. QED
    BY <1>8, <2>1 DEF In
<1>10. In(last)' \subseteq In(last) \cup {q} /\ In(last) \subseteq passed /\ (q.left > 0 \/ In(last)' = In(last))
  BY <1>8 DEF In
<1>11. Over(clock) => In(last) = {}
  <2> SUFFICES ASSUME Over(clock), NEW p \in passed, p.time \in last .. last + Window PROVE FALSE
    BY DEF In
  <2>1. PICK s \in S : p.time \in s .. s + Window
    BY DEF Windows
  <2>2. s \in Nat /\ p.time <= limiter.nextReset /\ p.time \in Int /\ limiter.nextReset \in Int
    <3>1. p.time \in Nat
      BY <1>1 DEF Passes
    <3>2. QED
      BY <1>1, <1>6, <2>1, <3>1
  <2>3. limiter.nextReset < clock /\ last = clock
    BY <1>0, <1>1, <1>2 DEF Over
  <2>4. QED
    BY <1>1, <2>2, <2>3
<1>12. IsFiniteSet(In(last)) /\ IsFiniteSet(In(last)') /\ Cardinality(In(last)) \in Nat /\ Cardinality(In(last)') \in Nat
  <2>1. IsFiniteSet(In(last))
    BY <1>1, <1>10, FS_Subset
  <2>2. IsFiniteSet(In(last) \cup {q})
    BY <2>1, FS_AddElement
  <2>3. IsFiniteSet(In(last)')
    BY <1>10, <2>2, FS_Subset
  <2>4. QED
    BY <2>1, <2>3, FS_CardinalityType
<1>13. Cardinality(In(last)') <= Cardinality(In(last)) + 1
  <2>1. Cardinality(In(last) \cup {q}) <= Cardinality(In(last)) + 1 /\ IsFiniteSet(In(last) \cup {q})
    <3>1. IsFiniteSet(In(last) \cup {q})
      BY <1>12, FS_AddElement
    <3>2. CASE q \in In(last)
      <4>1. In(last) \cup {q} = In(last)
        BY <3>2
      <4>2. QED
        BY <1>12, <3>1, <4>1
    <3>3. CASE q \notin In(last)
      BY <1>12, <3>1, <3>3, FS_AddElement
    <3>4. QED
      BY <3>2, <3>3
  <2>2. Cardinality(In(last)') <= Cardinality(In(last) \cup {q})
    BY <1>10, <2>1, FS_Subset
  <2>3. Cardinality(In(last) \cup {q}) \in Nat
    BY <2>1, FS_CardinalityType
  <2>4. QED
    BY <1>12, <2>1, <2>2, <2>3
<1>14. Cardinality(In(last)') <= limiter'.count
  <2>1. CASE Over(clock)
    BY <1>2, <1>11, <1>12, <1>13, <2>1, FS_EmptySet
  <2>2. CASE ~Over(clock)
    <3>1. Cardinality(In(last)) <= limiter.count /\ limiter.count \in Nat
      BY <1>0, <1>1, <1>2, <2>2 DEF Windows
    <3>2. QED
      BY <1>2, <1>12, <1>13, <2>2, <3>1
  <2>3. QED
    BY <2>1, <2>2
<1>15. Cardinality(In(last)') <= Limit
  <2>1. CASE q.left > 0
    BY <1>1, <1>2, <1>12, <1>14, <2>1
  <2>2. CASE In(last)' = In(last)
    <3>1. Cardinality(In(last)) <= Limit
      <4>1. CASE Over(clock)
        BY <1>1, <1>11, <4>1, FS_EmptySet
      <4>2. CASE ~Over(clock)
        BY <1>4, <4>2 DEF Windows
      <4>3. QED
        BY <4>1, <4>2
    <3>2. QED
      BY <2>2, <3>1
  <2>3. QED
    BY <1>10, <2>1, <2>2
<1>16. T \subseteq Nat
  BY <1>1, <1>5
<1>17. \A s, r \in T : s < r => s + Window < r
  <2>1. \A s, r \in S : s < r => s + Window < r
    BY DEF Windows
  <2>2. \A s \in S : s # last => s + Window < last /\ s \in Nat
    BY <1>1, <1>7
  <2>3. QED
    BY <1>1, <1>5, <2>1, <2>2
<1>18. \A p \in passed' : \E s \in T : p.time \in s .. s + Window
  <2>1. \E s \in T : q.time \in s .. s + Window
    BY <1>3
  <2>2. \A p \in passed : \E s \in S : p.time \in s .. s + Window
    BY DEF Windows
  <2>3. QED
    BY <1>8, <2>1, <2>2
<1>19. \A s \in T : s + Window <= limiter'.nextReset /\ Cardinality(In(s)') <= Limit
  <2>1. last + Window <= limiter'.nextReset
    BY <1>2, <1>3
  <2>2. \A s \in S \ {last} : s + Window <= limiter'.nextReset
    BY <1>1, <1>2, <1>3, <1>5, <1>7
  <2>3. \A s \in S \ {last} : Cardinality(In(s)') <= Limit
    BY <1>9 DEF Windows
  <2>4. \A s \in T : s = last \/ s \in S \ {last}
    OBVIOUS
  <2>5. QED
    BY <1>15, <2>1, <2>2, <2>3, <2>4
<1>20. last \in T
  OBVIOUS
<1> HIDE DEF T
<1>21. Windows(T)'
  BY <1>0, <1>14, <1>16, <1>17, <1>18, <1>19, <1>20 DEF Windows
<1>22. QED
  BY <1>16, <1>21
LEMMA ArriveKeeps == ASSUME RateInv, NEW s \in Senders, Arrive(s) PROVE RateInv'
<1>1. /\ sender' \in [Senders -> SendersOf] /\ WaitsItsTurn'
      /\ \A r \in Senders : sender'[r].at = "sending" => sender'[r].tries < Attempts
  BY SenderKeeps
<1>2. PICK later \in {0, 1} :
         /\ clock' = clock + later /\ clock' <= LastTick /\ limiter' = Counted(clock)
         /\ \/ /\ passed' = passed \cup {[who |-> s, time |-> clock, left |-> limiter'.nextReset - clock']}
               /\ limiter'.nextReset - clock' > 0 => limiter'.count <= Limit
            \/ /\ passed' = passed /\ limiter'.nextReset - clock' > 0
  BY ArriveFacts, Zenon DEF RateInv
<1>3. PICK over : over = limiter'.nextReset - clock'
  OBVIOUS
<1>4. /\ clock \in Nat /\ clock' \in 0 .. LastTick /\ clock <= clock' /\ clock' <= clock + 1 /\ LastTick \in Nat
      /\ Window \in Nat \ {0} /\ passed \subseteq Passes /\ IsFiniteSet(passed)
  BY <1>2, RateAssumption DEF RateInv, RateData
<1>5. /\ limiter' \in [count : Nat, nextReset : Int] /\ limiter'.nextReset \in 0 .. LastTick + Window
      /\ clock <= limiter'.nextReset /\ limiter'.nextReset <= clock + Window /\ limiter'.count \in Nat
  BY <1>2, CountedFacts DEF RateInv
<1>6. over \in Int /\ over >= -1
  BY <1>3, <1>4, <1>5
<1>7. PICK q \in Passes :
         /\ q.time = clock /\ q.left >= -1
         /\ passed' = passed \/ (passed' = passed \cup {q} /\ (q.left > 0 => limiter'.count <= Limit))
  <2> DEFINE q == [who |-> s, time |-> clock, left |-> over]
  <2>1. q \in Passes /\ q.time = clock /\ q.left = over
    BY <1>4, <1>6 DEF Passes
  <2>2. passed' = passed \/ (passed' = passed \cup {q} /\ (over > 0 => limiter'.count <= Limit))
    BY <1>2, <1>3
  <2> HIDE DEF q
  <2>3. QED
    BY <1>6, <2>1, <2>2
<1>8. RateData'
  <2>1. passed' \subseteq Passes /\ IsFiniteSet(passed') /\ \A p \in passed' : p.left >= -1
    <3>1. IsFiniteSet(passed \cup {q})
      BY <1>4, FS_AddElement
    <3>2. \A p \in passed : p.left >= -1
      BY DEF RateInv, RateData
    <3>3. CASE passed' = passed
      BY <1>4, <3>2, <3>3
    <3>4. CASE passed' = passed \cup {q}
      <4>1. q.left >= -1
        BY <1>7
      <4>2. QED
        BY <1>4, <3>1, <3>2, <3>4, <4>1
    <3>5. QED
      BY <1>7, <3>3, <3>4
  <2>2. limiter'.nextReset \in -1 .. LastTick + Window /\ limiter'.nextReset <= clock' + Window
    BY <1>4, <1>5
  <2>3. QED
    BY <1>1, <1>4, <1>5, <2>1, <2>2 DEF RateData
<1>9. \E T \in SUBSET Nat : Windows(T)'
  <2>1. PICK S \in SUBSET Nat : Windows(S)
    BY DEF RateInv
  <2>2. CASE passed' = passed
    <3>1. PICK p \in Passes : p.time = clock /\ p.left = 0
      <4>1. [who |-> s, time |-> clock, left |-> 0] \in Passes
        BY <1>4 DEF Passes
      <4>2. QED
        BY <4>1
    <3>2. ~(p.left > 0)
      BY <3>1
    <3>3. QED
      BY <1>2, <2>1, <2>2, <3>1, <3>2, WindowsKeep DEF RateInv
  <2>3. CASE passed' = passed \cup {q} /\ (q.left > 0 => limiter'.count <= Limit)
    <3>1. limiter' = Counted(clock)
      BY <1>2
    <3>2. q.time = clock
      BY <1>7
    <3>3. RateData
      BY DEF RateInv
    <3>4. QED
      BY <2>1, <2>3, <3>1, <3>2, <3>3, WindowsKeep
  <2>4. QED
    BY <1>7, <2>2, <2>3
<1>10. QED
  BY <1>1, <1>8, <1>9 DEF RateInv

LEMMA RateInvNext == RateInv /\ [RateNext]_rateVars => RateInv'
<1>1. ASSUME RateInv, UNCHANGED rateVars PROVE RateInv'
  <2>1. RateData' /\ WaitsItsTurn'
    BY <1>1 DEF rateVars, RateInv, RateData, WaitsItsTurn
  <2>2. (\E S \in SUBSET Nat : Windows(S))'
    BY <1>1 DEF rateVars, RateInv, Windows, In
  <2>3. QED
    BY <2>1, <2>2 DEF RateInv
<1>2. QED
  BY <1>1, TickKeeps, ArriveKeeps DEF RateNext

\* As long as a window lasts, at most two of them are met.
LEMMA TwoWindows ==
  ASSUME RateData, NEW S \in SUBSET Nat, Windows(S), NEW p \in passed
  PROVE  Cardinality({q \in passed : q.left > 0 /\ q.time \in p.time .. p.time + Window - 1}) <= 2 * Limit
<1> DEFINE near == {q \in passed : q.left > 0 /\ q.time \in p.time .. p.time + Window - 1}
<1>1. PICK s \in S : p.time \in s .. s + Window
  BY DEF Windows
<1>2. /\ \A q \in passed : q.time \in Nat
      /\ S \subseteq Nat /\ Window \in Nat \ {0} /\ Limit \in Nat /\ IsFiniteSet(passed)
  BY RateAssumption DEF RateData, Passes
<1>3. \A r \in S : IsFiniteSet(In(r)) /\ Cardinality(In(r)) \in Nat /\ Cardinality(In(r)) <= Limit
  <2> TAKE r \in S
  <2>1. In(r) \subseteq passed
    BY DEF In
  <2>2. IsFiniteSet(In(r))
    BY <1>2, <2>1, FS_Subset
  <2>3. QED
    BY <2>2, FS_CardinalityType DEF Windows
<1>4. ASSUME NEW t \in S, near \subseteq In(s) \cup In(t) PROVE Cardinality(near) <= 2 * Limit
  <2>1. IsFiniteSet(In(s) \cup In(t)) /\ Cardinality(In(s) \cup In(t)) <= Cardinality(In(s)) + Cardinality(In(t))
    <3>1. /\ IsFiniteSet(In(s) \cup In(t))
          /\ Cardinality(In(s) \cup In(t)) = Cardinality(In(s)) + Cardinality(In(t)) - Cardinality(In(s) \cap In(t))
      BY <1>1, <1>3, <1>4, FS_Union
    <3>2. Cardinality(In(s) \cap In(t)) \in Nat
      <4>1. IsFiniteSet(In(s) \cap In(t))
        BY <1>1, <1>3, FS_Subset
      <4>2. QED
        BY <4>1, FS_CardinalityType
    <3>3. QED
      BY <1>1, <1>3, <1>4, <3>1, <3>2
  <2>2. Cardinality(near) <= Cardinality(In(s) \cup In(t)) /\ IsFiniteSet(near)
    BY <1>4, <2>1, FS_Subset
  <2>3. Cardinality(near) \in Nat /\ Cardinality(In(s) \cup In(t)) \in Nat
    BY <2>1, <2>2, FS_CardinalityType
  <2> HIDE DEF near
  <2>4. QED
    BY <1>1, <1>2, <1>3, <1>4, <2>1, <2>2, <2>3
<1>5. ASSUME NEW q \in near PROVE \E r \in S : q \in In(r) /\ q.time \in r .. r + Window /\ r <= p.time + Window - 1 /\ s <= r
  <2>1. q \in passed /\ q.left > 0 /\ q.time \in p.time .. p.time + Window - 1
    OBVIOUS
  <2>2. PICK r \in S : q.time \in r .. r + Window
    BY <2>1 DEF Windows
  <2>3. r \in Nat /\ s \in Nat /\ p.time \in Nat /\ q.time \in Nat
    BY <1>1, <1>2, <2>1
  <2>4. r < s => r + Window < s
    BY <1>1 DEF Windows
  <2>5. s <= r
    BY <1>1, <1>2, <2>1, <2>2, <2>3, <2>4
  <2>6. q \in In(r)
    BY <2>1, <2>2 DEF In
  <2>7. QED
    BY <1>2, <2>1, <2>2, <2>3, <2>5, <2>6
<1>6. ASSUME NEW t \in S, NEW r \in S, s < t, s < r, t <= p.time + Window - 1, r <= p.time + Window - 1 PROVE r = t
  <2>1. t \in Nat /\ r \in Nat /\ s \in Nat /\ p.time \in Nat /\ p.time <= s + Window
    BY <1>1, <1>2
  <2>2. s + Window < t /\ s + Window < r /\ (t < r => t + Window < r) /\ (r < t => r + Window < t)
    BY <1>1, <1>6 DEF Windows
  <2>3. QED
    BY <1>2, <1>6, <2>1, <2>2
<1>7. \A r \in S : s <= r => r = s \/ s < r
  BY <1>1, <1>2
<1>8. CASE \E t \in S : s < t /\ t <= p.time + Window - 1
  <2>1. PICK t \in S : s < t /\ t <= p.time + Window - 1
    BY <1>8
  <2>2. near \subseteq In(s) \cup In(t)
    <3> SUFFICES ASSUME NEW q \in near PROVE q \in In(s) \cup In(t)
      BY Zenon
    <3>1. PICK r \in S : q \in In(r) /\ r <= p.time + Window - 1 /\ s <= r
      BY <1>5
    <3>2. r = s \/ r = t
      BY <1>6, <1>7, <2>1, <3>1
    <3>3. QED
      BY <3>1, <3>2
  <2>3. QED
    BY <1>4, <2>2
<1>9. CASE ~\E t \in S : s < t /\ t <= p.time + Window - 1
  <2>1. near \subseteq In(s) \cup In(s)
    <3> SUFFICES ASSUME NEW q \in near PROVE q \in In(s)
      BY Zenon
    <3>1. PICK r \in S : q \in In(r) /\ r <= p.time + Window - 1 /\ s <= r
      BY <1>5
    <3>2. QED
      BY <1>7, <1>9, <3>1
  <2>2. QED
    BY <1>1, <1>4, <2>1
<1>10. QED
  BY <1>8, <1>9

\* Who returns as it was told, and some seconds later, finds the window over.
LEMMA RefusedStep ==
  ASSUME RateInv, RateNext, NEW s \in Senders,
         sender'[s].tries = sender[s].tries + 1, limiter'.nextReset = sender[s].refused
  PROVE  sender[s].jitter = 0 \/ (sender[s].cut /\ Window >= MaxWait)
<1>1. sender[s] \in SendersOf
  BY DEF RateInv, RateData
<1>2. sender[s].tries \in Nat /\ sender[s].due \in Nat /\ sender[s].refused \in Int
  BY <1>1, RateAssumption DEF SendersOf
<1>3. sender'[s] # sender[s]
  BY <1>2
<1>4. Arrive(s)
  <2>1. PICK r \in Senders : Arrive(r)
    BY <1>3 DEF RateNext, Tick
  <2>2. r # s => sender'[s] = sender[s]
    BY <2>1, SenderKeeps
  <2>3. QED
    BY <1>3, <2>1, <2>2
<1>5. sender[s].due <= clock /\ limiter' = Counted(clock)
  BY <1>4, Zenon DEF Arrive
<1>6. clock <= limiter'.nextReset /\ clock \in Nat
  BY <1>5, CountedFacts DEF RateInv, RateData
<1>7. sender[s].jitter = 0 \/ sender[s].due > sender[s].refused \/ (sender[s].cut /\ Window >= MaxWait)
  BY DEF RateInv, WaitsItsTurn, InTime
<1>8. QED
  BY <1>2, <1>5, <1>6, <1>7

\* For every limit, window, jitter and number of attempts: no time as long as the
\* window sees more than twice the limit let through, and who waits as it was told
\* is refused again in the same window only if no second was added, or its wait was
\* cut to the longest one, which the window outlasts.
THEOREM RateLimitHolds == RateSpec => LimitKept
<1>1. RateInv => RateTypeOK /\ LimitHolds
  <2> SUFFICES ASSUME RateInv PROVE RateTypeOK /\ LimitHolds
    OBVIOUS
  <2>1. RateTypeOK
    <3>1. \A s \in Senders : sender[s].tries \in 0 .. Attempts
      BY DEF RateInv, RateData, SendersOf
    <3>2. QED
      BY <3>1 DEF RateInv, RateData, RateTypeOK
  <2>2. LimitHolds
    BY TwoWindows DEF RateInv, LimitHolds
  <2>3. QED
    BY <2>1, <2>2
<1>2. RateInv /\ [RateNext]_rateVars =>
        [\A s \in Senders :
            sender'[s].tries = sender[s].tries + 1 /\ sender'[s].at # "served"
               /\ limiter'.nextReset = sender[s].refused
            => sender[s].jitter = 0 \/ (sender[s].cut /\ Window >= MaxWait)]_rateVars
  BY RefusedStep
<1>3. QED
  BY <1>1, <1>2, RateInvInit, RateInvNext, PTL DEF RateSpec, LimitKept, RefusedOnce
==============================================================================
