----------------------------- MODULE WaitsProofs ------------------------------
(***************************************************************************)
(* Proofs about components whose callers wait for one another: the futures *)
(* of a group and those that take their results, the connections of a      *)
(* listener and the setters that switch its two ways off, the requests     *)
(* that run the callbacks of the server and those that register more, and  *)
(* a client that polls for the events of a drive, page by page.            *)
(* Each has a section, with its inductive invariant first and its theorem  *)
(* last; the listener and the pipeline share lemmas about their mutex.     *)
(***************************************************************************)
EXTENDS Future, Listener, Pipeline, DriveEvents, FiniteSetTheorems, SequenceTheorems, TLAPS

------------------------------------------------------------------------------
(* Futures and groups.                                                     *)
(*                                                                         *)
(* GroupsSafe says nothing of the futures whose results were taken, so it  *)
(* is not inductive.  FutureInv adds what the group has taken (Collected), *)
(* that a goroutine sends only what its function returned (SendsValue),    *)
(* and that a taker has a result only of a future that is gone (OneTaker). *)

\* The group has taken the futures before next, in order, and the one it stopped at.
Collected ==
    /\ Len(out) = IF answer = "stopped" THEN next ELSE next - 1
    /\ answer \in {"stopped", "err"} => next <= Size
    /\ \A i \in 1 .. Len(out) : out[i] = i /\ fn[i] = "gone" /\ val[i] = "ok"
    /\ answer = "err" => val[next] = "err" /\ fn[next] = "gone"

\* A goroutine that sends has the result of its function.
SendsValue == \A f \in Futures : fn[f] = "send" => val[f] # "none"

\* The lone future is taken by one taker at most.
OneTaker ==
    /\ fn[Lone] # "gone" => \A t \in Takers : taker[t] = "waits"
    /\ \A t, u \in Takers : taker[t] # "waits" /\ taker[u] # "waits" => t = u

FutureInv == FutureTypeOK /\ Collected /\ SendsValue /\ OneTaker

\* The goroutines start with nothing taken.
LEMMA FutureInvInit == FutureInit => FutureInv
<1> SUFFICES ASSUME FutureInit PROVE FutureInv
  OBVIOUS
<1>1. out \in Seq(1 .. Size) /\ Len(out) = 0
  BY DEF FutureInit
<1>2. FutureTypeOK
  BY <1>1, FutureAssumption DEF FutureInit, FutureTypeOK, Futures
<1>3. Collected /\ SendsValue /\ OneTaker
  BY <1>1, FutureAssumption DEF FutureInit, Collected, SendsValue, OneTaker, Futures, Lone
<1>4. QED
  BY <1>2, <1>3 DEF FutureInv

\* The end of a function changes only a future that nobody has taken.
LEMMA RunKeeps == ASSUME FutureInv, NEW f \in Futures, Run(f) PROVE FutureInv'
<1> USE FutureAssumption DEF FutureInv, Run, Futures, Lone
<1>0. Len(out) \in Nat /\ 1 .. Len(out) \subseteq Futures
  <2>1. Len(out) \in Nat
    BY LenProperties DEF FutureTypeOK
  <2>2. Len(out) <= Size
    BY <2>1 DEF FutureTypeOK, Collected
  <2>3. QED
    BY <2>1, <2>2
<1>1. FutureTypeOK'
  BY DEF FutureTypeOK
<1>2. Collected'
  <2>1. \A i \in Futures : fn[i] = "gone" => fn'[i] = fn[i] /\ val'[i] = val[i]
    BY DEF FutureTypeOK
  <2>2. answer = "err" => next \in Futures
    BY DEF Collected, FutureTypeOK
  <2>3. UNCHANGED <<next, out, answer>>
    OBVIOUS
  <2>4. QED
    BY <1>0, <2>1, <2>2, <2>3 DEF Collected
<1>3. SendsValue'
  BY DEF SendsValue, FutureTypeOK
<1>4. OneTaker'
  BY DEF OneTaker, FutureTypeOK
<1>5. QED
  BY <1>1, <1>2, <1>3, <1>4

\* The group moves on past a result, stops at it, or returns the error.
LEMMA GroupGetKeeps == ASSUME FutureInv, NEW f \in Futures, GroupGet(f) PROVE FutureInv'
<1> USE FutureAssumption DEF FutureInv, GroupGet, GetNext, Futures, Lone
<1>1. Len(out) = next - 1 /\ f = next /\ next \in 1 .. Size /\ answer = "none"
  BY DEF Collected, FutureTypeOK
<1>2. /\ Append(out, f) \in Seq(1 .. Size)
      /\ Len(Append(out, f)) = next
      /\ \A i \in 1 .. next - 1 : Append(out, f)[i] = out[i]
      /\ Append(out, f)[next] = f
  BY <1>1, AppendProperties DEF FutureTypeOK
<1>3. OneTaker' /\ SendsValue'
  BY <1>1 DEF OneTaker, SendsValue, FutureTypeOK
<1>4. fn' \in [Futures -> {"run", "send", "gone", "panicked"}] /\ val' = val
      /\ fn'[next] = "gone" /\ \A i \in 1 .. next - 1 : fn'[i] = fn[i]
  BY <1>1 DEF FutureTypeOK
<1>5. CASE val[f] = "ok" /\ out' = Append(out, f) /\ next' = next + 1 /\ UNCHANGED answer
  <2>1. FutureTypeOK'
    BY <1>1, <1>2, <1>4, <1>5 DEF FutureTypeOK
  <2>2. Collected'
    BY <1>1, <1>2, <1>4, <1>5 DEF Collected
  <2>3. QED
    BY <1>3, <2>1, <2>2
<1>6. CASE val[f] = "err" /\ answer' = "err" /\ UNCHANGED <<out, next>>
  <2>1. FutureTypeOK'
    BY <1>1, <1>4, <1>6 DEF FutureTypeOK
  <2>2. Collected'
    BY <1>1, <1>4, <1>6 DEF Collected
  <2>3. QED
    BY <1>3, <2>1, <2>2
<1>7. CASE val[f] = "ok" /\ out' = Append(out, f) /\ answer' = "stopped" /\ UNCHANGED next
  <2>1. FutureTypeOK'
    BY <1>1, <1>2, <1>4, <1>7 DEF FutureTypeOK
  <2>2. Collected'
    BY <1>1, <1>2, <1>4, <1>7 DEF Collected
  <2>3. QED
    BY <1>3, <2>1, <2>2
<1>8. QED
  BY <1>5, <1>6, <1>7

\* The group ends when the last future has been asked.
LEMMA GroupEndKeeps == ASSUME FutureInv, GroupEnd PROVE FutureInv'
<1> USE FutureAssumption DEF FutureInv, GroupEnd, AllAsked
<1>1. FutureTypeOK'
  BY DEF FutureTypeOK
<1>2. Collected'
  BY DEF Collected, FutureTypeOK
<1>3. SendsValue' /\ OneTaker'
  BY DEF SendsValue, OneTaker
<1>4. QED
  BY <1>1, <1>2, <1>3

\* The first taker of the lone future leaves nothing for another one.
LEMMA TakeKeeps == ASSUME FutureInv, NEW t \in Takers, TakeLone(t) PROVE FutureInv'
<1> USE FutureAssumption DEF FutureInv, TakeLone, Futures, Lone
<1>1. val[Lone] \in {"ok", "err"}
  BY DEF SendsValue, FutureTypeOK
<1>2. FutureTypeOK'
  BY <1>1 DEF FutureTypeOK
<1>3. \A i \in 1 .. Size : fn'[i] = fn[i]
  BY DEF FutureTypeOK
<1>4. Len(out) \in Nat /\ Len(out) <= Size
  BY LenProperties DEF Collected, FutureTypeOK
<1>5. Collected'
  BY <1>3, <1>4 DEF Collected, FutureTypeOK
<1>6. SendsValue' /\ OneTaker'
  BY <1>1 DEF SendsValue, OneTaker, FutureTypeOK
<1>7. QED
  BY <1>2, <1>5, <1>6

\* What the group and the takers have is accounted for at all times.
THEOREM FutureInvariant == FutureSpec => []FutureInv
<1>1. FutureInv /\ UNCHANGED futureVars => FutureInv'
  BY DEF FutureInv, futureVars, FutureTypeOK, Collected, SendsValue, OneTaker
<1>2. FutureInv /\ [FutureNext]_futureVars => FutureInv'
  BY <1>1, RunKeeps, GroupGetKeeps, GroupEndKeeps, TakeKeeps DEF FutureNext
<1>3. QED
  BY <1>2, FutureInvInit, PTL DEF FutureSpec

\* What was collected is the list of the first futures, in the order of Add.
LEMMA InOrder == ASSUME FutureInv PROVE GroupInOrder
<1> USE DEF FutureInv
<1>1. Len(out) \in Nat /\ out \in [1 .. Len(out) -> 1 .. Size]
  BY LenProperties DEF FutureTypeOK
<1>2. out = [i \in 1 .. Len(out) |-> i]
  BY <1>1 DEF Collected
<1>3. answer = "err" => val[Len(out) + 1] = "err"
  BY DEF Collected, FutureTypeOK
<1>4. QED
  BY <1>2, <1>3 DEF GroupInOrder, Collected

\* Takers with a result are one at most.
LEMMA AtMostOne == ASSUME FutureInv PROVE TakenOnce
<1> DEFINE Got == {t \in Takers : taker[t] # "waits"}
<1>1. CASE Got = {}
  BY <1>1, FS_EmptySet DEF TakenOnce
<1>2. CASE Got # {}
  <2>1. PICK t \in Got : TRUE
    BY <1>2
  <2>2. Got = {t}
    BY <2>1 DEF FutureInv, OneTaker
  <2>3. Cardinality(Got) = 1
    BY <2>2, FS_Singleton
  <2>4. QED
    BY <2>3 DEF TakenOnce
<1>3. QED
  BY <1>1, <1>2

\* The results of futures are taken once and in order; who is left waiting is
\* known: the safety part of GroupsAnswer.
GroupsSafe == FutureTypeOK /\ GroupInOrder /\ StrandedAfterError /\ TakenOnce

\* For a group of any size, and any number of goroutines asking one future:
\* results are taken in the order of Add and at most once, a reported error is
\* the first of that order, and only futures after it are left sending.
THEOREM GroupsAreSafe == FutureSpec => []GroupsSafe
<1>1. FutureInv => StrandedAfterError
  BY LenProperties, FutureAssumption
  DEF FutureInv, FutureTypeOK, Collected, StrandedAfterError, Stranded, Futures
<1>2. FutureInv => GroupsSafe
  BY <1>1, InOrder, AtMostOne DEF GroupsSafe, FutureInv
<1>3. QED
  BY <1>2, FutureInvariant, PTL

------------------------------------------------------------------------------
(* Locks. *)

\* A reader that comes is let in, unless a writer is announced: then it waits.
LEMMA RLockIs ==
    ASSUME NEW H, NEW T, NEW l \in RWMutexes(H, T), NEW h \in H
    PROVE  /\ RLock(l, h) \in RWMutexes(H, T) /\ RLock(l, h).writer = l.writer
           /\ l.writer = NoWriter => RLock(l, h).readers = l.readers \cup {h} /\ RLock(l, h).waiting = l.waiting
           /\ l.writer # NoWriter => RLock(l, h).readers = l.readers /\ RLock(l, h).waiting = l.waiting \cup {h}
<1>1. CASE l.writer = NoWriter
  <2>1. RLock(l, h) = [l EXCEPT !.readers = l.readers \cup {h}]
    BY <1>1 DEF RLock
  <2> QED
    BY <1>1, <2>1 DEF RWMutexes
<1>2. CASE l.writer # NoWriter
  <2>1. RLock(l, h) = [l EXCEPT !.waiting = l.waiting \cup {h}]
    BY <1>2 DEF RLock
  <2> QED
    BY <1>2, <2>1 DEF RWMutexes
<1> QED
  BY <1>1, <1>2

\* The unlock of a reader gives its hold back, and lets nobody in.
LEMMA RUnlockIs ==
    ASSUME NEW H, NEW T, NEW l \in RWMutexes(H, T), NEW h
    PROVE  /\ RUnlock(l, h) \in RWMutexes(H, T) /\ RUnlock(l, h).writer = l.writer
           /\ RUnlock(l, h).readers = l.readers \ {h} /\ RUnlock(l, h).waiting = l.waiting
  BY DEF RUnlock, RWMutexes

\* A writer that comes is announced, and the readers keep what they hold.
LEMMA AnnounceIs ==
    ASSUME NEW H, NEW T, NEW l \in RWMutexes(H, T), NEW t \in T
    PROVE  /\ Announce(l, t) \in RWMutexes(H, T) /\ Announce(l, t).writer = t
           /\ Announce(l, t).readers = l.readers /\ Announce(l, t).waiting = l.waiting
  BY DEF Announce, RWMutexes

\* A writer that leaves lets in the readers that wait.
LEMMA UnlockIs ==
    ASSUME NEW H, NEW T, NEW l \in RWMutexes(H, T)
    PROVE  /\ Unlock(l) \in RWMutexes(H, T) /\ Unlock(l).writer = NoWriter
           /\ Unlock(l).readers = l.waiting /\ Unlock(l).waiting = {}
  BY DEF Unlock, RWMutexes

------------------------------------------------------------------------------
(* The listener. *)

Doings == {"idle", "check", "hang", "relock", "move", "half"}
Gates == RWMutexes(Peers, Setters)
Settings == [at : {"idle", "lock"}, side : Sides, val : BOOLEAN]

ListenerData ==
    /\ kind \in {"hang", "drop"}
    /\ allowed \in [Sides -> BOOLEAN]
    /\ gate \in [Sides -> Gates]
    /\ accepted \in [Peers -> {"none", "open", "closed"}]
    /\ doing \in [Peers -> [Sides -> Doings]]
    /\ setting \in [Setters -> Settings]
    /\ shut \in BOOLEAN /\ sets \in 0 .. MaxSets

\* Who reads or writes has asked for the lock once, and moves bytes only when it has it.
Holding(p, s) ==
    /\ p \in gate[s].readers \cup gate[s].waiting <=> doing[p][s] \notin {"idle", "hang"}
    /\ ~(p \in gate[s].readers /\ p \in gate[s].waiting)
    /\ doing[p][s] \in {"move", "half"} => p \in gate[s].readers

\* Only a hanging connection waits for Done, and it has come when it asks for the lock again.
Hanging(p, s) ==
    /\ doing[p][s] \in {"hang", "relock"} => kind = "hang"
    /\ doing[p][s] = "relock" => shut
    /\ doing[p][s] = "move" => allowed[s] \/ (kind = "hang" /\ shut)

\* The announced writer of a side is the setter that is called for it.
SetterHas(t, s) == gate[s].writer = t <=> setting[t].at = "lock" /\ setting[t].side = s

ListenerInv ==
    /\ ListenerData
    /\ \A p \in Peers, s \in Sides : Holding(p, s) /\ Hanging(p, s)
    /\ \A t \in Setters, s \in Sides : SetterHas(t, s)

\* A listener begins with both ways allowed and nobody at its locks.
LEMMA ListenerInvInit == ListenerInit => ListenerInv
<1> SUFFICES ASSUME ListenerInit PROVE ListenerInv
  OBVIOUS
<1> USE ListenerAssumption DEF ListenerInit
<1>1. \A s \in Sides : gate[s] = Unlocked /\ allowed[s] = TRUE
  OBVIOUS
<1>2. Unlocked \in Gates /\ Unlocked.readers = {} /\ Unlocked.waiting = {} /\ Unlocked.writer = NoWriter
  BY DEF Unlocked, Gates, RWMutexes
<1>3. \A p \in Peers, s \in Sides : doing[p][s] = "idle"
  OBVIOUS
<1>4. \A t \in Setters : setting[t] = Unset
  OBVIOUS
<1>5. Unset \in Settings /\ Unset.at = "idle"
  <2>1. Unset.at = "idle"
    BY DEF Unset
  <2>2. "read" \in Sides /\ TRUE \in BOOLEAN /\ "idle" \in {"idle", "lock"}
    BY DEF Sides
  <2>3. Unset \in Settings
    BY <2>2, Zenon DEF Unset, Settings
  <2> QED
    BY <2>1, <2>3
<1>6. doing \in [Peers -> [Sides -> Doings]]
  BY DEF Doings
<1>7. ListenerData
  <2>1. allowed \in [Sides -> BOOLEAN] /\ gate \in [Sides -> Gates] /\ setting \in [Setters -> Settings]
    BY <1>2, <1>5
  <2>2. accepted \in [Peers -> {"none", "open", "closed"}] /\ sets \in 0 .. MaxSets /\ shut \in BOOLEAN
    <3>1. sets = 0 /\ MaxSets \in Nat
      OBVIOUS
    <3>2. sets \in 0 .. MaxSets
      BY ONLY <3>1, SMT
    <3>3. accepted = [p \in Peers |-> "none"] /\ shut = FALSE
      OBVIOUS
    <3> QED
      BY <3>2, <3>3
  <2> QED
    BY <1>6, <2>1, <2>2 DEF ListenerData
<1>8. \A p \in Peers, s \in Sides : Holding(p, s) /\ Hanging(p, s)
  BY <1>1, <1>2, <1>3 DEF Holding, Hanging
<1>9. \A t \in Setters, s \in Sides : SetterHas(t, s)
  <2> TAKE t \in Setters, s \in Sides
  <2>1. gate[s].writer # t
    BY <1>1, <1>2
  <2> QED
    BY <1>4, <1>5, <2>1 DEF SetterHas
<1> QED
  BY <1>7, <1>8, <1>9 DEF ListenerInv

\* A Read or a Write goes on, with the holds it has then.
LEMMA IOMoves ==
    ASSUME ListenerInv, NEW p \in Peers, NEW s \in Sides, NEW w \in Doings, NEW l \in Gates,
           doing' = [doing EXCEPT ![p][s] = w], gate' = [gate EXCEPT ![s] = l],
           UNCHANGED <<kind, allowed, setting, shut, sets>>, accepted' \in [Peers -> {"none", "open", "closed"}],
           l.writer = gate[s].writer,
           l.readers \ {p} = gate[s].readers \ {p}, l.waiting \ {p} = gate[s].waiting \ {p},
           p \in l.readers \cup l.waiting <=> w \notin {"idle", "hang"},
           ~(p \in l.readers /\ p \in l.waiting), w \in {"move", "half"} => p \in l.readers,
           w \in {"hang", "relock"} => kind = "hang", w = "relock" => shut,
           w = "move" => allowed[s] \/ (kind = "hang" /\ shut)
    PROVE  ListenerInv'
<1>1. gate \in [Sides -> Gates] /\ doing \in [Peers -> [Sides -> Doings]]
  BY DEF ListenerInv, ListenerData
<1>2. gate' \in [Sides -> Gates] /\ gate'[s] = l /\ \A o \in Sides \ {s} : gate'[o] = gate[o]
  BY <1>1
<1>3. doing' \in [Peers -> [Sides -> Doings]]
  BY <1>1
<1>4. doing'[p][s] = w
  BY <1>1
<1>5. \A q \in Peers, o \in Sides : q # p \/ o # s => doing'[q][o] = doing[q][o]
  BY <1>1
<1>6. ListenerData'
  BY <1>2, <1>3 DEF ListenerInv, ListenerData
<1>7. ASSUME NEW q \in Peers, NEW o \in Sides
      PROVE  Holding(q, o)' /\ Hanging(q, o)'
  <2>0. Holding(q, o) /\ Hanging(q, o)
    BY DEF ListenerInv
  <2>1. CASE o # s
    <3>1. gate'[o] = gate[o] /\ doing'[q][o] = doing[q][o]
      BY <1>2, <1>5, <2>1
    <3> QED
      BY <2>0, <3>1 DEF Holding, Hanging
  <2>2. CASE o = s /\ q # p
    <3>1. gate'[o] = l /\ doing'[q][o] = doing[q][o]
      BY <1>2, <1>5, <2>2
    <3>2. (q \in l.readers <=> q \in gate[o].readers) /\ (q \in l.waiting <=> q \in gate[o].waiting)
      BY <2>2
    <3> QED
      BY <2>0, <3>1, <3>2 DEF Holding, Hanging
  <2>3. CASE o = s /\ q = p
    <3>1. gate'[o] = l /\ doing'[q][o] = w
      BY <1>2, <1>4, <2>3
    <3> QED
      BY <2>3, <3>1 DEF Holding, Hanging
  <2> QED
    BY <2>1, <2>2, <2>3
<1>8. ASSUME NEW t \in Setters, NEW o \in Sides
      PROVE  SetterHas(t, o)'
  <2>1. gate'[o].writer = gate[o].writer
    BY <1>2
  <2> QED
    BY <2>1 DEF ListenerInv, SetterHas
<1> QED
  BY <1>6, <1>7, <1>8 DEF ListenerInv

\* What each step of a Read or a Write does.
LEMMA IOKeeps ==
    ASSUME ListenerInv, NEW p \in Peers, NEW s \in Sides, Begin(p, s) \/ IOStep(p, s) \/ Transfer(p, s)
    PROVE  ListenerInv'
<1> DEFINE l == gate[s]
<1>1. /\ gate \in [Sides -> Gates] /\ l \in Gates /\ doing \in [Peers -> [Sides -> Doings]]
      /\ accepted \in [Peers -> {"none", "open", "closed"}]
  BY DEF ListenerInv, ListenerData
<1>2. Holding(p, s) /\ Hanging(p, s)
  BY DEF ListenerInv
<1>3. p \in l.readers \cup l.waiting <=> doing[p][s] \notin {"idle", "hang"}
  BY <1>2 DEF Holding
<1>4. gate = [gate EXCEPT ![s] = l]
  BY <1>1
<1>5. ~(p \in l.readers /\ p \in l.waiting)
  BY <1>2 DEF Holding
<1>6. /\ RLock(l, p) \in Gates /\ RLock(l, p).writer = l.writer
      /\ RLock(l, p).readers \ {p} = l.readers \ {p} /\ RLock(l, p).waiting \ {p} = l.waiting \ {p}
      /\ p \in RLock(l, p).readers \cup RLock(l, p).waiting
      /\ p \notin l.readers \cup l.waiting => ~(p \in RLock(l, p).readers /\ p \in RLock(l, p).waiting)
  BY <1>1, RLockIs DEF Gates
<1>7. /\ RUnlock(l, p) \in Gates /\ RUnlock(l, p).writer = l.writer
      /\ RUnlock(l, p).readers = l.readers \ {p} /\ RUnlock(l, p).waiting = l.waiting
  BY <1>1, RUnlockIs DEF Gates
<1> HIDE DEF l
<1>8. {"idle", "check", "hang", "relock", "move", "half"} = Doings
  BY DEF Doings
<1>9. CASE Begin(p, s)
  <2>1. doing[p][s] = "idle" /\ UNCHANGED <<kind, allowed, accepted, setting, shut, sets>>
    BY <1>9 DEF Begin
  <2>2. gate' = [gate EXCEPT ![s] = RLock(l, p)] /\ doing' = [doing EXCEPT ![p][s] = "check"]
    BY <1>9 DEF Begin, Now, l
  <2>3. p \notin l.readers \cup l.waiting
    BY <1>3, <2>1
  <2> QED
    BY <1>1, <1>6, <1>8, <2>1, <2>2, <2>3, IOMoves DEF l
<1>10. CASE HangEnd(p, s)
  <2>1. doing[p][s] = "hang" /\ shut /\ UNCHANGED <<kind, allowed, accepted, setting, shut, sets>>
    BY <1>10 DEF HangEnd
  <2>2. gate' = [gate EXCEPT ![s] = RLock(l, p)] /\ doing' = [doing EXCEPT ![p][s] = "relock"]
    BY <1>10 DEF HangEnd, Now, l
  <2>3. p \notin l.readers \cup l.waiting /\ kind = "hang"
    BY <1>2, <1>3, <2>1 DEF Hanging
  <2> QED
    BY <1>1, <1>6, <1>8, <2>1, <2>2, <2>3, IOMoves DEF l
<1>11. CASE HangCheck(p, s)
  <2>1. /\ kind = "hang" /\ doing[p][s] = "check" /\ p \in l.readers
        /\ UNCHANGED <<kind, allowed, accepted, setting, shut, sets>>
    BY <1>11 DEF HangCheck, HoldsRead, l
  <2>2. CASE allowed[s]
    <3>1. gate' = [gate EXCEPT ![s] = l] /\ doing' = [doing EXCEPT ![p][s] = "move"]
      BY <1>4, <1>11, <2>2 DEF HangCheck, Now
    <3> QED
      BY <1>1, <1>5, <1>8, <2>1, <2>2, <3>1, IOMoves DEF l
  <2>3. CASE ~allowed[s]
    <3>1. gate' = [gate EXCEPT ![s] = RUnlock(l, p)] /\ doing' = [doing EXCEPT ![p][s] = "hang"]
      BY <1>11, <2>3 DEF HangCheck, Now, l
    <3> QED
      BY <1>1, <1>5, <1>7, <1>8, <2>1, <3>1, IOMoves DEF l
  <2> QED
    BY <2>2, <2>3
<1>12. CASE Relocked(p, s)
  <2>1. /\ doing[p][s] = "relock" /\ p \in l.readers
        /\ UNCHANGED <<kind, allowed, accepted, setting, shut, sets>>
    BY <1>12 DEF Relocked, HoldsRead, l
  <2>2. gate' = [gate EXCEPT ![s] = l] /\ doing' = [doing EXCEPT ![p][s] = "move"]
    BY <1>4, <1>12 DEF Relocked, Now
  <2>3. kind = "hang" /\ shut
    BY <1>2, <2>1 DEF Hanging
  <2> QED
    BY <1>1, <1>5, <1>8, <2>1, <2>2, <2>3, IOMoves DEF l
<1>13. CASE DropCheck(p, s)
  <2>1. /\ kind = "drop" /\ doing[p][s] = "check" /\ p \in l.readers
        /\ UNCHANGED <<kind, allowed, accepted, setting, shut, sets>>
    BY <1>13 DEF DropCheck, HoldsRead, l
  <2>2. gate' = [gate EXCEPT ![s] = l]
    BY <1>4, <1>13 DEF DropCheck
  <2>3. CASE allowed[s]
    <3>1. doing' = [doing EXCEPT ![p][s] = "move"]
      BY <1>13, <2>3 DEF DropCheck, Now
    <3> QED
      BY <1>1, <1>5, <1>8, <2>1, <2>2, <2>3, <3>1, IOMoves DEF l
  <2>4. CASE ~allowed[s]
    <3>1. doing' = [doing EXCEPT ![p][s] = "half"]
      BY <1>13, <2>4 DEF DropCheck, Now
    <3> QED
      BY <1>1, <1>5, <1>8, <2>1, <2>2, <3>1, IOMoves DEF l
  <2> QED
    BY <2>3, <2>4
<1>14. CASE Broken(p, s) \/ Transfer(p, s)
  <2>1. doing[p][s] \in {"move", "half"} /\ UNCHANGED <<kind, allowed, setting, shut, sets>>
    BY <1>14 DEF Broken, Transfer, EndIO
  <2>2. gate' = [gate EXCEPT ![s] = RUnlock(l, p)] /\ doing' = [doing EXCEPT ![p][s] = "idle"]
    BY <1>14 DEF Broken, Transfer, EndIO, Now, l
  <2>3. p \in l.readers
    BY <1>2, <2>1 DEF Holding, l
  <2>4. accepted' \in [Peers -> {"none", "open", "closed"}]
    BY <1>1, <1>14 DEF Broken, Transfer
  <2> QED
    BY <1>1, <1>5, <1>7, <1>8, <2>1, <2>2, <2>3, <2>4, IOMoves DEF l
<1> QED
  BY <1>9, <1>10, <1>11, <1>12, <1>13, <1>14 DEF IOStep

\* A setter announces itself to a lock that nobody has announced himself to.
LEMMA CallSetKeeps == ASSUME ListenerInv, NEW t \in Setters, CallSet(t) PROVE ListenerInv'
<1>1. /\ gate \in [Sides -> Gates] /\ setting \in [Setters -> Settings] /\ sets \in 0 .. MaxSets
  BY DEF ListenerInv, ListenerData
<1>2. PICK s \in Sides, v \in BOOLEAN :
         /\ CanAnnounce(gate[s])
         /\ gate' = [gate EXCEPT ![s] = Announce(@, t)]
         /\ setting' = [setting EXCEPT ![t] = [at |-> "lock", side |-> s, val |-> v]]
  BY DEF CallSet
<1>3. setting[t].at = "idle" /\ sets < MaxSets /\ sets' = sets + 1 /\ UNCHANGED <<kind, allowed, accepted, doing, shut>>
  BY DEF CallSet
<1> DEFINE new == [at |-> "lock", side |-> s, val |-> v]
           l == Announce(gate[s], t)
<1>4. new \in Settings /\ new.at = "lock" /\ new.side = s
  <2>1. new \in Settings
    BY Zenon DEF Settings
  <2> QED
    BY <2>1
<1>5. l \in Gates /\ l.writer = t /\ l.readers = gate[s].readers /\ l.waiting = gate[s].waiting
  BY <1>1, AnnounceIs DEF Gates
<1>6. gate' = [gate EXCEPT ![s] = l] /\ setting' = [setting EXCEPT ![t] = new]
  BY <1>2
<1> HIDE DEF new, l
<1>7. gate' \in [Sides -> Gates] /\ gate'[s] = l /\ \A o \in Sides \ {s} : gate'[o] = gate[o]
  BY <1>1, <1>5, <1>6
<1>8. setting' \in [Setters -> Settings] /\ setting'[t] = new /\ \A u \in Setters \ {t} : setting'[u] = setting[u]
  BY <1>1, <1>4, <1>6
<1>9. sets' \in 0 .. MaxSets
  BY <1>1, <1>3, ListenerAssumption
<1>10. ListenerData'
  BY <1>3, <1>7, <1>8, <1>9 DEF ListenerInv, ListenerData
<1>11. \A o \in Sides : gate'[o].readers = gate[o].readers /\ gate'[o].waiting = gate[o].waiting
  BY <1>5, <1>7
<1>12. \A p \in Peers, o \in Sides : Holding(p, o)' /\ Hanging(p, o)'
  BY <1>3, <1>11 DEF ListenerInv, Holding, Hanging
<1>13. ASSUME NEW u \in Setters, NEW o \in Sides PROVE SetterHas(u, o)'
  <2>0. SetterHas(u, o)
    BY DEF ListenerInv
  <2>1. CASE u # t /\ o # s
    BY <1>7, <1>8, <2>0, <2>1 DEF SetterHas
  <2>2. CASE u # t /\ o = s
    <3>1. gate[s].writer # u
      BY <1>2, ListenerAssumption DEF CanAnnounce
    <3>2. gate'[o].writer # u /\ setting'[u] = setting[u]
      BY <1>5, <1>7, <1>8, <2>2
    <3> QED
      BY <2>0, <2>2, <3>1, <3>2 DEF SetterHas
  <2>3. CASE u = t /\ o # s
    <3>1. gate'[o].writer # t
      BY <1>3, <1>7, <2>0, <2>3 DEF SetterHas
    <3> QED
      BY <1>4, <1>8, <2>3, <3>1 DEF SetterHas
  <2>4. CASE u = t /\ o = s
    BY <1>4, <1>5, <1>7, <1>8, <2>4 DEF SetterHas
  <2> QED
    BY <2>1, <2>2, <2>3, <2>4
<1> QED
  BY <1>10, <1>12, <1>13 DEF ListenerInv

\* A setter that owns the lock finds nobody moving bytes.
LEMMA FinishSetKeeps == ASSUME ListenerInv, NEW t \in Setters, FinishSet(t) PROVE ListenerInv'
<1> DEFINE s == setting[t].side
           l == Unlock(gate[s])
<1>1. /\ gate \in [Sides -> Gates] /\ setting \in [Setters -> Settings] /\ s \in Sides
      /\ allowed \in [Sides -> BOOLEAN] /\ setting[t].val \in BOOLEAN
  BY DEF ListenerInv, ListenerData, Settings
<1>2. /\ setting[t].at = "lock" /\ gate[s].writer = t /\ gate[s].readers = {}
      /\ allowed' = [allowed EXCEPT ![s] = setting[t].val]
      /\ gate' = [gate EXCEPT ![s] = l]
      /\ setting' = [setting EXCEPT ![t] = Unset]
      /\ UNCHANGED <<kind, accepted, doing, shut, sets>>
  BY DEF FinishSet, HoldsWrite
<1>3. l \in Gates /\ l.writer = NoWriter /\ l.readers = gate[s].waiting /\ l.waiting = {}
  BY <1>1, UnlockIs DEF Gates
<1>4. Unset \in Settings /\ Unset.at = "idle"
  <2>1. "read" \in Sides /\ TRUE \in BOOLEAN /\ "idle" \in {"idle", "lock"}
    BY DEF Sides
  <2>2. Unset \in Settings
    BY <2>1, Zenon DEF Unset, Settings
  <2> QED
    BY <2>2 DEF Unset
<1> HIDE DEF l
<1>5. gate' \in [Sides -> Gates] /\ gate'[s] = l /\ \A o \in Sides \ {s} : gate'[o] = gate[o]
  BY <1>1, <1>2, <1>3
<1>6. setting' \in [Setters -> Settings] /\ setting'[t] = Unset /\ \A u \in Setters \ {t} : setting'[u] = setting[u]
  BY <1>1, <1>2, <1>4
<1>7. allowed' \in [Sides -> BOOLEAN] /\ \A o \in Sides \ {s} : allowed'[o] = allowed[o]
  BY <1>1, <1>2
<1>8. ListenerData'
  BY <1>2, <1>5, <1>6, <1>7 DEF ListenerInv, ListenerData
<1>9. ASSUME NEW p \in Peers, NEW o \in Sides PROVE Holding(p, o)' /\ Hanging(p, o)'
  <2>0. Holding(p, o) /\ Hanging(p, o)
    BY DEF ListenerInv
  <2>1. CASE o # s
    BY <1>2, <1>5, <1>7, <2>0, <2>1 DEF Holding, Hanging
  <2>2. CASE o = s
    <3>1. gate'[o].readers = gate[o].waiting /\ gate'[o].waiting = {} /\ gate[o].readers = {}
      BY <1>2, <1>3, <1>5, <2>2
    <3>2. doing[p][o] \notin {"move", "half"}
      BY <2>0, <3>1 DEF Holding
    <3> QED
      BY <1>2, <2>0, <3>1, <3>2 DEF Holding, Hanging
  <2> QED
    BY <2>1, <2>2
<1>10. ASSUME NEW u \in Setters, NEW o \in Sides PROVE SetterHas(u, o)'
  <2>0. SetterHas(u, o)
    BY DEF ListenerInv
  <2>1. CASE o # s
    <3>1. gate'[o] = gate[o]
      BY <1>5, <2>1
    <3>2. CASE u = t
      <4>1. gate[o].writer # u
        BY <2>0, <2>1, <3>2 DEF SetterHas
      <4> QED
        BY <1>4, <1>6, <3>1, <3>2, <4>1 DEF SetterHas
    <3>3. CASE u # t
      BY <1>6, <2>0, <3>1, <3>3 DEF SetterHas
    <3> QED
      BY <3>2, <3>3
  <2>2. CASE o = s
    <3>1. gate'[o].writer # u
      BY <1>3, <1>5, <2>2, ListenerAssumption
    <3>2. CASE u = t
      BY <1>4, <1>6, <3>1, <3>2 DEF SetterHas
    <3>3. CASE u # t
      <4>1. gate[o].writer # u
        BY <1>2, <2>2, <3>3
      <4> QED
        BY <1>6, <2>0, <3>1, <3>3, <4>1 DEF SetterHas
    <3> QED
      BY <3>2, <3>3
  <2> QED
    BY <2>1, <2>2
<1> QED
  BY <1>8, <1>9, <1>10 DEF ListenerInv

\* Every step of the listener, its connections and its setters keeps the invariant.
LEMMA ListenerSteps == ASSUME ListenerInv, [ListenerNext]_listenerVars PROVE ListenerInv'
<1>1. ASSUME NEW p \in Peers, Accept(p) PROVE ListenerInv'
  BY <1>1 DEF Accept, ListenerInv, ListenerData, Holding, Hanging, SetterHas
<1>2. CASE CloseListener
  BY <1>2 DEF CloseListener, ListenerInv, ListenerData, Holding, Hanging, SetterHas
<1>3. CASE DropAll
  <2>1. accepted' \in [Peers -> {"none", "open", "closed"}]
    BY <1>3 DEF DropAll, ListenerInv, ListenerData
  <2> QED
    BY <1>3, <2>1 DEF DropAll, ListenerInv, ListenerData, Holding, Hanging, SetterHas
<1>4. CASE UNCHANGED listenerVars
  BY <1>4 DEF listenerVars, ListenerInv, ListenerData, Holding, Hanging, SetterHas
<1> QED
  BY <1>1, <1>2, <1>3, <1>4, CallSetKeeps, FinishSetKeeps, IOKeeps DEF ListenerNext

\* The safety part of ListenerObeys.
ListenerSafe == ListenerTypeOK /\ OffStaysOff

\* For any connections and setters: the locks are held by those that should, and once a
\* setter has returned no whole buffer moves the way it has switched off, but on a hanging
\* connection of a closed listener.
THEOREM ListenerIsSafe == ListenerSpec => []ListenerSafe
<1>1. ListenerInv => ListenerSafe
  <2> SUFFICES ASSUME ListenerInv PROVE ListenerSafe
    OBVIOUS
  <2>1. \A p \in Peers, s \in Sides : p \in gate[s].readers \cup gate[s].waiting <=> doing[p][s] \notin {"idle", "hang"}
    BY DEF ListenerInv, Holding
  <2>2. \A t \in Setters, s \in Sides : gate[s].writer = t <=> setting[t].at = "lock" /\ setting[t].side = s
    BY DEF ListenerInv, SetterHas
  <2>3. ListenerTypeOK
    BY <2>1, <2>2, Zenon DEF ListenerInv, ListenerData, ListenerTypeOK, Gates, Doings, Settings
  <2>4. OffStaysOff
    BY DEF ListenerInv, Hanging, OffStaysOff
  <2> QED
    BY <2>3, <2>4 DEF ListenerSafe
<1> QED
  BY <1>1, ListenerInvInit, ListenerSteps, PTL DEF ListenerSpec

------------------------------------------------------------------------------
(* The pipeline. *)

ArrivalAts == {"new", "online?", "callbacks", "running", "adding", "locking", "handler", "answered"}
ArrivalOf == [at : ArrivalAts, list : Lists, next : Int, to : Lists,
              status : {"none", "refused", "handled", "panicked"}, ran : Int, before : [Lists -> Int]]
PipeLocks == RWMutexes(Arrivals, Arrivals \cup Adders)

\* Those that have found room for a callback and not registered it yet.
Coming(k) ==
    {r \in Arrivals : arrival[r].at \in {"adding", "locking"} /\ arrival[r].to = k}
        \cup {a \in Adders : adder[a] = "locking" /\ AddsTo[a] = k}

Everybody == Cardinality(Arrivals \cup Adders)

PipelineData ==
    /\ offline \in BOOLEAN
    /\ callbacks \in [Lists -> Int]
    /\ locks \in [Lists -> PipeLocks]
    /\ arrival \in [Arrivals -> ArrivalOf]
    /\ adder \in [Adders -> {"new", "locking", "added"}]
    /\ nested \subseteq Lists \X Lists

\* All that have found room can register.
Room == \A k \in Lists : 1 <= callbacks[k] /\ callbacks[k] + Cardinality(Coming(k)) <= MaxCallbacks + Everybody

\* A hold of the lock l of the list k is one of a request that goes through it, taken once.
Held(l, k, r, n) ==
    /\ r \in l.readers => n.list = k /\ n.at \in {"running", "adding", "locking"}
    /\ r \in l.waiting => n.list = k /\ n.at = "running" /\ r \notin l.readers

\* What a request has behind it, compared with what there was when it came.
Seen(n, cb) ==
    /\ \A k \in Lists : n.before[k] <= cb[k]
    /\ n.at \in {"new", "online?", "handler"} => n.status = "none"
    /\ n.at \in {"callbacks", "running", "adding", "locking"} /\ n.list = "hooks" => n.status = "none"
    /\ n.at = "handler" \/ n.status = "handled" => n.ran >= n.before["hooks"]
    /\ n.at = "answered" /\ n.status # "panicked" => n.next > n.before["watchers"]

PipelineInv ==
    /\ PipelineData /\ Room
    /\ \A k \in Lists, r \in Arrivals : Held(locks[k], k, r, arrival[r])
    /\ \A r \in Arrivals : Seen(arrival[r], callbacks)

\* The server begins with its own callbacks and no request.
LEMMA PipelineInvInit == PipelineInit => PipelineInv
<1> SUFFICES ASSUME PipelineInit PROVE PipelineInv
  OBVIOUS
<1> USE DEF PipelineInit
<1>1. NewArrival \in ArrivalOf /\ NewArrival.at = "new" /\ NewArrival.status = "none" /\ \A k \in Lists : NewArrival.before[k] = 0
  <2>1. [k \in Lists |-> 0] \in [Lists -> Int] /\ "new" \in ArrivalAts /\ "hooks" \in Lists /\ 1 \in Int /\ 0 \in Int
    BY DEF ArrivalAts, Lists
  <2>2. NewArrival \in ArrivalOf
    BY <2>1, Zenon DEF NewArrival, ArrivalOf
  <2> QED
    BY <2>2 DEF NewArrival
<1>2. Unlocked \in PipeLocks /\ Unlocked.readers = {} /\ Unlocked.waiting = {}
  BY DEF Unlocked, PipeLocks, RWMutexes
<1>3. \A r \in Arrivals : arrival[r] = NewArrival
  OBVIOUS
<1>4. PipelineData
  <2>1. callbacks \in [Lists -> Int] /\ locks \in [Lists -> PipeLocks] /\ arrival \in [Arrivals -> ArrivalOf]
    BY <1>1, <1>2
  <2>2. adder \in [Adders -> {"new", "locking", "added"}]
    OBVIOUS
  <2> QED
    BY <2>1, <2>2 DEF PipelineData
<1>5. \A k \in Lists : Coming(k) = {}
  BY <1>1, <1>3 DEF Coming
<1>6. Everybody \in Nat
  BY PipelineAssumption, FS_Union, FS_CardinalityType DEF Everybody
<1>7. Room
  BY <1>5, <1>6, FS_EmptySet, PipelineAssumption DEF Room
<1>8. \A k \in Lists, r \in Arrivals : Held(locks[k], k, r, arrival[r])
  BY <1>2 DEF Held
<1>9. \A r \in Arrivals : Seen(arrival[r], callbacks)
  BY <1>1, <1>3 DEF Seen, Lists
<1> QED
  BY <1>4, <1>7, <1>8, <1>9 DEF PipelineInv

\* How many are on their way to register.
LEMMA ComingIs ==
    /\ Everybody \in Nat
    /\ \A k : Cardinality(Coming(k)) \in Nat /\ Cardinality(Coming(k)) <= Everybody /\ IsFiniteSet(Coming(k))
<1>1. IsFiniteSet(Arrivals \cup Adders)
  BY PipelineAssumption, FS_Union
<1>2. Everybody \in Nat
  BY <1>1, FS_CardinalityType DEF Everybody
<1>3. \A k : Coming(k) \subseteq Arrivals \cup Adders
  BY DEF Coming
<1>4. \A k : IsFiniteSet(Coming(k)) /\ Cardinality(Coming(k)) <= Everybody
  BY <1>1, <1>3, FS_Subset DEF Everybody
<1>5. \A k : Cardinality(Coming(k)) \in Nat
  BY <1>4, FS_CardinalityType
<1> QED
  BY <1>2, <1>4, <1>5

\* The same, in the next state.
LEMMA ComingIsToo ==
    ASSUME NEW k
    PROVE  Cardinality(Coming(k))' \in Nat /\ Cardinality(Coming(k))' <= Everybody /\ IsFiniteSet(Coming(k))'
<1>1. IsFiniteSet(Arrivals \cup Adders)
  BY PipelineAssumption, FS_Union
<1>2. Coming(k)' \subseteq Arrivals \cup Adders
  BY DEF Coming
<1>3. IsFiniteSet(Coming(k)') /\ Cardinality(Coming(k)') <= Everybody
  BY <1>1, <1>2, FS_Subset DEF Everybody
<1> QED
  BY <1>3, FS_CardinalityType

\* A request goes on, and nothing is registered.
LEMMA ArrivalMoves ==
    ASSUME PipelineInv, NEW r \in Arrivals, NEW n \in ArrivalOf, arrival' = [arrival EXCEPT ![r] = n],
           NEW k \in Lists, NEW l \in PipeLocks, locks' = [locks EXCEPT ![k] = l],
           UNCHANGED <<callbacks, adder>>, offline' \in BOOLEAN, nested' \subseteq Lists \X Lists,
           l.readers \ {r} = locks[k].readers \ {r}, l.waiting \ {r} = locks[k].waiting \ {r},
           Held(l, k, r, n), \A j \in Lists \ {k} : Held(locks[j], j, r, n),
           Seen(n, callbacks),
           \/ n.at \notin {"adding", "locking"} /\ arrival[r].at \notin {"adding", "locking"}
           \/ n.at \in {"adding", "locking"} /\ arrival[r].at \in {"adding", "locking"} /\ n.to = arrival[r].to
           \/ n.at = "adding" /\ callbacks[n.to] < MaxCallbacks /\ arrival[r].at \notin {"adding", "locking"}
    PROVE  PipelineInv'
<1>1. /\ locks \in [Lists -> PipeLocks] /\ arrival \in [Arrivals -> ArrivalOf] /\ callbacks \in [Lists -> Int]
  BY DEF PipelineInv, PipelineData
<1>2. locks' \in [Lists -> PipeLocks] /\ locks'[k] = l /\ \A j \in Lists \ {k} : locks'[j] = locks[j]
  BY <1>1
<1>3. arrival' \in [Arrivals -> ArrivalOf] /\ arrival'[r] = n /\ \A q \in Arrivals \ {r} : arrival'[q] = arrival[q]
  BY <1>1
<1>4. PipelineData'
  BY <1>2, <1>3 DEF PipelineInv, PipelineData
<1>5. ASSUME NEW j \in Lists, NEW q \in Arrivals PROVE Held(locks'[j], j, q, arrival'[q])
  <2>0. Held(locks[j], j, q, arrival[q])
    BY DEF PipelineInv
  <2>1. CASE q = r
    BY <1>2, <1>3, <2>1
  <2>2. CASE q # r /\ j # k
    BY <1>2, <1>3, <2>0, <2>2
  <2>3. CASE q # r /\ j = k
    <3>1. (q \in l.readers <=> q \in locks[j].readers) /\ (q \in l.waiting <=> q \in locks[j].waiting)
      BY <2>3
    <3>2. locks'[j] = l /\ arrival'[q] = arrival[q]
      BY <1>2, <1>3, <2>3
    <3> QED
      BY <2>0, <3>1, <3>2 DEF Held
  <2> QED
    BY <2>1, <2>2, <2>3
<1>6. \A q \in Arrivals : Seen(arrival'[q], callbacks)
  BY <1>3 DEF PipelineInv
<1>7. Room'
  <2> SUFFICES ASSUME NEW j \in Lists
               PROVE  1 <= callbacks[j] /\ callbacks[j] + Cardinality(Coming(j)') <= MaxCallbacks + Everybody
    BY DEF Room, Everybody
  <2>1. callbacks[j] \in Int /\ 1 <= callbacks[j] /\ callbacks[j] + Cardinality(Coming(j)) <= MaxCallbacks + Everybody
    BY <1>1 DEF PipelineInv, Room
  <2>2. CASE n.at = "adding" /\ callbacks[n.to] < MaxCallbacks /\ j = n.to
    <3>1. Cardinality(Coming(j)') \in Nat /\ Cardinality(Coming(j)') <= Everybody /\ Everybody \in Nat
      BY ComingIs, ComingIsToo
    <3> QED
      BY <2>1, <2>2, <3>1, PipelineAssumption
  <2>3. CASE ~(n.at = "adding" /\ callbacks[n.to] < MaxCallbacks /\ j = n.to)
    <3>1. arrival'[r].at \in {"adding", "locking"} /\ arrival'[r].to = j
            <=> arrival[r].at \in {"adding", "locking"} /\ arrival[r].to = j
      BY <1>3, <2>3
    <3>2. \A q \in Arrivals : arrival'[q].at \in {"adding", "locking"} /\ arrival'[q].to = j
            <=> arrival[q].at \in {"adding", "locking"} /\ arrival[q].to = j
      BY <1>3, <3>1
    <3>3. Coming(j)' = Coming(j)
      BY <3>2, Zenon DEF Coming
    <3> QED
      BY <2>1, <3>3
  <2> QED
    BY <2>2, <2>3
<1> QED
  BY <1>4, <1>5, <1>6, <1>7 DEF PipelineInv

\* A request without a change of locks.
LEMMA OnlyArrival ==
    ASSUME PipelineInv, NEW r \in Arrivals, NEW n \in ArrivalOf, arrival' = [arrival EXCEPT ![r] = n],
           UNCHANGED <<callbacks, locks, adder, offline>>, nested' \subseteq Lists \X Lists,
           \A j \in Lists : Held(locks[j], j, r, n), Seen(n, callbacks),
           \/ n.at \notin {"adding", "locking"} /\ arrival[r].at \notin {"adding", "locking"}
           \/ n.at = "adding" /\ callbacks[n.to] < MaxCallbacks /\ arrival[r].at \notin {"adding", "locking"}
    PROVE  PipelineInv'
<1>1. locks \in [Lists -> PipeLocks] /\ "hooks" \in Lists /\ offline \in BOOLEAN
  BY DEF PipelineInv, PipelineData, Lists
<1> DEFINE l == locks["hooks"]
<1>2. locks' = [locks EXCEPT !["hooks"] = l] /\ l \in PipeLocks
  BY <1>1
<1> HIDE DEF l
<1>3. l = locks["hooks"]
  BY DEF l
<1>4. offline' \in BOOLEAN
  BY <1>1
<1> QED
  BY <1>1, <1>2, <1>3, <1>4, ArrivalMoves

\* What a request is when some of its fields change.
LEMMA FieldsAre ==
    ASSUME PipelineData, NEW r \in Arrivals
    PROVE  /\ arrival \in [Arrivals -> ArrivalOf] /\ arrival[r] \in ArrivalOf
           /\ arrival[r].at \in ArrivalAts /\ arrival[r].list \in Lists /\ arrival[r].next \in Int
           /\ arrival[r].to \in Lists /\ arrival[r].status \in {"none", "refused", "handled", "panicked"}
           /\ arrival[r].ran \in Int /\ arrival[r].before \in [Lists -> Int]
           /\ callbacks \in [Lists -> Int] /\ locks \in [Lists -> PipeLocks]
<1>1. arrival[r] \in ArrivalOf
  BY DEF PipelineData
<1> QED
  BY <1>1 DEF ArrivalOf, PipelineData

\* A request that holds no lock.
LEMMA HoldsNone ==
    ASSUME PipelineInv, NEW r \in Arrivals, arrival[r].at \notin {"running", "adding", "locking"}
    PROVE  \A j \in Lists : r \notin locks[j].readers /\ r \notin locks[j].waiting
  BY DEF PipelineInv, Held

\* A request comes, and is compared from then on with the callbacks there are.
LEMMA ComeKeeps == ASSUME PipelineInv, NEW r \in Arrivals, Come(r) PROVE PipelineInv'
<1> DEFINE n == [arrival[r] EXCEPT !.at = "online?", !.before = callbacks]
<1>1. arrival[r].at = "new" /\ UNCHANGED <<offline, callbacks, locks, adder, nested>>
  BY DEF Come
<1>2. arrival[r] \in ArrivalOf /\ arrival \in [Arrivals -> ArrivalOf] /\ callbacks \in [Lists -> Int] /\ nested \subseteq Lists \X Lists
  BY FieldsAre DEF PipelineInv, PipelineData
<1>3. arrival' = [arrival EXCEPT ![r].at = "online?", ![r].before = callbacks]
  BY DEF Come
<1>4. arrival' = [arrival EXCEPT ![r] = n]
  BY <1>2, <1>3
<1>5. n.at = "online?" /\ n.before = callbacks /\ n.status = arrival[r].status
  BY <1>2 DEF ArrivalOf
<1>6. n \in ArrivalOf
  <2>1. "online?" \in ArrivalAts
    BY DEF ArrivalAts
  <2> QED
    BY <1>2, <2>1, Zenon DEF ArrivalOf
<1> HIDE DEF n
<1>7. Seen(arrival[r], callbacks)
  BY DEF PipelineInv
<1>8. Seen(n, callbacks)
  BY <1>1, <1>2, <1>5, <1>7 DEF Seen
<1>9. \A j \in Lists : Held(locks[j], j, r, n)
  BY <1>1, HoldsNone DEF Held
<1> QED
  BY <1>1, <1>2, <1>4, <1>5, <1>6, <1>8, <1>9, OnlyArrival

\* A status before the callbacks of the watchers.
LEMMA EndedIs ==
    ASSUME PipelineData, NEW r \in Arrivals, NEW st \in {"none", "refused", "handled", "panicked"}
    PROVE  \E n \in ArrivalOf : /\ Ended(r, st) = [arrival EXCEPT ![r] = n]
                                /\ n.status = st /\ n.at = "callbacks" /\ n.list = "watchers" /\ n.next = 1
                                /\ n.ran = arrival[r].ran /\ n.before = arrival[r].before
<1> DEFINE q == arrival[r]
           n == [q EXCEPT !.status = st, !.at = "callbacks", !.list = "watchers", !.next = 1]
<1>1. arrival \in [Arrivals -> ArrivalOf] /\ q \in ArrivalOf
  BY FieldsAre
<1>2. Ended(r, st) = [arrival EXCEPT ![r].status = st, ![r].at = "callbacks", ![r].list = "watchers", ![r].next = 1]
  BY DEF Ended
<1>3. Ended(r, st) = [arrival EXCEPT ![r] = n]
  BY <1>1, <1>2
<1> HIDE DEF q
<1>4. /\ n.status = st /\ n.at = "callbacks" /\ n.list = "watchers" /\ n.next = 1
      /\ n.ran = q.ran /\ n.before = q.before
  BY <1>1 DEF ArrivalOf
<1>5. n \in ArrivalOf
  <2>1. "callbacks" \in ArrivalAts /\ "watchers" \in Lists /\ 1 \in Int
    BY DEF ArrivalAts, Lists
  <2> QED
    BY <1>1, <2>1, Zenon DEF ArrivalOf
<1> HIDE DEF n
<1> QED
  BY <1>3, <1>4, <1>5 DEF q

\* A request that panics has its answer, and holds nothing.
LEMMA PanickedIs ==
    ASSUME PipelineData, NEW r \in Arrivals
    PROVE  \E n \in ArrivalOf : /\ Panicked(r) = [arrival EXCEPT ![r] = n]
                                /\ n.status = "panicked" /\ n.at = "answered" /\ n.before = arrival[r].before
<1> DEFINE q == arrival[r]
           n == [q EXCEPT !.at = "answered", !.status = "panicked"]
<1>1. arrival \in [Arrivals -> ArrivalOf] /\ q \in ArrivalOf
  BY FieldsAre
<1>2. Panicked(r) = [arrival EXCEPT ![r].at = "answered", ![r].status = "panicked"]
  BY DEF Panicked
<1>3. Panicked(r) = [arrival EXCEPT ![r] = n]
  BY <1>1, <1>2
<1> HIDE DEF q
<1>4. n.status = "panicked" /\ n.at = "answered" /\ n.before = q.before
  BY <1>1 DEF ArrivalOf
<1>5. n \in ArrivalOf
  <2>1. "answered" \in ArrivalAts
    BY DEF ArrivalAts
  <2> QED
    BY <1>1, <2>1, Zenon DEF ArrivalOf
<1> HIDE DEF n
<1> QED
  BY <1>3, <1>4, <1>5 DEF q

\* The offline check lets the request on to the hooks, or refuses it.
LEMMA CheckKeeps == ASSUME PipelineInv, NEW r \in Arrivals, CheckRequest(r) PROVE PipelineInv'
<1>1. arrival[r].at = "online?" /\ UNCHANGED <<offline, callbacks, locks, adder, nested>>
  BY DEF CheckRequest
<1>2. /\ arrival[r] \in ArrivalOf /\ arrival \in [Arrivals -> ArrivalOf] /\ nested \subseteq Lists \X Lists
      /\ Seen(arrival[r], callbacks) /\ PipelineData
  BY FieldsAre DEF PipelineInv, PipelineData
<1>3. arrival' = Ended(r, "refused") \/ arrival' = ToHooks(r)
  BY DEF CheckRequest
<1>4. \A j \in Lists : r \notin locks[j].readers /\ r \notin locks[j].waiting
  BY <1>1, HoldsNone
<1>5. CASE arrival' = Ended(r, "refused")
  <2>1. PICK n \in ArrivalOf : /\ Ended(r, "refused") = [arrival EXCEPT ![r] = n]
                               /\ n.status = "refused" /\ n.at = "callbacks" /\ n.list = "watchers" /\ n.next = 1
                               /\ n.ran = arrival[r].ran /\ n.before = arrival[r].before
    BY <1>2, EndedIs
  <2>2. Seen(n, callbacks)
    BY <1>2, <2>1 DEF Seen
  <2>3. \A j \in Lists : Held(locks[j], j, r, n)
    BY <1>4 DEF Held
  <2>4. arrival' = [arrival EXCEPT ![r] = n] /\ n.at \notin {"adding", "locking"}
    BY <1>5, <2>1
  <2> QED
    BY <1>1, <1>2, <2>2, <2>3, <2>4, OnlyArrival
<1>6. CASE arrival' = ToHooks(r)
  <2> DEFINE q == arrival[r]
             n == [q EXCEPT !.at = "callbacks", !.list = "hooks"]
  <2>1. arrival' = [arrival EXCEPT ![r] = n]
    BY <1>2, <1>6 DEF ToHooks
  <2>2. q \in ArrivalOf /\ q.at = "online?" /\ Seen(q, callbacks)
    BY <1>1, <1>2
  <2> HIDE DEF q
  <2>3. n.at = "callbacks" /\ n.status = q.status /\ n.before = q.before
    BY <2>2 DEF ArrivalOf
  <2>4. n \in ArrivalOf
    <3>1. "callbacks" \in ArrivalAts /\ "hooks" \in Lists
      BY DEF ArrivalAts, Lists
    <3> QED
      BY <2>2, <3>1, Zenon DEF ArrivalOf
  <2> HIDE DEF n
  <2>5. Seen(n, callbacks)
    BY <2>2, <2>3 DEF Seen
  <2>6. \A j \in Lists : Held(locks[j], j, r, n)
    BY <1>4 DEF Held
  <2>7. n.at \notin {"adding", "locking"}
    BY <2>3
  <2> QED
    BY <1>1, <1>2, <2>1, <2>4, <2>5, <2>6, <2>7, OnlyArrival
<1> QED
  BY <1>3, <1>5, <1>6

\* The handler answers, and the watchers are next.
LEMMA HandleKeeps == ASSUME PipelineInv, NEW r \in Arrivals, Handle(r) PROVE PipelineInv'
<1>1. arrival[r].at = "handler" /\ UNCHANGED <<offline, callbacks, locks, adder, nested>>
  BY DEF Handle
<1>2. nested \subseteq Lists \X Lists /\ Seen(arrival[r], callbacks) /\ PipelineData
  BY DEF PipelineInv, PipelineData
<1>3. arrival' = Ended(r, "handled") \/ arrival' = Panicked(r)
  BY DEF Handle
<1>4. \A j \in Lists : r \notin locks[j].readers /\ r \notin locks[j].waiting
  BY <1>1, HoldsNone
<1>5. CASE arrival' = Ended(r, "handled")
  <2>1. PICK n \in ArrivalOf : /\ Ended(r, "handled") = [arrival EXCEPT ![r] = n]
                               /\ n.status = "handled" /\ n.at = "callbacks" /\ n.list = "watchers" /\ n.next = 1
                               /\ n.ran = arrival[r].ran /\ n.before = arrival[r].before
    BY <1>2, EndedIs
  <2>2. Seen(n, callbacks)
    BY <1>1, <1>2, <2>1 DEF Seen
  <2>3. \A j \in Lists : Held(locks[j], j, r, n)
    BY <1>4 DEF Held
  <2>4. arrival' = [arrival EXCEPT ![r] = n] /\ n.at \notin {"adding", "locking"}
    BY <1>5, <2>1
  <2> QED
    BY <1>1, <1>2, <2>2, <2>3, <2>4, OnlyArrival
<1>6. CASE arrival' = Panicked(r)
  <2>1. PICK n \in ArrivalOf : /\ Panicked(r) = [arrival EXCEPT ![r] = n]
                               /\ n.status = "panicked" /\ n.at = "answered" /\ n.before = arrival[r].before
    BY <1>2, PanickedIs
  <2>2. Seen(n, callbacks)
    BY <1>2, <2>1 DEF Seen
  <2>3. \A j \in Lists : Held(locks[j], j, r, n)
    BY <1>4 DEF Held
  <2>4. arrival' = [arrival EXCEPT ![r] = n] /\ n.at \notin {"adding", "locking"}
    BY <1>6, <2>1
  <2> QED
    BY <1>1, <1>2, <2>2, <2>3, <2>4, OnlyArrival
<1> QED
  BY <1>3, <1>5, <1>6

\* A request asks for the lock its callbacks run under.
LEMMA AskKeeps == ASSUME PipelineInv, NEW r \in Arrivals, AskForCallbacks(r) PROVE PipelineInv'
<1> DEFINE q == arrival[r]
           k == q.list
           n == [q EXCEPT !.at = "running"]
           l == RLock(locks[k], r)
<1>1. /\ q.at = "callbacks" /\ locks' = [locks EXCEPT ![k] = l] /\ arrival' = [arrival EXCEPT ![r].at = "running"]
      /\ UNCHANGED <<offline, callbacks, adder, nested>>
  BY DEF AskForCallbacks
<1>2. /\ q \in ArrivalOf /\ arrival \in [Arrivals -> ArrivalOf] /\ k \in Lists /\ locks[k] \in PipeLocks
      /\ nested \subseteq Lists \X Lists /\ offline \in BOOLEAN /\ Seen(q, callbacks)
  BY FieldsAre DEF PipelineInv, PipelineData
<1>3. arrival' = [arrival EXCEPT ![r] = n]
  BY <1>1, <1>2
<1>4. \A j \in Lists : r \notin locks[j].readers /\ r \notin locks[j].waiting
  BY <1>1, HoldsNone
<1>5. /\ l \in PipeLocks /\ l.readers \ {r} = locks[k].readers \ {r} /\ l.waiting \ {r} = locks[k].waiting \ {r}
      /\ ~(r \in l.readers /\ r \in l.waiting)
  BY <1>2, <1>4, RLockIs DEF PipeLocks
<1> HIDE DEF q
<1>6. n.at = "running" /\ n.list = k /\ n.status = q.status /\ n.before = q.before /\ n.ran = q.ran
  BY <1>2 DEF ArrivalOf
<1>7. n \in ArrivalOf
  <2>1. "running" \in ArrivalAts
    BY DEF ArrivalAts
  <2> QED
    BY <1>2, <2>1, Zenon DEF ArrivalOf
<1> HIDE DEF n, l
<1>8. Seen(n, callbacks)
  BY <1>1, <1>2, <1>6 DEF Seen
<1>9. Held(l, k, r, n) /\ \A j \in Lists \ {k} : Held(locks[j], j, r, n)
  BY <1>4, <1>5, <1>6 DEF Held
<1>10. n.at \notin {"adding", "locking"} /\ arrival[r].at \notin {"adding", "locking"} /\ offline' \in BOOLEAN /\ nested' \subseteq Lists \X Lists
  BY <1>1, <1>2, <1>6 DEF q
<1> HIDE DEF k
<1> QED
  BY <1>1, <1>2, <1>3, <1>5, <1>7, <1>8, <1>9, <1>10, ArrivalMoves

\* Callbacks run while the lock is held.
LEMMA RunningHolds ==
    ASSUME PipelineInv, NEW r \in Arrivals, Running(r)
    PROVE  LET k == arrival[r].list IN
           /\ k \in Lists /\ r \in locks[k].readers /\ r \notin locks[k].waiting
           /\ \A j \in Lists \ {k} : r \notin locks[j].readers /\ r \notin locks[j].waiting
<1>1. arrival[r].list \in Lists /\ r \in locks[arrival[r].list].readers
  BY FieldsAre DEF PipelineInv, Running, HoldsRead
<1>2. \A j \in Lists : Held(locks[j], j, r, arrival[r])
  BY DEF PipelineInv
<1> QED
  BY <1>1, <1>2 DEF Held

\* The lock of a request that runs callbacks is released.
LEMMA ReleaseKeeps ==
    ASSUME PipelineInv, NEW r \in Arrivals, NEW n \in ArrivalOf, Running(r), Release(r),
           arrival' = [arrival EXCEPT ![r] = n], UNCHANGED <<offline, callbacks, adder, nested>>,
           n.at \notin {"running", "adding", "locking"}, Seen(n, callbacks)
    PROVE  PipelineInv'
<1> DEFINE k == arrival[r].list
           l == RUnlock(locks[k], r)
<1>1. /\ k \in Lists /\ r \in locks[k].readers /\ r \notin locks[k].waiting
      /\ \A j \in Lists \ {k} : r \notin locks[j].readers /\ r \notin locks[j].waiting
  BY RunningHolds
<1>2. locks' = [locks EXCEPT ![k] = l]
  BY DEF Release
<1>3. locks[k] \in PipeLocks /\ nested \subseteq Lists \X Lists /\ offline \in BOOLEAN /\ arrival[r].at = "running"
  BY <1>1 DEF PipelineInv, PipelineData, Running
<1>4. l \in PipeLocks /\ l.readers = locks[k].readers \ {r} /\ l.waiting = locks[k].waiting
  BY <1>3, RUnlockIs DEF PipeLocks
<1> HIDE DEF l
<1>5. Held(l, k, r, n) /\ \A j \in Lists \ {k} : Held(locks[j], j, r, n)
  BY <1>1, <1>4 DEF Held
<1>6. l.readers \ {r} = locks[k].readers \ {r} /\ l.waiting \ {r} = locks[k].waiting \ {r}
  BY <1>4
<1>7. n.at \notin {"adding", "locking"} /\ arrival[r].at \notin {"adding", "locking"} /\ offline' \in BOOLEAN /\ nested' \subseteq Lists \X Lists
  BY <1>3
<1> HIDE DEF k
<1> QED
  BY <1>1, <1>2, <1>4, <1>5, <1>6, <1>7, ArrivalMoves

\* A callback runs, and may begin to register another, refuse, or panic.
LEMMA CallbackKeeps == ASSUME PipelineInv, NEW r \in Arrivals, Callback(r) PROVE PipelineInv'
<1> DEFINE q == arrival[r]
<1>1. Running(r) /\ q.at = "running"
  BY DEF Callback, CallbackReturns, HookEnds, CallbackPanics, CallbackAdds, Running
<1>2. /\ q \in ArrivalOf /\ arrival \in [Arrivals -> ArrivalOf] /\ nested \subseteq Lists \X Lists
      /\ q.next \in Int /\ Seen(q, callbacks) /\ PipelineData
  BY FieldsAre DEF PipelineInv, PipelineData
<1>3. \A j \in Lists : Held(locks[j], j, r, q)
  BY DEF PipelineInv
<1>4. CASE CallbackReturns(r)
  <2> DEFINE n == [q EXCEPT !.next = @ + 1]
  <2>1. arrival' = [arrival EXCEPT ![r].next = @ + 1] /\ UNCHANGED <<offline, callbacks, locks, adder, nested>>
    BY <1>4 DEF CallbackReturns
  <2>2. arrival' = [arrival EXCEPT ![r] = n]
    BY <1>2, <2>1
  <2> HIDE DEF q
  <2>3. n \in ArrivalOf
    <3>1. q.next + 1 \in Int
      BY <1>2
    <3> QED
      BY <1>2, <3>1, Zenon DEF ArrivalOf
  <2>4. n.at = q.at /\ n.list = q.list /\ n.status = q.status /\ n.ran = q.ran /\ n.before = q.before
    BY <1>2 DEF ArrivalOf
  <2> HIDE DEF n
  <2>5. Seen(n, callbacks)
    BY <1>1, <1>2, <2>4 DEF Seen
  <2>6. \A j \in Lists : Held(locks[j], j, r, n)
    BY <1>3, <2>4 DEF Held
  <2>7. n.at \notin {"adding", "locking"} /\ arrival[r].at \notin {"adding", "locking"}
    BY <1>1, <2>4 DEF q
  <2> QED
    BY <1>2, <2>1, <2>2, <2>3, <2>5, <2>6, <2>7, OnlyArrival
<1>5. CASE HookEnds(r)
  <2>1. /\ q.list = "hooks" /\ arrival' = Ended(r, "refused") /\ Release(r)
        /\ UNCHANGED <<offline, callbacks, adder, nested>>
    BY <1>5 DEF HookEnds, ReleaseAtStatus
  <2>2. PICK n \in ArrivalOf : /\ Ended(r, "refused") = [arrival EXCEPT ![r] = n]
                               /\ n.status = "refused" /\ n.at = "callbacks" /\ n.list = "watchers" /\ n.next = 1
                               /\ n.ran = arrival[r].ran /\ n.before = arrival[r].before
    BY <1>2, EndedIs
  <2>3. Seen(n, callbacks)
    BY <1>2, <2>2 DEF Seen
  <2>4. arrival' = [arrival EXCEPT ![r] = n] /\ n.at \notin {"running", "adding", "locking"}
    BY <2>1, <2>2
  <2> QED
    BY <1>1, <2>1, <2>3, <2>4, ReleaseKeeps
<1>6. CASE CallbackPanics(r)
  <2>1. arrival' = Panicked(r) /\ Release(r) /\ UNCHANGED <<offline, callbacks, adder, nested>>
    BY <1>6 DEF CallbackPanics
  <2>2. PICK n \in ArrivalOf : /\ Panicked(r) = [arrival EXCEPT ![r] = n]
                               /\ n.status = "panicked" /\ n.at = "answered" /\ n.before = arrival[r].before
    BY <1>2, PanickedIs
  <2>3. Seen(n, callbacks)
    BY <1>2, <2>2 DEF Seen
  <2>4. arrival' = [arrival EXCEPT ![r] = n] /\ n.at \notin {"running", "adding", "locking"}
    BY <2>1, <2>2
  <2> QED
    BY <1>1, <2>1, <2>3, <2>4, ReleaseKeeps
<1>7. ASSUME NEW k \in Lists, CallbackAdds(r, k)
      PROVE  PipelineInv'
  <2> DEFINE n == [q EXCEPT !.at = "adding", !.to = k]
  <2>1. /\ callbacks[k] < MaxCallbacks /\ arrival' = [arrival EXCEPT ![r].at = "adding", ![r].to = k]
        /\ nested' = nested \cup {<<q.list, k>>} /\ UNCHANGED <<offline, callbacks, locks, adder>>
    BY <1>7 DEF CallbackAdds
  <2>2. arrival' = [arrival EXCEPT ![r] = n]
    BY <1>2, <2>1
  <2>3. nested' \subseteq Lists \X Lists
    <3>1. q.list \in Lists
      BY <1>2 DEF ArrivalOf
    <3> QED
      BY <1>2, <2>1, <3>1
  <2>4. r \in locks[q.list].readers /\ \A j \in Lists : r \notin locks[j].waiting
    BY <1>1, RunningHolds
  <2> HIDE DEF q
  <2>5. n \in ArrivalOf
    <3>1. "adding" \in ArrivalAts
      BY DEF ArrivalAts
    <3> QED
      BY <1>2, <3>1, Zenon DEF ArrivalOf
  <2>6. n.at = "adding" /\ n.to = k /\ n.list = q.list /\ n.status = q.status /\ n.ran = q.ran /\ n.before = q.before
    BY <1>2 DEF ArrivalOf
  <2> HIDE DEF n
  <2>7. Seen(n, callbacks)
    BY <1>1, <1>2, <2>6 DEF Seen
  <2>8. \A j \in Lists : Held(locks[j], j, r, n)
    BY <1>3, <2>4, <2>6 DEF Held
  <2>9. n.at = "adding" /\ callbacks[n.to] < MaxCallbacks /\ arrival[r].at \notin {"adding", "locking"}
    BY <1>1, <2>1, <2>6 DEF q
  <2> QED
    BY <2>1, <2>2, <2>3, <2>5, <2>7, <2>8, <2>9, OnlyArrival
<1> QED
  BY <1>4, <1>5, <1>6, <1>7 DEF Callback

\* All callbacks there are have run, more than there were when the request came.
LEMMA DoneKeeps == ASSUME PipelineInv, NEW r \in Arrivals, CallbacksDone(r) PROVE PipelineInv'
<1> DEFINE q == arrival[r]
<1>1. Running(r) /\ q.at = "running" /\ ~(q.next <= callbacks[q.list]) /\ Release(r) /\ UNCHANGED <<offline, callbacks, adder, nested>>
  BY DEF CallbacksDone, Running, AllRun, Left
<1>2. /\ q \in ArrivalOf /\ arrival \in [Arrivals -> ArrivalOf] /\ q.next \in Int /\ q.list \in Lists
      /\ callbacks[q.list] \in Int /\ q.before \in [Lists -> Int] /\ Seen(q, callbacks)
  BY FieldsAre DEF PipelineInv, PipelineData
<1>3. q.next > q.before[q.list]
  <2>1. q.before[q.list] <= callbacks[q.list] /\ q.before[q.list] \in Int
    BY <1>2 DEF Seen
  <2> QED
    BY <1>1, <1>2, <2>1
<1>4. CASE q.list = "hooks"
  <2> DEFINE n == [q EXCEPT !.at = "handler", !.ran = q.next - 1]
  <2>1. arrival' = [arrival EXCEPT ![r].at = "handler", ![r].ran = q.next - 1]
    BY <1>4 DEF CallbacksDone
  <2>2. arrival' = [arrival EXCEPT ![r] = n]
    BY <1>2, <2>1
  <2> HIDE DEF q
  <2>3. n \in ArrivalOf
    <3>1. "handler" \in ArrivalAts /\ q.next - 1 \in Int
      BY <1>2 DEF ArrivalAts
    <3> QED
      BY <1>2, <3>1, Zenon DEF ArrivalOf
  <2>4. n.at = "handler" /\ n.ran = q.next - 1 /\ n.status = q.status /\ n.before = q.before
    BY <1>2 DEF ArrivalOf
  <2> HIDE DEF n
  <2>5. q.before["hooks"] \in Int
    BY <1>2, <1>4
  <2>6. n.ran >= n.before["hooks"]
    BY <1>2, <1>3, <1>4, <2>4, <2>5
  <2>7. Seen(n, callbacks)
    BY <1>1, <1>2, <1>4, <2>4, <2>6 DEF Seen
  <2> QED
    BY <1>1, <2>2, <2>3, <2>4, <2>7, ReleaseKeeps
<1>5. CASE q.list # "hooks"
  <2> DEFINE n == [q EXCEPT !.at = "answered"]
  <2>1. arrival' = [arrival EXCEPT ![r].at = "answered"] /\ q.list = "watchers"
    BY <1>2, <1>5 DEF CallbacksDone, Lists
  <2>2. arrival' = [arrival EXCEPT ![r] = n]
    BY <1>2, <2>1
  <2> HIDE DEF q
  <2>3. n \in ArrivalOf
    <3>1. "answered" \in ArrivalAts
      BY DEF ArrivalAts
    <3> QED
      BY <1>2, <3>1, Zenon DEF ArrivalOf
  <2>4. n.at = "answered" /\ n.next = q.next /\ n.status = q.status /\ n.before = q.before /\ n.ran = q.ran
    BY <1>2 DEF ArrivalOf
  <2> HIDE DEF n
  <2>5. n.next > n.before["watchers"]
    BY <1>3, <2>1, <2>4
  <2>6. Seen(n, callbacks)
    BY <1>2, <2>4, <2>5 DEF Seen
  <2> QED
    BY <1>1, <2>2, <2>3, <2>4, <2>6, ReleaseKeeps
<1> QED
  BY <1>4, <1>5

\* Somebody announces himself to a lock.
LEMMA LocksIs ==
    ASSUME PipelineInv, NEW k \in Lists, NEW who \in Arrivals \cup Adders, Locks(k, who)
    PROVE  \E l \in PipeLocks : /\ locks' = [locks EXCEPT ![k] = l]
                                /\ l.readers = locks[k].readers /\ l.waiting = locks[k].waiting
<1>1. locks[k] \in PipeLocks
  BY DEF PipelineInv, PipelineData
<1>2. locks' = [locks EXCEPT ![k] = Announce(locks[k], who)]
  BY DEF Locks
<1>3. /\ Announce(locks[k], who) \in PipeLocks
      /\ Announce(locks[k], who).readers = locks[k].readers /\ Announce(locks[k], who).waiting = locks[k].waiting
  BY <1>1, AnnounceIs DEF PipeLocks
<1> QED
  BY <1>2, <1>3

\* A callback that registers another asks for that lock, too.
LEMMA NestedLockKeeps == ASSUME PipelineInv, NEW r \in Arrivals, NestedLock(r) PROVE PipelineInv'
<1> DEFINE q == arrival[r]
           n == [q EXCEPT !.at = "locking"]
           k == q.to
<1>1. /\ q.at = "adding" /\ Locks(k, r) /\ arrival' = [arrival EXCEPT ![r].at = "locking"]
      /\ UNCHANGED <<offline, callbacks, adder, nested>>
  BY DEF NestedLock
<1>2. /\ q \in ArrivalOf /\ arrival \in [Arrivals -> ArrivalOf] /\ k \in Lists /\ Seen(q, callbacks)
      /\ nested \subseteq Lists \X Lists /\ offline \in BOOLEAN
  BY FieldsAre DEF PipelineInv, PipelineData
<1>3. PICK l \in PipeLocks : /\ locks' = [locks EXCEPT ![k] = l]
                             /\ l.readers = locks[k].readers /\ l.waiting = locks[k].waiting
  BY <1>1, <1>2, LocksIs
<1>4. arrival' = [arrival EXCEPT ![r] = n]
  BY <1>1, <1>2
<1>5. \A j \in Lists : Held(locks[j], j, r, q)
  BY DEF PipelineInv
<1> HIDE DEF q
<1>6. n \in ArrivalOf
  <2>1. "locking" \in ArrivalAts
    BY DEF ArrivalAts
  <2> QED
    BY <1>2, <2>1, Zenon DEF ArrivalOf
<1>7. /\ n.at = "locking" /\ n.to = q.to /\ n.list = q.list /\ n.status = q.status
      /\ n.before = q.before /\ n.ran = q.ran
  BY <1>2 DEF ArrivalOf
<1> HIDE DEF n
<1>8. Seen(n, callbacks)
  BY <1>1, <1>2, <1>7 DEF Seen
<1>9. \A j \in Lists : Held(locks[j], j, r, n)
  BY <1>1, <1>5, <1>7 DEF Held
<1>10. Held(l, k, r, n)
  BY <1>2, <1>3, <1>9 DEF Held
<1>11. n.at \in {"adding", "locking"} /\ arrival[r].at \in {"adding", "locking"} /\ n.to = arrival[r].to
  BY <1>1, <1>7 DEF q
<1>12. l.readers \ {r} = locks[k].readers \ {r} /\ l.waiting \ {r} = locks[k].waiting \ {r}
  BY <1>3
<1>13. offline' \in BOOLEAN /\ nested' \subseteq Lists \X Lists
  BY <1>1, <1>2
<1> HIDE DEF k
<1> QED
  BY <1>1, <1>2, <1>3, <1>4, <1>6, <1>8, <1>9, <1>10, <1>11, <1>12, <1>13, ArrivalMoves

\* One callback more is registered, and the lock given to those that wait for it.
LEMMA AddsIs ==
    ASSUME PipelineInv, NEW k \in Lists, NEW who, Adds(k, who)
    PROVE  /\ callbacks' \in [Lists -> Int] /\ callbacks'[k] = callbacks[k] + 1
           /\ \A j \in Lists \ {k} : callbacks'[j] = callbacks[j] /\ locks'[j] = locks[j]
           /\ locks' \in [Lists -> PipeLocks] /\ locks[k].readers = {}
           /\ locks'[k].readers = locks[k].waiting /\ locks'[k].waiting = {}
<1>1. locks \in [Lists -> PipeLocks] /\ callbacks \in [Lists -> Int]
  BY DEF PipelineInv, PipelineData
<1>2. /\ locks[k].readers = {} /\ callbacks' = [callbacks EXCEPT ![k] = callbacks[k] + 1]
      /\ locks' = [locks EXCEPT ![k] = Unlock(locks[k])]
  BY DEF Adds, HoldsWrite
<1>3. Unlock(locks[k]) \in PipeLocks /\ Unlock(locks[k]).readers = locks[k].waiting /\ Unlock(locks[k]).waiting = {}
  <2>1. locks[k] \in RWMutexes(Arrivals, Arrivals \cup Adders)
    BY <1>1 DEF PipeLocks
  <2> QED
    BY <2>1, UnlockIs DEF PipeLocks
<1> QED
  BY <1>1, <1>2, <1>3

\* What others have seen is not disturbed by it.
LEMMA OthersSeen ==
    ASSUME PipelineInv, NEW k \in Lists, NEW who, Adds(k, who), NEW r \in Arrivals
    PROVE  Seen(arrival[r], callbacks') /\ \A j \in Lists : Held(locks'[j], j, r, arrival[r])
<1>1. Seen(arrival[r], callbacks) /\ \A j \in Lists : Held(locks[j], j, r, arrival[r])
  BY DEF PipelineInv
<1>2. callbacks \in [Lists -> Int] /\ arrival[r].before \in [Lists -> Int]
  BY FieldsAre DEF PipelineInv
<1>3. \A j \in Lists : callbacks[j] <= callbacks'[j] /\ callbacks'[j] \in Int /\ callbacks[j] \in Int /\ arrival[r].before[j] \in Int
  BY <1>2, AddsIs
<1>4. \A j \in Lists : arrival[r].before[j] <= callbacks'[j]
  <2> TAKE j \in Lists
  <2>1. arrival[r].before[j] <= callbacks[j]
    BY <1>1 DEF Seen
  <2> QED
    BY <1>3, <2>1
<1>5. Seen(arrival[r], callbacks')
  BY <1>1, <1>4 DEF Seen
<1>6. ASSUME NEW j \in Lists PROVE Held(locks'[j], j, r, arrival[r])
  <2>1. CASE j # k
    BY <1>1, <2>1, AddsIs
  <2>2. CASE j = k
    <3>1. locks'[j].readers = locks[j].waiting /\ locks'[j].waiting = {}
      BY <2>2, AddsIs
    <3> QED
      BY <1>1, <3>1 DEF Held
  <2> QED
    BY <2>1, <2>2
<1> QED
  BY <1>5, <1>6

\* The room that was found is used.
LEMMA RoomUsed ==
    ASSUME PipelineInv, NEW k \in Lists, NEW who, Adds(k, who), who \in Coming(k), Coming(k)' = Coming(k) \ {who},
           \A j \in Lists \ {k} : Coming(j)' = Coming(j)
    PROVE  Room'
<1> SUFFICES ASSUME NEW j \in Lists
             PROVE  1 <= callbacks'[j] /\ callbacks'[j] + Cardinality(Coming(j)') <= MaxCallbacks + Everybody
  BY DEF Room, Everybody
<1>1. callbacks[j] \in Int /\ 1 <= callbacks[j] /\ callbacks[j] + Cardinality(Coming(j)) <= MaxCallbacks + Everybody
  BY DEF PipelineInv, PipelineData, Room
<1>2. CASE j # k
  BY <1>1, <1>2, AddsIs
<1>3. CASE j = k
  <2>1. Cardinality(Coming(j)') = Cardinality(Coming(j)) - 1 /\ Cardinality(Coming(j)) \in Nat
    BY <1>3, ComingIs, FS_RemoveElement
  <2>2. callbacks'[j] = callbacks[j] + 1
    BY <1>3, AddsIs
  <2> QED
    BY <1>1, <2>1, <2>2, ComingIs, PipelineAssumption
<1> QED
  BY <1>2, <1>3

\* A callback has registered another.
LEMMA NestedAddKeeps == ASSUME PipelineInv, NEW r \in Arrivals, NestedAdd(r) PROVE PipelineInv'
<1> DEFINE q == arrival[r]
           n == [q EXCEPT !.at = "running", !.to = "hooks", !.next = @ + 1]
           k == q.to
<1>1. /\ q.at = "locking" /\ Adds(k, r)
      /\ arrival' = [arrival EXCEPT ![r].at = "running", ![r].to = "hooks", ![r].next = @ + 1]
      /\ UNCHANGED <<offline, adder, nested>>
  BY DEF NestedAdd
<1>2. q \in ArrivalOf /\ arrival \in [Arrivals -> ArrivalOf] /\ k \in Lists /\ q.next \in Int
  BY FieldsAre DEF PipelineInv, PipelineData
<1>3. arrival' = [arrival EXCEPT ![r] = n]
  BY <1>1, <1>2
<1>4. Seen(q, callbacks') /\ \A j \in Lists : Held(locks'[j], j, r, q)
  BY <1>1, <1>2, OthersSeen
<1>5. \A j \in Lists : r \notin locks[j].waiting
  BY <1>1 DEF PipelineInv, Held
<1>6. \A j \in Lists : r \notin locks'[j].waiting
  BY <1>1, <1>2, <1>5, AddsIs
<1> HIDE DEF q
<1>7. n \in ArrivalOf
  <2>1. "running" \in ArrivalAts /\ "hooks" \in Lists /\ q.next + 1 \in Int
    BY <1>2 DEF ArrivalAts, Lists
  <2> QED
    BY <1>2, <2>1, Zenon DEF ArrivalOf
<1>8. n.at = "running" /\ n.list = q.list /\ n.status = q.status /\ n.before = q.before /\ n.ran = q.ran
  BY <1>2 DEF ArrivalOf
<1> HIDE DEF n
<1>9. arrival' \in [Arrivals -> ArrivalOf] /\ arrival'[r] = n /\ \A p \in Arrivals \ {r} : arrival'[p] = arrival[p]
  BY <1>2, <1>3, <1>7
<1>10. Seen(n, callbacks')
  BY <1>1, <1>4, <1>8 DEF Seen
<1>11. \A j \in Lists : Held(locks'[j], j, r, n)
  BY <1>4, <1>6, <1>8 DEF Held
<1>12. PipelineData'
  BY <1>1, <1>2, <1>9, AddsIs DEF PipelineInv, PipelineData
<1>13. \A p \in Arrivals : Seen(arrival'[p], callbacks') /\ \A j \in Lists : Held(locks'[j], j, p, arrival'[p])
  BY <1>1, <1>2, <1>9, <1>10, <1>11, OthersSeen
<1>14. Room'
  <2>1. r \in Coming(k)
    BY <1>1 DEF Coming, k, q
  <2>2. r \notin Adders
    BY PipelineAssumption
  <2>3. \A j : Coming(j)' = Coming(j) \ {r}
    <3> TAKE j
    <3>1. \A p \in Arrivals : arrival'[p].at \in {"adding", "locking"} /\ arrival'[p].to = j
             <=> p # r /\ arrival[p].at \in {"adding", "locking"} /\ arrival[p].to = j
      BY <1>8, <1>9
    <3> QED
      BY <1>1, <2>2, <3>1 DEF Coming
  <2>4. \A j \in Lists \ {k} : r \notin Coming(j)
    BY <2>2 DEF Coming, k, q
  <2>5. \A j \in Lists \ {k} : Coming(j)' = Coming(j)
    BY <2>3, <2>4
  <2> HIDE DEF k
  <2> QED
    BY <1>1, <1>2, <2>1, <2>3, <2>5, RoomUsed
<1> QED
  BY <1>12, <1>13, <1>14 DEF PipelineInv

\* A registration from outside asks for the lock.
LEMMA AddLockKeeps == ASSUME PipelineInv, NEW a \in Adders, AddLock(a) PROVE PipelineInv'
<1> DEFINE k == AddsTo[a]
<1>1. /\ callbacks[k] < MaxCallbacks /\ Locks(k, a) /\ adder' = [adder EXCEPT ![a] = "locking"]
      /\ UNCHANGED <<offline, callbacks, arrival, nested>>
  BY DEF AddLock
<1>2. k \in Lists /\ locks \in [Lists -> PipeLocks] /\ adder \in [Adders -> {"new", "locking", "added"}]
  BY PipelineAssumption DEF PipelineInv, PipelineData, Lists
<1>3. PICK l \in PipeLocks : /\ locks' = [locks EXCEPT ![k] = l]
                             /\ l.readers = locks[k].readers /\ l.waiting = locks[k].waiting
  BY <1>1, <1>2, LocksIs
<1>4. locks' \in [Lists -> PipeLocks] /\ \A j \in Lists : locks'[j].readers = locks[j].readers /\ locks'[j].waiting = locks[j].waiting
  BY <1>2, <1>3
<1>5. PipelineData'
  BY <1>1, <1>2, <1>4 DEF PipelineInv, PipelineData
<1>6. \A r \in Arrivals, j \in Lists : Held(locks'[j], j, r, arrival'[r])
  BY <1>1, <1>4 DEF PipelineInv, Held
<1>7. \A r \in Arrivals : Seen(arrival'[r], callbacks')
  BY <1>1 DEF PipelineInv
<1>8. Room'
  <2> SUFFICES ASSUME NEW j \in Lists
               PROVE  1 <= callbacks[j] /\ callbacks[j] + Cardinality(Coming(j)') <= MaxCallbacks + Everybody
    BY <1>1 DEF Room, Everybody
  <2>1. callbacks[j] \in Int /\ 1 <= callbacks[j] /\ callbacks[j] + Cardinality(Coming(j)) <= MaxCallbacks + Everybody
    BY DEF PipelineInv, PipelineData, Room
  <2>2. CASE j = k
    <3>1. Cardinality(Coming(j)') \in Nat /\ Cardinality(Coming(j)') <= Everybody /\ Everybody \in Nat
      BY ComingIs, ComingIsToo
    <3> QED
      BY <1>1, <2>1, <2>2, <3>1, PipelineAssumption
  <2>3. CASE j # k
    <3>1. \A b \in Adders : AddsTo[b] = j => adder'[b] = adder[b]
      BY <1>1, <1>2, <2>3
    <3>2. {b \in Adders : adder'[b] = "locking" /\ AddsTo[b] = j} = {b \in Adders : adder[b] = "locking" /\ AddsTo[b] = j}
      BY <3>1
    <3>3. Coming(j)' = Coming(j)
      BY <1>1, <3>2, Zenon DEF Coming
    <3> QED
      BY <2>1, <3>3
  <2> QED
    BY <2>2, <2>3
<1> QED
  BY <1>5, <1>6, <1>7, <1>8 DEF PipelineInv

\* A registration from outside is done.
LEMMA AddKeeps == ASSUME PipelineInv, NEW a \in Adders, Add(a) PROVE PipelineInv'
<1> DEFINE k == AddsTo[a]
<1>1. /\ adder[a] = "locking" /\ Adds(k, a) /\ adder' = [adder EXCEPT ![a] = "added"]
      /\ UNCHANGED <<offline, arrival, nested>>
  BY DEF Add
<1>2. k \in Lists /\ adder \in [Adders -> {"new", "locking", "added"}]
  BY PipelineAssumption DEF PipelineInv, PipelineData, Lists
<1>3. PipelineData'
  BY <1>1, <1>2, AddsIs DEF PipelineInv, PipelineData
<1>4. \A r \in Arrivals : Seen(arrival'[r], callbacks') /\ \A j \in Lists : Held(locks'[j], j, r, arrival'[r])
  BY <1>1, <1>2, OthersSeen
<1>5. Room'
  <2>1. a \in Coming(k) /\ a \notin Arrivals
    BY <1>1, PipelineAssumption DEF Coming
  <2>2. \A b \in Adders : adder'[b] = "locking" <=> b # a /\ adder[b] = "locking"
    BY <1>1, <1>2
  <2>3. \A j : Coming(j)' = Coming(j) \ {a}
    BY <1>1, <2>1, <2>2 DEF Coming
  <2>4. \A j \in Lists \ {k} : a \notin Coming(j)
    BY <2>1 DEF Coming
  <2>5. \A j \in Lists \ {k} : Coming(j)' = Coming(j)
    BY <2>3, <2>4
  <2> HIDE DEF k
  <2> QED
    BY <1>1, <1>2, <2>1, <2>3, <2>5, RoomUsed
<1> QED
  BY <1>3, <1>4, <1>5 DEF PipelineInv

\* Every step of the server, its requests and the registrations keeps the invariant.
LEMMA PipelineSteps == ASSUME PipelineInv, [PipelineNext]_pipelineVars PROVE PipelineInv'
<1>1. ASSUME offline' \in BOOLEAN, UNCHANGED <<callbacks, locks, arrival, adder, nested>>
      PROVE  PipelineInv'
  BY <1>1 DEF PipelineInv, PipelineData, Room, Coming, Everybody
<1>2. CASE SetOffline
  BY <1>1, <1>2 DEF SetOffline
<1>3. CASE UNCHANGED pipelineVars
  BY <1>1, <1>3 DEF pipelineVars, PipelineInv, PipelineData
<1> QED
  BY <1>2, <1>3, ComeKeeps, CheckKeeps, AskKeeps, CallbackKeeps, DoneKeeps, HandleKeeps, NestedLockKeeps,
     NestedAddKeeps, AddLockKeeps, AddKeeps
     DEF PipelineNext, Advance

\* The safety part of PipelineAnswers.
PipelineSafe == PipelineTypeOK /\ HooksApply /\ WatchersSee

\* For any requests and any registrations, also by callbacks: a request is served only after
\* all status hooks there were when it came, and every call watcher there was has seen it when
\* its client has the answer, but for a panic.
THEOREM PipelineIsSafe == PipelineSpec => []PipelineSafe
<1>1. PipelineInv => PipelineSafe
  <2> SUFFICES ASSUME PipelineInv PROVE PipelineSafe
    OBVIOUS
  <2>1. callbacks \in [Lists -> 1 .. MaxCallbacks + Cardinality(Arrivals \cup Adders)]
    <3>1. \A k \in Lists : callbacks[k] \in 1 .. MaxCallbacks + Everybody
      BY ComingIs, PipelineAssumption DEF PipelineInv, PipelineData, Room
    <3> QED
      BY <3>1 DEF PipelineInv, PipelineData, Everybody
  <2>2. \A r \in Arrivals : \A k \in Lists :
           r \in locks[k].readers => arrival[r].list = k /\ arrival[r].at \in {"running", "adding", "locking"}
    BY DEF PipelineInv, Held
  <2>3. PipelineTypeOK
    BY <2>1, <2>2, Zenon DEF PipelineInv, PipelineData, PipelineTypeOK, PipeLocks
  <2>4. HooksApply /\ WatchersSee
    BY DEF PipelineInv, Seen, HooksApply, WatchersSee
  <2> QED
    BY <2>3, <2>4 DEF PipelineSafe
<1> QED
  BY <1>1, PipelineInvInit, PipelineSteps, PTL DEF PipelineSpec

------------------------------------------------------------------------------
(* Drive events. *)

LEMMA LesserIs == ASSUME NEW a \in Nat, NEW b \in Nat PROVE Min({a, b}) = IF a <= b THEN a ELSE b
<1> DEFINE m == CHOOSE x \in {a, b} : \A y \in {a, b} : x <= y
<1>1. Min({a, b}) = m
  BY DEF Min
<1>2. \E x \in {a, b} : \A y \in {a, b} : x <= y
  <2>1. CASE a <= b
    BY <2>1
  <2>2. CASE ~(a <= b)
    BY <2>2
  <2> QED
    BY <2>1, <2>2
<1>3. m \in {a, b} /\ \A y \in {a, b} : m <= y
  BY <1>2
<1> QED
  BY <1>1, <1>3

DriveCalls == [at : {"idle", "first", "further", "done"}, from : Nat, id : Nat, events : SUBSET Nat]

\* What a call has follows the ID it was made with, without a gap up to the ID it returns.
Gathered ==
    /\ drive.events \subseteq drive.from + 1 .. happened
    /\ drive.id <= happened
    /\ drive.at \in {"idle", "first"} => drive.events = {} /\ drive.id = 0
    /\ drive.at # "idle" => drive.from = known.id
    /\ drive.at \in {"further", "done"} => drive.from <= drive.id /\ drive.from + 1 .. drive.id \subseteq drive.events

DriveInv ==
    /\ happened \in 0 .. MaxEvents /\ drive \in DriveCalls
    /\ known \in [events : SUBSET (1 .. happened), id : 0 .. happened]
    /\ Gathered
    /\ NoDriveEventLost

\* What a page has, of the events after an ID.
LEMMA DrivePageIs ==
    ASSUME happened \in Nat, NEW id \in 0 .. happened
    PROVE  /\ PageAfter(id).id \in id .. happened
           /\ PageAfter(id).events = id + 1 .. PageAfter(id).id
<1>1. EventsPerPage \in Nat /\ id + EventsPerPage \in Nat
  BY DriveAssumption
<1>2. Min({id + EventsPerPage, happened}) = IF id + EventsPerPage <= happened THEN id + EventsPerPage ELSE happened
  BY <1>1, LesserIs
<1> QED
  BY <1>1, <1>2 DEF PageAfter

LEMMA DriveInvInit == DriveInit => DriveInv
BY DriveAssumption DEF DriveInit, DriveInv, NoCall, DriveCalls, Gathered, NoDriveEventLost

LEMMA PageArrivesKeeps == ASSUME DriveInv, PageArrives PROVE DriveInv'
<1>1. /\ happened \in Nat /\ happened <= MaxEvents /\ drive \in DriveCalls /\ UNCHANGED <<happened, known>>
      /\ known \in [events : SUBSET (1 .. happened), id : 0 .. happened]
  BY DriveAssumption DEF DriveInv, PageArrives
<1> DEFINE asked == IF drive.at = "first" THEN drive.from ELSE drive.id
           page == PageAfter(asked)
<1>2. asked \in 0 .. happened /\ drive.from <= asked /\ drive.from \in Nat /\ drive.from = known.id
  BY <1>1 DEF DriveInv, PageArrives, Gathered, DriveCalls
<1>3. page.id \in asked .. happened /\ page.events = asked + 1 .. page.id
  BY <1>1, <1>2, DrivePageIs
<1>4. drive' = [drive EXCEPT !.at = IF page.more THEN "further" ELSE "done",
                             !.id = IF drive.at = "first" THEN page.id ELSE @,
                             !.events = IF drive.at = "first" THEN page.events ELSE drive.events \cup page.events]
  BY DEF PageArrives, AskFrom, Appended
<1>5. page.events \subseteq drive.from + 1 .. happened
  BY <1>1, <1>2, <1>3
<1>6. drive.events \subseteq drive.from + 1 .. happened /\ drive.at \in {"first", "further"}
  BY DEF DriveInv, Gathered, PageArrives
<1> HIDE DEF page
<1>7. /\ drive'.at \in {"further", "done"} /\ drive'.from = drive.from
      /\ drive'.id = (IF drive.at = "first" THEN page.id ELSE drive.id)
      /\ drive'.events = (IF drive.at = "first" THEN page.events ELSE drive.events \cup page.events)
  BY <1>1, <1>4 DEF DriveCalls
<1>8. drive' \in DriveCalls
  <2>1. page.id \in Nat /\ page.events \subseteq Nat
    BY <1>1, <1>2, <1>3
  <2> QED
    BY <1>1, <1>4, <2>1 DEF DriveCalls
<1>9. Gathered'
  <2>1. CASE drive.at = "first"
    BY <1>1, <1>2, <1>3, <1>5, <1>7, <2>1 DEF Gathered
  <2>2. CASE drive.at = "further"
    BY <1>1, <1>2, <1>3, <1>5, <1>6, <1>7, <2>2 DEF Gathered, DriveInv
  <2> QED
    BY <1>6, <2>1, <2>2
<1> QED
  BY <1>1, <1>8, <1>9 DEF DriveInv, NoDriveEventLost

LEMMA DriveSteps == DriveInv /\ [DriveNext]_driveVars => DriveInv'
<1> SUFFICES ASSUME DriveInv, [DriveNext]_driveVars PROVE DriveInv'
  OBVIOUS
<1>1. happened \in Nat /\ MaxEvents \in Nat
  BY DriveAssumption DEF DriveInv
<1>2. CASE SomethingHappens
  <2>1. /\ happened' = happened + 1 /\ happened' \in 0 .. MaxEvents /\ UNCHANGED <<drive, known>>
    BY <1>1, <1>2 DEF SomethingHappens
  <2>2. 1 .. happened \subseteq 1 .. happened' /\ 0 .. happened \subseteq 0 .. happened'
    BY <1>1, <2>1
  <2>3. drive.from + 1 .. happened \subseteq drive.from + 1 .. happened' /\ drive.id <= happened'
    BY <1>1, <2>1 DEF DriveInv, DriveCalls, Gathered
  <2>4. known' \in [events : SUBSET (1 .. happened'), id : 0 .. happened']
    BY <2>1, <2>2 DEF DriveInv
  <2>5. Gathered'
    BY <2>1, <2>3 DEF DriveInv, Gathered
  <2> QED
    BY <2>1, <2>4, <2>5 DEF DriveInv, NoDriveEventLost
<1>3. CASE CallDrive
  <2>1. drive' = [at |-> "first", from |-> known.id, id |-> 0, events |-> {}] /\ UNCHANGED <<happened, known>>
    BY <1>3 DEF CallDrive, NoCall
  <2>2. drive' \in DriveCalls /\ Gathered'
    BY <1>1, <2>1 DEF DriveInv, DriveCalls, Gathered
  <2> QED
    BY <2>1, <2>2 DEF DriveInv, NoDriveEventLost
<1>4. CASE PageArrives
  BY <1>4, PageArrivesKeeps
<1>5. CASE PageFails
  <2>1. drive' = NoCall /\ UNCHANGED <<happened, known>>
    BY <1>5 DEF PageFails
  <2>2. drive' \in DriveCalls /\ Gathered'
    BY <1>1, <2>1 DEF NoCall, DriveCalls, Gathered
  <2> QED
    BY <2>1, <2>2 DEF DriveInv, NoDriveEventLost
<1>6. CASE DriveReturned
  <2>1. /\ drive' = NoCall /\ happened' = happened
        /\ known' = [events |-> known.events \cup drive.events, id |-> drive.id]
    BY <1>6 DEF DriveReturned
  <2>2. drive' \in DriveCalls /\ Gathered'
    BY <1>1, <2>1 DEF NoCall, DriveCalls, Gathered
  <2>3. /\ drive.from = known.id /\ drive.id \in 0 .. happened /\ drive.from \in Nat
        /\ drive.from + 1 .. drive.id \subseteq drive.events
        /\ drive.events \subseteq 1 .. happened /\ 1 .. drive.from \subseteq known.events
    BY <1>1, <1>6 DEF DriveInv, DriveReturned, Gathered, DriveCalls, NoDriveEventLost
  <2>4. known' \in [events : SUBSET (1 .. happened), id : 0 .. happened]
    BY <2>1, <2>3 DEF DriveInv
  <2>5. 1 .. drive.id \subseteq known.events \cup drive.events
    <3> SUFFICES ASSUME NEW e \in 1 .. drive.id PROVE e \in known.events \cup drive.events
      OBVIOUS
    <3>1. e \in 1 .. drive.from \/ e \in drive.from + 1 .. drive.id
      BY <2>3
    <3> QED
      BY <2>3, <3>1
  <2> QED
    BY <2>1, <2>2, <2>4, <2>5 DEF DriveInv, NoDriveEventLost
<1>7. CASE UNCHANGED driveVars
  BY <1>7 DEF driveVars, DriveInv, Gathered, NoDriveEventLost
<1> QED
  BY <1>2, <1>3, <1>4, <1>5, <1>6, <1>7 DEF DriveNext

\* For any number of events and any page size: a caller of GetVolumeEvent or GetShareEvent that polls from
\* the ID it got last has every event up to that ID, although each further page of a call is
\* asked for with the first one's ID and other events have come in between.
THEOREM DriveEventsAreKept == DriveSpec => [](DriveTypeOK /\ NoDriveEventLost)
<1>1. DriveInv => DriveTypeOK /\ NoDriveEventLost
  <2> SUFFICES ASSUME DriveInv PROVE DriveTypeOK /\ NoDriveEventLost
    OBVIOUS
  <2>1. happened \in Nat
    BY DriveAssumption DEF DriveInv
  <2> QED
    BY <2>1 DEF DriveInv, DriveCalls, Gathered, DriveTypeOK
<1> QED
  BY <1>1, DriveInvInit, DriveSteps, PTL DEF DriveSpec
==============================================================================
