------------------------------ MODULE PoolProofs ------------------------------
(***************************************************************************)
(* Proofs about Pool, for every set of workers, calls, requests and direct *)
(* callers of NewJob.                                                      *)
(*                                                                         *)
(* PoolInv says what the properties leave out: which outcomes a worker and *)
(* a goroutine can have where they are, that the context of a job that was *)
(* stopped is done, that a call is cancelled by the goroutine that then    *)
(* collects its first error, and that the worker of a result waits as long *)
(* as the result is held.                                                  *)
(***************************************************************************)
EXTENDS Pool, FiniteSetTheorems, SequenceTheorems, TLAPS

\* What a worker and a goroutine have got, where they are.
OutcomesFit ==
    /\ \A w \in Workers :
          /\ worker[w].at \in {"work", "post", "drop", "wait"} => worker[w].job \in Jobs
          /\ worker[w].at \in {"idle", "gone"} => worker[w].job = NoJob
          /\ worker[w].at \in {"post", "drop"} => worker[w].outcome \in Outcomes
          /\ worker[w].at = "drop" => worker[w].outcome = "stopped"
    /\ \A j \in Jobs : goroutine[j] = "have" => got[j] \in Outcomes
    /\ \A j \in Requests : goroutine[j] \in {"error", "collect"} => got[j] \in Errors

\* What goes through without an error is accepted, and an error is kept.
ErrorsKept ==
    \A j \in Requests :
        goroutine[j] \in {"finish", "end"} => got[j] = "ok" \/ errList[BatchOf[j]] # <<>>

\* Work is stopped, and a job dropped, only if the job's context is done.
StoppedByContext ==
    /\ \A w \in Workers : worker[w].at \in {"post", "drop"} /\ worker[w].outcome = "stopped" => CtxDone(worker[w].job)
    /\ \A j \in Jobs : got[j] = "stopped" => CtxDone(j)

\* A call that was cancelled has an error, or somebody holds its lock to add
\* the first; and that one, a request of the call, was not stopped by the
\* cancellation.
FirstIsCause ==
    \A b \in Batches :
        /\ lock[b] # NoOne => BatchOf[lock[b]] = b
        /\ b \in cancelled /\ errList[b] = <<>> => lock[b] # NoOne
        /\ errList[b] = <<>> => \A j \in Requests : lock[b] = j /\ got[j] = "stopped" => b \in parent
        /\ errList[b] # <<>> /\ Head(errList[b]) = "stopped" => b \in parent

\* The worker of a result waits until its holder is done.
HoldersAreWaitedFor ==
    /\ \A j \in Jobs : j \in done => goroutine[j] = "end"
    /\ \A j \in HeldResults : \E w \in Workers : worker[w].at = "wait" /\ worker[w].job = j

PoolInv == TypeOK /\ OutcomesFit /\ ErrorsKept /\ StoppedByContext /\ FirstIsCause /\ HoldersAreWaitedFor
------------------------------------------------------------------------------
(* Every step keeps the invariant: one lemma for each action. *)

Doings ==
    [at : {"idle", "work", "post", "drop", "wait", "gone"}, job : Jobs \cup {NoJob}, outcome : Outcomes \cup {"none"}]

LEMMA WorkerMoves ==
    ASSUME NEW d \in Doings, NEW a \in {"idle", "work", "post", "drop", "wait", "gone"}, NEW o \in Outcomes
    PROVE  [d EXCEPT !.at = a] \in Doings /\ [d EXCEPT !.at = a, !.outcome = o] \in Doings
  BY DEF Doings

LEMMA TakeKeepsPool ==
    ASSUME PoolInv, NEW w \in Workers, Take(w)
    PROVE  PoolInv'
  <1> USE PoolInv, PoolAssumption DEF PoolInv
  <1>1. TypeOK'
    BY Take(w) DEF Take, TypeOK, Jobs, Outcomes, Errors, Start, CtxDone
  <1>2. OutcomesFit'
    BY Take(w) DEF Take, TypeOK, OutcomesFit, Jobs, Outcomes, Errors, Start, CtxDone
  <1>3. ErrorsKept'
    BY Take(w) DEF Take, TypeOK, ErrorsKept, OutcomesFit, Jobs, Start, CtxDone
  <1>4. StoppedByContext'
    BY Take(w) DEF Take, TypeOK, StoppedByContext, OutcomesFit, CtxDone, Jobs, Start, CtxDone
  <1>5. FirstIsCause'
    BY Take(w) DEF Take, TypeOK, FirstIsCause, StoppedByContext, CtxDone, OutcomesFit, Jobs, Start, CtxDone
  <1>6. HoldersAreWaitedFor'
    BY Take(w) DEF Take, TypeOK, HoldersAreWaitedFor, HeldResults, OutcomesFit, Jobs, Start, CtxDone
  <1> QED BY <1>1, <1>2, <1>3, <1>4, <1>5, <1>6

LEMMA ExitKeepsPool ==
    ASSUME PoolInv, NEW w \in Workers, Exit(w)
    PROVE  PoolInv'
  <1> USE PoolInv, PoolAssumption DEF PoolInv
  <1>1. TypeOK'
    BY Exit(w) DEF Exit, TypeOK, Jobs, Outcomes, Errors, Idle
  <1>2. OutcomesFit'
    BY Exit(w) DEF Exit, TypeOK, OutcomesFit, Jobs, Outcomes, Errors, Idle
  <1>3. ErrorsKept'
    BY Exit(w) DEF Exit, TypeOK, ErrorsKept, OutcomesFit, Jobs, Idle
  <1>4. StoppedByContext'
    BY Exit(w) DEF Exit, TypeOK, StoppedByContext, OutcomesFit, CtxDone, Jobs, Idle
  <1>5. FirstIsCause'
    BY Exit(w) DEF Exit, TypeOK, FirstIsCause, StoppedByContext, CtxDone, OutcomesFit, Jobs, Idle
  <1>6. HoldersAreWaitedFor'
    BY Exit(w) DEF Exit, TypeOK, HoldersAreWaitedFor, HeldResults, OutcomesFit, Jobs, Idle
  <1> QED BY <1>1, <1>2, <1>3, <1>4, <1>5, <1>6

LEMMA WorkKeepsPool ==
    ASSUME PoolInv, NEW w \in Workers, Work(w)
    PROVE  PoolInv'
  <1> USE PoolInv, PoolAssumption DEF PoolInv
  <1>1. TypeOK'
    <2>1. PICK outcome \in Outcomes : worker' = [worker EXCEPT ![w].at = "post", ![w].outcome = outcome]
      BY Work(w) DEF Work, Outcomes
    <2>2. worker \in [Workers -> Doings]
      BY DEF TypeOK, Doings
    <2>3. [worker[w] EXCEPT !.at = "post", !.outcome = outcome] \in Doings
      BY <2>2, WorkerMoves
    <2>4. worker' \in [Workers -> Doings]
      BY <2>1, <2>2, <2>3
    <2> QED BY <2>4, Work(w) DEF Work, TypeOK, Doings
  <1>2. OutcomesFit'
    BY Work(w) DEF Work, TypeOK, OutcomesFit, Jobs, Outcomes, Errors
  <1>3. ErrorsKept'
    BY Work(w) DEF Work, TypeOK, ErrorsKept, OutcomesFit, Jobs
  <1>4. StoppedByContext'
    BY Work(w) DEF Work, TypeOK, StoppedByContext, OutcomesFit, CtxDone, Jobs
  <1>5. FirstIsCause'
    BY Work(w) DEF Work, TypeOK, FirstIsCause, StoppedByContext, CtxDone, OutcomesFit, Jobs
  <1>6. HoldersAreWaitedFor'
    <2>1. \A v \in Workers : worker[v].at = "wait" => worker'[v] = worker[v]
      BY Work(w) DEF Work, TypeOK
    <2>2. HeldResults' = HeldResults
      BY Work(w) DEF Work, HeldResults
    <2>3. \A j \in HeldResults : \E v \in Workers : worker'[v].at = "wait" /\ worker'[v].job = j
      BY <2>1 DEF HoldersAreWaitedFor
    <2> QED BY <2>2, <2>3, Work(w) DEF Work, HoldersAreWaitedFor
  <1> QED BY <1>1, <1>2, <1>3, <1>4, <1>5, <1>6

LEMMA PostKeepsPool ==
    ASSUME PoolInv, NEW w \in Workers, Post(w)
    PROVE  PoolInv'
  <1> USE PoolInv, PoolAssumption DEF PoolInv
  <1>1. TypeOK'
    <2>1. worker[w].outcome \in Outcomes /\ worker[w].job \in Jobs
      BY Post(w) DEF Post, OutcomesFit
    <2>2. worker' \in [Workers -> Doings]
      <3>1. worker \in [Workers -> Doings] /\ Idle \in Doings
        BY DEF TypeOK, Doings, Idle
      <3>2. [worker[w] EXCEPT !.at = "wait"] \in Doings
        BY <2>1, <3>1, WorkerMoves
      <3>3. worker' = [worker EXCEPT ![w] = Idle] \/ worker' = [worker EXCEPT ![w] = [worker[w] EXCEPT !.at = "wait"]]
        BY Post(w) DEF Post
      <3> QED
        BY <3>1, <3>2, <3>3
    <2>3. goroutine' \in [Jobs -> {"start", "result", "have", "error", "collect", "finish", "end"}]
      BY Post(w) DEF Post, TypeOK
    <2>4. got' \in [Jobs -> Outcomes \cup Errors \cup {"none"}]
      BY <2>1, Post(w) DEF Post, TypeOK
    <2>5. \A j \in Requests : goroutine'[j] = "collect" <=> lock[BatchOf[j]] = j
      BY <2>1, Post(w) DEF Post, TypeOK, Jobs
    <2> QED BY <2>2, <2>3, <2>4, <2>5, Post(w) DEF Post, TypeOK, Doings
  <1>2. OutcomesFit'
    BY Post(w) DEF Post, TypeOK, OutcomesFit, Jobs, Outcomes, Errors, Idle
  <1>3. ErrorsKept'
    BY Post(w) DEF Post, TypeOK, ErrorsKept, OutcomesFit, Jobs, Idle
  <1>4. StoppedByContext'
    BY Post(w) DEF Post, TypeOK, StoppedByContext, OutcomesFit, CtxDone, Jobs, Idle
  <1>5. FirstIsCause'
    <2>1. \A b \in Batches, j \in Requests : lock[b] = j => BatchOf[j] = b /\ goroutine[j] = "collect"
      BY PoolAssumption DEF TypeOK, FirstIsCause
    <2> QED
      BY <2>1, Post(w) DEF Post, TypeOK, FirstIsCause, Jobs
  <1>6. HoldersAreWaitedFor'
    BY Post(w) DEF Post, TypeOK, HoldersAreWaitedFor, HeldResults, OutcomesFit, Jobs, Idle
  <1> QED BY <1>1, <1>2, <1>3, <1>4, <1>5, <1>6

LEMMA WaitDoneKeepsPool ==
    ASSUME PoolInv, NEW w \in Workers, WaitDone(w)
    PROVE  PoolInv'
  <1> USE PoolInv, PoolAssumption DEF PoolInv
  <1>1. TypeOK'
    BY WaitDone(w) DEF WaitDone, TypeOK, Jobs, Outcomes, Errors, Waited, Idle
  <1>2. OutcomesFit'
    BY WaitDone(w) DEF WaitDone, TypeOK, OutcomesFit, Jobs, Outcomes, Errors, Waited, Idle
  <1>3. ErrorsKept'
    BY WaitDone(w) DEF WaitDone, TypeOK, ErrorsKept, OutcomesFit, Jobs, Waited, Idle
  <1>4. StoppedByContext'
    BY WaitDone(w) DEF WaitDone, TypeOK, StoppedByContext, OutcomesFit, CtxDone, Jobs, Waited, Idle
  <1>5. FirstIsCause'
    BY WaitDone(w) DEF WaitDone, TypeOK, FirstIsCause, StoppedByContext, CtxDone, OutcomesFit, Jobs, Waited, Idle
  <1>6. HoldersAreWaitedFor'
    BY WaitDone(w) DEF WaitDone, TypeOK, HoldersAreWaitedFor, HeldResults, OutcomesFit, Jobs, Waited, Idle
  <1> QED BY <1>1, <1>2, <1>3, <1>4, <1>5, <1>6

LEMMA EnqueueKeepsPool ==
    ASSUME PoolInv, NEW j \in Jobs, Enqueue(j)
    PROVE  PoolInv'
  <1> USE PoolInv, PoolAssumption DEF PoolInv
  <1>1. TypeOK'
    BY Enqueue(j) DEF Enqueue, TypeOK, Jobs, Outcomes, Errors
  <1>2. OutcomesFit'
    BY Enqueue(j) DEF Enqueue, TypeOK, OutcomesFit, Jobs, Outcomes, Errors
  <1>3. ErrorsKept'
    BY Enqueue(j) DEF Enqueue, TypeOK, ErrorsKept, OutcomesFit, Jobs
  <1>4. StoppedByContext'
    BY Enqueue(j) DEF Enqueue, TypeOK, StoppedByContext, OutcomesFit, CtxDone, Jobs
  <1>5. FirstIsCause'
    BY Enqueue(j) DEF Enqueue, TypeOK, FirstIsCause, StoppedByContext, CtxDone, OutcomesFit, Jobs
  <1>6. HoldersAreWaitedFor'
    BY Enqueue(j) DEF Enqueue, TypeOK, HoldersAreWaitedFor, HeldResults, OutcomesFit, Jobs
  <1> QED BY <1>1, <1>2, <1>3, <1>4, <1>5, <1>6

LEMMA RefusedKeepsPool ==
    ASSUME PoolInv, NEW j \in Jobs, Refused(j)
    PROVE  PoolInv'
  <1> USE PoolInv, PoolAssumption DEF PoolInv
  <1>1. TypeOK'
    BY Refused(j) DEF Refused, TypeOK, Jobs, Outcomes, Errors
  <1>2. OutcomesFit'
    BY Refused(j) DEF Refused, TypeOK, OutcomesFit, Jobs, Outcomes, Errors
  <1>3. ErrorsKept'
    BY Refused(j) DEF Refused, TypeOK, ErrorsKept, OutcomesFit, Jobs
  <1>4. StoppedByContext'
    BY Refused(j) DEF Refused, TypeOK, StoppedByContext, OutcomesFit, CtxDone, Jobs
  <1>5. FirstIsCause'
    BY Refused(j) DEF Refused, TypeOK, FirstIsCause, StoppedByContext, CtxDone, OutcomesFit, Jobs
  <1>6. HoldersAreWaitedFor'
    BY Refused(j) DEF Refused, TypeOK, HoldersAreWaitedFor, HeldResults, OutcomesFit, Jobs
  <1> QED BY <1>1, <1>2, <1>3, <1>4, <1>5, <1>6

LEMMA FnKeepsPool ==
    ASSUME PoolInv, NEW j \in Requests, Fn(j)
    PROVE  PoolInv'
  <1> USE PoolInv, PoolAssumption DEF PoolInv
  <1>1. TypeOK'
    <2>1. PICK g \in {"finish", "error"} : goroutine' = [goroutine EXCEPT ![j] = g]
      BY Fn(j) DEF Fn
    <2>2. got' = got \/ got' = [got EXCEPT ![j] = "fn"]
      BY Fn(j) DEF Fn
    <2>3. got' \in [Jobs -> Outcomes \cup Errors \cup {"none"}]
      BY <2>2 DEF TypeOK, Errors
    <2> QED
      BY <2>1, <2>3, Fn(j) DEF Fn, TypeOK, Jobs
  <1>2. OutcomesFit'
    <2>1. got[j] \in Outcomes
      BY Fn(j) DEF Fn, OutcomesFit, Jobs
    <2>2. goroutine'[j] = "finish" \/ (goroutine'[j] = "error" /\ got'[j] \in Errors)
      BY <2>1, Fn(j) DEF Fn, TypeOK, Accepts, Jobs, Outcomes, Errors
    <2>3. \A k \in Jobs \ {j} : goroutine'[k] = goroutine[k] /\ got'[k] = got[k]
      BY Fn(j) DEF Fn, TypeOK
    <2> QED
      BY <2>2, <2>3, Fn(j) DEF Fn, OutcomesFit, Jobs
  <1>3. ErrorsKept'
    BY Fn(j) DEF Fn, TypeOK, ErrorsKept, OutcomesFit, Jobs, Accepts
  <1>4. StoppedByContext'
    BY Fn(j) DEF Fn, TypeOK, StoppedByContext, OutcomesFit, CtxDone, Jobs, Accepts
  <1>5. FirstIsCause'
    BY Fn(j) DEF Fn, TypeOK, FirstIsCause, StoppedByContext, CtxDone, OutcomesFit, Jobs, Accepts
  <1>6. HoldersAreWaitedFor'
    BY Fn(j) DEF Fn, TypeOK, HoldersAreWaitedFor, HeldResults, OutcomesFit, Jobs, Accepts
  <1> QED BY <1>1, <1>2, <1>3, <1>4, <1>5, <1>6

LEMMA CancelBatchKeepsPool ==
    ASSUME PoolInv, NEW j \in Requests, CancelBatch(j)
    PROVE  PoolInv'
  <1> USE PoolInv, PoolAssumption DEF PoolInv
  <1>1. TypeOK'
    BY CancelBatch(j) DEF CancelBatch, TypeOK, Jobs, Outcomes, Errors
  <1>2. OutcomesFit'
    BY CancelBatch(j) DEF CancelBatch, TypeOK, OutcomesFit, Jobs, Outcomes, Errors
  <1>3. ErrorsKept'
    BY CancelBatch(j) DEF CancelBatch, TypeOK, ErrorsKept, OutcomesFit, Jobs
  <1>4. StoppedByContext'
    BY CancelBatch(j) DEF CancelBatch, TypeOK, StoppedByContext, OutcomesFit, CtxDone, Jobs
  <1>5. FirstIsCause'
    BY CancelBatch(j) DEF CancelBatch, TypeOK, FirstIsCause, StoppedByContext, CtxDone, OutcomesFit, Jobs
  <1>6. HoldersAreWaitedFor'
    BY CancelBatch(j) DEF CancelBatch, TypeOK, HoldersAreWaitedFor, HeldResults, OutcomesFit, Jobs
  <1> QED BY <1>1, <1>2, <1>3, <1>4, <1>5, <1>6

LEMMA CollectKeepsPool ==
    ASSUME PoolInv, NEW j \in Requests, Collect(j)
    PROVE  PoolInv'
  <1> USE PoolInv, PoolAssumption DEF PoolInv
  <1>1. TypeOK'
    <2>1. got[j] \in Errors /\ BatchOf[j] \in Batches /\ lock[BatchOf[j]] = j
      BY Collect(j) DEF Collect, OutcomesFit, TypeOK
    <2>2. errList' \in [Batches -> Seq(Errors)]
      BY <2>1, Collect(j) DEF Collect, TypeOK
    <2>3. PICK g \in {"finish", "end"} : goroutine' = [goroutine EXCEPT ![j] = g]
      BY Collect(j) DEF Collect, AfterError
    <2>4. \A k \in Requests : goroutine'[k] = "collect" <=> lock'[BatchOf[k]] = k
      BY <2>1, <2>3, Collect(j) DEF Collect, TypeOK, Jobs
    <2> QED
      BY <2>2, <2>3, <2>4, Collect(j) DEF Collect, TypeOK
  <1>2. OutcomesFit'
    BY Collect(j) DEF Collect, TypeOK, OutcomesFit, Jobs, Outcomes, Errors, AfterError
  <1>3. ErrorsKept'
    BY Collect(j) DEF Collect, TypeOK, ErrorsKept, OutcomesFit, Jobs, AfterError
  <1>4. StoppedByContext'
    BY Collect(j) DEF Collect, TypeOK, StoppedByContext, OutcomesFit, CtxDone, Jobs, AfterError
  <1>5. FirstIsCause'
    <2>1. got[j] \in Errors /\ BatchOf[j] \in Batches /\ lock[BatchOf[j]] = j
      BY Collect(j) DEF Collect, OutcomesFit, TypeOK
    <2>2. errList'[BatchOf[j]] # <<>>
          /\ Head(errList'[BatchOf[j]]) = IF errList[BatchOf[j]] = <<>> THEN got[j] ELSE Head(errList[BatchOf[j]])
      BY <2>1, Collect(j) DEF Collect, TypeOK
    <2>3. \A b \in Batches \ {BatchOf[j]} : errList'[b] = errList[b] /\ lock'[b] = lock[b]
      BY Collect(j) DEF Collect, TypeOK
    <2> QED
      BY <2>1, <2>2, <2>3, Collect(j) DEF Collect, FirstIsCause
  <1>6. HoldersAreWaitedFor'
    BY Collect(j) DEF Collect, TypeOK, HoldersAreWaitedFor, HeldResults, OutcomesFit, Jobs, AfterError
  <1> QED BY <1>1, <1>2, <1>3, <1>4, <1>5, <1>6

LEMMA FinishKeepsPool ==
    ASSUME PoolInv, NEW j \in Requests, Finish(j)
    PROVE  PoolInv'
  <1> USE PoolInv, PoolAssumption DEF PoolInv
  <1>1. TypeOK'
    BY Finish(j) DEF Finish, TypeOK, Jobs, Outcomes, Errors
  <1>2. OutcomesFit'
    BY Finish(j) DEF Finish, TypeOK, OutcomesFit, Jobs, Outcomes, Errors
  <1>3. ErrorsKept'
    BY Finish(j) DEF Finish, TypeOK, ErrorsKept, OutcomesFit, Jobs
  <1>4. StoppedByContext'
    BY Finish(j) DEF Finish, TypeOK, StoppedByContext, OutcomesFit, CtxDone, Jobs
  <1>5. FirstIsCause'
    BY Finish(j) DEF Finish, TypeOK, FirstIsCause, StoppedByContext, CtxDone, OutcomesFit, Jobs
  <1>6. HoldersAreWaitedFor'
    BY Finish(j) DEF Finish, TypeOK, HoldersAreWaitedFor, HeldResults, OutcomesFit, Jobs
  <1> QED BY <1>1, <1>2, <1>3, <1>4, <1>5, <1>6

LEMMA HandleDoneKeepsPool ==
    ASSUME PoolInv, NEW j \in Handles, HandleDone(j)
    PROVE  PoolInv'
  <1> USE PoolInv, PoolAssumption DEF PoolInv
  <1>1. TypeOK'
    BY HandleDone(j) DEF HandleDone, TypeOK, Jobs, Outcomes, Errors
  <1>2. OutcomesFit'
    BY HandleDone(j) DEF HandleDone, TypeOK, OutcomesFit, Jobs, Outcomes, Errors
  <1>3. ErrorsKept'
    BY HandleDone(j) DEF HandleDone, TypeOK, ErrorsKept, OutcomesFit, Jobs
  <1>4. StoppedByContext'
    BY HandleDone(j) DEF HandleDone, TypeOK, StoppedByContext, OutcomesFit, CtxDone, Jobs
  <1>5. FirstIsCause'
    BY HandleDone(j) DEF HandleDone, TypeOK, FirstIsCause, StoppedByContext, CtxDone, OutcomesFit, Jobs
  <1>6. HoldersAreWaitedFor'
    BY HandleDone(j) DEF HandleDone, TypeOK, HoldersAreWaitedFor, HeldResults, OutcomesFit, Jobs
  <1> QED BY <1>1, <1>2, <1>3, <1>4, <1>5, <1>6

LEMMA ParentDoneKeepsPool ==
    ASSUME PoolInv, NEW b \in Batches, ParentDone(b)
    PROVE  PoolInv'
  <1> USE PoolInv, PoolAssumption DEF PoolInv
  <1>1. TypeOK'
    BY ParentDone(b) DEF ParentDone, TypeOK, Jobs, Outcomes, Errors
  <1>2. OutcomesFit'
    BY ParentDone(b) DEF ParentDone, TypeOK, OutcomesFit, Jobs, Outcomes, Errors
  <1>3. ErrorsKept'
    BY ParentDone(b) DEF ParentDone, TypeOK, ErrorsKept, OutcomesFit, Jobs
  <1>4. StoppedByContext'
    BY ParentDone(b) DEF ParentDone, TypeOK, StoppedByContext, OutcomesFit, CtxDone, Jobs
  <1>5. FirstIsCause'
    BY ParentDone(b) DEF ParentDone, TypeOK, FirstIsCause, StoppedByContext, CtxDone, OutcomesFit, Jobs
  <1>6. HoldersAreWaitedFor'
    BY ParentDone(b) DEF ParentDone, TypeOK, HoldersAreWaitedFor, HeldResults, OutcomesFit, Jobs
  <1> QED BY <1>1, <1>2, <1>3, <1>4, <1>5, <1>6

LEMMA PoolDoneKeepsPool ==
    ASSUME PoolInv, PoolDone
    PROVE  PoolInv'
  <1> USE PoolInv, PoolAssumption DEF PoolInv
  <1>1. TypeOK'
    BY PoolDone DEF PoolDone, TypeOK, Jobs, Outcomes, Errors
  <1>2. OutcomesFit'
    BY PoolDone DEF PoolDone, TypeOK, OutcomesFit, Jobs, Outcomes, Errors
  <1>3. ErrorsKept'
    BY PoolDone DEF PoolDone, TypeOK, ErrorsKept, OutcomesFit, Jobs
  <1>4. StoppedByContext'
    BY PoolDone DEF PoolDone, TypeOK, StoppedByContext, OutcomesFit, CtxDone, Jobs
  <1>5. FirstIsCause'
    BY PoolDone DEF PoolDone, TypeOK, FirstIsCause, StoppedByContext, CtxDone, OutcomesFit, Jobs
  <1>6. HoldersAreWaitedFor'
    BY PoolDone DEF PoolDone, TypeOK, HoldersAreWaitedFor, HeldResults, OutcomesFit, Jobs
  <1> QED BY <1>1, <1>2, <1>3, <1>4, <1>5, <1>6

LEMMA PoolWaitedKeepsPool ==
    ASSUME PoolInv, PoolWaited
    PROVE  PoolInv'
  <1> USE PoolInv, PoolAssumption DEF PoolInv
  <1>1. TypeOK'
    BY PoolWaited DEF PoolWaited, TypeOK, Jobs, Outcomes, Errors
  <1>2. OutcomesFit'
    BY PoolWaited DEF PoolWaited, TypeOK, OutcomesFit, Jobs, Outcomes, Errors
  <1>3. ErrorsKept'
    BY PoolWaited DEF PoolWaited, TypeOK, ErrorsKept, OutcomesFit, Jobs
  <1>4. StoppedByContext'
    BY PoolWaited DEF PoolWaited, TypeOK, StoppedByContext, OutcomesFit, CtxDone, Jobs
  <1>5. FirstIsCause'
    BY PoolWaited DEF PoolWaited, TypeOK, FirstIsCause, StoppedByContext, CtxDone, OutcomesFit, Jobs
  <1>6. HoldersAreWaitedFor'
    BY PoolWaited DEF PoolWaited, TypeOK, HoldersAreWaitedFor, HeldResults, OutcomesFit, Jobs
  <1> QED BY <1>1, <1>2, <1>3, <1>4, <1>5, <1>6

------------------------------------------------------------------------------
(* The invariant, and what follows from it. *)

LEMMA PoolInvInit ==
    ASSUME Init
    PROVE  PoolInv
  <1> USE Init, PoolAssumption DEF Init
  <1>1. TypeOK
    BY DEF TypeOK, Idle, Jobs
  <1>2. HeldResults = {} /\ HoldersAreWaitedFor
    BY DEF HeldResults, HoldersAreWaitedFor
  <1> QED
    BY <1>1, <1>2 DEF PoolInv, OutcomesFit, ErrorsKept, StoppedByContext, FirstIsCause, Idle, Jobs

LEMMA PoolInvStep == PoolInv /\ [Next]_vars => PoolInv'
  <1> SUFFICES ASSUME PoolInv, [Next]_vars
               PROVE  PoolInv'
    OBVIOUS
  <1>1. ASSUME NEW w \in Workers, WorkerStep(w)
        PROVE  PoolInv'
    BY <1>1, TakeKeepsPool, ExitKeepsPool, WorkKeepsPool, PostKeepsPool, WaitDoneKeepsPool DEF WorkerStep
  <1>2. ASSUME NEW j \in Requests, RequestStep(j)
        PROVE  PoolInv'
    BY <1>2, EnqueueKeepsPool, RefusedKeepsPool, FnKeepsPool, CancelBatchKeepsPool, CollectKeepsPool,
       FinishKeepsPool DEF RequestStep, Jobs
  <1>3. ASSUME NEW j \in Handles, HandleStep(j)
        PROVE  PoolInv'
    BY <1>3, EnqueueKeepsPool, RefusedKeepsPool, HandleDoneKeepsPool DEF HandleStep, Jobs
  <1>4. ASSUME NEW b \in Batches, ParentDone(b)
        PROVE  PoolInv'
    BY <1>4, ParentDoneKeepsPool
  <1>5. CASE UNCHANGED vars
    BY <1>5 DEF vars, PoolInv, TypeOK, OutcomesFit, ErrorsKept, StoppedByContext, FirstIsCause,
       HoldersAreWaitedFor, HeldResults, CtxDone
  <1> QED
    BY <1>1, <1>2, <1>3, <1>4, <1>5, PoolDoneKeepsPool, PoolWaitedKeepsPool DEF Next

LEMMA PoolInvariance == Spec => []PoolInv
  BY PoolInvInit, PoolInvStep, PTL DEF Spec

\* Every variable of Pool keeps its type, and the goroutine that collects an
\* error of a call is the one that holds the call's lock (pool.go, Process).
THEOREM PoolTypeCorrect == Spec => []TypeOK
  <1>1. PoolInv => TypeOK
    BY DEF PoolInv
  <1> QED
    BY <1>1, PoolInvariance, PTL

\* A call of Process that returns no error had every result accepted by fn:
\* whatever was cancelled, refused or failed meanwhile, ProcessAll's slice has
\* no hole (pool.go, Process and ProcessAll).
THEOREM ProcessLeavesNoHoles == Spec => []NoHoles
  <1>1. PoolInv => NoHoles
    BY DEF PoolInv, ErrorsKept, NoHoles, Returned
  <1> QED
    BY <1>1, PoolInvariance, PTL

\* The first error a call of Process collects, the one it returns, is never the
\* cancellation that another request's error brought about (pool.go, Process:
\* the lock is taken before cancel and kept until the error is appended).
THEOREM ProcessReturnsTheCause == Spec => []FirstErrorIsTheCause
  <1>1. PoolInv => FirstErrorIsTheCause
    BY DEF PoolInv, FirstIsCause, FirstErrorIsTheCause
  <1> QED
    BY <1>1, PoolInvariance, PTL

\* Never more results of work are held by goroutines and callers than the pool
\* has workers (job.go, waitDone: each holder keeps a worker of its own waiting).
THEOREM ResultsAreBounded == Spec => []ResultsBounded
  <1>1. ASSUME PoolInv
        PROVE  ResultsBounded
    <2> DEFINE Waiting == {w \in Workers : worker[w].at = "wait" /\ worker[w].job \in HeldResults}
    <2> DEFINE holds == [w \in Waiting |-> worker[w].job]
    <2>1. IsFiniteSet(Waiting) /\ Cardinality(Waiting) <= Cardinality(Workers)
      BY FS_Subset, PoolAssumption
    <2>2. holds \in Surjection(Waiting, HeldResults)
      <3>1. holds \in [Waiting -> HeldResults]
        OBVIOUS
      <3>2. \A j \in HeldResults : \E w \in Waiting : holds[w] = j
        BY <1>1 DEF PoolInv, HoldersAreWaitedFor
      <3> QED
        BY <3>1, <3>2 DEF Surjection
    <2>3. IsFiniteSet(HeldResults) /\ Cardinality(HeldResults) <= Cardinality(Waiting)
      <3> HIDE DEF Waiting, holds
      <3> QED BY <2>1, <2>2, FS_Surjection
    <2>4. Cardinality(Waiting) \in Nat /\ Cardinality(Workers) \in Nat /\ Cardinality(HeldResults) \in Nat
      <3> HIDE DEF Waiting
      <3> QED BY <2>1, <2>3, FS_CardinalityType, PoolAssumption
    <2> HIDE DEF Waiting
    <2> QED
      BY <2>1, <2>3, <2>4 DEF ResultsBounded
  <1> QED
    BY <1>1, PoolInvariance, PTL

\* Once a request of a call has failed no worker starts work on another one of
\* the call: a worker that takes it drops it (pool.go, the workers' loop).
THEOREM NothingStartsAfterCancel == Spec => NoWorkAfterCancel
  <1>1. ASSUME PoolInv, [Next]_vars, NEW w \in Workers, NEW j \in Requests,
               worker[w].job # j, worker'[w].job = j, CtxDone(j)
        PROVE  worker'[w].at = "drop"
    <2>1. j # NoJob
      BY PoolAssumption DEF Jobs
    <2>2. CASE \E v \in Workers : Take(v)
      BY <1>1, <2>2 DEF Take, Start, PoolInv, TypeOK
    <2>3. CASE \E v \in Workers : Exit(v) \/ Work(v) \/ Post(v) \/ WaitDone(v)
      <3>1. PICK v \in Workers : Exit(v) \/ Work(v) \/ Post(v) \/ WaitDone(v)
        BY <2>3
      <3>2. worker'[v].job = worker[v].job \/ worker'[v].job = NoJob
        <4>1. CASE Exit(v) \/ WaitDone(v)
          BY <1>1, <4>1 DEF Exit, WaitDone, Idle, PoolInv, TypeOK
        <4>2. CASE Work(v)
          BY <1>1, <4>2 DEF Work, PoolInv, TypeOK
        <4>3. CASE Post(v)
          BY <1>1, <4>3 DEF Post, Idle, PoolInv, TypeOK
        <4> QED
          BY <3>1, <4>1, <4>2, <4>3
      <3>3. \A u \in Workers \ {v} : worker'[u] = worker[u]
        BY <1>1, <3>1 DEF Exit, Work, Post, WaitDone, PoolInv, TypeOK
      <3> QED
        BY <1>1, <2>1, <3>2, <3>3
    <2>4. CASE worker' = worker
      BY <1>1, <2>4
    <2> QED
      BY <1>1, <2>2, <2>3, <2>4 DEF Next, WorkerStep, RequestStep, HandleStep, Enqueue, Refused, Fn, CancelBatch,
         Collect, Finish, HandleDone, ParentDone, PoolDone, PoolWaited, vars
  <1>2. PoolInv /\ [Next]_vars
        => \A w \in Workers, j \in Requests :
              worker[w].job # j /\ worker'[w].job = j /\ CtxDone(j) => worker'[w].at = "drop"
    BY <1>1
  <1> QED
    BY <1>2, PoolInvariance, PTL DEF Spec, NoWorkAfterCancel
==============================================================================
