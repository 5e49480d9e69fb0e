--------------------------------- MODULE Pool ---------------------------------
(***************************************************************************)
(* Pool (pool.go, job.go): workers that take jobs from a queue, the        *)
(* goroutines Process starts for its requests, callers of NewJob that hold *)
(* the job themselves, and Done.                                           *)
(*                                                                         *)
(* The channels of a job are unbuffered, so a worker that posts and the    *)
(* goroutine in Result move in one step.  The queue is gluon's             *)
(* async.QueuedChannel: unbounded, first in first out, and drained by the  *)
(* workers after Close.                                                    *)
(***************************************************************************)
EXTENDS Integers, FiniteSets, SequencesExt

CONSTANTS
    Workers,    \* the pool's goroutines
    Batches,    \* calls of Process (or ProcessAll)
    Requests,   \* their requests: Process starts a goroutine for each
    BatchOf,    \* the call a request belongs to
    Handles,    \* jobs of direct NewJob callers
    NoJob,
    NoOne       \* nobody holds the lock of a call

Jobs == Requests \cup Handles

ASSUME PoolAssumption ==
    /\ BatchOf \in [Requests -> Batches] /\ IsFiniteSet(Workers)
    /\ Requests \cap Handles = {} /\ NoJob \notin Jobs /\ NoOne \notin Requests

VARIABLES
    queue,      \* jobs no worker has taken yet
    closed,     \* Pool.Done: "no", "closing" while it waits, "done"
    worker,     \* what each worker does, with which job and outcome
    goroutine,  \* where each request's goroutine or NewJob caller is
    got,        \* what Result returned to it
    done,       \* jobs whose done channel is closed
    parent,     \* calls whose own context is done
    cancelled,  \* calls whose derived context was cancelled by Process
    lock,       \* the mutex of each call
    errList     \* the errors each call has collected

vars == <<queue, closed, worker, goroutine, got, done, parent, cancelled, lock, errList>>

\* "failed" is an error of work's own; "stopped" one that work or the pool
\* returns because the job's context is done (ErrJobCancelled).
Outcomes == {"ok", "failed", "stopped"}
Errors == {"failed", "stopped", "refused", "fn"}

Idle == [at |-> "idle", job |-> NoJob, outcome |-> "none"]

\* Is the context of the job done?
CtxDone(j) == j \in Requests /\ BatchOf[j] \in parent \cup cancelled

Init ==
    /\ queue = <<>>
    /\ closed = "no"
    /\ worker = [w \in Workers |-> Idle]
    /\ goroutine = [j \in Jobs |-> "start"]
    /\ got = [j \in Jobs |-> "none"]
    /\ done = {}
    /\ parent = {}
    /\ cancelled = {}
    /\ lock = [b \in Batches |-> NoOne]
    /\ errList = [b \in Batches |-> <<>>]

------------------------------------------------------------------------------
(* Workers. *)

\* Faulty variant: a job whose context is done is worked on all the same.
StartAnyway(j) == [at |-> "work", job |-> j, outcome |-> "none"]

\* A job whose context is done is failed at once.
Start(j) ==
    IF CtxDone(j) THEN [at |-> "drop", job |-> j, outcome |-> "stopped"]
    ELSE [at |-> "work", job |-> j, outcome |-> "none"]

\* The next job of the range over the queue.
Take(w) ==
    /\ worker[w].at = "idle"
    /\ queue # <<>>
    /\ worker' = [worker EXCEPT ![w] = Start(Head(queue))]
    /\ queue' = Tail(queue)
    /\ UNCHANGED <<closed, goroutine, got, done, parent, cancelled, lock, errList>>

\* The queue is closed and drained: the worker ends.
Exit(w) ==
    /\ worker[w].at = "idle"
    /\ queue = <<>> /\ closed # "no"
    /\ worker' = [worker EXCEPT ![w] = [Idle EXCEPT !.at = "gone"]]
    /\ UNCHANGED <<queue, closed, goroutine, got, done, parent, cancelled, lock, errList>>

\* work returns; it may return because its context is done.
Work(w) ==
    /\ worker[w].at = "work"
    /\ \E outcome \in {"ok", "failed"} \cup {o \in {"stopped"} : CtxDone(worker[w].job)} :
          worker' = [worker EXCEPT ![w].at = "post", ![w].outcome = outcome]
    /\ UNCHANGED <<queue, closed, goroutine, got, done, parent, cancelled, lock, errList>>

\* postSuccess or postFailure meets Result.
Post(w) ==
    /\ worker[w].at \in {"post", "drop"}
    /\ goroutine[worker[w].job] = "result"
    /\ got' = [got EXCEPT ![worker[w].job] = worker[w].outcome]
    /\ goroutine' = [goroutine EXCEPT ![worker[w].job] = "have"]
    /\ worker' = [worker EXCEPT ![w] =
                     IF @.at = "post" THEN [@ EXCEPT !.at = "wait"] ELSE Idle]
    /\ UNCHANGED <<queue, closed, done, parent, cancelled, lock, errList>>

\* Faulty variant: the worker does not wait for the job to be done with.
WaitNot(w) == TRUE

Waited(w) == worker[w].job \in done

\* waitDone.
WaitDone(w) ==
    /\ worker[w].at = "wait"
    /\ Waited(w)
    /\ worker' = [worker EXCEPT ![w] = Idle]
    /\ UNCHANGED <<queue, closed, goroutine, got, done, parent, cancelled, lock, errList>>

------------------------------------------------------------------------------
(* Process: the goroutine of a request. *)

\* NewJob: newJob and Enqueue, or "pool closed".
Enqueue(j) ==
    /\ goroutine[j] = "start"
    /\ closed = "no"
    /\ queue' = Append(queue, j)
    /\ goroutine' = [goroutine EXCEPT ![j] = "result"]
    /\ UNCHANGED <<closed, worker, got, done, parent, cancelled, lock, errList>>

Refused(j) ==
    /\ goroutine[j] = "start"
    /\ closed # "no"
    /\ got' = [got EXCEPT ![j] = "refused"]
    /\ goroutine' = [goroutine EXCEPT ![j] = IF j \in Requests THEN "error" ELSE "end"]
    /\ UNCHANGED <<queue, closed, worker, done, parent, cancelled, lock, errList>>

\* Faulty variant: only errors of work count, not those of the context.
AcceptsCancelled(j) == got[j] \in {"ok", "stopped"}

Accepts(j) == got[j] = "ok"

\* fn(index, req, res, err): it passes an error on, and may fail by itself.
Fn(j) ==
    /\ goroutine[j] = "have"
    /\ \/ Accepts(j) /\ goroutine' = [goroutine EXCEPT ![j] = "finish"] /\ UNCHANGED got
       \/ Accepts(j) /\ goroutine' = [goroutine EXCEPT ![j] = "error"] /\ got' = [got EXCEPT ![j] = "fn"]
       \/ ~Accepts(j) /\ goroutine' = [goroutine EXCEPT ![j] = "error"] /\ UNCHANGED got
    /\ UNCHANGED <<queue, closed, worker, done, parent, cancelled, lock, errList>>

\* Faulty variant: the call is cancelled before its lock is taken.
CancelWithoutLock(j) ==
    /\ goroutine[j] = "error"
    /\ goroutine' = [goroutine EXCEPT ![j] = "collect"]
    /\ cancelled' = cancelled \cup {BatchOf[j]}
    /\ UNCHANGED <<queue, closed, worker, got, done, parent, lock, errList>>

\* lock.Lock, then cancel.
CancelBatch(j) ==
    /\ goroutine[j] = "error"
    /\ lock[BatchOf[j]] = NoOne
    /\ lock' = [lock EXCEPT ![BatchOf[j]] = j]
    /\ goroutine' = [goroutine EXCEPT ![j] = "collect"]
    /\ cancelled' = cancelled \cup {BatchOf[j]}
    /\ UNCHANGED <<queue, closed, worker, got, done, parent, errList>>

\* Faulty variant: a goroutine that fails does not call done.
ForgetDone(j) == "end"

\* done is deferred once NewJob has succeeded.
AfterError(j) == IF got[j] = "refused" THEN "end" ELSE "finish"

\* errList = append(errList, err), and the deferred lock.Unlock.
Collect(j) ==
    /\ goroutine[j] = "collect"
    /\ errList' = [errList EXCEPT ![BatchOf[j]] = Append(@, got[j])]
    /\ lock' = [lock EXCEPT ![BatchOf[j]] = NoOne]
    /\ goroutine' = [goroutine EXCEPT ![j] = AfterError(j)]
    /\ UNCHANGED <<queue, closed, worker, got, done, parent, cancelled>>

\* The deferred done() and wg.Done().
Finish(j) ==
    /\ goroutine[j] = "finish"
    /\ done' = done \cup {j}
    /\ goroutine' = [goroutine EXCEPT ![j] = "end"]
    /\ UNCHANGED <<queue, closed, worker, got, parent, cancelled, lock, errList>>

------------------------------------------------------------------------------
(* Direct callers of NewJob: they may call done before, after or without *)
(* taking the result.                                                    *)

HandleDone(j) ==
    /\ goroutine[j] \in {"result", "have"}
    /\ done' = done \cup {j}
    /\ goroutine' = [goroutine EXCEPT ![j] = "end"]
    /\ UNCHANGED <<queue, closed, worker, got, parent, cancelled, lock, errList>>

------------------------------------------------------------------------------
\* The context Process was given ends.
ParentDone(b) ==
    /\ b \notin parent
    /\ parent' = parent \cup {b}
    /\ UNCHANGED <<queue, closed, worker, goroutine, got, done, cancelled, lock, errList>>

\* Done: queue.Close, then wg.Wait.
PoolDone ==
    /\ closed = "no"
    /\ closed' = "closing"
    /\ UNCHANGED <<queue, worker, goroutine, got, done, parent, cancelled, lock, errList>>

PoolWaited ==
    /\ closed = "closing"
    /\ \A w \in Workers : worker[w].at = "gone"
    /\ closed' = "done"
    /\ UNCHANGED <<queue, worker, goroutine, got, done, parent, cancelled, lock, errList>>

WorkerStep(w) == Take(w) \/ Exit(w) \/ Work(w) \/ Post(w) \/ WaitDone(w)

RequestStep(j) ==
    \/ Enqueue(j) \/ Refused(j) \/ Fn(j) \/ CancelBatch(j) \/ Collect(j) \/ Finish(j)

HandleStep(j) == Enqueue(j) \/ Refused(j) \/ HandleDone(j)

Next ==
    \/ \E w \in Workers : WorkerStep(w)
    \/ \E j \in Requests : RequestStep(j)
    \/ \E j \in Handles : HandleStep(j)
    \/ \E b \in Batches : ParentDone(b)
    \/ PoolDone \/ PoolWaited

Spec == Init /\ [][Next]_vars

\* Goroutines run, and so does whoever called NewJob.
Fairness ==
    /\ \A w \in Workers : WF_vars(WorkerStep(w))
    /\ \A j \in Requests : WF_vars(RequestStep(j))
    /\ \A j \in Handles : WF_vars(HandleStep(j))
    /\ WF_vars(PoolWaited)

FairSpec == Spec /\ Fairness

------------------------------------------------------------------------------
(* Properties. *)

TypeOK ==
    /\ queue \in Seq(Jobs)
    /\ closed \in {"no", "closing", "done"}
    /\ worker \in [Workers -> [at : {"idle", "work", "post", "drop", "wait", "gone"},
                               job : Jobs \cup {NoJob}, outcome : Outcomes \cup {"none"}]]
    /\ goroutine \in [Jobs -> {"start", "result", "have", "error", "collect", "finish", "end"}]
    /\ got \in [Jobs -> Outcomes \cup Errors \cup {"none"}]
    /\ done \subseteq Jobs
    /\ parent \subseteq Batches /\ cancelled \subseteq Batches
    /\ lock \in [Batches -> Requests \cup {NoOne}]
    /\ \A j \in Requests : goroutine[j] = "collect" <=> lock[BatchOf[j]] = j
    /\ errList \in [Batches -> Seq(Errors)]

Returned(b) == \A j \in Requests : BatchOf[j] = b => goroutine[j] = "end"

\* Process returns no error only if fn accepted the result of every request:
\* ProcessAll's slice has no hole, whatever was cancelled or refused meanwhile.
NoHoles ==
    \A b \in Batches :
        Returned(b) /\ errList[b] = <<>> => \A j \in Requests : BatchOf[j] = b => got[j] = "ok"

\* The error Process returns, the first collected, is a cause: never the
\* cancellation that another request's error brought about.
FirstErrorIsTheCause ==
    \A b \in Batches : errList[b] # <<>> /\ Head(errList[b]) = "stopped" => b \in parent

\* The results of work that goroutines and callers hold and are not done with.
HeldResults ==
    {j \in Jobs : /\ goroutine[j] \in {"have", "error", "collect", "finish"}
                  /\ got[j] \in {"ok", "failed", "fn"}}

\* A worker gets no new job before the holder of its last one is done with the
\* result: never more results are held at a time than there are workers.
ResultsBounded == Cardinality(HeldResults) <= Cardinality(Workers)

\* After an error no worker starts on another request of the call.
NoWorkAfterCancel ==
    [][\A w \in Workers, j \in Requests :
          worker[w].job # j /\ worker'[w].job = j /\ CtxDone(j) => worker'[w].at = "drop"]_vars

\* Jobs that were marked as done before anyone took their result: the worker
\* that has one waits for the taker for good.
ResultsLeft == {j \in Handles : j \in done /\ got[j] = "none"}

\* Every call of Process returns, as long as NewJob's callers leave it a worker.
ProcessReturns ==
    \A b \in Batches : <>(Returned(b) \/ Cardinality(ResultsLeft) >= Cardinality(Workers))

\* Done returns once it is called, unless a result was left.
DoneReturns == closed = "closing" ~> closed = "done" \/ ResultsLeft # {}
==============================================================================
