-------------------------------- MODULE Future --------------------------------
(***************************************************************************)
(* Future and Group (future.go): each function of a group runs in its own  *)
(* goroutine, which hands its result over on an unbuffered channel; Result *)
(* and ForEach take the results in the order of Add and stop at the first  *)
(* error.  A future of its own can be asked with Get and with Then.        *)
(*                                                                         *)
(* A function that panics ends its goroutine in the panic handler, and its *)
(* future has no result ever.                                              *)
(***************************************************************************)
EXTENDS Integers, SequencesExt

CONSTANTS
    Size,       \* futures of the group, added before it is asked
    Takers      \* goroutines of Get and Then on a future of its own

ASSUME FutureAssumption == Size \in Nat /\ IsFiniteSet(Takers)

Lone == 0                        \* the future outside the group
Futures == 0 .. Size

VARIABLES
    fn,         \* each goroutine of NewFuture: "run", "send" or how it ended
    val,        \* what its function returned
    mode,       \* what the group was asked for: "Result" or "ForEach"
    next,       \* the future the group is asked for next
    out,        \* the results Result has collected, or ForEach has passed on
    answer,     \* what Result or ForEach returned
    taker       \* what each taker of the lone future got

futureVars == <<fn, val, mode, next, out, answer, taker>>

FutureInit ==
    /\ fn = [f \in Futures |-> "run"]
    /\ val = [f \in Futures |-> "none"]
    /\ mode \in {"Result", "ForEach"}
    /\ next = 1
    /\ out = <<>>
    /\ answer = "none"
    /\ taker = [t \in Takers |-> "waits"]

\* The function of a future returns or panics.
Run(f) ==
    /\ fn[f] = "run"
    /\ \/ /\ fn' = [fn EXCEPT ![f] = "send"]
          /\ \E v \in {"ok", "err"} : val' = [val EXCEPT ![f] = v]
       \/ fn' = [fn EXCEPT ![f] = "panicked"] /\ UNCHANGED val
    /\ UNCHANGED <<mode, next, out, answer, taker>>

\* Faulty variant: the group takes whatever result comes first.
GetAny(f) == f \in 1 .. Size

\* The future that Get waits for.
GetNext(f) == f = next

\* Get meets the send of the future whose turn it is; Result collects it, or
\* ForEach calls its function, which may fail.
GroupGet(f) ==
    /\ answer = "none" /\ GetNext(f)
    /\ f \in 1 .. Size /\ fn[f] = "send"
    /\ fn' = [fn EXCEPT ![f] = "gone"]
    /\ \/ val[f] = "ok" /\ out' = Append(out, f) /\ next' = next + 1 /\ UNCHANGED answer
       \/ val[f] = "err" /\ answer' = "err" /\ UNCHANGED <<out, next>>
       \/ val[f] = "ok" /\ mode = "ForEach" /\ out' = Append(out, f) /\ answer' = "stopped" /\ UNCHANGED next
    /\ UNCHANGED <<val, mode, taker>>

\* Faulty variant: the loop ends one future early.
AllButOne == Size

AllAsked == Size + 1

\* Every future of the group has been asked.
GroupEnd ==
    /\ answer = "none" /\ next = AllAsked
    /\ answer' = "ok"
    /\ UNCHANGED <<fn, val, mode, next, out, taker>>

\* Faulty variant: the result stays for the next one who asks.
TakeAndKeep(t) ==
    /\ fn[Lone] = "send" /\ taker[t] = "waits"
    /\ taker' = [taker EXCEPT ![t] = val[Lone]]
    /\ UNCHANGED <<fn, val, mode, next, out, answer>>

\* Get, or the goroutine of Then, meets the send of the lone future.
TakeLone(t) ==
    /\ fn[Lone] = "send" /\ taker[t] = "waits"
    /\ taker' = [taker EXCEPT ![t] = val[Lone]]
    /\ fn' = [fn EXCEPT ![Lone] = "gone"]
    /\ UNCHANGED <<val, mode, next, out, answer>>

FutureNext ==
    \/ \E f \in Futures : Run(f) \/ GroupGet(f)
    \/ GroupEnd
    \/ \E t \in Takers : TakeLone(t)

\* Goroutines run, and the functions they call return or panic.
FutureFairness ==
    /\ \A f \in Futures : WF_futureVars(Run(f)) /\ WF_futureVars(GroupGet(f))
    /\ WF_futureVars(GroupEnd)
    /\ \A t \in Takers : WF_futureVars(TakeLone(t))

FutureSpec == FutureInit /\ [][FutureNext]_futureVars /\ FutureFairness

------------------------------------------------------------------------------
(* Properties. *)

FutureTypeOK ==
    /\ fn \in [Futures -> {"run", "send", "gone", "panicked"}]
    /\ val \in [Futures -> {"none", "ok", "err"}]
    /\ mode \in {"Result", "ForEach"}
    /\ next \in 1 .. Size + 1
    /\ out \in Seq(1 .. Size)
    /\ answer \in {"none", "ok", "err", "stopped"} /\ (answer = "ok" => next = Size + 1)
    /\ taker \in [Takers -> {"waits", "ok", "err"}]

\* Whatever order the functions end in, the group's results are those of the
\* first futures in the order of Add, and an error is that of the first future
\* that has one, never of one that merely failed earlier in time.
GroupInOrder ==
    /\ out = [i \in 1 .. Len(out) |-> i]
    /\ \A i \in 1 .. Len(out) : val[i] = "ok"
    /\ answer = "err" => val[Len(out) + 1] = "err"

\* Goroutines that send to nobody for good: a group that returned an error
\* leaves behind those of the futures after it, one that returned all its
\* results none.
Stranded == {f \in 1 .. Size : fn[f] = "send" /\ answer # "none"}

StrandedAfterError ==
    /\ answer = "ok" => Stranded = {}
    /\ \A f \in Stranded : f > Len(out)

\* Only one of those who ask a future gets its result: the others wait for
\* ever, they are never given it twice.
TakenOnce == Cardinality({t \in Takers : taker[t] # "waits"}) <= 1

\* Result and ForEach return, unless a function they came to has panicked.
GroupReturns ==
    <>(answer # "none" \/ \E f \in 1 .. Size : f = next /\ fn[f] = "panicked")
==============================================================================
