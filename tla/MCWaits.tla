------------------------------- MODULE MCWaits -------------------------------
(***************************************************************************)
(* The instances of the components in which somebody waits for somebody    *)
(* else, in one model: part says which component moves in a behaviour.     *)
(* They have no variable in common, so that letting them interleave would  *)
(* add states and no case.  Each is fair as it is in its own module, as    *)
(* long as it is the one that moves.                                       *)
(***************************************************************************)
EXTENDS Pool, Future, Listener, Paging, Pipeline, DriveEvents

VARIABLE part

waitsVars == <<part, vars, futureVars, listenerVars, pagingVars, pipelineVars, driveVars>>

\* Values of the constants.
BothInOne == [r \in Requests |-> "b1"]
ToWatchers == [a \in Adders |-> "watchers"]
FourOrders == [desc : BOOLEAN, end : {FromTheStart, 3}]

\* A component that does not move needs no more than one initial state.
OneStart ==
    /\ part # "future" => mode = "Result"
    /\ part # "listener" => kind = "hang"
    /\ part # "paging" => created = 0 /\ matching = {}

WaitsInit ==
    /\ part \in {"pool", "future", "listener", "paging", "pipeline", "drive"}
    /\ Init /\ FutureInit /\ ListenerInit /\ PagingInit /\ PipelineInit /\ DriveInit
    /\ OneStart

PoolStep ==
    /\ part = "pool" /\ Next
    /\ UNCHANGED <<part, futureVars, listenerVars, pagingVars, pipelineVars, driveVars>>

FutureStep ==
    /\ part = "future" /\ FutureNext
    /\ UNCHANGED <<part, vars, listenerVars, pagingVars, pipelineVars, driveVars>>

ListenerStep ==
    /\ part = "listener" /\ ListenerNext
    /\ UNCHANGED <<part, vars, futureVars, pagingVars, pipelineVars, driveVars>>

PagingStep ==
    /\ part = "paging" /\ PagingNext
    /\ UNCHANGED <<part, vars, futureVars, listenerVars, pipelineVars, driveVars>>

PipelineStep ==
    /\ part = "pipeline" /\ PipelineNext
    /\ UNCHANGED <<part, vars, futureVars, listenerVars, pagingVars, driveVars>>

DriveStep ==
    /\ part = "drive" /\ DriveNext
    /\ UNCHANGED <<part, vars, futureVars, listenerVars, pagingVars, pipelineVars>>

WaitsNext == PoolStep \/ FutureStep \/ ListenerStep \/ PagingStep \/ PipelineStep \/ DriveStep

\* The fairness of Pool, Future, Listener, Paging, Pipeline and DriveEvents.
WaitsFairness ==
    /\ \A w \in Workers : WF_vars(part = "pool" /\ WorkerStep(w))
    /\ \A j \in Requests : WF_vars(part = "pool" /\ RequestStep(j))
    /\ \A j \in Handles : WF_vars(part = "pool" /\ HandleStep(j))
    /\ WF_vars(part = "pool" /\ PoolWaited)
    /\ \A f \in Futures :
          /\ WF_futureVars(part = "future" /\ Run(f))
          /\ WF_futureVars(part = "future" /\ GroupGet(f))
    /\ WF_futureVars(part = "future" /\ GroupEnd)
    /\ \A t \in Takers : WF_futureVars(part = "future" /\ TakeLone(t))
    /\ \A t \in Setters : WF_listenerVars(part = "listener" /\ FinishSet(t))
    /\ \A p \in Peers, s \in Sides : WF_listenerVars(part = "listener" /\ IOStep(p, s))
    /\ \A c \in Callers : WF_pagingVars(part = "paging" /\ IDsAnswered(c))
    /\ \A r \in Arrivals : WF_pipelineVars(part = "pipeline" /\ Advance(r))
    /\ \A a \in Adders : WF_pipelineVars(part = "pipeline" /\ Add(a))
    /\ WF_driveVars(part = "drive" /\ PageArrives)
    /\ WF_driveVars(part = "drive" /\ DriveReturned)

WaitsSpec == WaitsInit /\ [][WaitsNext]_waitsVars /\ WaitsFairness

------------------------------------------------------------------------------
(* Properties that are asked of a component as long as it moves: its state *)
(* says from the start that it was called.                                 *)

\* A call of Process returns what its requests made of it, and returns, as
\* long as NewJob's callers leave it a worker; Done returns.
PoolAnswers ==
    /\ [](TypeOK /\ NoHoles /\ FirstErrorIsTheCause /\ ResultsBounded)
    /\ NoWorkAfterCancel
    /\ part = "pool" => ProcessReturns
    /\ DoneReturns

\* A group returns its results in order, and returns, unless a function it came
\* to has panicked.
GroupsAnswer ==
    /\ [](FutureTypeOK /\ GroupInOrder /\ StrandedAfterError /\ TakenOnce)
    /\ part = "future" => GroupReturns

\* The client's calls that go on from page to page return, with everything that
\* was there: message IDs and metadata, and the events of a drive.
PagesAnswer ==
    /\ [](PagesAddUp /\ DriveTypeOK /\ NoDriveEventLost)
    /\ IDsReturn /\ DriveReturns
==============================================================================
