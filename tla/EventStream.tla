----------------------------- MODULE EventStream -----------------------------
(***************************************************************************)
(* NewEventStream (event.go): the goroutine that polls GetEvent whenever   *)
(* its Ticker (ticker.go) fires and sends what it got, event by event, on  *)
(* a channel; the reader of that channel; and the client it polls with.    *)
(*                                                                         *)
(* A page (getEvent) is one step: the server reads its log under one lock, *)
(* and what the client does with the answer touches nothing shared.        *)
(***************************************************************************)
EXTENDS EventLog

CONSTANTS
    MaxCollectedEvents,   \* maxCollectedEvents
    MaxFailures           \* bound: pages that fail for the network's sake

ASSUME StreamAssumption == MaxCollectedEvents \in Nat \ {0} /\ MaxFailures \in Nat

VARIABLES
    pc,           \* where the stream's goroutine is
    ticker,       \* where the ticker's goroutine is
    lastEventID,
    from,         \* the ID the next page is asked for with
    batch,        \* the events collected and not yet sent
    cancelled,    \* is the stream's context done?
    closed,       \* has the client been closed?
    failures,     \* how many pages have failed
    view,         \* what the reader makes of the events, an item it does not know being Absent
    told          \* the updates merged into the events the reader was sent

streamVars == <<pc, ticker, lastEventID, from, batch, cancelled, closed, failures, view, told>>
vars == <<logVars, streamVars>>

\* What a reader that fetches everything anew would see.
Visible(i) == IF Exists(i) THEN store[i] ELSE Absent

Init ==
    /\ LogInit
    /\ pc = "tick"
    /\ ticker = "sleep"
    /\ lastEventID = 1
    /\ from = 1
    /\ batch = <<>>
    /\ cancelled = FALSE
    /\ closed = FALSE
    /\ failures = 0
    /\ view = [i \in Items |-> Visible(i)]
    /\ told = {}

------------------------------------------------------------------------------
(* The ticker's goroutine. *)

\* time.After fires; the goroutine offers the tick on Ticker.C.
TickerFires ==
    /\ ticker = "sleep"
    /\ ticker' = "offer"
    /\ UNCHANGED <<logVars, pc, lastEventID, from, batch, cancelled, closed, failures, view, told>>

\* Stop has closed stopCh: both selects return, and doneCh is closed.
TickerStops ==
    /\ pc = "stopping"
    /\ ticker \in {"sleep", "offer"}
    /\ ticker' = "done"
    /\ UNCHANGED <<logVars, pc, lastEventID, from, batch, cancelled, closed, failures, view, told>>

------------------------------------------------------------------------------
(* The stream's goroutine. *)

\* The select picks ticker.C, whether or not the context is done as well.
Tick ==
    /\ pc = "tick"
    /\ ticker = "offer"
    /\ ticker' = "sleep"
    /\ pc' = "fetch"
    /\ from' = lastEventID
    /\ batch' = <<>>
    /\ UNCHANGED <<logVars, lastEventID, cancelled, closed, failures, view, told>>

\* The select picks ctx.Done: the deferred ticker.Stop begins.
TickDone ==
    /\ pc = "tick"
    /\ cancelled
    /\ pc' = "stopping"
    /\ UNCHANGED <<logVars, ticker, lastEventID, from, batch, cancelled, closed, failures, view, told>>

\* Faulty variant: only the last page is kept.
KeepLastPage == batch' = <<Event(from)>>

KeepPage == batch' = Append(batch, Event(from))

\* getEvent succeeds.  GetEvent goes on while there is more, up to
\* maxCollectedEvents; a batch that ends where the stream is, is not sent.
Page ==
    /\ pc = "fetch"
    /\ ~cancelled /\ ~closed /\ ~Panics(from)
    /\ from' = Event(from).id
    /\ KeepPage
    /\ pc' = CASE More(from) /\ Len(batch) + 1 < MaxCollectedEvents -> "fetch"
               [] Event(from).id = lastEventID -> "tick"
               [] OTHER -> "send"
    /\ UNCHANGED <<logVars, ticker, lastEventID, cancelled, closed, failures, view, told>>

\* Faulty variant: an error ends the stream.
GiveUp == "stopping"

TryAgain == "tick"

\* getEvent fails: the context is done, the client has no tokens, the server
\* fails or the network does.  GetEvent drops what it has collected.
PageFails ==
    /\ pc = "fetch"
    /\ \/ (cancelled \/ closed \/ Panics(from)) /\ UNCHANGED failures
       \/ failures < MaxFailures /\ failures' = failures + 1
    /\ pc' = TryAgain
    /\ batch' = <<>>
    /\ UNCHANGED <<logVars, ticker, lastEventID, from, cancelled, closed, view, told>>

\* What the reader does with an event: a refresh flag makes it fetch all items,
\* or all messages, anew; otherwise it follows the event's items.
Applied(event) ==
    [i \in Items |->
        IF event.refresh = "all" \/ (event.refresh = "mail" /\ i \in MailItems) THEN Visible(i)
        ELSE IF event.items[i] # NoEntry THEN event.items[i] ELSE view[i]]

\* Faulty variant: the stream moves to the end of the batch with its first event.
AdvanceToEnd == lastEventID' = Last(batch).id

Advance == lastEventID' = Head(batch).id

\* Faulty variant: the batch is sent until it is empty, and once more.
AfterSendOnceMore == IF batch = <<>> THEN "tick" ELSE "send"

AfterSend == IF Tail(batch) = <<>> THEN "tick" ELSE "send"

\* eventCh <- evt: the reader takes the event.
Send ==
    /\ pc = "send"
    /\ view' = Applied(Head(batch))
    /\ told' = told \cup Head(batch).window
    /\ Advance
    /\ batch' = Tail(batch)
    /\ pc' = AfterSend
    /\ UNCHANGED <<logVars, ticker, from, cancelled, closed, failures>>

\* Faulty variant: the stream sends without looking at its context.
SendOnly == FALSE

SendLooksAtContext == cancelled

\* The select picks ctx.Done instead.
SendDone ==
    /\ pc = "send"
    /\ SendLooksAtContext
    /\ batch' = <<>>
    /\ pc' = "stopping"
    /\ UNCHANGED <<logVars, ticker, lastEventID, from, cancelled, closed, failures, view, told>>

\* Ticker.Stop has seen doneCh; then the channel is closed.
Stopped ==
    /\ pc = "stopping"
    /\ ticker = "done"
    /\ pc' = "closed"
    /\ UNCHANGED <<logVars, ticker, lastEventID, from, batch, cancelled, closed, failures, view, told>>

------------------------------------------------------------------------------
(* The application. *)

Cancel ==
    /\ ~cancelled
    /\ cancelled' = TRUE
    /\ UNCHANGED <<logVars, pc, ticker, lastEventID, from, batch, closed, failures, view, told>>

\* Client.Close forgets the tokens and knows nothing of the stream.
Close ==
    /\ ~closed
    /\ closed' = TRUE
    /\ UNCHANGED <<logVars, pc, ticker, lastEventID, from, batch, cancelled, failures, view, told>>

\* A new client streams on from the last event the reader got.
Restart ==
    /\ pc = "closed"
    /\ pc' = "tick"
    /\ ticker' = "sleep"
    /\ cancelled' = FALSE
    /\ closed' = FALSE
    /\ UNCHANGED <<logVars, lastEventID, from, batch, failures, view, told>>

Stream == Tick \/ TickDone \/ Page \/ PageFails \/ SendDone \/ Stopped

Next ==
    \/ LogNext /\ UNCHANGED streamVars
    \/ TickerFires \/ TickerStops
    \/ Stream \/ Send
    \/ Cancel \/ Close \/ Restart

Spec == Init /\ [][Next]_vars

\* The goroutines run, and the reader reads as long as the stream's context
\* is not done.  A select that can always take a tick takes ctx.Done too.
Fairness ==
    /\ WF_vars(TickerFires) /\ WF_vars(TickerStops)
    /\ WF_vars(Stream) /\ SF_vars(TickDone)
    /\ WF_vars(~cancelled /\ Send)

FairSpec == Spec /\ Fairness

------------------------------------------------------------------------------
(* Properties. *)

Events ==
    [id : Nat, refresh : Flags \cup {"none"}, items : [Items -> Int], window : SUBSET Nat]

TypeOK ==
    /\ store \in [Items -> Int] /\ primaries \subseteq AddressItems
    /\ updates \in Seq(Updates)
    /\ updateIDs \in Seq(DOMAIN updates) /\ updateIDs # <<>>
    /\ maxUpdatesPerEvent \in Limits \cup {0}
    /\ pc \in {"tick", "fetch", "send", "stopping", "closed"}
    /\ ticker \in {"sleep", "offer", "done"}
    /\ lastEventID \in DOMAIN updates /\ from \in DOMAIN updates
    /\ batch \in Seq(Events) /\ (pc = "send" => batch # <<>>)
    /\ cancelled \in BOOLEAN /\ closed \in BOOLEAN
    /\ failures \in Nat
    /\ view \in [Items -> Nat]
    /\ told \subseteq DOMAIN updates

\* Has a RefreshMail followed a RefreshAll in the log?  buildEvent lets the
\* last flag of a window win, so the reader may not hear of the first.
RefreshAllMasked ==
    \E k, l \in DOMAIN updates :
        k < l /\ updates[k].of = "all" /\ updates[l].of = "mail"

\* A reader that has been sent the latest event sees exactly what is there,
\* whatever was merged, split into windows and pages, failed, or fetched
\* before an update and sent after it.  (Of other items than messages only if
\* no RefreshAll has been masked.)
Converged ==
    lastEventID = Last(updateIDs) =>
        \A i \in Items : (i \in MailItems \/ ~RefreshAllMasked) => view[i] = Visible(i)

\* GetEvent fails only while the account has no primary address, for a window
\* with an update that named an item that was not there, or where the limit ends
\* a window before the deletion of an item it names.  A window to the end of a log
\* without such updates never fails while there is a primary address.
PanicsHaveACause ==
    \A id \in DOMAIN updates :
        Panics(id) =>
            \/ primaries = {}
            \/ \E n \in ToSet(Window(id)) : Stray(n)
            \/ /\ maxUpdatesPerEvent > 0
               /\ \E n \in ToSet(Window(id)), m \in updateIDs[LastUpdate(id)] + 1 .. Len(updates) :
                     updates[m].kind = "deleted" /\ updates[m].of = updates[n].of

Feed ==
    INSTANCE EventFeed WITH
        made <- Len(updates),
        resets <- {n \in DOMAIN updates : updates[n].of = "all"}

\* Across failures, cancellations and restarts the reader is told of every
\* update once and in order, or is reset: EventStream implements EventFeed.
FeedSpec == Feed!Spec

\* Unless the client is closed, the stream cancelled or GetEvent fails at or after
\* the stream's place, for one of the causes above, the reader gets to every
\* update.
Delivered ==
    \A id \in 1 .. MaxUpdates :
        id \in DOMAIN updates ~>
            \/ lastEventID >= id
            \/ cancelled \/ closed
            \/ \E n \in DOMAIN updates : n >= lastEventID /\ Panics(n)

\* A cancelled stream ends: its channel is closed and its ticker is gone.
CancelEnds == cancelled ~> pc = "closed" /\ ticker = "done"

\* A closed client's stream sends nothing more.
NothingAfterClose == [][closed => UNCHANGED told]_vars
==============================================================================
