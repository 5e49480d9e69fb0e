----------------------------- MODULE DriveEvents -----------------------------
(***************************************************************************)
(* GetVolumeEvent and GetShareEvent (event_drive.go): the client collects  *)
(* the pages of a drive's events that follow an ID.  It asks for every     *)
(* further page with the ID the first one came with, and returns that ID.  *)
(* A caller polls from the ID it got last.  The drive's server is not in   *)
(* the repository: it is taken to answer as the client expects, with the   *)
(* events after the ID, the ID of the last of them, and whether more       *)
(* follow.                                                                 *)
(***************************************************************************)
EXTENDS Integers, FiniteSetsExt

CONSTANTS
    MaxEvents,     \* bound: events that happen
    EventsPerPage

ASSUME DriveAssumption == MaxEvents \in Nat /\ EventsPerPage \in Nat \ {0}

VARIABLES
    happened,   \* events so far, numbered from 1; an event's number is its ID
    drive,      \* the call: the ID it is asked from, the event it has collected
    known       \* the events the caller has got, and its last ID

driveVars == <<happened, drive, known>>

NoCall == [at |-> "idle", from |-> 0, id |-> 0, events |-> {}]

DriveInit ==
    /\ happened = 0
    /\ drive = NoCall
    /\ known = [events |-> {}, id |-> 0]

SomethingHappens ==
    /\ happened < MaxEvents
    /\ happened' = happened + 1
    /\ UNCHANGED <<drive, known>>

\* What the server answers.
PageAfter(id) ==
    LET last == Min({id + EventsPerPage, happened}) IN
    [events |-> id + 1 .. last, id |-> last, more |-> happened > last]

CallDrive ==
    /\ drive.at = "idle"
    /\ drive' = [NoCall EXCEPT !.at = "first", !.from = known.id]
    /\ UNCHANGED <<happened, known>>

\* Faulty variant: the ID of an event that has not been set.
UnsetID == 0

\* event.EventID, the ID of the first page.
AskFrom == drive.id

\* Faulty variant: the last page is what is returned.
LastPage(next) == next.events

Appended(next) == drive.events \cup next.events

\* getVolumeEvent or getShareEvent returns a page.
PageArrives ==
    LET page == PageAfter(IF drive.at = "first" THEN drive.from ELSE AskFrom) IN
    /\ drive.at \in {"first", "further"}
    /\ drive' = [drive EXCEPT !.at = IF page.more THEN "further" ELSE "done",
                              !.id = IF drive.at = "first" THEN page.id ELSE @,
                              !.events = IF drive.at = "first" THEN page.events ELSE Appended(page)]
    /\ UNCHANGED <<happened, known>>

PageFails ==
    /\ drive.at \in {"first", "further"}
    /\ drive' = NoCall
    /\ UNCHANGED <<happened, known>>

\* The call returns and the caller keeps the events and the ID.
DriveReturned ==
    /\ drive.at = "done"
    /\ known' = [events |-> known.events \cup drive.events, id |-> drive.id]
    /\ drive' = NoCall
    /\ UNCHANGED happened

DriveNext == SomethingHappens \/ CallDrive \/ PageArrives \/ PageFails \/ DriveReturned

\* A request is answered and the call goes on.
DriveFairness == WF_driveVars(PageArrives) /\ WF_driveVars(DriveReturned)

DriveSpec == DriveInit /\ [][DriveNext]_driveVars /\ DriveFairness

------------------------------------------------------------------------------
(* Properties. *)

\* What is collected follows the ID the call was made with.
DriveTypeOK ==
    /\ happened \in 0 .. MaxEvents
    /\ drive.at \in {"idle", "first", "further", "done"}
    /\ drive.id \in 0 .. happened /\ drive.events \subseteq drive.from + 1 .. happened
    /\ known.id \in 0 .. happened /\ known.events \subseteq 1 .. happened

\* A caller that polls from the ID it got last misses no event up to that ID,
\* although the ID is that of a page it got others after.
NoDriveEventLost == 1 .. known.id \subseteq known.events

\* A call for which no more than two pages wait returns.  One for which three
\* wait asks for the second of them again and again.
DriveReturns ==
    LET TwoPages == happened <= drive.from + 2 * EventsPerPage IN
    (drive.at # "idle" /\ TwoPages) ~> (drive.at = "idle" \/ ~TwoPages)
==============================================================================
