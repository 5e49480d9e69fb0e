-------------------------------- MODULE Paging --------------------------------
(***************************************************************************)
(* Listing the messages of an account: the client's loops over pages       *)
(* (message.go, paging.go) and what the server answers to each request     *)
(* (server/messages.go, backend/api.go), while messages are created,       *)
(* deleted, and labelled or changed so that they pass the filter or not.   *)
(*                                                                         *)
(* A request of the backend is one step under its lock.  GetAllMessageIDs  *)
(* asks for what follows the last ID it has; GetMessageMetadata asks how   *)
(* many messages there are and then for all pages at once.                 *)
(***************************************************************************)
EXTENDS Integers, SequencesExt, Utils

CONSTANTS
    MaxMessages,    \* bound: messages are 1 to MaxMessages, created in that order
    PageSize,       \* maxMessageIDs and maxPageSize
    Callers,        \* goroutines that call GetAllMessageIDs or GetMessageMetadata
    Orders          \* the orders it may ask for: [desc : BOOLEAN, end : message or FromTheStart]

FromTheStart == 0

ASSUME PagingAssumption ==
    /\ MaxMessages \in Nat /\ PageSize \in Nat \ {0}
    /\ Orders \subseteq [desc : BOOLEAN, end : 0 .. MaxMessages]

VARIABLES
    messageIDs,     \* account.messageIDs
    matching,       \* the messages that the filter of GetMessageMetadata lets through now
    created,        \* how many messages there were ever
    idCall,         \* each call of GetAllMessageIDs: what it asks, and has
    metaCall        \* each call of GetMessageMetadata: its pages

pagingVars == <<messageIDs, matching, created, idCall, metaCall>>

NoIDCall == [at |-> "new", after |-> FromTheStart, ids |-> {}, twice |-> FALSE, kept |-> {}, deleted |-> FALSE]
NoMetaCall == [at |-> "new", order |-> [desc |-> FALSE, end |-> FromTheStart],
                pages |-> <<>>, kept |-> {}, shifted |-> FALSE]
NotYet == <<0>>      \* a page that was not answered yet

PagingInit ==
    /\ created \in 0 .. MaxMessages - 1
    /\ messageIDs = [i \in 1 .. created |-> i]
    /\ matching \in SUBSET (1 .. created)
    /\ idCall = [c \in Callers |-> NoIDCall]
    /\ metaCall = [c \in Callers |-> NoMetaCall]

Busy(call) == call.at \notin {"new", "done"}

------------------------------------------------------------------------------
(* The server. *)

\* The listing begins with the newest message, whichever it is.
NewestFirst(order) == order.desc /\ order.end \notin ToSet(messageIDs)

\* A message is created, and passes the filter or not; the calls under way need
\* not list it, but those that begin with it find all others a place further.
MessageArrives ==
    /\ created < MaxMessages
    /\ created' = created + 1
    /\ messageIDs' = Append(messageIDs, created + 1)
    /\ \E passes \in BOOLEAN : matching' = IF passes THEN matching \cup {created + 1} ELSE matching
    /\ metaCall' = [c \in Callers |->
                      [metaCall[c] EXCEPT !.shifted = @ \/ (Busy(metaCall[c]) /\ NewestFirst(metaCall[c].order))]]
    /\ UNCHANGED idCall

\* What a call of GetMessageMetadata is left with when a message of its list is
\* no longer one that was there all the time.
WithoutMeta(call, m) == [call EXCEPT !.kept = @ \ {m}, !.shifted = @ \/ Busy(call)]

\* A message is deleted.
DropMessage(m) ==
    /\ m \in ToSet(messageIDs)
    /\ messageIDs' = Filter(messageIDs, {m})
    /\ matching' = matching \ {m}
    /\ idCall' = [c \in Callers |->
                    [idCall[c] EXCEPT !.kept = @ \ {m}, !.deleted = @ \/ Busy(idCall[c])]]
    /\ metaCall' = [c \in Callers |-> WithoutMeta(metaCall[c], m)]
    /\ UNCHANGED created

\* LabelMessages, UnlabelMessages or UpdateDraft: a message gets or loses the
\* filter's label, or another subject, so that it passes from now on or no longer.
Refile(m) ==
    /\ m \in ToSet(messageIDs)
    /\ matching' = IF m \in matching THEN matching \ {m} ELSE matching \cup {m}
    /\ metaCall' = [c \in Callers |-> WithoutMeta(metaCall[c], m)]
    /\ UNCHANGED <<messageIDs, created, idCall>>

\* The total of every answer, whatever its filter.
CountMessages == Len(messageIDs)

\* Faulty variant: an ID that is not there ends the list.
IndexAfterOrEnd(after) ==
    IF after = FromTheStart THEN 0
    ELSE IF \E i \in DOMAIN messageIDs : messageIDs[i] = after
         THEN CHOOSE i \in DOMAIN messageIDs : messageIDs[i] = after ELSE Len(messageIDs)

\* Backend.GetMessageIDs: an ID that is not there has the index -1.
IndexAfter(after) ==
    IF \E i \in DOMAIN messageIDs : messageIDs[i] = after
    THEN CHOOSE i \in DOMAIN messageIDs : messageIDs[i] = after ELSE 0

IDsAfter(after) ==
    SubSeq(messageIDs, IndexAfter(after) + 1, Min({IndexAfter(after) + PageSize, Len(messageIDs)}))

\* Faulty variant: the filter is forgotten.
Unfiltered(order) == IF order.desc THEN Reverse(messageIDs) ELSE messageIDs

\* The messages of a filter: reversed, cut off before EndID, and filtered by what
\* they are at this moment.
Filtered(order) ==
    LET all == IF order.desc THEN Reverse(messageIDs) ELSE messageIDs
        cut == IF \E i \in DOMAIN all : all[i] = order.end
               THEN SubSeq(all, CHOOSE i \in DOMAIN all : all[i] = order.end, Len(all)) ELSE all
    IN  Filter(cut, ToSet(cut) \ matching)

\* Backend.GetMessages; a page past the last one is empty.
MessagesOfPage(order, page) ==
    LET all == Filtered(order)
    IN  SubSeq(all, (page - 1) * PageSize + 1, Min({page * PageSize, Len(all)}))

------------------------------------------------------------------------------
(* GetAllMessageIDs. *)

AskIDs(c) ==
    /\ idCall[c].at = "new" /\ metaCall[c].at = "new"
    /\ \E after \in {FromTheStart} \cup 1 .. created :
          idCall' = [idCall EXCEPT ![c] =
              [at |-> "ask", after |-> after, ids |-> {}, twice |-> FALSE, deleted |-> FALSE,
               kept |-> {messageIDs[i] : i \in IndexAfter(after) + 1 .. Len(messageIDs)}]]
    /\ UNCHANGED <<messageIDs, matching, created, metaCall>>

\* Faulty variant: a page that is not full is the last one.
LastIfShort(page) == Len(page) < PageSize

IsLast(page) == page = <<>>

\* Faulty variant: the loop asks with the ID it began with.
KeepAfter(c, page) == idCall[c].after

NextAfter(c, page) == Last(page)

\* One turn of the loop.
IDsAnswered(c) ==
    LET page == IDsAfter(idCall[c].after) IN
    /\ idCall[c].at = "ask"
    /\ idCall' = [idCall EXCEPT ![c] =
           IF IsLast(page) THEN [idCall[c] EXCEPT !.at = "done"]
           ELSE [idCall[c] EXCEPT !.ids = @ \cup ToSet(page), !.after = NextAfter(c, page),
                                  !.twice = @ \/ ToSet(page) \cap idCall[c].ids # {}]]
    /\ UNCHANGED <<messageIDs, matching, created, metaCall>>

------------------------------------------------------------------------------
(* GetMessageMetadata. *)

\* Faulty variant: no page is asked for what is left of the total.
FullPages(total) == total \div PageSize

PagesFor(total) == (total \div PageSize) + 1

\* countMessages: the total is that of all messages, whatever the filter.  The
\* caller asks to begin with a message there was.
CountThem(c) ==
    /\ metaCall[c].at = "new" /\ idCall[c].at = "new"
    /\ \E order \in Orders :
          /\ order.end <= created
          /\ metaCall' = [metaCall EXCEPT ![c] =
                 [at |-> "pages", order |-> order, pages |-> [p \in 1 .. PagesFor(CountMessages) |-> NotYet],
                  kept |-> ToSet(Filtered(order)), shifted |-> FALSE]]
    /\ UNCHANGED <<messageIDs, matching, created, idCall>>

\* The pages are asked in parallel, and answered in any order.
PageAnswered(c, p) ==
    /\ metaCall[c].at = "pages" /\ p \in DOMAIN metaCall[c].pages
    /\ metaCall[c].pages[p] = NotYet
    /\ metaCall' = [metaCall EXCEPT ![c].pages[p] = MessagesOfPage(metaCall[c].order, p)]
    /\ UNCHANGED <<messageIDs, matching, created, idCall>>

MetadataDone(c) ==
    /\ metaCall[c].at = "pages" /\ NotYet \notin ToSet(metaCall[c].pages)
    /\ metaCall' = [metaCall EXCEPT ![c].at = "done"]
    /\ UNCHANGED <<messageIDs, matching, created, idCall>>

PagingNext ==
    \/ MessageArrives
    \/ \E m \in 1 .. MaxMessages : DropMessage(m) \/ Refile(m)
    \/ \E c \in Callers :
          \/ AskIDs(c) \/ IDsAnswered(c)
          \/ CountThem(c) \/ MetadataDone(c)
          \/ \E p \in 1 .. PagesFor(MaxMessages) : PageAnswered(c, p)

\* A call that was made goes on, and its requests are answered.
PagingFairness == \A c \in Callers : WF_pagingVars(IDsAnswered(c))

PagingSpec == PagingInit /\ [][PagingNext]_pagingVars /\ PagingFairness

------------------------------------------------------------------------------
(* Properties. *)

PagingTypeOK ==
    /\ created \in 0 .. MaxMessages /\ matching \subseteq ToSet(messageIDs)
    /\ messageIDs \in Seq(1 .. created) /\ \A i, j \in DOMAIN messageIDs : i < j => messageIDs[i] < messageIDs[j]
    /\ \A c \in Callers :
          /\ idCall[c].at \in {"new", "ask", "done"} /\ idCall[c].after \in 0 .. created
          /\ idCall[c].ids \subseteq 1 .. created /\ idCall[c].kept \subseteq ToSet(messageIDs)
    /\ \A c \in Callers :
          /\ metaCall[c].at \in {"new", "pages", "done"}
          /\ metaCall[c].kept \subseteq matching

\* GetAllMessageIDs returns every message that was there all the time, also
\* when the one it asks the next page after is deleted: then the server
\* starts from the beginning.
IDsComplete ==
    \A c \in Callers : idCall[c].at = "done" => idCall[c].kept \subseteq idCall[c].ids

\* It returns no message twice unless one was deleted meanwhile.
IDsOnce ==
    \A c \in Callers : ~idCall[c].deleted => ~idCall[c].twice

\* It ends: it does not ask for the same pages for ever.
IDsReturn == \A c \in Callers : idCall[c].at = "ask" ~> idCall[c].at = "done"

Metadata(c) == UNION {ToSet(metaCall[c].pages[p]) : p \in DOMAIN metaCall[c].pages}

Goes(order, m, n) == IF order.desc THEN n < m ELSE m < n

\* Every message of the pages comes before those that follow it.
InOrder(call) ==
    \A p, q \in DOMAIN call.pages :
        \A i \in DOMAIN call.pages[p], j \in DOMAIN call.pages[q] :
            p < q \/ (p = q /\ i < j) => Goes(call.order, call.pages[p][i], call.pages[q][j])

\* GetMessageMetadata returns every message that passes its filter all the time,
\* once and in order, unless meanwhile one was deleted, came into the filter or
\* left it, or one was created and the call begins with the newest:
\* the pages are those of different moments.
MetadataComplete ==
    \A c \in Callers :
        metaCall[c].at = "done" /\ ~metaCall[c].shifted
        => metaCall[c].kept \subseteq Metadata(c) /\ InOrder(metaCall[c])

\* The pages of a mailbox that changes add up to what was there.
PagesAddUp == PagingTypeOK /\ IDsComplete /\ IDsOnce /\ MetadataComplete
==============================================================================
