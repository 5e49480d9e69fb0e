------------------------------ MODULE MailLabels ------------------------------
(***************************************************************************)
(* The messages of one account in the development server as far as labels  *)
(* are concerned (server/messages.go, server/backend/api.go, message.go):  *)
(* where each message is, which labels it carries, and whether the update  *)
(* log tells of it.                                                        *)
(*                                                                         *)
(* The content, the flags and the attachments of a message are left out:   *)
(* of an operation that changes them it matters only that it changes the   *)
(* message and that it logs an update.                                     *)
(***************************************************************************)
EXTENDS Labels

CONSTANTS
    MessageIDs,   \* IDs of messages; an ID is used once
    Stray,        \* an ID that no message has
    Imports,      \* messages that are imported
    Dedup,        \* Backend.enableDedup
    MaxImported,  \* bound: labels named by an import
    MaxListed     \* bound: messages named by a request

VARIABLES
    messages,    \* Backend.messages: the labels, and the system label
    unlogged,    \* messages changed since their last update in the log
    imports      \* where each import is

mailVars == <<messages, unlogged, imports>>
vars == <<labelVars, mailVars>>

(* message.sysLabel is nil ("flags": the message's flags say where it is),  *)
(* "" ("none") or a system label.  "inbox" stands for the labels of         *)
(* addFlagLabel, "trash" and "archive" for those of addSystemLabel.         *)
Places == {"trash", "archive"}
SystemLabels == Places \cup {"inbox", "starred"}
Labellings == LabelIDs \cup SystemLabels

ASSUME MailAssumption ==
    /\ Stray \notin MessageIDs /\ Root \notin MessageIDs /\ Dedup \in BOOLEAN
    /\ LabelIDs \cap SystemLabels = {}
    /\ MaxImported \in Nat /\ MaxListed \in Nat

NoMessage == [st |-> "unused", labelIDs |-> {}, sys |-> "none"]
NewMessage == [st |-> "live", labelIDs |-> {}, sys |-> "none"]

LiveMessages == {m \in MessageIDs : messages[m].st = "live"}

NoImport == [pc |-> "idle", list |-> <<>>, at |-> 0, exclusive |-> 0, msg |-> Root]

Init ==
    /\ LabelsInit
    /\ messages = [m \in MessageIDs |-> NoMessage]
    /\ unlogged = {}
    /\ imports = [i \in Imports |-> NoImport]

\* What an operation leaves for readers of the log to miss.
Log(changed, logged) == unlogged' = (unlogged \cup changed) \ logged

------------------------------------------------------------------------------
(* addLabel and remLabel. *)

Plain(ls) == {l \in ls : labels[l].type = "label"}

\* Does adding l move the message, so that its folders are looked up?
Moves(l) == l \in Places \cup {"inbox"} \/ (l \in Live /\ labels[l].type # "label")

\* The filter of addFlagLabel, addSystemLabel and addUserLabel dereferences
\* every label of the message.
AddPanics(l, m) == Moves(l) /\ ~(messages[m].labelIDs \subseteq Live)

\* Faulty variant: a folder does not take the message out of its system label.
WithFolderToo(msg, l) == [msg EXCEPT !.labelIDs = Plain(@) \cup {l}]

WithFolder(msg, l) == [msg EXCEPT !.labelIDs = Plain(@) \cup {l}, !.sys = "none"]

With(msg, l) ==
    CASE l = "inbox" -> [msg EXCEPT !.labelIDs = Plain(@), !.sys = "flags"]
      [] l \in Places -> [msg EXCEPT !.labelIDs = Plain(@), !.sys = l]
      [] l \in Live /\ labels[l].type = "label" -> [msg EXCEPT !.labelIDs = @ \cup {l}]
      [] l \in Live /\ labels[l].type # "label" -> WithFolder(msg, l)
      [] OTHER -> msg

Without(msg, l) ==
    CASE l = "inbox" -> [msg EXCEPT !.sys = IF @ = "flags" THEN "none" ELSE @]
      [] l \in Places -> [msg EXCEPT !.sys = IF @ = l THEN "none" ELSE @]
      [] l \in Live -> [msg EXCEPT !.labelIDs = @ \ {l}]
      [] OTHER -> msg

------------------------------------------------------------------------------
(* Operations on a list of messages.  A panic in the middle of the list     *)
(* leaves the rest undone.                                                  *)

Lists == {s \in SeqOf(MessageIDs \cup {Stray}, MaxListed) : s # <<>> /\ IsInjective(s)}

\* What is done of the list if the messages in panics cannot be.
Before(list, panics) ==
    {list[k] : k \in {n \in DOMAIN list : \A j \in 1 .. n : list[j] \notin panics}}

\* Faulty variant: labelMessages is called without events.
NoEvents(done) == {}

Events(done) == done

\* LabelMessages: a message that is not there is skipped.
LabelMessages(l, list) ==
    LET panics == {m \in LiveMessages : AddPanics(l, m)}
        done == Before(list, panics) \cap LiveMessages
    IN  /\ messages' = [m \in MessageIDs |-> IF m \in done THEN With(messages[m], l) ELSE messages[m]]
        /\ Log(done, Events(done))
        /\ UNCHANGED <<labelVars, imports>>

\* remLabel dereferences the message for every label but one that is gone.
RemovePanics(l, list) == IF l \in SystemLabels \cup Live THEN ToSet(list) \ LiveMessages ELSE {}

\* UnlabelMessages: a message that is not there makes it panic, or, if the label
\* is not there either, gets an update (AddUpdate of EventLog).
UnlabelMessages(l, list) ==
    LET done == Before(list, RemovePanics(l, list))
    IN  /\ messages' = [m \in MessageIDs |-> IF m \in done THEN Without(messages[m], l) ELSE messages[m]]
        /\ Log(done, done)
        /\ UNCHANGED <<labelVars, imports>>

\* SetMessagesRead, SetMessagesForwarded and, of one message, UpdateDraft.
SetMessages(list) ==
    LET done == Before(list, ToSet(list) \ LiveMessages)
    IN  /\ Log(done, done)
        /\ UNCHANGED <<labelVars, messages, imports>>

\* Faulty variant: the deletion is not logged.
DeleteSilently(m) ==
    /\ m \in LiveMessages
    /\ messages' = [messages EXCEPT ![m] = [NoMessage EXCEPT !.st = "deleted"]]
    /\ Log({m}, {})
    /\ UNCHANGED <<labelVars, imports>>

\* DeleteMessage.
DeleteMessage(m) ==
    /\ m \in LiveMessages
    /\ messages' = [messages EXCEPT ![m] = [NoMessage EXCEPT !.st = "deleted"]]
    /\ Log({m}, {m})
    /\ UNCHANGED <<labelVars, imports>>

------------------------------------------------------------------------------
(* Drafts and sending. *)

\* CreateDraft.
CreateDraft(m) ==
    /\ messages[m] = NoMessage
    /\ messages' = [messages EXCEPT ![m] = With(NewMessage, "inbox")]
    /\ Log({m}, {m})
    /\ UNCHANGED <<labelVars, imports>>

\* SendMessage to copies in this account: the message becomes a sent one, the
\* parent it answers gets a flag, each copy arrives in the inbox.
SendMessage(m, parent, copies) ==
    /\ ~AddPanics("inbox", m)
    /\ messages' = [c \in MessageIDs |->
                       IF c = m THEN With(messages[m], "inbox")
                       ELSE IF c \in copies THEN With(NewMessage, "inbox") ELSE messages[c]]
    /\ Log({m} \cup parent \cup copies, {m} \cup parent \cup copies)

\* addFlagLabel panics after the message has become a sent one.
SendPanics(m) ==
    /\ AddPanics("inbox", m)
    /\ Log({m}, {})
    /\ UNCHANGED messages

Send(m) ==
    /\ m \in LiveMessages
    /\ \/ \E parent \in SUBSET LiveMessages, copies \in SUBSET {c \in MessageIDs : messages[c] = NoMessage} :
             Cardinality(parent) <= 1 /\ SendMessage(m, parent, copies)
       \/ SendPanics(m)
    /\ UNCHANGED <<labelVars, imports>>

------------------------------------------------------------------------------
(* importMessage: several calls of the backend. *)

StartImport(i) ==
    /\ imports[i].pc = "idle"
    /\ \E list \in SeqOf(Labellings, MaxImported) :
          imports' = [imports EXCEPT ![i].pc = "check", ![i].list = list]
    /\ UNCHANGED <<labelVars, messages, unlogged>>

\* GetLabel of the next label: it must be there.  At most one may be
\* exclusive, that is a folder, a group or any system label.
Exclusive(l) == l \in SystemLabels \/ labels[l].type # "label"

CheckLabel(i) ==
    /\ imports[i].pc = "check"
    /\ LET x == imports[i]
           next == x.at + 1
       IN  imports' = [imports EXCEPT ![i] =
              IF x.at = Len(x.list)
              THEN [x EXCEPT !.pc = IF x.exclusive > 1 THEN "failed" ELSE "create", !.at = 0]
              ELSE IF x.list[next] \in Live \cup SystemLabels
              THEN [x EXCEPT !.at = next,
                             !.exclusive = @ + IF Exclusive(x.list[next]) THEN 1 ELSE 0]
              ELSE [x EXCEPT !.pc = "failed"]]
    /\ UNCHANGED <<labelVars, messages, unlogged>>

\* CreateMessage: a new one or, with deduplication, one that is there already.
CreateMessage(i) ==
    /\ imports[i].pc = "create"
    /\ \E m \in MessageIDs :
          /\ imports' = [imports EXCEPT ![i].pc = "label", ![i].msg = m]
          /\ \/ /\ messages[m] = NoMessage
                /\ messages' = [messages EXCEPT ![m] = NewMessage]
                /\ Log({m}, {m})
             \/ /\ Dedup /\ m \in LiveMessages
                /\ UNCHANGED <<messages, unlogged>>
    /\ UNCHANGED labelVars

\* LabelMessagesNoEvents of the next label, if the message is still there.
LabelImported(i) ==
    /\ imports[i].pc = "label"
    /\ LET x == imports[i]
           m == x.msg
           l == x.list[x.at + 1]
       IN  IF x.at = Len(x.list)
           THEN /\ imports' = [imports EXCEPT ![i].pc = "done"]
                /\ UNCHANGED <<messages, unlogged>>
           ELSE IF m \in LiveMessages /\ AddPanics(l, m)
           THEN /\ imports' = [imports EXCEPT ![i].pc = "failed"]
                /\ UNCHANGED <<messages, unlogged>>
           ELSE /\ imports' = [imports EXCEPT ![i].at = x.at + 1]
                /\ IF m \in LiveMessages
                   THEN messages' = [messages EXCEPT ![m] = With(@, l)] /\ Log({m}, {})
                   ELSE UNCHANGED <<messages, unlogged>>
    /\ UNCHANGED labelVars

------------------------------------------------------------------------------
Import(i) == StartImport(i) \/ CheckLabel(i) \/ CreateMessage(i) \/ LabelImported(i)

MailNext ==
    \/ \E l \in Labellings, list \in Lists : LabelMessages(l, list) \/ UnlabelMessages(l, list)
    \/ \E list \in Lists : SetMessages(list)
    \/ \E m \in MessageIDs : DeleteMessage(m) \/ CreateDraft(m) \/ Send(m)
    \/ \E i \in Imports : Import(i)

Next ==
    \/ LabelsNext /\ UNCHANGED mailVars
    \/ ~hung /\ MailNext

Spec == Init /\ [][Next]_vars

------------------------------------------------------------------------------
(* Properties. *)

TypeOK ==
    /\ LabelsTypeOK
    /\ messages \in [MessageIDs -> [st : {"unused", "live", "deleted"}, labelIDs : SUBSET LabelIDs,
                                    sys : Places \cup {"flags", "none"}]]
    /\ unlogged \subseteq LiveMessages
    /\ imports \in [Imports -> [pc : {"idle", "check", "create", "label", "done", "failed"},
                                list : Seq(Labellings), at : 0 .. MaxImported,
                                exclusive : 0 .. MaxImported, msg : MessageIDs \cup {Root}]]

Folders(m) == {l \in messages[m].labelIDs : labels[l].type # "label"}

\* A message is in one place at most, a folder or a system label, whatever is
\* labelled, imported, sent or deleted in between, and also if the folder it
\* is in has been deleted under it.
OnePlace ==
    \A m \in LiveMessages :
        IF messages[m].sys = "none" THEN Cardinality(Folders(m)) <= 1 ELSE Folders(m) = {}

\* Has a label of the message been deleted?
Stranded(m) == ~(messages[m].labelIDs \subseteq Live)

\* The log tells of every change of a message, except of the labels an import
\* gives it and of a send that panics over a deleted label.
Announced ==
    \A m \in unlogged :
        Stranded(m) \/ \E i \in Imports : imports[i].msg = m /\ imports[i].list # <<>>
==============================================================================
