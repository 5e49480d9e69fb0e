------------------------------ MODULE MailStore ------------------------------
(***************************************************************************)
(* The messages and attachments of several accounts (backend/api.go,       *)
(* backend/attachment.go, server/messages.go, server/attachments.go) and   *)
(* the client's calls that make and delete them (message.go, attachment.go,*)
(* message_import.go).                                                     *)
(*                                                                         *)
(* A call may lose the answer to its first request and send it again while *)
(* the server still works on the first (response.go, catchDropError).  An  *)
(* import and a deletion take the server's lock once per message or        *)
(* attachment, everything else takes it once.  The data of an attachment   *)
(* is shared by the copies that are sent; it has the ID of the attachment  *)
(* it was made for.  Labels and updates are in MailLabels.                 *)
(***************************************************************************)
EXTENDS Integers, FiniteSets, SequencesExt

CONSTANTS
    Accounts,
    Requests,       \* the calls of clients, which are numbers
    Owner,          \* whose each call is
    AttNames,       \* the content ID or the name by which attachments are sorted
    MaxMail,        \* bound: messages
    MaxAtts,        \* bound: attachments
    MaxLostAnswers, \* bound: calls that are made again
    Deduplicate,    \* Backend.enableDedup
    Unasked

ASSUME MailStoreAssumption ==
    /\ Requests \subseteq Nat /\ Owner \in [Requests -> Accounts] /\ Unasked \notin Requests
    /\ MaxMail \in Nat /\ MaxAtts \in Nat /\ MaxLostAnswers \in Nat /\ Deduplicate \in BOOLEAN

VARIABLES
    mail,        \* Backend.messages, in the order they were made
    mailbox,     \* account.messageIDs; an account that is gone has none
    users,       \* the accounts there are
    atts,        \* Backend.attachments
    attCount,    \* attachments made so far
    attData,     \* Backend.attData: the IDs of what it holds
    asked,       \* what each call asks for
    doing        \* the two requests a call can make

storeVars == <<mail, mailbox, users, atts, attCount, attData, asked, doing>>

AttIDs == 1 .. MaxAtts
Tries == Requests \X {1, 2}
LiveMail == {m \in DOMAIN mail : mail[m].live}

NotAsked == [kind |-> "none", msgs |-> <<>>, names |-> <<>>]

StoreInit ==
    /\ mail = <<>>
    /\ mailbox = [u \in Accounts |-> {}]
    /\ users = Accounts
    /\ atts = <<>>
    /\ attCount = 0
    /\ attData = {}
    /\ asked = [r \in Requests |-> NotAsked]
    /\ doing = [t \in Tries |-> [at |-> "new", msg |-> 0, step |-> 1]]

To(t, place) == doing' = [doing EXCEPT ![t].at = place]
Asks(t, kind) == doing[t].at = "asked" /\ asked[t[1]].kind = kind
Caller(t) == Owner[t[1]]

------------------------------------------------------------------------------
(* The client. *)

CallsOf(u) ==
    [kind : {"draft"}, msgs : {<<>>}, names : {<<>>}]
    \cup [kind : {"import"}, msgs : {<<>>}, names : {<<n>> : n \in AttNames}]
    \cup [kind : {"upload"}, msgs : {<<m>> : m \in mailbox[u]}, names : {<<n>> : n \in AttNames}]
    \cup [kind : {"send"}, msgs : {<<m>> : m \in mailbox[u]}, names : {<<>>}]
    \cup [kind : {"delete"}, msgs : {s \in SeqOf(mailbox[u], 2) : s # <<>> /\ IsInjective(s)}, names : {<<>>}]

\* CreateDraft, ImportMessages, UploadAttachment, SendDraft, DeleteMessage.
\* Which call of an account comes first is the same.
CallServer(r) ==
    /\ asked[r] = NotAsked
    /\ \A q \in Requests : q < r /\ Owner[q] = Owner[r] => asked[q] # NotAsked
    /\ \E call \in CallsOf(Owner[r]) : asked' = [asked EXCEPT ![r] = call]
    /\ To(<<r, 1>>, "asked")
    /\ UNCHANGED <<mail, mailbox, users, atts, attCount, attData>>

\* The connection drops before the answer is there.
CallAgain(r) ==
    /\ asked[r] # NotAsked
    /\ doing[<<r, 2>>].at = "new"
    /\ Cardinality({q \in Requests : doing[<<q, 2>>].at # "new"}) < MaxLostAnswers
    /\ To(<<r, 2>>, "asked")
    /\ UNCHANGED <<mail, mailbox, users, atts, attCount, attData, asked>>

------------------------------------------------------------------------------
(* The handlers. *)

NewMail(request) == [live |-> TRUE, atts |-> {}, request |-> request]

\* withAcc: the account is gone.
NoSuchUser(t) ==
    /\ doing[t].at \in {"asked", "atts"}
    /\ Caller(t) \notin users
    /\ To(t, "err")
    /\ UNCHANGED <<mail, mailbox, users, atts, attCount, attData, asked>>

Adds(t, request) ==
    /\ Len(mail) < MaxMail
    /\ mail' = Append(mail, NewMail(request))
    /\ mailbox' = [mailbox EXCEPT ![Caller(t)] = @ \cup {Len(mail) + 1}]

CreateDraftOf(t) ==
    /\ Asks(t, "draft") /\ Caller(t) \in users
    /\ Adds(t, Unasked)
    /\ To(t, "ok")
    /\ UNCHANGED <<users, atts, attCount, attData, asked>>

\* Faulty variant: nothing is a duplicate.
NoDuplicates(t) == {}

\* The messages CreateMessage takes for the one of this import.
Duplicates(t) == {m \in LiveMail : Deduplicate /\ mail[m].request = t[1]}

\* importBody and CreateMessage, or one of the checks before it fails.
ImportBody(t) ==
    /\ Asks(t, "import") /\ Caller(t) \in users
    /\ \/ /\ Duplicates(t) = {}
          /\ Adds(t, t[1])
          /\ doing' = [doing EXCEPT ![t].at = "atts", ![t].msg = Len(mail) + 1]
       \/ /\ \E m \in Duplicates(t) : doing' = [doing EXCEPT ![t].at = "atts", ![t].msg = m]
          /\ UNCHANGED <<mail, mailbox>>
       \/ To(t, "err") /\ UNCHANGED <<mail, mailbox>>
    /\ UNCHANGED <<users, atts, attCount, attData, asked>>

\* Faulty variant: an attachment of the same name stays on the list.
KeepAll(m, name) == mail[m].atts

\* sortAttachment: of two with the same name the last one stays.
Kept(m, name) == {a \in mail[m].atts : atts[a].name # name}

\* CreateAttachment: the attachment is stored before the message is looked up;
\* one that is not there panics.
Attach(m, name) ==
    LET a == attCount + 1
        off == IF m \in LiveMail THEN mail[m].atts \ Kept(m, name) ELSE {}
    IN  /\ a \in AttIDs
        /\ attCount' = a
        /\ attData' = attData \cup {a}
        /\ atts' = [b \in DOMAIN atts \cup {a} |->
                       IF b = a
                       THEN [name |-> name, data |-> a, st |-> IF m \in LiveMail THEN "kept" ELSE "late"]
                       ELSE IF b \in off THEN [atts[b] EXCEPT !.st = "replaced"] ELSE atts[b]]
        /\ mail' = IF m \in LiveMail THEN [mail EXCEPT ![m].atts = Kept(m, name) \cup {a}] ELSE mail

\* The inline disposition without a content ID, and so on.
BadAttachment(t, place) ==
    /\ doing[t].at = place
    /\ To(t, "err")
    /\ UNCHANGED <<mail, atts, attCount, attData>>

Upload(t) ==
    LET m == asked[t[1]].msgs[1] IN
    /\ Asks(t, "upload") /\ Caller(t) \in users
    /\ \/ Attach(m, asked[t[1]].names[1]) /\ To(t, IF m \in LiveMail THEN "ok" ELSE "panicked")
       \/ BadAttachment(t, "asked")
    /\ UNCHANGED <<mailbox, users, asked>>

ImportAttachment(t) ==
    LET names == asked[t[1]].names
        m == doing[t].msg
    IN  /\ doing[t].at = "atts" /\ Caller(t) \in users
        /\ doing[t].step <= Len(names)
        /\ \/ /\ Attach(m, names[doing[t].step])
              /\ doing' = [doing EXCEPT ![t].step = @ + 1, ![t].at = IF m \in LiveMail THEN @ ELSE "panicked"]
           \/ BadAttachment(t, "atts")
        /\ UNCHANGED <<mailbox, users, asked>>

\* Faulty variant: the last attachment is not waited for.
AllButLast(t) == doing[t].step >= Len(asked[t[1]].names)

AllAttached(t) == doing[t].step > Len(asked[t[1]].names)

Imported(t) ==
    /\ doing[t].at = "atts" /\ AllAttached(t)
    /\ To(t, "ok")
    /\ UNCHANGED <<mail, mailbox, users, atts, attCount, attData, asked>>

\* A copy for one recipient: its attachments are new, their data is shared.
\* Faulty variant: the attachments are those of the original.
SameAtts(m, k) == mail[m].atts

FreshAtts(m, k) == (attCount + 1) .. (attCount + k)

\* SendMessage to one internal recipient.  A key packet that cannot be
\* decoded ends it with k attachments copied and the copy in no mailbox; a
\* recipient that is gone, or a body that cannot be read, before the copy.
CopyMail(t, m, to, k) ==
    LET source == CHOOSE s \in [1 .. Cardinality(mail[m].atts) -> mail[m].atts] :
                      \A i, j \in DOMAIN s : i < j => s[i] < s[j]
        done == k = Len(source)
    IN  /\ Len(mail) < MaxMail /\ attCount + k \in {0} \cup AttIDs
        /\ attCount' = attCount + k
        /\ atts' = [b \in DOMAIN atts \cup FreshAtts(m, k) |->
                       IF b > attCount THEN atts[source[b - attCount]] ELSE atts[b]]
        /\ mail' = Append(mail, [NewMail(Unasked) EXCEPT !.atts = FreshAtts(m, k)])
        /\ \/ done /\ mailbox' = [mailbox EXCEPT ![to] = @ \cup {Len(mail) + 1}] /\ To(t, "ok")
           \/ k < Len(source) /\ UNCHANGED mailbox /\ To(t, "err")

SendDraft(t) ==
    LET m == asked[t[1]].msgs[1] IN
    /\ Asks(t, "send") /\ Caller(t) \in users
    /\ \/ /\ m \in LiveMail
          /\ \E to \in users, k \in 0 .. Cardinality(mail[m].atts) : CopyMail(t, m, to, k)
       \/ /\ To(t, IF m \in LiveMail THEN "err" ELSE "panicked")
          /\ UNCHANGED <<mail, mailbox, atts, attCount>>
    /\ UNCHANGED <<users, attData, asked>>

------------------------------------------------------------------------------
(* Deletion. *)

\* Faulty variant: the attachments stay.
NoAtts(ms) == {}

AttsOf(ms) == UNION {mail[m].atts : m \in ms}

\* Faulty variant: the data goes with the first attachment that uses it.
DataOf(gone) == {atts[a].data : a \in gone}

\* The data goes with the last attachment that uses it.
UnusedData(gone) == {atts[a].data : a \in gone} \ {atts[a].data : a \in DOMAIN atts \ gone}

Erase(ms) ==
    LET gone == AttsOf(ms) IN
    /\ attData' = attData \ UnusedData(gone)
    /\ atts' = [a \in DOMAIN atts \ gone |-> atts[a]]
    /\ mail' = [m \in DOMAIN mail |->
                   IF m \in ms THEN [mail[m] EXCEPT !.live = FALSE, !.atts = {}] ELSE mail[m]]

\* Faulty variant: the account keeps the ID.
KeepListed(t, m) == mailbox[Caller(t)]

StillListed(t, m) == mailbox[Caller(t)] \ {m}

\* handleDeleteMailMessages: one message after the other, up to one that is gone.
DeleteNextMail(t) ==
    LET m == asked[t[1]].msgs[doing[t].step] IN
    /\ Asks(t, "delete") /\ Caller(t) \in users
    /\ doing[t].step <= Len(asked[t[1]].msgs)
    /\ \/ /\ m \in LiveMail
          /\ Erase({m})
          /\ mailbox' = [mailbox EXCEPT ![Caller(t)] = StillListed(t, m)]
          /\ doing' = [doing EXCEPT ![t].step = @ + 1]
       \/ /\ m \notin LiveMail
          /\ To(t, "err")
          /\ UNCHANGED <<mail, mailbox, atts, attData>>
    /\ UNCHANGED <<users, attCount, asked>>

\* Faulty variant: the first message is taken for the last.
FirstDone(t) == doing[t].step > 1

ListDone(t) == doing[t].step > Len(asked[t[1]].msgs)

AllDeleted(t) ==
    /\ Asks(t, "delete") /\ ListDone(t)
    /\ To(t, "ok")
    /\ UNCHANGED <<mail, mailbox, users, atts, attCount, attData, asked>>

\* Backend.RemoveUser.
RemoveUser(u) ==
    /\ u \in users /\ users # {u}
    /\ Erase(mailbox[u])
    /\ mailbox' = [mailbox EXCEPT ![u] = {}]
    /\ users' = users \ {u}
    /\ UNCHANGED <<attCount, asked, doing>>

StoreNext ==
    \/ \E r \in Requests : CallServer(r) \/ CallAgain(r)
    \/ \E t \in Tries :
          \/ NoSuchUser(t) \/ CreateDraftOf(t) \/ Upload(t) \/ SendDraft(t)
          \/ ImportBody(t) \/ ImportAttachment(t) \/ Imported(t)
          \/ DeleteNextMail(t) \/ AllDeleted(t)
    \/ \E u \in Accounts : RemoveUser(u)

StoreSpec == StoreInit /\ [][StoreNext]_storeVars

------------------------------------------------------------------------------
(* Properties. *)

StoreTypeOK ==
    /\ mail \in Seq([live : BOOLEAN, atts : SUBSET AttIDs, request : Requests \cup {Unasked}])
    /\ mailbox \in [Accounts -> SUBSET LiveMail] /\ users \subseteq Accounts
    /\ attCount \in 0 .. MaxAtts /\ DOMAIN atts \subseteq 1 .. attCount
    /\ \A a \in DOMAIN atts : atts[a] \in [name : AttNames, data : AttIDs, st : {"kept", "replaced", "late"}]
    /\ doing \in [Tries -> [at : {"new", "asked", "atts", "ok", "err", "panicked"},
                            msg : 0 .. MaxMail, step : Nat]]

\* The data that is stored is the data some attachment needs: a message that
\* is deleted takes its data along only if no copy that was sent, to whatever
\* account, still uses it, and removing the last user removes the data.
DataIsShared == attData = {atts[a].data : a \in DOMAIN atts}

\* The attachments of a message are there, no other message lists them, and
\* no two have the same name, so that a copy gets them all.
AttachmentsOfOne ==
    \A m \in LiveMail :
        /\ mail[m].atts \subseteq DOMAIN atts
        /\ \A k \in LiveMail \ {m} : mail[m].atts \cap mail[k].atts = {}
        /\ \A a, b \in mail[m].atts : atts[a].name = atts[b].name => a = b

\* An attachment no message lists, which nothing can delete any more, was put
\* off the list by one of the same name, or came after its message was gone.
OrphansHaveACause ==
    \A a \in DOMAIN atts : atts[a].st = "kept" => \E m \in LiveMail : a \in mail[m].atts

\* An import that was answered has all its attachments as long as the message
\* is there, whatever is imported again or uploaded to it in between.
ImportIsComplete ==
    \A t \in Tries :
        doing[t].at = "ok" /\ doing[t].msg \in LiveMail =>
            \A i \in DOMAIN asked[t[1]].names :
                \E a \in mail[doing[t].msg].atts : atts[a].name = asked[t[1]].names[i]

\* With deduplication an import whose answer was lost makes no second message,
\* also when both requests are under way at once.
ImportedOnce ==
    Deduplicate =>
        \A r \in Requests : Cardinality({m \in LiveMail : mail[m].request = r}) <= 1

\* A deletion that succeeds leaves none of its messages; one that fails met a
\* message that was gone, perhaps by its own first request, or a removed user.
DeletionAnswers ==
    \A t \in Tries :
        asked[t[1]].kind = "delete" /\ doing[t].at \in {"ok", "err"} =>
            LET left == {i \in DOMAIN asked[t[1]].msgs : asked[t[1]].msgs[i] \in LiveMail}
            IN  IF doing[t].at = "ok" THEN left = {}
                ELSE left # DOMAIN asked[t[1]].msgs \/ Caller(t) \notin users

\* Messages, their attachments and the data of these belong together, however
\* requests interleave, fail in the middle or are made twice.
StoreIntact ==
    /\ StoreTypeOK
    /\ DataIsShared /\ AttachmentsOfOne /\ OrphansHaveACause
    /\ ImportIsComplete /\ ImportedOnce /\ DeletionAnswers
==============================================================================
