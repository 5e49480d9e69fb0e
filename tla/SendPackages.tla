----------------------------- MODULE SendPackages -----------------------------
(***************************************************************************)
(* The packages of a draft (message_send_types.go) and what the server     *)
(* delivers of them (backend/api.go, SendMessage).                         *)
(*                                                                         *)
(* The sender reads the keys of the attachments, builds one package after  *)
(* another, each from the preferences of its recipients, which Go ranges   *)
(* over in any order, and sends the request.  Another client of the same   *)
(* account may add an attachment to the draft meanwhile.  A session key is *)
(* a key of the body or of one attachment; encrypted to a recipient it is  *)
(* a packet.  The key rings work and base64 is well formed.                *)
(***************************************************************************)
EXTENDS Integers, FiniteSets, SequencesExt

CONSTANTS
    Recipients,     \* email addresses
    Local,          \* those that have an account on the server
    Attachments,
    MaxPackages     \* bound: packages of the request

ASSUME SendAssumption == Local \subseteq Recipients /\ MaxPackages \in Nat

VARIABLES
    draftAtts,    \* the attachments of the draft at the server
    attKeys,      \* those whose keys the sender has read, once it has
    package,      \* the package being built
    packages,     \* SendDraftReq.Packages
    copies,       \* the messages that were delivered
    sent          \* the answer to the request

sendVars == <<draftAtts, attKeys, package, packages, copies, sent>>

Schemes == {"internal", "outside", "clear", "inline", "pgpmime", "clearmime"}
MIMETypes == {"plain", "html", "mixed"}
Signatures == {"none", "detached", "attached"}
SendPreferences ==
    [scheme : Schemes, signature : Signatures, mimeType : MIMETypes, encrypt : BOOLEAN, pubKey : BOOLEAN]

NotRead == {"not read"}
NoPackage == [mimeType |-> "none", addresses |-> <<>>, bodyKey |-> FALSE, attKeys |-> {}]

SendInit ==
    /\ draftAtts \in SUBSET Attachments
    /\ attKeys = NotRead
    /\ package = NoPackage
    /\ packages = <<>>
    /\ copies = {}
    /\ sent = "no"

------------------------------------------------------------------------------
(* The sender. *)

\* UploadAttachment, of another client.
AddAttachment ==
    /\ sent = "no"
    /\ \E a \in Attachments \ draftAtts : draftAtts' = draftAtts \cup {a}
    /\ UNCHANGED <<attKeys, package, packages, copies, sent>>

\* The sender reads the message for the keys of its attachments.
ReadKeys ==
    /\ attKeys = NotRead
    /\ attKeys' = draftAtts
    /\ UNCHANGED <<draftAtts, package, packages, copies, sent>>

\* newMIMEPackage and newTextPackage: the latter refuses multipart/mixed,
\* which is the type of the former.
NewPackage ==
    /\ attKeys # NotRead /\ sent = "no" /\ package = NoPackage /\ Len(packages) < MaxPackages
    /\ \E type \in MIMETypes : package' = [NoPackage EXCEPT !.mimeType = type]
    /\ UNCHANGED <<draftAtts, attKeys, packages, copies, sent>>

\* The checks of newMIMEPackage.
GoodForMIME(prefs) ==
    /\ prefs.mimeType = "mixed" /\ prefs.signature = "detached"
    /\ prefs.scheme \in {"pgpmime", "clearmime"}
    /\ prefs.scheme = "pgpmime" => prefs.pubKey

\* Faulty variant: anything goes that has a scheme of a text package.
AnyText(prefs) == prefs.mimeType = package.mimeType /\ prefs.scheme \in {"internal", "clear", "inline"}

\* The checks of newTextPackage.
GoodForText(prefs) ==
    /\ prefs.mimeType = package.mimeType
    /\ prefs.scheme \in {"internal", "clear", "inline"}
    /\ prefs.scheme = "internal" => prefs.encrypt
    /\ prefs.scheme = "inline" => package.mimeType = "plain"
    /\ prefs.signature = "detached" /\ ~prefs.encrypt =>
          prefs.scheme = "clear" /\ package.mimeType = "plain"
    /\ prefs.encrypt => prefs.pubKey /\ prefs.signature = "detached"

Good(prefs) == IF package.mimeType = "mixed" THEN GoodForMIME(prefs) ELSE GoodForText(prefs)

\* Whether the recipient gets packets: by its scheme in a MIME package, by
\* Encrypt in a text package.
WantsPackets(prefs) == IF package.mimeType = "mixed" THEN prefs.scheme = "pgpmime" ELSE prefs.encrypt

\* Faulty variant: attachment keys are left to the package.
BodyOnlyPackets(prefs) == [body |-> WantsPackets(prefs), atts |-> {}]

Packets(prefs) ==
    [body |-> WantsPackets(prefs),
     atts |-> IF WantsPackets(prefs) /\ package.mimeType # "mixed" THEN attKeys ELSE {}]

\* Faulty variant: keys are given away for anyone who is not encrypted to.
ForAnyone(prefs) == ~prefs.encrypt

\* The recipients the package needs the keys themselves for.
InClear(prefs) == prefs.scheme \in {"clear", "clearmime"}

MessageRecipient(addr, prefs) ==
    [email |-> addr, type |-> prefs.scheme, body |-> Packets(prefs).body, atts |-> Packets(prefs).atts]

With(addr, prefs) ==
    [package EXCEPT
        !.addresses = Append(@, MessageRecipient(addr, prefs)),
        !.bodyKey = @ \/ InClear(prefs),
        !.attKeys = IF InClear(prefs) /\ package.mimeType # "mixed" THEN attKeys ELSE @]

\* The next recipient in the loop: the package is dropped for one that is not
\* good for it.
AddRecipient(addr) ==
    /\ package # NoPackage
    /\ \A i \in DOMAIN package.addresses : package.addresses[i].email # addr
    /\ package' \in {With(addr, prefs) : prefs \in {q \in SendPreferences : Good(q)}} \cup {NoPackage}
    /\ UNCHANGED <<draftAtts, attKeys, packages, copies, sent>>

\* AddMIMEPackage and AddTextPackage, once every recipient is in.
AddPackage ==
    /\ package # NoPackage
    /\ packages' = Append(packages, package)
    /\ package' = NoPackage
    /\ UNCHANGED <<draftAtts, attKeys, copies, sent>>

------------------------------------------------------------------------------
(* The server. *)

InternalOf(p) == {i \in DOMAIN packages[p].addresses : packages[p].addresses[i].type = "internal"}

Copy(p, i) ==
    LET recipient == packages[p].addresses[i]
    IN  [email |-> recipient.email, body |-> recipient.body, packets |-> recipient.atts, atts |-> draftAtts]

\* Faulty variant: packages are looked at as a whole.
AllInternal(p) == IF InternalOf(p) = DOMAIN packages[p].addresses THEN InternalOf(p) ELSE {}

\* The recipients of a package that are delivered to: all that are internal.
ToDeliver(p) == InternalOf(p)

Reachable(p) == {i \in ToDeliver(p) : packages[p].addresses[i].email \in Local}
CopiesOf(p) == {Copy(p, i) : i \in Reachable(p)}

\* SendMessage: the first recipient without an account ends it; those before,
\* in any order within a package, keep what they got.
SendRequest ==
    /\ sent = "no" /\ package = NoPackage /\ packages # <<>>
    /\ LET stops == {p \in DOMAIN packages : Reachable(p) # ToDeliver(p)} IN
       \/ /\ stops = {}
          /\ copies' = UNION {CopiesOf(p) : p \in DOMAIN packages}
          /\ sent' = "ok"
       \/ \E p \in stops :
             /\ \A q \in stops : p <= q
             /\ \E some \in SUBSET CopiesOf(p) :
                   copies' = some \cup UNION {CopiesOf(q) : q \in 1 .. p - 1}
             /\ sent' = "refused"
    /\ UNCHANGED <<draftAtts, attKeys, package, packages>>

SendNext ==
    \/ AddAttachment \/ ReadKeys \/ NewPackage
    \/ \E addr \in Recipients : AddRecipient(addr)
    \/ AddPackage \/ SendRequest

SendSpec == SendInit /\ [][SendNext]_sendVars

------------------------------------------------------------------------------
(* Properties. *)

SendTypeOK ==
    /\ draftAtts \subseteq Attachments
    /\ attKeys = NotRead \/ attKeys \subseteq draftAtts
    /\ package.mimeType \in MIMETypes \cup {"none"} /\ package.attKeys \subseteq Attachments
    /\ Len(packages) <= MaxPackages
    /\ \A c \in copies : c.email \in Local /\ c.body
    /\ sent \in {"no", "ok", "refused"}

Finished == {packages[p] : p \in DOMAIN packages}

\* Whoever a package is for can read its body: by a packet of its own or by the
\* key in the package.  The exception is a recipient of PGP/inline that is not
\* encrypted to and shares the package with none that is sent to in the clear:
\* newTextPackage accepts it and gives it neither.
EveryoneReads ==
    \A p \in Finished : \A i \in DOMAIN p.addresses :
       LET recipient == p.addresses[i]
       IN  recipient.body \/ p.bodyKey \/ recipient.type = "inline"

\* The keys themselves are in a package only for recipients that are sent to in
\* the clear, whatever the order of the recipients; an internal recipient has
\* packets of its own for the body and every attachment the sender knew.
KeysStayPrivate ==
    \A p \in Finished :
       /\ p.bodyKey \/ p.attKeys # {} =>
             \E i \in DOMAIN p.addresses : p.addresses[i].type \in {"clear", "clearmime"}
       /\ \A i \in DOMAIN p.addresses :
             p.addresses[i].type = "internal" => p.addresses[i].body /\ p.addresses[i].atts = attKeys

\* A delivered attachment that the recipient has no packet for was added to the
\* draft after the sender had read the keys: SendMessage copies the attachments
\* the draft has by then, with an empty packet.
CopiesReadable ==
    \A c \in copies : \A a \in c.atts : a \notin c.packets => a \notin attKeys

\* An accepted request has reached every internal recipient; a refused one may
\* have reached some.
SentToAll ==
    sent = "ok" =>
       \A p \in Finished : \A i \in DOMAIN p.addresses :
          p.addresses[i].type = "internal" => \E c \in copies : c.email = p.addresses[i].email

\* Every recipient can read what was sent, and nobody else.
PackagesFit == SendTypeOK /\ EveryoneReads /\ KeysStayPrivate /\ CopiesReadable /\ SentToAll
==============================================================================
