------------------------------ MODULE ImportMail ------------------------------
(***************************************************************************)
(* What becomes of an imported message: the client encrypts it part by     *)
(* part or as a whole (message_encrypt.go), the server takes it apart      *)
(* (server/messages.go, api.go), and a client puts it together again       *)
(* (message_build.go).                                                     *)
(*                                                                         *)
(* A message is a tree of two levels at most, and a leaf of it is found by *)
(* its place: the number of the part it is in, and its number there.  A    *)
(* leaf is a text or a file; a file has a disposition, a name and perhaps  *)
(* a content ID.  enc says how the content of a leaf is encrypted, whole   *)
(* that it holds a whole message.  Embedded messages, labels and all       *)
(* headers that do not decide anything are left out.                       *)
(***************************************************************************)
EXTENDS Integers, FiniteSets, SequencesExt

CONSTANTS
    FileNames,      \* names and content IDs of files
    MaxParts        \* bound: parts of each multipart

ASSUME ImportMailAssumption == FileNames # {} /\ "attachment.bin" \in FileNames /\ MaxParts \in Nat

VARIABLES
    literal,     \* the message a client wants to import
    posted,      \* what it sends
    stored,      \* what the server makes of it
    stage

importVars == <<literal, posted, stored, stage>>

Text(type, ok) ==
    [kind |-> "leaf", type |-> type, ok |-> ok, disposition |-> "none", name |-> "", cid |-> "",
     enc |-> "no", whole |-> FALSE]

File(disposition, name, cid) ==
    [Text("file", TRUE) EXCEPT !.disposition = disposition, !.name = name, !.cid = cid]

\* A text whose charset is unknown, or whose encoding is broken, is not ok.
Texts == {Text("plain", TRUE), Text("html", TRUE), Text("plain", FALSE)}

Files == {File("none", "", "")}
         \cup {File("attachment", n, "") : n \in FileNames}
         \cup {File("inline", "", c) : c \in {"", CHOOSE f \in FileNames : TRUE}}

Multi(sub, parts) == [kind |-> "multi", type |-> sub, parts |-> parts]

Some(parts) == SeqOf(parts, MaxParts) \ {<<>>}

Inner == {Multi("related", parts) : parts \in Some(Texts \cup Files)}

Literals ==
    Texts \cup Files
    \cup {Multi(sub, parts) : sub \in {"mixed", "encrypted", "signed"}, parts \in Some(Texts \cup Files \cup Inner)}

Nothing == [st |-> "none"]

ImportMailInit ==
    /\ literal \in Literals
    /\ posted = Nothing /\ stored = Nothing
    /\ stage = "encrypt"

\* The parts of a message; a leaf is its own only part.
PartsOf(t) == IF t.kind = "leaf" THEN <<t>> ELSE t.parts

\* Where the leaves are, in the order in which they are written.
Places(t) == UNION {{<<i, j>> : j \in DOMAIN PartsOf(PartsOf(t)[i])} : i \in DOMAIN PartsOf(t)}
LeafAt(t, p) == PartsOf(PartsOf(t)[p[1]])[p[2]]
Precedes(p, q) == p[1] < q[1] \/ (p[1] = q[1] /\ p[2] < q[2])

IsText(leaf) == leaf.type \in {"plain", "html"}
TextsOf(t) == {p \in Places(t) : IsText(LeafAt(t, p))}

\* The types of all sections.
Nodes(t) ==
    {t.type} \cup {PartsOf(t)[i].type : i \in DOMAIN PartsOf(t)} \cup {LeafAt(t, p).type : p \in Places(t)}

------------------------------------------------------------------------------
(* EncryptRFC822. *)

\* Faulty variant: a file is passed on as it is.
TextOnly(leaf) == IF IsText(leaf) THEN [leaf EXCEPT !.enc = "armored"] ELSE leaf

\* encryptText and encryptAtt.
EncryptLeaf(leaf) == [leaf EXCEPT !.enc = IF IsText(leaf) THEN "armored" ELSE "base64"]

\* encryptMultipart: each part goes its own way.
EncryptPart(t) ==
    IF t.kind = "leaf" THEN EncryptLeaf(t)
    ELSE [t EXCEPT !.parts = [j \in DOMAIN t.parts |-> EncryptLeaf(t.parts[j])]]

EncryptParts(t) ==
    IF t.kind = "leaf" THEN EncryptLeaf(t)
    ELSE [t EXCEPT !.parts = [i \in DOMAIN t.parts |-> EncryptPart(t.parts[i])]]

\* tryEncrypt and encrypt: not if the message is encrypted or signed, has
\* several texts, or one that cannot be read.
PartByPart(t) ==
    /\ Nodes(t) \cap {"encrypted", "signed"} = {}
    /\ \A p, q \in TextsOf(t) : p = q
    /\ \A p \in TextsOf(t) : LeafAt(t, p).ok

\* encryptFull: the message as an encrypted and signed attachment.
EncryptFull(t) ==
    Multi("encrypted", <<[File("none", "", "") EXCEPT !.enc = "version"],
                         [File("inline", "encrypted.asc", "") EXCEPT !.enc = "armored", !.whole = TRUE]>>)

Encrypt ==
    /\ stage = "encrypt"
    /\ posted' = IF PartByPart(literal) THEN EncryptParts(literal) ELSE EncryptFull(literal)
    /\ stage' = "import"
    /\ UNCHANGED <<literal, stored>>

------------------------------------------------------------------------------
(* parseMessage, importBody and importAttachment. *)

\* Faulty variant: the texts of inner multiparts are passed over.
TopBodies(t) ==
    IF t.type = "encrypted" THEN {<<2, 1>>} ELSE {p \in TextsOf(t) : t.kind = "multi" => t.parts[p[1]].kind = "leaf"}

\* collect: the bodies, of which the first is taken, and the files.
Bodies(t) == IF t.type = "encrypted" THEN {<<2, 1>>} ELSE TextsOf(t)
FilesOf(t) == IF t.type = "encrypted" THEN {} ELSE Places(t) \ TextsOf(t)
FirstOf(places) == CHOOSE p \in places : \A q \in places \ {p} : Precedes(p, q)

\* Faulty variant: the type of the first part at the top.
FirstType(t) == IF t.kind = "leaf" THEN t.type ELSE t.parts[1].type

\* The type of the message: that of the one text at the top, if there is one.
TypeOf(t) ==
    LET top == {t.parts[i].type : i \in DOMAIN t.parts} IN
    IF t.kind = "leaf" THEN t.type
    ELSE IF Len(t.parts) - Cardinality(FilesOf(t)) > 1 THEN "mixed"
    ELSE IF "html" \in top THEN "html"
    ELSE IF "plain" \in top THEN "plain" ELSE "mixed"

\* A file without a disposition gets one, and a name.
Attachment(file) ==
    IF file.disposition = "none" THEN [file EXCEPT !.disposition = "attachment", !.name = "attachment.bin"]
    ELSE file

\* CreateAttachment refuses an inline attachment without a content ID.
Acceptable(att) == att.disposition # "inline" \/ att.cid # ""

\* sortAttachment: of two with the same content ID, or the same name and no
\* content ID, only the last one stays.
SameKey(a, b) == a.cid = b.cid /\ (a.cid = "" => a.name = b.name)

\* Faulty variant: the first one stays.
FirstFiles(files) == {p \in DOMAIN files : ~\E q \in DOMAIN files : Precedes(q, p) /\ SameKey(files[p], files[q])}

KeptFiles(files) == {p \in DOMAIN files : ~\E q \in DOMAIN files : Precedes(p, q) /\ SameKey(files[p], files[q])}

ImportLiteral ==
    /\ stage = "import"
    /\ LET files == [p \in FilesOf(posted) |-> Attachment(LeafAt(posted, p))] IN
       stored' = IF Bodies(posted) = {} THEN [st |-> "panicked"]
                 ELSE IF \E p \in DOMAIN files : ~Acceptable(files[p]) THEN [st |-> "failed"]
                 ELSE [st |-> "ok", body |-> LeafAt(posted, FirstOf(Bodies(posted))), type |-> TypeOf(posted),
                       files |-> files, kept |-> KeptFiles(files)]
    /\ stage' = "build"
    /\ UNCHANGED <<literal, posted>>

------------------------------------------------------------------------------
(* BuildRFC822. *)

\* buildPGPRFC822: the body alone, which may be a whole message.
BodyOnly == stored.type = "mixed"

\* Faulty variant: only the inline files are written.
InlineKept == {p \in stored.kept : stored.files[p].disposition = "inline"}

\* The files that are written, the inline ones next to the text.
Written == IF BodyOnly THEN {} ELSE stored.kept

Build ==
    /\ stage = "build" /\ stored.st = "ok"
    /\ stored' = [st |-> "built", body |-> stored.body, written |-> Written,
                  files |-> stored.files, kept |-> stored.kept, type |-> stored.type]
    /\ stage' = "done"
    /\ UNCHANGED <<literal, posted>>

ImportMailNext == Encrypt \/ ImportLiteral \/ Build

ImportMailSpec == ImportMailInit /\ [][ImportMailNext]_importVars

------------------------------------------------------------------------------
(* Properties. *)

ImportMailTypeOK ==
    /\ stage \in {"encrypt", "import", "build", "done"}
    /\ stored.st \in {"none", "ok", "failed", "panicked", "built"}
    /\ stored.st \in {"ok", "built"} => stored.kept \subseteq DOMAIN stored.files /\ stored.type # "file"

\* No part of a message leaves the client in the clear, whatever it is made of.
NothingInClear ==
    stage # "encrypt" =>
        \A p \in Places(posted) : LeafAt(posted, p).enc # "no"

\* An import that succeeds keeps every part: the message as a whole, or its
\* one text as the body and all other leaves as files, but for those with the
\* key of a later one that stays.  Files without a disposition get the same
\* name, so that only the last of them is kept.
PartsKept ==
    stored.st \in {"ok", "built"} =>
        \/ stored.body.whole
        \/ /\ \E p \in Places(literal) :
                 /\ TextsOf(literal) = {p}
                 /\ stored.body = [LeafAt(literal, p) EXCEPT !.enc = "armored"]
                 /\ DOMAIN stored.files = Places(literal) \ {p}
           /\ \A p \in DOMAIN stored.files : stored.files[p].cid = LeafAt(literal, p).cid
           /\ \A p \in DOMAIN stored.files \ stored.kept :
                 \E q \in stored.kept : Precedes(p, q) /\ SameKey(stored.files[p], stored.files[q])

\* A message that was taken apart has one text, and one that has none makes
\* the server panic; an inline file without a content ID makes it fail when
\* the message is made already.
ImportFailsForAReason ==
    /\ stored.st = "panicked" => TextsOf(literal) = {}
    /\ stored.st = "failed" => \E p \in Places(literal) : ~Acceptable(LeafAt(literal, p))

\* A client that builds the message again has all that was kept, unless its
\* text is not directly below the top: then the server calls it mixed, and
\* the client takes the text for a whole message.
BuildWritesAll ==
    stored.st = "built" =>
        \/ stored.body.whole
        \/ stored.written = stored.kept
        \/ posted.kind = "multi" /\ \A i \in DOMAIN posted.parts : ~IsText(posted.parts[i])

\* Encrypting, importing and building a message lose nothing and show nothing,
\* but for the cases the parts name.
ImportIntact ==
    ImportMailTypeOK /\ NothingInClear /\ PartsKept /\ ImportFailsForAReason /\ BuildWritesAll
==============================================================================
