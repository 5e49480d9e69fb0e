----------------------------- MODULE ChunkedCalls -----------------------------
(***************************************************************************)
(* The client's calls that cut a list of messages into chunks and make one *)
(* request of each.  MarkMessages..., LabelMessages and UnlabelMessages    *)
(* (message.go) send one chunk after the other; the last two undo the      *)
(* chunks before one in which the server refused a message (undo.go).      *)
(* ImportMessages (message_import.go) sends chunks in parallel and gives   *)
(* the results as a stream, in order.                                      *)
(*                                                                         *)
(* A behaviour makes one call.  The server decides each message for        *)
(* itself; an undone chunk is as before the call.  The parallel stream is  *)
(* a library's: it gives chunks in order, runs ahead of the reader by a    *)
(* bound, and fails some time after a chunk has failed.                    *)
(***************************************************************************)
EXTENDS Integers, FiniteSets, SequencesExt

CONSTANTS
    Listed,       \* how many messages the call is given
    ChunkLen,     \* maxPageSize, maxImportCount
    MailSizes,    \* sizes of the messages to import
    MaxSize,      \* MaxImportSize
    Ahead         \* chunks the stream may be ahead of its reader

ASSUME ChunkAssumption ==
    /\ Listed \in Nat /\ ChunkLen \in Nat \ {0} /\ Ahead \in Nat
    /\ MailSizes \subseteq Nat \ {0} /\ MaxSize \in Nat

VARIABLES
    bulk,        \* a call that marks or labels
    touched,     \* the messages the server has done it to
    importing,   \* a call of ImportMessages, and what its stream has given
    imported     \* the messages the server has imported

chunkVars == <<bulk, touched, importing, imported>>

AllListed == 1 .. Listed
NoBulk == [kind |-> "none", at |-> "new", chunk |-> 1, tokens |-> {}, failed |-> FALSE]
NoImport == [at |-> "new", sizes |-> <<>>, chunks |-> <<>>, answers |-> <<>>, given |-> 0,
             results |-> <<>>]

ChunkedInit ==
    /\ bulk = NoBulk
    /\ touched = {}
    /\ importing = NoImport
    /\ imported = {}

NotCalled == bulk = NoBulk /\ importing = NoImport

------------------------------------------------------------------------------
(* Marking and labelling. *)

Chunk(i) == {m \in AllListed : (i - 1) * ChunkLen < m /\ m <= i * ChunkLen}

\* "plain": MarkMessagesRead and MarkMessagesUnread.  "checked":
\* MarkMessagesForwarded and MarkMessagesUnForwarded.  "undo": LabelMessages
\* and UnlabelMessages.
CallBulk ==
    /\ NotCalled
    /\ \E kind \in {"plain", "checked", "undo"} : bulk' = [NoBulk EXCEPT !.kind = kind, !.at = "chunk"]
    /\ UNCHANGED <<touched, importing, imported>>

\* Faulty variant: one response speaks for the chunk.
FirstRefused(i, refused) == Cardinality(Chunk(i)) = Cardinality(refused)

\* Not ok(): some response has another code.  The plain calls do not look.
Refused(i, refused) == refused # {} /\ bulk.kind # "plain"

\* Faulty variant: only the token of the last chunk is kept.
LastToken(i) == {i}

UndoTokens(i) == bulk.tokens \cup {i}

SendChunk ==
    LET i == bulk.chunk IN
    /\ bulk.at = "chunk" /\ Chunk(i) # {}
    /\ \E refused \in SUBSET Chunk(i) :
          /\ touched' = touched \cup (Chunk(i) \ refused)
          /\ bulk' = IF ~Refused(i, refused) THEN [bulk EXCEPT !.chunk = @ + 1, !.tokens = UndoTokens(i)]
                     ELSE [bulk EXCEPT !.at = IF bulk.kind = "undo" THEN "undo" ELSE "refused"]
    /\ UNCHANGED <<importing, imported>>

\* The request fails, and the server may have done any part of it.
ChunkFails ==
    /\ bulk.at = "chunk" /\ Chunk(bulk.chunk) # {}
    /\ \E done \in SUBSET Chunk(bulk.chunk) : touched' = touched \cup done
    /\ bulk' = [bulk EXCEPT !.at = "err"]
    /\ UNCHANGED <<importing, imported>>

BulkDone ==
    /\ bulk.at = "chunk" /\ Chunk(bulk.chunk) = {}
    /\ bulk' = [bulk EXCEPT !.at = "ok"]
    /\ UNCHANGED <<touched, importing, imported>>

\* UndoActions: the tokens in parallel; one that has expired, or a request
\* that fails, whatever the server has made of it, stops those not yet sent.
Undo(i) ==
    /\ bulk.at = "undo" /\ i \in bulk.tokens
    /\ \/ /\ touched' = touched \ Chunk(i)
          /\ bulk' = [bulk EXCEPT !.tokens = @ \ {i}]
       \/ /\ \E undone \in {{}, Chunk(i)} : touched' = touched \ undone
          /\ bulk' = [bulk EXCEPT !.tokens = @ \ {i}, !.failed = TRUE]
    /\ UNCHANGED <<importing, imported>>

Undone ==
    /\ bulk.at = "undo" /\ (bulk.tokens = {} \/ bulk.failed)
    /\ bulk' = [bulk EXCEPT !.at = IF bulk.failed THEN "not undone" ELSE "undone"]
    /\ UNCHANGED <<touched, importing, imported>>

------------------------------------------------------------------------------
(* Importing. *)

SizeOf(chunk, sizes) ==
    LET sum[n \in 0 .. Len(chunk)] == IF n = 0 THEN 0 ELSE sum[n - 1] + sizes[chunk[n]]
    IN  sum[Len(chunk)]

\* Faulty variant: a chunk is closed when it has reached the limit.
FitsOneMore(chunk, m, sizes) == Len(chunk) < ChunkLen /\ SizeOf(chunk, sizes) < MaxSize

Fits(chunk, m, sizes) == Len(chunk) < ChunkLen /\ SizeOf(chunk, sizes) + sizes[m] <= MaxSize

\* ChunkSized: each message joins the last chunk or opens another.
WithMessage(chunks, m, sizes) ==
    IF chunks # <<>> /\ Fits(Last(chunks), m, sizes)
    THEN Append(Front(chunks), Append(Last(chunks), m)) ELSE Append(chunks, <<m>>)

ChunkSized(sizes) ==
    LET cut[m \in 0 .. Listed] == IF m = 0 THEN <<>> ELSE WithMessage(cut[m - 1], m, sizes)
    IN  cut[Listed]

\* ImportMessages.
CallImport ==
    /\ NotCalled
    /\ \E sizes \in [AllListed -> MailSizes] :
          importing' = IF \E m \in AllListed : sizes[m] > MaxSize
                       THEN [NoImport EXCEPT !.at = "too big"]
                       ELSE [NoImport EXCEPT !.at = "open", !.sizes = sizes, !.chunks = ChunkSized(sizes)]
    /\ UNCHANGED <<bulk, touched, imported>>

\* Faulty variant: the stream does not wait for its reader.
Unbounded == TRUE

HasRoom == Len(importing.answers) - importing.given < Ahead

\* The stream makes the next request.
SendImport ==
    /\ importing.at = "open" /\ HasRoom
    /\ Len(importing.answers) < Len(importing.chunks)
    /\ importing' = [importing EXCEPT !.answers = Append(@, <<>>)]
    /\ UNCHANGED <<bulk, touched, imported>>

\* The orders in which the server can answer a chunk: it goes through a map.
AnswersTo(chunk) ==
    {[i \in DOMAIN chunk |-> [name |-> p[i], id |-> chunk[p[i]]]] :
        p \in {q \in [DOMAIN chunk -> DOMAIN chunk] : IsInjective(q)}}

Failed == <<[name |-> 0, id |-> 0]>>

\* An answer; a message that was refused, or a request that fails, makes the
\* whole chunk an error.  The reader may have had the error of another one.
ImportAnswered(k) ==
    /\ k \in DOMAIN importing.answers /\ importing.answers[k] = <<>>
    /\ \/ /\ imported' = imported \cup ToSet(importing.chunks[k])
          /\ \E answer \in AnswersTo(importing.chunks[k]) :
                importing' = [importing EXCEPT !.answers[k] = answer]
       \/ /\ \E done \in SUBSET ToSet(importing.chunks[k]) : imported' = imported \cup done
          /\ importing' = [importing EXCEPT !.answers[k] = Failed]
    /\ UNCHANGED <<bulk, touched>>

\* Faulty variant: the responses are taken in the order of the answer.
InAnswerOrder(answer) == [i \in DOMAIN answer |-> answer[i].id]

\* importMessages: the response of each name.
ByName(answer) == [i \in DOMAIN answer |-> (CHOOSE r \in ToSet(answer) : r.name = i).id]

\* The reader takes the results of the next chunk.
TakeChunk ==
    LET k == importing.given + 1 IN
    /\ importing.at = "open" /\ k \in DOMAIN importing.answers
    /\ importing.answers[k] \notin {<<>>, Failed}
    /\ importing' = [importing EXCEPT !.given = k, !.results = @ \o ByName(importing.answers[k])]
    /\ UNCHANGED <<bulk, touched, imported>>

StreamFails ==
    /\ importing.at = "open" /\ Failed \in ToSet(importing.answers)
    /\ importing' = [importing EXCEPT !.at = "failed"]
    /\ UNCHANGED <<bulk, touched, imported>>

StreamEnds ==
    /\ importing.at = "open" /\ importing.given = Len(importing.chunks)
    /\ importing' = [importing EXCEPT !.at = "ended"]
    /\ UNCHANGED <<bulk, touched, imported>>

ChunkedNext ==
    \/ CallBulk \/ SendChunk \/ ChunkFails \/ BulkDone \/ Undone
    \/ \E i \in AllListed : Undo(i)
    \/ CallImport \/ SendImport \/ TakeChunk \/ StreamFails \/ StreamEnds
    \/ \E k \in AllListed : ImportAnswered(k)

ChunkedSpec == ChunkedInit /\ [][ChunkedNext]_chunkVars

------------------------------------------------------------------------------
(* Properties. *)

\* The chunks are the list cut up, none is empty, too long or too large.
ChunkedTypeOK ==
    /\ touched \subseteq AllListed /\ imported \subseteq AllListed
    /\ bulk.at \in {"new", "chunk", "undo", "undone", "not undone", "refused", "err", "ok"}
    /\ importing.at \in {"new", "open", "too big", "failed", "ended"}
    /\ importing.chunks # <<>> => FlattenSeq(importing.chunks) = [m \in AllListed |-> m]
    /\ \A k \in DOMAIN importing.chunks :
          /\ Len(importing.chunks[k]) \in 1 .. ChunkLen
          /\ SizeOf(importing.chunks[k], importing.sizes) <= MaxSize

\* A call that returns without an error has done all, unless it is one of the
\* plain ones; one that fails has not touched anything after the chunk it
\* failed in, and all before it, unless that was undone.
DoneOrTold ==
    /\ bulk.at = "ok" /\ bulk.kind # "plain" => touched = AllListed
    /\ bulk.at \in {"err", "refused"} /\ bulk.kind # "plain" =>
          \A m \in AllListed : (m \in touched => m <= bulk.chunk * ChunkLen)
                               /\ (m <= (bulk.chunk - 1) * ChunkLen => m \in touched)

\* When LabelMessages says that it failed, and not that it failed to undo,
\* the chunks before are as they were; of the chunk in which the server
\* refused a message the others stay labelled.
UndoneUpToAChunk == bulk.at = "undone" => touched \subseteq Chunk(bulk.chunk)

\* The results the reader has are those of the first messages, each in its
\* place, although chunks are answered in any order and a map's at that.
ResultsInOrder == importing.results = [m \in 1 .. Len(importing.results) |-> m]

\* What was imported and the reader does not know of is no more than what
\* the stream was ahead by; a stream that has ended leaves nothing.
UnreportedBounded ==
    /\ Cardinality(imported \ ToSet(importing.results)) <= Ahead * ChunkLen
    /\ importing.at = "ended" => imported = AllListed /\ Len(importing.results) = Listed

\* What a call in chunks reports accounts for what it did, up to a chunk.
ChunksAccounted ==
    ChunkedTypeOK /\ DoneOrTold /\ UndoneUpToAChunk /\ ResultsInOrder /\ UnreportedBounded
==============================================================================
