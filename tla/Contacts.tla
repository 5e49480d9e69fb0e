------------------------------- MODULE Contacts -------------------------------
(***************************************************************************)
(* The contacts of one account (server/contacts.go, backend/contact.go,    *)
(* backend/api.go) and the client's calls that list them page by page      *)
(* (contact.go).                                                           *)
(*                                                                         *)
(* A posted card takes several steps: its ID, an ID for each of its        *)
(* emails, and the contact, each under a lock of its own or none.  A card  *)
(* may have no email, or several, so that the emails of an account are     *)
(* more or fewer than its contacts.  A listing (of emails: without a       *)
(* filter; one is as if there were no other emails) reads one              *)
(* page per request and decides by the total of the first one how many     *)
(* there are.  IDs are numbers, sorted as strings: 10 comes before 9.      *)
(* Nothing deletes a contact: the server has no route for it.              *)
(***************************************************************************)
EXTENDS Integers, SequencesExt

CONSTANTS
    Posters,       \* requests of POST /contacts/v4
    CardsOf,       \* how many cards each of them has
    Listers,       \* calls of GetAllContactsPaged and GetAllContactEmailsPaged
    ListSize,      \* the page size they ask for
    MaxPut,        \* bound: contacts whose cards are replaced
    MaxEmails,     \* bound: EMAIL fields of a card
    CounterStart   \* contactCounter: IDs that were taken by cards nobody could read

ASSUME ContactAssumption ==
    /\ CardsOf \in [Posters -> Nat] /\ ListSize \in Nat \ {0} /\ MaxPut \in Nat
    /\ MaxEmails \in Nat /\ CounterStart \in Nat

VARIABLES
    contacts,          \* account.contacts, each with the IDs of its emails and
                       \* whether its cards were replaced
    contactCounter,    \* account.contactCounter
    globalContactID,   \* the last ID of an email
    posting,           \* the card each POST is at, and how far it is
    listing            \* the call of each lister: what it asked and collected

contactVars == <<contacts, contactCounter, globalContactID, posting, listing>>

Kinds == {"contacts", "emails"}
NoListing == [at |-> "new", kind |-> "contacts", total |-> 0, page |-> 0, got |-> <<>>, before |-> {}]

ContactsInit ==
    /\ contacts = {}
    /\ contactCounter = CounterStart
    /\ globalContactID = CounterStart
    /\ posting = [h \in Posters |-> [at |-> "id", left |-> CardsOf[h], id |-> 0, more |-> 0, emails |-> {}]]
    /\ listing = [c \in Listers |-> NoListing]

------------------------------------------------------------------------------
(* handlePostContacts. *)

\* Faulty variant: the next ID is the number of contacts.
CountContacts == Cardinality(contacts) + CounterStart + 1

NextID == contactCounter + 1

\* GenerateContactID.
GenerateContactID(h) ==
    /\ posting[h].at = "id" /\ posting[h].left > 0
    /\ contactCounter' = NextID
    /\ posting' = [posting EXCEPT ![h].at = "convert", ![h].id = NextID]
    /\ UNCHANGED <<contacts, globalContactID, listing>>

\* ContactCardToContact: a card that cannot be read is answered with an
\* error, one without a name ends the request in a panic, which Go lets come
\* before or after the first of its emails has got an ID.
ConvertCard(h) ==
    /\ posting[h].at = "convert"
    /\ \/ /\ \E n \in 0 .. MaxEmails : posting' = [posting EXCEPT ![h].at = "emails", ![h].more = n, ![h].emails = {}]
          /\ UNCHANGED globalContactID
       \/ /\ posting' = [posting EXCEPT ![h].at = "id", ![h].left = @ - 1]
          /\ UNCHANGED globalContactID
       \/ /\ posting' = [posting EXCEPT ![h].at = "panicked"]
          /\ globalContactID' \in {globalContactID, globalContactID + 1}
    /\ UNCHANGED <<contacts, contactCounter, listing>>

\* Faulty variant: emails get the number of the last one.
LastEmailID == globalContactID

NextEmailID == globalContactID + 1

\* The next EMAIL field of the card.
NumberEmail(h) ==
    /\ posting[h].at = "emails" /\ posting[h].more > 0
    /\ globalContactID' = NextEmailID
    /\ posting' = [posting EXCEPT ![h].more = @ - 1, ![h].emails = @ \cup {NextEmailID}]
    /\ UNCHANGED <<contacts, contactCounter, listing>>

\* AddUserContact: a contact with the same ID is overwritten.
AddUserContact(h) ==
    /\ posting[h].at = "emails" /\ posting[h].more = 0
    /\ contacts' = {c \in contacts : c.id # posting[h].id}
                   \cup {[id |-> posting[h].id, emails |-> posting[h].emails, put |-> FALSE]}
    /\ posting' = [posting EXCEPT ![h].at = "id", ![h].left = @ - 1]
    /\ UNCHANGED <<contactCounter, globalContactID, listing>>

\* Faulty variant: the emails are read from the new cards.
EmailsToo(c) == [c EXCEPT !.put = TRUE, !.emails = {globalContactID}]

WithCards(c) == [c EXCEPT !.put = TRUE]

\* PUT /contacts/v4/:contactID: the cards are replaced, the emails stay those
\* of the card that was posted.  An unknown contact panics.
UpdateUserContact ==
    /\ Cardinality({c \in contacts : c.put}) < MaxPut
    /\ \E c \in contacts : contacts' = (contacts \ {c}) \cup {WithCards(c)}
    /\ UNCHANGED <<contactCounter, globalContactID, posting, listing>>

------------------------------------------------------------------------------
(* GetUserContacts and GetUserContactEmails. *)

\* The place of an ID up to 99 among the IDs as strings.
StringPlace(n) == IF n < 10 THEN 11 * n - 1 ELSE 11 * (n \div 10) + (n % 10)

ContactIDs(kind) == IF kind = "contacts" THEN {c.id : c \in contacts} ELSE UNION {c.emails : c \in contacts}

\* The total of an answer.
TotalOf(kind) == Cardinality(ContactIDs(kind))

\* How many of them are not after this one.
PlaceOf(kind, id) == Cardinality({other \in ContactIDs(kind) : StringPlace(other) <= StringPlace(id)})

\* They are sorted: each is at its place.
Sorted(kind) ==
    [i \in 1 .. TotalOf(kind) |-> CHOOSE id \in ContactIDs(kind) : PlaceOf(kind, id) = i]

\* Without a filter; few emails are answered at once, in no order that matters.
AnsweredAtOnce(kind) == kind = "emails" /\ TotalOf(kind) < ListSize

\* Faulty variant: a chunk that is not full is none.
HasFullPage(kind, page) == AnsweredAtOnce(kind) \/ (page + 1) * ListSize <= TotalOf(kind)

\* Is there such a chunk?  Indexing past the last one panics.
HasPage(kind, page) == AnsweredAtOnce(kind) \/ page * ListSize < TotalOf(kind)

PageOf(kind, page) ==
    IF AnsweredAtOnce(kind) THEN Sorted(kind)
    ELSE SubSeq(Sorted(kind), page * ListSize + 1, Min({(page + 1) * ListSize, TotalOf(kind)}))

------------------------------------------------------------------------------
(* GetAllContactsPaged and GetAllContactEmailsPaged. *)

\* Faulty variant: the loop begins with the first page.
FromFirst == 0

FromSecond == 1

FirstPage(c) ==
    /\ listing[c].at = "new"
    /\ \E kind \in Kinds :
          listing' = [listing EXCEPT ![c] =
              IF HasPage(kind, 0)
              THEN [at |-> IF TotalOf(kind) <= ListSize THEN "ok" ELSE "more",
                    kind |-> kind, total |-> TotalOf(kind), page |-> FromSecond,
                    got |-> PageOf(kind, 0), before |-> ContactIDs(kind)]
              ELSE [NoListing EXCEPT !.at = "err", !.kind = kind]]
    /\ UNCHANGED <<contacts, contactCounter, globalContactID, posting>>

\* Faulty variant: a total that is no multiple loses its last page.
TooFewPages(c) == listing[c].total \div ListSize

Pages(c) == (listing[c].total \div ListSize) + 1

NextPage(c) ==
    LET l == listing[c] IN
    /\ l.at = "more" /\ l.page < Pages(c)
    /\ listing' = [listing EXCEPT ![c] =
           IF HasPage(l.kind, l.page)
           THEN [l EXCEPT !.page = @ + 1, !.got = @ \o PageOf(l.kind, l.page)]
           ELSE [l EXCEPT !.at = "err"]]
    /\ UNCHANGED <<contacts, contactCounter, globalContactID, posting>>

ListingDone(c) ==
    /\ listing[c].at = "more" /\ listing[c].page = Pages(c)
    /\ listing' = [listing EXCEPT ![c].at = "ok"]
    /\ UNCHANGED <<contacts, contactCounter, globalContactID, posting>>

ContactsNext ==
    \/ \E h \in Posters : GenerateContactID(h) \/ ConvertCard(h) \/ NumberEmail(h) \/ AddUserContact(h)
    \/ UpdateUserContact
    \/ \E c \in Listers : FirstPage(c) \/ NextPage(c) \/ ListingDone(c)

ContactsSpec == ContactsInit /\ [][ContactsNext]_contactVars

------------------------------------------------------------------------------
(* Properties. *)

ContactsTypeOK ==
    /\ contacts \subseteq [id : 1 .. contactCounter, emails : SUBSET (1 .. globalContactID), put : BOOLEAN]
    /\ contactCounter \in Nat /\ globalContactID \in Nat
    /\ \A c, d \in contacts : c.id = d.id \/ c.emails \cap d.emails # {} => c = d
    /\ \A h \in Posters :
          /\ posting[h].at \in {"id", "convert", "emails", "panicked"}
          /\ posting[h].left \in 0 .. CardsOf[h] /\ posting[h].more \in 0 .. MaxEmails
    /\ \A c \in Listers :
          /\ listing[c].at \in {"new", "more", "ok", "err"} /\ listing[c].kind \in Kinds
          /\ listing[c].got \in Seq(Nat)

\* The ID of a card and its contact are made under two locks; still no
\* request overwrites the contact of another, and a contact keeps the email
\* IDs it was posted with, however many, also when its cards are replaced.
NoContactLost ==
    [][\A c \in contacts : \E d \in contacts' : d.id = c.id /\ d.emails = c.emails /\ (c.put => d.put)]_contactVars

\* Contacts, or emails, that were added while the call was under way.
Added(c) == TotalOf(listing[c].kind) - Cardinality(listing[c].before)

\* A listing that succeeds has every contact, or email, there was when it began,
\* even though contacts are added meanwhile and move others to a later page,
\* unless more are added than the last page has room for.
ListingIsComplete ==
    \A c \in Listers :
        listing[c].at = "ok" /\ (listing[c].page > 1 => Added(c) <= Pages(c) * ListSize - listing[c].total)
        => listing[c].before \subseteq ToSet(listing[c].got)

\* A listing gives none twice unless one was added meanwhile.
ListingIsOnce ==
    \A c \in Listers : Added(c) = 0 => IsInjective(listing[c].got)

\* A listing fails when the account has no contact, and when their number is
\* a multiple of the page size above the page size itself, at the start and
\* at the end: then the client asks for one page more than there is, and the
\* server panics.  It fails for no other reason.
ListingFailsAtBoundary ==
    \A c \in Listers :
        listing[c].at = "err" =>
            \/ listing[c].page = 0 /\ listing[c].kind = "contacts"
            \/ listing[c].total > ListSize /\ listing[c].total % ListSize = 0

\* Contacts are kept, and a listing in pages has them all, each once, or fails
\* for the reason it fails for.
ContactsListed ==
    /\ [](ContactsTypeOK /\ ListingIsComplete /\ ListingIsOnce /\ ListingFailsAtBoundary)
    /\ NoContactLost
==============================================================================
