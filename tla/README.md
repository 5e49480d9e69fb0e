# go-proton-api in TLA+

go-proton-api is a client library for the Proton API (`client.go`, `manager*.go`
and the types around them) together with a development server (`server/`,
`server/backend/`) that the library's tests, and those of the applications that
use it, run against. This directory holds TLA+ modules for the parts of both in
which order matters, the TLC configurations that check them, and TLAPS proofs
about the client's session, its event stream, pool, futures and status, and the
server's labels, messages, attachments, sessions, keys and what a client sends.

`PROJECT.json` relates everything here to the source: which definition models
which lines, what each run checks, which change to a definition each property
would notice (the operators commented *Faulty variant*), the hazards of the code
and the properties that cover them.

    tlc -config ClientAuth_calls.cfg MCClientAuth     # and so on, see "Runs"
    tlapm ClientAuthProofs.tla                        # and the other modules named ...Proofs

## 1. The system

### Client side

| component | state | operations | interacts with | what is hard, and what makes it correct |
|---|---|---|---|---|
| **Client** (`client.go`, `manager_auth.go`) | `uid`, `acc`, `ref` under `authLock`; handlers and hooks under `hookLock`; `deauthOnce` | any API call (`do`, `doRes`, `exec`), `authRefresh`, `AddAuthHandler`, `AddDeauthHandler`, `AddPre/PostRequestHook`, `Close` | the HTTP client's retries, the server's session, the application's handlers | many goroutines meet a 401 at once; a refresh token may be spent once; answers are lost after the server has rotated; handlers run under both locks; two RWMutexes taken in both orders. Refreshes are alone, the application always knows the auth that resumes the session, no deauth without a deleted session, calls return |
| **Retries** (`response.go`, `manager_builder.go`) | retry count per request | `catchAPIError`, `updateTime`, the retry conditions, `catchRetryAfter` | every call | a retry of what was already done; a hook that fails after a success |
| **Event stream** (`event.go`, `ticker.go`) | the goroutine's place, the ticker's two goroutine channels, `lastEventID`, the batch | `NewEventStream`, `GetEvent`, `NewTicker`, `Stop` | the server's log, the reader, the context | paging with `More`, failures in the middle of a batch, cancellation at any select, resuming from the last event. The reader is told of everything, once, in order, or is reset |
| **Pool** (`pool.go`, `job.go`) | queue, workers, jobs with three channels, a mutex and an error list per call | `NewPool`, `Process`, `ProcessAll`, `ProcessOne`, `NewJob`, `Done` | the application's `work` and `fn` | rendezvous on unbuffered channels, cancellation by the first error, `Done` under load. No holes, the first error is a cause, results bounded, everything returns |
| **Future, Group** (`future.go`) | a result channel per future | `NewFuture`, `Then`, `Get`, `Group.Add`, `Result`, `ForEach` | goroutines | early return leaves goroutines behind |
| **Manager status** (`manager.go`) | `status`, observers, error handlers, their locks | `AddStatusObserver`, `AddErrorHandler`, `checkConnUp/Down`, `GetStatus` | every response of every goroutine | answers in any order; observers run under the lock. Every observer is told every change, once and in order |
| **Paged and chunked calls** (`message.go`, `paging.go`, `message_import.go`, `undo.go`, `event_drive.go`, `contact.go`) | none beyond the call | `GetMessageMetadata`, `GetAllMessageIDs`, `LabelMessages`, `ImportMessages`, `ChunkSized`, `GetVolumeEvent`, `GetAllContacts` | the server's data while it changes | pages shift, anchors vanish, half a batch is undone. What stayed is listed, calls end, what a failed call reports accounts for what it did |
| **NetCtl, Listener** (`netctl.go`) | limits, counters, locks; hanging and dropping connections | `SetCanDial/Read/Write`, `SetReadLimit`, `Disable`, `Read`, `Write` | the connections of a test | locks held over blocking I/O, locks dropped around counted I/O. What was switched off stays off, limits hold up to what concurrent connections add, setters return |
| **Login** (`manager_auth.go`, `auth.go`) | none beyond the exchange | `NewClientWithLogin`, `NewClientWithRefresh`, `Auth2FA`, `AuthDelete` | server sessions | the SRP session is spent by a failed proof, answers are lost. One session at most is made |
| **Keys** (`unlock.go`, `keyring.go`, `salt_types.go`) | none | `Unlock`, `SaltForKey` | users, salts and addresses read in three requests | keys come and go between the requests. All keys of an address, or a reason |
| **Messages and cards** (`message_encrypt.go`, `message_build.go`, `message_send_types.go`, `contact_card.go`, `contact_types.go`) | a card and copies of it | `EncryptRFC822`, `BuildRFC822`, `AddTextPackage`, `SetSettings`, `CardGroup` | the server takes apart what the client made | formats with many cases. Nothing leaves in the clear, every part and every recipient is served, changes of a card keep apart |
| single requests (settings, drive, calendar, reports ...) | none | one HTTP request each | `Client.do` | nothing beyond `Client` |

### Server side

| component | state | operations | interacts with | what is hard, and what makes it correct |
|---|---|---|---|---|
| **Router** (`server/router.go`, `rate_limit.go`, `call.go`) | status hooks, rate-limit window, watchers | `requireAuth`, `applyStatusHooks`, `applyRateLimit`, `logCalls` | every request | refusing before the handler has run |
| **Sessions** (`server/auth.go`, `backend/api_auth.go`, `withAccAuth`) | per account: auth UID, access and refresh token, creation; SRP sessions | login, verify (with expiry), refresh (rotation), delete one, delete all, revoke | the client's tokens | expiry and refresh cross; listing and deleting under different locks |
| **Update log** (`backend/updates.go`, `GetEvent`, `buildEvent`) | `updates`, `account.updateIDs` | every mailbox operation appends; `RefreshUser`; `GetEvent` merges a window | event streams | merging, windows, content read later than the update, items gone meanwhile |
| **Labels and messages** (`backend/label.go`, `message.go`, `api.go`) | labels with parents, messages with label IDs and flags | create, update, delete, label, unlabel, read, forward | the update log | dangling labels, cycles, half-done lists |
| **Drafts, sending, attachments, import** | messages, attachments, attachment data shared by reference | `CreateDraft`, `UpdateDraft`, `SendMessage`, `CreateAttachment`, `DeleteMessage`, import | labels, addresses, update log | reference counting over sender and recipients |
| **Users, addresses, keys** (`backend.go`, `account.go`, `quark.go`) | accounts, addresses with order and status, keys | create, remove, enable, disable, order | update log, `toUser` | an order without a first address; keys whose salt is lost |
| **Proxy and caches** (`proxy.go`, `cache.go`) | cached auth and auth info | proxied login and requests | an upstream server | look up, ask, fill; what is cached outlives what it is about |
| **Contacts** (`contacts.go`, `backend/contact.go`) | contacts, two counters | create in steps of their own locks, update, list | the client's pages | pages sorted by IDs that are compared as strings |
| settings, features, reports, gRPC control | maps and records | overwrites under one lock | | nothing a test does not reach |

### Hard behaviours

`PROJECT.json` lists them as *hazards*, each with its line and with the
properties that cover it.

## 2. Modules

    RWMutex        sync.RWMutex as a record and its operations: readers, a pending
                   writer, readers that wait behind it
    AuthSession    the server's session: what a request is answered, how a
                   refresh rotates the tokens, expiry, deletion
    AuthCustody    abstract: one owner of the tokens, one refresh at a time
    ClientAuth     the client and its goroutines; extends AuthSession,
                   instantiates RWMutex; implements AuthCustody
    ClientAuthInv  the inductive invariant of ClientAuth
    ClientAuthProofs   the theorems, and their proofs

    EventLog       the server's update log and GetEvent
    EventLogProofs what Merge keeps and drops, and the log's invariant
    EventFeed      abstract: every update told once and in order, or a reset
    EventStream    the stream, the ticker and the reader over an EventLog;
                   implements EventFeed
    EventStreamProofs   the theorems about the stream, its reader and the feed

    Pool           the worker pool
    PoolProofs     the theorems about its safety

    Future         futures, and groups that ask them in order
    Listener       hanging and dropping connections of the test listener, with RWMutex
    Paging         listing messages page by page while they come and go
    DriveEvents    paging of drive events
    Pipeline       offline, hooks, limiter, handler, watchers of a request, with RWMutex
    WaitsProofs    the theorems about Future, Listener, Pipeline and DriveEvents

    Utils          utils.Filter, which labels, messages and cards use
    Labels         labels and folders of an account: create, update, delete, and
                   the look-up of a name that goes before
    MailLabels     messages, where they are and which labels they carry; extends
                   Labels
    LabelSlices    the slice of a message's labels that answers share

    NetCtl         the network control: dial, read and write with their limits
    ManagerStatus  up and down, and who is told of it
    Sessions       logins, the sessions they make, deletion of one and of many;
                   extends AuthSession
    Addresses      addresses, their order, status and keys, and what is told of them
    Contacts       contacts and their listing in pages
    MailStore      messages, attachments and shared data, under requests made twice
    ImportMail     encrypting, taking apart and building a message
    SendPackages   the packages of a send request and the copies made of them
    Cards          contact cards, their groups and settings
    Unlock         keys, salts and tokens, and a client that unlocks
    AuthProxy      logins through the proxy's caches
    RateLimit      the limiter, and clients that wait as told
    ChunkedCalls   lists in chunks: mark, label with undo, import as a stream
    AccountProofs  the theorems about Labels, MailLabels, Addresses, Contacts, Cards
                   and Paging
    DataProofs     the theorems about Sessions, Unlock, SendPackages, MailStore,
                   ChunkedCalls and ImportMail
    NetworkProofs  the theorems about ManagerStatus, AuthProxy, NetCtl and RateLimit

    MCClientAuth, MCEventStream, MCLabels, MCMailLabels, MCLabelSlices
                   the sets that TLC's instances use
    MCWaits        Pool, Future, Listener, Paging, Pipeline and DriveEvents in one model
    MCData         Labels and the modules from NetCtl to ChunkedCalls in one model

`MCWaits` and `MCData` are unions: their components have no variable in common and do
not act on one another, and `part` says from the start which of them moves. The states
are the sum of the components', not their product, and one run asks each its
questions. The properties of a component are named parts of one conjunction
at the end of its module (`NetObeys`, `StoreIntact`, ...); the parts carry the
comments, the conjunction is what the run checks. In `MCWaits`, `PoolAnswers`,
`GroupsAnswer` and `PagesAnswer` add what is asked only of a component that moves.
Where components do interact they are composed: `ClientAuth` and `Sessions` with
`AuthSession`, `EventStream` with `EventLog`, `MailLabels` with `Labels`, and the client
with the server's side of the same data inside `MailStore`, `Contacts`, `Paging`,
`SendPackages`, `ImportMail`, `Unlock`, `RateLimit` and `ChunkedCalls`.

### ClientAuth

A variable stands for each field of `Client`; `pc[t]` says where goroutine `t`
is in `doRes` or `authRefresh` (or in `Add...Handler`, or `Close`), `net[t]` is
the HTTP exchange it is in. The steps follow the places where another goroutine
can come in between: each lock operation that can wait, each request, each step of
the server and each answer. What a goroutine does between two such places is one
step (`RefreshOk` stores the tokens, calls the handlers and releases both locks,
because both are held throughout).

* An `RWMutex` is announced and then owned: a writer that waits for readers stops
  new readers, as Go's does, which is what makes nested read locks dangerous.
* Tokens are numbers in the order the server made them; the server makes the
  access and the refresh token of an auth together, so one number names both.
* An exchange ends in one of the outcomes of `Answers`. `Garble` is a 200 after
  which `updateTime` fails; `Lose` loses the request, or the answer, or ends the
  caller's context; `Delay` is a refresh the client has given up on which
  still reaches the server (`ServeLimbo`).
* `Retry` is resty's retry, with `Retryable` the conditions of `response.go`:
  a 429 or 503, a lost connection, and for a refresh also 400 and 422.
* `Expire` is `authLife`: the access token is dropped, the refresh token stays.

Handlers and hooks are the application's: they are assumed to return and not to
use the same client (under both locks they could not). Requests other than
a refresh have no effect on the session. There is one session.

### EventLog and EventStream

`updates` is the backend's table, `updateIDs` the account's log, `store` the
content of the items. Messages, labels and addresses log and merge in the same
way, so `Items` stands for any of them; a version number stands for an item's
content. `AddressItems` are the addresses, `primaries` those with order 1. An operation holds
the backend's lock and is one step (an address whose order becomes 1, or is so no longer, is one
`SetAddressOrder`; an ordering is several of them);
`SetMaxUpdatesPerEvent` may come at any time, also between two pages. `AddUpdate` logs
an update of an item that need not be there, as the server's `Add...CreatedUpdate` do.
`Merge` is the recursive `merge` as a fold from the right; `Window`, `More`,
`Panics` and `Event` are `GetEvent` and `buildEvent`: it panics on an update of an item that is not
there, and whenever there is no primary address, since it builds the user with every event.

`EventStream` has the stream's goroutine (`tick`, `fetch`, `send`, `stopping`,
`closed`), the ticker's (`sleep`, `offer`, `done`), and a reader that keeps a
view of the items: it applies the items of each event, and fetches everything
anew on a refresh. One page is one step, since the server answers it under its
lock; between pages, and between sending two events, anything may happen.
`Restart` is a new client that resumes from the last event the reader was sent.

### Pool

Each worker, each goroutine of a `Process` call, each `NewJob` caller and `Done`
have their own steps. Posting a result and taking it are one step (the channels
are unbuffered). gluon's `QueuedChannel` is external: an unbounded queue in
order, drained after `Close`. `work` may fail, or return because its context is
done; `fn` passes errors on and may fail by itself. A panic in either, and use of
a pool from inside its own work, are not modelled.

### Labels, MailLabels and LabelSlices

A call of the backend holds its lock throughout and is one step. A request is
several where its handler makes several calls: `CheckPost` and `PostLabel`
(look the name up, then create), `CheckPut` and `PutLabel`, and the steps of
`importMessage`, one per call of the backend.

`labels` is `Backend.labels` and `labelIDs` the account's list. A deleted label
keeps its type in `labels` (with `st = "deleted"`), so that properties can speak of a
folder that is gone. `UpdateLabel` does not look for circles: when it makes
one, `toLabel` walks it for ever with the lock in hand, which is `hung`, after which
no call of the backend returns and the model stops too.

Of a message, `MailLabels` keeps its user labels and `sysLabel`, of a system label
whether it stands for the flags (`"inbox"` for inbox, sent, drafts, scheduled) or for a
place of its own (`"trash"`, `"archive"`). Flags, content, parents and attachments are
left out: of an operation that changes them (`SetMessagesRead`, `UpdateDraft`, the parent
of a message that is sent) it matters that it logs. `Without` removes the flag
label whatever its name, as `remFlagLabel` does. A dereference of something that is
not there is a panic, which gin turns into a 500 after the lock is released: `Before`
is the part of a list that was done by then (`Stray` is an ID that stops it); only
`UnlabelMessages` with a label that is gone passes by a missing message, and logs an update
for it (`RemovePanics`). `unlogged` are the messages
that have changed since their last update in the log. Sent copies stay in
the account; a copy to another account changes nothing here. Errors of
`SendMessage` that come from undecodable packages are not modelled.

`LabelSlices` goes below that: `message.labelIDs` is a slice of an array in `heap`,
and `append` writes in place if there is room. `toMetadata` appends to it under the
read lock, and the handler encodes the answer without one. `utils.Filter` works on a
clone, which has exactly the old length as its capacity, so that removing a label is
what leaves room.

### Futures, listener, pages, pipeline, drive events

`Future`: each goroutine of `NewFuture` runs, sends and is gone, or panics and has no
result ever; receiving is one step with sending. `mode` tells `Result` from `ForEach`, whose function
may fail.

`Listener`: `gate[side]` is the RWMutex of the reading or writing side. `hangConn` gives
the lock back while it waits for the listener's end and takes it again (`"relock"`);
`dropConn` moves half of the buffer and closes. A setter announces itself and waits for
the I/O of its side.

`Paging`: messages are numbers in the order of their creation. `AskIDs` and
`IDsAnswered` are the rounds of `GetAllMessageIDs` with the server's window after an ID (its
start when the ID is gone); `GetMessageMetadata` counts, and then gets all its pages in parallel,
each at its own moment. Which messages pass its filter (`matching`) changes with their labels and subjects
(`Refile`). A listing begins with a message the caller knows, or with the first or the newest; one that
begins with the newest is shifted by every message that arrives, all are by one that is deleted or refiled (`shifted`).

`Pipeline`: `arrival[r].at` is the place of a request between `logCalls`, the offline
check, the version, the hooks, the limiter, the handler and the watchers. `locks` are
`statusHooksLock` and `callWatchersLock`, held for reading while the callbacks run. A callback may
register another one (`nested` records under which lock it asked for which).

`DriveEvents`: `AskFrom` is the ID that is sent with every page, the first one's.

### The modules of MCData

`NetCtl`: `call.todo` is what is left of a setter's calls (`Disable` is three of
them); each takes `dlock`, closes every connection and assigns. A `Read` or `Write` is three steps:
check, I/O without the lock, count.

`ManagerStatus`: `OnConn` is `onConnUp` and `onConnDown`, `Notify` a turn of the loop over
observers while `holder` has `statusLock`. What a request ends with is one of `Endings`;
`Verdict` is what `checkConnUp` and `checkConnDown` make of it.

`Sessions`: `login` goes through `POST /auth/v4/info` and `POST /auth/v4`, each made again if its
answer is lost; `purge` lists and deletes under different locks; refresh and expiry are those of
`AuthSession`.

`Addresses`: `addresses[a]` holds order, status and number of keys; `SetAddressOrder` does what its
loop does until it fails or panics, with lists in which an address is missing, unknown or there twice;
`told` is what a client knows that applies every update. `disturbed` remembers that an address was
deleted, or that an ordering stopped, left one out or named one twice.

`Contacts`: posting a card takes an ID, one more for each of its emails (none, one or several) and the
contact, each under its own lock or none. A listing, of contacts or of emails, asks
for `total / pageSize + 1` pages sorted by their IDs as strings.

`MailStore`: `doing[t]` is a request or its second try. An import and a deletion
take the lock for each message or attachment; an attachment's `data` is the one it was made for,
which the copies `SendMessage` makes share. `st` says how an attachment got off its message's list.

`ImportMail`: a message is a tree of texts and files, with multiparts in a multipart but no deeper
(that is a bound: what the code does with a part does not depend on its depth but for the top); a leaf has a
place, the numbers of its part and of itself in it, and what the code collects in lists are
sets of places, which have an order. `Encrypt` is `EncryptRFC822` with its two ways, `ImportLiteral` is `importMessage` with `importBody` and `importAttachment`, `Build` is `BuildRFC822`.

`SendPackages`: a package collects the recipients `AddTextPackage` and `AddMIMEPackage` give it, with
the key packets each gets, over attachment keys in any order; `Send` makes the copies.

`Cards`: a card is the list of its fields and its type; every operation decodes, changes and
encodes. `copy` is the card a `CardGroup` points to.

`Unlock`: user keys with the salt that was kept or not, address keys with the user key their
token is for; `reader` is a client between its three requests.

`AuthProxy`: `infoCache` and `authCache` of one user name; a request looks up, asks and stores
in three steps. `upSRP` and `upSession` are the upstream server.

`RateLimit`: a clock of half seconds, `limiter` with count and end of the window, senders
that wait the told seconds and a jitter, but no longer than `MaxWait`.

`ChunkedCalls`: `bulk` is a call that sends one chunk after the other, with the undo of
`LabelMessages`; `importing` is `ImportMessages` with `ChunkSized` and the parallel stream, a library
that runs `Ahead` chunks before its reader.

## 3. Runs

Every bound is a constant of the module and is named there.

| run | configuration | what it shows |
|---|---|---|
| `auth_calls` | 2 callers, an adder, a closer, 1 retry, 1 broken exchange, 1 refusal, 2 expiries | `TypeOK`; `IInv`, the invariant the proofs use; `RefreshIsAlone`, `CarriesCurrentTokens`: no request crosses a rotation; `HandlersCurrent`, `Resumable`: what the auth handler was given resumes the session; `NoSpuriousDeauth`; `CallsFailForAReason`; `ClosedStaysClosed`; and the refinement `CustodySpec` |
| `auth_returns` | 2 callers, 1 retry, 1 broken exchange, 1 refusal, 1 expiry, fair | `CallsReturn`, `DeauthDelivered` |
| `auth_close_stuck` | a caller and a closer, fair | **violated** `CloseReturns` |
| `auth_add_stuck` | a caller and an adder, fair | **violated** `DeauthDelivered` |
| `events_paged` | 1 message, 2 addresses, 4 updates, the whole log in one event or, from any moment on, one update per event, pages of 2, 1 failure | `TypeOK`, `Converged`: a reader at the end of the log sees what is there; `PanicsHaveACause`; the refinement `FeedSpec` |
| `events_delivers` | the same with one address, two updates per event, 4 updates, fair | `Delivered`, `CancelEnds` |
| `events_after_close` | 1 message, 1 address, 3 updates | **violated** `NothingAfterClose` |
| `waits_return` | **pool** 2 workers, a call with 2 requests, a `NewJob` caller; **future** a group of 3, 2 takers of one future; **listener** 2 connections, a setter with 2 calls, hanging or dropping; **paging** 4 messages in pages of 2, ascending or descending, whole or from a message on, through a filter; **pipeline** 2 requests, 2 callbacks of each kind, a registration; **drive** 5 events in pages of 2; all fair | `PoolAnswers`: no holes, the first error is a cause, results bounded, no work after a cancel, `Process` and `Done` return unless a `NewJob` caller leaves its result; `GroupsAnswer`: results in order and once, the group returns; `ListenerObeys`: off is off, setters return; `PagesAnswer`: what stayed is listed, once and in order if the listing was not shifted, and the calls return; `PipelineAnswers`: hooks that were there have let a request pass, watchers that were there have seen it, everyone is answered unless callbacks tangle the locks |
| `data_steps` | **labels** 3 labels, 3 names, one handler; **net** 2 connections, 2 reads or writes, 2 setters, buffers of 2, limits of 1; **status** 3 requests, 2 observers; **sessions** 1 user, 2 logins, 3 sessions, a purge; **addresses** 3 addresses, one orderer, lists of up to 3; **contacts** requests of 2 cards and of 1, up to 2 emails in each, IDs from 8 on, pages of 2; **store** 2 accounts, 3 requests, 2 messages, 2 attachments of one name, one lost answer; **import** 2 file names, 2 parts in each of two levels; **cards** 2 emails, groups and values, 4 fields, 2 changes through a copy; **send** 2 recipients, one with an account, 2 packages; **unlock** 2 addresses, 2 user keys, 3 address keys; **proxy** 2 clients, one that verifies and one with a wrong password, 2 errors, 2 renewals; **rate** 3 senders, a limit of 1, a window and a longest wait of 3 half seconds; **chunks** 5 messages in chunks of 2, sizes 1, 2 and 4 of at most 3 | one conjunction per component: `LabelsIntact`, `NetObeys`, `StatusIsTold`, `SessionsExact`, `AddressesOrdered`, `ContactsListed`, `StoreIntact`, `ImportIntact`, `CardsIntact`, `PackagesFit`, `KeysUsable`, `ProxyExact`, `LimitKept`, `ChunksAccounted`; their parts are told below the module's "Properties" line |
| `labels_twice` | 3 labels, 3 names, labels and folders, 2 handlers | **violated** `NamesUnique` |
| `mail_labels` | 1 message and an ID that no message has, 2 labels, an import with 2 labels, deduplication allowed | `TypeOK`; `OnePlace`: one folder or system label at most; `Announced`: nothing but the exceptions it names is missing in the log |
| `label_answers` | 3 labels, a reader | **violated** `AnswersAreTrue` |

Why the bounds are enough. Two callers are what a race for the refresh needs
(one in each place of the other), and the proofs below cover any number. With two
expiries one refresh follows another, one of them waiting; a broken
exchange and a refusal reach every combination of a first attempt, a retry and
the call after it. A message and two addresses, one of them there from the start, with four updates
allow three operations of one item (create, update and delete, or a stray update and
what follows it), with a refresh or another item's update in between, also
that the second address becomes primary and the first is deleted, and
windows that end before each of them; pages of two make a batch of two events
with more to come. Three jobs over two workers leave one queued while two are
worked on, or one worker for two while the other has a result nobody takes. Three labels are a
folder in a folder in a folder, and a move of the top below the bottom; two labels are
two folders to be in, or a folder and a label. Messages do not look at each other, so
one is enough for where it is, and a request names it or an ID that no message has (with one
message a list of both does what its first ID does). Three labels fill an array of four to the point where one more
label and the system labels compete for the room. IDs of labels and messages are
used once, so each bound is also one on the number of creates. One label handler is enough for
`LabelsIntact`, which speaks of parents; names need the two of `labels_twice`.

In `waits_return`, three futures put one before and one after the one that fails; four
messages in pages of two fill the last page or not, with one more asked for;
five events are three pages, the last not full, which is what
the drive's loop needs to fail; two requests and a registration are a writer that waits
between two readers. In `data_steps`, two connections are the pair that checks one count
before either has added to it; three calls are a change of the status and back with one on its
way; three sessions are one kept, one listed and one made after the list; three
addresses leave two whose order a deletion has disturbed; three cards with IDs 8 to 10, and up to six emails, cross the
place where the order of strings and of numbers part, and pages of two are full and not
full; two messages and two attachments are a draft and its copy, or two of one name
(`StoreIntact` is proved for any); a
limit of one and three senders refuse two in a window; chunks of two with a size
that fills one, one that halves it and one that exceeds it cut in every way. Window, limit,
jitter, longest wait and chunk sizes are the code's, scaled down; a window as long as the longest wait
is the shortest one that the cut can harm.

Labels and names are symmetric in `labels_twice` and `mail_labels`: they are
only compared, and those runs check invariants.

Deadlock is checked in `auth_returns`, `events_paged` and `events_delivers`.
`auth_calls` has it off because the code can deadlock there (the findings),
`waits_return` and `data_steps` because a component whose calls are all made stops (that
nobody waits for ever is what their liveness properties say), `mail_labels` because a
backend that hangs in `toLabel` stops, and the runs that expect a violation need no
such check.

Fairness. A goroutine that can take a step does so: Go's scheduler is preemptive.
Acquiring a lock is strongly fair where a goroutine waits in `Lock`, since
`sync.Mutex` hands itself to a waiter that starves; `select` chooses at random,
so a stream that is offered ticks for ever will also see its context (`SF` for
`TickDone`). The server answers what reaches it. Nothing obliges the application
to call, register, cancel or close, nor the network to fail. The reader reads
while its context is not done. In `waits_return` each component is fair as in its own
module: functions of futures return or panic, connections get on with what they do
(a hanging one waits for `Close` of the listener, which nothing obliges), the server
answers each page, requests move through the pipeline. Messages need not stop coming:
`GetAllMessageIDs` returns because they are bounded.

## 4. What was found

* **Close and a call block each other** (`auth_close_stuck`). `doRes` takes
  `hookLock` for reading and then `authLock`; `Close` takes `authLock` and then
  `hookLock` (client.go:93-106, 115-125). The test (event_test.go:52) calls
  `Close` while a stream polls.
* **Registering a handler blocks a refresh** (`auth_add_stuck`).
  `authRefresh` (client.go:178) takes `hookLock` for reading once more; a writer
  that arrives between the two read locks blocks both, so the deauth handler that
  auth_test.go:187 waits for is never called.
* **The stream outlives Close** (`events_after_close`), against
  event_test.go:52 and 62.
* **Two labels of one name** (`labels_twice`). The handlers look a name up and use it
  under different locks (labels.go:44-52, 73-81), against server_test.go:1779.
* **An answer changes while it is encoded** (`label_answers`). `toMetadata` appends to the
  message's own slice (message.go:192) under a read lock, so an answer can share
  its array with the next label, against backend.go:29-30. With two readers it is a data race.

Things the models show that no document contradicts: a refresh whose answer
is lost, or answered 200 without a date, spends the refresh token, and the retries
of a lost refresh then end in 422 and the deauth handler (this is why `Resumable`
and `NoSpuriousDeauth` ask that no exchange was broken); and a `RefreshMail` in the
same window hides a `RefreshAll` from the reader (`RefreshAllMasked`, which
`Converged` excludes for the items that are not messages). `DeleteLabel` leaves the label's
ID in its messages, and from then on every move of such a message panics
(`AddPanics`, `Stranded`); `UpdateLabel` accepts a descendant as the parent and hangs
the backend; the labels of an import are never logged, although its message is.

Others, told by the conditions in the properties of the newer modules:

* Of two attachments of one name in a message one is orphaned, and with it its data
  (`OrphansHaveACause`); unnamed files of an import all have the name `attachment.bin`, so the
  last one alone is kept (`PartsKept`). `CreateAttachment` on a message that is gone stores the data and then
  panics.
* An import without a text part panics, one with an inline file without a content ID fails
  when its message has been made (`ImportFailsForAReason`). A text that is not directly below the top makes
  the message mixed for the server, and `BuildRFC822` then drops its attachments (`BuildWritesAll`).
* A send that stops at a bad key packet leaves copies for those before it.
* The salt of a second user key is kept nowhere (`CreateUserKey`), so that removing the
  first locks the account out (`LockedOutForAReason`); user keys are not announced at all.
* A deleted primary address is never replaced (`NoPrimaryForGood`): `GetUser` panics until the
  account has no address. So does `GetEvent`, which builds the user with every event, so that the
  account's event streams hear nothing any more (`PanicsHaveACause`, `Delivered`). An ordering that
  names an address twice can have the same end.
* `AddLabelCreatedUpdate` and its like, and `UnlabelMessages` with a label that is gone, log an update of
  an item that is not there, at which every `GetEvent` of the window fails (`Stray` of `EventLog`).
* The pages of a filtered listing miss a message that passes the filter all the time if an earlier one leaves the
  filter in between (`MetadataComplete` names it).
* Listing contacts fails when their number is a multiple of the page size
  (`ListingFailsAtBoundary`).
* One wrong password, or one error with a body, can lock a user out of the proxy
  (`LockedOutForGood`).
* `GetVolumeEvent` and `GetShareEvent` repeat the second page for ever when there is a third,
  and give back the first page's ID, so that the second is got again by the next poll.
* `MarkMessagesRead` ignores refused messages; `LabelMessages` undoes the chunks before a
  refused one, not that one's own part, and nothing when a request fails. `ChunkSized`
  does not end for an element above the maximum; its one caller checks that first.
* A refused client that waits as told can be refused by the same window if its jitter is 0
  (`RefusedOnce`), since seconds are rounded down, or if its wait is cut to a minute and the window is no shorter.

One thing is stated as a condition instead of a run of its own: pool.go:160 says that
the `DoneFunc` "frees up the worker", but a worker whose result nobody has taken
stays in `postSuccess` whether the job is done or not. `ResultsLeft` names those jobs, and
`ProcessReturns` and `DoneReturns`, parts of `PoolAnswers`, ask how many there are.

## 5. Proofs

`ClientAuthProofs` proves, for any finite or infinite sets of callers, adders and
closers and any bounds:

| theorem | states |
|---|---|
| `Typing` | `TypeOK` |
| `Invariance` | `IInv` |
| `RefreshAlone`, `CurrentTokens`, `HandlersAreCurrent`, `SessionIsResumable`, `NoRaceDeauths` | the invariants `RefreshIsAlone`, `CarriesCurrentTokens`, `HandlersCurrent`, `Resumable`, `NoSpuriousDeauth` |
| `FailuresHaveAReason` | the invariant `CallsFailForAReason` |
| `CloseIsFinal` | the action property `ClosedStaysClosed` |
| `ClientImplementsCustody` | the refinement `CustodySpec` |

The assumptions are those of the modules (`ThreadAssumption`: the kinds of
goroutine are different ones and `NoWriter`, `App` are none of them;
`BoundAssumption`: the bounds are natural numbers).

None of the invariants is inductive by itself. That a refresh is alone follows
from `authLock`, so `AuthLockOK` says which program counters hold or await it; that
requests carry current tokens follows because only the lock's owner writes them;
that the client's refresh token is the server's needs to know where a new auth can
be (`SessionOK`: in one caller's answer, or given up on in `limbo`), that what
is in `limbo` is older, and what each handler was told (`HandlersOK`). `IInv` is their
conjunction; `auth_calls` checks it with TLC. Preservation is one lemma per
group of actions, one step per conjunct the action touches; the theorems follow
from `IInv`. The refinement maps `RefreshSend`'s answer (`ServeRefresh`) to
`Rotate`, `ServeLimbo` to `RotateUnseen`, `RefreshOk` to `Deliver`, an answer
that is lost or garbled to `Drop`, `CloseTokens` to `Close`, and everything else
to a stutter.

`CallsFailForAReason` needs an invariant of its own, `FailInv`, on top of `IInv`. What it
accepts as a reason (`Excused`) is never taken back; as long as there is none, the
client's two tokens are of one auth, the server's too unless the session is expired,
a goroutine is on the way to a refresh only after an expiry, and one that is at its second
try has a session that was renewed and is not answered 401 (`RefreshesOK`). That another
goroutine refreshed first is thus no way to fail.

`EventStreamProofs` proves, for any items, any window sizes, any number of updates, pages
and failures:

| theorem | states |
|---|---|
| `StreamTypeCorrect`, `PanicsAreCaused`, `ReaderConverges` | the invariants `TypeOK`, `PanicsHaveACause`, `Converged` |
| `StreamImplementsFeed` | the refinement `FeedSpec` |

`Converged` speaks of a reader with the last event; `StreamInv` says what is true before. Of
the log (`LogInv`, in `EventLogProofs`): the account's list is the end of the updates from the last `RefreshAll`
on, and an item is gone exactly when its deletion is there, once. Of the batch: every event
goes on where the one before it ended or starts at a `RefreshAll` (`Chained`), and what it says of an item
is true until a later update of the item, even if that came before the event was sent (`Truthful`). Of the reader: what it
sees of an item is right until an update it has not been told of (`ReaderInv`). The heart is
`MergeKeeps`, about every sequence of updates: what `Merge` returns was given to it, and what
it dropped is replaced by something of the same item it kept; and `DeletionWins`. From them `PanicNeedsACause` follows: an
update that makes `GetEvent` panic, although its item was there when it was logged, has a deletion after it
(an item is gone only when that is in the log), which would have replaced it in the window. In the refinement
an operation is `Make`, an event that is sent is `Tell`, and everything else a stutter.

`PoolProofs` proves, for any calls, requests, `NewJob` callers and any finite set of
workers, the parts of `PoolAnswers` that are not liveness: `PoolTypeCorrect` (`TypeOK`), `ProcessLeavesNoHoles` (`NoHoles`),
`ProcessReturnsTheCause` (`FirstErrorIsTheCause`), `ResultsAreBounded` (`ResultsBounded`) and the
action property `NothingStartsAfterCancel` (`NoWorkAfterCancel`). `PoolInv` adds which outcomes a worker and a
goroutine can have where they are; that a goroutine with an error has it in the list or is on its way there;
that what was stopped has a context that is done; that a call that is cancelled with no error in its list
has the canceller in its lock, which is why nobody's `"stopped"` is first unless
the caller's own context is done; and that the holder of a result has a worker that waits for it, a different one for
each, from which `ResultsBounded` follows by an injection.

`AccountProofs` is about what an account has. It proves `LabelsAreIntact` (`LabelsIntact`), `MailTypeCorrect` (`TypeOK`), `MailIsInOnePlace`
(`OnePlace`) and `MailIsAnnounced` (`Announced`), for any finite set of label IDs, any names and handlers, and any messages and
imports. That the path of every label ends is not inductive as it stands: `Rooted` says
that every parent is the root or is there, and that every path ends, unless a call hangs.
What is above a label is a recursive function of the number of steps; the lemmas say that
walking n and then k steps is walking n + k, that a path that ends does so in less steps than there are labels (by
counting), and that a path is as it was when the changed label is not on it. `DeleteLabel` takes all labels whose path
comes by the deleted one, so no parent is left dangling. `MailInv` adds that a message is in one folder
at most also among folders that are gone (`Placed`), which is what `OnePlace` needs when
labels are deleted under a message, and how far an import is (`ImportsFit`).

Four more theorems of it are conjunctions of their own.

* `AddressesStayOrdered` (`AddressesOrdered`), any finite set of addresses, any orderers, any lists up to the bound. The
  properties are inductive once every address there is has a number (`Numbered`).
  `AppliedIs` says that what is applied of a list is a beginning of it, of addresses that are there, `PositionIs`, that
  an address gets the number of its last place, at which an update is logged unless it had that number
  and is there once (`OrderKeeps`); `ListNumbers`, that a list of different addresses numbers as many as it is
  long, by a bijection.
* `ContactsAreListed` (`ContactsListed`), any requests and cards, any page size, any listings. `ContactsInv` says that the IDs of
  a card on its way are nobody else's (`ComesFresh`), though its ID and those of its emails are taken under no common
  lock, and that what was there when a listing began is in the listing or at a place that is still to be
  asked for (`HasItsPages`): a contact that is added moves others to later places only (`ContactsGrow`). If none
  was added, no ID is in the listing twice (`HasThemOnce`). `PlacesAre` says that each ID has a place and each place an ID, by
  counting; it needs of the order only that it tells IDs apart (`StringsDiffer`), so the theorem does not depend on
  `StringPlace` being the order of strings up to 99 only.
* `CardsStayIntact` (`CardsIntact`), any emails, groups, values and types. `GoodCard` says of the card and of the copy
  what `AlwaysDecodes` and the type need: the version field is there, and the data is signed and encrypted as the
  type says. That a change stays in its group is what `Filter` makes of a list with one
  element changed, added or dropped (`FilterChanged`, `FilterSteps`, `FilterTwice`); that a setting reads back is that `GroupSet` puts the value in the first
  field of the group, which is the one `GetSetting` reads.
* `PagesAreComplete` (the safety of `PagesAnswer`: `IDsComplete`, `IDsOnce`, `MetadataComplete`), any callers, page size,
  orders and any filter, whose verdict on a message may change. `IDGood`: what stayed and is not in a call's hands follows the ID it asks after, or that ID is gone
  and everything is asked for again; unless one was deleted, what it has does not. `MetaGood`: as long as the listing is not shifted there is a
  beginning of the listing that has all that stayed and room in the pages that were asked for, and
  each page that is answered is that of the listing at its time, of which that beginning
  is one too (`Enlisted`). A message that arrives comes last in a listing, or not at all (`PickedGrows`), unless the
  listing begins with the newest; that is why such a message shifts no other listing; one that is deleted or refiled while a call is under way may
  shift each (`MetaDrops`), and is none of those that stayed.

`DataProofs` proves six conjunctions, each from an invariant of its own.

* `SessionsAreExact` (`SessionsExact`), any finite set of session IDs. `ProofGoodOnce`: a login has made no session as long
  as its SRP session is not used up, which is why a retry of a login whose answer was lost makes no
  second one. `PurgeOnItsWay`: what a purge has listed is dead, kept or still to do; a refresh brings
  no session back.
* `KeysStayUsable` (`KeysUsable`), any addresses and bounds. `FirstHasSalt`: the key the account was
  made with has the account's salt and no other has, in the server's list and in the list a
  client has read before (`ReadIsTrue`), so that a token read later can be opened with a key read earlier.
* `PackagesAlwaysFit` (`PackagesFit`), any recipients and attachments. `FitsAll` says of the package
  that is being built what the property says of finished ones, `InTime` that
  none is begun before the attachments' keys are read.
* `StoreStaysIntact` (`StoreIntact`), any accounts, requests and bounds. `BoxesApart`: a live
  message is in one mailbox at most. `AttachmentsOfOne` and `OrphansHaveACause` relate messages to attachments, `DataIsShared` these to their data;
  a deletion takes the data of an attachment only if no other attachment uses it. `GoesOn` says for each of the two requests of a call what its loop has done so far: an import
  has attached the names before its step or its message is gone, a deletion has
  deleted the messages before its step. `Evolves` is what any change of the messages may do to
  the calls under way: messages do not come back, and a live one loses no name it has (an attachment
  of the same name replaces one). With it, each operation is shown once to keep the messages right,
  and once to keep the calls right, the latter for all operations at a time.
* `ChunksAreAccountedFor` (`ChunksAccounted`), any lists, sizes, limits and bound of the stream. `BulkAccounted`:
  while a call is sending, what it touched is in chunks whose tokens it keeps and, but for the
  calls that do not look at the answers, is all that was sent; while it undoes, the rest is covered by the
  tokens it still has, but for the chunk it stopped in. `ImportAccounted`: the server has what the reader has had and
  nothing of a chunk that was not sent, results end where a chunk ends, and the
  stream is no more chunks ahead than its bound; that what is unreported is no more messages than that
  follows by counting. The lemmas say that `ChunkSized` cuts any list up without a
  gap, an empty chunk or one too long or too large (`ChunkSizedCuts`, one step of its loop being `CutGrows`), that a
  list that is cut up is itself when it is put together (`ChunksAreAll`), and that taking the responses by name gives
  them back in the order of the chunk, whichever order the map had (`ByNameIs`, by counting).
* `ImportsStayIntact` (`ImportIntact`), any names and any number of parts. `ImportMade` says what is posted and
  stored as a function of the message; the properties are then facts about messages. A message encrypted
  as a whole is one body (`FullIs`). One encrypted part by part keeps places, types and keys of its leaves
  (`EncryptedTree`, `SplitUp`); what `sortAttachment` drops has the key of a later file
  that stays, since of the files with one key one is the last (`LastIsKept`, `LastPlace`); and a message with
  its text directly below the top is stored as a text, because every other part then has a file of
  its own, by counting (`SplitUpType`).

`WaitsProofs` proves the safety of four components whose callers wait. Four lemmas say
what `RLock`, `RUnlock`, `Announce` and `Unlock` do to the holds of a mutex, which the second and the third need.

* `GroupsAreSafe` (`GroupsSafe`), a group of any size and any set of
  takers. The property says nothing of what has been taken, so
  `FutureInv` adds that the group has taken the futures before `next` (`Collected`), that
  a goroutine sends only what its function returned (`SendsValue`), and that the lone future
  is gone once one taker has it (`OneTaker`); each action keeps the three.
* `ListenerIsSafe` (`OffStaysOff` with the locks' types), any finite sets of connections and setters. `Holding`: who is in a
  `Read` or a `Write` has asked for the lock of its side once, and moves bytes only when it
  has it. `SetterHas`: the announced writer is the setter that is called for the side. A
  setter that owns the lock therefore finds nobody moving, and who comes later reads what it has set.
  `Hanging` says who may move all the same: a hanging connection whose listener was closed.
  `IOMoves` is what all steps of a `Read` or a `Write` have in common.
* `PipelineIsSafe` (`HooksApply`, `WatchersSee`), any finite sets of requests and registrations.
  `Seen`: no list of callbacks is shorter than it was when a request came, the handler runs only
  when all hooks of that time have run, and a request that ends without a panic has gone beyond the watchers of that
  time. `Held`: a hold of a list's lock is that of one request going through the list, taken once.
  `Room`: the callbacks that are registered and those still to come are no more than the bound
  and everybody, by counting the set `Coming` of a list, which only loses the one that registers.
* `DriveEventsAreKept` (`DriveTypeOK`, `NoDriveEventLost`), any number of events and any page size. `Gathered`: a call is made
  with the ID the caller has, and what it has collected goes from there without a gap to the ID it will return, which is the
  first page's; so what a later page repeats or adds does no harm.

`NetworkProofs` proves four conjunctions of parts that have to do with the network.

* `ObserversAreTold` (`StatusIsTold`), any requests and observers. `ObserversAgree` speaks only of the times when
  the lock is free; `Behind` says who has an older status while it is held (exactly those the loop has
  still to call), `LoopOnce` that each of these is called once, `AddedOnes` that nobody else
  is. Two lemmas say what `Append` and `Tail` do to a list without repetitions.
* `ProxyIsExact` (`ProxyExact`), any clients and bounds. `ProxyData`: what is cached, on the way to a cache
  or held by a client is of a session that was made, and as no logout gets through, all of them live.
  `SessionsPaid`: each session used up an SRP session of its own. The two action properties need no more:
  they say of the step what cannot be cached, stored or asked any more.
* `NetCtlIsObeyed` (`NetObeys`), any finite set of connections, any limits. `DlockHeld`: the lock is held by one dial, or by a
  setter that has closed every connection; `DialAllowed`: nothing has changed since a dial passed its check;
  `Disabling`: how far a `Disable` is. `OvershootBounded` is not inductive, since it does not say what is still to be
  counted. `LimitsFit` does, by `FitsIn`: among those with a transfer under way one has room for it within
  the limit, and each of the others may add a buffer. Four lemmas say that this stays so
  when one checks, moves a part of its bytes, counts them or changes the limit.
* `RateLimitHolds` (`LimitKept`), any senders, limit, window and jitters. `Windows`: there is a set of
  times at which the windows began, apart by more than a window, all that was let through lies in one of
  them and none holds more than the limit. A stretch as long as a window meets two of them at
  most. `WaitsItsTurn`: one that was refused comes when the window is over, or has no jitter, or
  a cut wait in a window that is no shorter than the longest.

The assumptions on constants are named in the modules: sets that are counted are finite (`Workers`,
`LabelIDs`, `UIDs`), bounds are natural numbers, a filler is none of the values it stands beside
(`Root` is no label's and no message's ID, `Missing` no user, login or session), IDs of labels differ from
those of the system labels, an account has a user key, a refused request is sent once at least,
an address can have one key at least, one
callback at least can be registered and none who registers is a request. TLC evaluates them in the runs.

Induction over data: the library's theorems of induction take an operator as a parameter, and the
provers cannot instantiate it. `NatSet` is induction over a set of naturals instead, from the
well-foundedness of `<`: the statement about a natural number is the set of those it is true of. What `Merge` keeps of
any sequence, `Filter` of any list, that it goes the way the list goes, where the path of a label leads, what `ChunkSized` makes of any sizes, and
that a listing of messages goes upwards (`ListedUpwards`) are proved that way.

Left to TLC is liveness (`CallsReturn`, `DeauthDelivered`, `Delivered`, `CancelEnds`, and that of `waits_return`), which
needs fairness and `ENABLED`.

## 6. Plan

What is modelled is checked, and all safety that the passing runs check is proved. Liveness stays with TLC.

## 7. Not modelled

* **Settings of a user** (`settings.go`, `backend`'s `mailSettings`, `userSettings`): one record
  that each call overwrites field by field under one lock.
* **Updates of the user and of its settings in the log** (`userInfoUpdate`, `userSettingsUpdate`): they name no item and
  are never missing; and a `GetEvent` that hangs over folders in a circle, which is the subject of `Labels`.
* **Drive, shares, links, calendars, blocks**: single requests, without state in
  the client and without a server in the repository. Of them the paging of events is in
  `DriveEvents`.
* **Ping, download, reports, features, telemetry, domains, data**: single requests, constant answers.
* **Second factors and human verification**: a request more, or a header, of a login.
* **Error handlers** of the manager: counts of what requests returned, kept in a map.
* **Speeds and callbacks of NetCtl**: sleeps, and calls of the test's functions.
* **Message counts** (`GetMessageGroupCount`): a sum over the messages, those of other
  accounts included; no other part reads it.
* **Cryptography, SRP's arithmetic, text encodings and headers**: libraries, and functions of data; the modules
  treat a key, a proof or a content as an atom.
* **gRPC control and quark commands**: generated code and a text front end for the backend's
  operations, which are modelled.
* **Maps, slices and sets** (`utils`), but for `Filter`: what they compute is part of the modules that use them.
