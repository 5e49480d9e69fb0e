-------------------------- MODULE EventStreamProofs --------------------------
(***************************************************************************)
(* What TLAPS proves about EventStream: that its types are right, that     *)
(* GetEvent fails only for the reason PanicsHaveACause gives, that a       *)
(* reader with the last event sees what is there (Converged), and that the *)
(* stream implements EventFeed.  StreamInv is the inductive invariant; its *)
(* part about the log is EventLogProofs' LogInv.                           *)
(***************************************************************************)
EXTENDS EventStream, EventLogProofs

\* No update with a number from m to n is about item i.
Untouched(i, m, n) == \A j \in m .. n : updates[j].of # i

\* The event makes the reader fetch the item anew.
Refreshes(event, i) == event.refresh = "all" \/ (event.refresh = "mail" /\ i \in MailItems)

\* The items of which Converged speaks.
Heard(i) == i \in MailItems \/ ~RefreshAllMasked

\* Where the reader will be when it is sent the kth event of the batch.
Prev(k) == IF k = 1 THEN lastEventID ELSE batch[k - 1].id

\* The kth event goes on where the one before it ends, or starts at a RefreshAll.
Chained(k) ==
    /\ batch[k].id \in (Prev(k) + 1) .. Len(updates)
    /\ \E lo \in (Prev(k) + 1) .. batch[k].id :
          /\ batch[k].window = lo .. batch[k].id
          /\ lo = Prev(k) + 1 \/ updates[lo].of = "all"

\* What the kth event says of an item is true until a later update of it, and
\* it leaves out only items that nothing has happened to.
Truthful(k) ==
    \A i \in Items :
        /\ batch[k].items[i] # NoEntry /\ Untouched(i, batch[k].id + 1, Len(updates)) =>
               batch[k].items[i] = Visible(i)
        /\ batch[k].items[i] = NoEntry /\ ~Refreshes(batch[k], i) /\ Heard(i) =>
               Untouched(i, Prev(k) + 1, batch[k].id)

\* The batch that is being collected or sent.
BatchInv ==
    /\ pc \in {"fetch", "send"} => \A k \in 1 .. Len(batch) : Chained(k) /\ Truthful(k)
    /\ pc = "fetch" =>
          /\ batch = <<>> => from = lastEventID
          /\ batch # <<>> => from = batch[Len(batch)].id /\ from < Len(updates)

\* What the reader sees of an item is right until a later update of it.
ReaderInv ==
    \A i \in Items :
        Heard(i) /\ Untouched(i, lastEventID + 1, Len(updates)) => view[i] = Visible(i)

\* The reader was told of the update where it is, and of none after it.
ToldInv == told \subseteq 1 .. lastEventID /\ (lastEventID = 1 \/ lastEventID \in told)

\* An event's entries are what a reader can see.
EntriesOK == \A k \in 1 .. Len(batch) : \A i \in Items : batch[k].items[i] # NoEntry => batch[k].items[i] \in Nat

StreamTypes ==
    /\ pc \in {"tick", "fetch", "send", "stopping", "closed"}
    /\ ticker \in {"sleep", "offer", "done"}
    /\ lastEventID \in 1 .. Len(updates) /\ from \in 1 .. Len(updates)
    /\ batch \in Seq(Events) /\ (pc = "send" => batch # <<>>) /\ EntriesOK
    /\ cancelled \in BOOLEAN /\ closed \in BOOLEAN
    /\ failures \in Nat
    /\ view \in [Items -> Nat]

StreamInv == LogInv /\ StreamTypes /\ BatchInv /\ ReaderInv /\ ToldInv

------------------------------------------------------------------------------
(* StreamInv is inductive. *)

LEMMA VisibleIsNat == ASSUME LogInv, NEW i \in Items PROVE Visible(i) \in Nat
  BY DEF LogInv, Visible, Exists, Absent

\* What the types say of the kth event.
LEMMA EventShape ==
    ASSUME batch \in Seq(Events), NEW k \in 1 .. Len(batch)
    PROVE  /\ batch[k].id \in Nat /\ batch[k].window \subseteq Nat
           /\ batch[k].items \in [Items -> Int] /\ batch[k].refresh \in Flags \cup {"none"}
<1>1. batch[k] \in Events
  BY ElementOfSeq
<1>2. QED
  BY <1>1 DEF Events

LEMMA StreamInit == Init => StreamInv
<1> SUFFICES ASSUME Init PROVE StreamInv
  OBVIOUS
<1>1. LogInv
  BY LogInvInit DEF Init
<1>2. Len(updates) = 1 /\ Len(batch) = 0 /\ batch = <<>>
  BY DEF Init, LogInit
<1>3. StreamTypes
  <2>1. batch \in Seq(Events) /\ EntriesOK
    BY <1>2 DEF EntriesOK
  <2>2. view \in [Items -> Nat]
    BY <1>1, VisibleIsNat DEF Init
  <2>3. /\ pc = "tick" /\ ticker = "sleep" /\ lastEventID \in 1 .. Len(updates) /\ from \in 1 .. Len(updates)
        /\ cancelled = FALSE /\ closed = FALSE /\ failures = 0
    BY <1>2 DEF Init
  <2>4. QED
    BY <2>1, <2>2, <2>3 DEF StreamTypes
<1>4. BatchInv
  BY <1>2 DEF Init, BatchInv
<1>5. ReaderInv
  BY DEF Init, ReaderInv
<1>6. ToldInv
  BY DEF Init, ToldInv
<1>7. QED
  BY <1>1, <1>3, <1>4, <1>5, <1>6 DEF StreamInv

\* A new update leaves what other items show alone, and touches its own.
LEMMA LoggedTouches ==
    ASSUME LogInv, NEW u \in Updates, Logged(u), NEW i \in Items
    PROVE  /\ Heard(i)' => Heard(i)
           /\ \A m \in 1 .. Len(updates) + 1 :
                 Untouched(i, m, Len(updates))' => Untouched(i, m, Len(updates)) /\ Visible(i)' = Visible(i)
           /\ \A m, n \in 1 .. Len(updates) : Untouched(i, m, n) => Untouched(i, m, n)'
<1> DEFINE n == Len(updates)
<1>1. n \in Nat /\ n > 0 /\ DOMAIN updates = 1 .. n
  BY LogShape
<1>2. /\ updates' \in Seq(Updates) /\ Len(updates') = n + 1 /\ updates'[n + 1] = u
      /\ \A j \in 1 .. n : updates'[j] = updates[j]
  BY LoggedUpdates
<1>3. DOMAIN updates' = 1 .. n + 1
  BY <1>2, LenProperties
<1> HIDE DEF n
<1>4. Heard(i)' => Heard(i)
  BY <1>1, <1>2, <1>3 DEF Heard, RefreshAllMasked
<1>5. u.of # i => Visible(i)' = Visible(i)
  BY DEF Logged, Visible, Exists
<1>6. ASSUME NEW m \in 1 .. n + 1, \A j \in m .. n + 1 : updates'[j].of # i
      PROVE  (\A j \in m .. n : updates[j].of # i) /\ u.of # i
  BY <1>1, <1>2, <1>6
<1>7. ASSUME NEW m \in 1 .. n, NEW l \in 1 .. n, \A j \in m .. l : updates[j].of # i
      PROVE  \A j \in m .. l : updates'[j].of # i
  BY <1>1, <1>2, <1>7
<1>8. QED
  BY <1>2, <1>4, <1>5, <1>6, <1>7 DEF Untouched, n

\* The batch takes the reader forward, event by event.
LEMMA ChainPlaces ==
    ASSUME StreamInv, pc \in {"fetch", "send"}, NEW k \in 1 .. Len(batch)
    PROVE  /\ Prev(k) \in 1 .. Len(updates) /\ batch[k].id \in 1 .. Len(updates)
           /\ batch[k].id \in (Prev(k) + 1) .. Len(updates)
<1>1. /\ Len(updates) \in Nat /\ lastEventID \in 1 .. Len(updates) /\ batch \in Seq(Events) /\ Len(batch) \in Nat
      /\ \A j \in 1 .. Len(batch) : batch[j].id \in Nat
  BY LogShape, EventShape, LenProperties DEF StreamInv, StreamTypes
<1>2. \A j \in 1 .. Len(batch) : batch[j].id \in (Prev(j) + 1) .. Len(updates)
  BY DEF StreamInv, BatchInv, Chained
<1>3. ASSUME NEW j \in 1 .. Len(batch) PROVE Prev(j) \in Nat
  <2>1. CASE j = 1
    BY <1>1, <2>1 DEF Prev
  <2>2. CASE j # 1
    <3>1. j - 1 \in 1 .. Len(batch)
      BY <1>1, <2>2
    <3>2. QED
      BY <1>1, <2>2, <3>1 DEF Prev
  <2>3. QED
    BY <2>1, <2>2
<1>4. ASSUME NEW j \in 1 .. Len(batch) PROVE batch[j].id > Prev(j) /\ batch[j].id <= Len(updates)
  BY <1>1, <1>2, <1>3
<1>5. Prev(k) > 0
  <2>1. CASE k = 1
    BY <1>1, <2>1 DEF Prev
  <2>2. CASE k # 1
    <3>1. k - 1 \in 1 .. Len(batch)
      BY <1>1, <2>2
    <3>2. batch[k - 1].id > Prev(k - 1) /\ Prev(k - 1) \in Nat /\ batch[k - 1].id \in Nat
      BY <1>1, <1>3, <1>4, <3>1
    <3>3. batch[k - 1].id > 0
      BY <3>2
    <3>4. QED
      BY <2>2, <3>3 DEF Prev
  <2>3. QED
    BY <2>1, <2>2
<1>6. Prev(k) \in Nat /\ batch[k].id \in Nat /\ batch[k].id > Prev(k) /\ batch[k].id <= Len(updates)
  BY <1>1, <1>3, <1>4
<1> HIDE DEF Prev
<1>7. QED
  BY <1>1, <1>5, <1>6

\* An operation of the server that logs an update.
LEMMA LoggedKeepsStream ==
    ASSUME StreamInv, NEW u \in Updates, Logged(u), UNCHANGED streamVars
    PROVE  StreamInv'
<1> USE DEF streamVars
<1> DEFINE n == Len(updates)
<1>1. n \in Nat /\ n > 0 /\ LogInv /\ StreamTypes
  BY LogShape DEF StreamInv
<1>2. Len(updates') = n + 1 /\ \A j \in 1 .. n : updates'[j] = updates[j]
  BY <1>1, LoggedUpdates
<1>3. LogInv'
  BY <1>1, LoggedKeeps
<1>4. StreamTypes'
  <2>1. lastEventID \in 1 .. n + 1 /\ from \in 1 .. n + 1
    BY <1>1 DEF StreamTypes
  <2>2. EntriesOK'
    BY <1>1 DEF StreamTypes, EntriesOK
  <2>3. QED
    BY <1>1, <1>2, <2>1, <2>2 DEF StreamTypes
<1>5. ReaderInv'
  <2> SUFFICES ASSUME NEW i \in Items, Heard(i)', Untouched(i, lastEventID + 1, n)'
               PROVE  view[i] = Visible(i)'
    BY DEF ReaderInv
  <2>1. lastEventID + 1 \in 1 .. n + 1
    BY <1>1 DEF StreamTypes
  <2> DEFINE m == lastEventID + 1
  <2>2. Untouched(i, m, n)' => Untouched(i, m, n) /\ Visible(i)' = Visible(i)
    BY <1>1, <2>1, LoggedTouches
  <2>3. Heard(i)
    BY <1>1, LoggedTouches
  <2>4. QED
    BY <2>2, <2>3 DEF StreamInv, ReaderInv
<1>6. ToldInv'
  BY DEF StreamInv, ToldInv
<1>7. BatchInv'
  <2>1. pc = "fetch" => /\ batch = <<>> => from = lastEventID
                        /\ batch # <<>> => from = batch[Len(batch)].id /\ from < n + 1
    BY <1>1 DEF StreamInv, BatchInv, StreamTypes
  <2>2. ASSUME pc \in {"fetch", "send"}, NEW k \in 1 .. Len(batch)
        PROVE  Chained(k)' /\ Truthful(k)'
    <3>1. Chained(k) /\ Truthful(k)
      BY <2>2 DEF StreamInv, BatchInv
    <3>2. PICK p \in 1 .. n, id \in 1 .. n : p = Prev(k) /\ id = batch[k].id /\ id \in (p + 1) .. n
      BY <1>1, <2>2, ChainPlaces
    <3>3. Prev(k)' = p /\ batch' = batch
      BY <3>2 DEF Prev
    <3> HIDE DEF n
    <3>4. Chained(k)'
      <4>1. PICK lo \in (p + 1) .. id : batch[k].window = lo .. id /\ (lo = p + 1 \/ updates[lo].of = "all")
        BY <3>1, <3>2 DEF Chained
      <4>2. lo \in 1 .. n /\ id \in (p + 1) .. n + 1
        BY <1>1, <3>2
      <4>3. updates'[lo] = updates[lo]
        BY <1>2, <4>2 DEF n
      <4>4. QED
        BY <1>2, <3>2, <3>3, <4>1, <4>2, <4>3 DEF Chained, n
    <3>5. Truthful(k)'
      <4> SUFFICES ASSUME NEW i \in Items
                   PROVE  /\ batch[k].items[i] # NoEntry /\ Untouched(i, id + 1, n)' =>
                                 batch[k].items[i] = Visible(i)'
                          /\ batch[k].items[i] = NoEntry /\ ~Refreshes(batch[k], i) /\ Heard(i)' =>
                                 Untouched(i, p + 1, id)'
        BY <3>2, <3>3 DEF Truthful, n, Refreshes
      <4>1. id + 1 \in 1 .. n + 1 /\ p + 1 \in 1 .. n /\ id \in 1 .. n
        BY <1>1, <3>2
      <4>2. /\ batch[k].items[i] # NoEntry /\ Untouched(i, id + 1, n) => batch[k].items[i] = Visible(i)
            /\ batch[k].items[i] = NoEntry /\ ~Refreshes(batch[k], i) /\ Heard(i) => Untouched(i, p + 1, id)
        BY <3>1, <3>2 DEF Truthful, n
      <4>3. Untouched(i, id + 1, n)' => Untouched(i, id + 1, n) /\ Visible(i)' = Visible(i)
        BY <1>1, <4>1, LoggedTouches DEF n
      <4>4. Untouched(i, p + 1, id) => Untouched(i, p + 1, id)'
        BY <1>1, <4>1, LoggedTouches DEF n
      <4>5. Heard(i)' => Heard(i)
        BY <1>1, LoggedTouches
      <4>6. QED
        BY <4>2, <4>3, <4>4, <4>5
    <3>6. QED
      BY <3>4, <3>5
  <2>3. QED
    BY <1>2, <2>1, <2>2 DEF BatchInv
<1>8. QED
  BY <1>3, <1>4, <1>5, <1>6, <1>7 DEF StreamInv

\* A page.  Where it is asked for, what it says and where it ends.
LEMMA PageShape ==
    ASSUME StreamInv, Page
    PROVE  /\ from \in 1 .. Len(updates)
           /\ Event(from) \in Events
           /\ \A i \in Items : Event(from).items[i] # NoEntry => Event(from).items[i] = Visible(i)
           /\ Event(from).id = WindowEnd(from)
           /\ from <= WindowEnd(from) /\ WindowEnd(from) <= Len(updates)
           /\ More(from) <=> WindowEnd(from) < Len(updates)
           /\ from < Len(updates) => WindowStart(from) <= WindowEnd(from)
<1>1. LogInv /\ Len(updates) \in Nat /\ from \in 1 .. Len(updates) /\ from \in DOMAIN updates /\ ~Panics(from)
  BY LogShape DEF StreamInv, StreamTypes, Page
<1>2. LET e == Event(from)
      IN  /\ e.id = WindowEnd(from) /\ e.window = WindowStart(from) .. WindowEnd(from)
          /\ e.refresh \in Flags \cup {"none"} /\ e.items \in [Items -> Int]
          /\ \A i \in Items : e.items[i] # NoEntry => e.items[i] = IF Exists(i) THEN store[i] ELSE Absent
  BY <1>1, EventSaysAll
<1>3. /\ WindowStart(from) \in 1 .. Len(updates) + 1 /\ WindowEnd(from) \in LogStart .. Len(updates)
      /\ LogStart \in 1 .. Len(updates)
      /\ from <= WindowEnd(from) /\ (More(from) <=> WindowEnd(from) < Len(updates))
      /\ from < Len(updates) => WindowStart(from) <= WindowEnd(from)
  BY <1>1, WindowIsInterval, LogShape
<1>4. WindowEnd(from) \in Nat /\ WindowEnd(from) <= Len(updates) /\ WindowStart(from) \in Nat
  BY <1>1, <1>3
<1>5. Event(from) \in Events
  <2>1. Event(from) = [id |-> Event(from).id, refresh |-> Event(from).refresh,
                       items |-> Event(from).items, window |-> Event(from).window]
    BY DEF Event
  <2>2. Event(from).window \subseteq Nat
    BY <1>2, <1>4
  <2>3. QED
    BY <1>2, <1>4, <2>1, <2>2 DEF Events
<1>6. QED
  BY <1>1, <1>2, <1>3, <1>4, <1>5 DEF Visible

\* What a page leaves out: nothing happened to it, or the reader fetches it
\* anew, unless a RefreshMail masks the RefreshAll.
LEMMA PageCovers ==
    ASSUME StreamInv, Page, from < Len(updates)
    PROVE  /\ \E lo \in (from + 1) .. WindowEnd(from) :
                 /\ Event(from).window = lo .. WindowEnd(from)
                 /\ lo = from + 1 \/ updates[lo].of = "all"
           /\ \A i \in Items :
                 Event(from).items[i] = NoEntry /\ ~Refreshes(Event(from), i) /\ Heard(i) =>
                     Untouched(i, from + 1, WindowEnd(from))
<1> DEFINE e == Event(from)
           lo == WindowStart(from)
           hi == WindowEnd(from)
           n == Len(updates)
<1>1. /\ LogInv /\ n \in Nat /\ from \in 1 .. n /\ from \in DOMAIN updates /\ ~Panics(from)
      /\ LogStart \in 1 .. n /\ DOMAIN updates = 1 .. n
      /\ \A j \in 1 .. n : updates[j] \in Updates
  BY LogShape DEF StreamInv, StreamTypes, Page
<1>2. /\ e.window = lo .. hi
      /\ e.refresh \in Flags \cup {"none"}
      /\ e.refresh = "none" => \A j \in lo .. hi : updates[j].kind # "refreshed"
      /\ e.refresh # "none" => \E j \in lo .. hi : updates[j].of = e.refresh
      /\ \A i \in Items : e.items[i] = NoEntry => \A j \in lo .. hi : updates[j].of # i
  BY <1>1, EventSaysAll
<1>3. lo \in 1 .. n + 1 /\ hi \in LogStart .. n /\ lo <= hi
  BY <1>1, WindowIsInterval
<1>4. lo = from + 1 \/ (lo = LogStart /\ LogStart > from)
  BY <1>1 DEF WindowStart
<1>5. lo \in (from + 1) .. hi
  <2> HIDE DEF lo, hi, n
  <2>1. QED
    BY <1>1, <1>3, <1>4
<1>6. lo = from + 1 \/ updates[lo].of = "all"
  <2>1. CASE lo = LogStart /\ LogStart > from
    <3>1. LogStart > 1
      BY <1>1, <2>1
    <3>2. QED
      BY <1>1, <2>1, <3>1 DEF LogInv, StartsAtRefresh
  <2>2. QED
    BY <1>4, <2>1
<1>7. ASSUME NEW i \in Items, e.items[i] = NoEntry, ~Refreshes(e, i), Heard(i)
      PROVE  \A j \in (from + 1) .. hi : updates[j].of # i
  <2>1. \A j \in lo .. hi : updates[j].of # i
    BY <1>2, <1>7
  <2>2. CASE lo = from + 1
    BY <2>1, <2>2
  <2>3. CASE updates[lo].of = "all"
    <3>1. e.refresh = "mail" /\ i \notin MailItems
      <4>1. lo \in 1 .. n /\ lo \in lo .. hi
        <5> HIDE DEF lo, hi, n
        <5>1. QED
          BY <1>1, <1>3
      <4>2. updates[lo].kind = "refreshed"
        BY <1>1, <2>3, <4>1, UpdateKinds, LogAssumption DEF Flags
      <4>3. e.refresh # "none"
        BY <1>2, <4>1, <4>2
      <4>4. e.refresh # "all"
        BY <1>7 DEF Refreshes
      <4>5. QED
        BY <1>2, <1>7, <4>3, <4>4 DEF Flags, Refreshes
    <3>2. PICK j \in lo .. hi : updates[j].of = "mail"
      BY <1>2, <3>1
    <3>3. j # lo
      BY <2>3, <3>2
    <3>4. lo \in DOMAIN updates /\ j \in DOMAIN updates /\ lo < j
      <4> HIDE DEF lo, hi, n
      <4>1. lo \in 1 .. n /\ j \in 1 .. n /\ lo < j
        BY <1>1, <1>3, <3>2, <3>3
      <4>2. QED
        BY <1>1, <4>1
    <3>5. RefreshAllMasked
      BY <2>3, <3>2, <3>4 DEF RefreshAllMasked
    <3>6. QED
      BY <1>7, <3>1, <3>5 DEF Heard
  <2>4. QED
    BY <1>6, <2>2, <2>3
<1>8. QED
  BY <1>2, <1>5, <1>6, <1>7 DEF Untouched

LEMMA PageKeepsStream == ASSUME StreamInv, Page PROVE StreamInv'
<1> DEFINE n == Len(updates)
<1>0. PICK b \in Nat : b = Len(batch)
  BY LenProperties DEF StreamInv, StreamTypes
<1>1. /\ n \in Nat /\ b \in Nat /\ LogInv /\ StreamTypes /\ batch \in Seq(Events)
      /\ from \in 1 .. n /\ lastEventID \in 1 .. n /\ DOMAIN batch = 1 .. b
  BY <1>0, LogShape, LenProperties DEF StreamInv, StreamTypes
<1>2. PICK e \in Events : e = Event(from)
  BY PageShape
<1>3. PICK hi : hi = WindowEnd(from)
  OBVIOUS
<1>4. /\ e.id = hi /\ hi \in from .. n /\ (More(from) <=> hi < n)
      /\ \A i \in Items : e.items[i] # NoEntry => e.items[i] = Visible(i)
  <2>1. hi \in Nat
    BY <1>2, <1>3, PageShape DEF Events
  <2>2. QED
    BY <1>1, <1>2, <1>3, <2>1, PageShape
<1>5. /\ batch' \in Seq(Events) /\ Len(batch') = b + 1 /\ batch'[b + 1] = e
      /\ \A k \in 1 .. b : batch'[k] = batch[k]
  BY <1>0, <1>1, <1>2, AppendProperties DEF Page, KeepPage
<1>6. /\ from' = hi
      /\ UNCHANGED <<logVars, ticker, lastEventID, cancelled, closed, failures, view, told>>
      /\ pc = "fetch"
  BY <1>2, <1>4 DEF Page
<1>7. /\ pc' \in {"fetch", "send", "tick"}
      /\ pc' = "fetch" => hi < n
      /\ pc' = "send" => hi # lastEventID
  BY <1>2, <1>4 DEF Page
<1>8. LogInv'
  BY <1>1, <1>6 DEF logVars, LogInv, LogIsSuffix, StartsAtRefresh, LifeIsLogged, LogStart
<1>9. ReaderInv' /\ ToldInv'
  BY <1>6 DEF logVars, StreamInv, ReaderInv, ToldInv, Heard, RefreshAllMasked, Untouched, Visible, Exists
<1>10. StreamTypes'
  <2>1. EntriesOK'
    <3> SUFFICES ASSUME NEW k \in 1 .. b + 1, NEW i \in Items, batch'[k].items[i] # NoEntry
                 PROVE  batch'[k].items[i] \in Nat
      BY <1>5 DEF EntriesOK
    <3>1. CASE k \in 1 .. b
      BY <1>1, <1>5, <3>1 DEF StreamTypes, EntriesOK
    <3>2. CASE k = b + 1
      BY <1>1, <1>4, <1>5, <3>2, VisibleIsNat
    <3>3. QED
      BY <1>1, <3>1, <3>2
  <2>2. batch' # <<>>
    BY <1>1, <1>5
  <2>3. from' \in 1 .. n
    BY <1>1, <1>4, <1>6
  <2>4. updates' = updates
    BY <1>6 DEF logVars
  <2>5. QED
    BY <1>1, <1>5, <1>6, <1>7, <2>1, <2>2, <2>3, <2>4 DEF StreamTypes
<1>11. BatchInv'
  <2>1. updates' = updates /\ store' = store
    BY <1>6 DEF logVars
  <2>2. pc' = "fetch" => batch' # <<>> /\ from' = batch'[Len(batch')].id /\ from' < Len(updates')
    BY <1>0, <1>1, <1>4, <1>5, <1>6, <1>7, <2>1
  <2>3. ASSUME pc' \in {"fetch", "send"}, NEW k \in 1 .. b
        PROVE  Chained(k)' /\ Truthful(k)'
    <3>1. Chained(k) /\ Truthful(k)
      BY <1>0, <1>6, <2>3 DEF StreamInv, BatchInv
    <3>2. batch'[k] = batch[k] /\ Prev(k)' = Prev(k)
      <4>1. k # 1 => k - 1 \in 1 .. b
        BY <1>1
      <4>2. QED
        BY <1>5, <1>6, <4>1 DEF Prev
    <3>3. QED
      BY <2>1, <3>1, <3>2 DEF Chained, Truthful, Refreshes, Heard, RefreshAllMasked, Untouched, Visible, Exists
  <2>4. ASSUME pc' \in {"fetch", "send"}
        PROVE  Chained(b + 1)' /\ Truthful(b + 1)'
    <3>1. Prev(b + 1)' = from
      <4>1. CASE b = 0
        BY <1>0, <1>1, <1>6, <4>1, EmptySeq DEF Prev, StreamInv, BatchInv
      <4>2. CASE b # 0
        <5>1. b \in 1 .. b /\ b + 1 # 1 /\ (b + 1) - 1 = b /\ batch # <<>>
          BY <1>0, <1>1, <4>2
        <5>2. QED
          BY <1>0, <1>5, <1>6, <5>1 DEF Prev, StreamInv, BatchInv
      <4>3. QED
        BY <4>1, <4>2
    <3>2. from < n
      <4>1. CASE batch = <<>>
        <5>1. from = lastEventID
          BY <1>6, <4>1 DEF StreamInv, BatchInv
        <5>2. hi < n \/ hi # from
          BY <1>7, <2>4, <5>1
        <5>3. QED
          BY <1>1, <1>4, <5>2
      <4>2. CASE batch # <<>>
        BY <1>6, <4>2 DEF StreamInv, BatchInv
      <4>3. QED
        BY <4>1, <4>2
    <3>3. PICK lo \in (from + 1) .. hi : e.window = lo .. hi /\ (lo = from + 1 \/ updates[lo].of = "all")
      BY <1>2, <1>3, <3>2, PageCovers
    <3>4. \A i \in Items : e.items[i] = NoEntry /\ ~Refreshes(e, i) /\ Heard(i) => Untouched(i, from + 1, hi)
      BY <1>2, <1>3, <3>2, PageCovers
    <3>5. Chained(b + 1)'
      <4>1. hi \in (from + 1) .. n
        BY <1>1, <1>4, <3>3
      <4>2. QED
        BY <1>4, <1>5, <2>1, <3>1, <3>3, <4>1 DEF Chained
    <3>6. Truthful(b + 1)'
      BY <1>4, <1>5, <2>1, <3>1, <3>4 DEF Truthful, Refreshes, Heard, RefreshAllMasked, Untouched, Visible, Exists
    <3>7. QED
      BY <3>5, <3>6
  <2>5. \A k \in 1 .. b + 1 : k \in 1 .. b \/ k = b + 1
    BY <1>1
  <2>6. QED
    BY <1>5, <2>2, <2>3, <2>4, <2>5 DEF BatchInv
<1>12. QED
  BY <1>8, <1>9, <1>10, <1>11 DEF StreamInv

\* Where the reader goes with an event, and what it is told of.
LEMMA SendShape ==
    ASSUME StreamInv, Send
    PROVE  \E id \in Nat, lo \in Nat :
              /\ batch # <<>> /\ Len(batch) \in Nat /\ 1 \in 1 .. Len(batch)
              /\ id = batch[1].id /\ lastEventID' = id /\ batch[1].window = lo .. id
              /\ lastEventID < lo /\ lo <= id /\ id <= Len(updates)
              /\ lo = lastEventID + 1 \/ updates[lo].of = "all"
              /\ told' = told \cup lo .. id
<1>1. /\ pc = "send" /\ batch # <<>> /\ batch \in Seq(Events) /\ Len(batch) \in Nat
      /\ lastEventID \in 1 .. Len(updates) /\ Len(updates) \in Nat
  BY LogShape, LenProperties DEF StreamInv, StreamTypes, Send
<1>2. 1 \in 1 .. Len(batch)
  BY <1>1, EmptySeq
<1>3. Head(batch) = batch[1]
  BY <1>1
<1>4. Chained(1) /\ batch[1].id \in Nat
  BY <1>1, <1>2, EventShape DEF StreamInv, BatchInv
<1>5. PICK lo \in (lastEventID + 1) .. batch[1].id :
         batch[1].window = lo .. batch[1].id /\ (lo = lastEventID + 1 \/ updates[lo].of = "all")
  BY <1>4 DEF Chained, Prev
<1>6. batch[1].id <= Len(updates)
  BY <1>1, <1>4, <1>5 DEF Chained, Prev
<1>7. lo \in Nat /\ lastEventID < lo /\ lo <= batch[1].id
  BY <1>1, <1>4, <1>5
<1>8. lastEventID' = batch[1].id /\ told' = told \cup batch[1].window
  BY <1>3 DEF Send, Advance
<1>9. QED
  BY <1>1, <1>2, <1>4, <1>5, <1>6, <1>7, <1>8

LEMMA SendKeepsStream == ASSUME StreamInv, Send PROVE StreamInv'
<1>1. PICK n \in Nat, b \in Nat : n = Len(updates) /\ b = Len(batch)
  BY LogShape, LenProperties DEF StreamInv, StreamTypes
<1>2. /\ LogInv /\ StreamTypes /\ batch \in Seq(Events)
      /\ from \in 1 .. n /\ lastEventID \in 1 .. n /\ pc = "send"
  BY <1>1 DEF StreamInv, StreamTypes, Send
<1>3. PICK id \in Nat, lo \in Nat :
         /\ batch # <<>> /\ 1 \in 1 .. b
         /\ id = batch[1].id /\ lastEventID' = id /\ batch[1].window = lo .. id
         /\ lastEventID < lo /\ lo <= id /\ id <= n
         /\ told' = told \cup lo .. id
  BY <1>1, SendShape
<1>4. PICK e \in Events : e = batch[1]
  BY <1>1, <1>2, <1>3, ElementOfSeq
<1>5. /\ batch' \in Seq(Events) /\ Len(batch') = b - 1
      /\ \A k \in 1 .. b - 1 : batch'[k] = batch[k + 1]
  BY <1>1, <1>2, <1>3, HeadTailProperties DEF Send
<1>6. UNCHANGED <<logVars, ticker, from, cancelled, closed, failures>> /\ view' = Applied(e)
  BY <1>2, <1>3, <1>4 DEF Send
<1>7. pc' \in {"tick", "send"} /\ (pc' = "send" => batch' # <<>>)
  BY DEF Send, AfterSend
<1>8. LogInv'
  BY <1>2, <1>6 DEF logVars, LogInv, LogIsSuffix, StartsAtRefresh, LifeIsLogged, LogStart
<1>9. updates' = updates /\ store' = store
  BY <1>6 DEF logVars
<1>10. \A i \in Items : /\ e.items[i] # NoEntry => e.items[i] \in Nat
                        /\ Visible(i) \in Nat /\ view[i] \in Nat
  BY <1>1, <1>2, <1>3, <1>4, VisibleIsNat DEF StreamTypes, EntriesOK
<1>11. view' = [i \in Items |-> IF Refreshes(e, i) THEN Visible(i)
                                ELSE IF e.items[i] # NoEntry THEN e.items[i] ELSE view[i]]
  BY <1>6 DEF Applied, Refreshes
<1>12. StreamTypes'
  <2>1. EntriesOK'
    <3> SUFFICES ASSUME NEW k \in 1 .. b - 1, NEW i \in Items, batch'[k].items[i] # NoEntry
                 PROVE  batch'[k].items[i] \in Nat
      BY <1>5 DEF EntriesOK
    <3>1. k + 1 \in 1 .. b
      OBVIOUS
    <3>2. QED
      BY <1>1, <1>2, <1>5, <3>1 DEF StreamTypes, EntriesOK
  <2>2. view' \in [Items -> Nat]
    BY <1>10, <1>11
  <2>3. lastEventID' \in 1 .. n
    BY <1>2, <1>3
  <2>4. QED
    BY <1>1, <1>2, <1>5, <1>6, <1>7, <1>9, <2>1, <2>2, <2>3 DEF StreamTypes
<1>13. ToldInv'
  <2>1. told \subseteq 1 .. lastEventID
    BY DEF StreamInv, ToldInv
  <2>2. 1 .. lastEventID \subseteq 1 .. id /\ lo .. id \subseteq 1 .. id /\ id \in lo .. id
    BY <1>2, <1>3
  <2>3. told' \subseteq 1 .. id /\ id \in told'
    BY <1>3, <2>1, <2>2
  <2>4. QED
    BY <1>3, <2>3 DEF ToldInv
<1>14. Chained(1) /\ Truthful(1)
  BY <1>1, <1>2, <1>3 DEF StreamInv, BatchInv
<1>15. ReaderInv'
  <2> SUFFICES ASSUME NEW i \in Items, Heard(i), Untouched(i, id + 1, n)
               PROVE  view'[i] = Visible(i)
    BY <1>1, <1>3, <1>9 DEF ReaderInv, Heard, RefreshAllMasked, Untouched, Visible, Exists
  <2>1. CASE Refreshes(e, i)
    BY <1>11, <2>1
  <2>2. CASE ~Refreshes(e, i) /\ e.items[i] # NoEntry
    BY <1>1, <1>3, <1>4, <1>11, <1>14, <2>2 DEF Truthful
  <2>3. CASE ~Refreshes(e, i) /\ e.items[i] = NoEntry
    <3>1. Untouched(i, lastEventID + 1, id)
      BY <1>3, <1>4, <1>14, <2>3 DEF Truthful, Prev
    <3>2. \A j \in (lastEventID + 1) .. n : j \in (lastEventID + 1) .. id \/ j \in (id + 1) .. n
      BY <1>2
    <3>3. Untouched(i, lastEventID + 1, n)
      BY <3>1, <3>2 DEF Untouched
    <3>4. view[i] = Visible(i)
      BY <1>1, <3>3 DEF StreamInv, ReaderInv
    <3>5. QED
      BY <1>11, <2>3, <3>4
  <2>4. QED
    BY <2>1, <2>2, <2>3
<1>16. BatchInv'
  <2> SUFFICES ASSUME NEW k \in 1 .. b - 1 PROVE Chained(k)' /\ Truthful(k)'
    BY <1>5, <1>7 DEF BatchInv
  <2>1. k + 1 \in 1 .. b
    OBVIOUS
  <2>2. Chained(k + 1) /\ Truthful(k + 1)
    BY <1>1, <1>2, <2>1 DEF StreamInv, BatchInv
  <2>3. batch'[k] = batch[k + 1]
    BY <1>5
  <2>4. Prev(k)' = Prev(k + 1)
    <3>1. k + 1 # 1 /\ (k + 1) - 1 = k
      OBVIOUS
    <3>2. CASE k = 1
      BY <1>3, <3>1, <3>2 DEF Prev
    <3>3. CASE k # 1
      <4>1. k - 1 \in 1 .. b - 1 /\ (k - 1) + 1 = k
        BY <3>3
      <4>2. QED
        BY <1>5, <3>1, <3>3, <4>1 DEF Prev
    <3>4. QED
      BY <3>2, <3>3
  <2>5. QED
    BY <1>9, <2>2, <2>3, <2>4 DEF Chained, Truthful, Refreshes, Heard, RefreshAllMasked, Untouched, Visible, Exists
<1>17. QED
  BY <1>8, <1>12, <1>13, <1>15, <1>16 DEF StreamInv

\* The steps that leave the log, the reader and its place alone.
LEMMA OthersKeepStream ==
    ASSUME StreamInv, UNCHANGED <<logVars, lastEventID, view, told>>, StreamTypes',
           \/ pc' \notin {"fetch", "send"}
           \/ UNCHANGED <<pc, from, batch>>
           \/ batch' = <<>> /\ from' = lastEventID
    PROVE  StreamInv'
<1>1. LogInv'
  BY DEF StreamInv, logVars, LogInv, LogIsSuffix, StartsAtRefresh, LifeIsLogged, LogStart
<1>2. ReaderInv' /\ ToldInv'
  BY DEF logVars, StreamInv, ReaderInv, ToldInv, Heard, RefreshAllMasked, Untouched, Visible, Exists
<1>3. BatchInv'
  <2>1. CASE pc' \notin {"fetch", "send"}
    BY <2>1 DEF BatchInv
  <2>2. CASE UNCHANGED <<pc, from, batch>>
    BY <2>2 DEF StreamInv, BatchInv, logVars, Chained, Truthful, Refreshes, Heard, RefreshAllMasked,
                Untouched, Visible, Exists, Prev
  <2>3. CASE batch' = <<>> /\ from' = lastEventID
    <3>1. Len(batch') = 0 /\ 1 .. Len(batch') = {}
      BY <2>3
    <3>2. QED
      BY <2>3, <3>1 DEF BatchInv
  <2>4. QED
    BY <2>1, <2>2, <2>3
<1>4. QED
  BY <1>1, <1>2, <1>3 DEF StreamInv

\* StreamInv is inductive.
LEMMA StreamInvStep == StreamInv /\ [Next]_vars => StreamInv'
<1> SUFFICES ASSUME StreamInv, [Next]_vars PROVE StreamInv'
  OBVIOUS
<1>1. LogInv /\ StreamTypes
  BY DEF StreamInv
<1>2. CASE LogNext /\ UNCHANGED streamVars
  <2>1. CASE \E u \in Updates : Logged(u)
    BY <1>2, <2>1, LoggedKeepsStream
  <2>2. CASE UNCHANGED <<store, primaries, updates, updateIDs>> /\ maxUpdatesPerEvent' \in Limits
    <3>1. LogInv'
      BY <1>1, <2>2 DEF LogInv, LogIsSuffix, StartsAtRefresh, LifeIsLogged, LogStart
    <3>2. QED
      BY <1>1, <1>2, <2>2, <3>1 DEF StreamInv, StreamTypes, EntriesOK, streamVars, ReaderInv, ToldInv, BatchInv,
              Chained, Truthful, Refreshes, Heard, RefreshAllMasked, Untouched, Visible, Exists, Prev
  <2>3. QED
    BY <1>1, <1>2, <2>1, <2>2, LogStep
<1> USE DEF logVars
<1>3. CASE TickerFires \/ TickerStops \/ Cancel \/ Close
  BY <1>1, <1>3, OthersKeepStream DEF TickerFires, TickerStops, Cancel, Close, StreamTypes, EntriesOK
<1>4. CASE TickDone \/ Stopped \/ Restart
  BY <1>1, <1>4, OthersKeepStream DEF TickDone, Stopped, Restart, StreamTypes, EntriesOK
<1>5. ASSUME batch' = <<>> PROVE batch' \in Seq(Events) /\ EntriesOK'
  BY <1>5 DEF EntriesOK
<1>6. CASE Tick \/ PageFails \/ SendDone
  <2>1. UNCHANGED <<logVars, lastEventID, view, told>> /\ batch' = <<>> /\ UNCHANGED <<cancelled, closed>>
    BY <1>6 DEF Tick, PageFails, SendDone
  <2>2. pc' \in {"fetch", "tick", "stopping"} /\ (pc' = "fetch" => from' = lastEventID)
    BY <1>6 DEF Tick, PageFails, SendDone, TryAgain
  <2>3. failures' \in Nat /\ ticker' \in {"sleep", "offer", "done"} /\ from' \in {from, lastEventID}
    BY <1>1, <1>6 DEF Tick, PageFails, SendDone, StreamTypes
  <2>4. StreamTypes'
    <3>1. batch' \in Seq(Events) /\ EntriesOK'
      BY <1>5, <2>1
    <3>2. UNCHANGED <<logVars, lastEventID, view, told, cancelled, closed>>
      BY <2>1
    <3>3. QED
      BY <1>1, <2>2, <2>3, <3>1, <3>2 DEF StreamTypes
  <2>5. QED
    BY <2>1, <2>2, <2>4, OthersKeepStream
<1>7. CASE Page
  BY <1>7, PageKeepsStream
<1>8. CASE Send
  BY <1>8, SendKeepsStream
<1>9. CASE UNCHANGED vars
  BY <1>1, <1>9, OthersKeepStream DEF vars, streamVars, StreamTypes, EntriesOK
<1>10. QED
  BY <1>2, <1>3, <1>4, <1>6, <1>7, <1>8, <1>9 DEF Next, Stream

LEMMA StreamInvariance == Spec => []StreamInv
  BY StreamInit, StreamInvStep, PTL DEF Spec

------------------------------------------------------------------------------
(* What follows. *)

\* NewEventStream's goroutine, its ticker, its reader and the log keep their
\* types; in particular GetEvent collects at least one event before sending.
THEOREM StreamTypeCorrect == Spec => []TypeOK
<1>1. StreamInv => TypeOK
  <2> SUFFICES ASSUME StreamInv PROVE TypeOK
    OBVIOUS
  <2>1. LogInv /\ StreamTypes /\ DOMAIN updates = 1 .. Len(updates) /\ Len(updates) \in Nat
    BY LogShape DEF StreamInv
  <2>2. updateIDs # <<>>
    BY <2>1 DEF LogInv, LogIsSuffix
  <2>3. told \subseteq DOMAIN updates
    <3>1. told \subseteq 1 .. lastEventID /\ lastEventID \in 1 .. Len(updates)
      BY DEF StreamInv, ToldInv, StreamTypes
    <3>2. 1 .. lastEventID \subseteq 1 .. Len(updates)
      BY <2>1, <3>1
    <3>3. QED
      BY <2>1, <3>1, <3>2
  <2>4. QED
    BY <2>1, <2>2, <2>3 DEF TypeOK, StreamTypes, LogInv, LogIsSuffix
<1>2. QED
  BY <1>1, StreamInvariance, PTL

\* GetEvent panics only without a primary address, for a window with a stray
\* update, or if the limit ends the window before the deletion of an item it names.
THEOREM PanicsAreCaused == Spec => []PanicsHaveACause
<1>1. StreamInv => PanicsHaveACause
  <2> SUFFICES ASSUME StreamInv, NEW id \in DOMAIN updates, Panics(id), primaries # {},
                      \A n \in ToSet(Window(id)) : ~Stray(n)
               PROVE  /\ maxUpdatesPerEvent > 0
                      /\ \E n \in ToSet(Window(id)), m \in updateIDs[LastUpdate(id)] + 1 .. Len(updates) :
                            updates[m].kind = "deleted" /\ updates[m].of = updates[n].of
    BY DEF PanicsHaveACause
  <2>1. LogInv
    BY DEF StreamInv
  <2>2. ToSet(Window(id)) = WindowStart(id) .. WindowEnd(id) /\ updateIDs[LastUpdate(id)] = WindowEnd(id)
    BY <2>1, WindowBounds, WindowSet
  <2>3. QED
    BY <2>1, <2>2, PanicNeedsACause
<1>2. QED
  BY <1>1, StreamInvariance, PTL

\* A reader that was sent the last event sees what is there, whatever the
\* stream, the ticker, the network and the server's operations did meanwhile.
THEOREM ReaderConverges == Spec => []Converged
<1>1. StreamInv => Converged
  <2> SUFFICES ASSUME StreamInv, lastEventID = Last(updateIDs), NEW i \in Items, Heard(i)
               PROVE  view[i] = Visible(i)
    BY DEF Converged, Heard
  <2>1. Last(updateIDs) = Len(updates) /\ Len(updates) \in Nat
    BY LogShape DEF StreamInv
  <2>2. Untouched(i, lastEventID + 1, Len(updates))
    BY <2>1 DEF Untouched
  <2>3. QED
    BY <2>2 DEF StreamInv, ReaderInv
<1>2. QED
  BY <1>1, StreamInvariance, PTL

\* EventFeed's reader is where the stream is.
LEMMA ReadIsPlace == ASSUME StreamInv PROVE Feed!Read = lastEventID
<1>1. lastEventID \in Nat /\ lastEventID >= 1
  BY LogShape DEF StreamInv, StreamTypes
<1>2. lastEventID \in told \cup {1} /\ \A y \in told \cup {1} : y \in Nat /\ lastEventID >= y
  BY <1>1 DEF StreamInv, ToldInv
<1>3. \A x \in told \cup {1} : (\A y \in told \cup {1} : x >= y) => x = lastEventID
  BY <1>1, <1>2
<1>4. QED
  BY <1>2, <1>3 DEF Feed!Read, Feed!Max

\* Every step of the stream and of the server is one of EventFeed, or none.
LEMMA FeedStep == ASSUME StreamInv, [Next]_vars PROVE [Feed!Next]_(Feed!vars)
<1> DEFINE made == Len(updates)
           resets == {n \in DOMAIN updates : updates[n].of = "all"}
<1>1. LogInv /\ made \in Nat /\ DOMAIN updates = 1 .. made
  BY LogShape DEF StreamInv
<1>2. CASE UNCHANGED <<updates, told>>
  BY <1>2 DEF Feed!vars
<1>3. CASE UNCHANGED told /\ \E u \in Updates : Logged(u)
  <2>1. PICK u \in Updates : Logged(u)
    BY <1>3
  <2>2. /\ updates' \in Seq(Updates) /\ Len(updates') = made + 1
        /\ updates'[made + 1] = u /\ \A n \in 1 .. made : updates'[n] = updates[n]
    BY <1>1, <2>1, LoggedUpdates
  <2>3. DOMAIN updates' = 1 .. made + 1
    BY <2>2, LenProperties
  <2>4. resets' \in {resets, resets \cup {made + 1}}
    BY <1>1, <2>2, <2>3
  <2>5. QED
    BY <1>3, <2>2, <2>4 DEF Feed!Next, Feed!Make
<1>4. CASE Send
  <2>1. PICK id \in Nat, lo \in Nat :
           /\ lastEventID < lo /\ lo <= id /\ id <= made
           /\ lo = lastEventID + 1 \/ updates[lo].of = "all"
           /\ told' = told \cup lo .. id
    BY <1>4, SendShape
  <2>2. UNCHANGED updates
    BY <1>4 DEF Send, logVars
  <2>3. lastEventID \in Nat
    BY <1>1 DEF StreamInv, StreamTypes
  <2>4. lo \in {Feed!Read + 1} \cup {r \in resets : r > Feed!Read}
    <3>1. lo \in DOMAIN updates
      BY <1>1, <2>1, <2>3
    <3>2. QED
      BY <2>1, <2>3, <3>1, ReadIsPlace
  <2>5. id \in lo .. made
    BY <1>1, <2>1
  <2>6. QED
    BY <2>1, <2>2, <2>4, <2>5 DEF Feed!Next, Feed!Tell
<1>5. CASE LogNext /\ UNCHANGED streamVars
  BY <1>1, <1>2, <1>3, <1>5, LogStep DEF streamVars
<1>6. CASE UNCHANGED vars
  BY <1>2, <1>6 DEF vars, logVars, streamVars
<1>7. CASE TickerFires \/ TickerStops \/ Stream \/ Cancel \/ Close \/ Restart
  BY <1>2, <1>7 DEF TickerFires, TickerStops, Stream, Tick, TickDone, Page, PageFails, SendDone, Stopped,
        Cancel, Close, Restart, logVars
<1>8. QED
  BY <1>4, <1>5, <1>6, <1>7 DEF Next

\* Across failures, cancellations and restarts the reader is told of every
\* update once and in order, or is reset.
THEOREM StreamImplementsFeed == Spec => FeedSpec
<1>1. Init => Feed!Init
  <2> SUFFICES ASSUME Init PROVE Feed!Init
    OBVIOUS
  <2>1. updates = <<[kind |-> "created", of |-> First]>> /\ told = {}
    BY DEF Init, LogInit
  <2>2. Len(updates) = 1 /\ DOMAIN updates = {1} /\ updates[1].of = First
    BY <2>1
  <2>3. First # "all"
    BY LogAssumption
  <2>4. {n \in DOMAIN updates : updates[n].of = "all"} = {}
    BY <2>2, <2>3
  <2>5. QED
    BY <2>1, <2>2, <2>4 DEF Feed!Init
<1>2. QED
  BY <1>1, StreamInvariance, FeedStep, PTL DEF Spec, FeedSpec, Feed!Spec

==============================================================================
