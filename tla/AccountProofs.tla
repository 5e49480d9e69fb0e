---------------------------- MODULE AccountProofs ----------------------------
(***************************************************************************)
(* Proofs about what an account has: its labels and messages, its          *)
(* addresses, its contacts and their cards, and the listing of its         *)
(* messages, for every set of them and of the handlers and callers that    *)
(* work on them at the same time.                                          *)
(***************************************************************************)
EXTENDS MailLabels, Addresses, Contacts, Cards, Paging, FiniteSetTheorems, SequenceTheorems, TLAPS

------------------------------------------------------------------------------
(* Induction. *)

\* Induction: a set of naturals with 0 and, with n, also n + 1 has them all.
LEMMA NatSet ==
    ASSUME NEW X, X \subseteq Nat, 0 \in X, \A n \in X : n + 1 \in X
    PROVE  X = Nat
<1> DEFINE R == OpToRel(<, Nat)
           B == Nat \ X
<1>1. IsWellFoundedOn(R, Nat)
  BY NatLessThanWellFounded
<1>2. B \subseteq Nat
  OBVIOUS
<1>3. SUFFICES ASSUME B # {} PROVE FALSE
  OBVIOUS
<1>4. \A x, y \in Nat : y < x => <<y, x>> \in R
  BY DEF OpToRel
<1> HIDE DEF B, R
<1>5. PICK x \in B : \A y \in B : ~(<<y, x>> \in R)
  BY <1>1, <1>2, <1>3, WFMin
<1>6. x \in Nat /\ x # 0
  BY <1>2 DEF B
<1>7. x - 1 \in Nat /\ x - 1 < x
  BY <1>6
<1>8. x - 1 \notin B
  BY <1>4, <1>5, <1>6, <1>7
<1>9. x - 1 \in X
  BY <1>7, <1>8 DEF B
<1>10. x \in X
  BY <1>6, <1>9
<1>11. QED
  BY <1>10 DEF B

\* A function applied again and again, from a.
Walks(step, a, w) == w[0] = a /\ \A n \in Nat : w[n + 1] = step[w[n]]

\* The walk is there.
LEMMA WalkExists ==
    ASSUME NEW S, NEW step \in [S -> S], NEW a \in S
    PROVE  \E w \in [Nat -> S] : Walks(step, a, w)
<1> DEFINE Upto(v, c) == v \in [0 .. c -> S] /\ v[0] = a /\ \A n \in 0 .. c - 1 : v[n + 1] = step[v[n]]
           X == {c \in Nat : \E v : Upto(v, c)}
<1>1. 0 \in X
  <2>1. Upto([n \in 0 .. 0 |-> a], 0)
    OBVIOUS
  <2> QED
    BY <2>1
<1>2. ASSUME NEW c \in X
      PROVE  c + 1 \in X
  <2>1. PICK v : Upto(v, c)
    OBVIOUS
  <2> DEFINE u == [n \in 0 .. c + 1 |-> IF n <= c THEN v[n] ELSE step[v[c]]]
  <2>2. c \in Nat
    OBVIOUS
  <2>3. u \in [0 .. c + 1 -> S] /\ u[0] = a
    <3>1. v \in [0 .. c -> S] /\ c \in 0 .. c /\ step[v[c]] \in S /\ 0 \in 0 .. c + 1
      BY <2>1, <2>2
    <3> QED
      BY <2>1, <2>2, <3>1
  <2>4. \A n \in 0 .. c : u[n + 1] = step[u[n]]
    <3> SUFFICES ASSUME NEW n \in 0 .. c
                 PROVE  u[n + 1] = step[u[n]]
      OBVIOUS
    <3>1. n \in 0 .. c + 1 /\ n + 1 \in 0 .. c + 1 /\ n <= c
      BY <2>2
    <3>2. CASE n = c
      BY <2>2, <3>1, <3>2
    <3>3. CASE n # c
      <4>1. n \in 0 .. c - 1 /\ n + 1 <= c
        BY <2>2, <3>3
      <4> QED
        BY <2>1, <3>1, <4>1
    <3> QED
      BY <3>2, <3>3
  <2> HIDE DEF u
  <2>5. Upto(u, c + 1)
    <3>1. (c + 1) - 1 = c
      BY <2>2
    <3> QED
      BY <2>3, <2>4, <3>1
  <2>6. \E x : Upto(x, c + 1)
    <3> HIDE DEF Upto
    <3> QED BY <2>5
  <2> HIDE DEF Upto
  <2> QED
    BY <2>2, <2>6
<1>3. X = Nat
  <2> HIDE DEF X
  <2>1. X \subseteq Nat
    BY DEF X
  <2> QED
    BY <1>1, <1>2, <2>1, NatSet
<1>4. ASSUME NEW c \in Nat, NEW d \in Nat, NEW u, NEW v, Upto(u, c), Upto(v, d), c <= d
      PROVE  u[c] = v[c]
  <2> DEFINE Y == {n \in Nat : n <= c => u[n] = v[n]}
  <2>1. Y = Nat
    <3>1. 0 \in Y
      BY <1>4
    <3>2. ASSUME NEW n \in Y
          PROVE  n + 1 \in Y
      <4>1. CASE n + 1 <= c
        <5>1. n \in 0 .. c - 1 /\ n \in 0 .. d - 1 /\ n <= c
          BY <1>4, <4>1
        <5> QED
          BY <1>4, <5>1
      <4> QED
        BY <4>1
    <3> HIDE DEF Y
    <3>3. Y \subseteq Nat
      BY DEF Y
    <3> QED
      BY <3>1, <3>2, <3>3, NatSet
  <2> QED
    BY <2>1
<1> DEFINE at(c) == CHOOSE v : Upto(v, c)
           w == [n \in Nat |-> at(n)[n]]
<1>5. \A c \in Nat : Upto(at(c), c)
  BY <1>3
<1>6. ASSUME NEW n \in Nat
      PROVE  w[n] \in S /\ w[n + 1] = step[w[n]]
  <2> HIDE DEF at
  <2>1. Upto(at(n), n) /\ Upto(at(n + 1), n + 1)
    <3> HIDE DEF Upto
    <3>1. n + 1 \in Nat
      OBVIOUS
    <3> QED
      BY <1>5, <3>1
  <2>2. at(n)[n] = at(n + 1)[n]
    BY SMTT(30), <1>4, <2>1
  <2>3. n \in 0 .. n /\ n \in 0 .. (n + 1) - 1 /\ n + 1 \in Nat
    OBVIOUS
  <2>4. at(n)[n] \in S /\ at(n + 1)[n + 1] = step[at(n + 1)[n]]
    BY <2>1, <2>3
  <2>5. w[n] = at(n)[n] /\ w[n + 1] = at(n + 1)[n + 1]
    <3> HIDE DEF Upto
    <3> QED BY <2>3
  <2> HIDE DEF w, Upto
  <2> QED
    BY <2>2, <2>4, <2>5
<1>7. w[0] = a
  BY <1>5
<1> HIDE DEF w
<1> QED
  <2>1. w \in [Nat -> S]
    BY <1>6 DEF w
  <2> QED
    BY <1>6, <1>7, <2>1 DEF Walks

------------------------------------------------------------------------------
(* What Filter keeps. *)

\* The elements of a sequence and of what is appended to it.
LEMMA AppendKeeps ==
    ASSUME NEW S, NEW s \in Seq(S), NEW x \in S
    PROVE  /\ Append(s, x) \in Seq(S)
           /\ ToSet(Append(s, x)) = ToSet(s) \cup {x}
           /\ IsInjective(s) /\ x \notin ToSet(s) => IsInjective(Append(s, x))
<1>1. /\ Len(s) \in Nat /\ Append(s, x) \in Seq(S) /\ Len(Append(s, x)) = Len(s) + 1
      /\ DOMAIN s = 1 .. Len(s) /\ DOMAIN Append(s, x) = 1 .. Len(s) + 1
  OBVIOUS
<1>2. \A i \in 1 .. Len(s) + 1 : Append(s, x)[i] = IF i = Len(s) + 1 THEN x ELSE s[i]
  OBVIOUS
<1>3. ToSet(Append(s, x)) = ToSet(s) \cup {x}
  BY <1>1, <1>2 DEF ToSet
<1>4. IsInjective(s) /\ x \notin ToSet(s) => IsInjective(Append(s, x))
  BY <1>1, <1>2 DEF ToSet, IsInjective
<1> QED
  BY <1>1, <1>3, <1>4

\* Induction on sequences: a set of them with the empty one and, with s,
\* whatever comes of s by appending has them all.
LEMMA SeqSet ==
    ASSUME NEW S, NEW X, <<>> \in X, \A s \in Seq(S) : s \in X => \A x \in S : Append(s, x) \in X
    PROVE  Seq(S) \subseteq X
<1> DEFINE N == {n \in Nat : \A s \in Seq(S) : Len(s) = n => s \in X}
<1>1. 0 \in N
  <2>1. \A s \in Seq(S) : Len(s) = 0 => s = <<>>
    OBVIOUS
  <2> QED
    BY <2>1
<1>2. ASSUME NEW n \in N
      PROVE  n + 1 \in N
  <2>1. n \in Nat /\ \A s \in Seq(S) : Len(s) = n => s \in X
    OBVIOUS
  <2>2. ASSUME NEW s \in Seq(S), Len(s) = n + 1
        PROVE  s \in X
    <3> DEFINE front == [i \in 1 .. n |-> s[i]]
    <3>1. front \in Seq(S) /\ Len(front) = n /\ s[n + 1] \in S
      BY <2>1, <2>2
    <3>2. \A i \in 1 .. n : front[i] = s[i]
      OBVIOUS
    <3> HIDE DEF front
    <3>3. s = Append(front, s[n + 1])
      BY <2>1, <2>2, <3>1, <3>2
    <3> QED
      BY <2>1, <3>1, <3>3
  <2> HIDE DEF N
  <2> QED
    BY <2>1, <2>2 DEF N
<1>3. N = Nat
  <2>1. N \subseteq Nat
    OBVIOUS
  <2> HIDE DEF N
  <2> QED
    BY <1>1, <1>2, <2>1, NatSet
<1> QED
  <2> SUFFICES ASSUME NEW s \in Seq(S)
               PROVE  s \in X
    OBVIOUS
  <2>1. Len(s) \in N
    <3> HIDE DEF N
    <3> QED BY <1>3
  <2> QED
    BY <2>1

KeptBy(list, gone, kept, c) ==
    kept = [n \in 0 .. c |->
              IF n = 0 THEN <<>>
              ELSE IF list[n] \in gone THEN kept[n - 1] ELSE Append(kept[n - 1], list[n])]

\* There is a function that Filter is the last value of.
LEMMA KeptExists ==
    ASSUME NEW list, NEW gone, Len(list) \in Nat
    PROVE  \E kept : KeptBy(list, gone, kept, Len(list)) /\ Filter(list, gone) = kept[Len(list)]
<1> DEFINE X == {c \in Nat : \E kept : KeptBy(list, gone, kept, c)}
<1>1. 0 \in X
  <2>1. KeptBy(list, gone, [n \in 0 .. 0 |-> <<>>], 0)
    BY DEF KeptBy
  <2> QED
    BY <2>1
<1>2. ASSUME NEW c \in X
      PROVE  c + 1 \in X
  <2>1. c \in Nat /\ \E kept : KeptBy(list, gone, kept, c)
    OBVIOUS
  <2>2. PICK kept : KeptBy(list, gone, kept, c)
    BY <2>1
  <2> DEFINE more == [n \in 0 .. c + 1 |->
                        IF n = 0 THEN <<>>
                        ELSE IF list[n] \in gone THEN kept[n - 1] ELSE Append(kept[n - 1], list[n])]
  <2>3. \A n \in 0 .. c : more[n] = kept[n]
    <3>1. 0 .. c \subseteq 0 .. c + 1
      BY <2>1
    <3> QED
      BY <2>2, <3>1 DEF KeptBy
  <2>4. \A n \in 0 .. c + 1 : n # 0 => n - 1 \in 0 .. c
    BY <2>1
  <2>5. more = [n \in 0 .. c + 1 |->
                  IF n = 0 THEN <<>>
                  ELSE IF list[n] \in gone THEN more[n - 1] ELSE Append(more[n - 1], list[n])]
    BY <2>3, <2>4
  <2> HIDE DEF more
  <2>6. KeptBy(list, gone, more, c + 1)
    BY <2>5 DEF KeptBy
  <2> QED
    BY <2>1, <2>6
<1>3. X = Nat
  <2> HIDE DEF X
  <2>1. X \subseteq Nat
    BY DEF X
  <2> QED
    BY <1>1, <1>2, <2>1, NatSet
<1>4. \E k : KeptBy(list, gone, k, Len(list))
  BY <1>3
<1>5. Filter(list, gone) = (CHOOSE k : KeptBy(list, gone, k, Len(list)))[Len(list)]
  BY DEF Filter, KeptBy
<1> QED
  BY <1>4, <1>5

\* What it keeps of a beginning depends on that beginning only.
LEMMA KeptAgree ==
    ASSUME NEW l1, NEW l2, NEW gone, NEW c1 \in Nat, NEW c2 \in Nat, NEW k1, NEW k2,
           KeptBy(l1, gone, k1, c1), KeptBy(l2, gone, k2, c2), c1 <= c2,
           \A i \in 1 .. c1 : l1[i] = l2[i]
    PROVE  k1[c1] = k2[c1]
<1> DEFINE X == {n \in Nat : n <= c1 => k1[n] = k2[n]}
<1>1. 0 \in X
  BY DEF KeptBy
<1>2. ASSUME NEW n \in X
      PROVE  n + 1 \in X
  <2>1. CASE n + 1 <= c1
    <3>1. n \in Nat /\ n + 1 \in 0 .. c1 /\ n + 1 \in 0 .. c2 /\ n + 1 # 0 /\ (n + 1) - 1 = n
      BY <2>1
    <3>2. k1[n] = k2[n] /\ l1[n + 1] = l2[n + 1]
      BY <2>1, <3>1
    <3>3. k1[n + 1] = IF l1[n + 1] \in gone THEN k1[n] ELSE Append(k1[n], l1[n + 1])
      BY <3>1 DEF KeptBy
    <3>4. k2[n + 1] = IF l2[n + 1] \in gone THEN k2[n] ELSE Append(k2[n], l2[n + 1])
      BY <3>1 DEF KeptBy
    <3> QED
      BY <3>1, <3>2, <3>3, <3>4
  <2> QED
    BY <2>1
<1>3. X = Nat
  <2> HIDE DEF X
  <2>1. X \subseteq Nat
    BY DEF X
  <2> QED
    BY <1>1, <1>2, <2>1, NatSet
<1> QED
  BY <1>3

LEMMA FilterEmpty == ASSUME NEW gone PROVE Filter(<<>>, gone) = <<>>
<1>1. Len(<<>>) = 0
  OBVIOUS
<1>2. PICK kept : KeptBy(<<>>, gone, kept, 0) /\ Filter(<<>>, gone) = kept[0]
  BY <1>1, KeptExists
<1> QED
  BY <1>2 DEF KeptBy

\* Filter looks at one element after the other.
LEMMA FilterSteps ==
    ASSUME NEW S, NEW list \in Seq(S), NEW x \in S, NEW gone
    PROVE  Filter(Append(list, x), gone) =
             IF x \in gone THEN Filter(list, gone) ELSE Append(Filter(list, gone), x)
<1> DEFINE long == Append(list, x)
           n == Len(list)
<1>1. n \in Nat /\ Len(long) = n + 1 /\ long[n + 1] = x /\ \A i \in 1 .. n : list[i] = long[i]
  OBVIOUS
<1> HIDE DEF long, n
<1>2. PICK kept : KeptBy(list, gone, kept, n) /\ Filter(list, gone) = kept[n]
  BY <1>1, KeptExists DEF n
<1>3. PICK more : KeptBy(long, gone, more, n + 1) /\ Filter(long, gone) = more[n + 1]
  <2>1. n + 1 \in Nat
    BY <1>1
  <2> QED
    BY <1>1, <2>1, KeptExists
<1>4. kept[n] = more[n]
  BY <1>1, <1>2, <1>3, KeptAgree
<1>5. more[n + 1] = IF long[n + 1] \in gone THEN more[n] ELSE Append(more[n], long[n + 1])
  <2>1. n + 1 \in 0 .. n + 1 /\ n + 1 # 0 /\ (n + 1) - 1 = n
    BY <1>1
  <2> QED
    BY <1>3, <2>1 DEF KeptBy
<1>6. Filter(long, gone) = IF x \in gone THEN Filter(list, gone) ELSE Append(Filter(list, gone), x)
  BY <1>1, <1>2, <1>3, <1>4, <1>5
<1> QED
  BY <1>6 DEF long

\* Filter drops what is gone and nothing else, and repeats nothing.
LEMMA KeptIs ==
    ASSUME NEW S, NEW list \in Seq(S), NEW gone
    PROVE  /\ Filter(list, gone) \in Seq(S)
           /\ Len(Filter(list, gone)) <= Len(list)
           /\ ToSet(Filter(list, gone)) = ToSet(list) \ gone
           /\ IsInjective(list) => IsInjective(Filter(list, gone))
<1> DEFINE Fit(s, q) == /\ q \in Seq(S) /\ Len(q) <= Len(s) /\ ToSet(q) = ToSet(s) \ gone
                        /\ IsInjective(s) => IsInjective(q)
           X == {s \in Seq(S) : Fit(s, Filter(s, gone))}
<1>1. <<>> \in X
  <2>1. <<>> \in Seq(S) /\ Len(<<>>) = 0 /\ ToSet(<<>>) = {} /\ IsInjective(<<>>)
    BY DEF ToSet, IsInjective
  <2>2. Filter(<<>>, gone) = <<>>
    BY FilterEmpty
  <2>3. Fit(<<>>, <<>>)
    BY <2>1
  <2> HIDE DEF Fit
  <2> QED
    BY <2>1, <2>2, <2>3
<1>2. ASSUME NEW s \in Seq(S), s \in X, NEW x \in S
      PROVE  Append(s, x) \in X
  <2> DEFINE q == Filter(s, gone)
             r == Filter(Append(s, x), gone)
  <2>1. Fit(s, q)
    BY <1>2
  <2>2. r = IF x \in gone THEN q ELSE Append(q, x)
    BY FilterSteps
  <2>3. /\ Append(s, x) \in Seq(S) /\ Len(Append(s, x)) = Len(s) + 1 /\ Len(s) \in Nat
        /\ ToSet(Append(s, x)) = ToSet(s) \cup {x}
    BY AppendKeeps
  <2>4. IsInjective(Append(s, x)) => IsInjective(s) /\ x \notin ToSet(s)
    <3>1. DOMAIN s = 1 .. Len(s) /\ DOMAIN Append(s, x) = 1 .. Len(s) + 1
      BY <2>3
    <3>2. \A i \in 1 .. Len(s) + 1 : Append(s, x)[i] = IF i = Len(s) + 1 THEN x ELSE s[i]
      OBVIOUS
    <3> QED
      BY <2>3, <3>1, <3>2 DEF IsInjective, ToSet
  <2> HIDE DEF q, r
  <2>5. ASSUME x \in gone PROVE Fit(Append(s, x), r)
    BY <2>1, <2>2, <2>3, <2>4, <2>5
  <2>6. ASSUME x \notin gone PROVE Fit(Append(s, x), r)
    <3>1. /\ Append(q, x) \in Seq(S) /\ Len(Append(q, x)) = Len(q) + 1 /\ Len(q) \in Nat
          /\ ToSet(Append(q, x)) = ToSet(q) \cup {x}
          /\ IsInjective(q) /\ x \notin ToSet(q) => IsInjective(Append(q, x))
      BY <2>1, AppendKeeps
    <3> QED
      BY <2>1, <2>2, <2>3, <2>4, <2>6, <3>1
  <2>7. Fit(Append(s, x), r)
    BY <2>5, <2>6
  <2> QED
    BY <2>3, <2>7 DEF r
<1>3. Seq(S) \subseteq X
  <2> HIDE DEF X
  <2> QED BY <1>1, <1>2, SeqSet
<1> QED
  BY <1>3

\* Only what the list has of them matters.
LEMMA FilterSame ==
    ASSUME NEW S, NEW list \in Seq(S), NEW A, NEW B, \A x \in ToSet(list) : x \in A <=> x \in B
    PROVE  Filter(list, A) = Filter(list, B)
<1> DEFINE X == {s \in Seq(S) : (\A x \in ToSet(s) : x \in A <=> x \in B) => Filter(s, A) = Filter(s, B)}
<1>1. <<>> \in X
  BY FilterEmpty
<1>2. ASSUME NEW s \in Seq(S), s \in X, NEW x \in S
      PROVE  Append(s, x) \in X
  <2>1. Append(s, x) \in Seq(S) /\ ToSet(Append(s, x)) = ToSet(s) \cup {x}
    BY AppendKeeps
  <2>2. /\ Filter(Append(s, x), A) = IF x \in A THEN Filter(s, A) ELSE Append(Filter(s, A), x)
        /\ Filter(Append(s, x), B) = IF x \in B THEN Filter(s, B) ELSE Append(Filter(s, B), x)
    BY FilterSteps
  <2> QED
    BY <1>2, <2>1, <2>2
<1>3. Seq(S) \subseteq X
  <2> HIDE DEF X
  <2> QED BY <1>1, <1>2, SeqSet
<1> QED
  BY <1>3

\* Filtering twice drops what either drops.
LEMMA FilterTwice ==
    ASSUME NEW S, NEW list \in Seq(S), NEW A, NEW B
    PROVE  Filter(Filter(list, A), B) = Filter(list, A \cup B)
<1> DEFINE X == {s \in Seq(S) : Filter(Filter(s, A), B) = Filter(s, A \cup B)}
<1>1. <<>> \in X
  BY FilterEmpty
<1>2. ASSUME NEW s \in Seq(S), s \in X, NEW x \in S
      PROVE  Append(s, x) \in X
  <2>1. /\ Filter(Append(s, x), A) = IF x \in A THEN Filter(s, A) ELSE Append(Filter(s, A), x)
        /\ Filter(Append(s, x), A \cup B) =
             IF x \in A \cup B THEN Filter(s, A \cup B) ELSE Append(Filter(s, A \cup B), x)
    BY FilterSteps
  <2>2. Filter(s, A) \in Seq(S) /\ Append(s, x) \in Seq(S)
    BY KeptIs
  <2>3. Filter(Append(Filter(s, A), x), B) =
             IF x \in B THEN Filter(Filter(s, A), B) ELSE Append(Filter(Filter(s, A), B), x)
    BY <2>2, FilterSteps
  <2> QED
    BY <1>2, <2>1, <2>2, <2>3
<1>3. Seq(S) \subseteq X
  <2> HIDE DEF X
  <2> QED BY <1>1, <1>2, SeqSet
<1> QED
  BY <1>3

------------------------------------------------------------------------------
(* Labels: types, and what a step does to a label that has been used. *)

Used == {l \in LabelIDs : labels[l].st # "unused"}

\* The list has the labels there are, also while a handler hangs.
ListedLive == ToSet(labelIDs) = Live

LabelStates ==
    [st : {"unused", "live", "deleted"}, name : Names \cup {Root}, type : Types \cup {"none"},
     parent : LabelIDs \cup {Root}]

RequestStates ==
    [kind : {"none", "post", "put"}, id : LabelIDs \cup {Root}, name : Names \cup {Root},
     type : Types \cup {"none"}, parent : LabelIDs \cup {Root}]

\* No step forgets a label, changes its type or brings it back.
LabelsMove ==
    /\ Used \subseteq Used'
    /\ \A l \in Used : labels'[l].type = labels[l].type /\ (l \in Live' => l \in Live)

LEMMA LabelsTypesInit ==
    ASSUME LabelsInit
    PROVE  LabelsTypeOK /\ ListedLive
<1>1. IsInjective(labelIDs) /\ ToSet(labelIDs) = {} /\ labelIDs \in Seq(LabelIDs)
  BY DEF LabelsInit, IsInjective, ToSet
<1>2. labels \in [LabelIDs -> LabelStates] /\ request \in [Handlers -> RequestStates]
  BY DEF LabelsInit, Unused, NoRequest, LabelStates, RequestStates
<1>3. Live = {}
  BY DEF LabelsInit, Unused, Live
<1> QED
  BY <1>1, <1>2, <1>3 DEF LabelsInit, LabelsTypeOK, ListedLive, LabelStates, RequestStates

LEMMA CheckPostKeepsTypes ==
    ASSUME LabelsTypeOK, ListedLive, NEW h \in Handlers, CheckPost(h)
    PROVE  LabelsTypeOK' /\ ListedLive' /\ LabelsMove
<1>1. request' \in [Handlers -> RequestStates]
  BY DEF CheckPost, LabelsTypeOK, RequestStates
<1> QED
  BY <1>1 DEF CheckPost, LabelsTypeOK, RequestStates, ListedLive, Live, LabelsMove, Used

LEMMA CheckPutKeepsTypes ==
    ASSUME LabelsTypeOK, ListedLive, NEW h \in Handlers, CheckPut(h)
    PROVE  LabelsTypeOK' /\ ListedLive' /\ LabelsMove
<1>1. request' \in [Handlers -> RequestStates]
  BY DEF CheckPut, LabelsTypeOK, RequestStates
<1> QED
  BY <1>1 DEF CheckPut, LabelsTypeOK, RequestStates, ListedLive, Live, LabelsMove, Used

LEMMA PostLabelKeepsTypes ==
    ASSUME LabelsTypeOK, ListedLive, NEW h \in Handlers, PostLabel(h)
    PROVE  LabelsTypeOK' /\ ListedLive' /\ LabelsMove
<1>1. request' \in [Handlers -> RequestStates]
  BY DEF PostLabel, LabelsTypeOK, RequestStates, NoRequest
<1>2. CASE UNCHANGED <<labels, labelIDs>>
  BY <1>1, <1>2 DEF PostLabel, LabelsTypeOK, RequestStates, ListedLive, Live, LabelsMove, Used
<1>3. ASSUME NEW l \in LabelIDs, CreateLabel(h, l)
      PROVE  LabelsTypeOK' /\ ListedLive' /\ LabelsMove
  <2>1. labels[l].st = "unused" /\ l \notin ToSet(labelIDs)
    BY <1>3 DEF CreateLabel, Unused, ListedLive, Live
  <2>2. /\ labelIDs' \in Seq(LabelIDs) /\ IsInjective(labelIDs')
        /\ ToSet(labelIDs') = ToSet(labelIDs) \cup {l}
    BY <1>3, <2>1, AppendKeeps DEF CreateLabel, LabelsTypeOK
  <2>3. [st |-> "live", name |-> request[h].name, type |-> request[h].type, parent |-> request[h].parent]
           \in LabelStates
    BY DEF LabelsTypeOK, LabelStates
  <2>4. labels' \in [LabelIDs -> LabelStates]
    BY <1>3, <2>3 DEF CreateLabel, LabelsTypeOK, LabelStates
  <2>5. \A k \in LabelIDs : IF k = l THEN labels'[k].st = "live" ELSE labels'[k] = labels[k]
    BY <1>3 DEF CreateLabel, LabelsTypeOK
  <2>6. LabelsMove
    BY <2>1, <2>5 DEF LabelsMove, Used, Live
  <2>7. ListedLive'
    BY <2>2, <2>5 DEF ListedLive, Live
  <2> QED
    BY <1>1, <2>2, <2>4, <2>6, <2>7 DEF PostLabel, LabelsTypeOK, LabelStates, RequestStates
<1> QED
  BY <1>2, <1>3 DEF PostLabel

LEMMA RenamedLabel ==
    ASSUME NEW r \in LabelStates, NEW name \in Names \cup {Root}, NEW parent \in LabelIDs \cup {Root}
    PROVE  LET put == [r EXCEPT !.name = name, !.parent = parent]
           IN  put \in LabelStates /\ put.st = r.st /\ put.type = r.type
  BY DEF LabelStates

LEMMA PutLabelKeepsTypes ==
    ASSUME LabelsTypeOK, ListedLive, NEW h \in Handlers, PutLabel(h)
    PROVE  LabelsTypeOK' /\ ListedLive' /\ LabelsMove
<1>1. request' \in [Handlers -> RequestStates]
  BY DEF PutLabel, LabelsTypeOK, RequestStates, NoRequest
<1>2. CASE UNCHANGED <<labels, labelIDs, hung>>
  BY <1>1, <1>2 DEF PutLabel, LabelsTypeOK, RequestStates, ListedLive, Live, LabelsMove, Used
<1>3. CASE /\ request[h].id \in Live
           /\ labels' = [labels EXCEPT ![request[h].id].name = request[h].name,
                                       ![request[h].id].parent = request[h].parent]
           /\ hung' \in BOOLEAN /\ UNCHANGED labelIDs
  <2>1. PICK id \in LabelIDs, name \in Names \cup {Root}, parent \in LabelIDs \cup {Root} :
           id \in Live /\ labels' = [labels EXCEPT ![id].name = name, ![id].parent = parent]
    BY <1>3 DEF LabelsTypeOK, Live
  <2>2. labels \in [LabelIDs -> LabelStates]
    BY DEF LabelsTypeOK, LabelStates
  <2> DEFINE put == [labels[id] EXCEPT !.name = name, !.parent = parent]
  <2>3. put \in LabelStates /\ put.st = labels[id].st /\ put.type = labels[id].type
    BY ZenonT(60), <2>2, RenamedLabel
  <2>4. labels' = [labels EXCEPT ![id] = put]
    BY <2>1
  <2> HIDE DEF put
  <2>5. /\ labels' \in [LabelIDs -> LabelStates]
        /\ \A k \in LabelIDs : labels'[k].st = labels[k].st /\ labels'[k].type = labels[k].type
    BY <2>2, <2>3, <2>4
  <2>6. LabelsMove /\ ListedLive'
    BY <1>3, <2>5 DEF LabelsMove, ListedLive, Used, Live
  <2> QED
    BY <1>1, <1>3, <2>5, <2>6 DEF LabelsTypeOK, LabelStates, RequestStates
<1> QED
  BY <1>2, <1>3 DEF PutLabel, KeepList

LEMMA DeleteLabelKeepsTypes ==
    ASSUME LabelsTypeOK, ListedLive, NEW l \in LabelIDs, DeleteLabel(l)
    PROVE  LabelsTypeOK' /\ ListedLive' /\ LabelsMove
<1>1. /\ labelIDs' \in Seq(LabelIDs) /\ IsInjective(labelIDs')
      /\ ToSet(labelIDs') = ToSet(labelIDs) \ ToDelete(l)
  BY KeptIs DEF DeleteLabel, LabelsTypeOK
<1>2. \A d \in LabelIDs : d \notin ToDelete(l) => labels'[d] = labels[d]
  BY DEF DeleteLabel
<1>3. \A d \in ToDelete(l) :
         /\ labels[d].st = "live" /\ labels'[d].st = "deleted"
         /\ labels'[d].type = labels[d].type /\ labels'[d] \in LabelStates
  <2> SUFFICES ASSUME NEW d \in ToDelete(l)
               PROVE  /\ labels[d].st = "live" /\ labels'[d].st = "deleted"
                      /\ labels'[d].type = labels[d].type /\ labels'[d] \in LabelStates
    OBVIOUS
  <2>1. d \in LabelIDs /\ labels[d].st = "live" /\ labels[d].type \in Types \cup {"none"}
    BY DEF ToDelete, Live, LabelsTypeOK
  <2>2. labels'[d] = [st |-> "deleted", name |-> Root, type |-> labels[d].type, parent |-> Root]
    BY <2>1 DEF DeleteLabel
  <2> QED
    BY <2>1, <2>2 DEF LabelStates
<1>4. labels' \in [LabelIDs -> LabelStates]
  <2>1. \A d \in LabelIDs : labels'[d] \in LabelStates
    BY <1>2, <1>3 DEF LabelsTypeOK, LabelStates
  <2> QED
    BY <2>1 DEF DeleteLabel
<1>5. LabelsMove
  BY <1>2, <1>3 DEF LabelsMove, Used, Live
<1>6. ListedLive'
  BY <1>1, <1>2, <1>3 DEF ListedLive, Live
<1> QED
  BY <1>1, <1>4, <1>5, <1>6 DEF DeleteLabel, LabelsTypeOK, LabelStates, RequestStates

LEMMA LabelsKeepTypes ==
    ASSUME LabelsTypeOK, ListedLive, LabelsNext
    PROVE  LabelsTypeOK' /\ ListedLive' /\ LabelsMove
  BY CheckPostKeepsTypes, CheckPutKeepsTypes, PostLabelKeepsTypes, PutLabelKeepsTypes, DeleteLabelKeepsTypes
     DEF LabelsNext

------------------------------------------------------------------------------
(* The paths of labels. *)

\* A non-empty set of naturals has a least element.
LEMMA LeastOf ==
    ASSUME NEW X, X \subseteq Nat, X # {}
    PROVE  \E x \in X : \A y \in X : x <= y
<1> DEFINE R == OpToRel(<, Nat)
<1>1. IsWellFoundedOn(R, Nat)
  BY NatLessThanWellFounded
<1>2. \A x, y \in Nat : y < x => <<y, x>> \in R
  BY DEF OpToRel
<1> HIDE DEF R
<1>3. PICK x \in X : \A y \in X : ~(<<y, x>> \in R)
  BY <1>1, WFMin
<1>4. \A y \in X : ~(y < x)
  BY <1>2, <1>3
<1>5. \A y \in X : x <= y
  BY <1>4
<1> QED
  BY <1>5

\* Where a path can come by.
Nodes == LabelIDs \cup {Root}

\* One step of toLabel's walk.
Up(ls, x) == IF x = Root THEN Root ELSE ls[x].parent

\* Above is the walk.
LEMMA AboveIs ==
    ASSUME NEW ls \in [LabelIDs -> LabelStates], NEW l \in Nodes
    PROVE  /\ Above(ls, l, 0) = l
           /\ \A n \in Nat : /\ Above(ls, l, n) \in Nodes
                             /\ Above(ls, l, n + 1) = Up(ls, Above(ls, l, n))
<1> DEFINE step == [x \in Nodes |-> Up(ls, x)]
<1>1. step \in [Nodes -> Nodes]
  BY LabelAssumption DEF Up, Nodes, LabelStates
<1>2. PICK w \in [Nat -> Nodes] : Walks(step, l, w)
  <2> HIDE DEF step
  <2> QED BY <1>1, WalkExists
<1>3. w[0] = l /\ \A n \in Nat : w[n] \in Nodes /\ w[n + 1] = Up(ls, w[n])
  BY <1>2 DEF Walks
<1>4. ASSUME NEW n \in Nat
      PROVE  Above(ls, l, n) = w[n]
  <2> DEFINE IsPath(up) == up = [k \in 0 .. n |-> IF k = 0 THEN l
                                                  ELSE IF up[k - 1] = Root THEN Root ELSE ls[up[k - 1]].parent]
             path == CHOOSE up : IsPath(up)
             short == [k \in 0 .. n |-> w[k]]
  <2>1. IsPath(short)
    <3>1. \A k \in 0 .. n : k # 0 => /\ k - 1 \in 0 .. n /\ k - 1 \in Nat /\ (k - 1) + 1 = k
      OBVIOUS
    <3>2. \A k \in 0 .. n : short[k] = IF k = 0 THEN l
                                       ELSE IF short[k - 1] = Root THEN Root ELSE ls[short[k - 1]].parent
      BY <1>3, <3>1 DEF Up
    <3> QED
      BY <3>2
  <2>2. IsPath(path)
    <3> HIDE DEF IsPath, short
    <3> QED BY <2>1
  <2>3. Above(ls, l, n) = path[n]
    BY DEF Above
  <2> HIDE DEF path
  <2> DEFINE X == {k \in Nat : k <= n => path[k] = w[k]}
  <2>4. 0 \in X
    BY <1>3, <2>2
  <2>5. ASSUME NEW k \in X
        PROVE  k + 1 \in X
    <3>1. CASE k + 1 <= n
      <4>1. k \in Nat /\ k + 1 \in 0 .. n /\ k + 1 # 0 /\ (k + 1) - 1 = k /\ k <= n
        BY <3>1
      <4>2. path[k + 1] = IF path[k] = Root THEN Root ELSE ls[path[k]].parent
        BY <2>2, <4>1
      <4> QED
        BY <1>3, <4>1, <4>2 DEF Up
    <3> QED
      BY <3>1
  <2>6. X = Nat
    <3> HIDE DEF X
    <3>1. X \subseteq Nat
      BY DEF X
    <3> QED
      BY <2>4, <2>5, <3>1, NatSet
  <2> QED
    BY <2>3, <2>6
<1> QED
  <2>1. \A n \in Nat : n + 1 \in Nat
    OBVIOUS
  <2> QED
    BY <1>3, <1>4, <2>1

\* A walk goes on from where it is.
LEMMA AboveSplits ==
    ASSUME NEW ls \in [LabelIDs -> LabelStates], NEW l \in Nodes, NEW i \in Nat
    PROVE  \A j \in Nat : Above(ls, Above(ls, l, i), j) = Above(ls, l, i + j)
<1> DEFINE a == Above(ls, l, i)
           X == {j \in Nat : Above(ls, a, j) = Above(ls, l, i + j)}
<1>1. a \in Nodes
  BY AboveIs
<1>2. 0 \in X
  BY <1>1, AboveIs
<1>3. ASSUME NEW j \in X
      PROVE  j + 1 \in X
  <2>1. j \in Nat /\ i + j \in Nat /\ i + (j + 1) = (i + j) + 1 /\ Above(ls, a, j) = Above(ls, l, i + j)
    OBVIOUS
  <2>2. Above(ls, a, j + 1) = Up(ls, Above(ls, a, j))
    BY <1>1, <2>1, AboveIs
  <2>3. Above(ls, l, (i + j) + 1) = Up(ls, Above(ls, l, i + j))
    BY <2>1, AboveIs
  <2> QED
    BY <2>1, <2>2, <2>3
<1>4. X = Nat
  <2> HIDE DEF X
  <2>1. X \subseteq Nat
    BY DEF X
  <2> QED
    BY <1>2, <1>3, <2>1, NatSet
<1> QED
  BY <1>4

\* It ends at the root.
LEMMA RootStays ==
    ASSUME NEW ls \in [LabelIDs -> LabelStates], NEW l \in Nodes, NEW i \in Nat, NEW n \in Nat,
           Above(ls, l, i) = Root, i <= n
    PROVE  Above(ls, l, n) = Root
<1> DEFINE X == {j \in Nat : Above(ls, l, i + j) = Root}
<1>1. 0 \in X
  OBVIOUS
<1>2. ASSUME NEW j \in X
      PROVE  j + 1 \in X
  <2>1. j \in Nat /\ i + j \in Nat /\ i + (j + 1) = (i + j) + 1 /\ Above(ls, l, i + j) = Root
    OBVIOUS
  <2>2. Above(ls, l, (i + j) + 1) = Root
    BY <2>1, AboveIs DEF Up
  <2> QED
    BY <2>1, <2>2
<1>3. X = Nat
  <2> HIDE DEF X
  <2>1. X \subseteq Nat
    BY DEF X
  <2> QED
    BY <1>1, <1>2, <2>1, NatSet
<1>4. n - i \in Nat /\ i + (n - i) = n
  OBVIOUS
<1>5. Above(ls, l, i + (n - i)) = Root
  BY <1>3, <1>4
<1> QED
  BY <1>4, <1>5

\* Two walks agree as long as the labels on the way have the same parents.
LEMMA SameWalk ==
    ASSUME NEW ls \in [LabelIDs -> LabelStates], NEW ms \in [LabelIDs -> LabelStates], NEW l \in Nodes,
           NEW c \in Nat,
           \A n \in 0 .. c - 1 : Above(ls, l, n) # Root => ms[Above(ls, l, n)].parent = ls[Above(ls, l, n)].parent
    PROVE  \A n \in 0 .. c : Above(ms, l, n) = Above(ls, l, n)
<1> DEFINE X == {n \in Nat : n <= c => Above(ms, l, n) = Above(ls, l, n)}
<1>1. 0 \in X
  BY AboveIs
<1>2. ASSUME NEW n \in X
      PROVE  n + 1 \in X
  <2>1. CASE n + 1 <= c
    <3>1. n \in Nat /\ n \in 0 .. c - 1 /\ Above(ms, l, n) = Above(ls, l, n)
      BY <2>1
    <3>2. Above(ms, l, n + 1) = Up(ms, Above(ls, l, n)) /\ Above(ls, l, n + 1) = Up(ls, Above(ls, l, n))
      BY <3>1, AboveIs
    <3>3. Above(ms, l, n + 1) = Above(ls, l, n + 1)
      BY <3>1, <3>2 DEF Up
    <3> QED
      BY <3>1, <3>3
  <2> QED
    BY <2>1
<1>3. X = Nat
  <2> HIDE DEF X
  <2>1. X \subseteq Nat
    BY DEF X
  <2> QED
    BY <1>1, <1>2, <2>1, NatSet
<1> QED
  BY <1>3

LEMMA DepthIsNat == Depth \in Nat
  BY FS_CardinalityType, LabelAssumption DEF Depth

\* A walk that ends at all ends within as many steps as there are labels: a
\* longer one would meet a label twice and could be cut short.
LEMMA EndsInTime ==
    ASSUME NEW ls \in [LabelIDs -> LabelStates], NEW l \in Nodes, NEW c \in Nat, Above(ls, l, c) = Root
    PROVE  Ends(ls, l)
<1> DEFINE X == {n \in Nat : Above(ls, l, n) = Root}
<1>1. PICK n \in X : \A k \in X : n <= k
  <2> HIDE DEF X
  <2>1. X \subseteq Nat /\ X # {}
    BY DEF X
  <2> QED
    BY <2>1, LeastOf
<1>2. n \in Nat /\ Above(ls, l, n) = Root /\ Depth \in Nat
  BY <1>1, DepthIsNat
<1>3. CASE n <= Depth
  BY <1>2, <1>3, RootStays DEF Ends
<1>4. ASSUME Depth < n
      PROVE  FALSE
  <2> DEFINE f == [i \in 0 .. Depth |-> Above(ls, l, i)]
  <2>1. f \in [0 .. Depth -> LabelIDs]
    <3> SUFFICES ASSUME NEW i \in 0 .. Depth
                 PROVE  Above(ls, l, i) \in LabelIDs
      OBVIOUS
    <3>1. i \in Nat /\ ~(n <= i)
      BY <1>2, <1>4
    <3> QED
      BY <1>1, <3>1, AboveIs DEF Nodes
  <2>2. IsFiniteSet(0 .. Depth) /\ Cardinality(0 .. Depth) = Depth + 1
    BY <1>2, FS_Interval
  <2>3. PICK i, j \in 0 .. Depth : i < j /\ Above(ls, l, i) = Above(ls, l, j)
    <3> HIDE DEF f
    <3>1. Cardinality(LabelIDs) < Cardinality(0 .. Depth)
      BY <1>2, <2>2 DEF Depth
    <3>2. PICK i, j \in 0 .. Depth : i # j /\ f[i] = f[j]
      BY <2>1, <2>2, <3>1, LabelAssumption, FS_PigeonHole
    <3>3. Above(ls, l, i) = Above(ls, l, j)
      BY <3>2 DEF f
    <3>4. i < j \/ j < i
      BY <3>2, <1>2
    <3> QED
      BY <3>3, <3>4
  <2>4. /\ i \in Nat /\ j \in Nat /\ n - j \in Nat /\ i + (n - j) \in Nat /\ j + (n - j) = n
        /\ i + (n - j) < n
    BY <1>2, <1>4, <2>3
  <2>5. Above(ls, l, i + (n - j)) = Above(ls, l, n)
    <3>1. Above(ls, Above(ls, l, i), n - j) = Above(ls, l, i + (n - j))
      BY <2>4, AboveSplits
    <3>2. Above(ls, Above(ls, l, j), n - j) = Above(ls, l, j + (n - j))
      BY <2>4, AboveSplits
    <3> QED
      BY <2>3, <2>4, <3>1, <3>2
  <2>6. i + (n - j) \in X
    BY <1>2, <2>4, <2>5
  <2> QED
    BY <1>1, <1>2, <2>4, <2>6
<1> QED
  BY <1>2, <1>3, <1>4

------------------------------------------------------------------------------
(* The tree of labels. *)

\* Every label hangs on one that is there or on the root, and below the root.
Rooted == \A l \in Live : labels[l].parent \in Live \cup {Root} /\ Ends(labels, l)

LabelsInv == LabelsTypeOK /\ ListedLive /\ (~hung => Rooted)

\* The path of a label comes by labels that are there.
LEMMA PathIsLive ==
    ASSUME LabelsTypeOK, Rooted, NEW l \in Live \cup {Root}
    PROVE  \A n \in Nat : Above(labels, l, n) \in Live \cup {Root}
<1> DEFINE X == {n \in Nat : Above(labels, l, n) \in Live \cup {Root}}
<1>1. labels \in [LabelIDs -> LabelStates] /\ l \in Nodes
  BY DEF LabelsTypeOK, LabelStates, Nodes, Live
<1>2. 0 \in X
  BY <1>1, AboveIs
<1>3. ASSUME NEW n \in X
      PROVE  n + 1 \in X
  <2>1. Above(labels, l, n + 1) = Up(labels, Above(labels, l, n))
    BY <1>1, AboveIs
  <2> QED
    BY <2>1 DEF Up, Rooted
<1>4. X = Nat
  <2> HIDE DEF X
  <2>1. X \subseteq Nat
    BY DEF X
  <2> QED
    BY <1>2, <1>3, <2>1, NatSet
<1> QED
  BY <1>4

\* A label whose path the step leaves alone keeps its way to the root.
LEMMA PathKept ==
    ASSUME LabelsTypeOK, LabelsTypeOK', Rooted, NEW l \in Live,
           \A n \in Nat : Above(labels, l, n) # Root
              => labels'[Above(labels, l, n)].parent = labels[Above(labels, l, n)].parent
    PROVE  Ends(labels', l)
<1>1. /\ labels \in [LabelIDs -> LabelStates] /\ labels' \in [LabelIDs -> LabelStates]
      /\ l \in Nodes /\ Depth \in Nat /\ Above(labels, l, Depth) = Root
  BY DepthIsNat DEF LabelsTypeOK, LabelStates, Nodes, Live, Rooted, Ends
<1>2. \A n \in 0 .. Depth : Above(labels', l, n) = Above(labels, l, n)
  <2>1. \A n \in 0 .. Depth - 1 : n \in Nat
    OBVIOUS
  <2> QED
    BY <1>1, <2>1, SameWalk
<1> QED
  BY <1>1, <1>2 DEF Ends

LEMMA CreateKeepsRooted ==
    ASSUME LabelsTypeOK, LabelsTypeOK', Rooted, NEW h \in Handlers, NEW c \in LabelIDs, CreateLabel(h, c)
    PROVE  Rooted'
<1> DEFINE p == request[h].parent
<1>1. /\ labels \in [LabelIDs -> LabelStates] /\ labels' \in [LabelIDs -> LabelStates]
      /\ c \notin Live /\ c \in Live' /\ labels'[c].parent = p /\ p \in Live \cup {Root} /\ c # Root
      /\ \A l \in LabelIDs \ {c} : labels'[l] = labels[l]
  BY LabelAssumption DEF LabelsTypeOK, LabelStates, CreateLabel, Unused, Live, ParentAllowed
<1>2. Live' = Live \cup {c}
  BY <1>1 DEF Live
<1> HIDE DEF p
<1>3. \A l \in Live \cup {Root}, n \in Nat : Above(labels, l, n) # Root
         => labels'[Above(labels, l, n)].parent = labels[Above(labels, l, n)].parent
  BY <1>1, PathIsLive DEF Live
<1>4. \A l \in Live : Ends(labels', l)
  BY <1>3, PathKept
<1>5. Ends(labels', c)
  <2>1. c \in Nodes /\ p \in Nodes /\ Depth \in Nat
    BY <1>1, DepthIsNat DEF Nodes, Live
  <2>2. Above(labels', c, 1) = p
    BY <1>1, <2>1, AboveIs DEF Up
  <2>3. Above(labels', p, Depth) = Root
    <3>1. CASE p = Root
      BY <1>1, <2>1, <3>1, AboveIs, RootStays
    <3>2. CASE p \in Live
      <4>1. Ends(labels', p)
        BY <1>4, <3>2
      <4> QED
        BY <4>1 DEF Ends
    <3> QED
      BY <1>1, <3>1, <3>2
  <2>4. 1 \in Nat /\ 1 + Depth \in Nat
    BY <2>1
  <2>5. Above(labels', c, 1 + Depth) = Above(labels', Above(labels', c, 1), Depth)
    BY <1>1, <2>1, <2>4, AboveSplits
  <2> QED
    BY <1>1, <2>1, <2>2, <2>3, <2>4, <2>5, EndsInTime
<1>6. ASSUME NEW l \in Live'
      PROVE  labels'[l].parent \in Live' \cup {Root} /\ Ends(labels', l)
  <2>1. CASE l = c
    BY <1>1, <1>2, <1>5, <2>1
  <2>2. CASE l \in Live
    <3>1. labels'[l].parent = labels[l].parent /\ labels[l].parent \in Live \cup {Root}
      BY <1>1, <2>2 DEF Rooted, Live
    <3> QED
      BY <1>2, <1>4, <2>2, <3>1
  <2> QED
    BY <1>2, <1>6, <2>1, <2>2
<1> QED
  BY <1>6 DEF Rooted

LEMMA PutKeepsRooted ==
    ASSUME LabelsTypeOK, LabelsTypeOK', Rooted, NEW h \in Handlers, PutLabel(h), ~hung, ~hung'
    PROVE  Rooted'
<1> DEFINE d == request[h].id
<1>1. CASE UNCHANGED <<labels, labelIDs, hung>>
  BY <1>1 DEF Rooted, Live
<1>2. CASE /\ d \in Live /\ request[h].parent \in Live \cup {Root}
           /\ labels' = [labels EXCEPT ![d].name = request[h].name, ![d].parent = request[h].parent]
           /\ Ends(labels', d)
  <2>1. /\ labels \in [LabelIDs -> LabelStates] /\ labels' \in [LabelIDs -> LabelStates] /\ d \in Nodes
        /\ labels'[d].parent \in Live \cup {Root} /\ Live' = Live /\ Depth \in Nat
        /\ \A l \in LabelIDs \ {d} : labels'[l] = labels[l]
    BY <1>2, DepthIsNat DEF LabelsTypeOK, LabelStates, Live, Nodes
  <2>2. Above(labels', d, Depth) = Root
    BY <1>2 DEF Ends
  <2> HIDE DEF d
  <2>3. ASSUME NEW l \in Live
        PROVE  Ends(labels', l)
    <3> DEFINE X == {n \in Nat : Above(labels, l, n) = d}
    <3>1. l \in Nodes /\ \A n \in Nat : Above(labels, l, n) \in Live \cup {Root}
      BY PathIsLive DEF Nodes, Live
    <3>2. CASE X = {}
      <4>1. \A n \in Nat : Above(labels, l, n) # Root
               => labels'[Above(labels, l, n)].parent = labels[Above(labels, l, n)].parent
        BY <2>1, <3>1, <3>2 DEF Live
      <4> QED
        BY <4>1, PathKept
    <3>3. CASE X # {}
      <4>1. PICK n \in X : \A k \in X : n <= k
        <5> HIDE DEF X
        <5>1. X \subseteq Nat
          BY DEF X
        <5> QED
          BY <3>3, <5>1, LeastOf
      <4>2. n \in Nat /\ Above(labels, l, n) = d
        BY <4>1
      <4>3. \A k \in 0 .. n - 1 : k \in Nat /\ Above(labels, l, k) # d
        BY <4>1, <4>2
      <4>4. Above(labels', l, n) = d
        <5>1. \A k \in 0 .. n - 1 : Above(labels, l, k) # Root
                 => labels'[Above(labels, l, k)].parent = labels[Above(labels, l, k)].parent
          BY <2>1, <3>1, <4>3 DEF Live
        <5>2. \A k \in 0 .. n : Above(labels', l, k) = Above(labels, l, k)
          BY <2>1, <3>1, <4>2, <5>1, SameWalk
        <5> QED
          BY <4>2, <5>2
      <4>5. Above(labels', l, n + Depth) = Root /\ n + Depth \in Nat
        BY <2>1, <2>2, <3>1, <4>2, <4>4, AboveSplits
      <4> QED
        BY <2>1, <3>1, <4>5, EndsInTime
    <3> QED
      BY <3>2, <3>3
  <2> QED
    BY <2>1, <2>3 DEF Rooted, Live
<1> QED
  BY <1>1, <1>2 DEF PutLabel, ParentAllowed

LEMMA DeleteKeepsRooted ==
    ASSUME LabelsTypeOK, LabelsTypeOK', Rooted, NEW c \in LabelIDs, DeleteLabel(c)
    PROVE  Rooted'
<1>1. /\ labels \in [LabelIDs -> LabelStates] /\ c \in Live /\ c # Root /\ Depth \in Nat
      /\ \A l \in LabelIDs \ ToDelete(c) : labels'[l] = labels[l]
  BY LabelAssumption, DepthIsNat DEF LabelsTypeOK, LabelStates, DeleteLabel
<1>2. Live' = Live \ ToDelete(c)
  BY DEF DeleteLabel, Live
<1>3. ASSUME NEW l \in Live \ ToDelete(c), NEW n \in Nat
      PROVE  Above(labels, l, n) \in (Live \ ToDelete(c)) \cup {Root}
  <2>1. l \in Nodes /\ Above(labels, l, n) \in Live \cup {Root}
    BY PathIsLive DEF Nodes, Live
  <2>2. ASSUME Above(labels, l, n) \in ToDelete(c)
        PROVE  FALSE
    <3>1. PICK k \in 0 .. Depth : Above(labels, Above(labels, l, n), k) = c
      BY <2>2 DEF ToDelete
    <3>2. k \in Nat /\ n + k \in Nat /\ Above(labels, l, n + k) = c
      BY <1>1, <2>1, <3>1, AboveSplits
    <3>3. n + k \in 0 .. Depth
      <4>1. Above(labels, l, Depth) = Root
        BY DEF Rooted, Ends
      <4>2. ~(Depth <= n + k)
        BY <1>1, <2>1, <3>2, <4>1, RootStays
      <4> QED
        BY <1>1, <3>2, <4>2
    <3> QED
      BY <3>2, <3>3 DEF ToDelete
  <2> QED
    BY <2>1, <2>2
<1>4. ASSUME NEW l \in Live \ ToDelete(c)
      PROVE  Ends(labels', l)
  <2>1. \A n \in Nat : Above(labels, l, n) # Root
           => labels'[Above(labels, l, n)].parent = labels[Above(labels, l, n)].parent
    BY <1>1, <1>3 DEF Live
  <2> QED
    BY <2>1, PathKept
<1>5. ASSUME NEW l \in Live \ ToDelete(c)
      PROVE  labels'[l].parent \in (Live \ ToDelete(c)) \cup {Root}
  <2>1. l \in Nodes /\ l # Root /\ labels'[l] = labels[l]
    BY <1>1, LabelAssumption DEF Nodes, Live
  <2>2. Above(labels, l, 1) = labels[l].parent
    BY <1>1, <2>1, AboveIs DEF Up
  <2> QED
    BY <1>3, <2>1, <2>2
<1> QED
  BY <1>2, <1>4, <1>5 DEF Rooted

LEMMA LabelsInvStep == LabelsInv /\ [LabelsNext]_labelVars => LabelsInv'
<1> SUFFICES ASSUME LabelsInv, [LabelsNext]_labelVars
             PROVE  LabelsInv'
  OBVIOUS
<1>1. CASE UNCHANGED labelVars
  BY <1>1 DEF LabelsInv, LabelsTypeOK, ListedLive, Rooted, Live, labelVars
<1>2. CASE LabelsNext
  <2>1. LabelsTypeOK' /\ ListedLive' /\ ~hung /\ Rooted
    BY <1>2, LabelsKeepTypes DEF LabelsInv, LabelsNext
  <2>2. ASSUME NEW h \in Handlers, CheckPost(h) \/ CheckPut(h)
        PROVE  Rooted'
    BY <2>1, <2>2 DEF CheckPost, CheckPut, Rooted, Live
  <2>3. ASSUME NEW h \in Handlers, PostLabel(h)
        PROVE  Rooted'
    <3>1. CASE UNCHANGED <<labels, labelIDs>>
      BY <2>1, <3>1 DEF Rooted, Live
    <3> QED
      BY <2>1, <2>3, <3>1, CreateKeepsRooted DEF PostLabel, LabelsInv
  <2> QED
    BY <1>2, <2>1, <2>2, <2>3, PutKeepsRooted, DeleteKeepsRooted DEF LabelsNext, LabelsInv
<1> QED
  BY <1>1, <1>2

\* The labels there are and the list of them fit together, whatever is created,
\* moved and deleted: each has a path to the root over labels that are there,
\* which GetLabels can build, unless an update has made a circle and hangs
\* (api.go, CreateLabel, UpdateLabel and DeleteLabel; label.go, toLabel).
THEOREM LabelsAreIntact == LabelsSpec => []LabelsIntact
<1>1. LabelsInit => LabelsInv
  <2>1. SUFFICES ASSUME LabelsInit
                 PROVE  LabelsInv
    OBVIOUS
  <2>2. Live = {}
    BY <2>1 DEF LabelsInit, Live, Unused
  <2> QED
    BY <2>1, <2>2, LabelsTypesInit DEF LabelsInv, LabelsInit, Rooted, ListedLive
<1>2. ASSUME LabelsInv
      PROVE  LabelsIntact
  <2>1. ASSUME ~hung, NEW l \in Live
        PROVE  Ends(labels, l) /\ Complete(labels, l)
    <3>1. \A n \in Nat : Above(labels, l, n) \in Live \cup {Root}
      BY <1>2, <2>1, PathIsLive DEF LabelsInv
    <3>2. \A n \in 0 .. Depth : n \in Nat
      BY DepthIsNat
    <3> QED
      BY <1>2, <2>1, <3>1, <3>2 DEF LabelsInv, Rooted, Complete, Live
  <2> QED
    BY <1>2, <2>1 DEF LabelsInv, LabelsIntact, ListingWorks, ListedLive
<1> QED
  BY <1>1, <1>2, LabelsInvStep, PTL DEF LabelsSpec

------------------------------------------------------------------------------
(* Messages: the invariant. *)

MessageStates ==
    [st : {"unused", "live", "deleted"}, labelIDs : SUBSET LabelIDs, sys : Places \cup {"flags", "none"}]

ImportStates ==
    [pc : {"idle", "check", "create", "label", "done", "failed"}, list : Seq(Labellings), at : 0 .. MaxImported,
     exclusive : 0 .. MaxImported, msg : MessageIDs \cup {Root}]

FoldersIn(msg) == {l \in msg.labelIDs : labels[l].type # "label"}

\* A message carries labels that are or were there, and is in one place.
Placed(msg) ==
    /\ msg.labelIDs \subseteq Used
    /\ msg.sys # "none" => FoldersIn(msg) = {}
    /\ \A l, k \in FoldersIn(msg) : l = k

\* An import has counted no more labels than it has looked at, and knows no
\* message before it has made one.
ImportsFit ==
    \A i \in Imports :
        /\ Len(imports[i].list) <= MaxImported
        /\ imports[i].at <= Len(imports[i].list)
        /\ imports[i].pc = "idle" => imports[i].at = 0 /\ imports[i].exclusive = 0
        /\ imports[i].pc = "check" => imports[i].exclusive <= imports[i].at
        /\ imports[i].pc \in {"idle", "check", "create"} => imports[i].msg = Root

MailInv ==
    /\ TypeOK /\ ListedLive
    /\ \A m \in MessageIDs : Placed(messages[m])
    /\ ImportsFit
    /\ Announced

\* The types of messages and imports, by name.
LEMMA MailTypes ==
    TypeOK <=> /\ LabelsTypeOK
               /\ messages \in [MessageIDs -> MessageStates]
               /\ unlogged \subseteq LiveMessages
               /\ imports \in [Imports -> ImportStates]
  BY DEF TypeOK, MessageStates, ImportStates

LEMMA MailInvInit == Init => MailInv
<1> SUFFICES ASSUME Init
             PROVE  MailInv
  OBVIOUS
<1>1. LabelsTypeOK /\ ListedLive
  BY LabelsTypesInit DEF Init
<1>2. messages \in [MessageIDs -> MessageStates] /\ unlogged = {}
  BY DEF Init, NoMessage, MessageStates
<1>3. NoImport \in ImportStates
  BY MailAssumption DEF NoImport, ImportStates
<1>4. imports \in [Imports -> ImportStates] /\ ImportsFit
  BY <1>3, MailAssumption DEF Init, ImportsFit, NoImport
<1>5. \A m \in MessageIDs : Placed(messages[m])
  BY DEF Init, NoMessage, Placed, FoldersIn
<1> QED
  BY <1>1, <1>2, <1>4, <1>5, MailTypes DEF MailInv, Announced

\* What is changed of a message is changed and the rest is not.
LEMMA MessageEdits ==
    ASSUME NEW msg \in MessageStates, NEW ls \in SUBSET LabelIDs, NEW s \in Places \cup {"flags", "none"}
    PROVE  /\ [msg EXCEPT !.labelIDs = ls, !.sys = s] = [st |-> msg.st, labelIDs |-> ls, sys |-> s]
           /\ [msg EXCEPT !.labelIDs = ls] = [st |-> msg.st, labelIDs |-> ls, sys |-> msg.sys]
           /\ [msg EXCEPT !.sys = s] = [st |-> msg.st, labelIDs |-> msg.labelIDs, sys |-> s]
           /\ [st |-> msg.st, labelIDs |-> ls, sys |-> s] \in MessageStates
<1>1. PICK st, labelIDs0, sys : msg = [st |-> st, labelIDs |-> labelIDs0, sys |-> sys]
  BY DEF MessageStates
<1>2. [msg EXCEPT !.labelIDs = ls] = [st |-> msg.st, labelIDs |-> ls, sys |-> msg.sys]
  BY <1>1
<1>3. [msg EXCEPT !.labelIDs = ls, !.sys = s] = [st |-> msg.st, labelIDs |-> ls, sys |-> s]
  <2> DEFINE one == [msg EXCEPT !.labelIDs = ls]
  <2>1. [msg EXCEPT !.labelIDs = ls, !.sys = s] = [one EXCEPT !.sys = s]
    OBVIOUS
  <2>2. one = [st |-> msg.st, labelIDs |-> ls, sys |-> msg.sys]
    BY <1>2
  <2> HIDE DEF one
  <2>3. [one EXCEPT !.sys = s] = [st |-> msg.st, labelIDs |-> ls, sys |-> s]
    BY <2>2
  <2> QED
    BY <2>1, <2>3
<1>4. [msg EXCEPT !.sys = s] = [st |-> msg.st, labelIDs |-> msg.labelIDs, sys |-> s]
  BY <1>1
<1>5. [st |-> msg.st, labelIDs |-> ls, sys |-> s] \in MessageStates
  BY DEF MessageStates
<1> QED
  BY <1>2, <1>3, <1>4, <1>5

\* Adding a label leaves a message in one place.
LEMMA WithIsPlaced ==
    ASSUME NEW msg \in MessageStates, Placed(msg), NEW l \in Labellings
    PROVE  With(msg, l) \in MessageStates /\ Placed(With(msg, l)) /\ With(msg, l).st = msg.st
<1>1. /\ Plain(msg.labelIDs) \subseteq LabelIDs
      /\ Plain(msg.labelIDs) \subseteq Used
      /\ \A k \in Plain(msg.labelIDs) : labels[k].type = "label"
  BY DEF Plain, Placed, Used
<1>2. CASE l = "inbox"
  <2>1. With(msg, l) = [msg EXCEPT !.labelIDs = Plain(@), !.sys = "flags"]
    BY <1>2, MailAssumption DEF With, Live, SystemLabels, Places
  <2>2. With(msg, l) = [st |-> msg.st, labelIDs |-> Plain(msg.labelIDs), sys |-> "flags"]
    BY <1>1, <2>1, MessageEdits
  <2> QED
    BY <1>1, <2>2 DEF MessageStates, Placed, FoldersIn
<1>3. CASE l \in Places
  <2>1. With(msg, l) = [msg EXCEPT !.labelIDs = Plain(@), !.sys = l]
    BY <1>3, MailAssumption DEF With, Live, SystemLabels, Places
  <2>2. With(msg, l) = [st |-> msg.st, labelIDs |-> Plain(msg.labelIDs), sys |-> l]
    BY ZenonT(60), <1>1, <1>3, <2>1, MessageEdits
  <2> QED
    BY <1>1, <1>3, <2>2 DEF MessageStates, Placed, FoldersIn
<1>4. CASE l \in Live /\ labels[l].type = "label"
  <2>1. l \in LabelIDs /\ l \notin Places /\ l # "inbox" /\ l \in Used
    BY <1>4, MailAssumption DEF Live, SystemLabels, Used
  <2>2. With(msg, l) = [msg EXCEPT !.labelIDs = @ \cup {l}]
    BY <1>4, <2>1 DEF With
  <2>3. With(msg, l).labelIDs = msg.labelIDs \cup {l} /\ With(msg, l).sys = msg.sys /\ With(msg, l).st = msg.st
    BY <2>2 DEF MessageStates
  <2>4. FoldersIn(With(msg, l)) = FoldersIn(msg)
    BY <1>4, <2>3 DEF FoldersIn
  <2>5. With(msg, l) \in MessageStates
    BY <2>1, <2>2 DEF MessageStates
  <2> QED
    BY <2>1, <2>3, <2>4, <2>5 DEF Placed
<1>5. CASE l \in Live /\ labels[l].type # "label"
  <2>1. l \in LabelIDs /\ l \notin Places /\ l # "inbox" /\ l \in Used
    BY <1>5, MailAssumption DEF Live, SystemLabels, Used
  <2>2. With(msg, l) = [msg EXCEPT !.labelIDs = Plain(@) \cup {l}, !.sys = "none"]
    BY <1>5, <2>1 DEF With, WithFolder
  <2>3. With(msg, l) = [st |-> msg.st, labelIDs |-> Plain(msg.labelIDs) \cup {l}, sys |-> "none"]
    <3>1. Plain(msg.labelIDs) \cup {l} \in SUBSET LabelIDs
      BY <1>1, <2>1
    <3> QED
      BY ZenonT(60), <2>2, <3>1, MessageEdits
  <2> QED
    BY <1>1, <2>1, <2>3 DEF MessageStates, Placed, FoldersIn
<1>6. CASE l # "inbox" /\ l \notin Places /\ l \notin Live
  BY <1>6 DEF With
<1> QED
  BY <1>2, <1>3, <1>4, <1>5, <1>6

\* So does removing one.
LEMMA WithoutIsPlaced ==
    ASSUME NEW msg \in MessageStates, Placed(msg), NEW l \in Labellings
    PROVE  Without(msg, l) \in MessageStates /\ Placed(Without(msg, l)) /\ Without(msg, l).st = msg.st
<1>1. CASE l = "inbox"
  <2>1. Without(msg, l) = [msg EXCEPT !.sys = IF @ = "flags" THEN "none" ELSE @]
    BY <1>1, MailAssumption DEF Without, Live, SystemLabels, Places
  <2> QED
    BY <2>1 DEF MessageStates, Placed, FoldersIn
<1>2. CASE l \in Places
  <2>1. Without(msg, l) = [msg EXCEPT !.sys = IF @ = l THEN "none" ELSE @]
    BY <1>2, MailAssumption DEF Without, Live, SystemLabels, Places
  <2> QED
    BY <2>1 DEF MessageStates, Placed, FoldersIn
<1>3. CASE l \in Live
  <2>1. l \in LabelIDs /\ l \notin Places /\ l # "inbox"
    BY <1>3, MailAssumption DEF Live, SystemLabels
  <2>2. Without(msg, l) = [msg EXCEPT !.labelIDs = @ \ {l}]
    BY <1>3, <2>1 DEF Without
  <2> QED
    BY <2>2 DEF MessageStates, Placed, FoldersIn
<1>4. CASE l # "inbox" /\ l \notin Places /\ l \notin Live
  BY <1>4 DEF Without
<1> QED
  BY <1>1, <1>2, <1>3, <1>4

------------------------------------------------------------------------------
(* Messages: the steps. *)

\* The labels change and the messages do not.
LEMMA LabelsStepKeepsMail ==
    ASSUME MailInv, LabelsNext, UNCHANGED mailVars
    PROVE  MailInv'
<1> USE DEF MailInv, mailVars
<1>1. LabelsTypeOK' /\ ListedLive' /\ LabelsMove
  BY LabelsKeepTypes, MailTypes
<1>2. TypeOK'
  BY <1>1, MailTypes DEF TypeOK, LiveMessages
<1>3. \A m \in MessageIDs : Placed(messages[m])'
  BY <1>1 DEF Placed, FoldersIn, LabelsMove
<1>4. Announced'
  BY <1>1, MailTypes DEF Announced, Stranded, Placed, LabelsMove, LiveMessages
<1> QED
  BY <1>1, <1>2, <1>3, <1>4 DEF ImportsFit

\* What is done to some messages and logged.
LEMMA LoggedKeepsMail ==
    ASSUME MailInv, UNCHANGED <<labelVars, imports>>, NEW done,
           messages' \in [MessageIDs -> MessageStates],
           \A m \in MessageIDs : Placed(messages'[m]),
           \A m \in MessageIDs \ done : messages'[m] = messages[m],
           unlogged' = unlogged \ done
    PROVE  MailInv'
<1> USE DEF MailInv, labelVars
<1>1. Live' = Live /\ Used' = Used
  BY DEF Live, Used
<1>2. unlogged' \subseteq LiveMessages'
  BY MailTypes DEF LiveMessages
<1>3. LabelsTypeOK' /\ ListedLive' /\ imports' \in [Imports -> ImportStates]
  BY <1>1, MailTypes DEF LabelsTypeOK, ListedLive
<1>4. TypeOK'
  BY <1>2, <1>3 DEF TypeOK, MessageStates, ImportStates, LiveMessages
<1>5. \A m \in MessageIDs : Placed(messages[m])'
  BY <1>1 DEF Placed, FoldersIn
<1>6. Announced'
  BY <1>1, MailTypes DEF Announced, Stranded, LiveMessages
<1> QED
  BY <1>3, <1>4, <1>5, <1>6 DEF ImportsFit

LEMMA LabelMessagesKeepsMail ==
    ASSUME MailInv, NEW l \in Labellings, NEW list \in Lists, LabelMessages(l, list)
    PROVE  MailInv'
<1> DEFINE done == Before(list, {m \in LiveMessages : AddPanics(l, m)}) \cap LiveMessages
<1>1. /\ messages' = [m \in MessageIDs |-> IF m \in done THEN With(messages[m], l) ELSE messages[m]]
      /\ unlogged' = unlogged \ done /\ UNCHANGED <<labelVars, imports>>
  BY DEF LabelMessages, Log, Events
<1> HIDE DEF done
<1>2. \A m \in MessageIDs : messages'[m] \in MessageStates /\ Placed(messages'[m])
  BY <1>1, WithIsPlaced, MailTypes DEF MailInv
<1>3. messages' \in [MessageIDs -> MessageStates]
  BY <1>1, <1>2
<1> QED
  BY <1>1, <1>2, <1>3, LoggedKeepsMail

LEMMA UnlabelMessagesKeepsMail ==
    ASSUME MailInv, NEW l \in Labellings, NEW list \in Lists, UnlabelMessages(l, list)
    PROVE  MailInv'
<1> DEFINE done == Before(list, RemovePanics(l, list))
<1>1. /\ messages' = [m \in MessageIDs |-> IF m \in done THEN Without(messages[m], l) ELSE messages[m]]
      /\ unlogged' = unlogged \ done /\ UNCHANGED <<labelVars, imports>>
  BY DEF UnlabelMessages, Log
<1> HIDE DEF done
<1>2. \A m \in MessageIDs : messages'[m] \in MessageStates /\ Placed(messages'[m])
  BY <1>1, WithoutIsPlaced, MailTypes DEF MailInv
<1>3. messages' \in [MessageIDs -> MessageStates]
  BY <1>1, <1>2
<1> QED
  BY <1>1, <1>2, <1>3, LoggedKeepsMail

LEMMA SetMessagesKeepsMail ==
    ASSUME MailInv, NEW list \in Lists, SetMessages(list)
    PROVE  MailInv'
<1>1. PICK done : unlogged' = unlogged \ done
  BY DEF SetMessages, Log
<1>2. UNCHANGED <<labelVars, imports>> /\ messages' = messages
  BY DEF SetMessages
<1> QED
  BY <1>1, <1>2, LoggedKeepsMail, MailTypes DEF MailInv

LEMMA DeleteMessageKeepsMail ==
    ASSUME MailInv, NEW m \in MessageIDs, DeleteMessage(m)
    PROVE  MailInv'
<1> DEFINE none == [NoMessage EXCEPT !.st = "deleted"]
<1>1. none \in MessageStates /\ Placed(none)
  BY DEF NoMessage, MessageStates, Placed, FoldersIn
<1>2. /\ messages' = [messages EXCEPT ![m] = none] /\ unlogged' = unlogged \ {m}
      /\ UNCHANGED <<labelVars, imports>>
  BY DEF DeleteMessage, Log
<1> HIDE DEF none
<1> QED
  BY <1>1, <1>2, LoggedKeepsMail, MailTypes DEF MailInv

\* A message just made is in one place, with a label or without.
LEMMA NewIsPlaced ==
    /\ NewMessage \in MessageStates /\ Placed(NewMessage)
    /\ With(NewMessage, "inbox") \in MessageStates /\ Placed(With(NewMessage, "inbox"))
<1>1. NewMessage \in MessageStates /\ Placed(NewMessage)
  BY DEF NewMessage, MessageStates, Placed, FoldersIn
<1>2. "inbox" \in Labellings
  BY DEF Labellings, SystemLabels
<1> QED
  BY <1>1, <1>2, WithIsPlaced

LEMMA CreateDraftKeepsMail ==
    ASSUME MailInv, NEW m \in MessageIDs, CreateDraft(m)
    PROVE  MailInv'
<1>1. /\ messages' = [messages EXCEPT ![m] = With(NewMessage, "inbox")] /\ unlogged' = unlogged \ {m}
      /\ UNCHANGED <<labelVars, imports>>
  BY DEF CreateDraft, Log
<1> QED
  BY <1>1, NewIsPlaced, LoggedKeepsMail, MailTypes DEF MailInv

LEMMA SendKeepsMail ==
    ASSUME MailInv, NEW m \in MessageIDs, Send(m)
    PROVE  MailInv'
<1>1. ASSUME NEW parent, NEW copies, SendMessage(m, parent, copies)
      PROVE  MailInv'
  <2> DEFINE done == {m} \cup parent \cup copies
  <2>1. unlogged' = unlogged \ done /\ UNCHANGED <<labelVars, imports>>
    BY <1>1 DEF Send, SendMessage, Log
  <2>2. "inbox" \in Labellings
    BY DEF Labellings, SystemLabels
  <2>3. \A c \in MessageIDs :
           /\ messages'[c] \in MessageStates /\ Placed(messages'[c])
           /\ c \notin done => messages'[c] = messages[c]
    BY <1>1, <2>2, WithIsPlaced, NewIsPlaced, MailTypes DEF SendMessage, MailInv
  <2>4. messages' \in [MessageIDs -> MessageStates]
    BY <1>1, <2>3 DEF SendMessage
  <2> HIDE DEF done
  <2> QED
    BY <2>1, <2>3, <2>4, LoggedKeepsMail
<1>2. ASSUME SendPanics(m)
      PROVE  MailInv'
  <2>1. /\ Stranded(m) /\ m \in LiveMessages /\ unlogged' = unlogged \cup {m}
        /\ UNCHANGED <<labelVars, messages, imports>>
    BY <1>2 DEF Send, SendPanics, AddPanics, Stranded, Log
  <2>2. Announced'
    BY <2>1 DEF MailInv, Announced, Stranded, Live, labelVars
  <2> QED
    BY <2>1, <2>2 DEF MailInv, TypeOK, LabelsTypeOK, ListedLive, Placed, FoldersIn, Used, Live, ImportsFit,
       LiveMessages, labelVars
<1> QED
  BY <1>1, <1>2 DEF Send

------------------------------------------------------------------------------
(* Imports: the steps. *)

\* An import moves on, and what it has logged stays excused.
LEMMA ImportMoves ==
    ASSUME MailInv, UNCHANGED labelVars, NEW i \in Imports, NEW x \in ImportStates,
           imports' = [imports EXCEPT ![i] = x],
           Len(x.list) <= MaxImported, x.at <= Len(x.list),
           x.pc = "idle" => x.at = 0 /\ x.exclusive = 0,
           x.pc = "check" => x.exclusive <= x.at,
           x.pc \in {"idle", "check", "create"} => x.msg = Root,
           messages' \in [MessageIDs -> MessageStates],
           \A m \in MessageIDs : Placed(messages'[m]),
           unlogged' \subseteq LiveMessages',
           \A m \in unlogged' :
              \/ x.msg = m /\ x.list # <<>>
              \/ /\ m \in unlogged /\ messages'[m] = messages[m]
                 /\ ~(imports[i].msg = m /\ imports[i].list # <<>>)
    PROVE  MailInv'
<1> USE DEF MailInv, labelVars
<1>1. Live' = Live /\ Used' = Used
  BY DEF Live, Used
<1>2. imports' \in [Imports -> ImportStates]
  BY MailTypes
<1>3. LabelsTypeOK' /\ ListedLive'
  BY <1>1, MailTypes DEF LabelsTypeOK, ListedLive
<1>4. TypeOK'
  BY <1>2, <1>3 DEF TypeOK, MessageStates, ImportStates, LiveMessages
<1>5. \A m \in MessageIDs : Placed(messages[m])'
  BY <1>1 DEF Placed, FoldersIn
<1>6. ImportsFit'
  BY MailTypes DEF ImportsFit
<1>7. Announced'
  <2> SUFFICES ASSUME NEW m \in unlogged',
                      ~Stranded(m)'
               PROVE  \E k \in Imports : imports'[k].msg = m /\ imports'[k].list # <<>>
    BY DEF Announced
  <2>1. imports'[i] = x
    BY MailTypes
  <2>2. CASE x.msg = m /\ x.list # <<>>
    BY <2>1, <2>2
  <2>3. CASE /\ m \in unlogged /\ messages'[m] = messages[m]
             /\ ~(imports[i].msg = m /\ imports[i].list # <<>>)
    <3>1. ~Stranded(m)
      BY <1>1, <2>3 DEF Stranded
    <3>2. PICK k \in Imports : imports[k].msg = m /\ imports[k].list # <<>>
      BY <2>3, <3>1 DEF Announced
    <3>3. imports'[k] = imports[k]
      BY <2>3, <3>2, MailTypes
    <3> QED
      BY <3>2, <3>3
  <2> QED
    BY <2>2, <2>3
<1> QED
  BY <1>3, <1>4, <1>5, <1>6, <1>7

\* An import that moves on without touching a message.
LEMMA ImportMovesAlone ==
    ASSUME MailInv, UNCHANGED <<labelVars, messages, unlogged>>, NEW i \in Imports, NEW x \in ImportStates,
           imports' = [imports EXCEPT ![i] = x],
           Len(x.list) <= MaxImported, x.at <= Len(x.list),
           x.pc = "idle" => x.at = 0 /\ x.exclusive = 0,
           x.pc = "check" => x.exclusive <= x.at,
           x.pc \in {"idle", "check", "create"} => x.msg = Root,
           \/ x.msg = imports[i].msg /\ x.list = imports[i].list
           \/ imports[i].msg = Root
    PROVE  MailInv'
<1>1. \A m \in unlogged : m # Root /\ m \in LiveMessages
  BY MailTypes, MailAssumption DEF MailInv, LiveMessages
<1> QED
  BY ZenonT(60), <1>1, ImportMoves, MailTypes DEF MailInv, LiveMessages

LEMMA StartImportKeepsMail ==
    ASSUME MailInv, NEW i \in Imports, StartImport(i)
    PROVE  MailInv'
<1>1. PICK list \in SeqOf(Labellings, MaxImported) :
         imports' = [imports EXCEPT ![i].pc = "check", ![i].list = list]
  BY DEF StartImport
<1>2. list \in Seq(Labellings) /\ Len(list) <= MaxImported /\ Len(list) \in Nat
  BY MailAssumption DEF SeqOf
<1>3. /\ imports[i] \in ImportStates /\ imports[i].msg = Root /\ imports[i].at = 0
      /\ imports[i].exclusive = 0
  BY MailTypes DEF MailInv, StartImport, ImportsFit
<1> DEFINE x == [imports[i] EXCEPT !.pc = "check", !.list = list]
<1>4. x \in ImportStates /\ x.pc = "check" /\ x.list = list /\ x.at = 0 /\ x.exclusive = 0 /\ x.msg = Root
  BY <1>2, <1>3 DEF ImportStates
<1>5. imports' = [imports EXCEPT ![i] = x]
  BY <1>1
<1> HIDE DEF x
<1>6. UNCHANGED <<labelVars, messages, unlogged>>
  BY DEF StartImport
<1>7. Len(x.list) <= MaxImported /\ x.at <= Len(x.list) /\ x.exclusive <= x.at
  BY <1>2, <1>4
<1> QED
  BY <1>3, <1>4, <1>5, <1>6, <1>7, ImportMovesAlone

LEMMA CheckLabelKeepsMail ==
    ASSUME MailInv, NEW i \in Imports, CheckLabel(i)
    PROVE  MailInv'
<1> DEFINE old == imports[i]
<1>1. /\ old \in ImportStates /\ old.pc = "check" /\ old.msg = Root /\ old.at <= Len(old.list)
      /\ Len(old.list) <= MaxImported /\ old.exclusive <= old.at
  BY MailTypes DEF MailInv, CheckLabel, ImportsFit
<1>2. /\ old.at \in Nat /\ old.exclusive \in Nat /\ Len(old.list) \in Nat /\ MaxImported \in Nat
      /\ old.list \in Seq(Labellings)
  BY <1>1, MailAssumption DEF ImportStates
<1>3. PICK x : /\ imports' = [imports EXCEPT ![i] = x]
               /\ \/ x = [old EXCEPT !.pc = "failed", !.at = 0]
                  \/ x = [old EXCEPT !.pc = "create", !.at = 0]
                  \/ /\ old.at # Len(old.list)
                     /\ \E e \in {0, 1} : x = [old EXCEPT !.at = old.at + 1, !.exclusive = @ + e]
                  \/ x = [old EXCEPT !.pc = "failed"]
  BY DEF CheckLabel
<1> HIDE DEF old
<1>4. /\ x \in ImportStates /\ x.list = old.list /\ x.msg = Root /\ x.at <= Len(x.list)
      /\ x.pc \in {"failed", "create", "check"} /\ (x.pc = "check" => x.exclusive <= x.at)
  <2>1. ASSUME NEW p \in {"failed", "create"}, x = [old EXCEPT !.pc = p, !.at = 0]
        PROVE  /\ x \in ImportStates /\ x.list = old.list /\ x.msg = Root /\ x.at = 0 /\ x.pc = p
    <3>1. 0 \in 0 .. MaxImported /\ p \in {"idle", "check", "create", "label", "done", "failed"}
      BY <1>2
    <3>2. x \in ImportStates
      BY <1>1, <2>1, <3>1 DEF ImportStates
    <3> QED
      BY <1>1, <2>1, <3>2 DEF ImportStates
  <2>2. CASE x = [old EXCEPT !.pc = "failed"]
    BY <1>1, <1>2, <2>2 DEF ImportStates
  <2>3. ASSUME old.at # Len(old.list), NEW e \in {0, 1}, x = [old EXCEPT !.at = old.at + 1, !.exclusive = @ + e]
        PROVE  /\ x \in ImportStates /\ x.list = old.list /\ x.msg = Root /\ x.at <= Len(x.list)
               /\ x.pc \in {"failed", "create", "check"} /\ (x.pc = "check" => x.exclusive <= x.at)
    <3>1. old.at + 1 \in 0 .. MaxImported /\ old.exclusive + e \in 0 .. MaxImported
          /\ old.at + 1 <= Len(old.list) /\ old.exclusive + e <= old.at + 1
      BY <1>1, <1>2, <2>3
    <3> QED
      BY <1>1, <2>3, <3>1 DEF ImportStates
  <2> QED
    BY <1>1, <1>2, <1>3, <2>1, <2>2, <2>3
<1> QED
  BY <1>1, <1>3, <1>4, ImportMovesAlone DEF CheckLabel, old

LEMMA CreateMessageKeepsMail ==
    ASSUME MailInv, NEW i \in Imports, CreateMessage(i)
    PROVE  MailInv'
<1>1. PICK m \in MessageIDs :
         /\ imports' = [imports EXCEPT ![i].pc = "label", ![i].msg = m]
         /\ \/ /\ messages[m] = NoMessage
               /\ messages' = [messages EXCEPT ![m] = NewMessage]
               /\ unlogged' = unlogged \ {m}
            \/ UNCHANGED <<messages, unlogged>>
  BY DEF CreateMessage, Log
<1>2. /\ imports[i] \in ImportStates /\ imports[i].msg = Root /\ imports[i].at <= Len(imports[i].list)
      /\ Len(imports[i].list) <= MaxImported
  BY MailTypes DEF MailInv, CreateMessage, ImportsFit
<1> DEFINE x == [imports[i] EXCEPT !.pc = "label", !.msg = m]
<1>3. /\ x \in ImportStates /\ x.pc = "label" /\ x.list = imports[i].list /\ x.at = imports[i].at
      /\ imports' = [imports EXCEPT ![i] = x]
  BY <1>1, <1>2 DEF ImportStates
<1>4. UNCHANGED labelVars
  BY DEF CreateMessage
<1> HIDE DEF x
<1>5. \A k \in unlogged : k # Root /\ k \in LiveMessages
  BY MailTypes, MailAssumption DEF MailInv, LiveMessages
<1>6. CASE UNCHANGED <<messages, unlogged>>
  BY <1>2, <1>3, <1>4, <1>6, ImportMovesAlone
<1>7. CASE /\ messages' = [messages EXCEPT ![m] = NewMessage]
           /\ unlogged' = unlogged \ {m}
  <2>1. /\ messages' \in [MessageIDs -> MessageStates]
        /\ \A k \in MessageIDs : Placed(messages'[k])
        /\ unlogged' \subseteq LiveMessages'
        /\ \A k \in unlogged' : k \in unlogged /\ messages'[k] = messages[k] /\ imports[i].msg # k
    BY <1>2, <1>5, <1>7, NewIsPlaced, MailTypes DEF MailInv, LiveMessages
  <2> QED
    BY <1>2, <1>3, <1>4, <2>1, ImportMoves
<1> QED
  BY <1>1, <1>6, <1>7

LEMMA LabelImportedKeepsMail ==
    ASSUME MailInv, NEW i \in Imports, LabelImported(i)
    PROVE  MailInv'
<1> DEFINE old == imports[i]
           m == old.msg
           l == old.list[old.at + 1]
<1>1. /\ old \in ImportStates /\ old.pc = "label" /\ old.at <= Len(old.list) /\ Len(old.list) <= MaxImported
      /\ old.at \in Nat /\ Len(old.list) \in Nat /\ old.list \in Seq(Labellings) /\ UNCHANGED labelVars
  BY MailTypes, MailAssumption DEF MailInv, LabelImported, ImportsFit, ImportStates
<1>2. CASE /\ \E p \in {"done", "failed"} : imports' = [imports EXCEPT ![i].pc = p]
           /\ UNCHANGED <<messages, unlogged>>
  <2>1. PICK p \in {"done", "failed"} : imports' = [imports EXCEPT ![i].pc = p]
    BY <1>2
  <2> DEFINE x == [old EXCEPT !.pc = p]
  <2>2. /\ x \in ImportStates /\ x.pc = p /\ x.list = old.list /\ x.at = old.at /\ x.msg = old.msg
        /\ imports' = [imports EXCEPT ![i] = x]
    BY <1>1, <2>1 DEF ImportStates
  <2> HIDE DEF x
  <2> QED
    BY <1>1, <1>2, <2>2, ImportMovesAlone
<1>3. CASE /\ old.at # Len(old.list)
           /\ imports' = [imports EXCEPT ![i].at = old.at + 1]
           /\ IF m \in LiveMessages
              THEN messages' = [messages EXCEPT ![m] = With(@, l)] /\ unlogged' = unlogged \cup {m}
              ELSE UNCHANGED <<messages, unlogged>>
  <2> DEFINE x == [old EXCEPT !.at = old.at + 1]
  <2>1. old.at + 1 \in 0 .. MaxImported /\ old.at + 1 <= Len(old.list) /\ old.at + 1 \in 1 .. Len(old.list)
    <3>1. old.at # Len(old.list)
      BY <1>3
    <3> HIDE DEF old
    <3> QED
      BY <1>1, <3>1, MailAssumption
  <2>2. /\ x \in ImportStates /\ x.pc = "label" /\ x.list = old.list /\ x.at = old.at + 1 /\ x.msg = old.msg
        /\ imports' = [imports EXCEPT ![i] = x]
    BY <1>1, <1>3, <2>1 DEF ImportStates
  <2>3. l \in Labellings /\ old.list # <<>>
    BY <1>1, <2>1
  <2> HIDE DEF x
  <2>4. CASE m \notin LiveMessages
    <3> HIDE DEF l
    <3> QED
      BY <1>1, <1>3, <2>1, <2>2, <2>4, ImportMovesAlone
  <2>5. CASE m \in LiveMessages
    <3>1. With(messages[m], l) \in MessageStates /\ Placed(With(messages[m], l)) /\ With(messages[m], l).st = "live"
      BY <2>3, <2>5, WithIsPlaced, MailTypes DEF MailInv, LiveMessages
    <3>2. /\ messages' = [messages EXCEPT ![m] = With(messages[m], l)] /\ unlogged' = unlogged \cup {m}
          /\ m \in MessageIDs
      BY <1>3, <2>5 DEF LiveMessages
    <3> HIDE DEF l, m
    <3>3. messages' \in [MessageIDs -> MessageStates] /\ \A k \in MessageIDs : Placed(messages'[k])
      BY <3>1, <3>2, MailTypes DEF MailInv
    <3>4. unlogged' \subseteq LiveMessages'
      BY <2>5, <3>1, <3>2, MailTypes DEF MailInv, LiveMessages
    <3>5. \A k \in unlogged' : \/ x.msg = k /\ x.list # <<>>
                               \/ /\ k \in unlogged /\ messages'[k] = messages[k]
                                  /\ ~(old.msg = k /\ old.list # <<>>)
      BY <2>2, <2>3, <3>2, MailTypes DEF MailInv, m
    <3> QED
      BY <1>1, <2>1, <2>2, <3>3, <3>4, <3>5, ImportMoves
  <2> QED
    BY <2>4, <2>5
<1> QED
  BY <1>2, <1>3 DEF LabelImported, Log

LEMMA MailInvStep == MailInv /\ [Next]_vars => MailInv'
<1> SUFFICES ASSUME MailInv, [Next]_vars
             PROVE  MailInv'
  OBVIOUS
<1>1. CASE LabelsNext /\ UNCHANGED mailVars
  BY <1>1, LabelsStepKeepsMail
<1>2. CASE MailNext
  BY <1>2, LabelMessagesKeepsMail, UnlabelMessagesKeepsMail, SetMessagesKeepsMail, DeleteMessageKeepsMail,
     CreateDraftKeepsMail, SendKeepsMail, StartImportKeepsMail, CheckLabelKeepsMail, CreateMessageKeepsMail,
     LabelImportedKeepsMail DEF MailNext, Import
<1>3. CASE UNCHANGED vars
  <2>1. unlogged' = unlogged \ {} /\ UNCHANGED <<labelVars, imports>> /\ messages' = messages
    BY <1>3 DEF vars, mailVars
  <2> QED
    BY <2>1, LoggedKeepsMail, MailTypes DEF MailInv
<1> QED
  BY <1>1, <1>2, <1>3 DEF Next

LEMMA MailInvariance == Spec => []MailInv
  BY MailInvInit, MailInvStep, PTL DEF Spec

\* Every variable of Labels and MailLabels keeps its type; a message that is
\* not announced is one that is there.
THEOREM MailTypeCorrect == Spec => []TypeOK
<1>1. MailInv => TypeOK
  BY DEF MailInv
<1> QED
  BY <1>1, MailInvariance, PTL

\* A message is in one folder or in one system label, whatever is labelled,
\* imported, sent or deleted in between (message.go, addLabel and remLabel).
THEOREM MailIsInOnePlace == Spec => []OnePlace
<1>1. ASSUME MailInv, NEW m \in LiveMessages
      PROVE  IF messages[m].sys = "none" THEN Cardinality(Folders(m)) <= 1 ELSE Folders(m) = {}
  <2>1. Placed(messages[m]) /\ Folders(m) = FoldersIn(messages[m])
    BY <1>1 DEF MailInv, LiveMessages, Folders, FoldersIn
  <2>2. CASE Folders(m) = {}
    BY <2>2, FS_EmptySet
  <2>3. CASE Folders(m) # {} /\ messages[m].sys = "none"
    <3>1. PICK l : l \in Folders(m)
      BY <2>3
    <3>2. Folders(m) = {l}
      BY <2>1, <3>1 DEF Placed
    <3>3. Cardinality({l}) = 1
      BY FS_Singleton
    <3> QED
      BY <2>3, <3>2, <3>3
  <2> QED
    BY <2>1, <2>2, <2>3 DEF Placed
<1>2. MailInv => OnePlace
  BY <1>1 DEF OnePlace
<1> QED
  BY <1>2, MailInvariance, PTL

\* The update log tells of every change of a message, except of the labels an
\* import gives it and of a send that panics over a deleted label (api.go).
THEOREM MailIsAnnounced == Spec => []Announced
<1>1. MailInv => Announced
  BY DEF MailInv
<1> QED
  BY <1>1, MailInvariance, PTL

------------------------------------------------------------------------------
(* Addresses. *)

\* A set of naturals has a least element.
LEMMA LeastIs ==
    ASSUME NEW S, S \subseteq Nat, S # {}
    PROVE  Min(S) \in S /\ \A y \in S : Min(S) <= y
<1> DEFINE R == OpToRel(<, Nat)
<1>1. IsWellFoundedOn(R, Nat)
  BY NatLessThanWellFounded
<1>2. \A x, y \in Nat : y < x => <<y, x>> \in R
  BY DEF OpToRel
<1> HIDE DEF R
<1>3. PICK x \in S : \A y \in S : ~(<<y, x>> \in R)
  BY <1>1, WFMin
<1>4. \A y \in S : ~(y < x)
  BY <1>2, <1>3
<1>5. \E z \in S : \A y \in S : z <= y
  BY <1>3, <1>4
<1> QED
  BY <1>5 DEF Min

\* The inductive invariant.

Total == MaxOrdered
AddressOf == [st : {"unused", "live", "deleted"}, order : 0 .. Total, enabled : BOOLEAN, keys : 0 .. MaxKeys]

AddressesData ==
    /\ addresses \in [AddressIDs -> AddressOf]
    /\ ordering \in [Orderers -> AddressLists \cup {<<>>}]
    /\ toldPrimary \in AddressIDs \cup {NoAddress}
    /\ disturbed \in BOOLEAN

\* The addresses there are have a number.
Numbered == \A a \in Present : addresses[a].order # 0

AddressesInv == AddressesData /\ Numbered /\ OrderIsComplete /\ AddressesTold

LEMMA TotalIs == Total \in Nat /\ Present \subseteq AddressIDs /\ IsFiniteSet(Present) /\ Cardinality(Present) \in 0 .. Total
<1>1. Present \subseteq AddressIDs /\ Cardinality(AddressIDs) \in Nat
  BY AddressAssumption, FS_CardinalityType DEF Present
<1>2. /\ IsFiniteSet(Present) /\ Cardinality(Present) \in Nat
      /\ Cardinality(Present) <= Cardinality(AddressIDs)
  BY <1>1, AddressAssumption, FS_CardinalityType, FS_Subset
<1> QED
  BY <1>1, <1>2, AddressAssumption DEF Total

LEMMA AddressesInvInit == AddressesInit => AddressesInv
<1> SUFFICES ASSUME AddressesInit PROVE AddressesInv
  OBVIOUS
<1> USE DEF AddressesInit
<1>1. NeverUsed \in AddressOf /\ NeverUsed.st = "unused"
  BY TotalIs, AddressAssumption DEF NeverUsed, AddressOf
<1>2. Present = {} /\ Cardinality(Present) = 0
  BY <1>1, FS_EmptySet DEF Present
<1>3. AddressesData
  BY <1>1 DEF AddressesData
<1>4. OrderIsComplete
  BY <1>2 DEF OrderIsComplete
<1>5. QED
  BY <1>2, <1>3, <1>4 DEF AddressesInv, Numbered, AddressesTold

\* An address with another order, status or key is an address.
LEMMA OrderEdit ==
    ASSUME NEW r \in AddressOf, NEW n \in 0 .. Total
    PROVE  /\ [r EXCEPT !.order = n] \in AddressOf
           /\ [r EXCEPT !.order = n].st = r.st /\ [r EXCEPT !.order = n].order = n
<1>1. [r EXCEPT !.order = n].st = r.st /\ [r EXCEPT !.order = n].order = n
  BY DEF AddressOf
<1>2. [r EXCEPT !.order = n] \in AddressOf
  BY Zenon DEF AddressOf
<1> QED
  BY <1>1, <1>2

LEMMA KeysEdit ==
    ASSUME NEW r \in AddressOf, NEW k \in 0 .. MaxKeys
    PROVE  /\ [r EXCEPT !.keys = k] \in AddressOf
           /\ [r EXCEPT !.keys = k].st = r.st /\ [r EXCEPT !.keys = k].order = r.order
<1>1. [r EXCEPT !.keys = k].st = r.st /\ [r EXCEPT !.keys = k].order = r.order
  BY DEF AddressOf
<1>2. [r EXCEPT !.keys = k] \in AddressOf
  BY Zenon DEF AddressOf
<1> QED
  BY <1>1, <1>2

LEMMA EnabledEdit ==
    ASSUME NEW r \in AddressOf, NEW e \in BOOLEAN
    PROVE  /\ [r EXCEPT !.enabled = e] \in AddressOf
           /\ [r EXCEPT !.enabled = e].st = r.st /\ [r EXCEPT !.enabled = e].order = r.order
<1>1. [r EXCEPT !.enabled = e].st = r.st /\ [r EXCEPT !.enabled = e].order = r.order
  BY DEF AddressOf
<1>2. [r EXCEPT !.enabled = e] \in AddressOf
  BY Zenon DEF AddressOf
<1> QED
  BY <1>1, <1>2

\* An operation that changes one address and tells it leaves clients that know all.
LEMMA OneTold ==
    ASSUME AddressesInv, NEW a \in AddressIDs, NEW r \in AddressOf, addresses' = [addresses EXCEPT ![a] = r], Tell({a})
    PROVE  /\ addresses' \in [AddressIDs -> AddressOf] /\ addresses'[a] = r
           /\ \A b \in AddressIDs \ {a} : addresses'[b] = addresses[b]
           /\ AddressesTold'
<1>1. addresses \in [AddressIDs -> AddressOf] /\ told = addresses
  BY DEF AddressesInv, AddressesData, AddressesTold
<1>2. addresses' \in [AddressIDs -> AddressOf] /\ addresses'[a] = r
  BY <1>1
<1>3. \A b \in AddressIDs \ {a} : addresses'[b] = addresses[b]
  BY <1>1
<1>4. told' = [b \in AddressIDs |-> IF b \in {a} THEN addresses'[b] ELSE told[b]]
  BY DEF Tell
<1>5. told' = [b \in AddressIDs |-> addresses'[b]]
  BY <1>1, <1>3, <1>4
<1>6. told' = addresses'
  BY <1>2, <1>5
<1> QED
  BY <1>2, <1>3, <1>6 DEF AddressesTold

\* One that keeps every order and status keeps what is said of them.
LEMMA SameOrder ==
    ASSUME AddressesInv, \A a \in AddressIDs : addresses'[a].st = addresses[a].st /\ addresses'[a].order = addresses[a].order,
           disturbed' = disturbed
    PROVE  Numbered' /\ OrderIsComplete' /\ Present' = Present /\ Primaries(addresses') = Primaries(addresses)
<1>1. Present' = Present /\ Primaries(addresses') = Primaries(addresses)
  BY DEF Present, Primaries
<1>2. \A a \in Present : addresses'[a].order = addresses[a].order
  BY DEF Present
<1>3. Numbered'
  BY <1>1, <1>2 DEF AddressesInv, Numbered
<1>4. {addresses'[a].order : a \in Present'} = {addresses[a].order : a \in Present}
  BY <1>1, <1>2
<1>5. OrderIsComplete'
  BY <1>1, <1>4 DEF AddressesInv, OrderIsComplete
<1> QED
  BY <1>1, <1>3, <1>5

\* What the properties of a step ask.
PrimaryStays == Present # {} /\ Primaries(addresses) = {} => Primaries(addresses') = {}
PrimaryIsTold ==
    Primaries(addresses) = {toldPrimary} /\ disturbed' = FALSE /\ Cardinality(Primaries(addresses')) = 1
       => Primaries(addresses') = {toldPrimary'}

AddressesKept == AddressesInv' /\ PrimaryStays /\ PrimaryIsTold

LEMMA CreateKeeps ==
    ASSUME AddressesInv, NEW a \in AddressIDs, CreateAddress(a)
    PROVE  AddressesKept
<1>1. PICK withKey \in BOOLEAN, enabled \in BOOLEAN :
         addresses' = [addresses EXCEPT ![a] = [st |-> "live", order |-> NextOrder, enabled |-> enabled,
                                                keys |-> IF withKey THEN 1 ELSE 0]]
  BY Zenon DEF CreateAddress
<1> DEFINE r == [st |-> "live", order |-> NextOrder, enabled |-> enabled, keys |-> IF withKey THEN 1 ELSE 0]
<1>2. a \in NewAddressID /\ Tell({a}) /\ UNCHANGED <<ordering, toldPrimary, disturbed>>
  BY Zenon DEF CreateAddress
<1>3. addresses[a] = NeverUsed
  BY <1>2 DEF NewAddressID
<1>4. a \notin Present
  BY <1>3 DEF Present, NeverUsed
<1>5. /\ IsFiniteSet(Present \cup {a}) /\ Cardinality(Present \cup {a}) = Cardinality(Present) + 1
      /\ Cardinality(Present \cup {a}) <= Total
  <2>1. /\ IsFiniteSet(Present \cup {a}) /\ Cardinality(Present \cup {a}) = Cardinality(Present) + 1
        /\ Cardinality(Present \cup {a}) <= Cardinality(AddressIDs)
    BY <1>4, TotalIs, FS_AddElement, FS_Subset, AddressAssumption
  <2>2. Cardinality(AddressIDs) \in Nat /\ Cardinality(Present) \in Nat
    BY TotalIs, AddressAssumption, FS_CardinalityType
  <2> QED
    BY <2>1, <2>2, AddressAssumption DEF Total
<1>6. NextOrder \in 1 .. Total /\ NextOrder = Cardinality(Present) + 1
  BY <1>5, TotalIs DEF NextOrder
<1>7. r \in AddressOf
  <2>1. "live" \in {"unused", "live", "deleted"} /\ NextOrder \in 0 .. Total
    BY <1>6
  <2>2. (IF withKey THEN 1 ELSE 0) \in 0 .. MaxKeys
    BY AddressAssumption
  <2> QED
    BY <2>1, <2>2, Zenon DEF AddressOf
<1>8. r.st = "live" /\ r.order = NextOrder
  OBVIOUS
<1>9. addresses' = [addresses EXCEPT ![a] = r]
  BY <1>1
<1> HIDE DEF r
<1>10. /\ addresses' \in [AddressIDs -> AddressOf] /\ addresses'[a] = r
       /\ \A b \in AddressIDs \ {a} : addresses'[b] = addresses[b]
       /\ AddressesTold'
  BY <1>2, <1>7, <1>9, OneTold
<1>11. Present' = Present \cup {a}
  BY <1>4, <1>8, <1>10 DEF Present
<1>12. \A b \in Present : b # a /\ addresses'[b] = addresses[b]
  BY <1>4, <1>10 DEF Present
<1>13. AddressesData'
  BY <1>2, <1>10 DEF AddressesInv, AddressesData
<1>14. Numbered'
  <2> SUFFICES ASSUME NEW b \in Present' PROVE addresses'[b].order # 0
    BY Zenon DEF Numbered
  <2>1. CASE b = a
    BY <1>6, <1>8, <1>10, <2>1
  <2>2. CASE b \in Present
    BY <1>12, <2>2 DEF AddressesInv, Numbered
  <2> QED
    BY <1>11, <2>1, <2>2
<1>15. OrderIsComplete'
  <2> SUFFICES ASSUME ~disturbed PROVE {addresses'[b].order : b \in Present'} = 1 .. Cardinality(Present')
    BY <1>2 DEF OrderIsComplete
  <2>1. {addresses[b].order : b \in Present} = 1 .. Cardinality(Present)
    BY DEF AddressesInv, OrderIsComplete
  <2>2. {addresses'[b].order : b \in Present'} = {addresses[b].order : b \in Present} \cup {NextOrder}
    BY <1>8, <1>10, <1>11, <1>12
  <2>3. Cardinality(Present') = Cardinality(Present) + 1
    BY <1>5, <1>11
  <2> QED
    BY <1>6, <2>1, <2>2, <2>3, TotalIs
<1>16. Present # {} => NextOrder # 1
  BY <1>6, TotalIs, FS_EmptySet
<1>17. Present # {} => Primaries(addresses') = Primaries(addresses)
  <2> SUFFICES ASSUME Present # {}, NEW b \in AddressIDs
               PROVE  addresses'[b].st = "live" /\ addresses'[b].order = 1 <=> addresses[b].st = "live" /\ addresses[b].order = 1
    BY DEF Primaries
  <2>1. CASE b = a
    <3>1. addresses'[b].order # 1
      BY <1>8, <1>10, <1>16, <2>1
    <3>2. addresses[b].st # "live"
      BY <1>3, <2>1 DEF NeverUsed
    <3> QED
      BY <3>1, <3>2
  <2>2. CASE b # a
    BY <1>10, <2>2
  <2> QED
    BY <2>1, <2>2
<1>18. Primaries(addresses) \subseteq Present
  BY DEF Primaries, Present
<1> QED
  BY <1>2, <1>10, <1>13, <1>14, <1>15, <1>17, <1>18 DEF AddressesKept, AddressesInv, PrimaryStays, PrimaryIsTold

LEMMA ChangeKeeps ==
    ASSUME AddressesInv, NEW a \in AddressIDs, CreateAddressKey(a) \/ RemoveAddressKey(a) \/ SwitchAddress(a)
    PROVE  AddressesKept
<1>1. addresses \in [AddressIDs -> AddressOf] /\ addresses[a] \in AddressOf
  BY DEF AddressesInv, AddressesData
<1>2. Tell({a}) /\ UNCHANGED <<ordering, toldPrimary, disturbed>>
  BY DEF CreateAddressKey, RemoveAddressKey, SwitchAddress
<1>3. \E r \in AddressOf : /\ addresses' = [addresses EXCEPT ![a] = r]
                           /\ r.st = addresses[a].st /\ r.order = addresses[a].order
  <2>0. addresses[a].keys \in 0 .. MaxKeys
    BY <1>1, TotalIs, AddressAssumption DEF AddressOf
  <2>1. CASE CreateAddressKey(a)
    <3>1. addresses' = [addresses EXCEPT ![a] = [addresses[a] EXCEPT !.keys = addresses[a].keys + 1]] /\ addresses[a].keys < MaxKeys
      BY <2>1, <1>1 DEF CreateAddressKey
    <3>2. addresses[a].keys + 1 \in 0 .. MaxKeys
      BY <2>0, <3>1, AddressAssumption
    <3> QED
      BY <1>1, <3>1, <3>2, KeysEdit
  <2>2. CASE RemoveAddressKey(a)
    <3>1. addresses' = [addresses EXCEPT ![a] = [addresses[a] EXCEPT !.keys = addresses[a].keys - 1]] /\ addresses[a].keys > 0
      BY <2>2, <1>1 DEF RemoveAddressKey
    <3>2. addresses[a].keys - 1 \in 0 .. MaxKeys
      BY <2>0, <3>1, AddressAssumption
    <3> QED
      BY <1>1, <3>1, <3>2, KeysEdit
  <2>3. CASE SwitchAddress(a)
    <3>1. PICK e \in BOOLEAN : addresses' = [addresses EXCEPT ![a] = [addresses[a] EXCEPT !.enabled = e]]
      BY <2>3, <1>1 DEF SwitchAddress
    <3> QED
      BY <1>1, <3>1, EnabledEdit
  <2> QED
    BY <2>1, <2>2, <2>3
<1>4. PICK r \in AddressOf : addresses' = [addresses EXCEPT ![a] = r] /\ r.st = addresses[a].st /\ r.order = addresses[a].order
  BY <1>3
<1>5. /\ addresses' \in [AddressIDs -> AddressOf] /\ addresses'[a] = r
      /\ \A b \in AddressIDs \ {a} : addresses'[b] = addresses[b]
      /\ AddressesTold'
  BY <1>2, <1>4, OneTold
<1>6. \A b \in AddressIDs : addresses'[b].st = addresses[b].st /\ addresses'[b].order = addresses[b].order
  BY <1>4, <1>5
<1>7. Numbered' /\ OrderIsComplete' /\ Present' = Present /\ Primaries(addresses') = Primaries(addresses)
  BY <1>2, <1>6, SameOrder
<1>8. AddressesData'
  BY <1>2, <1>5 DEF AddressesInv, AddressesData
<1> QED
  BY <1>2, <1>5, <1>7, <1>8 DEF AddressesKept, AddressesInv, PrimaryStays, PrimaryIsTold

LEMMA DeleteKeeps ==
    ASSUME AddressesInv, NEW a \in AddressIDs, DeleteAddress(a)
    PROVE  AddressesKept
<1>1. Deleted \in AddressOf /\ Deleted.st = "deleted"
  <2>1. NeverUsed \in AddressOf
    <3>1. 0 \in 0 .. Total /\ 0 \in 0 .. MaxKeys /\ FALSE \in BOOLEAN
      BY TotalIs, AddressAssumption
    <3> QED
      BY <3>1, Zenon DEF AddressOf, NeverUsed
  <2>2. \A r \in AddressOf : [r EXCEPT !.st = "deleted"] \in AddressOf /\ [r EXCEPT !.st = "deleted"].st = "deleted"
    BY DEF AddressOf
  <2> QED
    BY <2>1, <2>2 DEF Deleted
<1>2. /\ a \in Present /\ addresses' = [addresses EXCEPT ![a] = Deleted] /\ Tell({a})
      /\ disturbed' = (Present # {a}) /\ UNCHANGED <<ordering, toldPrimary>>
  BY DEF DeleteAddress
<1>3. /\ addresses' \in [AddressIDs -> AddressOf] /\ addresses'[a] = Deleted
      /\ \A b \in AddressIDs \ {a} : addresses'[b] = addresses[b]
      /\ AddressesTold'
  BY <1>1, <1>2, OneTold
<1>4. Present' = Present \ {a}
  BY <1>1, <1>3 DEF Present
<1>5. \A b \in Present' : addresses'[b] = addresses[b]
  BY <1>3, <1>4 DEF Present
<1>6. Primaries(addresses') \subseteq Primaries(addresses) /\ Primaries(addresses') \subseteq Present'
  BY <1>1, <1>3 DEF Primaries, Present
<1>7. Numbered'
  BY <1>4, <1>5 DEF AddressesInv, Numbered
<1>8. ~disturbed' => Present' = {} /\ Cardinality(Present') = 0 /\ Cardinality(Primaries(addresses')) = 0
  <2> SUFFICES ASSUME ~disturbed' PROVE Present' = {} /\ Cardinality(Present') = 0 /\ Cardinality(Primaries(addresses')) = 0
    OBVIOUS
  <2>1. Present' = {} /\ Primaries(addresses') = {}
    BY <1>2, <1>4, <1>6
  <2> QED
    BY <2>1, FS_EmptySet
<1>9. OrderIsComplete'
  <2> SUFFICES ASSUME ~disturbed' PROVE {addresses'[b].order : b \in Present'} = 1 .. Cardinality(Present')
    BY DEF OrderIsComplete
  <2>1. {addresses'[b].order : b \in Present'} = {}
    BY <1>8
  <2> QED
    BY <1>8, <2>1
<1>10. AddressesData'
  BY <1>2, <1>3 DEF AddressesInv, AddressesData
<1>11. PrimaryStays /\ PrimaryIsTold
  BY <1>6, <1>8 DEF PrimaryStays, PrimaryIsTold
<1> QED
  BY <1>3, <1>7, <1>9, <1>10, <1>11 DEF AddressesKept, AddressesInv

LEMMA ListIs ==
    ASSUME NEW list \in AddressLists
    PROVE  list \in Seq(AddressIDs) /\ Len(list) \in 1 .. Total /\ DOMAIN list = 1 .. Len(list)
<1>1. PICK n \in 1 .. Total : list \in [1 .. n -> AddressIDs]
  BY DEF AddressLists, Total
<1>2. n \in Nat
  BY <1>1, TotalIs
<1>3. list \in Seq(AddressIDs) /\ Len(list) = n
  BY <1>1, <1>2
<1> QED
  BY <1>1, <1>3

\* The position of an address is the last place that has it.
LEMMA PositionIs ==
    ASSUME NEW s \in Seq(AddressIDs), NEW a \in ToSet(s)
    PROVE  /\ Position(s, a) \in DOMAIN s /\ s[Position(s, a)] = a
           /\ \A j \in DOMAIN s : s[j] = a => j <= Position(s, a)
<1> DEFINE n == Len(s)
           Left == {k \in 0 .. n : n - k \in DOMAIN s /\ s[n - k] = a}
           k == Min(Left)
<1>1. n \in Nat /\ DOMAIN s = 1 .. n
  OBVIOUS
<1> HIDE DEF n
<1>2. \A j \in DOMAIN s : s[j] = a => n - j \in Left
  BY <1>1
<1>3. Left # {} /\ Left \subseteq Nat
  <2>1. PICK j \in DOMAIN s : s[j] = a
    BY DEF ToSet
  <2>2. n - j \in Left
    BY <1>2, <2>1
  <2>3. Left \subseteq Nat
    BY <1>1
  <2> HIDE DEF Left
  <2> QED
    BY <2>2, <2>3
<1>4. k \in Left /\ \A y \in Left : k <= y
  <2> HIDE DEF Left
  <2> QED
    BY <1>3, LeastIs
<1> HIDE DEF k
<1>5. n - k \in DOMAIN s /\ s[n - k] = a /\ k \in 0 .. n
  BY <1>4
<1>6. \A j \in DOMAIN s : s[j] = a => j <= n - k
  <2> SUFFICES ASSUME NEW j \in DOMAIN s, s[j] = a PROVE j <= n - k
    OBVIOUS
  <2>1. n - j \in Left
    BY <1>2
  <2> HIDE DEF Left
  <2>2. k <= n - j
    BY <1>4, <2>1
  <2> QED
    BY <1>1, <1>5, <2>2
<1>7. \E i \in DOMAIN s : s[i] = a /\ \A j \in DOMAIN s : s[j] = a => j <= i
  BY <1>5, <1>6
<1> QED
  BY <1>7 DEF Position

\* What is applied is a beginning of the list, of addresses there are.
LEMMA AppliedIs ==
    ASSUME NEW list \in AddressLists
    PROVE  /\ Applied(list) \in Seq(AddressIDs) /\ DOMAIN Applied(list) \subseteq DOMAIN list
           /\ \A i \in DOMAIN Applied(list) : Applied(list)[i] = list[i] /\ list[i] \in Present
<1> DEFINE Absent == {i \in DOMAIN list : list[i] \notin Present}
<1>1. list \in Seq(AddressIDs) /\ Len(list) \in Nat /\ DOMAIN list = 1 .. Len(list)
  BY ListIs, TotalIs
<1>2. CASE Absent = {}
  <2>1. Applied(list) = list
    BY <1>2 DEF Applied
  <2> QED
    BY <1>1, <1>2, <2>1
<1>3. CASE Absent # {}
  <2> DEFINE k == Min(Absent) - 1
  <2>1. Min(Absent) \in Absent /\ \A y \in Absent : Min(Absent) <= y
    <3>1. Absent \subseteq Nat
      BY <1>1
    <3> HIDE DEF Absent
    <3> QED
      BY <1>3, <3>1, LeastIs
  <2>2. Min(Absent) \in 1 .. Len(list)
    BY <1>1, <2>1
  <2>3. k \in Nat /\ k <= Len(list) /\ \A i \in 1 .. k : i \in DOMAIN list /\ i \notin Absent
    <3>1. k \in Nat /\ k <= Len(list) /\ k < Min(Absent)
      BY <1>1, <2>2
    <3>2. \A i \in 1 .. k : i \in DOMAIN list /\ i < Min(Absent)
      BY <1>1, <2>2, <3>1
    <3>3. \A i \in 1 .. k : i \notin Absent
      <4> HIDE DEF Absent
      <4> QED
        BY <2>1, <2>2, <3>1, <3>2
    <3> QED
      BY <3>1, <3>2, <3>3
  <2>4. Applied(list) = SubSeq(list, 1, k)
    BY <1>3 DEF Applied
  <2> HIDE DEF k
  <2>5. Applied(list) \in Seq(AddressIDs) /\ DOMAIN Applied(list) = 1 .. k
    BY <1>1, <2>3, <2>4, SubSeqProperties
  <2>6. \A i \in 1 .. k : Applied(list)[i] = list[i]
    BY <1>1, <2>3, <2>4, SubSeqProperties
  <2> QED
    BY <2>3, <2>5, <2>6
<1> QED
  BY <1>2, <1>3

\* A list of n different addresses numbers them from 1 to n.
LEMMA ListNumbers ==
    ASSUME NEW list \in AddressLists, IsInjective(list)
    PROVE  Cardinality(ToSet(list)) = Len(list)
<1>1. list \in Seq(AddressIDs) /\ Len(list) \in Nat /\ DOMAIN list = 1 .. Len(list)
  BY ListIs, TotalIs
<1>2. ToSet(list) = {list[i] : i \in 1 .. Len(list)}
  BY <1>1 DEF ToSet
<1>3. list \in Bijection(1 .. Len(list), ToSet(list))
  <2>1. list \in [1 .. Len(list) -> ToSet(list)]
    BY <1>1, <1>2
  <2>2. \A t \in ToSet(list) : \E i \in 1 .. Len(list) : list[i] = t
    BY <1>2
  <2> QED
    BY <2>1, <2>2 DEF Bijection, Injection, Surjection, IsInjective
<1>4. ExistsBijection(1 .. Len(list), ToSet(list))
  BY <1>3 DEF ExistsBijection
<1>5. IsFiniteSet(1 .. Len(list)) /\ Cardinality(1 .. Len(list)) = Len(list)
  BY <1>1, FS_Interval
<1> QED
  BY <1>4, <1>5, FS_Bijection

LEMMA OrderKeeps ==
    ASSUME AddressesInv, NEW list \in AddressLists, SetAddressOrder(list),
           ordering' \in [Orderers -> AddressLists \cup {<<>>}]
    PROVE  AddressesKept
<1> DEFINE done == Applied(list)
           S == ToSet(done)
<1>1. /\ addresses' = [a \in AddressIDs |-> IF a \in S THEN [addresses[a] EXCEPT !.order = Position(done, a)] ELSE addresses[a]]
      /\ Tell(Reordered(done))
  BY Zenon DEF SetAddressOrder
<1>2. disturbed' = IF OrdersAll(list) THEN FALSE ELSE disturbed \/ addresses' # addresses
  BY Zenon DEF SetAddressOrder
<1>3. PICK p \in Primary : TellPrimary(p, list)
  BY Zenon DEF SetAddressOrder
<1>4. /\ addresses \in [AddressIDs -> AddressOf] /\ told = addresses /\ disturbed \in BOOLEAN
      /\ toldPrimary \in AddressIDs \cup {NoAddress}
  BY DEF AddressesInv, AddressesData, AddressesTold
<1>5. /\ done \in Seq(AddressIDs) /\ DOMAIN done \subseteq DOMAIN list
      /\ \A i \in DOMAIN done : done[i] = list[i] /\ list[i] \in Present
  BY AppliedIs
<1>6. list \in Seq(AddressIDs) /\ Len(list) \in 1 .. Total /\ DOMAIN list = 1 .. Len(list)
  BY ListIs
<1>7. OrdersAll(list) => done = list
  BY DEF OrdersAll, Applied, ToSet
<1> HIDE DEF done
<1>8. \A a \in S : /\ a \in Present
                   /\ Position(done, a) \in 1 .. Total /\ Position(done, a) \in DOMAIN done /\ done[Position(done, a)] = a
  <2> SUFFICES ASSUME NEW a \in S
               PROVE  /\ a \in Present /\ Position(done, a) \in 1 .. Total
                      /\ Position(done, a) \in DOMAIN done /\ done[Position(done, a)] = a
    OBVIOUS
  <2>1. Position(done, a) \in DOMAIN done /\ done[Position(done, a)] = a
    BY <1>5, PositionIs
  <2>2. Position(done, a) \in DOMAIN list /\ a \in Present
    BY <1>5, <2>1
  <2> HIDE DEF S
  <2> QED
    BY <1>6, <2>1, <2>2, TotalIs
<1> HIDE DEF S
<1>9. \A a \in S : /\ a \in AddressIDs /\ Position(done, a) \in 0 .. Total /\ Position(done, a) # 0
                   /\ addresses[a] \in AddressOf /\ addresses[a].st = "live"
                   /\ addresses'[a] = [addresses[a] EXCEPT !.order = Position(done, a)]
  BY <1>1, <1>4, <1>8, TotalIs DEF Present
<1>10. \A a \in AddressIDs \ S : addresses'[a] = addresses[a]
  BY <1>1
<1>11. \A a \in S : addresses'[a] \in AddressOf /\ addresses'[a].st = "live" /\ addresses'[a].order = Position(done, a)
  <2> SUFFICES ASSUME NEW a \in S
               PROVE  addresses'[a] \in AddressOf /\ addresses'[a].st = "live" /\ addresses'[a].order = Position(done, a)
    OBVIOUS
  <2> DEFINE n == Position(done, a)
             r == addresses[a]
  <2>1. n \in 0 .. Total /\ r \in AddressOf /\ r.st = "live" /\ addresses'[a] = [r EXCEPT !.order = n]
    BY <1>9
  <2> HIDE DEF n, r
  <2>3. [r EXCEPT !.order = n] \in AddressOf /\ [r EXCEPT !.order = n].st = r.st /\ [r EXCEPT !.order = n].order = n
    BY <2>1, OrderEdit
  <2> QED
    BY <2>1, <2>3 DEF n
<1>12. addresses' \in [AddressIDs -> AddressOf]
  <2>1. \A a \in AddressIDs : addresses'[a] \in AddressOf
    BY <1>4, <1>10, <1>11
  <2> QED
    BY <1>1, <2>1
<1>13. Present' = Present
  <2>1. \A a \in AddressIDs : addresses'[a].st = addresses[a].st
    <3> SUFFICES ASSUME NEW a \in AddressIDs PROVE addresses'[a].st = addresses[a].st
      OBVIOUS
    <3>1. CASE a \in S
      <4>1. addresses[a].st = "live"
        BY <1>9, <3>1
      <4>2. addresses'[a].st = "live"
        BY <1>11, <3>1
      <4> QED
        BY <4>1, <4>2
    <3>2. CASE a \notin S
      BY <1>10, <3>2
    <3> QED
      BY <3>1, <3>2
  <2> QED
    BY <2>1, Zenon DEF Present
<1>14. Numbered'
  <2> SUFFICES ASSUME NEW a \in Present PROVE addresses'[a].order # 0
    BY <1>13, Zenon DEF Numbered
  <2>1. a \in AddressIDs
    BY DEF Present
  <2>2. CASE a \in S
    <3>1. addresses'[a].order = Position(done, a)
      BY <1>11, <2>2
    <3>2. Position(done, a) # 0
      BY <1>9, <2>2
    <3> QED
      BY <3>1, <3>2
  <2>3. CASE a \notin S
    <3>1. addresses'[a] = addresses[a]
      BY <1>10, <2>1, <2>3
    <3> QED
      BY <3>1 DEF AddressesInv, Numbered
  <2> QED
    BY <2>2, <2>3
<1>15. AddressesTold'
  <2>1. told' = [a \in AddressIDs |-> IF a \in Reordered(done) THEN addresses'[a] ELSE addresses[a]]
    BY <1>1, <1>4 DEF Tell
  <2>2. ASSUME NEW a \in AddressIDs, a \notin Reordered(done)
        PROVE  addresses'[a] = addresses[a]
    <3>1. CASE a \notin S
      BY <1>10, <3>1
    <3>2. CASE a \in S
      <4>1. addresses[a].order = Position(done, a)
        <5>1. Position(done, a) \in DOMAIN done /\ done[Position(done, a)] = a
          BY <1>8, <3>2
        <5> QED
          BY <2>2, <5>1 DEF Reordered
      <4>2. addresses[a] \in AddressOf /\ addresses'[a] = [addresses[a] EXCEPT !.order = addresses[a].order]
        BY <1>9, <3>2, <4>1
      <4> QED
        BY <4>2 DEF AddressOf
    <3> QED
      BY <3>1, <3>2
  <2>3. told' = [a \in AddressIDs |-> addresses'[a]]
    BY <2>1, <2>2
  <2> QED
    BY <1>12, <2>3 DEF AddressesTold
<1>16. toldPrimary' \in AddressIDs \cup {NoAddress}
  BY <1>3, <1>4 DEF TellPrimary, Primaries
<1>17. AddressesData'
  <2>1. disturbed' \in BOOLEAN
    BY <1>2, <1>4
  <2> QED
    BY <1>3, <1>12, <1>16, <2>1 DEF AddressesData
<1>18. ASSUME OrdersAll(list)
       PROVE  OrderIsComplete'
  <2>1. {addresses'[b].order : b \in Present'} = 1 .. Len(list)
    <3>1. \A b \in Present : \E i \in 1 .. Len(list) : b = list[i]
      BY <1>6, <1>18 DEF OrdersAll, ToSet
    <3>2. \A i \in 1 .. Len(list) : list[i] \in Present /\ addresses'[list[i]].order = i
      <4> SUFFICES ASSUME NEW i \in 1 .. Len(list) PROVE list[i] \in Present /\ addresses'[list[i]].order = i
        OBVIOUS
      <4>1. list[i] \in S /\ list[i] \in Present
        BY <1>6, <1>7, <1>18 DEF OrdersAll, S, ToSet
      <4>2. Position(list, list[i]) \in DOMAIN list /\ list[Position(list, list[i])] = list[i]
        BY <1>7, <1>8, <1>18, <4>1
      <4>3. Position(list, list[i]) = i
        BY <1>6, <1>18, <4>2 DEF OrdersAll, IsInjective
      <4> QED
        BY <1>7, <1>11, <1>18, <4>1, <4>3
    <3> QED
      BY <1>13, <3>1, <3>2
  <2>2. Cardinality(Present') = Len(list)
    BY <1>13, <1>18, ListNumbers DEF OrdersAll
  <2> QED
    BY <2>1, <2>2 DEF OrderIsComplete
<1>19. ASSUME ~OrdersAll(list)
       PROVE  OrderIsComplete'
  <2> SUFFICES ASSUME ~disturbed' PROVE {addresses'[b].order : b \in Present'} = 1 .. Cardinality(Present')
    BY DEF OrderIsComplete
  <2>1. ~disturbed /\ addresses' = addresses
    BY <1>2, <1>19
  <2> QED
    BY <1>13, <2>1 DEF AddressesInv, OrderIsComplete
<1>20. OrderIsComplete'
  BY <1>18, <1>19
<1>21. PrimaryStays
  BY <1>3 DEF PrimaryStays, Primary
<1>22. PrimaryIsTold
  <2> SUFFICES ASSUME Primaries(addresses) = {toldPrimary}, disturbed' = FALSE, Cardinality(Primaries(addresses')) = 1
               PROVE  Primaries(addresses') = {toldPrimary'}
    BY DEF PrimaryIsTold
  <2>1. p = toldPrimary
    BY <1>3 DEF Primary
  <2>2. PICK q : Primaries(addresses') = {q}
    <3>1. IsFiniteSet(Primaries(addresses'))
      BY AddressAssumption, FS_Subset DEF Primaries
    <3> QED
      BY <3>1, FS_Singleton
  <2>3. CASE OrdersAll(list)
    <3>1. toldPrimary' = IF p = q THEN toldPrimary ELSE q
      BY <1>3, <1>7, <2>2, <2>3 DEF TellPrimary, done
    <3> QED
      BY <2>1, <2>2, <3>1
  <2>4. CASE ~OrdersAll(list)
    <3>1. addresses' = addresses
      BY <1>2, <2>4
    <3>2. q = toldPrimary
      BY <2>2, <3>1
    <3>3. toldPrimary' = toldPrimary
      BY <1>3, <2>1, <2>2, <3>2 DEF TellPrimary
    <3> QED
      BY <2>2, <3>2, <3>3
  <2> QED
    BY <2>3, <2>4
<1> QED
  BY <1>14, <1>15, <1>17, <1>20, <1>21, <1>22 DEF AddressesKept, AddressesInv

\* What leaves the addresses and what is told of them alone.
LEMMA RestKeeps ==
    ASSUME AddressesInv, addresses' = addresses, told' = told, disturbed' = disturbed,
           ordering' \in [Orderers -> AddressLists \cup {<<>>}], toldPrimary' \in AddressIDs \cup {NoAddress},
           Primaries(addresses) = {toldPrimary} => toldPrimary' = toldPrimary
    PROVE  AddressesKept
<1>1. Numbered' /\ OrderIsComplete' /\ Primaries(addresses') = Primaries(addresses)
  BY SameOrder
<1>2. AddressesTold' /\ AddressesData'
  BY DEF AddressesInv, AddressesTold, AddressesData
<1> QED
  BY <1>1, <1>2 DEF AddressesKept, AddressesInv, PrimaryStays, PrimaryIsTold

LEMMA AddressesSteps == ASSUME AddressesInv, AddressesNext PROVE AddressesKept
<1>0. /\ ordering \in [Orderers -> AddressLists \cup {<<>>}] /\ toldPrimary \in AddressIDs \cup {NoAddress}
      /\ Primaries(addresses) \subseteq AddressIDs
  BY DEF AddressesInv, AddressesData, Primaries
<1>1. CASE \E a \in AddressIDs : CreateAddress(a) \/ CreateAddressKey(a) \/ RemoveAddressKey(a)
                                   \/ SwitchAddress(a) \/ DeleteAddress(a)
  BY <1>1, CreateKeeps, ChangeKeeps, DeleteKeeps
<1>2. CASE GetUser
  <2>1. toldPrimary' \in AddressIDs /\ Primaries(addresses) # {toldPrimary}
    BY <1>0, <1>2, AddressAssumption DEF GetUser
  <2> QED
    BY <1>0, <1>2, <2>1, RestKeeps DEF GetUser
<1>3. ASSUME NEW h \in Orderers, CompareOrder(h)
      PROVE  AddressesKept
  <2>1. PICK list \in AddressLists : ordering' = [ordering EXCEPT ![h] = list]
    BY <1>3 DEF CompareOrder
  <2>2. ordering' \in [Orderers -> AddressLists \cup {<<>>}]
    BY <1>0, <2>1
  <2> QED
    BY <1>0, <1>3, <2>2, RestKeeps DEF CompareOrder
<1>4. ASSUME NEW h \in Orderers, ApplyOrder(h)
      PROVE  AddressesKept
  <2>1. ordering[h] \in AddressLists
    BY <1>0, <1>4 DEF ApplyOrder
  <2>2. ordering' \in [Orderers -> AddressLists \cup {<<>>}]
    BY <1>0, <1>4 DEF ApplyOrder
  <2>3. CASE SetAddressOrder(ordering[h])
    BY <2>1, <2>2, <2>3, OrderKeeps
  <2>4. CASE UNCHANGED <<addresses, told, toldPrimary, disturbed>>
    BY <1>0, <2>2, <2>4, RestKeeps
  <2> QED
    BY <1>4, <2>3, <2>4 DEF ApplyOrder
<1>5. CASE OrderSome
  <2>1. PICK list \in AddressLists : SetAddressOrder(list)
    BY <1>5 DEF OrderSome
  <2>2. ordering' = ordering
    BY <1>5 DEF OrderSome
  <2> QED
    BY <1>0, <2>1, <2>2, OrderKeeps
<1> QED
  BY <1>1, <1>2, <1>3, <1>4, <1>5 DEF AddressesNext

\* The addresses have the order they were given, clients that apply updates know
\* it, and a primary address that is gone stays so.
THEOREM AddressesStayOrdered == AddressesSpec => AddressesOrdered
<1>1. AddressesInv => AddressesTypeOK /\ OrderIsComplete /\ AddressesTold
  <2> SUFFICES ASSUME AddressesInv PROVE AddressesTypeOK /\ OrderIsComplete /\ AddressesTold
    OBVIOUS
  <2>1. AddressLists \cup {<<>>} \subseteq Seq(AddressIDs)
    <3>1. \A list \in AddressLists : list \in Seq(AddressIDs)
      BY ListIs
    <3>2. <<>> \in Seq(AddressIDs)
      OBVIOUS
    <3> QED
      BY <3>1, <3>2
  <2>2. ordering \in [Orderers -> Seq(AddressIDs)]
    BY <2>1 DEF AddressesInv, AddressesData
  <2>3. /\ addresses \in [AddressIDs -> AddressOf] /\ told = addresses
        /\ toldPrimary \in AddressIDs \cup {NoAddress} /\ disturbed \in BOOLEAN /\ Numbered
    BY DEF AddressesInv, AddressesData, AddressesTold
  <2>4. AddressesTypeOK
    BY <2>2, <2>3 DEF AddressesTypeOK, AddressOf, Total, Numbered
  <2> QED
    BY <2>4 DEF AddressesInv
<1>2. AddressesInv /\ [AddressesNext]_addressVars => AddressesInv'
  <2>1. ASSUME AddressesInv, UNCHANGED addressVars PROVE AddressesInv'
    BY <2>1 DEF addressVars, AddressesInv, AddressesData, Numbered, OrderIsComplete, AddressesTold, Present
  <2> QED
    BY <2>1, AddressesSteps DEF AddressesKept
<1>3. AddressesInv /\ [AddressesNext]_addressVars =>
        [Present # {} /\ Primaries(addresses) = {} => Primaries(addresses') = {}]_addressVars
  BY AddressesSteps DEF AddressesKept, PrimaryStays
<1>4. AddressesInv /\ [AddressesNext]_addressVars =>
        [/\ Primaries(addresses) = {toldPrimary} /\ disturbed' = FALSE
         /\ Cardinality(Primaries(addresses')) = 1
         => Primaries(addresses') = {toldPrimary'}]_addressVars
  BY AddressesSteps DEF AddressesKept, PrimaryIsTold
<1> QED
  BY <1>1, <1>2, <1>3, <1>4, AddressesInvInit, PTL
     DEF AddressesSpec, AddressesOrdered, NoPrimaryForGood, PrimaryTold

------------------------------------------------------------------------------
(* Contacts. *)

PostingOf == [at : {"id", "convert", "emails", "panicked"}, left : Nat, id : Nat, more : 0 .. MaxEmails, emails : SUBSET Nat]
ListingOf == [at : {"new", "more", "ok", "err"}, kind : Kinds, total : Nat, page : Nat, got : Seq(Nat), before : SUBSET Nat]

\* The contacts there are differ by their own IDs, and by those of their emails.
ContactsKept ==
    /\ contactCounter \in Nat /\ globalContactID \in Nat
    /\ contacts \subseteq [id : 1 .. contactCounter, emails : SUBSET (1 .. globalContactID), put : BOOLEAN]
    /\ \A c, d \in contacts : c.id = d.id \/ c.emails \cap d.emails # {} => c = d

\* The IDs of a card that is on its way are those of no contact, and of no other card.
ComesFresh(h) ==
    /\ posting[h].left <= CardsOf[h]
    /\ posting[h].at \in {"convert", "emails"} =>
          /\ posting[h].left > 0 /\ posting[h].id \in 1 .. contactCounter
          /\ \A c \in contacts : c.id # posting[h].id
          /\ \A g \in Posters \ {h} : posting[g].at \in {"convert", "emails"} => posting[g].id # posting[h].id
    /\ posting[h].at = "emails" =>
          /\ posting[h].emails \subseteq 1 .. globalContactID
          /\ \A c \in contacts : c.emails \cap posting[h].emails = {}
          /\ \A g \in Posters \ {h} : posting[g].at = "emails" => posting[g].emails \cap posting[h].emails = {}

\* A listing has what was there when it began, unless it is at a place that it has still to ask for.
HasItsPages(l) ==
    \A x \in l.before : x \in ToSet(l.got) \/ l.page * ListSize < PlaceOf(l.kind, x)

\* As long as no contact is added, it has none twice, and none it has still to ask for.
HasThemOnce(l) ==
    /\ IsInjective(l.got)
    /\ l.at \in {"more", "ok"} => \A x \in ToSet(l.got) : PlaceOf(l.kind, x) <= l.page * ListSize

ListsThem(l) ==
    /\ l.before \subseteq ContactIDs(l.kind) /\ ToSet(l.got) \subseteq ContactIDs(l.kind)
    /\ l.at = "new" => l.got = <<>>
    /\ l.at \in {"more", "ok"} => Cardinality(l.before) = l.total /\ HasItsPages(l)
    /\ l.at = "more" => l.page >= 1 /\ l.total > ListSize
    /\ l.at = "ok" => IF l.page = 1 THEN l.before \subseteq ToSet(l.got) ELSE l.page = (l.total \div ListSize) + 1
    /\ l.at = "err" => \/ l.page = 0 /\ l.kind = "contacts"
                       \/ l.total > ListSize /\ l.total % ListSize = 0
    /\ l.before = ContactIDs(l.kind) => HasThemOnce(l)

ContactsInv ==
    /\ ContactsKept
    /\ posting \in [Posters -> PostingOf] /\ listing \in [Listers -> ListingOf]
    /\ \A h \in Posters : ComesFresh(h)
    /\ \A c \in Listers : ListsThem(listing[c])

\* No two IDs are the same string.
LEMMA StringsDiffer ==
    /\ \A m \in Nat : StringPlace(m) \in Int
    /\ \A m, n \in Nat : StringPlace(m) = StringPlace(n) => m = n
<1>1. \A m \in Nat : m = 10 * (m \div 10) + (m % 10) /\ m % 10 \in 0 .. 9 /\ m \div 10 \in Nat
  OBVIOUS
<1>2. \A m \in Nat : StringPlace(m) \in Int
  BY <1>1 DEF StringPlace
<1>3. ASSUME NEW m \in Nat, NEW n \in Nat, StringPlace(m) = StringPlace(n)
      PROVE  m = n
  <2> DEFINE a == m \div 10
             b == m % 10
             c == n \div 10
             d == n % 10
  <2>1. m = 10 * a + b /\ b \in 0 .. 9 /\ a \in Nat /\ n = 10 * c + d /\ d \in 0 .. 9 /\ c \in Nat
    BY <1>1
  <2>2. (IF m < 10 THEN 11 * m - 1 ELSE 11 * a + b) = (IF n < 10 THEN 11 * n - 1 ELSE 11 * c + d)
    BY <1>3 DEF StringPlace
  <2> HIDE DEF a, b, c, d
  <2> QED
    BY <2>1, <2>2
<1> QED
  BY <1>2, <1>3

\* Each of the IDs has a place of its own, and there is one at each place.
LEMMA PlacesAre ==
    ASSUME NEW S, S \subseteq Nat, IsFiniteSet(S)
    PROVE  LET Place(x) == Cardinality({y \in S : StringPlace(y) <= StringPlace(x)})
           IN  /\ \A x \in S : Place(x) \in 1 .. Cardinality(S)
               /\ \A x, y \in S : Place(x) = Place(y) => x = y
               /\ \A i \in 1 .. Cardinality(S) : \E x \in S : Place(x) = i
<1> DEFINE UpTo(x) == {y \in S : StringPlace(y) <= StringPlace(x)}
           Place(x) == Cardinality(UpTo(x))
           n == Cardinality(S)
<1>1. n \in Nat
  BY FS_CardinalityType
<1>2. \A x \in S : StringPlace(x) \in Int
  BY StringsDiffer
<1>3. ASSUME NEW x \in S
      PROVE  IsFiniteSet(UpTo(x)) /\ Place(x) \in 1 .. n
  <2>1. UpTo(x) \in SUBSET S /\ x \in UpTo(x)
    BY <1>2
  <2>2. IsFiniteSet(UpTo(x)) /\ Place(x) <= n
    BY <2>1, FS_Subset
  <2>3. Place(x) \in Nat /\ Place(x) # 0
    BY <2>1, <2>2, FS_CardinalityType, FS_EmptySet
  <2> QED
    BY <1>1, <2>2, <2>3
<1>4. ASSUME NEW x \in S, NEW y \in S, Place(x) = Place(y), StringPlace(x) <= StringPlace(y)
      PROVE  x = y
  <2>1. UpTo(x) \in SUBSET UpTo(y)
    <3> SUFFICES ASSUME NEW z \in UpTo(x) PROVE z \in UpTo(y)
      OBVIOUS
    <3>1. z \in S /\ StringPlace(z) <= StringPlace(x) /\ StringPlace(z) \in Int
      BY <1>2
    <3>2. StringPlace(z) <= StringPlace(y)
      BY <1>2, <1>4, <3>1
    <3> QED
      BY <3>1, <3>2
  <2>2. UpTo(y) = UpTo(x)
    BY <1>3, <1>4, <2>1, FS_Subset
  <2>3. StringPlace(y) <= StringPlace(x)
    BY <1>2, <2>2
  <2> QED
    BY <1>2, <1>4, <2>3, StringsDiffer
<1>5. \A x, y \in S : Place(x) = Place(y) => x = y
  BY <1>2, <1>4
<1> DEFINE f == [x \in S |-> Place(x)]
<1>6. f \in Injection(S, 1 .. n)
  <2>1. f \in [S -> 1 .. n]
    BY <1>3
  <2>2. \A x, y \in S : f[x] = f[y] => x = y
    BY <1>5
  <2> HIDE DEF f
  <2> QED
    BY <2>1, <2>2 DEF Injection, IsInjective
<1>7. f \in Surjection(S, 1 .. n)
  <2>1. IsFiniteSet(1 .. n) /\ Cardinality(1 .. n) = n
    BY <1>1, FS_Interval
  <2> HIDE DEF f
  <2> QED
    BY <1>6, <2>1, FS_Injection
<1>8. \A i \in 1 .. n : \E x \in S : Place(x) = i
  <2> TAKE i \in 1 .. n
  <2>1. PICK x \in S : f[x] = i
    <3> HIDE DEF f
    <3> QED
      BY <1>7 DEF Surjection
  <2>2. f[x] = Place(x)
    OBVIOUS
  <2> QED
    BY <2>1, <2>2
<1> QED
  BY <1>3, <1>5, <1>8

\* The IDs of contacts whose numbers are bounded are finitely many numbers.
LEMMA IDsAre ==
    ASSUME NEW m \in Nat, NEW n \in Nat, NEW C, C \subseteq [id : 1 .. m, emails : SUBSET (1 .. n), put : BOOLEAN]
    PROVE  /\ IsFiniteSet({c.id : c \in C}) /\ {c.id : c \in C} \subseteq Nat
           /\ IsFiniteSet(UNION {c.emails : c \in C}) /\ UNION {c.emails : c \in C} \subseteq Nat
<1>1. IsFiniteSet(1 .. m) /\ IsFiniteSet(1 .. n)
  BY FS_Interval
<1>2. {c.id : c \in C} \in SUBSET (1 .. m) /\ UNION {c.emails : c \in C} \in SUBSET (1 .. n)
  OBVIOUS
<1>3. 1 .. m \subseteq Nat /\ 1 .. n \subseteq Nat
  OBVIOUS
<1>4. IsFiniteSet({c.id : c \in C}) /\ IsFiniteSet(UNION {c.emails : c \in C})
  BY <1>1, <1>2, FS_Subset
<1> QED
  BY <1>2, <1>3, <1>4

\* Sorting the IDs of a kind lists each at its place.
LEMMA SortedIs ==
    ASSUME ContactsKept, NEW kind \in Kinds
    PROVE  /\ TotalOf(kind) \in Nat /\ Cardinality(ContactIDs(kind)) = TotalOf(kind)
           /\ ContactIDs(kind) \subseteq Nat /\ IsFiniteSet(ContactIDs(kind))
           /\ \A x \in ContactIDs(kind) : PlaceOf(kind, x) \in 1 .. TotalOf(kind)
           /\ \A x, y \in ContactIDs(kind) : PlaceOf(kind, x) = PlaceOf(kind, y) => x = y
           /\ \A i \in 1 .. TotalOf(kind) :
                 Sorted(kind)[i] \in ContactIDs(kind) /\ PlaceOf(kind, Sorted(kind)[i]) = i
           /\ Sorted(kind) \in Seq(ContactIDs(kind)) /\ Len(Sorted(kind)) = TotalOf(kind)
<1> DEFINE S == ContactIDs(kind)
           n == TotalOf(kind)
<1>4. S \subseteq Nat /\ IsFiniteSet(S)
  BY IDsAre DEF ContactIDs, ContactsKept, Kinds
<1>3. IsFiniteSet(S) /\ Cardinality(S) = n
  BY <1>4 DEF TotalOf
<1>1. n \in Nat
  BY <1>3, FS_CardinalityType
<1>5. /\ \A x \in S : PlaceOf(kind, x) \in 1 .. n
      /\ \A x, y \in S : PlaceOf(kind, x) = PlaceOf(kind, y) => x = y
      /\ \A i \in 1 .. n : \E x \in S : PlaceOf(kind, x) = i
  <2> HIDE DEF n
  <2> QED
    BY <1>3, <1>4, PlacesAre DEF PlaceOf
<1>6. \A i \in 1 .. n : Sorted(kind)[i] \in S /\ PlaceOf(kind, Sorted(kind)[i]) = i
  <2> TAKE i \in 1 .. n
  <2>1. Sorted(kind)[i] = CHOOSE id \in S : PlaceOf(kind, id) = i
    BY <1>3 DEF Sorted
  <2> HIDE DEF S, n
  <2> QED
    BY <1>5, <2>1
<1>7. Sorted(kind) \in Seq(S) /\ Len(Sorted(kind)) = n
  <2>1. Sorted(kind) \in [1 .. n -> S]
    <3>1. DOMAIN Sorted(kind) = 1 .. n /\ Sorted(kind) = [i \in 1 .. n |-> Sorted(kind)[i]]
      BY <1>3 DEF Sorted
    <3> QED
      BY <1>6, <3>1
  <2> QED
    BY <1>1, <2>1
<1> QED
  BY <1>1, <1>3, <1>4, <1>5, <1>6, <1>7

\* The end of a page.
LEMMA MinIs ==
    ASSUME NEW a \in Int, NEW b \in Int
    PROVE  Min({a, b}) = IF a <= b THEN a ELSE b
<1>1. \A x \in {a, b} : (\A y \in {a, b} : x <= y) <=> x = IF a <= b THEN a ELSE b
  OBVIOUS
<1>2. Min({a, b}) = CHOOSE x \in {a, b} : \A y \in {a, b} : x <= y
  BY DEF Min
<1> QED
  BY <1>1, <1>2

\* A list of natural numbers.
LEMMA NatList ==
    ASSUME NEW S, S \subseteq Nat, NEW s \in Seq(S)
    PROVE  s \in Seq(Nat) /\ DOMAIN s = 1 .. Len(s)
<1>1. Len(s) \in Nat /\ s \in [1 .. Len(s) -> S]
  OBVIOUS
<1>2. s \in [1 .. Len(s) -> Nat]
  BY <1>1
<1> QED
  BY <1>1, <1>2

\* One list after the other.
LEMMA BothLists ==
    ASSUME NEW s \in Seq(Nat), NEW t \in Seq(Nat)
    PROVE  /\ s \o t \in Seq(Nat) /\ ToSet(s \o t) = ToSet(s) \cup ToSet(t)
           /\ IsInjective(s) /\ IsInjective(t) /\ ToSet(s) \cap ToSet(t) = {} => IsInjective(s \o t)
<1> DEFINE m == Len(s)
           n == Len(t)
           u == s \o t
<1>1. /\ m \in Nat /\ n \in Nat /\ u \in Seq(Nat) /\ Len(u) = m + n
      /\ DOMAIN s = 1 .. m /\ DOMAIN t = 1 .. n /\ DOMAIN u = 1 .. m + n
  OBVIOUS
<1>2. \A i \in 1 .. m : u[i] = s[i] /\ i \in 1 .. m + n
  BY <1>1
<1>3. \A j \in 1 .. n : u[m + j] = t[j] /\ m + j \in 1 .. m + n
  BY <1>1
<1> HIDE DEF m, n, u
<1>4. ASSUME NEW i \in 1 .. m + n
      PROVE  (i \in 1 .. m /\ u[i] = s[i]) \/ (i - m \in 1 .. n /\ u[i] = t[i - m])
  <2>1. CASE i <= m
    BY <1>1, <1>2, <2>1
  <2>2. CASE i > m
    <3>1. i - m \in 1 .. n /\ m + (i - m) = i
      BY <1>1, <2>2
    <3> QED
      BY <1>3, <3>1
  <2> QED
    BY <1>1, <2>1, <2>2
<1>5. ToSet(u) = ToSet(s) \cup ToSet(t)
  <2>1. \A i \in DOMAIN u : u[i] \in ToSet(s) \cup ToSet(t)
    BY <1>1, <1>4 DEF ToSet
  <2>2. \A i \in DOMAIN s : s[i] \in ToSet(u)
    BY <1>1, <1>2 DEF ToSet
  <2>3. \A j \in DOMAIN t : t[j] \in ToSet(u)
    BY <1>1, <1>3 DEF ToSet
  <2> QED
    BY <2>1, <2>2, <2>3 DEF ToSet
<1>6. ASSUME IsInjective(s), IsInjective(t), ToSet(s) \cap ToSet(t) = {}
      PROVE  IsInjective(u)
  <2>1. \A i \in 1 .. m, j \in 1 .. n : s[i] # t[j]
    BY <1>1, <1>6 DEF ToSet
  <2>2. ASSUME NEW i \in 1 .. m + n, NEW j \in 1 .. m + n, u[i] = u[j]
        PROVE  i = j
    <3>1. CASE i \in 1 .. m /\ u[i] = s[i] /\ j \in 1 .. m /\ u[j] = s[j]
      BY <1>1, <1>6, <2>2, <3>1 DEF IsInjective
    <3>2. CASE i - m \in 1 .. n /\ u[i] = t[i - m] /\ j - m \in 1 .. n /\ u[j] = t[j - m]
      <4>1. i - m = j - m
        BY <1>1, <1>6, <2>2, <3>2 DEF IsInjective
      <4> QED
        BY <1>1, <4>1
    <3> QED
      BY <1>4, <2>1, <2>2, <3>1, <3>2
  <2> QED
    BY <1>1, <2>2 DEF IsInjective
<1> QED
  BY <1>1, <1>5, <1>6 DEF u

\* A page has the IDs at its places, once.
LEMMA PageIs ==
    ASSUME ContactsKept, NEW kind \in Kinds, NEW p \in Nat, HasPage(kind, p)
    PROVE  /\ PageOf(kind, p) \in Seq(Nat) /\ ToSet(PageOf(kind, p)) \subseteq ContactIDs(kind)
           /\ IsInjective(PageOf(kind, p))
           /\ AnsweredAtOnce(kind) => ToSet(PageOf(kind, p)) = ContactIDs(kind)
           /\ ~AnsweredAtOnce(kind) => \A x \in ContactIDs(kind) :
                 x \in ToSet(PageOf(kind, p))
                     <=> p * ListSize < PlaceOf(kind, x) /\ PlaceOf(kind, x) <= (p + 1) * ListSize
<1> DEFINE S == ContactIDs(kind)
           n == TotalOf(kind)
           s == Sorted(kind)
           page == PageOf(kind, p)
<1>1. /\ n \in Nat /\ S \subseteq Nat /\ s \in Seq(S) /\ Len(s) = n
      /\ \A x \in S : PlaceOf(kind, x) \in 1 .. n
      /\ \A x, y \in S : PlaceOf(kind, x) = PlaceOf(kind, y) => x = y
      /\ \A i \in 1 .. n : s[i] \in S /\ PlaceOf(kind, s[i]) = i
  BY SortedIs
<1>2. \A x \in S : s[PlaceOf(kind, x)] = x
  <2> HIDE DEF S, n, s
  <2> QED
    BY <1>1
<1>3. CASE AnsweredAtOnce(kind)
  <2>1. page = s
    BY <1>3 DEF PageOf
  <2> HIDE DEF page, s, n, S
  <2>2. DOMAIN s = 1 .. n
    BY <1>1
  <2>3. page \in Seq(Nat)
    BY <1>1, <2>1, <2>2, NatList
  <2>5. ToSet(page) = S
    <3>1. \A x \in S : PlaceOf(kind, x) \in DOMAIN page /\ page[PlaceOf(kind, x)] = x
      BY <1>1, <1>2, <2>1, <2>2
    <3>2. \A i \in DOMAIN page : page[i] \in S
      BY <1>1, <2>1, <2>2
    <3> QED
      BY <3>1, <3>2 DEF ToSet
  <2>4. IsInjective(page)
    BY <1>1, <2>1, <2>2 DEF IsInjective
  <2> QED
    BY <1>3, <2>3, <2>4, <2>5 DEF page, S
<1>4. CASE ~AnsweredAtOnce(kind)
  <2> DEFINE a == p * ListSize
             b == Min({(p + 1) * ListSize, n})
  <2>1. a \in Nat /\ (p + 1) * ListSize = a + ListSize /\ ListSize \in Nat \ {0} /\ a < n
    BY <1>4, ContactAssumption DEF HasPage
  <2>2. b = IF a + ListSize <= n THEN a + ListSize ELSE n
    BY <1>1, <2>1, MinIs
  <2>3. page = SubSeq(s, a + 1, b)
    BY <1>4 DEF PageOf
  <2> HIDE DEF a, b, page, s, n, S
  <2>4. b \in a + 1 .. n
    BY <1>1, <2>1, <2>2
  <2>5. page \in Seq(S) /\ Len(page) = b - a /\ \A i \in 1 .. b - a : page[i] = s[a + i]
    BY <1>1, <2>1, <2>3, <2>4
  <2>6. page \in Seq(Nat) /\ DOMAIN page = 1 .. b - a
    <3>1. DOMAIN page = 1 .. Len(page)
      BY <2>5
    <3> QED
      BY <1>1, <2>5, <3>1, NatList
  <2>7. IsInjective(page)
    <3>1. ASSUME NEW i \in DOMAIN page, NEW j \in DOMAIN page, page[i] = page[j]
          PROVE  i = j
      <4>0. i \in 1 .. b - a /\ j \in 1 .. b - a
        BY <2>6, <3>1
      <4>1. s[a + i] = s[a + j] /\ a + i \in 1 .. n /\ a + j \in 1 .. n
        <5>1. a + i \in 1 .. n /\ a + j \in 1 .. n
          BY <1>1, <2>1, <2>4, <4>0
        <5> QED
          BY <2>5, <3>1, <4>0, <5>1
      <4>2. a + i = a + j
        BY <1>1, <4>1
      <4> QED
        BY <2>1, <4>0, <4>2
    <3> QED
      BY <3>1 DEF IsInjective
  <2>8. ASSUME NEW x \in S
        PROVE  x \in ToSet(page) <=> a < PlaceOf(kind, x) /\ PlaceOf(kind, x) <= a + ListSize
    <3> DEFINE q == PlaceOf(kind, x)
    <3>1. q \in 1 .. n /\ s[q] = x
      BY <1>1, <1>2
    <3>2. ASSUME NEW i \in 1 .. b - a, page[i] = x
          PROVE  q = a + i
      <4>1. a + i \in 1 .. n /\ s[a + i] = x
        BY <1>1, <2>1, <2>4, <2>5, <3>2
      <4> QED
        BY <1>1, <4>1
    <3>3. ASSUME a < q, q <= a + ListSize
          PROVE  q - a \in 1 .. b - a /\ page[q - a] = x
      <4> HIDE DEF q
      <4>1. q - a \in 1 .. b - a /\ a + (q - a) = q
        BY <2>1, <2>2, <3>1, <3>3
      <4> QED
        BY <2>5, <3>1, <4>1
    <3>4. (\E i \in 1 .. b - a : page[i] = x) <=> a < q /\ q <= a + ListSize
      <4>1. ASSUME NEW i \in 1 .. b - a, page[i] = x
            PROVE  a < q /\ q <= a + ListSize
        <5>1. q = a + i
          BY <3>2, <4>1
        <5> HIDE DEF q
        <5> QED
          BY <1>1, <2>1, <2>2, <5>1
      <4> HIDE DEF q
      <4> QED
        BY <3>3, <4>1
    <3> QED
      BY <2>6, <3>4 DEF ToSet
  <2>9. ToSet(page) \subseteq S
    BY <2>5, <2>6 DEF ToSet
  <2> QED
    BY <1>4, <2>1, <2>6, <2>7, <2>8, <2>9 DEF page, S, a
<1> QED
  BY <1>3, <1>4

\* How often the page size goes into the total.
LEMMA DivIs ==
    ASSUME NEW t \in Nat, NEW d \in Nat \ {0}
    PROVE  /\ t \div d \in Nat /\ (t \div d) * d <= t /\ t < (t \div d) * d + d
           /\ t % d = t - (t \div d) * d
<1>1. t \div d \in Nat
  OBVIOUS
<1>2. (t \div d) * d <= t /\ t < (t \div d) * d + d
  OBVIOUS
<1>3. t % d = t - (t \div d) * d
  OBVIOUS
<1> QED
  BY <1>1, <1>2, <1>3

\* Contacts that are added move others to later places only.
LEMMA ContactsGrow ==
    ASSUME ContactsInv, ContactsKept', \A k \in Kinds : ContactIDs(k) \subseteq ContactIDs(k)', UNCHANGED listing
    PROVE  \A c \in Listers : ListsThem(listing[c])'
<1> SUFFICES ASSUME NEW c \in Listers PROVE ListsThem(listing[c])'
  OBVIOUS
<1> DEFINE l == listing[c]
           k == l.kind
           S == ContactIDs(k)
<1>1. l \in ListingOf /\ ListsThem(l) /\ l' = l /\ k' = k
  BY DEF ContactsInv
<1>2. k \in Kinds
  BY <1>1 DEF ListingOf
<1>3. \A j \in Kinds : IsFiniteSet(ContactIDs(j)') /\ ContactIDs(j)' \subseteq Nat
  <2>1. /\ contactCounter' \in Nat /\ globalContactID' \in Nat
        /\ contacts' \subseteq [id : 1 .. contactCounter', emails : SUBSET (1 .. globalContactID'), put : BOOLEAN]
    BY DEF ContactsKept
  <2> QED
    BY <2>1, IDsAre DEF ContactIDs
<1>4. S \subseteq S' /\ IsFiniteSet(S') /\ S' \subseteq Nat
  BY <1>1, <1>2, <1>3
<1>5. ASSUME NEW x \in S
      PROVE  PlaceOf(k, x) \in Nat /\ PlaceOf(k, x)' \in Nat /\ PlaceOf(k, x) <= PlaceOf(k, x)'
  <2> DEFINE A == {other \in S : StringPlace(other) <= StringPlace(x)}
             B == {other \in S' : StringPlace(other) <= StringPlace(x)}
  <2>1. PlaceOf(k, x) = Cardinality(A) /\ PlaceOf(k, x)' = Cardinality(B)
    BY <1>1 DEF PlaceOf
  <2>2. A \in SUBSET B /\ B \in SUBSET S'
    BY <1>4
  <2>3. IsFiniteSet(B)
    BY <1>4, <2>2, FS_Subset
  <2>4. IsFiniteSet(A) /\ Cardinality(A) <= Cardinality(B)
    BY <2>2, <2>3, FS_Subset
  <2> HIDE DEF A, B
  <2> QED
    BY <2>1, <2>3, <2>4, FS_CardinalityType
<1>6. HasItsPages(l) => HasItsPages(l)'
  <2> SUFFICES ASSUME HasItsPages(l), NEW x \in l.before, x \notin ToSet(l.got)
               PROVE  l.page * ListSize < PlaceOf(k, x)'
    BY <1>1 DEF HasItsPages
  <2>0. l.page \in Nat /\ ListSize \in Nat
    BY <1>1, ContactAssumption DEF ListingOf
  <2>1. l.page * ListSize < PlaceOf(k, x) /\ l.page * ListSize \in Nat
    <3>1. l.page * ListSize < PlaceOf(k, x)
      BY DEF HasItsPages
    <3> HIDE DEF l
    <3> QED
      BY <2>0, <3>1
  <2>2. x \in S
    BY <1>1 DEF ListsThem
  <2> HIDE DEF S, l, k
  <2> QED
    BY <1>5, <2>1, <2>2
<1>7. l.before = S' => l.before = S /\ HasThemOnce(l)'
  <2> SUFFICES ASSUME l.before = S' PROVE l.before = S /\ HasThemOnce(l)'
    OBVIOUS
  <2>1. l.before = S /\ S' = S
    BY <1>1, <1>4 DEF ListsThem
  <2>2. HasThemOnce(l)
    BY <1>1, <2>1 DEF ListsThem
  <2>3. \A x \in S : PlaceOf(k, x)' = PlaceOf(k, x)
    BY <1>1, <2>1 DEF PlaceOf
  <2>4. ToSet(l.got) \subseteq S
    BY <1>1 DEF ListsThem
  <2>5. HasThemOnce(l)'
    BY <1>1, <2>2, <2>3, <2>4 DEF HasThemOnce
  <2> QED
    BY <2>1, <2>5
<1> QED
  BY <1>1, <1>4, <1>6, <1>7 DEF ListsThem

\* The account has no contacts, and nobody has begun.
LEMMA ContactsInvInit == ContactsInit => ContactsInv
<1> SUFFICES ASSUME ContactsInit PROVE ContactsInv
  OBVIOUS
<1>1. ContactsKept
  BY FS_EmptySet, ContactAssumption DEF ContactsInit, ContactsKept
<1>2. posting \in [Posters -> PostingOf]
  <2>1. ASSUME NEW h \in Posters PROVE [at |-> "id", left |-> CardsOf[h], id |-> 0, more |-> 0, emails |-> {}] \in PostingOf
    BY ContactAssumption DEF PostingOf
  <2> QED
    BY <2>1 DEF ContactsInit
<1>3. \A h \in Posters : ComesFresh(h)
  BY ContactAssumption DEF ContactsInit, ComesFresh
<1>4. NoListing \in ListingOf /\ NoListing.before = {} /\ NoListing.got = <<>> /\ NoListing.at = "new"
  BY DEF NoListing, ListingOf, Kinds
<1>5. ListsThem(NoListing)
  <2>1. ToSet(<<>>) = {} /\ IsInjective(<<>>)
    BY DEF ToSet, IsInjective
  <2> QED
    BY <1>4, <2>1 DEF ListsThem, HasThemOnce
<1>6. listing = [c \in Listers |-> NoListing]
  BY DEF ContactsInit
<1> QED
  BY <1>1, <1>2, <1>3, <1>4, <1>5, <1>6 DEF ContactsInv

\* A listing goes on.
LEMMA ListingMoves ==
    ASSUME ContactsInv, NEW c \in Listers, NEW n \in ListingOf, ListsThem(n), listing' = [listing EXCEPT ![c] = n],
           UNCHANGED <<contacts, contactCounter, globalContactID, posting>>
    PROVE  ContactsInv'
<1>1. ContactsKept'
  BY DEF ContactsInv, ContactsKept
<1>2. posting' \in [Posters -> PostingOf] /\ \A h \in Posters : ComesFresh(h)'
  BY DEF ContactsInv, ComesFresh
<1>3. listing \in [Listers -> ListingOf]
  BY DEF ContactsInv
<1>4. listing' \in [Listers -> ListingOf] /\ listing'[c] = n /\ \A d \in Listers \ {c} : listing'[d] = listing[d]
  BY <1>3
<1>5. \A d \in Listers : ListsThem(listing'[d])
  BY <1>4 DEF ContactsInv
<1>6. \A k \in Kinds : ContactIDs(k)' = ContactIDs(k) /\ \A x : PlaceOf(k, x)' = PlaceOf(k, x)
  BY DEF ContactIDs, PlaceOf
<1>7. ASSUME NEW d \in Listers PROVE ListsThem(listing[d])'
  <2>1. listing'[d] \in ListingOf /\ listing'[d].kind \in Kinds
    BY <1>4 DEF ListingOf
  <2> QED
    BY <1>5, <1>6, <2>1 DEF ListsThem, HasItsPages, HasThemOnce
<1> QED
  BY <1>1, <1>2, <1>4, <1>7 DEF ContactsInv

\* The first page tells the total, which decides how many there are to be.
LEMMA FirstPageKeeps == ASSUME ContactsInv, NEW c \in Listers, FirstPage(c) PROVE ContactsInv'
<1>1. PICK kind \in Kinds : listing' = [listing EXCEPT ![c] =
              IF HasPage(kind, 0)
              THEN [at |-> IF TotalOf(kind) <= ListSize THEN "ok" ELSE "more",
                    kind |-> kind, total |-> TotalOf(kind), page |-> FromSecond,
                    got |-> PageOf(kind, 0), before |-> ContactIDs(kind)]
              ELSE [NoListing EXCEPT !.at = "err", !.kind = kind]]
  BY DEF FirstPage
<1>2. UNCHANGED <<contacts, contactCounter, globalContactID, posting>>
  BY DEF FirstPage
<1> DEFINE n == TotalOf(kind)
           S == ContactIDs(kind)
<1>3. ContactsKept
  BY DEF ContactsInv
<1>4. /\ n \in Nat /\ Cardinality(S) = n /\ S \subseteq Nat /\ ListSize \in Nat \ {0}
      /\ \A x \in S : PlaceOf(kind, x) \in 1 .. n
  BY <1>3, SortedIs, ContactAssumption
<1>5. CASE HasPage(kind, 0)
  <2> DEFINE p == PageOf(kind, 0)
             at == IF n <= ListSize THEN "ok" ELSE "more"
             l == [at |-> at, kind |-> kind, total |-> n, page |-> 1, got |-> p, before |-> S]
  <2>1. listing' = [listing EXCEPT ![c] = l]
    BY <1>1, <1>5 DEF FromSecond
  <2>2. /\ p \in Seq(Nat) /\ ToSet(p) \subseteq S /\ IsInjective(p)
        /\ AnsweredAtOnce(kind) => ToSet(p) = S
        /\ ~AnsweredAtOnce(kind) => \A x \in S : x \in ToSet(p) <=> PlaceOf(kind, x) <= ListSize
    <3>1. 0 * ListSize = 0 /\ (0 + 1) * ListSize = ListSize
      BY <1>4
    <3> QED
      BY <1>3, <1>4, <1>5, <3>1, PageIs
  <2>3. AnsweredAtOnce(kind) => n < ListSize
    BY DEF AnsweredAtOnce
  <2>4. n <= ListSize => ToSet(p) = S
    <3> HIDE DEF p, S, n
    <3>1. ASSUME ~AnsweredAtOnce(kind), n <= ListSize, NEW x \in S PROVE x \in ToSet(p)
      <4>1. PlaceOf(kind, x) <= ListSize
        BY <1>4, <3>1
      <4> QED
        BY <2>2, <3>1, <4>1
    <3> QED
      BY <2>2, <3>1
  <2>5. 1 * ListSize = ListSize
    BY <1>4
  <2> HIDE DEF p, S, n
  <2>6. l \in ListingOf
    BY <1>4, <2>2 DEF ListingOf
  <2>7. \A x \in S : x \in ToSet(p) \/ ListSize < PlaceOf(kind, x)
    BY <1>4, <2>2
  <2>8. \A x \in ToSet(p) : PlaceOf(kind, x) <= ListSize
    <3> TAKE x \in ToSet(p)
    <3>1. x \in S
      BY <2>2
    <3>2. AnsweredAtOnce(kind) => PlaceOf(kind, x) <= ListSize
      BY <1>4, <2>3, <3>1
    <3> QED
      BY <2>2, <3>1, <3>2
  <2>9. HasItsPages(l) /\ HasThemOnce(l)
    BY <2>2, <2>5, <2>7, <2>8 DEF HasItsPages, HasThemOnce
  <2>10. l.at = "more" => n > ListSize
    BY <1>4
  <2>11. ListsThem(l)
    BY <1>4, <2>2, <2>4, <2>9, <2>10 DEF ListsThem, S
  <2> HIDE DEF l
  <2> QED
    BY <1>2, <2>1, <2>6, <2>11, ListingMoves
<1>6. CASE ~HasPage(kind, 0)
  <2> DEFINE l == [NoListing EXCEPT !.at = "err", !.kind = kind]
  <2>0. NoListing \in ListingOf /\ NoListing.page = 0 /\ NoListing.got = <<>> /\ NoListing.before = {}
    BY DEF NoListing, ListingOf, Kinds
  <2>1. l.at = "err" /\ l.kind = kind /\ l.page = 0 /\ l.got = <<>> /\ l.before = {}
    BY <2>0 DEF ListingOf
  <2>2. listing' = [listing EXCEPT ![c] = l]
    BY <1>1, <1>6
  <2>3. kind = "contacts"
    <3>1. ~AnsweredAtOnce(kind) /\ ~(0 * ListSize < n)
      BY <1>6 DEF HasPage
    <3>2. n = 0 /\ n < ListSize
      BY <1>4, <3>1
    <3> QED
      BY <3>1, <3>2 DEF AnsweredAtOnce, Kinds
  <2>4. l \in ListingOf
    BY <2>0 DEF ListingOf
  <2>5. ToSet(<<>>) = {} /\ IsInjective(<<>>)
    BY DEF ToSet, IsInjective
  <2>6. ListsThem(l)
    BY <2>1, <2>3, <2>5 DEF ListsThem, HasThemOnce
  <2> HIDE DEF l
  <2> QED
    BY <1>2, <2>2, <2>4, <2>6, ListingMoves
<1> QED
  BY <1>5, <1>6

\* A listing that goes on has asked for a page, and is longer than one.
LEMMA GoesOnWith ==
    ASSUME ContactsInv, NEW c \in Listers, listing[c].at = "more"
    PROVE  LET l == listing[c] IN
           /\ l \in ListingOf /\ ListsThem(l) /\ l.kind \in Kinds /\ l.total \in Nat /\ l.page \in Nat \ {0}
           /\ l.got \in Seq(Nat) /\ ListSize \in Nat \ {0} /\ l.total > ListSize
           /\ l.total <= TotalOf(l.kind) /\ ~AnsweredAtOnce(l.kind)
<1> DEFINE l == listing[c]
<1>1. /\ l \in ListingOf /\ ListsThem(l) /\ l.kind \in Kinds /\ l.total \in Nat /\ l.page \in Nat
      /\ l.got \in Seq(Nat) /\ ListSize \in Nat \ {0}
  BY ContactAssumption DEF ContactsInv, ListingOf
<1>2. l.page >= 1 /\ l.total > ListSize /\ Cardinality(l.before) = l.total /\ l.before \subseteq ContactIDs(l.kind)
  BY <1>1 DEF ListsThem
<1>3. /\ IsFiniteSet(ContactIDs(l.kind)) /\ Cardinality(ContactIDs(l.kind)) = TotalOf(l.kind)
      /\ TotalOf(l.kind) \in Nat
  BY <1>1, SortedIs DEF ContactsInv
<1> HIDE DEF l
<1>4. l.total <= TotalOf(l.kind)
  BY <1>2, <1>3, FS_Subset
<1>5. ~AnsweredAtOnce(l.kind)
  BY <1>1, <1>2, <1>3, <1>4 DEF AnsweredAtOnce
<1> QED
  BY <1>1, <1>2, <1>4, <1>5 DEF l

\* A further page, or the panic of a server that is asked for one too many.
LEMMA NextPageKeeps == ASSUME ContactsInv, NEW c \in Listers, NextPage(c) PROVE ContactsInv'
<1> DEFINE l == listing[c]
           k == l.kind
           S == ContactIDs(k)
           p == PageOf(k, l.page)
           q == l.page * ListSize
<1>1. /\ l.at = "more" /\ l.page < Pages(c) /\ UNCHANGED <<contacts, contactCounter, globalContactID, posting>>
      /\ listing' = [listing EXCEPT ![c] = IF HasPage(k, l.page) THEN [l EXCEPT !.page = l.page + 1, !.got = l.got \o p]
                                           ELSE [l EXCEPT !.at = "err"]]
  BY DEF NextPage
<1>2. /\ l \in ListingOf /\ ListsThem(l) /\ k \in Kinds /\ l.total \in Nat /\ l.page \in Nat \ {0}
      /\ l.got \in Seq(Nat) /\ ListSize \in Nat \ {0} /\ l.total > ListSize
      /\ l.total <= TotalOf(k) /\ ~AnsweredAtOnce(k)
  BY <1>1, GoesOnWith
<1>3. ContactsKept
  BY DEF ContactsInv
<1>4. q \in Nat /\ (l.page + 1) * ListSize = q + ListSize
  <2> DEFINE r == l.page
  <2>1. r \in Nat /\ ListSize \in Nat
    BY <1>2
  <2> HIDE DEF r
  <2>2. r * ListSize \in Nat /\ (r + 1) * ListSize = r * ListSize + ListSize
    BY <2>1
  <2> QED
    BY <2>2 DEF r
<1>5. CASE HasPage(k, l.page)
  <2> DEFINE n == [l EXCEPT !.page = l.page + 1, !.got = l.got \o p]
  <2>1. /\ p \in Seq(Nat) /\ ToSet(p) \subseteq S /\ IsInjective(p)
        /\ \A x \in S : x \in ToSet(p) <=> q < PlaceOf(k, x) /\ PlaceOf(k, x) <= q + ListSize
        /\ \A x \in S : PlaceOf(k, x) \in Nat
    <3>1. \A x \in S : PlaceOf(k, x) \in Nat
      BY <1>2, <1>3, SortedIs
    <3> QED
      BY <1>2, <1>3, <1>4, <1>5, <3>1, PageIs
  <2>2. listing' = [listing EXCEPT ![c] = n]
    BY <1>1, <1>5
  <2>3. l.got \o p \in Seq(Nat) /\ ToSet(l.got \o p) = ToSet(l.got) \cup ToSet(p)
    BY <1>2, <2>1, BothLists
  <2> HIDE DEF p
  <2>4. n \in ListingOf
    <3>1. l.page + 1 \in Nat
      BY <1>2
    <3> HIDE DEF l
    <3> QED
      BY <1>2, <2>3, <3>1 DEF ListingOf
  <2>5. /\ n.at = "more" /\ n.kind = k /\ n.total = l.total /\ n.page = l.page + 1 /\ n.before = l.before
        /\ n.got = l.got \o p
    BY <1>1, <1>2 DEF ListingOf
  <2> HIDE DEF n
  <2>6. /\ l.before \subseteq S /\ ToSet(l.got) \subseteq S /\ Cardinality(l.before) = l.total /\ HasItsPages(l)
        /\ l.before = S => HasThemOnce(l)
    BY <1>1, <1>2 DEF ListsThem
  <2>7. HasItsPages(n)
    <3> SUFFICES ASSUME NEW x \in l.before, x \notin ToSet(l.got), x \notin ToSet(p)
                 PROVE  q + ListSize < PlaceOf(k, x)
      BY <1>4, <2>3, <2>5 DEF HasItsPages
    <3>1. q < PlaceOf(k, x) /\ x \in S
      BY <2>6 DEF HasItsPages
    <3> HIDE DEF q, S, k
    <3> QED
      BY <1>2, <1>4, <2>1, <3>1
  <2>8. ASSUME l.before = S
        PROVE  HasThemOnce(n)
    <3>1. IsInjective(l.got) /\ \A x \in ToSet(l.got) : PlaceOf(k, x) <= q
      BY <1>1, <2>6, <2>8 DEF HasThemOnce
    <3>2. ToSet(l.got) \cap ToSet(p) = {}
      <4> SUFFICES ASSUME NEW x \in ToSet(l.got), x \in ToSet(p) PROVE FALSE
        OBVIOUS
      <4>1. x \in S /\ PlaceOf(k, x) <= q
        BY <2>6, <3>1
      <4> HIDE DEF q, S, k
      <4> QED
        BY <1>4, <2>1, <4>1
    <3>3. IsInjective(l.got \o p)
      BY <1>2, <2>1, <3>1, <3>2, BothLists
    <3>4. ASSUME NEW x \in ToSet(n.got)
          PROVE  PlaceOf(k, x) <= q + ListSize
      <4>1. x \in S /\ (x \in ToSet(l.got) \/ x \in ToSet(p))
        BY <2>1, <2>3, <2>5, <2>6
      <4>2. x \in ToSet(l.got) => PlaceOf(k, x) <= q
        BY <3>1
      <4> HIDE DEF q, S, k
      <4> QED
        BY <1>2, <1>4, <2>1, <4>1, <4>2
    <3> QED
      BY <1>4, <2>5, <3>3, <3>4 DEF HasThemOnce
  <2>9. ListsThem(n)
    <3>1. n.page >= 1 /\ ToSet(n.got) \subseteq S
      BY <1>2, <2>1, <2>3, <2>5, <2>6
    <3> QED
      BY <1>2, <2>5, <2>6, <2>7, <2>8, <3>1 DEF ListsThem
  <2> QED
    BY <1>1, <2>2, <2>4, <2>9, ListingMoves
<1>6. CASE ~HasPage(k, l.page)
  <2> DEFINE n == [l EXCEPT !.at = "err"]
             t == l.total
             d == t \div ListSize
             r == l.page
  <2>1. listing' = [listing EXCEPT ![c] = n]
    BY <1>1, <1>6
  <2>2. n \in ListingOf
    BY <1>2 DEF ListingOf
  <2>3. n.at = "err" /\ n.kind = k /\ n.total = t /\ n.page = r /\ n.before = l.before /\ n.got = l.got
    BY <1>2 DEF ListingOf
  <2>4. d \in Nat /\ d * ListSize <= t /\ t % ListSize = t - d * ListSize
    BY <1>2, DivIs
  <2>5. r < d + 1 /\ r \in Nat /\ ListSize \in Nat
    BY <1>1, <1>2 DEF Pages
  <2>6. ~(r * ListSize < TotalOf(k)) /\ TotalOf(k) \in Nat
    BY <1>2, <1>3, <1>6, SortedIs DEF HasPage
  <2>7. t \in Nat /\ t <= TotalOf(k)
    BY <1>2
  <2>8. t % ListSize = 0
    <3> HIDE DEF t, d, r
    <3>1. r <= d /\ r * ListSize \in Nat /\ d * ListSize \in Nat
      BY <2>4, <2>5
    <3>2. r * ListSize <= d * ListSize
      <4>1. d = r + (d - r) /\ d - r \in Nat
        BY <2>4, <2>5, <3>1
      <4>2. d * ListSize = r * ListSize + (d - r) * ListSize /\ (d - r) * ListSize \in Nat
        BY <2>4, <2>5, <4>1
      <4> QED
        BY <3>1, <4>2
    <3>3. t <= r * ListSize
      BY <2>5, <2>6, <2>7, <3>1
    <3> QED
      BY <2>4, <2>7, <3>1, <3>2, <3>3
  <2> HIDE DEF n
  <2>9. ListsThem(n)
    BY <1>1, <1>2, <2>3, <2>8 DEF ListsThem, HasThemOnce
  <2> QED
    BY <1>1, <2>1, <2>2, <2>9, ListingMoves
<1> QED
  BY <1>5, <1>6

\* The last page was answered.
LEMMA ListingDoneKeeps == ASSUME ContactsInv, NEW c \in Listers, ListingDone(c) PROVE ContactsInv'
<1> DEFINE l == listing[c]
           n == [l EXCEPT !.at = "ok"]
           d == l.total \div ListSize
<1>1. /\ l.at = "more" /\ l.page = d + 1 /\ UNCHANGED <<contacts, contactCounter, globalContactID, posting>>
  BY DEF ListingDone, Pages
<1>2. listing \in [Listers -> ListingOf]
  BY DEF ContactsInv
<1>3. listing' = [listing EXCEPT ![c] = n]
  BY <1>2 DEF ListingDone
<1>4. /\ l \in ListingOf /\ ListsThem(l) /\ l.total \in Nat /\ ListSize \in Nat \ {0} /\ l.total > ListSize
  BY <1>1, GoesOnWith
<1>5. n \in ListingOf
  BY <1>4 DEF ListingOf
<1>6. /\ n.at = "ok" /\ n.kind = l.kind /\ n.total = l.total /\ n.page = l.page /\ n.before = l.before
      /\ n.got = l.got
  BY <1>4 DEF ListingOf
<1>7. l.page # 1
  <2>1. d \in Nat /\ l.total < d * ListSize + ListSize
    BY <1>4, DivIs
  <2>2. d # 0
    <3>1. 0 * ListSize = 0
      BY <1>4
    <3> HIDE DEF d, l
    <3> QED
      BY <1>4, <2>1, <3>1
  <2> HIDE DEF d
  <2> QED
    BY <1>1, <2>1, <2>2
<1> HIDE DEF n
<1>8. ListsThem(n)
  BY <1>1, <1>4, <1>6, <1>7 DEF ListsThem, HasItsPages, HasThemOnce
<1> QED
  BY <1>1, <1>3, <1>5, <1>8, ListingMoves

\* What a step may do to the contacts there are (the step of NoContactLost).
ContactsStay == \A c \in contacts : \E d \in contacts' : d.id = c.id /\ d.emails = c.emails /\ (c.put => d.put)

\* A card goes on, and those of others stay where they are.
LEMMA PostingIs ==
    ASSUME ContactsInv, NEW h \in Posters, NEW n \in PostingOf, posting' = [posting EXCEPT ![h] = n]
    PROVE  /\ posting \in [Posters -> PostingOf] /\ posting[h] \in PostingOf
           /\ posting' \in [Posters -> PostingOf] /\ posting'[h] = n
           /\ \A g \in Posters \ {h} : posting'[g] = posting[g]
  BY DEF ContactsInv

\* A card gets the next ID, which no contact and no other card has.
LEMMA GenerateKeeps == ASSUME ContactsInv, NEW h \in Posters, GenerateContactID(h) PROVE ContactsInv' /\ ContactsStay
<1> DEFINE q == posting[h]
           n == [q EXCEPT !.at = "convert", !.id = contactCounter + 1]
<1>1. /\ q.at = "id" /\ q.left > 0 /\ contactCounter' = contactCounter + 1
      /\ posting' = [posting EXCEPT ![h].at = "convert", ![h].id = contactCounter + 1]
      /\ UNCHANGED <<contacts, globalContactID, listing>>
  BY DEF GenerateContactID, NextID
<1>2. contactCounter \in Nat /\ globalContactID \in Nat /\ posting \in [Posters -> PostingOf] /\ q \in PostingOf
  BY DEF ContactsInv, ContactsKept
<1>3. n \in PostingOf /\ n.at = "convert" /\ n.id = contactCounter + 1 /\ n.left = q.left
  <2>1. contactCounter + 1 \in Nat
    BY <1>2
  <2> HIDE DEF q
  <2> QED
    BY <1>2, <2>1 DEF PostingOf
<1>4. posting' = [posting EXCEPT ![h] = n]
  BY <1>1, <1>2
<1> HIDE DEF n
<1>5. /\ posting' \in [Posters -> PostingOf] /\ posting'[h] = n
      /\ \A g \in Posters \ {h} : posting'[g] = posting[g]
  BY <1>3, <1>4, PostingIs
<1>6. ContactsKept'
  BY <1>1, <1>2 DEF ContactsInv, ContactsKept
<1>7. \A c \in Listers : ListsThem(listing[c])'
  <2>1. \A k \in Kinds : ContactIDs(k) \subseteq ContactIDs(k)'
    BY <1>1 DEF ContactIDs
  <2> QED
    BY <1>1, <1>6, <2>1, ContactsGrow
<1>8. ASSUME NEW g \in Posters PROVE ComesFresh(g)'
  <2>1. \A f \in Posters : ComesFresh(f) /\ posting[f] \in PostingOf
    BY <1>2 DEF ContactsInv
  <2>2. \A c \in contacts : c.id \in 1 .. contactCounter
    BY DEF ContactsInv, ContactsKept
  <2>3. \A f \in Posters : posting[f].at \in {"convert", "emails"} => posting[f].id \in 1 .. contactCounter
    BY <2>1 DEF ComesFresh
  <2>4. CASE g = h
    <3>1. q.left <= CardsOf[h]
      BY <2>1 DEF ComesFresh
    <3>2. \A c \in contacts : c.id # contactCounter + 1
      BY <1>2, <2>2
    <3>3. \A f \in Posters \ {h} : posting[f].at \in {"convert", "emails"} => posting[f].id # contactCounter + 1
      BY <1>2, <2>3
    <3>4. contactCounter + 1 \in 1 .. contactCounter'
      BY <1>1, <1>2
    <3> QED
      BY <1>1, <1>3, <1>5, <2>4, <3>1, <3>2, <3>3, <3>4 DEF ComesFresh
  <2>5. CASE g # h
    <3>1. posting'[g] = posting[g] /\ ComesFresh(g)
      BY <1>5, <2>1, <2>5
    <3>2. posting[g].at \in {"convert", "emails"} => posting[g].id \in 1 .. contactCounter' /\ posting[g].id # contactCounter + 1
      BY <1>1, <1>2, <2>3
    <3>3. \A f \in Posters \ {g} : posting'[f].at \in {"convert", "emails"}
             /\ posting[g].at \in {"convert", "emails"} => posting'[f].id # posting[g].id
      BY <1>3, <1>5, <3>1, <3>2 DEF ComesFresh
    <3>4. \A f \in Posters \ {g} : posting'[f].at = "emails"
             => posting[f].at = "emails" /\ posting'[f].emails = posting[f].emails
      BY <1>3, <1>5
    <3> QED
      BY <1>1, <3>1, <3>2, <3>3, <3>4 DEF ComesFresh
  <2> QED
    BY <2>4, <2>5
<1>9. ContactsStay
  BY <1>1 DEF ContactsStay
<1> QED
  BY <1>1, <1>5, <1>6, <1>7, <1>8, <1>9 DEF ContactsInv

\* A card that has its ID gets IDs for its emails, or ends its way.
LEMMA PostingMoves ==
    ASSUME ContactsInv, NEW h \in Posters, NEW n \in PostingOf, posting' = [posting EXCEPT ![h] = n],
           UNCHANGED <<contacts, contactCounter, listing>>, globalContactID' \in {globalContactID, globalContactID + 1},
           n.left <= CardsOf[h],
           n.at \in {"convert", "emails"} =>
               posting[h].at \in {"convert", "emails"} /\ n.id = posting[h].id /\ n.left = posting[h].left,
           n.at = "emails" =>
               \A x \in n.emails : \/ posting[h].at = "emails" /\ x \in posting[h].emails
                                   \/ x = globalContactID + 1 /\ globalContactID' = globalContactID + 1
    PROVE  ContactsInv' /\ ContactsStay
<1>1. /\ posting' \in [Posters -> PostingOf] /\ posting'[h] = n
      /\ \A g \in Posters \ {h} : posting'[g] = posting[g]
  BY PostingIs
<1>2. /\ globalContactID \in Nat /\ globalContactID' \in Nat
      /\ 1 .. globalContactID \subseteq 1 .. globalContactID' /\ globalContactID + 1 \notin 1 .. globalContactID
  <2>1. globalContactID \in Nat
    BY DEF ContactsInv, ContactsKept
  <2> QED
    BY <2>1
<1>3. ContactsKept'
  BY <1>2 DEF ContactsInv, ContactsKept
<1>4. \A c \in Listers : ListsThem(listing[c])'
  <2>1. \A k \in Kinds : ContactIDs(k) \subseteq ContactIDs(k)'
    BY DEF ContactIDs
  <2> QED
    BY <1>3, <2>1, ContactsGrow
<1>5. /\ \A c \in contacts : c.emails \subseteq 1 .. globalContactID
      /\ \A g \in Posters : posting[g].at = "emails" => posting[g].emails \subseteq 1 .. globalContactID
      /\ \A g \in Posters : ComesFresh(g)
  BY DEF ContactsInv, ContactsKept, ComesFresh
<1>6. n.at = "emails" =>
          /\ n.emails \subseteq 1 .. globalContactID'
          /\ \A c \in contacts : c.emails \cap n.emails = {}
          /\ \A g \in Posters \ {h} : posting[g].at = "emails" => posting[g].emails \cap n.emails = {}
  <2> SUFFICES ASSUME n.at = "emails"
               PROVE  \A x \in n.emails :
                         /\ x \in 1 .. globalContactID' /\ \A c \in contacts : x \notin c.emails
                         /\ \A g \in Posters \ {h} : posting[g].at = "emails" => x \notin posting[g].emails
    OBVIOUS
  <2> TAKE x \in n.emails
  <2>1. CASE posting[h].at = "emails" /\ x \in posting[h].emails
    BY <1>2, <1>5, <2>1 DEF ComesFresh
  <2>2. CASE x = globalContactID + 1 /\ globalContactID' = globalContactID + 1
    <3>1. x \in 1 .. globalContactID' /\ x \notin 1 .. globalContactID
      BY <1>2, <2>2
    <3> QED
      BY <1>5, <3>1
  <2> QED
    BY <2>1, <2>2
<1>7. ASSUME NEW g \in Posters PROVE ComesFresh(g)'
  <2>1. CASE g = h
    <3>1. n.at \in {"convert", "emails"} =>
              /\ n.left > 0 /\ n.id \in 1 .. contactCounter
              /\ \A c \in contacts : c.id # n.id
              /\ \A f \in Posters \ {h} : posting[f].at \in {"convert", "emails"} => posting[f].id # n.id
      BY <1>5 DEF ComesFresh
    <3> QED
      BY <1>1, <1>6, <2>1, <3>1 DEF ComesFresh
  <2>2. CASE g # h
    <3>1. ComesFresh(g) /\ posting'[g] = posting[g]
      BY <1>1, <1>5, <2>2
    <3>2. \A f \in Posters \ {g} : posting'[f].at \in {"convert", "emails"}
             => posting[f].at \in {"convert", "emails"} /\ posting'[f].id = posting[f].id
      BY <1>1
    <3>3. posting[g].at = "emails" =>
              \A f \in Posters \ {g} : posting'[f].at = "emails" => posting'[f].emails \cap posting[g].emails = {}
      <4> SUFFICES ASSUME posting[g].at = "emails", NEW f \in Posters \ {g}, posting'[f].at = "emails"
                   PROVE  posting'[f].emails \cap posting[g].emails = {}
        OBVIOUS
      <4>1. CASE f = h
        BY <1>1, <1>6, <2>2, <4>1
      <4>2. CASE f # h
        BY <1>1, <3>1, <4>2 DEF ComesFresh
      <4> QED
        BY <4>1, <4>2
    <3> QED
      BY <1>2, <3>1, <3>2, <3>3 DEF ComesFresh
  <2> QED
    BY <2>1, <2>2
<1>8. ContactsStay
  BY DEF ContactsStay
<1> QED
  BY <1>1, <1>3, <1>4, <1>7, <1>8 DEF ContactsInv

\* A card is read, answered with an error, or ends its request.
LEMMA ConvertKeeps == ASSUME ContactsInv, NEW h \in Posters, ConvertCard(h) PROVE ContactsInv' /\ ContactsStay
<1> DEFINE q == posting[h]
<1>1. /\ q.at = "convert" /\ UNCHANGED <<contacts, contactCounter, listing>>
      /\ \/ /\ \E n \in 0 .. MaxEmails : posting' = [posting EXCEPT ![h].at = "emails", ![h].more = n, ![h].emails = {}]
            /\ UNCHANGED globalContactID
         \/ posting' = [posting EXCEPT ![h].at = "id", ![h].left = @ - 1] /\ UNCHANGED globalContactID
         \/ posting' = [posting EXCEPT ![h].at = "panicked"] /\ globalContactID' \in {globalContactID, globalContactID + 1}
  BY DEF ConvertCard
<1>2. posting \in [Posters -> PostingOf] /\ q \in PostingOf
  BY DEF ContactsInv
<1>3. q.left <= CardsOf[h] /\ q.left > 0 /\ q.left \in Nat /\ CardsOf[h] \in Nat
  BY <1>1, <1>2, ContactAssumption DEF ContactsInv, ComesFresh, PostingOf
<1>4. CASE /\ \E n \in 0 .. MaxEmails : posting' = [posting EXCEPT ![h].at = "emails", ![h].more = n, ![h].emails = {}]
           /\ UNCHANGED globalContactID
  <2>1. PICK e \in 0 .. MaxEmails : posting' = [posting EXCEPT ![h].at = "emails", ![h].more = e, ![h].emails = {}]
    BY <1>4
  <2> DEFINE n == [q EXCEPT !.at = "emails", !.more = e, !.emails = {}]
  <2>2. posting' = [posting EXCEPT ![h] = n]
    BY <1>2, <2>1
  <2> HIDE DEF q
  <2>3. n \in PostingOf /\ n.at = "emails" /\ n.left = q.left /\ n.id = q.id /\ n.emails = {}
    BY <1>2 DEF PostingOf
  <2> HIDE DEF n
  <2> QED
    BY <1>1, <1>3, <1>4, <2>2, <2>3, PostingMoves DEF q
<1>5. CASE posting' = [posting EXCEPT ![h].at = "id", ![h].left = @ - 1] /\ UNCHANGED globalContactID
  <2> DEFINE m == q.left - 1
             n == [q EXCEPT !.at = "id", !.left = m]
  <2>1. m \in Nat /\ m <= CardsOf[h]
    BY <1>3
  <2>2. posting' = [posting EXCEPT ![h] = n]
    BY <1>2, <1>5
  <2> HIDE DEF m, q
  <2>3. n \in PostingOf /\ n.at = "id" /\ n.left = m
    BY <1>2, <2>1 DEF PostingOf
  <2> HIDE DEF n
  <2> QED
    BY <1>1, <1>5, <2>1, <2>2, <2>3, PostingMoves
<1>6. CASE posting' = [posting EXCEPT ![h].at = "panicked"] /\ globalContactID' \in {globalContactID, globalContactID + 1}
  <2> DEFINE n == [q EXCEPT !.at = "panicked"]
  <2>1. posting' = [posting EXCEPT ![h] = n]
    BY <1>2, <1>6
  <2>2. n \in PostingOf /\ n.at = "panicked" /\ n.left = q.left
    BY <1>2 DEF PostingOf
  <2> HIDE DEF n
  <2> QED
    BY <1>1, <1>3, <1>6, <2>1, <2>2, PostingMoves
<1> QED
  BY <1>1, <1>4, <1>5, <1>6

\* An email of the card gets the next ID, which no other email has.
LEMMA NumberKeeps == ASSUME ContactsInv, NEW h \in Posters, NumberEmail(h) PROVE ContactsInv' /\ ContactsStay
<1> DEFINE q == posting[h]
           e == globalContactID + 1
           m == q.more - 1
           n == [q EXCEPT !.more = m, !.emails = q.emails \cup {e}]
<1>1. /\ q.at = "emails" /\ q.more > 0 /\ globalContactID' = e /\ UNCHANGED <<contacts, contactCounter, listing>>
      /\ posting' = [posting EXCEPT ![h].more = @ - 1, ![h].emails = @ \cup {e}]
  BY DEF NumberEmail, NextEmailID
<1>2. globalContactID \in Nat /\ posting \in [Posters -> PostingOf] /\ q \in PostingOf
  BY DEF ContactsInv, ContactsKept
<1>3. posting' = [posting EXCEPT ![h] = n]
  BY <1>1, <1>2
<1>4. m \in 0 .. MaxEmails /\ e \in Nat /\ q.left <= CardsOf[h]
  <2>1. q.more \in 0 .. MaxEmails /\ MaxEmails \in Nat
    BY <1>2, ContactAssumption DEF PostingOf
  <2>2. q.left <= CardsOf[h]
    BY DEF ContactsInv, ComesFresh
  <2> HIDE DEF q
  <2> QED
    BY <1>1, <1>2, <2>1, <2>2
<1> HIDE DEF m, q
<1>5. n \in PostingOf /\ n.at = "emails" /\ n.left = q.left /\ n.id = q.id /\ n.emails = q.emails \cup {e}
  <2>1. q.emails \cup {e} \in SUBSET Nat
    BY <1>2, <1>4 DEF PostingOf
  <2> HIDE DEF e
  <2> QED
    BY <1>1, <1>2, <1>4, <2>1 DEF PostingOf
<1> HIDE DEF n
<1> QED
  BY <1>1, <1>3, <1>4, <1>5, PostingMoves DEF q

\* A card becomes a contact, which takes the place of no other.
LEMMA AddKeeps == ASSUME ContactsInv, NEW h \in Posters, AddUserContact(h) PROVE ContactsInv' /\ ContactsStay
<1> DEFINE q == posting[h]
           new == [id |-> q.id, emails |-> q.emails, put |-> FALSE]
           m == q.left - 1
           n == [q EXCEPT !.at = "id", !.left = m]
<1>1. /\ q.at = "emails" /\ contacts' = {c \in contacts : c.id # q.id} \cup {new}
      /\ posting' = [posting EXCEPT ![h].at = "id", ![h].left = @ - 1]
      /\ UNCHANGED <<contactCounter, globalContactID, listing>>
  BY DEF AddUserContact
<1>2. contactCounter \in Nat /\ globalContactID \in Nat /\ posting \in [Posters -> PostingOf] /\ q \in PostingOf
  BY DEF ContactsInv, ContactsKept
<1>3. /\ q.left <= CardsOf[h] /\ q.left > 0 /\ q.left \in Nat /\ CardsOf[h] \in Nat
      /\ q.id \in 1 .. contactCounter /\ q.emails \subseteq 1 .. globalContactID
      /\ \A c \in contacts : c.id # q.id /\ c.emails \cap q.emails = {}
      /\ \A g \in Posters \ {h} : posting[g].at \in {"convert", "emails"} => posting[g].id # q.id
      /\ \A g \in Posters \ {h} : posting[g].at = "emails" => posting[g].emails \cap q.emails = {}
  BY <1>1, <1>2, ContactAssumption DEF ContactsInv, ComesFresh, PostingOf
<1>4. m \in Nat /\ m <= CardsOf[h]
  BY <1>3
<1>5. posting' = [posting EXCEPT ![h] = n]
  BY <1>1, <1>2
<1>6. contacts' = contacts \cup {new}
  BY <1>1, <1>3
<1>7. /\ new \in [id : 1 .. contactCounter, emails : SUBSET (1 .. globalContactID), put : BOOLEAN]
      /\ new.id = q.id /\ new.emails = q.emails
  BY <1>3
<1> HIDE DEF m, q, new
<1>8. n \in PostingOf /\ n.at = "id" /\ n.left = m
  BY <1>2, <1>4 DEF PostingOf
<1> HIDE DEF n
<1>9. /\ posting' \in [Posters -> PostingOf] /\ posting'[h] = n
      /\ \A g \in Posters \ {h} : posting'[g] = posting[g]
  BY <1>5, <1>8, PostingIs
<1>10. ContactsKept'
  <2>2. contacts' \subseteq [id : 1 .. contactCounter', emails : SUBSET (1 .. globalContactID'), put : BOOLEAN]
    BY <1>1, <1>6, <1>7 DEF ContactsInv, ContactsKept
  <2>3. \A c, d \in contacts' : c.id = d.id \/ c.emails \cap d.emails # {} => c = d
    BY <1>3, <1>6, <1>7 DEF ContactsInv, ContactsKept
  <2> QED
    BY <1>1, <1>2, <2>2, <2>3 DEF ContactsKept
<1>11. \A c \in Listers : ListsThem(listing[c])'
  <2>1. \A k \in Kinds : ContactIDs(k) \subseteq ContactIDs(k)'
    BY <1>6 DEF ContactIDs
  <2> QED
    BY <1>1, <1>10, <2>1, ContactsGrow
<1>12. ASSUME NEW g \in Posters PROVE ComesFresh(g)'
  <2>1. CASE g = h
    BY <1>4, <1>8, <1>9, <2>1 DEF ComesFresh
  <2>2. CASE g # h
    <3>1. ComesFresh(g) /\ posting'[g] = posting[g]
      BY <1>9, <2>2 DEF ContactsInv
    <3>2. /\ posting[g].at \in {"convert", "emails"} => \A c \in contacts' : c.id # posting[g].id
          /\ posting[g].at = "emails" => \A c \in contacts' : c.emails \cap posting[g].emails = {}
      BY <1>3, <1>6, <1>7, <2>2, <3>1 DEF ComesFresh
    <3> QED
      BY <1>1, <1>8, <1>9, <3>1, <3>2 DEF ComesFresh
  <2> QED
    BY <2>1, <2>2
<1>13. ContactsStay
  BY <1>6 DEF ContactsStay
<1> QED
  BY <1>1, <1>9, <1>10, <1>11, <1>12, <1>13 DEF ContactsInv

\* The cards of a contact are replaced.
LEMMA UpdateKeeps == ASSUME ContactsInv, UpdateUserContact PROVE ContactsInv' /\ ContactsStay
<1>1. PICK o \in contacts : contacts' = (contacts \ {o}) \cup {WithCards(o)}
  BY DEF UpdateUserContact
<1>2. UNCHANGED <<contactCounter, globalContactID, posting, listing>>
  BY DEF UpdateUserContact
<1> DEFINE new == WithCards(o)
<1>3. /\ o \in [id : 1 .. contactCounter, emails : SUBSET (1 .. globalContactID), put : BOOLEAN]
      /\ contacts \subseteq [id : 1 .. contactCounter, emails : SUBSET (1 .. globalContactID), put : BOOLEAN]
      /\ \A c, d \in contacts : c.id = d.id \/ c.emails \cap d.emails # {} => c = d
  BY DEF ContactsInv, ContactsKept
<1>4. /\ new \in [id : 1 .. contactCounter, emails : SUBSET (1 .. globalContactID), put : BOOLEAN]
      /\ new.id = o.id /\ new.emails = o.emails /\ new.put = TRUE
  BY <1>3 DEF WithCards
<1> HIDE DEF new
<1>5. contacts' = (contacts \ {o}) \cup {new}
  BY <1>1 DEF new
<1>6. ContactsKept'
  <2>2. contacts' \subseteq [id : 1 .. contactCounter', emails : SUBSET (1 .. globalContactID'), put : BOOLEAN]
    BY <1>2, <1>3, <1>4, <1>5
  <2>3. \A c, d \in contacts' : c.id = d.id \/ c.emails \cap d.emails # {} => c = d
    <3> SUFFICES ASSUME NEW c \in contacts', NEW d \in contacts', c.id = d.id \/ c.emails \cap d.emails # {} PROVE c = d
      OBVIOUS
    <3>1. CASE c # new /\ d # new
      BY <1>3, <1>5, <3>1
    <3>2. CASE c = new /\ d # new
      BY <1>3, <1>4, <1>5, <3>2
    <3>3. CASE c # new /\ d = new
      BY <1>3, <1>4, <1>5, <3>3
    <3> QED
      BY <3>1, <3>2, <3>3
  <2> QED
    BY <1>2, <2>2, <2>3 DEF ContactsInv, ContactsKept
<1>7. \A k \in Kinds : ContactIDs(k) \subseteq ContactIDs(k)'
  <2>1. \A c \in contacts : \E d \in contacts' : d.id = c.id /\ d.emails = c.emails
    BY <1>4, <1>5
  <2> QED
    BY <2>1 DEF ContactIDs
<1>8. \A c \in Listers : ListsThem(listing[c])'
  BY <1>2, <1>6, <1>7, ContactsGrow
<1>9. ContactsStay
  BY <1>4, <1>5 DEF ContactsStay
<1>10. ASSUME NEW h \in Posters PROVE ComesFresh(h)'
  <2>1. ComesFresh(h)
    BY DEF ContactsInv
  <2>2. \A c \in contacts' : \E d \in contacts : c.id = d.id /\ c.emails = d.emails
    BY <1>4, <1>5
  <2>3. /\ posting[h].at \in {"convert", "emails"} => \A c \in contacts' : c.id # posting[h].id
        /\ posting[h].at = "emails" => \A c \in contacts' : c.emails \cap posting[h].emails = {}
    BY <2>1, <2>2 DEF ComesFresh
  <2> QED
    BY <1>2, <2>1, <2>3 DEF ComesFresh
<1> QED
  BY <1>2, <1>6, <1>8, <1>9, <1>10 DEF ContactsInv

\* Every step keeps the invariant, and the contacts there are.
LEMMA ContactsSteps == ASSUME ContactsInv, ContactsNext PROVE ContactsInv' /\ ContactsStay
<1>1. CASE \E h \in Posters : GenerateContactID(h) \/ ConvertCard(h) \/ NumberEmail(h) \/ AddUserContact(h)
  BY <1>1, GenerateKeeps, ConvertKeeps, NumberKeeps, AddKeeps
<1>2. CASE UpdateUserContact
  BY <1>2, UpdateKeeps
<1>3. CASE \E c \in Listers : FirstPage(c) \/ NextPage(c) \/ ListingDone(c)
  <2>1. ContactsInv'
    BY <1>3, FirstPageKeeps, NextPageKeeps, ListingDoneKeeps
  <2>2. UNCHANGED contacts
    BY <1>3 DEF FirstPage, NextPage, ListingDone
  <2>3. ContactsStay
    BY <2>2 DEF ContactsStay
  <2> QED
    BY <2>1, <2>3
<1> QED
  BY <1>1, <1>2, <1>3 DEF ContactsNext

\* For any requests that post any number of cards, any page size and any number of listings: no contact is lost and none
\* loses the IDs of its emails, a listing that succeeds has all contacts there were, unless more were added than its last
\* page has room for, it has none twice if none was added, and it fails only for an empty account or a full last page.
THEOREM ContactsAreListed == ContactsSpec => ContactsListed
<1>1. ContactsInv => ContactsTypeOK /\ ListingIsComplete /\ ListingIsOnce /\ ListingFailsAtBoundary
  <2> SUFFICES ASSUME ContactsInv
               PROVE  ContactsTypeOK /\ ListingIsComplete /\ ListingIsOnce /\ ListingFailsAtBoundary
    OBVIOUS
  <2>1. ContactsTypeOK
    BY ContactAssumption DEF ContactsInv, ContactsKept, ComesFresh, PostingOf, ListingOf, ContactsTypeOK
  <2>2. ASSUME NEW c \in Listers
        PROVE  LET l == listing[c] IN
               /\ l \in ListingOf /\ ListsThem(l) /\ l.kind \in Kinds /\ l.total \in Nat /\ l.page \in Nat
               /\ IsFiniteSet(ContactIDs(l.kind)) /\ Cardinality(ContactIDs(l.kind)) = TotalOf(l.kind)
               /\ TotalOf(l.kind) \in Nat /\ l.before \subseteq ContactIDs(l.kind)
               /\ \A x \in ContactIDs(l.kind) : PlaceOf(l.kind, x) \in 1 .. TotalOf(l.kind)
    <3>1. listing[c] \in ListingOf /\ ListsThem(listing[c]) /\ ContactsKept
      BY DEF ContactsInv
    <3>2. listing[c].kind \in Kinds /\ listing[c].total \in Nat /\ listing[c].page \in Nat
      BY <3>1 DEF ListingOf
    <3>3. listing[c].before \subseteq ContactIDs(listing[c].kind)
      BY <3>1 DEF ListsThem
    <3> QED
      BY <3>1, <3>2, <3>3, SortedIs
  <2>3. ListingIsComplete
    <3> SUFFICES ASSUME NEW c \in Listers, listing[c].at = "ok",
                        listing[c].page > 1 => Added(c) <= Pages(c) * ListSize - listing[c].total
                 PROVE  listing[c].before \subseteq ToSet(listing[c].got)
      BY DEF ListingIsComplete
    <3> DEFINE l == listing[c]
               n == TotalOf(l.kind)
    <3>1. /\ HasItsPages(l) /\ Cardinality(l.before) = l.total
          /\ IF l.page = 1 THEN l.before \subseteq ToSet(l.got) ELSE l.page = Pages(c)
      BY <2>2 DEF ListsThem, Pages
    <3>2. CASE l.page = 1
      BY <3>1, <3>2
    <3>3. CASE l.page # 1
      <4>1. Pages(c) >= 1 /\ l.page = Pages(c) /\ ListSize \in Nat
        BY <2>2, <3>1, <3>3, DivIs, ContactAssumption DEF Pages
      <4>2. n - l.total <= l.page * ListSize - l.total
        BY <2>2, <3>1, <3>3, <4>1 DEF Added
      <4>3. l.page * ListSize \in Nat /\ n \in Nat /\ l.total \in Nat
        BY <2>2, <4>1
      <4>4. ASSUME NEW x \in l.before PROVE ~(l.page * ListSize < PlaceOf(l.kind, x))
        <5>1. PlaceOf(l.kind, x) \in 1 .. n
          BY <2>2
        <5> HIDE DEF l, n
        <5> QED
          BY <4>2, <4>3, <5>1
      <4> QED
        BY <3>1, <4>4 DEF HasItsPages
    <3> QED
      BY <3>2, <3>3
  <2>4. ListingIsOnce
    <3> SUFFICES ASSUME NEW c \in Listers, Added(c) = 0 PROVE IsInjective(listing[c].got)
      BY DEF ListingIsOnce
    <3> DEFINE l == listing[c]
               S == ContactIDs(l.kind)
    <3>1. Cardinality(l.before) \in Nat /\ IsFiniteSet(S) /\ l.before \subseteq S
      BY <2>2, FS_Subset, FS_CardinalityType
    <3>2. Cardinality(l.before) = Cardinality(S)
      BY <2>2, <3>1 DEF Added
    <3>3. l.before = S
      BY <3>1, <3>2, FS_Subset
    <3> QED
      BY <2>2, <3>3 DEF ListsThem, HasThemOnce
  <2>5. ListingFailsAtBoundary
    BY <2>2 DEF ListsThem, ListingFailsAtBoundary
  <2> QED
    BY <2>1, <2>3, <2>4, <2>5
<1>2. ContactsInv /\ [ContactsNext]_contactVars => ContactsInv' /\ [ContactsStay]_contactVars
  <2>1. ASSUME ContactsInv, UNCHANGED contactVars PROVE ContactsInv'
    <3>1. ContactsKept'
      BY <2>1 DEF contactVars, ContactsInv, ContactsKept
    <3>2. \A c \in Listers : ListsThem(listing[c])'
      <4>1. \A k \in Kinds : ContactIDs(k) \subseteq ContactIDs(k)'
        BY <2>1 DEF contactVars, ContactIDs
      <4> QED
        BY <2>1, <3>1, <4>1, ContactsGrow DEF contactVars
    <3>3. \A h \in Posters : ComesFresh(h)'
      BY <2>1 DEF contactVars, ContactsInv, ComesFresh
    <3> QED
      BY <2>1, <3>1, <3>2, <3>3 DEF contactVars, ContactsInv
  <2> QED
    BY <2>1, ContactsSteps
<1>3. ContactsSpec => [][ContactsStay]_contactVars
  BY <1>2, ContactsInvInit, PTL DEF ContactsSpec
<1>4. ContactsSpec => NoContactLost
  BY <1>3 DEF ContactsStay, NoContactLost
<1>5. ContactsSpec => []ContactsInv
  BY <1>2, ContactsInvInit, PTL DEF ContactsSpec
<1> QED
  BY <1>1, <1>4, <1>5, PTL DEF ContactsListed

------------------------------------------------------------------------------
(* Cards: the fields of a group, and what an operation leaves of them. *)

CardFields == EmailFields \cup [key : {"PM"}, value : Values, group : Groups] \cup {Version}

CardSet == [type : CardTypes, fields : Seq(CardFields), secret : BOOLEAN, signed : BOOLEAN]

\* A card is within its bound, has its version and can be decoded.
GoodCard(c) ==
    c \in CardSet /\ Len(c.fields) <= MaxFields /\ Version \in ToSet(c.fields) /\ Decodes(c)

LEMMA CardBounds == MaxFields \in Nat /\ 1 <= MaxFields /\ Version.key # "PM" /\ Version.key # "EMAIL"
<1>1. MaxFields \in Nat \ {0}
  BY CardsAssumption, Zenon
<1>2. MaxFields \in Nat /\ 1 <= MaxFields
  BY <1>1
<1>3. Version.key = "VERSION"
  BY DEF Version
<1> QED
  BY <1>2, <1>3

LEMMA FirstIs == ASSUME NEW ids, ids \subseteq Nat, ids # {} PROVE First(ids) \in ids /\ \A j \in ids : First(ids) <= j
<1> DEFINE R == OpToRel(<, Nat)
<1>1. IsWellFoundedOn(R, Nat)
  BY NatLessThanWellFounded
<1>2. \A x, y \in Nat : y < x => <<y, x>> \in R
  BY DEF OpToRel
<1> HIDE DEF R
<1>3. PICK i \in ids : \A j \in ids : ~(<<j, i>> \in R)
  BY <1>1, WFMin
<1>4. ASSUME NEW j \in ids
      PROVE  i <= j
  <2>1. i \in Nat /\ j \in Nat
    BY <1>3
  <2>2. ~(j < i)
    BY <1>2, <1>3, <2>1
  <2> QED
    BY <2>1, <2>2
<1> QED
  BY <1>3, <1>4 DEF First

\* A field is where it is, with what it has.
LEMMA FieldIs ==
    ASSUME NEW f \in CardFields
    PROVE  /\ f = [key |-> f.key, value |-> f.value, group |-> f.group]
           /\ f.key = "EMAIL" => f.group \in Groups
           /\ f # Version => f.group \in Groups /\ f.key \in {"EMAIL", "PM"}
           /\ f.group \in Groups
<1>1. CASE f \in EmailFields
  BY <1>1 DEF EmailFields
<1>2. CASE f \in [key : {"PM"}, value : Values, group : Groups]
  BY <1>2
<1>3. CASE f = Version
  BY <1>3, CardsAssumption DEF Version
<1> QED
  BY <1>1, <1>2, <1>3 DEF CardFields

\* Encoding gives a card that can be decoded.
LEMMA EncodedGood ==
    ASSUME NEW c \in CardSet, NEW fields \in Seq(CardFields), Len(fields) <= MaxFields, Version \in ToSet(fields)
    PROVE  GoodCard(Encoded(c, fields)) /\ Encoded(c, fields).fields = fields
<1> DEFINE e == Encoded(c, fields)
           signed == Signs(c.type) \/ (c.signed /\ fields = c.fields)
           secret == Encrypts(c.type)
<1>1. e = [c EXCEPT !.fields = fields, !.secret = secret, !.signed = signed]
  BY DEF Encoded
<1>2. secret \in BOOLEAN /\ signed \in BOOLEAN /\ (Signs(c.type) => signed) /\ secret = Encrypts(c.type)
  BY DEF Encrypts
<1> HIDE DEF e, signed, secret
<1>3. e \in CardSet /\ e.fields = fields /\ e.type = c.type /\ e.secret = secret /\ e.signed = signed
  BY <1>1, <1>2 DEF CardSet
<1>4. Decodes(e)
  BY <1>2, <1>3, Zenon DEF Decodes
<1> QED
  BY <1>3, <1>4 DEF GoodCard, e

\* The group of an email is that of a field.
LEMMA GroupIs ==
    ASSUME NEW c \in CardSet, NEW email, EmailAt(c, email) # {}
    PROVE  /\ First(EmailAt(c, email)) \in EmailAt(c, email)
           /\ GroupOf(c, email) \in Groups
<1>1. c.fields \in Seq(CardFields)
  BY DEF CardSet
<1>2. EmailAt(c, email) \subseteq Nat /\ EmailAt(c, email) \subseteq DOMAIN c.fields
  BY <1>1 DEF EmailAt
<1>3. First(EmailAt(c, email)) \in EmailAt(c, email)
  BY <1>2, FirstIs
<1>4. c.fields[First(EmailAt(c, email))] \in CardFields
  BY <1>1, <1>2, <1>3
<1> QED
  BY <1>3, <1>4, FieldIs DEF GroupOf

\* What is in a group and what is not, as sets that do not depend on the list.
In(g) == {f \in CardFields : f.group = g}
NotIn(g) == {f \in CardFields : f.group # g}

LEMMA ElementsAre == ASSUME NEW S, NEW s \in Seq(S) PROVE ToSet(s) \subseteq S /\ \A i \in DOMAIN s : s[i] \in ToSet(s)
BY DEF ToSet

LEMMA SidesAre ==
    ASSUME NEW fields \in Seq(CardFields), NEW g
    PROVE  /\ Inside(fields, g) = Filter(fields, NotIn(g))
           /\ Filter(fields, FieldsOf(fields, g)) = Filter(fields, In(g))
<1>1. ToSet(fields) \subseteq CardFields
  BY ElementsAre
<1>2. \A x \in ToSet(fields) : x \in ToSet(fields) \ FieldsOf(fields, g) <=> x \in NotIn(g)
  BY <1>1 DEF NotIn, FieldsOf
<1>3. \A x \in ToSet(fields) : x \in FieldsOf(fields, g) <=> x \in In(g)
  BY <1>1 DEF In, FieldsOf
<1> QED
  BY <1>2, <1>3, FilterSame DEF Inside

\* The elements of a list after an append and after a change of one.
LEMMA ElementOf ==
    ASSUME NEW S, NEW s \in Seq(S), NEW x \in S, NEW y \in S, NEW k \in 1 .. Len(s) + 1
    PROVE  /\ Append(s, x)[k] = IF k = Len(s) + 1 THEN x ELSE s[k]
           /\ \A j \in 1 .. Len(s) + 1 : [Append(s, x) EXCEPT ![j] = y][k] = IF k = j THEN y ELSE Append(s, x)[k]
<1>1. Append(s, x)[k] = IF k = Len(s) + 1 THEN x ELSE s[k]
  OBVIOUS
<1> DEFINE t == Append(s, x)
<1>2. DOMAIN t = 1 .. Len(s) + 1
  OBVIOUS
<1> HIDE DEF t
<1>3. \A j \in 1 .. Len(s) + 1 : [t EXCEPT ![j] = y][k] = IF k = j THEN y ELSE t[k]
  BY <1>2
<1> QED
  BY <1>1, <1>3 DEF t


\* A list in which one of the elements that are dropped is another of them.
LEMMA FilterChanged ==
    ASSUME NEW S, NEW list \in Seq(S), NEW A, NEW i \in DOMAIN list, list[i] \in A, NEW y \in S, y \in A
    PROVE  Filter([list EXCEPT ![i] = y], A) = Filter(list, A)
<1> DEFINE X == {s \in Seq(S) : \A j \in DOMAIN s : s[j] \in A => Filter([s EXCEPT ![j] = y], A) = Filter(s, A)}
<1>1. <<>> \in X
  OBVIOUS
<1>2. ASSUME NEW s \in Seq(S), s \in X, NEW x \in S
      PROVE  Append(s, x) \in X
  <2>1. Append(s, x) \in Seq(S) /\ DOMAIN Append(s, x) = 1 .. Len(s) + 1 /\ DOMAIN s = 1 .. Len(s) /\ Len(s) \in Nat
    OBVIOUS
  <2>2. Filter(Append(s, x), A) = IF x \in A THEN Filter(s, A) ELSE Append(Filter(s, A), x)
    BY FilterSteps
  <2>3. ASSUME NEW j \in DOMAIN Append(s, x), Append(s, x)[j] \in A
        PROVE  Filter([Append(s, x) EXCEPT ![j] = y], A) = Filter(Append(s, x), A)
    <3>1. ASSUME j = Len(s) + 1
          PROVE  Filter([Append(s, x) EXCEPT ![j] = y], A) = Filter(Append(s, x), A)
      <4>1. x \in A
        BY <2>3, <3>1
      <4>2. [Append(s, x) EXCEPT ![j] = y] = Append(s, y)
        <5>1. [Append(s, x) EXCEPT ![j] = y] \in Seq(S) /\ Len([Append(s, x) EXCEPT ![j] = y]) = Len(s) + 1
          BY <2>1, <3>1
        <5>2. Append(s, y) \in Seq(S) /\ Len(Append(s, y)) = Len(s) + 1
          BY <2>1
        <5>3. \A k \in 1 .. Len(s) + 1 : [Append(s, x) EXCEPT ![j] = y][k] = Append(s, y)[k]
          BY <2>1, <3>1, ElementOf
        <5> QED
          BY <5>1, <5>2, <5>3, SeqEqual
      <4>3. Filter(Append(s, y), A) = Filter(s, A)
        BY FilterSteps
      <4> QED
        BY <2>2, <4>1, <4>2, <4>3
    <3>2. ASSUME j # Len(s) + 1
          PROVE  Filter([Append(s, x) EXCEPT ![j] = y], A) = Filter(Append(s, x), A)
      <4>1. j \in DOMAIN s /\ s[j] \in A
        BY <2>1, <2>3, <3>2
      <4> DEFINE t == [s EXCEPT ![j] = y]
      <4>2. t \in Seq(S) /\ [Append(s, x) EXCEPT ![j] = y] = Append(t, x)
        <5>1. t \in Seq(S) /\ Len(t) = Len(s)
          BY <2>1, <4>1
        <5>2. [Append(s, x) EXCEPT ![j] = y] \in Seq(S) /\ Len([Append(s, x) EXCEPT ![j] = y]) = Len(s) + 1
          BY <2>1, <4>1
        <5>3. Append(t, x) \in Seq(S) /\ Len(Append(t, x)) = Len(s) + 1
          <6> HIDE DEF t
          <6> QED BY <5>1
        <5>4. \A k \in 1 .. Len(s) + 1 : [Append(s, x) EXCEPT ![j] = y][k] = Append(t, x)[k]
          <6> SUFFICES ASSUME NEW k \in 1 .. Len(s) + 1
                       PROVE  [Append(s, x) EXCEPT ![j] = y][k] = Append(t, x)[k]
            OBVIOUS
          <6>1. Append(t, x)[k] = IF k = Len(s) + 1 THEN x ELSE t[k]
            <7> HIDE DEF t
            <7>1. k \in 1 .. Len(t) + 1
              BY <5>1
            <7>2. Append(t, x)[k] = IF k = Len(t) + 1 THEN x ELSE t[k]
              BY <5>1, <7>1
            <7> QED
              BY <5>1, <7>2
          <6>2. k # Len(s) + 1 => t[k] = IF k = j THEN y ELSE s[k]
            BY <2>1, <4>1
          <6>3. [Append(s, x) EXCEPT ![j] = y][k] = IF k = j THEN y ELSE IF k = Len(s) + 1 THEN x ELSE s[k]
            BY <2>1, <4>1, ElementOf
          <6>4. j # Len(s) + 1
            BY <3>2
          <6> HIDE DEF t
          <6> QED
            BY <6>1, <6>2, <6>3, <6>4, Zenon
        <5> QED
          BY <5>1, <5>2, <5>3, <5>4, SeqEqual
      <4>3. Filter(t, A) = Filter(s, A)
        BY <1>2, <4>1
      <4> HIDE DEF t
      <4>4. Filter(Append(t, x), A) = IF x \in A THEN Filter(t, A) ELSE Append(Filter(t, A), x)
        BY <4>2, FilterSteps
      <4> QED
        BY <2>2, <4>2, <4>3, <4>4
    <3> QED
      BY <3>1, <3>2
  <2> QED
    BY <2>1, <2>3
<1>3. Seq(S) \subseteq X
  <2> HIDE DEF X
  <2> QED BY <1>1, <1>2, SeqSet
<1> QED
  BY <1>3

------------------------------------------------------------------------------
(* Cards: the inductive invariant. *)

\* The copy of a group is a good card.
CopyGood == copy # NoCopy => copy \in [group : Groups, card : CardSet, uses : Nat] /\ GoodCard(copy.card)

CardsInv == GoodCard(card) /\ CopyGood /\ SettingsReadBack

SettingField(g, value) == [key |-> "PM", value |-> value, group |-> g]

LEMMA SettingFieldIs ==
    ASSUME NEW g \in Groups, NEW value \in Values
    PROVE  /\ SettingField(g, value) \in CardFields /\ SettingField(g, value) \in In(g)
           /\ \A h : h # g => SettingField(g, value) \in NotIn(h)
BY DEF SettingField, CardFields, In, NotIn

\* A setting that is added or has its value changed leaves other groups alone,
\* and is the one that is found.
LEMMA GroupSetIs ==
    ASSUME NEW fields \in Seq(CardFields), NEW g \in Groups, NEW value \in Values
    PROVE  LET new == GroupSet(fields, g, "PM", value)
           IN  /\ new \in Seq(CardFields)
               /\ Len(new) = IF Own(fields, "PM", g) # {} THEN Len(fields) ELSE Len(fields) + 1
               /\ \A i \in DOMAIN fields :
                      /\ i \in DOMAIN new /\ new[i].key = fields[i].key /\ new[i].group = fields[i].group
                      /\ fields[i].key # "PM" => new[i] = fields[i]
               /\ \A i \in DOMAIN new \ DOMAIN fields : new[i].key = "PM"
               /\ \A h : h # g => Filter(new, NotIn(h)) = Filter(fields, NotIn(h))
               /\ Filter(new, In(g)) = Filter(fields, In(g))
               /\ InGroup(new, "PM", g) # {} /\ new[First(InGroup(new, "PM", g))].value = value
<1> DEFINE new == GroupSet(fields, g, "PM", value)
           at == Own(fields, "PM", g)
           y == SettingField(g, value)
<1>1. at = {i \in DOMAIN fields : fields[i].key = "PM" /\ fields[i].group = g}
  BY DEF Own, InGroup, Indices
<1>2. y \in CardFields /\ y \in In(g) /\ y.key = "PM" /\ y.group = g /\ y.value = value /\ (\A h : h # g => y \in NotIn(h))
  BY SettingFieldIs DEF SettingField
<1>3. DOMAIN fields = 1 .. Len(fields) /\ Len(fields) \in Nat /\ \A i \in DOMAIN fields : fields[i] \in CardFields
  OBVIOUS
<1>4. CASE at # {}
  <2> DEFINE i == First(at)
  <2>1. i \in at /\ at \subseteq DOMAIN fields
    <3>1. at \subseteq Nat
      BY <1>1, <1>3
    <3> QED
      BY <1>1, <1>4, <3>1, FirstIs
  <2>2. fields[i] \in CardFields /\ fields[i].key = "PM" /\ fields[i].group = g
    BY <1>1, <1>3, <2>1
  <2>3. [fields[i] EXCEPT !.value = value] = y
    BY <2>2, FieldIs DEF SettingField
  <2>4. new = [fields EXCEPT ![i].value = value]
    BY <1>4 DEF GroupSet
  <2> HIDE DEF i, y, at
  <2>5. new = [fields EXCEPT ![i] = y]
    BY <2>3, <2>4
  <2> HIDE DEF new
  <2>6. new \in Seq(CardFields) /\ Len(new) = Len(fields) /\ DOMAIN new = DOMAIN fields
    BY <1>2, <2>1, <2>5
  <2>7. \A j \in DOMAIN fields : new[j] = IF j = i THEN y ELSE fields[j]
    BY <2>1, <2>5
  <2>8. \A j \in DOMAIN fields : new[j].key = fields[j].key /\ new[j].group = fields[j].group
    BY <1>2, <2>2, <2>7
  <2>9. fields[i] \in In(g) /\ \A h : h # g => fields[i] \in NotIn(h)
    BY <2>2 DEF In, NotIn
  <2>10. Filter(new, In(g)) = Filter(fields, In(g))
    <3>1. i \in DOMAIN fields /\ y \in CardFields /\ y \in In(g) /\ fields[i] \in In(g)
      BY <1>2, <2>1, <2>9
    <3>2. Filter([fields EXCEPT ![i] = y], In(g)) = Filter(fields, In(g))
      BY <3>1, FilterChanged
    <3> QED
      BY <2>5, <3>2
  <2>11. ASSUME NEW h, h # g
         PROVE  Filter(new, NotIn(h)) = Filter(fields, NotIn(h))
    <3>1. i \in DOMAIN fields /\ y \in CardFields /\ y \in NotIn(h) /\ fields[i] \in NotIn(h)
      BY <1>2, <2>1, <2>9, <2>11
    <3>2. Filter([fields EXCEPT ![i] = y], NotIn(h)) = Filter(fields, NotIn(h))
      BY <3>1, FilterChanged
    <3> QED
      BY <2>5, <3>2
  <2>12. InGroup(new, "PM", g) = at
    BY <1>1, <2>6, <2>8 DEF InGroup, Indices
  <2>13. InGroup(new, "PM", g) # {} /\ new[First(InGroup(new, "PM", g))].value = value
    BY <1>2, <2>1, <2>7, <2>12 DEF i
  <2> QED
    BY <1>4, <2>2, <2>6, <2>7, <2>8, <2>10, <2>11, <2>13 DEF new, at
<1>5. CASE at = {}
  <2>1. new = Append(fields, y)
    BY <1>5 DEF GroupSet, SettingField
  <2> HIDE DEF y, new, at
  <2> DEFINE n == Len(fields) + 1
  <2>2. new \in Seq(CardFields) /\ Len(new) = n /\ DOMAIN new = 1 .. n
    BY <1>2, <1>3, <2>1
  <2>3. \A j \in 1 .. n : new[j] = IF j = n THEN y ELSE fields[j]
    BY <1>2, <2>1, ElementOf
  <2>4. Filter(new, In(g)) = Filter(fields, In(g))
    BY <1>2, <2>1, FilterSteps
  <2>5. ASSUME NEW h, h # g
        PROVE  Filter(new, NotIn(h)) = Filter(fields, NotIn(h))
    <3>1. y \in NotIn(h)
      BY <1>2, <2>5
    <3> QED
      BY <1>2, <2>1, <3>1, FilterSteps
  <2>6. InGroup(new, "PM", g) = {n}
    <3>1. \A j \in DOMAIN fields : ~(fields[j].key = "PM" /\ fields[j].group = g)
      BY <1>1, <1>5
    <3>2. \A j \in 1 .. n : new[j].key = "PM" /\ new[j].group = g <=> j = n
      BY <1>2, <1>3, <2>3, <3>1
    <3>3. n \in 1 .. n
      BY <1>3
    <3> QED
      BY <2>2, <3>2, <3>3 DEF InGroup, Indices
  <2>7. First({n}) = n
    <3>1. n \in Nat
      BY <1>3
    <3> QED
      BY <3>1, FirstIs
  <2>8. new[n].value = value /\ n \in DOMAIN new
    BY <1>2, <1>3, <2>2, <2>3
  <2>9. \A j \in DOMAIN fields : j \in DOMAIN new /\ new[j] = fields[j]
    BY <1>3, <2>2, <2>3
  <2>10. \A j \in DOMAIN new \ DOMAIN fields : new[j].key = "PM"
    BY <1>2, <1>3, <2>2, <2>3
  <2> QED
    BY <1>5, <2>2, <2>4, <2>5, <2>6, <2>7, <2>8, <2>9, <2>10 DEF new, at
<1> QED
  BY <1>4, <1>5

------------------------------------------------------------------------------
(* Cards: the steps. *)

LEMMA CardsInvInit == CardsInit => CardsInv
<1> SUFFICES ASSUME CardsInit PROVE CardsInv
  OBVIOUS
<1>1. PICK type \in CardTypes :
        card = Encoded([type |-> type, fields |-> <<>>, secret |-> FALSE, signed |-> FALSE], <<Version>>)
  BY DEF CardsInit
<1> DEFINE blank == [type |-> type, fields |-> <<>>, secret |-> FALSE, signed |-> FALSE]
<1>2. blank \in CardSet
  <2>1. <<>> \in Seq(CardFields)
    OBVIOUS
  <2> QED
    BY <2>1 DEF CardSet
<1>3. <<Version>> \in Seq(CardFields) /\ Len(<<Version>>) <= MaxFields /\ Version \in ToSet(<<Version>>)
  <2>1. Version \in CardFields
    BY DEF CardFields
  <2>2. <<Version>> \in Seq(CardFields) /\ Len(<<Version>>) = 1 /\ <<Version>>[1] = Version /\ DOMAIN <<Version>> = 1 .. 1
    BY <2>1
  <2>3. 1 <= MaxFields
    BY CardBounds
  <2> QED
    BY <2>2, <2>3 DEF ToSet
<1> HIDE DEF blank
<1>4. GoodCard(card)
  BY <1>1, <1>2, <1>3, EncodedGood DEF blank
<1> QED
  BY <1>4 DEF CardsInit, CardsInv, CopyGood, SettingsReadBack

\* A change beside the copy leaves the copy's card alone.
LEMMA BesideIs ==
    ASSUME CopyGood, Beside
    PROVE  CopyGood' /\ (copy # NoCopy => copy'.card = copy.card)
<1>1. CASE copy = NoCopy
  BY <1>1 DEF Beside, CopyGood
<1>2. CASE copy # NoCopy
  <2>1. copy' = [copy EXCEPT !.uses = @ + 1] /\ copy \in [group : Groups, card : CardSet, uses : Nat]
    BY <1>2 DEF Beside, CopyGood
  <2>2. copy' \in [group : Groups, card : CardSet, uses : Nat] /\ copy'.card = copy.card
    BY <2>1
  <2> QED
    BY <1>2, <2>2 DEF CopyGood
<1> QED
  BY <1>1, <1>2

\* What is not done through a group and is no setting.
LEMMA PlainStep ==
    ASSUME CardsInv, GoodCard(card'), setting' = NoSetting, Beside
    PROVE  CardsInv' /\ LeavesOthers
<1>1. CopyGood' /\ (copy # NoCopy => copy'.card = copy.card)
  BY BesideIs DEF CardsInv
<1>2. CardsInv'
  BY <1>1 DEF CardsInv, SettingsReadBack
<1> QED
  BY <1>1, <1>2 DEF LeavesOthers

\* A change of the card gives a good card.
LEMMA ChangeIs ==
    ASSUME NEW c \in CardSet, NEW fields \in Seq(CardFields), Len(fields) <= MaxFields, Change(c, fields)
    PROVE  GoodCard(card')
<1>1. card' = Encoded(c, fields) /\ Version \in ToSet(fields)
  BY DEF Change, CanEncode
<1> QED
  BY <1>1, EncodedGood

LEMMA SetFieldSteps == ASSUME CardsInv, NEW field \in EmailFields, SetField(field) PROVE CardsInv' /\ LeavesOthers
<1>1. card \in CardSet /\ card.fields \in Seq(CardFields) /\ Len(card.fields) <= MaxFields /\ Len(card.fields) \in Nat
  BY DEF CardsInv, GoodCard, CardSet
<1>2. field \in CardFields
  BY DEF CardFields
<1> DEFINE at == Indices(card.fields, field.key)
<1>3. at # {} => First(at) \in DOMAIN card.fields
  <2>1. at \subseteq DOMAIN card.fields /\ at \subseteq Nat
    BY <1>1 DEF Indices
  <2> QED
    BY <2>1, FirstIs
<1>4. at # {} => Change(card, [card.fields EXCEPT ![First(at)] = field])
  BY DEF SetField
<1>5. at = {} => Len(card.fields) < MaxFields /\ Change(card, Append(card.fields, field))
  BY DEF SetField
<1> HIDE DEF at
<1>6. ASSUME at # {} PROVE GoodCard(card')
  <2> DEFINE new == [card.fields EXCEPT ![First(at)] = field]
  <2>1. new \in Seq(CardFields) /\ Len(new) = Len(card.fields)
    BY <1>1, <1>2, <1>3, <1>6
  <2> HIDE DEF new
  <2> QED
    BY <1>1, <1>4, <1>6, <2>1, ChangeIs DEF new
<1>7. ASSUME at = {} PROVE GoodCard(card')
  <2> DEFINE new == Append(card.fields, field)
  <2>1. new \in Seq(CardFields) /\ Len(new) = Len(card.fields) + 1
    BY <1>1, <1>2
  <2>2. Len(new) <= MaxFields
    BY <1>1, <1>5, <1>7, <2>1, CardBounds
  <2> HIDE DEF new
  <2> QED
    BY <1>1, <1>5, <1>7, <2>1, <2>2, ChangeIs DEF new
<1>8. setting' = NoSetting /\ Beside
  BY DEF SetField
<1> QED
  BY <1>6, <1>7, <1>8, PlainStep

LEMMA AddFieldSteps == ASSUME CardsInv, NEW field \in EmailFields, AddField(field) PROVE CardsInv' /\ LeavesOthers
<1>1. card \in CardSet /\ card.fields \in Seq(CardFields) /\ Len(card.fields) \in Nat
  BY DEF CardsInv, GoodCard, CardSet
<1>2. field \in CardFields
  BY DEF CardFields
<1> DEFINE new == Append(card.fields, field)
<1>3. new \in Seq(CardFields) /\ Len(new) = Len(card.fields) + 1
  BY <1>1, <1>2
<1>4. Len(card.fields) < MaxFields /\ Change(card, new) /\ setting' = NoSetting /\ Beside
  BY DEF AddField
<1> HIDE DEF new
<1>5. Len(new) <= MaxFields
  BY <1>1, <1>3, <1>4, CardBounds
<1> QED
  BY <1>1, <1>3, <1>4, <1>5, ChangeIs, PlainStep

LEMMA ChangeTypeSteps == ASSUME CardsInv, NEW type \in CardTypes, ChangeType(type) PROVE CardsInv' /\ LeavesOthers
<1>1. /\ card \in CardSet /\ card.fields \in Seq(CardFields) /\ Len(card.fields) <= MaxFields
      /\ Version \in ToSet(card.fields)
  BY DEF CardsInv, GoodCard, CardSet
<1>2. [card EXCEPT !.type = type] \in CardSet
  BY <1>1 DEF CardSet
<1>3. card' = Encoded([card EXCEPT !.type = type], card.fields) /\ setting' = NoSetting /\ Beside
  BY DEF ChangeType, Retyped
<1>4. GoodCard(card')
  BY <1>1, <1>2, <1>3, EncodedGood
<1> QED
  BY <1>3, <1>4, PlainStep

LEMMA DeleteGroupSteps == ASSUME CardsInv, NEW email, DeleteGroup(email) PROVE CardsInv' /\ LeavesOthers
<1>1. card \in CardSet /\ card.fields \in Seq(CardFields) /\ Len(card.fields) <= MaxFields /\ Len(card.fields) \in Nat
  BY DEF CardsInv, GoodCard, CardSet
<1> DEFINE new == Outside(card, GroupOf(card, email))
<1>2. new \in Seq(CardFields) /\ Len(new) <= Len(card.fields) /\ Len(new) \in Nat
  <2>1. new \in Seq(CardFields) /\ Len(new) <= Len(card.fields)
    BY <1>1, KeptIs DEF Outside
  <2> HIDE DEF new
  <2> QED
    BY <2>1
<1>3. Change(card, new) /\ setting' = NoSetting /\ Beside
  BY DEF DeleteGroup
<1> HIDE DEF new
<1>4. Len(new) <= MaxFields
  BY <1>1, <1>2, CardBounds
<1> QED
  BY <1>1, <1>2, <1>3, <1>4, ChangeIs, PlainStep

LEMMA GetGroupSteps == ASSUME CardsInv, NEW email, GetGroup(email) PROVE CardsInv' /\ LeavesOthers
<1>1. card \in CardSet /\ GoodCard(card) /\ EmailAt(card, email) # {}
  BY DEF CardsInv, GoodCard, GetGroup
<1>2. copy' = [group |-> GroupOf(card, email), card |-> card, uses |-> 0] /\ UNCHANGED <<card, setting>>
  BY DEF GetGroup
<1>3. copy' \in [group : Groups, card : CardSet, uses : Nat] /\ copy'.card = card
  BY <1>1, <1>2, GroupIs
<1>4. CopyGood'
  BY <1>1, <1>2, <1>3 DEF CopyGood
<1>5. GoodCard(card)' /\ SettingsReadBack'
  BY <1>1, <1>2 DEF CardsInv, SettingsReadBack
<1> QED
  BY <1>2, <1>3, <1>4, <1>5 DEF CardsInv, LeavesOthers

LEMMA WriteBackSteps == ASSUME CardsInv, WriteBack PROVE CardsInv' /\ LeavesOthers
<1>1. copy # NoCopy /\ card' = copy.card /\ copy' = NoCopy /\ setting' = NoSetting
  BY DEF WriteBack
<1>2. GoodCard(card') /\ CopyGood' /\ SettingsReadBack'
  BY <1>1 DEF CardsInv, CopyGood, SettingsReadBack
<1> QED
  BY <1>1, <1>2 DEF CardsInv, LeavesOthers

LEMMA SetSettingsSteps ==
    ASSUME CardsInv, NEW email \in Emails, NEW value \in Values, SetSettings(email, value)
    PROVE  CardsInv' /\ LeavesOthers
<1>1. /\ card \in CardSet /\ card.fields \in Seq(CardFields) /\ Len(card.fields) <= MaxFields
      /\ Len(card.fields) \in Nat /\ Version \in ToSet(card.fields)
  BY DEF CardsInv, GoodCard, CardSet
<1> DEFINE g == GroupOf(card, email)
           fields == card.fields
           new == GroupSet(fields, g, "PM", value)
<1>2. EmailAt(card, email) # {} /\ g \in Groups
  BY <1>1, GroupIs DEF SetSettings
<1>3. /\ card' = Encoded(card, new) /\ setting' = [email |-> email, value |-> value] /\ Beside
      /\ Own(fields, "PM", g) # {} \/ Len(fields) < MaxFields
  BY DEF SetSettings, WithSetting
<1>4. /\ new \in Seq(CardFields)
      /\ Len(new) = IF Own(fields, "PM", g) # {} THEN Len(fields) ELSE Len(fields) + 1
      /\ \A i \in DOMAIN fields :
             /\ i \in DOMAIN new /\ new[i].key = fields[i].key /\ new[i].group = fields[i].group
             /\ fields[i].key # "PM" => new[i] = fields[i]
      /\ \A i \in DOMAIN new \ DOMAIN fields : new[i].key = "PM"
      /\ \A h : h # g => Filter(new, NotIn(h)) = Filter(fields, NotIn(h))
      /\ InGroup(new, "PM", g) # {} /\ new[First(InGroup(new, "PM", g))].value = value
  <2> HIDE DEF g, fields
  <2> QED
    BY <1>1, <1>2, GroupSetIs DEF fields
<1> HIDE DEF g, new, fields
<1>5. Len(new) <= MaxFields
  BY <1>1, <1>3, <1>4, CardBounds DEF fields
<1>6. Version \in ToSet(new)
  <2>1. PICK i \in DOMAIN fields : fields[i] = Version
    BY <1>1 DEF fields, ToSet
  <2>2. new[i] = Version /\ i \in DOMAIN new
    BY <1>4, <2>1, CardBounds
  <2> QED
    BY <2>2 DEF ToSet
<1>7. GoodCard(card') /\ card'.fields = new
  BY <1>1, <1>3, <1>4, <1>5, <1>6, EncodedGood
<1>8. EmailAt(card', email) = EmailAt(card, email)
  <2>1. \A i : i \in EmailAt(card', email) <=> i \in EmailAt(card, email)
    BY <1>4, <1>7 DEF EmailAt, fields
  <2> QED
    BY <2>1
<1>9. GroupOf(card', email) = g
  <2>1. First(EmailAt(card, email)) \in DOMAIN fields
    BY <1>1, <1>2, GroupIs DEF EmailAt, fields
  <2> QED
    BY <1>4, <1>7, <1>8, <2>1 DEF GroupOf, g, fields
<1>10. GetSetting(card', email) = value
  BY <1>4, <1>7, <1>9 DEF GetSetting
<1>11. CopyGood' /\ (copy # NoCopy => copy'.card = copy.card)
  BY <1>3, BesideIs DEF CardsInv
<1>12. CardsInv'
  <2>1. SettingsReadBack'
    BY <1>3, <1>10 DEF SettingsReadBack
  <2> QED
    BY <1>7, <1>11, <2>1 DEF CardsInv
<1>13. ASSUME NEW h \in Groups, h # GroupOf(card, setting'.email)
       PROVE  Inside(card'.fields, h) = Inside(card.fields, h)
  <2>1. h # g
    BY <1>3, <1>13 DEF g
  <2>2. Filter(new, NotIn(h)) = Filter(fields, NotIn(h))
    BY <1>4, <2>1
  <2> QED
    BY <1>1, <1>4, <1>7, <2>2, SidesAre DEF fields
<1> QED
  BY <1>11, <1>12, <1>13 DEF LeavesOthers

\* What is done through a group leaves all others alone.
LEMMA UseGroupSteps == ASSUME CardsInv, NEW value \in Values, UseGroup(value) PROVE CardsInv' /\ LeavesOthers
<1> DEFINE c == copy.card
           g == copy.group
           fields == c.fields
           y == SettingField(g, value)
<1>1. copy # NoCopy /\ copy \in [group : Groups, card : CardSet, uses : Nat] /\ GoodCard(c) /\ UNCHANGED <<card, setting>>
  BY DEF CardsInv, CopyGood, UseGroup
<1>2. c \in CardSet /\ fields \in Seq(CardFields) /\ Version \in ToSet(fields) /\ g \in Groups
  BY <1>1 DEF GoodCard, CardSet
<1>3. PICK new \in {GroupSet(fields, g, "PM", value), Append(fields, y),
                    Filter(fields, SettingsWith(fields, g, value)), Filter(fields, SettingsOf(fields, g))} :
        Len(new) <= MaxFields /\ copy' = [copy EXCEPT !.card = Encoded(c, new), !.uses = @ + 1]
  BY DEF UseGroup, SettingField
<1> DEFINE Fits(list) == /\ list \in Seq(CardFields) /\ Version \in ToSet(list)
                         /\ Filter(list, In(g)) = Filter(fields, In(g))
<1>4. PICK i \in DOMAIN fields : fields[i] = Version
  BY <1>2 DEF ToSet
<1>5. Fits(GroupSet(fields, g, "PM", value))
  <2> DEFINE list == GroupSet(fields, g, "PM", value)
  <2>1. /\ list \in Seq(CardFields) /\ Filter(list, In(g)) = Filter(fields, In(g))
        /\ \A j \in DOMAIN fields : j \in DOMAIN list /\ (fields[j].key # "PM" => list[j] = fields[j])
    <3> HIDE DEF fields, g
    <3> QED BY <1>2, GroupSetIs
  <2> HIDE DEF list
  <2>2. list[i] = Version /\ i \in DOMAIN list
    BY <1>4, <2>1, CardBounds
  <2> QED
    BY <2>1, <2>2 DEF ToSet, list
<1>6. Fits(Append(fields, y))
  <2>1. y \in CardFields /\ y \in In(g)
    BY <1>2, SettingFieldIs
  <2> HIDE DEF y, fields, g
  <2>2. Append(fields, y) \in Seq(CardFields) /\ ToSet(Append(fields, y)) = ToSet(fields) \cup {y}
    BY <1>2, <2>1, AppendKeeps
  <2>3. Filter(Append(fields, y), In(g)) = Filter(fields, In(g))
    BY <1>2, <2>1, FilterSteps
  <2> QED
    BY <1>2, <2>2, <2>3
<1>7. ASSUME NEW gone, gone \subseteq SettingsOf(fields, g)
      PROVE  Fits(Filter(fields, gone))
  <2>1. gone \subseteq ToSet(fields) /\ ToSet(fields) \subseteq CardFields /\ \A f \in gone : f.key = "PM" /\ f.group = g
    BY <1>2, <1>7, ElementsAre DEF SettingsOf, FieldsOf
  <2>2. gone \cup In(g) = In(g)
    BY <2>1 DEF In
  <2>3. Version \notin gone
    BY <2>1 DEF Version
  <2> HIDE DEF fields, g
  <2>4. Filter(fields, gone) \in Seq(CardFields) /\ ToSet(Filter(fields, gone)) = ToSet(fields) \ gone
    BY <1>2, KeptIs
  <2>5. Filter(Filter(fields, gone), In(g)) = Filter(fields, gone \cup In(g))
    BY <1>2, FilterTwice
  <2> QED
    BY <1>2, <2>2, <2>3, <2>4, <2>5
<1>8. Fits(new)
  <2>1. SettingsWith(fields, g, value) \subseteq SettingsOf(fields, g)
    BY DEF SettingsWith
  <2>2. Fits(Filter(fields, SettingsWith(fields, g, value))) /\ Fits(Filter(fields, SettingsOf(fields, g)))
    <3> HIDE DEF Fits
    <3> QED BY <1>7, <2>1
  <2> HIDE DEF Fits
  <2> QED
    BY <1>3, <1>5, <1>6, <2>2
<1> HIDE DEF c, g, fields, y
<1>9. GoodCard(Encoded(c, new)) /\ Encoded(c, new).fields = new
  BY <1>2, <1>3, <1>8, EncodedGood
<1>10. /\ copy' \in [group : Groups, card : CardSet, uses : Nat]
       /\ copy'.card = Encoded(c, new) /\ copy'.group = g
  <2>1. Encoded(c, new) \in CardSet
    BY <1>9 DEF GoodCard
  <2>2. copy.uses + 1 \in Nat /\ copy.group \in Groups
    BY <1>1
  <2> DEFINE e == Encoded(c, new)
  <2>3. copy' = [copy EXCEPT !.card = e, !.uses = @ + 1]
    BY <1>3
  <2> HIDE DEF e
  <2>4. copy' \in [group : Groups, card : CardSet, uses : Nat] /\ copy'.card = e /\ copy'.group = copy.group
    BY <1>1, <2>1, <2>2, <2>3 DEF e
  <2> QED
    BY <2>4 DEF e, g
<1>11. CardsInv'
  <2>1. CopyGood'
    BY <1>9, <1>10 DEF CopyGood
  <2>2. GoodCard(card)' /\ SettingsReadBack'
    BY <1>1 DEF CardsInv, SettingsReadBack
  <2> QED
    BY <2>1, <2>2 DEF CardsInv
<1>12. Outside(copy'.card, copy.group) = Outside(copy.card, copy.group)
  <2>1. Filter(new, FieldsOf(new, g)) = Filter(fields, FieldsOf(fields, g))
    BY <1>2, <1>8, SidesAre
  <2> QED
    BY <1>9, <1>10, <2>1 DEF Outside, c, g, fields
<1> QED
  BY <1>1, <1>11, <1>12 DEF LeavesOthers

LEMMA CardsSteps == ASSUME CardsInv, CardsNext PROVE CardsInv' /\ LeavesOthers
BY SetFieldSteps, AddFieldSteps, ChangeTypeSteps, DeleteGroupSteps, GetGroupSteps, SetSettingsSteps,
   UseGroupSteps, WriteBackSteps DEF CardsNext

\* A card can be read, gives back what was set, and a change of it touches no
\* other group.
THEOREM CardsStayIntact == CardsSpec => CardsIntact
<1>1. CardsInv => CardsTypeOK /\ AlwaysDecodes /\ SettingsReadBack
  <2> SUFFICES ASSUME CardsInv PROVE CardsTypeOK /\ AlwaysDecodes /\ SettingsReadBack
    OBVIOUS
  <2>1. card.type \in CardTypes /\ card.fields \in Seq(CardFields)
    BY DEF CardsInv, GoodCard, CardSet
  <2>2. CardsTypeOK
    BY <2>1 DEF CardsInv, GoodCard, CardsTypeOK, CardFields
  <2>3. AlwaysDecodes
    BY DEF CardsInv, CopyGood, GoodCard, AlwaysDecodes
  <2> QED
    BY <2>2, <2>3 DEF CardsInv
<1>2. CardsInv /\ [CardsNext]_cardVars => CardsInv' /\ [LeavesOthers]_cardVars
  <2>1. ASSUME CardsInv, UNCHANGED cardVars PROVE CardsInv'
    BY <2>1 DEF CardsInv, cardVars, CopyGood, SettingsReadBack
  <2> QED
    BY <2>1, CardsSteps
<1> QED
  BY <1>1, <1>2, CardsInvInit, PTL DEF CardsSpec, CardsIntact, GroupsApart

------------------------------------------------------------------------------
(* Paging: lists of messages, whole, turned and cut off. *)

\* Messages are listed as they were created.
Rises(list) == \A i, j \in DOMAIN list : i < j => list[i] < list[j]

\* Filtered, of any list and whatever passes the filter.
Turned(list, order) == IF order.desc THEN Reverse(list) ELSE list

Cut(all, end) ==
    IF \E i \in DOMAIN all : all[i] = end
    THEN SubSeq(all, CHOOSE i \in DOMAIN all : all[i] = end, Len(all)) ELSE all

Picked(list, some, order) ==
    Filter(Cut(Turned(list, order), order.end), ToSet(Cut(Turned(list, order), order.end)) \ some)

Directions == [desc : BOOLEAN, end : Nat]

\* All pairs of a list are of a relation.
Follows(list, R) == \A i, j \in DOMAIN list : i < j => <<list[i], list[j]>> \in R

LEMMA FilterFollows ==
    ASSUME NEW S, NEW list \in Seq(S), NEW gone, NEW R, Follows(list, R)
    PROVE  Follows(Filter(list, gone), R)
<1> DEFINE X == {s \in Seq(S) : Follows(s, R) => Follows(Filter(s, gone), R)}
<1>1. <<>> \in X
  <2>1. Filter(<<>>, gone) = <<>>
    BY FilterEmpty
  <2> QED
    BY <2>1 DEF Follows
<1>2. ASSUME NEW s \in Seq(S), s \in X, NEW x \in S
      PROVE  Append(s, x) \in X
  <2> DEFINE q == Filter(s, gone)
             t == Append(s, x)
  <2>1. t \in Seq(S)
    OBVIOUS
  <2>2. Filter(t, gone) = IF x \in gone THEN q ELSE Append(q, x)
    BY FilterSteps
  <2>3. q \in Seq(S) /\ ToSet(q) \subseteq ToSet(s)
    BY KeptIs
  <2>4. /\ DOMAIN s = 1 .. Len(s) /\ Len(s) \in Nat /\ DOMAIN t = 1 .. Len(s) + 1
        /\ \A i \in 1 .. Len(s) + 1 : t[i] = IF i = Len(s) + 1 THEN x ELSE s[i]
    OBVIOUS
  <2>5. ASSUME Follows(t, R)
        PROVE  Follows(s, R) /\ \A y \in ToSet(s) : <<y, x>> \in R
    <3> HIDE DEF t
    <3>1. \A i, j \in DOMAIN s : i < j => <<s[i], s[j]>> \in R
      BY <2>4, <2>5 DEF Follows
    <3>2. ASSUME NEW i \in DOMAIN s PROVE <<s[i], x>> \in R
      <4>1. i \in DOMAIN t /\ Len(s) + 1 \in DOMAIN t /\ i < Len(s) + 1
        BY <2>4
      <4>2. t[i] = s[i] /\ t[Len(s) + 1] = x
        BY <2>4
      <4> QED
        BY <2>5, <4>1, <4>2 DEF Follows
    <3> QED
      BY <3>1, <3>2 DEF Follows, ToSet
  <2> HIDE DEF q
  <2>6. ASSUME Follows(q, R), \A y \in ToSet(s) : <<y, x>> \in R
        PROVE  Follows(Append(q, x), R)
    <3> DEFINE u == Append(q, x)
    <3>1. /\ DOMAIN q = 1 .. Len(q) /\ Len(q) \in Nat /\ DOMAIN u = 1 .. Len(q) + 1
          /\ \A i \in 1 .. Len(q) + 1 : u[i] = IF i = Len(q) + 1 THEN x ELSE q[i]
      BY <2>3
    <3>2. \A i \in DOMAIN q : q[i] \in ToSet(s)
      BY <2>3 DEF ToSet
    <3> HIDE DEF u
    <3>3. Follows(u, R)
      BY <2>6, <3>1, <3>2 DEF Follows
    <3> QED
      BY <3>3 DEF u
  <2>7. ASSUME Follows(t, R) PROVE Follows(Filter(t, gone), R)
    <3>1. Follows(q, R) /\ Follows(Append(q, x), R)
      BY <1>2, <2>5, <2>6, <2>7 DEF q
    <3> QED
      BY <2>2, <3>1
  <2> QED
    BY <2>1, <2>7
<1>3. Seq(S) \subseteq X
  <2> HIDE DEF X
  <2> QED BY <1>1, <1>2, SeqSet
<1> QED
  BY <1>3

\* The place of an element that is there once.
LEMMA ChosenIs ==
    ASSUME NEW s, IsInjective(s), NEW j \in DOMAIN s
    PROVE  (CHOOSE i \in DOMAIN s : s[i] = s[j]) = j
<1> DEFINE k == CHOOSE i \in DOMAIN s : s[i] = s[j]
<1>1. k \in DOMAIN s /\ s[k] = s[j]
  OBVIOUS
<1> QED
  BY <1>1 DEF IsInjective

\* The end of a list from an element on.
LEMMA CutIs ==
    ASSUME NEW S, NEW all \in Seq(S), IsInjective(all), NEW end
    PROVE  /\ end \notin ToSet(all) => Cut(all, end) = all
           /\ \A k \in DOMAIN all : all[k] = end =>
                 /\ Cut(all, end) \in Seq(S) /\ Len(Cut(all, end)) = Len(all) - k + 1
                 /\ \A i \in 1 .. Len(all) - k + 1 : Cut(all, end)[i] = all[k + i - 1]
<1>1. ASSUME end \notin ToSet(all) PROVE Cut(all, end) = all
  BY <1>1 DEF Cut, ToSet
<1>2. ASSUME NEW k \in DOMAIN all, all[k] = end
      PROVE  /\ Cut(all, end) \in Seq(S) /\ Len(Cut(all, end)) = Len(all) - k + 1
             /\ \A i \in 1 .. Len(all) - k + 1 : Cut(all, end)[i] = all[k + i - 1]
  <2>1. (CHOOSE i \in DOMAIN all : all[i] = end) = k
    BY <1>2, ChosenIs
  <2>2. Cut(all, end) = SubSeq(all, k, Len(all))
    BY <1>2, <2>1 DEF Cut
  <2>3. k \in 1 .. Len(all) /\ Len(all) \in Nat
    OBVIOUS
  <2> QED
    BY <2>2, <2>3
<1> QED
  BY <1>1, <1>2

LEMMA UpIsInjective == ASSUME NEW s \in Seq(Nat), Rises(s) PROVE IsInjective(s)
<1> SUFFICES ASSUME NEW i \in DOMAIN s, NEW j \in DOMAIN s, s[i] = s[j]
             PROVE  i = j
  BY DEF IsInjective
<1>1. i \in Nat /\ j \in Nat /\ s[i] \in Nat /\ s[j] \in Nat
  OBVIOUS
<1>2. ~(i < j) /\ ~(j < i)
  BY <1>1 DEF Rises
<1> QED
  BY <1>1, <1>2

\* In which direction a list goes.
Course(order) == {pair \in Nat \X Nat : Goes(order, pair[1], pair[2])}

LEMMA TurnedIs ==
    ASSUME NEW list \in Seq(Nat), Rises(list), NEW order \in Directions
    PROVE  /\ Turned(list, order) \in Seq(Nat) /\ Len(Turned(list, order)) = Len(list)
           /\ \A i \in 1 .. Len(list) :
                 Turned(list, order)[i] = IF order.desc THEN list[Len(list) - i + 1] ELSE list[i]
           /\ ToSet(Turned(list, order)) = ToSet(list)
           /\ IsInjective(Turned(list, order)) /\ Follows(Turned(list, order), Course(order))
<1> DEFINE t == Turned(list, order)
           n == Len(list)
<1>1. n \in Nat /\ DOMAIN list = 1 .. n /\ \A i \in 1 .. n : list[i] \in Nat
  OBVIOUS
<1>2. /\ t \in Seq(Nat) /\ Len(t) = n /\ DOMAIN t = 1 .. n
      /\ \A i \in 1 .. n : t[i] = IF order.desc THEN list[n - i + 1] ELSE list[i]
  <2>1. CASE order.desc
    <3>1. t = [i \in 1 .. n |-> list[(n - i) + 1]]
      BY <2>1 DEF Turned, Reverse
    <3>2. \A i \in 1 .. n : (n - i) + 1 \in 1 .. n
      BY <1>1
    <3> HIDE DEF t, n
    <3> QED
      BY <1>1, <2>1, <3>1, <3>2
  <2>2. CASE ~order.desc
    <3>1. t = list
      BY <2>2 DEF Turned
    <3> QED
      BY <1>1, <2>2, <3>1
  <2> QED
    BY <2>1, <2>2
<1> HIDE DEF t, n
<1>3. ToSet(t) = ToSet(list)
  <2>1. \A i \in 1 .. n : n - i + 1 \in 1 .. n /\ n - (n - i + 1) + 1 = i
    BY <1>1
  <2>2. \A i \in 1 .. n : \E j \in 1 .. n : t[i] = list[j]
    BY <1>2, <2>1
  <2>3. \A i \in 1 .. n : \E j \in 1 .. n : list[i] = t[j]
    <3> SUFFICES ASSUME NEW i \in 1 .. n PROVE \E j \in 1 .. n : list[i] = t[j]
      OBVIOUS
    <3>1. ~order.desc => list[i] = t[i]
      BY <1>2
    <3>2. order.desc => list[i] = t[n - i + 1]
      BY <1>2, <2>1
    <3> QED
      BY <2>1, <3>1, <3>2
  <2> QED
    <3>1. \A y : y \in ToSet(t) <=> \E i \in 1 .. n : y = t[i]
      BY <1>2 DEF ToSet
    <3>2. \A y : y \in ToSet(list) <=> \E i \in 1 .. n : y = list[i]
      BY <1>1 DEF ToSet
    <3> QED
      BY <2>2, <2>3, <3>1, <3>2
<1>4. ASSUME NEW i \in 1 .. n, NEW j \in 1 .. n, i < j
      PROVE  Goes(order, t[i], t[j])
  <2>1. CASE order.desc
    <3>1. n - i + 1 \in 1 .. n /\ n - j + 1 \in 1 .. n /\ n - j + 1 < n - i + 1
      BY <1>1, <1>4
    <3>2. list[n - j + 1] < list[n - i + 1]
      BY <1>1, <3>1 DEF Rises
    <3> QED
      BY <1>2, <2>1, <3>2 DEF Goes
  <2>2. CASE ~order.desc
    BY <1>1, <1>2, <1>4, <2>2 DEF Goes, Rises
  <2> QED
    BY <2>1, <2>2
<1>5. Follows(t, Course(order))
  <2>1. \A i \in 1 .. n : t[i] \in Nat
    BY <1>2
  <2> QED
    BY <1>2, <1>4, <2>1 DEF Follows, Course
<1>6. IsInjective(t)
  <2> SUFFICES ASSUME NEW i \in 1 .. n, NEW j \in 1 .. n, t[i] = t[j], i # j PROVE FALSE
    BY <1>2 DEF IsInjective
  <2>1. i < j \/ j < i
    BY <1>1
  <2>2. Goes(order, t[i], t[j]) \/ Goes(order, t[j], t[i])
    BY <1>4, <2>1
  <2>3. t[i] \in Nat /\ t[j] \in Nat
    BY <1>2
  <2> QED
    BY <2>2, <2>3 DEF Goes
<1> QED
  BY <1>2, <1>3, <1>5, <1>6 DEF t, n

\* Cutting a list off keeps what it is and how it goes.
LEMMA CutKeeps ==
    ASSUME NEW all \in Seq(Nat), IsInjective(all), NEW R, Follows(all, R), NEW end
    PROVE  /\ Cut(all, end) \in Seq(Nat) /\ Len(Cut(all, end)) <= Len(all)
           /\ ToSet(Cut(all, end)) \subseteq ToSet(all) /\ Follows(Cut(all, end), R)
<1> DEFINE cut == Cut(all, end)
<1>1. Len(all) \in Nat /\ DOMAIN all = 1 .. Len(all)
  OBVIOUS
<1>2. CASE end \notin ToSet(all)
  <2>1. cut = all
    BY <1>2, CutIs
  <2> QED
    BY <1>1, <2>1
<1>3. CASE end \in ToSet(all)
  <2>1. PICK k \in DOMAIN all : all[k] = end
    BY <1>3 DEF ToSet
  <2>2. /\ cut \in Seq(Nat) /\ Len(cut) = Len(all) - k + 1
        /\ \A i \in 1 .. Len(all) - k + 1 : cut[i] = all[k + i - 1]
    BY <2>1, CutIs
  <2> HIDE DEF cut
  <2>3. /\ DOMAIN cut = 1 .. Len(all) - k + 1
        /\ \A i \in DOMAIN cut : k + i - 1 \in DOMAIN all /\ cut[i] = all[k + i - 1]
    BY <1>1, <2>1, <2>2
  <2>4. ToSet(cut) \subseteq ToSet(all)
    BY <2>3 DEF ToSet
  <2>5. ASSUME NEW i \in DOMAIN cut, NEW j \in DOMAIN cut, i < j
        PROVE  <<cut[i], cut[j]>> \in R
    <3>1. k + i - 1 < k + j - 1
      BY <1>1, <2>1, <2>3, <2>5
    <3> QED
      BY <2>3, <3>1 DEF Follows
  <2> QED
    BY <1>1, <2>1, <2>2, <2>4, <2>5 DEF Follows, cut
<1> QED
  BY <1>2, <1>3

\* What is listed is of the messages, passes the filter and goes in order.
LEMMA PickedIs ==
    ASSUME NEW list \in Seq(Nat), Rises(list), NEW some, NEW order \in Directions
    PROVE  /\ Picked(list, some, order) \in Seq(Nat) /\ Len(Picked(list, some, order)) <= Len(list)
           /\ ToSet(Picked(list, some, order)) \subseteq ToSet(list) \cap some
           /\ Follows(Picked(list, some, order), Course(order))
<1> DEFINE all == Turned(list, order)
           cut == Cut(all, order.end)
<1>1. /\ all \in Seq(Nat) /\ Len(all) = Len(list) /\ ToSet(all) = ToSet(list)
      /\ IsInjective(all) /\ Follows(all, Course(order))
  BY TurnedIs
<1> HIDE DEF all
<1>2. /\ cut \in Seq(Nat) /\ Len(cut) <= Len(all) /\ ToSet(cut) \subseteq ToSet(all)
      /\ Follows(cut, Course(order))
  BY <1>1, CutKeeps
<1>3. Picked(list, some, order) = Filter(cut, ToSet(cut) \ some)
  BY DEF Picked, all
<1> HIDE DEF cut
<1> DEFINE f == Filter(cut, ToSet(cut) \ some)
<1>4. f \in Seq(Nat) /\ Len(f) <= Len(cut) /\ ToSet(f) = ToSet(cut) \ (ToSet(cut) \ some)
  BY <1>2, KeptIs
<1>5. Follows(f, Course(order))
  BY <1>2, FilterFollows
<1> HIDE DEF f
<1>6. Len(f) \in Nat /\ Len(cut) \in Nat /\ Len(all) \in Nat
  BY <1>1, <1>2, <1>4
<1>7. Len(f) <= Len(list)
  BY <1>1, <1>2, <1>4, <1>6
<1> QED
  BY <1>1, <1>2, <1>3, <1>4, <1>5, <1>7 DEF f

\* A message that is created comes last, or not at all, in a listing that does
\* not begin with the newest.
LEMMA PickedGrows ==
    ASSUME NEW list \in Seq(Nat), Rises(list), NEW m \in Nat, \A x \in ToSet(list) : x < m,
           NEW order \in Directions, order.end # m, order.desc => order.end \in ToSet(list),
           NEW some, NEW some2, \A x \in Nat : x # m => (x \in some2 <=> x \in some)
    PROVE  \/ Picked(Append(list, m), some2, order) = Picked(list, some, order)
           \/ Picked(Append(list, m), some2, order) = Append(Picked(list, some, order), m)
<1> DEFINE more == Append(list, m)
           n == Len(list)
<1>1. /\ n \in Nat /\ DOMAIN list = 1 .. n /\ more \in Seq(Nat) /\ Len(more) = n + 1 /\ DOMAIN more = 1 .. n + 1
      /\ \A i \in 1 .. n + 1 : more[i] = IF i = n + 1 THEN m ELSE list[i]
  OBVIOUS
<1> HIDE DEF more, n
<1>2. Rises(more)
  <2>1. \A i \in 1 .. n : list[i] < m
    BY <1>1 DEF ToSet
  <2> QED
    BY <1>1, <2>1 DEF Rises
<1>3. ToSet(more) = ToSet(list) \cup {m}
  BY AppendKeeps DEF more
<1> DEFINE all == Turned(list, order)
           all2 == Turned(more, order)
           end == order.end
<1>4. /\ all \in Seq(Nat) /\ Len(all) = n /\ ToSet(all) = ToSet(list) /\ IsInjective(all) /\ DOMAIN all = 1 .. n
      /\ \A i \in 1 .. n : all[i] = IF order.desc THEN list[n - i + 1] ELSE list[i]
  BY TurnedIs DEF n
<1>5. /\ all2 \in Seq(Nat) /\ Len(all2) = n + 1 /\ ToSet(all2) = ToSet(list) \cup {m}
      /\ IsInjective(all2) /\ DOMAIN all2 = 1 .. n + 1
      /\ \A i \in 1 .. n + 1 : all2[i] = IF order.desc THEN more[n + 1 - i + 1] ELSE more[i]
  <2>1. /\ all2 \in Seq(Nat) /\ Len(all2) = Len(more) /\ ToSet(all2) = ToSet(more) /\ IsInjective(all2)
        /\ \A i \in 1 .. Len(more) : all2[i] = IF order.desc THEN more[Len(more) - i + 1] ELSE more[i]
    BY <1>1, <1>2, TurnedIs
  <2> HIDE DEF all2
  <2>2. DOMAIN all2 = 1 .. n + 1
    BY <1>1, <2>1
  <2> QED
    BY <1>1, <1>3, <2>1, <2>2
<1> DEFINE cut == Cut(all, end)
           cut2 == Cut(all2, end)
<1>6. cut \in Seq(Nat)
  <2>1. Follows(all, Course(order))
    BY TurnedIs
  <2> HIDE DEF all
  <2> QED
    BY <1>4, <2>1, CutKeeps
<1>7. /\ end \notin ToSet(all) => cut = all
      /\ \A k \in DOMAIN all : all[k] = end =>
            Len(cut) = n - k + 1 /\ \A i \in 1 .. n - k + 1 : cut[i] = all[k + i - 1]
  <2> HIDE DEF all, end
  <2>1. /\ end \notin ToSet(all) => cut = all
        /\ \A k \in DOMAIN all : all[k] = end =>
              /\ cut \in Seq(Nat) /\ Len(cut) = Len(all) - k + 1
              /\ \A i \in 1 .. Len(all) - k + 1 : cut[i] = all[k + i - 1]
    <3>1. all \in Seq(Nat) /\ IsInjective(all)
      BY <1>4
    <3> QED
      BY <3>1, CutIs
  <2> HIDE DEF cut
  <2>2. ASSUME NEW k \in DOMAIN all, all[k] = end
        PROVE  Len(cut) = n - k + 1 /\ \A i \in 1 .. n - k + 1 : cut[i] = all[k + i - 1]
    BY <1>4, <2>1, <2>2
  <2> QED
    BY <2>1, <2>2
<1>8. /\ end \notin ToSet(all2) => cut2 = all2
      /\ \A k \in DOMAIN all2 : all2[k] = end =>
            /\ cut2 \in Seq(Nat) /\ Len(cut2) = n + 1 - k + 1
            /\ \A i \in 1 .. n + 1 - k + 1 : cut2[i] = all2[k + i - 1]
  <2> HIDE DEF all2, end
  <2>1. /\ end \notin ToSet(all2) => cut2 = all2
        /\ \A k \in DOMAIN all2 : all2[k] = end =>
              /\ cut2 \in Seq(Nat) /\ Len(cut2) = Len(all2) - k + 1
              /\ \A i \in 1 .. Len(all2) - k + 1 : cut2[i] = all2[k + i - 1]
    <3>1. all2 \in Seq(Nat) /\ IsInjective(all2)
      BY <1>5
    <3> QED
      BY <3>1, CutIs
  <2> HIDE DEF cut2
  <2>2. ASSUME NEW k \in DOMAIN all2, all2[k] = end
        PROVE  /\ cut2 \in Seq(Nat) /\ Len(cut2) = n + 1 - k + 1
               /\ \A i \in 1 .. n + 1 - k + 1 : cut2[i] = all2[k + i - 1]
    <3>1. Len(all2) = n + 1 /\ n \in Nat /\ k \in Nat
      BY <1>1, <1>5
    <3>2. Len(all2) - k + 1 = n + 1 - k + 1
      BY <3>1
    <3>3. /\ cut2 \in Seq(Nat) /\ Len(cut2) = Len(all2) - k + 1
          /\ \A i \in 1 .. Len(all2) - k + 1 : cut2[i] = all2[k + i - 1]
      BY <2>1, <2>2
    <3> QED
      BY <3>2, <3>3, Zenon
  <2> QED
    BY <2>1, <2>2
<1> HIDE DEF all, all2, cut, cut2
<1>9. ASSUME order.desc
      PROVE  cut2 = cut
  <2>1. PICK k \in 1 .. n : all[k] = end
    <3>1. end \in ToSet(all)
      BY <1>4, <1>9
    <3>2. \E k \in DOMAIN all : all[k] = end
      BY <3>1 DEF ToSet
    <3> QED
      BY <1>4, <3>2
  <2>2. k + 1 \in 1 .. n + 1 /\ all2[k + 1] = end
    <3>1. k + 1 \in 1 .. n + 1 /\ n + 1 - (k + 1) + 1 = n - k + 1 /\ n - k + 1 \in 1 .. n
      BY <1>1
    <3>2. all2[k + 1] = more[n - k + 1] /\ all[k] = list[n - k + 1]
      BY <1>4, <1>5, <1>9, <3>1
    <3>3. more[n - k + 1] = list[n - k + 1]
      BY <1>1, <3>1
    <3> QED
      BY <2>1, <3>1, <3>2, <3>3
  <2>3. Len(cut) = n - k + 1 /\ \A i \in 1 .. n - k + 1 : cut[i] = all[k + i - 1]
    BY <1>4, <1>7, <2>1
  <2>4. /\ cut2 \in Seq(Nat) /\ Len(cut2) = n + 1 - (k + 1) + 1
        /\ \A i \in 1 .. n + 1 - (k + 1) + 1 : cut2[i] = all2[(k + 1) + i - 1]
    BY <1>5, <1>8, <2>2
  <2>5. n + 1 - (k + 1) + 1 = n - k + 1
    BY <1>1
  <2>6. ASSUME NEW i \in 1 .. n - k + 1
        PROVE  cut2[i] = cut[i]
    <3>1. /\ k + i - 1 \in 1 .. n /\ (k + 1) + i - 1 \in 1 .. n + 1
          /\ n - (k + i - 1) + 1 = n + 1 - ((k + 1) + i - 1) + 1 /\ n - (k + i - 1) + 1 \in 1 .. n
      BY <1>1
    <3>2. cut[i] = list[n - (k + i - 1) + 1]
      BY <1>4, <1>9, <2>3, <3>1
    <3>3. cut2[i] = more[n + 1 - ((k + 1) + i - 1) + 1]
      BY <1>5, <1>9, <2>4, <2>5, <3>1
    <3>4. more[n - (k + i - 1) + 1] = list[n - (k + i - 1) + 1]
      BY <1>1, <3>1
    <3> QED
      BY <3>1, <3>2, <3>3, <3>4
  <2> QED
    <3>1. Len(cut2) = Len(cut) /\ \A i \in 1 .. Len(cut2) : cut2[i] = cut[i]
      BY <2>3, <2>4, <2>5, <2>6
    <3>2. cut2 \in Seq(Nat)
      BY <2>4
    <3> QED
      BY <1>6, <3>1, <3>2, SeqEqual
<1>10. ASSUME ~order.desc
       PROVE  cut2 = Append(cut, m)
  <2>1. \A i \in 1 .. n + 1 : all2[i] = IF i = n + 1 THEN m ELSE all[i]
    BY <1>1, <1>4, <1>5, <1>10
  <2>2. CASE end \notin ToSet(list)
    <3>1. cut = all /\ cut2 = all2
      BY <1>4, <1>5, <1>7, <1>8, <2>2
    <3>2. all = list /\ all2 = more
      BY <1>10 DEF Turned, all, all2
    <3> QED
      BY <3>1, <3>2 DEF more
  <2>3. CASE end \in ToSet(list)
    <3>1. PICK k \in 1 .. n : all[k] = end
      <4>1. end \in ToSet(all)
        BY <1>4, <2>3
      <4>2. \E k \in DOMAIN all : all[k] = end
        BY <4>1 DEF ToSet
      <4> QED
        BY <1>4, <4>2
    <3>2. k \in 1 .. n + 1 /\ all2[k] = end
      BY <1>1, <2>1, <3>1
    <3>3. Len(cut) = n - k + 1 /\ \A i \in 1 .. n - k + 1 : cut[i] = all[k + i - 1]
      BY <1>4, <1>7, <3>1
    <3>4. /\ cut2 \in Seq(Nat) /\ Len(cut2) = n + 1 - k + 1
          /\ \A i \in 1 .. n + 1 - k + 1 : cut2[i] = all2[k + i - 1]
      BY <1>5, <1>8, <3>2
    <3> DEFINE u == Append(cut, m)
    <3>5. /\ u \in Seq(Nat) /\ Len(u) = Len(cut) + 1
          /\ \A i \in 1 .. Len(cut) + 1 : u[i] = IF i = Len(cut) + 1 THEN m ELSE cut[i]
      BY <1>6
    <3> HIDE DEF u
    <3>6. Len(cut) + 1 = n + 1 - k + 1 /\ Len(cut) + 1 \in Nat
      BY <1>1, <3>1, <3>3
    <3>7. ASSUME NEW i \in 1 .. Len(cut) + 1
          PROVE  cut2[i] = u[i]
      <4>1. cut2[i] = all2[k + i - 1] /\ k + i - 1 \in 1 .. n + 1
        BY <1>1, <3>1, <3>3, <3>4, <3>6
      <4>2. CASE i = Len(cut) + 1
        <5>1. k + i - 1 = n + 1
          BY <1>1, <3>1, <3>3, <4>2
        <5> QED
          BY <2>1, <3>5, <4>1, <4>2, <5>1
      <4>3. CASE i # Len(cut) + 1
        <5>1. k + i - 1 # n + 1 /\ i \in 1 .. n - k + 1
          BY <1>1, <3>1, <3>3, <4>3
        <5> QED
          BY <2>1, <3>3, <3>5, <4>1, <4>3, <5>1
      <4> QED
        BY <4>2, <4>3
    <3>8. Len(cut2) = Len(u)
      BY <3>4, <3>5, <3>6
    <3>9. cut2 = u
      BY <3>4, <3>5, <3>7, <3>8, SeqEqual
    <3> QED
      BY <3>9 DEF u
  <2> QED
    BY <2>2, <2>3
<1> DEFINE out == Nat \ some2
<1>11. ASSUME NEW s \in Seq(Nat), NEW any
       PROVE  Filter(s, ToSet(s) \ any) = Filter(s, Nat \ any)
  <2>1. ToSet(s) \subseteq Nat
    BY DEF ToSet
  <2>2. \A x \in ToSet(s) : x \in ToSet(s) \ any <=> x \in Nat \ any
    BY <2>1
  <2> QED
    BY <2>2, FilterSame
<1>12. Picked(list, some, order) = Filter(cut, out)
  <2>1. Picked(list, some, order) = Filter(cut, ToSet(cut) \ some)
    BY DEF Picked, cut, all
  <2>2. ToSet(cut) \subseteq ToSet(list)
    <3>1. Follows(all, Course(order))
      BY TurnedIs DEF all
    <3>2. ToSet(cut) \subseteq ToSet(all)
      BY <1>4, <3>1, CutKeeps DEF cut
    <3> QED
      BY <1>4, <3>2
  <2>3. \A x \in ToSet(cut) : x \in Nat /\ x # m
    <3>1. \A x \in ToSet(list) : x \in Nat /\ x < m
      BY DEF ToSet
    <3> QED
      BY <2>2, <3>1
  <2>4. \A x \in ToSet(cut) : x \in Nat \ some <=> x \in out
    BY <2>3
  <2> HIDE DEF out
  <2>5. Filter(cut, Nat \ some) = Filter(cut, out)
    BY <1>6, <2>4, FilterSame
  <2> QED
    BY <1>6, <1>11, <2>1, <2>5
<1>13. cut2 \in Seq(Nat)
  <2>1. CASE order.desc
    BY <1>6, <1>9, <2>1
  <2>2. CASE ~order.desc
    <3>1. Append(cut, m) \in Seq(Nat)
      BY <1>6
    <3> QED
      BY <1>10, <2>2, <3>1
  <2> QED
    BY <2>1, <2>2
<1>14. Picked(more, some2, order) = Filter(cut2, out)
  <2>1. Picked(more, some2, order) = Filter(cut2, ToSet(cut2) \ some2)
    BY DEF Picked, cut2, all2
  <2> QED
    BY <1>11, <1>13, <2>1
<1>15. Filter(Append(cut, m), out) = IF m \in out THEN Filter(cut, out) ELSE Append(Filter(cut, out), m)
  <2> HIDE DEF out
  <2>1. cut \in Seq(Nat) /\ m \in Nat
    BY <1>6
  <2> QED
    BY ONLY <2>1, FilterSteps
<1> QED
  BY <1>9, <1>10, <1>12, <1>14, <1>15 DEF more

------------------------------------------------------------------------------
(* Paging: the pages of a list. *)

LEMMA PageSizeIs == PageSize \in Nat \ {0} /\ MaxMessages \in Nat
BY PagingAssumption

\* The part of a list after its first a, up to the b-th.
LEMMA PartIs ==
    ASSUME NEW s \in Seq(Nat), NEW a \in Nat, NEW b \in Nat, a + 1 <= b, b <= Len(s)
    PROVE  /\ SubSeq(s, a + 1, b) \in Seq(Nat) /\ Len(SubSeq(s, a + 1, b)) = b - a
           /\ \A i \in 1 .. b - a : SubSeq(s, a + 1, b)[i] = s[a + i]
<1> DEFINE m == a + 1
           part == SubSeq(s, m, b)
<1>1. m \in Int /\ b \in Int /\ m <= b /\ b - m + 1 = b - a /\ \A i \in Nat : m + i - 1 = a + i
  OBVIOUS
<1>2. \A i \in m .. b : s[i] \in Nat
  OBVIOUS
<1> HIDE DEF m
<1>3. /\ part \in Seq(Nat) /\ Len(part) = (IF m <= b THEN b - m + 1 ELSE 0)
      /\ \A i \in 1 .. b - m + 1 : part[i] = s[m + i - 1]
  BY <1>1, <1>2, SubSeqProperties
<1> HIDE DEF part
<1>4. ASSUME NEW i \in 1 .. b - a
      PROVE  part[i] = s[a + i]
  <2>1. i \in 1 .. b - m + 1 /\ m + i - 1 = a + i
    BY <1>1
  <2> QED
    BY <1>3, <2>1
<1>5. SubSeq(s, a + 1, b) = part
  BY DEF part, m
<1>6. Len(part) = b - a
  BY <1>1, <1>3
<1> QED
  BY <1>3, <1>4, <1>5, <1>6

\* Of the first L messages, d after the first a, and what such a page has.
Span(list, a, d, L) == SubSeq(list, a + 1, Min({a + d, L}))

Spans(page, list, a, d, L) ==
    /\ page \in Seq(Nat)
    /\ \A i \in DOMAIN page : i \in 1 .. d /\ a + i \in 1 .. L /\ page[i] = list[a + i]
    /\ \A k \in a + 1 .. a + d : k <= L => k - a \in DOMAIN page /\ page[k - a] = list[k]

\* The messages of a page are those at its places.
LEMMA PageHas ==
    ASSUME NEW list \in Seq(Nat), NEW a \in Nat, NEW d \in Nat, NEW L \in 0 .. Len(list)
    PROVE  Spans(Span(list, a, d, L), list, a, d, L)
<1> DEFINE page == Span(list, a, d, L)
           b == Min({a + d, L})
<1>1. b = IF a + d <= L THEN a + d ELSE L
  <2>1. a + d \in Int /\ L \in Int
    OBVIOUS
  <2> QED
    BY <2>1, MinIs
<1> HIDE DEF b
<1>2. page = SubSeq(list, a + 1, b)
  BY DEF b, Span
<1> HIDE DEF page
<1>3. b \in Nat /\ b <= L /\ b <= a + d /\ (b = L \/ b = a + d) /\ L <= Len(list) /\ Len(list) \in Nat
  BY <1>1
<1>4. CASE a + 1 <= b
  <2> DEFINE sub == SubSeq(list, a + 1, b)
  <2>4. sub \in Seq(Nat) /\ DOMAIN sub = 1 .. b - a /\ \A i \in 1 .. b - a : sub[i] = list[a + i]
    <3>1. b \in Nat /\ b <= Len(list)
      BY <1>3
    <3>2. sub \in Seq(Nat) /\ Len(sub) = b - a /\ \A i \in 1 .. b - a : sub[i] = list[a + i]
      BY <1>4, <3>1, PartIs
    <3> HIDE DEF sub
    <3> QED
      BY <3>2
  <2>1. /\ page \in Seq(Nat) /\ DOMAIN page = 1 .. b - a
        /\ \A i \in 1 .. b - a : page[i] = list[a + i]
    <3> HIDE DEF sub
    <3>1. page = sub
      BY <1>2 DEF sub
    <3> QED
      BY <2>4, <3>1
  <2>2. ASSUME NEW i \in DOMAIN page
        PROVE  i \in 1 .. d /\ a + i \in 1 .. L /\ page[i] = list[a + i]
    <3>1. i \in 1 .. b - a
      BY <2>1
    <3>2. i \in 1 .. d /\ a + i \in 1 .. L
      BY <1>3, <3>1
    <3> QED
      BY <2>1, <3>1, <3>2
  <2>3. ASSUME NEW k \in a + 1 .. a + d, k <= L
        PROVE  k - a \in DOMAIN page /\ page[k - a] = list[k]
    <3>1. k - a \in 1 .. b - a /\ a + (k - a) = k
      BY <1>3, <2>3
    <3> QED
      BY <2>1, <3>1
  <2> QED
    BY <2>1, <2>2, <2>3 DEF Spans, page
<1>5. CASE ~(a + 1 <= b)
  <2>1. page = <<>>
    <3>1. SubSeq(list, a + 1, b) = <<>>
      BY <1>3, <1>5, SubSeqEmpty
    <3> QED
      BY <1>2, <3>1
  <2>2. <<>> \in Seq(Nat) /\ DOMAIN <<>> = {}
    OBVIOUS
  <2>3. \A k \in a + 1 .. a + d : ~(k <= L)
    BY <1>3, <1>5
  <2> QED
    BY <2>1, <2>2, <2>3 DEF Spans, page
<1> QED
  BY <1>4, <1>5

\* A list that begins as another has the same pages as far as that goes.
LEMMA SameSub ==
    ASSUME NEW s \in Seq(Nat), NEW t \in Seq(Nat), Len(s) <= Len(t), \A i \in 1 .. Len(s) : t[i] = s[i],
           NEW a \in Nat, NEW b \in 0 .. Len(s)
    PROVE  SubSeq(t, a + 1, b) = SubSeq(s, a + 1, b)
<1>1. CASE a + 1 <= b
  <2> DEFINE u == SubSeq(s, a + 1, b)
             v == SubSeq(t, a + 1, b)
  <2>5. b \in Nat /\ b <= Len(s) /\ b <= Len(t)
    OBVIOUS
  <2>1. u \in Seq(Nat) /\ Len(u) = b - a /\ \A i \in 1 .. b - a : u[i] = s[a + i]
    BY <1>1, <2>5, PartIs
  <2>2. v \in Seq(Nat) /\ Len(v) = b - a /\ \A i \in 1 .. b - a : v[i] = t[a + i]
    BY <1>1, <2>5, PartIs
  <2>3. \A i \in 1 .. b - a : a + i \in 1 .. Len(s)
    BY <1>1
  <2> HIDE DEF u, v
  <2>4. \A i \in 1 .. b - a : u[i] = v[i]
    BY <2>1, <2>2, <2>3
  <2>6. u = v
    BY <2>1, <2>2, <2>4, SeqEqual
  <2> QED
    BY <2>6 DEF u, v
<1>2. CASE ~(a + 1 <= b)
  <2>1. SubSeq(t, a + 1, b) = <<>> /\ SubSeq(s, a + 1, b) = <<>>
    BY <1>2, SubSeqEmpty
  <2> QED
    BY <2>1
<1> QED
  BY <1>1, <1>2

LEMMA MultUp == ASSUME NEW a \in Nat, NEW b \in Nat, a <= b, NEW d \in Nat PROVE a * d <= b * d /\ a * d \in Nat /\ b * d \in Nat
OBVIOUS

LEMMA PageStarts ==
    ASSUME NEW p \in Nat \ {0}
    PROVE  /\ (p - 1) * PageSize \in Nat /\ p * PageSize \in Nat
           /\ p * PageSize = (p - 1) * PageSize + PageSize
<1>1. PageSize \in Nat /\ p - 1 \in Nat
  BY PageSizeIs
<1> QED
  BY <1>1

------------------------------------------------------------------------------
(* Paging: the inductive invariant. *)

IDCalls ==
    [at : {"new", "ask", "done"}, after : Nat, ids : SUBSET Nat, twice : BOOLEAN,
     kept : SUBSET Nat, deleted : BOOLEAN]

MetaCalls ==
    [at : {"new", "pages", "done"}, order : Directions, pages : Seq(Seq(Nat)), kept : SUBSET Nat,
     shifted : BOOLEAN]

\* Of some messages, those that follow one of them.
RestOf(all, after) == IF after \in all THEN {m \in all : after < m} ELSE all

\* A call that asks for IDs has those that stayed, or they follow the one it asks
\* after; unless one was deleted, none of those it has follows it.
IDGood(call, all, last) ==
    /\ call.after <= last /\ call.ids \subseteq 1 .. last /\ call.kept \subseteq all
    /\ ~call.deleted => ~call.twice
    /\ call.at = "ask" => call.kept \subseteq call.ids \cup RestOf(all, call.after)
    /\ call.at = "done" => call.kept \subseteq call.ids
    /\ call.at = "ask" /\ ~call.deleted
         => call.ids = {} \/ (call.after \in all /\ \A m \in call.ids : m <= call.after)

\* A page is that of a beginning of the list, one that has all that stayed.
IsPage(page, p, list, from) ==
    \E L \in from .. Len(list) : page = SubSeq(list, (p - 1) * PageSize + 1, Min({p * PageSize, L}))

Enlisted(call, list) ==
    \E from \in 0 .. Len(list) :
        /\ from < Len(call.pages) * PageSize
        /\ call.kept \subseteq {list[i] : i \in 1 .. from}
        /\ \A p \in DOMAIN call.pages : call.pages[p] # NotYet => IsPage(call.pages[p], p, list, from)

PagesOf(call) == UNION {ToSet(call.pages[p]) : p \in DOMAIN call.pages}

MetaGood(call, list, some, last) ==
    /\ call.order.end <= last /\ call.kept \subseteq some
    /\ call.at = "pages" /\ ~call.shifted => Enlisted(call, Picked(list, some, call.order))
    /\ call.at = "done" /\ ~call.shifted => call.kept \subseteq PagesOf(call) /\ InOrder(call)

MailListed ==
    /\ created \in 0 .. MaxMessages
    /\ messageIDs \in Seq(Nat) /\ ToSet(messageIDs) \subseteq 1 .. created /\ Rises(messageIDs)
    /\ matching \subseteq ToSet(messageIDs)

PagingInv ==
    /\ MailListed
    /\ idCall \in [Callers -> IDCalls] /\ metaCall \in [Callers -> MetaCalls]
    /\ \A c \in Callers : IDGood(idCall[c], ToSet(messageIDs), created) /\ MetaGood(metaCall[c], messageIDs, matching, created)

\* A listing that is complete and in order.
LEMMA ListsAll ==
    ASSUME NEW call \in MetaCalls, NEW list \in Seq(Nat), Follows(list, Course(call.order)), Enlisted(call, list),
           \A p \in DOMAIN call.pages : call.pages[p] # NotYet
    PROVE  call.kept \subseteq PagesOf(call) /\ InOrder(call)
<1>1. PICK from \in 0 .. Len(list) :
        /\ from < Len(call.pages) * PageSize
        /\ call.kept \subseteq {list[i] : i \in 1 .. from}
        /\ \A p \in DOMAIN call.pages : call.pages[p] # NotYet => IsPage(call.pages[p], p, list, from)
  BY DEF Enlisted
<1> DEFINE n == Len(call.pages)
           start(p) == (p - 1) * PageSize
<1>2. n \in Nat /\ DOMAIN call.pages = 1 .. n /\ PageSize \in Nat \ {0} /\ Len(list) \in Nat /\ DOMAIN list = 1 .. Len(list)
  BY PageSizeIs DEF MetaCalls
<1> HIDE DEF n
<1>3. ASSUME NEW p \in 1 .. n
      PROVE  /\ start(p) \in Nat
             /\ \A i \in DOMAIN call.pages[p] :
                   i \in 1 .. PageSize /\ start(p) + i \in 1 .. Len(list) /\ call.pages[p][i] = list[start(p) + i]
             /\ \A k \in start(p) + 1 .. start(p) + PageSize :
                   k <= from => k - start(p) \in DOMAIN call.pages[p] /\ call.pages[p][k - start(p)] = list[k]
  <2>1. PICK L \in from .. Len(list) :
          call.pages[p] = SubSeq(list, start(p) + 1, Min({p * PageSize, L}))
    BY <1>1, <1>2 DEF IsPage
  <2>2. start(p) \in Nat /\ p * PageSize = start(p) + PageSize
    BY <1>2, PageStarts
  <2> HIDE DEF start
  <2>3. L \in 0 .. Len(list) /\ from <= L
    BY <1>2
  <2>4. call.pages[p] = SubSeq(list, start(p) + 1, Min({start(p) + PageSize, L}))
    BY <2>1, <2>2
  <2>5. /\ \A i \in DOMAIN call.pages[p] :
              i \in 1 .. PageSize /\ start(p) + i \in 1 .. L /\ call.pages[p][i] = list[start(p) + i]
        /\ \A k \in start(p) + 1 .. start(p) + PageSize :
              k <= L => k - start(p) \in DOMAIN call.pages[p] /\ call.pages[p][k - start(p)] = list[k]
    <3>1. PageSize \in Nat /\ L \in 0 .. Len(list)
      BY <1>2, <2>3
    <3>2. call.pages[p] = Span(list, start(p), PageSize, L)
      BY <2>4 DEF Span
    <3>3. Spans(call.pages[p], list, start(p), PageSize, L)
      BY <2>2, <3>1, <3>2, PageHas
    <3> QED
      BY <3>3 DEF Spans
  <2> QED
    BY <1>2, <2>2, <2>3, <2>5
<1>4. call.kept \subseteq PagesOf(call)
  <2> SUFFICES ASSUME NEW i \in 1 .. from PROVE list[i] \in PagesOf(call)
    BY <1>1
  <2> DEFINE q == (i - 1) \div PageSize
  <2>1. q \in Nat /\ q * PageSize <= i - 1 /\ i - 1 < q * PageSize + PageSize
    <3>1. i - 1 \in Nat
      OBVIOUS
    <3> QED
      BY <1>2, <3>1, DivIs
  <2> HIDE DEF q
  <2>2. q < n
    <3>1. ASSUME n <= q PROVE FALSE
      <4>1. n * PageSize <= q * PageSize /\ n * PageSize \in Nat /\ q * PageSize \in Nat
        BY <1>2, <2>1, <3>1, MultUp
      <4>2. from < n * PageSize
        BY <1>1 DEF n
      <4> QED
        BY <2>1, <4>1, <4>2
    <3> QED
      BY <1>2, <2>1, <3>1
  <2>3. q + 1 \in 1 .. n /\ start(q + 1) = q * PageSize
    BY <1>2, <2>1, <2>2
  <2> HIDE DEF start
  <2>4. i \in start(q + 1) + 1 .. start(q + 1) + PageSize
    <3>1. q * PageSize \in Nat
      BY <1>2, <2>1
    <3> QED
      BY <1>2, <2>1, <2>3, <3>1
  <2>5. i - start(q + 1) \in DOMAIN call.pages[q + 1] /\ call.pages[q + 1][i - start(q + 1)] = list[i]
    BY <1>3, <2>3, <2>4
  <2>6. list[i] \in ToSet(call.pages[q + 1])
    BY <2>5 DEF ToSet
  <2> QED
    BY <1>2, <2>3, <2>6 DEF PagesOf
<1>5. InOrder(call)
  <2> SUFFICES ASSUME NEW p \in 1 .. n, NEW q \in 1 .. n,
                      NEW i \in DOMAIN call.pages[p], NEW j \in DOMAIN call.pages[q],
                      p < q \/ (p = q /\ i < j)
               PROVE  Goes(call.order, call.pages[p][i], call.pages[q][j])
    BY <1>2 DEF InOrder
  <2>1. /\ start(p) \in Nat /\ i \in 1 .. PageSize /\ start(p) + i \in DOMAIN list
        /\ call.pages[p][i] = list[start(p) + i]
    BY <1>2, <1>3
  <2>2. /\ start(q) \in Nat /\ j \in 1 .. PageSize /\ start(q) + j \in DOMAIN list
        /\ call.pages[q][j] = list[start(q) + j]
    BY <1>2, <1>3
  <2>3. p < q => start(p) + PageSize <= start(q)
    <3> SUFFICES ASSUME p < q PROVE start(p) + PageSize <= start(q)
      OBVIOUS
    <3>1. p \in Nat \ {0} /\ q - 1 \in Nat /\ p <= q - 1
      BY <1>2
    <3>2. p * PageSize = start(p) + PageSize
      BY <3>1, PageStarts
    <3>3. p * PageSize <= (q - 1) * PageSize
      BY <1>2, <3>1, MultUp
    <3> QED
      BY <3>2, <3>3
  <2> HIDE DEF start
  <2>4. start(p) + i < start(q) + j
    BY <1>2, <2>1, <2>2, <2>3
  <2>5. <<list[start(p) + i], list[start(q) + j]>> \in Course(call.order)
    BY <2>1, <2>2, <2>4 DEF Follows
  <2> QED
    BY <2>1, <2>2, <2>5 DEF Course
<1> QED
  BY <1>4, <1>5

\* It stays one of a list that grows at its end.
LEMMA ListsMore ==
    ASSUME NEW call \in MetaCalls, NEW list \in Seq(Nat), NEW more \in Seq(Nat), Enlisted(call, list),
           Len(list) <= Len(more), \A i \in 1 .. Len(list) : more[i] = list[i]
    PROVE  Enlisted(call, more)
<1>1. PICK from \in 0 .. Len(list) :
        /\ from < Len(call.pages) * PageSize
        /\ call.kept \subseteq {list[i] : i \in 1 .. from}
        /\ \A p \in DOMAIN call.pages : call.pages[p] # NotYet => IsPage(call.pages[p], p, list, from)
  BY DEF Enlisted
<1>2. Len(list) \in Nat /\ Len(more) \in Nat /\ DOMAIN call.pages = 1 .. Len(call.pages) /\ Len(call.pages) \in Nat
  BY DEF MetaCalls
<1>3. from \in 0 .. Len(more)
  BY <1>2
<1>4. \A i \in 1 .. from : more[i] = list[i]
  BY <1>2
<1>5. call.kept \subseteq {more[i] : i \in 1 .. from}
  BY <1>1, <1>4
<1>6. ASSUME NEW p \in DOMAIN call.pages, call.pages[p] # NotYet
      PROVE  IsPage(call.pages[p], p, more, from)
  <2>1. PICK L \in from .. Len(list) :
          call.pages[p] = SubSeq(list, (p - 1) * PageSize + 1, Min({p * PageSize, L}))
    BY <1>1, <1>6 DEF IsPage
  <2>2. p \in Nat \ {0} /\ L \in Nat /\ L <= Len(list)
    BY <1>2
  <2>3. (p - 1) * PageSize \in Nat /\ p * PageSize \in Nat
    BY <2>2, PageStarts
  <2>4. Min({p * PageSize, L}) \in 0 .. Len(list)
    <3>1. Min({p * PageSize, L}) = IF p * PageSize <= L THEN p * PageSize ELSE L
      <4>1. p * PageSize \in Int /\ L \in Int
        BY <2>2, <2>3
      <4> QED
        BY <4>1, MinIs
    <3> QED
      BY <1>2, <2>2, <2>3, <3>1
  <2>5. SubSeq(more, (p - 1) * PageSize + 1, Min({p * PageSize, L}))
          = SubSeq(list, (p - 1) * PageSize + 1, Min({p * PageSize, L}))
    BY <2>3, <2>4, SameSub
  <2>6. L \in from .. Len(more)
    BY <1>2, <2>2
  <2> QED
    BY <2>1, <2>5, <2>6 DEF IsPage
<1> QED
  BY <1>1, <1>3, <1>5, <1>6 DEF Enlisted

------------------------------------------------------------------------------
(* Paging: the calls for IDs. *)

\* What follows an ID is what has a higher place than it.
LEMMA RestIs ==
    ASSUME MailListed, NEW after \in Nat
    PROVE  /\ IndexAfter(after) \in 0 .. Len(messageIDs)
           /\ \A i \in 1 .. Len(messageIDs) :
                 messageIDs[i] \in RestOf(ToSet(messageIDs), after) <=> IndexAfter(after) < i
<1> DEFINE n == Len(messageIDs)
           k == IndexAfter(after)
           all == ToSet(messageIDs)
<1>1. /\ n \in Nat /\ DOMAIN messageIDs = 1 .. n /\ IsInjective(messageIDs) /\ Rises(messageIDs)
      /\ \A i \in 1 .. n : messageIDs[i] \in Nat /\ messageIDs[i] \in all
  BY UpIsInjective DEF MailListed, ToSet
<1> HIDE DEF n
<1>2. CASE after \in all
  <2>1. PICK j \in 1 .. n : messageIDs[j] = after
    BY <1>1, <1>2 DEF ToSet
  <2>2. k = j
    BY <1>1, <2>1, ChosenIs DEF IndexAfter
  <2> HIDE DEF k
  <2>3. ASSUME NEW i \in 1 .. n
        PROVE  after < messageIDs[i] <=> j < i
    <3>1. j < i => messageIDs[j] < messageIDs[i]
      BY <1>1, <2>1 DEF Rises
    <3>2. i < j => messageIDs[i] < messageIDs[j]
      BY <1>1, <2>1 DEF Rises
    <3>3. i = j => messageIDs[i] = after
      BY <2>1
    <3> QED
      BY <1>1, <2>1, <3>1, <3>2, <3>3
  <2>4. \A i \in 1 .. n : messageIDs[i] \in RestOf(all, after) <=> j < i
    BY <1>1, <1>2, <2>3 DEF RestOf
  <2> QED
    BY <1>1, <2>1, <2>2, <2>4 DEF k, n
<1>3. CASE after \notin all
  <2>1. k = 0
    BY <1>3 DEF IndexAfter, ToSet
  <2> HIDE DEF k
  <2>2. \A i \in 1 .. n : messageIDs[i] \in RestOf(all, after)
    BY <1>1, <1>3 DEF RestOf
  <2>3. \A i \in 1 .. n : messageIDs[i] \in RestOf(all, after) <=> 0 < i
    BY <1>1, <2>2
  <2> QED
    BY <1>1, <2>1, <2>3 DEF k, n
<1> QED
  BY <1>2, <1>3

\* A page of IDs is of what follows; it is empty if nothing does, and what
\* follows and is not in it follows its last.
LEMMA IDPageIs ==
    ASSUME MailListed, NEW after \in Nat, NEW page, page = IDsAfter(after)
    PROVE  /\ page \in Seq(Nat) /\ ToSet(page) \subseteq RestOf(ToSet(messageIDs), after)
           /\ page = <<>> => RestOf(ToSet(messageIDs), after) = {}
           /\ page # <<>> =>
                 /\ Last(page) \in ToSet(page) /\ \A x \in ToSet(page) : x <= Last(page)
                 /\ RestOf(ToSet(messageIDs), after)
                       \subseteq ToSet(page) \cup RestOf(ToSet(messageIDs), Last(page))
<1> DEFINE n == Len(messageIDs)
           k == IndexAfter(after)
           all == ToSet(messageIDs)
           rest == RestOf(all, after)
<1>1. /\ n \in Nat /\ DOMAIN messageIDs = 1 .. n /\ messageIDs \in Seq(Nat) /\ Rises(messageIDs)
      /\ \A i \in 1 .. n : messageIDs[i] \in Nat /\ messageIDs[i] \in all
  BY DEF MailListed, ToSet
<1>2. k \in 0 .. n /\ \A i \in 1 .. n : messageIDs[i] \in rest <=> k < i
  BY RestIs
<1>3. \A x \in rest : \E i \in 1 .. n : x = messageIDs[i]
  BY <1>1 DEF RestOf, ToSet
<1>4. Spans(page, messageIDs, k, PageSize, n) /\ PageSize \in Nat \ {0}
  <2>1. PageSize \in Nat \ {0}
    BY PageSizeIs
  <2>2. page = Span(messageIDs, k, PageSize, n)
    BY DEF IDsAfter, Span
  <2> HIDE DEF k, n
  <2>3. k \in Nat /\ n \in 0 .. Len(messageIDs)
    BY <1>1, <1>2 DEF n
  <2> QED
    BY <1>1, <2>1, <2>2, <2>3, PageHas
<1> HIDE DEF n, k, rest, all
<1>5. page \in Seq(Nat) /\ DOMAIN page = 1 .. Len(page) /\ Len(page) \in Nat
  BY <1>4 DEF Spans
<1>6. ASSUME NEW i \in DOMAIN page
      PROVE  i \in 1 .. PageSize /\ k + i \in 1 .. n /\ page[i] = messageIDs[k + i]
  BY <1>4 DEF Spans
<1>7. ASSUME NEW j \in k + 1 .. k + PageSize, j <= n
      PROVE  j - k \in DOMAIN page /\ page[j - k] = messageIDs[j]
  BY <1>4, <1>7 DEF Spans
<1>8. ToSet(page) \subseteq rest
  <2> SUFFICES ASSUME NEW i \in DOMAIN page PROVE page[i] \in rest
    BY DEF ToSet
  <2>1. k + i \in 1 .. n /\ k < k + i
    BY <1>2, <1>5, <1>6
  <2> QED
    BY <1>2, <1>6, <2>1
<1>9. ASSUME page = <<>>
      PROVE  rest = {}
  <2> SUFFICES ASSUME NEW x \in rest PROVE FALSE
    OBVIOUS
  <2>1. PICK i \in 1 .. n : x = messageIDs[i]
    BY <1>3
  <2>2. k < i
    BY <1>2, <2>1
  <2>3. PICK j \in k + 1 .. k + PageSize : j <= n
    <3>1. k + 1 \in k + 1 .. k + PageSize /\ k + 1 <= n
      BY <1>1, <1>2, <1>4, <2>1, <2>2
    <3> QED
      BY <3>1
  <2>4. j - k \in DOMAIN page
    BY <1>7, <2>3
  <2> QED
    BY <1>9, <2>4
<1>10. ASSUME page # <<>>
       PROVE  /\ Last(page) \in ToSet(page) /\ \A x \in ToSet(page) : x <= Last(page)
              /\ rest \subseteq ToSet(page) \cup RestOf(all, Last(page))
  <2> DEFINE d == Len(page)
  <2>1. d \in Nat /\ d # 0 /\ DOMAIN page = 1 .. d /\ Last(page) = page[d]
    BY <1>5, <1>10 DEF Last
  <2> HIDE DEF d
  <2>2. d \in 1 .. PageSize /\ k + d \in 1 .. n /\ page[d] = messageIDs[k + d]
    BY <1>6, <2>1
  <2>3. Last(page) \in ToSet(page)
    BY <2>1 DEF ToSet
  <2>4. ASSUME NEW x \in ToSet(page) PROVE x <= Last(page)
    <3>1. PICK i \in 1 .. d : x = page[i]
      BY <2>1 DEF ToSet
    <3>2. k + i \in 1 .. n /\ x = messageIDs[k + i] /\ (k + i < k + d \/ i = d)
      BY <1>2, <1>6, <2>1, <3>1
    <3>3. i # d => messageIDs[k + i] < messageIDs[k + d]
      BY <1>1, <2>2, <3>2 DEF Rises
    <3>4. messageIDs[k + i] \in Nat /\ messageIDs[k + d] \in Nat
      BY <1>1, <2>2, <3>2
    <3> QED
      BY <2>1, <2>2, <3>1, <3>2, <3>3, <3>4
  <2>5. ASSUME NEW x \in rest, x \notin ToSet(page) PROVE x \in RestOf(all, Last(page))
    <3>1. PICK i \in 1 .. n : x = messageIDs[i]
      BY <1>3
    <3>2. k < i
      BY <1>2, <3>1
    <3>3. ASSUME i <= k + d PROVE FALSE
      <4>1. i \in k + 1 .. k + PageSize /\ i <= n
        BY <1>1, <1>2, <1>4, <2>2, <3>2, <3>3
      <4>2. i - k \in DOMAIN page /\ page[i - k] = x
        BY <1>7, <3>1, <4>1
      <4> QED
        BY <2>5, <4>2 DEF ToSet
    <3>4. k + d < i
      BY <1>1, <1>2, <2>1, <3>1, <3>3
    <3>5. messageIDs[k + d] < messageIDs[i]
      BY <1>1, <2>2, <3>4 DEF Rises
    <3>6. Last(page) \in all /\ x \in all /\ Last(page) < x
      BY <1>1, <2>1, <2>2, <3>1, <3>5
    <3> QED
      BY <3>6 DEF RestOf
  <2> QED
    BY <2>3, <2>4, <2>5
<1> QED
  BY <1>5, <1>8, <1>9, <1>10 DEF rest, all

\* What a call for IDs is when a message is deleted or created.
LEMMA IDDrops ==
    ASSUME NEW call \in IDCalls, NEW all \in SUBSET Nat, NEW last \in Nat, IDGood(call, all, last), NEW m \in all,
           NEW new, new = [call EXCEPT !.kept = @ \ {m}, !.deleted = @ \/ Busy(call)]
    PROVE  new \in IDCalls /\ IDGood(new, all \ {m}, last)
<1>1. new \in IDCalls
  BY DEF IDCalls, Busy
<1>2. /\ new.at = call.at /\ new.after = call.after /\ new.ids = call.ids /\ new.twice = call.twice
      /\ new.kept = call.kept \ {m} /\ new.deleted = (call.deleted \/ Busy(call))
  BY DEF IDCalls
<1>3. Busy(call) <=> call.at = "ask"
  BY DEF IDCalls, Busy
<1>4. RestOf(all, call.after) \ {m} \subseteq RestOf(all \ {m}, call.after)
  BY DEF RestOf
<1> QED
  BY <1>1, <1>2, <1>3, <1>4 DEF IDGood

LEMMA IDArrives ==
    ASSUME NEW call \in IDCalls, NEW all \in SUBSET Nat, NEW last \in Nat, IDGood(call, all, last)
    PROVE  IDGood(call, all \cup {last + 1}, last + 1)
<1>1. call.after # last + 1 /\ call.after \in Nat /\ call.after <= last + 1 /\ call.ids \subseteq 1 .. last + 1
  BY DEF IDGood, IDCalls
<1>2. RestOf(all, call.after) \subseteq RestOf(all \cup {last + 1}, call.after)
  BY <1>1 DEF RestOf
<1> QED
  BY <1>1, <1>2 DEF IDGood

LEMMA IDAsks ==
    ASSUME PagingInv, NEW after \in {FromTheStart} \cup 1 .. created, NEW call,
           call = [at |-> "ask", after |-> after, ids |-> {}, twice |-> FALSE, deleted |-> FALSE,
                   kept |-> {messageIDs[i] : i \in IndexAfter(after) + 1 .. Len(messageIDs)}]
    PROVE  call \in IDCalls /\ IDGood(call, ToSet(messageIDs), created)
<1> DEFINE n == Len(messageIDs)
           all == ToSet(messageIDs)
<1>1. MailListed /\ after \in Nat /\ created \in Nat /\ after <= created
  BY PageSizeIs DEF PagingInv, MailListed, FromTheStart
<1>2. n \in Nat /\ DOMAIN messageIDs = 1 .. n /\ \A i \in 1 .. n : messageIDs[i] \in all /\ messageIDs[i] \in Nat
  BY <1>1 DEF MailListed, ToSet
<1>3. /\ IndexAfter(after) \in 0 .. n
      /\ \A i \in 1 .. n : messageIDs[i] \in RestOf(all, after) <=> IndexAfter(after) < i
  BY <1>1, RestIs
<1> HIDE DEF n, all
<1>4. ASSUME NEW i \in IndexAfter(after) + 1 .. n
      PROVE  messageIDs[i] \in all /\ messageIDs[i] \in Nat /\ messageIDs[i] \in RestOf(all, after)
  <2>1. i \in 1 .. n /\ IndexAfter(after) < i
    BY <1>2, <1>3
  <2> QED
    BY <1>2, <1>3, <2>1
<1>5. call.kept = {messageIDs[i] : i \in IndexAfter(after) + 1 .. n}
  BY DEF n
<1>6. call.kept \subseteq all /\ call.kept \subseteq Nat /\ call.kept \subseteq RestOf(all, after)
  BY <1>4, <1>5
<1>7. /\ call.at = "ask" /\ call.after = after /\ call.ids = {} /\ call.twice = FALSE /\ call.deleted = FALSE
      /\ call \in IDCalls
  BY <1>1, <1>5, <1>6 DEF IDCalls
<1> QED
  BY <1>1, <1>6, <1>7 DEF IDGood, all

LEMMA IDTurns ==
    ASSUME PagingInv, NEW call \in IDCalls, IDGood(call, ToSet(messageIDs), created), call.at = "ask",
           NEW page, page = IDsAfter(call.after), NEW new,
           new = IF page = <<>> THEN [call EXCEPT !.at = "done"]
                 ELSE [call EXCEPT !.ids = @ \cup ToSet(page), !.after = Last(page),
                                   !.twice = @ \/ ToSet(page) \cap call.ids # {}]
    PROVE  new \in IDCalls /\ IDGood(new, ToSet(messageIDs), created)
<1> DEFINE all == ToSet(messageIDs)
           rest == RestOf(all, call.after)
<1>1. MailListed /\ call.after \in Nat /\ all \subseteq 1 .. created /\ created \in Nat
  BY PageSizeIs DEF PagingInv, MailListed, IDCalls
<1>2. /\ page \in Seq(Nat) /\ ToSet(page) \subseteq rest
      /\ page = <<>> => rest = {}
      /\ page # <<>> =>
            /\ Last(page) \in ToSet(page) /\ \A x \in ToSet(page) : x <= Last(page)
            /\ rest \subseteq ToSet(page) \cup RestOf(all, Last(page))
  BY <1>1, IDPageIs
<1>3. rest \subseteq all /\ (call.after \in all => \A x \in rest : call.after < x)
  BY DEF RestOf
<1> HIDE DEF all, rest
<1>4. CASE page = <<>>
  <2>1. new = [call EXCEPT !.at = "done"]
    BY <1>4
  <2>2. /\ new \in IDCalls /\ new.at = "done" /\ new.after = call.after /\ new.ids = call.ids
        /\ new.twice = call.twice /\ new.kept = call.kept /\ new.deleted = call.deleted
    BY <2>1 DEF IDCalls
  <2>3. call.kept \subseteq call.ids
    BY <1>2, <1>4 DEF IDGood, rest, all
  <2> QED
    BY <2>2, <2>3 DEF IDGood
<1>5. CASE page # <<>>
  <2>1. new = [call EXCEPT !.ids = @ \cup ToSet(page), !.after = Last(page),
                           !.twice = @ \/ ToSet(page) \cap call.ids # {}]
    BY <1>5
  <2>2. ToSet(page) \subseteq 1 .. created /\ Last(page) \in 1 .. created
    BY <1>1, <1>2, <1>3, <1>5
  <2>3. /\ new.at = "ask" /\ new.after = Last(page) /\ new.ids = call.ids \cup ToSet(page)
        /\ new.twice = (call.twice \/ ToSet(page) \cap call.ids # {})
        /\ new.kept = call.kept /\ new.deleted = call.deleted
    BY <2>1 DEF IDCalls
  <2>4. new \in IDCalls
    <3>1. call.ids \cup ToSet(page) \in SUBSET Nat /\ Last(page) \in Nat
      BY <1>1, <2>2 DEF IDCalls
    <3>2. (call.twice \/ ToSet(page) \cap call.ids # {}) \in BOOLEAN
      OBVIOUS
    <3> QED
      BY <2>1, <3>1, <3>2 DEF IDCalls
  <2>5. new.kept \subseteq new.ids \cup RestOf(all, new.after)
    BY <1>2, <1>5, <2>3 DEF IDGood, rest, all
  <2>6. ASSUME ~call.deleted
        PROVE  ~new.twice /\ new.after \in all /\ \A m \in new.ids : m <= new.after
    <3>1. ~call.twice /\ (call.ids = {} \/ (call.after \in all /\ \A m \in call.ids : m <= call.after))
      BY <2>6 DEF IDGood, all
    <3>2. \A m \in call.ids, x \in ToSet(page) : m < x
      <4> SUFFICES ASSUME NEW m \in call.ids, NEW x \in ToSet(page) PROVE m < x
        OBVIOUS
      <4>1. m <= call.after /\ call.after < x /\ m \in Nat /\ x \in Nat
        BY <1>1, <1>2, <1>3, <2>2, <3>1 DEF IDCalls
      <4> QED
        BY <1>1, <4>1
    <3>3. ToSet(page) \cap call.ids = {}
      <4> SUFFICES ASSUME NEW x \in ToSet(page), x \in call.ids PROVE FALSE
        OBVIOUS
      <4> QED
        BY <2>2, <3>2
    <3>4. \A m \in new.ids : m <= new.after
      <4> SUFFICES ASSUME NEW m \in new.ids PROVE m <= Last(page)
        BY <2>3
      <4>1. CASE m \in ToSet(page)
        BY <1>2, <1>5, <4>1
      <4>2. CASE m \in call.ids
        <5>1. m < Last(page) /\ m \in Nat
          BY <1>2, <1>5, <3>2, <4>2 DEF IDCalls
        <5> QED
          BY <2>2, <5>1
      <4> QED
        BY <2>3, <4>1, <4>2
    <3> QED
      BY <1>2, <1>3, <1>5, <2>3, <3>1, <3>3, <3>4
  <2>7. new.after <= created /\ new.ids \subseteq 1 .. created /\ new.kept \subseteq all
    BY <2>2, <2>3 DEF IDGood, all
  <2> QED
    BY <2>3, <2>4, <2>5, <2>6, <2>7 DEF IDGood, all
<1> QED
  BY <1>4, <1>5

------------------------------------------------------------------------------
(* Paging: the calls for metadata. *)

\* What matters of a call, for the pages it has.
LEMMA SameLists ==
    ASSUME NEW call, NEW new, NEW list, new.pages = call.pages, new.kept = call.kept, Enlisted(call, list)
    PROVE  Enlisted(new, list)
BY DEF Enlisted

LEMMA SamePages ==
    ASSUME NEW call, NEW new, new.pages = call.pages, new.order = call.order
    PROVE  PagesOf(new) = PagesOf(call) /\ (InOrder(call) => InOrder(new))
BY DEF PagesOf, InOrder

\* A message is deleted, or passes the filter now or no longer.
LEMMA MetaDrops ==
    ASSUME NEW call \in MetaCalls, MailListed, MetaGood(call, messageIDs, matching, created), NEW m,
           NEW list, NEW some, matching \ {m} \subseteq some, NEW new, new = WithoutMeta(call, m)
    PROVE  new \in MetaCalls /\ MetaGood(new, list, some, created)
<1>1. new \in MetaCalls
  BY DEF MetaCalls, Busy, WithoutMeta
<1>2. /\ new.at = call.at /\ new.order = call.order /\ new.pages = call.pages
      /\ new.kept = call.kept \ {m} /\ new.shifted = (call.shifted \/ Busy(call))
  BY DEF MetaCalls, WithoutMeta
<1>3. new.at = "pages" => new.shifted
  BY <1>2 DEF Busy
<1>4. PagesOf(new) = PagesOf(call) /\ (InOrder(call) => InOrder(new))
  BY <1>2, SamePages
<1> QED
  BY <1>1, <1>2, <1>3, <1>4 DEF MetaGood

LEMMA MetaArrives ==
    ASSUME NEW call \in MetaCalls, MailListed, MetaGood(call, messageIDs, matching, created),
           NEW list, list = Append(messageIDs, created + 1),
           NEW some, some = matching \/ some = matching \cup {created + 1},
           NEW new, new = [call EXCEPT !.shifted = @ \/ (Busy(call) /\ NewestFirst(call.order))]
    PROVE  new \in MetaCalls /\ MetaGood(new, list, some, created + 1)
<1>1. /\ new \in MetaCalls /\ new.at = call.at /\ new.order = call.order /\ new.pages = call.pages
      /\ new.kept = call.kept
      /\ new.shifted = (call.shifted \/ (Busy(call) /\ NewestFirst(call.order)))
  BY DEF MetaCalls, Busy, NewestFirst
<1>2. /\ messageIDs \in Seq(Nat) /\ Rises(messageIDs) /\ created \in Nat /\ created + 1 \in Nat
      /\ \A x \in ToSet(messageIDs) : x < created + 1
  BY PageSizeIs DEF MailListed
<1>3. list \in Seq(Nat) /\ ToSet(list) = ToSet(messageIDs) \cup {created + 1}
  BY <1>2, AppendKeeps
<1>4. call.order \in Directions /\ call.order.end \in Nat /\ call.order.end <= created
  BY DEF MetaCalls, Directions, MetaGood
<1>5. PagesOf(new) = PagesOf(call) /\ (InOrder(call) => InOrder(new))
  BY <1>1, SamePages
<1>6. ASSUME new.at = "pages", ~new.shifted
      PROVE  Enlisted(new, Picked(list, some, new.order))
  <2> DEFINE old == Picked(messageIDs, matching, call.order)
             more == Picked(list, some, call.order)
  <2>1. call.at = "pages" /\ ~call.shifted /\ ~NewestFirst(call.order)
    BY <1>1, <1>6 DEF Busy
  <2>2. Enlisted(call, old)
    BY <2>1 DEF MetaGood
  <2>3. call.order.desc => call.order.end \in ToSet(messageIDs)
    BY <2>1 DEF NewestFirst
  <2>4. old \in Seq(Nat)
    BY <1>2, <1>4, PickedIs
  <2>5. more = old \/ more = Append(old, created + 1)
    <3>1. call.order.end # created + 1
      BY <1>2, <1>4
    <3>2. \A x \in Nat : x # created + 1 => (x \in some <=> x \in matching)
      OBVIOUS
    <3> QED
      BY <1>2, <1>4, <2>3, <3>1, <3>2, PickedGrows
  <2> HIDE DEF old, more
  <2>6. more \in Seq(Nat) /\ Len(old) <= Len(more) /\ \A i \in 1 .. Len(old) : more[i] = old[i]
    <3> DEFINE longer == Append(old, created + 1)
    <3>1. /\ longer \in Seq(Nat) /\ Len(longer) = Len(old) + 1 /\ Len(old) \in Nat
          /\ \A i \in 1 .. Len(old) : longer[i] = old[i]
      BY <1>2, <2>4
    <3> HIDE DEF longer
    <3>2. CASE more = longer
      <4>1. Len(old) <= Len(more)
        BY <3>1, <3>2
      <4> QED
        BY <3>1, <3>2, <4>1
    <3>3. CASE more = old
      <4>1. Len(old) <= Len(more)
        BY <3>1, <3>3
      <4> QED
        BY <2>4, <3>3, <4>1
    <3> QED
      BY <2>5, <3>2, <3>3 DEF longer
  <2>7. Enlisted(call, more)
    BY <2>2, <2>4, <2>6, ListsMore
  <2>8. Enlisted(new, more)
    BY <1>1, <2>7, SameLists
  <2> QED
    BY <1>1, <2>8 DEF more
<1>7. new.order.end <= created + 1
  BY <1>1, <1>2, <1>4
<1> QED
  BY <1>1, <1>3, <1>5, <1>6, <1>7 DEF MetaGood

\* A call of which no page is answered.
Counted(order, n, kept) ==
    [at |-> "pages", order |-> order, pages |-> [p \in 1 .. n |-> NotYet],
     kept |-> kept, shifted |-> FALSE]

LEMMA MetaCounts ==
    ASSUME MailListed, NEW order \in Orders, order.end <= created, NEW call,
           call = Counted(order, PagesFor(CountMessages), ToSet(Filtered(order)))
    PROVE  call \in MetaCalls /\ MetaGood(call, messageIDs, matching, created)
<1> DEFINE list == Picked(messageIDs, matching, order)
           n == PagesFor(CountMessages)
<1>1. messageIDs \in Seq(Nat) /\ Rises(messageIDs) /\ Len(messageIDs) \in Nat
  BY DEF MailListed
<1>2. order \in Directions
  BY PagingAssumption DEF Directions
<1>3. list \in Seq(Nat) /\ Len(list) <= Len(messageIDs) /\ ToSet(list) \subseteq ToSet(messageIDs) \cap matching
  BY <1>1, <1>2, PickedIs
<1>4. Filtered(order) = list
  BY DEF Filtered, Picked, Turned, Cut
<1>5. n \in Nat /\ Len(messageIDs) < n * PageSize
  <2> DEFINE q == Len(messageIDs) \div PageSize
  <2>1. PageSize \in Nat \ {0} /\ q \in Nat /\ Len(messageIDs) < q * PageSize + PageSize
    BY <1>1, PageSizeIs, DivIs
  <2>2. n = q + 1
    BY DEF PagesFor, CountMessages
  <2> HIDE DEF q, n
  <2>3. q + 1 \in Nat \ {0} /\ (q + 1) - 1 = q
    BY <2>1
  <2>4. (q + 1) * PageSize = q * PageSize + PageSize
    BY <2>3, PageStarts
  <2> QED
    BY <2>1, <2>2, <2>3, <2>4
<1> HIDE DEF list, n
<1>6. Len(list) \in Nat /\ DOMAIN list = 1 .. Len(list)
  BY <1>3
<1> DEFINE none == [p \in 1 .. n |-> NotYet]
<1>7. none \in Seq(Seq(Nat)) /\ Len(none) = n /\ DOMAIN none = 1 .. n /\ \A p \in 1 .. n : none[p] = NotYet
  <2>1. NotYet \in Seq(Nat)
    BY DEF NotYet
  <2> QED
    BY <1>5, <2>1
<1>8. call = [at |-> "pages", order |-> order, pages |-> none,
              kept |-> ToSet(list), shifted |-> FALSE]
  BY <1>4 DEF n, Counted
<1> HIDE DEF none
<1>9. ToSet(list) \subseteq Nat /\ ToSet(list) = {list[i] : i \in 1 .. Len(list)}
  BY <1>3, <1>6 DEF ToSet
<1>10. /\ call.at = "pages" /\ call.order = order /\ call.kept = ToSet(list) /\ call.pages = none
       /\ call \in MetaCalls
  BY <1>2, <1>7, <1>8, <1>9 DEF MetaCalls
<1>11. Enlisted(call, list)
  <2>4. 0 <= Len(list) /\ Len(list) <= Len(list)
    BY <1>6
  <2>1. Len(list) \in 0 .. Len(list) /\ Len(list) < Len(call.pages) * PageSize
    <3>1. n * PageSize \in Nat
      BY <1>5, PageSizeIs, MultUp
    <3>2. Len(call.pages) * PageSize = n * PageSize
      BY <1>7, <1>10
    <3>3. Len(list) < n * PageSize
      BY <1>1, <1>3, <1>5, <1>6, <3>1
    <3> QED
      BY <1>6, <2>4, <3>2, <3>3
  <2>2. call.kept \subseteq {list[i] : i \in 1 .. Len(list)}
    BY <1>10, <1>9
  <2>3. \A p \in DOMAIN call.pages : call.pages[p] = NotYet
    BY <1>7, <1>10
  <2> QED
    BY <2>1, <2>2, <2>3 DEF Enlisted
<1> QED
  BY <1>3, <1>10, <1>10, <1>11 DEF MetaGood, list

LEMMA MetaAnswers ==
    ASSUME NEW call \in MetaCalls, MailListed, MetaGood(call, messageIDs, matching, created), call.at = "pages",
           NEW p \in DOMAIN call.pages, NEW new, new = [call EXCEPT !.pages[p] = MessagesOfPage(call.order, p)]
    PROVE  new \in MetaCalls /\ MetaGood(new, messageIDs, matching, created)
<1> DEFINE list == Picked(messageIDs, matching, call.order)
           page == MessagesOfPage(call.order, p)
           start == (p - 1) * PageSize
<1>1. call.order \in Directions /\ call.pages \in Seq(Seq(Nat))
  BY DEF MetaCalls
<1>2. list \in Seq(Nat)
  BY <1>1, PickedIs DEF MailListed
<1>3. page = SubSeq(list, start + 1, Min({p * PageSize, Len(list)}))
  BY DEF MessagesOfPage, Filtered, Picked, Turned, Cut
<1>4. p \in Nat \ {0} /\ PageSize \in Nat /\ Len(list) \in Nat
  BY <1>1, <1>2, PageSizeIs
<1> HIDE DEF page, list
<1>5. page \in Seq(Nat)
  <2>1. start \in Nat /\ p * PageSize = start + PageSize
    BY <1>4, PageStarts
  <2> HIDE DEF start
  <2>2. page = Span(list, start, PageSize, Len(list))
    BY <1>3, <2>1 DEF Span
  <2>3. Len(list) \in 0 .. Len(list)
    BY <1>4
  <2> QED
    BY <1>2, <1>4, <2>1, <2>2, <2>3, PageHas DEF Spans
<1>6. /\ new.at = "pages" /\ new.order = call.order /\ new.kept = call.kept
      /\ new.shifted = call.shifted /\ new.pages = [call.pages EXCEPT ![p] = page]
  BY DEF MetaCalls, page
<1>7. [call.pages EXCEPT ![p] = page] \in Seq(Seq(Nat)) /\ Len([call.pages EXCEPT ![p] = page]) = Len(call.pages)
  BY <1>1, <1>5
<1>8. new \in MetaCalls
  <2>1. new = [call EXCEPT !.pages = [call.pages EXCEPT ![p] = page]]
    BY DEF page
  <2> QED
    BY <1>7, <2>1 DEF MetaCalls
<1>9. ASSUME ~new.shifted
      PROVE  Enlisted(new, list)
  <2>1. Enlisted(call, list)
    BY <1>6, <1>9 DEF MetaGood, list
  <2>2. PICK from \in 0 .. Len(list) :
          /\ from < Len(call.pages) * PageSize
          /\ call.kept \subseteq {list[i] : i \in 1 .. from}
          /\ \A q \in DOMAIN call.pages : call.pages[q] # NotYet => IsPage(call.pages[q], q, list, from)
    BY <2>1 DEF Enlisted
  <2>3. IsPage(page, p, list, from)
    <3>1. Len(list) \in from .. Len(list)
      BY <1>4
    <3> QED
      BY <1>3, <3>1 DEF IsPage
  <2>4. \A q \in DOMAIN new.pages : new.pages[q] # NotYet => IsPage(new.pages[q], q, list, from)
    BY <1>6, <2>2, <2>3
  <2>5. Len(new.pages) = Len(call.pages)
    BY <1>6, <1>7
  <2> QED
    BY <1>6, <2>2, <2>4, <2>5 DEF Enlisted
<1> QED
  BY <1>6, <1>8, <1>9 DEF MetaGood, list

LEMMA MetaEnds ==
    ASSUME NEW call \in MetaCalls, MailListed, MetaGood(call, messageIDs, matching, created), call.at = "pages",
           NotYet \notin ToSet(call.pages), NEW new, new = [call EXCEPT !.at = "done"]
    PROVE  new \in MetaCalls /\ MetaGood(new, messageIDs, matching, created)
<1> DEFINE list == Picked(messageIDs, matching, call.order)
<1>1. /\ new \in MetaCalls /\ new.at = "done" /\ new.order = call.order /\ new.pages = call.pages
      /\ new.kept = call.kept /\ new.shifted = call.shifted
  BY DEF MetaCalls
<1>2. call.order \in Directions
  BY DEF MetaCalls
<1>3. list \in Seq(Nat) /\ Follows(list, Course(call.order))
  BY <1>2, PickedIs DEF MailListed
<1>4. \A p \in DOMAIN call.pages : call.pages[p] # NotYet
  BY DEF ToSet
<1>5. ASSUME ~new.shifted
      PROVE  new.kept \subseteq PagesOf(new) /\ InOrder(new)
  <2>1. Enlisted(call, list)
    BY <1>1, <1>5 DEF MetaGood
  <2> HIDE DEF list
  <2>2. call.kept \subseteq PagesOf(call) /\ InOrder(call)
    BY <1>3, <1>4, <2>1, ListsAll
  <2> QED
    BY <1>1, <2>2, SamePages
<1> QED
  BY <1>1, <1>5 DEF MetaGood

------------------------------------------------------------------------------
(* Paging: the steps. *)

LEMMA PagingInitInv == PagingInit => PagingInv
<1> SUFFICES ASSUME PagingInit PROVE PagingInv
  OBVIOUS
<1>1. created \in Nat /\ created <= MaxMessages /\ MaxMessages \in Nat
  BY PageSizeIs DEF PagingInit
<1>2. MailListed
  <2>1. /\ messageIDs \in Seq(Nat) /\ DOMAIN messageIDs = 1 .. created
        /\ \A i \in 1 .. created : messageIDs[i] = i
    BY <1>1 DEF PagingInit
  <2>2. ToSet(messageIDs) = 1 .. created
    BY <2>1 DEF ToSet
  <2>3. matching \subseteq ToSet(messageIDs)
    BY <2>2 DEF PagingInit
  <2>4. created \in 0 .. MaxMessages
    BY <1>1
  <2> QED
    BY <1>1, <2>1, <2>2, <2>3, <2>4 DEF MailListed, Rises
<1>3. NoIDCall \in IDCalls /\ IDGood(NoIDCall, ToSet(messageIDs), created)
  BY <1>1 DEF NoIDCall, IDCalls, IDGood, FromTheStart
<1>4. NoMetaCall \in MetaCalls /\ MetaGood(NoMetaCall, messageIDs, matching, created)
  <2>1. <<>> \in Seq(Seq(Nat))
    OBVIOUS
  <2>2. [desc |-> FALSE, end |-> FromTheStart] \in Directions
    BY DEF Directions, FromTheStart
  <2>3. NoMetaCall \in MetaCalls
    BY <2>1, <2>2 DEF NoMetaCall, MetaCalls
  <2>4. NoMetaCall.at = "new" /\ NoMetaCall.order.end = 0 /\ NoMetaCall.kept = {}
    BY DEF NoMetaCall, FromTheStart
  <2> QED
    BY <1>1, <2>3, <2>4 DEF MetaGood
<1> QED
  BY <1>2, <1>3, <1>4 DEF PagingInit, PagingInv

LEMMA ArrivesInv == ASSUME PagingInv, MessageArrives PROVE PagingInv'
<1>1. /\ messageIDs' = Append(messageIDs, created + 1) /\ created' = created + 1 /\ idCall' = idCall
      /\ created < MaxMessages /\ (matching' = matching \/ matching' = matching \cup {created + 1})
  BY DEF MessageArrives
<1>2. MailListed /\ created \in Nat /\ MaxMessages \in Nat /\ created + 1 \in Nat
  BY PageSizeIs DEF PagingInv, MailListed
<1> DEFINE list == Append(messageIDs, created + 1)
<1>3. list \in Seq(Nat) /\ ToSet(list) = ToSet(messageIDs) \cup {created + 1}
  BY <1>2, AppendKeeps DEF MailListed
<1>4. MailListed'
  <2>1. /\ Len(messageIDs) \in Nat /\ DOMAIN messageIDs = 1 .. Len(messageIDs)
        /\ DOMAIN list = 1 .. Len(messageIDs) + 1
        /\ \A i \in DOMAIN list : list[i] = IF i = Len(messageIDs) + 1 THEN created + 1 ELSE messageIDs[i]
    BY <1>2 DEF MailListed
  <2>2. \A i \in DOMAIN messageIDs : messageIDs[i] < created + 1
    <3> SUFFICES ASSUME NEW i \in DOMAIN messageIDs PROVE messageIDs[i] < created + 1
      OBVIOUS
    <3>1. messageIDs[i] \in 1 .. created
      BY <1>2 DEF MailListed, ToSet
    <3> QED
      BY <1>2, <3>1
  <2> HIDE DEF list
  <2>3. Rises(list)
    BY <1>2, <2>1, <2>2 DEF MailListed, Rises
  <2>4. created + 1 \in 0 .. MaxMessages
    BY <1>1, <1>2
  <2>5. ToSet(list) \subseteq 1 .. created + 1
    BY <1>2, <1>3 DEF MailListed
  <2>6. messageIDs' = list
    BY <1>1 DEF list
  <2>7. matching' \subseteq ToSet(list)
    BY <1>1, <1>2, <1>3 DEF MailListed
  <2> QED
    BY <1>1, <1>3, <2>3, <2>4, <2>5, <2>6, <2>7 DEF MailListed
<1>5. ASSUME NEW c \in Callers
      PROVE  idCall'[c] \in IDCalls /\ IDGood(idCall[c], ToSet(list), created + 1)
  <2>1. idCall[c] \in IDCalls /\ IDGood(idCall[c], ToSet(messageIDs), created)
    BY DEF PagingInv
  <2>2. ToSet(messageIDs) \in SUBSET Nat
    BY <1>2 DEF MailListed
  <2> HIDE DEF list
  <2>3. IDGood(idCall[c], ToSet(messageIDs) \cup {created + 1}, created + 1)
    BY <1>2, <2>1, <2>2, IDArrives
  <2> QED
    BY <1>1, <1>3, <2>1, <2>3
<1>6. ASSUME NEW c \in Callers
      PROVE  metaCall'[c] \in MetaCalls /\ MetaGood(metaCall'[c], list, matching', created + 1)
  <2>1. metaCall[c] \in MetaCalls /\ MetaGood(metaCall[c], messageIDs, matching, created)
    BY DEF PagingInv
  <2>2. metaCall'[c] = [metaCall[c] EXCEPT !.shifted = @ \/ (Busy(metaCall[c]) /\ NewestFirst(metaCall[c].order))]
    BY DEF MessageArrives
  <2> QED
    BY <1>1, <1>2, <2>1, <2>2, MetaArrives
<1>7. idCall' \in [Callers -> IDCalls] /\ metaCall' \in [Callers -> MetaCalls]
  BY <1>1, <1>6 DEF PagingInv, MessageArrives
<1> QED
  BY <1>1, <1>4, <1>5, <1>6, <1>7 DEF PagingInv

LEMMA DropInv == ASSUME PagingInv, NEW m, DropMessage(m) PROVE PagingInv'
<1>1. /\ messageIDs' = Filter(messageIDs, {m}) /\ created' = created /\ m \in ToSet(messageIDs)
      /\ matching' = matching \ {m}
  BY DEF DropMessage
<1> DEFINE list == Filter(messageIDs, {m})
<1>2. MailListed
  BY DEF PagingInv
<1>3. list \in Seq(Nat) /\ ToSet(list) = ToSet(messageIDs) \ {m}
  BY <1>2, KeptIs DEF MailListed
<1> DEFINE upward == {pair \in Nat \X Nat : pair[1] < pair[2]}
<1>4. Rises(list)
  <2>1. Follows(messageIDs, upward)
    <3>1. \A i \in DOMAIN messageIDs : messageIDs[i] \in Nat
      BY <1>2 DEF MailListed
    <3> QED
      BY <1>2, <3>1 DEF MailListed, Rises, Follows
  <2> HIDE DEF upward
  <2>2. Follows(list, upward)
    BY <1>2, <2>1, FilterFollows DEF MailListed
  <2> QED
    BY <2>2 DEF Follows, Rises, upward
<1> HIDE DEF list
<1>5. MailListed'
  <2>1. messageIDs' = list
    BY <1>1 DEF list
  <2> QED
    BY <1>1, <1>2, <1>3, <1>4, <2>1 DEF MailListed
<1>6. ASSUME NEW c \in Callers
      PROVE  idCall'[c] \in IDCalls /\ IDGood(idCall'[c], ToSet(list), created)
  <2>1. idCall[c] \in IDCalls /\ IDGood(idCall[c], ToSet(messageIDs), created)
    BY DEF PagingInv
  <2>2. ToSet(messageIDs) \in SUBSET Nat /\ created \in Nat
    BY <1>2, PageSizeIs DEF MailListed
  <2>3. idCall'[c] = [idCall[c] EXCEPT !.kept = @ \ {m}, !.deleted = @ \/ Busy(idCall[c])]
    BY DEF DropMessage
  <2> QED
    <3>1. idCall'[c] \in IDCalls /\ IDGood(idCall'[c], ToSet(messageIDs) \ {m}, created)
      BY <1>1, <2>1, <2>2, <2>3, IDDrops
    <3> QED
      BY <1>3, <3>1
<1>7. ASSUME NEW c \in Callers
      PROVE  metaCall'[c] \in MetaCalls /\ MetaGood(metaCall'[c], list, matching', created)
  <2>1. metaCall[c] \in MetaCalls /\ MetaGood(metaCall[c], messageIDs, matching, created)
    BY DEF PagingInv
  <2>2. metaCall'[c] = WithoutMeta(metaCall[c], m)
    BY DEF DropMessage
  <2> QED
    BY <1>1, <1>2, <2>1, <2>2, MetaDrops
<1>8. idCall' \in [Callers -> IDCalls] /\ metaCall' \in [Callers -> MetaCalls]
  BY <1>6, <1>7 DEF PagingInv, DropMessage
<1>9. messageIDs' = list
  BY <1>1 DEF list
<1> QED
  BY <1>1, <1>5, <1>6, <1>7, <1>8, <1>9 DEF PagingInv

LEMMA RefileInv == ASSUME PagingInv, NEW m, Refile(m) PROVE PagingInv'
<1>1. /\ UNCHANGED <<messageIDs, created, idCall>> /\ m \in ToSet(messageIDs)
      /\ matching' = matching \ {m} \/ matching' = matching \cup {m}
  BY DEF Refile
<1>2. MailListed /\ MailListed'
  BY <1>1 DEF PagingInv, MailListed
<1>3. ASSUME NEW c \in Callers
      PROVE  metaCall'[c] \in MetaCalls /\ MetaGood(metaCall'[c], messageIDs, matching', created)
  <2>1. metaCall[c] \in MetaCalls /\ MetaGood(metaCall[c], messageIDs, matching, created)
    BY DEF PagingInv
  <2>2. metaCall'[c] = WithoutMeta(metaCall[c], m)
    BY DEF Refile
  <2> QED
    BY <1>1, <1>2, <2>1, <2>2, MetaDrops
<1>4. metaCall' \in [Callers -> MetaCalls]
  BY <1>3 DEF Refile
<1> QED
  BY <1>1, <1>2, <1>3, <1>4 DEF PagingInv

\* A turn of one call for IDs, or of one for metadata, changes no other.
LEMMA IDStep ==
    ASSUME PagingInv, NEW c \in Callers, NEW new \in IDCalls, IDGood(new, ToSet(messageIDs), created),
           idCall' = [idCall EXCEPT ![c] = new], UNCHANGED <<messageIDs, matching, created, metaCall>>
    PROVE  PagingInv'
BY DEF PagingInv, MailListed

LEMMA MetaStep ==
    ASSUME PagingInv, NEW c \in Callers, NEW new \in MetaCalls, MetaGood(new, messageIDs, matching, created),
           metaCall' = [metaCall EXCEPT ![c] = new], UNCHANGED <<messageIDs, matching, created, idCall>>
    PROVE  PagingInv'
BY DEF PagingInv, MailListed

LEMMA PagingStepInv == PagingInv /\ [PagingNext]_pagingVars => PagingInv'
<1> SUFFICES ASSUME PagingInv, [PagingNext]_pagingVars PROVE PagingInv'
  OBVIOUS
<1>1. CASE MessageArrives
  BY <1>1, ArrivesInv
<1>2. ASSUME NEW m \in 1 .. MaxMessages, DropMessage(m)
      PROVE  PagingInv'
  BY <1>2, DropInv
<1>9. ASSUME NEW m \in 1 .. MaxMessages, Refile(m)
      PROVE  PagingInv'
  BY <1>9, RefileInv
<1>3. ASSUME NEW c \in Callers, AskIDs(c)
      PROVE  PagingInv'
  <2>1. PICK after \in {FromTheStart} \cup 1 .. created :
          idCall' = [idCall EXCEPT ![c] =
              [at |-> "ask", after |-> after, ids |-> {}, twice |-> FALSE, deleted |-> FALSE,
               kept |-> {messageIDs[i] : i \in IndexAfter(after) + 1 .. Len(messageIDs)}]]
    BY <1>3 DEF AskIDs
  <2>2. UNCHANGED <<messageIDs, matching, created, metaCall>>
    BY <1>3 DEF AskIDs
  <2> QED
    BY <2>1, <2>2, IDAsks, IDStep
<1>4. ASSUME NEW c \in Callers, IDsAnswered(c)
      PROVE  PagingInv'
  <2> DEFINE page == IDsAfter(idCall[c].after)
             new == IF page = <<>> THEN [idCall[c] EXCEPT !.at = "done"]
                    ELSE [idCall[c] EXCEPT !.ids = @ \cup ToSet(page), !.after = Last(page),
                                           !.twice = @ \/ ToSet(page) \cap idCall[c].ids # {}]
  <2>1. idCall' = [idCall EXCEPT ![c] = new] /\ UNCHANGED <<messageIDs, matching, created, metaCall>>
    BY <1>4 DEF IDsAnswered, IsLast, NextAfter, PagingInv
  <2>2. idCall[c] \in IDCalls /\ IDGood(idCall[c], ToSet(messageIDs), created) /\ idCall[c].at = "ask"
    BY <1>4 DEF IDsAnswered, PagingInv
  <2>3. new \in IDCalls /\ IDGood(new, ToSet(messageIDs), created)
    BY <2>2, IDTurns
  <2> HIDE DEF new
  <2> QED
    BY <2>1, <2>3, IDStep
<1>5. ASSUME NEW c \in Callers, CountThem(c)
      PROVE  PagingInv'
  <2>1. PICK order \in Orders :
          /\ order.end <= created
          /\ metaCall' = [metaCall EXCEPT ![c] = Counted(order, PagesFor(CountMessages), ToSet(Filtered(order)))]
    BY <1>5 DEF CountThem, Counted
  <2>2. UNCHANGED <<messageIDs, matching, created, idCall>> /\ MailListed
    BY <1>5 DEF CountThem, PagingInv
  <2> DEFINE new == Counted(order, PagesFor(CountMessages), ToSet(Filtered(order)))
  <2>3. new \in MetaCalls /\ MetaGood(new, messageIDs, matching, created)
    BY <2>1, <2>2, MetaCounts
  <2> HIDE DEF new
  <2>4. metaCall' = [metaCall EXCEPT ![c] = new]
    BY <2>1 DEF new
  <2> QED
    BY <2>2, <2>3, <2>4, MetaStep
<1>6. ASSUME NEW c \in Callers, MetadataDone(c)
      PROVE  PagingInv'
  <2> DEFINE new == [metaCall[c] EXCEPT !.at = "done"]
  <2>1. /\ metaCall[c] \in MetaCalls /\ MetaGood(metaCall[c], messageIDs, matching, created) /\ MailListed
        /\ metaCall[c].at = "pages" /\ NotYet \notin ToSet(metaCall[c].pages)
        /\ UNCHANGED <<messageIDs, matching, created, idCall>> /\ metaCall' = [metaCall EXCEPT ![c] = new]
    BY <1>6 DEF MetadataDone, PagingInv
  <2>2. new \in MetaCalls /\ MetaGood(new, messageIDs, matching, created)
    BY <2>1, MetaEnds
  <2> HIDE DEF new
  <2> QED
    BY <2>1, <2>2, MetaStep
<1>7. ASSUME NEW c \in Callers, NEW p \in 1 .. PagesFor(MaxMessages), PageAnswered(c, p)
      PROVE  PagingInv'
  <2> DEFINE new == [metaCall[c] EXCEPT !.pages[p] = MessagesOfPage(metaCall[c].order, p)]
  <2>1. /\ metaCall[c] \in MetaCalls /\ MetaGood(metaCall[c], messageIDs, matching, created) /\ MailListed
        /\ metaCall[c].at = "pages" /\ p \in DOMAIN metaCall[c].pages
        /\ UNCHANGED <<messageIDs, matching, created, idCall>> /\ metaCall' = [metaCall EXCEPT ![c] = new]
    BY <1>7 DEF PageAnswered, PagingInv
  <2>2. new \in MetaCalls /\ MetaGood(new, messageIDs, matching, created)
    BY <2>1, MetaAnswers
  <2> HIDE DEF new
  <2> QED
    BY <2>1, <2>2, MetaStep
<1>8. CASE UNCHANGED pagingVars
  BY <1>8 DEF pagingVars, PagingInv, MailListed
<1> QED
  BY <1>1, <1>2, <1>3, <1>4, <1>5, <1>6, <1>7, <1>8, <1>9 DEF PagingNext

LEMMA PagingInvMeans == PagingInv => PagesAddUp
<1> SUFFICES ASSUME PagingInv PROVE PagesAddUp
  OBVIOUS
<1>1. PagingTypeOK
  <2>1. MailListed /\ created \in Nat
    BY PageSizeIs DEF PagingInv, MailListed
  <2>2. messageIDs \in Seq(1 .. created)
    <3>1. \A i \in DOMAIN messageIDs : messageIDs[i] \in 1 .. created
      BY <2>1 DEF MailListed, ToSet
    <3> QED
      BY <2>1, <3>1 DEF MailListed
  <2>3. ASSUME NEW c \in Callers
        PROVE  /\ idCall[c].at \in {"new", "ask", "done"} /\ idCall[c].after \in 0 .. created
               /\ idCall[c].ids \subseteq 1 .. created /\ idCall[c].kept \subseteq ToSet(messageIDs)
               /\ metaCall[c].at \in {"new", "pages", "done"}
               /\ metaCall[c].kept \subseteq matching
    <3>1. /\ idCall[c] \in IDCalls /\ IDGood(idCall[c], ToSet(messageIDs), created)
          /\ metaCall[c] \in MetaCalls /\ MetaGood(metaCall[c], messageIDs, matching, created)
      BY DEF PagingInv
    <3> QED
      BY <2>1, <3>1 DEF IDCalls, IDGood, MetaCalls, MetaGood
  <2> QED
    BY <2>1, <2>2, <2>3 DEF PagingTypeOK, MailListed, Rises
<1>2. IDsComplete /\ IDsOnce
  BY DEF PagingInv, IDGood, IDsComplete, IDsOnce
<1>3. MetadataComplete
  <2>1. \A c \in Callers : MetaGood(metaCall[c], messageIDs, matching, created)
    BY DEF PagingInv
  <2>2. \A c \in Callers : Metadata(c) = PagesOf(metaCall[c])
    BY DEF Metadata, PagesOf
  <2> QED
    BY <2>1, <2>2 DEF MetaGood, MetadataComplete
<1> QED
  BY <1>1, <1>2, <1>3 DEF PagesAddUp

\* GetAllMessageIDs returns every message that was there all the time, and none
\* twice unless one was deleted meanwhile; the pages GetMessageMetadata asks for
\* have every message that passed its filter all the time, once and in order,
\* unless one was deleted, came into the filter or left it, or one was created
\* where the listing begins.
THEOREM PagesAreComplete == PagingSpec => []PagesAddUp
<1>1. PagingInit => PagingInv
  BY PagingInitInv
<1>2. PagingInv /\ [PagingNext]_pagingVars => PagingInv'
  BY PagingStepInv
<1>3. PagingInv => PagesAddUp
  BY PagingInvMeans
<1> QED
  BY <1>1, <1>2, <1>3, PTL DEF PagingSpec
==============================================================================
