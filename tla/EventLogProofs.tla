--------------------------- MODULE EventLogProofs ---------------------------
(***************************************************************************)
(* Proofs about EventLog: what merging keeps and drops, for every sequence *)
(* of updates, and how the log relates to what is stored.                  *)
(*                                                                         *)
(* Merge is a fold, so what it returns is proved by induction.  The        *)
(* induction theorems of the library take an operator; NatSet is induction *)
(* over a set, from the well-foundedness of <, and MergedFrom the fold     *)
(* with the position it has come to.                                       *)
(***************************************************************************)
EXTENDS EventLog, FiniteSetTheorems, SequenceTheorems, TLAPS

\* Induction: a set of naturals with 0 and, with n, also n + 1 has them all.
LEMMA NatSet ==
    ASSUME NEW X, X \subseteq Nat, 0 \in X, \A n \in X : n + 1 \in X
    PROVE  X = Nat
<1> DEFINE R == OpToRel(<, Nat)
           B == Nat \ X
<1>1. IsWellFoundedOn(R, Nat)
  BY NatLessThanWellFounded
<1>2. B \subseteq Nat
  OBVIOUS
<1>3. SUFFICES ASSUME B # {} PROVE FALSE
  OBVIOUS
<1>4. \A x, y \in Nat : y < x => <<y, x>> \in R
  BY DEF OpToRel
<1> HIDE DEF B, R
<1>5. PICK x \in B : \A y \in B : ~(<<y, x>> \in R)
  BY <1>1, <1>2, <1>3, WFMin
<1>6. x \in Nat /\ x # 0
  BY <1>2 DEF B
<1>7. x - 1 \in Nat /\ x - 1 < x
  BY <1>6
<1>8. x - 1 \notin B
  BY <1>4, <1>5, <1>6, <1>7
<1>9. x - 1 \in X
  BY <1>7, <1>8 DEF B
<1>10. x \in X
  BY <1>6, <1>9
<1>11. QED
  BY <1>10 DEF B

------------------------------------------------------------------------------
(* The fold of Merge. *)

\* One step of Merge: u is put before what has been merged, or dropped.
MergeStep(u, merged) ==
    IF \E other \in ToSet(merged) : Replaces(other, u) THEN merged ELSE <<u>> \o merged

\* A function of the sets of positions of us that folds the least one last.
FoldsOn(g, us, sets) ==
    g = [s \in sets |-> IF s = {} THEN <<>> ELSE MergeStep(us[Min(s)], g[s \ {Min(s)}])]

Fold(us) == CHOOSE g : FoldsOn(g, us, SUBSET DOMAIN us)

\* Merge is the fold of all positions.
LEMMA MergeIsFold == ASSUME NEW us PROVE Merge(us) = Fold(us)[DOMAIN us]
  BY Zenon DEF Merge, FoldRight, MapThenFoldSet, MergeStep, Fold, FoldsOn

\* A non-empty set of positions has a least one.
LEMMA LeastPosition ==
    ASSUME NEW s, s \subseteq Nat, s # {}
    PROVE  Min(s) \in s /\ \A y \in s : Min(s) <= y
<1> DEFINE R == OpToRel(<, Nat)
<1>1. IsWellFoundedOn(R, Nat)
  BY NatLessThanWellFounded
<1>2. \A x, y \in Nat : y < x => <<y, x>> \in R
  BY DEF OpToRel
<1> HIDE DEF R
<1>3. PICK x \in s : \A y \in s : ~(<<y, x>> \in R)
  BY <1>1, WFMin
<1>4. \A y \in s : x <= y
  <2> SUFFICES ASSUME NEW y \in s PROVE x <= y
    OBVIOUS
  <2>1. ~(y < x)
    BY <1>2, <1>3
  <2>2. QED
    BY <2>1
<1>5. QED
  BY <1>4 DEF Min

\* The fold exists, so that it is what its equation says.
LEMMA FoldExists ==
    ASSUME NEW us, IsFiniteSet(DOMAIN us), DOMAIN us \subseteq Nat
    PROVE  FoldsOn(Fold(us), us, SUBSET DOMAIN us)
<1> DEFINE D == DOMAIN us
           Upto(c) == {s \in SUBSET D : Cardinality(s) <= c}
           X == {c \in Nat : \E g : FoldsOn(g, us, Upto(c))}
<1>1. \A s \in SUBSET D : IsFiniteSet(s) /\ Cardinality(s) \in Nat
  BY FS_Subset, FS_CardinalityType
<1>2. \A s \in SUBSET D : s # {} =>
         s \ {Min(s)} \in SUBSET D /\ Cardinality(s \ {Min(s)}) = Cardinality(s) - 1
  <2> SUFFICES ASSUME NEW s \in SUBSET D, s # {}
               PROVE  s \ {Min(s)} \in SUBSET D /\ Cardinality(s \ {Min(s)}) = Cardinality(s) - 1
    OBVIOUS
  <2>1. Min(s) \in s
    BY LeastPosition
  <2>2. QED
    BY <1>1, <2>1, FS_RemoveElement
<1>3. 0 \in X
  <2>1. \A s \in Upto(0) : s = {}
    BY <1>1, FS_EmptySet
  <2> DEFINE g == [s \in Upto(0) |-> <<>>]
  <2>2. FoldsOn(g, us, Upto(0))
    BY <2>1 DEF FoldsOn
  <2>3. QED
    BY <2>2
<1>4. ASSUME NEW c \in X PROVE c + 1 \in X
  <2>1. PICK g : FoldsOn(g, us, Upto(c))
    OBVIOUS
  <2> DEFINE h == [s \in Upto(c + 1) |->
                     IF s = {} THEN <<>> ELSE MergeStep(us[Min(s)], g[s \ {Min(s)}])]
  <2>2. c \in Nat /\ Upto(c) \subseteq Upto(c + 1)
    BY <1>1
  <2>3. \A s \in Upto(c) : h[s] = g[s]
    BY <2>1, <2>2 DEF FoldsOn
  <2>4. \A s \in Upto(c + 1) : s # {} => s \ {Min(s)} \in Upto(c)
    BY <1>1, <1>2, <2>2
  <2>5. h = [s \in Upto(c + 1) |->
               IF s = {} THEN <<>> ELSE MergeStep(us[Min(s)], h[s \ {Min(s)}])]
    BY <2>3, <2>4
  <2> HIDE DEF h
  <2>6. FoldsOn(h, us, Upto(c + 1))
    BY <2>5 DEF FoldsOn
  <2>7. \E f : FoldsOn(f, us, Upto(c + 1))
    BY <2>6, Zenon
  <2>8. c + 1 \in Nat
    BY <2>2
  <2>9. QED
    BY <2>7, <2>8, Zenon
<1>5. X = Nat
  <2> HIDE DEF X
  <2>1. X \subseteq Nat
    BY DEF X
  <2>2. QED
    BY <1>3, <1>4, <2>1, NatSet
<1>6. Cardinality(D) \in X
  BY <1>1, <1>5
<1>7. \A s \in SUBSET D : Cardinality(s) <= Cardinality(D)
  BY FS_Subset
<1>8. Upto(Cardinality(D)) = SUBSET D
  BY <1>7
<1>9. \E g : FoldsOn(g, us, SUBSET D)
  BY <1>6, <1>8
<1>10. QED
  BY <1>9 DEF Fold

------------------------------------------------------------------------------
(* What Merge returns. *)

\* What the updates from position k on are merged to.
MergedFrom(us, k) == Fold(us)[k .. Len(us)]

\* Induction from the end of a sequence to its start.
LEMMA Downward ==
    ASSUME NEW n \in Nat, NEW X, n + 1 \in X, \A k \in 1 .. n : k + 1 \in X => k \in X
    PROVE  \A k \in 1 .. n + 1 : k \in X
<1> DEFINE Y == {j \in Nat : j <= n => n + 1 - j \in X}
<1>1. 0 \in Y
  OBVIOUS
<1>2. \A j \in Y : j + 1 \in Y
  <2> SUFFICES ASSUME NEW j \in Y, j + 1 <= n PROVE n + 1 - (j + 1) \in X
    OBVIOUS
  <2>1. n - j \in 1 .. n /\ (n - j) + 1 \in X
    <3>1. j \in Nat /\ n + 1 - j \in X
      OBVIOUS
    <3>2. n + 1 - j = (n - j) + 1
      BY <3>1
    <3>3. QED
      BY <3>1, <3>2
  <2>2. n - j \in X
    BY <2>1
  <2>3. n - j = n + 1 - (j + 1)
    OBVIOUS
  <2>4. QED
    BY <2>2, <2>3
<1>3. Y = Nat
  <2> HIDE DEF Y
  <2>1. Y \subseteq Nat
    BY DEF Y
  <2>2. QED
    BY <1>1, <1>2, <2>1, NatSet
<1>4. ASSUME NEW k \in 1 .. n PROVE k \in X
  <2>1. n + 1 - k \in Nat /\ n + 1 - k <= n
    OBVIOUS
  <2>1a. n + 1 - k \in Y
    BY <1>3, <2>1
  <2>2. n + 1 - (n + 1 - k) = k
    OBVIOUS
  <2>3. n + 1 - (n + 1 - k) \in X
    BY <2>1, <2>1a
  <2>4. QED
    BY <2>2, <2>3
<1>5. QED
  BY <1>4

\* Merge takes the positions one by one, from the right.
LEMMA MergeUnfolds ==
    ASSUME NEW us \in Seq(Updates)
    PROVE  /\ MergedFrom(us, Len(us) + 1) = <<>>
           /\ \A k \in 1 .. Len(us) : MergedFrom(us, k) = MergeStep(us[k], MergedFrom(us, k + 1))
           /\ Merge(us) = MergedFrom(us, 1)
<1>1. Len(us) \in Nat /\ DOMAIN us = 1 .. Len(us)
  BY LenProperties
<1>2. IsFiniteSet(DOMAIN us)
  BY <1>1, FS_Interval
<1>3. FoldsOn(Fold(us), us, SUBSET DOMAIN us)
  BY <1>1, <1>2, FoldExists
<1>4. \A s \in SUBSET DOMAIN us :
         Fold(us)[s] = IF s = {} THEN <<>> ELSE MergeStep(us[Min(s)], Fold(us)[s \ {Min(s)}])
  BY <1>3 DEF FoldsOn
<1>5. MergedFrom(us, Len(us) + 1) = <<>>
  <2>1. (Len(us) + 1) .. Len(us) = {}
    BY <1>1
  <2>2. QED
    BY <1>4, <2>1 DEF MergedFrom
<1>6. ASSUME NEW k \in 1 .. Len(us)
      PROVE  MergedFrom(us, k) = MergeStep(us[k], MergedFrom(us, k + 1))
  <2>1. k .. Len(us) \in SUBSET DOMAIN us /\ k \in k .. Len(us)
    BY <1>1
  <2> DEFINE s == k .. Len(us)
  <2>0. s \subseteq Nat /\ s # {} /\ k \in s
    BY <1>1, <2>1
  <2> HIDE DEF s
  <2>0a. Min(s) \in s /\ Min(s) <= k
    BY <2>0, LeastPosition
  <2>2. Min(k .. Len(us)) \in k .. Len(us) /\ Min(k .. Len(us)) <= k
    BY <2>0a DEF s
  <2>3. Min(k .. Len(us)) = k
    BY <1>1, <2>2
  <2>4. (k .. Len(us)) \ {k} = (k + 1) .. Len(us)
    BY <1>1
  <2>5. Fold(us)[k .. Len(us)] = MergeStep(us[k], Fold(us)[(k .. Len(us)) \ {k}])
    BY <1>4, <2>1, <2>3
  <2>6. QED
    BY <2>4, <2>5 DEF MergedFrom
<1>7. QED
  BY <1>1, <1>5, <1>6, MergeIsFold DEF MergedFrom

\* The elements of a sequence with one more in front.
LEMMA ToSetCons ==
    ASSUME NEW S, NEW s \in Seq(S), NEW u \in S
    PROVE  <<u>> \o s \in Seq(S) /\ ToSet(<<u>> \o s) = {u} \cup ToSet(s)
<1>1. <<u>> \in Seq(S) /\ Len(<<u>>) = 1 /\ <<u>>[1] = u
  OBVIOUS
<1> DEFINE t == <<u>> \o s
<1>2. t \in Seq(S) /\ Len(t) = 1 + Len(s) /\ t[1] = u /\ \A i \in 1 .. Len(s) : t[i + 1] = s[i]
  <2>1. Len(s) \in Nat
    BY LenProperties
  <2>2. /\ t \in Seq(S) /\ Len(t) = 1 + Len(s)
        /\ \A i \in 1 .. 1 + Len(s) : t[i] = IF i <= 1 THEN <<u>>[i] ELSE s[i - 1]
    BY <1>1, ConcatProperties
  <2>3. \A i \in 1 .. Len(s) : i + 1 \in 1 .. 1 + Len(s) /\ ~(i + 1 <= 1) /\ (i + 1) - 1 = i
    BY <2>1
  <2>4. t[1] = u
    BY <1>1, <2>1, <2>2
  <2>5. \A i \in 1 .. Len(s) : t[i + 1] = s[i]
    BY <2>2, <2>3
  <2>6. QED
    BY <2>2, <2>4, <2>5
<1> HIDE DEF t
<1>3. DOMAIN t = 1 .. Len(t) /\ DOMAIN s = 1 .. Len(s) /\ Len(s) \in Nat
  BY <1>2, LenProperties
<1>4. ToSet(t) \subseteq {u} \cup ToSet(s)
  <2> SUFFICES ASSUME NEW i \in DOMAIN t PROVE t[i] = u \/ t[i] \in ToSet(s)
    BY DEF ToSet
  <2>1. i = 1 \/ (i - 1 \in 1 .. Len(s) /\ (i - 1) + 1 = i)
    BY <1>2, <1>3
  <2>2. QED
    BY <1>2, <1>3, <2>1 DEF ToSet
<1>5. {u} \cup ToSet(s) \subseteq ToSet(t)
  <2>1. u \in ToSet(t)
    BY <1>2, <1>3 DEF ToSet
  <2>2. ASSUME NEW i \in DOMAIN s PROVE s[i] \in ToSet(t)
    <3>1. i + 1 \in DOMAIN t /\ t[i + 1] = s[i]
      BY <1>2, <1>3
    <3>2. QED
      BY <3>1 DEF ToSet
  <2>3. QED
    BY <2>1, <2>2 DEF ToSet
<1>6. QED
  BY <1>2, <1>4, <1>5 DEF t

\* An update is kept, or another about the same item is: a refresh is kept.
Represented(u, kept) ==
    IF u.kind = "refreshed" THEN u \in kept ELSE \E v \in kept : v.of = u.of /\ v.kind # "refreshed"

\* For every sequence of updates, Merge returns some of them, and every one is
\* represented in what it returns.
LEMMA MergeKeeps ==
    ASSUME NEW us \in Seq(Updates)
    PROVE  /\ Merge(us) \in Seq(Updates)
           /\ ToSet(Merge(us)) \subseteq ToSet(us)
           /\ \A u \in ToSet(us) : Represented(u, ToSet(Merge(us)))
<1> DEFINE n == Len(us)
           X == {k \in 1 .. n + 1 :
                    /\ MergedFrom(us, k) \in Seq(Updates)
                    /\ ToSet(MergedFrom(us, k)) \subseteq {us[j] : j \in k .. n}
                    /\ \A j \in k .. n : Represented(us[j], ToSet(MergedFrom(us, k)))}
<1>1. n \in Nat /\ DOMAIN us = 1 .. n /\ \A k \in 1 .. n : us[k] \in Updates
  BY LenProperties, ElementOfSeq
<1> HIDE DEF n
<1>2. n + 1 \in X
  <2>1. MergedFrom(us, n + 1) = <<>>
    BY MergeUnfolds DEF n
  <2>2. ToSet(<<>>) = {} /\ <<>> \in Seq(Updates)
    BY DEF ToSet
  <2>3. (n + 1) .. n = {} /\ n + 1 \in 1 .. n + 1
    BY <1>1
  <2>4. QED
    BY <2>1, <2>2, <2>3
<1>3. ASSUME NEW k \in 1 .. n, k + 1 \in X PROVE k \in X
  <2> DEFINE m == MergedFrom(us, k + 1)
             u == us[k]
  <2>1. /\ m \in Seq(Updates) /\ u \in Updates
        /\ ToSet(m) \subseteq {us[j] : j \in k + 1 .. n}
        /\ \A j \in k + 1 .. n : Represented(us[j], ToSet(m))
        /\ MergedFrom(us, k) = MergeStep(u, m)
    BY <1>1, <1>3, MergeUnfolds DEF n
  <2>2. k \in 1 .. n + 1 /\ k .. n = {k} \cup (k + 1 .. n)
    BY <1>1
  <2>3. {us[j] : j \in k .. n} = {u} \cup {us[j] : j \in k + 1 .. n}
    BY <2>2
  <2> HIDE DEF m, u
  <2>4. CASE \E other \in ToSet(m) : Replaces(other, u)
    <3>1. MergedFrom(us, k) = m
      BY <2>1, <2>4 DEF MergeStep
    <3>2. Represented(u, ToSet(m))
      BY <2>1, <2>4 DEF Replaces, Represented
    <3>3. \A j \in k .. n : Represented(us[j], ToSet(m))
      BY <2>1, <2>2, <3>2 DEF u
    <3>4. QED
      BY <2>1, <2>2, <2>3, <3>1, <3>3
  <2>5. CASE ~ \E other \in ToSet(m) : Replaces(other, u)
    <3>1. MergedFrom(us, k) = <<u>> \o m
      BY <2>1, <2>5 DEF MergeStep
    <3>2. <<u>> \o m \in Seq(Updates) /\ ToSet(<<u>> \o m) = {u} \cup ToSet(m)
      BY <2>1, ToSetCons
    <3>3. Represented(u, {u} \cup ToSet(m))
      BY DEF Represented
    <3>4. \A j \in k + 1 .. n : Represented(us[j], {u} \cup ToSet(m))
      BY <2>1 DEF Represented
    <3>5. \A j \in k .. n : Represented(us[j], {u} \cup ToSet(m))
      BY <2>2, <3>3, <3>4 DEF u
    <3>6. QED
      BY <2>1, <2>2, <2>3, <3>1, <3>2, <3>5
  <2>6. QED
    BY <2>4, <2>5
<1>4. 1 \in X
  <2> HIDE DEF X
  <2>1. \A k \in 1 .. n + 1 : k \in X
    BY <1>1, <1>2, <1>3, Downward
  <2>2. QED
    BY <1>1, <2>1
<1>5. {us[j] : j \in 1 .. n} = ToSet(us)
  BY <1>1 DEF ToSet
<1>6. QED
  <2>1. Merge(us) = MergedFrom(us, 1)
    BY MergeUnfolds
  <2>2. \A u \in ToSet(us) : \E j \in 1 .. n : u = us[j]
    BY <1>1 DEF ToSet
  <2>3. QED
    BY <1>4, <1>5, <2>1, <2>2

\* A deletion that no later update of the item follows leaves none of the
\* creations and updates before it.
LEMMA DeletionWins ==
    ASSUME NEW us \in Seq(Updates), NEW d \in 1 .. Len(us), us[d].kind = "deleted",
           \A k \in d + 1 .. Len(us) : us[k].of # us[d].of
    PROVE  \A u \in ToSet(Merge(us)) : u.of = us[d].of => u.kind \notin {"created", "updated"}
<1> DEFINE n == Len(us)
           X == {k \in 1 .. n + 1 :
                    /\ MergedFrom(us, k) \in Seq(Updates)
                    /\ k > d => \A u \in ToSet(MergedFrom(us, k)) : u.of # us[d].of
                    /\ k <= d => /\ us[d] \in ToSet(MergedFrom(us, k))
                                 /\ \A u \in ToSet(MergedFrom(us, k)) :
                                       u.of = us[d].of => u.kind \notin {"created", "updated"}}
<1>1. n \in Nat /\ d \in 1 .. n /\ \A k \in 1 .. n : us[k] \in Updates
  BY LenProperties, ElementOfSeq
<1>2. \A k \in 1 .. n : MergedFrom(us, k) = MergeStep(us[k], MergedFrom(us, k + 1))
  BY MergeUnfolds
<1>3. n + 1 \in X
  <2>1. MergedFrom(us, n + 1) = <<>>
    BY MergeUnfolds
  <2>2. ToSet(<<>>) = {} /\ <<>> \in Seq(Updates)
    BY DEF ToSet
  <2>3. n + 1 \in 1 .. n + 1 /\ n + 1 > d /\ ~(n + 1 <= d)
    BY <1>1
  <2>4. QED
    BY <2>1, <2>2, <2>3
<1>4. \A k \in d + 1 .. n : us[k].of # us[d].of
  OBVIOUS
<1> HIDE DEF n
<1>5. ASSUME NEW k \in 1 .. n, k + 1 \in X PROVE k \in X
  <2> DEFINE m == MergedFrom(us, k + 1)
             u == us[k]
  <2>1. /\ m \in Seq(Updates) /\ u \in Updates /\ MergedFrom(us, k) = MergeStep(u, m)
        /\ k + 1 > d => \A v \in ToSet(m) : v.of # us[d].of
        /\ k + 1 <= d => /\ us[d] \in ToSet(m)
                         /\ \A v \in ToSet(m) :
                               v.of = us[d].of => v.kind \notin {"created", "updated"}
        /\ k > d => u.of # us[d].of
    BY <1>1, <1>2, <1>4, <1>5
  <2>2. <<u>> \o m \in Seq(Updates) /\ ToSet(<<u>> \o m) = {u} \cup ToSet(m)
    BY <2>1, ToSetCons
  <2> HIDE DEF m
  <2> HIDE DEF u
  <2>3. MergedFrom(us, k) =
            IF \E other \in ToSet(m) : Replaces(other, u) THEN m ELSE <<u>> \o m
    BY <2>1 DEF MergeStep
  <2>4. k \in 1 .. n + 1 /\ MergedFrom(us, k) \in Seq(Updates)
    <3>1. k \in 1 .. n + 1
      BY <1>1
    <3>2. QED
      BY <2>1, <2>2, <2>3, <3>1
  <2>5. CASE k > d
    <3>1. k + 1 > d /\ ~(k <= d)
      BY <1>1, <2>5
    <3>2. \A v \in {u} \cup ToSet(m) : v.of # us[d].of
      BY <2>1, <2>5, <3>1
    <3>3. ToSet(MergedFrom(us, k)) \subseteq {u} \cup ToSet(m)
      BY <2>2, <2>3
    <3>4. QED
      BY <2>4, <3>1, <3>2, <3>3
  <2>6. CASE k = d
    <3>1. k + 1 > d /\ ~(k > d)
      BY <1>1, <2>6
    <3>2. ~(\E other \in ToSet(m) : Replaces(other, u))
      BY <2>1, <2>6, <3>1 DEF Replaces, u
    <3>3. ToSet(MergedFrom(us, k)) = {us[d]} \cup ToSet(m)
      BY <2>2, <2>3, <2>6, <3>2 DEF u
    <3>4. QED
      BY <2>1, <2>4, <3>1, <3>3
  <2>7. CASE k < d
    <3>1. k + 1 <= d /\ ~(k > d)
      BY <1>1, <2>7
    <3>2. CASE u.of = us[d].of /\ u.kind \in {"created", "updated"}
      <4>1. Replaces(us[d], u)
        BY <3>2 DEF Replaces
      <4>2. MergedFrom(us, k) = m
        BY <2>1, <2>3, <3>1, <4>1
      <4>3. QED
        BY <2>1, <2>4, <3>1, <4>2
    <3>3. CASE ~(u.of = us[d].of /\ u.kind \in {"created", "updated"})
      <4>1. ToSet(m) \subseteq ToSet(MergedFrom(us, k))
        BY <2>2, <2>3
      <4>2. ToSet(MergedFrom(us, k)) \subseteq {u} \cup ToSet(m)
        BY <2>2, <2>3
      <4>3. QED
        BY <2>1, <2>4, <3>1, <3>3, <4>1, <4>2
    <3>4. QED
      BY <3>2, <3>3
  <2>8. QED
    BY <1>1, <2>5, <2>6, <2>7
<1>6. 1 \in X
  <2> HIDE DEF X
  <2>1. \A k \in 1 .. n + 1 : k \in X
    BY <1>1, <1>3, <1>5, Downward DEF n
  <2>2. QED
    BY <1>1, <2>1
<1>7. 1 <= d
  BY <1>1
<1>8. QED
  BY <1>6, <1>7, MergeUnfolds

------------------------------------------------------------------------------
(* The log and the store. *)

\* The first update of the log.
LogStart == Len(updates) - Len(updateIDs) + 1

\* The log has the updates from LogStart on, one after the other.
LogIsSuffix ==
    /\ updates \in Seq(Updates) /\ updateIDs \in Seq(DOMAIN updates)
    /\ Len(updateIDs) \in 1 .. Len(updates)
    /\ \A k \in 1 .. Len(updateIDs) : updateIDs[k] = LogStart + k - 1

\* It starts with the last RefreshAll, if there was one.
StartsAtRefresh ==
    /\ LogStart > 1 => updates[LogStart].of = "all"
    /\ \A n \in 1 .. Len(updates) : updates[n].of = "all" => n <= LogStart

\* An item is gone when its deletion was logged, which happens once.
LifeIsLogged ==
    /\ \A n \in 1 .. Len(updates) :
          updates[n].kind = "deleted" =>
             /\ store[updates[n].of] = Gone
             /\ \A m \in n + 1 .. Len(updates) :
                   updates[m].of = updates[n].of => updates[m].kind # "deleted"
    /\ \A i \in Items : store[i] = Gone =>
          \E n \in 1 .. Len(updates) : updates[n].kind = "deleted" /\ updates[n].of = i

LogInv ==
    /\ store \in [Items -> Int] /\ \A i \in Items : store[i] >= Gone
    /\ primaries \subseteq AddressItems
    /\ maxUpdatesPerEvent \in Limits \cup {0}
    /\ LogIsSuffix /\ StartsAtRefresh /\ LifeIsLogged

\* What an operation that logs u does.
Logged(u) ==
    /\ updates' = Append(updates, u)
    /\ updateIDs' = IF u.of = "all" THEN <<Len(updates) + 1>> ELSE Append(updateIDs, Len(updates) + 1)
    /\ UNCHANGED maxUpdatesPerEvent
    /\ primaries' \subseteq AddressItems
    /\ store' \in [Items -> Int] /\ \A i \in Items : store'[i] # store[i] => i = u.of
    /\ u.kind = "deleted" => store[u.of] > 0 /\ store'[u.of] = Gone
    /\ u.kind \in {"created", "updated"} =>
          store'[u.of] = store[u.of] \/ (store[u.of] >= 0 /\ store'[u.of] > 0)

LEMMA UpdateKinds ==
    ASSUME NEW u \in Updates
    PROVE  \/ u.kind \in {"created", "updated", "deleted"} /\ u.of \in Items /\ u.of \notin Flags
           \/ u.kind = "refreshed" /\ u.of \in Flags /\ u.of \notin Items
  BY LogAssumption DEF Updates, Kinds, Flags

\* An operation logs one update, with its change of the store, or sets the limit.
LEMMA LogStep ==
    ASSUME LogInv, LogNext
    PROVE  \/ \E u \in Updates : Logged(u)
           \/ UNCHANGED <<store, primaries, updates, updateIDs>> /\ maxUpdatesPerEvent' \in Limits
<1> USE DEF Absent, Gone, Exists, NewUpdate, Logged
<1>1. store \in [Items -> Int] /\ primaries \subseteq AddressItems
  BY DEF LogInv
<1>2. ASSUME NEW i \in Items, NEW kind \in Kinds, NewUpdate(kind, i), primaries' \subseteq AddressItems,
             store' \in [Items -> Int], \A j \in Items : store'[j] # store[j] => j = i,
             kind = "deleted" => store[i] > 0 /\ store'[i] = Gone,
             kind # "deleted" => store'[i] = store[i] \/ (store[i] >= 0 /\ store'[i] > 0)
      PROVE  \E u \in Updates : Logged(u)
  <2> DEFINE u == [kind |-> kind, of |-> i]
  <2>1. u \in Updates /\ i # "all"
    BY LogAssumption DEF Updates
  <2>2. Logged(u)
    BY <1>2, <2>1
  <2>3. QED
    BY <2>1, <2>2
<1> HIDE DEF NewUpdate, Logged
<1>6. ASSUME NEW i \in Items, store' = [store EXCEPT ![i] = @ + 1] \/ store' = [store EXCEPT ![i] = 1], store[i] >= 0
      PROVE  /\ store' \in [Items -> Int] /\ \A j \in Items : store'[j] # store[j] => j = i
             /\ store'[i] > 0
  BY <1>1, <1>6
<1>7. ASSUME NEW i \in Items,
             \/ CreateItem(i) \/ CreateAddress(i) \/ UpdateItem(i) \/ SetAddressOrder(i) \/ DeleteItem(i)
             \/ \E kind \in {"created", "updated"} : AddUpdate(kind, i)
      PROVE  \E u \in Updates : Logged(u)
  <2> USE DEF Kinds
  <2>1. CASE CreateItem(i)
    BY <1>1, <1>2, <1>6, <2>1 DEF CreateItem, FreshID
  <2>2. CASE CreateAddress(i)
    <3>1. PICK kind \in {"created", "updated"} : NewUpdate(kind, i)
      BY <2>2 DEF CreateAddress
    <3>2. store[i] = 0 /\ store' = [store EXCEPT ![i] = 1] /\ primaries' \subseteq AddressItems
      BY <1>1, <2>2 DEF CreateAddress, FreshID
    <3>3. kind \in Kinds /\ kind # "deleted"
      BY <3>1
    <3>4. store[i] >= 0
      BY <3>2
    <3>5. /\ store' \in [Items -> Int] /\ \A j \in Items : store'[j] # store[j] => j = i
          /\ store'[i] > 0
      BY Zenon, <1>6, <3>2, <3>4
    <3>6. QED
      BY Zenon, <1>2, <3>1, <3>2, <3>3, <3>4, <3>5
  <2>3. CASE UpdateItem(i)
    BY <1>1, <1>2, <1>6, <2>3 DEF UpdateItem
  <2>4. CASE SetAddressOrder(i)
    <3>1. primaries' \subseteq AddressItems
      BY <1>1, <2>4 DEF SetAddressOrder
    <3>2. QED
      BY <1>1, <1>2, <1>6, <2>4, <3>1 DEF SetAddressOrder
  <2>5. CASE DeleteItem(i)
    BY <1>1, <1>2, <2>5 DEF DeleteItem
  <2>6. CASE \E kind \in {"created", "updated"} : AddUpdate(kind, i)
    <3>1. PICK kind \in {"created", "updated"} : NewUpdate(kind, i) /\ UNCHANGED <<store, primaries>>
      BY <2>6 DEF AddUpdate
    <3>2. kind \in Kinds /\ kind # "deleted"
      BY <3>1
    <3>3. /\ store' \in [Items -> Int] /\ primaries' \subseteq AddressItems /\ store'[i] = store[i]
          /\ \A j \in Items : store'[j] # store[j] => j = i
      BY <1>1, <3>1
    <3>4. NewUpdate(kind, i)
      BY <3>1
    <3>5. QED
      BY <1>2, <3>2, <3>3, <3>4
  <2>7. QED
    BY <1>7, <2>1, <2>2, <2>3, <2>4, <2>5, <2>6
<1> USE DEF NewUpdate, Logged
<1>3. ASSUME NEW flag \in Flags, RefreshUser(flag)
      PROVE  \E u \in Updates : Logged(u)
  <2> DEFINE u == [kind |-> "refreshed", of |-> flag]
  <2>1. u \in Updates
    BY DEF Updates
  <2>2. Logged(u)
    BY <1>1, <1>3 DEF RefreshUser
  <2>3. QED
    BY <2>1, <2>2
<1>4. ASSUME NEW max \in Limits, SetMaxUpdatesPerEvent(max)
      PROVE  UNCHANGED <<store, primaries, updates, updateIDs>> /\ maxUpdatesPerEvent' \in Limits
  BY <1>4 DEF SetMaxUpdatesPerEvent
<1> HIDE DEF NewUpdate, Logged
<1>5. QED
  BY <1>3, <1>4, <1>7 DEF LogNext

LEMMA LogInvInit == LogInit => LogInv
<1> SUFFICES ASSUME LogInit PROVE LogInv
  OBVIOUS
<1> USE LogAssumption DEF LogInit, Absent, Gone
<1> DEFINE u == [kind |-> "created", of |-> First]
<1>1. u \in Updates /\ u.of # "all" /\ u.kind = "created"
  BY DEF Updates, Kinds
<1>2. updates = <<u>> /\ Len(updates) = 1 /\ DOMAIN updates = {1} /\ updates[1] = u /\ 1 .. Len(updates) = {1}
  OBVIOUS
<1>3. Len(updateIDs) = 1 /\ updateIDs[1] = 1 /\ updateIDs \in Seq({1})
  OBVIOUS
<1>4. LogStart = 1
  BY <1>2, <1>3 DEF LogStart
<1>5. LogIsSuffix
  BY <1>1, <1>2, <1>3, <1>4 DEF LogIsSuffix
<1>6. StartsAtRefresh
  BY <1>1, <1>2, <1>4 DEF StartsAtRefresh
<1>7. store[First] = 1 /\ (\A i \in Items : store[i] \in {0, 1}) /\ primaries \subseteq AddressItems
  OBVIOUS
<1>8. LifeIsLogged
  BY <1>1, <1>2, <1>7 DEF LifeIsLogged
<1>9. QED
  BY <1>5, <1>6, <1>7, <1>8 DEF LogInv

\* What follows from the log for the lengths and the places in it.
LEMMA LogShape ==
    ASSUME LogInv
    PROVE  /\ Len(updates) \in Nat /\ Len(updates) > 0 /\ DOMAIN updates = 1 .. Len(updates)
           /\ Len(updateIDs) \in Nat /\ Len(updateIDs) > 0 /\ DOMAIN updateIDs = 1 .. Len(updateIDs)
           /\ LogStart \in 1 .. Len(updates)
           /\ Last(updateIDs) = Len(updates)
           /\ \A n \in 1 .. Len(updates) : updates[n] \in Updates
<1>1. Len(updates) \in Nat /\ DOMAIN updates = 1 .. Len(updates)
  BY LenProperties DEF LogInv, LogIsSuffix
<1>2. Len(updateIDs) \in Nat /\ DOMAIN updateIDs = 1 .. Len(updateIDs)
  BY LenProperties DEF LogInv, LogIsSuffix
<1>3. Len(updateIDs) \in 1 .. Len(updates)
  BY DEF LogInv, LogIsSuffix
<1>4. LogStart \in 1 .. Len(updates)
  BY <1>1, <1>2, <1>3 DEF LogStart
<1>5. updateIDs[Len(updateIDs)] = LogStart + Len(updateIDs) - 1
  BY <1>2, <1>3 DEF LogInv, LogIsSuffix
<1>6. Last(updateIDs) = Len(updates)
  BY <1>1, <1>2, <1>5 DEF Last, LogStart
<1>7. \A n \in 1 .. Len(updates) : updates[n] \in Updates
  BY ElementOfSeq DEF LogInv, LogIsSuffix
<1>8. QED
  BY <1>1, <1>2, <1>3, <1>4, <1>6, <1>7

\* The updates after one more was logged.
LEMMA LoggedUpdates ==
    ASSUME LogInv, NEW u \in Updates, Logged(u)
    PROVE  /\ updates' \in Seq(Updates) /\ Len(updates') = Len(updates) + 1
           /\ updates'[Len(updates) + 1] = u
           /\ \A n \in 1 .. Len(updates) : updates'[n] = updates[n]
  BY AppendProperties DEF LogInv, LogIsSuffix, Logged

LEMMA LoggedKeeps == ASSUME LogInv, NEW u \in Updates, Logged(u) PROVE LogInv'
<1> USE DEF Absent, Gone
<1> DEFINE n == Len(updates)
           k == Len(updateIDs)
<1>1. /\ n \in Nat /\ n > 0 /\ DOMAIN updates = 1 .. n
      /\ k \in Nat /\ k > 0 /\ k <= n /\ LogStart \in 1 .. n
      /\ LogStart = n - k + 1 /\ updateIDs \in Seq(1 .. n)
      /\ \A j \in 1 .. k : updateIDs[j] = LogStart + j - 1
  BY LogShape DEF LogStart, LogInv, LogIsSuffix
<1>2. /\ updates' \in Seq(Updates) /\ Len(updates') = n + 1 /\ updates'[n + 1] = u
      /\ \A j \in 1 .. n : updates'[j] = updates[j]
  BY LoggedUpdates
<1>3. DOMAIN updates' = 1 .. n + 1
  BY <1>2, LenProperties
<1>4. updateIDs' = IF u.of = "all" THEN <<n + 1>> ELSE Append(updateIDs, n + 1)
  BY DEF Logged
<1>5. /\ LogStart > 1 => updates[LogStart].of = "all"
      /\ \A j \in 1 .. n : updates[j].of = "all" => j <= LogStart
  BY DEF LogInv, StartsAtRefresh
<1> HIDE DEF n, k
<1>6. LogIsSuffix' /\ StartsAtRefresh'
  <2>1. CASE u.of = "all"
    <3>1. updateIDs' = <<n + 1>>
      BY <1>4, <2>1
    <3>2. updateIDs' \in Seq(1 .. n + 1) /\ Len(updateIDs') = 1 /\ updateIDs'[1] = n + 1
      BY <1>1, <3>1
    <3>3. LogStart' = n + 1
      BY <1>1, <1>2, <3>2 DEF LogStart
    <3>4. LogIsSuffix'
      BY <1>1, <1>2, <1>3, <3>2, <3>3 DEF LogIsSuffix
    <3>5. StartsAtRefresh'
      BY <1>1, <1>2, <2>1, <3>3 DEF StartsAtRefresh
    <3>6. QED
      BY <3>4, <3>5
  <2>2. CASE u.of # "all"
    <3>1. updateIDs' = Append(updateIDs, n + 1) /\ updateIDs \in Seq(1 .. n + 1) /\ n + 1 \in 1 .. n + 1
      <4>1. 1 .. n \subseteq 1 .. n + 1
        BY <1>1
      <4>2. updateIDs \in Seq(1 .. n + 1)
        BY <1>1, <4>1, SeqMonotonic
      <4>3. QED
        BY <1>1, <1>4, <2>2, <4>2
    <3>2. /\ updateIDs' \in Seq(1 .. n + 1) /\ Len(updateIDs') = k + 1
          /\ updateIDs'[k + 1] = n + 1 /\ \A j \in 1 .. k : updateIDs'[j] = updateIDs[j]
      BY <3>1, AppendProperties DEF k
    <3>3. LogStart' = LogStart
      BY <1>1, <1>2, <3>2 DEF LogStart
    <3>4. \A j \in 1 .. k + 1 : updateIDs'[j] = LogStart + j - 1
      BY <1>1, <3>2
    <3>5. LogIsSuffix'
      BY <1>1, <1>2, <1>3, <3>2, <3>3, <3>4 DEF LogIsSuffix
    <3>6. StartsAtRefresh'
      BY <1>1, <1>2, <1>5, <2>2, <3>3 DEF StartsAtRefresh
    <3>7. QED
      BY <3>5, <3>6
  <2>3. QED
    BY <2>1, <2>2
<1>7. /\ store \in [Items -> Int] /\ \A i \in Items : store[i] >= Gone
      /\ store' \in [Items -> Int] /\ \A i \in Items : store'[i] # store[i] => i = u.of
      /\ u.kind = "deleted" => store[u.of] > 0 /\ store'[u.of] = Gone
      /\ u.kind \in {"created", "updated"} =>
            store'[u.of] = store[u.of] \/ (store[u.of] >= 0 /\ store'[u.of] > 0)
      /\ primaries' \subseteq AddressItems
  BY DEF LogInv, Logged
<1>8. \A i \in Items : store'[i] >= Gone
  BY <1>7, UpdateKinds
<1>9. /\ \A j \in 1 .. n :
            /\ updates[j] \in Updates
            /\ updates[j].kind = "deleted" =>
                  /\ store[updates[j].of] = Gone
                  /\ \A m \in j + 1 .. n : updates[m].of = updates[j].of => updates[m].kind # "deleted"
      /\ \A i \in Items : store[i] = Gone =>
            \E j \in 1 .. n : updates[j].kind = "deleted" /\ updates[j].of = i
  BY LogShape DEF n, LogInv, LifeIsLogged
<1>10. ASSUME NEW j \in 1 .. n + 1, updates'[j].kind = "deleted"
       PROVE  /\ store'[updates'[j].of] = Gone
              /\ \A m \in j + 1 .. n + 1 : updates'[m].of = updates'[j].of => updates'[m].kind # "deleted"
  <2>1. CASE j = n + 1
    BY <1>1, <1>2, <1>7, <1>10, <2>1, UpdateKinds
  <2>2. CASE j \in 1 .. n
    <3>1. updates'[j] = updates[j]
      BY <1>2, <2>2
    <3>2. updates[j].of \in Items /\ store[updates[j].of] = Gone
      BY <1>9, <1>10, <2>2, <3>1, UpdateKinds
    <3>3. u.of = updates[j].of => u.kind # "deleted" /\ store'[u.of] = Gone
      BY <1>7, <3>2, UpdateKinds
    <3>4. store'[updates[j].of] = Gone
      BY <1>7, <3>2, <3>3
    <3>5. ASSUME NEW m \in j + 1 .. n + 1, updates'[m].of = updates[j].of
          PROVE  updates'[m].kind # "deleted"
      <4>1. CASE m = n + 1
        BY <1>2, <3>3, <3>5, <4>1
      <4>2. CASE m \in j + 1 .. n
        <5>1. m \in 1 .. n
          BY <2>2, <4>2
        <5>2. QED
          BY <1>2, <1>9, <1>10, <2>2, <3>1, <3>5, <4>2, <5>1
      <4>3. m = n + 1 \/ m \in j + 1 .. n
        BY <1>1, <2>2, <3>5
      <4>4. QED
        BY <4>1, <4>2, <4>3
    <3>6. QED
      BY <3>1, <3>4, <3>5
  <2>3. QED
    BY <1>1, <2>1, <2>2
<1>11. ASSUME NEW i \in Items, store'[i] = Gone
       PROVE  \E j \in 1 .. n + 1 : updates'[j].kind = "deleted" /\ updates'[j].of = i
  <2>1. CASE store[i] # Gone
    <3>1. i = u.of /\ u.kind = "deleted"
      BY <1>7, <1>11, <2>1, UpdateKinds
    <3>2. n + 1 \in 1 .. n + 1
      BY <1>1
    <3>3. QED
      BY <1>2, <3>1, <3>2
  <2>2. CASE store[i] = Gone
    <3>1. PICK j \in 1 .. n : updates[j].kind = "deleted" /\ updates[j].of = i
      BY <1>9, <2>2
    <3>2. j \in 1 .. n + 1 /\ updates'[j] = updates[j]
      BY <1>1, <1>2
    <3>3. QED
      BY <3>1, <3>2
  <2>3. QED
    BY <2>1, <2>2
<1>12. LifeIsLogged'
  BY <1>2, <1>10, <1>11 DEF LifeIsLogged
<1>13. maxUpdatesPerEvent' \in Limits \cup {0}
  BY DEF LogInv, Logged
<1>14. QED
  BY <1>6, <1>7, <1>8, <1>12, <1>13 DEF LogInv

\* The operations of the server keep the log in step with the store.
LEMMA LogInvStep == LogInv /\ [LogNext]_logVars => LogInv'
<1>1. ASSUME LogInv, UNCHANGED <<store, primaries, updates, updateIDs>>, maxUpdatesPerEvent' \in Limits \cup {0}
      PROVE  LogInv'
  BY <1>1 DEF LogInv, LogIsSuffix, StartsAtRefresh, LifeIsLogged, LogStart
<1>2. ASSUME LogInv, UNCHANGED logVars PROVE LogInv'
  BY <1>1, <1>2 DEF logVars, LogInv
<1>3. ASSUME LogInv, LogNext PROVE LogInv'
  BY <1>1, <1>3, LogStep, LoggedKeeps
<1>4. QED
  BY <1>2, <1>3

------------------------------------------------------------------------------
(* What GetEvent returns. *)

\* The window that is merged for id: from the update after it or, if the log
\* does not have it any more, from the start of the log.
WindowStart(id) == IF id >= LogStart THEN id + 1 ELSE LogStart

WindowEnd(id) == LogStart + LastUpdate(id) - 1

\* Where a place is in the log, and where its window ends.
LEMMA WindowBounds ==
    ASSUME LogInv, NEW id \in DOMAIN updates
    PROVE  /\ FirstUpdate(id) \in 0 .. Len(updateIDs)
           /\ LastUpdate(id) \in 1 .. Len(updateIDs)
           /\ FirstUpdate(id) <= LastUpdate(id)
           /\ FirstUpdate(id) < Len(updateIDs) => FirstUpdate(id) < LastUpdate(id)
           /\ WindowStart(id) = LogStart + FirstUpdate(id)
           /\ updateIDs[LastUpdate(id)] = WindowEnd(id)
           /\ maxUpdatesPerEvent <= 0 => LastUpdate(id) = Len(updateIDs)
<1> DEFINE k == Len(updateIDs)
           n == Len(updates)
<1>1. /\ n \in Nat /\ k \in Nat /\ k > 0 /\ k <= n /\ LogStart = n - k + 1
      /\ DOMAIN updateIDs = 1 .. k /\ id \in 1 .. n
      /\ \A j \in 1 .. k : updateIDs[j] = LogStart + j - 1
  BY LogShape DEF LogStart, LogInv, LogIsSuffix
<1>2. maxUpdatesPerEvent \in Int
  BY LogAssumption DEF LogInv
<1>7. LastUpdate(id) = IF maxUpdatesPerEvent <= 0 \/ FirstUpdate(id) + maxUpdatesPerEvent > k
                       THEN k ELSE FirstUpdate(id) + maxUpdatesPerEvent
  BY DEF LastUpdate
<1> HIDE DEF k, n
<1>3. id \in ToSet(updateIDs) <=> id >= LogStart
  <2>1. ASSUME id >= LogStart PROVE id \in ToSet(updateIDs)
    <3>1. id - LogStart + 1 \in 1 .. k
      BY <1>1, <2>1
    <3>2. updateIDs[id - LogStart + 1] = id
      BY <1>1, <3>1
    <3>3. QED
      BY <1>1, <3>1, <3>2 DEF ToSet
  <2>2. ASSUME id \in ToSet(updateIDs) PROVE id >= LogStart
    BY <1>1, <2>2 DEF ToSet
  <2>3. QED
    BY <2>1, <2>2
<1>4. CASE id >= LogStart
  <2>1. \E j \in 1 .. k : updateIDs[j] = id
    BY <1>1, <1>3, <1>4 DEF ToSet
  <2>2. FirstUpdate(id) \in 1 .. k /\ updateIDs[FirstUpdate(id)] = id
    BY <1>1, <1>3, <1>4, <2>1 DEF FirstUpdate
  <2>3. FirstUpdate(id) = id - LogStart + 1
    BY <1>1, <2>2
  <2>4. WindowStart(id) = LogStart + FirstUpdate(id)
    BY <1>1, <1>4, <2>3 DEF WindowStart
  <2>5. /\ LastUpdate(id) \in 1 .. k /\ FirstUpdate(id) <= LastUpdate(id)
        /\ FirstUpdate(id) < k => FirstUpdate(id) < LastUpdate(id)
        /\ maxUpdatesPerEvent <= 0 => LastUpdate(id) = k
    BY <1>1, <1>2, <1>7, <2>2
  <2>6. updateIDs[LastUpdate(id)] = WindowEnd(id) /\ FirstUpdate(id) \in 0 .. k
    BY SMTT(30), <1>1, <2>2, <2>5 DEF WindowEnd
  <2>7. QED
    BY <2>4, <2>5, <2>6 DEF k
<1>5. CASE ~(id >= LogStart)
  <2>1. FirstUpdate(id) = 0
    BY <1>3, <1>5 DEF FirstUpdate
  <2>2. WindowStart(id) = LogStart + FirstUpdate(id)
    BY <1>1, <1>5, <2>1 DEF WindowStart
  <2>3. /\ LastUpdate(id) \in 1 .. k /\ FirstUpdate(id) <= LastUpdate(id)
        /\ FirstUpdate(id) < k => FirstUpdate(id) < LastUpdate(id)
        /\ maxUpdatesPerEvent <= 0 => LastUpdate(id) = k
    BY <1>1, <1>2, <1>7, <2>1
  <2>4. updateIDs[LastUpdate(id)] = WindowEnd(id) /\ FirstUpdate(id) \in 0 .. k
    BY <1>1, <2>1, <2>3 DEF WindowEnd
  <2>5. QED
    BY <2>2, <2>3, <2>4 DEF k
<1>6. QED
  BY <1>4, <1>5

\* The IDs of a window follow one another.
LEMMA WindowIsInterval ==
    ASSUME LogInv, NEW id \in DOMAIN updates
    PROVE  /\ WindowStart(id) \in 1 .. Len(updates) + 1
           /\ WindowStart(id) >= LogStart
           /\ WindowEnd(id) \in LogStart .. Len(updates)
           /\ id <= WindowEnd(id)
           /\ WindowStart(id) <= WindowEnd(id) + 1
           /\ id < Len(updates) => WindowStart(id) <= WindowEnd(id)
           /\ More(id) <=> WindowEnd(id) < Len(updates)
           /\ DOMAIN Window(id) = 1 .. WindowEnd(id) - WindowStart(id) + 1
           /\ \A k \in DOMAIN Window(id) : Window(id)[k] = WindowStart(id) + k - 1
<1> DEFINE a == FirstUpdate(id)
           b == LastUpdate(id)
           k == Len(updateIDs)
           n == Len(updates)
<1>1. /\ n \in Nat /\ k \in Nat /\ k > 0 /\ k <= n /\ LogStart = n - k + 1
      /\ id \in 1 .. n /\ \A j \in 1 .. k : updateIDs[j] = LogStart + j - 1
      /\ updateIDs \in Seq(1 .. n)
  BY LogShape DEF LogStart, LogInv, LogIsSuffix
<1>2. /\ a \in 0 .. k /\ b \in 1 .. k /\ a <= b /\ (a < k => a < b)
      /\ WindowStart(id) = LogStart + a /\ WindowEnd(id) = LogStart + b - 1
  BY WindowBounds DEF WindowEnd
<1>3. /\ DOMAIN Window(id) = 1 .. b - a
      /\ \A j \in 1 .. b - a : Window(id)[j] = updateIDs[a + j]
  <2> HIDE DEF a, b, k, n
  <2>1. \A j \in a + 1 .. b : updateIDs[j] \in 1 .. n
    <3>1. \A j \in a + 1 .. b : j \in 1 .. k
      BY <1>1, <1>2
    <3>2. QED
      BY <1>1, <3>1, ElementOfSeq DEF k
  <2>2. a + 1 \in Int /\ b \in Int /\ b - (a + 1) + 1 = b - a
    BY <1>1, <1>2
  <2>3. /\ SubSeq(updateIDs, a + 1, b) \in Seq(1 .. n)
        /\ Len(SubSeq(updateIDs, a + 1, b)) = IF a + 1 <= b THEN b - (a + 1) + 1 ELSE 0
        /\ \A j \in 1 .. b - (a + 1) + 1 : SubSeq(updateIDs, a + 1, b)[j] = updateIDs[(a + 1) + j - 1]
    BY <2>1, <2>2, SubSeqProperties
  <2>4. Len(SubSeq(updateIDs, a + 1, b)) = b - a
    BY <1>1, <1>2, <2>2, <2>3
  <2>5. DOMAIN SubSeq(updateIDs, a + 1, b) = 1 .. b - a
    BY <2>3, <2>4, LenProperties
  <2>6. \A j \in 1 .. b - a : SubSeq(updateIDs, a + 1, b)[j] = updateIDs[a + j]
    <3>1. \A j \in 1 .. b - a : (a + 1) + j - 1 = a + j
      BY <1>1, <1>2
    <3>2. QED
      BY <2>2, <2>3, <3>1
  <2>7. QED
    BY <2>5, <2>6 DEF Window, a, b
<1> HIDE DEF a, b, k, n
<1>4. \A j \in 1 .. b - a : a + j \in 1 .. k /\ updateIDs[a + j] = WindowStart(id) + j - 1
  BY <1>1, <1>2
<1>5. b - a = WindowEnd(id) - WindowStart(id) + 1
  BY <1>1, <1>2
<1>6. More(id) <=> b # k
  BY DEF More, b, k
<1>7. id <= WindowEnd(id) /\ (id < n => WindowStart(id) <= WindowEnd(id))
  BY <1>1, <1>2 DEF WindowStart
<1>8. /\ WindowStart(id) \in 1 .. n + 1 /\ WindowStart(id) >= LogStart
      /\ WindowEnd(id) \in LogStart .. n /\ WindowStart(id) <= WindowEnd(id) + 1
      /\ b # k <=> WindowEnd(id) < n
  BY <1>1, <1>2
<1>9. QED
  BY <1>3, <1>4, <1>5, <1>6, <1>7, <1>8 DEF n

LEMMA WindowSet ==
    ASSUME LogInv, NEW id \in DOMAIN updates
    PROVE  ToSet(Window(id)) = WindowStart(id) .. WindowEnd(id)
<1> DEFINE lo == WindowStart(id)
           hi == WindowEnd(id)
<1>1. lo \in 1 .. Len(updates) + 1 /\ hi \in 1 .. Len(updates) /\ Len(updates) \in Nat
  BY LogShape, WindowIsInterval
<1>2. /\ DOMAIN Window(id) = 1 .. hi - lo + 1
      /\ \A k \in DOMAIN Window(id) : Window(id)[k] = lo + k - 1
  BY WindowIsInterval
<1> HIDE DEF lo, hi
<1>3. \A k \in 1 .. hi - lo + 1 : lo + k - 1 \in lo .. hi
  BY <1>1
<1>4. \A n \in lo .. hi : n - lo + 1 \in 1 .. hi - lo + 1 /\ lo + (n - lo + 1) - 1 = n
  BY <1>1
<1>5. ToSet(Window(id)) \subseteq lo .. hi
  BY <1>2, <1>3 DEF ToSet
<1>6. lo .. hi \subseteq ToSet(Window(id))
  BY <1>2, <1>4 DEF ToSet
<1>7. QED
  BY <1>5, <1>6 DEF lo, hi

\* What is merged are the updates of the window.
LEMMA MergedWindow ==
    ASSUME LogInv, NEW id \in DOMAIN updates
    PROVE  LET us == [k \in DOMAIN Window(id) |-> updates[Window(id)[k]]]
           IN  /\ us \in Seq(Updates) /\ Merged(id) = Merge(us)
               /\ Len(us) = WindowEnd(id) - WindowStart(id) + 1
               /\ \A k \in 1 .. Len(us) : us[k] = updates[WindowStart(id) + k - 1]
               /\ \A n \in WindowStart(id) .. WindowEnd(id) :
                     n - WindowStart(id) + 1 \in 1 .. Len(us) /\ us[n - WindowStart(id) + 1] = updates[n]
               /\ ToSet(us) = {updates[n] : n \in WindowStart(id) .. WindowEnd(id)}
<1> DEFINE us == [k \in DOMAIN Window(id) |-> updates[Window(id)[k]]]
           lo == WindowStart(id)
           hi == WindowEnd(id)
           l == hi - lo + 1
<1>1. /\ lo \in 1 .. Len(updates) + 1 /\ hi \in 1 .. Len(updates) /\ lo <= hi + 1
      /\ Len(updates) \in Nat /\ \A n \in 1 .. Len(updates) : updates[n] \in Updates
  BY LogShape, WindowIsInterval
<1>2. DOMAIN Window(id) = 1 .. l /\ \A k \in 1 .. l : Window(id)[k] = lo + k - 1
  BY WindowIsInterval
<1>3. l \in Nat /\ \A k \in 1 .. l : lo + k - 1 \in lo .. hi /\ lo + k - 1 \in 1 .. Len(updates)
  BY <1>1
<1>4. us = [k \in 1 .. l |-> updates[lo + k - 1]]
  BY <1>2
<1>5. us \in [1 .. l -> Updates]
  BY <1>1, <1>3, <1>4
<1>6. us \in Seq(Updates) /\ Len(us) = l
  BY <1>3, <1>5
<1>7. \A k \in 1 .. l : us[k] = updates[lo + k - 1]
  BY <1>4
<1>8. \A n \in lo .. hi : n - lo + 1 \in 1 .. l /\ us[n - lo + 1] = updates[n]
  <2> SUFFICES ASSUME NEW n \in lo .. hi
               PROVE  n - lo + 1 \in 1 .. l /\ us[n - lo + 1] = updates[n]
    OBVIOUS
  <2>1. n - lo + 1 \in 1 .. l /\ lo + (n - lo + 1) - 1 = n
    BY <1>1
  <2>2. QED
    BY <1>7, <2>1
<1>9. DOMAIN us = 1 .. l
  BY <1>4
<1>10. Merged(id) = Merge(us)
  BY DEF Merged
<1> HIDE DEF us, lo, hi, l
<1>11. ToSet(us) = {updates[n] : n \in lo .. hi}
  <2>1. ToSet(us) \subseteq {updates[n] : n \in lo .. hi}
    BY <1>3, <1>7, <1>9 DEF ToSet
  <2>2. {updates[n] : n \in lo .. hi} \subseteq ToSet(us)
    BY <1>8, <1>9 DEF ToSet
  <2>3. QED
    BY <2>1, <2>2
<1>12. QED
  BY <1>6, <1>7, <1>8, <1>10, <1>11 DEF us, lo, hi, l

\* A finite, non-empty set of positions has a greatest one.
LEMMA GreatestPosition ==
    ASSUME NEW n \in Nat, NEW s \in SUBSET (1 .. n), s # {}
    PROVE  Max(s) \in s /\ \A y \in s : y <= Max(s)
<1> DEFINE X == {k \in 1 .. n + 1 : \A y \in s : y < k}
<1>1. \A y \in s : y < n + 1 /\ y \in Nat
  OBVIOUS
<1>2. n + 1 \in X
  BY <1>1
<1>3. X \subseteq Nat /\ X # {}
  BY <1>2
<1> HIDE DEF X
<1>4. Min(X) \in X /\ \A y \in X : Min(X) <= y
  BY <1>3, LeastPosition
<1> DEFINE m == Min(X) - 1
<1>5. Min(X) \in 1 .. n + 1 /\ \A y \in s : y < Min(X)
  BY <1>4 DEF X
<1>6. \A y \in s : y <= m
  BY <1>1, <1>5
<1>7. m \in s
  <2>1. SUFFICES ASSUME m \notin s PROVE FALSE
    OBVIOUS
  <2>2. \A y \in s : y < m
    BY <1>1, <1>5, <1>6, <2>1
  <2>3. m \in 1 .. n + 1
    <3>1. PICK y \in s : TRUE
      OBVIOUS
    <3>2. y \in 1 .. n /\ y < m
      BY <2>2
    <3>3. QED
      BY <1>5, <3>2
  <2>4. m \in X
    BY <2>2, <2>3 DEF X
  <2>5. Min(X) <= m
    BY <1>4, <2>4
  <2>6. QED
    BY <1>5, <2>5
<1>8. \A x \in s : (\A y \in s : x >= y) => \A y \in s : y <= x
  BY <1>1
<1>9. \A y \in s : m >= y
  BY <1>1, <1>5, <1>6
<1> HIDE DEF m
<1>10. \E x \in s : \A y \in s : x >= y
  BY <1>7, <1>9
<1>11. Max(s) \in s /\ \A y \in s : Max(s) >= y
  BY <1>10 DEF Max
<1>12. QED
  BY <1>8, <1>11

\* An event that GetEvent can build goes to the end of its window.  It has a
\* refresh flag if a refresh is in the window, one of those in the window.  It
\* names every item an update of the window is about, with what the item is now.
LEMMA EventSaysAll ==
    ASSUME LogInv, NEW id \in DOMAIN updates, ~Panics(id)
    PROVE  LET e == Event(id)
               lo == WindowStart(id)
               hi == WindowEnd(id)
           IN  /\ e.id = hi /\ e.window = lo .. hi
               /\ e.refresh \in Flags \cup {"none"} /\ e.items \in [Items -> Int]
               /\ e.refresh = "none" => \A n \in lo .. hi : updates[n].kind # "refreshed"
               /\ e.refresh # "none" => \E n \in lo .. hi : updates[n].of = e.refresh
               /\ \A i \in Items :
                     /\ e.items[i] # NoEntry =>
                           e.items[i] = IF Exists(i) THEN store[i] ELSE Absent
                     /\ e.items[i] = NoEntry => \A n \in lo .. hi : updates[n].of # i
<1> DEFINE lo == WindowStart(id)
           hi == WindowEnd(id)
           m == Merged(id)
           flags == {k \in DOMAIN m : m[k].kind = "refreshed"}
           entries(i) == {k \in DOMAIN m : m[k].of = i}
           refresh == IF flags = {} THEN "none" ELSE m[Max(flags)].of
           items == [i \in Items |->
                       IF entries(i) = {} THEN NoEntry
                       ELSE IF m[Max(entries(i))].kind = "deleted" THEN Absent ELSE store[i]]
<1>1. /\ m \in Seq(Updates)
      /\ ToSet(m) \subseteq {updates[n] : n \in lo .. hi}
      /\ \A n \in lo .. hi : Represented(updates[n], ToSet(m))
  <2> DEFINE us == [k \in DOMAIN Window(id) |-> updates[Window(id)[k]]]
  <2>1. us \in Seq(Updates) /\ m = Merge(us) /\ ToSet(us) = {updates[n] : n \in lo .. hi}
    BY MergedWindow
  <2> HIDE DEF us, m
  <2>2. /\ Merge(us) \in Seq(Updates) /\ ToSet(Merge(us)) \subseteq ToSet(us)
        /\ \A u \in ToSet(us) : Represented(u, ToSet(Merge(us)))
    BY <2>1, MergeKeeps
  <2>3. QED
    BY <2>1, <2>2
<1>2. lo \in 1 .. Len(updates) + 1 /\ hi \in 1 .. Len(updates) /\ lo >= LogStart
      /\ Len(updates) \in Nat /\ LogStart \in 1 .. Len(updates)
  BY LogShape, WindowIsInterval
<1>3. /\ \A n \in lo .. hi : n \in 1 .. Len(updates) /\ updates[n] \in Updates
      /\ ToSet(m) \subseteq Updates
  <2>1. \A n \in lo .. hi : n \in 1 .. Len(updates)
    BY <1>2
  <2>2. \A n \in lo .. hi : updates[n] \in Updates
    BY <2>1, LogShape
  <2>3. QED
    BY <1>1, <2>1, <2>2
<1>4. /\ Event(id).id = updateIDs[LastUpdate(id)] /\ Event(id).window = ToSet(Window(id))
      /\ Event(id).refresh = refresh /\ Event(id).items = items
  BY DEF Event
<1>5. \A u \in ToSet(m) : u.kind \in {"created", "updated"} => Exists(u.of)
  BY DEF Panics
<1>6. Len(m) \in Nat /\ DOMAIN m = 1 .. Len(m) /\ \A k \in DOMAIN m : m[k] \in ToSet(m)
  <2> HIDE DEF m
  <2>1. Len(m) \in Nat /\ DOMAIN m = 1 .. Len(m)
    BY <1>1, LenProperties
  <2>2. QED
    BY <2>1 DEF ToSet
<1>7. updateIDs[LastUpdate(id)] = hi
  BY WindowBounds
<1>8. ToSet(Window(id)) = lo .. hi
  BY WindowSet
<1> HIDE DEF m, lo, hi
<1>9. /\ refresh \in Flags \cup {"none"}
      /\ refresh = "none" => \A n \in lo .. hi : updates[n].kind # "refreshed"
      /\ refresh # "none" => \E n \in lo .. hi : updates[n].of = refresh
  <2>1. "none" \notin Flags
    BY DEF Flags
  <2>2. CASE flags = {}
    <3>1. \A n \in lo .. hi : updates[n].kind # "refreshed"
      <4> SUFFICES ASSUME NEW n \in lo .. hi, updates[n].kind = "refreshed" PROVE FALSE
        OBVIOUS
      <4>1. updates[n] \in ToSet(m)
        BY <1>1 DEF Represented
      <4>2. PICK k \in DOMAIN m : m[k] = updates[n]
        BY <4>1 DEF ToSet
      <4>3. QED
        BY <2>2, <4>2
    <3>2. refresh = "none"
      BY <2>2
    <3>3. QED
      BY <3>1, <3>2
  <2>3. CASE flags # {}
    <3>1. flags \in SUBSET (1 .. Len(m))
      BY <1>6
    <3> HIDE DEF flags
    <3>2. Max(flags) \in flags
      BY <1>6, <2>3, <3>1, GreatestPosition
    <3>3. Max(flags) \in DOMAIN m /\ m[Max(flags)].kind = "refreshed"
      BY <3>2 DEF flags
    <3>4. m[Max(flags)] \in ToSet(m)
      BY <1>6, <3>3
    <3>5. m[Max(flags)].of \in Flags
      BY <1>3, <3>3, <3>4, UpdateKinds
    <3>6. \E n \in lo .. hi : updates[n] = m[Max(flags)]
      BY <1>1, <3>4
    <3>7. refresh = m[Max(flags)].of
      BY <2>3
    <3>8. QED
      BY <2>1, <3>5, <3>6, <3>7
  <2>4. QED
    BY <2>2, <2>3
<1>10. ASSUME NEW i \in Items
       PROVE  /\ items[i] \in Int
              /\ items[i] # NoEntry => items[i] = IF Exists(i) THEN store[i] ELSE Absent
              /\ items[i] = NoEntry => \A n \in lo .. hi : updates[n].of # i
  <2>1. store[i] \in Int /\ store[i] >= Gone /\ i \notin Flags
    BY LogAssumption DEF LogInv, Flags
  <2>2. CASE entries(i) = {}
    <3>1. items[i] = NoEntry
      BY <2>2
    <3>2. ASSUME NEW n \in lo .. hi, updates[n].of = i PROVE FALSE
      <4>1. updates[n].kind # "refreshed"
        BY <1>3, <2>1, <3>2, UpdateKinds
      <4>2. PICK v \in ToSet(m) : v.of = i
        BY <1>1, <3>2, <4>1 DEF Represented
      <4>3. PICK k \in DOMAIN m : m[k] = v
        BY DEF ToSet
      <4>4. QED
        BY <2>2, <4>2, <4>3
    <3>3. QED
      BY <3>1, <3>2 DEF NoEntry
  <2>3. CASE entries(i) # {}
    <3> DEFINE last == m[Max(entries(i))]
    <3>1. entries(i) \in SUBSET (1 .. Len(m))
      BY <1>6
    <3>2. Max(entries(i)) \in entries(i)
      <4> HIDE DEF entries
      <4>1. QED
        BY <1>6, <2>3, <3>1, GreatestPosition
    <3>3. last \in ToSet(m) /\ last.of = i /\ last \in Updates
      BY <1>3, <1>6, <3>2
    <3>4. items[i] = IF last.kind = "deleted" THEN Absent ELSE store[i]
      BY <2>3
    <3> HIDE DEF last, items
    <3>5. CASE last.kind = "deleted"
      <4>1. \E n \in lo .. hi : updates[n] = last
        BY <1>1, <3>3
      <4>2. store[i] = Gone
        BY <1>3, <3>3, <3>5, <4>1 DEF LogInv, LifeIsLogged
      <4>3. QED
        BY <3>4, <3>5, <4>2 DEF Exists, Gone, Absent, NoEntry
    <3>6. CASE last.kind # "deleted"
      <4>1. last.kind \in {"created", "updated"}
        BY <2>1, <3>3, <3>6, UpdateKinds
      <4>2. Exists(i)
        BY <1>5, <3>3, <4>1
      <4>3. QED
        BY <2>1, <3>4, <3>6, <4>2 DEF Exists, NoEntry, Gone
    <3>7. QED
      BY <3>5, <3>6
  <2>4. QED
    BY <2>2, <2>3
<1>11. items \in [Items -> Int]
  BY <1>10
<1> HIDE DEF items, refresh
<1>12. QED
  BY <1>4, <1>7, <1>8, <1>9, <1>10, <1>11 DEF lo, hi

\* GetEvent panics without a primary address, on a stray update or where its
\* window ends before a deletion.
LEMMA PanicNeedsACause ==
    ASSUME LogInv, NEW id \in DOMAIN updates, Panics(id), primaries # {},
           \A j \in WindowStart(id) .. WindowEnd(id) : ~Stray(j)
    PROVE  /\ maxUpdatesPerEvent > 0
           /\ \E j \in WindowStart(id) .. WindowEnd(id), d \in WindowEnd(id) + 1 .. Len(updates) :
                 updates[d].kind = "deleted" /\ updates[d].of = updates[j].of
<1> DEFINE lo == WindowStart(id)
           hi == WindowEnd(id)
           us == [k \in DOMAIN Window(id) |-> updates[Window(id)[k]]]
           n == Len(updates)
<1>1. /\ us \in Seq(Updates) /\ Merged(id) = Merge(us)
      /\ Len(us) = hi - lo + 1
      /\ \A k \in 1 .. Len(us) : us[k] = updates[lo + k - 1]
      /\ \A j \in lo .. hi : j - lo + 1 \in 1 .. Len(us) /\ us[j - lo + 1] = updates[j]
      /\ ToSet(us) = {updates[j] : j \in lo .. hi}
  BY MergedWindow
<1>2. /\ lo \in 1 .. n + 1 /\ hi \in LogStart .. n /\ lo >= LogStart /\ lo <= hi + 1
      /\ n \in Nat /\ LogStart \in 1 .. n
      /\ \A j \in 1 .. n : updates[j] \in Updates
  BY LogShape, WindowIsInterval
<1>3. PICK u \in ToSet(Merged(id)) : u.kind \in {"created", "updated"} /\ ~Exists(u.of)
  BY DEF Panics
<1> HIDE DEF us
<1>4. PICK j \in lo .. hi : updates[j] = u
  BY <1>1, <1>3, MergeKeeps
<1>5. j \in 1 .. n
  BY <1>2
<1>6. u \in Updates /\ u.of \in Items /\ store[u.of] = Gone
  <2>1. u \in Updates /\ u.of \in Items
    BY <1>2, <1>3, <1>4, <1>5, UpdateKinds
  <2>2. store[u.of] # Absent /\ store[u.of] >= Gone /\ store[u.of] \in Int
    BY <1>3, <1>4, <2>1 DEF LogInv, Stray
  <2>3. QED
    BY <1>3, <2>1, <2>2 DEF Exists, Absent, Gone
<1>7. PICK d \in 1 .. n : updates[d].kind = "deleted" /\ updates[d].of = u.of
  BY <1>6 DEF LogInv, LifeIsLogged
<1>8. \A k \in d + 1 .. n : updates[k].of = u.of => updates[k].kind # "deleted"
  BY <1>7 DEF LogInv, LifeIsLogged
<1>9. d > j
  <2>1. d # j
    BY <1>3, <1>4, <1>7
  <2>2. ~(d \in 1 .. j - 1)
    BY <1>3, <1>4, <1>7 DEF Stray
  <2>3. QED
    BY <1>2, <1>5, <2>1, <2>2
<1>10. d > hi
  <2> SUFFICES ASSUME d <= hi PROVE FALSE
    BY <1>2
  <2> DEFINE p == d - lo + 1
  <2>1. d \in lo .. hi
    BY <1>2, <1>4, <1>9
  <2>2. p \in 1 .. Len(us) /\ us[p] = updates[d]
    BY <1>1, <2>1
  <2>3. \A k \in p + 1 .. Len(us) : us[k].of # us[p].of
    <3> SUFFICES ASSUME NEW k \in p + 1 .. Len(us), us[k].of = us[p].of PROVE FALSE
      OBVIOUS
    <3> DEFINE q == lo + k - 1
    <3>1. k \in 1 .. Len(us) /\ q \in d + 1 .. n /\ q \in lo .. hi /\ q \in 1 .. n /\ d \in 1 .. q - 1
      <4>1. Len(us) = hi - lo + 1
        BY <1>1
      <4> HIDE DEF lo, hi, n
      <4>2. QED
        BY <4>1, <1>2, <2>1
    <3>2. us[k] = updates[q]
      BY <1>1, <3>1
    <3> HIDE DEF q
    <3>3. updates[q] \in Updates /\ updates[q].of = u.of /\ updates[q].of \in Items
      BY <1>2, <1>6, <1>7, <2>2, <3>1, <3>2
    <3>4. updates[q].kind \in {"created", "updated"}
      BY <1>8, <3>1, <3>3, UpdateKinds
    <3>5. Stray(q)
      BY <1>7, <3>1, <3>3, <3>4 DEF Stray
    <3>6. QED
      BY <3>1, <3>5
  <2> HIDE DEF p
  <2>4. \A v \in ToSet(Merge(us)) : v.of = us[p].of => v.kind \notin {"created", "updated"}
    BY <1>1, <1>7, <2>2, <2>3, DeletionWins
  <2>5. QED
    BY <1>1, <1>3, <1>7, <2>2, <2>4
<1>11. maxUpdatesPerEvent > 0
  <2>1. SUFFICES ASSUME maxUpdatesPerEvent <= 0 PROVE FALSE
    BY LogAssumption DEF LogInv
  <2>2. LastUpdate(id) = Len(updateIDs)
    BY <2>1, WindowBounds
  <2>3. WindowEnd(id) = n
    BY <2>2, LogShape DEF WindowEnd, LogStart
  <2>4. QED
    BY <1>2, <1>10, <2>3
<1>12. QED
  BY <1>2, <1>4, <1>7, <1>10, <1>11
=============================================================================
