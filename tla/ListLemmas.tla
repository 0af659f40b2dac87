------------------------------ MODULE ListLemmas ------------------------------
(***************************************************************************)
(* Facts about finite sequences that the proofs about the drivers use for  *)
(* their lists: what is in a sequence when an element is taken from its    *)
(* front, deleted from its middle or appended, and that a set of numbers   *)
(* has a least one.                                                        *)
(***************************************************************************)
EXTENDS SequencesExt, SequenceTheorems, NaturalsInduction, WellFoundedInduction,
        TLAPS

\* No element is in s twice.
Once(s) == \A i, j \in DOMAIN s : s[i] = s[j] => i = j

\* The set of numbers T, which is not empty, has a least one.
LEMMA LeastNumber ==
  ASSUME NEW T \in SUBSET Nat, T # {}
  PROVE  Min(T) \in T /\ \A y \in T : Min(T) =< y
  <1> DEFINE R == OpToRel(<, Nat)
  <1>1. \A x, y \in Nat : x < y => <<x, y>> \in R
    BY DEF OpToRel
  <1>2. IsWellFoundedOn(R, Nat)
    BY NatLessThanWellFounded
  <1> HIDE DEF R
  <1>3. PICK x \in T : \A y \in T : ~ (<<y, x>> \in R)
    BY <1>2, WFMin
  <1>4. ASSUME NEW y \in T
        PROVE  x =< y
    <2>1. x \in Nat /\ y \in Nat
      OBVIOUS
    <2>2. ~ (y < x)
      BY <1>1, <1>3, <2>1
    <2> QED
      BY <2>1, <2>2
  <1> QED
    BY <1>4 DEF Min

\* The first element and the others.
LEMMA HeadAndTail ==
  ASSUME NEW S, NEW s \in Seq(S), Len(s) > 0
  PROVE  /\ Head(s) \in S
         /\ Tail(s) \in Seq(S)
         /\ Len(Tail(s)) = Len(s) - 1
         /\ ToSet(s) = {Head(s)} \cup ToSet(Tail(s))
         /\ Len(s) = 1 => ToSet(s) = {Head(s)}
  <1>1. /\ Head(s) \in S /\ Head(s) = s[1]
        /\ Tail(s) \in Seq(S)
        /\ Len(Tail(s)) = Len(s) - 1
        /\ \A i \in 1 .. Len(Tail(s)) : Tail(s)[i] = s[i + 1]
    OBVIOUS
  <1>2. DOMAIN s = 1 .. Len(s) /\ DOMAIN Tail(s) = 1 .. Len(Tail(s))
    BY <1>1
  <1>3. ToSet(s) \subseteq {Head(s)} \cup ToSet(Tail(s))
    <2> SUFFICES ASSUME NEW i \in 1 .. Len(s)
                 PROVE  s[i] \in {Head(s)} \cup ToSet(Tail(s))
      BY <1>2 DEF ToSet
    <2>1. CASE i = 1
      BY <1>1, <2>1
    <2>2. CASE i # 1
      <3>1. i - 1 \in 1 .. Len(Tail(s)) /\ Tail(s)[i - 1] = s[i]
        BY <1>1, <2>2
      <3> QED
        BY <3>1, <1>2 DEF ToSet
    <2> QED
      BY <2>1, <2>2
  <1>4. {Head(s)} \cup ToSet(Tail(s)) \subseteq ToSet(s)
    BY <1>1, <1>2 DEF ToSet
  <1>5. Len(s) = 1 => ToSet(Tail(s)) = {}
    <2> SUFFICES ASSUME Len(s) = 1
                 PROVE  DOMAIN Tail(s) = {}
      BY DEF ToSet
    <2>1. Len(Tail(s)) = 0
      BY <1>1
    <2> QED
      BY <1>2, <2>1
  <1> QED
    BY <1>1, <1>3, <1>4, <1>5

\* Deleting the i-th element moves the later ones up.
LEMMA MovedItems ==
  ASSUME NEW S, NEW s \in Seq(S), NEW i \in 1 .. Len(s)
  PROVE  /\ RemoveAt(s, i) \in Seq(S)
         /\ Len(RemoveAt(s, i)) = Len(s) - 1
         /\ \A j \in 1 .. Len(s) - 1 : RemoveAt(s, i)[j] = IF j < i THEN s[j] ELSE s[j + 1]
  <1> DEFINE before == SubSeq(s, 1, i - 1)
             after == SubSeq(s, i + 1, Len(s))
  <1>1. /\ before \in Seq(S) /\ Len(before) = i - 1
        /\ \A j \in 1 .. i - 1 : before[j] = s[j]
    OBVIOUS
  <1>2. /\ after \in Seq(S) /\ Len(after) = Len(s) - i
        /\ \A j \in 1 .. Len(s) - i : after[j] = s[i + j]
    OBVIOUS
  <1>3. RemoveAt(s, i) = before \o after
    BY DEF RemoveAt
  <1> HIDE DEF before, after
  <1>4. /\ RemoveAt(s, i) \in Seq(S)
        /\ Len(RemoveAt(s, i)) = Len(s) - 1
        /\ \A j \in 1 .. Len(s) - 1 :
             RemoveAt(s, i)[j] = IF j < i THEN before[j] ELSE after[j - i + 1]
    <2>1. /\ before \o after \in Seq(S)
          /\ Len(before \o after) = Len(before) + Len(after)
          /\ \A j \in 1 .. Len(before) + Len(after) :
               (before \o after)[j] = IF j <= Len(before) THEN before[j]
                                                         ELSE after[j - Len(before)]
      BY <1>1, <1>2, ConcatProperties
    <2>2. Len(before) + Len(after) = Len(s) - 1
      BY <1>1, <1>2
    <2>3. \A j \in 1 .. Len(s) - 1 : (j <= Len(before) <=> j < i) /\ j - Len(before) = j - i + 1
      BY <1>1
    <2> QED
      BY <1>3, <2>1, <2>2, <2>3
  <1>5. ASSUME NEW j \in 1 .. Len(s) - 1
        PROVE  RemoveAt(s, i)[j] = IF j < i THEN s[j] ELSE s[j + 1]
    <2>1. CASE j < i
      BY <1>1, <1>4, <2>1
    <2>2. CASE j >= i
      <3>1. j - i + 1 \in 1 .. Len(s) - i /\ i + (j - i + 1) = j + 1
        BY <2>2
      <3>2. after[j - i + 1] = s[j + 1]
        BY <1>2, <3>1
      <3>3. ~ (j < i)
        BY <2>2
      <3> QED
        BY <1>4, <3>2, <3>3
    <2> QED
      BY <2>1, <2>2
  <1> QED
    BY <1>4, <1>5

\* Of a sequence without repetitions it takes just that element.
LEMMA DeletedItems ==
  ASSUME NEW S, NEW s \in Seq(S), Once(s), NEW i \in 1 .. Len(s)
  PROVE  /\ ToSet(RemoveAt(s, i)) = ToSet(s) \ {s[i]}
         /\ Once(RemoveAt(s, i))
  <1> DEFINE r == RemoveAt(s, i)
             old(m) == IF m < i THEN m ELSE m + 1
  <1>1. r \in Seq(S) /\ Len(r) = Len(s) - 1
        /\ \A j \in 1 .. Len(r) : r[j] = s[old(j)]
    BY MovedItems
  <1>2. DOMAIN s = 1 .. Len(s) /\ DOMAIN r = 1 .. Len(r)
    BY <1>1
  <1> HIDE DEF r
  <1>3. \A m \in 1 .. Len(r) : old(m) \in 1 .. Len(s) /\ old(m) # i
    BY <1>1
  <1>4. ToSet(r) \subseteq ToSet(s) \ {s[i]}
    <2> SUFFICES ASSUME NEW j \in 1 .. Len(r)
                 PROVE  r[j] \in ToSet(s) /\ r[j] # s[i]
      BY <1>2 DEF ToSet
    <2>1. old(j) \in DOMAIN s /\ old(j) # i /\ r[j] = s[old(j)]
      BY <1>1, <1>2, <1>3
    <2> HIDE DEF old
    <2> QED
      BY <1>2, <2>1 DEF ToSet, Once
  <1>5. ToSet(s) \ {s[i]} \subseteq ToSet(r)
    <2> SUFFICES ASSUME NEW j \in 1 .. Len(s), j # i
                 PROVE  s[j] \in ToSet(r)
      BY <1>2 DEF ToSet
    <2>1. PICK m \in 1 .. Len(r) : old(m) = j
      <3>1. CASE j < i
        <4>1. j \in 1 .. Len(r) /\ old(j) = j
          BY <1>1, <3>1
        <4> QED
          BY <4>1
      <3>2. CASE j > i
        <4>1. j - 1 \in 1 .. Len(r) /\ old(j - 1) = j
          BY <1>1, <3>2
        <4> QED
          BY <4>1
      <3> QED
        BY <3>1, <3>2
    <2>2. r[m] = s[j]
      BY <1>1, <2>1
    <2> QED
      BY <1>2, <2>2 DEF ToSet
  <1>6. Once(r)
    <2> SUFFICES ASSUME NEW j \in 1 .. Len(r), NEW k \in 1 .. Len(r), r[j] = r[k]
                 PROVE  j = k
      BY <1>2 DEF Once
    <2>1. s[old(j)] = s[old(k)] /\ old(j) \in DOMAIN s /\ old(k) \in DOMAIN s
      BY <1>1, <1>2, <1>3
    <2>2. old(j) = old(k)
      BY <2>1 DEF Once
    <2> QED
      BY <2>2
  <1> QED
    BY <1>4, <1>5, <1>6 DEF r

\* Appending adds one.
LEMMA AppendedItem ==
  ASSUME NEW S, NEW s \in Seq(S), Once(s), NEW e \in S, e \notin ToSet(s)
  PROVE  /\ Append(s, e) \in Seq(S)
         /\ ToSet(Append(s, e)) = ToSet(s) \cup {e}
         /\ Once(Append(s, e))
  <1> DEFINE r == Append(s, e)
  <1>1. /\ r \in Seq(S) /\ Len(r) = Len(s) + 1 /\ Len(s) \in Nat
        /\ r[Len(s) + 1] = e
        /\ \A i \in 1 .. Len(s) : r[i] = s[i]
    OBVIOUS
  <1>2. DOMAIN s = 1 .. Len(s) /\ DOMAIN r = (1 .. Len(s)) \cup {Len(s) + 1}
    BY <1>1
  <1> HIDE DEF r
  <1>3. ToSet(r) = ToSet(s) \cup {e}
    BY <1>1, <1>2 DEF ToSet
  <1>4. Once(r)
    BY <1>1, <1>2 DEF Once, ToSet
  <1> QED
    BY <1>1, <1>3, <1>4 DEF r
=============================================================================
