--------------------------- MODULE LinkedListProofs ---------------------------
(***************************************************************************)
(* Theorems about LinkedList for any finite set of entries: the assertions *)
(* of LinkedList.hpp hold, no link that is followed dangles, the count is  *)
(* right, and the list implements ObjectList.                              *)
(*                                                                         *)
(* That the neighbours of every node know it is not inductive.  Flush goes *)
(* by the count: if the entries could form a ring apart from the list's    *)
(* own, it would unlink the list from itself, with entries left.  What is, *)
(* is that there is a sequence of the linked entries, each once, as many   *)
(* as are counted, that both links run through.  Following the links then  *)
(* yields just that sequence, and so the refinement is about what each     *)
(* operation does to it.                                                   *)
(***************************************************************************)
EXTENDS LinkedList, ListLemmas, FiniteSetTheorems

\* The k-th node of a list of the entries s: the list itself comes before
\* the first of them and behind the last.
Node(s, k) == IF k \in 1..Len(s) THEN s[k] ELSE List

\* The links f run forwards and the links b backwards through s.
Runs(s, f, b) ==
    \A k \in 0..Len(s) : f[Node(s, k)] = Node(s, k + 1) /\ b[Node(s, k + 1)] = Node(s, k)

\* The list is a list of the entries s.
Lists(s) ==
    /\ s \in Seq(Entries)
    /\ Once(s)
    /\ ToSet(s) = Linked
    /\ noElements = Len(s)
    /\ Runs(s, flink, blink)

FreshAlone == \A e \in Entries : use[e] = "fresh" => flink[e] = e /\ blink[e] = e

\* The entry Flush has in hand is out of the list.
InHand ==
    /\ head # List => head \in Entries /\ use[head] = "removed"
    /\ ~flushing => head = List

Inv ==
    /\ TypeOK
    /\ \E s \in Seq(Entries) : Lists(s)
    /\ FreshAlone
    /\ InHand
-----------------------------------------------------------------------------
\* There are more nodes than a list has entries.
LEMMA NodesOf ==
  ASSUME NEW s \in Seq(Entries), Once(s)
  PROVE  Cardinality(Nodes) \in Nat /\ Len(s) < Cardinality(Nodes)
         /\ Len(s) <= Cardinality(Entries)
  <1>1. IsFiniteSet(1 .. Len(s)) /\ Cardinality(1 .. Len(s)) = Len(s)
    <2>1. ASSUME NEW n \in Nat PROVE IsFiniteSet(1 .. n) /\ Cardinality(1 .. n) = n
      <3>1. 1 \in Int /\ n \in Int
        OBVIOUS
      <3>2. IsFiniteSet(1 .. n) /\ Cardinality(1 .. n) = IF 1 > n THEN 0 ELSE n - 1 + 1
        BY <3>1, FS_Interval
      <3> QED
        BY <3>2
    <2>2. Len(s) \in Nat
      OBVIOUS
    <2> QED
      BY <2>1, <2>2
  <1>2. Len(s) <= Cardinality(Entries)
    <2>1. s \in Injection(1 .. Len(s), Entries)
      <3>1. s \in [1 .. Len(s) -> Entries] /\ DOMAIN s = 1 .. Len(s)
        OBVIOUS
      <3> QED
        BY <3>1 DEF Once, Injection, IsInjective
    <2> QED
      BY <1>1, <2>1, ListAssumption, FS_Injection
  <1>3. Cardinality(Nodes) = Cardinality(Entries) + 1 /\ Cardinality(Entries) \in Nat
    BY ListAssumption, FS_AddElement, FS_CardinalityType DEF Nodes
  <1> QED
    BY <1>2, <1>3

\* Following the links of a list of s yields s.
LEMMA WalkShows ==
  ASSUME NEW next, NEW s \in Seq(Entries), Once(s),
         \A k \in 0..Len(s) : next[Node(s, k)] = Node(s, k + 1)
  PROVE  Walk(next) = s
  <1> DEFINE N == Cardinality(Nodes)
             Step(f) == [k \in 1..N |->
                           IF k = 1 THEN next[List]
                           ELSE IF f[k - 1] = List THEN List ELSE next[f[k - 1]]]
             at == CHOOSE f : f = Step(f)
             shown == [k \in 1..N |-> Node(s, k)]
  <1>1. N \in Nat /\ Len(s) < N /\ Len(s) \in Nat
    BY NodesOf
  <1>2. Walk(next) = [k \in {j \in DOMAIN at : at[j] # List} |-> at[k]]
    BY DEF Walk
  <1> HIDE DEF N
  <1>3. \A k \in Nat : (k >= 1 => Node(s, k) = List \/ (k <= Len(s) /\ Node(s, k) = s[k] /\ s[k] \in Entries))
    BY DEF Node
  <1>4. shown = Step(shown)
    <2> SUFFICES ASSUME NEW k \in 1..N
                 PROVE  Node(s, k) = IF k = 1 THEN next[List]
                                     ELSE IF shown[k - 1] = List THEN List
                                     ELSE next[shown[k - 1]]
      OBVIOUS
    <2>1. CASE k = 1
      <3>1. Node(s, 0) = List /\ 0 \in 0..Len(s) /\ 0 + 1 = 1
        BY <1>1 DEF Node
      <3> QED
        BY <2>1, <3>1
    <2>2. CASE k # 1
      <3>1. k - 1 \in 1..N /\ k - 1 + 1 = k /\ shown[k - 1] = Node(s, k - 1)
        BY <1>1, <2>2
      <3>2. CASE k - 1 <= Len(s)
        <4>1. Node(s, k - 1) # List /\ next[Node(s, k - 1)] = Node(s, k)
          <5>1. k - 1 \in 1..Len(s) /\ k - 1 \in 0..Len(s)
            BY <1>1, <3>1, <3>2
          <5>2. Node(s, k - 1) \in Entries
            BY <5>1 DEF Node
          <5> QED
            BY <3>1, <5>1, <5>2, ListAssumption
        <4> QED
          BY <2>2, <3>1, <4>1
      <3>3. CASE k - 1 > Len(s)
        <4>1. Node(s, k - 1) = List /\ Node(s, k) = List
          BY <1>1, <3>1, <3>3 DEF Node
        <4> QED
          BY <2>2, <3>1, <4>1
      <3> QED
        BY <1>1, <3>1, <3>2, <3>3
    <2> QED
      BY <2>1, <2>2
  <1>5. at = Step(at)
    <2> HIDE DEF Step, shown
    <2> QED
      BY <1>4
  <1> HIDE DEF at
  <1>6. at = shown
    <2> DEFINE wrong == {k \in 1..N : at[k] # shown[k]}
    <2>1. CASE wrong # {}
      <3>1. wrong \in SUBSET Nat
        BY <1>1
      <3> DEFINE k == Min(wrong)
      <3>2. k \in wrong /\ \A j \in wrong : k <= j
        BY <2>1, <3>1, LeastNumber
      <3> HIDE DEF k
      <3>3. k # 1
        BY <1>4, <1>5, <3>2
      <3>4. k - 1 \in 1..N /\ at[k - 1] = shown[k - 1]
        <4>1. k \in 1..N /\ k - 1 \in 1..N /\ ~(k <= k - 1)
          BY <1>1, <3>2, <3>3
        <4> QED
          BY <3>2, <4>1
      <3>5. at[k] = IF at[k - 1] = List THEN List ELSE next[at[k - 1]]
        <4>1. at[k] = Step(at)[k]
          BY <1>5
        <4> QED
          BY <3>2, <3>3, <4>1
      <3>6. shown[k] = IF shown[k - 1] = List THEN List ELSE next[shown[k - 1]]
        <4>1. shown[k] = Step(shown)[k]
          BY <1>4
        <4> HIDE DEF shown
        <4> QED
          BY <3>2, <3>3, <4>1
      <3> QED
        BY <3>2, <3>4, <3>5, <3>6
    <2>2. CASE wrong = {}
      <3>1. \A k \in 1..N : at[k] = shown[k]
        BY <2>2
      <3>2. at = [k \in 1..N |-> at[k]]
        BY <1>5
      <3> QED
        BY <3>1, <3>2
    <2> QED
      BY <2>1, <2>2
  <1>7. {j \in DOMAIN at : at[j] # List} = 1..Len(s)
    <2>1. DOMAIN at = 1..N /\ \A j \in 1..N : at[j] = Node(s, j)
      BY <1>6
    <2>2. \A j \in 1..N : Node(s, j) # List <=> j <= Len(s)
      BY <1>1, ListAssumption DEF Node
    <2> QED
      BY <1>1, <2>1, <2>2
  <1>8. Walk(next) = [k \in 1..Len(s) |-> at[k]]
    BY <1>2, <1>7
  <1>9. \A k \in 1..Len(s) : at[k] = s[k]
    BY <1>1, <1>6 DEF Node
  <1> QED
    BY <1>8, <1>9

\* The nodes of a list are different ones, but for the list itself.
LEMMA NodesDiffer ==
  ASSUME NEW s \in Seq(Entries), Once(s)
  PROVE  /\ \A j, k \in 0..Len(s) : Node(s, j) = Node(s, k) => j = k
         /\ \A j, k \in 1..(Len(s) + 1) : Node(s, j) = Node(s, k) => j = k
         /\ \A k \in Nat : Node(s, k) \in ToSet(s) \cup {List} /\ Node(s, k) \in Nodes
         /\ \A n \in ToSet(s) : \E k \in 1..Len(s) : Node(s, k) = n
  <1>1. /\ Len(s) \in Nat /\ DOMAIN s = 1..Len(s)
        /\ \A k \in 1..Len(s) : s[k] \in Entries /\ s[k] # List
    BY ListAssumption
  <1>2. \A j, k \in 1..Len(s) : s[j] = s[k] => j = k
    BY <1>1 DEF Once
  <1> QED
    BY <1>1, <1>2 DEF Node, ToSet, Nodes

\* The neighbours of every node of the list are nodes of it and know it.
LEMMA Neighbours ==
  ASSUME NEW s \in Seq(Entries), Once(s), NEW f, NEW b, Runs(s, f, b),
         NEW n \in ToSet(s) \cup {List}
  PROVE  /\ f[n] \in ToSet(s) \cup {List} /\ b[n] \in ToSet(s) \cup {List}
         /\ b[f[n]] = n /\ f[b[n]] = n
  <1>1. Len(s) \in Nat
    OBVIOUS
  <1>2. PICK k \in 0..Len(s) : Node(s, k) = n
    <2>1. CASE n = List
      BY <1>1, <2>1 DEF Node
    <2>2. CASE n # List
      BY <1>1, <2>2, NodesDiffer
    <2> QED
      BY <2>1, <2>2
  <1>3. PICK m \in 0..Len(s) : Node(s, m + 1) = n
    <2>1. CASE n = List
      <3>1. Len(s) \in 0..Len(s) /\ Node(s, Len(s) + 1) = List
        BY <1>1 DEF Node
      <3> QED
        BY <2>1, <3>1
    <2>2. CASE n # List
      <3>1. k # 0
        BY <1>2, <2>2 DEF Node
      <3>2. k - 1 \in 0..Len(s) /\ k - 1 + 1 = k
        BY <1>1, <3>1
      <3> QED
        BY <1>2, <3>2
    <2> QED
      BY <2>1, <2>2
  <1>4. f[n] = Node(s, k + 1) /\ b[Node(s, k + 1)] = n
    BY <1>2 DEF Runs
  <1>5. b[n] = Node(s, m) /\ f[Node(s, m)] = n
    BY <1>3 DEF Runs
  <1> QED
    BY <1>4, <1>5, NodesDiffer

\* The links after an entry was inserted behind the k-th node.
LEMMA RunsInserted ==
  ASSUME NEW s \in Seq(Entries), Once(s),
         NEW f \in [Nodes -> Nodes], NEW b \in [Nodes -> Nodes], Runs(s, f, b),
         NEW e \in Entries, e \notin ToSet(s), NEW k \in 0..Len(s),
         NEW r \in Seq(Entries), Len(r) = Len(s) + 1,
         \A j \in 1..Len(r) : r[j] = IF j <= k THEN s[j] ELSE IF j = k + 1 THEN e ELSE s[j - 1],
         NEW p, p = Node(s, k)
  PROVE  Runs(r, [f EXCEPT ![e] = f[p], ![p] = e], [b EXCEPT ![e] = p, ![f[p]] = e])
  <1> DEFINE q == f[p]
             g == [f EXCEPT ![e] = q, ![p] = e]
             c == [b EXCEPT ![e] = p, ![q] = e]
  <1>1. Len(s) \in Nat /\ k \in Nat /\ k <= Len(s)
    OBVIOUS
  <1>2. p = Node(s, k) /\ q = Node(s, k + 1) /\ p \in Nodes /\ q \in Nodes
    BY <1>1, NodesDiffer DEF Runs
  <1>3. e \in Nodes /\ e # List /\ \A j \in Nat : Node(s, j) # e
    BY NodesDiffer, ListAssumption DEF Nodes
  <1>4. \A n \in Nodes : /\ g[n] = IF n = p THEN e ELSE IF n = e THEN q ELSE f[n]
                         /\ c[n] = IF n = q THEN e ELSE IF n = e THEN p ELSE b[n]
    BY <1>2, <1>3
  <1>5. \A j \in 0..(Len(s) + 2) :
          Node(r, j) = IF j <= k THEN Node(s, j) ELSE IF j = k + 1 THEN e ELSE Node(s, j - 1)
    BY <1>1 DEF Node
  <1> HIDE DEF g, c, q
  <1>6. ASSUME NEW j \in 0..Len(r)
        PROVE  g[Node(r, j)] = Node(r, j + 1)
    <2>1. CASE j < k
      <3>1. Node(r, j) = Node(s, j) /\ Node(r, j + 1) = Node(s, j + 1)
        BY <1>1, <1>5, <2>1
      <3>2. j \in 0..Len(s) /\ Node(s, j) # p /\ Node(s, j) # e /\ Node(s, j) \in Nodes
        BY <1>1, <1>2, <1>3, <2>1, NodesDiffer
      <3>3. f[Node(s, j)] = Node(s, j + 1)
        BY <3>2 DEF Runs
      <3> QED
        BY <1>4, <3>1, <3>2, <3>3
    <2>2. CASE j = k
      <3>1. Node(r, j) = p /\ Node(r, j + 1) = e
        BY <1>1, <1>2, <1>5, <2>2
      <3> QED
        BY <1>2, <1>4, <3>1
    <2>3. CASE j = k + 1
      <3>1. Node(r, j) = e /\ Node(r, j + 1) = Node(s, k + 1)
        BY <1>1, <1>5, <2>3
      <3> QED
        BY <1>2, <1>3, <1>4, <3>1
    <2>4. CASE j > k + 1
      <3>1. Node(r, j) = Node(s, j - 1) /\ Node(r, j + 1) = Node(s, j)
        BY <1>1, <1>5, <2>4
      <3>2. /\ j - 1 \in 0..Len(s) /\ j - 1 # k /\ j - 1 + 1 = j
            /\ Node(s, j - 1) # p /\ Node(s, j - 1) # e /\ Node(s, j - 1) \in Nodes
        BY <1>1, <1>2, <1>3, <2>4, NodesDiffer
      <3>3. f[Node(s, j - 1)] = Node(s, j)
        BY <3>2 DEF Runs
      <3> QED
        BY <1>4, <3>1, <3>2, <3>3
    <2> QED
      BY <1>1, <2>1, <2>2, <2>3, <2>4
  <1>7. ASSUME NEW j \in 0..Len(r)
        PROVE  c[Node(r, j + 1)] = Node(r, j)
    <2>1. CASE j < k
      <3>1. Node(r, j) = Node(s, j) /\ Node(r, j + 1) = Node(s, j + 1)
        BY <1>1, <1>5, <2>1
      <3>2. /\ j + 1 \in 1..(Len(s) + 1) /\ k + 1 \in 1..(Len(s) + 1) /\ j + 1 # k + 1
            /\ Node(s, j + 1) # q /\ Node(s, j + 1) # e /\ Node(s, j + 1) \in Nodes
        BY <1>1, <1>2, <1>3, <2>1, NodesDiffer
      <3>3. b[Node(s, j + 1)] = Node(s, j)
        BY <1>1, <2>1 DEF Runs
      <3> QED
        BY <1>4, <3>1, <3>2, <3>3
    <2>2. CASE j = k
      <3>1. Node(r, j) = p /\ Node(r, j + 1) = e
        BY <1>1, <1>2, <1>5, <2>2
      <3> QED
        BY <1>2, <1>3, <1>4, <3>1
    <2>3. CASE j = k + 1
      <3>1. Node(r, j) = e /\ Node(r, j + 1) = q
        BY <1>1, <1>2, <1>5, <2>3
      <3> QED
        BY <1>2, <1>4, <3>1
    <2>4. CASE j > k + 1
      <3>1. Node(r, j) = Node(s, j - 1) /\ Node(r, j + 1) = Node(s, j)
        BY <1>1, <1>5, <2>4
      <3>2. /\ j \in 1..(Len(s) + 1) /\ k + 1 \in 1..(Len(s) + 1) /\ j # k + 1
            /\ Node(s, j) # q /\ Node(s, j) # e /\ Node(s, j) \in Nodes
        BY <1>1, <1>2, <1>3, <2>4, NodesDiffer
      <3>3. j - 1 \in 0..Len(s) /\ j - 1 + 1 = j
        BY <1>1, <2>4
      <3>4. b[Node(s, j)] = Node(s, j - 1)
        BY <3>3 DEF Runs
      <3> QED
        BY <1>4, <3>1, <3>2, <3>4
    <2> QED
      BY <1>1, <2>1, <2>2, <2>3, <2>4
  <1>8. Runs(r, g, c)
    BY <1>6, <1>7 DEF Runs
  <1> QED
    BY <1>8 DEF g, c, q

\* The links after the i-th entry was unlinked.
LEMMA RunsUnlinked ==
  ASSUME NEW s \in Seq(Entries), Once(s),
         NEW f \in [Nodes -> Nodes], NEW b \in [Nodes -> Nodes], Runs(s, f, b),
         NEW i \in 1..Len(s), NEW e, e = s[i],
         NEW r \in Seq(Entries), Len(r) = Len(s) - 1,
         \A j \in 1..Len(r) : r[j] = IF j < i THEN s[j] ELSE s[j + 1]
  PROVE  Runs(r, [f EXCEPT ![b[e]] = f[e]], [b EXCEPT ![f[e]] = b[e]])
  <1> DEFINE p == b[e]
             q == f[e]
             g == [f EXCEPT ![p] = q]
             c == [b EXCEPT ![q] = p]
  <1>1. Len(s) \in Nat /\ i \in Nat /\ i <= Len(s) /\ i >= 1
        /\ i - 1 \in 0..Len(s) /\ i - 1 + 1 = i /\ i \in 0..Len(s)
    OBVIOUS
  <1>2. e = Node(s, i)
    BY DEF Node
  <1>3. p = Node(s, i - 1) /\ q = Node(s, i + 1) /\ p \in Nodes /\ q \in Nodes
    <2>1. p = Node(s, i - 1) /\ q = Node(s, i + 1)
      BY <1>1, <1>2 DEF Runs
    <2>2. i - 1 \in Nat /\ i + 1 \in Nat
      BY <1>1
    <2> QED
      BY <2>1, <2>2, NodesDiffer
  <1>4. \A n \in Nodes : /\ g[n] = IF n = p THEN q ELSE f[n]
                         /\ c[n] = IF n = q THEN p ELSE b[n]
    BY <1>3
  <1>5. \A j \in 0..Len(s) : Node(r, j) = IF j < i THEN Node(s, j) ELSE Node(s, j + 1)
    BY <1>1 DEF Node
  <1> HIDE DEF g, c, p, q
  <1>6. ASSUME NEW j \in 0..Len(r)
        PROVE  g[Node(r, j)] = Node(r, j + 1)
    <2>1. CASE j + 1 < i
      <3>1. Node(r, j) = Node(s, j) /\ Node(r, j + 1) = Node(s, j + 1)
        BY <1>1, <1>5, <2>1
      <3>2. j \in 0..Len(s) /\ Node(s, j) # p /\ Node(s, j) \in Nodes
        BY <1>1, <1>3, <2>1, NodesDiffer
      <3>3. f[Node(s, j)] = Node(s, j + 1)
        BY <3>2 DEF Runs
      <3> QED
        BY <1>4, <3>1, <3>2, <3>3
    <2>2. CASE j + 1 = i
      <3>1. j = i - 1 /\ j \in 0..Len(s) /\ j + 1 \in 0..Len(s) /\ j < i /\ ~ (i < i)
        BY <1>1, <2>2
      <3>2. Node(r, j) = Node(s, i - 1) /\ Node(r, i) = Node(s, i + 1)
        BY <1>1, <1>5, <3>1
      <3>3. Node(r, j) = p /\ Node(r, j + 1) = q
        BY <1>3, <2>2, <3>2
      <3> QED
        BY <1>3, <1>4, <3>3
    <2>3. CASE j + 1 > i
      <3>1. Node(r, j) = Node(s, j + 1) /\ Node(r, j + 1) = Node(s, j + 1 + 1)
        BY <1>1, <1>5, <2>3
      <3>2. j + 1 \in 0..Len(s) /\ Node(s, j + 1) # p /\ Node(s, j + 1) \in Nodes
        BY <1>1, <1>3, <2>3, NodesDiffer
      <3>3. f[Node(s, j + 1)] = Node(s, j + 1 + 1)
        BY <3>2 DEF Runs
      <3> QED
        BY <1>4, <3>1, <3>2, <3>3
    <2> QED
      BY <1>1, <2>1, <2>2, <2>3
  <1>7. ASSUME NEW j \in 0..Len(r)
        PROVE  c[Node(r, j + 1)] = Node(r, j)
    <2>1. CASE j + 1 < i
      <3>1. Node(r, j) = Node(s, j) /\ Node(r, j + 1) = Node(s, j + 1)
        BY <1>1, <1>5, <2>1
      <3>2. /\ j + 1 \in 1..(Len(s) + 1) /\ i + 1 \in 1..(Len(s) + 1) /\ j + 1 # i + 1
            /\ Node(s, j + 1) # q /\ Node(s, j + 1) \in Nodes
        BY <1>1, <1>3, <2>1, NodesDiffer
      <3>3. j \in 0..Len(s) /\ b[Node(s, j + 1)] = Node(s, j)
        BY <1>1, <2>1 DEF Runs
      <3> QED
        BY <1>4, <3>1, <3>2, <3>3
    <2>2. CASE j + 1 = i
      <3>1. j = i - 1 /\ j \in 0..Len(s) /\ j + 1 \in 0..Len(s) /\ j < i /\ ~ (i < i)
        BY <1>1, <2>2
      <3>2. Node(r, j) = Node(s, i - 1) /\ Node(r, i) = Node(s, i + 1)
        BY <1>1, <1>5, <3>1
      <3>3. Node(r, j) = p /\ Node(r, j + 1) = q
        BY <1>3, <2>2, <3>2
      <3> QED
        BY <1>3, <1>4, <3>3
    <2>3. CASE j + 1 > i
      <3>1. Node(r, j) = Node(s, j + 1) /\ Node(r, j + 1) = Node(s, j + 1 + 1)
        BY <1>1, <1>5, <2>3
      <3>2. /\ j + 1 + 1 \in 1..(Len(s) + 1) /\ i + 1 \in 1..(Len(s) + 1)
            /\ j + 1 + 1 # i + 1
            /\ Node(s, j + 1 + 1) # q /\ Node(s, j + 1 + 1) \in Nodes
        BY <1>1, <1>3, <2>3, NodesDiffer
      <3>3. j + 1 \in 0..Len(s) /\ b[Node(s, j + 1 + 1)] = Node(s, j + 1)
        BY <1>1, <2>3 DEF Runs
      <3> QED
        BY <1>4, <3>1, <3>2, <3>3
    <2> QED
      BY <1>1, <2>1, <2>2, <2>3
  <1>8. Runs(r, g, c)
    BY <1>6, <1>7 DEF Runs
  <1> QED
    BY <1>8 DEF g, c, p, q
-----------------------------------------------------------------------------
\* What an iteration shows is what the list is a list of.
LEMMA IterationIs ==
  ASSUME NEW s
  PROVE  (Lists(s) => Iteration = s) /\ (Lists(s)' => Iteration' = s)
  <1>1. ASSUME Lists(s) PROVE Iteration = s
    BY <1>1, WalkShows DEF Lists, Runs, Iteration
  <1>2. ASSUME Lists(s)' PROVE Iteration' = s
    BY <1>2, WalkShows DEF Lists, Runs, Iteration
  <1> QED
    BY <1>1, <1>2

\* A sequence with an element more, behind its k-th.
LEMMA InsertedItem ==
  ASSUME NEW s \in Seq(Entries), Once(s), NEW e \in Entries, e \notin ToSet(s),
         NEW k \in 0..Len(s), NEW r \in Seq(Entries), Len(r) = Len(s) + 1,
         \A j \in 1..Len(r) : r[j] = IF j <= k THEN s[j] ELSE IF j = k + 1 THEN e ELSE s[j - 1]
  PROVE  Once(r) /\ ToSet(r) = ToSet(s) \cup {e}
  <1>1. /\ Len(s) \in Nat /\ k \in Nat /\ k <= Len(s)
        /\ DOMAIN s = 1..Len(s) /\ DOMAIN r = 1..Len(r)
    OBVIOUS
  <1>2. \A j \in 1..Len(s) : s[j] # e
    BY <1>1 DEF ToSet
  <1>3. Once(r)
    <2> SUFFICES ASSUME NEW j \in 1..Len(r), NEW m \in 1..Len(r), r[j] = r[m]
                 PROVE  j = m
      BY <1>1 DEF Once
    <2> DEFINE old(x) == IF x <= k THEN x ELSE x - 1
    <2>1. \A x \in 1..Len(r) : x # k + 1 => old(x) \in 1..Len(s) /\ r[x] = s[old(x)]
      BY <1>1
    <2>2. CASE j = k + 1 \/ m = k + 1
      BY <1>1, <1>2, <2>1, <2>2
    <2>3. CASE j # k + 1 /\ m # k + 1
      <3>1. old(j) = old(m)
        BY <1>1, <2>1, <2>3 DEF Once
      <3> QED
        BY <1>1, <2>3, <3>1
    <2> QED
      BY <2>2, <2>3
  <1>4. ToSet(r) \subseteq ToSet(s) \cup {e}
    <2> SUFFICES ASSUME NEW j \in 1..Len(r) PROVE r[j] \in ToSet(s) \cup {e}
      BY <1>1 DEF ToSet
    <2>1. CASE j <= k
      <3>1. j \in DOMAIN s /\ r[j] = s[j]
        BY <1>1, <2>1
      <3> QED
        BY <3>1 DEF ToSet
    <2>2. CASE j = k + 1
      BY <2>2, <1>1
    <2>3. CASE j > k + 1
      <3>1. j - 1 \in DOMAIN s /\ r[j] = s[j - 1]
        BY <1>1, <2>3
      <3> QED
        BY <3>1 DEF ToSet
    <2> QED
      BY <1>1, <2>1, <2>2, <2>3
  <1>5. e \in ToSet(r)
    <2>1. k + 1 \in 1..Len(r) /\ r[k + 1] = e
      BY <1>1
    <2> QED
      BY <1>1, <2>1 DEF ToSet
  <1>6. ToSet(s) \subseteq ToSet(r)
    <2> SUFFICES ASSUME NEW j \in 1..Len(s) PROVE s[j] \in ToSet(r)
      BY <1>1 DEF ToSet
    <2>1. CASE j <= k
      <3>1. j \in 1..Len(r) /\ r[j] = s[j]
        BY <1>1, <2>1
      <3> QED
        BY <1>1, <3>1 DEF ToSet
    <2>2. CASE j > k
      <3>1. j + 1 \in 1..Len(r) /\ r[j + 1] = s[j]
        BY <1>1, <2>2
      <3> QED
        BY <1>1, <3>1 DEF ToSet
    <2> QED
      BY <1>1, <2>1, <2>2
  <1> QED
    BY <1>3, <1>4, <1>5, <1>6

\* A fresh entry is inserted behind the k-th node of the list.
LEMMA Inserted ==
  ASSUME Inv, NEW s \in Seq(Entries), Lists(s), NEW e \in Entries, use[e] = "fresh",
         NEW k \in 0..Len(s), NEW p, p = Node(s, k),
         flink' = [flink EXCEPT ![e] = flink[p], ![p] = e],
         blink' = [blink EXCEPT ![e] = p, ![flink[p]] = e],
         noElements' = noElements + 1,
         use' = [use EXCEPT ![e] = "linked"],
         UNCHANGED <<flushing, head>>,
         NEW r \in Seq(Entries), Len(r) = Len(s) + 1,
         \A j \in 1..Len(r) : r[j] = IF j <= k THEN s[j] ELSE IF j = k + 1 THEN e ELSE s[j - 1]
  PROVE  Inv' /\ Lists(r)'
  <1>1. /\ TypeOK /\ Once(s) /\ ToSet(s) = Linked /\ noElements = Len(s)
        /\ Runs(s, flink, blink) /\ Len(s) \in Nat
        /\ flink \in [Nodes -> Nodes] /\ blink \in [Nodes -> Nodes]
    BY DEF Inv, Lists, TypeOK
  <1>2. e \notin ToSet(s) /\ Linked' = Linked \cup {e} /\ e \in Nodes /\ e # List
    BY <1>1, ListAssumption DEF Linked, TypeOK, Nodes
  <1>3. Once(r) /\ ToSet(r) = Linked'
    <2>1. Once(r) /\ ToSet(r) = ToSet(s) \cup {e}
      BY <1>1, <1>2, InsertedItem
    <2> QED
      BY <1>1, <1>2, <2>1
  <1>4. Runs(r, flink', blink')
    BY <1>1, <1>2, RunsInserted
  <1>5. Lists(r)'
    BY <1>1, <1>3, <1>4 DEF Lists, Runs
  <1>6. p \in Linked \cup {List} /\ flink[p] \in Linked \cup {List} /\ p \in Nodes /\ flink[p] \in Nodes
    <2>1. p \in ToSet(s) \cup {List}
      BY NodesDiffer, <1>1
    <2> QED
      BY <1>1, <2>1, Neighbours DEF Linked, Nodes
  <1>7. TypeOK'
    <2>1. noElements' \in 0..Cardinality(Entries)
      BY <1>1, <1>3, NodesOf
    <2>2. flink' \in [Nodes -> Nodes] /\ blink' \in [Nodes -> Nodes]
      BY <1>1, <1>2, <1>6
    <2> QED
      BY <1>1, <2>1, <2>2 DEF TypeOK, Uses
  <1>8. FreshAlone'
    <2> SUFFICES ASSUME NEW d \in Entries, use'[d] = "fresh"
                 PROVE  flink'[d] = d /\ blink'[d] = d
      BY DEF FreshAlone
    <2>1. use[d] = "fresh" /\ d # e
      BY <1>1 DEF TypeOK
    <2>2. d \notin Linked \cup {List} /\ d \in Nodes
      BY <2>1, ListAssumption DEF Linked, Nodes
    <2>3. flink[d] = d /\ blink[d] = d /\ d # p /\ d # flink[p]
      BY <1>6, <2>1, <2>2 DEF Inv, FreshAlone
    <2> QED
      BY <1>1, <1>2, <1>6, <2>1, <2>2, <2>3
  <1>9. InHand'
    BY <1>1 DEF Inv, InHand, TypeOK
  <1> QED
    BY <1>5, <1>7, <1>8, <1>9 DEF Inv

\* RemoveEntry of the i-th entry.
LEMMA Unlinked ==
  ASSUME Inv, NEW s \in Seq(Entries), Lists(s), NEW i \in 1..Len(s), NEW e, e = s[i],
         RemoveEntry(e),
         use' = [d \in Entries |-> IF d = e THEN "removed" ELSE use[d]],
         flushing' \in BOOLEAN, head' \in Nodes, InHand'
  PROVE  Inv' /\ Lists(RemoveAt(s, i))'
  <1> DEFINE r == RemoveAt(s, i)
  <1>1. /\ TypeOK /\ Once(s) /\ ToSet(s) = Linked /\ noElements = Len(s)
        /\ Runs(s, flink, blink) /\ Len(s) \in Nat
        /\ flink \in [Nodes -> Nodes] /\ blink \in [Nodes -> Nodes]
    BY DEF Inv, Lists, TypeOK
  <1>2. e \in Linked /\ e \in Entries /\ e # List /\ e \in Nodes
    <2>1. DOMAIN s = 1..Len(s)
      OBVIOUS
    <2>2. e \in ToSet(s)
      BY <2>1 DEF ToSet
    <2> QED
      BY <1>1, <2>2, ListAssumption DEF Linked, Nodes
  <1>3. Linked' = Linked \ {e}
    BY <1>2 DEF Linked
  <1>4. /\ r \in Seq(Entries) /\ Len(r) = Len(s) - 1
        /\ \A j \in 1..Len(r) : r[j] = IF j < i THEN s[j] ELSE s[j + 1]
        /\ Once(r) /\ ToSet(r) = Linked'
    BY <1>1, <1>3, MovedItems, DeletedItems
  <1> HIDE DEF r
  <1>5. /\ flink' = [flink EXCEPT ![blink[e]] = flink[e]]
        /\ blink' = [blink EXCEPT ![flink[e]] = blink[e]]
        /\ noElements' = noElements - 1
    BY DEF RemoveEntry
  <1>6. Runs(r, flink', blink')
    BY <1>1, <1>4, <1>5, RunsUnlinked
  <1>7. Lists(r)'
    BY <1>1, <1>4, <1>5, <1>6 DEF Lists, Runs
  <1>8. /\ flink[e] \in Linked \cup {List} /\ blink[e] \in Linked \cup {List}
        /\ flink[e] \in Nodes /\ blink[e] \in Nodes
    BY <1>1, <1>2, Neighbours DEF Linked, Nodes
  <1>9. TypeOK'
    <2>1. noElements' \in 0..Cardinality(Entries)
      BY <1>1, <1>4, <1>5, NodesOf
    <2>2. flink' \in [Nodes -> Nodes] /\ blink' \in [Nodes -> Nodes]
      BY <1>1, <1>5, <1>8
    <2>3. use' \in [Entries -> Uses]
      BY <1>1 DEF TypeOK, Uses
    <2> QED
      BY <2>1, <2>2, <2>3 DEF TypeOK
  <1>10. FreshAlone'
    <2> SUFFICES ASSUME NEW d \in Entries, use'[d] = "fresh"
                 PROVE  flink'[d] = d /\ blink'[d] = d
      BY DEF FreshAlone
    <2>1. use[d] = "fresh" /\ d \notin Linked \cup {List} /\ d \in Nodes
      BY ListAssumption DEF Linked, Nodes
    <2>2. flink[d] = d /\ blink[d] = d /\ d # flink[e] /\ d # blink[e]
      BY <1>8, <2>1 DEF Inv, FreshAlone
    <2> QED
      BY <1>1, <1>5, <1>8, <2>1, <2>2
  <1> QED
    BY <1>4, <1>7, <1>9, <1>10 DEF Inv, r

\* An entry outside the list changes its state.
LEMMA Apart ==
  ASSUME Inv, NEW s \in Seq(Entries), Lists(s),
         NEW e \in Entries, use[e] # "linked", ~flushing \/ e = head,
         NEW u \in {"deleted", "fresh"}, use' = [use EXCEPT ![e] = u],
         \/ UNCHANGED <<flink, blink>>
         \/ flink' = [flink EXCEPT ![e] = e] /\ blink' = [blink EXCEPT ![e] = e],
         u = "fresh" => flink'[e] = e /\ blink'[e] = e,
         UNCHANGED <<noElements, flushing>>, head' = List
  PROVE  Inv' /\ Lists(s)'
  <1>1. /\ TypeOK /\ Once(s) /\ ToSet(s) = Linked /\ noElements = Len(s)
        /\ Runs(s, flink, blink) /\ Len(s) \in Nat
        /\ flink \in [Nodes -> Nodes] /\ blink \in [Nodes -> Nodes]
    BY DEF Inv, Lists, TypeOK
  <1>2. e \notin Linked \cup {List} /\ e \in Nodes
    BY ListAssumption DEF Linked, Nodes
  <1>3. Linked' = Linked
    BY <1>1 DEF Linked, TypeOK
  <1>4. \A m \in Nodes \ {e} : flink'[m] = flink[m] /\ blink'[m] = blink[m]
    BY <1>1
  <1>5. TypeOK'
    <2>1. flink' \in [Nodes -> Nodes] /\ blink' \in [Nodes -> Nodes]
      BY <1>1, <1>2
    <2> QED
      BY <1>1, <2>1 DEF TypeOK, Uses, Nodes
  <1>6. Runs(s, flink', blink')
    <2>1. \A k \in Nat : Node(s, k) \in Nodes \ {e}
      BY <1>1, <1>2, NodesDiffer
    <2> QED
      BY <1>1, <1>4, <2>1 DEF Runs
  <1>7. Lists(s)'
    BY <1>1, <1>3, <1>6 DEF Lists, Runs
  <1>8. FreshAlone'
    <2> SUFFICES ASSUME NEW d \in Entries, use'[d] = "fresh"
                 PROVE  flink'[d] = d /\ blink'[d] = d
      BY DEF FreshAlone
    <2>1. CASE d = e
      BY <1>1, <2>1 DEF TypeOK
    <2>2. CASE d # e
      BY <1>1, <1>4, <2>2 DEF Inv, FreshAlone, TypeOK, Nodes
    <2> QED
      BY <2>1, <2>2
  <1>9. InHand'
    BY DEF Inv, InHand
  <1> QED
    BY <1>5, <1>7, <1>8, <1>9 DEF Inv
-----------------------------------------------------------------------------
\* The first state satisfies the invariant, and is one of ObjectList.
LEMMA InitInv == Init => Inv /\ Objects!OLInit
  <1> SUFFICES ASSUME Init PROVE Inv /\ Objects!OLInit
    OBVIOUS
  <1>1. Linked = {} /\ {e \in Entries : use[e] \in {"fresh", "removed"}} = {}
    BY DEF Init, Linked
  <1>2. Cardinality(Entries) \in Nat
    BY ListAssumption, FS_CardinalityType
  <1>3. TypeOK
    <2>1. flink \in [Nodes -> Nodes] /\ blink \in [Nodes -> Nodes]
      BY DEF Init
    <2>2. use \in [Entries -> Uses] /\ head \in Nodes
      BY DEF Init, Uses, Nodes
    <2>3. noElements = 0 /\ flushing \in BOOLEAN
      BY DEF Init
    <2>4. noElements \in 0 .. Cardinality(Entries)
      BY <1>2, <2>3
    <2> QED
      BY <2>1, <2>2, <2>3, <2>4 DEF TypeOK
  <1>4. << >> \in Seq(Entries) /\ Lists(<< >>)
    <2>1. << >> \in Seq(Entries) /\ Len(<< >>) = 0 /\ DOMAIN << >> = {}
      OBVIOUS
    <2>2. Once(<< >>) /\ ToSet(<< >>) = Linked
      BY <1>1, <2>1 DEF Once, ToSet
    <2>3. Runs(<< >>, flink, blink)
      <3>1. \A k \in Nat : Node(<< >>, k) = List
        BY <2>1 DEF Node
      <3> QED
        BY <2>1, <3>1 DEF Runs, Init, Nodes
    <2> QED
      BY <2>1, <2>2, <2>3 DEF Lists, Init
  <1>5. Iteration = << >>
    BY <1>4, IterationIs
  <1> QED
    BY <1>1, <1>3, <1>4, <1>5 DEF Inv, Init, FreshAlone, InHand, Objects!OLInit

\* What a step may do to the objects.
ObjectStep == [Objects!OLNext]_(Objects!olVars)

\* Every step keeps the invariant, and is a step of ObjectList or a stutter.
LEMMA Step == Inv /\ [Next]_vars => Inv' /\ ObjectStep
  <1> SUFFICES ASSUME Inv, [Next]_vars PROVE Inv' /\ ObjectStep
    OBVIOUS
  <1> DEFINE apart == {e \in Entries : use[e] \in {"fresh", "removed"}}
  <1>1. PICK s \in Seq(Entries) : Lists(s)
    BY DEF Inv
  <1>2. /\ Iteration = s /\ ToSet(s) = Linked /\ Len(s) \in Nat /\ DOMAIN s = 1..Len(s)
        /\ use \in [Entries -> Uses]
    BY <1>1, IterationIs DEF Lists, Inv, TypeOK
  <1>3. ASSUME NEW e \in Entries, Construct(e) PROVE Inv' /\ ObjectStep
    <2>1. flink'[e] = e /\ blink'[e] = e
      BY <1>3 DEF Construct, Inv, TypeOK, Nodes
    <2>2. Inv' /\ Lists(s)'
      BY <1>1, <1>3, <2>1, Apart DEF Construct, Inv, InHand
    <2>3. Iteration' = Iteration
      BY <1>2, <2>2, IterationIs
    <2>4. e \notin apart \cup ToSet(Iteration) /\ apart' = apart \cup {e}
      BY <1>2, <1>3 DEF Construct, Linked
    <2>5. Objects!Make(e)
      BY <2>3, <2>4 DEF Objects!Make, Objects!ToSet, ToSet
    <2> QED
      BY <2>2, <2>5 DEF ObjectStep, Objects!OLNext
  <1>4. ASSUME NEW e \in Entries, Delete(e) PROVE Inv' /\ ObjectStep
    <2>1. Inv' /\ Lists(s)'
      BY <1>1, <1>4, Apart DEF Delete, links, Inv, InHand
    <2>2. Iteration' = Iteration
      BY <1>2, <2>1, IterationIs
    <2>3. e \in apart /\ apart' = apart \ {e}
      BY <1>2, <1>4 DEF Delete
    <2> QED
      BY <2>1, <2>2, <2>3 DEF ObjectStep, Objects!OLNext, Objects!Destroy
  <1>5. ASSUME NEW e \in Entries, InsertTail(e) PROVE Inv' /\ ObjectStep
    <2> DEFINE r == Append(s, e)
    <2>1. /\ r \in Seq(Entries) /\ Len(r) = Len(s) + 1 /\ Len(s) \in 0..Len(s)
          /\ \A j \in 1..Len(r) :
               r[j] = IF j <= Len(s) THEN s[j] ELSE IF j = Len(s) + 1 THEN e ELSE s[j - 1]
      BY <1>2
    <2> HIDE DEF r
    <2>2. blink[List] = Node(s, Len(s)) /\ flink[blink[List]] = List
      <3>1. Len(s) \in 0..Len(s) /\ Node(s, Len(s) + 1) = List
        BY <1>2 DEF Node
      <3> QED
        BY <1>1, <3>1 DEF Lists, Runs
    <2>3. Inv' /\ Lists(r)'
      <3>1. /\ flink' = [flink EXCEPT ![e] = flink[blink[List]], ![blink[List]] = e]
            /\ blink' = [blink EXCEPT ![e] = blink[List], ![flink[blink[List]]] = e]
            /\ use[e] = "fresh" /\ noElements' = noElements + 1
            /\ use' = [use EXCEPT ![e] = "linked"] /\ UNCHANGED <<flushing, head>>
        BY <1>5, <2>2 DEF InsertTail
      <3> QED
        BY <1>1, <2>1, <2>2, <3>1, Inserted
    <2>4. Iteration' = Append(Iteration, e)
      BY <1>2, <2>3, IterationIs DEF r
    <2>5. e \in apart /\ apart' = apart \ {e}
      BY <1>2, <1>5 DEF InsertTail
    <2> QED
      BY <2>3, <2>4, <2>5 DEF ObjectStep, Objects!OLNext, Objects!Join
  <1>6. ASSUME NEW e \in Entries, InsertHead(e) PROVE Inv' /\ ObjectStep
    <2> DEFINE r == <<e>> \o s
    <2>1. /\ r \in Seq(Entries) /\ Len(r) = Len(s) + 1 /\ 0 \in 0..Len(s)
          /\ \A j \in 1..Len(r) :
               r[j] = IF j <= 0 THEN s[j] ELSE IF j = 0 + 1 THEN e ELSE s[j - 1]
      BY <1>2
    <2> HIDE DEF r
    <2>2. List = Node(s, 0)
      BY DEF Node
    <2>3. Inv' /\ Lists(r)'
      <3>1. /\ flink' = [flink EXCEPT ![e] = flink[List], ![List] = e]
            /\ blink' = [blink EXCEPT ![e] = List, ![flink[List]] = e]
            /\ use[e] = "fresh" /\ noElements' = noElements + 1
            /\ use' = [use EXCEPT ![e] = "linked"] /\ UNCHANGED <<flushing, head>>
        BY <1>6 DEF InsertHead
      <3> QED
        BY <1>1, <2>1, <2>2, <3>1, Inserted
    <2>4. Iteration' = <<e>> \o Iteration
      BY <1>2, <2>3, IterationIs DEF r
    <2>5. e \in apart /\ apart' = apart \ {e}
      BY <1>2, <1>6 DEF InsertHead
    <2> QED
      BY <2>3, <2>4, <2>5 DEF ObjectStep, Objects!OLNext, Objects!Join
  <1>7. ASSUME NEW e \in Linked, RemoveEntry(e),
               use' = [d \in Entries |-> IF d = e THEN "removed" ELSE use[d]],
               flushing' \in BOOLEAN, head' \in Nodes, InHand'
        PROVE  Inv' /\ ObjectStep
    <2>1. PICK i \in 1..Len(s) : s[i] = e
      BY <1>2, <1>7 DEF ToSet
    <2>2. Inv' /\ Lists(RemoveAt(s, i))'
      BY <1>1, <1>7, <2>1, Unlinked
    <2>3. Iteration' = RemoveAt(Iteration, i)
      BY <1>2, <2>2, IterationIs
    <2>4. e \in Entries /\ apart' = apart \cup {e}
      BY <1>2, <1>7 DEF Linked
    <2>5. e \in ToSet(Iteration) /\ i \in DOMAIN Iteration /\ Iteration[i] = e
      BY <1>2, <1>7, <2>1
    <2>6. Objects!Leave(e)
      BY <2>3, <2>4, <2>5 DEF Objects!Leave, Objects!ToSet, ToSet, Objects!RemoveAt, RemoveAt
    <2> QED
      BY <2>2, <2>4, <2>6 DEF ObjectStep, Objects!OLNext
  <1>8. ASSUME NEW e \in Entries, Take(e) PROVE Inv' /\ ObjectStep
    <2>1. e \in Linked /\ RemoveEntry(e)
      BY <1>8 DEF Take, Linked
    <2>2. use' = [d \in Entries |-> IF d = e THEN "removed" ELSE use[d]]
      BY <1>2, <1>8 DEF Take
    <2>3. InHand' /\ flushing' \in BOOLEAN /\ head' \in Nodes
      BY <1>8 DEF Take, Inv, InHand, TypeOK
    <2> QED
      BY <1>7, <2>1, <2>2, <2>3
  <1>9. CASE FlushRemove
    <2>1. flink[List] = Node(s, 1) /\ Len(s) # 0
      <3>1. Node(s, 0) = List /\ 0 \in 0..Len(s) /\ 0 + 1 = 1
        BY <1>2 DEF Node
      <3> QED
        BY <1>1, <1>9, <3>1 DEF Lists, Runs, FlushRemove, IsListEmpty
    <2>2. flink[List] \in Linked
      <3>1. 1 \in 1..Len(s)
        BY <1>2, <2>1
      <3> QED
        BY <1>2, <2>1, <3>1 DEF Node, ToSet
    <2>3. /\ head' = flink[List] /\ head' \in Entries /\ use'[head'] = "removed"
          /\ flushing' = flushing /\ flushing
      BY <1>9, <2>2 DEF FlushRemove, Linked
    <2>4. InHand' /\ flushing' \in BOOLEAN /\ head' \in Nodes
      BY <2>3 DEF InHand, Inv, TypeOK, Nodes
    <2> QED
      BY <1>7, <1>9, <2>2, <2>4 DEF FlushRemove
  <1>10. CASE FlushDelete
    <2>1. head \in Entries /\ use[head] = "removed"
      BY <1>10 DEF FlushDelete, Inv, InHand
    <2>2. Inv' /\ Lists(s)'
      BY <1>1, <1>10, <2>1, Apart DEF FlushDelete, links, Inv, InHand
    <2>3. Iteration' = Iteration
      BY <1>2, <2>2, IterationIs
    <2>4. head \in apart /\ apart' = apart \ {head}
      BY <1>2, <1>10, <2>1 DEF FlushDelete
    <2> QED
      BY <2>1, <2>2, <2>3, <2>4 DEF ObjectStep, Objects!OLNext, Objects!Destroy
  <1>11. ASSUME UNCHANGED <<links, use>>, InHand', flushing' \in BOOLEAN, head' \in Nodes
         PROVE  Inv' /\ ObjectStep
    <2>1. Lists(s)'
      BY <1>1, <1>11 DEF Lists, Runs, Linked, links
    <2>2. Iteration' = Iteration
      BY <1>2, <2>1, IterationIs
    <2>3. Inv'
      BY <1>1, <1>11, <2>1 DEF Inv, TypeOK, FreshAlone, links
    <2>4. UNCHANGED Objects!olVars
      BY <1>11, <2>2 DEF Objects!olVars
    <2> QED
      BY <2>3, <2>4 DEF ObjectStep
  <1>12. CASE BeginFlush
    BY <1>11, <1>12 DEF BeginFlush, Inv, InHand, TypeOK
  <1>13. CASE EndFlush
    BY <1>11, <1>13 DEF EndFlush, Inv, InHand, TypeOK, links
  <1>14. CASE UNCHANGED vars
    BY <1>11, <1>14 DEF vars, Inv, InHand, TypeOK, links
  <1>15. CASE RemoveTail \/ RemoveHead
    BY <1>8, <1>15 DEF RemoveTail, RemoveHead
  <1> QED
    BY <1>3, <1>4, <1>5, <1>6, <1>8, <1>9, <1>10, <1>12, <1>13, <1>14, <1>15
    DEF Next, Flush
-----------------------------------------------------------------------------
\* The invariant holds whatever the callers do.
THEOREM Invariance == Spec => []Inv
  BY InitInv, Step, PTL DEF Spec

\* Every variable keeps its type, for any finite set of entries: noElements,
\* a size_t, never wraps below zero nor counts more entries than there are.
THEOREM TypeCorrect == Spec => []TypeOK
  <1>1. Inv => TypeOK
    BY DEF Inv
  <1> QED
    BY <1>1, Invariance, PTL

\* The assertions of CheckListEntry hold and no link of the list dangles,
\* for lists of any length.
THEOREM LinksAlwaysSound == Spec => []LinksSound
  <1>1. Inv => LinksSound
    <2> SUFFICES ASSUME Inv PROVE LinksSound
      OBVIOUS
    <2>1. PICK s \in Seq(Entries) : Lists(s)
      BY DEF Inv
    <2>2. \A n \in Linked \cup {List} :
            /\ flink[n] \in Linked \cup {List} /\ blink[n] \in Linked \cup {List}
            /\ CheckListEntry(n)
      BY <2>1, Neighbours DEF Lists, CheckListEntry
    <2>3. \A e \in Entries : use[e] = "fresh" => CheckListEntry(e)
      BY DEF Inv, FreshAlone, CheckListEntry
    <2> QED
      BY <2>2, <2>3 DEF LinksSound, AssertionsHold, NothingDangling
  <1> QED
    BY <1>1, Invariance, PTL

\* What Flush and the callers of an Iterator go by.
Agree ==
    /\ noElements = Len(Iteration)
    /\ ToSet(Iteration) = Linked /\ Once(Iteration)
    /\ IsListEmpty <=> Linked = {}
    /\ Linked = {} <=> flink[List] = List
    /\ Linked = {} <=> blink[List] = List

\* The invariant says that it agrees.
LEMMA Agreed == Inv => Agree
  <1> SUFFICES ASSUME Inv PROVE Agree
    OBVIOUS
  <1>1. PICK s \in Seq(Entries) : Lists(s)
    BY DEF Inv
  <1>2. /\ Iteration = s /\ ToSet(s) = Linked /\ Once(s) /\ noElements = Len(s)
        /\ Len(s) \in Nat /\ DOMAIN s = 1..Len(s)
    BY <1>1, IterationIs DEF Lists
  <1>3. IsListEmpty <=> Linked = {}
    <2>1. Len(s) = 0 => ToSet(s) = {}
      BY <1>2 DEF ToSet
    <2>2. Len(s) # 0 => s[1] \in ToSet(s)
      BY <1>2 DEF ToSet
    <2> QED
      BY <1>2, <2>1, <2>2 DEF IsListEmpty
  <1>4. List \notin Linked
    BY ListAssumption DEF Linked
  <1>5. flink[List] = Node(s, 1) /\ blink[List] = Node(s, Len(s))
    <2>1. /\ 0 \in 0..Len(s) /\ Node(s, 0) = List /\ 0 + 1 = 1
          /\ Len(s) \in 0..Len(s) /\ Node(s, Len(s) + 1) = List
      BY <1>2 DEF Node
    <2> QED
      BY <1>1, <2>1 DEF Lists, Runs
  <1>6. CASE Len(s) = 0
    BY <1>2, <1>3, <1>5, <1>6 DEF IsListEmpty, Node, Agree
  <1>7. CASE Len(s) # 0
    <2>1. 1 \in DOMAIN s /\ Len(s) \in DOMAIN s
      BY <1>2, <1>7
    <2>2. flink[List] \in Linked /\ blink[List] \in Linked
      BY <1>2, <1>5, <2>1 DEF Node, ToSet
    <2> QED
      BY <1>2, <1>3, <1>4, <2>2 DEF Agree
  <1> QED
    BY <1>6, <1>7

\* An iteration passes each linked entry once and nothing else, the count is
\* how many there are, and it is zero exactly when the list is its own
\* neighbour on both sides.
THEOREM CountMeetsRing == Spec => []Agree
  BY Agreed, Invariance, PTL

\* What is left to do of a Flush: two steps for each entry, one for the entry
\* that was removed and is to be deleted.
FlushLeft == 2 * noElements + IF head = List THEN 0 ELSE 1

\* A step while Flush runs leaves less to do, or is its last, which leaves no
\* entry linked and the list as its own neighbour.
CountsDown ==
    flushing =>
      /\ FlushLeft \in Nat
      /\ \/ flushing' /\ FlushLeft' < FlushLeft
         \/ /\ ~flushing' /\ FlushLeft = 0
            /\ Linked' = {} /\ flink'[List] = List /\ blink'[List] = List

\* Flush goes by the count and has no other bound: whatever the number of
\* entries, it is over after FlushLeft + 1 steps, and not before the list is
\* empty.  (Always one of its three steps can be taken, by their guards.)
THEOREM FlushCountsDown == Spec => [][CountsDown]_vars
  <1>1. ASSUME Inv, Next, flushing PROVE CountsDown
    <2>1. noElements \in Nat /\ flink[List] \in Nodes
      <3>1. Cardinality(Entries) \in Nat
        BY ListAssumption, FS_CardinalityType
      <3> QED
        BY <1>1, <3>1 DEF Inv, TypeOK, Nodes
    <2>2. FlushLeft \in Nat
      BY <2>1 DEF FlushLeft
    <2>3. CASE FlushRemove
      <3>1. noElements' = noElements - 1 /\ flushing' /\ head = List
        BY <2>3 DEF FlushRemove, RemoveEntry
      <3> QED
        BY <2>1, <2>2, <3>1 DEF FlushLeft, CountsDown
    <2>4. CASE FlushDelete
      <3>1. noElements' = noElements /\ flushing' /\ head # List /\ head' = List
        BY <2>4 DEF FlushDelete, links
      <3> QED
        BY <2>1, <2>2, <3>1 DEF FlushLeft, CountsDown
    <2>5. CASE EndFlush
      <3>1. ~flushing' /\ head = List /\ IsListEmpty /\ UNCHANGED <<links, use>>
        BY <2>5 DEF EndFlush
      <3>2. FlushLeft = 0
        BY <2>1, <3>1 DEF FlushLeft, IsListEmpty
      <3>3. Linked = {} /\ flink[List] = List /\ blink[List] = List
        BY <1>1, <3>1, Agreed DEF Agree
      <3>4. Linked' = {} /\ flink' = flink /\ blink' = blink
        BY <3>1, <3>3 DEF Linked, links
      <3> QED
        BY <2>2, <3>1, <3>2, <3>3, <3>4 DEF CountsDown
    <2> QED
      BY <1>1, <2>3, <2>4, <2>5
      DEF Next, Flush, Construct, Delete, InsertTail, InsertHead, Take, RemoveTail,
          RemoveHead, BeginFlush
  <1>2. Inv /\ [Next]_vars => [CountsDown]_vars
    BY <1>1 DEF CountsDown
  <1> QED
    BY <1>2, Invariance, PTL DEF Spec

\* Iterating shows a list of objects that the operations change as ObjectList
\* promises, for any finite set of entries.
THEOREM Refinement == Spec => ImplementsObjectList
  <1>1. Inv /\ [Next]_vars => ObjectStep
    BY Step
  <1>2. Init => Objects!OLInit
    BY InitInv
  <1> QED
    BY <1>1, <1>2, Invariance, PTL
    DEF Spec, ImplementsObjectList, Objects!OLSpec, ObjectStep
=============================================================================
