---------------------------- MODULE RibTrie_lemmas ----------------------------
(***************************************************************************)
(* What the operators of RibTrie do to the nodes of a trie, one by one:    *)
(* which name has which ancestors, how a walk grows the trie, how pruning  *)
(* shrinks it, what both do to the counters, and in which order a sweep    *)
(* comes by the nodes.                                                     *)
(***************************************************************************)
EXTENDS RibTrie, PathNode_proofs, FunctionTheorems

(* The entry of the root array, and the node above another.  *)
Root(o) == <<o, <<>>>>
Parent(n) == <<n[1], SubSeq(n[2], 1, Len(n[2]) - 1)>>

-----------------------------------------------------------------------------
(* Names of nodes *)

(* Depth is a number. *)
LEMMA DepthType == Depth \in Nat
BY TrieAssumption DEF Depth

(* The strings of bits are the short sequences of bits. *)
LEMMA BitStringIs ==
  \A s : s \in BitString <=> s \in Seq({0, 1}) /\ Len(s) \in 0..Depth
<1>1. ASSUME NEW s \in BitString
      PROVE  s \in Seq({0, 1}) /\ Len(s) \in 0..Depth
  <2>1. PICK k \in 0..Depth : s \in [1..k -> {0, 1}]
    BY DEF BitString, Bits
  <2>2. k \in Nat
    BY DepthType
  <2>3. s \in Seq({0, 1}) /\ Len(s) = k
    BY <2>1, <2>2
  <2> QED BY <2>1, <2>3
<1>2. ASSUME NEW s, s \in Seq({0, 1}), Len(s) \in 0..Depth
      PROVE  s \in BitString
  <2>1. s \in [1..Len(s) -> {0, 1}]
    BY <1>2, LenProperties
  <2> QED BY <1>2, <2>1 DEF BitString, Bits
<1> QED BY <1>1, <1>2

(* A name is a pair of an octet and a string of bits. *)
LEMMA NodeIdIs ==
  ASSUME NEW n \in NodeId
  PROVE  /\ n = <<n[1], n[2]>> /\ n[1] \in Octet
         /\ n[2] \in BitString /\ n[2] \in Seq({0, 1})
         /\ Len(n[2]) \in Nat /\ Len(n[2]) <= Depth
         /\ n[2] = <<>> <=> Len(n[2]) = 0
<1>1. n = <<n[1], n[2]>> /\ n[1] \in Octet /\ n[2] \in BitString
  BY DEF NodeId
<1>2. n[2] \in Seq({0, 1}) /\ Len(n[2]) \in 0..Depth
  BY <1>1, BitStringIs
<1>3. n[2] = <<>> <=> Len(n[2]) = 0
  BY <1>2, EmptySeq
<1> QED BY <1>1, <1>2, <1>3, DepthType

(* The first bits of a string of bits. *)
LEMMA FirstBits ==
  ASSUME NEW s \in Seq({0, 1}), NEW k \in 0..Len(s)
  PROVE  /\ SubSeq(s, 1, k) \in Seq({0, 1})
         /\ Len(SubSeq(s, 1, k)) = k
         /\ \A i \in 1..k : SubSeq(s, 1, k)[i] = s[i]
<1>1. Len(s) \in Nat /\ \A i \in 1..k : s[i] \in {0, 1}
  BY LenProperties, ElementOfSeq
<1>2. k \in Int /\ 1 \in Int
  OBVIOUS
<1>3. /\ SubSeq(s, 1, k) \in Seq({0, 1})
      /\ Len(SubSeq(s, 1, k)) = IF 1 <= k THEN k - 1 + 1 ELSE 0
      /\ \A i \in 1..(k - 1 + 1) : SubSeq(s, 1, k)[i] = s[1 + i - 1]
  <2>1. \A i \in 1..k : s[i] \in {0, 1}
    BY <1>1
  <2> QED BY ONLY <1>2, <2>1, SubSeqProperties
<1>4. \A i \in 1..k : i \in 1..(k - 1 + 1) /\ 1 + i - 1 = i
  BY <1>1
<1> QED BY <1>1, <1>3, <1>4

(* The first of the first bits, and one bit more. *)
LEMMA FirstOfFirst ==
  ASSUME NEW s \in Seq({0, 1}), NEW k \in 0..Len(s)
  PROVE  /\ \A j \in 0..k : SubSeq(SubSeq(s, 1, k), 1, j) = SubSeq(s, 1, j)
         /\ k < Len(s) => /\ s[k + 1] \in {0, 1}
                          /\ SubSeq(s, 1, k + 1) = Append(SubSeq(s, 1, k), s[k + 1])
         /\ SubSeq(s, 1, Len(s)) = s
         /\ SubSeq(s, 1, 0) = <<>>
<1>0. Len(s) \in Nat /\ \A i \in 1..Len(s) : s[i] \in {0, 1}
  BY LenProperties, ElementOfSeq
<1>1. ASSUME NEW j \in 0..k
      PROVE  SubSeq(SubSeq(s, 1, k), 1, j) = SubSeq(s, 1, j)
  <2> DEFINE t == SubSeq(s, 1, k)
  <2>1. t \in Seq({0, 1}) /\ Len(t) = k /\ \A i \in 1..k : t[i] = s[i]
    BY FirstBits
  <2>2. j \in 0..Len(t) /\ j \in 0..Len(s)
    BY <1>0, <2>1
  <2> HIDE DEF t
  <2>3. /\ SubSeq(t, 1, j) \in Seq({0, 1}) /\ Len(SubSeq(t, 1, j)) = j
        /\ \A i \in 1..j : SubSeq(t, 1, j)[i] = t[i]
    BY <2>1, <2>2, FirstBits
  <2>4. /\ SubSeq(s, 1, j) \in Seq({0, 1}) /\ Len(SubSeq(s, 1, j)) = j
        /\ \A i \in 1..j : SubSeq(s, 1, j)[i] = s[i]
    BY <2>2, FirstBits
  <2>5. \A i \in 1..j : SubSeq(t, 1, j)[i] = SubSeq(s, 1, j)[i]
    <3> TAKE i \in 1..j
    <3>1. i \in 1..k
      BY <1>0
    <3> QED BY <2>1, <2>3, <2>4, <3>1
  <2>6. SubSeq(t, 1, j) = SubSeq(s, 1, j)
    BY <2>3, <2>4, <2>5, SeqEqual
  <2> QED BY <2>6 DEF t
<1>2. ASSUME k < Len(s)
      PROVE  /\ s[k + 1] \in {0, 1}
             /\ SubSeq(s, 1, k + 1) = Append(SubSeq(s, 1, k), s[k + 1])
  <2> DEFINE t == SubSeq(s, 1, k)
             u == SubSeq(s, 1, k + 1)
             v == Append(t, s[k + 1])
  <2>1. k \in Nat /\ k + 1 \in 0..Len(s) /\ k + 1 \in 1..Len(s)
    BY <1>0, <1>2
  <2>2. s[k + 1] \in {0, 1}
    BY <1>0, <2>1
  <2>3. t \in Seq({0, 1}) /\ Len(t) = k /\ \A i \in 1..k : t[i] = s[i]
    BY FirstBits
  <2>4. u \in Seq({0, 1}) /\ Len(u) = k + 1 /\ \A i \in 1..(k + 1) : u[i] = s[i]
    BY <2>1, FirstBits
  <2> HIDE DEF t, u
  <2>5. /\ v \in Seq({0, 1}) /\ Len(v) = k + 1
        /\ \A i \in 1..k : v[i] = t[i]
        /\ v[k + 1] = s[k + 1]
    BY <2>2, <2>3, AppendProperties
  <2> HIDE DEF v
  <2>6. \A i \in 1..(k + 1) : u[i] = v[i]
    <3> TAKE i \in 1..(k + 1)
    <3>1. i = k + 1 \/ i \in 1..k
      BY <2>1
    <3> QED BY <2>3, <2>4, <2>5, <3>1
  <2>7. u = v
    BY <2>4, <2>5, <2>6, SeqEqual
  <2> QED BY <2>2, <2>7 DEF t, u, v
<1>3. SubSeq(s, 1, Len(s)) = s
  BY SubSeqFull
<1>4. SubSeq(s, 1, 0) = <<>>
  BY SubSeqEmpty
<1> QED BY <1>1, <1>2, <1>3, <1>4

(* The ancestors of a node: its octet's entry first, itself last, each one   *)
(* bit below the one before.                                                 *)
LEMMA AncestorOf ==
  ASSUME NEW o \in Octet, NEW key \in BitString, NEW k \in 0..Len(key)
  PROVE  /\ Anc(o, key, k) \in NodeId
         /\ Anc(o, key, k)[1] = o /\ Len(Anc(o, key, k)[2]) = k
         /\ Anc(o, key, 0) = Root(o)
         /\ Anc(o, key, Len(key)) = <<o, key>>
         /\ k # 0 => Parent(Anc(o, key, k)) = Anc(o, key, k - 1)
         /\ k < Len(key) => Anc(o, key, k + 1) = Child(Anc(o, key, k), key[k + 1])
<1>1. key \in Seq({0, 1}) /\ Len(key) \in 0..Depth /\ Depth \in Nat
  BY BitStringIs, DepthType
<1>2. SubSeq(key, 1, k) \in Seq({0, 1}) /\ Len(SubSeq(key, 1, k)) = k
  BY <1>1, FirstBits
<1>3. SubSeq(key, 1, k) \in BitString
  <2>1. k \in 0..Depth
    BY <1>1
  <2> QED BY <1>2, <2>1, BitStringIs
<1>4. SubSeq(key, 1, Len(key)) = key /\ SubSeq(key, 1, 0) = <<>>
  BY <1>1, FirstOfFirst
<1>5. k # 0 => SubSeq(SubSeq(key, 1, k), 1, k - 1) = SubSeq(key, 1, k - 1)
  BY <1>1, FirstOfFirst
<1>6. k < Len(key) => SubSeq(key, 1, k + 1) = Append(SubSeq(key, 1, k), key[k + 1])
  BY <1>1, FirstOfFirst
<1>7. /\ Anc(o, key, k) \in NodeId
      /\ Anc(o, key, k)[1] = o /\ Len(Anc(o, key, k)[2]) = k
  BY <1>2, <1>3 DEF Anc, NodeId
<1>8. Anc(o, key, 0) = Root(o) /\ Anc(o, key, Len(key)) = <<o, key>>
  BY <1>4 DEF Anc, Root
<1>9. k # 0 => Parent(Anc(o, key, k)) = Anc(o, key, k - 1)
  BY <1>2, <1>5 DEF Anc, Parent
<1>10. k < Len(key) => Anc(o, key, k + 1) = Child(Anc(o, key, k), key[k + 1])
  BY <1>6 DEF Anc, Child
<1> QED BY <1>7, <1>8, <1>9, <1>10

(* Every name but an octet's entry is that of a child of its parent.         *)
LEMMA ParentOf ==
  ASSUME NEW n \in NodeId, n[2] # <<>>
  PROVE  /\ Parent(n) \in NodeId /\ Parent(n)[1] = n[1]
         /\ Len(Parent(n)[2]) = Len(n[2]) - 1
         /\ n \in {Child(Parent(n), 0), Child(Parent(n), 1)}
<1>1. /\ n = <<n[1], n[2]>> /\ n[1] \in Octet /\ n[2] \in BitString
      /\ n[2] \in Seq({0, 1}) /\ Len(n[2]) \in Nat /\ Len(n[2]) # 0
  BY NodeIdIs
<1> DEFINE k == Len(n[2]) - 1
<1>2. k \in 0..Len(n[2]) /\ k < Len(n[2]) /\ k + 1 = Len(n[2])
  BY <1>1
<1>3. Parent(n) = Anc(n[1], n[2], k)
  BY DEF Parent, Anc
<1>4. /\ Anc(n[1], n[2], k) \in NodeId /\ Anc(n[1], n[2], k)[1] = n[1]
      /\ Len(Anc(n[1], n[2], k)[2]) = k
      /\ Anc(n[1], n[2], Len(n[2])) = <<n[1], n[2]>>
      /\ Anc(n[1], n[2], k + 1) = Child(Anc(n[1], n[2], k), n[2][k + 1])
  BY <1>1, <1>2, AncestorOf
<1>5. n[2][k + 1] \in {0, 1}
  BY <1>1, <1>2, FirstOfFirst
<1> HIDE DEF k
<1>6. n = Child(Parent(n), n[2][k + 1])
  BY <1>1, <1>2, <1>3, <1>4
<1> QED BY <1>2, <1>3, <1>4, <1>5, <1>6

(* A child is one bit below its parent. *)
LEMMA ChildOf ==
  ASSUME NEW n \in NodeId, NEW b \in {0, 1}
  PROVE  /\ Child(n, b)[1] = n[1] /\ Child(n, b)[2] # <<>>
         /\ Child(n, b)[2] \in Seq({0, 1})
         /\ Len(Child(n, b)[2]) = Len(n[2]) + 1
         /\ Parent(Child(n, b)) = n
         /\ Len(n[2]) < Depth => Child(n, b) \in NodeId
<1>1. /\ n = <<n[1], n[2]>> /\ n[1] \in Octet /\ n[2] \in BitString
      /\ n[2] \in Seq({0, 1}) /\ Len(n[2]) \in Nat
  BY NodeIdIs
<1> DEFINE s == Append(n[2], b)
           t == SubSeq(s, 1, Len(n[2]))
<1>2. /\ s \in Seq({0, 1}) /\ Len(s) = Len(n[2]) + 1 /\ s # <<>>
      /\ \A i \in 1..Len(n[2]) : s[i] = n[2][i]
  BY <1>1, AppendProperties
<1> HIDE DEF s
<1>3. Len(n[2]) \in 0..Len(s)
  BY <1>1, <1>2
<1>4. t \in Seq({0, 1}) /\ Len(t) = Len(n[2]) /\ \A i \in 1..Len(n[2]) : t[i] = s[i]
  BY <1>2, <1>3, FirstBits
<1> HIDE DEF t
<1>5. t = n[2]
  BY <1>1, <1>2, <1>4, SeqEqual
<1>6. Child(n, b) = <<n[1], s>>
  BY DEF Child, s
<1>7. Len(s) - 1 = Len(n[2])
  BY <1>1, <1>2
<1>8. Parent(Child(n, b)) = <<n[1], t>>
  BY <1>6, <1>7 DEF Parent, t
<1>9. Len(n[2]) < Depth => s \in BitString
  BY <1>1, <1>2, BitStringIs, DepthType
<1> QED BY <1>1, <1>2, <1>5, <1>6, <1>8, <1>9 DEF NodeId

(* A node's children are the nodes that it is the parent of. *)
LEMMA ChildrenAre ==
  ASSUME NEW T, DOMAIN T \subseteq NodeId, NEW n \in NodeId
  PROVE  Children(T, n) = {m \in DOMAIN T : m[2] # <<>> /\ Parent(m) = n}
<1>1. ASSUME NEW m \in Children(T, n)
      PROVE  m \in DOMAIN T /\ m[2] # <<>> /\ Parent(m) = n
  <2>1. m \in DOMAIN T /\ (m = Child(n, 0) \/ m = Child(n, 1))
    BY <1>1 DEF Children
  <2> QED BY <2>1, ChildOf
<1>2. ASSUME NEW m \in DOMAIN T, m[2] # <<>>, Parent(m) = n
      PROVE  m \in Children(T, n)
  <2>1. m \in {Child(n, 0), Child(n, 1)}
    BY <1>2, ParentOf
  <2> QED BY <2>1 DEF Children
<1> QED BY <1>1, <1>2

-----------------------------------------------------------------------------
(* Tries *)

(* The nodes are named, finitely many, each with one path for a path ID, and *)
(* below octets that insertUnlocked takes.                                   *)
Sound(T) ==
  /\ T \in [DOMAIN T -> Tidy]
  /\ DOMAIN T \subseteq NodeId /\ IsFiniteSet(DOMAIN T)
  /\ \A n \in DOMAIN T : Accepts(n[1]) /\ \A e \in Entries(T[n]) : e.pathID \in PathID

(* Every node has the node above it. *)
Hanging(T) == \A n \in DOMAIN T : n[2] # <<>> => Parent(n) \in DOMAIN T

(* The nodes that hold no path and lead to none. *)
Loose(T) == {n \in DOMAIN T : ~hasPath(T[n]) /\ Children(T, n) = {}}

(* The prefixes, and what is stored for each. *)
Routes(T) == {n \in DOMAIN T : hasPath(T[n])}
PathsAt(T, n) == IF n \in DOMAIN T THEN Entries(T[n]) ELSE {}

(* The four counters describe the trie. *)
PathTotal(T) == Total([n \in DOMAIN T |-> pathsCount(T[n])], DOMAIN T)
AtMask(T, m) == {n \in Routes(T) : MaskOf(n) = m}

Counted(T, c, p, k, ms) ==
  /\ c = Cardinality(Routes(T))
  /\ p = PathTotal(T)
  /\ k = Cardinality(DOMAIN T)
  /\ ms = [m \in MinMask .. MaxMask |-> Cardinality(AtMask(T, m))]

(* A node has paths, a path count and a flag all at once. *)
LEMMA NodeHolds ==
  ASSUME NEW n \in Tidy
  PROVE  /\ pathsCount(n) \in Nat
         /\ hasPath(n) <=> pathsCount(n) # 0
         /\ hasPath(n) <=> Entries(n) # {}
<1>1. n \in Node
  BY DEF Tidy
<1>2. pathsCount(n) \in Nat /\ (hasPath(n) <=> pathsCount(n) # 0)
  BY <1>1, OverwrittenRange
<1>3. Entries(n) = {allPaths(n)[i] : i \in 1..pathsCount(n)}
  BY <1>1, EntriesOf
<1> QED BY <1>2, <1>3

(* Two paths of one node with one path ID are one. *)
LEMMA OnePathPerID ==
  ASSUME NEW n \in Tidy
  PROVE  \A e, f \in Entries(n) : e.pathID = f.pathID => e = f
<1>1. \A i, j \in DOMAIN allPaths(n) :
        allPaths(n)[i].pathID = allPaths(n)[j].pathID => i = j
  BY DEF Tidy, UniqueIDs
<1>2. Entries(n) = {allPaths(n)[i] : i \in DOMAIN allPaths(n)}
  BY DEF Entries, ToSet
<1> QED BY <1>1, <1>2

(* A new node holds nothing. *)
LEMMA EmptyNodeIs == EmptyNode \in Tidy /\ ~hasPath(EmptyNode) /\ Entries(EmptyNode) = {}
<1>1. EmptyNode \in Node /\ ~hasPath(EmptyNode)
  <2>1. <<>> \in Seq(PathEntry)
    BY EmptySeq
  <2> QED BY <2>1 DEF EmptyNode, Node, NodeFields, hasPath
<1>2. allPaths(EmptyNode) = <<>>
  BY <1>1 DEF allPaths
<1>3. UniqueIDs(EmptyNode)
  BY <1>2 DEF UniqueIDs
<1>4. EmptyNode \in Tidy
  BY <1>1, <1>3 DEF Tidy
<1> QED BY <1>1, <1>4, NodeHolds

(* All ancestors of a node exist. *)
LEMMA AncestorsIn ==
  ASSUME NEW T, Sound(T), Hanging(T), NEW n \in DOMAIN T
  PROVE  Ancestors(n[1], n[2]) \subseteq DOMAIN T
<1>1. n \in NodeId
  BY DEF Sound
<1>2. /\ n = <<n[1], n[2]>> /\ n[1] \in Octet /\ n[2] \in BitString
      /\ Len(n[2]) \in Nat
  BY <1>1, NodeIdIs
<1> DEFINE m == Len(n[2])
           P == {i \in 0..m : Anc(n[1], n[2], m - i) \in DOMAIN T}
<1>3. 0 \in P
  <2>1. m \in 0..m /\ 0 \in 0..m /\ m - 0 = m
    BY <1>2
  <2>2. Anc(n[1], n[2], m) = n
    BY <1>2, <2>1, AncestorOf
  <2> QED BY <2>1, <2>2
<1>4. ASSUME NEW i \in 1..m, i - 1 \in P
      PROVE  i \in P
  <2> DEFINE k == m - (i - 1)
  <2>1. k \in 0..m /\ k # 0 /\ k - 1 = m - i /\ i \in 0..m /\ k \in Nat
    BY <1>2
  <2>2. Anc(n[1], n[2], k) \in DOMAIN T
    BY <1>4
  <2> HIDE DEF k
  <2>3. /\ Len(Anc(n[1], n[2], k)[2]) = k /\ Anc(n[1], n[2], k) \in NodeId
        /\ Parent(Anc(n[1], n[2], k)) = Anc(n[1], n[2], k - 1)
    BY <1>2, <2>1, AncestorOf
  <2>4. Anc(n[1], n[2], k)[2] # <<>>
    BY <2>1, <2>3, NodeIdIs
  <2>5. Anc(n[1], n[2], k - 1) \in DOMAIN T
    BY <2>2, <2>3, <2>4 DEF Hanging
  <2> QED BY <2>1, <2>5
<1> HIDE DEF P
<1>5. \A i \in 0..m : i \in P
  BY <1>2, <1>3, <1>4, IntervalInduct
<1>6. ASSUME NEW k \in 0..m
      PROVE  Anc(n[1], n[2], k) \in DOMAIN T
  <2>1. m - k \in 0..m /\ m - (m - k) = k
    BY <1>2
  <2>2. m - k \in P
    BY <1>5, <2>1
  <2> QED BY <2>1, <2>2 DEF P
<1> QED BY <1>6 DEF Ancestors

(* The counters are integers, and pathCount a sum that may be taken in any   *)
(* order.                                                                    *)
LEMMA CountsType ==
  ASSUME NEW T, Sound(T)
  PROVE  /\ PathTotal(T) \in Int
         /\ Routes(T) \subseteq DOMAIN T /\ IsFiniteSet(Routes(T))
         /\ Cardinality(Routes(T)) \in Nat /\ Cardinality(DOMAIN T) \in Nat
         /\ \A m : IsFiniteSet(AtMask(T, m)) /\ Cardinality(AtMask(T, m)) \in Nat
<1>1. IsFiniteSet(DOMAIN T) /\ \A n \in DOMAIN T : T[n] \in Tidy
  BY DEF Sound
<1>2. \A n \in DOMAIN T : [x \in DOMAIN T |-> pathsCount(T[x])][n] \in Int
  BY <1>1, NodeHolds
<1>3. PathTotal(T) \in Int
  BY <1>1, <1>2, TotalOf DEF PathTotal
<1>4. Routes(T) \subseteq DOMAIN T
  BY DEF Routes
<1>5. \A m : AtMask(T, m) \subseteq DOMAIN T
  BY <1>4 DEF AtMask
<1> QED BY <1>1, <1>3, <1>4, <1>5, FS_Subset, FS_CardinalityType

(* Nodes without a path may go: nothing is stored there. *)
LEMMA WithoutBare ==
  ASSUME NEW T, Sound(T), NEW gone \in SUBSET DOMAIN T,
         \A n \in gone : ~hasPath(T[n])
  PROVE  /\ Sound(Without(T, gone))
         /\ DOMAIN Without(T, gone) = DOMAIN T \ gone
         /\ \A n \in DOMAIN T \ gone : Without(T, gone)[n] = T[n]
         /\ \A n : PathsAt(Without(T, gone), n) = PathsAt(T, n)
         /\ Routes(Without(T, gone)) = Routes(T)
         /\ PathTotal(Without(T, gone)) = PathTotal(T)
<1> DEFINE R == Without(T, gone)
<1>1. DOMAIN R = DOMAIN T \ gone /\ \A n \in DOMAIN T \ gone : R[n] = T[n]
  BY DEF Without
<1>2. Sound(R)
  <2>1. R \in [DOMAIN R -> Tidy]
    BY DEF Without, Sound
  <2>2. DOMAIN R \subseteq NodeId /\ IsFiniteSet(DOMAIN R)
    BY <1>1, FS_Subset DEF Sound
  <2>3. \A n \in DOMAIN R : Accepts(n[1]) /\ \A e \in Entries(R[n]) : e.pathID \in PathID
    BY <1>1 DEF Sound
  <2> QED BY <2>1, <2>2, <2>3 DEF Sound
<1>3. \A n \in gone : Entries(T[n]) = {} /\ pathsCount(T[n]) = 0
  <2> TAKE n \in gone
  <2>1. T[n] \in Tidy
    BY DEF Sound
  <2> QED BY <2>1, NodeHolds
<1> HIDE DEF R
<1>4. \A n : PathsAt(R, n) = PathsAt(T, n)
  BY <1>1, <1>3 DEF PathsAt
<1>5. Routes(R) = Routes(T)
  BY <1>1 DEF Routes
<1>6. PathTotal(R) = PathTotal(T)
  <2> DEFINE f == [n \in DOMAIN T |-> pathsCount(T[n])]
             g == [n \in DOMAIN R |-> pathsCount(R[n])]
  <2>1. IsFiniteSet(DOMAIN T) /\ \A n \in DOMAIN T : T[n] \in Tidy
    BY DEF Sound
  <2>2. \A n \in DOMAIN T : f[n] \in Int
    BY <2>1, NodeHolds
  <2>3. DOMAIN R \in SUBSET DOMAIN T /\ \A n \in DOMAIN T \ DOMAIN R : f[n] = 0
    BY <1>1, <1>3
  <2>4. \A n \in DOMAIN R : g[n] = f[n]
    BY <1>1
  <2> HIDE DEF f, g
  <2>5. Total(f, DOMAIN T) = Total(f, DOMAIN R)
    BY ONLY <2>1, <2>2, <2>3, TotalOver
  <2>6. IsFiniteSet(DOMAIN R) /\ \A n \in DOMAIN R : f[n] \in Int
    BY <2>1, <2>2, <2>3, FS_Subset
  <2>7. Total(g, DOMAIN R) = Total(f, DOMAIN R)
    BY ONLY <2>4, <2>6, TotalSame
  <2> QED BY <2>5, <2>7, Zenon DEF PathTotal, f, g
<1> QED BY <1>1, <1>2, <1>4, <1>5, <1>6 DEF R

(* The node counter follows. *)
LEMMA WithoutCounted ==
  ASSUME NEW T, Sound(T), NEW gone \in SUBSET DOMAIN T,
         \A n \in gone : ~hasPath(T[n]),
         NEW c, NEW p, NEW k, NEW ms, Counted(T, c, p, k, ms)
  PROVE  Counted(Without(T, gone), c, p, k - Cardinality(gone), ms)
<1> DEFINE R == Without(T, gone)
<1>1. DOMAIN R = DOMAIN T \ gone /\ Routes(R) = Routes(T) /\ PathTotal(R) = PathTotal(T)
  BY WithoutBare
<1>2. IsFiniteSet(DOMAIN T)
  BY DEF Sound
<1>3. Cardinality(DOMAIN T \ gone) = Cardinality(DOMAIN T) - Cardinality(gone)
  <2>1. DOMAIN T \cap gone = gone
    OBVIOUS
  <2> QED BY <1>2, <2>1, FS_Difference
<1> HIDE DEF R
<1>4. \A m : AtMask(R, m) = AtMask(T, m)
  BY <1>1 DEF AtMask
<1>5. Counted(R, c, p, k - Cardinality(gone), ms)
  BY <1>1, <1>3, <1>4 DEF Counted
<1> QED BY <1>5 DEF R

(* One node's paths change. *)
Put(T, n, x) == [T EXCEPT ![n] = x]

(* A node whose paths are tidy leaves the trie sound, and every other node  *)
(* as it was.                                                               *)
LEMMA PutShape ==
  ASSUME NEW T, Sound(T), NEW n \in DOMAIN T,
         NEW x \in Tidy, \A e \in Entries(x) : e.pathID \in PathID
  PROVE  /\ Sound(Put(T, n, x))
         /\ DOMAIN Put(T, n, x) = DOMAIN T
         /\ Put(T, n, x)[n] = x
         /\ \A m \in DOMAIN T \ {n} : Put(T, n, x)[m] = T[m]
         /\ \A m : Children(Put(T, n, x), m) = Children(T, m)
         /\ \A m : PathsAt(Put(T, n, x), m) = IF m = n THEN Entries(x) ELSE PathsAt(T, m)
         /\ Hanging(T) => Hanging(Put(T, n, x))
<1> DEFINE R == Put(T, n, x)
<1>1. T \in [DOMAIN T -> Tidy]
  BY DEF Sound
<1>2. /\ DOMAIN R = DOMAIN T /\ R[n] = x
      /\ \A m \in DOMAIN T \ {n} : R[m] = T[m]
      /\ R \in [DOMAIN R -> Tidy]
  BY <1>1 DEF Put
<1> HIDE DEF R
<1>3. Sound(R)
  BY <1>2 DEF Sound
<1>4. \A m : Children(R, m) = Children(T, m)
  BY <1>2 DEF Children
<1>5. \A m : PathsAt(R, m) = IF m = n THEN Entries(x) ELSE PathsAt(T, m)
  BY <1>2 DEF PathsAt
<1>6. Hanging(T) => Hanging(R)
  BY <1>2 DEF Hanging
<1> QED BY <1>2, <1>3, <1>4, <1>5, <1>6 DEF R

(* A prefix comes, or goes, or neither. *)
Delta(was, is) == (IF hasPath(is) THEN 1 ELSE 0) - (IF hasPath(was) THEN 1 ELSE 0)

Bump(ms, m, d) == [ms EXCEPT ![m] = @ + d]

(* The length of a node's prefix is one that is counted. *)
LEMMA MaskOfNode ==
  ASSUME NEW n \in NodeId
  PROVE  MaskOf(n) \in MinMask .. MaxMask
<1>1. Len(n[2]) \in Nat /\ Len(n[2]) <= Depth
  BY NodeIdIs
<1> QED BY <1>1, TrieAssumption DEF MaskOf, Depth

(* One element comes to a set, or goes, or neither. *)
LEMMA CardinalityOfOther ==
  ASSUME NEW S, IsFiniteSet(S), NEW n, NEW R, R \ {n} = S \ {n}
  PROVE  Cardinality(R) = Cardinality(S) + (IF n \in R THEN 1 ELSE 0)
                                         - (IF n \in S THEN 1 ELSE 0)
<1>1. IsFiniteSet(S \ {n})
  BY FS_Subset
<1>2. Cardinality(S) = Cardinality(S \ {n}) + (IF n \in S THEN 1 ELSE 0)
  <2>1. Cardinality(S \ {n}) = IF n \in S THEN Cardinality(S) - 1 ELSE Cardinality(S)
    BY FS_RemoveElement
  <2> QED BY <2>1, FS_CardinalityType
<1>3. IsFiniteSet(R)
  <2>1. R \subseteq (S \ {n}) \union {n}
    OBVIOUS
  <2>2. IsFiniteSet((S \ {n}) \union {n})
    BY <1>1, FS_AddElement
  <2> QED BY <2>1, <2>2, FS_Subset
<1>4. Cardinality(R) = Cardinality(S \ {n}) + (IF n \in R THEN 1 ELSE 0)
  <2>1. Cardinality(R \ {n}) = IF n \in R THEN Cardinality(R) - 1 ELSE Cardinality(R)
    BY <1>3, FS_RemoveElement
  <2>2. Cardinality(R \ {n}) = Cardinality(S \ {n})
    BY Zenon
  <2>3. Cardinality(R) \in Nat
    BY <1>3, FS_CardinalityType
  <2> QED BY <2>1, <2>2, <2>3
<1>5. Cardinality(S \ {n}) \in Nat
  BY <1>1, FS_CardinalityType
<1> QED BY <1>2, <1>4, <1>5

(* The counters follow a node's paths: by their difference, and by one      *)
(* prefix if the node gets its first path or loses its last.                *)
LEMMA PutCounted ==
  ASSUME NEW T, Sound(T), NEW n \in DOMAIN T,
         NEW x \in Tidy, \A e \in Entries(x) : e.pathID \in PathID,
         NEW c, NEW p, NEW k, NEW ms, Counted(T, c, p, k, ms)
  PROVE  /\ Counted(Put(T, n, x), c + Delta(T[n], x),
                    p + pathsCount(x) - pathsCount(T[n]), k,
                    Bump(ms, MaskOf(n), Delta(T[n], x)))
         /\ Routes(Put(T, n, x)) = (Routes(T) \ {n}) \union {m \in {n} : hasPath(x)}
<1> DEFINE R == Put(T, n, x)
           d == Delta(T[n], x)
<1>1. /\ Sound(R) /\ DOMAIN R = DOMAIN T /\ R[n] = x
      /\ \A m \in DOMAIN T \ {n} : R[m] = T[m]
  BY PutShape
<1>2. n \in NodeId /\ IsFiniteSet(DOMAIN T) /\ \A m \in DOMAIN T : T[m] \in Tidy
  BY DEF Sound
<1> HIDE DEF R
<1>3. /\ Routes(R) \ {n} = Routes(T) \ {n}
      /\ n \in Routes(R) <=> hasPath(x)
      /\ n \in Routes(T) <=> hasPath(T[n])
  BY <1>1 DEF Routes
<1>4. Cardinality(Routes(R)) = Cardinality(Routes(T)) + d
  <2>1. IsFiniteSet(Routes(T)) /\ Cardinality(Routes(T)) \in Nat
    BY CountsType
  <2>2. Cardinality(Routes(R)) = Cardinality(Routes(T)) + (IF n \in Routes(R) THEN 1 ELSE 0)
                                         - (IF n \in Routes(T) THEN 1 ELSE 0)
    BY <1>3, <2>1, CardinalityOfOther
  <2> QED BY <1>3, <2>1, <2>2 DEF Delta
<1>5. \A m : Cardinality(AtMask(R, m))
               = Cardinality(AtMask(T, m)) + (IF m = MaskOf(n) THEN d ELSE 0)
  <2> TAKE m
  <2>1. IsFiniteSet(AtMask(T, m)) /\ Cardinality(AtMask(T, m)) \in Nat
    BY CountsType
  <2>2. AtMask(R, m) \ {n} = AtMask(T, m) \ {n}
    BY <1>3 DEF AtMask
  <2>3. Cardinality(AtMask(R, m)) = Cardinality(AtMask(T, m))
          + (IF n \in AtMask(R, m) THEN 1 ELSE 0) - (IF n \in AtMask(T, m) THEN 1 ELSE 0)
    BY <2>1, <2>2, CardinalityOfOther
  <2>4. /\ n \in AtMask(R, m) <=> m = MaskOf(n) /\ hasPath(x)
        /\ n \in AtMask(T, m) <=> m = MaskOf(n) /\ hasPath(T[n])
    BY <1>3 DEF AtMask
  <2> QED BY <2>1, <2>3, <2>4 DEF Delta
<1>6. PathTotal(R) = PathTotal(T) + pathsCount(x) - pathsCount(T[n])
  <2> DEFINE f == [m \in DOMAIN T |-> pathsCount(T[m])]
             g == [m \in DOMAIN R |-> pathsCount(R[m])]
             rest == DOMAIN T \ {n}
  <2>1. \A m \in DOMAIN T : f[m] \in Int /\ pathsCount(T[m]) \in Nat
    BY <1>2, NodeHolds
  <2>2. \A m \in DOMAIN T : g[m] \in Int
    <3> TAKE m \in DOMAIN T
    <3>1. R[m] \in Tidy
      BY <1>1 DEF Sound
    <3> QED BY <1>1, <3>1, NodeHolds
  <2>3. \A m \in rest : g[m] = f[m]
    BY <1>1
  <2>4. f[n] = pathsCount(T[n]) /\ g[n] = pathsCount(x) /\ pathsCount(x) \in Nat
    BY <1>1, NodeHolds
  <2> HIDE DEF f, g
  <2>5. Total(f, DOMAIN T) = f[n] + Total(f, rest)
    BY <1>2, <2>1, TotalOf
  <2>6. Total(g, DOMAIN T) = g[n] + Total(g, rest)
    BY <1>2, <2>2, TotalOf
  <2>7. IsFiniteSet(rest) /\ \A m \in rest : f[m] \in Int
    BY <1>2, <2>1, FS_Subset
  <2>8. Total(g, rest) = Total(f, rest) /\ Total(f, rest) \in Int
    BY ONLY <2>3, <2>7, TotalSame, TotalOf
  <2>9. Total(g, DOMAIN T) = Total(f, DOMAIN T) + g[n] - f[n]
    BY <2>1, <2>4, <2>5, <2>6, <2>8
  <2>10. PathTotal(T) = Total(f, DOMAIN T) /\ PathTotal(R) = Total(g, DOMAIN T)
    BY <1>1, Zenon DEF PathTotal, f, g
  <2> QED BY <2>4, <2>9, <2>10
<1>7. Bump(ms, MaskOf(n), d)
        = [m \in MinMask .. MaxMask |-> Cardinality(AtMask(R, m))]
  <2>1. ms = [m \in MinMask .. MaxMask |-> Cardinality(AtMask(T, m))]
    BY DEF Counted
  <2>2. MaskOf(n) \in MinMask .. MaxMask
    BY <1>2, MaskOfNode
  <2>3. \A m \in MinMask .. MaxMask : Cardinality(AtMask(T, m)) \in Nat
    BY CountsType
  <2> DEFINE old == [m \in MinMask .. MaxMask |-> Cardinality(AtMask(T, m))]
             new == [m \in MinMask .. MaxMask |-> Cardinality(AtMask(R, m))]
  <2>4. d \in Int
    BY DEF Delta
  <2> HIDE DEF d
  <2>5. \A m \in MinMask .. MaxMask :
          new[m] = IF m = MaskOf(n) THEN old[m] + d ELSE old[m]
    BY <1>5, <2>3, <2>4
  <2>6. Bump(old, MaskOf(n), d) = new
    BY <2>2, <2>5 DEF Bump
  <2> QED BY <2>1, <2>6
<1>8. Routes(R) = (Routes(T) \ {n}) \union {m \in {n} : hasPath(x)}
  BY <1>3
<1>9. Counted(R, c + d, p + pathsCount(x) - pathsCount(T[n]), k,
              Bump(ms, MaskOf(n), d))
  <2> HIDE DEF d
  <2> QED BY <1>1, <1>4, <1>6, <1>7 DEF Counted
<1> QED BY <1>8, <1>9 DEF R

(* The ancestors of a node are one branch, from its octet's entry to it.     *)
LEMMA AncestorsAre ==
  ASSUME NEW o \in Octet, NEW key \in BitString
  PROVE  /\ IsFiniteSet(Ancestors(o, key))
         /\ <<o, key>> \in Ancestors(o, key) /\ Root(o) \in Ancestors(o, key)
         /\ \A n \in Ancestors(o, key) :
              /\ n \in NodeId /\ n[1] = o
              /\ n[2] # <<>> => Parent(n) \in Ancestors(o, key)
              /\ \/ n = <<o, key>>
                 \/ \E m \in Ancestors(o, key) : m[2] # <<>> /\ Parent(m) = n
<1> DEFINE len == Len(key)
           anc == [i \in 0..len |-> Anc(o, key, i)]
           A == Ancestors(o, key)
<1>1. len \in Nat /\ A = {anc[i] : i \in 0..len}
  BY BitStringIs, DepthType DEF Ancestors
<1>2. IsFiniteSet(A)
  <2>1. IsFiniteSet(0..len)
    BY <1>1, FS_Interval
  <2>2. anc \in Surjection(0..len, A)
    <3>1. anc \in [0..len -> A]
      BY <1>1
    <3> HIDE DEF anc, A
    <3> QED BY <1>1, <3>1, Fun_IsSurj
  <2> HIDE DEF anc, A
  <2> QED BY <2>1, <2>2, FS_Surjection
<1>3. <<o, key>> \in A /\ Root(o) \in A
  <2>1. len \in 0..len /\ 0 \in 0..len
    BY <1>1
  <2>2. Anc(o, key, len) = <<o, key>> /\ Anc(o, key, 0) = Root(o)
    BY <2>1, AncestorOf
  <2> QED BY <2>1, <2>2 DEF Ancestors
<1>4. ASSUME NEW n \in A
      PROVE  /\ n \in NodeId /\ n[1] = o
             /\ n[2] # <<>> => Parent(n) \in A
             /\ n = <<o, key>> \/ \E m \in A : m[2] # <<>> /\ Parent(m) = n
  <2>1. PICK i \in 0..len : n = Anc(o, key, i)
    BY DEF Ancestors
  <2>2. /\ n \in NodeId /\ n[1] = o /\ Len(n[2]) = i
        /\ i # 0 => Parent(n) = Anc(o, key, i - 1)
        /\ Anc(o, key, len) = <<o, key>>
    BY <2>1, AncestorOf
  <2>3. n[2] # <<>> => Parent(n) \in A
    <3>1. n[2] # <<>> => i # 0
      BY <2>2, NodeIdIs
    <3>2. i # 0 => i - 1 \in 0..len
      BY <1>1
    <3> QED BY <2>2, <3>1, <3>2 DEF Ancestors
  <2>4. CASE i = len
    BY <2>1, <2>2, <2>3, <2>4
  <2>5. CASE i # len
    <3>1. i + 1 \in 0..len /\ i + 1 # 0 /\ i + 1 - 1 = i
      BY <1>1, <2>5
    <3> DEFINE m == Anc(o, key, i + 1)
    <3>2. m \in NodeId /\ Len(m[2]) = i + 1 /\ Parent(m) = n /\ m \in A
      <4>1. m \in NodeId /\ Len(m[2]) = i + 1 /\ Parent(m) = Anc(o, key, i + 1 - 1)
        BY <3>1, AncestorOf
      <4> QED BY <2>1, <3>1, <4>1 DEF Ancestors
    <3> HIDE DEF m, A
    <3>3. m[2] # <<>>
      BY <3>1, <3>2, NodeIdIs
    <3> QED BY <2>2, <2>3, <3>2, <3>3
  <2> QED BY <2>4, <2>5
<1> QED BY <1>2, <1>3, <1>4

(* The walk of insertUnlocked adds nodes that hold nothing, each counted;    *)
(* of those only the last may lead to no path.                               *)
LEMMA GrowShape ==
  ASSUME NEW T, Sound(T), Hanging(T), Loose(T) = {},
         NEW o \in Octet, Accepts(o), NEW key \in BitString,
         NEW c, NEW p, NEW k, NEW ms, Counted(T, c, p, k, ms)
  PROVE  LET G == Grow(T, o, key)
         IN  /\ Sound(G) /\ Hanging(G) /\ Loose(G) \subseteq {<<o, key>>}
             /\ <<o, key>> \in DOMAIN G
             /\ \A n : PathsAt(G, n) = PathsAt(T, n)
             /\ Routes(G) = Routes(T)
             /\ Counted(G, c, p, k + Cardinality(Ancestors(o, key) \ DOMAIN T), ms)
<1> DEFINE G == Grow(T, o, key)
           A == Ancestors(o, key)
           new == A \ DOMAIN T
<1>1. IsFiniteSet(A) /\ <<o, key>> \in A
  BY AncestorsAre
<1>2. \A n \in A : /\ n \in NodeId /\ n[1] = o
                   /\ n[2] # <<>> => Parent(n) \in A
                   /\ n = <<o, key>> \/ \E m \in A : m[2] # <<>> /\ Parent(m) = n
  BY AncestorsAre
<1>3. /\ T \in [DOMAIN T -> Tidy] /\ DOMAIN T \subseteq NodeId /\ IsFiniteSet(DOMAIN T)
      /\ \A n \in DOMAIN T : Accepts(n[1]) /\ \A e \in Entries(T[n]) : e.pathID \in PathID
  BY DEF Sound
<1>4. /\ DOMAIN G = DOMAIN T \union A
      /\ \A n \in DOMAIN T : G[n] = T[n]
      /\ \A n \in new : G[n] = EmptyNode
      /\ G = [n \in DOMAIN G |-> G[n]]
  BY DEF Grow
<1> HIDE DEF G, A
<1>5. Sound(G)
  <2>1. \A n \in DOMAIN G :
          G[n] \in Tidy /\ Accepts(n[1]) /\ \A e \in Entries(G[n]) : e.pathID \in PathID
    <3>1. \A n \in new : Accepts(n[1]) /\ G[n] = EmptyNode
      BY <1>2, <1>4
    <3>2. DOMAIN G = DOMAIN T \union new
      BY <1>4
    <3> HIDE DEF new
    <3>3. \A n \in new : G[n] \in Tidy /\ Entries(G[n]) = {}
      BY <3>1, EmptyNodeIs
    <3> QED BY <1>3, <1>4, <3>1, <3>2, <3>3
  <2>2. DOMAIN G \subseteq NodeId
    BY <1>2, <1>3, <1>4
  <2>3. IsFiniteSet(DOMAIN G)
    <3>1. IsFiniteSet(DOMAIN T \union A)
      BY <1>1, <1>3, FS_Union
    <3> QED BY <1>4, <3>1
  <2> QED BY <1>4, <2>1, <2>2, <2>3 DEF Sound
<1>6. new \in SUBSET DOMAIN G /\ \A n \in new : ~hasPath(G[n])
  BY <1>4, EmptyNodeIs
<1>7. Without(G, new) = T
  <2>1. DOMAIN G \ new = DOMAIN T
    BY <1>4
  <2>2. T = [n \in DOMAIN T |-> T[n]]
    BY <1>3
  <2> QED BY <1>4, <2>1, <2>2 DEF Without
<1>8. /\ \A n : PathsAt(G, n) = PathsAt(T, n)
      /\ Routes(G) = Routes(T) /\ PathTotal(G) = PathTotal(T)
  <2> HIDE DEF new
  <2>1. /\ \A n : PathsAt(Without(G, new), n) = PathsAt(G, n)
        /\ Routes(Without(G, new)) = Routes(G)
        /\ PathTotal(Without(G, new)) = PathTotal(G)
    BY <1>5, <1>6, WithoutBare
  <2> QED BY <1>7, <2>1
<1>9. Hanging(G)
  BY <1>2, <1>4 DEF Hanging
<1>10. Loose(G) \subseteq {<<o, key>>}
  <2> SUFFICES ASSUME NEW n \in Loose(G)
               PROVE  n = <<o, key>>
    OBVIOUS
  <2>1. n \in DOMAIN G /\ ~hasPath(G[n]) /\ Children(G, n) = {}
    BY DEF Loose
  <2>2. n \notin DOMAIN T
    <3>1. ASSUME n \in DOMAIN T PROVE FALSE
      <4>1. Children(T, n) \subseteq Children(G, n)
        BY <1>4 DEF Children
      <4>2. n \in Loose(T)
        BY <1>4, <2>1, <3>1, <4>1 DEF Loose
      <4> QED BY <4>2
    <3> QED BY <3>1
  <2>3. n \in A
    BY <1>4, <2>1, <2>2
  <2>4. ASSUME NEW m \in A, m[2] # <<>>, Parent(m) = n PROVE FALSE
    <3>1. DOMAIN G \subseteq NodeId
      BY <1>5 DEF Sound
    <3>2. m \in Children(G, n)
      BY <1>2, <1>4, <2>3, <2>4, <3>1, ChildrenAre
    <3> QED BY <2>1, <3>2
  <2> QED BY <1>2, <2>3, <2>4
<1>11. Counted(G, c, p, k + Cardinality(new), ms)
  <2>1. Cardinality(DOMAIN G) = Cardinality(DOMAIN T) + Cardinality(new)
    <3>1. DOMAIN G \cap new = new /\ DOMAIN G \ new = DOMAIN T
      BY <1>4
    <3>2. IsFiniteSet(DOMAIN G) /\ IsFiniteSet(new)
      BY <1>1, <1>3, <1>4, FS_Union, FS_Subset
    <3> HIDE DEF new
    <3>3. Cardinality(DOMAIN T) = Cardinality(DOMAIN G) - Cardinality(new)
      BY <3>1, <3>2, FS_Difference
    <3> QED BY <3>2, <3>3, FS_CardinalityType
  <2>2. \A m : AtMask(G, m) = AtMask(T, m)
    BY <1>8 DEF AtMask
  <2> HIDE DEF new
  <2> QED BY <1>8, <2>1, <2>2 DEF Counted
<1>12. <<o, key>> \in DOMAIN G
  BY <1>1, <1>4
<1> QED BY <1>5, <1>8, <1>9, <1>10, <1>11, <1>12 DEF G, A

-----------------------------------------------------------------------------
(* Pruning *)

(* deleteNode takes with an emptied node those above it that lead nowhere    *)
(* else: none with a path, none of the root array, all that is below one     *)
(* that goes, and of a node that stays, one child at least.                  *)
LEMMA PrunedIs ==
  ASSUME NEW T, Sound(T), Hanging(T), NEW n \in DOMAIN T
  PROVE  LET up == Pruned(T, n)
         IN  /\ up \subseteq DOMAIN T
             /\ \A m \in up : ~hasPath(T[m]) /\ m[1] = n[1] /\ m[2] # <<>>
             /\ \A m \in up : Children(T, m) \subseteq up
             /\ \A m \in DOMAIN T \ up :
                  m[2] # <<>> /\ ~hasPath(T[m]) /\ Children(T, m) # {}
                    => Children(T, m) \ up # {}
             /\ n[2] # <<>> /\ n \in Loose(T) => n \in up
<1> DEFINE len == Len(n[2])
           anc(k) == Anc(n[1], n[2], k)
           only(k) == Children(T, anc(k)) \subseteq (IF k = len THEN {} ELSE {anc(k + 1)})
           K == {k \in 1..len : \A j \in k..len : ~hasPath(T[anc(j)]) /\ only(j)}
           up == Pruned(T, n)
<1>1. /\ n \in NodeId /\ n = <<n[1], n[2]>> /\ n[1] \in Octet /\ n[2] \in BitString
      /\ len \in Nat
  BY NodeIdIs DEF Sound
<1>2. up = {anc(k) : k \in K}
  BY DEF Pruned
<1>3. \A k \in 0..len : /\ anc(k) \in NodeId /\ anc(k)[1] = n[1]
                        /\ Len(anc(k)[2]) = k /\ anc(k) \in DOMAIN T
                        /\ k # 0 => Parent(anc(k)) = anc(k - 1)
                        /\ anc(k)[2] = <<>> <=> k = 0
  <2> TAKE k \in 0..len
  <2>1. /\ anc(k) \in NodeId /\ anc(k)[1] = n[1] /\ Len(anc(k)[2]) = k
        /\ k # 0 => Parent(anc(k)) = anc(k - 1)
    BY <1>1, AncestorOf
  <2>2. anc(k) \in DOMAIN T
    BY AncestorsIn DEF Ancestors
  <2> HIDE DEF anc
  <2>3. anc(k)[2] = <<>> <=> k = 0
    BY <2>1, NodeIdIs
  <2> QED BY <2>1, <2>2, <2>3
<1>4. anc(len) = n
  <2>1. len \in 0..len
    BY <1>1
  <2> QED BY <1>1, <2>1, AncestorOf
<1> HIDE DEF anc, up, len
<1>5. \A k \in K : k \in 1..len /\ k \in 0..len /\ ~hasPath(T[anc(k)]) /\ only(k)
  BY <1>1
<1>6. up \subseteq DOMAIN T /\ \A m \in up : ~hasPath(T[m]) /\ m[1] = n[1] /\ m[2] # <<>>
  <2> HIDE DEF K
  <2>1. \A k \in K : k # 0
    BY <1>5
  <2> QED BY <1>2, <1>3, <1>5, <2>1
<1>7. \A m \in up : Children(T, m) \subseteq up
  <2> TAKE m \in up
  <2>1. PICK k \in K : m = anc(k)
    BY <1>2
  <2>2. CASE k = len
    BY <1>5, <2>1, <2>2
  <2>3. CASE k # len
    <3>1. k + 1 \in K
      <4>1. k + 1 \in 1..len
        BY <1>1, <1>5, <2>3
      <4>2. \A j \in k + 1..len : j \in k..len
        BY <1>5
      <4>3. \A j \in k..len : ~hasPath(T[anc(j)]) /\ only(j)
        OBVIOUS
      <4> HIDE DEF only
      <4> QED BY <4>1, <4>2, <4>3
    <3>2. Children(T, m) \subseteq {anc(k + 1)}
      BY <1>5, <2>1, <2>3
    <3> HIDE DEF K
    <3> QED BY <1>2, <3>1, <3>2
  <2> QED BY <2>2, <2>3
<1>8. ASSUME NEW m \in DOMAIN T \ up, m[2] # <<>>, ~hasPath(T[m]),
             NEW d \in Children(T, m), Children(T, m) \ up = {}
      PROVE  FALSE
  <2>1. m \in NodeId /\ Children(T, m) = {x \in DOMAIN T : x[2] # <<>> /\ Parent(x) = m}
    BY ChildrenAre DEF Sound
  <2>2. PICK k \in K : d = anc(k)
    BY <1>2, <1>8
  <2>3. k \in 1..len /\ k \in 0..len /\ k # 0
    BY <1>5
  <2>4. m = anc(k - 1)
    BY <1>3, <2>1, <2>2, <2>3
  <2>5. k - 1 \in 0..len
    BY <1>1, <2>3
  <2>6. k - 1 # 0
    BY <1>3, <1>8, <2>4, <2>5
  <2>7. only(k - 1)
    <3>1. ASSUME NEW x \in Children(T, m)
          PROVE  x = anc(k)
      <4>1. PICK i \in K : x = anc(i)
        BY <1>2, <1>8
      <4>2. i \in 0..len /\ i # 0
        BY <1>5
      <4>3. Parent(x) = m /\ Parent(x) = anc(i - 1)
        BY <1>3, <2>1, <4>1, <4>2
      <4>4. i - 1 \in 0..len
        BY <1>1, <4>2
      <4>5. i - 1 = k - 1
        BY <1>3, <2>4, <2>5, <4>3, <4>4
      <4>6. i = k
        BY <2>3, <4>2, <4>5
      <4> QED BY <4>1, <4>6
    <3>2. k - 1 # len /\ k - 1 + 1 = k
      BY <1>1, <2>3
    <3> QED BY <2>4, <3>1, <3>2
  <2>8. k - 1 \in K
    <3>1. k - 1 \in 1..len
      BY <1>1, <2>3, <2>6
    <3>2. \A j \in k - 1..len : j = k - 1 \/ j \in k..len
      BY <2>3
    <3>3. \A j \in k..len : ~hasPath(T[anc(j)]) /\ only(j)
      OBVIOUS
    <3>4. ~hasPath(T[anc(k - 1)])
      BY <1>8, <2>4
    <3> HIDE DEF only
    <3> QED BY <2>7, <3>1, <3>2, <3>3, <3>4
  <2> HIDE DEF K
  <2>9. m \in up
    BY <1>2, <2>4, <2>8
  <2> QED BY <1>8, <2>9
<1>9. ASSUME n[2] # <<>>, n \in Loose(T) PROVE n \in up
  <2>1. len # 0 /\ ~hasPath(T[n]) /\ Children(T, n) = {}
    BY <1>1, <1>9, NodeIdIs DEF Loose, len
  <2>2. only(len) /\ ~hasPath(T[anc(len)])
    BY <1>4, <2>1
  <2>3. len \in 1..len /\ \A j \in len..len : j = len
    BY <1>1, <2>1
  <2>4. len \in K
    <3> HIDE DEF only
    <3> QED BY <2>2, <2>3
  <2> HIDE DEF K
  <2> QED BY <1>2, <1>4, <2>4
<1>10. \A m \in DOMAIN T \ up :
         m[2] # <<>> /\ ~hasPath(T[m]) /\ Children(T, m) # {} => Children(T, m) \ up # {}
  BY <1>8
<1> QED BY <1>6, <1>7, <1>9, <1>10 DEF up

(* After it, nothing hangs in the air, and nothing is loose that was not,    *)
(* but perhaps the entry of the root array.                                  *)
LEMMA PruneShape ==
  ASSUME NEW T, Sound(T), Hanging(T), NEW n \in DOMAIN T
  PROVE  LET R == Without(T, Pruned(T, n))
         IN  /\ Pruned(T, n) \in SUBSET DOMAIN T
             /\ \A m \in Pruned(T, n) : ~hasPath(T[m])
             /\ Hanging(R)
             /\ Loose(R) \subseteq (Loose(T) \ {n}) \union {Root(n[1])}
<1> DEFINE up == Pruned(T, n)
           R == Without(T, up)
<1>1. /\ up \subseteq DOMAIN T
      /\ \A m \in up : ~hasPath(T[m]) /\ m[1] = n[1] /\ m[2] # <<>>
      /\ \A m \in up : Children(T, m) \subseteq up
      /\ \A m \in DOMAIN T \ up :
           m[2] # <<>> /\ ~hasPath(T[m]) /\ Children(T, m) # {}
             => Children(T, m) \ up # {}
      /\ n[2] # <<>> /\ n \in Loose(T) => n \in up
  BY PrunedIs
<1> HIDE DEF up
<1>2. DOMAIN R = DOMAIN T \ up /\ \A m \in DOMAIN R : R[m] = T[m]
  BY DEF Without
<1>3. \A m : Children(R, m) = Children(T, m) \ up
  BY <1>2 DEF Children
<1>4. \A m \in DOMAIN T : /\ m \in NodeId
                          /\ Children(T, m) = {x \in DOMAIN T : x[2] # <<>> /\ Parent(x) = m}
  BY ChildrenAre DEF Sound
<1> HIDE DEF R
<1>5. Hanging(R)
  <2> SUFFICES ASSUME NEW m \in DOMAIN R, m[2] # <<>>
               PROVE  Parent(m) \in DOMAIN R
    BY DEF Hanging
  <2>1. m \in DOMAIN T /\ m \notin up /\ Parent(m) \in DOMAIN T
    BY <1>2 DEF Hanging
  <2>2. m \in Children(T, Parent(m))
    BY <1>4, <2>1
  <2> QED BY <1>1, <1>2, <2>1, <2>2
<1>6. Loose(R) \subseteq (Loose(T) \ {n}) \union {Root(n[1])}
  <2> SUFFICES ASSUME NEW m \in Loose(R), m # Root(n[1])
               PROVE  m \in Loose(T) \ {n}
    OBVIOUS
  <2>1. m \in DOMAIN T /\ m \notin up /\ ~hasPath(T[m]) /\ Children(T, m) \ up = {}
    BY <1>2, <1>3 DEF Loose
  <2>2. CASE m[2] # <<>>
    <3>1. Children(T, m) = {}
      BY <1>1, <2>1, <2>2
    <3> QED BY <1>1, <2>1, <2>2, <3>1 DEF Loose
  <2>3. CASE m[2] = <<>>
    <3>1. m[1] # n[1] /\ m # n
      <4>1. m = <<m[1], m[2]>>
        BY <1>4, <2>1, NodeIdIs
      <4>2. m[1] # n[1]
        BY <2>3, <4>1 DEF Root
      <4> QED BY <4>2
    <3>2. ASSUME NEW x \in Children(T, m) PROVE FALSE
      <4>1. x \in DOMAIN T /\ x[2] # <<>> /\ Parent(x) = m /\ x \in NodeId
        BY <1>4, <2>1
      <4>2. x[1] = m[1]
        BY <4>1, ParentOf
      <4>3. x \in up
        BY <2>1
      <4> QED BY <1>1, <3>1, <4>2, <4>3
    <3> QED BY <2>1, <3>1, <3>2 DEF Loose
  <2> QED BY <2>2, <2>3
<1> QED BY <1>1, <1>5, <1>6 DEF R, up

(* The entry of the root array goes once it is loose. *)
LEMMA BareEntryShape ==
  ASSUME NEW T, Sound(T), Hanging(T), NEW o
  PROVE  LET R == Without(T, BareEntry(T, o))
         IN  /\ BareEntry(T, o) \in SUBSET DOMAIN T
             /\ \A m \in BareEntry(T, o) : ~hasPath(T[m])
             /\ Hanging(R)
             /\ Loose(R) = Loose(T) \ {Root(o)}
<1> DEFINE be == BareEntry(T, o)
           R == Without(T, be)
<1>1. be = Loose(T) \intersect {Root(o)}
  BY DEF BareEntry, Loose, Root
<1>2. be \in SUBSET DOMAIN T /\ \A m \in be : ~hasPath(T[m])
  BY <1>1 DEF Loose
<1> HIDE DEF be
<1>3. DOMAIN R = DOMAIN T \ be /\ \A m \in DOMAIN R : R[m] = T[m]
  BY DEF Without
<1> HIDE DEF R
<1>4. \A m \in DOMAIN T : /\ m \in NodeId
                          /\ Children(T, m) = {x \in DOMAIN T : x[2] # <<>> /\ Parent(x) = m}
  BY ChildrenAre DEF Sound
<1>5. \A m \in be : m[2] = <<>> /\ Children(T, m) = {}
  BY <1>1 DEF Root, Loose
<1>6. \A m \in DOMAIN R : Children(R, m) = Children(T, m)
  <2> TAKE m \in DOMAIN R
  <2>1. Children(R, m) = Children(T, m) \ be
    BY <1>3 DEF Children
  <2>2. Children(T, m) \intersect be = {}
    BY <1>3, <1>4, <1>5
  <2> QED BY <2>1, <2>2
<1>7. Hanging(R)
  <2> SUFFICES ASSUME NEW m \in DOMAIN R, m[2] # <<>>
               PROVE  Parent(m) \in DOMAIN R
    BY DEF Hanging
  <2>1. m \in DOMAIN T /\ Parent(m) \in DOMAIN T
    BY <1>3 DEF Hanging
  <2>2. m \in Children(T, Parent(m))
    BY <1>4, <2>1
  <2> QED BY <1>3, <1>5, <2>1, <2>2
<1>8. Loose(R) = Loose(T) \ {Root(o)}
  <2>1. Loose(R) = Loose(T) \ be
    BY <1>3, <1>6 DEF Loose
  <2> QED BY <1>1, <2>1
<1> QED BY <1>2, <1>7, <1>8 DEF R, be
-----------------------------------------------------------------------------
(* Sequences put together *)

(* What FlattenSeq puts together, sequence by sequence. *)
Flattening(F, S, seqs) ==
  /\ F \in [Nat -> Seq(S)]
  /\ F[0] = <<>>
  /\ \A i \in 1..Len(seqs) : F[i] = F[i - 1] \o seqs[i]
  /\ FlattenSeq(seqs) = F[Len(seqs)]

(* FlattenSeq is such a concatenation, from the left. *)
LEMMA FlattenIs ==
  ASSUME NEW S, NEW seqs \in Seq(Seq(S)), seqs # <<>>
  PROVE  \E F : Flattening(F, S, seqs)
<1> DEFINE len == Len(seqs)
           step == [i \in Nat |-> [s \in Seq(S) |-> IF i \in 1..len THEN s \o seqs[i] ELSE s]]
           Body(f) == [i \in 1..len |-> IF i = 1 THEN seqs[i] ELSE f[i - 1] \o seqs[i]]
           flat == CHOOSE f : f = Body(f)
<1>1. len \in Nat /\ len # 0 /\ \A i \in 1..len : seqs[i] \in Seq(S)
  BY EmptySeq, LenProperties, ElementOfSeq
<1>2. step \in [Nat -> [Seq(S) -> Seq(S)]] /\ <<>> \in Seq(S)
  BY <1>1, ConcatProperties, EmptySeq
<1>3. PICK F : Iterates(F, Seq(S), <<>>, step)
  <2> HIDE DEF step
  <2> QED BY <1>2, NatRecursion
<1>4. F \in [Nat -> Seq(S)] /\ F[0] = <<>>
  BY <1>3 DEF Iterates
<1>5. \A i \in 1..len : F[i] = F[i - 1] \o seqs[i]
  <2> TAKE i \in 1..len
  <2>1. i \in Nat /\ i # 0 /\ i - 1 \in Nat
    BY <1>1
  <2>2. F[i] = step[i][F[i - 1]]
    <3> HIDE DEF step
    <3> QED BY <1>3, <2>1 DEF Iterates
  <2>3. step[i][F[i - 1]] = F[i - 1] \o seqs[i]
    BY <1>4, <2>1
  <2> QED BY <2>2, <2>3
<1>6. \A i \in 1..len : i = 1 => F[i] = seqs[i]
  <2> SUFFICES ASSUME NEW i \in 1..len, i = 1
               PROVE  F[i] = seqs[i]
    OBVIOUS
  <2>1. F[i] = F[i - 1] \o seqs[i]
    BY <1>5
  <2>2. i - 1 = 0
    OBVIOUS
  <2>3. <<>> \o seqs[i] = seqs[i]
    BY <1>1, ConcatEmptySeq
  <2> QED BY ONLY <1>4, <2>1, <2>2, <2>3
<1> DEFINE g == [i \in 1..len |-> F[i]]
<1>7. g = Body(g)
  <2> SUFFICES ASSUME NEW i \in 1..len
               PROVE  g[i] = IF i = 1 THEN seqs[i] ELSE g[i - 1] \o seqs[i]
    OBVIOUS
  <2>1. CASE i = 1
    <3>1. g[i] = seqs[i]
      BY <1>6, <2>1
    <3> QED BY <2>1, <3>1
  <2>2. CASE i # 1
    <3>1. i - 1 \in 1..len
      BY <1>1, <2>2
    <3> QED BY <1>5, <2>2, <3>1
  <2> QED BY <2>1, <2>2
<1> HIDE DEF g
<1>8. flat = Body(flat)
  BY <1>7
<1>9. FlattenSeq(seqs) = flat[len]
  BY <1>1 DEF FlattenSeq
<1> DEFINE P == {i \in 0..len : i # 0 => flat[i] = F[i]}
<1>10. \A i \in 0..len : i \in P
  <2> HIDE DEF flat
  <2>1. 0 \in P
    BY <1>1
  <2>2. ASSUME NEW i \in 1..len, i - 1 \in P
        PROVE  i \in P
    <3>1. flat[i] = IF i = 1 THEN seqs[i] ELSE flat[i - 1] \o seqs[i]
      BY <1>8
    <3>2. i \in 0..len
      BY <1>1
    <3>3. CASE i = 1
      BY <1>6, <3>1, <3>2, <3>3
    <3>4. CASE i # 1
      <4>1. i - 1 # 0
        BY <3>4
      <4> QED BY <1>5, <2>2, <3>1, <3>2, <3>4, <4>1
    <3> QED BY <3>3, <3>4
  <2> HIDE DEF P
  <2> QED BY <1>1, <2>1, <2>2, IntervalInduct
<1>11. FlattenSeq(seqs) = F[len]
  <2>1. len \in 0..len
    BY <1>1
  <2> QED BY <1>1, <1>9, <1>10, <2>1
<1> QED BY <1>4, <1>5, <1>11 DEF Flattening

(* The elements of two sequences in one. *)
LEMMA ToSetOfConcat ==
  ASSUME NEW S, NEW s \in Seq(S), NEW t \in Seq(S)
  PROVE  ToSet(s \o t) = ToSet(s) \union ToSet(t)
<1>1. /\ s \o t \in Seq(S) /\ Len(s \o t) = Len(s) + Len(t)
      /\ \A i \in 1..(Len(s) + Len(t)) :
           (s \o t)[i] = IF i <= Len(s) THEN s[i] ELSE t[i - Len(s)]
  BY ConcatProperties
<1>2. Len(s) \in Nat /\ Len(t) \in Nat /\ DOMAIN s = 1..Len(s) /\ DOMAIN t = 1..Len(t)
  BY LenProperties
<1>3. ToSet(s \o t) \subseteq ToSet(s) \union ToSet(t)
  <2> SUFFICES ASSUME NEW i \in 1..(Len(s) + Len(t))
               PROVE  (s \o t)[i] \in ToSet(s) \union ToSet(t)
    BY <1>1, LenProperties DEF ToSet
  <2>1. CASE i <= Len(s)
    BY <1>1, <1>2, <2>1 DEF ToSet
  <2>2. CASE ~(i <= Len(s))
    <3>1. i - Len(s) \in 1..Len(t)
      BY <1>2, <2>2
    <3> QED BY <1>1, <1>2, <2>2, <3>1 DEF ToSet
  <2> QED BY <2>1, <2>2
<1>4. \A i \in 1..Len(s) : i \in 1..(Len(s) + Len(t)) /\ (s \o t)[i] = s[i]
  BY <1>1, <1>2
<1>5. \A i \in 1..Len(t) : /\ Len(s) + i \in 1..(Len(s) + Len(t))
                           /\ (s \o t)[Len(s) + i] = t[i]
  BY <1>1, <1>2
<1>6. DOMAIN (s \o t) = 1..(Len(s) + Len(t))
  BY <1>1, LenProperties
<1> HIDE DEF ToSet
<1>7. \A i \in 1..Len(s) : s[i] \in ToSet(s \o t)
  BY <1>4, <1>6 DEF ToSet
<1>8. \A i \in 1..Len(t) : t[i] \in ToSet(s \o t)
  BY <1>5, <1>6 DEF ToSet
<1>9. ToSet(s) \subseteq ToSet(s \o t) /\ ToSet(t) \subseteq ToSet(s \o t)
  BY <1>2, <1>7, <1>8 DEF ToSet
<1> QED BY <1>3, <1>9

(* Two sequences without a common element, neither with one twice, in one.   *)
LEMMA InjectiveConcat ==
  ASSUME NEW S, NEW s \in Seq(S), NEW t \in Seq(S), IsInjective(s), IsInjective(t),
         ToSet(s) \intersect ToSet(t) = {}
  PROVE  IsInjective(s \o t)
<1> DEFINE u == s \o t
<1>1. /\ u \in Seq(S) /\ Len(u) = Len(s) + Len(t)
      /\ \A i \in 1..Len(s) + Len(t) : u[i] = IF i <= Len(s) THEN s[i] ELSE t[i - Len(s)]
      /\ Len(s) \in Nat /\ Len(t) \in Nat
      /\ DOMAIN s = 1..Len(s) /\ DOMAIN t = 1..Len(t)
  BY ConcatProperties, LenProperties
<1> HIDE DEF u
<1>2. DOMAIN u = 1..Len(s) + Len(t)
  BY <1>1, LenProperties
<1>3. \A i \in DOMAIN u : \/ i \in DOMAIN s /\ u[i] = s[i]
                          \/ i - Len(s) \in DOMAIN t /\ u[i] = t[i - Len(s)]
  <2> TAKE i \in DOMAIN u
  <2>1. i <= Len(s) => i \in 1..Len(s)
    BY <1>1, <1>2
  <2>2. ~(i <= Len(s)) => i - Len(s) \in 1..Len(t)
    BY <1>1, <1>2
  <2> QED BY <1>1, <1>2, <2>1, <2>2
<1>4. \A i \in DOMAIN s, j \in DOMAIN t : s[i] # t[j]
  BY DEF ToSet
<1>5. ASSUME NEW i \in DOMAIN u, NEW j \in DOMAIN u, u[i] = u[j]
      PROVE  i = j
  <2>1. CASE i \in DOMAIN s /\ u[i] = s[i] /\ j \in DOMAIN s /\ u[j] = s[j]
    BY <1>5, <2>1 DEF IsInjective
  <2>2. CASE /\ i - Len(s) \in DOMAIN t /\ u[i] = t[i - Len(s)]
             /\ j - Len(s) \in DOMAIN t /\ u[j] = t[j - Len(s)]
    <3>1. i - Len(s) = j - Len(s)
      BY <1>5, <2>2 DEF IsInjective
    <3>2. i \in Int /\ j \in Int /\ Len(s) \in Int
      BY <1>1, <1>2
    <3> QED BY <3>1, <3>2
  <2> QED BY <1>3, <1>4, <1>5, <2>1, <2>2
<1>6. IsInjective(u)
  BY <1>5 DEF IsInjective
<1> QED BY <1>6 DEF u

(* Sequences of which no two have a common element, and none has one twice.  *)
Apart(seqs) ==
  /\ \A i \in DOMAIN seqs : IsInjective(seqs[i])
  /\ \A i, j \in DOMAIN seqs : i # j => ToSet(seqs[i]) \intersect ToSet(seqs[j]) = {}

(* What FlattenSeq makes of them. *)
LEMMA FlattenApart ==
  ASSUME NEW S, NEW seqs \in Seq(Seq(S)), Apart(seqs)
  PROVE  /\ FlattenSeq(seqs) \in Seq(S)
         /\ ToSet(FlattenSeq(seqs)) = UNION {ToSet(seqs[i]) : i \in DOMAIN seqs}
         /\ IsInjective(FlattenSeq(seqs))
<1> DEFINE c == Len(seqs)
           all == FlattenSeq(seqs)
<1>1. c \in Nat /\ DOMAIN seqs = 1..c /\ \A i \in 1..c : seqs[i] \in Seq(S)
  BY LenProperties, ElementOfSeq
<1>2. CASE seqs = <<>>
  <2>1. Len(<<>>) = 0 /\ <<>> \in Seq(S) /\ DOMAIN <<>> = {}
    BY EmptySeq
  <2>2. all = <<>>
    BY <1>2, <2>1 DEF FlattenSeq
  <2>3. ToSet(<<>>) = {} /\ IsInjective(<<>>)
    BY <2>1 DEF ToSet, IsInjective
  <2>4. UNION {ToSet(seqs[i]) : i \in DOMAIN seqs} = {}
    BY <1>2, <2>1
  <2> QED BY <2>1, <2>2, <2>3, <2>4
<1>3. CASE seqs # <<>>
  <2>1. PICK F : Flattening(F, S, seqs)
    BY <1>3, FlattenIs
  <2>2. /\ F \in [Nat -> Seq(S)] /\ F[0] = <<>>
        /\ \A i \in 1..c : F[i] = F[i - 1] \o seqs[i]
        /\ all = F[c]
    BY <2>1 DEF Flattening
  <2> DEFINE Upto(k) == UNION {ToSet(seqs[i]) : i \in 1..k}
             P == {k \in 0..c : ToSet(F[k]) = Upto(k) /\ IsInjective(F[k])}
  <2>3. 0 \in P
    <3>1. DOMAIN <<>> = {}
      OBVIOUS
    <3>2. ToSet(<<>>) = {} /\ IsInjective(<<>>)
      BY <3>1 DEF ToSet, IsInjective
    <3>3. Upto(0) = {} /\ 0 \in 0..c
      BY <1>1
    <3> QED BY <2>2, <3>2, <3>3
  <2>4. ASSUME NEW k \in 1..c, k - 1 \in P
        PROVE  k \in P
    <3>0. k - 1 \in Nat /\ k \in 0..c
      BY <1>1
    <3>1. F[k - 1] \in Seq(S) /\ seqs[k] \in Seq(S) /\ F[k] = F[k - 1] \o seqs[k]
      BY <1>1, <2>2, <3>0
    <3>2. ToSet(F[k - 1]) = Upto(k - 1) /\ IsInjective(F[k - 1])
      BY <2>4
    <3>3. \A i \in 1..(k - 1) : i \in 1..c /\ i # k
      BY <1>1
    <3>4. Upto(k - 1) \intersect ToSet(seqs[k]) = {}
      BY <1>1, <3>3 DEF Apart
    <3>5. IsInjective(seqs[k])
      BY <1>1 DEF Apart
    <3>6. Upto(k) = Upto(k - 1) \union ToSet(seqs[k])
      <4>1. \A i \in 1..k : i = k \/ i \in 1..(k - 1)
        OBVIOUS
      <4>2. k \in 1..k /\ \A i \in 1..(k - 1) : i \in 1..k
        OBVIOUS
      <4> HIDE DEF ToSet
      <4> QED BY <4>1, <4>2
    <3> HIDE DEF Upto
    <3>7. IsInjective(F[k]) /\ ToSet(F[k]) = Upto(k)
      BY <3>1, <3>2, <3>4, <3>5, <3>6, InjectiveConcat, ToSetOfConcat
    <3> QED BY <3>0, <3>7
  <2>5. c \in P
    <3> HIDE DEF P
    <3>1. \A k \in 0..c : k \in P
      BY <1>1, <2>3, <2>4, IntervalInduct
    <3> QED BY <1>1, <3>1
  <2> QED BY <1>1, <2>2, <2>5
<1> QED BY <1>2, <1>3

-----------------------------------------------------------------------------
(* The order of a sweep *)

(* Both children of a node that is not at the longest mask are names. *)
LEMMA ChildrenBelow ==
  ASSUME NEW n \in NodeId, Len(n[2]) # Depth
  PROVE  /\ Child(n, 0) \in NodeId /\ Child(n, 1) \in NodeId
         /\ Len(Child(n, 0)[2]) = Len(n[2]) + 1
         /\ Len(Child(n, 1)[2]) = Len(n[2]) + 1
<1>1. Len(n[2]) < Depth
  BY NodeIdIs, DepthType
<1> QED BY <1>1, ChildOf

(* An order within every subtree, which join puts together from those of the *)
(* two below.                                                                *)
Descends(h, join) ==
  /\ h \in [NodeId -> Seq(NodeId)]
  /\ \A n \in NodeId : h[n] = IF Len(n[2]) = Depth THEN <<n>>
                              ELSE join[n][h[Child(n, 0)]][h[Child(n, 1)]]

(* It exists: the recursion goes down. *)
LEMMA DescentExists ==
  ASSUME NEW join \in [NodeId -> [Seq(NodeId) -> [Seq(NodeId) -> Seq(NodeId)]]]
  PROVE  \E h : Descends(h, join)
<1> DEFINE Order == [NodeId -> Seq(NodeId)]
           leaf == [n \in NodeId |-> <<n>>]
           down(g) == [n \in NodeId |->
                         IF Len(n[2]) = Depth THEN <<n>>
                         ELSE join[n][g[Child(n, 0)]][g[Child(n, 1)]]]
           step == [i \in Nat |-> [g \in Order |-> down(g)]]
<1>1. \A n \in NodeId : /\ <<n>> \in Seq(NodeId)
                        /\ Len(n[2]) \in Nat /\ Len(n[2]) <= Depth /\ Depth \in Nat
  BY NodeIdIs, DepthType
<1>2. \A n \in NodeId : Len(n[2]) # Depth =>
        /\ Child(n, 0) \in NodeId /\ Child(n, 1) \in NodeId
        /\ Len(Child(n, 0)[2]) = Len(n[2]) + 1 /\ Len(Child(n, 1)[2]) = Len(n[2]) + 1
  BY ChildrenBelow
<1>3. ASSUME NEW g \in Order
      PROVE  down(g) \in Order
  <2> SUFFICES ASSUME NEW n \in NodeId, Len(n[2]) # Depth
               PROVE  join[n][g[Child(n, 0)]][g[Child(n, 1)]] \in Seq(NodeId)
    BY <1>1
  <2>1. g[Child(n, 0)] \in Seq(NodeId) /\ g[Child(n, 1)] \in Seq(NodeId)
    BY <1>2
  <2> QED BY <2>1
<1>4. leaf \in Order /\ step \in [Nat -> [Order -> Order]]
  <2> HIDE DEF down
  <2> QED BY <1>1, <1>3
<1>5. PICK f : Iterates(f, Order, leaf, step)
  <2> HIDE DEF step, leaf, Order
  <2> QED BY <1>4, NatRecursion
<1>6. \A i \in Nat : /\ f[i] \in Order
                     /\ i = 0 => f[i] = leaf
                     /\ i # 0 => f[i] = down(f[i - 1])
  <2> TAKE i \in Nat
  <2>1. f[i] \in Order /\ f[i] = IF i = 0 THEN leaf ELSE step[i][f[i - 1]]
    <3> HIDE DEF step, leaf, Order
    <3> QED BY <1>5 DEF Iterates
  <2>2. i # 0 => i - 1 \in Nat /\ f[i - 1] \in Order
    <3> HIDE DEF step, leaf, Order
    <3> QED BY <1>5 DEF Iterates
  <2>3. i # 0 => step[i][f[i - 1]] = down(f[i - 1])
    <3> HIDE DEF down, Order
    <3> QED BY <2>2
  <2> HIDE DEF step, leaf, Order, down
  <2> QED BY <2>1, <2>3
<1> DEFINE h == [n \in NodeId |-> f[Depth - Len(n[2])][n]]
<1>7. ASSUME NEW n \in NodeId
      PROVE  h[n] = IF Len(n[2]) = Depth THEN <<n>>
                    ELSE join[n][h[Child(n, 0)]][h[Child(n, 1)]]
  <2> DEFINE i == Depth - Len(n[2])
  <2>1. h[n] = f[i][n] /\ i \in Nat
    BY <1>1
  <2>2. CASE Len(n[2]) = Depth
    <3>1. i = 0
      BY <1>1, <2>2
    <3> HIDE DEF i, h
    <3>2. f[i] = leaf
      BY <1>6, <2>1, <3>1
    <3> QED BY <2>1, <2>2, <3>2
  <2>3. CASE Len(n[2]) # Depth
    <3>1. /\ Child(n, 0) \in NodeId /\ Child(n, 1) \in NodeId
          /\ Depth - Len(Child(n, 0)[2]) = i - 1 /\ Depth - Len(Child(n, 1)[2]) = i - 1
          /\ i # 0
      <4>1. /\ Child(n, 0) \in NodeId /\ Child(n, 1) \in NodeId
            /\ Len(Child(n, 0)[2]) = Len(n[2]) + 1 /\ Len(Child(n, 1)[2]) = Len(n[2]) + 1
        BY <1>2, <2>3
      <4>2. Len(n[2]) \in Nat /\ Len(n[2]) <= Depth /\ Depth \in Nat
        BY <1>1
      <4>3. Depth - (Len(n[2]) + 1) = i - 1 /\ i # 0
        BY <2>3, <4>2
      <4> QED BY <4>1, <4>3, Zenon
    <3>2. h[Child(n, 0)] = f[i - 1][Child(n, 0)] /\ h[Child(n, 1)] = f[i - 1][Child(n, 1)]
      BY <3>1
    <3> HIDE DEF i, h
    <3>3. f[i] = down(f[i - 1])
      BY <1>6, <2>1, <3>1
    <3>4. f[i][n] = join[n][f[i - 1][Child(n, 0)]][f[i - 1][Child(n, 1)]]
      BY <2>3, <3>3
    <3> QED BY <2>1, <2>3, <3>2, <3>4
  <2> QED BY <2>2, <2>3
<1>8. h \in [NodeId -> Seq(NodeId)]
  <2> SUFFICES ASSUME NEW n \in NodeId
               PROVE  f[Depth - Len(n[2])][n] \in Seq(NodeId)
    OBVIOUS
  <2>1. Depth - Len(n[2]) \in Nat
    BY <1>1
  <2> QED BY <1>6, <2>1
<1> HIDE DEF h
<1> QED BY <1>7, <1>8 DEF Descends

(* The function that SweepOrder takes the order within a subtree from. *)
SweptBelow(h) ==
  h = [n \in NodeId |-> IF Len(n[2]) = Depth THEN <<n>>
                        ELSE h[Child(n, 0)] \o h[Child(n, 1)] \o <<n>>]

(* It exists. *)
LEMMA SweptBelowExists == \E h : SweptBelow(h)
<1> DEFINE join == [n \in NodeId |-> [s \in Seq(NodeId) |-> [t \in Seq(NodeId) |->
                      s \o t \o <<n>>]]]
<1>1. join \in [NodeId -> [Seq(NodeId) -> [Seq(NodeId) -> Seq(NodeId)]]]
  <2> SUFFICES ASSUME NEW n \in NodeId, NEW s \in Seq(NodeId), NEW t \in Seq(NodeId)
               PROVE  s \o t \o <<n>> \in Seq(NodeId)
    OBVIOUS
  <2>1. s \o t \in Seq(NodeId) /\ <<n>> \in Seq(NodeId)
    BY ConcatProperties
  <2> QED BY <2>1, ConcatProperties
<1> HIDE DEF join
<1>2. PICK h : Descends(h, join)
  BY <1>1, DescentExists
<1>3. \A n \in NodeId : h[n] = IF Len(n[2]) = Depth THEN <<n>>
                               ELSE h[Child(n, 0)] \o h[Child(n, 1)] \o <<n>>
  <2> SUFFICES ASSUME NEW n \in NodeId, Len(n[2]) # Depth
               PROVE  join[n][h[Child(n, 0)]][h[Child(n, 1)]]
                        = h[Child(n, 0)] \o h[Child(n, 1)] \o <<n>>
    BY <1>2 DEF Descends
  <2>1. Child(n, 0) \in NodeId /\ Child(n, 1) \in NodeId
    BY ChildrenBelow
  <2>2. h[Child(n, 0)] \in Seq(NodeId) /\ h[Child(n, 1)] \in Seq(NodeId)
    BY <1>2, <2>1 DEF Descends
  <2> QED BY <2>2 DEF join
<1>4. h = [n \in NodeId |-> IF Len(n[2]) = Depth THEN <<n>>
                            ELSE h[Child(n, 0)] \o h[Child(n, 1)] \o <<n>>]
  BY <1>2, <1>3 DEF Descends
<1> QED BY <1>4 DEF SweptBelow

(* A subtree is swept from below to its top, and with nodes of one octet. *)
Topped(s, n) ==
  /\ s \in Seq(NodeId)
  /\ Len(s) # 0 /\ s[Len(s)] = n
  /\ \A m \in ToSet(s) : m[1] = n[1]

(* A node put behind the sequences of its subtrees tops them. *)
LEMMA TopOn ==
  ASSUME NEW s \in Seq(NodeId), NEW n \in NodeId, \A m \in ToSet(s) : m[1] = n[1]
  PROVE  Topped(s \o <<n>>, n) /\ ToSet(s) \subseteq ToSet(s \o <<n>>)
<1> DEFINE t == s \o <<n>>
<1>1. <<n>> \in Seq(NodeId) /\ Len(<<n>>) = 1 /\ <<n>>[1] = n
  OBVIOUS
<1>2. Len(s) \in Nat
  BY LenProperties
<1>3. t \in Seq(NodeId) /\ Len(t) = Len(s) + 1 /\ t[Len(s) + 1] = n
  <2>1. /\ t \in Seq(NodeId) /\ Len(t) = Len(s) + Len(<<n>>)
        /\ \A i \in 1 .. Len(s) + Len(<<n>>) :
             t[i] = IF i <= Len(s) THEN s[i] ELSE <<n>>[i - Len(s)]
    BY <1>1, ConcatProperties
  <2> HIDE DEF t
  <2>2. Len(s) + 1 \in 1 .. Len(s) + Len(<<n>>) /\ ~(Len(s) + 1 <= Len(s))
    BY <1>1, <1>2
  <2>3. Len(s) + 1 - Len(s) = 1
    BY <1>2
  <2> QED BY <1>1, <2>1, <2>2, <2>3
<1>4. ToSet(t) = ToSet(s) \union ToSet(<<n>>)
  <2>1. \A u \in Seq(NodeId) : ToSet(s \o u) = ToSet(s) \union ToSet(u)
    BY ToSetOfConcat
  <2> QED BY ONLY <1>1, <2>1
<1>5. ToSet(<<n>>) = {n}
  <2>1. DOMAIN <<n>> = {1}
    OBVIOUS
  <2> QED BY ONLY <1>1, <2>1 DEF ToSet
<1> HIDE DEF t
<1>6. Topped(t, n) /\ ToSet(s) \subseteq ToSet(t)
  BY <1>2, <1>3, <1>4, <1>5 DEF Topped
<1> QED BY <1>6 DEF t

(* The recursion of SweepOrder comes to every node last in its own subtree, *)
(* and includes that in the parent's.                                       *)
LEMMA SweptBelowIs ==
  ASSUME NEW h, SweptBelow(h)
  PROVE  \A n \in NodeId :
           /\ Topped(h[n], n)
           /\ n[2] # <<>> => ToSet(h[n]) \subseteq ToSet(h[Parent(n)])
<1>1. \A n \in NodeId : h[n] = IF Len(n[2]) = Depth THEN <<n>>
                               ELSE h[Child(n, 0)] \o h[Child(n, 1)] \o <<n>>
  BY DEF SweptBelow
<1>2. ASSUME NEW n \in NodeId, Len(n[2]) < Depth,
             Topped(h[Child(n, 0)], Child(n, 0)), Topped(h[Child(n, 1)], Child(n, 1))
      PROVE  /\ Topped(h[n], n)
             /\ ToSet(h[Child(n, 0)]) \subseteq ToSet(h[n])
             /\ ToSet(h[Child(n, 1)]) \subseteq ToSet(h[n])
  <2> DEFINE s == h[Child(n, 0)]
             t == h[Child(n, 1)]
  <2>1. /\ s \in Seq(NodeId) /\ \A m \in ToSet(s) : m[1] = n[1]
        /\ t \in Seq(NodeId) /\ \A m \in ToSet(t) : m[1] = n[1]
    BY <1>2, ChildOf DEF Topped
  <2>2. Len(n[2]) \in Nat
    BY NodeIdIs
  <2>3. h[n] = s \o t \o <<n>>
    <3>1. Len(n[2]) # Depth
      BY <1>2, <2>2, DepthType
    <3> QED BY <1>1, <3>1
  <2> HIDE DEF s, t
  <2>4. s \o t \in Seq(NodeId) /\ ToSet(s \o t) = ToSet(s) \union ToSet(t)
    BY <2>1, ConcatProperties, ToSetOfConcat
  <2>5. Topped(s \o t \o <<n>>, n) /\ ToSet(s \o t) \subseteq ToSet(s \o t \o <<n>>)
    BY <2>1, <2>4, TopOn
  <2>6. Topped(h[n], n) /\ ToSet(s) \subseteq ToSet(h[n]) /\ ToSet(t) \subseteq ToSet(h[n])
    BY <2>3, <2>4, <2>5
  <2> QED BY <2>6 DEF s, t
<1> DEFINE P == {i \in 0..Depth : \A n \in NodeId : Len(n[2]) = Depth - i => Topped(h[n], n)}
<1>3. 0 \in P
  <2>0. 0 \in 0..Depth
    BY DepthType
  <2> SUFFICES ASSUME NEW n \in NodeId, Len(n[2]) = Depth - 0
               PROVE  Topped(h[n], n)
    BY <2>0
  <2>1. h[n] = <<n>>
    <3>1. Len(n[2]) = Depth
      BY DepthType
    <3> QED BY <1>1, <3>1
  <2>2. <<n>> \in Seq(NodeId) /\ Len(<<n>>) = 1 /\ <<n>>[1] = n
    OBVIOUS
  <2>3. ToSet(<<n>>) = {n}
    BY DEF ToSet
  <2> QED BY <2>1, <2>2, <2>3 DEF Topped
<1>4. ASSUME NEW i \in 1..Depth, i - 1 \in P
      PROVE  i \in P
  <2>0. i \in 0..Depth
    BY DepthType
  <2> SUFFICES ASSUME NEW n \in NodeId, Len(n[2]) = Depth - i
               PROVE  Topped(h[n], n)
    BY <2>0
  <2>1. Len(n[2]) < Depth /\ Len(n[2]) + 1 = Depth - (i - 1)
    BY DepthType
  <2>2. /\ Child(n, 0) \in NodeId /\ Len(Child(n, 0)[2]) = Depth - (i - 1)
        /\ Child(n, 1) \in NodeId /\ Len(Child(n, 1)[2]) = Depth - (i - 1)
    BY <2>1, ChildOf
  <2> QED BY <1>2, <1>4, <2>1, <2>2
<1>5. \A i \in 0..Depth : i \in P
  <2> HIDE DEF P
  <2> QED BY <1>3, <1>4, DepthType, IntervalInduct
<1>6. \A n \in NodeId : Topped(h[n], n)
  <2> TAKE n \in NodeId
  <2>1. Len(n[2]) \in Nat /\ Len(n[2]) <= Depth /\ Depth \in Nat
    BY NodeIdIs, DepthType
  <2>2. Depth - Len(n[2]) \in 0..Depth /\ Len(n[2]) = Depth - (Depth - Len(n[2]))
    BY <2>1
  <2> QED BY <1>5, <2>2
<1>7. ASSUME NEW n \in NodeId, n[2] # <<>>
      PROVE  ToSet(h[n]) \subseteq ToSet(h[Parent(n)])
  <2> DEFINE p == Parent(n)
  <2>1. p \in NodeId /\ Len(p[2]) = Len(n[2]) - 1 /\ n \in {Child(p, 0), Child(p, 1)}
    BY <1>7, ParentOf
  <2>2. Len(n[2]) \in Nat /\ Len(n[2]) <= Depth /\ Depth \in Nat
    BY NodeIdIs, DepthType
  <2> HIDE DEF p
  <2>3. Len(p[2]) < Depth
    BY <2>1, <2>2
  <2>4. Child(p, 0) \in NodeId /\ Child(p, 1) \in NodeId
    BY <2>1, <2>3, ChildOf
  <2>5. ToSet(h[Child(p, 0)]) \subseteq ToSet(h[p]) /\ ToSet(h[Child(p, 1)]) \subseteq ToSet(h[p])
    BY <1>2, <1>6, <2>1, <2>3, <2>4
  <2>6. ToSet(h[n]) \subseteq ToSet(h[p])
    BY <2>1, <2>5
  <2> QED BY <2>6 DEF p
<1> QED BY <1>6, <1>7
(* Whatever a sweep comes by, it comes by the octet's entry later, if it is  *)
(* not there.                                                                *)
Closes(s) == \A i \in 1..Len(s) : \E j \in i..Len(s) : s[j] = Root(s[i][1])

(* Sweeps of two octets, one after the other, close as each does. *)
LEMMA ClosesConcat ==
  ASSUME NEW s \in Seq(NodeId), NEW t \in Seq(NodeId), Closes(s), Closes(t)
  PROVE  Closes(s \o t)
<1> DEFINE u == s \o t
<1>1. /\ u \in Seq(NodeId) /\ Len(u) = Len(s) + Len(t)
      /\ \A i \in 1..Len(s) + Len(t) : u[i] = IF i <= Len(s) THEN s[i] ELSE t[i - Len(s)]
      /\ Len(s) \in Nat /\ Len(t) \in Nat
  BY ConcatProperties, LenProperties
<1> HIDE DEF u
<1>2. \A i \in 1..Len(s) : i \in 1..Len(u) /\ u[i] = s[i]
  BY <1>1
<1>3. \A i \in 1..Len(t) : /\ i + Len(s) \in 1..Len(u) /\ u[i + Len(s)] = t[i]
  <2> TAKE i \in 1..Len(t)
  <2>1. i + Len(s) \in 1..Len(s) + Len(t) /\ ~(i + Len(s) <= Len(s)) /\ i + Len(s) - Len(s) = i
    BY <1>1
  <2> QED BY <1>1, <2>1
<1>4. ASSUME NEW i \in 1..Len(u)
      PROVE  \E j \in i..Len(u) : u[j] = Root(u[i][1])
  <2>1. CASE i <= Len(s)
    <3>1. i \in 1..Len(s)
      BY <1>1, <2>1
    <3>2. PICK j \in i..Len(s) : s[j] = Root(s[i][1])
      BY <3>1 DEF Closes
    <3>3. j \in i..Len(u) /\ j \in 1..Len(s)
      BY <1>1, <3>1
    <3> QED BY <1>2, <3>1, <3>2, <3>3
  <2>2. CASE ~(i <= Len(s))
    <3>1. i - Len(s) \in 1..Len(t) /\ i - Len(s) + Len(s) = i
      BY <1>1, <2>2
    <3>2. PICK k \in i - Len(s)..Len(t) : t[k] = Root(t[i - Len(s)][1])
      BY <3>1 DEF Closes
    <3>3. k \in 1..Len(t) /\ k + Len(s) \in i..Len(u)
      BY <1>1, <3>1
    <3>4. u[k + Len(s)] = t[k] /\ u[i] = t[i - Len(s)]
      <4>1. u[i - Len(s) + Len(s)] = t[i - Len(s)]
        BY <1>3, <3>1
      <4> QED BY <1>3, <3>1, <3>3, <4>1
    <3> QED BY <3>2, <3>3, <3>4
  <2> QED BY <2>1, <2>2
<1>5. Closes(u)
  BY <1>4 DEF Closes
<1> QED BY <1>5 DEF u

(* The octets of the root array can be put in order, none is left out. *)
LEMMA OctetsAre ==
  /\ Cardinality(Octet) \in Nat /\ (Cardinality(Octet) = 0 <=> Octet = {})
  /\ Octets \in [1..Cardinality(Octet) -> Octet]
  /\ \A o \in Octet : \E i \in 1..Cardinality(Octet) : Octets[i] = o
  /\ \A i, j \in 1..Cardinality(Octet) : Octets[i] = Octets[j] => i = j
<1> DEFINE Below(k) == {o \in Octet : o < k}
           size(k) == Cardinality(Below(k))
           P == {k \in 0..256 : \E s \in [1..size(k) -> Below(k)] : Ascending(s)}
<1>1. /\ Octet \in SUBSET (0..255) /\ IsFiniteSet(Octet)
      /\ \A k : IsFiniteSet(Below(k)) /\ size(k) \in Nat
  <2>1. \A k : Below(k) \subseteq Octet
    OBVIOUS
  <2> HIDE DEF Below
  <2> QED BY <2>1, TrieAssumption, FS_Subset, FS_CardinalityType
<1>0. \A o \in Octet : o \in Int /\ 0 <= o /\ o < 256
  BY TrieAssumption
<1>2. 0 \in P
  <2>1. Below(0) = {}
    BY <1>0
  <2>2. size(0) = 0
    BY <2>1, FS_EmptySet
  <2> DEFINE none == [i \in 1..0 |-> i]
  <2>3. none \in [1..size(0) -> Below(0)]
    <3>1. \A i \in 1..0 : FALSE
      OBVIOUS
    <3>2. none \in [1..0 -> Below(0)]
      BY <3>1
    <3> QED BY <2>2, <3>2
  <2>4. Ascending(none)
    BY DEF Ascending
  <2> HIDE DEF none, Below, size
  <2>5. \E s \in [1..size(0) -> Below(0)] : Ascending(s)
    BY <2>3, <2>4
  <2> QED BY <2>5
<1>3. ASSUME NEW k \in 1..256, k - 1 \in P
      PROVE  k \in P
  <2>1. PICK s \in [1..size(k - 1) -> Below(k - 1)] : Ascending(s)
    BY <1>3
  <2>2. CASE k - 1 \notin Octet
    <3>1. Below(k) = Below(k - 1)
      BY <1>0, <2>2
    <3> HIDE DEF Below
    <3>2. \E t \in [1..size(k) -> Below(k)] : Ascending(t)
      BY <2>1, <3>1
    <3> HIDE DEF size
    <3> QED BY <3>2
  <2>3. CASE k - 1 \in Octet
    <3> DEFINE m == size(k - 1)
               t == [i \in 1..m + 1 |-> IF i = m + 1 THEN k - 1 ELSE s[i]]
    <3>1. Below(k) = Below(k - 1) \union {k - 1} /\ k - 1 \notin Below(k - 1)
          /\ \A o \in Below(k - 1) : o < k - 1 /\ o \in Nat
      BY <1>0, <2>3
    <3> HIDE DEF Below
    <3>2. size(k) = m + 1 /\ m \in Nat
      <4>1. IsFiniteSet(Below(k - 1)) /\ m \in Nat
        BY <1>1
      <4>2. size(k) = Cardinality(Below(k - 1) \union {k - 1})
        BY <3>1
      <4> QED BY ONLY <3>1, <4>1, <4>2, FS_AddElement
    <3> HIDE DEF size, m
    <3>3. \A i \in 1..m + 1 : i # m + 1 => i \in 1..m
      BY <3>2
    <3>4. s \in [1..m -> Below(k - 1)]
      BY <2>1 DEF m
    <3>5. t \in [1..size(k) -> Below(k)]
      BY <3>1, <3>2, <3>3, <3>4
    <3>6. Ascending(t)
      <4> SUFFICES ASSUME NEW i \in 1..m + 1, NEW j \in 1..m + 1, i < j
                   PROVE  t[i] < t[j]
        BY DEF Ascending
      <4>0. i # m + 1 /\ i \in 1..m
        BY <3>2
      <4>1. i \in 1..m /\ t[i] = s[i] /\ s[i] \in Below(k - 1)
        BY <3>4, <4>0
      <4>2. CASE j = m + 1
        BY <3>1, <4>1, <4>2
      <4>3. CASE j # m + 1
        <5>1. j \in 1..m /\ t[j] = s[j]
          BY <3>3, <4>3
        <5> QED BY <2>1, <3>4, <4>1, <5>1 DEF Ascending
      <4> QED BY <4>2, <4>3
    <3> HIDE DEF t, size
    <3>7. \E u \in [1..size(k) -> Below(k)] : Ascending(u)
      BY <3>5, <3>6
    <3> QED BY <3>7
  <2> QED BY <2>2, <2>3
<1>4. 256 \in P
  <2> HIDE DEF P
  <2> QED BY <1>2, <1>3, IntervalInduct
<1>5. Below(256) = Octet
  BY <1>0
<1>6. \E s \in [1..Cardinality(Octet) -> Octet] : Ascending(s)
  BY <1>4, <1>5
<1> HIDE DEF P, Below
<1>7. Octets \in [1..Cardinality(Octet) -> Octet] /\ Ascending(Octets)
  BY <1>6 DEF Octets
<1>8. Cardinality(Octet) \in Nat /\ (Cardinality(Octet) = 0 <=> Octet = {})
  <2>1. Cardinality(Octet) \in Nat
    BY ONLY <1>1, FS_CardinalityType
  <2>2. Cardinality(Octet) = 0 <=> Octet = {}
    BY ONLY <1>1, FS_EmptySet
  <2> QED BY ONLY <2>1, <2>2
<1> DEFINE D == 1..Cardinality(Octet)
<1>i. ASSUME NEW i \in D, NEW j \in D, Octets[i] = Octets[j]
      PROVE  i = j
  <2>1. Octets[i] \in Int /\ Octets[j] \in Int
    BY <1>0, <1>7
  <2>2. ~(i < j) /\ ~(j < i)
    BY <1>7, <1>i, <2>1 DEF Ascending
  <2> QED BY <1>8, <2>2
<1>9. Octets \in Injection(D, Octet)
  BY <1>7, <1>i, Fun_IsInj
<1>10. Cardinality(D) = Cardinality(Octet)
  <2>1. IsFiniteSet(1..0) /\ Cardinality(1..Cardinality(Octet)) = Cardinality(Octet)
    BY <1>8, FS_Interval
  <2> QED BY <2>1
<1>11. Octets \in Surjection(D, Octet)
  BY ONLY <1>1, <1>9, <1>10, FS_Injection
<1> QED BY <1>7, <1>8, <1>i, <1>11 DEF Surjection

(* A sweep comes by every node, and by the entry of an octet after whatever  *)
(* hangs from it (DeleteStaleRoutes).                                        *)
LEMMA SweepOrderIs ==
  /\ SweepOrder \in Seq(NodeId)
  /\ ToSet(SweepOrder) = NodeId
  /\ Closes(SweepOrder)
<1> DEFINE h == CHOOSE h : h = [n \in NodeId |->
                              IF Len(n[2]) = Depth THEN <<n>>
                              ELSE h[Child(n, 0)] \o h[Child(n, 1)] \o <<n>>]
           c == Cardinality(Octet)
           seqs == [i \in 1..c |-> h[<<Octets[i], <<>>>>]]
<1>1. SweptBelow(h)
  BY SweptBelowExists DEF SweptBelow
<1>2. SweepOrder = FlattenSeq(seqs)
  BY DEF SweepOrder
<1> HIDE DEF h
<1>3. \A n \in NodeId : /\ Topped(h[n], n)
                        /\ n[2] # <<>> => ToSet(h[n]) \subseteq ToSet(h[Parent(n)])
  BY <1>1, SweptBelowIs
<1>4. \A o \in Octet : o \in 0..255 /\ Root(o) \in NodeId
  <2>1. <<>> \in BitString
    <3>1. <<>> \in Seq({0, 1}) /\ Len(<<>>) = 0
      BY EmptySeq
    <3>2. 0 \in 0..Depth
      BY DepthType
    <3> QED BY <3>1, <3>2, BitStringIs
  <2> QED BY <2>1, TrieAssumption DEF NodeId, Root
<1>c1. /\ c \in Nat /\ (c = 0 <=> Octet = {})
       /\ \A i \in 1..c : Octets[i] \in Octet
       /\ \A o \in Octet : \E i \in 1..c : Octets[i] = o
  BY OctetsAre
<1> HIDE DEF c
<1>5. \A i \in 1..c : seqs[i] \in Seq(NodeId) /\ Closes(seqs[i])
  <2> TAKE i \in 1..c
  <2> DEFINE r == Root(Octets[i])
             s == h[r]
  <2>1. seqs[i] = s
    BY DEF Root
  <2>2. r \in NodeId /\ r[1] = Octets[i]
    BY <1>4, <1>c1 DEF Root
  <2>3. s \in Seq(NodeId) /\ Len(s) # 0 /\ s[Len(s)] = r /\ \A m \in ToSet(s) : m[1] = r[1]
    BY <1>3, <2>2 DEF Topped
  <2>4. Closes(s)
    <3> SUFFICES ASSUME NEW k \in 1..Len(s)
                 PROVE  \E j \in k..Len(s) : s[j] = Root(s[k][1])
      BY DEF Closes
    <3> HIDE DEF s
    <3>1. Len(s) \in k..Len(s)
      BY <2>3, LenProperties
    <3>2. s[k] \in ToSet(s)
      BY <2>3, LenProperties DEF ToSet
    <3> QED BY <2>2, <2>3, <3>1, <3>2
  <2> QED BY <2>1, <2>3, <2>4
<1>6. seqs \in Seq(Seq(NodeId)) /\ Len(seqs) = c
  <2>1. seqs \in [1..c -> Seq(NodeId)]
    <3>1. seqs = [i \in 1..c |-> seqs[i]]
      OBVIOUS
    <3> HIDE DEF seqs
    <3> QED BY <1>5, <3>1
  <2> HIDE DEF seqs
  <2>2. \A k \in Nat : seqs \in [1..k -> Seq(NodeId)] =>
          seqs \in Seq(Seq(NodeId)) /\ Len(seqs) = k
    OBVIOUS
  <2> QED BY <1>c1, <2>1, <2>2
<1>7. \A o \in Octet : \E i \in 1..c : seqs[i] = h[Root(o)]
  <2> TAKE o \in Octet
  <2>1. PICK i \in 1..c : Octets[i] = o
    BY <1>c1
  <2>2. seqs[i] = h[<<Octets[i], <<>>>>]
    OBVIOUS
  <2> HIDE DEF seqs
  <2> QED BY <2>1, <2>2 DEF Root
<1> HIDE DEF seqs
<1>8. ASSUME c = 0
      PROVE  /\ SweepOrder \in Seq(NodeId)
             /\ ToSet(SweepOrder) = NodeId
             /\ Closes(SweepOrder)
  <2>1. SweepOrder = seqs /\ Len(SweepOrder) = 0
    BY <1>2, <1>6, <1>8 DEF FlattenSeq
  <2>2. SweepOrder = <<>> /\ <<>> \in Seq(NodeId)
    BY <1>6, <2>1, EmptySeq
  <2>3. NodeId = {}
    BY <1>c1, <1>8 DEF NodeId
  <2>4. ToSet(<<>>) = {} /\ Closes(<<>>)
    BY EmptySeq DEF ToSet, Closes
  <2> QED BY <2>2, <2>3, <2>4
<1>s. SUFFICES ASSUME c # 0
               PROVE  /\ SweepOrder \in Seq(NodeId)
                      /\ ToSet(SweepOrder) = NodeId
                      /\ Closes(SweepOrder)
  BY <1>8
<1>e. seqs # <<>>
  <2> SUFFICES ASSUME seqs = <<>> PROVE FALSE
    OBVIOUS
  <2>1. Len(seqs) = 0
    OBVIOUS
  <2> QED BY <1>6, <1>s, <2>1
<1>9. PICK F : /\ F \in [Nat -> Seq(NodeId)] /\ F[0] = <<>>
               /\ \A i \in 1..c : F[i] = F[i - 1] \o seqs[i]
               /\ SweepOrder = F[c]
  BY <1>2, <1>6, <1>e, FlattenIs DEF Flattening
<1> DEFINE P == {i \in 0..c : /\ F[i] \in Seq(NodeId) /\ Closes(F[i])
                               /\ \A k \in 1..i : ToSet(seqs[k]) \subseteq ToSet(F[i])}
<1>10. \A i \in 0..c : i \in P
  <2>1. 0 \in P
    <3>1. <<>> \in Seq(NodeId) /\ Len(<<>>) = 0
      BY EmptySeq
    <3>2. Closes(<<>>)
      BY <3>1 DEF Closes
    <3>3. 0 \in 0..c /\ 1..0 = {}
      BY <1>c1
    <3> QED BY <1>9, <3>1, <3>2, <3>3
  <2>2. ASSUME NEW i \in 1..c, i - 1 \in P
        PROVE  i \in P
    <3>1. /\ F[i - 1] \in Seq(NodeId) /\ Closes(F[i - 1])
          /\ \A k \in 1..i - 1 : ToSet(seqs[k]) \subseteq ToSet(F[i - 1])
      BY <2>2
    <3>2. F[i] = F[i - 1] \o seqs[i] /\ seqs[i] \in Seq(NodeId) /\ Closes(seqs[i])
      BY <1>5, <1>9
    <3>3. /\ F[i] \in Seq(NodeId) /\ Closes(F[i])
          /\ ToSet(F[i]) = ToSet(F[i - 1]) \union ToSet(seqs[i])
      BY <3>1, <3>2, ConcatProperties, ClosesConcat, ToSetOfConcat
    <3>4. \A k \in 1..i : k = i \/ k \in 1..i - 1
      OBVIOUS
    <3>5. i \in 0..c
      OBVIOUS
    <3> QED BY <3>1, <3>3, <3>4, <3>5
  <2> HIDE DEF P
  <2> QED BY <1>c1, <2>1, <2>2, IntervalInduct
<1>11. /\ SweepOrder \in Seq(NodeId) /\ Closes(SweepOrder)
       /\ \A k \in 1..c : ToSet(seqs[k]) \subseteq ToSet(SweepOrder)
  <2>1. c \in P
    <3> HIDE DEF P
    <3> QED BY <1>c1, <1>10
  <2> QED BY <1>9, <2>1
<1> HIDE DEF P
<1>12. NodeId \subseteq ToSet(SweepOrder)
  <2> SUFFICES ASSUME NEW n \in NodeId
               PROVE  n \in ToSet(SweepOrder)
    OBVIOUS
  <2>1. /\ n = <<n[1], n[2]>> /\ n[1] \in Octet /\ n[2] \in BitString
        /\ Len(n[2]) \in Nat
    BY NodeIdIs
  <2> DEFINE len == Len(n[2])
             Q == {i \in 0..len : n \in ToSet(h[Anc(n[1], n[2], len - i)])}
  <2>2. 0 \in Q
    <3>1. len \in 0..len /\ len - 0 = len /\ 0 \in 0..len
      BY <2>1
    <3>2. Anc(n[1], n[2], len) = n
      BY <2>1, <3>1, AncestorOf
    <3>3. n \in ToSet(h[n])
      <4>1. h[n] \in Seq(NodeId) /\ Len(h[n]) # 0 /\ h[n][Len(h[n])] = n
        BY <1>3 DEF Topped
      <4> QED BY <4>1, LenProperties DEF ToSet
    <3> QED BY <3>1, <3>2, <3>3
  <2>3. ASSUME NEW i \in 1..len, i - 1 \in Q
        PROVE  i \in Q
    <3> DEFINE m == Anc(n[1], n[2], len - (i - 1))
    <3>1. len - (i - 1) \in 0..len /\ len - (i - 1) # 0 /\ len - (i - 1) - 1 = len - i /\ i \in 0..len
      BY <2>1
    <3>2. m \in NodeId /\ Len(m[2]) # 0 /\ Parent(m) = Anc(n[1], n[2], len - i)
      BY <2>1, <3>1, AncestorOf
    <3>3. n \in ToSet(h[m])
      BY <2>3
    <3> HIDE DEF m
    <3>4. m[2] # <<>>
      BY <3>2, NodeIdIs
    <3>5. n \in ToSet(h[Parent(m)])
      BY <1>3, <3>2, <3>3, <3>4
    <3> QED BY <3>1, <3>2, <3>5
  <2>4. \A i \in 0..len : i \in Q
    <3> HIDE DEF Q
    <3> QED BY <2>1, <2>2, <2>3, IntervalInduct
  <2>5. n \in ToSet(h[Root(n[1])])
    <3>1. len \in 0..len /\ len - len = 0 /\ 0 \in 0..len
      BY <2>1
    <3>2. n \in ToSet(h[Anc(n[1], n[2], 0)])
      BY <2>4, <3>1
    <3>3. Anc(n[1], n[2], 0) = Root(n[1])
      BY <2>1, <3>1, AncestorOf
    <3> QED BY <3>2, <3>3
  <2> HIDE DEF Q
  <2> QED BY <1>7, <1>11, <2>1, <2>5
<1>13. ToSet(SweepOrder) \subseteq NodeId
  BY <1>11, LenProperties, ElementOfSeq DEF ToSet
<1> QED BY <1>11, <1>12, <1>13

-----------------------------------------------------------------------------
(* The order of a walk *)

(* The nodes at n and below it, whether they exist or not. *)
Under(n) ==
  {m \in NodeId : Len(n[2]) <= Len(m[2]) /\ Anc(m[1], m[2], Len(n[2])) = n}

(* They are n and what is under its two children, nothing of it under both.  *)
LEMMA UnderIs ==
  ASSUME NEW n \in NodeId
  PROVE  IF Len(n[2]) = Depth THEN Under(n) = {n}
         ELSE LET under0 == Under(Child(n, 0))
                  under1 == Under(Child(n, 1))
              IN  /\ Under(n) = {n} \union under0 \union under1
                  /\ n \notin under0 \union under1
                  /\ under0 \intersect under1 = {}
<1> DEFINE k == Len(n[2])
<1>1. /\ n = <<n[1], n[2]>> /\ n[1] \in Octet /\ n[2] \in BitString
      /\ k \in Nat /\ k <= Depth /\ Depth \in Nat
  BY NodeIdIs, DepthType
<1>2. ASSUME NEW m \in NodeId, k <= Len(m[2])
      PROVE  /\ Len(m[2]) = k => Anc(m[1], m[2], k) = m
             /\ Len(m[2]) # k => /\ Len(m[2]) >= k + 1
                                 /\ Anc(m[1], m[2], k + 1)
                                      \in {Child(Anc(m[1], m[2], k), 0), Child(Anc(m[1], m[2], k), 1)}
                                 /\ Parent(Anc(m[1], m[2], k + 1)) = Anc(m[1], m[2], k)
  <2>1. /\ m = <<m[1], m[2]>> /\ m[1] \in Octet /\ m[2] \in BitString
        /\ m[2] \in Seq({0, 1}) /\ Len(m[2]) \in Nat
    BY NodeIdIs
  <2>2. k \in 0..Len(m[2])
    BY <1>1, <1>2, <2>1
  <2>3. Len(m[2]) = k => Anc(m[1], m[2], k) = m
    BY <2>1, <2>2, AncestorOf
  <2>4. ASSUME Len(m[2]) # k
        PROVE  /\ Len(m[2]) >= k + 1
               /\ Anc(m[1], m[2], k + 1)
                    \in {Child(Anc(m[1], m[2], k), 0), Child(Anc(m[1], m[2], k), 1)}
               /\ Parent(Anc(m[1], m[2], k + 1)) = Anc(m[1], m[2], k)
    <3>1. /\ k < Len(m[2]) /\ Len(m[2]) >= k + 1 /\ k + 1 \in 1..Len(m[2])
          /\ k + 1 \in 0..Len(m[2]) /\ k + 1 # 0 /\ k + 1 - 1 = k
      BY <1>1, <1>2, <2>1, <2>4
    <3>2. m[2][k + 1] \in {0, 1}
      BY <2>1, <3>1, ElementOfSeq
    <3>3. Anc(m[1], m[2], k + 1) = Child(Anc(m[1], m[2], k), m[2][k + 1])
      BY <2>1, <2>2, <3>1, AncestorOf
    <3>4. Parent(Anc(m[1], m[2], k + 1)) = Anc(m[1], m[2], k)
      <4>1. Parent(Anc(m[1], m[2], k + 1)) = Anc(m[1], m[2], k + 1 - 1)
        BY <2>1, <3>1, AncestorOf
      <4> QED BY <3>1, <4>1
    <3> QED BY <3>1, <3>2, <3>3, <3>4
  <2> QED BY <2>3, <2>4
<1>3. n \in Under(n)
  BY <1>1, <1>2 DEF Under
<1>4. CASE k = Depth
  <2>1. ASSUME NEW m \in Under(n)
        PROVE  m = n
    <3>1. m \in NodeId /\ k <= Len(m[2]) /\ Anc(m[1], m[2], k) = n
      BY DEF Under
    <3>2. Len(m[2]) \in Nat /\ Len(m[2]) <= Depth
      BY <3>1, NodeIdIs
    <3>3. Len(m[2]) = k
      BY <1>1, <1>4, <3>1, <3>2
    <3> QED BY <1>2, <3>1, <3>3
  <2> QED BY <1>3, <1>4, <2>1
<1>5. CASE k # Depth
  <2> DEFINE c0 == Child(n, 0)
             c1 == Child(n, 1)
  <2>1. Len(c0[2]) = k + 1 /\ Len(c1[2]) = k + 1 /\ Parent(c0) = n /\ Parent(c1) = n
    BY ChildOf
  <2>2. c0 # c1
    <3>1. n[2] \in Seq({0, 1})
      BY NodeIdIs
    <3>2. Append(n[2], 0)[Len(n[2]) + 1] = 0 /\ Append(n[2], 1)[Len(n[2]) + 1] = 1
      BY <3>1, AppendProperties
    <3>3. c0[2] = Append(n[2], 0) /\ c1[2] = Append(n[2], 1)
      BY DEF Child
    <3> QED BY <3>2, <3>3
  <2> HIDE DEF c0, c1
  <2>3. \A m \in Under(n) : m = n \/ m \in Under(c0) \/ m \in Under(c1)
    <3> TAKE m \in Under(n)
    <3>1. m \in NodeId /\ k <= Len(m[2]) /\ Anc(m[1], m[2], k) = n
      BY DEF Under
    <3>2. CASE Len(m[2]) = k
      BY <1>2, <3>1, <3>2
    <3>3. CASE Len(m[2]) # k
      <4>1. k + 1 <= Len(m[2])
        <5>1. Len(m[2]) \in Nat
          BY <3>1, NodeIdIs
        <5> QED BY <1>1, <3>1, <3>3, <5>1
      <4>2. Anc(m[1], m[2], k + 1) \in {c0, c1}
        BY <1>2, <3>1, <3>3 DEF c0, c1
      <4> QED BY <2>1, <3>1, <4>1, <4>2 DEF Under
    <3> QED BY <3>2, <3>3
  <2>4. ASSUME NEW c \in {c0, c1}, NEW m \in Under(c)
        PROVE  m \in Under(n) /\ m # n /\ Anc(m[1], m[2], k + 1) = c
    <3>1. m \in NodeId /\ k + 1 <= Len(m[2]) /\ Anc(m[1], m[2], k + 1) = c
      BY <2>1 DEF Under
    <3>2. Len(m[2]) \in Nat
      BY <3>1, NodeIdIs
    <3>3. k <= Len(m[2]) /\ Len(m[2]) # k
      BY <1>1, <3>1, <3>2
    <3>4. Anc(m[1], m[2], k) = n
      BY <1>2, <2>1, <3>1, <3>3
    <3> QED BY <3>1, <3>3, <3>4 DEF Under
  <2>5. /\ Under(n) = {n} \union Under(c0) \union Under(c1)
        /\ n \notin Under(c0) \union Under(c1)
        /\ Under(c0) \intersect Under(c1) = {}
    BY <1>3, <2>2, <2>3, <2>4
  <2> QED BY <1>5, <2>5 DEF c0, c1
<1> QED BY <1>4, <1>5

(* The function that WalkOrder takes the order within a subtree from. *)
WalkedBelow(h) ==
  h = [n \in NodeId |-> IF Len(n[2]) = Depth THEN <<n>>
                        ELSE <<n>> \o h[Child(n, 0)] \o h[Child(n, 1)]]

(* It exists. *)
LEMMA WalkedBelowExists == \E h : WalkedBelow(h)
<1> DEFINE join == [n \in NodeId |-> [s \in Seq(NodeId) |-> [t \in Seq(NodeId) |->
                      <<n>> \o s \o t]]]
<1>1. join \in [NodeId -> [Seq(NodeId) -> [Seq(NodeId) -> Seq(NodeId)]]]
  <2> SUFFICES ASSUME NEW n \in NodeId, NEW s \in Seq(NodeId), NEW t \in Seq(NodeId)
               PROVE  <<n>> \o s \o t \in Seq(NodeId)
    OBVIOUS
  <2>1. <<n>> \in Seq(NodeId)
    OBVIOUS
  <2>2. <<n>> \o s \in Seq(NodeId)
    BY <2>1, ConcatProperties
  <2> QED BY <2>2, ConcatProperties
<1> HIDE DEF join
<1>2. PICK h : Descends(h, join)
  BY <1>1, DescentExists
<1>3. \A n \in NodeId : h[n] = IF Len(n[2]) = Depth THEN <<n>>
                               ELSE <<n>> \o h[Child(n, 0)] \o h[Child(n, 1)]
  <2> SUFFICES ASSUME NEW n \in NodeId, Len(n[2]) # Depth
               PROVE  join[n][h[Child(n, 0)]][h[Child(n, 1)]]
                        = <<n>> \o h[Child(n, 0)] \o h[Child(n, 1)]
    BY <1>2 DEF Descends
  <2>1. Child(n, 0) \in NodeId /\ Child(n, 1) \in NodeId
    BY ChildrenBelow
  <2>2. h[Child(n, 0)] \in Seq(NodeId) /\ h[Child(n, 1)] \in Seq(NodeId)
    BY <1>2, <2>1 DEF Descends
  <2> QED BY <2>2 DEF join
<1>4. h = [n \in NodeId |-> IF Len(n[2]) = Depth THEN <<n>>
                            ELSE <<n>> \o h[Child(n, 0)] \o h[Child(n, 1)]]
  BY <1>2, <1>3 DEF Descends
<1> QED BY <1>4 DEF WalkedBelow

(* A sequence of every element of a set, each once. *)
Lists(s, S, T) == s \in Seq(T) /\ ToSet(s) = S /\ IsInjective(s)

(* One element is listed by itself. *)
LEMMA OneListed ==
  ASSUME NEW T, NEW x \in T
  PROVE  Lists(<<x>>, {x}, T)
<1>1. <<x>> \in Seq(T) /\ DOMAIN <<x>> = {1} /\ <<x>>[1] = x
  OBVIOUS
<1>2. ToSet(<<x>>) = {x} /\ IsInjective(<<x>>)
  BY ONLY <1>1 DEF ToSet, IsInjective
<1> QED BY <1>1, <1>2 DEF Lists

(* Two lists of different elements, one after the other. *)
LEMMA ListsConcat ==
  ASSUME NEW T, NEW S, NEW s, Lists(s, S, T), NEW U, NEW u, Lists(u, U, T),
         S \intersect U = {}
  PROVE  Lists(s \o u, S \union U, T)
BY InjectiveConcat, ToSetOfConcat, ConcatProperties DEF Lists

(* The walk of a subtree comes by each of its nodes once. *)
LEMMA WalkedBelowIs ==
  ASSUME NEW h, WalkedBelow(h)
  PROVE  \A n \in NodeId : Lists(h[n], Under(n), NodeId)
<1> DEFINE P == {i \in 0..Depth : \A n \in NodeId :
                   Len(n[2]) = Depth - i => Lists(h[n], Under(n), NodeId)}
<1>1. \A n \in NodeId : h[n] = IF Len(n[2]) = Depth THEN <<n>>
                               ELSE <<n>> \o h[Child(n, 0)] \o h[Child(n, 1)]
  BY DEF WalkedBelow
<1>2. 0 \in P
  <2>0. 0 \in 0..Depth
    BY DepthType
  <2> SUFFICES ASSUME NEW n \in NodeId, Len(n[2]) = Depth - 0
               PROVE  Lists(h[n], Under(n), NodeId)
    BY <2>0
  <2>1. Len(n[2]) = Depth
    BY DepthType
  <2>2. h[n] = <<n>> /\ Under(n) = {n}
    BY <1>1, <2>1, UnderIs
  <2> QED BY <2>2, OneListed
<1>3. ASSUME NEW i \in 1..Depth, i - 1 \in P
      PROVE  i \in P
  <2>0. i \in 0..Depth
    BY DepthType
  <2> SUFFICES ASSUME NEW n \in NodeId, Len(n[2]) = Depth - i
               PROVE  Lists(h[n], Under(n), NodeId)
    BY <2>0
  <2> DEFINE s == h[Child(n, 0)]
             t == h[Child(n, 1)]
             S == Under(Child(n, 0))
             U == Under(Child(n, 1))
  <2>1. Len(n[2]) # Depth /\ Len(n[2]) + 1 = Depth - (i - 1)
    BY DepthType
  <2>2. /\ Child(n, 0) \in NodeId /\ Len(Child(n, 0)[2]) = Depth - (i - 1)
        /\ Child(n, 1) \in NodeId /\ Len(Child(n, 1)[2]) = Depth - (i - 1)
    BY <2>1, ChildrenBelow
  <2>3. Lists(s, S, NodeId) /\ Lists(t, U, NodeId)
    BY <1>3, <2>2
  <2>4. h[n] = <<n>> \o s \o t
    BY <1>1, <2>1
  <2>5. /\ Under(n) = {n} \union S \union U
        /\ n \notin S \union U /\ S \intersect U = {}
    BY <2>1, UnderIs
  <2> HIDE DEF s, t, S, U
  <2>6. Lists(<<n>>, {n}, NodeId)
    BY OneListed
  <2>7. Lists(<<n>> \o s, {n} \union S, NodeId)
    <3>1. {n} \intersect S = {}
      BY <2>5
    <3> QED BY ONLY <2>3, <2>6, <3>1, ListsConcat
  <2>8. Lists(<<n>> \o s \o t, {n} \union S \union U, NodeId)
    <3>1. ({n} \union S) \intersect U = {}
      BY <2>5
    <3> QED BY ONLY <2>3, <2>7, <3>1, ListsConcat
  <2> QED BY <2>4, <2>5, <2>8
<1>4. \A i \in 0..Depth : i \in P
  <2> HIDE DEF P
  <2> QED BY <1>2, <1>3, DepthType, IntervalInduct
<1> SUFFICES ASSUME NEW n \in NodeId
             PROVE  Lists(h[n], Under(n), NodeId)
  OBVIOUS
<1>5. Len(n[2]) \in Nat /\ Len(n[2]) <= Depth /\ Depth \in Nat
  BY NodeIdIs, DepthType
<1>6. Depth - Len(n[2]) \in 0..Depth /\ Len(n[2]) = Depth - (Depth - Len(n[2]))
  BY <1>5
<1> QED BY <1>4, <1>6

(* A walk comes by every node once (collectMatching visits a node, then what *)
(* hangs from it).                                                           *)
LEMMA WalkOrderIs == Lists(WalkOrder, NodeId, NodeId)
<1> DEFINE h == CHOOSE h : h = [n \in NodeId |->
                              IF Len(n[2]) = Depth THEN <<n>>
                              ELSE <<n>> \o h[Child(n, 0)] \o h[Child(n, 1)]]
           c == Cardinality(Octet)
           seqs == [i \in 1..c |-> h[<<Octets[i], <<>>>>]]
<1>1. WalkedBelow(h)
  BY WalkedBelowExists DEF WalkedBelow
<1>2. WalkOrder = FlattenSeq(seqs)
  BY DEF WalkOrder
<1> HIDE DEF h
<1>3. \A n \in NodeId : Lists(h[n], Under(n), NodeId)
  BY <1>1, WalkedBelowIs
<1>4. \A o \in Octet : /\ Root(o) \in NodeId
                       /\ Under(Root(o)) = {m \in NodeId : m[1] = o}
  <2> TAKE o \in Octet
  <2>1. <<>> \in BitString /\ Len(<<>>) = 0
    <3>1. <<>> \in Seq({0, 1}) /\ Len(<<>>) = 0
      BY EmptySeq
    <3>2. 0 \in 0..Depth
      BY DepthType
    <3> QED BY <3>1, <3>2, BitStringIs
  <2>2. Root(o) \in NodeId /\ Root(o)[2] = <<>> /\ Root(o)[1] = o
    BY <2>1 DEF NodeId, Root
  <2>3. \A m \in NodeId : Len(m[2]) >= 0 /\ Anc(m[1], m[2], 0) = Root(m[1])
    <3> TAKE m \in NodeId
    <3>1. m[1] \in Octet /\ m[2] \in BitString /\ Len(m[2]) \in Nat
      BY NodeIdIs
    <3>2. 0 \in 0..Len(m[2])
      BY <3>1
    <3> QED BY <3>1, <3>2, AncestorOf
  <2>4. \A m \in NodeId : m \in Under(Root(o)) <=> Root(m[1]) = Root(o)
    BY <2>1, <2>2, <2>3 DEF Under
  <2>5. \A m \in NodeId : Root(m[1]) = Root(o) <=> m[1] = o
    BY DEF Root
  <2> QED BY <2>2, <2>4, <2>5 DEF Under
<1>5. /\ c \in Nat
      /\ \A i \in 1..c : Octets[i] \in Octet
      /\ \A o \in Octet : \E i \in 1..c : Octets[i] = o
      /\ \A i, j \in 1..c : Octets[i] = Octets[j] => i = j
  BY OctetsAre
<1> HIDE DEF c
<1>6. \A i \in 1..c : Lists(seqs[i], {m \in NodeId : m[1] = Octets[i]}, NodeId)
  <2> TAKE i \in 1..c
  <2>1. seqs[i] = h[Root(Octets[i])]
    BY DEF Root
  <2> HIDE DEF seqs
  <2> QED BY <1>3, <1>4, <1>5, <2>1
<1>7. seqs \in Seq(Seq(NodeId)) /\ DOMAIN seqs = 1..c
  <2>1. seqs \in [1..c -> Seq(NodeId)]
    <3>1. seqs = [i \in 1..c |-> seqs[i]]
      OBVIOUS
    <3> HIDE DEF seqs
    <3> QED BY <1>6, <3>1 DEF Lists
  <2> HIDE DEF seqs
  <2>2. \A k \in Nat : seqs \in [1..k -> Seq(NodeId)] =>
          seqs \in Seq(Seq(NodeId)) /\ DOMAIN seqs = 1..k
    OBVIOUS
  <2> QED BY <1>5, <2>1, <2>2
<1> HIDE DEF seqs
<1>8. Apart(seqs)
  <2>1. \A i \in DOMAIN seqs : /\ IsInjective(seqs[i])
                               /\ ToSet(seqs[i]) = {m \in NodeId : m[1] = Octets[i]}
    BY <1>6, <1>7 DEF Lists
  <2>2. \A i, j \in DOMAIN seqs : i # j => Octets[i] # Octets[j]
    BY <1>5, <1>7
  <2>3. \A i, j \in DOMAIN seqs : i # j => ToSet(seqs[i]) \intersect ToSet(seqs[j]) = {}
    BY <2>1, <2>2
  <2> QED BY <2>1, <2>3 DEF Apart
<1>9. UNION {ToSet(seqs[i]) : i \in DOMAIN seqs} = NodeId
  <2>1. \A i \in DOMAIN seqs : ToSet(seqs[i]) = {m \in NodeId : m[1] = Octets[i]}
    BY <1>6, <1>7 DEF Lists
  <2>2. \A m \in NodeId : \E i \in DOMAIN seqs : m[1] = Octets[i]
    BY <1>5, <1>7, NodeIdIs
  <2> QED BY <2>1, <2>2
<1> QED BY <1>2, <1>7, <1>8, <1>9, FlattenApart DEF Lists
=============================================================================
