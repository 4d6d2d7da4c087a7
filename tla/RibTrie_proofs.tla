---------------------------- MODULE RibTrie_proofs ----------------------------
(***************************************************************************)
(* Every write leaves a sound trie behind: the nodes hang from the root    *)
(* array, none is left that leads to no path, every node has one path for  *)
(* a path ID, and the counters describe exactly what is there.  For each   *)
(* write, also what it does to the paths of every prefix.                  *)
(***************************************************************************)
EXTENDS RibTrie_lemmas

(* pathCount is the sum of the nodes' paths, added up in any order. *)
LEMMA PathTotalIs ==
  ASSUME NEW T, Sound(T)
  PROVE  PathTotal(T) = MapThenSumSet(LAMBDA n : pathsCount(T[n]), DOMAIN T)
<1> DEFINE S == DOMAIN T
           f == [n \in S |-> pathsCount(T[n])]
           Body(g) == [s \in SUBSET S |->
                         IF s = {} THEN 0
                         ELSE LET x == CHOOSE x \in s : TRUE
                              IN pathsCount(T[x]) + g[s \ {x}]]
           sum == CHOOSE g : g = Body(g)
<1>1. IsFiniteSet(S) /\ \A n \in S : f[n] \in Int
  <2>1. \A n \in S : T[n] \in Tidy
    BY DEF Sound
  <2> QED BY <2>1, NodeHolds DEF Sound
<1>2. \A g : Body(g) = Summing(f, S, g)
  <2> TAKE g
  <2>1. ASSUME NEW s \in SUBSET S, s # {}
        PROVE  LET x == CHOOSE x \in s : TRUE
               IN  pathsCount(T[x]) + g[s \ {x}] = f[x] + g[s \ {x}]
    <3> DEFINE x == CHOOSE x \in s : TRUE
    <3>1. x \in S
      BY <2>1
    <3>2. f[x] = pathsCount(T[x])
      BY <3>1
    <3> HIDE DEF x, f
    <3>3. pathsCount(T[x]) + g[s \ {x}] = f[x] + g[s \ {x}]
      BY <3>2
    <3> QED BY <3>3 DEF x
  <2> HIDE DEF f, S
  <2> QED BY <2>1 DEF Summing
<1> HIDE DEF f
<1>3. PICK g : g = Summing(f, S, g)
  BY <1>1, SummingExists
<1>4. g = Body(g)
  BY <1>2, <1>3
<1> HIDE DEF Body
<1>5. sum = Body(sum)
  BY <1>4
<1>6. sum = Summing(f, S, sum)
  BY <1>2, <1>5
<1>7. MapThenSumSet(LAMBDA n : pathsCount(T[n]), S) = sum[S]
  BY DEF MapThenSumSet, MapThenFoldSet, Body
<1> HIDE DEF sum
<1>8. sum[S] = Total(f, S)
  BY ONLY <1>1, <1>6, TotalIs
<1> QED BY <1>7, <1>8 DEF PathTotal, f
-----------------------------------------------------------------------------
(* The inductive invariant. *)
TrieInv ==
  /\ Sound(trie) /\ Hanging(trie) /\ Loose(trie) = {}
  /\ Counted(trie, count, pathCount, nodeCount, masks)

(* An empty RIB has it. *)
LEMMA EmptyTrie ==
  LET T == [n \in {} |-> EmptyNode]
  IN  /\ Sound(T) /\ Hanging(T) /\ Loose(T) = {} /\ Routes(T) = {}
      /\ Counted(T, 0, 0, 0, [m \in MinMask .. MaxMask |-> 0])
      /\ \A n : PathsAt(T, n) = {}
<1> DEFINE T == [n \in {} |-> EmptyNode]
<1>1. DOMAIN T = {}
  OBVIOUS
<1>2. IsFiniteSet({}) /\ Cardinality({}) = 0
  BY FS_EmptySet
<1>3. T \in [DOMAIN T -> Tidy]
  OBVIOUS
<1> HIDE DEF T
<1>4. Sound(T) /\ Hanging(T) /\ Loose(T) = {} /\ Routes(T) = {}
  BY <1>1, <1>2, <1>3 DEF Sound, Hanging, Loose, Routes
<1>5. \A m : AtMask(T, m) = {}
  BY <1>4 DEF AtMask
<1>6. PathTotal(T) = 0
  <2> DEFINE f == [n \in {} |-> pathsCount(T[n])]
  <2>1. \A n \in {} : f[n] \in Int
    OBVIOUS
  <2> HIDE DEF f
  <2>2. Total(f, {}) = 0
    BY <1>2, <2>1, TotalOf
  <2> QED BY <1>1, <2>2, Zenon DEF PathTotal, f
<1>7. Counted(T, 0, 0, 0, [m \in MinMask .. MaxMask |-> 0])
  BY <1>1, <1>2, <1>4, <1>5, <1>6 DEF Counted
<1>8. \A n : PathsAt(T, n) = {}
  BY <1>1 DEF PathsAt
<1> QED BY <1>4, <1>7, <1>8 DEF T

(* The node that a prefix names. *)
LEMMA KeyOf ==
  ASSUME NEW o \in Octet, NEW bits \in Bits(Depth), NEW mask \in MinMask .. MaxMask,
         NEW key, key = SubSeq(bits, 1, mask - MinMask)
  PROVE  /\ key \in BitString
         /\ <<o, key>> \in NodeId
         /\ MaskOf(<<o, key>>) = mask
         /\ Anc(o, bits, mask - MinMask) = <<o, key>>
<1> DEFINE k == mask - MinMask
<1>1. k \in 0..Depth /\ MinMask + k = mask
  BY TrieAssumption DEF Depth
<1>2. bits \in Seq({0, 1}) /\ Len(bits) = Depth
  BY DepthType DEF Bits
<1> HIDE DEF k
<1>3. SubSeq(bits, 1, k) \in Seq({0, 1}) /\ Len(SubSeq(bits, 1, k)) = k
  BY <1>1, <1>2, FirstBits
<1>4. SubSeq(bits, 1, k) \in BitString
  BY <1>1, <1>3, BitStringIs
<1>5. MaskOf(<<o, SubSeq(bits, 1, k)>>) = mask
  BY <1>1, <1>3 DEF MaskOf
<1> QED BY <1>4, <1>5 DEF k, NodeId, Anc

-----------------------------------------------------------------------------
(* What a write returns: one prefix for each node of N, in some form. *)
Reports(N) ==
  /\ reported' \subseteq NetipPrefix
  /\ {NodeOf(p) : p \in reported'} = N
  /\ \A p, q \in reported' : NodeOf(p) = NodeOf(q) => p = q

(* The caller's prefix, or nothing. *)
LEMMA ReportsOne ==
  ASSUME NEW o \in Octet, NEW bits \in Bits(Depth), NEW mask \in MinMask .. MaxMask,
         NEW N \in SUBSET {Anc(o, bits, mask - MinMask)},
         reported' = {<<o, bits, mask>> : n \in N}
  PROVE  Reports(N)
<1> DEFINE p == <<o, bits, mask>>
<1>1. p \in NetipPrefix /\ NodeOf(p) = Anc(o, bits, mask - MinMask)
  BY DEF NetipPrefix, NodeOf
<1>2. reported' = {p : n \in N}
  OBVIOUS
<1> HIDE DEF p
<1>3. \A q \in reported' : q = p
  BY <1>2
<1>4. {NodeOf(q) : q \in reported'} = N
  BY <1>1, <1>2
<1> QED BY <1>1, <1>3, <1>4 DEF Reports

(* Nothing. *)
LEMMA ReportsNothing ==
  ASSUME reported' = {}
  PROVE  Reports({})
BY DEF Reports

(* The masked prefixes of the nodes, as the sweep makes them up. *)
LEMMA ReportsMasked ==
  ASSUME NEW N \in SUBSET NodeId, reported' = {PrefixOf(n) : n \in N}
  PROVE  Reports(N)
<1>1. ASSUME NEW n \in N
      PROVE  PrefixOf(n) \in NetipPrefix /\ NodeOf(PrefixOf(n)) = n
  <2> DEFINE k == Len(n[2])
             b == [i \in 1 .. Depth |-> IF i <= k THEN n[2][i] ELSE 0]
  <2>1. /\ n = <<n[1], n[2]>> /\ n[1] \in Octet /\ n[2] \in Seq({0, 1})
        /\ k \in 0..Depth /\ Depth \in Nat
    BY NodeIdIs, DepthType
  <2>2. \A i \in 1..k : n[2][i] \in {0, 1}
    BY <2>1, ElementOfSeq
  <2>3. b \in Bits(Depth)
    BY <2>1, <2>2 DEF Bits
  <2>4. MaskOf(n) \in MinMask .. MaxMask /\ MaskOf(n) - MinMask = k
    BY <2>1, MaskOfNode, TrieAssumption DEF MaskOf
  <2>5. PrefixOf(n) = <<n[1], b, MaskOf(n)>>
    BY DEF PrefixOf
  <2>6. SubSeq(b, 1, k) = n[2]
    <3>1. b \in Seq({0, 1}) /\ Len(b) = Depth
      BY <2>1, <2>3 DEF Bits
    <3>2. \A i \in 1..k : b[i] = n[2][i]
      BY <2>1
    <3> HIDE DEF b
    <3>3. /\ SubSeq(b, 1, k) \in Seq({0, 1}) /\ Len(SubSeq(b, 1, k)) = k
          /\ \A i \in 1..k : SubSeq(b, 1, k)[i] = b[i]
      BY <2>1, <3>1, FirstBits
    <3> QED BY <2>1, <3>2, <3>3
  <2> HIDE DEF b, k
  <2>7. PrefixOf(n) \in NetipPrefix
    BY <2>1, <2>3, <2>4, <2>5 DEF NetipPrefix
  <2>8. NodeOf(PrefixOf(n)) = Anc(n[1], b, k)
    BY <2>4, <2>5 DEF NodeOf
  <2> QED BY <2>1, <2>6, <2>7, <2>8 DEF Anc
<1>2. {NodeOf(p) : p \in reported'} = N
  <2>1. \A p \in reported' : NodeOf(p) \in N
    BY <1>1
  <2>2. \A n \in N : \E p \in reported' : NodeOf(p) = n
    BY <1>1
  <2> QED BY <2>1, <2>2
<1> QED BY <1>1, <1>2 DEF Reports
-----------------------------------------------------------------------------
(* Insert *)

(* The paths of the prefix change as setPath changes them, and those of no   *)
(* other prefix; InsertBatch reports the prefix if it is new.                *)
Announced(n, id, a, reuse) ==
  /\ \A m : m # n => PathsAt(trie', m) = PathsAt(trie, m)
  /\ LET same == {e \in PathsAt(trie, n) : e.pathID = id}
         candidates == IF same # {} THEN same ELSE {e \in PathsAt(trie, n) : e.stale}
         new == Entry(id, a, FALSE)
     IN \/ /\ reuse \in candidates
           /\ PathsAt(trie', n) = (PathsAt(trie, n) \ {reuse}) \union {new}
        \/ /\ candidates = {}
           /\ PathsAt(trie', n) = PathsAt(trie, n) \union {new}

(* insertUnlocked keeps the inductive invariant, announces one path at its  *)
(* prefix, and touches no other prefix (ipv4.go, ipv6.go).                  *)
LEMMA InsertKeeps ==
  ASSUME TrieInv,
         NEW o \in Octet, NEW bits \in Bits(Depth), NEW mask, NEW id \in PathID,
         NEW a \in Attr, insertUnlocked(o, bits, mask, id, a)
  PROVE  LET n == Anc(o, bits, mask - MinMask)
         IN  /\ TrieInv'
             /\ n \in NodeId
             /\ \E reuse : Announced(n, id, a, reuse)
             /\ Routes(trie') = Routes(trie) \union {n}
             /\ Reports({n} \ Routes(trie))
             /\ trie'[n] = setPath(Grow(trie, o, n[2])[n], id, a, FALSE).node
<1> DEFINE key == SubSeq(bits, 1, mask - MinMask)
           at == <<o, key>>
           G == Grow(trie, o, key)
           set == setPath(G[at], id, a, FALSE)
           k == nodeCount + Cardinality(Ancestors(o, key) \ DOMAIN trie)
<1>1. /\ ValidMask(mask) /\ Accepts(o)
      /\ trie' = Put(G, at, set.node)
      /\ nodeCount' = k
      /\ count' = IF ~hasPath(G[at]) THEN count + 1 ELSE count
      /\ masks' = IF ~hasPath(G[at]) THEN [masks EXCEPT ![mask] = @ + 1] ELSE masks
      /\ pathCount' = IF set.found THEN pathCount ELSE pathCount + 1
      /\ reported' = IF ~hasPath(G[at]) THEN {<<o, bits, mask>>} ELSE {}
  BY Zenon DEF insertUnlocked, Put
<1>2. /\ key \in BitString /\ at \in NodeId /\ MaskOf(at) = mask
      /\ Anc(o, bits, mask - MinMask) = at /\ at[2] = key
  <2>0. mask \in MinMask .. MaxMask
    BY <1>1 DEF ValidMask
  <2>1. key = SubSeq(bits, 1, mask - MinMask)
    OBVIOUS
  <2> HIDE DEF key
  <2>2. key \in BitString
    BY ONLY <2>0, <2>1, KeyOf
  <2>4. <<o, key>> \in NodeId
    BY ONLY <2>0, <2>1, KeyOf
  <2>5. MaskOf(<<o, key>>) = mask
    BY ONLY <2>0, <2>1, KeyOf
  <2>6. Anc(o, bits, mask - MinMask) = <<o, key>>
    BY ONLY <2>1, Zenon DEF Anc
  <2>3. <<o, key>>[2] = key
    OBVIOUS
  <2> QED BY <2>2, <2>3, <2>4, <2>5, <2>6
<1> HIDE DEF key
<1>3. /\ Sound(G) /\ Hanging(G) /\ Loose(G) \subseteq {at} /\ at \in DOMAIN G
      /\ \A n : PathsAt(G, n) = PathsAt(trie, n)
      /\ Routes(G) = Routes(trie)
      /\ Counted(G, count, pathCount, k, masks)
  BY <1>1, <1>2, GrowShape DEF TrieInv
<1> HIDE DEF k, G, at
<1>4. G[at] \in Tidy /\ \A e \in Entries(G[at]) : e.pathID \in PathID
  BY <1>3 DEF Sound
<1>5. id \in Nat
  BY TrieAssumption
<1> DEFINE same == {e \in Entries(G[at]) : e.pathID = id}
           candidates == IF same # {} THEN same ELSE {e \in Entries(G[at]) : e.stale}
           new == Entry(id, a, FALSE)
<1>6. /\ set.node \in Tidy
      /\ \/ \E e \in candidates :
              /\ Entries(set.node) = (Entries(G[at]) \ {e}) \union {new}
              /\ set.found
         \/ /\ candidates = {}
            /\ Entries(set.node) = Entries(G[at]) \union {new}
            /\ ~set.found
  <2> HIDE DEF set, new, candidates
  <2>1. G[at] \in Node /\ UniqueIDs(G[at]) /\ FALSE \in BOOLEAN
    BY <1>4 DEF Tidy
  <2>2. /\ set.node \in Node /\ UniqueIDs(set.node)
        /\ \/ \E e \in candidates :
                /\ Entries(set.node) = (Entries(G[at]) \ {e}) \union {new}
                /\ set.found /\ set.old = e.attrs
           \/ /\ candidates = {}
              /\ Entries(set.node) = Entries(G[at]) \union {new}
              /\ ~set.found /\ set.old = NoAttr
    BY <1>5, <2>1, SetExact, Zenon DEF set, new, candidates, same
  <2> QED BY <2>2 DEF Tidy
<1>7. pathsCount(set.node) = IF set.found THEN pathsCount(G[at]) ELSE pathsCount(G[at]) + 1
  BY <1>4, <1>5, SetShape DEF Tidy
<1>8. /\ hasPath(set.node)
      /\ \A e \in Entries(set.node) : e.pathID \in PathID
  <2>1. new \in Entries(set.node) /\ Entries(set.node) \subseteq Entries(G[at]) \union {new}
    BY <1>6
  <2>2. new.pathID = id
    BY DEF Entry
  <2> HIDE DEF new, set
  <2> QED BY <1>4, <1>6, <2>1, <2>2, NodeHolds
<1>9. Entries(G[at]) = PathsAt(trie, at)
  BY <1>3 DEF PathsAt
<1> HIDE DEF set, candidates, new
<1>10. /\ Sound(trie') /\ Hanging(trie') /\ DOMAIN trie' = DOMAIN G /\ trie'[at] = set.node
       /\ \A m \in DOMAIN G \ {at} : trie'[m] = G[m]
       /\ \A m : Children(trie', m) = Children(G, m)
       /\ \A m : PathsAt(trie', m) = IF m = at THEN Entries(set.node) ELSE PathsAt(G, m)
  BY <1>1, <1>3, <1>6, <1>8, PutShape
<1>11. Loose(trie') = {}
  BY <1>3, <1>8, <1>10 DEF Loose
<1>12. /\ Counted(trie', count + Delta(G[at], set.node),
                  pathCount + pathsCount(set.node) - pathsCount(G[at]), k,
                  Bump(masks, MaskOf(at), Delta(G[at], set.node)))
       /\ Routes(trie') = (Routes(G) \ {at}) \union {m \in {at} : hasPath(set.node)}
  <2>1. /\ Counted(Put(G, at, set.node), count + Delta(G[at], set.node),
                    pathCount + pathsCount(set.node) - pathsCount(G[at]), k,
                    Bump(masks, MaskOf(at), Delta(G[at], set.node)))
        /\ Routes(Put(G, at, set.node)) = (Routes(G) \ {at}) \union {m \in {at} : hasPath(set.node)}
    BY <1>3, <1>6, <1>8, PutCounted
  <2>2. trie' = Put(G, at, set.node)
    BY <1>1
  <2> QED BY ONLY <2>1, <2>2
<1>13. Counted(trie', count', pathCount', nodeCount', masks')
  <2>1. count \in Int /\ pathCount \in Int /\ pathsCount(G[at]) \in Nat
    BY <1>3, <1>4, CountsType, NodeHolds DEF Counted
  <2>2. pathCount + pathsCount(set.node) - pathsCount(G[at]) = pathCount'
    BY <1>1, <1>7, <2>1
  <2>3. masks = Bump(masks, MaskOf(at), 0)
    <3>1. masks = [m \in MinMask .. MaxMask |-> Cardinality(AtMask(G, m))]
      BY <1>3 DEF Counted
    <3>2. MaskOf(at) \in MinMask .. MaxMask
      BY <1>2, MaskOfNode
    <3>3. masks \in [MinMask .. MaxMask -> Nat]
      BY <1>3, <3>1, CountsType
    <3> QED BY ONLY <3>2, <3>3 DEF Bump
  <2>4. CASE hasPath(G[at])
    <3>1. Delta(G[at], set.node) = 0
      BY <1>8, <2>4 DEF Delta
    <3>2. count' = count + 0 /\ masks' = Bump(masks, MaskOf(at), 0)
      BY <1>1, <2>1, <2>3, <2>4
    <3> QED BY <1>1, <1>12, <2>2, <3>1, <3>2
  <2>5. CASE ~hasPath(G[at])
    <3>1. Delta(G[at], set.node) = 1
      BY <1>8, <2>5 DEF Delta
    <3>2. count' = count + 1 /\ masks' = Bump(masks, MaskOf(at), 1)
      BY <1>1, <1>2, <2>5 DEF Bump
    <3> QED BY <1>1, <1>12, <2>2, <3>1, <3>2
  <2> QED BY <2>4, <2>5
<1>14. TrieInv'
  BY <1>10, <1>11, <1>13 DEF TrieInv
<1>15. \E reuse : Announced(at, id, a, reuse)
  <2>1. \A m : m # at => PathsAt(trie', m) = PathsAt(trie, m)
    BY <1>3, <1>10
  <2>2. PathsAt(trie', at) = Entries(set.node)
    BY <1>10
  <2> QED BY <1>6, <1>9, <2>1, <2>2 DEF Announced, candidates, new
<1>16. Routes(trie') = Routes(trie) \union {at}
  BY <1>3, <1>8, <1>12
<1>17. Reports({at} \ Routes(trie))
  <2>1. at \in Routes(G) <=> hasPath(G[at])
    BY <1>3 DEF Routes
  <2> DEFINE N == {at} \ Routes(trie)
  <2>2. N = IF ~hasPath(G[at]) THEN {at} ELSE {}
    BY <1>3, <2>1
  <2> HIDE DEF N
  <2>3. reported' = {<<o, bits, mask>> : n \in N}
    BY <1>1, <2>2, Zenon
  <2>4. N \in SUBSET {Anc(o, bits, mask - MinMask)} /\ mask \in MinMask .. MaxMask
    BY <1>1, <1>2, <2>2 DEF ValidMask
  <2>5. Reports(N)
    BY ONLY <2>3, <2>4, ReportsOne, o \in Octet, bits \in Bits(Depth)
  <2> QED BY <2>5 DEF N
<1>18. trie'[at] = setPath(Grow(trie, o, at[2])[at], id, a, FALSE).node
  BY <1>2, <1>10 DEF set, G
<1> QED BY <1>2, <1>14, <1>15, <1>16, <1>17, <1>18 DEF at
-----------------------------------------------------------------------------
(* Delete *)

(* Changing the paths of one node leaves no other loose, and it only if it   *)
(* has lost its last path.                                                   *)
LEMMA PutLoose ==
  ASSUME NEW T, Sound(T), NEW n \in DOMAIN T,
         NEW x \in Tidy, \A e \in Entries(x) : e.pathID \in PathID
  PROVE  /\ Loose(Put(T, n, x)) \subseteq Loose(T) \union {n}
         /\ (hasPath(T[n]) => hasPath(x)) => Loose(Put(T, n, x)) \subseteq Loose(T)
<1> DEFINE R == Put(T, n, x)
<1>1. /\ DOMAIN R = DOMAIN T /\ R[n] = x
      /\ \A m \in DOMAIN T \ {n} : R[m] = T[m]
      /\ \A m : Children(R, m) = Children(T, m)
  BY PutShape
<1> HIDE DEF R
<1>2. Loose(R) \subseteq Loose(T) \union {n}
  BY <1>1 DEF Loose
<1>3. (hasPath(T[n]) => hasPath(x)) => Loose(R) \subseteq Loose(T)
  BY <1>1 DEF Loose
<1> QED BY <1>2, <1>3 DEF R

(* Nodes may be taken away in one go or in two. *)
LEMMA WithoutTwice ==
  ASSUME NEW T, NEW A, NEW B
  PROVE  Without(T, A \union B) = Without(Without(T, A), B)
<1>1. DOMAIN Without(T, A) = DOMAIN T \ A
  BY DEF Without
<1>2. (DOMAIN T \ A) \ B = DOMAIN T \ (A \union B)
  OBVIOUS
<1>3. \A n \in (DOMAIN T \ A) \ B : Without(T, A)[n] = T[n]
  BY DEF Without
<1> HIDE DEF Without
<1>4. Without(Without(T, A), B) = [n \in (DOMAIN T \ A) \ B |-> Without(T, A)[n]]
  BY <1>1, Zenon DEF Without
<1>5. [n \in (DOMAIN T \ A) \ B |-> Without(T, A)[n]] = [n \in (DOMAIN T \ A) \ B |-> T[n]]
  BY <1>3
<1>6. Without(T, A \union B) = [n \in (DOMAIN T \ A) \ B |-> T[n]]
  BY <1>2, Zenon DEF Without
<1> QED BY <1>4, <1>5, <1>6

(* The prefix that has lost its last path is counted as one. *)
LEMMA LostIs ==
  ASSUME NEW n, NEW was, NEW is, hasPath(is) => hasPath(was)
  PROVE  /\ LostPrefix(n, was, is) = IF hasPath(was) /\ ~hasPath(is) THEN {n} ELSE {}
         /\ Cardinality(LostPrefix(n, was, is)) = 0 - Delta(was, is)
         /\ Cardinality(LostPrefix(n, was, is)) \in {0, 1}
<1>1. Cardinality({n}) = 1 /\ Cardinality({}) = 0
  BY FS_Singleton, FS_EmptySet
<1>2. CASE hasPath(was) /\ ~hasPath(is)
  <2>1. LostPrefix(n, was, is) = {n}
    BY <1>2 DEF LostPrefix
  <2>2. Delta(was, is) = 0 - 1
    BY <1>2 DEF Delta
  <2>3. Cardinality(LostPrefix(n, was, is)) = 1
    BY <1>1, <2>1, Zenon
  <2>4. 0 - Delta(was, is) = 1
    BY <2>2
  <2> QED BY <1>2, <2>1, <2>3, <2>4
<1>3. CASE ~(hasPath(was) /\ ~hasPath(is))
  <2>1. LostPrefix(n, was, is) = {}
    BY <1>3 DEF LostPrefix
  <2>2. Delta(was, is) = 0
    BY <1>3 DEF Delta
  <2> QED BY <1>1, <1>3, <2>1, <2>2
<1> QED BY <1>2, <1>3

(* One path goes, that of the path ID, and no other of any prefix.           *)
Withdrawn(n, id) ==
  /\ \A m : m # n => PathsAt(trie', m) = PathsAt(trie, m)
  /\ \E e \in PathsAt(trie, n) :
       e.pathID = id /\ PathsAt(trie', n) = PathsAt(trie, n) \ {e}

(* deleteUnlocked: also what it prunes is pruned exactly. *)
LEMMA DeleteKeeps ==
  ASSUME TrieInv,
         NEW o \in Octet, NEW bits \in Bits(Depth), NEW mask, NEW id \in PathID,
         deleteUnlocked(o, bits, mask, id)
  PROVE  LET n == Anc(o, bits, mask - MinMask)
         IN  /\ TrieInv'
             /\ n \in NodeId
             /\ Withdrawn(n, id)
             /\ Reports(Routes(trie) \ Routes(trie'))
             /\ Routes(trie') \subseteq Routes(trie)
<1> DEFINE key == SubSeq(bits, 1, mask - MinMask)
           at == <<o, key>>
           cut == deletePath(trie[at], id)
           less == Put(trie, at, cut.node)
           up == Pruned(less, at)
           bare == BareEntry(Without(less, up), o)
           gone == up \union bare
           removed == LostPrefix(at, trie[at], cut.node)
<1>1. /\ ValidMask(mask) /\ Ancestors(o, key) \subseteq DOMAIN trie /\ cut.found
      /\ trie' = IF removed = {} THEN less ELSE Without(less, gone)
      /\ nodeCount' = IF removed = {} THEN nodeCount ELSE nodeCount - Cardinality(gone)
      /\ pathCount' = pathCount - 1
      /\ count' = count - Cardinality(removed)
      /\ masks' = [masks EXCEPT ![mask] = @ - Cardinality(removed)]
      /\ reported' = {<<o, bits, mask>> : n \in removed}
  BY Zenon DEF deleteUnlocked, Put
<1>2. /\ key \in BitString /\ at \in NodeId /\ MaskOf(at) = mask
      /\ Anc(o, bits, mask - MinMask) = at /\ at[1] = o
  <2>0. mask \in MinMask .. MaxMask
    BY <1>1 DEF ValidMask
  <2>1. key = SubSeq(bits, 1, mask - MinMask)
    OBVIOUS
  <2> HIDE DEF key
  <2>2. key \in BitString
    BY ONLY <2>0, <2>1, KeyOf
  <2>3. <<o, key>> \in NodeId
    BY ONLY <2>0, <2>1, KeyOf
  <2>4. MaskOf(<<o, key>>) = mask
    BY ONLY <2>0, <2>1, KeyOf
  <2>5. Anc(o, bits, mask - MinMask) = <<o, key>>
    BY ONLY <2>1, Zenon DEF Anc
  <2> QED BY <2>2, <2>3, <2>4, <2>5
<1> HIDE DEF key
<1>3. at \in DOMAIN trie
  BY <1>1, <1>2, AncestorsAre
<1> HIDE DEF at
<1>4. /\ Sound(trie) /\ Hanging(trie) /\ Loose(trie) = {}
      /\ Counted(trie, count, pathCount, nodeCount, masks)
      /\ trie[at] \in Tidy /\ \A e \in Entries(trie[at]) : e.pathID \in PathID
  BY <1>3 DEF TrieInv, Sound
<1>5. id \in Nat
  BY TrieAssumption
<1>6. /\ cut.node \in Tidy
      /\ \E e \in Entries(trie[at]) :
           e.pathID = id /\ Entries(cut.node) = Entries(trie[at]) \ {e}
      /\ pathsCount(cut.node) = pathsCount(trie[at]) - 1
  <2> DEFINE x == trie[at]
  <2>1. x \in Node /\ UniqueIDs(x)
    BY <1>4 DEF Tidy
  <2>2. cut = deletePath(x, id)
    OBVIOUS
  <2> HIDE DEF x, cut
  <2>3. /\ cut.node \in Node /\ UniqueIDs(cut.node)
        /\ \/ \E e \in Entries(x) : e.pathID = id /\ Entries(cut.node) = Entries(x) \ {e}
           \/ ~cut.found
    BY <1>5, <2>1, <2>2, DeleteExact, Zenon
  <2>4. PositionOf(x, id) # 0
    <3> SUFFICES ASSUME PositionOf(x, id) = 0 PROVE FALSE
      OBVIOUS
    <3>1. cut = Result(x, NoAttr, FALSE)
      BY <2>2, DeleteAbsent
    <3> QED BY <1>1, <3>1 DEF Result
  <2>5. pathsCount(cut.node) = pathsCount(x) - 1
    BY <1>5, <2>1, <2>2, <2>4, DeleteShape
  <2> QED BY <1>1, <2>3, <2>5 DEF x, Tidy
<1> HIDE DEF cut
<1>7. /\ \A e \in Entries(cut.node) : e.pathID \in PathID
      /\ hasPath(cut.node) => hasPath(trie[at])
      /\ hasPath(trie[at])
  <2>1. Entries(cut.node) \subseteq Entries(trie[at]) /\ Entries(trie[at]) # {}
    BY <1>6
  <2> QED BY <1>4, <1>6, <2>1, NodeHolds
<1>8. /\ Sound(less) /\ Hanging(less) /\ DOMAIN less = DOMAIN trie
      /\ \A m : PathsAt(less, m) = IF m = at THEN Entries(cut.node) ELSE PathsAt(trie, m)
  BY <1>3, <1>4, <1>6, <1>7, PutShape
<1>9. /\ Counted(less, count + Delta(trie[at], cut.node),
                 pathCount + pathsCount(cut.node) - pathsCount(trie[at]), nodeCount,
                 Bump(masks, MaskOf(at), Delta(trie[at], cut.node)))
      /\ Routes(less) = (Routes(trie) \ {at}) \union {m \in {at} : hasPath(cut.node)}
  BY <1>3, <1>4, <1>6, <1>7, PutCounted
<1>10. /\ Loose(less) \subseteq Loose(trie) \union {at}
       /\ hasPath(cut.node) => Loose(less) \subseteq Loose(trie)
  BY <1>3, <1>4, <1>6, <1>7, PutLoose
<1>11. /\ removed = IF hasPath(cut.node) THEN {} ELSE {at}
       /\ Cardinality(removed) = 0 - Delta(trie[at], cut.node)
       /\ Cardinality(removed) \in {0, 1}
  BY <1>7, LostIs
<1> HIDE DEF removed
<1>12. Counted(less, count', pathCount', nodeCount, masks')
  <2>1. /\ count \in Int /\ pathCount \in Int
        /\ pathsCount(trie[at]) \in Nat
    BY <1>4, CountsType, NodeHolds DEF Counted
  <2>2. pathCount + pathsCount(cut.node) - pathsCount(trie[at]) = pathCount'
    BY <1>1, <1>6, <2>1
  <2>3. Delta(trie[at], cut.node) = 0 - Cardinality(removed)
    BY <1>11 DEF Delta
  <2>4. count + Delta(trie[at], cut.node) = count'
    BY <1>1, <1>11, <2>1, <2>3
  <2>5. masks' = Bump(masks, MaskOf(at), Delta(trie[at], cut.node))
    <3>1. \A x : x \in Int => x - Cardinality(removed) = x + Delta(trie[at], cut.node)
      BY <1>11, <2>3
    <3>2. masks = [m \in MinMask .. MaxMask |-> Cardinality(AtMask(trie, m))]
      BY <1>4 DEF Counted
    <3>3. MaskOf(at) \in MinMask .. MaxMask
      BY <1>2, MaskOfNode
    <3>4. Cardinality(AtMask(trie, MaskOf(at))) \in Nat
      BY <1>4, CountsType
    <3>5. masks[MaskOf(at)] \in Int
      BY <3>2, <3>3, <3>4
    <3>6. masks[MaskOf(at)] - Cardinality(removed) = masks[MaskOf(at)] + Delta(trie[at], cut.node)
      BY <3>1, <3>5
    <3>7. masks' = [masks EXCEPT ![MaskOf(at)] = masks[MaskOf(at)] - Cardinality(removed)]
      BY <1>1, <1>2
    <3>8. masks' = [masks EXCEPT ![MaskOf(at)] = masks[MaskOf(at)] + Delta(trie[at], cut.node)]
      BY <3>6, <3>7
    <3> QED BY <3>8 DEF Bump
  <2> QED BY <1>9, <2>2, <2>4, <2>5
<1> HIDE DEF less
<1>13. CASE hasPath(cut.node)
  <2>1. removed = {} /\ trie' = less /\ nodeCount' = nodeCount
    BY <1>1, <1>11, <1>13
  <2>2. TrieInv'
    BY <1>4, <1>8, <1>10, <1>12, <1>13, <2>1 DEF TrieInv
  <2>3. Withdrawn(at, id)
    <3>1. PathsAt(trie, at) = Entries(trie[at])
      BY <1>3 DEF PathsAt
    <3> QED BY <1>6, <1>8, <2>1, <3>1 DEF Withdrawn
  <2>4. at \in Routes(trie)
    BY <1>3, <1>7 DEF Routes
  <2>5. Routes(trie') = Routes(trie)
    BY <1>9, <1>13, <2>1, <2>4
  <2>6. Reports(Routes(trie) \ Routes(trie'))
    <3>1. reported' = {} /\ Routes(trie) \ Routes(trie') = {}
      BY <1>1, <2>1, <2>5
    <3> QED BY <3>1, ReportsNothing
  <2> QED BY <1>2, <2>2, <2>3, <2>5, <2>6
<1>14. CASE ~hasPath(cut.node)
  <2>1. removed = {at} /\ trie' = Without(less, gone) /\ nodeCount' = nodeCount - Cardinality(gone)
    BY <1>1, <1>11, <1>14
  <2> DEFINE W == Without(less, up)
  <2>2. /\ up \in SUBSET DOMAIN less /\ \A m \in up : ~hasPath(less[m])
        /\ Hanging(W) /\ Loose(W) \subseteq (Loose(less) \ {at}) \union {Root(o)}
    BY <1>2, <1>3, <1>8, PruneShape
  <2> HIDE DEF up
  <2>3. /\ Sound(W) /\ DOMAIN W = DOMAIN less \ up
        /\ \A m \in DOMAIN less \ up : W[m] = less[m]
    BY <1>8, <2>2, WithoutBare
  <2>4. /\ bare \in SUBSET DOMAIN W /\ \A m \in bare : ~hasPath(W[m])
        /\ Hanging(Without(W, bare))
        /\ Loose(Without(W, bare)) = Loose(W) \ {Root(o)}
    BY <2>2, <2>3, BareEntryShape
  <2> HIDE DEF bare
  <2>5. Without(less, gone) = Without(W, bare)
    BY WithoutTwice
  <2> HIDE DEF W
  <2>6. gone \in SUBSET DOMAIN less /\ \A m \in gone : ~hasPath(less[m])
    BY <2>2, <2>3, <2>4
  <2> HIDE DEF gone
  <2>7. /\ Sound(trie') /\ Routes(trie') = Routes(less)
        /\ \A m : PathsAt(trie', m) = PathsAt(less, m)
    <3> DEFINE R == Without(less, gone)
    <3>1. /\ Sound(R) /\ Routes(R) = Routes(less)
          /\ \A m : PathsAt(R, m) = PathsAt(less, m)
      BY <1>8, <2>6, WithoutBare
    <3>2. trie' = R
      BY <2>1
    <3> HIDE DEF R
    <3> QED BY <3>1, <3>2
  <2>8. Counted(trie', count', pathCount', nodeCount', masks')
    <3>1. Counted(Without(less, gone), count', pathCount', nodeCount - Cardinality(gone), masks')
      BY <1>8, <1>12, <2>6, WithoutCounted
    <3> QED BY <2>1, <3>1
  <2>9. Hanging(trie') /\ Loose(trie') = {}
    BY <1>4, <1>10, <2>1, <2>2, <2>4, <2>5
  <2>10. TrieInv'
    BY <2>7, <2>8, <2>9 DEF TrieInv
  <2>11. Withdrawn(at, id)
    <3>1. PathsAt(trie, at) = Entries(trie[at])
      BY <1>3 DEF PathsAt
    <3>2. \A m : PathsAt(trie', m) = IF m = at THEN Entries(cut.node) ELSE PathsAt(trie, m)
      BY <1>8, <2>7
    <3> QED BY <1>6, <3>1, <3>2 DEF Withdrawn
  <2>12. at \in Routes(trie)
    BY <1>3, <1>7 DEF Routes
  <2>13. Routes(trie') = Routes(trie) \ {at}
    BY <1>9, <1>14, <2>7
  <2>14. /\ Reports(Routes(trie) \ Routes(trie'))
         /\ Routes(trie') \subseteq Routes(trie)
    <3>1. Routes(trie) \ Routes(trie') = {at} /\ Routes(trie') \subseteq Routes(trie)
      BY <2>12, <2>13
    <3>2. reported' = {<<o, bits, mask>> : n \in {at}}
      BY <1>1, <2>1
    <3>3. {at} \in SUBSET {Anc(o, bits, mask - MinMask)} /\ mask \in MinMask .. MaxMask
      BY <1>1, <1>2 DEF ValidMask
    <3> HIDE DEF at
    <3>4. Reports({at})
      BY ONLY <3>2, <3>3, ReportsOne, o \in Octet, bits \in Bits(Depth)
    <3> QED BY <3>1, <3>4
  <2> QED BY <1>2, <2>10, <2>11, <2>14
<1> QED BY <1>13, <1>14

-----------------------------------------------------------------------------
(* MarkAllStale and Reset *)

(* The counters depend on the number of paths of each node only. *)
LEMMA SameNumbers ==
  ASSUME NEW T, Sound(T), NEW R, Sound(R), DOMAIN R = DOMAIN T,
         \A n \in DOMAIN T : pathsCount(R[n]) = pathsCount(T[n])
  PROVE  /\ Routes(R) = Routes(T)
         /\ Loose(R) = Loose(T)
         /\ Hanging(R) <=> Hanging(T)
         /\ \A c, p, k, ms : Counted(T, c, p, k, ms) => Counted(R, c, p, k, ms)
<1>1. \A n \in DOMAIN T : T[n] \in Tidy /\ R[n] \in Tidy
  BY DEF Sound
<1>2. \A n \in DOMAIN T : hasPath(R[n]) <=> hasPath(T[n])
  BY <1>1, NodeHolds
<1>3. \A n : Children(R, n) = Children(T, n)
  BY DEF Children
<1>4. Routes(R) = Routes(T) /\ Loose(R) = Loose(T)
  BY <1>2, <1>3 DEF Routes, Loose
<1>5. \A m : AtMask(R, m) = AtMask(T, m)
  BY <1>4 DEF AtMask
<1>6. PathTotal(R) = PathTotal(T)
  <2> DEFINE f == [n \in DOMAIN T |-> pathsCount(T[n])]
             g == [n \in DOMAIN R |-> pathsCount(R[n])]
  <2>1. g = f
    OBVIOUS
  <2> HIDE DEF f, g
  <2>2. Total(g, DOMAIN R) = Total(f, DOMAIN T)
    BY <2>1, Zenon
  <2> QED BY <2>2 DEF PathTotal, f, g
<1>7. ASSUME NEW c, NEW p, NEW k, NEW ms, Counted(T, c, p, k, ms)
      PROVE  Counted(R, c, p, k, ms)
  <2>1. [m \in MinMask .. MaxMask |-> Cardinality(AtMask(R, m))]
          = [m \in MinMask .. MaxMask |-> Cardinality(AtMask(T, m))]
    BY <1>5
  <2> QED BY <1>4, <1>6, <1>7, <2>1, Zenon DEF Counted
<1>8. Hanging(R) <=> Hanging(T)
  BY DEF Hanging
<1> QED BY <1>4, <1>7, <1>8

(* Every path becomes stale and stays where it is. *)
Staling ==
  \A n : PathsAt(trie', n) = {Entry(e.pathID, e.attrs, TRUE) : e \in PathsAt(trie, n)}

(* MarkAllStale: its shortcut for a RIB without paths changes nothing.       *)
LEMMA MarkKeeps ==
  ASSUME TrieInv, MarkAllStale
  PROVE  /\ TrieInv' /\ Staling /\ Routes(trie') = Routes(trie) /\ reported' = {}
         /\ DOMAIN trie' = DOMAIN trie
         /\ \A n \in DOMAIN trie : pathsCount(trie'[n]) = pathsCount(trie[n])
<1>1. /\ Sound(trie) /\ Hanging(trie) /\ Loose(trie) = {}
      /\ Counted(trie, count, pathCount, nodeCount, masks)
  BY DEF TrieInv
<1>2. /\ trie' = IF pathCount = 0 THEN trie ELSE [n \in DOMAIN trie |-> markStale(trie[n])]
      /\ reported' = {} /\ count' = count /\ pathCount' = pathCount
      /\ nodeCount' = nodeCount /\ masks' = masks
  BY DEF MarkAllStale
<1>3. \A n \in DOMAIN trie : trie[n] \in Tidy /\ pathsCount(trie[n]) \in Nat
  BY <1>1, NodeHolds DEF Sound
<1>4. CASE pathCount = 0
  <2> DEFINE f == [n \in DOMAIN trie |-> pathsCount(trie[n])]
  <2>1. IsFiniteSet(DOMAIN trie) /\ \A n \in DOMAIN trie : f[n] \in Nat
    BY <1>1, <1>3 DEF Sound
  <2>2. Total(f, DOMAIN trie) = 0
    BY <1>1, <1>4, Zenon DEF Counted, PathTotal
  <2> HIDE DEF f
  <2>3. \A n \in DOMAIN trie : f[n] <= 0
    BY <2>1, <2>2, PartOfTotal
  <2>4. \A n \in DOMAIN trie : pathsCount(trie[n]) = 0
    BY <2>1, <2>3 DEF f
  <2>5. \A n \in DOMAIN trie : Entries(trie[n]) = {}
    BY <1>3, <2>4, NodeHolds
  <2>6. trie' = trie /\ \A n : PathsAt(trie, n) = {}
    BY <1>2, <1>4, <2>5 DEF PathsAt
  <2> QED BY <1>1, <1>2, <2>6 DEF TrieInv, Staling
<1>5. CASE pathCount # 0
  <2> DEFINE T == [n \in DOMAIN trie |-> markStale(trie[n])]
  <2>1. \A n \in DOMAIN trie :
          /\ markStale(trie[n]) \in Tidy
          /\ pathsCount(markStale(trie[n])) = pathsCount(trie[n])
          /\ Entries(markStale(trie[n]))
               = {Entry(e.pathID, e.attrs, TRUE) : e \in Entries(trie[n])}
    BY <1>3, MarkExact DEF Tidy
  <2>2. trie' = T /\ DOMAIN T = DOMAIN trie /\ T \in [DOMAIN T -> Tidy]
        /\ \A n \in DOMAIN trie : T[n] = markStale(trie[n])
    BY <1>2, <1>5, <2>1
  <2> HIDE DEF T
  <2>3. \A n \in DOMAIN trie : \A e \in Entries(T[n]) : e.pathID \in PathID
    <3> SUFFICES ASSUME NEW n \in DOMAIN trie, NEW e \in Entries(T[n])
                 PROVE  e.pathID \in PathID
      OBVIOUS
    <3>1. PICK f \in Entries(trie[n]) : e = Entry(f.pathID, f.attrs, TRUE)
      BY <2>1, <2>2
    <3>2. f.pathID \in PathID
      BY <1>1 DEF Sound
    <3> QED BY <3>1, <3>2, EntryID
  <2>4. Sound(T)
    BY <1>1, <2>2, <2>3 DEF Sound
  <2>5. /\ Routes(T) = Routes(trie) /\ Loose(T) = Loose(trie) /\ Hanging(T)
        /\ Counted(T, count, pathCount, nodeCount, masks)
    BY <1>1, <2>1, <2>2, <2>4, SameNumbers
  <2>6. Staling
    <3> SUFFICES ASSUME NEW n
                 PROVE  PathsAt(T, n) = {Entry(e.pathID, e.attrs, TRUE) : e \in PathsAt(trie, n)}
      BY <2>2 DEF Staling
    <3>1. CASE n \in DOMAIN trie
      BY <2>1, <2>2, <3>1 DEF PathsAt
    <3>2. CASE n \notin DOMAIN trie
      BY <2>2, <3>2 DEF PathsAt
    <3> QED BY <3>1, <3>2
  <2>7. TrieInv'
    BY <1>1, <1>2, <2>2, <2>4, <2>5 DEF TrieInv
  <2>8. DOMAIN trie' = DOMAIN trie /\ Routes(trie') = Routes(trie)
    BY <2>2, <2>5
  <2>9. \A n \in DOMAIN trie : pathsCount(trie'[n]) = pathsCount(trie[n])
    BY <2>1, <2>2
  <2> QED BY <1>2, <2>6, <2>7, <2>8, <2>9
<1> QED BY <1>4, <1>5

(* Reset leaves an empty RIB. *)
LEMMA ResetKeeps ==
  ASSUME Reset
  PROVE  TrieInv' /\ Routes(trie') = {} /\ reported' = {} /\ \A n : PathsAt(trie', n) = {}
BY EmptyTrie, Zenon DEF Reset, TrieInv

-----------------------------------------------------------------------------
(* DeleteStaleRoutes *)

(* Counters that describe a trie are numbers. *)
LEMMA CountedType ==
  ASSUME NEW T, Sound(T), NEW c, NEW p, NEW k, NEW ms, Counted(T, c, p, k, ms)
  PROVE  c \in Nat /\ p \in Nat /\ k \in Nat /\ ms \in [MinMask .. MaxMask -> Nat]
<1>1. c \in Nat /\ k \in Nat
  BY CountsType DEF Counted
<1>2. p \in Nat
  <2> DEFINE f == [n \in DOMAIN T |-> pathsCount(T[n])]
  <2>1. \A n \in DOMAIN T : f[n] \in Nat
    <3>1. \A n \in DOMAIN T : T[n] \in Tidy
      BY DEF Sound
    <3> QED BY <3>1, NodeHolds
  <2>2. IsFiniteSet(DOMAIN T)
    BY DEF Sound
  <2> HIDE DEF f
  <2>3. Total(f, DOMAIN T) \in Nat
    BY <2>1, <2>2, PartOfTotal
  <2> QED BY <2>3, Zenon DEF Counted, PathTotal, f
<1>3. ms \in [MinMask .. MaxMask -> Nat]
  <2>1. \A m : Cardinality(AtMask(T, m)) \in Nat
    BY CountsType
  <2> QED BY <2>1 DEF Counted
<1> QED BY <1>1, <1>2, <1>3

(* The prefixes of one length become fewer. *)
LEMMA FewerAtMask ==
  ASSUME NEW T, Sound(T), NEW c, NEW p, NEW k, NEW ms, Counted(T, c, p, k, ms),
         NEW n \in NodeId, NEW d, NEW r \in {0, 1}, r = 0 - d, d \in Int
  PROVE  [ms EXCEPT ![MaskOf(n)] = @ - r] = Bump(ms, MaskOf(n), d)
<1>1. ms \in [MinMask .. MaxMask -> Nat] /\ MaskOf(n) \in MinMask .. MaxMask
  BY CountedType, MaskOfNode
<1>2. \A x : x \in Int => x - r = x + d
  OBVIOUS
<1>3. ms[MaskOf(n)] - r = ms[MaskOf(n)] + d
  BY <1>1, <1>2
<1> QED BY <1>3 DEF Bump

(* A RIB in the middle of a sweep: nodes may be loose. *)
Tries == UNION {[D -> Tidy] : D \in SUBSET NodeId}
SweepFields ==
  [trie : Tries, count : Nat, pathCount : Nat, nodeCount : Nat,
   masks : [MinMask .. MaxMask -> Nat], removed : SUBSET NodeId]
SweepState ==
  {S \in SweepFields :
     /\ Sound(S.trie) /\ Hanging(S.trie)
     /\ Counted(S.trie, S.count, S.pathCount, S.nodeCount, S.masks)}

FreshOf(paths) == {e \in paths : ~e.stale}

(* One node of the sweep: its stale paths go and no others, and of the nodes *)
(* that lead nowhere any more, all but perhaps the entry of the root array.  *)
LEMMA SweepNodeExact ==
  ASSUME NEW S \in SweepState, NEW n \in NodeId
  PROVE  LET R == SweepNode(S, n)
         IN  /\ R \in SweepState
             /\ \A m : PathsAt(R.trie, m) = IF m = n THEN FreshOf(PathsAt(S.trie, n))
                                            ELSE PathsAt(S.trie, m)
             /\ Routes(R.trie) \subseteq Routes(S.trie)
             /\ R.removed = S.removed \union (Routes(S.trie) \ Routes(R.trie))
             /\ Loose(R.trie) \subseteq Loose(S.trie) \union {Root(n[1])}
             /\ n = Root(n[1]) => n \notin Loose(R.trie)
<1> DEFINE T == S.trie
           was == T[n]
           kept == stripStale(was)
           less == Put(T, n, kept)
           removed == LostPrefix(n, was, kept)
           gone == IF n[2] = <<>> THEN BareEntry(less, n[1])
                   ELSE UNION {Pruned(less, m) : m \in removed}
           after == [trie |-> Without(less, gone),
                     pathCount |-> S.pathCount - (pathsCount(was) - pathsCount(kept)),
                     nodeCount |-> S.nodeCount - Cardinality(gone),
                     count |-> S.count - Cardinality(removed),
                     masks |-> [S.masks EXCEPT ![MaskOf(n)] = @ - Cardinality(removed)],
                     removed |-> S.removed \union removed]
<1>1. SweepNode(S, n) = IF n \notin DOMAIN T THEN S ELSE after
  BY Zenon DEF SweepNode, Put
<1>2. /\ Sound(T) /\ Hanging(T)
      /\ Counted(T, S.count, S.pathCount, S.nodeCount, S.masks)
      /\ S \in SweepFields
  BY DEF SweepState
<1>3. CASE n \notin DOMAIN T
  <2>1. SweepNode(S, n) = S
    BY <1>1, <1>3
  <2>2. PathsAt(T, n) = {} /\ n \notin Loose(T)
    BY <1>3 DEF PathsAt, Loose
  <2>3. FreshOf({}) = {}
    BY DEF FreshOf
  <2> QED BY <2>1, <2>2, <2>3
<1>4. CASE n \in DOMAIN T
  <2>1. SweepNode(S, n) = after
    BY <1>1, <1>4
  <2>2. /\ was \in Tidy /\ \A e \in Entries(was) : e.pathID \in PathID
        /\ pathsCount(was) \in Nat
    BY <1>2, <1>4, NodeHolds DEF Sound
  <2>3. kept \in Tidy /\ Entries(kept) = FreshOf(Entries(was))
    <3> HIDE DEF was
    <3> QED BY <2>2, StripExact DEF Tidy, FreshOf
  <2> HIDE DEF kept
  <2>4. /\ \A e \in Entries(kept) : e.pathID \in PathID
        /\ hasPath(kept) => hasPath(was)
        /\ pathsCount(kept) \in Nat
    <3>1. Entries(kept) \subseteq Entries(was)
      BY <2>3 DEF FreshOf
    <3> HIDE DEF was
    <3> QED BY <2>2, <2>3, <3>1, NodeHolds
  <2>5. /\ Sound(less) /\ Hanging(less) /\ DOMAIN less = DOMAIN T
        /\ \A m : PathsAt(less, m) = IF m = n THEN Entries(kept) ELSE PathsAt(T, m)
    BY <1>2, <1>4, <2>3, <2>4, PutShape
  <2>6. /\ Counted(less, S.count + Delta(was, kept),
                   S.pathCount + pathsCount(kept) - pathsCount(was), S.nodeCount,
                   Bump(S.masks, MaskOf(n), Delta(was, kept)))
        /\ Routes(less) = (Routes(T) \ {n}) \union {m \in {n} : hasPath(kept)}
    BY <1>2, <1>4, <2>3, <2>4, PutCounted
  <2>7. /\ Loose(less) \subseteq Loose(T) \union {n}
        /\ (hasPath(was) => hasPath(kept)) => Loose(less) \subseteq Loose(T)
    BY <1>2, <1>4, <2>3, <2>4, PutLoose
  <2>8. /\ removed = IF hasPath(was) /\ ~hasPath(kept) THEN {n} ELSE {}
        /\ Cardinality(removed) = 0 - Delta(was, kept)
        /\ Cardinality(removed) \in {0, 1}
    BY <2>4, LostIs
  <2>9. n \in Routes(T) <=> hasPath(was)
    BY <1>4 DEF Routes
  <2> HIDE DEF removed, was
  <2>10. removed = Routes(T) \ Routes(less) /\ Routes(less) \subseteq Routes(T)
    BY <2>4, <2>6, <2>8, <2>9
  <2>11. Counted(less, S.count - Cardinality(removed),
                 S.pathCount - (pathsCount(was) - pathsCount(kept)), S.nodeCount,
                 [S.masks EXCEPT ![MaskOf(n)] = @ - Cardinality(removed)])
    <3>1. S.count \in Nat /\ S.pathCount \in Nat /\ Delta(was, kept) \in Int
      BY <1>2 DEF SweepFields, Delta
    <3>2. S.count + Delta(was, kept) = S.count - Cardinality(removed)
      BY <2>8, <3>1
    <3>3. S.pathCount + pathsCount(kept) - pathsCount(was)
            = S.pathCount - (pathsCount(was) - pathsCount(kept))
      BY <2>2, <2>4, <3>1
    <3>4. [S.masks EXCEPT ![MaskOf(n)] = @ - Cardinality(removed)]
            = Bump(S.masks, MaskOf(n), Delta(was, kept))
      BY <1>2, <2>8, <3>1, FewerAtMask
    <3> QED BY <2>6, <3>2, <3>3, <3>4
  <2> HIDE DEF less
  <2> DEFINE R == Without(less, gone)
  <2>12. /\ gone \in SUBSET DOMAIN less /\ \A m \in gone : ~hasPath(less[m])
         /\ Hanging(R)
         /\ Loose(R) \subseteq Loose(T) \union {Root(n[1])}
         /\ n = Root(n[1]) => n \notin Loose(R)
    <3>1. CASE n[2] = <<>>
      <4>1. n = Root(n[1])
        BY <3>1, NodeIdIs DEF Root
      <4>2. gone = BareEntry(less, n[1])
        BY <3>1
      <4>3. /\ BareEntry(less, n[1]) \in SUBSET DOMAIN less
            /\ \A m \in BareEntry(less, n[1]) : ~hasPath(less[m])
            /\ Hanging(Without(less, BareEntry(less, n[1])))
            /\ Loose(Without(less, BareEntry(less, n[1]))) = Loose(less) \ {Root(n[1])}
        BY <2>5, BareEntryShape
      <4> HIDE DEF gone
      <4> QED BY <2>7, <4>1, <4>2, <4>3
    <3>2. CASE n[2] # <<>> /\ removed = {n}
      <4>1. gone = Pruned(less, n)
        BY <3>2
      <4>2. n # Root(n[1])
        BY <3>2 DEF Root
      <4>3. /\ Pruned(less, n) \in SUBSET DOMAIN less
            /\ \A m \in Pruned(less, n) : ~hasPath(less[m])
            /\ Hanging(Without(less, Pruned(less, n)))
            /\ Loose(Without(less, Pruned(less, n)))
                 \subseteq (Loose(less) \ {n}) \union {Root(n[1])}
        BY <1>4, <2>5, PruneShape
      <4> HIDE DEF gone
      <4> QED BY <2>7, <4>1, <4>2, <4>3
    <3>3. CASE n[2] # <<>> /\ removed = {}
      <4>1. gone = {}
        BY <3>3
      <4>2. n # Root(n[1])
        BY <3>3 DEF Root
      <4>3. R = less
        <5>1. less = [m \in DOMAIN less |-> less[m]]
          BY <2>5 DEF Sound
        <5>2. DOMAIN less \ gone = DOMAIN less
          BY <4>1
        <5> HIDE DEF gone
        <5> QED BY <5>1, <5>2 DEF Without
      <4>4. Loose(less) \subseteq Loose(T)
        BY <2>7, <2>8, <3>3
      <4> HIDE DEF R, gone
      <4> QED BY <2>5, <4>1, <4>2, <4>3, <4>4
    <3> QED BY <2>8, <3>1, <3>2, <3>3
  <2> HIDE DEF gone
  <2>13. /\ Sound(R) /\ Routes(R) = Routes(less)
         /\ \A m : PathsAt(R, m) = PathsAt(less, m)
    BY <2>5, <2>12, WithoutBare
  <2>14. Counted(R, after.count, after.pathCount, after.nodeCount, after.masks)
    <3>1. Counted(R, S.count - Cardinality(removed),
                  S.pathCount - (pathsCount(was) - pathsCount(kept)),
                  S.nodeCount - Cardinality(gone),
                  [S.masks EXCEPT ![MaskOf(n)] = @ - Cardinality(removed)])
      BY <2>5, <2>11, <2>12, WithoutCounted
    <3> QED BY <3>1
  <2>15. after.trie = R /\ after.removed = S.removed \union removed
    OBVIOUS
  <2>16. after \in SweepState
    <3>1. R \in Tries
      BY <2>13 DEF Sound, Tries
    <3>2. after.removed \in SUBSET NodeId
      <4>1. S.removed \in SUBSET NodeId /\ removed \subseteq {n}
        BY <1>2, <2>8 DEF SweepFields
      <4> QED BY <2>15, <4>1
    <3>3. /\ after.count \in Nat /\ after.pathCount \in Nat /\ after.nodeCount \in Nat
          /\ after.masks \in [MinMask .. MaxMask -> Nat]
      BY <2>13, <2>14, CountedType
    <3>4. after = [trie |-> after.trie, count |-> after.count, pathCount |-> after.pathCount,
                   nodeCount |-> after.nodeCount, masks |-> after.masks,
                   removed |-> after.removed]
      OBVIOUS
    <3> HIDE DEF after, R
    <3>5. after \in SweepFields
      BY <2>15, <3>1, <3>2, <3>3, <3>4 DEF SweepFields
    <3> QED BY <2>12, <2>13, <2>14, <2>15, <3>5 DEF SweepState
  <2> HIDE DEF after, R
  <2>17. PathsAt(T, n) = Entries(was)
    BY <1>4 DEF PathsAt, was
  <2>18. \A m : PathsAt(R, m) = IF m = n THEN FreshOf(PathsAt(T, n)) ELSE PathsAt(T, m)
    BY <2>3, <2>5, <2>13, <2>17
  <2>19. Routes(R) \subseteq Routes(T) /\ removed = Routes(T) \ Routes(R)
    BY <2>10, <2>13
  <2> QED BY <2>1, <2>12, <2>15, <2>16, <2>18, <2>19
<1> QED BY <1>3, <1>4

(* The sweep, node by node. *)
Sweeping(g, before) ==
  [s \in SUBSET (DOMAIN SweepOrder) |->
     IF s = {} THEN before ELSE SweepNode(g[s \ {Max(s)}], SweepOrder[Max(s)])]

(* The sweep from a state is such a function. *)
LEMMA SweepingExists ==
  ASSUME NEW before \in SweepState
  PROVE  \E g : g = Sweeping(g, before)
<1> DEFINE N == Len(SweepOrder)
           step == [i \in 1..N |-> [S \in SweepState |-> SweepNode(S, SweepOrder[i])]]
<1>1. N \in Nat /\ DOMAIN SweepOrder = 1..N /\ \A i \in 1..N : SweepOrder[i] \in NodeId
  BY SweepOrderIs, LenProperties, ElementOfSeq
<1>2. step \in [1..N -> [SweepState -> SweepState]]
  BY <1>1, SweepNodeExact
<1> HIDE DEF step
<1>3. PICK g : Consumes(g, 1..N, SweepState, before, step, LastOf(N))
  BY <1>1, <1>2, FoldRecursion
<1>4. ASSUME NEW s \in SUBSET (1..N), s # {}
      PROVE  g[s] = SweepNode(g[s \ {Max(s)}], SweepOrder[Max(s)])
  <2>1. LastOf(N)[s] = Max(s)
    BY DEF LastOf
  <2>2. Max(s) \in s
    BY <1>1, <1>4, MaxOf
  <2>3. g[s] = step[Max(s)][g[s \ {Max(s)}]] /\ g[s \ {Max(s)}] \in SweepState
    <3>1. s \ {Max(s)} \in SUBSET (1..N)
      OBVIOUS
    <3> QED BY <1>3, <1>4, <2>1, <3>1 DEF Consumes
  <2>4. Max(s) \in 1..N
    BY <2>2
  <2> QED BY <2>3, <2>4 DEF step
<1>5. g \in [SUBSET (1..N) -> SweepState] /\ g[{}] = before
  <2>1. {} \in SUBSET (1..N)
    OBVIOUS
  <2> QED BY <1>3, <2>1 DEF Consumes
<1>6. g = Sweeping(g, before)
  <2>1. g = [s \in SUBSET (1..N) |-> g[s]]
    BY <1>5
  <2>2. \A s \in SUBSET (1..N) :
          g[s] = IF s = {} THEN before ELSE SweepNode(g[s \ {Max(s)}], SweepOrder[Max(s)])
    BY <1>4, <1>5
  <2>3. g = [s \in SUBSET (1..N) |->
               IF s = {} THEN before ELSE SweepNode(g[s \ {Max(s)}], SweepOrder[Max(s)])]
    BY <2>1, <2>2
  <2> QED BY <1>1, <2>3, Zenon DEF Sweeping
<1> QED BY <1>6

(* A sweep that has come as far as position k, from the trie T. *)
SweptTo(S, k, T) ==
  LET done(m) == \E j \in 1..k : SweepOrder[j] = m
  IN /\ S \in SweepState
     /\ \A m : PathsAt(S.trie, m) = IF done(m) THEN FreshOf(PathsAt(T, m)) ELSE PathsAt(T, m)
     /\ Routes(S.trie) \subseteq Routes(T)
     /\ S.removed = Routes(T) \ Routes(S.trie)
     /\ \A m \in Loose(S.trie) :
          /\ m = Root(m[1])
          /\ \E j \in (k + 1)..Len(SweepOrder) : SweepOrder[j] = m

(* One position further.  What has come loose, an entry of the root array,   *)
(* will be come by.                                                          *)
LEMMA SweptOneMore ==
  ASSUME NEW k \in 1..Len(SweepOrder), NEW T, NEW S, SweptTo(S, k - 1, T)
  PROVE  SweptTo(SweepNode(S, SweepOrder[k]), k, T)
<1> DEFINE N == Len(SweepOrder)
           n == SweepOrder[k]
           R == SweepNode(S, n)
<1>1. N \in Nat /\ n \in NodeId /\ k \in Nat /\ k - 1 \in Nat /\ (k - 1) + 1 = k
  BY SweepOrderIs, LenProperties, ElementOfSeq
<1>2. /\ S \in SweepState
      /\ \A m : PathsAt(S.trie, m) = IF \E j \in 1..(k - 1) : SweepOrder[j] = m
                                     THEN FreshOf(PathsAt(T, m)) ELSE PathsAt(T, m)
      /\ Routes(S.trie) \subseteq Routes(T)
      /\ S.removed = Routes(T) \ Routes(S.trie)
      /\ \A m \in Loose(S.trie) :
           /\ m = Root(m[1])
           /\ \E j \in k..N : SweepOrder[j] = m
  BY <1>1 DEF SweptTo
<1> HIDE DEF n
<1>3. /\ R \in SweepState
      /\ \A m : PathsAt(R.trie, m) = IF m = n THEN FreshOf(PathsAt(S.trie, n))
                                     ELSE PathsAt(S.trie, m)
      /\ Routes(R.trie) \subseteq Routes(S.trie)
      /\ R.removed = S.removed \union (Routes(S.trie) \ Routes(R.trie))
      /\ Loose(R.trie) \subseteq Loose(S.trie) \union {Root(n[1])}
      /\ n = Root(n[1]) => n \notin Loose(R.trie)
  BY <1>1, <1>2, SweepNodeExact
<1> HIDE DEF R
<1>4. \A m : (\E j \in 1..k : SweepOrder[j] = m) <=> m = n \/ \E j \in 1..(k - 1) : SweepOrder[j] = m
  <2>1. \A j \in 1..k : j = k \/ j \in 1..(k - 1)
    BY <1>1
  <2>2. k \in 1..k /\ \A j \in 1..(k - 1) : j \in 1..k
    BY <1>1
  <2> QED BY <2>1, <2>2 DEF n
<1>5. \A paths : FreshOf(FreshOf(paths)) = FreshOf(paths)
  BY DEF FreshOf
<1>6. \A m : PathsAt(R.trie, m) = IF \E j \in 1..k : SweepOrder[j] = m
                                  THEN FreshOf(PathsAt(T, m)) ELSE PathsAt(T, m)
  <2> TAKE m
  <2>1. CASE m = n
    <3>1. PathsAt(R.trie, m) = FreshOf(PathsAt(S.trie, m))
      BY <1>3, <2>1
    <3>2. FreshOf(PathsAt(S.trie, m)) = FreshOf(PathsAt(T, m))
      BY <1>2, <1>5
    <3> QED BY <1>4, <2>1, <3>1, <3>2
  <2>2. CASE m # n
    BY <1>2, <1>3, <1>4, <2>2
  <2> QED BY <2>1, <2>2
<1>7. Routes(R.trie) \subseteq Routes(T) /\ R.removed = Routes(T) \ Routes(R.trie)
  BY <1>2, <1>3
<1>8. ASSUME NEW m \in Loose(R.trie)
      PROVE  m = Root(m[1]) /\ \E j \in (k + 1)..N : SweepOrder[j] = m
  <2>1. m = Root(m[1]) /\ \E j \in k..N : SweepOrder[j] = m
    <3>1. CASE m \in Loose(S.trie)
      BY <1>2, <3>1
    <3>2. CASE m = Root(n[1])
      <4>1. m = Root(m[1])
        BY <3>2 DEF Root
      <4>2. \E j \in k..N : SweepOrder[j] = Root(n[1])
        BY SweepOrderIs DEF Closes, n
      <4> QED BY <3>2, <4>1, <4>2
    <3> QED BY <1>3, <3>1, <3>2
  <2>2. m # n
    BY <1>3, <2>1
  <2>3. PICK j \in k..N : SweepOrder[j] = m
    BY <2>1
  <2>4. j # k
    BY <2>2, <2>3 DEF n
  <2>5. j \in (k + 1)..N
    BY <1>1, <2>4
  <2> QED BY <2>1, <2>3, <2>5
<1>9. SweptTo(R, k, T)
  BY <1>3, <1>6, <1>7, <1>8 DEF SweptTo
<1> QED BY <1>9 DEF R, n

(* Exactly the stale paths of every prefix go. *)
Sweeps == \A n : PathsAt(trie', n) = FreshOf(PathsAt(trie, n))

(* DeleteStaleRoutes, the whole sweep.                                       *)
LEMMA SweepKeeps ==
  ASSUME TrieInv, DeleteStaleRoutes
  PROVE  /\ TrieInv'
         /\ Sweeps
         /\ Routes(trie') \subseteq Routes(trie)
         /\ Reports(Routes(trie) \ Routes(trie'))
<1> DEFINE before == [trie |-> trie, count |-> count, pathCount |-> pathCount,
                      nodeCount |-> nodeCount, masks |-> masks, removed |-> {}]
           after == FoldLeft(SweepNode, before, SweepOrder)
           N == Len(SweepOrder)
           h == CHOOSE g : g = Sweeping(g, before)
<1>1. /\ trie' = after.trie /\ count' = after.count /\ pathCount' = after.pathCount
      /\ nodeCount' = after.nodeCount /\ masks' = after.masks
      /\ reported' = {PrefixOf(n) : n \in after.removed}
  BY Zenon DEF DeleteStaleRoutes
<1>2. /\ N \in Nat /\ DOMAIN SweepOrder = 1..N
      /\ \A n \in NodeId : \E j \in 1..N : SweepOrder[j] = n
  BY SweepOrderIs, LenProperties DEF ToSet
<1>3. /\ Sound(trie) /\ Hanging(trie) /\ Loose(trie) = {}
      /\ Counted(trie, count, pathCount, nodeCount, masks)
  BY DEF TrieInv
<1>4. before \in SweepState
  <2>1. trie \in Tries
    BY <1>3 DEF Sound, Tries
  <2>2. /\ count \in Nat /\ pathCount \in Nat /\ nodeCount \in Nat
        /\ masks \in [MinMask .. MaxMask -> Nat]
    BY <1>3, CountedType
  <2>3. before \in SweepFields
    BY <2>1, <2>2 DEF SweepFields
  <2> QED BY <1>3, <2>3 DEF SweepState
<1>5. SweptTo(before, 0, trie)
  <2>1. \A j \in 1..0 : FALSE
    OBVIOUS
  <2> QED BY <1>3, <1>4, <2>1 DEF SweptTo
<1> HIDE DEF before
<1>6. h = Sweeping(h, before)
  BY <1>4, SweepingExists
<1>7. after = h[DOMAIN SweepOrder]
  BY DEF FoldLeft, MapThenFoldSet, Sweeping
<1> HIDE DEF h, after
<1>8. h[{}] = before
  <2>1. {} \in SUBSET (DOMAIN SweepOrder)
    OBVIOUS
  <2> QED BY <1>6, <2>1, Zenon DEF Sweeping
<1>9. \A k \in 1..N : h[1..k] = SweepNode(h[1..(k - 1)], SweepOrder[k])
  <2> TAKE k \in 1..N
  <2>1. 1..k \in SUBSET (DOMAIN SweepOrder) /\ 1..k # {}
        /\ Max(1..k) = k /\ (1..k) \ {Max(1..k)} = 1..(k - 1)
    BY <1>2, FirstPositions
  <2>2. \A s \in SUBSET (DOMAIN SweepOrder) : s # {} =>
          h[s] = SweepNode(h[s \ {Max(s)}], SweepOrder[Max(s)])
    BY <1>6, Zenon DEF Sweeping
  <2> QED BY <2>1, <2>2, Zenon
<1> DEFINE P == {k \in 0..N : SweptTo(h[1..k], k, trie)}
<1>10. \A k \in 0..N : k \in P
  <2>1. 0 \in P
    <3>1. 1..0 = {} /\ 0 \in 0..N
      BY <1>2
    <3> QED BY <1>5, <1>8, <3>1
  <2>2. ASSUME NEW k \in 1..N, k - 1 \in P
        PROVE  k \in P
    <3>1. SweptTo(h[1..(k - 1)], k - 1, trie)
      BY <2>2
    <3>2. SweptTo(SweepNode(h[1..(k - 1)], SweepOrder[k]), k, trie)
      BY <3>1, SweptOneMore
    <3>3. SweptTo(h[1..k], k, trie)
      BY <1>9, <3>2
    <3>4. k \in 0..N
      BY <1>2
    <3> QED BY <3>3, <3>4
  <2> HIDE DEF P
  <2> QED BY <1>2, <2>1, <2>2, IntervalInduct
<1>11. SweptTo(after, N, trie)
  <2>1. N \in P
    <3> HIDE DEF P
    <3> QED BY <1>2, <1>10
  <2> QED BY <1>2, <1>7, <2>1
<1> HIDE DEF P
<1>12. /\ after \in SweepState
       /\ \A m : PathsAt(after.trie, m) = IF \E j \in 1..N : SweepOrder[j] = m
                                          THEN FreshOf(PathsAt(trie, m)) ELSE PathsAt(trie, m)
       /\ Routes(after.trie) \subseteq Routes(trie)
       /\ after.removed = Routes(trie) \ Routes(after.trie)
       /\ \A m \in Loose(after.trie) : \E j \in (N + 1)..N : SweepOrder[j] = m
  BY <1>11 DEF SweptTo
<1>13. TrieInv'
  <2>1. Loose(after.trie) = {}
    <3>1. \A j \in (N + 1)..N : FALSE
      BY <1>2
    <3> QED BY <1>12, <3>1
  <2>2. /\ Sound(after.trie) /\ Hanging(after.trie)
        /\ Counted(after.trie, after.count, after.pathCount, after.nodeCount, after.masks)
    BY <1>12 DEF SweepState
  <2> QED BY <1>1, <2>1, <2>2 DEF TrieInv
<1>14. Sweeps
  <2> SUFFICES ASSUME NEW m
               PROVE  PathsAt(after.trie, m) = FreshOf(PathsAt(trie, m))
    BY <1>1 DEF Sweeps
  <2>1. CASE m \in NodeId
    BY <1>2, <1>12, <2>1
  <2>2. CASE m \notin NodeId
    <3>1. PathsAt(trie, m) = {}
      BY <1>3, <2>2 DEF PathsAt, Sound
    <3>2. FreshOf({}) = {}
      BY DEF FreshOf
    <3> QED BY <1>12, <3>1, <3>2
  <2> QED BY <2>1, <2>2
<1>15. Reports(Routes(trie) \ Routes(trie'))
  <2>1. after.removed = Routes(trie) \ Routes(trie') /\ after.removed \in SUBSET NodeId
    BY <1>1, <1>3, <1>12 DEF Routes, Sound
  <2>2. reported' = {PrefixOf(n) : n \in after.removed}
    BY <1>1
  <2>3. Reports(after.removed)
    BY ONLY <2>1, <2>2, ReportsMasked
  <2> QED BY <2>1, <2>3
<1> QED BY <1>1, <1>12, <1>13, <1>14, <1>15

-----------------------------------------------------------------------------
(* The invariants *)

IInv == TrieInv /\ reported \subseteq NetipPrefix

(* An empty RIB satisfies the inductive invariant. *)
LEMMA InitHolds == Init => IInv
BY EmptyTrie, Zenon DEF Init, IInv, TrieInv

(* Every write keeps the inductive invariant. *)
LEMMA NextKeeps == IInv /\ [Next]_vars => IInv'
<1> SUFFICES ASSUME IInv, [Next]_vars
             PROVE  IInv'
  OBVIOUS
<1>1. TrieInv /\ reported \subseteq NetipPrefix
  BY DEF IInv
<1>2. CASE Insert
  <2>1. PICK o \in Octet, bits \in Bits(Depth), mask \in MinMask - 1 .. MaxMask + 1,
             id \in PathID, a \in Attr : insertUnlocked(o, bits, mask, id, a)
    BY <1>2 DEF Insert
  <2> DEFINE n == Anc(o, bits, mask - MinMask)
  <2>2. TrieInv' /\ Reports({n} \ Routes(trie))
    BY <1>1, <2>1, InsertKeeps
  <2> HIDE DEF n
  <2> QED BY <2>2 DEF IInv, Reports
<1>3. CASE Delete
  <2>1. PICK o \in Octet, bits \in Bits(Depth), mask \in MinMask - 1 .. MaxMask + 1,
             id \in PathID : deleteUnlocked(o, bits, mask, id)
    BY <1>3 DEF Delete
  <2>2. TrieInv' /\ Reports(Routes(trie) \ Routes(trie'))
    BY <1>1, <2>1, DeleteKeeps
  <2> QED BY <2>2 DEF IInv, Reports
<1>4. CASE MarkAllStale
  BY <1>1, <1>4, MarkKeeps DEF IInv
<1>5. CASE DeleteStaleRoutes
  <2>1. TrieInv' /\ Reports(Routes(trie) \ Routes(trie'))
    BY <1>1, <1>5, SweepKeeps
  <2> QED BY <2>1 DEF IInv, Reports
<1>6. CASE Reset
  BY <1>6, ResetKeeps DEF IInv
<1>7. CASE UNCHANGED vars
  <2>1. trie' = trie /\ count' = count /\ pathCount' = pathCount
        /\ nodeCount' = nodeCount /\ masks' = masks /\ reported' = reported
    BY <1>7 DEF vars, trieVars
  <2> QED BY <1>1, <2>1 DEF IInv, TrieInv
<1> QED BY <1>2, <1>3, <1>4, <1>5, <1>6, <1>7 DEF Next

(* Every trie that the writes of a RIB can build hangs together, is pruned   *)
(* and is described by its counters (ipv4.go, ipv6.go).                      *)
THEOREM TrieStays == Spec => []IInv
<1>1. Init => IInv
  BY InitHolds
<1>2. IInv /\ [Next]_vars => IInv'
  BY NextKeeps
<1> QED BY <1>1, <1>2, PTL DEF Spec

(* The types of the nodes and the counters; a node without paths is an empty *)
(* one but for a path ID that nobody reads.                                  *)
THEOREM TypeCorrect == Spec => []TypeOK
<1>1. IInv => TypeOK
  <2> SUFFICES ASSUME IInv
               PROVE  TypeOK
    OBVIOUS
  <2>1. Sound(trie) /\ Counted(trie, count, pathCount, nodeCount, masks)
        /\ reported \subseteq NetipPrefix
    BY DEF IInv, TrieInv
  <2>2. /\ count \in Nat /\ pathCount \in Nat /\ nodeCount \in Nat
        /\ masks \in [MinMask .. MaxMask -> Nat]
    BY <2>1, CountedType
  <2>3. ASSUME NEW n \in DOMAIN trie
        PROVE  /\ trie[n].flags \subseteq {"hasPath", "stale"}
               /\ hasPath(trie[n]) => trie[n].attrs \in Attr
               /\ ~hasPath(trie[n]) => trie[n] = [EmptyNode EXCEPT !.pathID = trie[n].pathID]
    <3> DEFINE x == trie[n]
    <3>1. x \in Node
      BY <2>1 DEF Sound, Tidy
    <3> HIDE DEF x
    <3>2. /\ x \in NodeFields
          /\ hasPath(x) => x.attrs \in Attr
          /\ ~hasPath(x) => x.flags = {} /\ x.attrs = NoAttr /\ x.extra = <<>>
      BY <3>1 DEF Node
    <3>3. x = [flags |-> x.flags, pathID |-> x.pathID, attrs |-> x.attrs, extra |-> x.extra]
      BY <3>2 DEF NodeFields
    <3>4. ~hasPath(x) => x = [EmptyNode EXCEPT !.pathID = x.pathID]
      <4> SUFFICES ASSUME ~hasPath(x)
                   PROVE  x = [EmptyNode EXCEPT !.pathID = x.pathID]
        OBVIOUS
      <4> DEFINE g == [EmptyNode EXCEPT !.pathID = x.pathID]
      <4>0. EmptyNode \in NodeFields
        BY EmptySeq DEF EmptyNode, NodeFields
      <4>1. g \in NodeFields
        BY <3>2, <4>0 DEF NodeFields
      <4>2. EmptyNode.flags = {} /\ EmptyNode.attrs = NoAttr /\ EmptyNode.extra = <<>>
        BY DEF EmptyNode
      <4>3. g.flags = {} /\ g.pathID = x.pathID /\ g.attrs = NoAttr /\ g.extra = <<>>
        BY <4>0, <4>2 DEF NodeFields
      <4>4. g = [flags |-> g.flags, pathID |-> g.pathID, attrs |-> g.attrs,
                 extra |-> g.extra]
        <5> HIDE DEF g
        <5> QED BY <4>1 DEF NodeFields
      <4> HIDE DEF g
      <4>5. x = g
        BY <3>2, <3>3, <4>3, <4>4
      <4> QED BY <4>5 DEF g
    <3>5. x.flags \subseteq {"hasPath", "stale"}
      BY <3>2 DEF NodeFields
    <3> QED BY <3>2, <3>4, <3>5 DEF x
  <2>4. DOMAIN trie \subseteq NodeId
    BY <2>1 DEF Sound
  <2> QED BY <2>1, <2>2, <2>3, <2>4 DEF TypeOK
<1> QED BY <1>1, TrieStays, PTL

(* Count, PathCount, GetSubnets and MemoryUsage return exactly what is in    *)
(* the trie, after any sequence of writes.                                   *)
THEOREM CountersStayExact == Spec => []CountersExact
<1>1. IInv => CountersExact
  <2> SUFFICES ASSUME IInv
               PROVE  CountersExact
    OBVIOUS
  <2>1. Sound(trie) /\ Counted(trie, count, pathCount, nodeCount, masks)
    BY DEF IInv, TrieInv
  <2>2. Routed = Routes(trie)
    BY DEF Routed, Routes
  <2>3. count = Cardinality(Routed) /\ nodeCount = Cardinality(DOMAIN trie)
    BY <2>1, <2>2 DEF Counted
  <2>4. \A m \in MinMask .. MaxMask : masks[m] = Cardinality({n \in Routed : MaskOf(n) = m})
    BY <2>1, <2>2 DEF Counted, AtMask
  <2>5. PathTotal(trie) = MapThenSumSet(LAMBDA n : pathsCount(trie[n]), DOMAIN trie)
    BY <2>1, PathTotalIs
  <2>6. pathCount = MapThenSumSet(LAMBDA n : pathsCount(trie[n]), DOMAIN trie)
    BY <2>1, <2>5 DEF Counted
  <2> QED BY <2>3, <2>4, <2>6 DEF CountersExact
<1> QED BY <1>1, TrieStays, PTL

(* No write cuts off a route, and none leaves a node behind that leads to    *)
(* nothing: deleteNode's walk upwards stops neither too early nor too late.  *)
THEOREM TrieStaysTight == Spec => []TrieTight
<1>1. IInv => TrieTight
  BY AncestorsIn DEF IInv, TrieInv, TrieTight, Loose
<1> QED BY <1>1, TrieStays, PTL

(* No prefix ever has two paths of one path ID. *)
THEOREM PathIDsStayUnique == Spec => []UniquePathIDs
<1>1. IInv => UniquePathIDs
  BY DEF IInv, TrieInv, Sound, Tidy, UniqueIDs, UniquePathIDs
<1> QED BY <1>1, TrieStays, PTL

(* All routes are those of the nodes that hold a path. *)
LEMMA RoutesOfAll ==
  ASSUME Sound(trie)
  PROVE  UNION {nodeToRoutes(n) : n \in Routed} = AllRoutes
<1>1. AllRoutes = UNION {nodeToRoutes(n) : n \in DOMAIN trie}
  <2> DEFINE R(n) ==
               {[prefix |-> n, attrs |-> e.attrs, pathID |-> e.pathID, stale |-> e.stale] :
                  e \in ToSet(allPaths(trie[n]))}
  <2>1. \A n : nodeToRoutes(n) = R(n)
    BY Zenon DEF nodeToRoutes, ToSet
  <2>2. AllRoutes = UNION {R(n) : n \in DOMAIN trie}
    BY DEF AllRoutes
  <2> HIDE DEF R
  <2> QED BY <2>1, <2>2
<1>2. ASSUME NEW n \in DOMAIN trie, n \notin Routed
      PROVE  nodeToRoutes(n) = {}
  <2>1. trie[n] \in Tidy /\ ~hasPath(trie[n])
    BY <1>2 DEF Sound, Routed
  <2>2. Entries(trie[n]) = {}
    BY <2>1, NodeHolds DEF Tidy
  <2> QED BY <2>2 DEF nodeToRoutes, Entries, ToSet
<1>3. Routed \subseteq DOMAIN trie
  BY DEF Routed
<1> QED BY <1>1, <1>2, <1>3

(* The walkers stop at octet 223, at 0x3F and at the longest mask, and miss  *)
(* no route: there is none beyond.                                           *)
THEOREM WalkersMissNothing == Spec => []WalkersComplete
<1>1. IInv => WalkersComplete
  <2> SUFFICES ASSUME IInv
               PROVE  WalkersComplete
    OBVIOUS
  <2>1. Sound(trie) /\ Hanging(trie)
    BY DEF IInv, TrieInv
  <2>2. Visited = DOMAIN trie
    <3> SUFFICES ASSUME NEW n \in DOMAIN trie
                 PROVE  /\ Walked(n[1]) /\ MaskOf(n) <= MaxMask
                        /\ Ancestors(n[1], n[2]) \subseteq DOMAIN trie
      BY DEF Visited
    <3>1. n \in NodeId /\ Accepts(n[1])
      BY <2>1 DEF Sound
    <3>2. n[1] \in Int /\ n[1] <= 255
      <4>1. \A o \in Octet : o \in Int /\ o <= 255
        BY TrieAssumption
      <4> QED BY <3>1, <4>1, NodeIdIs
    <3>3. Walked(n[1])
      BY <3>1, <3>2 DEF Accepts, Walked, isValidV4, InRange6
    <3>4. MaskOf(n) <= MaxMask
      BY <3>1, MaskOfNode, TrieAssumption
    <3> QED BY <2>1, <3>3, <3>4, AncestorsIn
  <2>3. AllPrefixes = Routed
    BY <2>2 DEF AllPrefixes, Routed
  <2>4. UNION {nodeToRoutes(n) : n \in Routed} = AllRoutes
    BY <2>1, RoutesOfAll
  <2>5. \A matching : prefixesMatching(matching) = {r \in AllRoutes : r.attrs \in matching}
    BY <2>3, <2>4 DEF prefixesMatching
  <2> QED BY <2>3, <2>5 DEF WalkersComplete
<1> QED BY <1>1, TrieStays, PTL

(* InsertBatch, DeleteBatch and DeleteStaleRoutes return the prefixes that   *)
(* have come, or gone, and no other, each once: the batches as the caller    *)
(* wrote them, the sweep without host bits.                                  *)
THEOREM WritesReportExactly == Spec => ReportedExact
<1>1. IInv /\ [Next]_vars =>
        [~Reset =>
           /\ {NodeOf(p) : p \in reported'} = (Routed \ Routed') \union (Routed' \ Routed)
           /\ \A p, q \in reported' : NodeOf(p) = NodeOf(q) => p = q]_vars
  <2> SUFFICES ASSUME IInv, Next, ~Reset
               PROVE  Reports((Routed \ Routed') \union (Routed' \ Routed))
    BY DEF vars, Reports
  <2>1. TrieInv /\ Routed = Routes(trie) /\ Routed' = Routes(trie')
    BY DEF IInv, Routed, Routes
  <2>3. CASE Insert
    <3>1. PICK o \in Octet, bits \in Bits(Depth), mask \in MinMask - 1 .. MaxMask + 1,
               id \in PathID, a \in Attr : insertUnlocked(o, bits, mask, id, a)
      BY <2>3 DEF Insert
    <3> DEFINE n == Anc(o, bits, mask - MinMask)
    <3>2. Routes(trie') = Routes(trie) \union {n} /\ Reports({n} \ Routes(trie))
      BY <2>1, <3>1, InsertKeeps
    <3> HIDE DEF n
    <3>3. {n} \ Routes(trie) = (Routed \ Routed') \union (Routed' \ Routed)
      BY <2>1, <3>2
    <3> QED BY <3>2, <3>3
  <2>4. CASE Delete
    <3>1. PICK o \in Octet, bits \in Bits(Depth), mask \in MinMask - 1 .. MaxMask + 1,
               id \in PathID : deleteUnlocked(o, bits, mask, id)
      BY <2>4 DEF Delete
    <3>2. /\ Routes(trie') \subseteq Routes(trie)
          /\ Reports(Routes(trie) \ Routes(trie'))
      BY <2>1, <3>1, DeleteKeeps
    <3>3. Routes(trie) \ Routes(trie') = (Routed \ Routed') \union (Routed' \ Routed)
      BY <2>1, <3>2
    <3> QED BY <3>2, <3>3
  <2>5. CASE MarkAllStale
    <3>1. Routes(trie') = Routes(trie) /\ reported' = {}
      BY <2>1, <2>5, MarkKeeps
    <3>2. {} = (Routed \ Routed') \union (Routed' \ Routed)
      BY <2>1, <3>1
    <3> QED BY <3>1, <3>2, ReportsNothing
  <2>6. CASE DeleteStaleRoutes
    <3>1. /\ Routes(trie') \subseteq Routes(trie)
          /\ Reports(Routes(trie) \ Routes(trie'))
      BY <2>1, <2>6, SweepKeeps
    <3>2. Routes(trie) \ Routes(trie') = (Routed \ Routed') \union (Routed' \ Routed)
      BY <2>1, <3>1
    <3> QED BY <3>1, <3>2
  <2> QED BY <2>3, <2>4, <2>5, <2>6 DEF Next
<1> QED BY <1>1, TrieStays, PTL DEF Spec, ReportedExact

-----------------------------------------------------------------------------
(* RibTrie implements RibSpec: the trie read as a map *)

Places == NodeId \X PathID
AttrsOf(paths) == IF paths = {} THEN NoAttr ELSE (CHOOSE e \in paths : TRUE).attrs
ValueAt(T, l) == AttrsOf({e \in PathsAt(T, l[1]) : e.pathID = l[2]})
MapOf(T) == [l \in Places |-> ValueAt(T, l)]
StaleOf(T) == {l \in Places : \E e \in PathsAt(T, l[1]) : e.pathID = l[2] /\ e.stale}

(* The abstract variables are these, before a step and after. *)
Map == [r \in {Family} |-> [l \in NodeId \X PathID |->
          IF RouteOf(l[1], l[2]) = {} THEN NoAttr
          ELSE (CHOOSE e \in RouteOf(l[1], l[2]) : TRUE).attrs]]
Stale == [r \in {Family} |-> {l \in NodeId \X PathID :
            \E e \in RouteOf(l[1], l[2]) : e.stale}]

(* They are what the trie says, read as a map. *)
LEMMA MapsTo ==
  /\ Map = [r \in {Family} |-> MapOf(trie)]
  /\ Stale = [r \in {Family} |-> StaleOf(trie)]
  /\ Map' = [r \in {Family} |-> MapOf(trie')]
  /\ Stale' = [r \in {Family} |-> StaleOf(trie')]
<1>1. /\ \A l : RouteOf(l[1], l[2]) = {e \in PathsAt(trie, l[1]) : e.pathID = l[2]}
      /\ \A l : RouteOf(l[1], l[2])' = {e \in PathsAt(trie', l[1]) : e.pathID = l[2]}
  BY DEF RouteOf, PathsAt, Entries
<1>2. /\ \A l : AttrsOf(RouteOf(l[1], l[2])) = ValueAt(trie, l)
      /\ \A l : AttrsOf(RouteOf(l[1], l[2])') = ValueAt(trie', l)
  BY <1>1, Zenon DEF ValueAt
<1>3. /\ \A l : (\E e \in RouteOf(l[1], l[2]) : e.stale)
                  <=> \E e \in PathsAt(trie, l[1]) : e.pathID = l[2] /\ e.stale
      /\ \A l : (\E e \in RouteOf(l[1], l[2])' : e.stale)
                  <=> \E e \in PathsAt(trie', l[1]) : e.pathID = l[2] /\ e.stale
  BY <1>1
<1>4. /\ StaleOf(trie) = {l \in NodeId \X PathID : \E e \in RouteOf(l[1], l[2]) : e.stale}
      /\ StaleOf(trie') = {l \in NodeId \X PathID : \E e \in RouteOf(l[1], l[2])' : e.stale}
  BY <1>3 DEF StaleOf, Places
<1>5. /\ Map = [r \in {Family} |-> [l \in Places |-> AttrsOf(RouteOf(l[1], l[2]))]]
      /\ Map' = [r \in {Family} |-> [l \in Places |-> AttrsOf(RouteOf(l[1], l[2])')]]
  BY Zenon DEF Map, Places, AttrsOf
<1>6. /\ MapOf(trie) = [l \in Places |-> AttrsOf(RouteOf(l[1], l[2]))]
      /\ MapOf(trie') = [l \in Places |-> AttrsOf(RouteOf(l[1], l[2])')]
  BY <1>2 DEF MapOf
<1> QED BY <1>4, <1>5, <1>6 DEF Stale

(* A path is the only one at its place, and the map has its attributes there. *)
LEMMA PathIs ==
  ASSUME NEW T, Sound(T), NEW n, NEW e \in PathsAt(T, n)
  PROVE  /\ n \in NodeId /\ e.pathID \in PathID /\ e \in PathEntry
         /\ \A f \in PathsAt(T, n) : f.pathID = e.pathID => f = e
         /\ ValueAt(T, <<n, e.pathID>>) = e.attrs
<1>1. n \in DOMAIN T /\ e \in Entries(T[n]) /\ PathsAt(T, n) = Entries(T[n])
  BY DEF PathsAt
<1>2. T[n] \in Tidy /\ n \in NodeId /\ e.pathID \in PathID
  BY <1>1 DEF Sound
<1>3. \A f \in PathsAt(T, n) : f.pathID = e.pathID => f = e
  BY <1>1, <1>2, OnePathPerID
<1>4. e \in PathEntry
  <2>1. T[n] \in Node
    BY <1>2 DEF Tidy
  <2> QED BY <1>1, <2>1, PathsOf, ElementOfSeq DEF Entries, ToSet
<1> DEFINE l == <<n, e.pathID>>
<1>5. {f \in PathsAt(T, l[1]) : f.pathID = l[2]} = {e}
  BY <1>3
<1>6. (CHOOSE f \in {e} : TRUE) = e
  OBVIOUS
<1>7. ValueAt(T, l) = e.attrs
  BY <1>5, <1>6, Zenon DEF ValueAt, AttrsOf
<1> QED BY <1>2, <1>3, <1>4, <1>7

(* Where there is no path the map has no route. *)
LEMMA NoPathThere ==
  ASSUME NEW T, NEW l, \A e \in PathsAt(T, l[1]) : e.pathID # l[2]
  PROVE  ValueAt(T, l) = NoAttr /\ l \notin StaleOf(T)
<1>1. {e \in PathsAt(T, l[1]) : e.pathID = l[2]} = {}
  OBVIOUS
<1>2. ValueAt(T, l) = NoAttr
  BY <1>1 DEF ValueAt, AttrsOf
<1>3. l \notin StaleOf(T)
  BY DEF StaleOf
<1> QED BY <1>2, <1>3

(* Places are read apart: a place is what the paths there are. *)
LEMMA SamePlace ==
  ASSUME NEW T, NEW R, NEW l,
         {e \in PathsAt(R, l[1]) : e.pathID = l[2]} = {e \in PathsAt(T, l[1]) : e.pathID = l[2]}
  PROVE  ValueAt(R, l) = ValueAt(T, l) /\ (l \in StaleOf(R) <=> l \in StaleOf(T))
<1>1. ValueAt(R, l) = ValueAt(T, l)
  BY DEF ValueAt
<1>2. (\E e \in PathsAt(R, l[1]) : e.pathID = l[2] /\ e.stale)
        <=> \E e \in PathsAt(T, l[1]) : e.pathID = l[2] /\ e.stale
  OBVIOUS
<1>3. l \in StaleOf(R) <=> l \in StaleOf(T)
  BY <1>2 DEF StaleOf
<1> QED BY <1>1, <1>3

(* The routes of the map are the paths of the trie. *)
LEMMA PresentIs ==
  ASSUME Sound(trie)
  PROVE  \A l \in Places : l \in Abstract!Present(Family)
           <=> \E e \in PathsAt(trie, l[1]) : e.pathID = l[2]
<1> SUFFICES ASSUME NEW l \in Places
             PROVE  l \in Abstract!Present(Family)
                      <=> \E e \in PathsAt(trie, l[1]) : e.pathID = l[2]
  OBVIOUS
<1>1. Abstract!Present(Family) = {k \in Places : MapOf(trie)[k] # NoAttr}
  <2>1. Abstract!Present(Family) = {k \in Places : Map[Family][k] # NoAttr}
    BY DEF Abstract!Present, Abstract!Loc, Places, Map
  <2>2. Map[Family] = MapOf(trie)
    BY MapsTo
  <2> QED BY <2>1, <2>2
<1>2. l \in Abstract!Present(Family) <=> ValueAt(trie, l) # NoAttr
  BY <1>1 DEF MapOf
<1>3. ASSUME NEW e \in PathsAt(trie, l[1]), e.pathID = l[2]
      PROVE  ValueAt(trie, l) # NoAttr
  <2>1. e.attrs \in Attr /\ ValueAt(trie, <<l[1], l[2]>>) = e.attrs
    BY <1>3, PathIs DEF PathEntry
  <2>2. l = <<l[1], l[2]>>
    BY DEF Places
  <2> QED BY <2>1, <2>2, PathAttrAssumption
<1> QED BY <1>2, <1>3, NoPathThere

(* A step that writes the map at some places. *)
LEMMA WriteIs ==
  ASSUME NEW gone, NEW add,
         \A l \in Places : ValueAt(trie', l) = IF l \in DOMAIN add THEN add[l]
                                               ELSE IF l \in gone THEN NoAttr
                                               ELSE ValueAt(trie, l),
         StaleOf(trie') = StaleOf(trie) \ (gone \union DOMAIN add)
  PROVE  Abstract!Write(Family, gone, add)
<1> DEFINE new == [l \in Places |-> IF l \in DOMAIN add THEN add[l]
                                    ELSE IF l \in gone THEN NoAttr
                                    ELSE Map[Family][l]]
<1>1. Map[Family] = MapOf(trie) /\ DOMAIN Map = {Family}
  BY MapsTo
<1>2. MapOf(trie') = new
  BY <1>1 DEF MapOf
<1>3. Map' = [Map EXCEPT ![Family] = new]
  BY <1>1, <1>2, MapsTo
<1>4. Stale' = [Stale EXCEPT ![Family] = @ \ (gone \union DOMAIN add)]
  BY MapsTo
<1> QED BY <1>3, <1>4 DEF Abstract!Write, Abstract!Loc, Places, Map, Stale

(* setPath is the announcement of a route: the paths in gone, all of path ID *)
(* p, make room for it, and no others were in the way.                       *)
LEMMA AnnounceIs ==
  ASSUME Sound(trie), Sound(trie'), NEW n \in NodeId, NEW id \in PathID, NEW a \in Attr,
         NEW p \in PathID, NEW gone,
         \A e \in gone : e.pathID = p,
         \A e \in PathsAt(trie, n) : e.pathID \in {id, p} => e \in gone,
         PathsAt(trie', n) = (PathsAt(trie, n) \ gone) \union {Entry(id, a, FALSE)},
         \A m : m # n => PathsAt(trie', m) = PathsAt(trie, m),
         NEW add, DOMAIN add = {<<n, id>>}, add[<<n, id>>] = a
  PROVE  Abstract!Write(Family, {<<n, p>>}, add)
<1> DEFINE new == Entry(id, a, FALSE)
           l == <<n, id>>
           m == <<n, p>>
<1>1. new.pathID = id /\ new.attrs = a /\ new.stale = FALSE
  BY DEF Entry
<1>2. l \in Places /\ m \in Places /\ l[1] = n /\ l[2] = id /\ m[1] = n /\ m[2] = p
  BY DEF Places
<1>3. new \in PathsAt(trie', n)
  OBVIOUS
<1> HIDE DEF new
<1>4. ValueAt(trie', l) = a /\ l \notin StaleOf(trie')
  <2>1. /\ \A f \in PathsAt(trie', n) : f.pathID = id => f = new
        /\ ValueAt(trie', l) = a
    BY <1>1, <1>3, PathIs
  <2>2. l \notin StaleOf(trie')
    BY <1>1, <1>2, <2>1 DEF StaleOf
  <2> QED BY <2>1, <2>2
<1>5. ASSUME m # l
      PROVE  ValueAt(trie', m) = NoAttr /\ m \notin StaleOf(trie')
  <2>1. p # id
    BY <1>5
  <2>2. \A e \in PathsAt(trie', m[1]) : e.pathID # m[2]
    BY <1>1, <1>2, <2>1 DEF new
  <2> QED BY <2>2, NoPathThere
<1>6. ASSUME NEW k \in Places, k # l, k # m
      PROVE  ValueAt(trie', k) = ValueAt(trie, k) /\ (k \in StaleOf(trie') <=> k \in StaleOf(trie))
  <2>1. k = <<k[1], k[2]>>
    BY DEF Places
  <2>2. {e \in PathsAt(trie', k[1]) : e.pathID = k[2]} = {e \in PathsAt(trie, k[1]) : e.pathID = k[2]}
    <3>1. CASE k[1] # n
      BY <3>1
    <3>2. CASE k[1] = n
      <4>1. k[2] # id /\ k[2] # p
        BY <1>6, <2>1, <3>2
      <4> QED BY <1>1, <3>2, <4>1 DEF new
    <3> QED BY <3>1, <3>2
  <2> HIDE DEF l, m
  <2> QED BY <2>2, SamePlace
<1> HIDE DEF l, m
<1>7. \A k \in Places : ValueAt(trie', k) = IF k \in DOMAIN add THEN add[k]
                                            ELSE IF k \in {m} THEN NoAttr
                                            ELSE ValueAt(trie, k)
  <2>1. DOMAIN add = {l} /\ add[l] = a
    BY DEF l
  <2> QED BY <1>4, <1>5, <1>6, <2>1
<1>8. StaleOf(trie') = StaleOf(trie) \ ({m} \union DOMAIN add)
  <2>1. DOMAIN add = {l}
    BY DEF l
  <2>2. StaleOf(trie) \subseteq Places /\ StaleOf(trie') \subseteq Places
    BY DEF StaleOf
  <2> QED BY <1>4, <1>5, <1>6, <2>1, <2>2
<1>9. Abstract!Write(Family, {m}, add)
  BY <1>7, <1>8, WriteIs
<1> QED BY <1>9 DEF m

(* A step that takes the paths at some places away. *)
LEMMA WithdrawIs ==
  ASSUME NEW gone,
         \A l \in Places : {e \in PathsAt(trie', l[1]) : e.pathID = l[2]}
           = IF l \in gone THEN {} ELSE {e \in PathsAt(trie, l[1]) : e.pathID = l[2]},
         NEW add, DOMAIN add = {}
  PROVE  Abstract!Write(Family, gone, add)
<1>1. ASSUME NEW l \in Places, l \in gone
      PROVE  ValueAt(trie', l) = NoAttr /\ l \notin StaleOf(trie')
  <2>1. \A e \in PathsAt(trie', l[1]) : e.pathID # l[2]
    BY <1>1
  <2> QED BY <2>1, NoPathThere
<1>2. ASSUME NEW l \in Places, l \notin gone
      PROVE  ValueAt(trie', l) = ValueAt(trie, l) /\ (l \in StaleOf(trie') <=> l \in StaleOf(trie))
  BY <1>2, SamePlace
<1>3. \A l \in Places : ValueAt(trie', l) = IF l \in DOMAIN add THEN add[l]
                                            ELSE IF l \in gone THEN NoAttr
                                            ELSE ValueAt(trie, l)
  BY <1>1, <1>2
<1>4. StaleOf(trie') = StaleOf(trie) \ (gone \union DOMAIN add)
  <2>1. StaleOf(trie) \subseteq Places /\ StaleOf(trie') \subseteq Places
    BY DEF StaleOf
  <2> QED BY <1>1, <1>2, <2>1
<1> QED BY <1>3, <1>4, WriteIs

(* The stale places of the map. *)
LEMMA MarkedIs == Stale[Family] = StaleOf(trie)
BY MapsTo

(* insertUnlocked announces a route, in the place of one of its path ID, or  *)
(* of a stale one if it has none, or in none.                                *)
LEMMA InsertImplements ==
  ASSUME IInv, NEW o \in Octet, NEW bits \in Bits(Depth), NEW mask, NEW id \in PathID,
         NEW a \in Attr, insertUnlocked(o, bits, mask, id, a)
  PROVE  Abstract!SpecNext
<1> DEFINE n == Anc(o, bits, mask - MinMask)
<1>1. Sound(trie)
  BY DEF IInv, TrieInv
<1>2. TrieInv' /\ n \in NodeId /\ \E reuse : Announced(n, id, a, reuse)
  BY InsertKeeps DEF IInv
<1> HIDE DEF n
<1>3. Sound(trie')
  BY <1>2 DEF TrieInv
<1> DEFINE l == <<n, id>>
           same == {e \in PathsAt(trie, n) : e.pathID = id}
           stale == {e \in PathsAt(trie, n) : e.stale}
           new == Entry(id, a, FALSE)
           candidates == {k \in StaleOf(trie) : k[1] = n}
           present == l \in Abstract!Present(Family)
           taken == IF ~present /\ candidates # {} THEN candidates ELSE {l}
<1>4. l \in Places /\ l[1] = n /\ l[2] = id
  BY <1>2 DEF Places
<1>5. present <=> same # {}
  <2>1. \A k \in Places : k \in Abstract!Present(Family)
          <=> \E e \in PathsAt(trie, k[1]) : e.pathID = k[2]
    BY <1>1, PresentIs
  <2>2. present <=> \E e \in PathsAt(trie, l[1]) : e.pathID = l[2]
    BY <1>4, <2>1
  <2>3. present <=> \E e \in PathsAt(trie, n) : e.pathID = id
    BY <1>4, <2>2
  <2> QED BY <2>3
<1>6. /\ \A e \in stale : <<n, e.pathID>> \in candidates
      /\ \A k \in candidates : \E e \in stale : k = <<n, e.pathID>>
  <2>1. \A e \in stale : <<n, e.pathID>> \in Places
    BY <1>1, <1>2, PathIs DEF Places
  <2>2. \A e \in stale : <<n, e.pathID>> \in candidates
    BY <2>1 DEF StaleOf
  <2>3. ASSUME NEW k \in candidates
        PROVE  \E e \in stale : k = <<n, e.pathID>>
    <3>1. PICK e \in PathsAt(trie, k[1]) : e.pathID = k[2] /\ e.stale
      BY <2>3 DEF StaleOf
    <3>2. k = <<k[1], k[2]>> /\ k[1] = n
      BY <2>3 DEF StaleOf, Places
    <3>3. e \in stale /\ k = <<n, e.pathID>>
      BY <3>1, <3>2
    <3> QED BY <3>3
  <2> QED BY <2>2, <2>3
<1>7. PICK reuse : Announced(n, id, a, reuse)
  BY <1>2
<1>8. /\ \A m : m # n => PathsAt(trie', m) = PathsAt(trie, m)
      /\ \/ /\ reuse \in IF same # {} THEN same ELSE stale
            /\ PathsAt(trie', n) = (PathsAt(trie, n) \ {reuse}) \union {new}
         \/ /\ same = {} /\ stale = {}
            /\ PathsAt(trie', n) = PathsAt(trie, n) \union {new}
  BY <1>7 DEF Announced
<1>9. ASSUME NEW p \in PathID, NEW gone,
             \A e \in gone : e.pathID = p,
             \A e \in PathsAt(trie, n) : e.pathID \in {id, p} => e \in gone,
             PathsAt(trie', n) = (PathsAt(trie, n) \ gone) \union {new},
             <<n, p>> \in taken
      PROVE  \E m \in taken : Abstract!Write(Family, {m}, [x \in {l} |-> a])
  <2> DEFINE add == [x \in {l} |-> a]
             m == <<n, p>>
  <2>1. DOMAIN add = {l} /\ add[l] = a
    OBVIOUS
  <2> HIDE DEF add, taken
  <2>2. Abstract!Write(Family, {m}, add)
    BY <1>1, <1>2, <1>3, <1>8, <1>9, <2>1, AnnounceIs
  <2>3. Abstract!Write(Family, {m}, [x \in {l} |-> a])
    BY <2>2 DEF add
  <2> HIDE DEF m
  <2>4. m \in taken
    BY <1>9 DEF m
  <2> QED BY <2>3, <2>4
<1>10. \E m \in taken : Abstract!Write(Family, {m}, [x \in {l} |-> a])
  <2>1. CASE /\ reuse \in IF same # {} THEN same ELSE stale
             /\ PathsAt(trie', n) = (PathsAt(trie, n) \ {reuse}) \union {new}
    <3> DEFINE p == reuse.pathID
               gone == {reuse}
    <3>1. reuse \in PathsAt(trie, n) /\ (same # {} => p = id) /\ (same = {} => reuse \in stale)
      BY <2>1
    <3>2. p \in PathID /\ \A f \in PathsAt(trie, n) : f.pathID = p => f = reuse
      BY <1>1, <3>1, PathIs
    <3>3. \A e \in PathsAt(trie, n) : e.pathID \in {id, p} => e \in gone
      BY <3>1, <3>2
    <3>4. <<n, p>> \in taken
      <4>1. CASE same # {}
        BY <1>5, <3>1, <4>1
      <4>2. CASE same = {}
        BY <1>5, <1>6, <3>1, <4>2
      <4> QED BY <4>1, <4>2
    <3>5. \A e \in gone : e.pathID = p
      OBVIOUS
    <3>6. PathsAt(trie', n) = (PathsAt(trie, n) \ gone) \union {new}
      BY <2>1
    <3> HIDE DEF taken, gone, p, new, l
    <3> QED BY <1>9, <3>2, <3>3, <3>4, <3>5, <3>6
  <2>2. CASE /\ same = {} /\ stale = {}
             /\ PathsAt(trie', n) = PathsAt(trie, n) \union {new}
    <3> DEFINE gone == {}
    <3>1. candidates = {}
      BY <1>6, <2>2
    <3>2. <<n, id>> \in taken
      BY <3>1
    <3>3. /\ \A e \in gone : e.pathID = id
          /\ \A e \in PathsAt(trie, n) : e.pathID \in {id, id} => e \in gone
          /\ PathsAt(trie', n) = (PathsAt(trie, n) \ gone) \union {new}
      BY <2>2
    <3> HIDE DEF taken, gone, new, l
    <3> QED BY <1>9, <3>2, <3>3
  <2> QED BY <1>8, <2>1, <2>2
<1>11. Abstract!Insert(Family, l, a)
  <2>1. {m \in Stale[Family] : m[1] = l[1]} = candidates
    BY <1>4, MarkedIs
  <2>2. \E m \in (IF l \notin Abstract!Present(Family) /\ {m \in Stale[Family] : m[1] = l[1]} # {}
                    THEN {m \in Stale[Family] : m[1] = l[1]} ELSE {l}) :
          Abstract!Write(Family, {m}, [x \in {l} |-> a])
    BY <1>10, <2>1
  <2> HIDE DEF l
  <2> QED BY <2>2 DEF Abstract!Insert, Stale
<1> QED BY <1>4, <1>11 DEF Abstract!SpecNext, Abstract!Loc, Places

(* deleteUnlocked withdraws a route. *)
LEMMA DeleteImplements ==
  ASSUME IInv, NEW o \in Octet, NEW bits \in Bits(Depth), NEW mask, NEW id \in PathID,
         deleteUnlocked(o, bits, mask, id)
  PROVE  Abstract!SpecNext
<1> DEFINE n == Anc(o, bits, mask - MinMask)
<1>1. Sound(trie)
  BY DEF IInv, TrieInv
<1>2. n \in NodeId /\ Withdrawn(n, id)
  BY DeleteKeeps DEF IInv
<1> HIDE DEF n
<1> DEFINE l == <<n, id>>
<1>3. l \in Places /\ l[1] = n /\ l[2] = id
  BY <1>2 DEF Places
<1>4. PICK e \in PathsAt(trie, n) :
        e.pathID = id /\ PathsAt(trie', n) = PathsAt(trie, n) \ {e}
  BY <1>2 DEF Withdrawn
<1>5. \A f \in PathsAt(trie, n) : f.pathID = id => f = e
  BY <1>1, <1>4, PathIs
<1>6. ASSUME NEW k \in Places
      PROVE  {f \in PathsAt(trie', k[1]) : f.pathID = k[2]}
               = IF k \in {l} THEN {} ELSE {f \in PathsAt(trie, k[1]) : f.pathID = k[2]}
  <2>1. k = <<k[1], k[2]>>
    BY DEF Places
  <2>2. CASE k[1] # n
    <3>1. PathsAt(trie', k[1]) = PathsAt(trie, k[1]) /\ k # l
      BY <1>2, <1>3, <2>2 DEF Withdrawn
    <3> QED BY <3>1
  <2>3. CASE k[1] = n /\ k[2] = id
    <3>1. k = l
      BY <2>1, <2>3
    <3> QED BY <1>4, <1>5, <2>3, <3>1
  <2>4. CASE k[1] = n /\ k[2] # id
    <3>1. k # l
      BY <1>3, <2>4
    <3> QED BY <1>4, <2>4, <3>1
  <2> QED BY <2>2, <2>3, <2>4
<1>7. Abstract!Write(Family, {l}, [x \in {} |-> NoAttr])
  <2> DEFINE add == [x \in {} |-> NoAttr]
  <2>1. DOMAIN add = {}
    OBVIOUS
  <2> HIDE DEF add, l
  <2>2. Abstract!Write(Family, {l}, add)
    BY <1>6, <2>1, WithdrawIs
  <2> QED BY <2>2 DEF add
<1>8. l \in Abstract!Present(Family)
  <2>1. \A k \in Places : k \in Abstract!Present(Family)
          <=> \E f \in PathsAt(trie, k[1]) : f.pathID = k[2]
    BY <1>1, PresentIs
  <2> HIDE DEF l
  <2>2. l \in Abstract!Present(Family) <=> \E f \in PathsAt(trie, n) : f.pathID = id
    BY <1>3, <2>1
  <2> QED BY <1>4, <2>2
<1> HIDE DEF l
<1>9. Abstract!Delete(Family, l)
  BY <1>7, <1>8 DEF Abstract!Delete
<1> QED BY <1>3, <1>9 DEF Abstract!SpecNext, Abstract!Loc, Places

(* DeleteStaleRoutes withdraws the stale routes. *)
LEMMA SweepImplements ==
  ASSUME IInv, DeleteStaleRoutes
  PROVE  Abstract!SpecNext
<1> DEFINE gone == StaleOf(trie)
           add == [x \in {} |-> NoAttr]
<1>1. Sound(trie) /\ \A n : PathsAt(trie', n) = FreshOf(PathsAt(trie, n))
  BY SweepKeeps DEF IInv, TrieInv, Sweeps
<1>2. ASSUME NEW k \in Places
      PROVE  {f \in PathsAt(trie', k[1]) : f.pathID = k[2]}
               = IF k \in gone THEN {} ELSE {f \in PathsAt(trie, k[1]) : f.pathID = k[2]}
  <2>1. k \in gone <=> \E e \in PathsAt(trie, k[1]) : e.pathID = k[2] /\ e.stale
    BY DEF StaleOf
  <2>2. CASE k \in gone
    <3>1. PICK e \in PathsAt(trie, k[1]) : e.pathID = k[2] /\ e.stale
      BY <2>1, <2>2
    <3>2. \A f \in PathsAt(trie, k[1]) : f.pathID = k[2] => f = e
      BY <1>1, <3>1, PathIs
    <3> HIDE DEF gone
    <3> QED BY <1>1, <2>2, <3>1, <3>2 DEF FreshOf
  <2>3. CASE k \notin gone
    <3>1. \A f \in PathsAt(trie, k[1]) : f.pathID = k[2] => ~f.stale
      BY <2>1, <2>3
    <3> HIDE DEF gone
    <3> QED BY <1>1, <2>3, <3>1 DEF FreshOf
  <2> QED BY <2>2, <2>3
<1>3. DOMAIN add = {}
  OBVIOUS
<1> HIDE DEF gone, add
<1>4. Abstract!Write(Family, gone, add)
  BY <1>2, <1>3, WithdrawIs
<1>5. Stale[Family] = gone
  BY MarkedIs DEF gone
<1>6. Abstract!Write(Family, Stale[Family], [x \in {} |-> NoAttr])
  BY <1>4, <1>5 DEF add
<1>7. Abstract!DeleteStaleRoutes(Family)
  BY <1>6 DEF Abstract!DeleteStaleRoutes, Stale
<1> QED BY <1>7 DEF Abstract!SpecNext

(* Reset withdraws all. *)
LEMMA ResetImplements ==
  ASSUME Reset
  PROVE  Abstract!SpecNext
<1> DEFINE add == [x \in {} |-> NoAttr]
<1>1. \A n : PathsAt(trie', n) = {}
  BY ResetKeeps
<1>2. \A k \in Places : {f \in PathsAt(trie', k[1]) : f.pathID = k[2]}
        = IF k \in Places THEN {} ELSE {f \in PathsAt(trie, k[1]) : f.pathID = k[2]}
  BY <1>1
<1>3. DOMAIN add = {}
  OBVIOUS
<1> HIDE DEF add
<1>4. Abstract!Write(Family, Places, add)
  BY <1>2, <1>3, WithdrawIs
<1>5. Abstract!Reset(Family)
  BY <1>4 DEF Abstract!Reset, Abstract!Loc, Places, add
<1> QED BY <1>5 DEF Abstract!SpecNext

(* MarkAllStale flags every route and changes none. *)
LEMMA MarkImplements ==
  ASSUME IInv, MarkAllStale
  PROVE  Abstract!SpecNext
<1>1. Sound(trie) /\ Sound(trie') /\ Staling
  BY MarkKeeps DEF IInv, TrieInv
<1>2. ASSUME NEW k \in Places
      PROVE  /\ ValueAt(trie', k) = ValueAt(trie, k)
             /\ k \in StaleOf(trie') <=> \E e \in PathsAt(trie, k[1]) : e.pathID = k[2]
  <2> DEFINE n == k[1]
  <2>1. k = <<n, k[2]>>
    BY DEF Places
  <2>2. PathsAt(trie', n) = {Entry(e.pathID, e.attrs, TRUE) : e \in PathsAt(trie, n)}
    BY <1>1 DEF Staling
  <2>3. CASE \E e \in PathsAt(trie, n) : e.pathID = k[2]
    <3>1. PICK e \in PathsAt(trie, n) : e.pathID = k[2]
      BY <2>3
    <3> DEFINE f == Entry(e.pathID, e.attrs, TRUE)
    <3>2. f \in PathsAt(trie', n) /\ f.pathID = k[2] /\ f.attrs = e.attrs /\ f.stale
      BY <2>2, <3>1 DEF Entry
    <3> HIDE DEF f
    <3>3. ValueAt(trie, <<n, e.pathID>>) = e.attrs
      BY <1>1, PathIs
    <3>4. ValueAt(trie', <<n, f.pathID>>) = f.attrs
      BY <1>1, <3>2, PathIs
    <3>5. ValueAt(trie', k) = ValueAt(trie, k)
      BY <2>1, <3>1, <3>2, <3>3, <3>4
    <3>6. k \in StaleOf(trie')
      BY <3>2 DEF StaleOf
    <3> QED BY <2>3, <3>5, <3>6
  <2>4. CASE \A e \in PathsAt(trie, n) : e.pathID # k[2]
    <3>1. \A f \in PathsAt(trie', n) : f.pathID # k[2]
      BY <2>2, <2>4 DEF Entry
    <3>2. ValueAt(trie', k) = NoAttr /\ k \notin StaleOf(trie') /\ ValueAt(trie, k) = NoAttr
      BY <2>4, <3>1, NoPathThere
    <3> QED BY <2>4, <3>2
  <2> QED BY <2>3, <2>4
<1>3. MapOf(trie') = MapOf(trie)
  BY <1>2 DEF MapOf
<1>4. StaleOf(trie') = Abstract!Present(Family)
  <2>1. StaleOf(trie') \subseteq Places
    BY DEF StaleOf
  <2>2. Abstract!Present(Family) \subseteq Places
    BY DEF Abstract!Present, Abstract!Loc, Places
  <2>3. \A k \in Places : k \in StaleOf(trie') <=> k \in Abstract!Present(Family)
    BY <1>1, <1>2, PresentIs
  <2> QED BY <2>1, <2>2, <2>3
<1>5. Map' = Map
  BY <1>3, MapsTo
<1>6. Stale' = [Stale EXCEPT ![Family] = Abstract!Present(Family)]
  BY <1>4, MapsTo
<1>7. Abstract!MarkAllStale(Family)
  BY <1>5, <1>6 DEF Abstract!MarkAllStale, Map, Stale
<1> QED BY <1>7 DEF Abstract!SpecNext

(* Every write of the trie is one write of the map. *)
LEMMA NextImplements ==
  IInv /\ [Next]_vars => [Abstract!SpecNext]_(Abstract!specVars)
<1> SUFFICES ASSUME IInv, [Next]_vars
             PROVE  Abstract!SpecNext \/ UNCHANGED Abstract!specVars
  OBVIOUS
<1>1. CASE Insert
  BY <1>1, InsertImplements DEF Insert
<1>2. CASE Delete
  BY <1>2, DeleteImplements DEF Delete
<1>3. CASE UNCHANGED vars
  <2>1. trie' = trie
    BY <1>3 DEF vars, trieVars
  <2>2. Map' = Map /\ Stale' = Stale
    BY <2>1, MapsTo
  <2> QED BY <2>2 DEF Abstract!specVars, Map, Stale
<1> QED BY <1>1, <1>2, <1>3, MarkImplements, SweepImplements, ResetImplements DEF Next

(* An empty trie is an empty map. *)
LEMMA InitImplements == Init => Abstract!SpecInit
<1> SUFFICES ASSUME Init
             PROVE  Abstract!SpecInit
  OBVIOUS
<1>1. \A n : PathsAt(trie, n) = {}
  BY EmptyTrie, Zenon DEF Init
<1>2. \A l : ValueAt(trie, l) = NoAttr /\ l \notin StaleOf(trie)
  BY <1>1, NoPathThere
<1>3. MapOf(trie) = [l \in Places |-> NoAttr] /\ StaleOf(trie) = {}
  BY <1>2 DEF MapOf
<1>4. Map = [r \in {Family} |-> [l \in Places |-> NoAttr]] /\ Stale = [r \in {Family} |-> {}]
  BY <1>3, MapsTo
<1> QED BY <1>4 DEF Abstract!SpecInit, Abstract!Loc, Places, Map, Stale

(* The trie, its inline slots, slices, stale bits and pruning, is a map from *)
(* (prefix, path ID) to a route, and each write the one that RibSpec says.   *)
THEOREM TrieImplementsMap == Spec => ImplementsRibSpec
<1>1. Init => Abstract!SpecInit
  BY InitImplements
<1>2. IInv /\ [Next]_vars => [Abstract!SpecNext]_(Abstract!specVars)
  BY NextImplements
<1> QED BY <1>1, <1>2, TrieStays, PTL
    DEF Spec, ImplementsRibSpec, Abstract!AtomicRibs

-----------------------------------------------------------------------------
(* What the readers return *)

RouteOn(n, e) == [prefix |-> n, attrs |-> e.attrs, pathID |-> e.pathID, stale |-> e.stale]

(* isPathStale finds the flag of the path that it is asked for. *)
LEMMA FlagIs ==
  ASSUME NEW n \in Tidy, NEW e \in Entries(n)
  PROVE  isPathStale(n, e.pathID) = e.stale
<1>1. n \in Node /\ pathsCount(n) \in Nat /\ DOMAIN allPaths(n) = 1..pathsCount(n)
  BY PathsOf DEF Tidy
<1>2. /\ Entries(n) = {allPaths(n)[i] : i \in 1..pathsCount(n)}
      /\ \A i \in 1..pathsCount(n) : allPaths(n)[i] \in PathEntry
  BY <1>1, EntriesOf, PathsOf, ElementOfSeq
<1>3. e.pathID \in Nat /\ e.stale \in BOOLEAN
  BY <1>2 DEF PathEntry
<1> DEFINE at == PositionOf(n, e.pathID)
<1>4. at \in 0..pathsCount(n) /\ (at # 0 => allPaths(n)[at].pathID = e.pathID)
      /\ (at = 0 => \A i \in 1..pathsCount(n) : allPaths(n)[i].pathID # e.pathID)
  BY <1>1, <1>3, Found
<1> HIDE DEF at
<1>5. at # 0 /\ at \in 1..pathsCount(n)
  BY <1>1, <1>2, <1>4
<1>6. allPaths(n)[at] = e
  <2>1. allPaths(n)[at] \in Entries(n)
    BY <1>2, <1>5
  <2> QED BY <1>4, <1>5, <2>1, OnePathPerID
<1> QED BY <1>3, <1>5, <1>6 DEF isPathStale, at

(* The routes of a node are its paths, and its one route is the best.        *)
LEMMA RoutesAre ==
  ASSUME Sound(trie), NEW n \in DOMAIN trie
  PROVE  /\ nodeToRoutes(n) = {RouteOn(n, e) : e \in Entries(trie[n])}
         /\ n \notin Routed => Entries(trie[n]) = {} /\ RouteAt(n) = NoRoute
         /\ n \in Routed =>
              \E e \in Entries(trie[n]) :
                /\ RouteAt(n) = RouteOn(n, e)
                /\ \A f \in Entries(trie[n]) \ {e} : Preferred(e, f)
<1> DEFINE N == trie[n]
<1>1. N \in Tidy /\ N \in Node /\ UniqueIDs(N)
  BY DEF Sound, Tidy
<1>2. hasPath(N) <=> Entries(N) # {}
  BY <1>1, NodeHolds
<1>3. n \in Routed <=> Entries(N) # {}
  BY <1>2 DEF Routed
<1>4. nodeToRoutes(n) = {RouteOn(n, e) : e \in Entries(N)}
  BY Zenon DEF nodeToRoutes, RouteOn, Entries, ToSet
<1>5. \A e \in Entries(N) : e.attrs # NoAttr
  <2>1. \A e \in Entries(N) : e \in PathEntry
    BY <1>1, PathsOf, EntriesOf, ElementOfSeq
  <2> QED BY <2>1, PathAttrAssumption DEF PathEntry
<1>6. CASE Entries(N) = {}
  <2>1. bestPathWithID(N) = <<NoAttr, 0>>
    BY <1>1, <1>6, BestExact
  <2>2. RouteAt(n) = NoRoute
    BY <2>1 DEF RouteAt
  <2> QED BY <1>3, <1>4, <1>6, <2>2
<1>7. CASE Entries(N) # {}
  <2>1. PICK e \in Entries(N) :
          /\ bestPathWithID(N) = <<e.attrs, e.pathID>>
          /\ \A f \in Entries(N) \ {e} : Preferred(e, f)
    <3> HIDE DEF N
    <3> QED BY <1>1, <1>7, BestExact
  <2>2. isPathStale(N, e.pathID) = e.stale
    BY <1>1, FlagIs
  <2>3. RouteAt(n) = RouteOn(n, e)
    BY <1>5, <2>1, <2>2 DEF RouteAt, RouteOn
  <2> HIDE DEF N
  <2> QED BY <1>3, <1>4, <1>7, <2>1, <2>3 DEF N
<1> QED BY <1>6, <1>7

(* A prefix has a route exactly if it has a path, and that route is one of   *)
(* its own and before every other in the order of preference.                *)
LEMMA RouteIsBest ==
  ASSUME Sound(trie), NEW n \in Routed
  PROVE  /\ RouteAt(n) # NoRoute /\ RouteAt(n).prefix = n
         /\ RouteAt(n) \in nodeToRoutes(n)
         /\ \A other \in nodeToRoutes(n) \ {RouteAt(n)} : Preferred(RouteAt(n), other)
         /\ \A route \in nodeToRoutes(n) : route.prefix = n
         /\ BestAmong(nodeToRoutes(n), RouteAt(n))
<1>1. n \in DOMAIN trie
  BY DEF Routed
<1>2. nodeToRoutes(n) = {RouteOn(n, e) : e \in Entries(trie[n])}
  BY <1>1, RoutesAre
<1>3. PICK e \in Entries(trie[n]) :
        /\ RouteAt(n) = RouteOn(n, e)
        /\ \A f \in Entries(trie[n]) \ {e} : Preferred(e, f)
  BY <1>1, RoutesAre
<1>4. RouteAt(n) \in nodeToRoutes(n)
  BY <1>2, <1>3
<1>5. \A f : RouteOn(n, f).prefix = n
  BY DEF RouteOn
<1>6. RouteAt(n) # NoRoute
  <2>1. "prefix" \in DOMAIN RouteAt(n)
    BY <1>3 DEF RouteOn
  <2>2. DOMAIN <<>> = {}
    OBVIOUS
  <2> QED BY <2>1, <2>2 DEF NoRoute
<1>7. ASSUME NEW other \in nodeToRoutes(n) \ {RouteAt(n)}
      PROVE  Preferred(RouteAt(n), other)
  <2>1. PICK f \in Entries(trie[n]) : other = RouteOn(n, f)
    BY <1>2
  <2>2. Preferred(e, f)
    BY <1>3, <1>7, <2>1
  <2>3. Preferred(RouteOn(n, e), RouteOn(n, f)) <=> Preferred(e, f)
    BY DEF Preferred, Pref, RouteOn
  <2> QED BY <1>3, <2>1, <2>2, <2>3
<1>8. \A route \in nodeToRoutes(n) : route.prefix = n
  BY <1>2, <1>5
<1>9. BestAmong(nodeToRoutes(n), RouteAt(n))
  BY <1>4, <1>7 DEF BestAmong
<1> QED BY <1>3, <1>4, <1>5, <1>6, <1>7, <1>8, <1>9

(* The routes whose prefix is in a set. *)
RoutesFor(N) == {r \in AllRoutes : r.prefix \in N}

(* Those for one prefix are its node's, and there are some if it is routed.  *)
LEMMA RoutesForIs ==
  ASSUME Sound(trie)
  PROVE  /\ \A r \in AllRoutes : r.prefix \in Routed
         /\ \A n \in Routed : \E r \in AllRoutes : r.prefix = n
         /\ \A n \in Routed : RoutesFor({n}) = nodeToRoutes(n)
<1>1. AllRoutes = UNION {nodeToRoutes(n) : n \in Routed}
  BY RoutesOfAll
<1>2. \A n \in Routed : /\ \A r \in nodeToRoutes(n) : r.prefix = n
                        /\ RouteAt(n) \in nodeToRoutes(n)
  BY RouteIsBest
<1>3. \A r : r \in AllRoutes <=> \E n \in Routed : r \in nodeToRoutes(n)
  BY <1>1
<1> QED BY <1>2, <1>3 DEF RoutesFor

(* A walk towards an address comes by every node on the way that exists,     *)
(* and the prefixes that cover the address are among those.                  *)
LEMMA WalkIs ==
  ASSUME Sound(trie), Hanging(trie), NEW o \in Octet, NEW bits \in Bits(Depth)
  PROVE  /\ Reached(o, bits) = {k \in 0..Depth : Anc(o, bits, k) \in DOMAIN trie}
         /\ \A n : n \in Covering(o, bits) <=>
                     \E k \in 0..Depth : n = Anc(o, bits, k) /\ n \in Routed
         /\ \A k \in 0..Depth : MaskOf(Anc(o, bits, k)) = MinMask + k
<1>1. /\ Depth \in Nat /\ bits \in Seq({0, 1}) /\ Len(bits) = Depth
      /\ bits \in BitString
  <2>1. Depth \in Nat
    BY DepthType
  <2>2. bits \in Seq({0, 1}) /\ Len(bits) = Depth
    BY <2>1 DEF Bits
  <2>3. Len(bits) \in 0..Depth
    BY <2>1, <2>2
  <2> QED BY <2>1, <2>2, <2>3, BitStringIs
<1>2. \A k \in 0..Depth : /\ Anc(o, bits, k)[1] = o /\ Len(Anc(o, bits, k)[2]) = k
                          /\ Anc(o, bits, k)[2] = SubSeq(bits, 1, k)
  <2> TAKE k \in 0..Depth
  <2>1. k \in 0..Len(bits)
    BY <1>1
  <2> QED BY <1>1, <2>1, AncestorOf DEF Anc
<1>3. ASSUME NEW k \in 0..Depth, Anc(o, bits, k) \in DOMAIN trie, NEW j \in 0..k
      PROVE  Anc(o, bits, j) \in DOMAIN trie
  <2> DEFINE n == Anc(o, bits, k)
  <2>1. n[1] = o /\ Len(n[2]) = k /\ n[2] = SubSeq(bits, 1, k)
    BY <1>2
  <2>2. SubSeq(n[2], 1, j) = SubSeq(bits, 1, j)
    <3>1. k \in 0..Len(bits)
      BY <1>1
    <3> QED BY <1>1, <2>1, <3>1, FirstOfFirst
  <2>3. Anc(n[1], n[2], j) = Anc(o, bits, j)
    BY <2>1, <2>2 DEF Anc
  <2>4. Anc(n[1], n[2], j) \in Ancestors(n[1], n[2])
    BY <2>1 DEF Ancestors
  <2>5. Ancestors(n[1], n[2]) \subseteq DOMAIN trie
    BY <1>3, AncestorsIn
  <2> QED BY <2>3, <2>4, <2>5
<1>4. Reached(o, bits) = {k \in 0..Depth : Anc(o, bits, k) \in DOMAIN trie}
  <2>1. \A k \in 0..Depth : k \in 0..k
    BY <1>1
  <2> QED BY <1>1, <1>3, <2>1 DEF Reached
<1>5. ASSUME NEW n
      PROVE  n \in Covering(o, bits) <=>
               \E k \in 0..Depth : n = Anc(o, bits, k) /\ n \in Routed
  <2>1. ASSUME n \in Covering(o, bits)
        PROVE  \E k \in 0..Depth : n = Anc(o, bits, k) /\ n \in Routed
    <3>1. n \in Routed /\ n[1] = o /\ n[2] = SubSeq(bits, 1, Len(n[2]))
      BY <2>1 DEF Covering, Covers
    <3>2. n \in NodeId
      BY <3>1 DEF Routed, Sound
    <3>3. n = <<n[1], n[2]>> /\ Len(n[2]) \in 0..Depth
      BY <1>1, <3>2, NodeIdIs
    <3>4. n = Anc(o, bits, Len(n[2]))
      BY <3>1, <3>3 DEF Anc
    <3> QED BY <3>1, <3>3, <3>4
  <2>2. ASSUME NEW k \in 0..Depth, n = Anc(o, bits, k), n \in Routed
        PROVE  n \in Covering(o, bits)
    BY <1>2, <2>2 DEF Covering, Covers
  <2> QED BY <2>1, <2>2
<1>6. \A k \in 0..Depth : MaskOf(Anc(o, bits, k)) = MinMask + k
  BY <1>2 DEF MaskOf
<1> QED BY <1>4, <1>5, <1>6

(* The places on the way to an address that have a route. *)
Hits(o, bits) == {k \in 0..Depth : Anc(o, bits, k) \in Routed}

(* The longest prefixes of a set. *)
Longest(S) == {n \in S : \A m \in S : MaskOf(m) <= MaskOf(n)}

(* The last of them is the longest prefix that covers the address.           *)
LEMMA DeepestIs ==
  ASSUME Sound(trie), Hanging(trie), NEW o \in Octet, NEW bits \in Bits(Depth)
  PROVE  \/ /\ Hits(o, bits) = {} /\ Deepest(o, bits, Routed) = {}
            /\ Covering(o, bits) = {}
         \/ \E m \in Hits(o, bits) :
              /\ Deepest(o, bits, Routed) = {m}
              /\ Longest(Covering(o, bits)) = {Anc(o, bits, m)}
<1> DEFINE H == Hits(o, bits)
<1>1. Depth \in Nat
  BY DepthType
<1>2. /\ Reached(o, bits) = {k \in 0..Depth : Anc(o, bits, k) \in DOMAIN trie}
      /\ \A n : n \in Covering(o, bits) <=>
                  \E k \in 0..Depth : n = Anc(o, bits, k) /\ n \in Routed
      /\ \A k \in 0..Depth : MaskOf(Anc(o, bits, k)) = MinMask + k
  BY WalkIs
<1>3. {k \in Reached(o, bits) : Anc(o, bits, k) \in Routed} = H
  BY <1>2 DEF Hits, Routed
<1>4. Deepest(o, bits, Routed) = {k \in H : \A j \in H : j <= k}
  BY <1>3 DEF Deepest
<1>5. \A n : n \in Covering(o, bits) <=> \E k \in H : n = Anc(o, bits, k)
  BY <1>2 DEF Hits
<1>6. H \subseteq 0..Depth
  BY DEF Hits
<1> HIDE DEF H
<1>7. CASE H = {}
  BY <1>4, <1>5, <1>7 DEF H
<1>8. CASE H # {}
  <2> DEFINE D == {k + 1 : k \in H}
  <2>1. D \in SUBSET (1..(Depth + 1)) /\ D # {} /\ Depth + 1 \in Nat
    <3>1. \A k \in 0..Depth : k + 1 \in 1..(Depth + 1)
      BY <1>1
    <3>2. D \subseteq 1..(Depth + 1)
      <4> SUFFICES ASSUME NEW k \in H
                   PROVE  k + 1 \in 1..(Depth + 1)
        BY Zenon
      <4> QED BY ONLY <1>6, <3>1, k \in H
    <3>3. PICK k : k \in H
      BY <1>8
    <3>4. D # {}
      BY <3>3, Zenon
    <3>5. Depth + 1 \in Nat
      BY <1>1
    <3> QED BY <3>2, <3>4, <3>5
  <2>2. \A k \in H : k + 1 \in D
    OBVIOUS
  <2>3. \A d \in D : \E k \in H : d = k + 1
    OBVIOUS
  <2> HIDE DEF D
  <2>4. Max(D) \in D /\ \A y \in D : Max(D) >= y
    BY <2>1, MaxOf
  <2>5. PICK m \in H : Max(D) = m + 1
    BY <2>3, <2>4
  <2>6. \A j \in H : j <= m
    <3> TAKE j \in H
    <3>1. m + 1 >= j + 1
      BY <2>2, <2>4, <2>5
    <3>2. j \in 0..Depth /\ m \in 0..Depth
      BY <1>6
    <3> QED BY <1>1, <3>1, <3>2
  <2>7. Deepest(o, bits, Routed) = {m}
    <3>1. \A k \in H : (\A j \in H : j <= k) => k = m
      <4> TAKE k \in H
      <4>1. k \in 0..Depth /\ m \in 0..Depth
        BY <1>6
      <4> QED BY <1>1, <2>6, <4>1
    <3> QED BY <1>4, <2>6, <3>1
  <2>8. Longest(Covering(o, bits)) = {Anc(o, bits, m)}
    <3>1. \A k \in H : MaskOf(Anc(o, bits, k)) = MinMask + k /\ k \in Int
      BY <1>1, <1>2, <1>6
    <3>2. MinMask \in Int
      BY TrieAssumption
    <3>3. ASSUME NEW k \in H
          PROVE  MaskOf(Anc(o, bits, k)) <= MaskOf(Anc(o, bits, m))
      <4>1. k <= m /\ k \in Int /\ m \in Int
        BY <2>6, <3>1
      <4> QED BY <3>1, <3>2, <4>1
    <3>4. Anc(o, bits, m) \in Longest(Covering(o, bits))
      BY <1>5, <3>3 DEF Longest
    <3>5. ASSUME NEW n \in Longest(Covering(o, bits))
          PROVE  n = Anc(o, bits, m)
      <4>1. n \in Covering(o, bits) /\ \A p \in Covering(o, bits) : MaskOf(p) <= MaskOf(n)
        BY DEF Longest
      <4>2. PICK k \in H : n = Anc(o, bits, k)
        BY <1>5, <4>1
      <4>3. MaskOf(Anc(o, bits, m)) <= MaskOf(Anc(o, bits, k))
        BY <1>5, <4>1, <4>2
      <4>4. k <= m /\ k \in Int /\ m \in Int
        BY <2>6, <3>1
      <4>5. k = m
        BY <3>1, <3>2, <4>3, <4>4
      <4> QED BY <4>2, <4>5
    <3> QED BY <3>4, <3>5
  <2> QED BY <2>7, <2>8 DEF H
<1> QED BY <1>7, <1>8

(* A lookup of one prefix finds it exactly if it has a route.                *)
LEMMA LookupIs ==
  ASSUME Sound(trie), Hanging(trie), NEW o \in Octet, Indexed(o),
         NEW bits \in Bits(Depth), NEW mask \in MinMask .. MaxMask
  PROVE  LET n == Anc(o, bits, mask - MinMask)
             exact == {m \in Covering(o, bits) : MaskOf(m) = mask}
         IN \/ /\ n \in Routed /\ exact = {n} /\ Lookup(o, bits, mask) = RouteAt(n)
               /\ AllPaths(o, bits, mask) = nodeToRoutes(n)
            \/ /\ exact = {} /\ Lookup(o, bits, mask) = NoRoute
               /\ AllPaths(o, bits, mask) = {}
<1> DEFINE k == mask - MinMask
           n == Anc(o, bits, k)
           exact == {m \in Covering(o, bits) : MaskOf(m) = mask}
<1>1. k \in 0..Depth /\ MinMask + k = mask /\ ValidMask(mask) /\ MinMask \in Int
  BY TrieAssumption DEF Depth, ValidMask
<1>2. /\ Reached(o, bits) = {j \in 0..Depth : Anc(o, bits, j) \in DOMAIN trie}
      /\ \A m : m \in Covering(o, bits) <=>
                  \E j \in 0..Depth : m = Anc(o, bits, j) /\ m \in Routed
      /\ \A j \in 0..Depth : MaskOf(Anc(o, bits, j)) = MinMask + j
  BY WalkIs
<1>3. /\ Lookup(o, bits, mask) = IF n \in DOMAIN trie THEN RouteAt(n) ELSE NoRoute
      /\ AllPaths(o, bits, mask) = IF n \in DOMAIN trie THEN nodeToRoutes(n) ELSE {}
  <2>1. k \in Reached(o, bits) <=> n \in DOMAIN trie
    BY <1>1, <1>2
  <2> QED BY <1>1, <2>1 DEF Lookup, AllPaths
<1>4. \A m \in exact : m = n /\ n \in Routed
  <2> TAKE m \in exact
  <2>1. PICK j \in 0..Depth : m = Anc(o, bits, j) /\ m \in Routed
    BY <1>2
  <2>2. MaskOf(m) = mask /\ MaskOf(m) = MinMask + j
    BY <1>2, <2>1
  <2>3. j = k
    BY <1>1, <2>2, DepthType
  <2> QED BY <2>1, <2>3
<1>5. n \in Routed => n \in exact
  BY <1>1, <1>2
<1> HIDE DEF k, exact
<1>6. CASE n \in Routed
  <2>1. n \in DOMAIN trie
    BY <1>6 DEF Routed
  <2>2. exact = {n}
    BY <1>4, <1>5, <1>6
  <2> QED BY <1>3, <1>6, <2>1, <2>2 DEF exact, k
<1>7. CASE n \notin Routed
  <2>1. exact = {}
    BY <1>4, <1>7
  <2>2. n \in DOMAIN trie => RouteAt(n) = NoRoute /\ nodeToRoutes(n) = {}
    BY <1>7, RoutesAre
  <2> QED BY <1>3, <2>1, <2>2 DEF exact, k
<1> QED BY <1>6, <1>7

(* The root array has an entry for whatever octet has a route.               *)
LEMMA RoutedIndexed ==
  ASSUME Sound(trie), NEW o \in Octet, ~Indexed(o), NEW bits
  PROVE  Covering(o, bits) = {}
<1>1. \A n \in Routed : Accepts(n[1])
  BY DEF Routed, Sound
<1>2. ~Accepts(o)
  BY DEF Accepts, Indexed
<1> QED BY <1>1, <1>2 DEF Covering, Covers

(* The routes of one covering prefix: what Lookup and AllPaths return.       *)
LEMMA ExactReads ==
  ASSUME Sound(trie), Hanging(trie), NEW o \in Octet, NEW bits \in Bits(Depth), NEW mask
  PROVE  LET exact == {m \in Covering(o, bits) : MaskOf(m) = mask}
         IN  /\ BestAmong(RoutesFor(exact), Lookup(o, bits, mask))
             /\ AllPaths(o, bits, mask) = RoutesFor(exact)
<1> DEFINE exact == {m \in Covering(o, bits) : MaskOf(m) = mask}
           n == Anc(o, bits, mask - MinMask)
<1>1. CASE Indexed(o) /\ mask \in MinMask .. MaxMask
  <2>1. \/ /\ n \in Routed /\ exact = {n} /\ Lookup(o, bits, mask) = RouteAt(n)
           /\ AllPaths(o, bits, mask) = nodeToRoutes(n)
        \/ /\ exact = {} /\ Lookup(o, bits, mask) = NoRoute
           /\ AllPaths(o, bits, mask) = {}
    BY <1>1, LookupIs
  <2> HIDE DEF n, exact
  <2>2. n \in Routed => /\ BestAmong(nodeToRoutes(n), RouteAt(n))
                        /\ RoutesFor({n}) = nodeToRoutes(n)
    BY RouteIsBest, RoutesForIs
  <2>3. RoutesFor({}) = {} /\ BestAmong({}, NoRoute)
    BY DEF RoutesFor, BestAmong
  <2> QED BY <2>1, <2>2, <2>3 DEF exact
<1>2. CASE ~(Indexed(o) /\ mask \in MinMask .. MaxMask)
  <2>1. Lookup(o, bits, mask) = NoRoute /\ AllPaths(o, bits, mask) = {}
    BY <1>2 DEF Lookup, AllPaths, ValidMask
  <2>2. exact = {}
    <3>1. \A m \in Covering(o, bits) : MaskOf(m) \in MinMask .. MaxMask
      <4>1. \A m \in Covering(o, bits) : m \in NodeId
        BY DEF Covering, Routed, Sound
      <4> QED BY <4>1, MaskOfNode
    <3>2. ~Indexed(o) => Covering(o, bits) = {}
      BY RoutedIndexed
    <3> QED BY <1>2, <3>1, <3>2
  <2>3. RoutesFor({}) = {} /\ BestAmong({}, NoRoute)
    BY DEF RoutesFor, BestAmong
  <2> HIDE DEF exact
  <2> QED BY <2>1, <2>2, <2>3 DEF exact
<1> QED BY <1>1, <1>2

(* The routes of the longest one: what Search and AllPathsSearch return.     *)
LEMMA LongestReads ==
  ASSUME Sound(trie), Hanging(trie), NEW o \in Octet, NEW bits \in Bits(Depth)
  PROVE  /\ BestAmong(RoutesFor(Longest(Covering(o, bits))), Search(o, bits))
         /\ Indexed(o) =>
              AllPathsSearch(o, bits) = RoutesFor(Longest(Covering(o, bits)))
<1> DEFINE lpm == Deepest(o, bits, Routed)
           at == Anc(o, bits, CHOOSE k \in lpm : TRUE)
           longest == Longest(Covering(o, bits))
<1>1. {n \in DOMAIN trie : RouteAt(n) # NoRoute} = Routed
  <2>1. Routed \subseteq DOMAIN trie
    BY DEF Routed
  <2>2. \A n \in DOMAIN trie : RouteAt(n) # NoRoute <=> n \in Routed
    BY RoutesAre, RouteIsBest
  <2> QED BY <2>1, <2>2
<1>2. /\ Search(o, bits) = IF ~Indexed(o) \/ lpm = {} THEN NoRoute ELSE RouteAt(at)
      /\ Indexed(o) =>
           AllPathsSearch(o, bits) = IF lpm = {} THEN {} ELSE nodeToRoutes(at)
  <2>1. Search(o, bits) = LET set == Deepest(o, bits, {n \in DOMAIN trie : RouteAt(n) # NoRoute})
                          IN IF ~Indexed(o) \/ set = {} THEN NoRoute
                             ELSE RouteAt(Anc(o, bits, CHOOSE k \in set : TRUE))
    BY Zenon DEF Search
  <2> QED BY <1>1, <2>1, Zenon DEF AllPathsSearch
<1>3. \/ lpm = {} /\ longest = {}
      \/ at \in Routed /\ longest = {at} /\ lpm # {}
  <2>1. CASE Covering(o, bits) = {} /\ lpm = {}
    BY <2>1 DEF Longest
  <2>2. ASSUME NEW m \in Hits(o, bits), lpm = {m}, longest = {Anc(o, bits, m)}
        PROVE  at \in Routed /\ longest = {at} /\ lpm # {}
    <3>1. (CHOOSE k \in lpm : TRUE) = m
      BY <2>2
    <3> QED BY <2>2, <3>1 DEF Hits
  <2> QED BY <2>1, <2>2, DeepestIs
<1>4. ~Indexed(o) => longest = {}
  BY RoutedIndexed DEF Longest
<1> HIDE DEF lpm, at, longest
<1>5. at \in Routed => /\ BestAmong(nodeToRoutes(at), RouteAt(at))
                       /\ RoutesFor({at}) = nodeToRoutes(at)
  BY RouteIsBest, RoutesForIs
<1>6. RoutesFor({}) = {} /\ BestAmong({}, NoRoute)
  BY DEF RoutesFor, BestAmong
<1>7. CASE longest = {}
  <2>1. lpm = {} \/ ~Indexed(o)
    BY <1>3, <1>7
  <2>2. Search(o, bits) = NoRoute /\ (Indexed(o) => AllPathsSearch(o, bits) = {})
    BY <1>2, <1>3, <1>7
  <2> QED BY <1>6, <1>7, <2>2 DEF longest
<1>8. CASE longest # {}
  <2>1. at \in Routed /\ longest = {at} /\ lpm # {} /\ Indexed(o)
    BY <1>3, <1>4, <1>8
  <2>2. Search(o, bits) = RouteAt(at) /\ AllPathsSearch(o, bits) = nodeToRoutes(at)
    BY <1>2, <2>1
  <2> QED BY <1>5, <2>1, <2>2 DEF longest
<1> QED BY <1>7, <1>8

(* Search, AllPathsSearch, Lookup and AllPaths return what an exhaustive     *)
(* search would, all paths included: the walk that stops at the first        *)
(* missing child misses no route, the last hit on the way is the longest     *)
(* match, and no octet or mask is read that the root array or the walk does  *)
(* not have (of AllPathsSearch, only where its octet has an entry).          *)
THEOREM ReadersAgree == Spec => []ReadsAgree
<1>1. IInv => ReadsAgree
  <2> SUFFICES ASSUME IInv, NEW o \in Octet, NEW bits \in Bits(Depth)
               PROVE  LET covering == {r \in AllRoutes : Covers(r.prefix, o, bits)}
                          longest == {r \in covering :
                                        \A s \in covering : MaskOf(s.prefix) <= MaskOf(r.prefix)}
                          exact(mask) == {r \in covering : MaskOf(r.prefix) = mask}
                      IN /\ BestAmong(longest, Search(o, bits))
                         /\ Indexed(o) => AllPathsSearch(o, bits) = longest
                         /\ \A mask \in MinMask - 1 .. MaxMask + 1 :
                              /\ BestAmong(exact(mask), Lookup(o, bits, mask))
                              /\ AllPaths(o, bits, mask) = exact(mask)
    BY Zenon DEF ReadsAgree
  <2> DEFINE covering == {r \in AllRoutes : Covers(r.prefix, o, bits)}
             longest == {r \in covering :
                           \A s \in covering : MaskOf(s.prefix) <= MaskOf(r.prefix)}
             exact(mask) == {r \in covering : MaskOf(r.prefix) = mask}
             C == Covering(o, bits)
  <2>1. Sound(trie) /\ Hanging(trie)
    BY DEF IInv, TrieInv
  <2>2. /\ \A r \in AllRoutes : r \in covering <=> r.prefix \in C
        /\ \A n \in C : \E r \in covering : r.prefix = n
    BY <2>1, RoutesForIs DEF Covering
  <2>3. longest = RoutesFor(Longest(C))
    <3> HIDE DEF C
    <3>1. covering \subseteq AllRoutes
      OBVIOUS
    <3> HIDE DEF covering
    <3> QED BY <2>2, <3>1 DEF RoutesFor, Longest
  <2>4. \A mask : exact(mask) = RoutesFor({n \in C : MaskOf(n) = mask})
    <3> HIDE DEF C
    <3>1. covering \subseteq AllRoutes
      OBVIOUS
    <3> HIDE DEF covering
    <3> QED BY <2>2, <3>1 DEF RoutesFor
  <2>5. /\ BestAmong(RoutesFor(Longest(C)), Search(o, bits))
        /\ Indexed(o) => AllPathsSearch(o, bits) = RoutesFor(Longest(C))
    BY <2>1, LongestReads
  <2>6. ASSUME NEW mask
        PROVE  /\ BestAmong(RoutesFor({n \in C : MaskOf(n) = mask}), Lookup(o, bits, mask))
               /\ AllPaths(o, bits, mask) = RoutesFor({n \in C : MaskOf(n) = mask})
    BY <2>1, ExactReads
  <2> HIDE DEF C, longest, exact
  <2>7. BestAmong(longest, Search(o, bits)) /\ (Indexed(o) => AllPathsSearch(o, bits) = longest)
    BY <2>3, <2>5
  <2>8. ASSUME NEW mask
        PROVE  BestAmong(exact(mask), Lookup(o, bits, mask)) /\ AllPaths(o, bits, mask) = exact(mask)
    BY <2>4, <2>6
  <2> QED BY <2>7, <2>8 DEF longest, exact
<1> QED BY <1>1, TrieStays, PTL

(* A sequence of a finite set has every element of it once. *)
LEMMA SequencesOfSet ==
  ASSUME NEW S, IsFiniteSet(S), S # {}, NEW f \in SetToSeqs(S)
  PROVE  f \in Seq(S) /\ f # <<>> /\ ToSet(f) = S
<1> DEFINE N == Cardinality(S)
<1>1. N \in Nat /\ N # 0
  BY FS_CardinalityType, FS_EmptySet
<1>2. f \in [1..N -> S] /\ \A i, j \in 1..N : i # j => f[i] # f[j]
  BY DEF SetToSeqs
<1> HIDE DEF N
<1>3. f \in Seq(S) /\ Len(f) = N /\ DOMAIN f = 1..N
  BY <1>1, <1>2
<1>4. f # <<>>
  BY <1>1, <1>3
<1>5. f \in Injection(1..N, S)
  BY <1>2 DEF Injection, IsInjective
<1>6. Cardinality(1..N) = N
  BY <1>1, FS_Interval
<1>7. f \in Surjection(1..N, S)
  BY <1>5, <1>6, FS_Injection DEF N
<1>8. \A s \in S : \E i \in 1..N : f[i] = s
  BY <1>7 DEF Surjection
<1>9. ToSet(f) = S
  BY <1>2, <1>3, <1>8 DEF ToSet
<1> QED BY <1>3, <1>4, <1>9

(* There are as many routes of a node as it has paths. *)
LEMMA RoutesFinite ==
  ASSUME Sound(trie), NEW n \in DOMAIN trie
  PROVE  IsFiniteSet(nodeToRoutes(n))
<1> DEFINE N == trie[n]
           k == pathsCount(N)
           f == [i \in 1..k |-> RouteOn(n, allPaths(N)[i])]
<1>1. N \in Node
  BY DEF Sound, Tidy
<1>2. k \in Nat /\ Entries(N) = {allPaths(N)[i] : i \in 1..k}
  BY <1>1, PathsOf, EntriesOf
<1>3. nodeToRoutes(n) = {RouteOn(n, e) : e \in Entries(N)}
  BY RoutesAre
<1> HIDE DEF N, k
<1>4. nodeToRoutes(n) = {f[i] : i \in 1..k}
  BY <1>2, <1>3
<1>5. f \in Surjection(1..k, nodeToRoutes(n))
  BY <1>4 DEF Surjection
<1>6. IsFiniteSet(1..k)
  BY <1>2, FS_Interval
<1> QED BY <1>5, <1>6, FS_Surjection

(* SelectBest (types.go) puts the same route first as bestPathWithID does:   *)
(* the rules are written down twice, for nodes and for lists of routes, and  *)
(* agree in whatever order the list is and whether it holds nil or not.      *)
THEOREM BestAgreed == Spec => []SelectBestAgrees
<1>1. IInv => SelectBestAgrees
  <2> SUFFICES ASSUME IInv, NEW n \in Routed,
                      NEW bare, bare = [prefix |-> n, attrs |-> NoAttr, pathID |-> 0,
                                        stale |-> FALSE],
                      NEW extra \in SUBSET {bare},
                      NEW routes \in SetToSeqs(nodeToRoutes(n) \union extra)
               PROVE  SelectBest(routes) = RouteAt(n)
    BY DEF SelectBestAgrees
  <2> DEFINE R == nodeToRoutes(n)
             S == R \union extra
             first == RouteAt(n)
             best == SelectBest(routes)
  <2>1. Sound(trie) /\ n \in DOMAIN trie
    BY DEF IInv, TrieInv, Routed
  <2>2. first \in R /\ \A other \in R \ {first} : Preferred(first, other)
    BY <2>1, RouteIsBest
  <2>3. \A r \in R : Ranked(r)
    <3>1. \A e \in Entries(trie[n]) : e \in PathEntry
      <4>1. trie[n] \in Node
        BY <2>1 DEF Sound, Tidy
      <4> QED BY <4>1, PathsOf, EntriesOf, ElementOfSeq
    <3>2. R = {RouteOn(n, e) : e \in Entries(trie[n])}
      BY <2>1, RoutesAre
    <3> QED BY <3>1, <3>2 DEF RouteOn, PathEntry, Ranked
  <2>4. \A r \in extra : r.attrs = NoAttr
    OBVIOUS
  <2>5. IsFiniteSet(S)
    <3>1. IsFiniteSet(R) /\ IsFiniteSet({bare})
      BY <2>1, RoutesFinite, FS_Singleton
    <3>2. IsFiniteSet(extra)
      BY <3>1, FS_Subset
    <3> QED BY <3>1, <3>2, FS_Union
  <2>6. routes \in Seq(S) /\ routes # <<>> /\ ToSet(routes) = S
    <3>1. S # {} /\ routes \in SetToSeqs(S)
      BY <2>2
    <3> HIDE DEF S
    <3> QED BY ONLY <2>5, <3>1, SequencesOfSet
  <2> HIDE DEF R, first
  <2>7. \A r \in S : r.attrs = NoAttr \/ Ranked(r)
    BY <2>3, <2>4
  <2> HIDE DEF S
  <2>8. /\ best \in S
        /\ \A r \in S : r.attrs # NoAttr => best.attrs # NoAttr /\ ~Preferred(r, best)
    BY <2>6, <2>7, SelectExact
  <2> HIDE DEF best
  <2>9. \A r \in R : r \in S /\ r.attrs # NoAttr
    BY <2>3, PathAttrAssumption DEF S, Ranked
  <2>10. best \in R
    BY <2>2, <2>4, <2>8, <2>9 DEF S
  <2>11. ~Preferred(first, best)
    BY <2>2, <2>8, <2>9
  <2>12. best = first
    BY <2>2, <2>10, <2>11
  <2> QED BY <2>12 DEF best, first
<1> QED BY <1>1, TrieStays, PTL

-----------------------------------------------------------------------------
(* Queries by regular expression *)

Route == [prefix : NodeId, attrs : Attr, pathID : Nat, stale : BOOLEAN]

(* The walkers append the routes of a node, each once. *)
LEMMA RoutesListed ==
  ASSUME Sound(trie), NEW n \in DOMAIN trie
  PROVE  Lists([i \in DOMAIN allPaths(trie[n]) |-> RouteOn(n, allPaths(trie[n])[i])],
               nodeToRoutes(n), Route)
<1> DEFINE N == trie[n]
           k == pathsCount(N)
           s == [i \in DOMAIN allPaths(N) |-> RouteOn(n, allPaths(N)[i])]
<1>1. N \in Tidy /\ N \in Node /\ n \in NodeId
  BY DEF Sound, Tidy
<1>2. /\ k \in Nat /\ DOMAIN allPaths(N) = 1..k
      /\ Entries(N) = {allPaths(N)[i] : i \in 1..k}
      /\ \A i \in 1..k : allPaths(N)[i] \in PathEntry
      /\ \A i, j \in 1..k : allPaths(N)[i].pathID = allPaths(N)[j].pathID => i = j
  BY <1>1, PathsOf, EntriesOf, ElementOfSeq, UniqueIDsOf DEF Tidy
<1>3. nodeToRoutes(n) = {RouteOn(n, e) : e \in Entries(N)}
  BY RoutesAre
<1> HIDE DEF N, k
<1>4. s = [i \in 1..k |-> RouteOn(n, allPaths(N)[i])]
  BY <1>2
<1> HIDE DEF s
<1>5. \A i \in 1..k : s[i] = RouteOn(n, allPaths(N)[i]) /\ s[i] \in Route
  BY <1>1, <1>2, <1>4 DEF RouteOn, Route, PathEntry
<1>6. s \in Seq(Route) /\ DOMAIN s = 1..k
  BY <1>2, <1>4, <1>5
<1>7. ToSet(s) = nodeToRoutes(n)
  BY <1>2, <1>3, <1>5, <1>6 DEF ToSet
<1>8. IsInjective(s)
  <2>1. \A e, f : RouteOn(n, e) = RouteOn(n, f) => e.pathID = f.pathID
    BY DEF RouteOn
  <2> QED BY <1>2, <1>5, <1>6, <2>1 DEF IsInjective
<1> QED BY <1>6, <1>7, <1>8 DEF Lists, s, N

(* A walk comes by every route in reach once. *)
LEMMA WalkedRoutesAre ==
  ASSUME Sound(trie)
  PROVE  Lists(WalkedRoutes, UNION {nodeToRoutes(n) : n \in AllPrefixes}, Route)
<1> DEFINE routes(n) == [i \in DOMAIN allPaths(trie[n]) |-> RouteOn(n, allPaths(trie[n])[i])]
           W == WalkOrder
           seqs == [i \in DOMAIN W |-> IF W[i] \in AllPrefixes THEN routes(W[i]) ELSE <<>>]
           c == Len(W)
<1>1. WalkedRoutes = FlattenSeq(seqs)
  BY Zenon DEF WalkedRoutes, RouteOn
<1>2. W \in Seq(NodeId) /\ ToSet(W) = NodeId /\ IsInjective(W)
  BY WalkOrderIs DEF Lists
<1>3. c \in Nat /\ DOMAIN W = 1..c
  BY <1>2, LenProperties
<1>4. AllPrefixes \subseteq DOMAIN trie /\ AllPrefixes \subseteq NodeId
  BY DEF AllPrefixes, Visited, Sound
<1>5. \A n \in AllPrefixes : Lists(routes(n), nodeToRoutes(n), Route)
  BY <1>4, RoutesListed
<1>6. Lists(<<>>, {}, Route)
  <2>1. <<>> \in Seq(Route) /\ DOMAIN <<>> = {}
    BY EmptySeq
  <2> QED BY <2>1 DEF Lists, ToSet, IsInjective
<1> DEFINE set(i) == IF W[i] \in AllPrefixes THEN nodeToRoutes(W[i]) ELSE {}
<1> HIDE DEF routes
<1>7. \A i \in 1..c : Lists(seqs[i], set(i), Route)
  BY <1>3, <1>5, <1>6
<1>8. seqs \in Seq(Seq(Route)) /\ DOMAIN seqs = 1..c
  <2>1. seqs = [i \in 1..c |-> seqs[i]]
    BY <1>3
  <2> HIDE DEF seqs
  <2>2. seqs \in [1..c -> Seq(Route)]
    BY <1>7, <2>1 DEF Lists
  <2>3. \A k \in Nat : seqs \in [1..k -> Seq(Route)] =>
          seqs \in Seq(Seq(Route)) /\ DOMAIN seqs = 1..k
    OBVIOUS
  <2> QED BY <1>3, <2>2, <2>3
<1>9. \A n \in AllPrefixes : \A r \in nodeToRoutes(n) : r.prefix = n
  BY DEF nodeToRoutes
<1> HIDE DEF W, seqs, c
<1>10. Apart(seqs)
  <2>1. \A i \in 1..c : IsInjective(seqs[i]) /\ ToSet(seqs[i]) = set(i)
    BY <1>7 DEF Lists
  <2>2. \A i, j \in 1..c : i # j => set(i) \intersect set(j) = {}
    <3> SUFFICES ASSUME NEW i \in 1..c, NEW j \in 1..c, i # j,
                        NEW r \in set(i), r \in set(j)
                 PROVE  FALSE
      OBVIOUS
    <3>1. W[i] \in AllPrefixes /\ W[j] \in AllPrefixes
      OBVIOUS
    <3>2. r.prefix = W[i] /\ r.prefix = W[j]
      BY <1>9, <3>1
    <3> QED BY <1>2, <1>3, <3>2 DEF IsInjective
  <2> HIDE DEF set
  <2> QED BY <1>8, <2>1, <2>2 DEF Apart
<1>11. UNION {ToSet(seqs[i]) : i \in DOMAIN seqs} = UNION {nodeToRoutes(n) : n \in AllPrefixes}
  <2>1. \A i \in 1..c : ToSet(seqs[i]) = set(i)
    BY <1>7 DEF Lists
  <2>2. \A n \in AllPrefixes : \E i \in 1..c : W[i] = n
    BY <1>2, <1>3, <1>4 DEF ToSet
  <2>3. \A r : (\E i \in 1..c : r \in set(i)) <=> (\E n \in AllPrefixes : r \in nodeToRoutes(n))
    BY <2>2
  <2> HIDE DEF set
  <2> QED BY <1>8, <2>1, <2>3
<1> QED BY <1>1, <1>8, <1>10, <1>11, FlattenApart DEF Lists

(* What a matcher may know: the answers for some attributes, and for the    *)
(* last one that it was asked for.                                           *)
Knowing(re, D, b) ==
  [memo |-> [a \in D |-> a \in re], last |-> b, lastOK |-> b \in re]

Matcher(re) ==
  {NewMatcher} \union {Knowing(re, D, b) : D \in SUBSET Attr, b \in Attr}

(* It answers as the expression does, however much of that it remembers     *)
(* (asPathMatcher.match).                                                    *)
LEMMA MatchIs ==
  ASSUME NEW re, NEW m \in Matcher(re), NEW a \in Attr
  PROVE  /\ match(m, re, a) \in Matcher(re)
         /\ match(m, re, a).lastOK <=> a \in re
<1>1. /\ \A D \in SUBSET Attr, b \in Attr : Knowing(re, D, b) \in Matcher(re)
      /\ m # NewMatcher => \E D \in SUBSET Attr, b \in Attr : m = Knowing(re, D, b)
  BY DEF Matcher
<1>2. CASE a = m.last
  <2>1. m # NewMatcher
    BY <1>2, PathAttrAssumption DEF NewMatcher
  <2>2. PICK D \in SUBSET Attr, b \in Attr : m = Knowing(re, D, b)
    BY <1>1, <2>1
  <2>3. m.last = b /\ (m.lastOK <=> b \in re)
    BY <2>2 DEF Knowing
  <2>4. match(m, re, a) = m
    BY <1>2, Zenon DEF match
  <2> QED BY <1>2, <2>3, <2>4
<1>3. CASE a # m.last
  <2>1. PICK D \in SUBSET Attr : m.memo = [x \in D |-> x \in re]
    <3>1. CASE m = NewMatcher
      <4>1. m.memo = [x \in {} |-> FALSE]
        BY <3>1, Zenon DEF NewMatcher
      <4>2. [x \in {} |-> FALSE] = [x \in {} |-> x \in re]
        OBVIOUS
      <4> QED BY <4>1, <4>2, Zenon
    <3>2. CASE m # NewMatcher
      <4>1. PICK D \in SUBSET Attr, b \in Attr : m = Knowing(re, D, b)
        BY <1>1, <3>2
      <4> QED BY <4>1, Zenon DEF Knowing
    <3> QED BY <3>1, <3>2
  <2> DEFINE ok == IF a \in DOMAIN m.memo THEN m.memo[a] ELSE a \in re
             memo == [x \in DOMAIN m.memo \union {a} |-> IF x = a THEN ok ELSE m.memo[x]]
             E == D \union {a}
  <2>2. DOMAIN m.memo = D /\ \A x \in D : m.memo[x] = (x \in re)
    BY <2>1
  <2>3. ok = (a \in re)
    BY <2>2
  <2>4. memo = [x \in E |-> x \in re]
    <3> HIDE DEF ok
    <3> QED BY <2>2, <2>3
  <2>5. match(m, re, a) = [memo |-> memo, last |-> a, lastOK |-> ok]
    BY <1>3, Zenon DEF match
  <2> HIDE DEF memo, ok
  <2>6. match(m, re, a) = Knowing(re, E, a)
    BY <2>3, <2>4, <2>5, Zenon DEF Knowing
  <2>7. E \in SUBSET Attr
    OBVIOUS
  <2> HIDE DEF E
  <2>8. match(m, re, a) \in Matcher(re)
    BY <1>1, <2>6, <2>7, Zenon
  <2>9. match(m, re, a).lastOK = ok
    BY <2>5
  <2> QED BY <2>3, <2>8, <2>9
<1> QED BY <1>2, <1>3

(* What a query does with one route. *)
Visit(re, acc, route) ==
  LET m == match(acc.matcher, re, route.attrs)
  IN [matcher |-> m, results |-> IF m.lastOK THEN Append(acc.results, route)
                                            ELSE acc.results]

(* The pass of PrefixesByAsPathRegex over the routes of the walk. *)
Querying(h, re, seq) ==
  [s \in SUBSET (DOMAIN seq) |->
     IF s = {} THEN [matcher |-> NewMatcher, results |-> <<>>]
     ELSE Visit(re, h[s \ {Max(s)}], seq[Max(s)])]

Accumulator(re) == [matcher : Matcher(re), results : Seq(Route)]

(* A visit appends the route if the expression matches its attributes. *)
LEMMA VisitIs ==
  ASSUME NEW re, NEW acc \in Accumulator(re), NEW route \in Route
  PROVE  /\ Visit(re, acc, route) \in Accumulator(re)
         /\ Visit(re, acc, route).results =
              IF route.attrs \in re THEN Append(acc.results, route) ELSE acc.results
<1> DEFINE m == match(acc.matcher, re, route.attrs)
           v == Visit(re, acc, route)
<1>1. acc.matcher \in Matcher(re) /\ acc.results \in Seq(Route) /\ route.attrs \in Attr
  BY DEF Accumulator, Route
<1>2. m \in Matcher(re) /\ (m.lastOK <=> route.attrs \in re)
  BY <1>1, MatchIs
<1>3. v = [matcher |-> m, results |-> IF m.lastOK THEN Append(acc.results, route)
                                                  ELSE acc.results]
  BY Zenon DEF Visit
<1>4. Append(acc.results, route) \in Seq(Route)
  BY <1>1, AppendProperties
<1> HIDE DEF m, v
<1>5. v \in Accumulator(re)
  BY <1>1, <1>2, <1>3, <1>4 DEF Accumulator
<1>6. v.results = IF route.attrs \in re THEN Append(acc.results, route) ELSE acc.results
  BY <1>2, <1>3
<1> QED BY <1>5, <1>6 DEF v

(* There is such a pass. *)
LEMMA QueryingExists ==
  ASSUME NEW re, NEW seq \in Seq(Route)
  PROVE  \E h : h = Querying(h, re, seq)
<1> DEFINE N == Len(seq)
           T == Accumulator(re)
           base == [matcher |-> NewMatcher, results |-> <<>>]
           step == [i \in 1..N |-> [acc \in T |-> Visit(re, acc, seq[i])]]
<1>1. N \in Nat /\ DOMAIN seq = 1..N /\ \A i \in 1..N : seq[i] \in Route
  BY LenProperties, ElementOfSeq
<1>2. base \in T
  <2>1. NewMatcher \in Matcher(re) /\ <<>> \in Seq(Route)
    BY EmptySeq DEF Matcher
  <2> QED BY <2>1 DEF Accumulator
<1>3. step \in [1..N -> [T -> T]]
  <2> HIDE DEF N
  <2>1. \A i \in 1..N, acc \in T : Visit(re, acc, seq[i]) \in T
    BY <1>1, VisitIs
  <2> HIDE DEF T
  <2> QED BY <2>1
<1> HIDE DEF step, base, T
<1>4. PICK g : Folds(g, N, T, base, step)
  <2> HIDE DEF N
  <2> QED BY <1>1, <1>2, <1>3, FoldExists
<1>5. \A s \in SUBSET (1..N) :
        g[s] = IF s = {} THEN base ELSE Visit(re, g[s \ {Max(s)}], seq[Max(s)])
  BY <1>4 DEF step, Folds
<1>6. g = [s \in SUBSET (1..N) |->
             IF s = {} THEN base ELSE Visit(re, g[s \ {Max(s)}], seq[Max(s)])]
  BY <1>4, <1>5 DEF Folds
<1>7. g = Querying(g, re, seq)
  BY <1>1, <1>6, Zenon DEF Querying, base
<1> QED BY <1>7

(* Without the new last element, a sequence had the others. *)
LEMMA AppendNew ==
  ASSUME NEW T, NEW S, NEW s, Lists(s, S, T), NEW x \in T, x \notin S
  PROVE  Lists(Append(s, x), S \union {x}, T)
<1>1. Lists(<<x>>, {x}, T) /\ S \intersect {x} = {}
  BY OneListed
<1>2. Lists(s \o <<x>>, S \union {x}, T)
  BY ONLY <1>1, Lists(s, S, T), ListsConcat
<1>3. Append(s, x) = s \o <<x>>
  BY AppendIsConcat DEF Lists
<1> QED BY <1>2, <1>3

(* A query by regular expression lists the routes of the walk that match.    *)
LEMMA QueryIs ==
  ASSUME NEW re, NEW S, Lists(WalkedRoutes, S, Route)
  PROVE  Lists(PrefixesByAsPathRegex(re), {r \in S : r.attrs \in re}, Route)
<1> DEFINE seq == WalkedRoutes
           N == Len(seq)
           fixed == CHOOSE h : h = Querying(h, re, seq)
<1>1. seq \in Seq(Route) /\ ToSet(seq) = S /\ IsInjective(seq)
  BY DEF Lists
<1>2. N \in Nat /\ DOMAIN seq = 1..N /\ \A i \in 1..N : seq[i] \in Route
  BY <1>1, LenProperties, ElementOfSeq
<1>3. fixed = Querying(fixed, re, seq)
  <2> HIDE DEF seq
  <2> QED BY <1>1, QueryingExists
<1>4. PrefixesByAsPathRegex(re) = fixed[1..N].results
  BY <1>2, Zenon DEF PrefixesByAsPathRegex, FoldLeft, MapThenFoldSet, Querying, Visit
<1> HIDE DEF seq, N, fixed
<1>5. fixed[{}] = [matcher |-> NewMatcher, results |-> <<>>]
  <2>1. {} \in SUBSET (DOMAIN seq)
    OBVIOUS
  <2> QED BY <1>3, <2>1 DEF Querying
<1>6. \A k \in 1..N : fixed[1..k] = Visit(re, fixed[1..(k - 1)], seq[k])
  <2> TAKE k \in 1..N
  <2>1. 1..k \in SUBSET (DOMAIN seq) /\ 1..k # {} /\ Max(1..k) = k
        /\ (1..k) \ {Max(1..k)} = 1..(k - 1)
    BY <1>2, FirstPositions
  <2>2. fixed[1..k] = Visit(re, fixed[(1..k) \ {Max(1..k)}], seq[Max(1..k)])
    BY <1>3, <2>1 DEF Querying
  <2> QED BY <2>1, <2>2
<1> DEFINE Match(k) == {seq[i] : i \in {j \in 1..k : seq[j].attrs \in re}}
           P == {k \in 0..N : /\ fixed[1..k] \in Accumulator(re)
                              /\ Lists(fixed[1..k].results, Match(k), Route)}
<1>7. 0 \in P
  <2>1. 1..0 = {} /\ 0 \in 0..N /\ Match(0) = {}
    BY <1>2
  <2>2. fixed[1..0].results = <<>> /\ fixed[1..0].matcher = NewMatcher
        /\ fixed[1..0] = [matcher |-> NewMatcher, results |-> <<>>]
    BY <1>5, <2>1
  <2>3. <<>> \in Seq(Route) /\ DOMAIN <<>> = {} /\ NewMatcher \in Matcher(re)
    BY EmptySeq DEF Matcher
  <2>4. fixed[1..0] \in Accumulator(re)
    BY <2>2, <2>3 DEF Accumulator
  <2>5. Lists(<<>>, {}, Route)
    BY <2>3 DEF Lists, ToSet, IsInjective
  <2> HIDE DEF Match
  <2> QED BY <2>1, <2>2, <2>4, <2>5
<1>8. ASSUME NEW k \in 1..N, k - 1 \in P
      PROVE  k \in P
  <2> DEFINE acc == fixed[1..(k - 1)]
             x == seq[k]
  <2>1. acc \in Accumulator(re) /\ Lists(acc.results, Match(k - 1), Route)
    BY <1>8
  <2>2. x \in Route /\ k \in 0..N /\ fixed[1..k] = Visit(re, acc, x)
    BY <1>2, <1>6
  <2>3. \A i \in 1..k : i = k \/ i \in 1..(k - 1)
    OBVIOUS
  <2>4. k \in 1..k /\ \A i \in 1..(k - 1) : i \in 1..k /\ i # k /\ i \in 1..N
    BY <1>2
  <2>5. x \notin Match(k - 1)
    <3>1. \A i \in 1..(k - 1) : seq[i] # seq[k]
      BY <1>1, <1>2, <2>4 DEF IsInjective
    <3> QED BY <3>1
  <2>6. Match(k) = IF x.attrs \in re THEN Match(k - 1) \union {x} ELSE Match(k - 1)
    <3>1. Match(k - 1) \subseteq Match(k)
      BY <2>4
    <3>2. x.attrs \in re => x \in Match(k)
      BY <2>4
    <3>3. \A r \in Match(k) : r \in Match(k - 1) \/ (r = x /\ x.attrs \in re)
      BY <2>3
    <3> HIDE DEF Match, x
    <3> QED BY <3>1, <3>2, <3>3
  <2> HIDE DEF Match, acc, x
  <2>7. /\ fixed[1..k] \in Accumulator(re)
        /\ fixed[1..k].results = IF x.attrs \in re THEN Append(acc.results, x) ELSE acc.results
    BY <2>1, <2>2, VisitIs
  <2>8. x.attrs \in re => Lists(Append(acc.results, x), Match(k - 1) \union {x}, Route)
    BY <2>1, <2>2, <2>5, AppendNew
  <2>9. Lists(fixed[1..k].results, Match(k), Route)
    BY <2>1, <2>6, <2>7, <2>8
  <2> QED BY <2>2, <2>7, <2>9
<1>9. N \in P
  <2> HIDE DEF P
  <2>1. \A k \in 0..N : k \in P
    BY <1>2, <1>7, <1>8, IntervalInduct
  <2> QED BY <1>2, <2>1
<1>10. Match(N) = {r \in S : r.attrs \in re}
  <2>1. S = {seq[i] : i \in 1..N}
    BY <1>1, <1>2 DEF ToSet
  <2> QED BY <2>1
<1> HIDE DEF Match
<1> QED BY <1>4, <1>9, <1>10

(* A query by regular expression returns each route once whose attributes    *)
(* match, although the matcher asks the expression only once for each        *)
(* attributes (PrefixesByAsPathRegex, asPathMatcher).                        *)
THEOREM QueriesAreExact == Spec => []RegexExact
<1>1. IInv => RegexExact
  <2> SUFFICES ASSUME IInv, NEW re \in SUBSET Attr
               PROVE  /\ ToSet(PrefixesByAsPathRegex(re)) = prefixesMatching(re)
                      /\ IsInjective(PrefixesByAsPathRegex(re))
    BY DEF RegexExact
  <2> DEFINE S == UNION {nodeToRoutes(n) : n \in AllPrefixes}
  <2>1. Lists(WalkedRoutes, S, Route)
    BY WalkedRoutesAre DEF IInv, TrieInv
  <2>2. prefixesMatching(re) = {r \in S : r.attrs \in re}
    BY DEF prefixesMatching
  <2> HIDE DEF S
  <2>3. Lists(PrefixesByAsPathRegex(re), {r \in S : r.attrs \in re}, Route)
    BY <2>1, QueryIs
  <2> QED BY <2>2, <2>3 DEF Lists
<1> QED BY <1>1, TrieStays, PTL
=============================================================================
