------------------------ MODULE GracefulRestart_proofs ------------------------
(***************************************************************************)
(* What a graceful restart promises: a path is fresh exactly if the peer   *)
(* has announced it since the mark, the sweep takes away all others and    *)
(* none of these, and meanwhile no prefix has more paths than the peer has *)
(* ever meant it to have.                                                  *)
(***************************************************************************)
EXTENDS GracefulRestart, RibTrie_proofs

-----------------------------------------------------------------------------
(* Paths as sets *)

(* The number of a node's paths is that of their path IDs. *)
LEMMA CountIsOfIDs ==
  ASSUME NEW n \in Tidy
  PROVE  /\ IsFiniteSet(Entries(n)) /\ pathsCount(n) = Cardinality(Entries(n))
         /\ pathsCount(n) = Cardinality({e.pathID : e \in Entries(n)})
<1> DEFINE c == pathsCount(n)
           p == allPaths(n)
           ids == {e.pathID : e \in Entries(n)}
           f == [i \in 1..c |-> p[i]]
           g == [i \in 1..c |-> p[i].pathID]
<1>1. c \in Nat /\ Entries(n) = {p[i] : i \in 1..c}
      /\ \A i, j \in 1..c : p[i].pathID = p[j].pathID => i = j
  BY PathsOf, EntriesOf, UniqueIDsOf DEF Tidy
<1> HIDE DEF c, p
<1>2. f \in Bijection(1..c, Entries(n))
  <2>1. f \in [1..c -> Entries(n)]
    BY <1>1
  <2>2. \A i, j \in 1..c : f[i] = f[j] => i = j
    BY <1>1
  <2>3. \A e \in Entries(n) : \E i \in 1..c : f[i] = e
    BY <1>1
  <2> HIDE DEF f
  <2>4. f \in Injection(1..c, Entries(n))
    BY <2>1, <2>2, Fun_IsInj
  <2>5. f \in Surjection(1..c, Entries(n))
    BY <2>1, <2>3, Fun_IsSurj
  <2> QED BY <2>4, <2>5 DEF Bijection
<1>3. g \in Bijection(1..c, ids)
  <2>1. g \in [1..c -> ids]
    BY <1>1
  <2>2. \A i, j \in 1..c : g[i] = g[j] => i = j
    BY <1>1
  <2>3. \A id \in ids : \E i \in 1..c : g[i] = id
    <3> TAKE id \in ids
    <3>1. PICK e \in Entries(n) : id = e.pathID
      OBVIOUS
    <3>2. PICK i \in 1..c : e = p[i]
      BY <1>1
    <3> QED BY <3>1, <3>2
  <2> HIDE DEF g, ids
  <2>4. g \in Injection(1..c, ids)
    BY <2>1, <2>2, Fun_IsInj
  <2>5. g \in Surjection(1..c, ids)
    BY <2>1, <2>3, Fun_IsSurj
  <2> QED BY <2>4, <2>5 DEF Bijection
<1> HIDE DEF f, g, ids
<1>4. IsFiniteSet(1..c) /\ Cardinality(1..c) = c
  <2>1. IsFiniteSet(1..c) /\ Cardinality(1..c) = IF 1 > c THEN 0 ELSE c - 1 + 1
    BY <1>1, FS_Interval
  <2> QED BY <1>1, <2>1
<1>5. /\ IsFiniteSet(Entries(n)) /\ Cardinality(Entries(n)) = c
      /\ Cardinality(ids) = c
  <2>1. ExistsBijection(1..c, Entries(n)) /\ ExistsBijection(1..c, ids)
    BY <1>2, <1>3 DEF ExistsBijection
  <2> QED BY <1>4, <2>1, FS_Bijection
<1> QED BY <1>5 DEF c, ids

(* The paths of a sound trie, prefix by prefix. *)
LEMMA PathsAtShape ==
  ASSUME NEW T, Sound(T), NEW n
  PROVE  /\ IsFiniteSet(PathsAt(T, n))
         /\ \A e, f \in PathsAt(T, n) : e.pathID = f.pathID => e = f
         /\ \A e \in PathsAt(T, n) : e.pathID \in PathID
         /\ n \in DOMAIN T => /\ pathsCount(T[n]) = Cardinality(PathsAt(T, n))
                              /\ pathsCount(T[n])
                                   = Cardinality({e.pathID : e \in PathsAt(T, n)})
<1>1. CASE n \in DOMAIN T
  <2>1. T[n] \in Tidy /\ PathsAt(T, n) = Entries(T[n])
        /\ \A e \in Entries(T[n]) : e.pathID \in PathID
    BY <1>1 DEF Sound, PathsAt
  <2> DEFINE x == T[n]
  <2>2. /\ IsFiniteSet(Entries(x)) /\ pathsCount(x) = Cardinality(Entries(x))
        /\ pathsCount(x) = Cardinality({e.pathID : e \in Entries(x)})
        /\ \A e, f \in Entries(x) : e.pathID = f.pathID => e = f
    <3>1. x \in Tidy
      BY <2>1
    <3> HIDE DEF x
    <3> QED BY <3>1, OnePathPerID, CountIsOfIDs
  <2>3. {e.pathID : e \in PathsAt(T, n)} = {e.pathID : e \in Entries(x)}
    BY <2>1
  <2> QED BY <2>1, <2>2, <2>3
<1>2. CASE n \notin DOMAIN T
  <2>1. PathsAt(T, n) = {}
    BY <1>2 DEF PathsAt
  <2> QED BY <1>2, <2>1, FS_EmptySet
<1> QED BY <1>1, <1>2

-----------------------------------------------------------------------------
(* The inductive invariant.  A prefix that has more paths than at the mark   *)
(* has no stale path: setPath adds a path only when there is none to reuse.  *)

FreshPairs(T) ==
  {l \in NodeId \X PathID : \E e \in PathsAt(T, l[1]) : e.pathID = l[2] /\ ~e.stale}

AllFresh(T, n) == \A e \in PathsAt(T, n) : ~e.stale

NotDoubled(T, was) ==
  \A n \in NodeId : AllFresh(T, n) \/ Cardinality(PathsAt(T, n)) <= was[n]

GRInv ==
  /\ TrieInv
  /\ fresh = FreshPairs(trie)
  /\ atMark \in [NodeId -> Nat]
  /\ NotDoubled(trie, atMark)

-----------------------------------------------------------------------------
(* What each write does to fresh paths and to the number of paths *)

(* One path in the place of another, or of none. *)
LEMMA CardinalityOfSwap ==
  ASSUME NEW P, IsFiniteSet(P), NEW old \in P, NEW new, new \notin P \ {old}
  PROVE  Cardinality((P \ {old}) \union {new}) = Cardinality(P)
<1>1. IsFiniteSet(P \ {old}) /\ Cardinality(P \ {old}) = Cardinality(P) - 1
  BY FS_RemoveElement
<1>2. Cardinality((P \ {old}) \union {new}) = Cardinality(P \ {old}) + 1
  BY <1>1, FS_AddElement
<1>3. Cardinality(P) \in Nat
  BY FS_CardinalityType
<1> QED BY <1>1, <1>2, <1>3

(* An announcement makes one path fresh, at the cost of no other fresh one,  *)
(* and adds one only to a prefix that has no stale path.                     *)
LEMMA InsertIsFresh ==
  ASSUME TrieInv, NotDoubled(trie, atMark), atMark \in [NodeId -> Nat],
         NEW o \in Octet, NEW bits \in Bits(Depth), NEW mask, NEW id \in PathID,
         NEW a \in Attr, insertUnlocked(o, bits, mask, id, a)
  PROVE  /\ TrieInv'
         /\ FreshPairs(trie') = FreshPairs(trie) \union {<<Anc(o, bits, mask - MinMask), id>>}
         /\ NotDoubled(trie', atMark)
<1> DEFINE n == Anc(o, bits, mask - MinMask)
           P == PathsAt(trie, n)
           Q == PathsAt(trie', n)
           same == {e \in P : e.pathID = id}
           candidates == IF same # {} THEN same ELSE {e \in P : e.stale}
           new == Entry(id, a, FALSE)
<1>1. TrieInv' /\ n \in NodeId /\ \E reuse : Announced(n, id, a, reuse)
  BY InsertKeeps
<1> HIDE DEF n
<1>2. PICK reuse :
        /\ \A m : m # n => PathsAt(trie', m) = PathsAt(trie, m)
        /\ \/ /\ reuse \in candidates
              /\ Q = (P \ {reuse}) \union {new}
           \/ /\ candidates = {}
              /\ Q = P \union {new}
  BY <1>1 DEF Announced
<1>3. new.pathID = id /\ ~new.stale
  BY DEF Entry
<1> HIDE DEF new, P, Q
<1>4. IsFiniteSet(P) /\ \A e, f \in P : e.pathID = f.pathID => e = f
  BY PathsAtShape DEF TrieInv, P
<1>5. \A i : (\E e \in Q : e.pathID = i /\ ~e.stale)
               <=> (i = id \/ \E e \in P : e.pathID = i /\ ~e.stale)
  BY <1>2, <1>3
<1>6. FreshPairs(trie') = FreshPairs(trie) \union {<<n, id>>}
  <2>1. ASSUME NEW l \in NodeId \X PathID
        PROVE  l \in FreshPairs(trie') <=> l \in FreshPairs(trie) \/ l = <<n, id>>
    <3>1. l = <<l[1], l[2]>>
      OBVIOUS
    <3>2. CASE l[1] = n
      <4>1. l \in FreshPairs(trie') <=> \E e \in Q : e.pathID = l[2] /\ ~e.stale
        BY <3>2 DEF FreshPairs, Q
      <4>2. l \in FreshPairs(trie) <=> \E e \in P : e.pathID = l[2] /\ ~e.stale
        BY <3>2 DEF FreshPairs, P
      <4>3. l = <<n, id>> <=> l[2] = id
        BY <3>1, <3>2
      <4> QED BY <1>5, <4>1, <4>2, <4>3
    <3>3. CASE l[1] # n
      <4>1. PathsAt(trie', l[1]) = PathsAt(trie, l[1]) /\ l # <<n, id>>
        BY <1>2, <3>3
      <4> QED BY <4>1 DEF FreshPairs
    <3> QED BY <3>2, <3>3
  <2>2. <<n, id>> \in NodeId \X PathID
    BY <1>1
  <2> QED BY <2>1, <2>2 DEF FreshPairs
<1>7. NotDoubled(trie', atMark)
  <2> SUFFICES ASSUME NEW m \in NodeId
               PROVE  AllFresh(trie', m) \/ Cardinality(PathsAt(trie', m)) <= atMark[m]
    BY DEF NotDoubled
  <2>0. AllFresh(trie, m) \/ Cardinality(PathsAt(trie, m)) <= atMark[m]
    BY DEF NotDoubled
  <2>1. CASE m # n
    <3>1. PathsAt(trie', m) = PathsAt(trie, m)
      BY <1>2, <2>1
    <3> QED BY <2>0, <3>1 DEF AllFresh
  <2>2. CASE m = n /\ candidates = {}
    <3>1. \A e \in P : ~e.stale
      BY <2>2
    <3>2. Q \subseteq P \union {new}
      BY <1>2
    <3>3. \A e \in Q : ~e.stale
      BY <1>3, <3>1, <3>2
    <3> QED BY <2>2, <3>3 DEF AllFresh, Q
  <2>3. CASE m = n /\ candidates # {}
    <3>1. reuse \in candidates /\ reuse \in P /\ Q = (P \ {reuse}) \union {new}
      BY <1>2, <2>3
    <3>2. new \notin P \ {reuse}
      BY <1>3, <1>4, <3>1
    <3>3. Cardinality(Q) = Cardinality(P)
      BY <1>4, <3>1, <3>2, CardinalityOfSwap
    <3>4. (\A e \in P : ~e.stale) => \A e \in Q : ~e.stale
      BY <1>3, <3>1
    <3> QED BY <2>0, <2>3, <3>3, <3>4 DEF AllFresh, P, Q
  <2> QED BY <2>1, <2>2, <2>3
<1> QED BY <1>1, <1>6, <1>7 DEF n

(* A withdrawal takes away the path of its path ID, fresh or not. *)
LEMMA DeleteIsFresh ==
  ASSUME TrieInv, NotDoubled(trie, atMark), atMark \in [NodeId -> Nat],
         NEW o \in Octet, NEW bits \in Bits(Depth), NEW mask, NEW id \in PathID,
         deleteUnlocked(o, bits, mask, id)
  PROVE  /\ TrieInv'
         /\ FreshPairs(trie') = FreshPairs(trie) \ {<<Anc(o, bits, mask - MinMask), id>>}
         /\ NotDoubled(trie', atMark)
<1> DEFINE n == Anc(o, bits, mask - MinMask)
           P == PathsAt(trie, n)
           Q == PathsAt(trie', n)
<1>1. TrieInv' /\ n \in NodeId /\ Withdrawn(n, id)
  BY DeleteKeeps
<1> HIDE DEF n
<1>2. PICK e \in P : /\ \A m : m # n => PathsAt(trie', m) = PathsAt(trie, m)
                     /\ e.pathID = id /\ Q = P \ {e}
  BY <1>1 DEF Withdrawn
<1> HIDE DEF P, Q
<1>3. IsFiniteSet(P) /\ \A f, g \in P : f.pathID = g.pathID => f = g
  BY PathsAtShape DEF TrieInv, P
<1>4. \A i : (\E f \in Q : f.pathID = i /\ ~f.stale)
               <=> (i # id /\ \E f \in P : f.pathID = i /\ ~f.stale)
  BY <1>2, <1>3
<1>5. FreshPairs(trie') = FreshPairs(trie) \ {<<n, id>>}
  <2>1. ASSUME NEW l \in NodeId \X PathID
        PROVE  l \in FreshPairs(trie') <=> l \in FreshPairs(trie) /\ l # <<n, id>>
    <3>1. l = <<l[1], l[2]>>
      OBVIOUS
    <3>2. CASE l[1] = n
      <4>1. l \in FreshPairs(trie') <=> \E f \in Q : f.pathID = l[2] /\ ~f.stale
        BY <3>2 DEF FreshPairs, Q
      <4>2. l \in FreshPairs(trie) <=> \E f \in P : f.pathID = l[2] /\ ~f.stale
        BY <3>2 DEF FreshPairs, P
      <4>3. l = <<n, id>> <=> l[2] = id
        BY <3>1, <3>2
      <4> QED BY <1>4, <4>1, <4>2, <4>3
    <3>3. CASE l[1] # n
      <4>1. PathsAt(trie', l[1]) = PathsAt(trie, l[1]) /\ l # <<n, id>>
        BY <1>2, <3>3
      <4> QED BY <4>1 DEF FreshPairs
    <3> QED BY <3>2, <3>3
  <2> QED BY <2>1 DEF FreshPairs
<1>6. NotDoubled(trie', atMark)
  <2> SUFFICES ASSUME NEW m \in NodeId
               PROVE  AllFresh(trie', m) \/ Cardinality(PathsAt(trie', m)) <= atMark[m]
    BY DEF NotDoubled
  <2>0. AllFresh(trie, m) \/ Cardinality(PathsAt(trie, m)) <= atMark[m]
    BY DEF NotDoubled
  <2>1. CASE m # n
    <3>1. PathsAt(trie', m) = PathsAt(trie, m)
      BY <1>2, <2>1
    <3> QED BY <2>0, <3>1 DEF AllFresh
  <2>2. CASE m = n
    <3>1. Cardinality(Q) = Cardinality(P) - 1 /\ Cardinality(P) \in Nat
      BY <1>2, <1>3, FS_RemoveElement, FS_CardinalityType
    <3>2. (\A f \in P : ~f.stale) => \A f \in Q : ~f.stale
      BY <1>2
    <3>3. atMark[m] \in Nat
      OBVIOUS
    <3>4. CASE AllFresh(trie, m)
      BY <2>2, <3>2, <3>4 DEF AllFresh, P, Q
    <3>5. CASE Cardinality(P) <= atMark[m]
      <4>1. Cardinality(Q) <= atMark[m]
        BY <3>1, <3>3, <3>5
      <4> QED BY <2>2, <4>1 DEF Q
    <3> QED BY <2>0, <2>2, <3>4, <3>5 DEF P
  <2> QED BY <2>1, <2>2
<1> QED BY <1>1, <1>5, <1>6 DEF n

-----------------------------------------------------------------------------
(* The inductive invariant, step by step *)

(* An empty RIB. *)
LEMMA NothingIsFresh ==
  ASSUME NEW T, \A n : PathsAt(T, n) = {}
  PROVE  FreshPairs(T) = {} /\ \A was : NotDoubled(T, was)
BY DEF FreshPairs, NotDoubled, AllFresh

(* The invariant holds of the empty RIB. *)
LEMMA GRInitHolds == GRInit => GRInv
<1> SUFFICES ASSUME GRInit
             PROVE  GRInv
  OBVIOUS
<1>1. Init /\ fresh = {} /\ atMark = PathsNow
  BY DEF GRInit
<1>2. TrieInv
  BY <1>1, InitHolds DEF IInv
<1>3. trie = [n \in {} |-> EmptyNode]
  BY <1>1 DEF Init
<1>4. DOMAIN trie = {}
  BY <1>3
<1>5. \A n : PathsAt(trie, n) = {}
  BY <1>4 DEF PathsAt
<1>6. PathsNow \in [NodeId -> Nat]
  BY <1>4 DEF PathsNow
<1> QED BY <1>1, <1>2, <1>5, <1>6, NothingIsFresh DEF GRInv

(* The mark: no path is fresh, and the present numbers are taken down. *)
LEMMA MarkIsFresh ==
  ASSUME TrieInv, MarkAllStale
  PROVE  /\ TrieInv' /\ FreshPairs(trie') = {}
         /\ PathsNow \in [NodeId -> Nat] /\ NotDoubled(trie', PathsNow)
<1>1. /\ TrieInv' /\ Staling /\ DOMAIN trie' = DOMAIN trie
      /\ \A n \in DOMAIN trie : pathsCount(trie'[n]) = pathsCount(trie[n])
  BY MarkKeeps
<1>2. Sound(trie) /\ Sound(trie')
  BY <1>1 DEF TrieInv
<1>3. \A n : \A e \in PathsAt(trie', n) : e.stale
  <2> TAKE n
  <2> TAKE e \in PathsAt(trie', n)
  <2>0. PathsAt(trie', n) = {Entry(f.pathID, f.attrs, TRUE) : f \in PathsAt(trie, n)}
    BY <1>1 DEF Staling
  <2>1. PICK f \in PathsAt(trie, n) : e = Entry(f.pathID, f.attrs, TRUE)
    BY <2>0, Zenon
  <2>2. e.stale = TRUE
    BY ONLY <2>1 DEF Entry
  <2> QED BY ONLY <2>2
<1>4. FreshPairs(trie') = {}
  BY <1>3 DEF FreshPairs
<1>5. PathsNow \in [NodeId -> Nat]
  <2>1. \A n \in DOMAIN trie : pathsCount(trie[n]) \in Nat
    <3>1. \A n \in DOMAIN trie : trie[n] \in Tidy
      BY <1>2 DEF Sound
    <3> QED BY <3>1, NodeHolds
  <2> QED BY <2>1 DEF PathsNow
<1>6. ASSUME NEW n \in NodeId
      PROVE  Cardinality(PathsAt(trie', n)) <= PathsNow[n]
  <2>1. CASE n \in DOMAIN trie
    <3>1. pathsCount(trie'[n]) = Cardinality(PathsAt(trie', n))
      BY <1>1, <1>2, <2>1, PathsAtShape
    <3>2. PathsNow[n] = pathsCount(trie[n]) /\ PathsNow[n] \in Nat
      BY <1>5, <2>1 DEF PathsNow
    <3>3. Cardinality(PathsAt(trie', n)) = PathsNow[n]
      BY <1>1, <2>1, <3>1, <3>2
    <3> QED BY <3>2, <3>3
  <2>2. CASE n \notin DOMAIN trie
    <3>1. PathsAt(trie', n) = {}
      BY <1>1, <2>2 DEF PathsAt
    <3>2. Cardinality(PathsAt(trie', n)) = 0 /\ PathsNow[n] \in Nat
      BY <1>5, <3>1, FS_EmptySet
    <3> QED BY <3>2
  <2> QED BY <2>1, <2>2
<1>7. NotDoubled(trie', PathsNow)
  BY <1>6 DEF NotDoubled
<1> QED BY <1>1, <1>4, <1>5, <1>7

(* The sweep: what was fresh is all there is. *)
LEMMA SweepIsFresh ==
  ASSUME TrieInv, DeleteStaleRoutes
  PROVE  /\ TrieInv' /\ FreshPairs(trie') = FreshPairs(trie)
         /\ \A was : NotDoubled(trie', was)
<1>1. TrieInv' /\ \A n : PathsAt(trie', n) = {e \in PathsAt(trie, n) : ~e.stale}
  BY SweepKeeps DEF Sweeps, FreshOf
<1>2. FreshPairs(trie') = FreshPairs(trie)
  BY <1>1 DEF FreshPairs
<1>3. \A n : AllFresh(trie', n)
  BY <1>1 DEF AllFresh
<1> QED BY <1>1, <1>2, <1>3 DEF NotDoubled

(* Every write of the RIB keeps the invariant. *)
LEMMA GRNextKeeps == GRInv /\ [GRNext]_grVars => GRInv'
<1> SUFFICES ASSUME GRInv, [GRNext]_grVars
             PROVE  GRInv'
  OBVIOUS
<1>1. /\ TrieInv /\ fresh = FreshPairs(trie)
      /\ atMark \in [NodeId -> Nat] /\ NotDoubled(trie, atMark)
  BY DEF GRInv
<1>2. [n \in NodeId |-> 0] \in [NodeId -> Nat]
  OBVIOUS
<1>3. CASE GRInsert
  <2>1. PICK o \in Octet, bits \in Bits(Depth), mask \in MinMask .. MaxMask,
             id \in PathID, a \in Attr :
          /\ insertUnlocked(o, bits, mask, id, a)
          /\ fresh' = fresh \union {<<Anc(o, bits, mask - MinMask), id>>}
          /\ atMark' = atMark
    BY <1>3 DEF GRInsert
  <2>2. /\ TrieInv'
        /\ FreshPairs(trie') = FreshPairs(trie) \union {<<Anc(o, bits, mask - MinMask), id>>}
        /\ NotDoubled(trie', atMark)
    BY <1>1, <2>1, InsertIsFresh
  <2> QED BY <1>1, <2>1, <2>2 DEF GRInv
<1>4. CASE GRDelete
  <2>1. PICK o \in Octet, bits \in Bits(Depth), mask \in MinMask .. MaxMask,
             id \in PathID :
          /\ deleteUnlocked(o, bits, mask, id)
          /\ fresh' = fresh \ {<<Anc(o, bits, mask - MinMask), id>>}
          /\ atMark' = atMark
    BY <1>4 DEF GRDelete
  <2>2. /\ TrieInv'
        /\ FreshPairs(trie') = FreshPairs(trie) \ {<<Anc(o, bits, mask - MinMask), id>>}
        /\ NotDoubled(trie', atMark)
    BY <1>1, <2>1, DeleteIsFresh
  <2> QED BY <1>1, <2>1, <2>2 DEF GRInv
<1>5. CASE GRMark
  BY <1>1, <1>5, MarkIsFresh DEF GRMark, GRInv
<1>6. CASE GRSweep
  BY <1>1, <1>2, <1>6, SweepIsFresh DEF GRSweep, GRInv
<1>7. CASE GRReset
  <2>1. TrieInv' /\ \A n : PathsAt(trie', n) = {}
    BY <1>7, ResetKeeps DEF GRReset
  <2>2. fresh' = {} /\ atMark' = [n \in NodeId |-> 0]
    BY <1>7 DEF GRReset
  <2>3. FreshPairs(trie') = {} /\ NotDoubled(trie', atMark')
    BY <2>1, NothingIsFresh
  <2> QED BY <1>2, <2>1, <2>2, <2>3 DEF GRInv
<1>8. CASE UNCHANGED grVars
  <2>1. trie' = trie /\ count' = count /\ pathCount' = pathCount /\ nodeCount' = nodeCount
        /\ masks' = masks /\ fresh' = fresh /\ atMark' = atMark
    BY <1>8 DEF grVars, vars, trieVars
  <2> QED BY <1>1, <2>1 DEF GRInv, TrieInv
<1> QED BY <1>3, <1>4, <1>5, <1>6, <1>7, <1>8 DEF GRNext

(* Through any sequence of marks, announcements, withdrawals and sweeps.     *)
THEOREM RestartStays == GRSpec => []GRInv
<1>1. GRInit => GRInv
  BY GRInitHolds
<1>2. GRInv /\ [GRNext]_grVars => GRInv'
  BY GRNextKeeps
<1> QED BY <1>1, <1>2, PTL DEF GRSpec

-----------------------------------------------------------------------------
(* The paths with the prefix they belong to. *)
LEMMA HeldIs ==
  \A h : h \in Held <=> \E n \in DOMAIN trie : \E e \in PathsAt(trie, n) : h = <<n, e>>
BY DEF Held, PathsAt, Entries

(* A path is fresh exactly if it has been announced since the mark: no flag  *)
(* is lost or kept wrongly while paths move between the inline slot and the  *)
(* slice or take the place of a stale one (node.go).                         *)
THEOREM FreshStaysExact == GRSpec => []FreshIffAnnounced
<1>1. GRInv => FreshIffAnnounced
  <2> SUFFICES ASSUME GRInv
               PROVE  FreshIffAnnounced
    OBVIOUS
  <2>1. fresh = FreshPairs(trie) /\ Sound(trie)
    BY DEF GRInv, TrieInv
  <2> DEFINE unmarked == {h \in Held : ~h[2].stale}
             pairs == {<<h[1], h[2].pathID>> : h \in unmarked}
  <2>2. ASSUME NEW l, l \in pairs
        PROVE  l \in FreshPairs(trie)
    <3>0. PICK h \in unmarked : l = <<h[1], h[2].pathID>>
      BY <2>2
    <3>1. h \in Held /\ ~h[2].stale
      OBVIOUS
    <3>2. PICK n \in DOMAIN trie : \E e \in PathsAt(trie, n) : h = <<n, e>>
      BY <3>1, HeldIs
    <3>4. PICK e \in PathsAt(trie, n) : h = <<n, e>>
      BY <3>2
    <3>3. n \in NodeId /\ e.pathID \in PathID
      BY <2>1, PathsAtShape DEF Sound
    <3> QED BY <3>0, <3>1, <3>3, <3>4 DEF FreshPairs
  <2>3. ASSUME NEW l \in FreshPairs(trie)
        PROVE  l \in pairs
    <3>1. l = <<l[1], l[2]>>
      BY DEF FreshPairs
    <3>2. PICK e \in PathsAt(trie, l[1]) : e.pathID = l[2] /\ ~e.stale
      BY DEF FreshPairs
    <3>3. l[1] \in DOMAIN trie
      BY DEF PathsAt
    <3>4. <<l[1], e>> \in Held
      BY <3>3, HeldIs
    <3>5. \E h \in Held : ~h[2].stale /\ l = <<h[1], h[2].pathID>>
      BY <3>1, <3>2, <3>4
    <3> QED BY <3>5
  <2>4. pairs = FreshPairs(trie)
    BY <2>2, <2>3
  <2> QED BY <2>1, <2>4 DEF FreshIffAnnounced
<1> QED BY <1>1, RestartStays, PTL

(* "This prevents path count doubling during Graceful Restart resync if the  *)
(* peer uses different PathIDs upon reconnect" (setPath, node.go): a prefix  *)
(* with more paths than at the mark has only paths announced since.          *)
THEOREM NeverDoubles == GRSpec => []NoDoubling
<1>1. GRInv => NoDoubling
  <2> SUFFICES ASSUME GRInv, NEW n \in DOMAIN trie
               PROVE  \/ pathsCount(trie[n]) <= atMark[n]
                      \/ pathsCount(trie[n]) = Cardinality({id \in PathID : <<n, id>> \in fresh})
    BY DEF NoDoubling
  <2>1. fresh = FreshPairs(trie) /\ Sound(trie) /\ NotDoubled(trie, atMark)
    BY DEF GRInv, TrieInv
  <2>2. n \in NodeId
    BY <2>1 DEF Sound
  <2>3. pathsCount(trie[n]) = Cardinality(PathsAt(trie, n))
        /\ pathsCount(trie[n]) = Cardinality({e.pathID : e \in PathsAt(trie, n)})
        /\ \A e \in PathsAt(trie, n) : e.pathID \in PathID
    BY <2>1, PathsAtShape
  <2>4. CASE Cardinality(PathsAt(trie, n)) <= atMark[n]
    BY <2>3, <2>4
  <2>5. CASE AllFresh(trie, n)
    <3>1. \A id \in PathID : <<n, id>> \in fresh <=> \E e \in PathsAt(trie, n) : e.pathID = id
      BY <2>1, <2>2, <2>5 DEF FreshPairs, AllFresh
    <3>2. {id \in PathID : <<n, id>> \in fresh} = {e.pathID : e \in PathsAt(trie, n)}
      BY <2>3, <3>1
    <3> QED BY <2>3, <3>2
  <2> QED BY <2>1, <2>2, <2>4, <2>5 DEF NotDoubled
<1> QED BY <1>1, RestartStays, PTL

(* A sweep takes every stale path away and leaves every other as it was,     *)
(* wherever its prefix is in the trie and however many paths it has          *)
(* (DeleteStaleRoutes, deleteStaleFromNode).                                 *)
THEOREM SweepsAreExact == GRSpec => SweepExact
<1>1. GRInv /\ [GRNext]_grVars =>
        [DeleteStaleRoutes => Held' = {h \in Held : ~h[2].stale}]_grVars
  <2> SUFFICES ASSUME GRInv, DeleteStaleRoutes
               PROVE  Held' = {h \in Held : ~h[2].stale}
    OBVIOUS
  <2>1. \A n : PathsAt(trie', n) = {e \in PathsAt(trie, n) : ~e.stale}
    BY SweepKeeps DEF GRInv, Sweeps, FreshOf
  <2>2. \A h : h \in Held' <=> \E n \in DOMAIN trie' : \E e \in PathsAt(trie', n) : h = <<n, e>>
    BY DEF Held, PathsAt, Entries
  <2>3. \A T, n : PathsAt(T, n) # {} => n \in DOMAIN T
    BY DEF PathsAt
  <2>4. \A h : h \in Held' <=> h \in Held /\ ~h[2].stale
    <3> TAKE h
    <3>1. h \in Held' <=> \E n : \E e \in PathsAt(trie', n) : h = <<n, e>>
      BY <2>2, <2>3
    <3>2. h \in Held <=> \E n : \E e \in PathsAt(trie, n) : h = <<n, e>>
      BY <2>3, HeldIs
    <3> QED BY <2>1, <3>1, <3>2
  <2> QED BY <2>4
<1> QED BY <1>1, RestartStays, PTL DEF GRSpec, SweepExact
=============================================================================
