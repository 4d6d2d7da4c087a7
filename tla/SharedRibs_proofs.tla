-------------------------- MODULE SharedRibs_proofs --------------------------
(***************************************************************************)
(* Proofs about SharedRibs, for any number of RIBs, goroutines, prefixes,  *)
(* path IDs and attribute values.  IInv is inductive; the reference counts *)
(* are its hard part, and rest on lemmas about counting the places of a    *)
(* function that hold a given value.  TableCounted, on top of it, is what  *)
(* the table reports: its copies and their bytes.                          *)
(***************************************************************************)
EXTENDS SharedRibs, FoldFacts

-----------------------------------------------------------------------------
(* Counting *)

(* Only finitely many places can hold a pointer: slots of tries, tallies of *)
(* goroutines, and their locals.                                            *)
LEMMA FinitePlaces ==
  /\ IsFiniteSet(Slot)
  /\ IsFiniteSet(Thread \X Loc)
  /\ IsFiniteSet(Thread)
  /\ Cardinality(Slot) \in Nat
  /\ Cardinality(Thread \X Loc) \in Nat
  /\ Cardinality(Thread) \in Nat
BY SharedAssumption, FS_Product, FS_CardinalityType DEF Slot

(* A count is a natural number, no larger than the number of places, and    *)
(* zero exactly when no place holds the value.                              *)
LEMMA CountRange ==
  ASSUME NEW S, IsFiniteSet(S), NEW f, DOMAIN f = S, NEW p
  PROVE  /\ Count(f, p) \in Nat
         /\ Count(f, p) <= Cardinality(S)
         /\ Count(f, p) = 0 <=> \A s \in S : f[s] # p
<1> DEFINE A == {s \in S : f[s] = p}
<1>1. A \in SUBSET S /\ IsFiniteSet(A)
  BY FS_Subset
<1>2. Cardinality(A) <= Cardinality(S) /\ Cardinality(A) \in Nat
  BY <1>1, FS_Subset, FS_CardinalityType
<1>3. Cardinality(A) = 0 <=> A = {}
  BY <1>1, FS_EmptySet
<1> QED BY <1>2, <1>3 DEF Count

(* Writing one place moves one unit of count from the value it held to the  *)
(* value it is given.                                                       *)
LEMMA CountUpdate ==
  ASSUME NEW S, IsFiniteSet(S), NEW f, DOMAIN f = S,
         NEW s \in S, NEW v, NEW g, DOMAIN g = S, g[s] = v,
         \A x \in S \ {s} : g[x] = f[x], NEW p
  PROVE  Count(g, p) = Count(f, p) + (IF v = p THEN 1 ELSE 0)
                                   - (IF f[s] = p THEN 1 ELSE 0)
<1> DEFINE A == {x \in S : f[x] = p}
           B == {x \in S : g[x] = p}
           C == A \ {s}
<1>1. IsFiniteSet(A) /\ IsFiniteSet(C)
  BY FS_Subset
<1>2. Cardinality(C) = IF f[s] = p THEN Cardinality(A) - 1 ELSE Cardinality(A)
  BY <1>1, FS_RemoveElement, s \in A <=> f[s] = p
<1>3. B = IF v = p THEN C \union {s} ELSE C
  OBVIOUS
<1>4. Cardinality(C \union {s}) = Cardinality(C) + 1
  BY <1>1, FS_AddElement, s \notin C
<1>5. Cardinality(A) \in Nat /\ Cardinality(C) \in Nat
  BY <1>1, FS_CardinalityType
<1>6. Cardinality(B) = Cardinality(C) + (IF v = p THEN 1 ELSE 0)
  <2>1. CASE v = p
    BY <2>1, <1>3, <1>4
  <2>2. CASE v # p
    <3>1. B = C
      BY <1>3, <2>2
    <3> HIDE DEF B, C
    <3> QED BY <3>1, <2>2, <1>5
  <2> QED BY <2>1, <2>2
<1>7. Count(g, p) = Cardinality(B) /\ Count(f, p) = Cardinality(A)
  BY DEF Count
<1> HIDE DEF A, B, C
<1> QED BY <1>2, <1>5, <1>6, <1>7

(* Clearing a set of places that hold value q leaves the other counts alone *)
(* and takes the number of those places from q's.                           *)
LEMMA CountClear ==
  ASSUME NEW S, IsFiniteSet(S), NEW f, DOMAIN f = S, NEW q, NEW none,
         none # q, NEW C \in SUBSET {s \in S : f[s] = q},
         NEW g, g = [s \in S |-> IF s \in C THEN none ELSE f[s]],
         NEW p, p # none
  PROVE  /\ Count(g, p) = Count(f, p) - (IF p = q THEN Cardinality(C) ELSE 0)
         /\ Cardinality(C) \in Nat
         /\ Cardinality(C) <= Count(f, q)
<1> DEFINE A == {s \in S : f[s] = p}
           Q == {s \in S : f[s] = q}
           B == {s \in S : g[s] = p}
<1>1. IsFiniteSet(A) /\ IsFiniteSet(Q) /\ IsFiniteSet(C)
  BY FS_Subset
<1>2. Cardinality(A) \in Nat /\ Cardinality(C) \in Nat
  BY <1>1, FS_CardinalityType
<1>3. Cardinality(C) <= Cardinality(Q)
  BY <1>1, FS_Subset
<1>4. Count(f, p) = Cardinality(A) /\ Count(f, q) = Cardinality(Q)
        /\ Count(g, p) = Cardinality(B)
  BY DEF Count
<1>5. CASE p = q
  <2>1. B = A \ C /\ A \intersect C = C
    BY <1>5
  <2>2. Cardinality(A \ C) = Cardinality(A) - Cardinality(A \intersect C)
    BY <1>1, FS_Difference
  <2> HIDE DEF A, B, Q
  <2> QED BY <2>1, <2>2, <1>2, <1>3, <1>4, <1>5
<1>6. CASE p # q
  <2>1. B = A
    BY <1>6
  <2> HIDE DEF A, B, Q
  <2> QED BY <2>1, <1>2, <1>3, <1>4, <1>6
<1> QED BY <1>5, <1>6

-----------------------------------------------------------------------------
(* Types *)

(* An unsigned word stays one whatever is added to it or taken from it. *)
LEMMA WordRange ==
  \A n \in Int : n % RefLimit \in 0 .. RefLimit - 1
BY AttrAssumption

(* The critical sections of at.mu keep the table's types. *)
LEMMA TableTypes ==
  ASSUME TableTypeOK
  PROVE  /\ \A reachable : \A in \in Attr \union {NilAttr}, p \in Ptr :
              getOrInsert(in, p, reachable) => TableTypeOK'
         /\ \A p \in Ptr : release(p) => TableTypeOK'
         /\ \A p \in Ptr, n \in Nat : releaseNItem(p, n) => TableTypeOK'
<1> USE AttrAssumption, WordRange DEF TableTypeOK
<1>1. ASSUME NEW in \in Attr \union {NilAttr}, NEW p \in Ptr, NEW reachable,
             getOrInsert(in, p, reachable)
      PROVE  TableTypeOK'
  <2>1. ValueOf(in) \in Attr
    BY DEF ValueOf
  <2>2. CASE Share(ValueOf(in), p)
    BY <2>1, <2>2 DEF Share
  <2>3. CASE Intern(ValueOf(in), p, reachable)
    BY <2>1, <2>3 DEF Intern
  <2> QED BY <1>1, <2>2, <2>3 DEF getOrInsert
<1>2. ASSUME NEW p \in Ptr, release(p)
      PROVE  TableTypeOK'
  <2>1. refCount' \in [Ptr -> 0 .. RefLimit - 1]
    <3>1. refCount[p] - 1 \in Int
      OBVIOUS
    <3> QED BY <1>2, <3>1 DEF release
  <2>2. hashAttributes[content[p]] \in Hash /\ sliceSize[content[p]] \in Nat
    OBVIOUS
  <2> QED BY <1>2, <2>1, <2>2 DEF release, removeLocked
<1>3. ASSUME NEW p \in Ptr, NEW n \in Nat, releaseNItem(p, n)
      PROVE  TableTypeOK'
  <2>1. refCount' \in [Ptr -> 0 .. RefLimit - 1]
    BY <1>3 DEF releaseNItem
  <2>2. hashAttributes[content[p]] \in Hash /\ sliceSize[content[p]] \in Nat
    OBVIOUS
  <2> QED BY <1>3, <2>1, <2>2 DEF releaseNItem, removeLocked
<1> QED BY <1>1, <1>2, <1>3

(* Every step keeps every variable in its type. *)
LEMMA TypeStep ==
  TypeOK /\ LockDiscipline /\ [Next]_vars => TypeOK'
<1> SUFFICES ASSUME TypeOK, LockDiscipline, [Next]_vars PROVE TypeOK'
  OBVIOUS
<1> USE AttrAssumption, SharedAssumption
<1>1. ASSUME NEW t \in Thread, NEW r \in Rib,
             NEW label \in {"insert", "delete", "sweep"}, Lock(t, r, label)
      PROVE  TypeOK'
  BY <1>1 DEF TypeOK, tableVars, threadVars, PtrOrNil, Goto, Label, Locked,
     Flushing, TableTypeOK, Lock
<1>2. ASSUME NEW t \in Thread, NEW r \in Rib, Unlock(t, r)
      PROVE  TypeOK'
  BY <1>2 DEF TypeOK, tableVars, threadVars, PtrOrNil, Goto, Label, Locked,
     Flushing, TableTypeOK, Unlock
<1>3. ASSUME NEW t \in Thread, NEW l \in Loc, NEW in \in Attr \union {NilAttr},
             NEW p \in Ptr, InternStep(t, l, in, p)
      PROVE  TypeOK'
  BY <1>3, TableTypes
  DEF TypeOK, tableVars, threadVars, PtrOrNil, Goto, Label, Locked,
     Flushing, InternStep
<1>4. ASSUME NEW t \in Thread, NEW r \in Rib, NEW s \in Slot, SetPath(t, r, s)
      PROVE  TypeOK'
  BY <1>4 DEF TypeOK, tableVars, threadVars, PtrOrNil, Goto, Label, Locked,
     Flushing, TableTypeOK, SetPath
<1>5. ASSUME NEW t \in Thread, NEW from \in {"insertFree", "deleteFree"},
             NEW to \in {"insert", "delete"}, ReleaseOld(t, from, to)
      PROVE  TypeOK'
  <2>1. hand[t] \in Ptr
    BY <1>5 DEF TypeOK, LockDiscipline, ReleaseOld, PtrOrNil
  <2> QED BY <1>5, <2>1, TableTypes
  DEF TypeOK, tableVars, threadVars, PtrOrNil, Goto, Label, Locked,
     Flushing, ReleaseOld
<1>6. ASSUME NEW t \in Thread, NEW r \in Rib, NEW l \in Loc, DeletePath(t, r, l)
      PROVE  TypeOK'
  BY <1>6, <<root[r], l>> \in Slot
  DEF TypeOK, tableVars, threadVars, PtrOrNil, Goto, Label, Locked,
     Flushing, TableTypeOK, Slot, DeletePath
<1>7. ASSUME NEW r \in Rib, MarkAllStale(r)
      PROVE  TypeOK'
  BY <1>7 DEF TypeOK, tableVars, threadVars, PtrOrNil, Goto, Label, Locked,
     Flushing, TableTypeOK, MarkAllStale
<1>8. ASSUME NEW t \in Thread, NEW r \in Rib, NEW l \in Loc, SweepPath(t, r, l)
      PROVE  TypeOK'
  BY <1>8, <<root[r], l>> \in Slot
  DEF TypeOK, tableVars, threadVars, PtrOrNil, Goto, Label, Locked,
     Flushing, TableTypeOK, Slot, SweepPath
<1>9. ASSUME NEW t \in Thread, NEW r \in Rib, SweepDone(t, r)
      PROVE  TypeOK'
  BY <1>9 DEF TypeOK, tableVars, threadVars, PtrOrNil, Goto, Label, Locked,
     Flushing, TableTypeOK, SweepDone
<1>10. ASSUME NEW t \in Thread, NEW r \in Rib, NEW T \in Tree, ResetSwap(t, r, T)
      PROVE  TypeOK'
  BY <1>10 DEF TypeOK, tableVars, threadVars, PtrOrNil, Goto, Label, Locked,
     Flushing, TableTypeOK, ResetSwap
<1>11. ASSUME NEW t \in Thread, NEW l \in Loc, CollectPath(t, l)
      PROVE  TypeOK'
  <2>1. <<oldRoot[t], l>> \in Slot
    BY <1>11 DEF TypeOK, LockDiscipline, CollectPath, Slot
  <2> QED BY <1>11, <2>1
  DEF TypeOK, tableVars, threadVars, PtrOrNil, Goto, Label, Locked,
     Flushing, TableTypeOK, CollectPath
<1>12. ASSUME NEW t \in Thread, CollectDone(t)
      PROVE  TypeOK'
  BY <1>12 DEF TypeOK, tableVars, threadVars, PtrOrNil, Goto, Label, Locked,
     Flushing, TableTypeOK, CollectDone
<1>13. ASSUME NEW t \in Thread, ReleaseNEmpty(t)
      PROVE  TypeOK'
  BY <1>13 DEF TypeOK, tableVars, threadVars, PtrOrNil, Goto, Label, Locked,
     Flushing, TableTypeOK, ReleaseNEmpty
<1>14. ASSUME NEW t \in Thread, ReleaseNLock(t)
      PROVE  TypeOK'
  BY <1>14 DEF TypeOK, tableVars, threadVars, PtrOrNil, Goto, Label, Locked,
     Flushing, TableTypeOK, ReleaseNLock
<1>15. ASSUME NEW t \in Thread, NEW p \in Ptr, ReleaseNItem(t, p)
      PROVE  TypeOK'
  <2>1. TallyCount(t, p) \in Nat
    <3>1. IsFiniteSet({x \in Thread \X Loc : x[1] = t /\ tally[x] = p})
      BY FinitePlaces, FS_Subset
    <3> QED BY <3>1, FS_CardinalityType DEF TallyCount
  <2> QED BY <1>15, <2>1, TableTypes
  DEF TypeOK, tableVars, threadVars, PtrOrNil, Goto, Label, Locked,
     Flushing, ReleaseNItem
<1>16. ASSUME NEW t \in Thread, ReleaseNRelock(t)
      PROVE  TypeOK'
  BY <1>16 DEF TypeOK, tableVars, threadVars, PtrOrNil, Goto, Label, Locked,
     Flushing, TableTypeOK, ReleaseNRelock
<1>17. ASSUME NEW t \in Thread, ReleaseNDone(t)
      PROVE  TypeOK'
  BY <1>17 DEF TypeOK, tableVars, threadVars, PtrOrNil, Goto, Label, Locked,
     Flushing, TableTypeOK, ReleaseNDone
<1>18. CASE UNCHANGED vars
  BY <1>18 DEF TypeOK, tableVars, threadVars, PtrOrNil, Goto, Label, Locked,
     Flushing, TableTypeOK, vars, tableVars, threadVars
<1> QED
  BY <1>1, <1>2, <1>3, <1>4, <1>5, <1>6, <1>7, <1>8, <1>9, <1>10, <1>11,
     <1>12, <1>13, <1>14, <1>15, <1>16, <1>17, <1>18
  DEF Next, Step, Begin, InsertRoute, DeleteRoute, Sweep, Collect, ReleaseN
-----------------------------------------------------------------------------
(* Locks and tries *)

(* Every step keeps the lock discipline. *)
LEMMA LockStep ==
  TypeOK /\ LockDiscipline /\ StaleIsPath /\ [Next]_vars => LockDiscipline'
<1> SUFFICES ASSUME TypeOK, LockDiscipline, StaleIsPath, [Next]_vars
             PROVE  LockDiscipline'
  OBVIOUS
<1> USE AttrAssumption, SharedAssumption
<1>1. ASSUME NEW t \in Thread, NEW r \in Rib,
             NEW label \in {"insert", "delete", "sweep"}, Lock(t, r, label)
      PROVE  LockDiscipline'
  BY <1>1
  DEF TypeOK, PtrOrNil, Label, Locked, Flushing, LockDiscipline, tableVars,
      threadVars, Goto, Lock
<1>2. ASSUME NEW t \in Thread, NEW r \in Rib, Unlock(t, r)
      PROVE  LockDiscipline'
  BY <1>2
  DEF TypeOK, PtrOrNil, Label, Locked, Flushing, LockDiscipline, tableVars,
      threadVars, Goto, Unlock
<1>3. ASSUME NEW t \in Thread, NEW l \in Loc, NEW in \in Attr \union {NilAttr},
             NEW p \in Ptr, InternStep(t, l, in, p)
      PROVE  LockDiscipline'
  BY <1>3
  DEF TypeOK, PtrOrNil, Label, Locked, Flushing, LockDiscipline, tableVars,
      threadVars, Goto, InternStep
<1>4. ASSUME NEW t \in Thread, NEW r \in Rib, NEW s \in Slot, SetPath(t, r, s)
      PROVE  LockDiscipline'
  BY <1>4
  DEF TypeOK, PtrOrNil, Label, Locked, Flushing, LockDiscipline, tableVars,
      threadVars, Goto, SetPath
<1>5. ASSUME NEW t \in Thread, NEW from \in {"insertFree", "deleteFree"},
             NEW to \in {"insert", "delete"}, ReleaseOld(t, from, to)
      PROVE  LockDiscipline'
  BY <1>5
  DEF TypeOK, PtrOrNil, Label, Locked, Flushing, LockDiscipline, tableVars,
      threadVars, Goto, ReleaseOld
<1>6. ASSUME NEW t \in Thread, NEW r \in Rib, NEW l \in Loc, DeletePath(t, r, l)
      PROVE  LockDiscipline'
  BY <1>6
  DEF TypeOK, PtrOrNil, Label, Locked, Flushing, LockDiscipline, tableVars,
      threadVars, Goto, DeletePath
<1>7. ASSUME NEW r \in Rib, MarkAllStale(r)
      PROVE  LockDiscipline'
  BY <1>7
  DEF TypeOK, PtrOrNil, Label, Locked, Flushing, LockDiscipline, tableVars,
      threadVars, Goto, MarkAllStale
<1>8. ASSUME NEW t \in Thread, NEW r \in Rib, NEW l \in Loc, SweepPath(t, r, l)
      PROVE  LockDiscipline'
  BY <1>8
  DEF TypeOK, PtrOrNil, Label, Locked, Flushing, LockDiscipline, tableVars,
      threadVars, Goto, SweepPath
<1>9. ASSUME NEW t \in Thread, NEW r \in Rib, SweepDone(t, r)
      PROVE  LockDiscipline'
  BY <1>9
  DEF TypeOK, PtrOrNil, Label, Locked, Flushing, LockDiscipline, tableVars,
      threadVars, Goto, SweepDone
<1>10. ASSUME NEW t \in Thread, NEW r \in Rib, NEW T \in Tree, ResetSwap(t, r, T)
      PROVE  LockDiscipline'
  BY <1>10
  DEF TypeOK, PtrOrNil, Label, Locked, Flushing, LockDiscipline, tableVars,
      threadVars, Goto, ResetSwap
<1>11. ASSUME NEW t \in Thread, NEW l \in Loc, CollectPath(t, l)
      PROVE  LockDiscipline'
  BY <1>11
  DEF TypeOK, PtrOrNil, Label, Locked, Flushing, LockDiscipline, tableVars,
      threadVars, Goto, CollectPath
<1>12. ASSUME NEW t \in Thread, CollectDone(t)
      PROVE  LockDiscipline'
  BY <1>12
  DEF TypeOK, PtrOrNil, Label, Locked, Flushing, LockDiscipline, tableVars,
      threadVars, Goto, CollectDone
<1>13. ASSUME NEW t \in Thread, ReleaseNEmpty(t)
      PROVE  LockDiscipline'
  BY <1>13
  DEF TypeOK, PtrOrNil, Label, Locked, Flushing, LockDiscipline, tableVars,
      threadVars, Goto, ReleaseNEmpty
<1>14. ASSUME NEW t \in Thread, ReleaseNLock(t)
      PROVE  LockDiscipline'
  BY <1>14
  DEF TypeOK, PtrOrNil, Label, Locked, Flushing, LockDiscipline, tableVars,
      threadVars, Goto, ReleaseNLock
<1>15. ASSUME NEW t \in Thread, NEW p \in Ptr, ReleaseNItem(t, p)
      PROVE  LockDiscipline'
  BY <1>15
  DEF TypeOK, PtrOrNil, Label, Locked, Flushing, LockDiscipline, tableVars,
      threadVars, Goto, ReleaseNItem
<1>16. ASSUME NEW t \in Thread, ReleaseNRelock(t)
      PROVE  LockDiscipline'
  BY <1>16
  DEF TypeOK, PtrOrNil, Label, Locked, Flushing, LockDiscipline, tableVars,
      threadVars, Goto, ReleaseNRelock
<1>17. ASSUME NEW t \in Thread, ReleaseNDone(t)
      PROVE  LockDiscipline'
  BY <1>17
  DEF TypeOK, PtrOrNil, Label, Locked, Flushing, LockDiscipline, tableVars,
      threadVars, Goto, ReleaseNDone
<1>18. CASE UNCHANGED vars
  BY <1>18
  DEF TypeOK, PtrOrNil, Label, Locked, Flushing, LockDiscipline, tableVars,
      threadVars, Goto, vars, tableVars, threadVars
<1> QED
  BY <1>1, <1>2, <1>3, <1>4, <1>5, <1>6, <1>7, <1>8, <1>9, <1>10, <1>11,
     <1>12, <1>13, <1>14, <1>15, <1>16, <1>17, <1>18
  DEF Next, Step, Begin, InsertRoute, DeleteRoute, Sweep, Collect, ReleaseN

(* Every step keeps detached tries apart from the live ones, and tries that *)
(* are neither empty.                                                       *)
LEMMA DetachedStep ==
  TypeOK /\ LockDiscipline /\ DetachedUnreachable /\ [Next]_vars
    => DetachedUnreachable'
<1> SUFFICES ASSUME TypeOK, LockDiscipline, DetachedUnreachable, [Next]_vars
             PROVE  DetachedUnreachable'
  OBVIOUS
<1> USE AttrAssumption, SharedAssumption
<1>1. ASSUME NEW t \in Thread, NEW r \in Rib,
             NEW label \in {"insert", "delete", "sweep"}, Lock(t, r, label)
      PROVE  DetachedUnreachable'
  <2>1. UNCHANGED <<root, oldRoot, tree>>
    BY <1>1 DEF Lock, threadVars
  <2> QED BY <2>1 DEF DetachedUnreachable, Free
<1>2. ASSUME NEW t \in Thread, NEW r \in Rib, Unlock(t, r)
      PROVE  DetachedUnreachable'
  <2>1. UNCHANGED <<root, oldRoot, tree>>
    BY <1>2 DEF Unlock, threadVars
  <2> QED BY <2>1 DEF DetachedUnreachable, Free
<1>3. ASSUME NEW t \in Thread, NEW l \in Loc, NEW in \in Attr \union {NilAttr},
             NEW p \in Ptr, InternStep(t, l, in, p)
      PROVE  DetachedUnreachable'
  <2>1. UNCHANGED <<root, oldRoot, tree>>
    BY <1>3 DEF InternStep, threadVars
  <2> QED BY <2>1 DEF DetachedUnreachable, Free
<1>4. ASSUME NEW t \in Thread, NEW r \in Rib, NEW s \in Slot, SetPath(t, r, s)
      PROVE  DetachedUnreachable'
  BY <1>4
  DEF TypeOK, PtrOrNil, Label, Locked, Flushing, LockDiscipline, tableVars,
      threadVars, Goto, DetachedUnreachable, Free, Slot, SetPath
<1>5. ASSUME NEW t \in Thread, NEW from \in {"insertFree", "deleteFree"},
             NEW to \in {"insert", "delete"}, ReleaseOld(t, from, to)
      PROVE  DetachedUnreachable'
  <2>1. UNCHANGED <<root, oldRoot, tree>>
    BY <1>5 DEF ReleaseOld, threadVars
  <2> QED BY <2>1 DEF DetachedUnreachable, Free
<1>6. ASSUME NEW t \in Thread, NEW r \in Rib, NEW l \in Loc, DeletePath(t, r, l)
      PROVE  DetachedUnreachable'
  BY <1>6
  DEF TypeOK, PtrOrNil, Label, Locked, Flushing, LockDiscipline, tableVars,
      threadVars, Goto, DetachedUnreachable, Free, Slot, DeletePath
<1>7. ASSUME NEW r \in Rib, MarkAllStale(r)
      PROVE  DetachedUnreachable'
  <2>1. UNCHANGED <<root, oldRoot, tree>>
    BY <1>7 DEF MarkAllStale, threadVars
  <2> QED BY <2>1 DEF DetachedUnreachable, Free
<1>8. ASSUME NEW t \in Thread, NEW r \in Rib, NEW l \in Loc, SweepPath(t, r, l)
      PROVE  DetachedUnreachable'
  <2>1. UNCHANGED <<root, oldRoot>>
    BY <1>8 DEF SweepPath
  <2>2. \A s \in Slot : tree[s] = NoPtr => tree'[s] = NoPtr
    BY <1>8 DEF SweepPath, TypeOK
  <2> QED BY <2>1, <2>2 DEF DetachedUnreachable, Free
<1>9. ASSUME NEW t \in Thread, NEW r \in Rib, SweepDone(t, r)
      PROVE  DetachedUnreachable'
  <2>1. UNCHANGED <<root, oldRoot, tree>>
    BY <1>9 DEF SweepDone, threadVars
  <2> QED BY <2>1 DEF DetachedUnreachable, Free
<1>10. ASSUME NEW t \in Thread, NEW r \in Rib, NEW T \in Tree, ResetSwap(t, r, T)
      PROVE  DetachedUnreachable'
  BY <1>10
  DEF TypeOK, PtrOrNil, Label, Locked, Flushing, LockDiscipline, tableVars,
      threadVars, Goto, DetachedUnreachable, Free, Slot, ResetSwap
<1>11. ASSUME NEW t \in Thread, NEW l \in Loc, CollectPath(t, l)
      PROVE  DetachedUnreachable'
  BY <1>11
  DEF TypeOK, PtrOrNil, Label, Locked, Flushing, LockDiscipline, tableVars,
      threadVars, Goto, DetachedUnreachable, Free, Slot, CollectPath
<1>12. ASSUME NEW t \in Thread, CollectDone(t)
      PROVE  DetachedUnreachable'
  BY <1>12
  DEF TypeOK, PtrOrNil, Label, Locked, Flushing, LockDiscipline, tableVars,
      threadVars, Goto, DetachedUnreachable, Free, Slot, CollectDone
<1>13. ASSUME NEW t \in Thread, ReleaseNEmpty(t)
      PROVE  DetachedUnreachable'
  <2>1. UNCHANGED <<root, oldRoot, tree>>
    BY <1>13 DEF ReleaseNEmpty, threadVars
  <2> QED BY <2>1 DEF DetachedUnreachable, Free
<1>14. ASSUME NEW t \in Thread, ReleaseNLock(t)
      PROVE  DetachedUnreachable'
  <2>1. UNCHANGED <<root, oldRoot, tree>>
    BY <1>14 DEF ReleaseNLock, threadVars
  <2> QED BY <2>1 DEF DetachedUnreachable, Free
<1>15. ASSUME NEW t \in Thread, NEW p \in Ptr, ReleaseNItem(t, p)
      PROVE  DetachedUnreachable'
  <2>1. UNCHANGED <<root, oldRoot, tree>>
    BY <1>15 DEF ReleaseNItem, threadVars
  <2> QED BY <2>1 DEF DetachedUnreachable, Free
<1>16. ASSUME NEW t \in Thread, ReleaseNRelock(t)
      PROVE  DetachedUnreachable'
  <2>1. UNCHANGED <<root, oldRoot, tree>>
    BY <1>16 DEF ReleaseNRelock, threadVars
  <2> QED BY <2>1 DEF DetachedUnreachable, Free
<1>17. ASSUME NEW t \in Thread, ReleaseNDone(t)
      PROVE  DetachedUnreachable'
  <2>1. UNCHANGED <<root, oldRoot, tree>>
    BY <1>17 DEF ReleaseNDone, threadVars
  <2> QED BY <2>1 DEF DetachedUnreachable, Free
<1>18. CASE UNCHANGED vars
  BY <1>18
  DEF TypeOK, PtrOrNil, Label, Locked, Flushing, LockDiscipline, tableVars,
      threadVars, Goto, DetachedUnreachable, Free, Slot, vars, tableVars,
      threadVars
<1> QED
  BY <1>1, <1>2, <1>3, <1>4, <1>5, <1>6, <1>7, <1>8, <1>9, <1>10, <1>11,
     <1>12, <1>13, <1>14, <1>15, <1>16, <1>17, <1>18
  DEF Next, Step, Begin, InsertRoute, DeleteRoute, Sweep, Collect, ReleaseN

(* Every step keeps stale flags on paths only. *)
LEMMA StaleStep ==
  TypeOK /\ LockDiscipline /\ StaleIsPath /\ [Next]_vars => StaleIsPath'
<1> SUFFICES ASSUME TypeOK, LockDiscipline, StaleIsPath, [Next]_vars
             PROVE  StaleIsPath'
  OBVIOUS
<1> USE AttrAssumption, SharedAssumption
<1>1. ASSUME NEW t \in Thread, NEW r \in Rib,
             NEW label \in {"insert", "delete", "sweep"}, Lock(t, r, label)
      PROVE  StaleIsPath'
  BY <1>1
  DEF TypeOK, PtrOrNil, Label, Locked, Flushing, LockDiscipline, tableVars,
      threadVars, Goto, StaleIsPath, Lock
<1>2. ASSUME NEW t \in Thread, NEW r \in Rib, Unlock(t, r)
      PROVE  StaleIsPath'
  BY <1>2
  DEF TypeOK, PtrOrNil, Label, Locked, Flushing, LockDiscipline, tableVars,
      threadVars, Goto, StaleIsPath, Unlock
<1>3. ASSUME NEW t \in Thread, NEW l \in Loc, NEW in \in Attr \union {NilAttr},
             NEW p \in Ptr, InternStep(t, l, in, p)
      PROVE  StaleIsPath'
  BY <1>3
  DEF TypeOK, PtrOrNil, Label, Locked, Flushing, LockDiscipline, tableVars,
      threadVars, Goto, StaleIsPath, InternStep
<1>4. ASSUME NEW t \in Thread, NEW r \in Rib, NEW s \in Slot, SetPath(t, r, s)
      PROVE  StaleIsPath'
  BY <1>4
  DEF TypeOK, PtrOrNil, Label, Locked, Flushing, LockDiscipline, tableVars,
      threadVars, Goto, StaleIsPath, SetPath
<1>5. ASSUME NEW t \in Thread, NEW from \in {"insertFree", "deleteFree"},
             NEW to \in {"insert", "delete"}, ReleaseOld(t, from, to)
      PROVE  StaleIsPath'
  BY <1>5
  DEF TypeOK, PtrOrNil, Label, Locked, Flushing, LockDiscipline, tableVars,
      threadVars, Goto, StaleIsPath, ReleaseOld
<1>6. ASSUME NEW t \in Thread, NEW r \in Rib, NEW l \in Loc, DeletePath(t, r, l)
      PROVE  StaleIsPath'
  BY <1>6
  DEF TypeOK, PtrOrNil, Label, Locked, Flushing, LockDiscipline, tableVars,
      threadVars, Goto, StaleIsPath, DeletePath
<1>7. ASSUME NEW r \in Rib, MarkAllStale(r)
      PROVE  StaleIsPath'
  BY <1>7
  DEF TypeOK, PtrOrNil, Label, Locked, Flushing, LockDiscipline, tableVars,
      threadVars, Goto, StaleIsPath, MarkAllStale
<1>8. ASSUME NEW t \in Thread, NEW r \in Rib, NEW l \in Loc, SweepPath(t, r, l)
      PROVE  StaleIsPath'
  BY <1>8
  DEF TypeOK, PtrOrNil, Label, Locked, Flushing, LockDiscipline, tableVars,
      threadVars, Goto, StaleIsPath, SweepPath
<1>9. ASSUME NEW t \in Thread, NEW r \in Rib, SweepDone(t, r)
      PROVE  StaleIsPath'
  BY <1>9
  DEF TypeOK, PtrOrNil, Label, Locked, Flushing, LockDiscipline, tableVars,
      threadVars, Goto, StaleIsPath, SweepDone
<1>10. ASSUME NEW t \in Thread, NEW r \in Rib, NEW T \in Tree, ResetSwap(t, r, T)
      PROVE  StaleIsPath'
  BY <1>10
  DEF TypeOK, PtrOrNil, Label, Locked, Flushing, LockDiscipline, tableVars,
      threadVars, Goto, StaleIsPath, ResetSwap
<1>11. ASSUME NEW t \in Thread, NEW l \in Loc, CollectPath(t, l)
      PROVE  StaleIsPath'
  BY <1>11
  DEF TypeOK, PtrOrNil, Label, Locked, Flushing, LockDiscipline, tableVars,
      threadVars, Goto, StaleIsPath, CollectPath
<1>12. ASSUME NEW t \in Thread, CollectDone(t)
      PROVE  StaleIsPath'
  BY <1>12
  DEF TypeOK, PtrOrNil, Label, Locked, Flushing, LockDiscipline, tableVars,
      threadVars, Goto, StaleIsPath, CollectDone
<1>13. ASSUME NEW t \in Thread, ReleaseNEmpty(t)
      PROVE  StaleIsPath'
  BY <1>13
  DEF TypeOK, PtrOrNil, Label, Locked, Flushing, LockDiscipline, tableVars,
      threadVars, Goto, StaleIsPath, ReleaseNEmpty
<1>14. ASSUME NEW t \in Thread, ReleaseNLock(t)
      PROVE  StaleIsPath'
  BY <1>14
  DEF TypeOK, PtrOrNil, Label, Locked, Flushing, LockDiscipline, tableVars,
      threadVars, Goto, StaleIsPath, ReleaseNLock
<1>15. ASSUME NEW t \in Thread, NEW p \in Ptr, ReleaseNItem(t, p)
      PROVE  StaleIsPath'
  BY <1>15
  DEF TypeOK, PtrOrNil, Label, Locked, Flushing, LockDiscipline, tableVars,
      threadVars, Goto, StaleIsPath, ReleaseNItem
<1>16. ASSUME NEW t \in Thread, ReleaseNRelock(t)
      PROVE  StaleIsPath'
  BY <1>16
  DEF TypeOK, PtrOrNil, Label, Locked, Flushing, LockDiscipline, tableVars,
      threadVars, Goto, StaleIsPath, ReleaseNRelock
<1>17. ASSUME NEW t \in Thread, ReleaseNDone(t)
      PROVE  StaleIsPath'
  BY <1>17
  DEF TypeOK, PtrOrNil, Label, Locked, Flushing, LockDiscipline, tableVars,
      threadVars, Goto, StaleIsPath, ReleaseNDone
<1>18. CASE UNCHANGED vars
  BY <1>18
  DEF TypeOK, PtrOrNil, Label, Locked, Flushing, LockDiscipline, tableVars,
      threadVars, Goto, StaleIsPath, vars, tableVars, threadVars
<1> QED
  BY <1>1, <1>2, <1>3, <1>4, <1>5, <1>6, <1>7, <1>8, <1>9, <1>10, <1>11,
     <1>12, <1>13, <1>14, <1>15, <1>16, <1>17, <1>18
  DEF Next, Step, Begin, InsertRoute, DeleteRoute, Sweep, Collect, ReleaseN

(* Every step keeps tallies apart from the trie they were taken from. *)
LEMMA TalliedStep ==
  TypeOK /\ LockDiscipline /\ DetachedUnreachable /\ TalliedOnce /\ [Next]_vars
    => TalliedOnce'
<1> SUFFICES ASSUME TypeOK, LockDiscipline, DetachedUnreachable, TalliedOnce,
                    [Next]_vars
             PROVE  TalliedOnce'
  OBVIOUS
<1> USE AttrAssumption, SharedAssumption
<1>1. ASSUME NEW t \in Thread, NEW r \in Rib,
             NEW label \in {"insert", "delete", "sweep"}, Lock(t, r, label)
      PROVE  TalliedOnce'
  BY <1>1
  DEF TypeOK, PtrOrNil, Label, Locked, Flushing, LockDiscipline, tableVars,
      threadVars, Goto, DetachedUnreachable, TalliedOnce, Slot, Lock
<1>2. ASSUME NEW t \in Thread, NEW r \in Rib, Unlock(t, r)
      PROVE  TalliedOnce'
  BY <1>2
  DEF TypeOK, PtrOrNil, Label, Locked, Flushing, LockDiscipline, tableVars,
      threadVars, Goto, DetachedUnreachable, TalliedOnce, Slot, Unlock
<1>3. ASSUME NEW t \in Thread, NEW l \in Loc, NEW in \in Attr \union {NilAttr},
             NEW p \in Ptr, InternStep(t, l, in, p)
      PROVE  TalliedOnce'
  BY <1>3
  DEF TypeOK, PtrOrNil, Label, Locked, Flushing, LockDiscipline, tableVars,
      threadVars, Goto, DetachedUnreachable, TalliedOnce, Slot, InternStep
<1>4. ASSUME NEW t \in Thread, NEW r \in Rib, NEW s \in Slot, SetPath(t, r, s)
      PROVE  TalliedOnce'
  BY <1>4
  DEF TypeOK, PtrOrNil, Label, Locked, Flushing, LockDiscipline, tableVars,
      threadVars, Goto, DetachedUnreachable, TalliedOnce, Slot, SetPath
<1>5. ASSUME NEW t \in Thread, NEW from \in {"insertFree", "deleteFree"},
             NEW to \in {"insert", "delete"}, ReleaseOld(t, from, to)
      PROVE  TalliedOnce'
  BY <1>5
  DEF TypeOK, PtrOrNil, Label, Locked, Flushing, LockDiscipline, tableVars,
      threadVars, Goto, DetachedUnreachable, TalliedOnce, Slot, ReleaseOld
<1>6. ASSUME NEW t \in Thread, NEW r \in Rib, NEW l \in Loc, DeletePath(t, r, l)
      PROVE  TalliedOnce'
  BY <1>6
  DEF TypeOK, PtrOrNil, Label, Locked, Flushing, LockDiscipline, tableVars,
      threadVars, Goto, DetachedUnreachable, TalliedOnce, Slot, DeletePath
<1>7. ASSUME NEW r \in Rib, MarkAllStale(r)
      PROVE  TalliedOnce'
  BY <1>7
  DEF TypeOK, PtrOrNil, Label, Locked, Flushing, LockDiscipline, tableVars,
      threadVars, Goto, DetachedUnreachable, TalliedOnce, Slot, MarkAllStale
<1>8. ASSUME NEW t \in Thread, NEW r \in Rib, NEW l \in Loc, SweepPath(t, r, l)
      PROVE  TalliedOnce'
  <2> DEFINE s == <<root[r], l>>
  <2>1. /\ tree' = [tree EXCEPT ![s] = NoPtr]
        /\ tally' = [tally EXCEPT ![<<t, l>>] = tree[s]]
        /\ pc[t] = "sweep" /\ s \in Slot /\ rmu[r] = t
        /\ UNCHANGED <<pc, rmu, root, oldRoot>>
    BY <1>8 DEF TypeOK, Slot, SweepPath
  <2>2. \A q \in Rib : rmu[q] = t => q = r
    BY <2>1, SharedAssumption DEF LockDiscipline
  <2>3. tree'[s] = NoPtr /\ \A y \in Slot : tree[y] = NoPtr => tree'[y] = NoPtr
    BY <2>1 DEF TypeOK
  <2>4. \A u \in Thread, m \in Loc :
          tally'[<<u, m>>] # NoPtr => tally[<<u, m>>] # NoPtr \/ (u = t /\ m = l)
    BY <2>1 DEF TypeOK
  <2>5. ASSUME NEW u \in Thread, NEW m \in Loc, tally[<<u, m>>] # NoPtr
        PROVE  /\ pc[u] \in {"sweep", "collect"} \union Flushing
               /\ pc[u] = "collect" => tree'[<<oldRoot[u], m>>] = NoPtr
               /\ \A q \in Rib : rmu[q] = u => tree'[<<root[q], m>>] = NoPtr
    BY <2>3, <2>5 DEF TalliedOnce, TypeOK, Slot, LockDiscipline
  <2> QED BY <2>1, <2>2, <2>3, <2>4, <2>5 DEF TalliedOnce
<1>9. ASSUME NEW t \in Thread, NEW r \in Rib, SweepDone(t, r)
      PROVE  TalliedOnce'
  BY <1>9
  DEF TypeOK, PtrOrNil, Label, Locked, Flushing, LockDiscipline, tableVars,
      threadVars, Goto, DetachedUnreachable, TalliedOnce, Slot, SweepDone
<1>10. ASSUME NEW t \in Thread, NEW r \in Rib, NEW T \in Tree, ResetSwap(t, r, T)
      PROVE  TalliedOnce'
  BY <1>10
  DEF TypeOK, PtrOrNil, Label, Locked, Flushing, LockDiscipline, tableVars,
      threadVars, Goto, DetachedUnreachable, TalliedOnce, Slot, ResetSwap
<1>11. ASSUME NEW t \in Thread, NEW l \in Loc, CollectPath(t, l)
      PROVE  TalliedOnce'
  <2> DEFINE s == <<oldRoot[t], l>>
  <2>1. /\ tree' = [tree EXCEPT ![s] = NoPtr]
        /\ tally' = [tally EXCEPT ![<<t, l>>] = tree[s]]
        /\ pc[t] = "collect" /\ s \in Slot
        /\ UNCHANGED <<pc, rmu, root, oldRoot>>
    BY <1>11
    DEF TypeOK, PtrOrNil, Label, Locked, Flushing, LockDiscipline, tableVars,
        threadVars, Goto, Slot, CollectPath
  <2>2. \A r \in Rib : rmu[r] # t
    BY <2>1 DEF LockDiscipline, TypeOK, Locked
  <2>3. \A u \in Thread : pc[u] = "collect" /\ u # t => oldRoot[u] # oldRoot[t]
    BY <2>1 DEF DetachedUnreachable, LockDiscipline
  <2>4. ASSUME NEW u \in Thread, NEW m \in Loc, tally'[<<u, m>>] # NoPtr, u # t
        PROVE  tally[<<u, m>>] = tally'[<<u, m>>]
    BY <2>1, <2>4 DEF TypeOK
  <2>5. \A x \in Slot : tree[x] = NoPtr => tree'[x] = NoPtr
    BY <2>1 DEF TypeOK
  <2>6. tree'[s] = NoPtr
    BY <2>1 DEF TypeOK
  <2>7. \A m \in Loc : tally'[<<t, m>>] # NoPtr => m = l \/ tally[<<t, m>>] # NoPtr
    BY <2>1 DEF TypeOK
  <2>8. ASSUME NEW m \in Loc, tally'[<<t, m>>] # NoPtr
        PROVE  tree'[<<oldRoot[t], m>>] = NoPtr
    BY <2>1, <2>5, <2>6, <2>7, <2>8 DEF TalliedOnce, TypeOK, Slot
  <2>9. ASSUME NEW u \in Thread, NEW m \in Loc, u # t, tally'[<<u, m>>] # NoPtr
        PROVE  /\ pc[u] \in {"sweep", "collect"} \union Flushing
               /\ pc[u] = "collect" => tree'[<<oldRoot[u], m>>] = NoPtr
               /\ \A r \in Rib : rmu[r] = u => tree'[<<root[r], m>>] = NoPtr
    BY <2>4, <2>5, <2>9 DEF TalliedOnce, TypeOK, Slot, LockDiscipline
  <2> QED BY <2>1, <2>2, <2>8, <2>9 DEF TalliedOnce
<1>12. ASSUME NEW t \in Thread, CollectDone(t)
      PROVE  TalliedOnce'
  BY <1>12
  DEF TypeOK, PtrOrNil, Label, Locked, Flushing, LockDiscipline, tableVars,
      threadVars, Goto, DetachedUnreachable, TalliedOnce, Slot, CollectDone
<1>13. ASSUME NEW t \in Thread, ReleaseNEmpty(t)
      PROVE  TalliedOnce'
  <2>1. \A l \in Loc : tally[<<t, l>>] = NoPtr
    BY <1>13 DEF ReleaseNEmpty, Tallied
  <2> QED BY <1>13, <2>1
  DEF TypeOK, PtrOrNil, Label, Locked, Flushing, LockDiscipline, tableVars,
      threadVars, Goto, TalliedOnce, ReleaseNEmpty
<1>14. ASSUME NEW t \in Thread, ReleaseNLock(t)
      PROVE  TalliedOnce'
  BY <1>14
  DEF TypeOK, PtrOrNil, Label, Locked, Flushing, LockDiscipline, tableVars,
      threadVars, Goto, DetachedUnreachable, TalliedOnce, Slot, ReleaseNLock
<1>15. ASSUME NEW t \in Thread, NEW p \in Ptr, ReleaseNItem(t, p)
      PROVE  TalliedOnce'
  BY <1>15
  DEF TypeOK, PtrOrNil, Label, Locked, Flushing, LockDiscipline, tableVars,
      threadVars, Goto, DetachedUnreachable, TalliedOnce, Slot, ReleaseNItem
<1>16. ASSUME NEW t \in Thread, ReleaseNRelock(t)
      PROVE  TalliedOnce'
  BY <1>16
  DEF TypeOK, PtrOrNil, Label, Locked, Flushing, LockDiscipline, tableVars,
      threadVars, Goto, DetachedUnreachable, TalliedOnce, Slot, ReleaseNRelock
<1>17. ASSUME NEW t \in Thread, ReleaseNDone(t)
      PROVE  TalliedOnce'
  <2>1. \A l \in Loc : tally[<<t, l>>] = NoPtr
    BY <1>17 DEF ReleaseNDone, Tallied
  <2> QED BY <1>17, <2>1
  DEF TypeOK, PtrOrNil, Label, Locked, Flushing, LockDiscipline, tableVars,
      threadVars, Goto, TalliedOnce, ReleaseNDone
<1>18. CASE UNCHANGED vars
  BY <1>18
  DEF TypeOK, PtrOrNil, Label, Locked, Flushing, LockDiscipline, tableVars,
      threadVars, Goto, DetachedUnreachable, TalliedOnce, Slot, vars,
      tableVars, threadVars
<1> QED
  BY <1>1, <1>2, <1>3, <1>4, <1>5, <1>6, <1>7, <1>8, <1>9, <1>10, <1>11,
     <1>12, <1>13, <1>14, <1>15, <1>16, <1>17, <1>18
  DEF Next, Step, Begin, InsertRoute, DeleteRoute, Sweep, Collect, ReleaseN
-----------------------------------------------------------------------------
(* Reference counts *)

Refs(p) == Count(tree, p) + Count(hand, p) + Count(tally, p)

(* A pointer has fewer references than the counter has values, and none     *)
(* exactly when no place holds it.                                          *)
LEMMA RefsRange ==
  ASSUME TypeOK, NEW p
  PROVE  /\ Refs(p) \in 0 .. RefLimit - 1
         /\ Refs(p) = 0 <=> p \notin Held
         /\ Count(tree, p) \in Nat /\ Count(hand, p) \in Nat
         /\ Count(tally, p) \in Nat
<1>1. /\ Count(tree, p) \in Nat /\ Count(tree, p) <= Cardinality(Slot)
      /\ Count(tree, p) = 0 <=> \A s \in Slot : tree[s] # p
  BY FinitePlaces, CountRange DEF TypeOK
<1>2. /\ Count(hand, p) \in Nat /\ Count(hand, p) <= Cardinality(Thread)
      /\ Count(hand, p) = 0 <=> \A t \in Thread : hand[t] # p
  BY FinitePlaces, CountRange DEF TypeOK
<1>3. /\ Count(tally, p) \in Nat
      /\ Count(tally, p) <= Cardinality(Thread \X Loc)
      /\ Count(tally, p) = 0 <=> \A x \in Thread \X Loc : tally[x] # p
  BY FinitePlaces, CountRange DEF TypeOK
<1>4. p \notin Held <=> /\ \A s \in Slot : tree[s] # p
                        /\ \A t \in Thread : hand[t] # p
                        /\ \A x \in Thread \X Loc : tally[x] # p
  BY DEF Held
<1>5. Refs(p) \in 0 .. RefLimit - 1
  BY <1>1, <1>2, <1>3, FinitePlaces, SharedAssumption, AttrAssumption DEF Refs
<1>6. Refs(p) = 0 <=> /\ Count(tree, p) = 0 /\ Count(hand, p) = 0
                      /\ Count(tally, p) = 0
  BY <1>1, <1>2, <1>3 DEF Refs
<1> QED BY <1>1, <1>2, <1>3, <1>4, <1>5, <1>6

(* The same of the next state. *)
LEMMA RefsRangeNext ==
  ASSUME TypeOK', NEW p
  PROVE  Refs(p)' \in 0 .. RefLimit - 1
<1>1. /\ Count(tree, p)' \in Nat /\ Count(tree, p)' <= Cardinality(Slot)
  <2>1. DOMAIN tree' = Slot
    BY DEF TypeOK
  <2> QED BY <2>1, FinitePlaces, CountRange
<1>2. /\ Count(hand, p)' \in Nat /\ Count(hand, p)' <= Cardinality(Thread)
  <2>1. DOMAIN hand' = Thread
    BY DEF TypeOK
  <2> QED BY <2>1, FinitePlaces, CountRange
<1>3. /\ Count(tally, p)' \in Nat
      /\ Count(tally, p)' <= Cardinality(Thread \X Loc)
  <2>1. DOMAIN tally' = Thread \X Loc
    BY DEF TypeOK
  <2> QED BY <2>1, FinitePlaces, CountRange
<1> QED
  BY <1>1, <1>2, <1>3, FinitePlaces, SharedAssumption, AttrAssumption DEF Refs

(* Two places that exchange what they hold leave every count alone.         *)
LEMMA CountSwap ==
  ASSUME NEW S, IsFiniteSet(S), NEW f, NEW f2, DOMAIN f = S, DOMAIN f2 = S,
         NEW T, IsFiniteSet(T), NEW g, NEW g2, DOMAIN g = T, DOMAIN g2 = T,
         NEW s \in S, NEW x \in T, f2[s] = g[x], g2[x] = f[s],
         \A y \in S \ {s} : f2[y] = f[y],
         \A y \in T \ {x} : g2[y] = g[y],
         NEW p
  PROVE  Count(f2, p) + Count(g2, p) = Count(f, p) + Count(g, p)
<1>1. Count(f2, p) = Count(f, p) + (IF g[x] = p THEN 1 ELSE 0)
                                 - (IF f[s] = p THEN 1 ELSE 0)
  BY CountUpdate
<1>2. Count(g2, p) = Count(g, p) + (IF f[s] = p THEN 1 ELSE 0)
                                 - (IF g[x] = p THEN 1 ELSE 0)
  BY CountUpdate
<1>3. Count(f, p) \in Nat /\ Count(g, p) \in Nat
  BY CountRange
<1> QED BY <1>1, <1>2, <1>3

(* Moving a pointer from one place to another leaves every count of         *)
(* references alone: setPath, ...                                           *)
LEMMA SetPathRefs ==
  ASSUME TypeOK, TypeOK', LockDiscipline,
         NEW t \in Thread, NEW r \in Rib, NEW s \in Slot, SetPath(t, r, s),
         NEW p
  PROVE  Refs(p)' = Refs(p)
<1> DEFINE new == <<root[r], loc[t]>>
           tree1 == [tree EXCEPT ![new] = hand[t]]
           hand1 == [hand EXCEPT ![t] = tree[new]]
<1>1. /\ UNCHANGED tally
      /\ DOMAIN tree = Slot /\ DOMAIN tree' = Slot
      /\ DOMAIN hand = Thread /\ DOMAIN hand' = Thread
  BY DEF SetPath, LockDiscipline, TypeOK
<1>2. new \in Slot
  BY DEF SetPath, LockDiscipline, TypeOK, Slot
<1>3. s # new => tree[new] = NoPtr
  BY <1>2 DEF SetPath, Replaceable
<1>4. /\ DOMAIN tree1 = Slot /\ tree1[new] = hand[t]
      /\ \A y \in Slot \ {new} : tree1[y] = tree[y]
  BY <1>1, <1>2
<1>5. /\ DOMAIN hand1 = Thread /\ hand1[t] = tree[new]
      /\ \A y \in Thread \ {t} : hand1[y] = hand[y]
  BY <1>1
<1>6. /\ hand'[t] = tree[s]
      /\ \A y \in Thread \ {t} : hand'[y] = hand[y]
  BY DEF SetPath, TypeOK
<1>7. Count(tree', p) + Count(hand', p) = Count(tree, p) + Count(hand, p)
  <2>1. CASE s = new
    <3>1. tree'[s] = hand[t] /\ \A y \in Slot \ {s} : tree'[y] = tree[y]
      BY <2>1 DEF SetPath, TypeOK
    <3> HIDE DEF new, tree1, hand1
    <3> QED BY <3>1, <1>1, <1>6, FinitePlaces, CountSwap
  <2>2. CASE s # new
    <3> HIDE DEF new, tree1, hand1
    <3>1. Count(tree1, p) + Count(hand1, p) = Count(tree, p) + Count(hand, p)
      BY <1>1, <1>2, <1>4, <1>5, FinitePlaces, CountSwap
    <3>2. tree'[s] = NoPtr /\ \A y \in Slot \ {s} : tree'[y] = tree1[y]
      <4>1. tree' = [x \in Slot |-> IF x = new THEN hand[t]
                                   ELSE IF x = s THEN NoPtr ELSE tree[x]]
        BY DEF SetPath, new
      <4> QED BY <2>2, <1>2, <1>4, <4>1
    <3>3. tree1[s] = tree[s] /\ hand1[t] = NoPtr
      BY <2>2, <1>3, <1>4, <1>5
    <3>4. \A y \in Thread \ {t} : hand'[y] = hand1[y]
      BY <1>5, <1>6
    <3>5. Count(tree', p) + Count(hand', p) = Count(tree1, p) + Count(hand1, p)
      BY <1>1, <1>4, <1>5, <1>6, <3>2, <3>3, <3>4, FinitePlaces, CountSwap, SMTT(30)
    <3> QED BY <3>1, <3>5
  <2> QED BY <2>1, <2>2
<1>8. Refs(p)' = Count(tree', p) + Count(hand', p) + Count(tally', p)
  BY DEF Refs, Count
<1> QED BY <1>1, <1>7, <1>8 DEF Refs

(* ... deletePath, ...                                                      *)
LEMMA DeletePathRefs ==
  ASSUME TypeOK, TypeOK', LockDiscipline,
         NEW t \in Thread, NEW r \in Rib, NEW l \in Loc, DeletePath(t, r, l),
         NEW p
  PROVE  Refs(p)' = Refs(p)
<1> DEFINE s == <<root[r], l>>
<1>1. /\ s \in Slot
      /\ tree'[s] = hand[t] /\ hand'[t] = tree[s]
      /\ \A y \in Slot \ {s} : tree'[y] = tree[y]
      /\ \A y \in Thread \ {t} : hand'[y] = hand[y]
      /\ DOMAIN tree = Slot /\ DOMAIN tree' = Slot
      /\ DOMAIN hand = Thread /\ DOMAIN hand' = Thread
      /\ UNCHANGED tally
  BY DEF DeletePath, LockDiscipline, TypeOK, Slot
<1> HIDE DEF s
<1>2. Count(tree', p) + Count(hand', p) = Count(tree, p) + Count(hand, p)
  BY <1>1, FinitePlaces, CountSwap
<1>3. Refs(p)' = Count(tree', p) + Count(hand', p) + Count(tally', p)
  BY DEF Refs, Count
<1> QED BY <1>1, <1>2, <1>3 DEF Refs

(* ... and the two walks that fill a tally.                                 *)
LEMMA TallyRefs ==
  ASSUME TypeOK, TypeOK', LockDiscipline, TalliedOnce, StaleIsPath,
         NEW t \in Thread, NEW l \in Loc,
         \/ CollectPath(t, l)
         \/ \E r \in Rib : SweepPath(t, r, l),
         NEW p
  PROVE  Refs(p)' = Refs(p)
<1>1. PICK T \in Tree :
        /\ tree[<<T, l>>] # NoPtr
        /\ tally[<<t, l>>] = NoPtr
        /\ tree' = [tree EXCEPT ![<<T, l>>] = NoPtr]
        /\ tally' = [tally EXCEPT ![<<t, l>>] = tree[<<T, l>>]]
        /\ UNCHANGED hand
  <2>1. CASE CollectPath(t, l)
    <3>1. oldRoot[t] \in Tree
      BY <2>1 DEF CollectPath, LockDiscipline, TypeOK
    <3>2. tally[<<t, l>>] = NoPtr
      BY <2>1 DEF CollectPath, TalliedOnce
    <3> QED BY <2>1, <3>1, <3>2 DEF CollectPath
  <2>2. ASSUME NEW r \in Rib, SweepPath(t, r, l)
        PROVE  /\ root[r] \in Tree
               /\ tree[<<root[r], l>>] # NoPtr
               /\ tally[<<t, l>>] = NoPtr
               /\ tree' = [tree EXCEPT ![<<root[r], l>>] = NoPtr]
               /\ tally' = [tally EXCEPT ![<<t, l>>] = tree[<<root[r], l>>]]
               /\ UNCHANGED hand
    <3>1. <<root[r], l>> \in stale /\ pc[t] = "sweep" /\ rmu[r] = t
      BY <2>2 DEF SweepPath
    <3>2. root[r] \in Tree /\ tree[<<root[r], l>>] # NoPtr
      BY <3>1 DEF StaleIsPath, TypeOK
    <3>3. tally[<<t, l>>] = NoPtr
      BY <3>1, <3>2 DEF TalliedOnce
    <3> QED BY <2>2, <3>2, <3>3 DEF SweepPath
  <2> QED BY <2>1, <2>2
<1> DEFINE s == <<T, l>>
           x == <<t, l>>
<1>2. /\ s \in Slot /\ x \in Thread \X Loc
      /\ tree'[s] = tally[x] /\ tally'[x] = tree[s]
      /\ \A y \in Slot \ {s} : tree'[y] = tree[y]
      /\ \A y \in (Thread \X Loc) \ {x} : tally'[y] = tally[y]
      /\ DOMAIN tree = Slot /\ DOMAIN tree' = Slot
      /\ DOMAIN tally = Thread \X Loc /\ DOMAIN tally' = Thread \X Loc
      /\ UNCHANGED hand
  BY <1>1 DEF TypeOK, Slot
<1> HIDE DEF s, x
<1>3. Count(tree', p) + Count(tally', p) = Count(tree, p) + Count(tally, p)
  BY <1>2, FinitePlaces, CountSwap
<1>4. Refs(p)' = Count(tree', p) + Count(hand', p) + Count(tally', p)
  BY DEF Refs, Count
<1>5. /\ Count(tree, p) \in Nat /\ Count(hand, p) \in Nat
      /\ Count(tally, p) \in Nat
  BY RefsRange
<1>6. Count(tree', p) \in Nat /\ Count(tally', p) \in Nat
  BY <1>2, FinitePlaces, CountRange
<1> QED BY <1>2, <1>3, <1>4, <1>5, <1>6 DEF Refs

-----------------------------------------------------------------------------
(* The table *)

CountInv == RefCountExact /\ InternedIffCounted /\ Deduplicated

(* A counter that stays below its limit never wraps. *)
LEMMA NoWrap ==
  \A n \in 0 .. RefLimit - 1 : n % RefLimit = n
BY AttrAssumption

(* Removing an interned copy removes it from its bucket and no other copy.  *)
LEMMA RemoveEffect ==
  ASSUME TypeOK, InternedIffCounted, NEW p \in Interned, removeLocked(p)
  PROVE  /\ \A h \in Hash : entries'[h] = entries[h] \ {p}
         /\ Interned' = Interned \ {p}
<1>1. /\ p \in Ptr /\ hashAttributes[content[p]] \in Hash
      /\ \A h \in Hash : h # hashAttributes[content[p]] => p \notin entries[h]
  BY AttrAssumption DEF InternedIffCounted, Interned, TypeOK, TableTypeOK
<1>2. \A h \in Hash : entries'[h] = entries[h] \ {p}
  BY <1>1 DEF removeLocked, TypeOK, TableTypeOK
<1> QED BY <1>2 DEF Interned

(* What keeps the table consistent when one copy, and only one, may leave.  *)
LEMMA TableAfterRelease ==
  ASSUME TypeOK, InternedIffCounted, Deduplicated, NEW p \in Ptr,
         p \in Interned, UNCHANGED content,
         \A q \in Ptr \ {p} : refCount'[q] = refCount[q],
         \/ refCount'[p] = 0 /\ removeLocked(p)
         \/ refCount'[p] > 0 /\ UNCHANGED entries
  PROVE  InternedIffCounted' /\ Deduplicated'
<1>1. CASE refCount'[p] = 0 /\ removeLocked(p)
  <2>1. /\ \A h \in Hash : entries'[h] = entries[h] \ {p}
        /\ Interned' = Interned \ {p}
    BY <1>1, RemoveEffect
  <2>2. \A q \in Ptr : q \in Interned' <=> refCount'[q] > 0
    BY <2>1, <1>1 DEF InternedIffCounted
  <2>3. \A h \in Hash : \A q \in entries'[h] : hashAttributes[content'[q]] = h
    BY <2>1 DEF InternedIffCounted
  <2> QED BY <2>1, <2>2, <2>3 DEF InternedIffCounted, Deduplicated
<1>2. CASE refCount'[p] > 0 /\ UNCHANGED entries
  <2>1. Interned' = Interned
    BY <1>2 DEF Interned
  <2> QED BY <2>1, <1>2 DEF InternedIffCounted, Deduplicated
<1> QED BY <1>1, <1>2

(* getOrInsert: the caller's new reference is the one that is counted. *)
LEMMA InternCounts ==
  ASSUME TypeOK, TypeOK', LockDiscipline, CountInv,
         NEW t \in Thread, NEW l \in Loc, NEW in \in Attr \union {NilAttr},
         NEW p \in Ptr, InternStep(t, l, in, p)
  PROVE  CountInv'
<1> DEFINE a == ValueOf(in)
<1> USE AttrAssumption
<1>1. a \in Attr
  BY DEF ValueOf
<1>2. /\ hand[t] = NoPtr /\ hand'[t] = p
      /\ \A u \in Thread \ {t} : hand'[u] = hand[u]
      /\ DOMAIN hand = Thread /\ DOMAIN hand' = Thread
      /\ UNCHANGED <<tree, tally>>
  BY DEF InternStep, LockDiscipline, TypeOK
<1>3. ASSUME NEW q \in Ptr
      PROVE  Refs(q)' = Refs(q) + (IF q = p THEN 1 ELSE 0)
  <2>1. Count(hand', q) = Count(hand, q) + (IF p = q THEN 1 ELSE 0)
                                         - (IF hand[t] = q THEN 1 ELSE 0)
    BY <1>2, FinitePlaces, CountUpdate
  <2>2. Refs(q)' = Count(tree', q) + Count(hand', q) + Count(tally', q)
    BY DEF Refs, Count
  <2>3. /\ Count(tree, q) \in Nat /\ Count(hand, q) \in Nat
        /\ Count(tally, q) \in Nat
    BY RefsRange
  <2>4. hand[t] # q
    BY <1>2
  <2> QED BY <1>2, <2>1, <2>2, <2>3, <2>4 DEF Refs
<1>4. \A q \in Ptr : refCount[q] = Refs(q) /\ Refs(q)' \in 0 .. RefLimit - 1
  BY RefsRangeNext DEF CountInv, RefCountExact, Refs
<1>5. \A q \in Ptr : q \notin Held => Refs(q) = 0
  BY RefsRange
<1>6. \A q \in Ptr : Refs(q) \in Nat
  BY RefsRange
<1> HIDE DEF a
<1>7. CASE Share(a, p)
  <2>1. /\ refCount' = [refCount EXCEPT ![p] = (@ + 1) % RefLimit]
        /\ UNCHANGED <<entries, content>>
    BY <1>7 DEF Share
  <2>2. p \in Interned
    BY <1>1, <1>7 DEF Share, Copies, Interned
  <2>3. (refCount[p] + 1) % RefLimit = refCount[p] + 1
    BY <1>3, <1>4, NoWrap
  <2>4. \A q \in Ptr : refCount'[q] = Refs(q)'
    BY <1>3, <1>4, <2>1, <2>3, <1>6 DEF TypeOK, TableTypeOK
  <2>5. Interned' = Interned
    BY <2>1 DEF Interned
  <2>6. \A q \in Ptr : refCount'[q] > 0 <=> refCount[q] > 0
    BY <1>3, <1>4, <1>6, <2>2, <2>4 DEF CountInv, InternedIffCounted
  <2> QED
    BY <2>1, <2>4, <2>5, <2>6
    DEF CountInv, RefCountExact, InternedIffCounted, Deduplicated, Refs
<1>8. CASE Intern(a, p, Held)
  <2>1. /\ content' = [content EXCEPT ![p] = a]
        /\ refCount' = [refCount EXCEPT ![p] = 1]
        /\ entries' = [entries EXCEPT ![hashAttributes[a]] = @ \union {p}]
        /\ p \notin Interned /\ p \notin Held /\ Copies(a) = {}
    BY <1>8 DEF Intern
  <2>2. \A q \in Ptr : refCount'[q] = Refs(q)'
    BY <1>3, <1>4, <1>5, <1>6, <2>1 DEF TypeOK, TableTypeOK
  <2>3. \A h \in Hash : entries'[h] = IF h = hashAttributes[a]
                                        THEN entries[h] \union {p} ELSE entries[h]
    BY <1>1, <2>1 DEF TypeOK, TableTypeOK
  <2>4. Interned' = Interned \union {p}
    <3>1. hashAttributes[a] \in Hash
      BY <1>1
    <3>2. \A q : q \in Interned' <=> \E h \in Hash : q \in entries'[h]
      BY DEF Interned
    <3>3. \A q : q \in Interned <=> \E h \in Hash : q \in entries[h]
      BY DEF Interned
    <3> QED BY <2>3, <3>1, <3>2, <3>3
  <2>5. /\ content'[p] = a
        /\ \A q \in Ptr \ {p} : content'[q] = content[q]
        /\ refCount'[p] = 1
        /\ \A q \in Ptr \ {p} : refCount'[q] = refCount[q]
    BY <2>1 DEF TypeOK, TableTypeOK
  <2>6. Interned \subseteq Ptr /\ \A h \in Hash : p \notin entries[h]
    BY <2>1 DEF TypeOK, TableTypeOK, Interned
  <2>7. InternedIffCounted'
    <3>1. \A q \in Ptr : q \in Interned' <=> refCount'[q] > 0
      BY <2>4, <2>5 DEF CountInv, InternedIffCounted
    <3>2. ASSUME NEW h \in Hash, NEW q \in entries'[h]
          PROVE  hashAttributes[content'[q]] = h
      <4>1. CASE q = p
        BY <4>1, <2>3, <2>5, <2>6
      <4>2. CASE q # p
        <5>1. q \in entries[h] /\ q \in Ptr
          BY <4>2, <2>3 DEF TypeOK, TableTypeOK
        <5> QED BY <4>2, <5>1, <2>5 DEF CountInv, InternedIffCounted
      <4> QED BY <4>1, <4>2
    <3> QED BY <3>1, <3>2 DEF InternedIffCounted
  <2>8. \A q \in Interned : content[q] # a
    BY <1>1, <2>1 DEF CountInv, InternedIffCounted, Interned, Copies
  <2>9. Deduplicated'
    BY <2>4, <2>5, <2>6, <2>8 DEF CountInv, Deduplicated
  <2> QED BY <2>2, <2>7, <2>9 DEF CountInv, RefCountExact, Refs
<1> QED BY <1>7, <1>8 DEF InternStep, getOrInsert, a

(* release: the reference that was in flight is no longer counted. *)
LEMMA ReleaseCounts ==
  ASSUME TypeOK, TypeOK', LockDiscipline, CountInv, NEW t \in Thread,
         NEW from \in {"insertFree", "deleteFree"},
         NEW to \in {"insert", "delete"}, ReleaseOld(t, from, to)
  PROVE  CountInv'
<1> DEFINE p == hand[t]
<1> USE AttrAssumption
<1>1. /\ p \in Ptr /\ hand'[t] = NoPtr
      /\ \A u \in Thread \ {t} : hand'[u] = hand[u]
      /\ DOMAIN hand = Thread /\ DOMAIN hand' = Thread
      /\ UNCHANGED <<tree, tally>>
  BY DEF ReleaseOld, LockDiscipline, TypeOK, PtrOrNil
<1>2. release(p)
  BY DEF ReleaseOld
<1>3. \A q \in Ptr : /\ refCount[q] = Refs(q) /\ Refs(q) \in 0 .. RefLimit - 1
                     /\ Count(tree, q) \in Nat /\ Count(hand, q) \in Nat
                     /\ Count(tally, q) \in Nat
  BY RefsRange DEF CountInv, RefCountExact, Refs
<1>4. ASSUME NEW q \in Ptr
      PROVE  Refs(q)' = Refs(q) - (IF q = p THEN 1 ELSE 0)
  <2>1. Count(hand', q) = Count(hand, q) + (IF NoPtr = q THEN 1 ELSE 0)
                                         - (IF hand[t] = q THEN 1 ELSE 0)
    BY <1>1, FinitePlaces, CountUpdate
  <2>2. Refs(q)' = Count(tree', q) + Count(hand', q) + Count(tally', q)
    BY DEF Refs, Count
  <2>3. NoPtr # q
    OBVIOUS
  <2> QED BY <1>1, <1>3, <2>1, <2>2, <2>3 DEF Refs
<1>5. Refs(p) > 0
  BY <1>1, <1>3, RefsRange DEF Held
<1> HIDE DEF p
<1>6. refCount' = [refCount EXCEPT ![p] = @ - 1]
  <2>1. (refCount[p] - 1) % RefLimit = refCount[p] - 1
    BY <1>1, <1>3, <1>5, NoWrap
  <2> QED BY <2>1, <1>2 DEF release
<1>7. \A q \in Ptr : refCount'[q] = refCount[q] - (IF q = p THEN 1 ELSE 0)
  BY <1>1, <1>3, <1>6 DEF TypeOK, TableTypeOK
<1>8. RefCountExact'
  BY <1>3, <1>4, <1>7 DEF RefCountExact, Refs
<1>9. p \in Interned
  BY <1>1, <1>3, <1>5 DEF CountInv, InternedIffCounted
<1>10. \/ refCount'[p] = 0 /\ removeLocked(p)
       \/ refCount'[p] > 0 /\ UNCHANGED entries
  BY <1>1, <1>2, <1>3, <1>5, <1>7 DEF release
<1>11. UNCHANGED content /\ \A q \in Ptr \ {p} : refCount'[q] = refCount[q]
  BY <1>2, <1>3, <1>7 DEF release
<1> QED
  BY <1>1, <1>8, <1>9, <1>10, <1>11, TableAfterRelease DEF CountInv

(* releaseN: the clamp of the loop body is never needed. *)
LEMMA ReleaseNCounts ==
  ASSUME TypeOK, TypeOK', CountInv, NEW t \in Thread, NEW p \in Ptr,
         ReleaseNItem(t, p)
  PROVE  CountInv'
<1> DEFINE C == {x \in Thread \X Loc : x[1] = t /\ tally[x] = p}
           n == TallyCount(t, p)
<1> USE AttrAssumption
<1>1. releaseNItem(p, n) /\ UNCHANGED <<tree, hand>>
  BY DEF ReleaseNItem
<1>2. /\ C \in SUBSET {x \in Thread \X Loc : tally[x] = p}
      /\ tally' = [x \in Thread \X Loc |-> IF x \in C THEN NoPtr ELSE tally[x]]
      /\ DOMAIN tally = Thread \X Loc
  BY DEF ReleaseNItem, TypeOK
<1>3. n = Cardinality(C)
  BY DEF TallyCount
<1> HIDE DEF C, n
<1>4. ASSUME NEW q \in Ptr
      PROVE  /\ Count(tally', q) = Count(tally, q) - (IF q = p THEN n ELSE 0)
             /\ n \in Nat /\ n <= Count(tally, p)
  BY <1>2, <1>3, FinitePlaces, CountClear, SMTT(30)
<1>5. \A q \in Ptr : /\ refCount[q] = Refs(q) /\ Refs(q) \in Nat
                     /\ Count(tree, q) \in Nat /\ Count(hand, q) \in Nat
                     /\ Count(tally, q) \in Nat
  BY RefsRange DEF CountInv, RefCountExact, Refs
<1>6. ASSUME NEW q \in Ptr
      PROVE  Refs(q)' = Refs(q) - (IF q = p THEN n ELSE 0)
  <2>1. Refs(q)' = Count(tree', q) + Count(hand', q) + Count(tally', q)
    BY DEF Refs, Count
  <2> QED BY <1>1, <1>4, <1>5, <2>1 DEF Refs
<1>7. n \in Nat /\ n <= refCount[p]
  BY <1>4, <1>5 DEF Refs
<1>8. /\ UNCHANGED content
      /\ \A q \in Ptr : refCount'[q] = refCount[q] - (IF q = p THEN n ELSE 0)
      /\ \/ refCount'[p] = 0 /\ removeLocked(p)
         \/ refCount'[p] > 0 /\ UNCHANGED entries
  <2>1. CASE n >= refCount[p]
    <3>1. /\ refCount' = [refCount EXCEPT ![p] = 0] /\ removeLocked(p)
          /\ UNCHANGED content
      BY <1>1, <2>1 DEF releaseNItem
    <3>2. refCount[p] = n /\ \A q \in Ptr : refCount[q] \in Nat
      BY <1>5, <1>7, <2>1
    <3>3. refCount'[p] = 0 /\ \A q \in Ptr \ {p} : refCount'[q] = refCount[q]
      BY <3>1 DEF TypeOK, TableTypeOK
    <3> QED BY <1>7, <3>1, <3>2, <3>3
  <2>2. CASE ~(n >= refCount[p])
    BY <1>1, <1>5, <1>7, <2>2 DEF releaseNItem, TypeOK, TableTypeOK
  <2> QED BY <2>1, <2>2
<1>9. RefCountExact'
  BY <1>5, <1>6, <1>8 DEF RefCountExact, Refs
<1>10. p \in Interned
  <2>1. p \in Held
    BY DEF ReleaseNItem, Tallied, Held
  <2>2. Refs(p) > 0
    BY <1>5, <2>1, RefsRange
  <2> QED BY <1>5, <2>2 DEF CountInv, InternedIffCounted
<1>11. \A q \in Ptr \ {p} : refCount'[q] = refCount[q]
  BY <1>5, <1>8
<1> QED
  BY <1>8, <1>9, <1>10, <1>11, TableAfterRelease DEF CountInv

(* A step that leaves the table alone and moves references keeps it exact.  *)
LEMMA CountMoved ==
  ASSUME CountInv, UNCHANGED <<entries, content, refCount>>,
         \A p \in Ptr : Refs(p)' = Refs(p)
  PROVE  CountInv'
<1>1. RefCountExact'
  BY DEF CountInv, RefCountExact, Refs
<1>2. Interned' = Interned
  BY DEF Interned
<1> QED BY <1>1, <1>2 DEF CountInv, InternedIffCounted, Deduplicated

(* Every step keeps the counts exact and the table in agreement with them.  *)
LEMMA CountStep ==
  IInv /\ TypeOK' /\ [Next]_vars => CountInv'
<1> SUFFICES ASSUME TypeOK, TypeOK', LockDiscipline, StaleIsPath, TalliedOnce,
                    CountInv, [Next]_vars
             PROVE  CountInv'
  BY DEF IInv, CountInv
<1>1. ASSUME NEW t \in Thread, NEW r \in Rib,
             NEW label \in {"insert", "delete", "sweep"}, Lock(t, r, label)
      PROVE  CountInv'
  <2>1. UNCHANGED <<entries, content, refCount, tree, hand, tally>>
    BY <1>1 DEF vars, tableVars, threadVars, Lock
  <2> QED
    BY <2>1
    DEF CountInv, RefCountExact, InternedIffCounted, Deduplicated, Interned, Count
<1>2. ASSUME NEW t \in Thread, NEW r \in Rib, Unlock(t, r)
      PROVE  CountInv'
  <2>1. UNCHANGED <<entries, content, refCount, tree, hand, tally>>
    BY <1>2 DEF vars, tableVars, threadVars, Unlock
  <2> QED
    BY <2>1
    DEF CountInv, RefCountExact, InternedIffCounted, Deduplicated, Interned, Count
<1>3. ASSUME NEW t \in Thread, NEW l \in Loc, NEW in \in Attr \union {NilAttr},
             NEW p \in Ptr, InternStep(t, l, in, p)
      PROVE  CountInv'
  BY <1>3, InternCounts
<1>4. ASSUME NEW t \in Thread, NEW r \in Rib, NEW s \in Slot, SetPath(t, r, s)
      PROVE  CountInv'
  <2>1. UNCHANGED <<entries, content, refCount>>
    BY <1>4 DEF tableVars, SetPath
  <2>2. \A p \in Ptr : Refs(p)' = Refs(p)
    BY <1>4, SetPathRefs
  <2> QED BY <2>1, <2>2, CountMoved
<1>5. ASSUME NEW t \in Thread, NEW from \in {"insertFree", "deleteFree"},
             NEW to \in {"insert", "delete"}, ReleaseOld(t, from, to)
      PROVE  CountInv'
  BY <1>5, ReleaseCounts
<1>6. ASSUME NEW t \in Thread, NEW r \in Rib, NEW l \in Loc, DeletePath(t, r, l)
      PROVE  CountInv'
  <2>1. UNCHANGED <<entries, content, refCount>>
    BY <1>6 DEF tableVars, DeletePath
  <2>2. \A p \in Ptr : Refs(p)' = Refs(p)
    BY <1>6, DeletePathRefs
  <2> QED BY <2>1, <2>2, CountMoved
<1>7. ASSUME NEW r \in Rib, MarkAllStale(r)
      PROVE  CountInv'
  <2>1. UNCHANGED <<entries, content, refCount, tree, hand, tally>>
    BY <1>7 DEF vars, tableVars, threadVars, MarkAllStale
  <2> QED
    BY <2>1
    DEF CountInv, RefCountExact, InternedIffCounted, Deduplicated, Interned, Count
<1>8. ASSUME NEW t \in Thread, NEW r \in Rib, NEW l \in Loc, SweepPath(t, r, l)
      PROVE  CountInv'
  <2>1. UNCHANGED <<entries, content, refCount>>
    BY <1>8 DEF tableVars, SweepPath
  <2>2. \A p \in Ptr : Refs(p)' = Refs(p)
    BY <1>8, TallyRefs
  <2> QED BY <2>1, <2>2, CountMoved
<1>9. ASSUME NEW t \in Thread, NEW r \in Rib, SweepDone(t, r)
      PROVE  CountInv'
  <2>1. UNCHANGED <<entries, content, refCount, tree, hand, tally>>
    BY <1>9 DEF vars, tableVars, threadVars, SweepDone
  <2> QED
    BY <2>1
    DEF CountInv, RefCountExact, InternedIffCounted, Deduplicated, Interned, Count
<1>10. ASSUME NEW t \in Thread, NEW r \in Rib, NEW T \in Tree, ResetSwap(t, r, T)
      PROVE  CountInv'
  <2>1. UNCHANGED <<entries, content, refCount, tree, hand, tally>>
    BY <1>10 DEF vars, tableVars, threadVars, ResetSwap
  <2> QED
    BY <2>1
    DEF CountInv, RefCountExact, InternedIffCounted, Deduplicated, Interned, Count
<1>11. ASSUME NEW t \in Thread, NEW l \in Loc, CollectPath(t, l)
      PROVE  CountInv'
  <2>1. UNCHANGED <<entries, content, refCount>>
    BY <1>11 DEF tableVars, CollectPath
  <2>2. \A p \in Ptr : Refs(p)' = Refs(p)
    BY <1>11, TallyRefs
  <2> QED BY <2>1, <2>2, CountMoved
<1>12. ASSUME NEW t \in Thread, CollectDone(t)
      PROVE  CountInv'
  <2>1. UNCHANGED <<entries, content, refCount, tree, hand, tally>>
    BY <1>12 DEF vars, tableVars, threadVars, CollectDone
  <2> QED
    BY <2>1
    DEF CountInv, RefCountExact, InternedIffCounted, Deduplicated, Interned, Count
<1>13. ASSUME NEW t \in Thread, ReleaseNEmpty(t)
      PROVE  CountInv'
  <2>1. UNCHANGED <<entries, content, refCount, tree, hand, tally>>
    BY <1>13 DEF vars, tableVars, threadVars, ReleaseNEmpty
  <2> QED
    BY <2>1
    DEF CountInv, RefCountExact, InternedIffCounted, Deduplicated, Interned, Count
<1>14. ASSUME NEW t \in Thread, ReleaseNLock(t)
      PROVE  CountInv'
  <2>1. UNCHANGED <<entries, content, refCount, tree, hand, tally>>
    BY <1>14 DEF vars, tableVars, threadVars, ReleaseNLock
  <2> QED
    BY <2>1
    DEF CountInv, RefCountExact, InternedIffCounted, Deduplicated, Interned, Count
<1>15. ASSUME NEW t \in Thread, NEW p \in Ptr, ReleaseNItem(t, p)
      PROVE  CountInv'
  BY <1>15, ReleaseNCounts
<1>16. ASSUME NEW t \in Thread, ReleaseNRelock(t)
      PROVE  CountInv'
  <2>1. UNCHANGED <<entries, content, refCount, tree, hand, tally>>
    BY <1>16 DEF vars, tableVars, threadVars, ReleaseNRelock
  <2> QED
    BY <2>1
    DEF CountInv, RefCountExact, InternedIffCounted, Deduplicated, Interned, Count
<1>17. ASSUME NEW t \in Thread, ReleaseNDone(t)
      PROVE  CountInv'
  <2>1. UNCHANGED <<entries, content, refCount, tree, hand, tally>>
    BY <1>17 DEF vars, tableVars, threadVars, ReleaseNDone
  <2> QED
    BY <2>1
    DEF CountInv, RefCountExact, InternedIffCounted, Deduplicated, Interned, Count
<1>18. CASE UNCHANGED vars
  <2>1. UNCHANGED <<entries, content, refCount, tree, hand, tally>>
    BY <1>18 DEF vars, tableVars, threadVars
  <2> QED
    BY <2>1
    DEF CountInv, RefCountExact, InternedIffCounted, Deduplicated, Interned, Count
<1> QED
  BY <1>1, <1>2, <1>3, <1>4, <1>5, <1>6, <1>7, <1>8, <1>9, <1>10, <1>11,
     <1>12, <1>13, <1>14, <1>15, <1>16, <1>17, <1>18
  DEF Next, Step, Begin, InsertRoute, DeleteRoute, Sweep, Collect, ReleaseN

-----------------------------------------------------------------------------
(* Theorems *)

(* The inductive invariant holds in the initial states ... *)
LEMMA InvariantInit == Init => IInv
<1> SUFFICES ASSUME Init PROVE IInv
  OBVIOUS
<1> USE AttrAssumption, SharedAssumption
<1>1. TypeOK
  BY DEF Init, TableInit, TypeOK, TableTypeOK, PtrOrNil, Label
<1>2. LockDiscipline
  BY <1>1 DEF Init, TypeOK, LockDiscipline, Locked
<1>3. DetachedUnreachable
  BY <1>1 DEF Init, TypeOK, DetachedUnreachable
<1>4. StaleIsPath /\ TalliedOnce
  BY <1>1 DEF Init, TypeOK, StaleIsPath, TalliedOnce
<1>5. Interned = {}
  BY DEF Init, TableInit, Interned
<1>6. InternedIffCounted /\ Deduplicated
  BY <1>5 DEF Init, TableInit, InternedIffCounted, Deduplicated
<1>7. \A p \in Ptr : p \notin Held
  BY DEF Init, Held
<1>8. RefCountExact
  BY <1>1, <1>7, RefsRange DEF Init, TableInit, RefCountExact, Refs
<1> QED BY <1>1, <1>2, <1>3, <1>4, <1>6, <1>8 DEF IInv

(* ... and is preserved by every step. *)
LEMMA InvariantStep == IInv /\ [Next]_vars => IInv'
BY TypeStep, LockStep, DetachedStep, StaleStep, TalliedStep, CountStep
DEF IInv, CountInv

(* The inductive invariant holds throughout.  Its first conjunct is the     *)
(* type invariant of the locks, tries, tallies and the table.               *)
THEOREM Invariance == Spec => []IInv
BY InvariantInit, InvariantStep, PTL DEF Spec

(* Every variable keeps its type: in particular no reference count leaves   *)
(* its word, and no attributes pointer outside the heap is ever stored.     *)
THEOREM TypeCorrect == Spec => []TypeOK
<1>1. IInv => TypeOK
  BY DEF IInv
<1> QED BY <1>1, Invariance, PTL

(* However many RIBs and goroutines share the table, a reference count is   *)
(* the number of trie slots, tallied paths and pointers in flight that hold *)
(* the attribute: nothing is released twice, and no release is forgotten.   *)
THEOREM RefCountsAreExact == Spec => []RefCountExact
<1>1. IInv => RefCountExact
  BY DEF IInv
<1> QED BY <1>1, Invariance, PTL

(* The pointers that are counted are the ones that are held. *)
LEMMA HeldInterned == IInv => InternedIffHeld
<1> SUFFICES ASSUME IInv PROVE InternedIffHeld
  OBVIOUS
<1>1. \A p \in Ptr : p \in Interned <=> refCount[p] > 0
  BY DEF IInv, InternedIffCounted
<1>2. \A p \in Ptr : /\ refCount[p] = Refs(p) /\ Refs(p) \in Nat
                     /\ Refs(p) = 0 <=> p \notin Held
  BY RefsRange DEF IInv, RefCountExact, Refs
<1>3. \A p \in Ptr : p \in Interned <=> p \in Held
  BY <1>1, <1>2
<1>4. Interned \subseteq Ptr /\ Held \ {NoPtr} \subseteq Ptr
  BY DEF IInv, TypeOK, TableTypeOK, Interned, Held, PtrOrNil
<1> QED BY <1>3, <1>4, AttrAssumption DEF InternedIffHeld

(* No attribute is purged while a trie, a tally or a caller still refers to *)
(* it, and none stays in the table that nobody refers to.                   *)
THEOREM NoDanglingNoLeak == Spec => []InternedIffHeld
BY HeldInterned, Invariance, PTL

(* Equal attributes are interned once, also under hash collisions. *)
THEOREM NoDuplicates == Spec => []Deduplicated
<1>1. IInv => Deduplicated
  BY DEF IInv
<1> QED BY <1>1, Invariance, PTL

(* The trie that Reset walks without its RIB's lock is out of everybody     *)
(* else's reach.                                                            *)
THEOREM DetachedIsPrivate == Spec => []DetachedUnreachable
<1>1. IInv => DetachedUnreachable
  BY DEF IInv
<1> QED BY <1>1, Invariance, PTL
-----------------------------------------------------------------------------
(* The table as a whole *)

(* The bytes of a copy, and those of a set of copies. *)
Sizes == [p \in Ptr |-> sliceSize[content[p]]]
Bytes(S) == Total(Sizes, S)

TableCounted ==
  /\ IsFiniteSet(Interned)
  /\ attrCount = Cardinality(Interned)
  /\ sliceBytes = Bytes(Interned)

(* An interned copy has a size. *)
LEMMA SizesAre ==
  ASSUME TypeOK
  PROVE  /\ Interned \subseteq Ptr
         /\ \A p \in Interned : Sizes[p] = sliceSize[content[p]] /\ Sizes[p] \in Int
<1>1. Interned \subseteq Ptr
  BY DEF TypeOK, TableTypeOK, Interned
<1>2. \A p \in Ptr : content[p] \in Attr /\ sliceSize[content[p]] \in Int
  BY AttrAssumption DEF TypeOK, TableTypeOK
<1> QED BY <1>1, <1>2 DEF Sizes

(* What a set of copies takes is what its contents take. *)
LEMMA BytesKept ==
  ASSUME TypeOK, TypeOK', NEW S \in SUBSET Interned, IsFiniteSet(S),
         \A p \in S : content'[p] = content[p]
  PROVE  Total(Sizes', S) = Bytes(S)
<1>1. S \subseteq Ptr /\ \A p \in S : Sizes[p] = sliceSize[content[p]] /\ Sizes[p] \in Int
  BY SizesAre
<1>2. \A p \in S : Sizes'[p] = Sizes[p]
  BY <1>1 DEF Sizes
<1>3. \A e : (\A p \in S : e[p] = Sizes[p]) => Total(e, S) = Total(Sizes, S)
  <2> DEFINE f == Sizes
  <2>1. \A p \in S : f[p] \in Int
    BY <1>1
  <2> HIDE DEF f
  <2>2. \A e : (\A p \in S : e[p] = f[p]) => Total(e, S) = Total(f, S)
    BY ONLY <2>1, IsFiniteSet(S), TotalSame
  <2> QED BY <2>2 DEF f
<1> QED BY <1>2, <1>3 DEF Bytes

(* An empty table counts no copies and no bytes. *)
LEMMA CountedInit == Init => TableCounted
<1> SUFFICES ASSUME Init PROVE TableCounted
  OBVIOUS
<1>1. Interned = {} /\ attrCount = 0 /\ sliceBytes = 0
  BY DEF Init, TableInit, Interned
<1>2. Bytes({}) = 0
  BY FS_EmptySet, TotalOf DEF Bytes
<1> QED BY <1>1, <1>2, FS_EmptySet DEF TableCounted

(* A copy that removeLocked finds is one copy less. *)
LEMMA RemoveCounted ==
  ASSUME TypeOK, TypeOK', InternedIffCounted, TableCounted, NEW p \in Ptr,
         removeLocked(p), UNCHANGED content
  PROVE  TableCounted'
<1> DEFINE h == hashAttributes[content[p]]
<1>1. h \in Hash
  BY AttrAssumption DEF TypeOK, TableTypeOK
<1>2. CASE p \in entries[h]
  <2>1. p \in Interned
    BY <1>1, <1>2 DEF Interned
  <2>2. /\ Interned' = Interned \ {p} /\ attrCount' = attrCount - 1
        /\ sliceBytes' = sliceBytes - sliceSize[content[p]]
    BY <1>2, <2>1, RemoveEffect DEF removeLocked
  <2>3. IsFiniteSet(Interned') /\ attrCount' = Cardinality(Interned')
    BY <2>1, <2>2, FS_RemoveElement DEF TableCounted
  <2>4. Bytes(Interned) = Sizes[p] + Bytes(Interned \ {p}) /\ Bytes(Interned \ {p}) \in Int
    <3> DEFINE f == Sizes
    <3>1. IsFiniteSet(Interned) /\ IsFiniteSet(Interned \ {p})
          /\ \A q \in Interned : f[q] \in Int
      BY <2>2, <2>3, SizesAre DEF TableCounted
    <3> HIDE DEF f
    <3>2. /\ Total(f, Interned) = f[p] + Total(f, Interned \ {p})
          /\ Total(f, Interned \ {p}) \in Int
      BY ONLY <2>1, <3>1, TotalOf
    <3> QED BY <3>2 DEF f, Bytes
  <2>5. Sizes[p] = sliceSize[content[p]] /\ Sizes[p] \in Int
    BY <2>1, SizesAre
  <2>6. Total(Sizes', Interned \ {p}) = Bytes(Interned \ {p})
    BY <2>2, <2>3, BytesKept
  <2>7. sliceBytes' = Bytes(Interned \ {p})
    BY <2>2, <2>4, <2>5 DEF TableCounted
  <2>8. sliceBytes' = Bytes(Interned)'
    BY <2>2, <2>6, <2>7 DEF Bytes
  <2> QED BY <2>3, <2>8 DEF TableCounted
<1>3. CASE p \notin entries[h]
  <2>1. \A g \in Hash : entries'[g] = entries[g]
    BY <1>1, <1>3 DEF removeLocked, TypeOK, TableTypeOK
  <2>2. Interned' = Interned
    BY <2>1 DEF Interned
  <2>3. attrCount' = attrCount /\ sliceBytes' = sliceBytes /\ Sizes' = Sizes
    BY <1>3 DEF removeLocked, Sizes
  <2> QED BY <2>2, <2>3 DEF TableCounted, Bytes
<1> QED BY <1>2, <1>3

(* A copy that is made is one copy more. *)
LEMMA InternCounted ==
  ASSUME TypeOK, TypeOK', TableCounted, NEW in \in Attr \union {NilAttr},
         NEW p \in Ptr, getOrInsert(in, p, Held)
  PROVE  TableCounted'
<1> DEFINE a == ValueOf(in)
<1>1. hashAttributes[a] \in Hash /\ a \in Attr
  BY AttrAssumption DEF ValueOf
<1>2. CASE Share(a, p)
  BY <1>2 DEF Share, TableCounted, Interned, Bytes, Sizes
<1>3. CASE Intern(a, p, Held)
  <2>1. \A g \in Hash : entries'[g] = IF g = hashAttributes[a]
                                        THEN entries[g] \union {p} ELSE entries[g]
    BY <1>1, <1>3 DEF Intern, TypeOK, TableTypeOK
  <2>2. /\ \A q : q \in Interned' <=> \E g \in Hash : q \in entries'[g]
        /\ \A q : q \in Interned <=> \E g \in Hash : q \in entries[g]
    BY DEF Interned
  <2>3. Interned' = Interned \union {p}
    BY <1>1, <2>1, <2>2
  <2>4. /\ p \notin Interned /\ attrCount' = attrCount + 1
        /\ sliceBytes' = sliceBytes + sliceSize[a]
    BY <1>3 DEF Intern
  <2>5. IsFiniteSet(Interned') /\ attrCount' = Cardinality(Interned')
    BY <2>3, <2>4, FS_AddElement DEF TableCounted
  <2>6. content'[p] = a /\ \A q \in Interned : content'[q] = content[q]
    BY <1>3, <2>4 DEF Intern, TypeOK, TableTypeOK
  <2>7. Total(Sizes', Interned) = Bytes(Interned)
    BY <2>6, BytesKept DEF TableCounted
  <2>8. Sizes'[p] = sliceSize[a] /\ \A q \in Interned' : Sizes'[q] \in Int
    <3>1. \A q \in Ptr : content'[q] \in Attr /\ sliceSize[content'[q]] \in Int
      BY AttrAssumption DEF TypeOK, TableTypeOK
    <3>2. Interned' \subseteq Ptr
      BY <2>3, SizesAre
    <3> QED BY <2>6, <3>1, <3>2 DEF Sizes
  <2>9. Total(Sizes', Interned') = Sizes'[p] + Total(Sizes', Interned)
    <3> DEFINE f == Sizes'
               R == Interned'
    <3>1. IsFiniteSet(R) /\ p \in R /\ R \ {p} = Interned /\ \A q \in R : f[q] \in Int
      BY <2>3, <2>4, <2>5, <2>8
    <3> HIDE DEF f, R
    <3>2. Total(f, R) = f[p] + Total(f, R \ {p})
      BY ONLY <3>1, TotalOf
    <3>3. Total(f, R) = f[p] + Total(f, Interned)
      BY <3>1, <3>2
    <3> QED BY <3>3 DEF f, R
  <2>10. sliceBytes = Bytes(Interned) /\ Bytes(Interned) \in Int /\ sliceSize[a] \in Int
    BY <1>1, AttrAssumption DEF TableCounted, TypeOK, TableTypeOK
  <2>11. sliceBytes' = Total(Sizes', Interned')
    BY <2>4, <2>7, <2>8, <2>9, <2>10
  <2> QED BY <2>5, <2>11 DEF TableCounted, Bytes
<1> QED BY <1>2, <1>3 DEF getOrInsert

(* Every step of every goroutine keeps the counts: only getOrInsert and     *)
(* removeLocked change the table.                                           *)
LEMMA CountedStep == IInv /\ TableCounted /\ [Next]_vars => TableCounted'
<1> SUFFICES ASSUME IInv, TableCounted, [Next]_vars PROVE TableCounted'
  OBVIOUS
<1>1. TypeOK /\ TypeOK' /\ InternedIffCounted /\ LockDiscipline
  BY InvariantStep DEF IInv
<1>2. ASSUME UNCHANGED <<entries, content, attrCount, sliceBytes>>
      PROVE  TableCounted'
  BY <1>2 DEF TableCounted, Interned, Bytes, Sizes
<1>3. ASSUME NEW t \in Thread, NEW l \in Loc, NEW in \in Attr \union {NilAttr},
             NEW p \in Ptr, InternStep(t, l, in, p)
      PROVE  TableCounted'
  BY <1>1, <1>3, InternCounted DEF InternStep
<1>4. ASSUME NEW t \in Thread, NEW from \in {"insertFree", "deleteFree"}, NEW to,
             ReleaseOld(t, from, to)
      PROVE  TableCounted'
  <2>1. release(hand[t])
    BY <1>4 DEF ReleaseOld
  <2>2. hand[t] \in Ptr
    BY <1>1, <1>4 DEF ReleaseOld, LockDiscipline, TypeOK, PtrOrNil
  <2>3. /\ UNCHANGED content
        /\ \/ removeLocked(hand[t])
           \/ UNCHANGED <<entries, attrCount, sliceBytes>>
    BY <2>1 DEF release
  <2> QED BY <1>1, <1>2, <2>2, <2>3, RemoveCounted
<1>5. ASSUME NEW t \in Thread, NEW p \in Ptr, ReleaseNItem(t, p)
      PROVE  TableCounted'
  <2>1. /\ UNCHANGED content
        /\ \/ removeLocked(p)
           \/ UNCHANGED <<entries, attrCount, sliceBytes>>
    BY <1>5 DEF ReleaseNItem, releaseNItem
  <2> QED BY <1>1, <1>2, <2>1, RemoveCounted
<1>6. ASSUME NEW t \in Thread, Step(t) PROVE TableCounted'
  <2>1. CASE InsertRoute(t)
    BY <1>2, <1>3, <1>4, <2>1 DEF InsertRoute, SetPath, tableVars
  <2>2. CASE DeleteRoute(t)
    BY <1>2, <1>4, <2>2 DEF DeleteRoute, DeletePath, tableVars
  <2>3. CASE ReleaseN(t)
    BY <1>2, <1>5, <2>3 DEF ReleaseN, ReleaseNEmpty, ReleaseNLock,
       ReleaseNRelock, ReleaseNDone, tableVars
  <2>4. CASE Begin(t) \/ (\E r \in Rib : Unlock(t, r)) \/ Sweep(t) \/ Collect(t)
    BY <1>2, <2>4 DEF Begin, Lock, ResetSwap, Unlock, Sweep, SweepPath,
       SweepDone, Collect, CollectPath, CollectDone, tableVars
  <2> QED BY <1>6, <2>1, <2>2, <2>3, <2>4 DEF Step
<1> QED BY <1>2, <1>6 DEF Next, MarkAllStale, vars, tableVars

(* GetStats describes the table exactly, at every moment. *)
THEOREM TableStaysCounted == Spec => []TableCounted
BY CountedInit, CountedStep, Invariance, PTL DEF Spec

(* The bytes as the sum that GetStats stands for. *)
LEMMA BytesAre ==
  ASSUME TypeOK, TableCounted
  PROVE  Bytes(Interned) = MapThenSumSet(LAMBDA p : sliceSize[content[p]], Interned)
<1> DEFINE S == Interned
           f == Sizes
           Body(g) == [s \in SUBSET S |->
                         IF s = {} THEN 0
                         ELSE LET x == CHOOSE x \in s : TRUE
                              IN sliceSize[content[x]] + g[s \ {x}]]
           sum == CHOOSE g : g = Body(g)
<1>1. IsFiniteSet(S) /\ \A p \in S : f[p] = sliceSize[content[p]] /\ f[p] \in Int
  BY SizesAre DEF TableCounted
<1>2. \A g : Body(g) = Summing(f, S, g)
  <2> TAKE g
  <2>1. ASSUME NEW s \in SUBSET S, s # {}
        PROVE  LET x == CHOOSE x \in s : TRUE
               IN  sliceSize[content[x]] + g[s \ {x}] = f[x] + g[s \ {x}]
    <3> DEFINE x == CHOOSE x \in s : TRUE
    <3>1. x \in S
      BY <2>1
    <3>2. f[x] = sliceSize[content[x]]
      BY <1>1, <3>1
    <3> HIDE DEF x, f
    <3>3. sliceSize[content[x]] + g[s \ {x}] = f[x] + g[s \ {x}]
      BY <3>2
    <3> QED BY <3>3 DEF x
  <2> HIDE DEF f, S
  <2> QED BY <2>1 DEF Summing
<1> HIDE DEF f
<1>3. PICK g : g = Summing(f, S, g)
  BY <1>1, SummingExists
<1>4. g = Body(g)
  BY <1>2, <1>3
<1> HIDE DEF Body
<1>5. sum = Body(sum)
  BY <1>4
<1>6. sum = Summing(f, S, sum)
  BY <1>2, <1>5
<1>7. MapThenSumSet(LAMBDA p : sliceSize[content[p]], S) = sum[S]
  BY DEF MapThenSumSet, MapThenFoldSet, Body
<1> HIDE DEF sum
<1>8. sum[S] = Total(f, S)
  BY ONLY <1>1, <1>6, TotalIs
<1> QED BY <1>7, <1>8 DEF Bytes, f

(* AttributeCount and the bytes are those of the copies in the table, and    *)
(* every copy is where removeLocked will look for it.                        *)
THEOREM StatsStayExact == Spec => []StatsExact
<1>1. IInv /\ TableCounted => StatsExact
  BY BytesAre, Zenon DEF IInv, InternedIffCounted, TableCounted, StatsExact
<1> QED BY <1>1, Invariance, TableStaysCounted, PTL
-----------------------------------------------------------------------------
(* When no method runs, a pointer that is held is in the trie of some RIB.  *)
LEMMA HeldAtRest ==
  ASSUME IInv, \A t \in Thread : pc[t] = "idle"
  PROVE  Interned = {tree[<<root[x[1]], x[2]>>] :
                       x \in {y \in Rib \X Loc : tree[<<root[y[1]], y[2]>>] # NoPtr}}
<1> USE SharedAssumption
<1>1. /\ TypeOK /\ LockDiscipline /\ DetachedUnreachable /\ TalliedOnce
      /\ Interned = Held \ {NoPtr}
  BY HeldInterned DEF IInv, InternedIffHeld
<1>2. \A t \in Thread : hand[t] = NoPtr /\ oldRoot[t] = NoTree
  BY <1>1 DEF LockDiscipline
<1>3. \A t \in Thread, l \in Loc : tally[<<t, l>>] = NoPtr
  BY <1>1 DEF TalliedOnce, Flushing
<1>4. \A s \in Slot : tree[s] # NoPtr => \E r \in Rib : s[1] = root[r]
  <2> SUFFICES ASSUME NEW s \in Slot, tree[s] # NoPtr
               PROVE  \E r \in Rib : s[1] = root[r]
    OBVIOUS
  <2>1. ~Free(s[1]) /\ s[1] \in Tree
    BY <1>1 DEF DetachedUnreachable, Slot
  <2> QED BY <1>2, <2>1 DEF Free
<1>5. \A p : p \in Held \ {NoPtr} <=> p # NoPtr /\ \E s \in Slot : tree[s] = p
  BY <1>2, <1>3 DEF Held
<1>6. ASSUME NEW p, p # NoPtr, NEW s \in Slot, tree[s] = p
      PROVE  \E r \in Rib, l \in Loc : tree[<<root[r], l>>] = p
  <2>1. PICK r \in Rib : s[1] = root[r]
    BY <1>4, <1>6
  <2>2. s = <<root[r], s[2]>> /\ s[2] \in Loc
    BY <2>1 DEF Slot
  <2> QED BY <1>6, <2>1, <2>2
<1>7. \A r \in Rib, l \in Loc : <<root[r], l>> \in Slot
  BY <1>1 DEF TypeOK, Slot
<1>8. \A p : p \in Interned <=>
               p # NoPtr /\ \E r \in Rib, l \in Loc : tree[<<root[r], l>>] = p
  BY <1>1, <1>5, <1>6, <1>7
<1> DEFINE Y == {y \in Rib \X Loc : tree[<<root[y[1]], y[2]>>] # NoPtr}
<1>9. \A p : p \in {tree[<<root[x[1]], x[2]>>] : x \in Y} <=>
               p # NoPtr /\ \E r \in Rib, l \in Loc : tree[<<root[r], l>>] = p
  <2>1. ASSUME NEW r \in Rib, NEW l \in Loc, tree[<<root[r], l>>] # NoPtr
        PROVE  \E x \in Y : tree[<<root[x[1]], x[2]>>] = tree[<<root[r], l>>]
    <3> DEFINE y == <<r, l>>
    <3>1. y \in Rib \X Loc /\ y[1] = r /\ y[2] = l
      OBVIOUS
    <3> HIDE DEF y
    <3>2. tree[<<root[y[1]], y[2]>>] = tree[<<root[r], l>>]
      BY <3>1
    <3> QED BY <2>1, <3>1, <3>2
  <2>2. ASSUME NEW x \in Y
        PROVE  /\ x[1] \in Rib /\ x[2] \in Loc
               /\ tree[<<root[x[1]], x[2]>>] # NoPtr
    <3>1. x \in Rib \X Loc /\ tree[<<root[x[1]], x[2]>>] # NoPtr
      BY <2>2
    <3> QED BY <3>1
  <2> HIDE DEF Y
  <2>3. ASSUME NEW p, p \in {tree[<<root[x[1]], x[2]>>] : x \in Y}
        PROVE  p # NoPtr /\ \E r \in Rib, l \in Loc : tree[<<root[r], l>>] = p
    <3>1. PICK x \in Y : p = tree[<<root[x[1]], x[2]>>]
      BY <2>3
    <3> QED BY <2>2, <3>1
  <2>4. ASSUME NEW p, p # NoPtr,
               NEW r \in Rib, NEW l \in Loc, tree[<<root[r], l>>] = p
        PROVE  p \in {tree[<<root[x[1]], x[2]>>] : x \in Y}
    <3>1. PICK x \in Y : tree[<<root[x[1]], x[2]>>] = p
      BY <2>1, <2>4
    <3> QED BY <3>1
  <2> QED BY <2>3, <2>4
<1> QED BY <1>8, <1>9

(* When no method is running the table holds one copy of every value that   *)
(* some RIB routes with and no other, and AttributeCount is their number,   *)
(* whatever flushes and chunks of releaseN have gone before.                *)
THEOREM TableIsExactAtRest == Spec => []QuiescentTable
<1>1. IInv /\ TableCounted => QuiescentTable
  <2> SUFFICES ASSUME IInv, TableCounted, \A t \in Thread : pc[t] = "idle"
               PROVE  QuiescentTable
    BY DEF QuiescentTable
  <2> DEFINE Y == {y \in Rib \X Loc : tree[<<root[y[1]], y[2]>>] # NoPtr}
             routed == {content[tree[<<root[x[1]], x[2]>>]] : x \in Y}
             f == [p \in Interned |-> content[p]]
  <2>1. Interned = {tree[<<root[x[1]], x[2]>>] : x \in Y}
    BY HeldAtRest
  <2>2. {content[p] : p \in Interned} = routed
    <3> HIDE DEF Y
    <3>1. \A p \in Interned : content[p] \in routed
      BY <2>1
    <3>2. \A x \in Y : content[tree[<<root[x[1]], x[2]>>]]
                       \in {content[p] : p \in Interned}
      BY <2>1
    <3> QED BY <3>1, <3>2
  <2>3. f \in Bijection(Interned, routed)
    BY <2>2 DEF IInv, Deduplicated, Bijection, Injection, IsInjective,
       Surjection
  <2>4. Cardinality(routed) = Cardinality(Interned)
    BY <2>3, FS_Bijection DEF TableCounted, ExistsBijection
  <2>5. {h \in Hash : entries[h] # {}} = {hashAttributes[a] : a \in routed}
    <3>1. \A p \in Interned : content[p] \in Attr
      BY SizesAre DEF IInv, TypeOK, TableTypeOK
    <3>2. \A h \in Hash : \A p \in entries[h] :
            p \in Interned /\ hashAttributes[content[p]] = h
      BY DEF Interned, IInv, InternedIffCounted
    <3>3. \A p \in Interned : /\ hashAttributes[content[p]] \in Hash
                              /\ p \in entries[hashAttributes[content[p]]]
      BY <3>1, <3>2, AttrAssumption DEF Interned
    <3> HIDE DEF routed
    <3>4. \A h \in Hash : entries[h] # {} <=> \E p \in Interned : hashAttributes[content[p]] = h
      BY <3>2, <3>3
    <3> QED BY <2>2, <3>3, <3>4
  <2> QED BY <2>2, <2>4, <2>5 DEF TableCounted, QuiescentTable, TableLen
<1> QED BY <1>1, Invariance, TableStaysCounted, PTL
=============================================================================
