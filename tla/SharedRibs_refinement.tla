------------------------ MODULE SharedRibs_refinement ------------------------
(***************************************************************************)
(* SharedRibs implements RibSpec, for all values of the constants: every   *)
(* step of a goroutine is one write of one RIB, or none at all.            *)
(***************************************************************************)
EXTENDS SharedRibs_proofs

(* The abstract state, as the instance of RibSpec computes it. *)
Routes == [r \in Rib |-> [l \in Loc |->
             IF PathAt(r, l) = NoPtr THEN NoRoute ELSE content[PathAt(r, l)]]]
Marked == [r \in Rib |-> {l \in Loc : <<root[r], l>> \in stale \/ l \in Swept(r)}]

Same(q) == Routes'[q] = Routes[q] /\ Marked'[q] = Marked[q]
-----------------------------------------------------------------------------
(* No step writes an attributes copy that anything refers to. *)
LEMMA ContentKept ==
  IInv /\ [Next]_vars => \A p \in Held \ {NoPtr} : content'[p] = content[p]
<1> SUFFICES ASSUME IInv, [Next]_vars, NEW p \in Held, p # NoPtr
             PROVE  content'[p] = content[p]
  OBVIOUS
<1>1. TypeOK /\ p \in Ptr
  BY DEF IInv, TypeOK, Held, PtrOrNil
<1>2. ASSUME NEW t \in Thread, NEW l \in Loc, NEW in \in Attr \union {NilAttr},
             NEW q \in Ptr, InternStep(t, l, in, q)
      PROVE  content'[p] = content[p]
  BY <1>1, <1>2 DEF InternStep, getOrInsert, Share, Intern, TypeOK, TableTypeOK
<1>3. ASSUME NEW t \in Thread, NEW from, NEW to, ReleaseOld(t, from, to)
      PROVE  content'[p] = content[p]
  BY <1>3 DEF ReleaseOld, release
<1>4. ASSUME NEW t \in Thread, NEW q \in Ptr, ReleaseNItem(t, q)
      PROVE  content'[p] = content[p]
  BY <1>4 DEF ReleaseNItem, releaseNItem
<1>5. CASE UNCHANGED vars
  BY <1>5 DEF vars, tableVars
<1>6. CASE \E r \in Rib : MarkAllStale(r)
  BY <1>6 DEF MarkAllStale, tableVars
<1>7. ASSUME NEW t \in Thread, Step(t)
      PROVE  content'[p] = content[p]
  <2>1. CASE Begin(t)
    BY <2>1 DEF Begin, Lock, ResetSwap, tableVars
  <2>2. CASE InsertRoute(t)
    BY <1>2, <1>3, <2>2 DEF InsertRoute, SetPath, tableVars
  <2>3. CASE DeleteRoute(t)
    BY <1>3, <2>3 DEF DeleteRoute, DeletePath, tableVars
  <2>4. CASE \E r \in Rib : Unlock(t, r)
    BY <2>4 DEF Unlock, tableVars
  <2>5. CASE Sweep(t)
    BY <2>5 DEF Sweep, SweepPath, SweepDone, tableVars
  <2>6. CASE Collect(t)
    BY <2>6 DEF Collect, CollectPath, CollectDone, tableVars
  <2>7. CASE ReleaseN(t)
    BY <1>4, <2>7
    DEF ReleaseN, ReleaseNEmpty, ReleaseNLock, ReleaseNRelock, ReleaseNDone,
        tableVars
  <2> QED BY <1>7, <2>1, <2>2, <2>3, <2>4, <2>5, <2>6, <2>7 DEF Step
<1> QED
  BY <1>5, <1>6, <1>7 DEF Next

(* What a reader finds is held, and what it points to has a value. *)
LEMMA PathTypes ==
  ASSUME TypeOK, NEW r \in Rib, NEW l \in Loc
  PROVE  /\ PathAt(r, l) \in PtrOrNil
         /\ PathAt(r, l) \in Held
         /\ PathAt(r, l) # NoPtr => content[PathAt(r, l)] \in Attr
<1> USE AttrAssumption, SharedAssumption
<1>1. <<root[r], l>> \in Slot
  BY DEF TypeOK, Slot
<1>2. CASE l \in Swept(r)
  <2>1. rmu[r] \in Thread /\ <<rmu[r], l>> \in Thread \X Loc
    BY <1>2 DEF Swept, TypeOK
  <2> QED BY <1>2, <2>1 DEF PathAt, Held, TypeOK, TableTypeOK, PtrOrNil
<1>3. CASE l \notin Swept(r)
  BY <1>1, <1>3 DEF PathAt, Held, TypeOK, TableTypeOK, PtrOrNil
<1> QED BY <1>2, <1>3

(* A RIB whose paths and flags are where they were is the same RIB. *)
LEMMA SameRib ==
  ASSUME IInv, [Next]_vars, NEW q \in Rib,
         \A l \in Loc : PathAt(q, l)' = PathAt(q, l),
         Marked'[q] = Marked[q]
  PROVE  Same(q)
<1>1. \A l \in Loc : PathAt(q, l) # NoPtr =>
                       content'[PathAt(q, l)] = content[PathAt(q, l)]
  BY ContentKept, PathTypes DEF IInv
<1>2. Routes'[q] = [l \in Loc |-> IF PathAt(q, l)' = NoPtr THEN NoRoute
                                  ELSE content'[PathAt(q, l)']]
  BY DEF Routes
<1>3. Routes[q] = [l \in Loc |-> IF PathAt(q, l) = NoPtr THEN NoRoute
                                 ELSE content[PathAt(q, l)]]
  BY DEF Routes
<1>4. Routes'[q] = Routes[q]
  BY <1>1, <1>2, <1>3
<1> QED BY <1>4 DEF Same

(* Without a sweep, what a reader finds is in the trie. *)
LEMMA Unswept ==
  ASSUME NEW r \in Rib, rmu[r] = NoThread \/ pc[rmu[r]] # "sweep"
  PROVE  /\ Swept(r) = {}
         /\ \A l \in Loc : PathAt(r, l) = tree[<<root[r], l>>]
         /\ Marked[r] = {l \in Loc : <<root[r], l>> \in stale}
BY DEF Swept, PathAt, Marked

(* The same after the step. *)
LEMMA UnsweptNext ==
  ASSUME NEW r \in Rib, rmu'[r] = NoThread \/ pc'[rmu'[r]] # "sweep"
  PROVE  /\ Swept(r)' = {}
         /\ \A l \in Loc : PathAt(r, l)' = tree'[<<root'[r], l>>]
         /\ Marked'[r] = {l \in Loc : <<root'[r], l>> \in stale'}
BY DEF Swept, PathAt, Marked

(* A RIB that nobody sweeps, before or after, is the same if its trie and flags are. *)
LEMMA UnsweptSame ==
  ASSUME IInv, [Next]_vars, NEW q \in Rib,
         rmu[q] = NoThread \/ pc[rmu[q]] # "sweep",
         rmu'[q] = NoThread \/ pc'[rmu'[q]] # "sweep",
         UNCHANGED <<tree, root, stale>>
  PROVE  Same(q)
<1>1. \A l \in Loc : PathAt(q, l)' = PathAt(q, l)
  <2>1. \A l \in Loc : PathAt(q, l) = tree[<<root[q], l>>]
    BY Unswept
  <2>2. \A l \in Loc : PathAt(q, l)' = tree'[<<root'[q], l>>]
    BY UnsweptNext
  <2> QED BY <2>1, <2>2
<1>2. Marked'[q] = Marked[q]
  <2>1. Marked[q] = {l \in Loc : <<root[q], l>> \in stale}
    BY Unswept
  <2>2. Marked'[q] = {l \in Loc : <<root'[q], l>> \in stale'}
    BY UnsweptNext
  <2> QED BY <2>1, <2>2
<1> QED BY <1>1, <1>2, SameRib

(* A RIB that the goroutine t has not locked, and whose trie it leaves alone, *)
(* is the same after t's step.                                               *)
LEMMA OtherRib ==
  ASSUME IInv, [Next]_vars, NEW t \in Thread, NEW q \in Rib,
         rmu[q] # t, rmu'[q] = rmu[q], root'[q] = root[q],
         \A u \in Thread \ {t} : pc'[u] = pc[u],
         \A u \in Thread \ {t}, l \in Loc : tally'[<<u, l>>] = tally[<<u, l>>],
         \A l \in Loc : tree'[<<root[q], l>>] = tree[<<root[q], l>>],
         \A l \in Loc : <<root[q], l>> \in stale' <=> <<root[q], l>> \in stale
  PROVE  Same(q)
<1>1. rmu[q] = NoThread \/ rmu[q] \in Thread \ {t}
  BY DEF IInv, TypeOK
<1>2. Swept(q)' = Swept(q)
  BY <1>1 DEF Swept
<1>3. \A l \in Loc : PathAt(q, l)' = PathAt(q, l)
  BY <1>1, <1>2 DEF PathAt, Swept
<1>4. Marked'[q] = Marked[q]
  BY <1>2 DEF Marked
<1> QED BY <1>3, <1>4, SameRib

(* The steps that change no RIB: the way into a method and out of a batch,   *)
(* the critical sections of at.mu, and the walks that fill a tally.          *)
LEMMA QuietStep ==
  ASSUME IInv, [Next]_vars, NEW t \in Thread,
         \/ \E r \in Rib, label \in {"insert", "delete", "sweep"} : Lock(t, r, label)
         \/ \E r \in Rib : Unlock(t, r)
         \/ \E l \in Loc, in \in Attr \union {NilAttr}, p \in Ptr :
              InternStep(t, l, in, p)
         \/ ReleaseOld(t, "insertFree", "insert")
         \/ ReleaseOld(t, "deleteFree", "delete")
         \/ CollectDone(t)
         \/ ReleaseN(t),
         NEW q \in Rib
  PROVE  Same(q)
<1> USE SharedAssumption
<1>1. TypeOK /\ LockDiscipline /\ TalliedOnce
  BY DEF IInv
<1>2. /\ UNCHANGED <<tree, root, stale>>
      /\ \A u \in Thread \ {t} : pc'[u] = pc[u]
      /\ \A u \in Thread \ {t}, l \in Loc : tally'[<<u, l>>] = tally[<<u, l>>]
      /\ pc[t] # "sweep"
  BY <1>1 DEF TypeOK, Lock, Unlock, InternStep, ReleaseOld, CollectDone, ReleaseN,
     ReleaseNEmpty, ReleaseNLock, ReleaseNItem, ReleaseNRelock, ReleaseNDone, Goto
<1>3. \/ UNCHANGED rmu
      \/ \E r \in Rib, label \in {"insert", "delete", "sweep"} : Lock(t, r, label)
      \/ \E r \in Rib : Unlock(t, r)
  BY DEF InternStep, ReleaseOld, CollectDone, ReleaseN,
     ReleaseNEmpty, ReleaseNLock, ReleaseNItem, ReleaseNRelock, ReleaseNDone
<1>4. CASE rmu[q] # t /\ rmu'[q] = rmu[q]
  BY <1>2, <1>4, OtherRib
<1>5. CASE ~(rmu[q] # t /\ rmu'[q] = rmu[q])
  <2>1. rmu[q] = NoThread \/ pc[rmu[q]] # "sweep"
    BY <1>1, <1>2, <1>3, <1>5 DEF TypeOK, Lock, Unlock
  <2>2. CASE \E r \in Rib : Lock(t, r, "sweep")
    <3>1. Swept(q)' = {}
      <4>1. /\ pc[t] = "idle" /\ UNCHANGED tally
            /\ \A l \in Loc : tally[<<t, l>>] = NoPtr
        BY <1>1, <2>2 DEF Lock, TalliedOnce, Flushing
      <4>2. rmu'[q] = t
        BY <1>1, <1>5, <2>2, <4>1 DEF Lock, TypeOK, LockDiscipline, Locked
      <4> QED BY <4>1, <4>2 DEF Swept
    <3>2. Swept(q) = {}
      BY <2>1, Unswept
    <3> QED BY <1>2, <3>1, <3>2, SameRib DEF PathAt, Marked
  <2>3. CASE ~\E r \in Rib : Lock(t, r, "sweep")
    <3>1. rmu'[q] = NoThread \/ pc'[rmu'[q]] # "sweep"
      BY <1>1, <1>2, <1>3, <1>5, <2>3
      DEF TypeOK, Lock, Unlock, InternStep, ReleaseOld, CollectDone, ReleaseN,
          ReleaseNEmpty, ReleaseNLock, ReleaseNItem, ReleaseNRelock,
          ReleaseNDone, Goto
    <3> QED BY <1>2, <2>1, <3>1, UnsweptSame
  <2> QED BY <2>2, <2>3
<1> QED BY <1>4, <1>5

(* The walk of Reset: the trie it empties is nobody's. *)
LEMMA CollectStep ==
  ASSUME IInv, [Next]_vars, NEW t \in Thread, NEW l \in Loc, CollectPath(t, l),
         NEW q \in Rib
  PROVE  Same(q)
<1>1. /\ root[q] # oldRoot[t] /\ rmu[q] # t
      /\ oldRoot[t] \in Tree /\ root[q] \in Tree
  <2>1. TypeOK /\ LockDiscipline /\ DetachedUnreachable /\ pc[t] = "collect"
    BY DEF IInv, CollectPath
  <2>2. rmu[q] # t
    BY <2>1, SharedAssumption DEF LockDiscipline, Locked
  <2> QED BY <2>1, <2>2 DEF TypeOK, LockDiscipline, DetachedUnreachable
<1>2. \A m \in Loc : /\ <<root[q], m>> \in Slot
                      /\ <<root[q], m>> # <<oldRoot[t], l>>
  BY <1>1 DEF Slot
<1>3. /\ \A m \in Loc : tree'[<<root[q], m>>] = tree[<<root[q], m>>]
      /\ \A m \in Loc : <<root[q], m>> \in stale' <=> <<root[q], m>> \in stale
  BY <1>2 DEF CollectPath, IInv, TypeOK
<1>4. /\ UNCHANGED <<rmu, root, pc>>
      /\ \A u \in Thread \ {t}, m \in Loc : tally'[<<u, m>>] = tally[<<u, m>>]
  BY DEF CollectPath, IInv, TypeOK
<1> QED BY <1>1, <1>3, <1>4, OtherRib

(* The walk of DeleteStaleRoutes: a stale path that has moved to the tally   *)
(* is a stale path still.                                                    *)
LEMMA SweepStep ==
  ASSUME IInv, [Next]_vars, NEW t \in Thread, NEW r \in Rib, NEW l \in Loc,
         SweepPath(t, r, l), NEW q \in Rib
  PROVE  Same(q)
<1> DEFINE s == <<root[r], l>>
<1>1. /\ rmu[r] = t /\ pc[t] = "sweep" /\ s \in stale /\ s \in Slot
      /\ tree[s] # NoPtr /\ tally[<<t, l>>] = NoPtr
      /\ UNCHANGED <<rmu, root, pc>>
  BY DEF IInv, TypeOK, SweepPath, StaleIsPath, TalliedOnce
<1>2. CASE q # r
  <2>1. root[q] # root[r] /\ rmu[q] # t
    BY <1>1, <1>2, SharedAssumption DEF IInv, LockDiscipline, DetachedUnreachable
  <2>2. \A m \in Loc : <<root[q], m>> \in Slot /\ <<root[q], m>> # s
    BY <2>1 DEF IInv, TypeOK, Slot
  <2>3. /\ \A m \in Loc : tree'[<<root[q], m>>] = tree[<<root[q], m>>]
        /\ \A m \in Loc : <<root[q], m>> \in stale' <=> <<root[q], m>> \in stale
        /\ \A u \in Thread \ {t}, m \in Loc : tally'[<<u, m>>] = tally[<<u, m>>]
    BY <2>2 DEF SweepPath, IInv, TypeOK
  <2> QED BY <1>1, <2>1, <2>3, OtherRib
<1>3. CASE q = r
  <2>1. /\ tree' = [tree EXCEPT ![s] = NoPtr]
        /\ tally' = [tally EXCEPT ![<<t, l>>] = tree[s]]
        /\ stale' = stale \ {s}
    BY DEF SweepPath
  <2>2. Swept(r)' = Swept(r) \union {l}
    BY <1>1, <2>1, SharedAssumption DEF Swept, IInv, TypeOK
  <2>3. l \notin Swept(r)
    BY <1>1 DEF Swept
  <2>4. \A m \in Loc : PathAt(r, m)' = PathAt(r, m)
    BY <1>1, <2>1, <2>2, <2>3 DEF PathAt, IInv, TypeOK, Slot
  <2>5. Marked'[r] = Marked[r]
    BY <1>1, <2>1, <2>2 DEF Marked
  <2> QED BY <1>3, <2>4, <2>5, SameRib
<1> QED BY <1>2, <1>3
-----------------------------------------------------------------------------
(* A step that writes RIB r, location by location, and no other RIB.         *)
LEMMA WriteStep ==
  ASSUME NEW r \in Rib, NEW gone, NEW add,
         \A q \in Rib \ {r} : Same(q),
         \A l \in Loc : Routes'[r][l] = IF l \in DOMAIN add THEN add[l]
                                        ELSE IF l \in gone THEN NoRoute
                                        ELSE Routes[r][l],
         Marked'[r] = Marked[r] \ (gone \union DOMAIN add)
  PROVE  Abstract!Write(r, gone, add)
<1> DEFINE new == [l \in Loc |-> IF l \in DOMAIN add THEN add[l]
                                ELSE IF l \in gone THEN NoRoute
                                ELSE Routes[r][l]]
<1>1. Routes'[r] = new
  BY DEF Routes
<1>2. Routes' = [Routes EXCEPT ![r] = new]
  BY <1>1 DEF Routes, Same
<1>3. Marked' = [Marked EXCEPT ![r] = Marked[r] \ (gone \union DOMAIN add)]
  BY DEF Marked, Same
<1> QED BY <1>2, <1>3 DEF Abstract!Write, Abstract!Loc, Loc, Routes, Marked

(* ... to announce one route, in the place of another perhaps.               *)
LEMMA AnnounceStep ==
  ASSUME NEW r \in Rib, NEW l, NEW m, NEW a, NEW add,
         DOMAIN add = {l}, add[l] = a,
         \A q \in Rib \ {r} : Same(q),
         \A k \in Loc : Routes'[r][k] = IF k = l THEN a
                                        ELSE IF k = m THEN NoRoute
                                        ELSE Routes[r][k],
         Marked'[r] = Marked[r] \ {m, l}
  PROVE  Abstract!Write(r, {m}, add)
<1>1. \A k \in Loc : Routes'[r][k] = IF k \in DOMAIN add THEN add[k]
                                     ELSE IF k \in {m} THEN NoRoute
                                     ELSE Routes[r][k]
  OBVIOUS
<1>2. Marked'[r] = Marked[r] \ ({m} \union DOMAIN add)
  OBVIOUS
<1> QED BY <1>1, <1>2, WriteStep

(* ... to withdraw some routes.                                              *)
LEMMA WithdrawStep ==
  ASSUME NEW r \in Rib, NEW gone, NEW add, DOMAIN add = {},
         \A q \in Rib \ {r} : Same(q),
         \A k \in Loc : Routes'[r][k] = IF k \in gone THEN NoRoute
                                        ELSE Routes[r][k],
         Marked'[r] = Marked[r] \ gone
  PROVE  Abstract!Write(r, gone, add)
<1>1. \A k \in Loc : Routes'[r][k] = IF k \in DOMAIN add THEN add[k]
                                     ELSE IF k \in gone THEN NoRoute
                                     ELSE Routes[r][k]
  OBVIOUS
<1>2. Marked'[r] = Marked[r] \ (gone \union DOMAIN add)
  OBVIOUS
<1> QED BY <1>1, <1>2, WriteStep

(* Where a reader finds a path there is a route, and nowhere else. *)
LEMMA PresentPaths ==
  ASSUME TypeOK, NEW r \in Rib
  PROVE  Abstract!Present(r) = {l \in Loc : PathAt(r, l) # NoPtr}
<1>1. Abstract!Present(r) = {l \in Loc : Routes[r][l] # NoRoute}
  BY DEF Abstract!Present, Abstract!Loc, Loc, Routes
<1>2. \A l \in Loc : Routes[r][l] # NoRoute <=> PathAt(r, l) # NoPtr
  BY PathTypes, SharedAssumption DEF Routes, NoRoute
<1> QED BY <1>1, <1>2

(* A write under r.mu leaves the other RIBs as they are.                     *)
LEMMA OthersSame ==
  ASSUME IInv, [Next]_vars, NEW t \in Thread, NEW r \in Rib,
         \/ \E s \in Slot : SetPath(t, r, s)
         \/ \E l \in Loc : DeletePath(t, r, l)
         \/ SweepDone(t, r)
         \/ \E T \in Tree : ResetSwap(t, r, T),
         NEW q \in Rib \ {r}
  PROVE  Same(q)
<1> USE SharedAssumption
<1>1. TypeOK /\ LockDiscipline /\ DetachedUnreachable
  BY DEF IInv
<1>2. root[q] # root[r] /\ root'[q] = root[q] /\ rmu'[q] = rmu[q]
  BY <1>1 DEF TypeOK, DetachedUnreachable, SetPath, DeletePath, SweepDone, ResetSwap
<1>3. rmu[q] # t
  <2>1. CASE rmu[r] = t
    BY <1>1, <2>1 DEF LockDiscipline
  <2>2. CASE pc[t] = "idle"
    BY <1>1, <2>2 DEF LockDiscipline, Locked
  <2> QED BY <2>1, <2>2 DEF SetPath, DeletePath, SweepDone, ResetSwap
<1>4. /\ \A u \in Thread \ {t} : pc'[u] = pc[u]
      /\ UNCHANGED tally
  BY <1>1 DEF TypeOK, SetPath, DeletePath, SweepDone, ResetSwap, Goto
<1>5. \A m \in Loc : <<root[q], m>> \in Slot
  BY <1>1 DEF TypeOK, Slot
<1>6. /\ \A m \in Loc : tree'[<<root[q], m>>] = tree[<<root[q], m>>]
      /\ \A m \in Loc : <<root[q], m>> \in stale' <=> <<root[q], m>> \in stale
  <2>1. ASSUME NEW s \in Slot, SetPath(t, r, s) PROVE <1>6
    <3>1. s[1] = root[r]
      BY <2>1 DEF SetPath, Replaceable
    <3> QED BY <1>2, <1>5, <2>1, <3>1 DEF SetPath
  <2>2. ASSUME NEW l \in Loc, DeletePath(t, r, l) PROVE <1>6
    BY <1>1, <1>2, <1>5, <2>2 DEF DeletePath, TypeOK
  <2>3. CASE SweepDone(t, r) \/ \E T \in Tree : ResetSwap(t, r, T)
    BY <2>3 DEF SweepDone, ResetSwap
  <2> QED BY <2>1, <2>2, <2>3
<1> QED BY <1>2, <1>3, <1>4, <1>6, OtherRib

(* What setPath does to its RIB. *)
LEMMA SetPathEffect ==
  ASSUME IInv, [Next]_vars, NEW t \in Thread, NEW r \in Rib, NEW s \in Slot,
         SetPath(t, r, s)
  PROVE  \E l \in Loc, a \in Attr, m \in Loc :
           /\ \A k \in Loc : Routes'[r][k] = IF k = l THEN a
                                             ELSE IF k = m THEN NoRoute
                                             ELSE Routes[r][k]
           /\ Marked'[r] = Marked[r] \ {m, l}
           /\ m \in IF l \notin Abstract!Present(r) /\ {k \in Marked[r] : k[1] = l[1]} # {}
                    THEN {k \in Marked[r] : k[1] = l[1]} ELSE {l}
<1> DEFINE l == loc[t]
           a == content[hand[t]]
           new == <<root[r], l>>
<1> USE SharedAssumption
<1>1. TypeOK /\ LockDiscipline /\ rmu[r] = t /\ pc[t] = "set"
  BY DEF IInv, SetPath
<1>2. /\ l \in Loc /\ new \in Slot /\ hand[t] \in Ptr /\ a \in Attr
      /\ hand[t] \in Held
  BY <1>1 DEF TypeOK, TableTypeOK, LockDiscipline, Slot, PtrOrNil, Held
<1>3. /\ s \in Replaceable(root[r], l)
      /\ tree' = [x \in Slot |-> IF x = new THEN hand[t]
                                 ELSE IF x = s THEN NoPtr ELSE tree[x]]
      /\ stale' = stale \ {s, new}
      /\ rmu' = rmu /\ root' = root /\ pc'[t] # "sweep"
  BY <1>1 DEF SetPath, Goto, TypeOK
<1>4. PICK m \in Loc : s = <<root[r], m>> /\ m[1] = l[1]
  <2>1. s = new \/ (s[1] = root[r] /\ s[2][1] = l[1])
    BY <1>3 DEF Replaceable
  <2>2. s = <<s[1], s[2]>> /\ s[2] \in Loc
    BY DEF Slot
  <2> QED BY <1>2, <2>1, <2>2
<1>5. /\ \A k \in Loc : PathAt(r, k) = tree[<<root[r], k>>]
      /\ Marked[r] = {k \in Loc : <<root[r], k>> \in stale}
  BY <1>1, Unswept
<1>6. /\ \A k \in Loc : PathAt(r, k)' = tree'[<<root[r], k>>]
      /\ Marked'[r] = {k \in Loc : <<root[r], k>> \in stale'}
  <2>1. rmu'[r] = t /\ pc'[rmu'[r]] # "sweep" /\ root'[r] = root[r]
    BY <1>1, <1>3
  <2> QED BY <2>1, UnsweptNext
<1>7. \A k \in Loc : Routes'[r][k] = IF k = l THEN a
                                     ELSE IF k = m THEN NoRoute
                                     ELSE Routes[r][k]
  <2> TAKE k \in Loc
  <2>1. Routes'[r][k] = IF PathAt(r, k)' = NoPtr THEN NoRoute
                        ELSE content'[PathAt(r, k)']
    BY DEF Routes
  <2>2. Routes[r][k] = IF PathAt(r, k) = NoPtr THEN NoRoute
                       ELSE content[PathAt(r, k)]
    BY DEF Routes
  <2>3. <<root[r], k>> \in Slot
    BY <1>1 DEF TypeOK, Slot
  <2>4. /\ k # l => <<root[r], k>> # new
        /\ k # m => <<root[r], k>> # s
    BY <1>4
  <2>5. CASE k = l
    <3>1. PathAt(r, k)' = hand[t] /\ hand[t] # NoPtr
      BY <1>2, <1>3, <1>6, <2>5, AttrAssumption
    <3>2. content'[hand[t]] = content[hand[t]]
      BY <1>2, <3>1, ContentKept
    <3> QED BY <2>1, <2>5, <3>1, <3>2
  <2>6. CASE k # l /\ k = m
    <3>1. PathAt(r, k)' = NoPtr
      BY <1>3, <1>4, <1>6, <2>3, <2>4, <2>6
    <3> QED BY <2>1, <2>6, <3>1
  <2>7. CASE k # l /\ k # m
    <3>1. PathAt(r, k)' = PathAt(r, k)
      BY <1>3, <1>5, <1>6, <2>3, <2>4, <2>7
    <3>2. PathAt(r, k) # NoPtr => content'[PathAt(r, k)] = content[PathAt(r, k)]
      BY <1>1, PathTypes, ContentKept
    <3> QED BY <2>1, <2>2, <2>7, <3>1, <3>2
  <2> QED BY <2>5, <2>6, <2>7
<1>8. Marked'[r] = Marked[r] \ {m, l}
  BY <1>3, <1>4, <1>5, <1>6
<1>9. m \in IF l \notin Abstract!Present(r) /\ {k \in Marked[r] : k[1] = l[1]} # {}
              THEN {k \in Marked[r] : k[1] = l[1]} ELSE {l}
  <2>1. l \in Abstract!Present(r) <=> tree[new] # NoPtr
    BY <1>1, <1>2, <1>5, PresentPaths
  <2>2. {k \in Marked[r] : k[1] = l[1]} = {k \in Loc : <<root[r], k>> \in stale /\ k[1] = l[1]}
    BY <1>5
  <2>3. CASE tree[new] # NoPtr \/ {k \in Marked[r] : k[1] = l[1]} = {}
    <3>1. tree[new] # NoPtr \/ {x \in stale : x[1] = root[r] /\ x[2][1] = l[1]} = {}
      BY <1>1, <2>2, <2>3 DEF TypeOK, Slot
    <3>2. s = new
      BY <1>3, <3>1 DEF Replaceable
    <3> QED BY <1>4, <2>1, <2>3, <3>2
  <2>4. CASE tree[new] = NoPtr /\ {k \in Marked[r] : k[1] = l[1]} # {}
    <3>1. {x \in stale : x[1] = root[r] /\ x[2][1] = l[1]} # {}
      <4>1. PICK k \in Loc : <<root[r], k>> \in stale /\ k[1] = l[1]
        BY <2>2, <2>4
      <4>2. /\ <<root[r], k>>[1] = root[r]
            /\ <<root[r], k>>[2][1] = l[1]
        BY <4>1
      <4> QED BY <4>1, <4>2
    <3>2. s \in stale
      BY <1>3, <2>4, <3>1 DEF Replaceable
    <3> QED BY <1>4, <2>1, <2>2, <2>4, <3>2
  <2> QED BY <2>3, <2>4
<1> QED BY <1>2, <1>7, <1>8, <1>9

(* setPath is the announcement of the route whose attributes are in hand. *)
LEMMA SetPathStep ==
  ASSUME IInv, [Next]_vars, NEW t \in Thread, NEW r \in Rib, NEW s \in Slot,
         SetPath(t, r, s)
  PROVE  \E l \in Loc, a \in Attr : Abstract!Insert(r, l, a)
<1>1. PICK l \in Loc, a \in Attr, m \in Loc :
           /\ \A k \in Loc : Routes'[r][k] = IF k = l THEN a
                                             ELSE IF k = m THEN NoRoute
                                             ELSE Routes[r][k]
           /\ Marked'[r] = Marked[r] \ {m, l}
           /\ m \in IF l \notin Abstract!Present(r) /\ {k \in Marked[r] : k[1] = l[1]} # {}
                    THEN {k \in Marked[r] : k[1] = l[1]} ELSE {l}
  BY SetPathEffect
<1>2. ASSUME NEW add, DOMAIN add = {l}, add[l] = a
      PROVE  Abstract!Write(r, {m}, add)
  <2>1. \A q \in Rib \ {r} : Same(q)
    BY OthersSame
  <2>2. /\ \A k \in Loc : Routes'[r][k] = IF k = l THEN a
                                         ELSE IF k = m THEN NoRoute
                                         ELSE Routes[r][k]
        /\ Marked'[r] = Marked[r] \ {m, l}
    BY <1>1
  <2> QED BY <1>2, <2>1, <2>2, AnnounceStep
<1>3. Abstract!Write(r, {m}, [x \in {l} |-> a])
  BY <1>2
<1>4. \E n \in (IF l \notin Abstract!Present(r) /\ {k \in Marked[r] : k[1] = l[1]} # {}
                  THEN {k \in Marked[r] : k[1] = l[1]} ELSE {l}) :
        Abstract!Write(r, {n}, [x \in {l} |-> a])
  BY <1>1, <1>3
<1>5. Abstract!Insert(r, l, a)
  BY <1>4 DEF Abstract!Insert, Marked
<1> QED BY <1>5

(* deletePath is the withdrawal of one route. *)
LEMMA DeletePathStep ==
  ASSUME IInv, [Next]_vars, NEW t \in Thread, NEW r \in Rib, NEW l \in Loc,
         DeletePath(t, r, l)
  PROVE  Abstract!Delete(r, l)
<1> DEFINE s == <<root[r], l>>
<1>1. /\ TypeOK /\ pc[t] = "delete" /\ rmu[r] = t /\ tree[s] # NoPtr /\ s \in Slot
      /\ tree' = [tree EXCEPT ![s] = NoPtr] /\ stale' = stale \ {s}
      /\ rmu' = rmu /\ root' = root /\ pc'[t] = "deleteFree"
  BY DEF IInv, TypeOK, Slot, DeletePath, Goto
<1>2. /\ \A k \in Loc : PathAt(r, k) = tree[<<root[r], k>>]
      /\ Marked[r] = {k \in Loc : <<root[r], k>> \in stale}
  BY <1>1, Unswept
<1>3. /\ \A k \in Loc : PathAt(r, k)' = tree'[<<root[r], k>>]
      /\ Marked'[r] = {k \in Loc : <<root[r], k>> \in stale'}
  BY <1>1, UnsweptNext
<1>4. \A k \in Loc : Routes'[r][k] = IF k \in {l} THEN NoRoute ELSE Routes[r][k]
  <2> TAKE k \in Loc
  <2>1. Routes'[r][k] = IF PathAt(r, k)' = NoPtr THEN NoRoute
                        ELSE content'[PathAt(r, k)']
    BY DEF Routes
  <2>2. Routes[r][k] = IF PathAt(r, k) = NoPtr THEN NoRoute
                       ELSE content[PathAt(r, k)]
    BY DEF Routes
  <2>3. <<root[r], k>> \in Slot /\ (k # l => <<root[r], k>> # s)
    BY <1>1 DEF TypeOK, Slot
  <2>4. CASE k = l
    BY <1>1, <1>3, <2>1, <2>4 DEF TypeOK
  <2>5. CASE k # l
    <3>1. PathAt(r, k)' = PathAt(r, k)
      BY <1>1, <1>2, <1>3, <2>3, <2>5 DEF TypeOK
    <3>2. PathAt(r, k) # NoPtr => content'[PathAt(r, k)] = content[PathAt(r, k)]
      BY <1>1, PathTypes, ContentKept
    <3> QED BY <2>1, <2>2, <2>5, <3>1, <3>2
  <2> QED BY <2>4, <2>5
<1>5. Marked'[r] = Marked[r] \ {l}
  BY <1>1, <1>2, <1>3
<1>6. ASSUME NEW add, DOMAIN add = {} PROVE Abstract!Write(r, {l}, add)
  <2>1. \A q \in Rib \ {r} : Same(q)
    BY OthersSame
  <2> QED BY <1>4, <1>5, <1>6, <2>1, WithdrawStep
<1>7. Abstract!Write(r, {l}, [x \in {} |-> NoRoute])
  BY <1>6
<1>8. l \in Abstract!Present(r)
  BY <1>1, <1>2, PresentPaths
<1> QED BY <1>7, <1>8 DEF Abstract!Delete

(* MarkAllStale marks the routes of its RIB. *)
LEMMA MarkStep ==
  ASSUME IInv, [Next]_vars, NEW r \in Rib, MarkAllStale(r)
  PROVE  Abstract!MarkAllStale(r)
<1> USE SharedAssumption
<1>1. /\ TypeOK /\ StaleIsPath /\ DetachedUnreachable /\ rmu[r] = NoThread
      /\ stale' = stale \union {s \in Slot : s[1] = root[r] /\ tree[s] # NoPtr}
      /\ UNCHANGED <<content, rmu, root, tree, pc, tally>>
  BY DEF IInv, MarkAllStale, tableVars, threadVars
<1>2. \A q \in Rib, k \in Loc : /\ PathAt(q, k)' = PathAt(q, k)
                               /\ <<root[q], k>> \in Slot
  BY <1>1 DEF PathAt, Swept, TypeOK, Slot
<1>3. \A q \in Rib : Swept(q)' = Swept(q)
  BY <1>1 DEF Swept
<1>4. Routes' = Routes
  BY <1>1, <1>2 DEF Routes
<1>5. \A q \in Rib \ {r} : Marked'[q] = Marked[q]
  <2> TAKE q \in Rib \ {r}
  <2>1. root[q] # root[r]
    BY <1>1 DEF DetachedUnreachable
  <2>2. \A k \in Loc : <<root[q], k>> \in stale' <=> <<root[q], k>> \in stale
    BY <1>1, <2>1
  <2> QED BY <1>1, <1>3, <2>2 DEF Marked
<1>6. Marked'[r] = Abstract!Present(r)
  <2>1. Swept(r) = {} /\ \A k \in Loc : PathAt(r, k) = tree[<<root[r], k>>]
    BY <1>1, Unswept
  <2>2. \A k \in Loc : <<root[r], k>> \in stale' <=> tree[<<root[r], k>>] # NoPtr
    BY <1>1, <1>2 DEF StaleIsPath
  <2>3. Marked'[r] = {k \in Loc : tree[<<root[r], k>>] # NoPtr}
    BY <1>1, <1>3, <2>1, <2>2 DEF Marked
  <2> QED BY <1>1, <2>1, <2>3, PresentPaths
<1>7. Marked' = [Marked EXCEPT ![r] = Abstract!Present(r)]
  BY <1>5, <1>6 DEF Marked
<1> QED BY <1>4, <1>7 DEF Abstract!MarkAllStale, Routes, Marked

(* DeleteStaleRoutes takes effect when it gives r.mu up. *)
LEMMA SweepDoneStep ==
  ASSUME IInv, [Next]_vars, NEW t \in Thread, NEW r \in Rib, SweepDone(t, r)
  PROVE  Abstract!DeleteStaleRoutes(r)
<1> USE SharedAssumption
<1>1. /\ TypeOK /\ TalliedOnce /\ rmu[r] = t /\ pc[t] = "sweep"
      /\ \A s \in stale : s[1] # root[r]
      /\ rmu'[r] = NoThread
      /\ UNCHANGED <<content, root, tree, stale, tally>>
  BY DEF IInv, TypeOK, SweepDone, tableVars
<1>2. /\ Swept(r) = {k \in Loc : tally[<<t, k>>] # NoPtr}
      /\ \A k \in Swept(r) : tree[<<root[r], k>>] = NoPtr
  BY <1>1 DEF Swept, TalliedOnce
<1>3. /\ \A k \in Loc : PathAt(r, k)' = tree[<<root[r], k>>]
      /\ Marked'[r] = {k \in Loc : <<root[r], k>> \in stale}
  BY <1>1, UnsweptNext
<1>4. Marked[r] = Swept(r) /\ Marked'[r] = {}
  BY <1>1, <1>2, <1>3 DEF Marked
<1>5. \A k \in Loc : Routes'[r][k] = IF k \in Marked[r] THEN NoRoute
                                     ELSE Routes[r][k]
  <2> TAKE k \in Loc
  <2>1. Routes'[r][k] = IF PathAt(r, k)' = NoPtr THEN NoRoute
                        ELSE content[PathAt(r, k)']
    BY <1>1 DEF Routes
  <2>2. Routes[r][k] = IF PathAt(r, k) = NoPtr THEN NoRoute
                       ELSE content[PathAt(r, k)]
    BY DEF Routes
  <2>3. k \notin Swept(r) => PathAt(r, k) = tree[<<root[r], k>>]
    BY DEF PathAt
  <2> QED BY <1>2, <1>3, <1>4, <2>1, <2>2, <2>3
<1>6. Routes' = [Routes EXCEPT ![r] = [k \in Loc |->
                   IF k \in Marked[r] THEN NoRoute ELSE Routes[r][k]]]
  <2>1. \A q \in Rib \ {r} : Routes'[q] = Routes[q]
    BY OthersSame DEF Same
  <2>2. Routes'[r] = [k \in Loc |-> Routes'[r][k]]
    BY DEF Routes
  <2>3. Routes'[r] = [k \in Loc |-> IF k \in Marked[r] THEN NoRoute
                                                       ELSE Routes[r][k]]
    BY <1>5, <2>2
  <2> QED BY <2>1, <2>3 DEF Routes
<1>7. Marked' = [Marked EXCEPT ![r] = Marked[r] \ Marked[r]]
  <2>1. \A q \in Rib \ {r} : Marked'[q] = Marked[q]
    BY OthersSame DEF Same
  <2> QED BY <1>4, <2>1 DEF Marked
<1>8. Abstract!Write(r, Marked[r], [x \in {} |-> NoRoute])
  <2>1. Abstract!Loc = Loc
    BY DEF Abstract!Loc, Loc
  <2>2. Marked[r] \subseteq Loc
    BY DEF Marked
  <2>3. Routes[r] = [k \in Loc |-> Routes[r][k]]
    BY DEF Routes
  <2> HIDE DEF Routes, Marked
  <2> QED BY <1>6, <1>7, <2>1, <2>2, <2>3 DEF Abstract!Write, Routes, Marked
<1> QED BY <1>8 DEF Abstract!DeleteStaleRoutes, Marked

(* Reset empties its RIB when it swaps the root array. *)
LEMMA ResetSwapStep ==
  ASSUME IInv, [Next]_vars, NEW t \in Thread, NEW r \in Rib, NEW T \in Tree,
         ResetSwap(t, r, T)
  PROVE  Abstract!Reset(r)
<1> USE SharedAssumption
<1>1. /\ TypeOK /\ DetachedUnreachable /\ StaleIsPath
      /\ rmu[r] = NoThread /\ rmu'[r] = NoThread /\ root'[r] = T /\ Free(T)
      /\ UNCHANGED <<tree, stale>>
  BY DEF IInv, TypeOK, ResetSwap
<1>2. \A k \in Loc : <<T, k>> \in Slot /\ tree[<<T, k>>] = NoPtr
                     /\ <<T, k>> \notin stale
  BY <1>1 DEF DetachedUnreachable, StaleIsPath, Slot
<1>3. /\ \A k \in Loc : PathAt(r, k)' = NoPtr
      /\ Marked'[r] = {}
  BY <1>1, <1>2, UnsweptNext
<1>4. \A k \in Loc : Routes'[r][k] = IF k \in Loc THEN NoRoute ELSE Routes[r][k]
  BY <1>3 DEF Routes
<1>5. Marked'[r] = Marked[r] \ Loc
  BY <1>3 DEF Marked
<1>6. ASSUME NEW add, DOMAIN add = {} PROVE Abstract!Write(r, Loc, add)
  <2>1. \A q \in Rib \ {r} : Same(q)
    BY OthersSame
  <2> QED BY <1>4, <1>5, <1>6, <2>1, WithdrawStep
<1>7. Abstract!Write(r, Loc, [x \in {} |-> NoRoute])
  BY <1>6
<1> QED BY <1>7 DEF Abstract!Reset, Abstract!Loc, Loc

(* An abstract stutter: no RIB differs. *)
LEMMA AllSame ==
  ASSUME \A q \in Rib : Same(q)
  PROVE  UNCHANGED Abstract!specVars
<1>1. Routes' = Routes /\ Marked' = Marked
  BY DEF Routes, Marked, Same
<1> QED BY <1>1 DEF Abstract!specVars, Routes, Marked

(* Empty RIBs are the abstract specification's initial state. *)
LEMMA InitStep == Init => Abstract!SpecInit
<1> SUFFICES ASSUME Init PROVE Abstract!SpecInit
  OBVIOUS
<1> USE SharedAssumption
<1>1. \A r \in Rib, l \in Loc : /\ PathAt(r, l) = NoPtr
                                /\ <<root[r], l>> \notin stale
                                /\ l \notin Swept(r)
  BY DEF Init, PathAt, Swept, Slot
<1>2. Routes = [r \in Rib |-> [l \in Loc |-> NoRoute]]
  BY <1>1 DEF Routes
<1>3. Marked = [r \in Rib |-> {}]
  BY <1>1 DEF Marked
<1> QED BY <1>2, <1>3 DEF Abstract!SpecInit, Abstract!Loc, Loc, Routes, Marked

(* Every step is one abstract step or a stutter. *)
LEMMA NextStep ==
  IInv /\ [Next]_vars => [Abstract!SpecNext]_(Abstract!specVars)
<1> SUFFICES ASSUME IInv, [Next]_vars
             PROVE  Abstract!SpecNext \/ UNCHANGED Abstract!specVars
  OBVIOUS
<1>1. ASSUME NEW t \in Thread, Step(t)
      PROVE  Abstract!SpecNext \/ UNCHANGED Abstract!specVars
  <2>1. ASSUME NEW r \in Rib, NEW T \in Tree, ResetSwap(t, r, T)
        PROVE  Abstract!SpecNext
    BY <2>1, ResetSwapStep DEF Abstract!SpecNext
  <2>2. ASSUME NEW r \in Rib, NEW s \in Slot, SetPath(t, r, s)
        PROVE  Abstract!SpecNext
    <3>1. PICK l \in Loc, a \in Attr : Abstract!Insert(r, l, a)
      BY <2>2, SetPathStep
    <3> QED BY <3>1 DEF Abstract!SpecNext, Abstract!Loc, Loc
  <2>3. ASSUME NEW r \in Rib, NEW l \in Loc, DeletePath(t, r, l)
        PROVE  Abstract!SpecNext
    <3>1. Abstract!Delete(r, l)
      BY <2>3, DeletePathStep
    <3> QED BY <3>1 DEF Abstract!SpecNext, Abstract!Loc, Loc
  <2>4. ASSUME NEW r \in Rib, SweepDone(t, r)
        PROVE  Abstract!SpecNext
    BY <2>4, SweepDoneStep DEF Abstract!SpecNext
  <2>5. ASSUME NEW r \in Rib, NEW l \in Loc, SweepPath(t, r, l)
        PROVE  UNCHANGED Abstract!specVars
    <3>1. \A q \in Rib : Same(q)
      BY <2>5, SweepStep
    <3> QED BY <3>1, AllSame
  <2>6. ASSUME NEW l \in Loc, CollectPath(t, l)
        PROVE  UNCHANGED Abstract!specVars
    <3>1. \A q \in Rib : Same(q)
      BY <2>6, CollectStep
    <3> QED BY <3>1, AllSame
  <2>7. ASSUME \/ \E r \in Rib, label \in {"insert", "delete", "sweep"} :
                    Lock(t, r, label)
               \/ \E r \in Rib : Unlock(t, r)
               \/ \E l \in Loc, in \in Attr \union {NilAttr}, p \in Ptr :
                    InternStep(t, l, in, p)
               \/ ReleaseOld(t, "insertFree", "insert")
               \/ ReleaseOld(t, "deleteFree", "delete")
               \/ CollectDone(t)
               \/ ReleaseN(t)
        PROVE  UNCHANGED Abstract!specVars
    <3>1. \A q \in Rib : Same(q)
      BY <2>7, QuietStep
    <3> QED BY <3>1, AllSame
  <2> QED
    BY <1>1, <2>1, <2>2, <2>3, <2>4, <2>5, <2>6, <2>7
    DEF Step, Begin, InsertRoute, DeleteRoute, Sweep, Collect
<1>2. ASSUME NEW r \in Rib, MarkAllStale(r)
      PROVE  Abstract!SpecNext
  BY <1>2, MarkStep DEF Abstract!SpecNext
<1>3. CASE UNCHANGED vars
  <2>1. UNCHANGED <<content, rmu, root, tree, stale, pc, tally>>
    BY <1>3 DEF vars, tableVars, threadVars
  <2>2. \A q \in Rib : Same(q)
    BY <2>1 DEF Same, Routes, Marked, PathAt, Swept
  <2> QED BY <2>2, AllSame
<1> QED BY <1>1, <1>2, <1>3 DEF Next

(* Every method of a RIB that writes takes effect at one instant on that RIB *)
(* alone, whatever other goroutines do to the shared table meanwhile.        *)
THEOREM RibsAreAtomic == Spec => AtomicRibs
<1>1. Init => Abstract!SpecInit
  BY InitStep
<1>2. IInv /\ [Next]_vars => [Abstract!SpecNext]_(Abstract!specVars)
  BY NextStep
<1> QED BY <1>1, <1>2, Invariance, PTL DEF Spec, AtomicRibs, Abstract!AtomicRibs
=============================================================================
