--------------------------- MODULE RibReaders_proofs ---------------------------
(***************************************************************************)
(* Proofs about RibReaders and StatsLogger, for any number of readers and  *)
(* loggers beside the RIBs and goroutines of SharedRibs.  Neither changes  *)
(* anything that SharedRibs speaks of, so that its invariant and its       *)
(* refinement hold here too; ReaderInv, on top of that invariant, is       *)
(* inductive.                                                              *)
(***************************************************************************)
EXTENDS StatsLogger, SharedRibs_refinement

(* A step of RibReaders is one of SharedRibs, or none. *)
LEMMA ReaderRefines == [RNext]_rvars => [Next]_vars
<1> SUFFICES ASSUME [RNext]_rvars PROVE [Next]_vars
  OBVIOUS
<1>1. ASSUME NEW t \in Thread, WriterStep(t) PROVE [Next]_vars
  <2>1. CASE WriterCall(t)
    BY <2>1 DEF WriterCall
  <2>2. ASSUME NEW r \in Rib, WriterLock(t, r) PROVE Next
    BY <2>2 DEF WriterLock, Next, Step, Begin
  <2>3. ASSUME NEW r \in Rib, WriterOnce(t, r) PROVE Next
    BY <2>3 DEF WriterOnce, Next, Step, Begin
  <2>4. ASSUME NEW r \in Rib, WriterUnlock(t, r) PROVE Next
    BY <2>4 DEF WriterUnlock, Next, Step, Sweep
  <2>5. CASE WriterWork(t)
    BY <2>5 DEF WriterWork, Next, Step, Sweep
  <2> QED BY <1>1, <2>1, <2>2, <2>3, <2>4, <2>5 DEF WriterStep
<1>2. ASSUME NEW u \in Query, QueryStep(u) PROVE UNCHANGED vars
  BY <1>2 DEF QueryStep, Walk, QueryCall, Visit, QueryReturn
<1> QED BY <1>1, <1>2 DEF RNext, rvars

(* So every theorem of SharedRibs is one of RibReaders. *)
THEOREM ReadersImplementRibs == RSpec => Spec
<1>1. RInit => Init
  BY DEF RInit
<1> QED BY <1>1, ReaderRefines, PTL DEF RSpec, Spec
-----------------------------------------------------------------------------
(* The steps between two uses of r.mu keep every lock, write only a trie     *)
(* that no walk is in, and no copy that a caller keeps.                      *)
LEMMA WorkEffect ==
  ASSUME IInv, ReaderInv, NEW t \in Thread, WriterWork(t)
  PROVE  /\ UNCHANGED <<rmu, root, pending, shared, waiting, query, result, value>>
         /\ \A r \in Rib, l \in Loc : rmu[r] # t =>
              tree'[<<root[r], l>>] = tree[<<root[r], l>>]
         /\ \A p \in Kept : content'[p] = content[p]
<1> USE SharedAssumption
<1>1. /\ TypeOK /\ LockDiscipline /\ DetachedUnreachable /\ ReaderTypeOK
      /\ Interned' \intersect Kept \subseteq Interned
      /\ Kept \subseteq Ptr
      /\ UNCHANGED <<pending, shared, waiting, query, result, value>>
  BY DEF IInv, ReaderInv, WriterWork, mutexVars, queryVars, ReaderTypeOK,
     PtrOrNil, Kept
<1>2. ASSUME NEW l \in Loc, NEW in \in Attr \union {NilAttr}, NEW p \in Ptr,
             InternStep(t, l, in, p)
      PROVE  /\ UNCHANGED <<rmu, root, tree>>
             /\ \A q \in Kept : content'[q] = content[q]
  <2>1. CASE Share(ValueOf(in), p)
    BY <1>2, <2>1 DEF InternStep, Share
  <2>2. CASE Intern(ValueOf(in), p, Held)
    <3>1. p \in Interned' /\ p \notin Interned
      <4>1. hashAttributes[ValueOf(in)] \in Hash
        BY AttrAssumption DEF ValueOf
      <4>2. p \in entries'[hashAttributes[ValueOf(in)]]
        BY <1>1, <2>2, <4>1 DEF Intern, TypeOK, TableTypeOK
      <4> QED BY <2>2, <4>1, <4>2 DEF Intern, Interned
    <3>2. p \notin Kept
      BY <1>1, <3>1
    <3> QED BY <1>1, <1>2, <2>2, <3>2 DEF InternStep, Intern, TypeOK, TableTypeOK
  <2> QED BY <1>2, <2>1, <2>2 DEF InternStep, getOrInsert
<1>3. ASSUME NEW r \in Rib, NEW s \in Slot, SetPath(t, r, s)
      PROVE  /\ UNCHANGED <<rmu, root, content>>
             /\ \A q \in Rib, l \in Loc : rmu[q] # t =>
                  tree'[<<root[q], l>>] = tree[<<root[q], l>>]
  <2>1. /\ rmu[r] = t /\ s[1] = root[r] /\ UNCHANGED <<rmu, root, content>>
        /\ tree' = [x \in Slot |-> IF x = <<root[r], loc[t]>> THEN hand[t]
                                   ELSE IF x = s THEN NoPtr ELSE tree[x]]
    BY <1>3 DEF SetPath, Replaceable, tableVars
  <2>2. ASSUME NEW q \in Rib, NEW l \in Loc, rmu[q] # t
        PROVE  tree'[<<root[q], l>>] = tree[<<root[q], l>>]
    <3>1. root[q] # root[r] /\ <<root[q], l>> \in Slot
      BY <1>1, <2>1, <2>2 DEF DetachedUnreachable, TypeOK, Slot
    <3>2. <<root[q], l>> # <<root[r], loc[t]>> /\ <<root[q], l>> # s
      BY <2>1, <3>1
    <3> QED BY <2>1, <3>1, <3>2
  <2> QED BY <2>1, <2>2
<1>4. ASSUME NEW r \in Rib, NEW k \in Loc, DeletePath(t, r, k) \/ SweepPath(t, r, k)
      PROVE  /\ UNCHANGED <<rmu, root, content>>
             /\ \A q \in Rib, l \in Loc : rmu[q] # t =>
                  tree'[<<root[q], l>>] = tree[<<root[q], l>>]
  <2>1. /\ rmu[r] = t /\ UNCHANGED <<rmu, root, content>>
        /\ tree' = [tree EXCEPT ![<<root[r], k>>] = NoPtr]
    BY <1>4 DEF DeletePath, SweepPath, tableVars
  <2>2. ASSUME NEW q \in Rib, NEW l \in Loc, rmu[q] # t
        PROVE  tree'[<<root[q], l>>] = tree[<<root[q], l>>]
    <3>1. root[q] # root[r]
      BY <1>1, <2>1, <2>2 DEF DetachedUnreachable
    <3> QED BY <1>1, <2>1, <3>1 DEF TypeOK
  <2> QED BY <2>1, <2>2
<1>5. ASSUME NEW k \in Loc, CollectPath(t, k)
      PROVE  /\ UNCHANGED <<rmu, root, content>>
             /\ \A q \in Rib, l \in Loc :
                  tree'[<<root[q], l>>] = tree[<<root[q], l>>]
  <2>1. /\ UNCHANGED <<rmu, root, content>>
        /\ tree' = [tree EXCEPT ![<<oldRoot[t], k>>] = NoPtr]
    BY <1>5 DEF CollectPath, tableVars
  <2> QED BY <1>1, <2>1 DEF TypeOK, DetachedUnreachable
<1>6. ASSUME \/ ReleaseOld(t, "insertFree", "insert")
             \/ ReleaseOld(t, "deleteFree", "delete")
             \/ CollectDone(t) \/ ReleaseN(t)
      PROVE  UNCHANGED <<rmu, root, tree, content>>
  BY <1>6 DEF ReleaseOld, release, CollectDone, ReleaseN, ReleaseNEmpty,
     ReleaseNLock, ReleaseNItem, releaseNItem, ReleaseNRelock, ReleaseNDone,
     tableVars
<1> QED
  BY <1>1, <1>2, <1>3, <1>4, <1>5, <1>6
  DEF WriterWork, InsertRoute, DeleteRoute, Collect

(* A walk under way has a writer neither in its RIB nor let in. *)
LEMMA WalkExcludesWriter ==
  ASSUME ReaderInv, NEW u \in Query, NEW r \in Rib, query[u] = r
  PROVE  \/ u \in shared[r] /\ rmu[r] = NoThread
         \/ u \in waiting[r] /\ u \notin shared[r] /\ result[u] = NoResult
BY DEF ReaderInv, ReadersQueued

(* No query has begun: the invariant of the readers holds. *)
LEMMA ReaderInvInit == RInit => ReaderInv
BY AttrAssumption, ReaderAssumption
DEF RInit, Init, TableInit, ReaderInv, ReaderTypeOK, ReadersQueued, WalkHolds,
    RoutesKeepValue, NoResult, NoValue, PtrOrNil

(* One step of a writer. *)
LEMMA WriterKeeps ==
  ASSUME IInv, ReaderInv, NEW t \in Thread, WriterStep(t)
  PROVE  ReaderInv'
<1> USE SharedAssumption, ReaderAssumption
<1>1. /\ TypeOK /\ LockDiscipline /\ DetachedUnreachable
      /\ ReaderTypeOK /\ ReadersQueued /\ WalkHolds /\ RoutesKeepValue
  BY DEF IInv, ReaderInv
<1>2. CASE WriterCall(t)
  <2>1. PICK r \in Rib : Announce(t, r) /\ UNCHANGED <<vars, queryVars>>
    BY <1>2 DEF WriterCall
  <2>2. UNCHANGED <<rmu, root, tree, content, query, result, value, shared, waiting>>
    BY <2>1 DEF Announce, vars, tableVars, queryVars
  <2>3. /\ pending' = [pending EXCEPT ![r] = t]
        /\ rmu[r] = NoThread
    BY <2>1 DEF Announce
  <2>4. ReaderTypeOK'
    BY <1>1, <2>2, <2>3 DEF ReaderTypeOK
  <2>5. ReadersQueued'
    BY <1>1, <2>2, <2>3 DEF ReadersQueued, ReaderTypeOK
  <2>6. WalkHolds' /\ RoutesKeepValue'
    BY <1>1, <2>2 DEF WalkHolds, RoutesKeepValue
  <2> QED BY <2>4, <2>5, <2>6 DEF ReaderInv
<1>3. ASSUME NEW r \in Rib, WriterLock(t, r) PROVE ReaderInv'
  <2>1. /\ UNCHANGED <<root, tree, content, query, result, value, shared, waiting>>
        /\ pending' = [pending EXCEPT ![r] = NoThread]
        /\ rmu' = [rmu EXCEPT ![r] = t]
        /\ shared[r] = {}
    BY <1>3 DEF WriterLock, Lock, tableVars, queryVars
  <2>2. ReaderTypeOK'
    BY <1>1, <2>1 DEF ReaderTypeOK
  <2>3. ReadersQueued'
    BY <1>1, <2>1 DEF ReadersQueued, ReaderTypeOK, TypeOK
  <2>4. WalkHolds' /\ RoutesKeepValue'
    BY <1>1, <2>1 DEF WalkHolds, RoutesKeepValue
  <2> QED BY <2>2, <2>3, <2>4 DEF ReaderInv
<1>4. ASSUME NEW r \in Rib, WriterOnce(t, r) PROVE ReaderInv'
  <2>1. /\ UNCHANGED <<rmu, tree, content, query, result, value>>
        /\ \A q \in Rib \ {r} : root'[q] = root[q]
        /\ pending' = [pending EXCEPT ![r] = NoThread]
        /\ shared' = [shared EXCEPT ![r] = @ \union waiting[r]]
        /\ waiting' = [waiting EXCEPT ![r] = {}]
        /\ shared[r] = {} /\ rmu[r] = NoThread
    BY <1>1, <1>4 DEF WriterOnce, MarkAllStale, ResetSwap, Admit, tableVars,
       threadVars, queryVars, TypeOK
  <2>2. ReaderTypeOK'
    BY <1>1, <2>1 DEF ReaderTypeOK
  <2>3. ReadersQueued'
    BY <1>1, <2>1 DEF ReadersQueued, ReaderTypeOK
  <2>4. WalkHolds'
    <3> SUFFICES ASSUME NEW u \in Query, NEW q \in Rib, NEW l \in Loc,
                        query[u] = q, result[u][l] # NoPtr
                 PROVE  result[u][l] = tree[<<root'[q], l>>]
      BY <2>1 DEF WalkHolds
    <3>1. result[u] # NoResult
      BY DEF NoResult
    <3>2. q # r
      BY <1>1, <2>1, <3>1 DEF ReadersQueued
    <3> QED BY <1>1, <2>1, <3>2 DEF WalkHolds
  <2>5. RoutesKeepValue'
    BY <1>1, <2>1 DEF RoutesKeepValue
  <2> QED BY <2>2, <2>3, <2>4, <2>5 DEF ReaderInv
<1>5. ASSUME NEW r \in Rib, WriterUnlock(t, r) PROVE ReaderInv'
  <2>1. /\ UNCHANGED <<root, tree, content, query, result, value, pending>>
        /\ rmu' = [rmu EXCEPT ![r] = NoThread]
        /\ shared' = [shared EXCEPT ![r] = @ \union waiting[r]]
        /\ waiting' = [waiting EXCEPT ![r] = {}]
        /\ rmu[r] = t
    BY <1>5 DEF WriterUnlock, Unlock, SweepDone, Admit, tableVars, queryVars
  <2>2. ReaderTypeOK'
    BY <1>1, <2>1 DEF ReaderTypeOK
  <2>3. shared[r] = {}
    BY <1>1, <2>1 DEF ReadersQueued
  <2>4. ReadersQueued'
    BY <1>1, <2>1, <2>3 DEF ReadersQueued, ReaderTypeOK, TypeOK
  <2>5. WalkHolds' /\ RoutesKeepValue'
    BY <1>1, <2>1 DEF WalkHolds, RoutesKeepValue
  <2> QED BY <2>2, <2>4, <2>5 DEF ReaderInv
<1>6. CASE WriterWork(t)
  <2>1. /\ UNCHANGED <<rmu, root, pending, shared, waiting, query, result, value>>
        /\ \A r \in Rib, l \in Loc : rmu[r] # t =>
             tree'[<<root[r], l>>] = tree[<<root[r], l>>]
        /\ \A p \in Kept : content'[p] = content[p]
    BY <1>6, WorkEffect
  <2>2. ReaderTypeOK' /\ ReadersQueued'
    BY <1>1, <2>1 DEF ReaderTypeOK, ReadersQueued
  <2>3. WalkHolds'
    <3> SUFFICES ASSUME NEW u \in Query, NEW r \in Rib, NEW l \in Loc,
                        query[u] = r, result[u][l] # NoPtr
                 PROVE  result[u][l] = tree'[<<root[r], l>>]
      BY <2>1 DEF WalkHolds
    <3>1. result[u] # NoResult
      BY DEF NoResult
    <3>2. rmu[r] = NoThread
      BY <3>1, WalkExcludesWriter
    <3> QED BY <1>1, <2>1, <3>2 DEF WalkHolds
  <2>4. RoutesKeepValue'
    BY <1>1, <2>1 DEF RoutesKeepValue, Kept
  <2> QED BY <2>2, <2>3, <2>4 DEF ReaderInv
<1> QED BY <1>2, <1>3, <1>4, <1>5, <1>6 DEF WriterStep

(* One step of a query. *)
LEMMA QueryKeeps ==
  ASSUME IInv, ReaderInv, NEW u \in Query, QueryStep(u)
  PROVE  ReaderInv'
<1> USE SharedAssumption, ReaderAssumption
<1>1. /\ TypeOK /\ ReaderTypeOK /\ ReadersQueued /\ WalkHolds /\ RoutesKeepValue
  BY DEF IInv, ReaderInv
<1>2. NoResult \in [Loc -> PtrOrNil] /\ NoValue \in [Loc -> Attr \union {NilAttr}]
  BY DEF NoResult, NoValue, PtrOrNil
<1>3. ASSUME NEW r \in Rib, QueryCall(u, r) PROVE ReaderInv'
  <2>1. /\ UNCHANGED <<rmu, root, tree, content, pending>>
        /\ query[u] = NoRib
        /\ query' = [query EXCEPT ![u] = r]
        /\ result' = [result EXCEPT ![u] = NoResult]
        /\ value' = [value EXCEPT ![u] = NoValue]
    BY <1>3 DEF QueryCall, RLock, vars, tableVars
  <2>2. \/ /\ rmu[r] = NoThread /\ pending[r] = NoThread
           /\ shared' = [shared EXCEPT ![r] = @ \union {u}] /\ waiting' = waiting
        \/ /\ ~(rmu[r] = NoThread /\ pending[r] = NoThread)
           /\ waiting' = [waiting EXCEPT ![r] = @ \union {u}] /\ shared' = shared
    BY <1>3 DEF QueryCall, RLock
  <2>3. ReaderTypeOK'
    BY <1>1, <1>2, <2>1, <2>2 DEF ReaderTypeOK
  <2>4. ReadersQueued'
    <3>1. \A q \in Rib : u \notin shared[q] \union waiting[q]
      BY <1>1, <2>1 DEF ReadersQueued
    <3> QED BY <1>1, <2>1, <2>2, <3>1 DEF ReadersQueued, ReaderTypeOK
  <2>5. WalkHolds' /\ RoutesKeepValue'
    <3>1. \A v \in Query, m \in Loc :
            /\ result'[v][m] = IF v = u THEN NoPtr ELSE result[v][m]
            /\ value'[v][m] = IF v = u THEN NilAttr ELSE value[v][m]
      BY <1>1, <2>1 DEF ReaderTypeOK, NoResult, NoValue
    <3>2. RoutesKeepValue'
      BY <1>1, <2>1, <3>1 DEF RoutesKeepValue
    <3> QED BY <1>1, <2>1, <3>1, <3>2 DEF WalkHolds, ReaderTypeOK
  <2> QED BY <2>3, <2>4, <2>5 DEF ReaderInv
<1>4. ASSUME NEW r \in Rib, NEW l \in Loc, Visit(u, r, l) PROVE ReaderInv'
  <2> DEFINE p == tree[<<root[r], l>>]
  <2>1. /\ UNCHANGED <<rmu, root, tree, content, pending, shared, waiting, query>>
        /\ query[u] = r /\ u \in shared[r] /\ p # NoPtr
        /\ result' = [result EXCEPT ![u][l] = p]
        /\ value' = [value EXCEPT ![u][l] = content[p]]
    BY <1>4 DEF Visit, vars, tableVars, mutexVars
  <2>2. p \in Ptr /\ content[p] \in Attr
    BY <1>1, <2>1 DEF TypeOK, TableTypeOK, Slot, PtrOrNil
  <2>3. ReaderTypeOK'
    BY <1>1, <2>1, <2>2 DEF ReaderTypeOK, PtrOrNil
  <2>4. ReadersQueued'
    BY <1>1, <2>1 DEF ReadersQueued, ReaderTypeOK
  <2>5. \A v \in Query, m \in Loc :
          /\ result'[v][m] = IF v = u /\ m = l THEN p ELSE result[v][m]
          /\ value'[v][m] = IF v = u /\ m = l THEN content[p] ELSE value[v][m]
    BY <1>1, <2>1 DEF ReaderTypeOK
  <2>6. WalkHolds' /\ RoutesKeepValue'
    BY <1>1, <2>1, <2>5 DEF WalkHolds, RoutesKeepValue
  <2> QED BY <2>3, <2>4, <2>6 DEF ReaderInv
<1>5. ASSUME NEW r \in Rib, QueryReturn(u, r) PROVE ReaderInv'
  <2>1. /\ UNCHANGED <<rmu, root, tree, content, pending, waiting, result, value>>
        /\ query[u] = r /\ u \in shared[r]
        /\ query' = [query EXCEPT ![u] = NoRib]
        /\ shared' = [shared EXCEPT ![r] = @ \ {u}]
    BY <1>5 DEF QueryReturn, RUnlock, vars, tableVars
  <2>2. ReaderTypeOK'
    BY <1>1, <2>1 DEF ReaderTypeOK
  <2>3. ReadersQueued'
    <3>1. \A q \in Rib : u \notin waiting[q]
      BY <1>1, <2>1 DEF ReadersQueued
    <3> QED BY <1>1, <2>1, <3>1 DEF ReadersQueued, ReaderTypeOK
  <2>4. WalkHolds' /\ RoutesKeepValue'
    BY <1>1, <2>1 DEF WalkHolds, RoutesKeepValue, ReaderTypeOK
  <2> QED BY <2>2, <2>3, <2>4 DEF ReaderInv
<1> QED BY <1>3, <1>4, <1>5 DEF QueryStep, Walk

(* Every step of a reader or a writer keeps the invariant of the readers. *)
LEMMA ReaderInvStep == IInv /\ ReaderInv /\ [RNext]_rvars => ReaderInv'
<1> SUFFICES ASSUME IInv, ReaderInv, [RNext]_rvars PROVE ReaderInv'
  OBVIOUS
<1>1. CASE UNCHANGED rvars
  BY <1>1 DEF rvars, vars, tableVars, mutexVars, queryVars, ReaderInv,
     ReaderTypeOK, ReadersQueued, WalkHolds, RoutesKeepValue
<1> QED BY <1>1, WriterKeeps, QueryKeeps DEF RNext

(* The invariants of writers and readers hold together, always. *)
THEOREM ReaderInvariance == RSpec => [](IInv /\ ReaderInv)
BY ReadersImplementRibs, Invariance, ReaderInvInit, ReaderInvStep, PTL DEF RSpec

(* A query returns the RIB as it is at one instant, the one of its return,   *)
(* whatever the writers of this and of other RIBs do in the meantime.        *)
THEOREM QueriesReadSnapshots == RSpec => []ReadsSnapshot
<1>1. IInv /\ ReaderInv => ReadsSnapshot
  <2> SUFFICES ASSUME IInv, ReaderInv, NEW u \in Query, NEW r \in Rib,
                      NEW l \in Loc, query[u] = r, result[u][l] # NoPtr
               PROVE  result[u][l] = PathAt(r, l)
    BY DEF ReadsSnapshot
  <2>1. rmu[r] = NoThread
    BY WalkExcludesWriter DEF NoResult
  <2>2. PathAt(r, l) = tree[<<root[r], l>>]
    BY <2>1 DEF PathAt, Swept
  <2>3. result[u][l] = tree[<<root[r], l>>]
    BY DEF ReaderInv, WalkHolds
  <2> QED BY <2>2, <2>3
<1> QED BY <1>1, ReaderInvariance, PTL

(* Through a whole walk its pointers stay in the table, and two of them are  *)
(* one exactly if their values are, so that a pointer stands for its value.  *)
THEOREM WalksGoByPointer == RSpec => []WalkByPointer
<1>1. IInv /\ ReaderInv => WalkByPointer
  <2> SUFFICES ASSUME IInv, ReaderInv, NEW u \in Query, NEW l \in Loc,
                      query[u] # NoRib, result[u][l] # NoPtr
               PROVE  /\ result[u][l] \in Interned
                      /\ \A m \in Loc : value[u][m] = value[u][l] <=>
                           result[u][m] = result[u][l]
    BY DEF WalkByPointer
  <2>1. /\ TypeOK /\ InternedIffHeld /\ Deduplicated
        /\ ReaderTypeOK /\ WalkHolds /\ RoutesKeepValue
    BY HeldInterned DEF IInv, ReaderInv
  <2>2. query[u] \in Rib
    BY <2>1 DEF ReaderTypeOK
  <2>3. ASSUME NEW k \in Loc, result[u][k] # NoPtr
        PROVE  result[u][k] \in Interned
    <3>1. result[u][k] = tree[<<root[query[u]], k>>]
      BY <2>1, <2>2, <2>3 DEF WalkHolds
    <3>2. <<root[query[u]], k>> \in Slot
      BY <2>1, <2>2 DEF TypeOK, Slot
    <3> QED BY <2>1, <2>3, <3>1, <3>2 DEF InternedIffHeld, Held
  <2>4. ASSUME NEW m \in Loc, value[u][m] = value[u][l]
        PROVE  result[u][m] = result[u][l]
    <3>1. content[result[u][l]] \in Attr /\ NilAttr \notin Attr
      BY <2>1, AttrAssumption DEF ReaderTypeOK, PtrOrNil, TypeOK, TableTypeOK
    <3>2. value[u][l] = content[result[u][l]]
      BY <2>1 DEF RoutesKeepValue
    <3>3. result[u][m] # NoPtr /\ value[u][m] = content[result[u][m]]
      BY <2>1, <2>4, <3>1, <3>2 DEF RoutesKeepValue
    <3> QED BY <2>1, <2>3, <2>4, <3>2, <3>3 DEF Deduplicated
  <2>5. ASSUME NEW m \in Loc, result[u][m] = result[u][l]
        PROVE  value[u][m] = value[u][l]
    BY <2>1, <2>5 DEF RoutesKeepValue
  <2> QED BY <2>3, <2>4, <2>5
<1> QED BY <1>1, ReaderInvariance, PTL

(* With readers beside the writers, writes are atomic still.                 *)
THEOREM RibsStayAtomic == RSpec => AtomicRibs
BY ReadersImplementRibs, RibsAreAtomic, PTL
-----------------------------------------------------------------------------
(* Loggers: a report is made of numbers that the table had at one instant.  *)

OfOneTable(report) ==
  \E values \in SUBSET Attr : /\ report[1] = Cardinality(values)
                              /\ report[2] = Total(sliceSize, values)

LStats == /\ stats \in [Logger -> Int \X Int]
          /\ \A g \in Logger : OfOneTable(stats[g])

(* No step of a logger touches a RIB or the table, and but for GetStats none *)
(* writes what a logger has read.                                            *)
LEMMA LoggerSteps ==
  ASSUME [LNext]_lvars
  PROVE  /\ [Next]_vars
         /\ UNCHANGED stats \/ \E g \in Logger : GetStats(g)
<1>1. CASE UNCHANGED lvars
  BY <1>1 DEF lvars, rvars, loggerVars
<1>2. CASE RNext /\ UNCHANGED loggerVars
  BY <1>2, ReaderRefines DEF loggerVars
<1>3. ASSUME NEW g \in Logger, Tick(g) \/ Cancel(g) \/ Stop(g) \/ Report(g)
      PROVE  UNCHANGED <<vars, stats>>
  BY <1>3 DEF Tick, Cancel, Stop, Report, TakeTick, Call, Return, rvars, loggerVars
<1>4. ASSUME NEW g \in Logger, GetStats(g)
      PROVE  UNCHANGED vars
  BY <1>4 DEF GetStats, rvars
<1> QED BY <1>1, <1>2, <1>3, <1>4 DEF LNext

(* So every theorem of SharedRibs is one of StatsLogger. *)
THEOREM LoggersImplementRibs == LSpec => Spec
<1>1. LInit => Init
  BY DEF LInit, RInit
<1> QED BY <1>1, LoggerSteps, PTL DEF LSpec, Spec

(* The numbers of the table are the number and the bytes of some values.    *)
LEMMA StatsOfValues ==
  ASSUME IInv, TableCounted
  PROVE  OfOneTable(<<attrCount, sliceBytes>>)
<1> DEFINE values == {content[p] : p \in Interned}
           f == [p \in Interned |-> content[p]]
<1>1. TypeOK /\ Deduplicated /\ IsFiniteSet(Interned)
  BY DEF IInv, TableCounted
<1>2. /\ Interned \subseteq Ptr
      /\ \A p \in Interned : Sizes[p] = sliceSize[content[p]] /\ Sizes[p] \in Int
  BY <1>1, SizesAre
<1>3. values \in SUBSET Attr
  BY <1>1, <1>2 DEF TypeOK, TableTypeOK
<1>4. Cardinality(values) = Cardinality(Interned)
  <2>1. f \in Bijection(Interned, values)
    BY <1>1 DEF Deduplicated, Bijection, Injection, IsInjective, Surjection
  <2> HIDE DEF f, values
  <2> QED BY <1>1, <2>1, FS_Bijection DEF ExistsBijection
<1>5. Bytes(Interned) = Total(sliceSize, values)
  <2> DEFINE S == Interned
             s == Sizes
             h == content
  <2>1. IsFiniteSet(S) /\ \A x \in S : s[x] \in Int
    BY <1>1, <1>2
  <2>2. \A x, y \in S : h[x] = h[y] => x = y
    BY <1>1 DEF Deduplicated
  <2>3. \A x \in S : sliceSize[h[x]] = s[x]
    BY <1>2
  <2> HIDE DEF S, s, h
  <2>4. Total(s, S) = Total(sliceSize, {h[x] : x \in S})
    BY ONLY <2>1, <2>2, <2>3, TotalMapped
  <2> QED BY <2>4 DEF S, s, h, Bytes
<1> QED BY <1>3, <1>4, <1>5 DEF TableCounted, OfOneTable

(* A step leaves what a logger has read of one table of one table. *)
LEMMA LStatsStep == IInv /\ TableCounted /\ LStats /\ [LNext]_lvars => LStats'
<1> SUFFICES ASSUME IInv, TableCounted, LStats, [LNext]_lvars PROVE LStats'
  OBVIOUS
<1>1. CASE UNCHANGED stats
  BY <1>1 DEF LStats
<1>2. ASSUME NEW g \in Logger, GetStats(g)
      PROVE  LStats'
  <2>1. stats' = [stats EXCEPT ![g] = <<attrCount, sliceBytes>>]
    BY <1>2 DEF GetStats
  <2>2. attrCount \in Int /\ sliceBytes \in Int
    BY DEF IInv, TypeOK, TableTypeOK
  <2>3. stats' \in [Logger -> Int \X Int]
    BY <2>1, <2>2 DEF LStats
  <2>4. \A k \in Logger : stats'[k] = IF k = g THEN <<attrCount, sliceBytes>> ELSE stats[k]
    BY <2>1 DEF LStats
  <2>5. \A k \in Logger : OfOneTable(stats'[k])
    BY <2>4, StatsOfValues DEF LStats
  <2> QED BY <2>3, <2>5 DEF LStats
<1> QED BY <1>1, <1>2, LoggerSteps

(* Nothing has been read: the numbers are those of the empty table. *)
LEMMA LStatsInit == LInit => LStats
<1> SUFFICES ASSUME LInit PROVE LStats
  OBVIOUS
<1>1. stats \in [Logger -> Int \X Int] /\ \A g \in Logger : stats[g] = <<0, 0>>
  BY DEF LInit
<1>2. Cardinality({}) = 0 /\ Total(sliceSize, {}) = 0
  BY FS_EmptySet, TotalOf
<1>3. OfOneTable(<<0, 0>>)
  <2>1. {} \in SUBSET Attr /\ <<0, 0>>[1] = 0 /\ <<0, 0>>[2] = 0
    OBVIOUS
  <2> QED BY <1>2, <2>1 DEF OfOneTable
<1> QED BY <1>1, <1>3 DEF LStats

(* The count and the bytes of a report belong to one state of the table,     *)
(* however many copies come and go while the report is put together.         *)
THEOREM ReportsAreOfOneTable == LSpec => []StatsOfOneTable
<1>1. LStats => StatsOfOneTable
  BY DEF LStats, OfOneTable, StatsOfOneTable, Total
<1> QED BY <1>1, LStatsInit, LStatsStep, LoggersImplementRibs, Invariance,
           TableStaysCounted, PTL DEF LSpec
=============================================================================
