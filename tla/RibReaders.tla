------------------------------ MODULE RibReaders ------------------------------
(***************************************************************************)
(* SharedRibs with the goroutines that read: r.mu is a sync.RWMutex, which *)
(* a method that reads (Search, AllPaths, AllPrefixes, prefixesMatching,   *)
(* ...) holds shared for the whole of its walk.  The walk takes many steps *)
(* and looks at the trie as it is at each; the routes it returns carry     *)
(* pointers to interned attributes, which the caller keeps after the lock  *)
(* has gone, and after the copy may have been purged.                      *)
(*                                                                         *)
(* Every step is a step of SharedRibs or leaves its variables alone; what  *)
(* is added to a writer's step is the wait for the readers.                *)
(***************************************************************************)
EXTENDS SharedRibs

CONSTANTS
  Reader,     \* the goroutines that read, queries and others
  Query,      \* those that call the methods that walk the trie
  NoRib

ASSUME ReaderAssumption == Query \subseteq Reader /\ NoRib \notin Rib

VARIABLES
  pending,    \* RIB -> the goroutine in r.mu.Lock, waiting for readers to leave
  shared,     \* RIB -> the readers that hold r.mu
  waiting,    \* RIB -> the readers in r.mu.RLock
  query,      \* reader -> the RIB its query is about, NoRib outside
  result,     \* reader -> the pointers in its routes, by location
  value       \* history: the value each had when it was read

mutexVars == <<pending, shared, waiting>>
queryVars == <<query, result, value>>
rvars == <<vars, mutexVars, queryVars>>

NoResult == [l \in Loc |-> NoPtr]
NoValue == [l \in Loc |-> NilAttr]

ReaderTypeOK ==
  /\ pending \in [Rib -> Thread \union {NoThread}]
  /\ shared \in [Rib -> SUBSET Reader]
  /\ waiting \in [Rib -> SUBSET Reader]
  /\ query \in [Query -> Rib \union {NoRib}]
  /\ result \in [Query -> [Loc -> PtrOrNil]]
  /\ value \in [Query -> [Loc -> Attr \union {NilAttr}]]

RInit ==
  /\ Init
  /\ pending = [r \in Rib |-> NoThread]
  /\ shared = [r \in Rib |-> {}]
  /\ waiting = [r \in Rib |-> {}]
  /\ query = [u \in Query |-> NoRib]
  /\ result = [u \in Query |-> NoResult]
  /\ value = [u \in Query |-> NoValue]

(* What a caller still refers to, and the collector cannot take. *)
Kept == {result[u][l] : u \in Query, l \in Loc} \ {NoPtr}

-----------------------------------------------------------------------------
(* sync.RWMutex: a writer announces itself and waits for the readers that   *)
(* are inside; later readers queue, and are let in when it unlocks.         *)

RLock(u, r) ==
  IF rmu[r] = NoThread /\ pending[r] = NoThread
    THEN /\ shared' = [shared EXCEPT ![r] = @ \union {u}]
         /\ UNCHANGED <<pending, waiting>>
    ELSE /\ waiting' = [waiting EXCEPT ![r] = @ \union {u}]
         /\ UNCHANGED <<pending, shared>>

RUnlock(u, r) ==
  /\ shared' = [shared EXCEPT ![r] = @ \ {u}]
  /\ UNCHANGED <<pending, waiting>>

Announce(t, r) ==
  /\ pc[t] = "idle" /\ \A q \in Rib : pending[q] # t
  /\ rmu[r] = NoThread /\ pending[r] = NoThread
  /\ pending' = [pending EXCEPT ![r] = t]
  /\ UNCHANGED <<shared, waiting>>

Admit(r) ==
  /\ shared' = [shared EXCEPT ![r] = @ \union waiting[r]]
  /\ waiting' = [waiting EXCEPT ![r] = {}]

-----------------------------------------------------------------------------
(* Writers: the steps of SharedRibs, with the wait for readers *)

WriterCall(t) ==
  /\ \E r \in Rib : Announce(t, r)
  /\ UNCHANGED <<vars, queryVars>>

(* The methods that go on with r.mu held. *)
WriterLock(t, r) ==
  /\ pending[r] = t /\ shared[r] = {}
  /\ \E label \in {"insert", "delete", "sweep"} : Lock(t, r, label)
  /\ pending' = [pending EXCEPT ![r] = NoThread]
  /\ UNCHANGED <<shared, waiting, queryVars>>

(* MarkAllStale and the swap of Reset lock, write and unlock. *)
WriterOnce(t, r) ==
  /\ pending[r] = t /\ shared[r] = {}
  /\ MarkAllStale(r) \/ \E T \in Tree : ResetSwap(t, r, T)
  /\ pending' = [pending EXCEPT ![r] = NoThread]
  /\ Admit(r)
  /\ UNCHANGED queryVars

WriterUnlock(t, r) ==
  /\ Unlock(t, r) \/ SweepDone(t, r)
  /\ Admit(r)
  /\ UNCHANGED <<pending, queryVars>>

(* Everything between.  No copy is made at an address that a route keeps.   *)
WriterWork(t) ==
  /\ \/ InsertRoute(t)
     \/ DeleteRoute(t)
     \/ \E r \in Rib, l \in Loc : SweepPath(t, r, l)
     \/ Collect(t)
     \/ ReleaseN(t)
  /\ Interned' \intersect Kept \subseteq Interned
  /\ UNCHANGED <<mutexVars, queryVars>>

-----------------------------------------------------------------------------
(* Queries *)

(* A mutant: the lock is not waited for. *)
QueryCallUnlocked(u, r) ==
  /\ query[u] = NoRib
  /\ shared' = [shared EXCEPT ![r] = @ \union {u}]
  /\ query' = [query EXCEPT ![u] = r]
  /\ result' = [result EXCEPT ![u] = NoResult]
  /\ value' = [value EXCEPT ![u] = NoValue]
  /\ UNCHANGED <<vars, pending, waiting>>

(* The routes of an earlier query are dropped at the latest now. *)
QueryCall(u, r) ==
  /\ query[u] = NoRib
  /\ RLock(u, r)
  /\ query' = [query EXCEPT ![u] = r]
  /\ result' = [result EXCEPT ![u] = NoResult]
  /\ value' = [value EXCEPT ![u] = NoValue]
  /\ UNCHANGED vars

(* A mutant: another method that locks r.mu shared is called in the walk. *)
VisitNested(u, r, l) ==
  LET p == tree[<<root[r], l>>] IN
  /\ query[u] = r /\ u \in shared[r] /\ pending[r] = NoThread
  /\ p # NoPtr /\ result[u][l] = NoPtr
  /\ result' = [result EXCEPT ![u][l] = p]
  /\ value' = [value EXCEPT ![u][l] = content[p]]
  /\ UNCHANGED <<vars, mutexVars, query>>

(* One path of the walk. *)
Visit(u, r, l) ==
  LET p == tree[<<root[r], l>>] IN
  /\ query[u] = r /\ u \in shared[r]
  /\ p # NoPtr /\ result[u][l] = NoPtr
  /\ result' = [result EXCEPT ![u][l] = p]
  /\ value' = [value EXCEPT ![u][l] = content[p]]
  /\ UNCHANGED <<vars, mutexVars, query>>

(* A mutant: no deferred RUnlock. *)
QueryReturnLocked(u, r) ==
  /\ query[u] = r /\ u \in shared[r]
  /\ \A l \in Loc : tree[<<root[r], l>>] # NoPtr => result[u][l] # NoPtr
  /\ query' = [query EXCEPT ![u] = NoRib]
  /\ UNCHANGED <<vars, mutexVars, result, value>>

(* Nothing is left to visit: the routes go to the caller. *)
QueryReturn(u, r) ==
  /\ query[u] = r /\ u \in shared[r]
  /\ \A l \in Loc : tree[<<root[r], l>>] # NoPtr => result[u][l] # NoPtr
  /\ RUnlock(u, r)
  /\ query' = [query EXCEPT ![u] = NoRib]
  /\ UNCHANGED <<vars, result, value>>

-----------------------------------------------------------------------------
WriterStep(t) ==
  \/ WriterCall(t)
  \/ \E r \in Rib : WriterLock(t, r) \/ WriterOnce(t, r) \/ WriterUnlock(t, r)
  \/ WriterWork(t)

Walk(u, r) == QueryReturn(u, r) \/ \E l \in Loc : Visit(u, r, l)
QueryStep(u) == \E r \in Rib : QueryCall(u, r) \/ Walk(u, r)

RNext ==
  \/ \E t \in Thread : WriterStep(t)
  \/ \E u \in Query : QueryStep(u)

RSpec == RInit /\ [][RNext]_rvars

(* The steps of a writer inside a method, for the fairness of StatsLogger. *)
Going(t) ==
  /\ \/ \E r \in Rib, s \in Slot : SetPath(t, r, s)
     \/ ReleaseOld(t, "insertFree", "insert")
     \/ ReleaseOld(t, "deleteFree", "delete")
     \/ \E r \in Rib, l \in Loc : SweepPath(t, r, l)
     \/ Collect(t)
     \/ ReleaseN(t)
  /\ UNCHANGED <<mutexVars, queryVars>>

-----------------------------------------------------------------------------
(* What a walk has collected is what the RIB holds, until it returns: the    *)
(* walk sees one state of the RIB, and neither half a sweep nor part of a    *)
(* trie that a Reset has just replaced ("no reader or writer can reach the   *)
(* old nodes", Reset, ipv4.go; prefixesMatching, AllPrefixes, Search).       *)
ReadsSnapshot ==
  \A u \in Query, r \in Rib, l \in Loc :
    query[u] = r /\ result[u][l] # NoPtr => result[u][l] = PathAt(r, l)

(* What a pointer that a route keeps points to stays: addresses that are     *)
(* kept are not reused, and a copy is written only when it is made (hash.go).*)
RoutesKeepValue ==
  \A u \in Query, l \in Loc :
    value[u][l] = IF result[u][l] = NoPtr THEN NilAttr ELSE content[result[u][l]]

(* asPathMatcher remembers its answers by pointer, as "Attributes are        *)
(* deduplicated" (types.go).  Through a whole walk, what it has found is in  *)
(* the table, and goes by one pointer exactly if it has one value, however   *)
(* long ago it was found: the purges of the writers of other RIBs and of     *)
(* flushes, and the copies that are made anew, neither part equal attributes *)
(* nor join different ones.                                                  *)
WalkByPointer ==
  \A u \in Query, l \in Loc :
    query[u] # NoRib /\ result[u][l] # NoPtr =>
      /\ result[u][l] \in Interned
      /\ \A m \in Loc : value[u][m] = value[u][l] <=> result[u][m] = result[u][l]

(* Who holds r.mu shared is in a query of that RIB, and who queues for it is *)
(* waiting for some writer, which will let it in.                            *)
ReadersQueued ==
  \A r \in Rib :
    /\ shared[r] # {} => rmu[r] = NoThread
    /\ rmu[r] # NoThread => pending[r] = NoThread
    /\ waiting[r] # {} => rmu[r] # NoThread \/ pending[r] # NoThread
    /\ \A u \in Query :
         /\ query[u] = r <=> u \in shared[r] \union waiting[r]
         /\ u \in waiting[r] => u \notin shared[r] /\ result[u] = NoResult

(* What a walk has found it finds again, at the same place of the trie.      *)
WalkHolds ==
  \A u \in Query, r \in Rib, l \in Loc :
    query[u] = r /\ result[u][l] # NoPtr => result[u][l] = tree[<<root[r], l>>]

(* With IInv, the inductive invariant of the queries.                        *)
ReaderInv == ReaderTypeOK /\ ReadersQueued /\ WalkHolds /\ RoutesKeepValue

(* A writer that has called r.mu.Lock gets it, whatever the readers do, and  *)
(* every query returns, whatever the writers do: no method takes a lock that *)
(* it holds already, and none keeps one (ipv4.go, ipv6.go).                  *)
WritersServed ==
  \A r \in Rib, t \in Thread : pending[r] = t ~> pending[r] # t
QueriesReturn == \A u \in Query : query[u] # NoRib ~> query[u] = NoRib
=============================================================================
