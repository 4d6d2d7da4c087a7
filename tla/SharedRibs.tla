----------------------------- MODULE SharedRibs -----------------------------
(***************************************************************************)
(* Several RIBs that share one attribute table, used by several goroutines *)
(* (ipv4.go, ipv6.go, hash.go).  Every method that writes a RIB runs under *)
(* that RIB's r.mu; the attribute table has its own at.mu, taken inside.   *)
(* Two methods finish with r.mu already released: Reset walks the detached *)
(* trie and DeleteStaleRoutes flushes its tally, and both then call        *)
(* releaseN, which on a large tally gives at.mu up between chunks.         *)
(*                                                                         *)
(* A trie is abstracted to its slots, one for each (prefix, path ID); the  *)
(* module PathNode keeps the order of the slots of a node, and RibTrie     *)
(* keeps the nodes.  Each action is one critical section of at.mu or a     *)
(* piece of one of r.mu between two of those.                              *)
(***************************************************************************)
EXTENDS AttrTable

CONSTANTS
  Rib, Thread, NoThread,
  Prefix, PathID,
  Tree, NoTree,       \* root arrays: one per RIB, one per flushed trie
  ChunkSize,          \* releaseN: items between two yields
  ChunkThreshold      \* releaseN: distinct attributes that start chunking

Loc == Prefix \X PathID
Slot == Tree \X Loc
PtrOrNil == Ptr \union {NoPtr}
NoLoc == <<>>

(* Places that can hold a counted reference: trie slots, tallies, locals.  *)
(* RefLimit (2^32 in the code) is above their number.                      *)
ASSUME SharedAssumption ==
  /\ NoThread \notin Thread
  /\ NoTree \notin Tree
  /\ NoPtr \notin Attr
  /\ IsFiniteSet(Loc) /\ IsFiniteSet(Tree) /\ IsFiniteSet(Thread)
  /\ Cardinality(Slot) + Cardinality(Thread \X Loc) + Cardinality(Thread)
       < RefLimit
  /\ ChunkSize \in Nat \ {0}
  /\ ChunkThreshold \in Nat

VARIABLES
  rmu,        \* RIB -> the goroutine that holds its r.mu for writing
  atmu,       \* the goroutine inside releaseN's loop with at.mu held
  root,       \* RIB -> its root array
  tree,       \* slot of a root array -> the attributes pointer stored there
  stale,      \* the slots flagged stale
  pc,         \* goroutine -> where it is
  loc,        \* goroutine -> the (prefix, path ID) it is inserting
  hand,       \* goroutine -> dedupAttr before setPath, oldAttrs after it
  oldRoot,    \* goroutine -> the root array Reset detached
  tally,      \* references collected for releaseN, by the slot they left
  chunked, processed   \* the locals of releaseN

threadVars == <<pc, loc, hand, oldRoot, tally, chunked, processed>>
vars == <<tableVars, rmu, atmu, root, tree, stale, threadVars>>

(* The labels of a goroutine.  "insert" and "delete" are the heads of the *)
(* loops of InsertBatch and DeleteBatch; Insert and Delete run them once. *)
Locked == {"insert", "set", "insertFree", "delete", "deleteFree", "sweep"}
Flushing == {"flush", "release", "yield"}
Label == {"idle", "collect"} \union Locked \union Flushing

TypeOK ==
  /\ TableTypeOK
  /\ rmu \in [Rib -> Thread \union {NoThread}]
  /\ atmu \in Thread \union {NoThread}
  /\ root \in [Rib -> Tree]
  /\ tree \in [Slot -> PtrOrNil]
  /\ stale \in SUBSET Slot
  /\ pc \in [Thread -> Label]
  /\ loc \in [Thread -> Loc \union {NoLoc}]
  /\ hand \in [Thread -> PtrOrNil]
  /\ oldRoot \in [Thread -> Tree \union {NoTree}]
  /\ tally \in [Thread \X Loc -> PtrOrNil]
  /\ chunked \in [Thread -> BOOLEAN]
  /\ processed \in [Thread -> Nat]

(* The places that hold pointer p, counted. *)
Count(f, p) == Cardinality({s \in DOMAIN f : f[s] = p})
Held == {tree[s] : s \in Slot} \union {hand[t] : t \in Thread}
          \union {tally[x] : x \in Thread \X Loc}

Free(T) == T \notin {root[r] : r \in Rib} \union {oldRoot[t] : t \in Thread}

Init ==
  /\ TableInit
  /\ rmu = [r \in Rib |-> NoThread]
  /\ atmu = NoThread
  /\ root \in [Rib -> Tree]
  /\ \A r, q \in Rib : root[r] = root[q] => r = q
  /\ tree = [s \in Slot |-> NoPtr]
  /\ stale = {}
  /\ pc = [t \in Thread |-> "idle"]
  /\ loc = [t \in Thread |-> NoLoc]
  /\ hand = [t \in Thread |-> NoPtr]
  /\ oldRoot = [t \in Thread |-> NoTree]
  /\ tally = [x \in Thread \X Loc |-> NoPtr]
  /\ chunked = [t \in Thread |-> FALSE]
  /\ processed = [t \in Thread |-> 0]

Goto(t, label) == pc' = [pc EXCEPT ![t] = label]

-----------------------------------------------------------------------------
(* r.mu.Lock and the deferred r.mu.Unlock *)

Lock(t, r, label) ==
  /\ pc[t] = "idle" /\ rmu[r] = NoThread
  /\ rmu' = [rmu EXCEPT ![r] = t]
  /\ Goto(t, label)
  /\ UNCHANGED <<tableVars, atmu, root, tree, stale, loc, hand, oldRoot,
                 tally, chunked, processed>>

Unlock(t, r) ==
  /\ pc[t] \in {"insert", "delete"} /\ rmu[r] = t
  /\ rmu' = [rmu EXCEPT ![r] = NoThread]
  /\ Goto(t, "idle")
  /\ UNCHANGED <<tableVars, atmu, root, tree, stale, loc, hand, oldRoot,
                 tally, chunked, processed>>

-----------------------------------------------------------------------------
(* insertUnlocked for one accepted route: intern, set, release the old *)

InternStep(t, l, in, p) ==
  /\ pc[t] = "insert" /\ atmu = NoThread
  /\ getOrInsert(in, p, Held)
  /\ loc' = [loc EXCEPT ![t] = l]
  /\ hand' = [hand EXCEPT ![t] = p]
  /\ Goto(t, "set")
  /\ UNCHANGED <<rmu, atmu, root, tree, stale, oldRoot, tally, chunked,
                 processed>>

(* A mutant: a stale path is reused although the path ID exists. *)
ReplaceableStaleFirst(T, l) ==
  LET staleHere == {s \in stale : s[1] = T /\ s[2][1] = l[1]}
  IN IF staleHere = {} THEN {<<T, l>>} ELSE staleHere

(* The slot setPath writes to: the one of the same path ID, or a stale one *)
(* of the same prefix when the path ID is new, or an unused one.           *)
Replaceable(T, l) ==
  LET staleHere == {s \in stale : s[1] = T /\ s[2][1] = l[1]}
  IN IF tree[<<T, l>>] # NoPtr \/ staleHere = {} THEN {<<T, l>>}
                                                 ELSE staleHere

(* A mutant: the flag of the path that was in the slot stays. *)
SetPathKeepsFlag(t, r, s) ==
  LET new == <<root[r], loc[t]>> IN
  /\ pc[t] = "set" /\ rmu[r] = t
  /\ s \in Replaceable(root[r], loc[t])
  /\ tree' = [x \in Slot |-> IF x = new THEN hand[t]
                             ELSE IF x = s THEN NoPtr ELSE tree[x]]
  /\ hand' = [hand EXCEPT ![t] = tree[s]]
  /\ stale' = IF s \in stale THEN (stale \ {s}) \union {new} ELSE stale
  /\ loc' = [loc EXCEPT ![t] = NoLoc]
  /\ Goto(t, IF tree[s] = NoPtr THEN "insert" ELSE "insertFree")
  /\ UNCHANGED <<tableVars, rmu, atmu, root, oldRoot, tally, chunked,
                 processed>>

SetPath(t, r, s) ==
  LET new == <<root[r], loc[t]>> IN
  /\ pc[t] = "set" /\ rmu[r] = t
  /\ s \in Replaceable(root[r], loc[t])
  /\ tree' = [x \in Slot |-> IF x = new THEN hand[t]
                             ELSE IF x = s THEN NoPtr ELSE tree[x]]
  /\ hand' = [hand EXCEPT ![t] = tree[s]]
  /\ stale' = stale \ {s, new}
  /\ loc' = [loc EXCEPT ![t] = NoLoc]
  /\ Goto(t, IF tree[s] = NoPtr THEN "insert" ELSE "insertFree")
  /\ UNCHANGED <<tableVars, rmu, atmu, root, oldRoot, tally, chunked,
                 processed>>

ReleaseOld(t, from, to) ==
  /\ pc[t] = from /\ atmu = NoThread
  /\ release(hand[t])
  /\ hand' = [hand EXCEPT ![t] = NoPtr]
  /\ Goto(t, to)
  /\ UNCHANGED <<rmu, atmu, root, tree, stale, loc, oldRoot, tally, chunked,
                 processed>>

(* deleteUnlocked up to the release: a path that is not there is no step. *)
DeletePath(t, r, l) ==
  LET s == <<root[r], l>> IN
  /\ pc[t] = "delete" /\ rmu[r] = t
  /\ tree[s] # NoPtr
  /\ tree' = [tree EXCEPT ![s] = NoPtr]
  /\ hand' = [hand EXCEPT ![t] = tree[s]]
  /\ stale' = stale \ {s}
  /\ Goto(t, "deleteFree")
  /\ UNCHANGED <<tableVars, rmu, atmu, root, loc, oldRoot, tally, chunked,
                 processed>>

-----------------------------------------------------------------------------
(* Graceful restart *)

(* Lock, mark, unlock: nothing inside touches anything but this trie. *)
MarkAllStale(r) ==
  /\ rmu[r] = NoThread
  /\ stale' = stale \union
       {s \in Slot : s[1] = root[r] /\ tree[s] # NoPtr}
  /\ UNCHANGED <<tableVars, rmu, atmu, root, tree, threadVars>>

(* deleteStaleFromNode: a stale path leaves the trie and enters the tally. *)
SweepPath(t, r, l) ==
  LET s == <<root[r], l>> IN
  /\ pc[t] = "sweep" /\ rmu[r] = t
  /\ s \in stale
  /\ tree' = [tree EXCEPT ![s] = NoPtr]
  /\ tally' = [tally EXCEPT ![<<t, l>>] = tree[s]]
  /\ stale' = stale \ {s}
  /\ UNCHANGED <<tableVars, rmu, atmu, root, pc, loc, hand, oldRoot, chunked,
                 processed>>

(* No stale path is left: r.mu is released before the tally is. *)
SweepDone(t, r) ==
  /\ pc[t] = "sweep" /\ rmu[r] = t
  /\ \A s \in stale : s[1] # root[r]
  /\ rmu' = [rmu EXCEPT ![r] = NoThread]
  /\ Goto(t, "flush")
  /\ UNCHANGED <<tableVars, atmu, root, tree, stale, loc, hand, oldRoot,
                 tally, chunked, processed>>

-----------------------------------------------------------------------------
(* Reset: swap the root array under r.mu, then walk the old one without it *)

(* Mutants: the root array stays, or r.mu is not taken. *)
ResetKeepsRoot(t, r, T) ==
  /\ pc[t] = "idle" /\ rmu[r] = NoThread
  /\ Free(T)
  /\ oldRoot' = [oldRoot EXCEPT ![t] = root[r]]
  /\ Goto(t, "collect")
  /\ UNCHANGED <<tableVars, rmu, atmu, root, tree, stale, loc, hand, tally,
                 chunked, processed>>

ResetUnlocked(t, r, T) ==
  /\ pc[t] = "idle" /\ Free(T)
  /\ oldRoot' = [oldRoot EXCEPT ![t] = root[r]]
  /\ root' = [root EXCEPT ![r] = T]
  /\ Goto(t, "collect")
  /\ UNCHANGED <<tableVars, rmu, atmu, tree, stale, loc, hand, tally, chunked,
                 processed>>

ResetSwap(t, r, T) ==
  /\ pc[t] = "idle" /\ rmu[r] = NoThread
  /\ Free(T)
  /\ oldRoot' = [oldRoot EXCEPT ![t] = root[r]]
  /\ root' = [root EXCEPT ![r] = T]
  /\ Goto(t, "collect")
  /\ UNCHANGED <<tableVars, rmu, atmu, tree, stale, loc, hand, tally, chunked,
                 processed>>

(* collectNodeAttrs: the node becomes garbage once it has been counted. *)
CollectPath(t, l) ==
  LET s == <<oldRoot[t], l>> IN
  /\ pc[t] = "collect" /\ tree[s] # NoPtr
  /\ tree' = [tree EXCEPT ![s] = NoPtr]
  /\ tally' = [tally EXCEPT ![<<t, l>>] = tree[s]]
  /\ stale' = stale \ {s}
  /\ UNCHANGED <<tableVars, rmu, atmu, root, pc, loc, hand, oldRoot, chunked,
                 processed>>

(* A mutant: what the trie referred to is left to the garbage collector. *)
CollectDoneNoRelease(t) ==
  /\ pc[t] = "collect"
  /\ \A l \in Loc : tree[<<oldRoot[t], l>>] = NoPtr
  /\ oldRoot' = [oldRoot EXCEPT ![t] = NoTree]
  /\ tally' = [x \in Thread \X Loc |-> IF x[1] = t THEN NoPtr ELSE tally[x]]
  /\ Goto(t, "idle")
  /\ UNCHANGED <<tableVars, rmu, atmu, root, tree, stale, loc, hand, chunked,
                 processed>>

CollectDone(t) ==
  /\ pc[t] = "collect"
  /\ \A l \in Loc : tree[<<oldRoot[t], l>>] = NoPtr
  /\ oldRoot' = [oldRoot EXCEPT ![t] = NoTree]
  /\ Goto(t, "flush")
  /\ UNCHANGED <<tableVars, rmu, atmu, root, tree, stale, loc, hand, tally,
                 chunked, processed>>

-----------------------------------------------------------------------------
(* releaseN *)

(* The keys of counts, and the count of each. *)
Tallied(t) == {tally[<<t, l>>] : l \in Loc} \ {NoPtr}

(* A mutant: the length of the last run is not added. *)
TallyOne(t, p) == 1

TallyCount(t, p) ==
  Cardinality({x \in Thread \X Loc : x[1] = t /\ tally[x] = p})

(* An empty tally returns at once; any other takes at.mu. *)
ReleaseNEmpty(t) ==
  /\ pc[t] = "flush" /\ Tallied(t) = {}
  /\ Goto(t, "idle")
  /\ UNCHANGED <<tableVars, rmu, atmu, root, tree, stale, loc, hand, oldRoot,
                 tally, chunked, processed>>

ReleaseNLock(t) ==
  /\ pc[t] = "flush" /\ Tallied(t) # {} /\ atmu = NoThread
  /\ atmu' = t
  /\ chunked' = [chunked EXCEPT ![t] = Cardinality(Tallied(t)) > ChunkThreshold]
  /\ processed' = [processed EXCEPT ![t] = 0]
  /\ Goto(t, "release")
  /\ UNCHANGED <<tableVars, rmu, root, tree, stale, loc, hand, oldRoot, tally>>

(* One key of counts; a full chunk gives at.mu up. *)
ReleaseNItem(t, p) ==
  LET full == chunked[t] /\ processed[t] + 1 >= ChunkSize IN
  /\ pc[t] = "release" /\ atmu = t /\ p \in Tallied(t)
  /\ releaseNItem(p, TallyCount(t, p))
  /\ tally' = [x \in Thread \X Loc |->
                 IF x[1] = t /\ tally[x] = p THEN NoPtr ELSE tally[x]]
  /\ processed' = [processed EXCEPT ![t] = IF chunked[t] THEN @ + 1 ELSE @]
  /\ atmu' = IF full THEN NoThread ELSE t
  /\ Goto(t, IF full THEN "yield" ELSE "release")
  /\ UNCHANGED <<rmu, root, tree, stale, loc, hand, oldRoot, chunked>>

ReleaseNRelock(t) ==
  /\ pc[t] = "yield" /\ atmu = NoThread
  /\ atmu' = t
  /\ processed' = [processed EXCEPT ![t] = 0]
  /\ Goto(t, "release")
  /\ UNCHANGED <<tableVars, rmu, root, tree, stale, loc, hand, oldRoot, tally,
                 chunked>>

(* A mutant: at.mu is not given up. *)
ReleaseNKeepsLock(t) ==
  /\ pc[t] = "release" /\ atmu = t /\ Tallied(t) = {}
  /\ chunked' = [chunked EXCEPT ![t] = FALSE]
  /\ processed' = [processed EXCEPT ![t] = 0]
  /\ Goto(t, "idle")
  /\ UNCHANGED <<tableVars, rmu, atmu, root, tree, stale, loc, hand, oldRoot,
                 tally>>

ReleaseNDone(t) ==
  /\ pc[t] = "release" /\ atmu = t /\ Tallied(t) = {}
  /\ atmu' = NoThread
  /\ chunked' = [chunked EXCEPT ![t] = FALSE]
  /\ processed' = [processed EXCEPT ![t] = 0]
  /\ Goto(t, "idle")
  /\ UNCHANGED <<tableVars, rmu, root, tree, stale, loc, hand, oldRoot, tally>>

-----------------------------------------------------------------------------
InsertRoute(t) ==
  \/ \E l \in Loc, in \in Attr \union {NilAttr}, p \in Ptr :
       InternStep(t, l, in, p)
  \/ \E r \in Rib, s \in Slot : SetPath(t, r, s)
  \/ ReleaseOld(t, "insertFree", "insert")

DeleteRoute(t) ==
  \/ \E r \in Rib, l \in Loc : DeletePath(t, r, l)
  \/ ReleaseOld(t, "deleteFree", "delete")

Sweep(t) == \E r \in Rib : SweepDone(t, r) \/ \E l \in Loc : SweepPath(t, r, l)

Collect(t) == CollectDone(t) \/ \E l \in Loc : CollectPath(t, l)

ReleaseN(t) ==
  \/ ReleaseNEmpty(t)
  \/ ReleaseNLock(t)
  \/ \E p \in Ptr : ReleaseNItem(t, p)
  \/ ReleaseNRelock(t)
  \/ ReleaseNDone(t)

Begin(t) ==
  \E r \in Rib :
    \/ \E label \in {"insert", "delete", "sweep"} : Lock(t, r, label)
    \/ \E T \in Tree : ResetSwap(t, r, T)

Step(t) ==
  \/ Begin(t)
  \/ InsertRoute(t)
  \/ DeleteRoute(t)
  \/ \E r \in Rib : Unlock(t, r)
  \/ Sweep(t)
  \/ Collect(t)
  \/ ReleaseN(t)

Next ==
  \/ \E t \in Thread : Step(t)
  \/ \E r \in Rib : MarkAllStale(r)

Spec == Init /\ [][Next]_vars

(* A goroutine inside a method keeps running, and a batch is finite: the     *)
(* head of its loop, reached over and over, is left some time.  Both mutexes *)
(* serve a waiter in the end (sync.Mutex hands itself over to a waiter after *)
(* 1 ms of starvation), hence strong fairness, as at.mu may be found taken   *)
(* any number of times.  Nobody is obliged to call a method.                 *)
Work(t) ==
  \/ \E r \in Rib, s \in Slot : SetPath(t, r, s)
  \/ ReleaseOld(t, "insertFree", "insert")
  \/ ReleaseOld(t, "deleteFree", "delete")
  \/ Sweep(t)
  \/ Collect(t)
  \/ ReleaseN(t)

Fairness ==
  \A t \in Thread : SF_vars(Work(t)) /\ SF_vars(\E r \in Rib : Unlock(t, r))

FairSpec == Spec /\ Fairness

-----------------------------------------------------------------------------
(* The reference count of an attribute is the number of places that refer   *)
(* to it: trie slots of every RIB and of every flushed trie, tallies not    *)
(* yet released, and pointers in flight between getOrInsert and setPath or  *)
(* between setPath or deletePath and release (hash.go, ipv4.go).            *)
RefCountExact ==
  \A p \in Ptr :
    refCount[p] = Count(tree, p) + Count(hand, p) + Count(tally, p)

(* Whatever the interleaving, nothing that is still referred to has been    *)
(* purged from the table, and nothing stays in it that is referred to by    *)
(* nobody: the comments of Reset and DeleteStaleRoutes (ipv4.go).           *)
InternedIffHeld == Interned = Held \ {NoPtr}

(* "After the swap, no reader or writer can reach the old nodes": the trie  *)
(* that Reset walks without r.mu is nobody's root and no other Reset's, and *)
(* only tries that are in use hold paths (Reset, ipv4.go).                  *)
DetachedUnreachable ==
  /\ \A r, q \in Rib : root[r] = root[q] => r = q
  /\ \A t \in Thread, r \in Rib : oldRoot[t] # root[r]
  /\ \A t, u \in Thread : oldRoot[t] = oldRoot[u] /\ oldRoot[t] # NoTree => t = u
  /\ \A s \in Slot : Free(s[1]) => tree[s] = NoPtr

(* Only a path is flagged stale, so that what a sweep takes is one (node.go). *)
StaleIsPath == \A s \in stale : tree[s] # NoPtr

(* When no method is running, the table holds one copy of every value that   *)
(* some RIB routes with, and nothing else: no flush has left anything behind *)
(* or taken too much.  GetStats then reports the number of those values, and *)
(* AttributeCount that of their hashes, fewer if some collide (hash.go).     *)
QuiescentTable ==
  LET routed == {content[tree[<<root[x[1]], x[2]>>]] :
                   x \in {y \in Rib \X Loc : tree[<<root[y[1]], y[2]>>] # NoPtr}}
  IN (\A t \in Thread : pc[t] = "idle") =>
       /\ {content[p] : p \in Interned} = routed
       /\ attrCount = Cardinality(routed)
       /\ TableLen = Cardinality({hashAttributes[a] : a \in routed})

(* The lock discipline: who is inside a method that writes holds exactly one *)
(* r.mu, at.mu is held across steps only by releaseN, a detached trie and a  *)
(* pointer in flight exist only between the two steps that hand them on.     *)
LockDiscipline ==
  /\ \A t \in Thread : pc[t] \in Locked => \E r \in Rib : rmu[r] = t
  /\ \A r \in Rib : rmu[r] # NoThread => pc[rmu[r]] \in Locked
  /\ \A r, q \in Rib : rmu[r] = rmu[q] /\ rmu[r] # NoThread => r = q
  /\ \A t \in Thread : atmu = t <=> pc[t] = "release"
  /\ \A t \in Thread : oldRoot[t] # NoTree <=> pc[t] = "collect"
  /\ \A t \in Thread : pc[t] = "set" => loc[t] \in Loc
  /\ \A t \in Thread :
       hand[t] # NoPtr <=> pc[t] \in {"set", "insertFree", "deleteFree"}

(* A path is tallied once: it has left the trie that is being swept or       *)
(* collected, and no tally outlives its releaseN (attrTally, hash.go).       *)
TalliedOnce ==
  \A t \in Thread, l \in Loc : tally[<<t, l>>] # NoPtr =>
    /\ pc[t] \in {"sweep", "collect"} \union Flushing
    /\ pc[t] = "collect" => tree[<<oldRoot[t], l>>] = NoPtr
    /\ \A r \in Rib : rmu[r] = t => tree[<<root[r], l>>] = NoPtr

(* The table stores what is counted, each copy in the bucket of its hash.    *)
InternedIffCounted ==
  /\ \A p \in Ptr : p \in Interned <=> refCount[p] > 0
  /\ \A h \in Hash : \A p \in entries[h] : hashAttributes[content[p]] = h

(* The inductive invariant: what holds between any two steps, and implies    *)
(* every safety property of this module but the byte accounting.             *)
IInv ==
  /\ TypeOK
  /\ LockDiscipline
  /\ DetachedUnreachable
  /\ StaleIsPath
  /\ TalliedOnce
  /\ RefCountExact
  /\ InternedIffCounted
  /\ Deduplicated

-----------------------------------------------------------------------------
(* What a reader of RIB r finds, had it the lock now: while a sweep is under *)
(* way the paths it has already moved to its tally are still counted in, so  *)
(* that DeleteStaleRoutes takes effect when it gives r.mu up.                *)
NoRoute == NoPtr
Swept(r) == {l \in Loc : rmu[r] # NoThread /\ pc[rmu[r]] = "sweep"
                            /\ tally[<<rmu[r], l>>] # NoPtr}
PathAt(r, l) == IF l \in Swept(r) THEN tally[<<rmu[r], l>>]
                                  ELSE tree[<<root[r], l>>]

Abstract == INSTANCE RibSpec WITH
  routes <- [r \in Rib |-> [l \in Loc |->
               IF PathAt(r, l) = NoPtr THEN NoRoute ELSE content[PathAt(r, l)]]],
  marked <- [r \in Rib |->
               {l \in Loc : <<root[r], l>> \in stale \/ l \in Swept(r)}]

(* Every method that writes a RIB takes effect at one instant on that RIB   *)
(* alone, whatever the goroutines of the other RIBs do with the shared      *)
(* attribute table meanwhile, and every path keeps the attribute value it   *)
(* was announced with (insertUnlocked, deleteUnlocked, MarkAllStale,        *)
(* DeleteStaleRoutes and Reset of ipv4.go and ipv6.go).                     *)
AtomicRibs == Abstract!AtomicRibs

(* doc/api.html says of Reset that it severs "all trie nodes and attribute   *)
(* table entries from GC roots simultaneously": once the root array has been *)
(* replaced, the table no longer holds what only the flushed trie refers to. *)
ResetSeversAttributes ==
  \A t \in Thread, l \in Loc :
    LET p == tree[<<oldRoot[t], l>>] IN
    pc[t] = "collect" /\ p \in Interned =>
      \/ \E r \in Rib, m \in Loc : tree[<<root[r], m>>] = p
      \/ \E u \in Thread : hand[u] = p

(* No lock order or chunk of releaseN leaves a RIB locked for ever: r.mu is  *)
(* held while at.mu is waited for, never the other way round (ipv4.go).      *)
LocksReleased == \A r \in Rib : rmu[r] # NoThread ~> rmu[r] = NoThread

(* A flushed trie and a swept tally are released completely, although at.mu  *)
(* is given up between chunks to goroutines that keep taking it (releaseN).  *)
FlushCompletes ==
  \A t \in Thread : pc[t] \in Flushing \union {"collect"} ~> pc[t] = "idle"
=============================================================================
