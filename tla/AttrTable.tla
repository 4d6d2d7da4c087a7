------------------------------ MODULE AttrTable ------------------------------
(***************************************************************************)
(* The attribute table of hash.go: one interned, reference-counted copy of *)
(* every distinct RouteAttributes value, shared by all the RIBs that were  *)
(* given the same *AttrTable.                                              *)
(*                                                                         *)
(* Each operator below is the body of one at.mu critical section, or a     *)
(* piece of one; SharedRibs conjoins them with the steps of the callers    *)
(* and with the lock.  A pointer is an element of Ptr: two interned copies *)
(* may carry equal contents, which is what equality of pointers would      *)
(* hide.  The order inside a bucket is abstracted to a set, and the hash   *)
(* function is any function on values, so that collisions can be forced.   *)
(***************************************************************************)
EXTENDS Integers, FiniteSets, FiniteSetsExt

CONSTANTS
  Attr,            \* attribute values (local pref, AS path, communities)
  EmptyAttr,       \* the value of &RouteAttributes{}
  NilAttr,         \* a caller's nil *RouteAttributes
  Ptr,             \* addresses of interned copies
  NoPtr,           \* the nil pointer
  Hash,            \* bucket keys
  hashAttributes,  \* the hash of each value
  sliceSize,       \* the bytes GetStats accounts to each value
  RefLimit         \* refCount is an unsigned word of this many values

ASSUME AttrAssumption ==
  /\ EmptyAttr \in Attr
  /\ NilAttr \notin Attr
  /\ NoPtr \notin Ptr
  /\ hashAttributes \in [Attr -> Hash]
  /\ sliceSize \in [Attr -> Nat]
  /\ RefLimit \in Nat \ {0, 1}

VARIABLES
  entries,     \* bucket -> the pointers stored in it ({}: key absent)
  content,     \* pointer -> the attribute value it points to
  refCount,    \* pointer -> its refCount field
  attrCount,   \* number of interned copies
  sliceBytes   \* bytes used by the slices of the interned copies

tableVars == <<entries, content, refCount, attrCount, sliceBytes>>

Interned == UNION {entries[h] : h \in Hash}

TableTypeOK ==
  /\ entries \in [Hash -> SUBSET Ptr]
  /\ content \in [Ptr -> Attr]
  /\ refCount \in [Ptr -> 0 .. RefLimit - 1]
  /\ attrCount \in Int
  /\ sliceBytes \in Int

TableInit ==
  /\ entries = [h \in Hash |-> {}]
  /\ content = [p \in Ptr |-> EmptyAttr]
  /\ refCount = [p \in Ptr |-> 0]
  /\ attrCount = 0
  /\ sliceBytes = 0

-----------------------------------------------------------------------------
(* A nil argument stands for the empty attributes. *)
ValueOf(in) == IF in = NilAttr THEN EmptyAttr ELSE in

(* A mutant: only the caller's own pointer is recognised. *)
CopiesByIdentity(a) == {p \in entries[hashAttributes[a]] : p = a}

(* The interned copies of value a: at most one, says Deduplicated. *)
Copies(a) == {p \in entries[hashAttributes[a]] : content[p] = a}

(* A mutant: the copy is handed out uncounted. *)
ShareUncounted(a, p) == p \in Copies(a) /\ UNCHANGED tableVars

(* A copy exists: count one more reference to it. *)
Share(a, p) ==
  /\ p \in Copies(a)
  /\ refCount' = [refCount EXCEPT ![p] = (@ + 1) % RefLimit]
  /\ UNCHANGED <<entries, content, attrCount, sliceBytes>>

(* No copy exists: store a new one at an address nothing refers to.  The  *)
(* garbage collector reuses an address only once it is unreachable.       *)
Intern(a, p, reachable) ==
  /\ Copies(a) = {}
  /\ p \notin Interned \union reachable
  /\ content' = [content EXCEPT ![p] = a]
  /\ refCount' = [refCount EXCEPT ![p] = 1]
  /\ entries' = [entries EXCEPT ![hashAttributes[a]] = @ \union {p}]
  /\ attrCount' = attrCount + 1
  /\ sliceBytes' = sliceBytes + sliceSize[a]

(* The whole of getOrInsert: p is the pointer it returns. *)
getOrInsert(in, p, reachable) ==
  \/ Share(ValueOf(in), p)
  \/ Intern(ValueOf(in), p, reachable)

(* A mutant: the bytes are not given back. *)
removeLockedKeepsBytes(p) ==
  LET h == hashAttributes[content[p]] IN
  /\ entries' = [entries EXCEPT ![h] = @ \ {p}]
  /\ attrCount' = IF p \in entries[h] THEN attrCount - 1 ELSE attrCount
  /\ UNCHANGED sliceBytes

(* removeLocked looks the pointer up in the bucket of its stored hash, and *)
(* does nothing when it is not there.                                      *)
removeLocked(p) ==
  LET h == hashAttributes[content[p]] IN
  /\ entries' = [entries EXCEPT ![h] = @ \ {p}]
  /\ attrCount' = IF p \in entries[h] THEN attrCount - 1 ELSE attrCount
  /\ sliceBytes' = IF p \in entries[h] THEN sliceBytes - sliceSize[content[p]]
                                       ELSE sliceBytes

(* release: an unsigned decrement, and removal at zero. *)
release(p) ==
  /\ refCount' = [refCount EXCEPT ![p] = (@ - 1) % RefLimit]
  /\ IF refCount'[p] = 0 THEN removeLocked(p)
                         ELSE UNCHANGED <<entries, attrCount, sliceBytes>>
  /\ UNCHANGED content

(* A mutant: a count that goes down to zero does not remove the copy. *)
releaseNItemOffByOne(p, n) ==
  /\ IF n > refCount[p]
       THEN /\ refCount' = [refCount EXCEPT ![p] = 0]
            /\ removeLocked(p)
       ELSE /\ refCount' = [refCount EXCEPT ![p] = @ - n]
            /\ UNCHANGED <<entries, attrCount, sliceBytes>>
  /\ UNCHANGED content

(* One iteration of releaseN's loop: n references to p go, clamped at zero. *)
releaseNItem(p, n) ==
  /\ IF n >= refCount[p]
       THEN /\ refCount' = [refCount EXCEPT ![p] = 0]
            /\ removeLocked(p)
       ELSE /\ refCount' = [refCount EXCEPT ![p] = @ - n]
            /\ UNCHANGED <<entries, attrCount, sliceBytes>>
  /\ UNCHANGED content

(* Len, and with it AttributeCount: the buckets in use, not the copies. *)
TableLen == Cardinality({h \in Hash : entries[h] # {}})

-----------------------------------------------------------------------------
(* Two interned copies never hold the same value: what deduplication means, *)
(* also for values whose hashes collide (getOrInsert, hash.go).             *)
Deduplicated == \A p, q \in Interned : content[p] = content[q] => p = q

(* Every copy is filed under the hash of its own content, so removeLocked   *)
(* will find it, and GetStats reports exactly what is stored: the number of *)
(* copies and their bytes (getOrInsert, removeLocked, GetStats, hash.go).   *)
StatsExact ==
  /\ \A h \in Hash : \A p \in entries[h] : hashAttributes[content[p]] = h
  /\ attrCount = Cardinality(Interned)
  /\ sliceBytes = MapThenSumSet(LAMBDA p : sliceSize[content[p]], Interned)
=============================================================================
