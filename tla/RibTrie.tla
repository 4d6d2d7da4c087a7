------------------------------- MODULE RibTrie -------------------------------
(***************************************************************************)
(* One RIB as the data structure it is: a root array indexed by the first  *)
(* octet, binary tries below its entries, paths in the nodes (PathNode),   *)
(* and the counters kept beside them (ipv4.go, ipv6.go).  Every action is  *)
(* one exported write, or one item of a batch; r.mu makes it atomic, and   *)
(* what happens to the attribute table meanwhile is in SharedRibs.         *)
(*                                                                         *)
(* A node is named by where it is: its octet and the bits that lead to it. *)
(* The two families differ in the octets they accept, in the length of the *)
(* root array, and in the longest mask; octets and mask lengths stand for  *)
(* themselves, with MaxMask small.                                         *)
(***************************************************************************)
EXTENDS PathNode

CONSTANTS
  Family,       \* "v4" (IPv4Rib) or "v6" (IPv6Rib)
  Octet,        \* the first octets that callers pass
  MinMask,      \* 8: the prefixes stored on the root array's own nodes
  MaxMask,      \* 24 or 48 in the code
  PathID

Depth == MaxMask - MinMask
Bits(k) == [1 .. k -> {0, 1}]
BitString == UNION {Bits(k) : k \in 0 .. Depth}
NodeId == Octet \X BitString

ASSUME TrieAssumption ==
  /\ Family \in {"v4", "v6"}
  /\ Octet \in SUBSET (0 .. 255) /\ IsFiniteSet(Octet)
  /\ MinMask \in Nat /\ MaxMask \in Nat /\ MinMask <= MaxMask
  /\ PathID \in SUBSET Nat /\ IsFiniteSet(PathID)

VARIABLES
  trie,        \* the nodes that exist, by name
  count,       \* prefixes
  pathCount,   \* paths
  nodeCount,   \* nodes
  masks,       \* mask length -> prefixes of that length
  reported     \* the prefixes the last write returned

trieVars == <<trie, count, pathCount, nodeCount, masks>>
vars == <<trieVars, reported>>

-----------------------------------------------------------------------------
(* Octets and nodes *)

(* utils.go's v4Filter, by the bits that are clear in its four words. *)
isValidV4(o) == o \notin {0, 10, 127} \union (224 .. 255)
InRange6(o) == o \in 32 .. 63     \* 0x20 to 0x3F

(* insertUnlocked takes a route with this octet. *)
Accepts(o) == IF Family = "v4" THEN isValidV4(o) ELSE InRange6(o)

(* The root array has an entry for this octet: [256]*node and [32]*node. *)
Indexed(o) == Family = "v4" \/ InRange6(o)

(* A mutant: the walkers stop one octet early. *)
WalkedShort(o) == IF Family = "v4" THEN o < 223 ELSE o \in 32 .. 62

(* The octets the walkers visit. *)
Walked(o) == IF Family = "v4" THEN o < 224 ELSE InRange6(o)

(* The ancestor of the node at bits, k bits below the root array. *)
Anc(o, bits, k) == <<o, SubSeq(bits, 1, k)>>
Ancestors(o, bits) == {Anc(o, bits, k) : k \in 0 .. Len(bits)}
Child(n, b) == <<n[1], Append(n[2], b)>>
Children(T, n) == {Child(n, 0), Child(n, 1)} \intersect DOMAIN T
MaskOf(n) == MinMask + Len(n[2])

(* A netip.Prefix is an address and a mask length, and its host bits may be  *)
(* set.  A caller passes any, of which the trie looks at the masked part;    *)
(* what the sweep makes up from a node's place has no host bits.             *)
NetipPrefix == Octet \X Bits(Depth) \X (MinMask .. MaxMask)
NodeOf(p) == Anc(p[1], p[2], p[3] - MinMask)
PrefixOf(n) ==
  <<n[1], [i \in 1 .. Depth |-> IF i <= Len(n[2]) THEN n[2][i] ELSE 0], MaskOf(n)>>

Routed == {n \in DOMAIN trie : hasPath(trie[n])}

Init ==
  /\ trie = [n \in {} |-> EmptyNode]
  /\ count = 0 /\ pathCount = 0 /\ nodeCount = 0
  /\ masks = [m \in MinMask .. MaxMask |-> 0]
  /\ reported = {}

-----------------------------------------------------------------------------
(* Insert and Delete.  bits are the bits of the address below its octet;   *)
(* those beyond the mask are host bits, and are not looked at.             *)

ValidMask(mask) == mask \in MinMask .. MaxMask

(* The walk creates the nodes that are missing, counting each. *)
Grow(T, o, key) ==
  [n \in DOMAIN T \union Ancestors(o, key) |->
     IF n \in DOMAIN T THEN T[n] ELSE EmptyNode]

insertUnlocked(o, bits, mask, id, a) ==
  LET key == SubSeq(bits, 1, mask - MinMask)
      at == <<o, key>>
      grown == Grow(trie, o, key)
      isNew == ~hasPath(grown[at])
      set == setPath(grown[at], id, a, FALSE)
  IN /\ ValidMask(mask) /\ Accepts(o)
     /\ trie' = [grown EXCEPT ![at] = set.node]
     /\ nodeCount' = nodeCount + Cardinality(Ancestors(o, key) \ DOMAIN trie)
     /\ count' = IF isNew THEN count + 1 ELSE count
     /\ masks' = IF isNew THEN [masks EXCEPT ![mask] = @ + 1] ELSE masks
     /\ pathCount' = IF set.found THEN pathCount ELSE pathCount + 1
     /\ reported' = IF isNew THEN {<<o, bits, mask>>} ELSE {}

(* A mutant: nothing is pruned above the node. *)
PrunedLeaf(T, n) ==
  {m \in {n} : n[2] # <<>> /\ ~hasPath(T[n]) /\ Children(T, n) = {}}

(* deleteNode: the nodes that go with an emptied one, upwards, as long as   *)
(* each has no path and no other child.  Entries of the root array stay.    *)
Pruned(T, n) ==
  LET anc(k) == Anc(n[1], n[2], k)
      onlyBranch(k) == Children(T, anc(k)) \subseteq
                         (IF k = Len(n[2]) THEN {} ELSE {anc(k + 1)})
  IN {anc(k) : k \in {k \in 1 .. Len(n[2]) :
        \A j \in k .. Len(n[2]) : ~hasPath(T[anc(j)]) /\ onlyBranch(j)}}

Without(T, gone) == [n \in DOMAIN T \ gone |-> T[n]]

(* The array entry of octet o, once it holds nothing. *)
BareEntry(T, o) ==
  {n \in {<<o, <<>>>>} \intersect DOMAIN T : ~hasPath(T[n]) /\ Children(T, n) = {}}

(* A mutant: any change counts. *)
TouchedPrefix(n, was, is) == {m \in {n} : was # is}

(* The prefix of node n if it has lost its last path. *)
LostPrefix(n, was, is) == {m \in {n} : hasPath(was) /\ ~hasPath(is)}

deleteUnlocked(o, bits, mask, id) ==
  LET key == SubSeq(bits, 1, mask - MinMask)
      at == <<o, key>>
      cut == deletePath(trie[at], id)
      less == [trie EXCEPT ![at] = cut.node]
      up == Pruned(less, at)
      gone == up \union BareEntry(Without(less, up), o)
      removed == LostPrefix(at, trie[at], cut.node)
  IN /\ ValidMask(mask) /\ Indexed(o)
     /\ Ancestors(o, key) \subseteq DOMAIN trie
     /\ cut.found
     /\ trie' = IF removed = {} THEN less ELSE Without(less, gone)
     /\ nodeCount' = IF removed = {} THEN nodeCount ELSE nodeCount - Cardinality(gone)
     /\ pathCount' = pathCount - 1
     /\ count' = count - Cardinality(removed)
     /\ masks' = [masks EXCEPT ![mask] = @ - Cardinality(removed)]
     /\ reported' = {<<o, bits, mask>> : n \in removed}

-----------------------------------------------------------------------------
(* Graceful restart, and Reset *)

MarkAllStale ==
  /\ trie' = IF pathCount = 0 THEN trie
             ELSE [n \in DOMAIN trie |-> markStale(trie[n])]
  /\ reported' = {}
  /\ UNCHANGED <<count, pathCount, nodeCount, masks>>

(* The octets with an entry, in the order of the root array. *)
Ascending(s) == \A i, j \in DOMAIN s : i < j => s[i] < s[j]
Octets == CHOOSE s \in [1 .. Cardinality(Octet) -> Octet] : Ascending(s)

(* The order of the recursion: both subtrees of a node and then the node,  *)
(* octet by octet over the root array.                                     *)
SweepOrder ==
  LET below[n \in NodeId] ==
        IF Len(n[2]) = Depth THEN <<n>>
        ELSE below[Child(n, 0)] \o below[Child(n, 1)] \o <<n>>
  IN FlattenSeq([i \in 1 .. Cardinality(Octet) |-> below[<<Octets[i], <<>>>>]])

(* deleteStaleFromNode at node n, its children done, on a RIB state.  Of a  *)
(* node that is missing there is nothing to do: one that has been pruned by *)
(* now is still on the recursion's stack, and has no path.  The entry of    *)
(* the array is cleaned up by DeleteStaleRoutes itself.                     *)
SweepNode(S, n) ==
  LET kept == stripStale(S.trie[n])
      dropped == pathsCount(S.trie[n]) - pathsCount(kept)
      removed == LostPrefix(n, S.trie[n], kept)
      less == [S.trie EXCEPT ![n] = kept]
      gone == IF n[2] = <<>> THEN BareEntry(less, n[1])
              ELSE UNION {Pruned(less, m) : m \in removed}
  IN IF n \notin DOMAIN S.trie THEN S
     ELSE [trie |-> Without(less, gone),
           pathCount |-> S.pathCount - dropped,
           nodeCount |-> S.nodeCount - Cardinality(gone),
           count |-> S.count - Cardinality(removed),
           masks |-> [S.masks EXCEPT ![MaskOf(n)] = @ - Cardinality(removed)],
           removed |-> S.removed \union removed]

DeleteStaleRoutes ==
  LET before == [trie |-> trie, count |-> count, pathCount |-> pathCount,
                 nodeCount |-> nodeCount, masks |-> masks, removed |-> {}]
      after == FoldLeft(SweepNode, before, SweepOrder)
  IN /\ trie' = after.trie
     /\ count' = after.count
     /\ pathCount' = after.pathCount
     /\ nodeCount' = after.nodeCount
     /\ masks' = after.masks
     /\ reported' = {PrefixOf(n) : n \in after.removed}

(* A mutant: one counter is forgotten. *)
ResetKeepsNodeCount ==
  /\ trie' = [n \in {} |-> EmptyNode]
  /\ count' = 0 /\ pathCount' = 0 /\ UNCHANGED nodeCount
  /\ masks' = [m \in MinMask .. MaxMask |-> 0]
  /\ reported' = {}

Reset ==
  /\ trie' = [n \in {} |-> EmptyNode]
  /\ count' = 0 /\ pathCount' = 0 /\ nodeCount' = 0
  /\ masks' = [m \in MinMask .. MaxMask |-> 0]
  /\ reported' = {}

Insert ==
  \E o \in Octet, bits \in Bits(Depth), mask \in MinMask - 1 .. MaxMask + 1,
     id \in PathID, a \in Attr : insertUnlocked(o, bits, mask, id, a)

Delete ==
  \E o \in Octet, bits \in Bits(Depth), mask \in MinMask - 1 .. MaxMask + 1,
     id \in PathID : deleteUnlocked(o, bits, mask, id)

Next == Insert \/ Delete \/ MarkAllStale \/ DeleteStaleRoutes \/ Reset

Spec == Init /\ [][Next]_vars

-----------------------------------------------------------------------------
(* Readers: what each method returns in the present state *)

NoRoute == <<>>
Panic == {"index out of range"}

RouteAt(n) ==
  LET best == bestPathWithID(trie[n])
  IN IF best[1] = NoAttr THEN NoRoute
     ELSE [prefix |-> n, attrs |-> best[1], pathID |-> best[2],
           stale |-> isPathStale(trie[n], best[2])]

(* A mutant: the walk is one bit short. *)
ReachedShort(o, bits) ==
  {k \in 0 .. Len(bits) - 1 : \A j \in 0 .. k : Anc(o, bits, j) \in DOMAIN trie}

(* The walk stops at the first missing child. *)
Reached(o, bits) ==
  {k \in 0 .. Len(bits) : \A j \in 0 .. k : Anc(o, bits, j) \in DOMAIN trie}

(* The last node of the set N that the walk comes by. *)
Deepest(o, bits, N) ==
  LET hits == {k \in Reached(o, bits) : Anc(o, bits, k) \in N}
  IN {k \in hits : \A j \in hits : j <= k}

(* A mutant: the octet is brought into the range of the root array. *)
SearchWrapped(o, bits) ==
  LET i == IF Family = "v4" THEN o ELSE 32 + (o % 32)
      lpm == Deepest(i, bits, {n \in DOMAIN trie : RouteAt(n) # NoRoute})
  IN IF lpm = {} THEN NoRoute
     ELSE RouteAt(Anc(i, bits, CHOOSE k \in lpm : TRUE))

(* Both families check the octet, or need not: IPv4's root has all 256. *)
Search(o, bits) ==
  LET lpm == Deepest(o, bits, {n \in DOMAIN trie : RouteAt(n) # NoRoute})
  IN IF ~Indexed(o) \/ lpm = {} THEN NoRoute
     ELSE RouteAt(Anc(o, bits, CHOOSE k \in lpm : TRUE))

(* A mutant: only the best path. *)
nodeToRoutesBest(n) == {RouteAt(n)} \ {NoRoute}

nodeToRoutes(n) ==
  {[prefix |-> n, attrs |-> e.attrs, pathID |-> e.pathID, stale |-> e.stale] :
     e \in {allPaths(trie[n])[i] : i \in DOMAIN allPaths(trie[n])}}

(* IPv6's version subtracts 0x20 from the octet, wrapping, and does not     *)
(* check the result against the 32 entries of the root array.               *)
AllPathsSearch(o, bits) ==
  LET lpm == Deepest(o, bits, Routed)
  IN IF ~Indexed(o) THEN Panic
     ELSE IF lpm = {} THEN {}
     ELSE nodeToRoutes(Anc(o, bits, CHOOSE k \in lpm : TRUE))

Lookup(o, bits, mask) ==
  LET k == mask - MinMask
  IN IF ValidMask(mask) /\ Indexed(o) /\ k \in Reached(o, bits)
       THEN RouteAt(Anc(o, bits, k)) ELSE NoRoute

AllPaths(o, bits, mask) ==
  LET k == mask - MinMask
  IN IF ValidMask(mask) /\ Indexed(o) /\ k \in Reached(o, bits)
       THEN nodeToRoutes(Anc(o, bits, k)) ELSE {}

(* collectPrefixes and collectMatching: a walk down from the entries of the *)
(* octets it visits, cut at MaxMask.                                        *)
Visited ==
  {n \in DOMAIN trie : /\ Walked(n[1]) /\ MaskOf(n) <= MaxMask
                       /\ Ancestors(n[1], n[2]) \subseteq DOMAIN trie}

AllPrefixes == {n \in Visited : hasPath(trie[n])}

(* What the walk returns for the set of the attributes that match. *)
prefixesMatching(matching) ==
  {route \in UNION {nodeToRoutes(n) : n \in AllPrefixes} : route.attrs \in matching}

(* asPathMatcher: the answers so far, and the last attributes with theirs.   *)
(* The regular expression is the set of the attributes that it matches.      *)
NewMatcher == [memo |-> [a \in {} |-> FALSE], last |-> NoAttr, lastOK |-> FALSE]

(* A mutant: a remembered answer is not copied to lastOK. *)
matchForgetful(m, re, a) ==
  LET seen == a \in DOMAIN m.memo
  IN IF a = m.last THEN m
     ELSE [memo |-> [x \in DOMAIN m.memo \union {a} |->
                       IF x \in DOMAIN m.memo THEN m.memo[x] ELSE x \in re],
           last |-> a, lastOK |-> IF seen THEN m.lastOK ELSE a \in re]

(* The answer is the lastOK it leaves behind. *)
match(m, re, a) ==
  LET ok == IF a \in DOMAIN m.memo THEN m.memo[a] ELSE a \in re
  IN IF a = m.last THEN m
     ELSE [memo |-> [x \in DOMAIN m.memo \union {a} |->
                       IF x = a THEN ok ELSE m.memo[x]],
           last |-> a, lastOK |-> ok]

(* The order of the walk: a node, then both subtrees; the inline path first. *)
WalkOrder ==
  LET below[n \in NodeId] ==
        IF Len(n[2]) = Depth THEN <<n>>
        ELSE <<n>> \o below[Child(n, 0)] \o below[Child(n, 1)]
  IN FlattenSeq([i \in 1 .. Cardinality(Octet) |-> below[<<Octets[i], <<>>>>]])

WalkedRoutes ==
  LET routes(n) == [i \in DOMAIN allPaths(trie[n]) |->
                      LET e == allPaths(trie[n])[i]
                      IN [prefix |-> n, attrs |-> e.attrs, pathID |-> e.pathID,
                          stale |-> e.stale]]
  IN FlattenSeq([i \in DOMAIN WalkOrder |->
                   IF WalkOrder[i] \in AllPrefixes THEN routes(WalkOrder[i])
                   ELSE <<>>])

PrefixesByAsPathRegex(re) ==
  LET visit(acc, route) ==
        LET m == match(acc.matcher, re, route.attrs)
        IN [matcher |-> m, results |-> IF m.lastOK THEN Append(acc.results, route)
                                                  ELSE acc.results]
  IN FoldLeft(visit, [matcher |-> NewMatcher, results |-> <<>>],
              WalkedRoutes).results

-----------------------------------------------------------------------------
TypeOK ==
  /\ DOMAIN trie \subseteq NodeId
  /\ \A n \in DOMAIN trie :
       /\ trie[n].flags \subseteq {"hasPath", "stale"}
       /\ hasPath(trie[n]) => trie[n].attrs \in Attr
       /\ ~hasPath(trie[n]) => trie[n] = [EmptyNode EXCEPT !.pathID = trie[n].pathID]
  /\ count \in Nat /\ pathCount \in Nat /\ nodeCount \in Nat
  /\ masks \in [MinMask .. MaxMask -> Nat]
  /\ reported \subseteq NetipPrefix

(* The counters that Count, PathCount, GetSubnets and MemoryUsage return are *)
(* kept by hand at a dozen places, and always describe the trie exactly.     *)
CountersExact ==
  /\ count = Cardinality(Routed)
  /\ pathCount = MapThenSumSet(LAMBDA n : pathsCount(trie[n]), DOMAIN trie)
  /\ nodeCount = Cardinality(DOMAIN trie)
  /\ \A m \in MinMask .. MaxMask :
       masks[m] = Cardinality({n \in Routed : MaskOf(n) = m})

(* Every node hangs from the root array, and every node that holds no path   *)
(* leads to one: pruning frees all that a withdrawal leaves behind, also in  *)
(* the middle of a sweep, and never cuts off a route (deleteNode, node.go).  *)
TrieTight ==
  \A n \in DOMAIN trie :
    /\ Ancestors(n[1], n[2]) \subseteq DOMAIN trie
    /\ hasPath(trie[n]) \/ Children(trie, n) # {}

(* What the trie holds, whatever way leads to it. *)
AllRoutes ==
  UNION {{[prefix |-> n, attrs |-> e.attrs, pathID |-> e.pathID, stale |-> e.stale] :
            e \in ToSet(allPaths(trie[n]))} : n \in DOMAIN trie}

Covers(n, o, bits) == n[1] = o /\ n[2] = SubSeq(bits, 1, Len(n[2]))
Covering(o, bits) == {n \in Routed : Covers(n, o, bits)}

(* r is the route of S that the best-path rules put before every other. *)
BestAmong(S, r) ==
  IF S = {} THEN r = NoRoute
  ELSE r \in S /\ \A other \in S \ {r} : Preferred(r, other)

(* Search, AllPathsSearch, Lookup and AllPaths agree with a search through   *)
(* all routes: all paths of the longest prefix that covers the address, or   *)
(* of the very prefix, and of those the one that the best-path rules put     *)
(* before every other.  They do so for octets that the root array has no     *)
(* entry for too (for AllPathsSearch, see NilOutsideRange), and for masks    *)
(* that no route can have (ipv4.go, ipv6.go).                                *)
ReadsAgree ==
  \A o \in Octet, bits \in Bits(Depth) :
    LET covering == {r \in AllRoutes : Covers(r.prefix, o, bits)}
        longest == {r \in covering :
                      \A s \in covering : MaskOf(s.prefix) <= MaskOf(r.prefix)}
        exact(mask) == {r \in covering : MaskOf(r.prefix) = mask}
    IN /\ BestAmong(longest, Search(o, bits))
       /\ Indexed(o) => AllPathsSearch(o, bits) = longest
       /\ \A mask \in MinMask - 1 .. MaxMask + 1 :
            /\ BestAmong(exact(mask), Lookup(o, bits, mask))
            /\ AllPaths(o, bits, mask) = exact(mask)

(* The paths of a prefix have different path IDs, so that withdrawing, re-   *)
(* announcing or sweeping one by its path ID can touch no other (node.go).   *)
UniquePathIDs ==
  \A n \in DOMAIN trie : LET paths == allPaths(trie[n]) IN
    \A i, j \in DOMAIN paths : paths[i].pathID = paths[j].pathID => i = j

(* The walkers visit every route, although they stop at octet 223 and at the *)
(* longest mask: what they skip, insertUnlocked does not let in.             *)
WalkersComplete ==
  /\ AllPrefixes = Routed
  /\ \A matching \in SUBSET Attr :
       prefixesMatching(matching) = {r \in AllRoutes : r.attrs \in matching}

(* "bestPath() using the same criteria as SelectBest" (doc/api.html): the    *)
(* rules are written twice, and SelectBest over the routes of a prefix picks *)
(* the one that Search returns, in whatever order they come and wherever a   *)
(* caller's route without attributes stands among them (types.go, node.go).  *)
SelectBestAgrees ==
  \A n \in Routed :
    LET bare == [prefix |-> n, attrs |-> NoAttr, pathID |-> 0, stale |-> FALSE]
    IN \A extra \in SUBSET {bare} :
         \A routes \in SetToSeqs(nodeToRoutes(n) \union extra) :
           SelectBest(routes) = RouteAt(n)

(* A query by regular expression returns each route once whose attributes    *)
(* match, although it asks the expression only once for each attributes and  *)
(* answers the rest from the memo and from the last answer (asPathMatcher).  *)
RegexExact ==
  \A re \in SUBSET Attr :
    LET routes == PrefixesByAsPathRegex(re)
    IN /\ ToSet(routes) = prefixesMatching(re)
       /\ IsInjective(routes)

(* What a write returns is what it did: InsertBatch the prefixes that went   *)
(* from no path to one, DeleteBatch and DeleteStaleRoutes those that went    *)
(* from one to none, each once.  The batches name them as the caller did,    *)
(* host bits and all, the sweep by their masked form.  Reset returns nothing.*)
ReportedExact ==
  [][~Reset =>
       /\ {NodeOf(p) : p \in reported'} = (Routed \ Routed') \union (Routed' \ Routed)
       /\ \A p, q \in reported' : NodeOf(p) = NodeOf(q) => p = q]_vars

(* doc/api.html of AllPathsSearch: "Returns nil if no covering prefix        *)
(* exists", and of Search for IPv6: "Only addresses within 2000::/3 ... are  *)
(* supported; all others return nil".                                        *)
NilOutsideRange ==
  \A o \in Octet, bits \in Bits(Depth) :
    Covering(o, bits) = {} => AllPathsSearch(o, bits) = {}

(* The trie is a map from (prefix, path ID) to a route.                      *)
RouteOf(n, id) ==
  {e \in (IF n \in DOMAIN trie THEN ToSet(allPaths(trie[n])) ELSE {}) :
     e.pathID = id}

Abstract == INSTANCE RibSpec WITH
  Rib <- {Family}, Prefix <- NodeId, NoRoute <- NoAttr,
  routes <- [r \in {Family} |-> [l \in NodeId \X PathID |->
               IF RouteOf(l[1], l[2]) = {} THEN NoAttr
               ELSE (CHOOSE e \in RouteOf(l[1], l[2]) : TRUE).attrs]],
  marked <- [r \in {Family} |-> {l \in NodeId \X PathID :
               \E e \in RouteOf(l[1], l[2]) : e.stale}]

(* Every write of the trie is the corresponding write of that map, stale     *)
(* marks and the reuse of stale paths included (RibSpec).                    *)
ImplementsRibSpec == Abstract!AtomicRibs
=============================================================================
