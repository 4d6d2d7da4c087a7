------------------------------ MODULE PathNode ------------------------------
(***************************************************************************)
(* One node of the trie as a container of paths (node.go): the first path  *)
(* lives inline in the node, with its stale flag in a bit set, and any     *)
(* others in a slice.  The operators compute what the methods of the type  *)
(* node return and leave behind.                                           *)
(***************************************************************************)
EXTENDS Integers, Sequences, FiniteSets, SequencesExt

CONSTANTS
  Attr,         \* attribute values, as interned by the attribute table
  NoAttr,       \* nil
  LocalPref,    \* the LocalPref field of each
  AsPathLen     \* the length of the AsPath of each

ASSUME PathAttrAssumption ==
  /\ NoAttr \notin Attr
  /\ LocalPref \in [Attr -> Nat]
  /\ AsPathLen \in [Attr -> Nat]

Entry(id, attrs, stale) == [pathID |-> id, attrs |-> attrs, stale |-> stale]

(* &node{}; the children are kept by RibTrie. *)
EmptyNode == [flags |-> {}, pathID |-> 0, attrs |-> NoAttr, extra |-> <<>>]

hasPath(n) == "hasPath" \in n.flags
isStale(n) == "stale" \in n.flags
setStale(n, stale) ==
  [n EXCEPT !.flags = IF stale THEN @ \union {"stale"} ELSE @ \ {"stale"}]

pathsCount(n) == IF hasPath(n) THEN 1 + Len(n.extra) ELSE 0

allPaths(n) ==
  IF hasPath(n) THEN <<Entry(n.pathID, n.attrs, isStale(n))>> \o n.extra
                ELSE <<>>

(* Where a path is, in that order: 1 is the inline slot, i + 1 the entry i of *)
(* the slice, 0 nowhere.                                                     *)
PositionOf(n, id) == SelectInSeq(allPaths(n), LAMBDA e : e.pathID = id)
FirstStale(n) == SelectInSeq(allPaths(n), LAMBDA e : e.stale)

isPathStale(n, id) ==
  PositionOf(n, id) # 0 /\ allPaths(n)[PositionOf(n, id)].stale

-----------------------------------------------------------------------------
(* Best path *)

(* LocalPref 0 means the default of 100. *)
Pref(e) == IF LocalPref[e.attrs] = 0 THEN 100 ELSE LocalPref[e.attrs]

(* Higher LocalPref, then the shorter AS path, then the lower path ID. *)
Preferred(e, f) ==
  \/ Pref(e) > Pref(f)
  \/ /\ Pref(e) = Pref(f)
     /\ \/ AsPathLen[e.attrs] < AsPathLen[f.attrs]
        \/ /\ AsPathLen[e.attrs] = AsPathLen[f.attrs]
           /\ e.pathID < f.pathID

(* A mutant: every path is compared with the inline one, not with the best. *)
bestThanInline(n) ==
  LET inline == Entry(n.pathID, n.attrs, isStale(n))
      best == FoldLeft(LAMBDA b, e : IF Preferred(e, inline) THEN e ELSE b,
                       inline, n.extra)
  IN IF hasPath(n) THEN <<best.attrs, best.pathID>> ELSE <<NoAttr, 0>>

(* One pass over the slice, starting from the inline path. *)
bestPathWithID(n) ==
  LET inline == Entry(n.pathID, n.attrs, isStale(n))
      best == FoldLeft(LAMBDA b, e : IF Preferred(e, b) THEN e ELSE b,
                       inline, n.extra)
  IN IF hasPath(n) THEN <<best.attrs, best.pathID>> ELSE <<NoAttr, 0>>

(* types.go has the same rules again, for routes that a caller has put      *)
(* together and whose attributes may be nil.                                *)

(* A mutant: LocalPref 0 is taken as it is. *)
DisplacesRaw(curr, best) ==
  IF LocalPref[curr.attrs] # LocalPref[best.attrs]
    THEN LocalPref[curr.attrs] > LocalPref[best.attrs]
  ELSE IF AsPathLen[curr.attrs] # AsPathLen[best.attrs]
    THEN AsPathLen[curr.attrs] < AsPathLen[best.attrs]
  ELSE curr.pathID < best.pathID

(* The body of the loop from its third criterion up, neither route's nil. *)
Displaces(curr, best) ==
  IF Pref(curr) # Pref(best) THEN Pref(curr) > Pref(best)
  ELSE IF AsPathLen[curr.attrs] # AsPathLen[best.attrs]
    THEN AsPathLen[curr.attrs] < AsPathLen[best.attrs]
  ELSE curr.pathID < best.pathID

(* A route without attributes gives way to any with, and displaces none.  No *)
(* routes, no answer.                                                        *)
SelectBest(routes) ==
  LET better(best, curr) ==
        IF curr.attrs = NoAttr THEN best
        ELSE IF best.attrs = NoAttr \/ Displaces(curr, best) THEN curr
        ELSE best
  IN IF routes = <<>> THEN <<>> ELSE FoldLeft(better, Head(routes), Tail(routes))

-----------------------------------------------------------------------------
(* Writing *)

(* A mutant: the flag of the path that was in the slot stays. *)
InlineKeepsFlag(n, id, attrs, stale) ==
  [n EXCEPT !.pathID = id, !.attrs = attrs]

Inline(n, id, attrs, stale) ==
  setStale([n EXCEPT !.pathID = id, !.attrs = attrs], stale)

(* A mutant: only the hasPath flag is cleared. *)
EmptiedStillStale(n) ==
  [n EXCEPT !.attrs = NoAttr, !.flags = @ \ {"hasPath"}]

(* The path ID of an emptied node stays behind, unread. *)
Emptied(n) == [n EXCEPT !.attrs = NoAttr, !.flags = {}]

(* The node after a write, the attributes that left it, and whether any did. *)
Result(n, old, found) == [node |-> n, old |-> old, found |-> found]

(* A mutant: nothing is moved from the slice to the inline slot. *)
deletePathDropsExtra(n, id) ==
  LET at == PositionOf(n, id)
  IN CASE at = 0 -> Result(n, NoAttr, FALSE)
       [] at = 1 -> Result([Emptied(n) EXCEPT !.extra = <<>>], n.attrs, TRUE)
       [] OTHER  -> Result([n EXCEPT !.extra = RemoveAt(@, at - 1)],
                           n.extra[at - 1].attrs, TRUE)

(* An inline path that goes is replaced by the first of the slice. *)
deletePath(n, id) ==
  LET at == PositionOf(n, id)
      head == n.extra[1]
      promoted == [Inline(n, head.pathID, head.attrs, head.stale)
                     EXCEPT !.extra = Tail(@)]
  IN CASE at = 0 -> Result(n, NoAttr, FALSE)
       [] at = 1 -> Result(IF n.extra = <<>> THEN Emptied(n) ELSE promoted,
                           n.attrs, TRUE)
       [] OTHER  -> Result([n EXCEPT !.extra = RemoveAt(@, at - 1)],
                           n.extra[at - 1].attrs, TRUE)

(* Mutants: no stale path is reused, or one is although the path ID exists. *)
OverwrittenNoReuse(n, id) == PositionOf(n, id)
OverwrittenStaleFirst(n, id) ==
  IF FirstStale(n) # 0 THEN FirstStale(n) ELSE PositionOf(n, id)

(* The path that setPath overwrites: the one of the same path ID, else the *)
(* first stale one.                                                        *)
Overwritten(n, id) ==
  IF PositionOf(n, id) # 0 THEN PositionOf(n, id) ELSE FirstStale(n)

setPath(n, id, attrs, stale) ==
  LET at == Overwritten(n, id)
      inline == Inline(n, id, attrs, stale)
      entry == Entry(id, attrs, stale)
  IN CASE at = 1 -> Result(inline, n.attrs, TRUE)
       [] at > 1 -> Result([n EXCEPT !.extra[at - 1] = entry],
                           n.extra[at - 1].attrs, TRUE)
       [] at = 0 /\ ~hasPath(n) ->
            Result([inline EXCEPT !.flags = @ \union {"hasPath"}], NoAttr, FALSE)
       [] OTHER -> Result([n EXCEPT !.extra = Append(@, entry)], NoAttr, FALSE)

(* A mutant: the slice is forgotten. *)
markInlineStale(n) == IF hasPath(n) THEN setStale(n, TRUE) ELSE n

(* MarkAllStale on one node. *)
markStale(n) ==
  IF hasPath(n)
    THEN [setStale(n, TRUE) EXCEPT
            !.extra = [i \in DOMAIN @ |-> [@[i] EXCEPT !.stale = TRUE]]]
    ELSE n

(* firstStalePathID as the set of what it returns: at most one path ID. *)
firstStalePathID(n) ==
  {allPaths(n)[i].pathID : i \in {FirstStale(n)} \ {0}}

(* A mutant: one path only. *)
stripFirstStale(n) ==
  IF firstStalePathID(n) = {} THEN n
  ELSE deletePath(n, CHOOSE id \in firstStalePathID(n) : TRUE).node

(* The loop of deleteStaleFromNode: delete the first stale path until there *)
(* is none.                                                                 *)
stripStale(n) ==
  LET after[turns \in Nat] ==
        IF turns = 0 THEN n
        ELSE LET m == after[turns - 1] IN
             IF firstStalePathID(m) = {} THEN m
             ELSE deletePath(m, CHOOSE id \in firstStalePathID(m) : TRUE).node
  IN after[pathsCount(n)]
=============================================================================
