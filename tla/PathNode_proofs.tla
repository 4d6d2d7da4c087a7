---------------------------- MODULE PathNode_proofs ----------------------------
(***************************************************************************)
(* What the methods of a node do to the set of its paths, for nodes with   *)
(* any number of them: wherever a path is kept, inline or in the slice, a   *)
(* write adds, replaces or removes the path it is meant for and no other.   *)
(***************************************************************************)
EXTENDS PathNode, FoldFacts, SequenceTheorems

PathEntry == [pathID : Nat, attrs : Attr, stale : BOOLEAN]

(* A node without paths has no flag, no attributes and an empty slice: the *)
(* methods of node.go read its other fields only after hasPath.            *)
NodeFields == [flags : SUBSET {"hasPath", "stale"}, pathID : Nat,
               attrs : Attr \union {NoAttr}, extra : Seq(PathEntry)]

Node == {n \in NodeFields :
           IF hasPath(n) THEN n.attrs \in Attr
           ELSE n.flags = {} /\ n.attrs = NoAttr /\ n.extra = <<>>}

(* The paths a node holds, as a set, and one path for each path ID. *)
Entries(n) == ToSet(allPaths(n))

UniqueIDs(n) ==
  \A i, j \in DOMAIN allPaths(n) :
    allPaths(n)[i].pathID = allPaths(n)[j].pathID => i = j

InlineEntry(n) == Entry(n.pathID, n.attrs, isStale(n))
-----------------------------------------------------------------------------
(* The least element of a set of numbers exists. *)
LEMMA MinOfNat ==
  ASSUME NEW S \in SUBSET Nat, S # {}
  PROVE  Min(S) \in S /\ \A y \in S : Min(S) <= y
<1>1. \E z : z \in S /\ \A y \in S : z <= y
  BY LeastElement
<1> QED BY <1>1 DEF Min

(* The inline path comes first and the slice follows. *)
LEMMA PathsOf ==
  ASSUME NEW n \in Node
  PROVE  /\ allPaths(n) \in Seq(PathEntry)
         /\ Len(allPaths(n)) = pathsCount(n)
         /\ pathsCount(n) \in Nat
         /\ DOMAIN allPaths(n) = 1..pathsCount(n)
         /\ \A i \in 1..pathsCount(n) :
              allPaths(n)[i] = IF i = 1 THEN InlineEntry(n) ELSE n.extra[i - 1]
<1>1. CASE hasPath(n)
  <2>1. n.extra \in Seq(PathEntry) /\ InlineEntry(n) \in PathEntry
    BY <1>1 DEF Node, NodeFields, InlineEntry, Entry, PathEntry, isStale
  <2>2. <<InlineEntry(n)>> \in Seq(PathEntry) /\ Len(<<InlineEntry(n)>>) = 1
        /\ <<InlineEntry(n)>>[1] = InlineEntry(n)
    BY <2>1
  <2>3. allPaths(n) = <<InlineEntry(n)>> \o n.extra
    BY <1>1 DEF allPaths, InlineEntry
  <2>4. pathsCount(n) = 1 + Len(n.extra)
    BY <1>1 DEF pathsCount
  <2> HIDE DEF InlineEntry
  <2> QED BY <2>1, <2>2, <2>3, <2>4, ConcatProperties, LenProperties
<1>2. CASE ~hasPath(n)
  BY <1>2, EmptySeq DEF allPaths, pathsCount
<1> QED BY <1>1, <1>2

(* PositionOf finds a path of the given path ID, if there is one. *)
LEMMA Found ==
  ASSUME NEW n \in Node, NEW id \in Nat
  PROVE  /\ PositionOf(n, id) \in 0..pathsCount(n)
         /\ PositionOf(n, id) # 0 => allPaths(n)[PositionOf(n, id)].pathID = id
         /\ PositionOf(n, id) = 0 =>
              \A i \in 1..pathsCount(n) : allPaths(n)[i].pathID # id
<1> DEFINE I == {i \in 1..Len(allPaths(n)) : allPaths(n)[i].pathID = id}
<1>1. PositionOf(n, id) = IF I # {} THEN Min(I) ELSE 0
  BY DEF PositionOf, SelectInSeq
<1>2. I \in SUBSET Nat
  BY PathsOf
<1>3. I # {} => Min(I) \in I
  <2> HIDE DEF I
  <2> QED BY <1>2, MinOfNat
<1> QED BY <1>1, <1>3, PathsOf

(* FirstStale finds the first stale path, if there is one. *)
LEMMA FirstStaleFound ==
  ASSUME NEW n \in Node
  PROVE  /\ FirstStale(n) \in 0..pathsCount(n)
         /\ FirstStale(n) # 0 => allPaths(n)[FirstStale(n)].stale
         /\ FirstStale(n) # 0 => \A i \in 1..(FirstStale(n) - 1) : ~allPaths(n)[i].stale
         /\ FirstStale(n) = 0 => \A i \in 1..pathsCount(n) : ~allPaths(n)[i].stale
<1> DEFINE I == {i \in 1..Len(allPaths(n)) : allPaths(n)[i].stale}
<1>1. FirstStale(n) = IF I # {} THEN Min(I) ELSE 0
  BY DEF FirstStale, SelectInSeq
<1>2. I \in SUBSET Nat
  BY PathsOf
<1>3. I # {} => Min(I) \in I /\ \A y \in I : Min(I) <= y
  <2> HIDE DEF I
  <2> QED BY <1>2, MinOfNat
<1>4. CASE I = {}
  BY <1>1, <1>4, PathsOf
<1>5. CASE I # {}
  <2>1. FirstStale(n) \in I /\ \A y \in I : FirstStale(n) <= y
    BY <1>1, <1>3, <1>5
  <2>2. \A i \in 1..(FirstStale(n) - 1) : i \in 1..Len(allPaths(n)) /\ i \notin I
    <3> HIDE DEF I
    <3>1. FirstStale(n) \in 1..Len(allPaths(n)) /\ Len(allPaths(n)) \in Nat
      BY <2>1, PathsOf DEF I
    <3> QED BY <2>1, <3>1
  <2> QED BY <2>1, <2>2, PathsOf
<1> QED BY <1>4, <1>5

-----------------------------------------------------------------------------
(* The set of paths, by position. *)
LEMMA EntriesOf ==
  ASSUME NEW n \in Node
  PROVE  Entries(n) = {allPaths(n)[i] : i \in 1..pathsCount(n)}
BY PathsOf DEF Entries, ToSet

(* The fields of a node with a path. *)
LEMMA NodeShape ==
  ASSUME NEW n \in Node, hasPath(n)
  PROVE  /\ n.attrs \in Attr /\ n.extra \in Seq(PathEntry) /\ n.pathID \in Nat
         /\ pathsCount(n) = 1 + Len(n.extra) /\ Len(n.extra) \in Nat
         /\ InlineEntry(n) \in PathEntry
         /\ n.flags \in SUBSET {"hasPath", "stale"}
BY DEF Node, NodeFields, pathsCount, InlineEntry, Entry, PathEntry, isStale

(* Writing the inline slot changes three fields. *)
LEMMA InlineRecord ==
  ASSUME NEW n \in NodeFields, NEW id, NEW a, NEW stale \in BOOLEAN
  PROVE  Inline(n, id, a, stale)
           = [flags |-> IF stale THEN n.flags \union {"stale"}
                                 ELSE n.flags \ {"stale"},
              pathID |-> id, attrs |-> a, extra |-> n.extra]
<1> DEFINE m == [n EXCEPT !.pathID = id, !.attrs = a]
<1>1. m = [flags |-> n.flags, pathID |-> id, attrs |-> a, extra |-> n.extra]
  <2>1. DOMAIN n = {"flags", "pathID", "attrs", "extra"}
    BY DEF NodeFields
  <2>2. m = [x \in DOMAIN n |-> IF x = "attrs" THEN a
                                ELSE IF x = "pathID" THEN id ELSE n[x]]
    OBVIOUS
  <2> QED BY <2>1, <2>2
<1>2. Inline(n, id, a, stale) = setStale(m, stale)
  BY DEF Inline
<1> HIDE DEF m
<1>3. setStale(m, stale)
        = [m EXCEPT !.flags = IF stale THEN m.flags \union {"stale"}
                                       ELSE m.flags \ {"stale"}]
  BY DEF setStale
<1> QED BY <1>1, <1>2, <1>3

(* It replaces the first path and leaves the others. *)
LEMMA InlineShape ==
  ASSUME NEW n \in Node, hasPath(n), NEW id \in Nat, NEW a \in Attr,
         NEW stale \in BOOLEAN
  PROVE  LET m == Inline(n, id, a, stale)
         IN  /\ m \in Node /\ hasPath(m)
             /\ InlineEntry(m) = Entry(id, a, stale)
             /\ m.extra = n.extra
             /\ pathsCount(m) = pathsCount(n)
             /\ allPaths(m)[1] = Entry(id, a, stale)
             /\ \A i \in 2..pathsCount(n) : allPaths(m)[i] = allPaths(n)[i]
<1> DEFINE m == Inline(n, id, a, stale)
<1>1. m = [flags |-> IF stale THEN n.flags \union {"stale"} ELSE n.flags \ {"stale"},
           pathID |-> id, attrs |-> a, extra |-> n.extra]
  BY InlineRecord DEF Node
<1> HIDE DEF m
<1>2. hasPath(m) /\ isStale(m) = stale
  BY <1>1 DEF hasPath, isStale
<1>3. m \in Node
  BY <1>1, <1>2, NodeShape DEF Node, NodeFields
<1>4. InlineEntry(m) = Entry(id, a, stale)
  BY <1>1, <1>2 DEF InlineEntry
<1>5. m.extra = n.extra /\ pathsCount(m) = pathsCount(n)
  BY <1>1, <1>2 DEF pathsCount
<1>6. /\ allPaths(m)[1] = Entry(id, a, stale)
      /\ \A i \in 2..pathsCount(n) : allPaths(m)[i] = allPaths(n)[i]
  <2>1. \A i \in 1..pathsCount(m) :
           allPaths(m)[i] = IF i = 1 THEN InlineEntry(m) ELSE m.extra[i - 1]
    BY <1>3, PathsOf
  <2>2. \A i \in 1..pathsCount(n) :
           allPaths(n)[i] = IF i = 1 THEN InlineEntry(n) ELSE n.extra[i - 1]
    BY PathsOf
  <2>3. pathsCount(n) = 1 + Len(n.extra) /\ Len(n.extra) \in Nat
    BY NodeShape
  <2> QED BY <1>4, <1>5, <2>1, <2>2, <2>3
<1> QED BY <1>2, <1>3, <1>4, <1>5, <1>6 DEF m

(* Writing the slice leaves the first path and replaces the others. *)
LEMMA ExtraShape ==
  ASSUME NEW n \in Node, hasPath(n), NEW s \in Seq(PathEntry)
  PROVE  LET m == [n EXCEPT !.extra = s]
         IN  /\ m \in Node /\ hasPath(m)
             /\ pathsCount(m) = 1 + Len(s)
             /\ allPaths(m)[1] = allPaths(n)[1]
             /\ \A i \in 2..(1 + Len(s)) : allPaths(m)[i] = s[i - 1]
<1> DEFINE m == [n EXCEPT !.extra = s]
<1>1. m = [flags |-> n.flags, pathID |-> n.pathID, attrs |-> n.attrs, extra |-> s]
  BY DEF Node, NodeFields
<1> HIDE DEF m
<1>2. hasPath(m) /\ InlineEntry(m) = InlineEntry(n)
  BY <1>1 DEF hasPath, InlineEntry, isStale
<1>3. m \in Node
  BY <1>1, <1>2, NodeShape DEF Node, NodeFields
<1>4. m.extra = s /\ pathsCount(m) = 1 + Len(s)
  BY <1>1, <1>2 DEF pathsCount
<1>5. /\ allPaths(m)[1] = allPaths(n)[1]
      /\ \A i \in 2..(1 + Len(s)) : allPaths(m)[i] = s[i - 1]
  <2>1. \A i \in 1..pathsCount(m) :
           allPaths(m)[i] = IF i = 1 THEN InlineEntry(m) ELSE m.extra[i - 1]
    BY <1>3, PathsOf
  <2>2. allPaths(n)[1] = InlineEntry(n)
    <3>1. 1 \in 1..pathsCount(n)
      BY NodeShape
    <3> QED BY <3>1, PathsOf
  <2>3. Len(s) \in Nat
    BY LenProperties
  <2> QED BY <1>2, <1>4, <2>1, <2>2, <2>3
<1> QED BY <1>2, <1>3, <1>4, <1>5 DEF m

-----------------------------------------------------------------------------
(* setPath *)

(* Where setPath writes is a path of the node, or nowhere yet. *)
LEMMA OverwrittenRange ==
  ASSUME NEW n \in Node, NEW id \in Nat
  PROVE  /\ Overwritten(n, id) \in 0..pathsCount(n)
         /\ pathsCount(n) \in Nat
         /\ hasPath(n) <=> pathsCount(n) # 0
<1>1. pathsCount(n) \in Nat
  BY PathsOf
<1>2. hasPath(n) <=> pathsCount(n) # 0
  BY NodeShape DEF pathsCount
<1> QED BY <1>1, <1>2, Found, FirstStaleFound DEF Overwritten

(* setPath, as an operation on the sequence of paths. *)
LEMMA SetShape ==
  ASSUME NEW n \in Node, NEW id \in Nat, NEW a \in Attr, NEW stale \in BOOLEAN
  PROVE  LET at == Overwritten(n, id)
             c == pathsCount(n)
             res == setPath(n, id, a, stale)
             m == res.node
         IN  /\ m \in Node
             /\ res.found = (at # 0)
             /\ res.old = IF at = 0 THEN NoAttr ELSE allPaths(n)[at].attrs
             /\ pathsCount(m) = IF at = 0 THEN c + 1 ELSE c
             /\ allPaths(m)[IF at = 0 THEN c + 1 ELSE at] = Entry(id, a, stale)
             /\ \A i \in 1..c : i # at => allPaths(m)[i] = allPaths(n)[i]
<1> DEFINE at == Overwritten(n, id)
           c == pathsCount(n)
           res == setPath(n, id, a, stale)
           m == res.node
           entry == Entry(id, a, stale)
<1>1. at \in 0..c /\ c \in Nat /\ (hasPath(n) <=> c # 0)
  BY OverwrittenRange
<1>2. entry \in PathEntry
  BY DEF Entry, PathEntry
<1> SUFFICES /\ m \in Node
             /\ res.found = (at # 0)
             /\ res.old = IF at = 0 THEN NoAttr ELSE allPaths(n)[at].attrs
             /\ pathsCount(m) = IF at = 0 THEN c + 1 ELSE c
             /\ allPaths(m)[IF at = 0 THEN c + 1 ELSE at] = entry
             /\ \A i \in 1..c : i # at => allPaths(m)[i] = allPaths(n)[i]
  OBVIOUS
<1>3. \A i \in 1..c : allPaths(n)[i] = IF i = 1 THEN InlineEntry(n) ELSE n.extra[i - 1]
  BY PathsOf
<1>4. CASE at = 1
  <2>1. res = Result(Inline(n, id, a, stale), n.attrs, TRUE)
    BY <1>4 DEF setPath
  <2>2. m = Inline(n, id, a, stale) /\ res.old = n.attrs /\ res.found = TRUE
    BY <2>1 DEF Result
  <2>3. allPaths(n)[1].attrs = n.attrs
    BY <1>1, <1>3, <1>4 DEF InlineEntry, Entry
  <2>4. hasPath(n)
    BY <1>1, <1>4
  <2>5. /\ Inline(n, id, a, stale) \in Node
        /\ pathsCount(Inline(n, id, a, stale)) = c
        /\ allPaths(Inline(n, id, a, stale))[1] = entry
        /\ \A i \in 2..c : allPaths(Inline(n, id, a, stale))[i] = allPaths(n)[i]
    BY <2>4, InlineShape
  <2> HIDE DEF at, res, m, entry
  <2>6. \A i \in 1..c : i # at => allPaths(m)[i] = allPaths(n)[i]
    <3> TAKE i \in 1..c
    <3>1. i # 1 => i \in 2..c
      BY <1>1
    <3> QED BY <1>4, <2>2, <2>5, <3>1
  <2>7. m \in Node /\ pathsCount(m) = c /\ allPaths(m)[at] = entry /\ at # 0
    BY <1>4, <2>2, <2>5
  <2>8. res.old = allPaths(n)[at].attrs /\ res.found
    BY <1>4, <2>2, <2>3
  <2> QED BY <2>2, <2>6, <2>7, <2>8
<1>5. CASE at > 1
  <2> DEFINE s == [n.extra EXCEPT ![at - 1] = entry]
  <2>1. res = Result([n EXCEPT !.extra = s], n.extra[at - 1].attrs, TRUE)
    <3>1. at # 1 /\ at # 0
      BY <1>1, <1>5
    <3>2. res = Result([n EXCEPT !.extra = s], n.extra[at - 1].attrs, TRUE)
            <=> Result([n EXCEPT !.extra[at - 1] = entry],
                       n.extra[at - 1].attrs, TRUE)
              = Result([n EXCEPT !.extra = s], n.extra[at - 1].attrs, TRUE)
      BY <1>5, <3>1 DEF setPath
    <3> QED BY <3>2
  <2>2. /\ m = [n EXCEPT !.extra = s] /\ res.old = n.extra[at - 1].attrs
        /\ res.found = TRUE
    BY <2>1 DEF Result
  <2> HIDE DEF m, at, entry, res
  <2>3. hasPath(n) /\ n.extra \in Seq(PathEntry) /\ c = 1 + Len(n.extra)
        /\ Len(n.extra) \in Nat /\ at - 1 \in 1..Len(n.extra)
    BY <1>1, <1>5, NodeShape
  <2>4. /\ s \in Seq(PathEntry) /\ Len(s) = Len(n.extra)
        /\ \A j \in 1..Len(n.extra) : s[j] = IF j = at - 1 THEN entry ELSE n.extra[j]
    BY <1>2, <2>3, ExceptSeq
  <2> HIDE DEF s
  <2>5. /\ m \in Node /\ pathsCount(m) = c
        /\ allPaths(m)[1] = allPaths(n)[1]
        /\ \A i \in 2..c : allPaths(m)[i] = s[i - 1]
    BY <2>2, <2>3, <2>4, ExtraShape
  <2>6. allPaths(m)[at] = entry
    BY <1>1, <1>5, <2>3, <2>4, <2>5
  <2>7. \A i \in 1..c : i # at => allPaths(m)[i] = allPaths(n)[i]
    <3> TAKE i \in 1..c
    <3>1. CASE i = 1
      BY <2>5, <3>1
    <3>2. CASE i # 1 /\ i # at
      <4>1. i \in 2..c /\ i - 1 \in 1..Len(n.extra) /\ i - 1 # at - 1
        BY <1>1, <2>3, <3>2
      <4> QED BY <1>3, <2>4, <2>5, <3>2, <4>1
    <3> QED BY <3>1, <3>2
  <2>8. res.old = allPaths(n)[at].attrs /\ at # 0
    BY <1>1, <1>3, <1>5, <2>2
  <2> QED BY <2>2, <2>5, <2>6, <2>7, <2>8
<1>6. CASE at = 0 /\ hasPath(n)
  <2> DEFINE s == Append(n.extra, entry)
  <2>1. res = Result([n EXCEPT !.extra = s], NoAttr, FALSE)
    BY <1>1, <1>6 DEF setPath
  <2>2. m = [n EXCEPT !.extra = s] /\ res.old = NoAttr /\ res.found = FALSE
    BY <2>1 DEF Result
  <2> HIDE DEF m, at, entry, res
  <2>3. n.extra \in Seq(PathEntry) /\ c = 1 + Len(n.extra) /\ Len(n.extra) \in Nat
    BY <1>6, NodeShape
  <2>4. /\ s \in Seq(PathEntry) /\ Len(s) = Len(n.extra) + 1
        /\ \A j \in 1..Len(n.extra) : s[j] = n.extra[j]
        /\ s[Len(n.extra) + 1] = entry
    BY <1>2, <2>3, AppendProperties
  <2> HIDE DEF s
  <2>5. /\ m \in Node /\ pathsCount(m) = c + 1
        /\ allPaths(m)[1] = allPaths(n)[1]
        /\ \A i \in 2..(c + 1) : allPaths(m)[i] = s[i - 1]
    BY <1>6, <2>2, <2>3, <2>4, ExtraShape
  <2>6. allPaths(m)[c + 1] = entry
    BY <2>3, <2>4, <2>5
  <2>7. \A i \in 1..c : allPaths(m)[i] = allPaths(n)[i]
    <3> TAKE i \in 1..c
    <3>1. CASE i = 1
      BY <2>5, <3>1
    <3>2. CASE i # 1
      <4>1. i \in 2..(c + 1) /\ i - 1 \in 1..Len(n.extra)
        BY <1>1, <2>3, <3>2
      <4> QED BY <1>3, <2>4, <2>5, <3>2, <4>1
    <3> QED BY <3>1, <3>2
  <2> QED BY <1>1, <1>6, <2>2, <2>5, <2>6, <2>7
<1>7. CASE at = 0 /\ ~hasPath(n)
  <2> DEFINE new == [flags |-> IF stale THEN {"hasPath", "stale"} ELSE {"hasPath"},
                     pathID |-> id, attrs |-> a, extra |-> <<>>]
  <2>1. res = Result([Inline(n, id, a, stale) EXCEPT
                        !.flags = Inline(n, id, a, stale).flags \union {"hasPath"}],
                     NoAttr, FALSE)
    BY <1>7 DEF setPath
  <2> DEFINE in == Inline(n, id, a, stale)
             f == IF stale THEN {"stale"} ELSE {}
  <2>3. in = [flags |-> f, pathID |-> id, attrs |-> a, extra |-> <<>>]
    <3>1. n \in NodeFields /\ n.flags = {} /\ n.extra = <<>>
      BY <1>7 DEF Node
    <3> QED BY <3>1, InlineRecord
  <2>4. m = new /\ res.old = NoAttr /\ res.found = FALSE
    <3>1. m = [in EXCEPT !.flags = in.flags \union {"hasPath"}]
          /\ res.old = NoAttr /\ res.found = FALSE
      BY <2>1 DEF Result
    <3>2. f \union {"hasPath"} = IF stale THEN {"hasPath", "stale"} ELSE {"hasPath"}
      OBVIOUS
    <3> HIDE DEF m, in, f, res
    <3> QED BY <2>3, <3>1, <3>2
  <2>5. /\ hasPath(new) /\ isStale(new) = stale /\ new \in Node
        /\ InlineEntry(new) = entry /\ pathsCount(new) = 1
    <3>1. hasPath(new) /\ isStale(new) = stale
      BY DEF hasPath, isStale
    <3>2. <<>> \in Seq(PathEntry) /\ Len(<<>>) = 0
      BY EmptySeq
    <3> QED BY <3>1, <3>2 DEF Node, NodeFields, InlineEntry, pathsCount
  <2> HIDE DEF new, m, at, entry, res
  <2>6. allPaths(m)[1] = entry
    BY <2>4, <2>5, PathsOf
  <2>7. c + 1 = 1 /\ 1..c = {}
    BY <1>1, <1>7
  <2>8. m \in Node /\ pathsCount(m) = c + 1 /\ allPaths(m)[c + 1] = entry
    BY <2>4, <2>5, <2>6, <2>7
  <2> QED BY <1>7, <2>4, <2>7, <2>8
<1> HIDE DEF at, res, m, entry
<1>8. at = 1 \/ at > 1 \/ at = 0
  BY <1>1
<1> QED BY <1>4, <1>5, <1>6, <1>7, <1>8

(* It is the path of the same path ID if there is one, else a stale one. *)
LEMMA OverwrittenIs ==
  ASSUME NEW n \in Node, NEW id \in Nat
  PROVE  LET at == Overwritten(n, id)
             c == pathsCount(n)
             has == \E i \in 1..c : allPaths(n)[i].pathID = id
         IN  /\ has => at # 0 /\ allPaths(n)[at].pathID = id
             /\ ~has /\ at # 0 => allPaths(n)[at].stale
             /\ ~has /\ at = 0 => \A i \in 1..c : ~allPaths(n)[i].stale
<1>1. CASE PositionOf(n, id) # 0
  <2>1. PositionOf(n, id) \in 1..pathsCount(n)
        /\ allPaths(n)[PositionOf(n, id)].pathID = id
    BY <1>1, Found, PathsOf
  <2> QED BY <1>1, <2>1 DEF Overwritten
<1>2. CASE PositionOf(n, id) = 0
  <2>1. Overwritten(n, id) = FirstStale(n)
    BY <1>2 DEF Overwritten
  <2>2. \A i \in 1..pathsCount(n) : allPaths(n)[i].pathID # id
    BY <1>2, Found
  <2> QED BY <2>1, <2>2, FirstStaleFound
<1> QED BY <1>1, <1>2

(* UniqueIDs, by position. *)
LEMMA UniqueIDsOf ==
  ASSUME NEW n \in Node
  PROVE  UniqueIDs(n) <=>
           \A i, j \in 1..pathsCount(n) :
             allPaths(n)[i].pathID = allPaths(n)[j].pathID => i = j
BY PathsOf DEF UniqueIDs

(* setPath replaces one path: the one of its path ID, and only if there is   *)
(* none a stale one; it adds a path only if the node has neither.  Every     *)
(* other path stays as it was, with its flag; path IDs stay unique; and the  *)
(* attributes it returns, whose reference insertUnlocked releases, are those *)
(* of the path that went (node.go).                                          *)
THEOREM SetExact ==
  ASSUME NEW n \in Node, UniqueIDs(n),
         NEW id \in Nat, NEW a \in Attr, NEW stale \in BOOLEAN
  PROVE  LET same == {e \in Entries(n) : e.pathID = id}
             replaceable == IF same # {} THEN same
                            ELSE {e \in Entries(n) : e.stale}
             res == setPath(n, id, a, stale)
             new == Entry(id, a, stale)
         IN  /\ res.node \in Node
             /\ UniqueIDs(res.node)
             /\ \/ \E e \in replaceable :
                     /\ Entries(res.node) = (Entries(n) \ {e}) \union {new}
                     /\ res.found /\ res.old = e.attrs
                \/ /\ replaceable = {}
                   /\ Entries(res.node) = Entries(n) \union {new}
                   /\ ~res.found /\ res.old = NoAttr
<1> DEFINE at == Overwritten(n, id)
           c == pathsCount(n)
           p == allPaths(n)
           res == setPath(n, id, a, stale)
           m == res.node
           q == allPaths(m)
           new == Entry(id, a, stale)
           same == {e \in Entries(n) : e.pathID = id}
           replaceable == IF same # {} THEN same
                          ELSE {e \in Entries(n) : e.stale}
<1>1. /\ at \in 0..c /\ c \in Nat
      /\ new.pathID = id
  BY OverwrittenRange DEF Entry
<1>2. /\ m \in Node
      /\ res.found = (at # 0)
      /\ res.old = IF at = 0 THEN NoAttr ELSE p[at].attrs
      /\ pathsCount(m) = IF at = 0 THEN c + 1 ELSE c
      /\ q[IF at = 0 THEN c + 1 ELSE at] = new
      /\ \A i \in 1..c : i # at => q[i] = p[i]
  BY SetShape
<1>3. Entries(n) = {p[i] : i \in 1..c} /\ Entries(m) = {q[i] : i \in 1..pathsCount(m)}
  BY <1>2, EntriesOf
<1>4. \A i, j \in 1..c : p[i].pathID = p[j].pathID => i = j
  BY UniqueIDsOf
<1>5. LET has == \E i \in 1..c : p[i].pathID = id
      IN  /\ has => at # 0 /\ p[at].pathID = id
          /\ ~has /\ at # 0 => p[at].stale
          /\ ~has /\ at = 0 => \A i \in 1..c : ~p[i].stale
  BY OverwrittenIs
<1> SUFFICES /\ UniqueIDs(m)
             /\ \/ \E e \in replaceable :
                     /\ Entries(m) = (Entries(n) \ {e}) \union {new}
                     /\ res.found /\ res.old = e.attrs
                \/ /\ replaceable = {}
                   /\ Entries(m) = Entries(n) \union {new}
                   /\ ~res.found /\ res.old = NoAttr
  BY <1>2
<1> HIDE DEF at, c, p, q, new, res, m
<1>6. \A i \in 1..c : i # at => p[i].pathID # id
  BY <1>1, <1>4, <1>5
<1>7. UniqueIDs(m)
  <2>1. \A i, j \in 1..pathsCount(m) : q[i].pathID = q[j].pathID => i = j
    <3>1. CASE at = 0
      BY <1>1, <1>2, <1>4, <1>6, <3>1
    <3>2. CASE at # 0
      BY <1>1, <1>2, <1>4, <1>6, <3>2
    <3> QED BY <3>1, <3>2
  <2> QED BY <1>2, <2>1, UniqueIDsOf DEF q
<1>8. CASE at # 0
  <2>1. p[at] \in replaceable
    BY <1>1, <1>3, <1>5, <1>8
  <2>2. Entries(m) = (Entries(n) \ {p[at]}) \union {new}
    <3>1. \A i \in 1..c : i # at => p[i] # p[at]
      BY <1>1, <1>4, <1>8
    <3> QED BY <1>1, <1>2, <1>3, <1>8, <3>1
  <2> QED BY <1>2, <1>7, <1>8, <2>1, <2>2
<1>9. CASE at = 0
  <2>1. replaceable = {}
    BY <1>3, <1>5, <1>9
  <2>2. Entries(m) = Entries(n) \union {new}
    BY <1>1, <1>2, <1>3, <1>9
  <2> QED BY <1>2, <1>7, <1>9, <2>1, <2>2
<1> QED BY <1>8, <1>9

-----------------------------------------------------------------------------
(* deletePath *)

(* What cutting an entry out of the slice leaves. *)
LEMMA RemoveAtShape ==
  ASSUME NEW s \in Seq(PathEntry), NEW k \in 1..Len(s)
  PROVE  /\ RemoveAt(s, k) \in Seq(PathEntry)
         /\ Len(RemoveAt(s, k)) = Len(s) - 1
         /\ \A j \in 1..(Len(s) - 1) :
              RemoveAt(s, k)[j] = s[IF j < k THEN j ELSE j + 1]
<1> DEFINE left == SubSeq(s, 1, k - 1)
           right == SubSeq(s, k + 1, Len(s))
<1>1. Len(s) \in Nat /\ \A i \in 1..Len(s) : s[i] \in PathEntry
  BY ElementOfSeq, LenProperties
<1>2. /\ left \in Seq(PathEntry) /\ Len(left) = k - 1
      /\ \A i \in 1..(k - 1) : left[i] = s[i]
  <2>1. \A i \in 1..(k - 1) : s[i] \in PathEntry
    BY <1>1
  <2>2. 1 \in Int /\ k - 1 \in Int
    OBVIOUS
  <2>3. /\ left \in Seq(PathEntry)
        /\ Len(left) = IF 1 <= k - 1 THEN k - 1 - 1 + 1 ELSE 0
        /\ \A i \in 1..(k - 1 - 1 + 1) : left[i] = s[1 + i - 1]
    BY ONLY <2>1, <2>2, SubSeqProperties
  <2> HIDE DEF left
  <2> QED BY <2>3
<1>3. /\ right \in Seq(PathEntry) /\ Len(right) = Len(s) - k
      /\ \A i \in 1..(Len(s) - k) : right[i] = s[k + i]
  <2>1. \A i \in (k + 1)..Len(s) : s[i] \in PathEntry
    BY <1>1
  <2>2. k + 1 \in Int /\ Len(s) \in Int
    BY <1>1
  <2>3. /\ right \in Seq(PathEntry)
        /\ Len(right) = IF k + 1 <= Len(s) THEN Len(s) - (k + 1) + 1 ELSE 0
        /\ \A i \in 1..(Len(s) - (k + 1) + 1) : right[i] = s[k + 1 + i - 1]
    BY ONLY <2>1, <2>2, SubSeqProperties
  <2> HIDE DEF right
  <2> QED BY <1>1, <2>3
<1>4. RemoveAt(s, k) = left \o right
  BY DEF RemoveAt
<1> HIDE DEF left, right
<1>5. /\ left \o right \in Seq(PathEntry)
      /\ Len(left \o right) = Len(left) + Len(right)
      /\ \A i \in 1..(Len(left) + Len(right)) : (left \o right)[i]
            = IF i <= Len(left) THEN left[i] ELSE right[i - Len(left)]
  BY <1>2, <1>3, ConcatProperties
<1> QED BY <1>1, <1>2, <1>3, <1>4, <1>5

(* deletePath, as an operation on the sequence of paths. *)
LEMMA DeleteShape ==
  ASSUME NEW n \in Node, NEW id \in Nat, PositionOf(n, id) # 0
  PROVE  LET at == PositionOf(n, id)
             c == pathsCount(n)
             res == deletePath(n, id)
             m == res.node
         IN  /\ m \in Node /\ res.found /\ res.old = allPaths(n)[at].attrs
             /\ pathsCount(m) = c - 1
             /\ \A i \in 1..(c - 1) :
                  allPaths(m)[i] = allPaths(n)[IF i < at THEN i ELSE i + 1]
<1> DEFINE at == PositionOf(n, id)
           c == pathsCount(n)
           res == deletePath(n, id)
           m == res.node
           k == Len(n.extra)
<1>1. /\ at \in 1..c /\ hasPath(n) /\ c = 1 + k /\ k \in Nat
      /\ n.extra \in Seq(PathEntry)
  <2>1. at \in 0..c /\ c \in Nat /\ (hasPath(n) <=> c # 0)
    BY Found, OverwrittenRange
  <2>2. at \in 1..c /\ hasPath(n)
    BY <2>1
  <2> QED BY <2>2, NodeShape
<1>2. /\ allPaths(n)[1] = InlineEntry(n)
      /\ \A i \in 2..c : allPaths(n)[i] = n.extra[i - 1]
  BY <1>1, PathsOf
<1> SUFFICES /\ m \in Node /\ res.found /\ res.old = allPaths(n)[at].attrs
             /\ pathsCount(m) = c - 1
             /\ \A i \in 1..(c - 1) :
                  allPaths(m)[i] = allPaths(n)[IF i < at THEN i ELSE i + 1]
  OBVIOUS
<1>3. CASE at = 1 /\ n.extra = <<>>
  <2>1. res = Result(Emptied(n), n.attrs, TRUE)
    BY <1>3 DEF deletePath
  <2>2. m = Emptied(n) /\ res.old = n.attrs /\ res.found = TRUE
    BY <2>1 DEF Result
  <2>3. Emptied(n) = [flags |-> {}, pathID |-> n.pathID, attrs |-> NoAttr,
                      extra |-> <<>>]
    <3>1. DOMAIN n = {"flags", "pathID", "attrs", "extra"}
      BY DEF Node, NodeFields
    <3>2. Emptied(n) = [x \in DOMAIN n |-> IF x = "flags" THEN {}
                                          ELSE IF x = "attrs" THEN NoAttr ELSE n[x]]
      BY DEF Emptied
    <3> QED BY <1>3, <3>1, <3>2
  <2>4. n.pathID \in Nat /\ <<>> \in Seq(PathEntry) /\ k = 0
    BY <1>1, <1>3, NodeShape, EmptySeq
  <2> HIDE DEF m, res, at
  <2>5. ~hasPath(m) /\ m \in Node
    BY <2>2, <2>3, <2>4 DEF hasPath, Node, NodeFields
  <2>6. pathsCount(m) = 0 /\ c - 1 = 0
    BY <1>1, <2>4, <2>5 DEF pathsCount
  <2>7. allPaths(n)[at].attrs = n.attrs
    BY <1>2, <1>3 DEF InlineEntry, Entry
  <2>8. 1..(c - 1) = {}
    BY <2>6
  <2> QED BY <2>2, <2>5, <2>6, <2>7, <2>8
<1>4. CASE at = 1 /\ n.extra # <<>>
  <2> DEFINE head == n.extra[1]
             in == Inline(n, head.pathID, head.attrs, head.stale)
  <2>1. res = Result([in EXCEPT !.extra = Tail(in.extra)], n.attrs, TRUE)
    BY <1>4 DEF deletePath
  <2>2. /\ m = [in EXCEPT !.extra = Tail(in.extra)] /\ res.old = n.attrs
        /\ res.found = TRUE
    BY <2>1 DEF Result
  <2>3. k >= 1 /\ head \in PathEntry
    <3>1. k >= 1
      BY <1>1, <1>4, EmptySeq
    <3> QED BY <1>1, <3>1, ElementOfSeq
  <2>4. /\ head.pathID \in Nat /\ head.attrs \in Attr /\ head.stale \in BOOLEAN
        /\ Entry(head.pathID, head.attrs, head.stale) = head
    <3> HIDE DEF head
    <3> QED BY <2>3 DEF PathEntry, Entry
  <2>5. in \in Node /\ hasPath(in) /\ in.extra = n.extra /\ allPaths(in)[1] = head
    <3> HIDE DEF head
    <3> QED BY <1>1, <2>4, InlineShape
  <2>6. /\ Tail(n.extra) \in Seq(PathEntry) /\ Len(Tail(n.extra)) = k - 1
        /\ \A i \in 1..(k - 1) : Tail(n.extra)[i] = n.extra[i + 1]
    BY <1>1, <1>4, HeadTailProperties
  <2> HIDE DEF m, res, at, in, head
  <2> DEFINE rest == Tail(n.extra)
  <2>10. m = [in EXCEPT !.extra = rest]
    BY <2>2, <2>5
  <2>11. rest \in Seq(PathEntry) /\ Len(rest) = k - 1 /\ 1 + Len(rest) = 1 + (k - 1)
    BY <2>6
  <2>7. /\ m \in Node /\ pathsCount(m) = 1 + (k - 1)
        /\ allPaths(m)[1] = head
        /\ \A i \in 2..(1 + (k - 1)) : allPaths(m)[i] = rest[i - 1]
    <3> HIDE DEF rest
    <3> QED BY <2>5, <2>10, <2>11, ExtraShape
  <2>8. \A i \in 1..(c - 1) : allPaths(m)[i] = allPaths(n)[IF i < at THEN i ELSE i + 1]
    <3> TAKE i \in 1..(c - 1)
    <3>1. i \in 1..k /\ i + 1 \in 2..c /\ ~(i < at)
      BY <1>1, <1>4
    <3>2. allPaths(n)[i + 1] = n.extra[i]
      BY <1>1, <1>2, <3>1
    <3>3. CASE i = 1
      BY <2>7, <3>1, <3>2, <3>3 DEF head
    <3>4. CASE i # 1
      <4>1. i \in 2..(1 + (k - 1)) /\ i - 1 \in 1..(k - 1) /\ (i - 1) + 1 = i
        BY <1>1, <3>1, <3>4
      <4> QED BY <2>6, <2>7, <3>1, <3>2, <4>1
    <3> QED BY <3>3, <3>4
  <2>9. allPaths(n)[at].attrs = n.attrs /\ pathsCount(m) = c - 1
    BY <1>1, <1>2, <1>4, <2>7 DEF InlineEntry, Entry
  <2> QED BY <2>2, <2>7, <2>8, <2>9
<1>5. CASE at # 1
  <2> DEFINE s == RemoveAt(n.extra, at - 1)
  <2>1. res = Result([n EXCEPT !.extra = s], n.extra[at - 1].attrs, TRUE)
    BY <1>5 DEF deletePath
  <2>2. /\ m = [n EXCEPT !.extra = s] /\ res.old = n.extra[at - 1].attrs
        /\ res.found = TRUE
    BY <2>1 DEF Result
  <2> HIDE DEF m, res, at
  <2>3. at - 1 \in 1..k /\ at \in 2..c
    BY <1>1, <1>5
  <2>4. /\ s \in Seq(PathEntry) /\ Len(s) = k - 1
        /\ \A j \in 1..(k - 1) : s[j] = n.extra[IF j < at - 1 THEN j ELSE j + 1]
    BY <1>1, <2>3, RemoveAtShape
  <2> HIDE DEF s
  <2>5. /\ m \in Node /\ pathsCount(m) = 1 + (k - 1)
        /\ allPaths(m)[1] = allPaths(n)[1]
        /\ \A i \in 2..(1 + (k - 1)) : allPaths(m)[i] = s[i - 1]
    BY <1>1, <2>2, <2>4, ExtraShape
  <2>6. \A i \in 1..(c - 1) : allPaths(m)[i] = allPaths(n)[IF i < at THEN i ELSE i + 1]
    <3> TAKE i \in 1..(c - 1)
    <3>1. CASE i = 1
      BY <1>1, <2>3, <2>5, <3>1
    <3>2. CASE i # 1
      <4>1. i \in 2..(1 + (k - 1)) /\ i - 1 \in 1..(k - 1)
        BY <1>1, <3>2
      <4>2. allPaths(m)[i] = n.extra[IF i - 1 < at - 1 THEN i - 1 ELSE (i - 1) + 1]
        BY <2>4, <2>5, <4>1
      <4>3. CASE i < at
        BY <1>1, <1>2, <2>3, <4>1, <4>2, <4>3
      <4>4. CASE ~(i < at)
        BY <1>1, <1>2, <2>3, <4>1, <4>2, <4>4
      <4> QED BY <4>3, <4>4
    <3> QED BY <3>1, <3>2
  <2>7. res.old = allPaths(n)[at].attrs /\ pathsCount(m) = c - 1
    BY <1>1, <1>2, <2>2, <2>3, <2>5
  <2> QED BY <2>2, <2>5, <2>6, <2>7
<1> QED BY <1>3, <1>4, <1>5

(* A path ID the node does not have: nothing happens. *)
LEMMA DeleteAbsent ==
  ASSUME NEW n, NEW id, PositionOf(n, id) = 0
  PROVE  deletePath(n, id) = Result(n, NoAttr, FALSE)
BY DEF deletePath

(* deletePath removes the path of its path ID and no other, from wherever it *)
(* is: when the inline path goes, the first of the slice takes its place     *)
(* with its own flag.  Path IDs stay unique, and it returns the attributes   *)
(* of the path that went, or that there was none (node.go).                  *)
THEOREM DeleteExact ==
  ASSUME NEW n \in Node, UniqueIDs(n), NEW id \in Nat
  PROVE  LET res == deletePath(n, id)
         IN  /\ res.node \in Node
             /\ UniqueIDs(res.node)
             /\ \/ \E e \in Entries(n) :
                     /\ e.pathID = id
                     /\ Entries(res.node) = Entries(n) \ {e}
                     /\ res.found /\ res.old = e.attrs
                \/ /\ \A e \in Entries(n) : e.pathID # id
                   /\ res.node = n
                   /\ ~res.found /\ res.old = NoAttr
<1> DEFINE at == PositionOf(n, id)
           c == pathsCount(n)
           p == allPaths(n)
           res == deletePath(n, id)
           m == res.node
           q == allPaths(m)
<1>1. c \in Nat /\ Entries(n) = {p[i] : i \in 1..c}
  BY OverwrittenRange, EntriesOf
<1>2. \A i, j \in 1..c : p[i].pathID = p[j].pathID => i = j
  BY UniqueIDsOf
<1>3. CASE at = 0
  <2>1. m = n /\ ~res.found /\ res.old = NoAttr
    BY <1>3, DeleteAbsent DEF Result
  <2>2. \A i \in 1..c : p[i].pathID # id
    BY <1>3, Found
  <2>3. \A e \in Entries(n) : e.pathID # id
    BY <1>1, <2>2
  <2> QED BY <2>1, <2>3
<1>4. CASE at # 0
  <2>1. at \in 1..c /\ p[at].pathID = id
    BY <1>1, <1>4, Found
  <2>2. /\ m \in Node /\ res.found /\ res.old = p[at].attrs
        /\ pathsCount(m) = c - 1
        /\ \A i \in 1..(c - 1) : q[i] = p[IF i < at THEN i ELSE i + 1]
    BY <1>4, DeleteShape
  <2>3. Entries(m) = {q[i] : i \in 1..(c - 1)}
    BY <2>2, EntriesOf
  <2>4. UniqueIDs(m)
    <3>1. \A i, j \in 1..(c - 1) : q[i].pathID = q[j].pathID => i = j
      <4> HIDE DEF at, c, p, q, m, res
      <4> TAKE i, j \in 1..(c - 1)
      <4> DEFINE x == IF i < at THEN i ELSE i + 1
                 y == IF j < at THEN j ELSE j + 1
      <4>1. x \in 1..c /\ y \in 1..c /\ (x = y => i = j)
        BY <1>1, <2>1
      <4>2. q[i] = p[x] /\ q[j] = p[y]
        BY <2>2
      <4> HIDE DEF x, y
      <4> QED BY <1>2, <4>1, <4>2
    <3> QED BY <2>2, <3>1, UniqueIDsOf
  <2> HIDE DEF at, c, p, q, m, res
  <2>5. Entries(m) = Entries(n) \ {p[at]}
    <3>1. ASSUME NEW i \in 1..(c - 1)
          PROVE  q[i] \in Entries(n) \ {p[at]}
      <4> DEFINE x == IF i < at THEN i ELSE i + 1
      <4>1. x \in 1..c /\ x # at
        BY <1>1, <2>1
      <4>2. q[i] = p[x]
        BY <2>2
      <4> HIDE DEF x
      <4> QED BY <1>1, <1>2, <2>1, <4>1, <4>2
    <3>2. ASSUME NEW x \in 1..c, p[x] # p[at]
          PROVE  p[x] \in Entries(m)
      <4> DEFINE i == IF x < at THEN x ELSE x - 1
      <4>1. x # at
        BY <3>2
      <4>2. i \in 1..(c - 1) /\ x = IF i < at THEN i ELSE i + 1
        BY <1>1, <2>1, <4>1
      <4> HIDE DEF i
      <4>3. q[i] = p[x]
        BY <2>2, <4>2
      <4> QED BY <2>3, <4>2, <4>3
    <3>3. Entries(m) \subseteq Entries(n) \ {p[at]}
      BY <2>3, <3>1
    <3>4. Entries(n) \ {p[at]} \subseteq Entries(m)
      BY <1>1, <3>2
    <3> QED BY <3>3, <3>4
  <2>6. p[at] \in Entries(n)
    BY <1>1, <2>1
  <2> QED BY <2>1, <2>2, <2>4, <2>5, <2>6 DEF m, res
<1> QED BY <1>3, <1>4

(* One turn of the loop of deleteStaleFromNode: firstStalePathID names a path *)
(* if and only if one is stale, and deleting what it names removes exactly    *)
(* one stale path.  So no turn withdraws a fresh path, the loop ends after as *)
(* many turns as there are stale paths, and then none is left.                *)
THEOREM SweepTurnExact ==
  ASSUME NEW n \in Node, UniqueIDs(n)
  PROVE  /\ firstStalePathID(n) = {} <=> \A e \in Entries(n) : ~e.stale
         /\ \A id \in firstStalePathID(n) :
              LET res == deletePath(n, id)
              IN  /\ res.node \in Node
                  /\ UniqueIDs(res.node)
                  /\ res.found
                  /\ \E e \in Entries(n) :
                       /\ e.stale
                       /\ Entries(res.node) = Entries(n) \ {e}
                       /\ res.old = e.attrs
<1> DEFINE c == pathsCount(n)
           p == allPaths(n)
           at == FirstStale(n)
<1>1. c \in Nat /\ Entries(n) = {p[i] : i \in 1..c}
  BY OverwrittenRange, EntriesOf
<1>2. /\ at \in 0..c
      /\ at # 0 => p[at].stale
      /\ at = 0 => \A i \in 1..c : ~p[i].stale
  BY FirstStaleFound
<1>3. firstStalePathID(n) = IF at = 0 THEN {} ELSE {p[at].pathID}
  BY DEF firstStalePathID
<1>4. \A i \in 1..c : p[i].pathID \in Nat
  <2>1. p \in Seq(PathEntry) /\ Len(p) = c
    BY PathsOf
  <2>2. \A i \in 1..c : p[i] \in PathEntry
    <3> HIDE DEF p, c
    <3> QED BY <2>1, ElementOfSeq
  <2> HIDE DEF p, c
  <2> QED BY <2>2 DEF PathEntry
<1> HIDE DEF c, p, at
<1>5. CASE at = 0
  BY <1>1, <1>2, <1>3, <1>5
<1>6. CASE at # 0
  <2>1. at \in 1..c /\ p[at] \in Entries(n) /\ p[at].stale
    BY <1>1, <1>2, <1>6
  <2> DEFINE id == p[at].pathID
             res == deletePath(n, id)
  <2>2. id \in Nat
    BY <1>4, <2>1
  <2>3. /\ res.node \in Node /\ UniqueIDs(res.node)
        /\ \/ \E e \in Entries(n) :
                /\ e.pathID = id
                /\ Entries(res.node) = Entries(n) \ {e}
                /\ res.found /\ res.old = e.attrs
           \/ \A e \in Entries(n) : e.pathID # id
    <3> HIDE DEF id
    <3> QED BY <2>2, DeleteExact
  <2>4. \A e \in Entries(n) : e.pathID = id => e = p[at]
    BY <1>1, <2>1, UniqueIDsOf DEF c, p
  <2>5. PICK e \in Entries(n) : /\ e.pathID = id
                                /\ Entries(res.node) = Entries(n) \ {e}
                                /\ res.found /\ res.old = e.attrs
    BY <2>1, <2>3
  <2>6. e.stale
    BY <2>1, <2>4, <2>5
  <2> HIDE DEF res
  <2>7. /\ res.node \in Node /\ UniqueIDs(res.node) /\ res.found
        /\ \E f \in Entries(n) : /\ f.stale
                                 /\ Entries(res.node) = Entries(n) \ {f}
                                 /\ res.old = f.attrs
    BY <2>3, <2>5, <2>6
  <2> QED BY <1>3, <1>6, <2>1, <2>7 DEF res
<1> QED BY <1>5, <1>6

(* The turns of the loop, as the function that stripStale takes them from.  *)
Turn(m) == IF firstStalePathID(m) = {} THEN m
           ELSE deletePath(m, CHOOSE id \in firstStalePathID(m) : TRUE).node

Turns(after, n) ==
  after = [turns \in Nat |-> IF turns = 0 THEN n
             ELSE LET m == after[turns - 1] IN
                  IF firstStalePathID(m) = {} THEN m
                  ELSE deletePath(m, CHOOSE id \in firstStalePathID(m) : TRUE).node]

Tidy == {n \in Node : UniqueIDs(n)}

(* A turn changes nothing or takes one stale path away. *)
LEMMA TurnTakesOne ==
  ASSUME NEW m \in Tidy
  PROVE  /\ Turn(m) \in Tidy
         /\ \/ Turn(m) = m /\ \A e \in Entries(m) : ~e.stale
            \/ /\ pathsCount(Turn(m)) = pathsCount(m) - 1
               /\ \E e \in Entries(m) : e.stale /\ Entries(Turn(m)) = Entries(m) \ {e}
<1>1. m \in Node /\ UniqueIDs(m)
  BY DEF Tidy
<1>2. CASE firstStalePathID(m) = {}
  BY <1>1, <1>2, SweepTurnExact DEF Turn
<1>3. CASE firstStalePathID(m) # {}
  <2>1. PICK id \in firstStalePathID(m) : Turn(m) = deletePath(m, id).node
    BY <1>3 DEF Turn
  <2>2. /\ Turn(m) \in Node /\ UniqueIDs(Turn(m)) /\ deletePath(m, id).found
        /\ \E e \in Entries(m) : e.stale /\ Entries(Turn(m)) = Entries(m) \ {e}
    BY <1>1, <2>1, SweepTurnExact
  <2>3. id \in Nat
    <3>1. FirstStale(m) \in 1..pathsCount(m) /\ id = allPaths(m)[FirstStale(m)].pathID
      BY <1>1, <2>1, FirstStaleFound, PathsOf DEF firstStalePathID
    <3>2. allPaths(m)[FirstStale(m)] \in PathEntry
      BY <1>1, <3>1, PathsOf, ElementOfSeq
    <3> QED BY <3>1, <3>2 DEF PathEntry
  <2>4. PositionOf(m, id) # 0
    <3>1. PositionOf(m, id) = 0 => deletePath(m, id) = Result(m, NoAttr, FALSE)
      BY DeleteAbsent
    <3> QED BY <2>2, <3>1 DEF Result
  <2>5. pathsCount(Turn(m)) = pathsCount(m) - 1
    BY <1>1, <2>1, <2>3, <2>4, DeleteShape
  <2> QED BY <2>2, <2>5 DEF Tidy
<1> QED BY <1>2, <1>3

(* The loop of deleteStaleFromNode, all its turns: exactly the stale paths   *)
(* of the node are gone, however many there are and wherever they are, and   *)
(* it makes enough turns for that (node.go, ipv4.go).                        *)
THEOREM StripExact ==
  ASSUME NEW n \in Node, UniqueIDs(n)
  PROVE  /\ stripStale(n) \in Node
         /\ UniqueIDs(stripStale(n))
         /\ Entries(stripStale(n)) = {e \in Entries(n) : ~e.stale}
         /\ pathsCount(stripStale(n)) <= pathsCount(n)
<1> DEFINE c == pathsCount(n)
           step == [i \in Nat |-> [m \in Tidy |-> Turn(m)]]
           fixed == CHOOSE after : Turns(after, n)
<1>1. n \in Tidy /\ c \in Nat
  BY PathsOf DEF Tidy
<1>2. step \in [Nat -> [Tidy -> Tidy]]
  BY TurnTakesOne
<1>3. \E after : Turns(after, n)
  <2>1. PICK f : Iterates(f, Tidy, n, step)
    <3> HIDE DEF step
    <3> QED BY <1>1, <1>2, NatRecursion
  <2>2. f \in [Nat -> Tidy] /\ \A i \in Nat : f[i] = IF i = 0 THEN n ELSE step[i][f[i - 1]]
    <3> HIDE DEF step
    <3> QED BY <2>1 DEF Iterates
  <2>3. \A i \in Nat : i # 0 => step[i][f[i - 1]] = Turn(f[i - 1])
    <3> TAKE i \in Nat
    <3>1. i # 0 => f[i - 1] \in Tidy
      BY <2>2
    <3> QED BY <3>1
  <2> HIDE DEF step
  <2>4. \A i \in Nat : f[i] = IF i = 0 THEN n ELSE Turn(f[i - 1])
    BY <2>2, <2>3
  <2>5. f = [i \in Nat |-> IF i = 0 THEN n ELSE Turn(f[i - 1])]
    BY <2>2, <2>4
  <2> QED BY <2>5 DEF Turns, Turn
<1>4. Turns(fixed, n)
  BY <1>3
<1>5. stripStale(n) = fixed[c]
  BY DEF stripStale, Turns
<1> HIDE DEF fixed
<1>6. \A i \in Nat : fixed[i] = IF i = 0 THEN n ELSE Turn(fixed[i - 1])
  BY <1>4 DEF Turns, Turn
<1> DEFINE Fresh(m) == {e \in Entries(m) : ~e.stale}
           P == {i \in Nat : /\ fixed[i] \in Tidy
                             /\ Entries(fixed[i]) \subseteq Entries(n)
                             /\ Fresh(n) \subseteq Entries(fixed[i])
                             /\ pathsCount(fixed[i]) <= c
                             /\ \/ \A e \in Entries(fixed[i]) : ~e.stale
                                \/ pathsCount(fixed[i]) <= c - i}
<1>7. 0 \in P
  BY <1>1, <1>6
<1>8. ASSUME NEW i \in Nat, i \in P
      PROVE  i + 1 \in P
  <2> DEFINE m == fixed[i]
             k == fixed[i + 1]
  <2>1. k = Turn(m)
    <3>1. i + 1 \in Nat /\ i + 1 # 0 /\ (i + 1) - 1 = i
      OBVIOUS
    <3> QED BY <1>6, <3>1
  <2>2. /\ m \in Tidy /\ Entries(m) \subseteq Entries(n) /\ Fresh(n) \subseteq Entries(m)
        /\ pathsCount(m) <= c
        /\ (\A e \in Entries(m) : ~e.stale) \/ pathsCount(m) <= c - i
    BY <1>8
  <2>3. pathsCount(m) \in Nat
    BY <2>2, PathsOf DEF Tidy
  <2> HIDE DEF m, k, c
  <2>4. CASE k = m /\ \A e \in Entries(m) : ~e.stale
    BY <2>2, <2>4 DEF k
  <2>5. ASSUME NEW e \in Entries(m), e.stale, Entries(k) = Entries(m) \ {e},
               pathsCount(k) = pathsCount(m) - 1
        PROVE  i + 1 \in P
    <3>1. k \in Tidy
      BY <2>1, <2>2, TurnTakesOne
    <3>2. ~(\A d \in Entries(m) : ~d.stale)
      BY <2>5
    <3>3. pathsCount(k) <= c - (i + 1) /\ pathsCount(k) <= c
      BY <1>1, <2>2, <2>3, <2>5, <3>2
    <3>4. Entries(k) \subseteq Entries(n) /\ Fresh(n) \subseteq Entries(k)
      BY <2>2, <2>5
    <3> QED BY <3>1, <3>3, <3>4 DEF k
  <2> QED BY <2>1, <2>2, <2>4, <2>5, TurnTakesOne
<1> HIDE DEF P
<1>9. c \in P
  BY <1>1, <1>7, <1>8, NatInduct
<1>10. /\ fixed[c] \in Tidy /\ Entries(fixed[c]) \subseteq Entries(n)
       /\ Fresh(n) \subseteq Entries(fixed[c]) /\ pathsCount(fixed[c]) <= c
       /\ (\A e \in Entries(fixed[c]) : ~e.stale) \/ pathsCount(fixed[c]) <= c - c
  BY <1>9 DEF P
<1>11. \A e \in Entries(fixed[c]) : ~e.stale
  <2>1. fixed[c] \in Node /\ pathsCount(fixed[c]) \in Nat
    BY <1>10, PathsOf DEF Tidy
  <2>2. CASE pathsCount(fixed[c]) <= c - c
    <3>1. 1..pathsCount(fixed[c]) = {}
      BY <1>1, <2>1, <2>2
    <3> QED BY <2>1, <3>1, EntriesOf
  <2> QED BY <1>10, <2>2
<1> QED BY <1>5, <1>10, <1>11 DEF Tidy

-----------------------------------------------------------------------------
(* MarkAllStale *)

(* Setting the flag of an entry of the slice. *)
LEMMA Staled ==
  ASSUME NEW e \in PathEntry
  PROVE  /\ [e EXCEPT !.stale = TRUE] = Entry(e.pathID, e.attrs, TRUE)
         /\ Entry(e.pathID, e.attrs, TRUE) \in PathEntry
<1> DEFINE f == Entry(e.pathID, e.attrs, TRUE)
           g == [e EXCEPT !.stale = TRUE]
<1>1. f \in PathEntry /\ f.pathID = e.pathID /\ f.attrs = e.attrs /\ f.stale = TRUE
  BY DEF PathEntry, Entry
<1>2. g \in PathEntry /\ g.pathID = e.pathID /\ g.attrs = e.attrs /\ g.stale = TRUE
  BY DEF PathEntry
<1> HIDE DEF f, g
<1>3. f = g
  BY <1>1, <1>2 DEF PathEntry
<1> QED BY <1>1, <1>3 DEF f, g

(* An entry has the path ID it was made with. *)
LEMMA EntryID == \A id, a : Entry(id, a, TRUE).pathID = id
BY DEF Entry

(* Marking a node flags every path of it, the inline one and those of the   *)
(* slice, and changes nothing else about them (MarkAllStale).               *)
THEOREM MarkExact ==
  ASSUME NEW n \in Node
  PROVE  /\ markStale(n) \in Node
         /\ Entries(markStale(n)) = {Entry(e.pathID, e.attrs, TRUE) : e \in Entries(n)}
         /\ UniqueIDs(n) => UniqueIDs(markStale(n))
         /\ pathsCount(markStale(n)) = pathsCount(n)
<1> DEFINE m == markStale(n)
           c == pathsCount(n)
           p == allPaths(n)
<1>1. c \in Nat /\ Entries(n) = {p[i] : i \in 1..c}
  BY OverwrittenRange, EntriesOf
<1>2. /\ m \in Node /\ pathsCount(m) = c
      /\ \A i \in 1..c : allPaths(m)[i] = Entry(p[i].pathID, p[i].attrs, TRUE)
  <2>1. CASE ~hasPath(n)
    <3>1. m = n /\ c = 0
      BY <2>1 DEF markStale, pathsCount
    <3> QED BY <3>1
  <2>2. CASE hasPath(n)
    <3> DEFINE k == Len(n.extra)
               s == [i \in DOMAIN n.extra |-> [n.extra[i] EXCEPT !.stale = TRUE]]
    <3>1. /\ n.extra \in Seq(PathEntry) /\ k \in Nat /\ c = 1 + k
          /\ DOMAIN n.extra = 1..k /\ n.pathID \in Nat /\ n.attrs \in Attr
          /\ \A i \in 1..k : n.extra[i] \in PathEntry
      BY <2>2, NodeShape, LenProperties, ElementOfSeq
    <3>2. s \in Seq(PathEntry) /\ Len(s) = k /\ \A i \in 1..k :
            s[i] = Entry(n.extra[i].pathID, n.extra[i].attrs, TRUE)
      <4> DEFINE e(i) == Entry(n.extra[i].pathID, n.extra[i].attrs, TRUE)
      <4>1. \A i \in 1..k : /\ [n.extra[i] EXCEPT !.stale = TRUE] = e(i)
                            /\ e(i) \in PathEntry
        <5> TAKE i \in 1..k
        <5>1. n.extra[i] \in PathEntry
          BY <3>1
        <5> QED BY <5>1, Staled
      <4>2. s = [i \in 1..k |-> e(i)]
        BY <3>1, <4>1
      <4> HIDE DEF e, s
      <4>3. s \in Seq(PathEntry) /\ Len(s) = k /\ \A i \in 1..k : s[i] = e(i)
        BY <3>1, <4>1, <4>2
      <4> QED BY <4>3 DEF e
    <3> DEFINE in == Inline(n, n.pathID, n.attrs, TRUE)
    <3>3. in = [flags |-> n.flags \union {"stale"}, pathID |-> n.pathID,
                attrs |-> n.attrs, extra |-> n.extra]
      BY InlineRecord DEF Node
    <3>4. m = [in EXCEPT !.extra = s]
      <4>1. n = [flags |-> n.flags, pathID |-> n.pathID, attrs |-> n.attrs,
                 extra |-> n.extra]
        BY DEF Node, NodeFields
      <4>2. setStale(n, TRUE) = in
        <5>1. setStale(n, TRUE) = [n EXCEPT !.flags = n.flags \union {"stale"}]
          BY DEF setStale
        <5> HIDE DEF in
        <5> QED BY <3>3, <4>1, <5>1
      <4>3. in.extra = n.extra
        <5> HIDE DEF in
        <5> QED BY <3>3
      <4> QED BY <2>2, <4>2, <4>3 DEF markStale
    <3>5. /\ in \in Node /\ hasPath(in)
          /\ allPaths(in)[1] = Entry(n.pathID, n.attrs, TRUE)
      BY <2>2, <3>1, InlineShape
    <3> HIDE DEF in, s, m
    <3>6. /\ m \in Node /\ pathsCount(m) = 1 + k
          /\ allPaths(m)[1] = allPaths(in)[1]
          /\ \A i \in 2..(1 + k) : allPaths(m)[i] = s[i - 1]
      <4>1. s \in Seq(PathEntry) /\ 1 + Len(s) = 1 + k
        BY <3>2
      <4> QED BY ONLY <4>1, <3>4, <3>5, ExtraShape
    <3>7. \A i \in 1..c : p[i] = IF i = 1 THEN InlineEntry(n) ELSE n.extra[i - 1]
      BY PathsOf
    <3>8. InlineEntry(n).pathID = n.pathID /\ InlineEntry(n).attrs = n.attrs
      BY DEF InlineEntry, Entry
    <3>9. \A i \in 1..c : allPaths(m)[i] = Entry(p[i].pathID, p[i].attrs, TRUE)
      <4> TAKE i \in 1..c
      <4>1. CASE i = 1
        BY <3>5, <3>6, <3>7, <3>8, <4>1
      <4>2. CASE i # 1
        <5>1. i \in 2..(1 + k) /\ i - 1 \in 1..k
          BY <3>1, <4>2
        <5> QED BY <3>2, <3>6, <3>7, <4>2, <5>1
      <4> QED BY <4>1, <4>2
    <3> QED BY <3>1, <3>6, <3>9
  <2> QED BY <2>1, <2>2
<1>3. Entries(m) = {allPaths(m)[i] : i \in 1..c}
  BY <1>2, EntriesOf
<1> HIDE DEF m, c, p
<1>4. Entries(m) = {Entry(e.pathID, e.attrs, TRUE) : e \in Entries(n)}
  <2> DEFINE f(e) == Entry(e.pathID, e.attrs, TRUE)
  <2>1. \A i \in 1..c : allPaths(m)[i] = f(p[i])
    BY <1>2
  <2> HIDE DEF f
  <2>2. Entries(m) = {f(e) : e \in Entries(n)}
    BY <1>1, <1>3, <2>1
  <2> QED BY <2>2 DEF f
<1>5. UniqueIDs(n) => UniqueIDs(m)
  <2>2. \A i \in 1..c : allPaths(m)[i].pathID = p[i].pathID
    <3> TAKE i \in 1..c
    <3>1. allPaths(m)[i] = Entry(p[i].pathID, p[i].attrs, TRUE)
      BY <1>2
    <3> QED BY <3>1, EntryID
  <2>3. UniqueIDs(n) <=> \A i, j \in 1..c : p[i].pathID = p[j].pathID => i = j
    BY UniqueIDsOf DEF c, p
  <2>4. UniqueIDs(m) <=> \A i, j \in 1..c :
                           allPaths(m)[i].pathID = allPaths(m)[j].pathID => i = j
    BY <1>2, UniqueIDsOf
  <2> QED BY <2>2, <2>3, <2>4
<1> QED BY <1>2, <1>4, <1>5 DEF m, c

-----------------------------------------------------------------------------
(* The best path *)

(* Whatever has attributes and a path ID, a path or a route, has a rank. *)
Ranked(e) == e.attrs \in Attr /\ e.pathID \in Nat

(* The order of preference is one, whoever writes it down.                   *)
LEMMA PreferenceOrder ==
  ASSUME NEW e, NEW f, NEW g, Ranked(e), Ranked(f), Ranked(g)
  PROVE  /\ e.pathID # f.pathID => Preferred(e, f) \/ Preferred(f, e)
         /\ ~(Preferred(e, f) /\ Preferred(f, e))
         /\ Preferred(e, f) /\ Preferred(f, g) => Preferred(e, g)
         /\ Displaces(e, f) <=> Preferred(e, f)
<1>1. \A x : Ranked(x) => Pref(x) \in Int /\ AsPathLen[x.attrs] \in Int /\ x.pathID \in Int
  BY PathAttrAssumption DEF Ranked, Pref
<1>2. /\ Pref(e) \in Int /\ AsPathLen[e.attrs] \in Int /\ e.pathID \in Int
      /\ Pref(f) \in Int /\ AsPathLen[f.attrs] \in Int /\ f.pathID \in Int
      /\ Pref(g) \in Int /\ AsPathLen[g.attrs] \in Int /\ g.pathID \in Int
  BY <1>1
<1>3. e.pathID # f.pathID => Preferred(e, f) \/ Preferred(f, e)
  BY ONLY <1>2 DEF Preferred
<1>4. ~(Preferred(e, f) /\ Preferred(f, e))
  BY ONLY <1>2 DEF Preferred
<1>5. Preferred(e, f) /\ Preferred(f, g) => Preferred(e, g)
  BY ONLY <1>2 DEF Preferred
<1>6. Displaces(e, f) <=> Preferred(e, f)
  BY ONLY <1>2 DEF Displaces, Preferred
<1> QED BY <1>3, <1>4, <1>5, <1>6

(* The pass of bestPathWithID over the slice. *)
BestOver(h, base, seq) ==
  [s \in SUBSET (DOMAIN seq) |->
     IF s = {} THEN base
     ELSE IF Preferred(seq[Max(s)], h[s \ {Max(s)}]) THEN seq[Max(s)] ELSE h[s \ {Max(s)}]]

(* There is such a pass. *)
LEMMA BestOverExists ==
  ASSUME NEW T, NEW base \in T, NEW seq \in Seq(T)
  PROVE  \E h : h = BestOver(h, base, seq)
<1> DEFINE N == Len(seq)
           step == [i \in 1..N |-> [b \in T |-> IF Preferred(seq[i], b) THEN seq[i] ELSE b]]
<1>1. N \in Nat /\ DOMAIN seq = 1..N /\ \A i \in 1..N : seq[i] \in T
  BY LenProperties, ElementOfSeq
<1>2. step \in [1..N -> [T -> T]]
  BY <1>1
<1> HIDE DEF step
<1>3. PICK g : Folds(g, N, T, base, step)
  <2> HIDE DEF N
  <2> QED BY <1>1, <1>2, FoldExists
<1>4. \A s \in SUBSET (1..N) :
        g[s] = IF s = {} THEN base
               ELSE IF Preferred(seq[Max(s)], g[s \ {Max(s)}]) THEN seq[Max(s)]
               ELSE g[s \ {Max(s)}]
  BY <1>3 DEF step, Folds
<1>5. g = [s \in SUBSET (1..N) |->
             IF s = {} THEN base
             ELSE IF Preferred(seq[Max(s)], g[s \ {Max(s)}]) THEN seq[Max(s)]
             ELSE g[s \ {Max(s)}]]
  BY <1>3, <1>4 DEF Folds
<1>6. g = BestOver(g, base, seq)
  BY <1>1, <1>5, Zenon DEF BestOver
<1> QED BY <1>6

(* bestPathWithID returns the path that is preferred to every other, wherever *)
(* in the node it is, and nothing if there is none (node.go).                 *)
THEOREM BestExact ==
  ASSUME NEW n \in Node, UniqueIDs(n)
  PROVE  IF Entries(n) = {} THEN bestPathWithID(n) = <<NoAttr, 0>>
         ELSE \E e \in Entries(n) :
                /\ bestPathWithID(n) = <<e.attrs, e.pathID>>
                /\ \A f \in Entries(n) \ {e} : Preferred(e, f)
<1>1. /\ pathsCount(n) \in Nat
      /\ Entries(n) = {allPaths(n)[i] : i \in 1..pathsCount(n)}
      /\ \A i \in 1..pathsCount(n) : allPaths(n)[i] \in PathEntry
  BY PathsOf, EntriesOf, ElementOfSeq
<1>2. CASE ~hasPath(n)
  <2>1. pathsCount(n) = 0
    BY <1>2 DEF pathsCount
  <2>2. Entries(n) = {}
    BY <1>1, <2>1
  <2> QED BY <1>2, <2>2 DEF bestPathWithID
<1>3. CASE hasPath(n)
  <2> DEFINE N == Len(n.extra)
             T == Entries(n)
             base == InlineEntry(n)
             fixed == CHOOSE h : h = BestOver(h, base, n.extra)
             better == [e \in T |-> [f \in T |-> Preferred(e, f)]]
  <2>1. /\ n.extra \in Seq(PathEntry) /\ N \in Nat /\ pathsCount(n) = 1 + N
        /\ base \in PathEntry /\ DOMAIN n.extra = 1..N
    BY <1>3, NodeShape, LenProperties
  <2>2. T = {base} \union {n.extra[i] : i \in 1..N}
    <3>1. \A i \in 1..(1 + N) : allPaths(n)[i] = IF i = 1 THEN base ELSE n.extra[i - 1]
      BY <2>1, PathsOf
    <3>2. T = {allPaths(n)[i] : i \in 1..(1 + N)}
      BY <1>1, <2>1
    <3>3. \A i \in 1..N : i + 1 \in 1..(1 + N) /\ i + 1 # 1 /\ (i + 1) - 1 = i
      BY <2>1
    <3>4. 1 \in 1..(1 + N) /\ \A i \in 1..(1 + N) : i = 1 \/ i - 1 \in 1..N
      BY <2>1
    <3> HIDE DEF N, base, T
    <3>5. ASSUME NEW e \in T
          PROVE  e \in {base} \union {n.extra[i] : i \in 1..N}
      BY <3>1, <3>2, <3>4
    <3>6. \A i \in 1..N : n.extra[i] = allPaths(n)[i + 1]
      BY <3>1, <3>3
    <3>7. \A i \in 1..N : n.extra[i] \in T
      BY <3>2, <3>3, <3>6
    <3>8. base \in T
      BY <3>1, <3>2, <3>4
    <3> QED BY <3>5, <3>7, <3>8
  <2>3. \A e \in T : Ranked(e)
    BY <1>1 DEF PathEntry, Ranked
  <2>4. \A e, f \in T : e.pathID = f.pathID => e = f
    BY <1>1, UniqueIDsOf
  <2>5. \E h : h = BestOver(h, base, n.extra)
    BY <2>1, BestOverExists
  <2>6. fixed = BestOver(fixed, base, n.extra)
    BY <2>5
  <2>7. bestPathWithID(n) = <<fixed[1..N].attrs, fixed[1..N].pathID>>
    BY <1>3, <2>1, Zenon DEF bestPathWithID, FoldLeft, MapThenFoldSet, BestOver, InlineEntry
  <2> HIDE DEF fixed, base, T
  <2>8. Ranks(better, T)
    <3>1. \A e \in T : ~better[e][e]
      BY <2>3, PreferenceOrder
    <3>2. \A e, f, g \in T : better[e][f] /\ better[f][g] => better[e][g]
      BY <2>3, PreferenceOrder
    <3>3. better \in [T -> [T -> BOOLEAN]]
      BY DEF Preferred
    <3> QED BY <3>1, <3>2, <3>3 DEF Ranks
  <2>9. fixed[1..0] = base
    <3>1. 1..0 = {} /\ {} \in SUBSET (DOMAIN n.extra)
      OBVIOUS
    <3> QED BY <2>6, <3>1 DEF BestOver
  <2>10. ASSUME NEW k \in 1..N, fixed[1..(k - 1)] \in T
         PROVE  fixed[1..k] = IF better[n.extra[k]][fixed[1..(k - 1)]] THEN n.extra[k]
                              ELSE fixed[1..(k - 1)]
    <3>1. /\ 1..k \in SUBSET (1..N) /\ 1..k # {}
          /\ Max(1..k) = k /\ (1..k) \ {Max(1..k)} = 1..(k - 1)
      BY <2>1, FirstPositions
    <3>2. n.extra[k] \in T
      BY <2>2
    <3> DEFINE b == fixed[1..(k - 1)]
    <3>3. fixed[1..k] = IF Preferred(n.extra[k], b) THEN n.extra[k] ELSE b
      BY <2>1, <2>6, <3>1 DEF BestOver
    <3> QED BY <2>10, <3>2, <3>3
  <2> DEFINE best == fixed[1..N]
  <2>11. best \in T /\ \A f \in T : ~better[f][best]
    <3>1. base \in T /\ \A i \in 1..N : n.extra[i] \in T
      BY <2>2
    <3> DEFINE seq == n.extra
    <3>2. \A k \in 1..N : fixed[1..(k - 1)] \in T =>
            fixed[1..k] = IF better[seq[k]][fixed[1..(k - 1)]] THEN seq[k]
                          ELSE fixed[1..(k - 1)]
      BY <2>10
    <3>3. base \in T /\ (\A i \in 1..N : seq[i] \in T) /\ N \in Nat
      BY <2>1, <3>1
    <3> HIDE DEF better, seq, N
    <3>4. Passes(fixed, N, T, base, seq, better)
      BY <2>9, <3>2, <3>3 DEF Passes
    <3>5. BestOf(fixed[1..N], Seen(N, base, seq), better)
      BY ONLY <2>8, <3>3, <3>4, OnePassChooses
    <3> QED BY <2>2, <3>5 DEF seq, Seen, BestOf
  <2>12. \A f \in T \ {best} : Preferred(best, f)
    <3>1. \A f \in T : ~Preferred(f, best)
      BY <2>11
    <3> HIDE DEF best
    <3> QED BY <2>3, <2>4, <2>11, <3>1, PreferenceOrder
  <2> QED BY <2>7, <2>11, <2>12 DEF T
<1> QED BY <1>2, <1>3

(* The pass of SelectBest over the routes after the first. *)
BetterOver(h, base, seq) ==
  [s \in SUBSET (DOMAIN seq) |->
     IF s = {} THEN base
     ELSE IF seq[Max(s)].attrs = NoAttr THEN h[s \ {Max(s)}]
     ELSE IF h[s \ {Max(s)}].attrs = NoAttr \/ Displaces(seq[Max(s)], h[s \ {Max(s)}])
       THEN seq[Max(s)]
     ELSE h[s \ {Max(s)}]]

(* A route takes the place of another. *)
Replaces(c, b) == c.attrs # NoAttr /\ (b.attrs = NoAttr \/ Displaces(c, b))

(* There is such a pass. *)
LEMMA BetterOverExists ==
  ASSUME NEW T, NEW base \in T, NEW seq \in Seq(T)
  PROVE  \E h : h = BetterOver(h, base, seq)
<1> DEFINE N == Len(seq)
           step == [i \in 1..N |-> [b \in T |-> IF Replaces(seq[i], b) THEN seq[i] ELSE b]]
<1>1. N \in Nat /\ DOMAIN seq = 1..N /\ \A i \in 1..N : seq[i] \in T
  BY LenProperties, ElementOfSeq
<1>2. step \in [1..N -> [T -> T]]
  BY <1>1
<1> HIDE DEF step
<1>3. PICK g : Folds(g, N, T, base, step)
  <2> HIDE DEF N
  <2> QED BY <1>1, <1>2, FoldExists
<1>4. \A s \in SUBSET (1..N) :
        g[s] = IF s = {} THEN base
               ELSE IF Replaces(seq[Max(s)], g[s \ {Max(s)}]) THEN seq[Max(s)]
               ELSE g[s \ {Max(s)}]
  BY <1>3 DEF step, Folds
<1>5. \A s \in SUBSET (1..N) :
        g[s] = IF s = {} THEN base
               ELSE IF seq[Max(s)].attrs = NoAttr THEN g[s \ {Max(s)}]
               ELSE IF g[s \ {Max(s)}].attrs = NoAttr \/ Displaces(seq[Max(s)], g[s \ {Max(s)}])
                 THEN seq[Max(s)]
               ELSE g[s \ {Max(s)}]
  BY <1>4 DEF Replaces
<1>6. g = [s \in SUBSET (1..N) |->
             IF s = {} THEN base
             ELSE IF seq[Max(s)].attrs = NoAttr THEN g[s \ {Max(s)}]
             ELSE IF g[s \ {Max(s)}].attrs = NoAttr \/ Displaces(seq[Max(s)], g[s \ {Max(s)}])
               THEN seq[Max(s)]
             ELSE g[s \ {Max(s)}]]
  BY <1>3, <1>5 DEF Folds
<1>7. g = BetterOver(g, base, seq)
  BY <1>1, <1>6, Zenon DEF BetterOver
<1> QED BY <1>7

(* SelectBest returns a route without attributes only if there is no other,  *)
(* and else one to which no route is preferred, in whatever order the routes *)
(* come (types.go).                                                          *)
THEOREM SelectExact ==
  ASSUME NEW S, NEW routes \in Seq(S), routes # <<>>,
         \A r \in ToSet(routes) : r.attrs = NoAttr \/ Ranked(r)
  PROVE  LET best == SelectBest(routes)
         IN  /\ best \in ToSet(routes)
             /\ \A r \in ToSet(routes) : r.attrs # NoAttr =>
                  best.attrs # NoAttr /\ ~Preferred(r, best)
<1> DEFINE base == Head(routes)
           seq == Tail(routes)
           N == Len(seq)
           T == ToSet(routes)
           fixed == CHOOSE h : h = BetterOver(h, base, seq)
           best == fixed[1..N]
           better == [c \in T |-> [b \in T |-> Replaces(c, b)]]
<1>1. /\ Len(routes) \in Nat /\ Len(routes) # 0 /\ DOMAIN routes = 1..Len(routes)
      /\ base = routes[1] /\ seq \in Seq(S) /\ Len(seq) = Len(routes) - 1
      /\ \A i \in 1..Len(seq) : seq[i] = routes[i + 1]
  BY LenProperties, EmptySeq, HeadTailProperties
<1>2. N \in Nat /\ Len(routes) = N + 1 /\ DOMAIN seq = 1..N
  BY <1>1, LenProperties
<1>3. T = {base} \union {seq[i] : i \in 1..N}
  <2>1. T = {routes[i] : i \in 1..(N + 1)}
    BY <1>1, <1>2 DEF ToSet
  <2>2. \A i \in 1..N : seq[i] = routes[i + 1] /\ i + 1 \in 1..(N + 1)
    BY <1>1, <1>2
  <2>3. 1 \in 1..(N + 1) /\ \A i \in 1..(N + 1) : i = 1 \/ (i - 1 \in 1..N /\ (i - 1) + 1 = i)
    BY <1>2
  <2> HIDE DEF T, N, seq, base
  <2>4. ASSUME NEW e \in T
        PROVE  e \in {base} \union {seq[i] : i \in 1..N}
    <3>1. PICK i \in 1..(N + 1) : e = routes[i]
      BY <2>1
    <3>2. CASE i = 1
      BY <1>1, <3>1, <3>2
    <3>3. CASE i # 1
      <4>1. i - 1 \in 1..N /\ seq[i - 1] = e
        BY <2>2, <2>3, <3>1, <3>3
      <4> QED BY <4>1
    <3> QED BY <3>2, <3>3
  <2>5. base \in T /\ \A i \in 1..N : seq[i] \in T
    BY <1>1, <2>1, <2>2, <2>3
  <2> QED BY <2>4, <2>5
<1>4. \E h : h = BetterOver(h, base, seq)
  <2>1. base \in S
    BY <1>1, ElementOfSeq
  <2> HIDE DEF base, seq
  <2> QED BY <1>1, <2>1, BetterOverExists
<1>5. fixed = BetterOver(fixed, base, seq)
  BY <1>4
<1>6. SelectBest(routes) = best
  BY <1>2, Zenon DEF SelectBest, FoldLeft, MapThenFoldSet, BetterOver
<1> HIDE DEF fixed, base, seq, T
<1>7. Ranks(better, T)
  <2>0. \A c \in T : c.attrs # NoAttr => Ranked(c)
    BY DEF T
  <2>1. \A c, b \in T : Replaces(c, b) \in BOOLEAN
    BY DEF Replaces
  <2>2. \A c, b \in T : Replaces(c, b) <=>
          c.attrs # NoAttr /\ (b.attrs = NoAttr \/ Preferred(c, b))
    BY <2>0, PreferenceOrder DEF Replaces
  <2>3. \A c \in T : ~Replaces(c, c)
    BY <2>0, <2>2, PreferenceOrder
  <2>4. \A c, b, a \in T : Replaces(c, b) /\ Replaces(b, a) => Replaces(c, a)
    BY <2>0, <2>2, PreferenceOrder
  <2> QED BY <2>1, <2>3, <2>4 DEF Ranks
<1>8. fixed[1..0] = base
  <2>1. 1..0 = {} /\ {} \in SUBSET (DOMAIN seq)
    OBVIOUS
  <2> QED BY <1>5, <2>1 DEF BetterOver
<1>9. ASSUME NEW k \in 1..N, fixed[1..(k - 1)] \in T
      PROVE  fixed[1..k] = IF better[seq[k]][fixed[1..(k - 1)]] THEN seq[k]
                           ELSE fixed[1..(k - 1)]
  <2>1. /\ 1..k \in SUBSET (1..N) /\ 1..k # {}
        /\ Max(1..k) = k /\ (1..k) \ {Max(1..k)} = 1..(k - 1)
    BY <1>2, FirstPositions
  <2>2. seq[k] \in T
    BY <1>3
  <2> DEFINE b == fixed[1..(k - 1)]
  <2>3. fixed[1..k] = IF seq[k].attrs = NoAttr THEN b
                      ELSE IF b.attrs = NoAttr \/ Displaces(seq[k], b) THEN seq[k] ELSE b
    BY <1>2, <1>5, <2>1 DEF BetterOver
  <2>4. fixed[1..k] = IF Replaces(seq[k], b) THEN seq[k] ELSE b
    BY <2>3 DEF Replaces
  <2> QED BY <1>9, <2>2, <2>4
<1>10. BestOf(best, Seen(N, base, seq), better)
  <2>1. base \in T /\ \A i \in 1..N : seq[i] \in T
    BY <1>3
  <2> HIDE DEF better, N
  <2>2. Passes(fixed, N, T, base, seq, better)
    BY <1>8, <1>9, <2>1 DEF Passes
  <2> QED BY <1>2, <1>7, <2>2, OnePassChooses
<1>11. best \in T /\ \A r \in T : ~Replaces(r, best)
  BY <1>3, <1>10 DEF Seen, BestOf
<1>12. ASSUME NEW r \in T, r.attrs # NoAttr
       PROVE  best.attrs # NoAttr /\ ~Preferred(r, best)
  <2>1. best.attrs # NoAttr
    BY <1>11, <1>12 DEF Replaces
  <2>2. Ranked(r) /\ Ranked(best)
    BY <1>11, <1>12, <2>1 DEF T
  <2> HIDE DEF best
  <2>3. Displaces(r, best) <=> Preferred(r, best)
    BY <2>2, PreferenceOrder
  <2> QED BY <1>11, <1>12, <2>1, <2>3 DEF Replaces
<1> QED BY <1>6, <1>11, <1>12 DEF T
=============================================================================
