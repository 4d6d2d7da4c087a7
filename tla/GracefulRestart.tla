--------------------------- MODULE GracefulRestart ---------------------------
(***************************************************************************)
(* RibTrie with a history of the restart of the peer that feeds it: which  *)
(* paths were announced since the last MarkAllStale, and how many paths a  *)
(* prefix had then.  The history only watches: every step is a step of     *)
(* RibTrie.                                                                *)
(***************************************************************************)
EXTENDS RibTrie

VARIABLES
  fresh,    \* (prefix, path ID) announced since the mark, not withdrawn since
  atMark    \* prefix -> its paths when it was marked

grVars == <<vars, fresh, atMark>>

PathsNow == [n \in NodeId |-> IF n \in DOMAIN trie THEN pathsCount(trie[n]) ELSE 0]

GRInit == Init /\ fresh = {} /\ atMark = PathsNow

GRInsert ==
  \E o \in Octet, bits \in Bits(Depth), mask \in MinMask .. MaxMask,
     id \in PathID, a \in Attr :
    /\ insertUnlocked(o, bits, mask, id, a)
    /\ fresh' = fresh \union {<<Anc(o, bits, mask - MinMask), id>>}
    /\ UNCHANGED atMark

GRDelete ==
  \E o \in Octet, bits \in Bits(Depth), mask \in MinMask .. MaxMask,
     id \in PathID :
    /\ deleteUnlocked(o, bits, mask, id)
    /\ fresh' = fresh \ {<<Anc(o, bits, mask - MinMask), id>>}
    /\ UNCHANGED atMark

GRMark == MarkAllStale /\ fresh' = {} /\ atMark' = PathsNow

GRSweep ==
  /\ DeleteStaleRoutes
  /\ atMark' = [n \in NodeId |-> 0]
  /\ UNCHANGED fresh

GRReset == Reset /\ fresh' = {} /\ atMark' = [n \in NodeId |-> 0]

GRNext == GRInsert \/ GRDelete \/ GRMark \/ GRSweep \/ GRReset

GRSpec == GRInit /\ [][GRNext]_grVars

-----------------------------------------------------------------------------
(* The paths of the trie with the prefix they belong to. *)
Held == UNION {{<<n, e>> : e \in ToSet(allPaths(trie[n]))} : n \in DOMAIN trie}

(* A path is fresh exactly if the peer has announced it since the mark: no   *)
(* flag survives a reannouncement, none is lost when paths move between the  *)
(* inline slot and the slice, and a reused slot is not stale (node.go).      *)
FreshIffAnnounced ==
  {<<h[1], h[2].pathID>> : h \in {h \in Held : ~h[2].stale}} = fresh

(* "This prevents path count doubling during Graceful Restart resync if the  *)
(* peer uses different PathIDs upon reconnect" (setPath, node.go): between   *)
(* the mark and the sweep a prefix never has more paths than it had at the   *)
(* mark, unless the peer has announced that many anew.                       *)
NoDoubling ==
  \A n \in DOMAIN trie :
    \/ pathsCount(trie[n]) <= atMark[n]
    \/ pathsCount(trie[n]) = Cardinality({id \in PathID : <<n, id>> \in fresh})

(* A sweep removes every stale path and leaves every other one as it was,    *)
(* however the loop's deletions shift the paths of a node about              *)
(* (deleteStaleFromNode).                                                    *)
SweepExact ==
  [][DeleteStaleRoutes => Held' = {h \in Held : ~h[2].stale}]_grVars
=============================================================================
