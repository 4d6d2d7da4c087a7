------------------------------- MODULE RibSpec -------------------------------
(***************************************************************************)
(* What a set of RIBs promises, with no attribute table, no locks and no   *)
(* threads: each RIB is a map from (prefix, path ID) to the attribute      *)
(* value of a route, with a stale flag on some of its routes, and every    *)
(* write happens at one instant and touches one RIB (the exported writing  *)
(* methods of IPv4Rib and IPv6Rib; one item of a batch is one write).      *)
(***************************************************************************)
CONSTANTS Rib, Prefix, PathID, Attr,
          NoRoute   \* not a value: no route at this location

Loc == Prefix \X PathID

VARIABLES
  routes,   \* RIB -> (prefix, path ID) -> attribute value, or NoRoute
  marked    \* RIB -> the routes flagged stale

specVars == <<routes, marked>>

Present(r) == {l \in Loc : routes[r][l] # NoRoute}

SpecInit ==
  /\ routes = [r \in Rib |-> [l \in Loc |-> NoRoute]]
  /\ marked = [r \in Rib |-> {}]

(* Remove the routes gone, then announce add (a function on a few locations). *)
Write(r, gone, add) ==
  /\ routes' = [routes EXCEPT ![r] =
       [l \in Loc |-> IF l \in DOMAIN add THEN add[l]
                      ELSE IF l \in gone THEN NoRoute ELSE @[l]]]
  /\ marked' = [marked EXCEPT ![r] = @ \ (gone \union DOMAIN add)]

(* A new path ID takes the place of one stale path of its prefix, if any:  *)
(* a peer that renumbers its paths after a restart does not double them.   *)
Insert(r, l, a) ==
  LET candidates == {m \in marked[r] : m[1] = l[1]}
      reuse == l \notin Present(r) /\ candidates # {}
  IN \E m \in (IF reuse THEN candidates ELSE {l}) :
       Write(r, {m}, [x \in {l} |-> a])

Delete(r, l) == l \in Present(r) /\ Write(r, {l}, [x \in {} |-> NoRoute])

MarkAllStale(r) ==
  /\ marked' = [marked EXCEPT ![r] = Present(r)]
  /\ UNCHANGED routes

DeleteStaleRoutes(r) == Write(r, marked[r], [x \in {} |-> NoRoute])

Reset(r) == Write(r, Loc, [x \in {} |-> NoRoute])

SpecNext ==
  \E r \in Rib :
    \/ \E l \in Loc : (\E a \in Attr : Insert(r, l, a)) \/ Delete(r, l)
    \/ MarkAllStale(r)
    \/ DeleteStaleRoutes(r)
    \/ Reset(r)

AtomicRibs == SpecInit /\ [][SpecNext]_specVars
=============================================================================
