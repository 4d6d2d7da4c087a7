------------------------- MODULE MCGracefulRestart -------------------------
(* Constants for model checking GracefulRestart, as in MCRibTrie. *)
EXTENDS GracefulRestart

CONSTANTS a1, a2, a3

(* The first has the default preference and wins against the second by its *)
(* length; the third wins against both by its preference.                  *)
ThreeAttrs == {a1, a2, a3}
MCLocalPref == [a \in Attr |-> IF a = a1 THEN 0 ELSE IF a = a2 THEN 100 ELSE 101]
MCAsPathLen == [a \in Attr |-> IF a = a1 THEN 1 ELSE IF a = a2 THEN 2 ELSE 3]
OneOctet == {11}
=============================================================================
