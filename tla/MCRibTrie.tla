----------------------------- MODULE MCRibTrie -----------------------------
(* Constants for model checking RibTrie: two attribute values, the first   *)
(* with the default local preference and a longer path, and the octets at  *)
(* the edges of what each family accepts.                                  *)
EXTENDS RibTrie

CONSTANTS a1, a2

OneAttr == {a1}
TwoAttrs == {a1, a2}
MCLocalPref == [a \in Attr |-> IF a = a1 THEN 0 ELSE 100]
MCAsPathLen == [a \in Attr |-> IF a = a1 THEN 2 ELSE 1]
V4Octets == {10, 11, 223, 224}
V6Octets == {31, 32, 63, 64}
OneOctet == {11}
=============================================================================
