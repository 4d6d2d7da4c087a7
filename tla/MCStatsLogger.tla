---------------------------- MODULE MCStatsLogger ----------------------------
(* Constants for model checking StatsLogger: one value of 3 bytes. *)
EXTENDS MCRibReaders, StatsLogger

CONSTANT r1

ThreeBytes == [a \in Attr |-> 3]
AllOfR1 == [g \in Logger |-> r1]
=============================================================================
