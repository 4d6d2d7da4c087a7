---------------------------- MODULE MCRibReaders ----------------------------
(* Constants for model checking RibReaders. *)
EXTENDS MCSharedRibs, RibReaders

ReaderSymmetry == Symmetry \union Permutations(Query)
=============================================================================
