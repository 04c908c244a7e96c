--------------------------- MODULE MCMemoryStore ---------------------------
(* TLC's instance of MemoryStore: contents are interchangeable. *)
EXTENDS MemoryStore, TLC

TextSymmetry == Permutations(Texts)
=============================================================================
