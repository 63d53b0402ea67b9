--------------------------- MODULE MCPublication ---------------------------
(* Small instances of Publication.  The process slots are interchangeable. *)
EXTENDS Publication, TLC

ProcSymmetry == Permutations(Procs)
=============================================================================
