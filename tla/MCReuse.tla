------------------------------ MODULE MCReuse ------------------------------
(* Small instances of Reuse for TLC: the calls are interchangeable.         *)
EXTENDS Reuse, TLC

CallSymmetry == Permutations(Calls)
=============================================================================
