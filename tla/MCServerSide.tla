---------------------------- MODULE MCServerSide ----------------------------
(* Meet calls are interchangeable in ServerSide. *)
EXTENDS ServerSide, TLC

Symmetry == Permutations(Calls)
=============================================================================
