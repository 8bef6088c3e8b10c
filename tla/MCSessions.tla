----------------------------- MODULE MCSessions -----------------------------
(* A small instance of Sessions. *)
EXTENDS Sessions, TLC

Symmetric == Permutations(Conns)
=============================================================================
