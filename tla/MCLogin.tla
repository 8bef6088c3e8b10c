------------------------------ MODULE MCLogin -------------------------------
(* Small instances of Login: two sessions of one account. *)
EXTENDS Login, TLC

MCAccount == [s \in Sids |-> "openid"]

Symmetric == Permutations(Sids)
=============================================================================
