------------------------------- MODULE MCLink -------------------------------
(* A small instance of Link: the link to gatesrv and the link to dbsrv. *)
EXTENDS Link, TLC

CONSTANTS gate, db, b1, b2, b3

MCBufSize == (b1 :> 6) @@ (b2 :> 6) @@ (b3 :> 12)
MCRecvSize == (gate :> 6) @@ (db :> 8)
=============================================================================
