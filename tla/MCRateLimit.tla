---------------------------- MODULE MCRateLimit -----------------------------
(* A small instance of Gateway for TLC: one accepted key and one that is not, *)
(* a path with a parameter, its route and an exempt path.                     *)
EXTENDS Gateway, TLC
CONSTANTS k1, k2, status1, status, health
MCKeys == {k1, k2}
MCRoute == (status1 :> status) @@ (health :> health)
=============================================================================
