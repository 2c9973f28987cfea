----------------------------- MODULE MCCrawler ------------------------------
(* Small instances of Crawler for TLC. *)
EXTENDS Crawler

CONSTANTS a, b, c, d

MCPages == {a, b, c, d}

\* a links to b and c, which both link to d, to each other and back; b's links
\* name c twice.
Diamond == (a :> <<b, c, a>>) @@ (b :> <<c, d, c>>) @@ (c :> <<d, b>>) @@ (d :> <<a>>)
\* One page and one link.
Chain   == (a :> <<b>>) @@ (b :> <<>>) @@ (c :> <<>>) @@ (d :> <<>>)

SeedA  == <<a>>
SeedAC == <<a, c>>
NoBad  == {}
BadB   == {b}
=============================================================================
