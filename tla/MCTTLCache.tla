----------------------------- MODULE MCTTLCache -----------------------------
(* Small instances of TTLCache, with any client, and of SearchPath for TLC. *)
EXTENDS SearchPath, TLC
CONSTANTS k1, k2, k3, v1, v2

VARIABLE client

MCKeys == {k1, k2, k3}
MCValues == {v1, v2} \union Responses

Token(sign, field, val, rest) == [sign |-> sign, field |-> field, val |-> val, rest |-> rest]
MCTokens ==
  {Word("Cat"), Word("dog"), Word("how"), Token("-", "", "Cat", ""), Token("-", "", "dog", ""),
   Token("-", "", "dog", ".com"), Token("+", "", "dog", ""), Token("+", "", "Big Cat", ""),
   Token("", "site", "x.org", ""), Token("", "site", "Dog", ""), Token("-", "site", "x.org", ""),
   Token("", "lang", "en", ""), Token("-", "lang", "en", "glish"), Token("", "after", "2024-01-01", "")}
MCRaws == UNION {[1 .. n -> MCTokens] : n \in 0 .. 2}
MCDocs == [url : SUBSET {"x.org", "dog", "big cat"}, title : SUBSET {"dog", "cat", "site"}]

\* Two requests of one text, which is the raw query of one of them, and one with
\* its words in another order and the filter off.
MCRequests ==
  (k1 :> [raw |-> <<Word("Cat"), Word("dog")>>, neural |-> TRUE])
  @@ (k2 :> [raw |-> <<Word("cat"), Word("dog")>>, neural |-> TRUE])
  @@ (k3 :> [raw |-> <<Word("dog"), Token("-", "", "bird", ""), Word("cat")>>,
             neural |-> FALSE])
MCLower  == [w \in {"Cat", "Dog", "Big Cat"} |->
               IF w = "Cat" THEN "cat" ELSE IF w = "Dog" THEN "dog" ELSE "big cat"]
MCLemmas == [w \in {"cat", "dog"} |-> IF w = "cat" THEN <<"cat", "tom", "tom", "puss", "dog">>
                                      ELSE <<"dog", "hound", "tom", "cur", "pup">>]

\* The query processor on all of MCRaws: checked when TLC starts.
ASSUME HonouredHolds == Honoured

MCInit == PathInit /\ client \in {"any", "search"}
MCNext == /\ \/ client = "any" /\ Uses({v1, v2}) /\ UNCHANGED pathVars
             \/ client = "search" /\ PathNext
          /\ UNCHANGED client
MCSpec == MCInit /\ [][MCNext]_<<vars, pathVars, client>>
=============================================================================
