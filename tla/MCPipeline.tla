----------------------------- MODULE MCPipeline -----------------------------
(* A small instance of Pipeline for TLC. *)
EXTENDS Pipeline

CONSTANTS p1, p2, p3, p4, x

MCPages == {p1, p2, p3, p4}
MCUrls  == MCPages \union {x}

\* 1 / (1 + exp(-0.01 (words - 300))), in thousandths.
MCWordScore ==
  (0 :> 47) @@ (49 :> 75) @@ (50 :> 76) @@ (79 :> 99) @@ (80 :> 100) @@ (100 :> 119)
  @@ (300 :> 500)

Text(words, distinct, sentences, boiler) ==
  [words |-> words, distinct |-> distinct, sentences |-> sentences,
   digits |-> 50, uppers |-> 100, boiler |-> boiler]
Web(traf, read, raw, anchors, meta) ==
  [traf |-> traf, read |-> read, raw |-> raw, anchors |-> anchors, meta |-> meta]

Article == Text(300, 150, 20, 0)
Note    == Text(80, 60, 5, 1)
Teaser  == Text(49, 40, 3, 0)
Blank   == Text(0, 0, 0, 0)

\* Found by the first and by the second attempt; too short; nothing.
MCHtml ==
  (p1 :> Web(Article, NoText, Raises, 30, TRUE)) @@ (p2 :> Web(Teaser, Note, Article, 10, TRUE))
  @@ (p3 :> Web(NoText, Raises, Teaser, 0, TRUE)) @@ (p4 :> Web(NoText, NoText, Blank, 3, TRUE))

\* A double link, a cycle, a page without links and one that is not crawled.
MCOutlinks ==
  (p1 :> <<p2, x, p2>>) @@ (p2 :> <<p1, p3>>) @@ (p3 :> <<>>) @@ (p4 :> <<p1>>)

ProbeTexts ==
  {Text(w, d, s, b) : w \in {50, 79, 80, 300}, d \in {1, 40}, s \in {1, 2, 50}, b \in {0, 12}}
  \union {Teaser, Blank, NoText, Raises}
ProbeRaw == {Note, Blank, NoText, Raises}
MCProbes ==
  {Web(t, NoText, r, a, m) : t \in ProbeTexts, r \in ProbeRaw, a \in {0, 32, 33, 120, 121}, m \in BOOLEAN}
  \union {Web(Teaser, t, r, a, TRUE) : t \in ProbeTexts, r \in ProbeRaw, a \in {0, 32, 33, 120, 121}}
=============================================================================
