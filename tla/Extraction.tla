----------------------------- MODULE Extraction -----------------------------
(***************************************************************************)
(* What becomes of one fetched page before it may be indexed: the cascade  *)
(* of text extractors (content_extractor.py) and the quality score         *)
(* (quality_scorer.py).  A text is what the gates tell of it, numbers of   *)
(* words, sentences and so on.  Scores and signals are in thousandths,      *)
(* rounded down; link densities in ten-thousandths, to which the code too  *)
(* rounds them.                                                            *)
(***************************************************************************)
EXTENDS Integers, Sequences

CONSTANTS
  NoText,        \* an extractor found nothing
  Raises,        \* an extractor raised
  WordScore,     \* per number of words, the sigmoid centred at 300, in thousandths
  EnoughWords,   \* words at which the cascade stops
  MinWords, MaxLinkDensity, Threshold

\* distinct: words that differ; digits and uppers: per thousand characters;
\* boiler: phrases of boilerplate.
IsText(t) ==
  /\ DOMAIN t = {"words", "distinct", "sentences", "digits", "uppers", "boiler"}
  /\ t.words \in DOMAIN WordScore
  /\ t.distinct \in 0 .. t.words /\ t.sentences \in 0 .. t.words
  /\ t.digits \in 0 .. 1000 /\ t.uppers \in 0 .. 1000 /\ t.boiler \in Nat

IsPage(h) ==
  /\ DOMAIN h = {"traf", "read", "raw", "anchors", "meta"}
  /\ \A t \in {h.traf, h.read, h.raw} \ {NoText, Raises} : IsText(t)
  /\ h.anchors \in Nat /\ h.meta \in BOOLEAN

ExtractionAssumption ==
  /\ NoText # Raises
  /\ EnoughWords \in Nat \ {0} /\ MinWords \in Nat \ {0}
  /\ MaxLinkDensity \in 1 .. 10000 /\ Threshold \in 1 .. 1000
  /\ \A w \in DOMAIN WordScore : w \in Nat /\ WordScore[w] \in 0 .. 1000

-----------------------------------------------------------------------------
(* ContentExtractor.  A page is [traf, read, raw, anchors, meta]: what the   *)
(* three extractors make of it, the words in its links, and whether its      *)
(* metadata can be read.                                                     *)

AtMost(x, max) == IF x < max THEN x ELSE max
AtLeast(x, min) == IF x > min THEN x ELSE min

Long(t) == t \notin {NoText, Raises} /\ t.words >= EnoughWords

\* _extract_text: an exception in the second attempt is caught there, in the
\* others it ends the extraction.
ExtractText(h) ==
  IF Long(h.traf) \/ h.traf = Raises THEN h.traf
  ELSE IF Long(h.read) THEN h.read ELSE h.raw

\* Words in links per word of text, rounded.
LinkDensity(h, t) ==
  LET words == AtLeast(t.words, 1) IN (20000 * h.anchors + words) \div (2 * words)

Extract(h) ==
  LET t == ExtractText(h) IN
  IF t \in {NoText, Raises} THEN NoText
  ELSE IF t.words = 0 \/ ~h.meta THEN NoText ELSE t

-----------------------------------------------------------------------------
(* QualityScorer *)

\* Very short and very long sentences cost; avg is in thousandths of a word.
SentenceScore(avg) ==
  IF avg \in 6000 .. 50000 THEN 1000
  ELSE IF avg < 6000 THEN avg \div 6 ELSE AtLeast(0, 1000 - (avg - 50000) \div 50)

\* The soft signals with their weights, in tenths.
Signals(t, density) ==
  LET avg == (1000 * t.words) \div AtLeast(t.sentences, 1) IN
  <<<<WordScore[t.words], 20>>,
    <<AtMost((2000 * t.distinct) \div t.words, 1000), 15>>,
    <<1000 - AtMost((1000 * density) \div MaxLinkDensity, 1000), 15>>,
    <<SentenceScore(avg), 10>>,
    <<1000 - AtMost(5 * t.digits, 1000), 5>>,
    <<1000 - AtMost(3 * t.uppers, 1000), 5>>,
    <<AtLeast(0, 1000 - 100 * t.boiler), 8>>>>

\* Mutation: a page of links only is scored by its other signals.
ScoreAnyLinks(t, density) ==
  IF t.words < MinWords THEN 0
  ELSE LET s == Signals(t, density)
           total[i \in 0 .. Len(s)] == IF i = 0 THEN 0 ELSE total[i - 1] + s[i][1] * s[i][2]
       IN total[Len(s)] \div 78

\* The hard gates, then the weighted average.
Score(t, density) ==
  IF t.words < MinWords \/ density > MaxLinkDensity THEN 0
  ELSE LET s == Signals(t, density)
           total[i \in 0 .. Len(s)] == IF i = 0 THEN 0 ELSE total[i - 1] + s[i][1] * s[i][2]
       IN total[Len(s)] \div 78

Good(h) == Score(Extract(h), LinkDensity(h, Extract(h))) >= Threshold

-----------------------------------------------------------------------------
(* What the gates promise of the pages in a set *)

\* g is h with fewer words in links.
FewerLinks(g, h) == g.anchors <= h.anchors /\ g = [h EXCEPT !.anchors = g.anchors]

\* A page without content is one of which no attempt that counts found a word;
\* a score is between 0 and 1; what passes is long enough, by the text that is
\* indexed, and not made of links; and a page that passes does so with fewer
\* links, too.
GatesAreSound(pages) ==
  \A h \in pages :
    LET t == Extract(h) IN
    IF t = NoText
    THEN ~h.meta \/ Raises \in {h.traf, h.raw} \/ h.raw = NoText \/ h.raw.words = 0
    ELSE /\ t \in {h.traf, h.read, h.raw} /\ t.words > 0
         /\ \A u \in {h.traf, h.read} : Long(u) => t.words >= EnoughWords
         /\ Score(t, LinkDensity(h, t)) \in 0 .. 1000
         /\ Good(h) => /\ t.words >= MinWords
                       /\ 20000 * h.anchors < (2 * MaxLinkDensity + 1) * t.words
                       /\ \A g \in pages : FewerLinks(g, h) => Good(g)
=============================================================================
