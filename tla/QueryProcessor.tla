--------------------------- MODULE QueryProcessor ---------------------------
(***************************************************************************)
(* search/query_processor.py, and the filters that its operators become in *)
(* the retriever.  A raw query is a sequence of tokens as the patterns     *)
(* take them apart: a sign ("-", "+" or none), a field ("site", "lang",    *)
(* ... or none), the value that the pattern matches, and what the token    *)
(* has after it.  A value that no pattern matches is part of a word.       *)
(***************************************************************************)
EXTENDS Lists

CONSTANTS
  Lower,          \* the lower-case form of words that have capitals
  Lemmas,         \* the names WordNet has for a word, those of one synset after
                  \* those of another
  MaxExpansion,
  NavSignals, TransSignals, QuestionStarts

Fields == {"site", "filetype", "lang", "after", "before"}
QueryTokens == [sign : {"", "-", "+"}, field : Fields \union {""},
                val : STRING \ {""}, rest : STRING]

ASSUME QueryAssumption ==
  /\ MaxExpansion \in Nat
  /\ Lower \in [DOMAIN Lower -> STRING]
  /\ Lemmas \in [DOMAIN Lemmas -> Seq(STRING)]

Lowered(w) == IF w \in DOMAIN Lower THEN Lower[w] ELSE w

-----------------------------------------------------------------------------
(* Operators *)

First(raw, f) ==
  LET those == {i \in DOMAIN raw : raw[i].field = f} IN
  {raw[i].val : i \in {j \in those : \A k \in those : j <= k}}

\* What has the sign: a word, or the name of a field before its colon.
Signed(raw, sign) ==
  {IF t.field = "" THEN t.val ELSE t.field : t \in {u \in ToSet(raw) : u.sign = sign}}

\* Of a field the first match counts, of a sign every one.
ParseOperators(raw) ==
  [field |-> [f \in Fields |-> First(raw, f)],
   exclude_terms |-> Signed(raw, "-"), must_include |-> Signed(raw, "+")]

\* What stays of a token when the fields have gone, then "+" with its word, then
\* "-" with its: of a sign before a field, the sign.
Rest(t) == CASE t.field = "" /\ t.sign = "" -> t.val
             [] t.field = "" /\ t.sign # "" -> t.rest
             [] t.field # "" /\ t.rest = "" -> t.sign
             [] t.field # "" /\ t.rest # "" -> IF t.sign = "" THEN t.rest ELSE ""
StripOperators(raw) == Only([i \in DOMAIN raw |-> Rest(raw[i])], STRING \ {""})

-----------------------------------------------------------------------------
(* Expansion and intent *)

\* The names for one token that are new, MaxExpansion at most.
Names(token, taken) ==
  LET names == IF token \in DOMAIN Lemmas THEN Lemmas[token] ELSE <<>>
      added[i \in 0 .. Len(names)] ==
        IF i = 0 THEN <<>>
        ELSE IF \/ Len(added[i - 1]) >= MaxExpansion
                \/ names[i] \in taken \union {token} \union ToSet(added[i - 1])
        THEN added[i - 1] ELSE Append(added[i - 1], names[i])
  IN added[Len(names)]

Expand(tokens) ==
  LET extras[i \in 0 .. Len(tokens)] ==
        IF i = 0 THEN <<>>
        ELSE extras[i - 1] \o Names(tokens[i], ToSet(tokens) \union ToSet(extras[i - 1]))
  IN tokens \o extras[Len(tokens)]

DetectIntent(tokens) ==
  IF ToSet(tokens) \intersect NavSignals # {} THEN "navigational"
  ELSE IF ToSet(tokens) \intersect TransSignals # {} THEN "transactional" ELSE "informational"

Process(raw) ==
  LET clean == StripOperators(raw)
      norm  == [i \in DOMAIN clean |-> Lowered(clean[i])]
  IN [operators |-> ParseOperators(raw), normalised |-> norm, expanded |-> Expand(norm),
      intent |-> DetectIntent(norm),
      is_question |-> norm # <<>> /\ Head(norm) \in QuestionStarts]

\* _apply_filters for a document of which url and title are the terms that
\* occur in its lower-case URL and title; site keeps its capitals.
Passes(ops, doc) ==
  /\ ops.field["site"] \subseteq doc.url
  /\ \A t \in ops.exclude_terms : Lowered(t) \notin doc.url \union doc.title
  /\ \A t \in ops.must_include : Lowered(t) \in doc.url \union doc.title

-----------------------------------------------------------------------------
(* What users of the operators rely on *)

\* Either a word, or one operator and nothing else.
Plain(t) == /\ (t.sign = "" \/ t.field = "") /\ t.rest = ""

\* Word for word what the user asked of a document.
Asked(raw, doc) ==
  \A i \in DOMAIN raw : LET t == raw[i]
                            v == Lowered(t.val)
                        IN
    /\ t.sign = "-" => v \notin doc.url /\ v \notin doc.title
    /\ t.sign = "+" => v \in doc.url \/ v \in doc.title
    /\ t.field = "site" /\ (\A j \in 1 .. i - 1 : raw[j].field # "site") => t.val \in doc.url

\* For queries of words and whole operators: the models get the words, all of
\* them and no operator; a document passes when it is what was asked for, and
\* one more operator never lets in another.  Synonyms come after the words,
\* each once, a few for each word, and none that is a word of the query.
QueriesAreHonoured(tokens, raws, docs) ==
  \A raw \in {r \in raws : \A i \in DOMAIN r : Plain(r[i])} :
    LET pq     == Process(raw)
        words  == Only(raw, {t \in tokens : t.sign = "" /\ t.field = ""})
        extras == SubSeq(pq.expanded, Len(pq.normalised) + 1, Len(pq.expanded))
    IN
    /\ pq.normalised = [i \in DOMAIN words |-> Lowered(words[i].val)]
    /\ \A doc \in docs :
         /\ Passes(pq.operators, doc) <=> Asked(raw, doc)
         /\ \A t \in tokens :
              Passes(Process(Append(raw, t)).operators, doc) => Passes(pq.operators, doc)
    /\ IsPrefix(pq.normalised, pq.expanded)
    /\ IsInjective(extras) /\ Len(extras) <= MaxExpansion * Len(pq.normalised)
    /\ ToSet(extras) \intersect ToSet(pq.normalised) = {}
=============================================================================
