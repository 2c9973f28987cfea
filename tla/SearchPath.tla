----------------------------- MODULE SearchPath ------------------------------
(***************************************************************************)
(* Two caches on the way of a search: the responses by request (TTLCache)  *)
(* and, behind a miss, the embedder's vectors by text, oldest out first.   *)
(* A search looks up the normalised text and, if it has candidates and the *)
(* neural filter is on, the raw query after it; either may push the other  *)
(* out, and whatever comes after a lookup may raise.  A search runs        *)
(* without an await: only the clock comes between its lookup and its end.  *)
(***************************************************************************)
EXTENDS TTLCache, QueryProcessor

CONSTANTS
  Requests,        \* per cache key, the raw query and whether the neural filter is on
  CacheSize,       \* of the embedder; 0 turns its cache off
  Tokens, Raws, Docs    \* what the query processor is checked on

VARIABLES
  vectors,     \* _query_cache: entries [key, vector], in the order of their making
  busy         \* the request that is being answered, or None

pathVars == <<vectors, busy>>

Plans == [k \in Keys |-> Process(Requests[k].raw)]

\* The texts that a request has encoded: the normalised words, and the raw query
\* as it came; the raw query of one request may be the words of another.
Word(w) == [sign |-> "", field |-> "", val |-> w, rest |-> ""]
Text(k) == [i \in DOMAIN Plans[k].normalised |-> Word(Plans[k].normalised[i])]
RawText(k) == Requests[k].raw
Encodable == {Text(k) : k \in Keys} \union {RawText(k) : k \in Keys}

\* What the model makes of a text, and a response to request k from the vectors
\* of its retrieval and its neural filter.
Encoded(text) == [encoding_of |-> text]
Response(k, vector, filter) == [plan |-> Plans[k], vector |-> vector, filter |-> filter]
Responses ==
  LET made == {Encoded(t) : t \in Encodable} IN
  {Response(k, v, f) : k \in Keys, v \in made, f \in made \union {None}}

ASSUME PathAssumption ==
  /\ Tokens \subseteq QueryTokens /\ Raws \subseteq Seq(Tokens)
  /\ Requests \in [Keys -> [raw : Seq(QueryTokens), neural : BOOLEAN]]
  /\ CacheSize \in Int
  /\ Responses \subseteq Values /\ None \notin Keys

PathInit == Init /\ vectors = <<>> /\ busy = None

\* A response that is there is sent; without one the search goes on.
Ask(k) ==
  /\ busy = None
  /\ Get(k) /\ busy' = (IF ret' = None THEN k ELSE None)
  /\ UNCHANGED vectors

\* Mutation: capitals are lost, and a raw query passes for its words.
KeyOfLowered(text) == [i \in DOMAIN text |-> Lowered(text[i].val)]

\* md5: one key for each text.
KeyOf(text) == <<"md5", text>>

Found(vs, text) == {i \in DOMAIN vs : vs[i].key = KeyOf(text)}
Cached(vs, text) == CacheSize > 0 /\ Found(vs, text) # {}

\* A full cache loses its oldest vector before the next text is encoded.
Room(vs) == IF CacheSize > 0 /\ Len(vs) >= CacheSize THEN Tail(vs) ELSE vs

\* _cached_query: the vector it gives, and the vectors it leaves behind.
VectorOf(vs, text) == IF Cached(vs, text) THEN vs[CHOOSE i \in Found(vs, text) : TRUE].vector
                      ELSE Encoded(text)
After(vs, text) ==
  IF Cached(vs, text) \/ CacheSize <= 0 THEN vs
  ELSE Append(Room(vs), [key |-> KeyOf(text), vector |-> Encoded(text)])

\* The vectors after the retrieval's lookup, and after the neural filter's.
Retrieved(k) == After(vectors, Text(k))
Filtered(k)  == After(Retrieved(k), RawText(k))

\* The response is cached and sent: without candidates, or with the neural filter
\* off, the raw query is not encoded.
Answer(k) ==
  /\ busy = k /\ busy' = None
  /\ \/ /\ vectors' = Retrieved(k)
        /\ Set(k, Response(k, VectorOf(vectors, Text(k)), None))
     \/ /\ Requests[k].neural
        /\ vectors' = Filtered(k)
        /\ Set(k, Response(k, VectorOf(vectors, Text(k)), VectorOf(Retrieved(k), RawText(k))))

\* The model raises on a text that is not cached: no response, the room stays
\* made, and the vector of the first text stays when it raises on the second.
EncodeFails(k) ==
  /\ busy = k /\ busy' = None
  /\ \/ ~Cached(vectors, Text(k)) /\ vectors' = Room(vectors)
     \/ /\ Requests[k].neural /\ ~Cached(Retrieved(k), RawText(k))
        /\ vectors' = Room(Retrieved(k))
  /\ UNCHANGED vars

\* Something else raises, before the first lookup, after it (the vector search,
\* the reranker) or after the second (the encoding of the passages).
SearchFails(k) ==
  /\ busy = k /\ busy' = None
  /\ vectors' \in {vectors, Retrieved(k)}
                  \union (IF Requests[k].neural THEN {Filtered(k)} ELSE {})
  /\ UNCHANGED vars

\* DELETE, or a batch that is done.
Invalidate == busy = None /\ Clear /\ UNCHANGED pathVars

Time == Tick /\ UNCHANGED pathVars

PathNext == \/ Time \/ Invalidate
            \/ \E k \in Keys : Ask(k) \/ Answer(k) \/ EncodeFails(k) \/ SearchFails(k)

PathSpec == PathInit /\ [][PathNext]_<<vars, pathVars>>

-----------------------------------------------------------------------------
(* Correctness *)

\* Operators and synonyms do what they are for, on every query in Raws.
Honoured == QueriesAreHonoured(Tokens, Raws, Docs)

\* Whatever the two caches dropped, kept or lost in a failure: a response in the
\* cache was made for its own request, retrieved with the vector of that request's
\* own words and filtered, if at all, with that of its own raw query, though
\* searches share vectors and push them out, their own too; the embedder keeps no
\* more vectors than it may and none twice.
AnswersAreRight ==
  /\ \A i \in {n \in DOMAIN data : data[n].value \in Responses} :
       LET k == data[i].key
           r == data[i].value
       IN /\ r = Response(k, Encoded(Text(k)), r.filter)
          /\ r.filter \in {None, Encoded(RawText(k))}
  /\ CacheSize > 0 => Len(vectors) <= CacheSize
  /\ \A i, j \in DOMAIN vectors : vectors[i].key = vectors[j].key => i = j
=============================================================================
