----------------------------- MODULE IndexStore -----------------------------
(***************************************************************************)
(* What one search leg promises its caller: a growing sequence of          *)
(* documents addressed by position, tombstones that only grow, and a       *)
(* snapshot that a restart returns to.  DocIndex implements this twice,    *)
(* once for the lexical leg and once for the dense leg.                    *)
(***************************************************************************)
EXTENDS Integers, Sequences

VARIABLES docs,     \* the documents held in memory, oldest first
          tombs,    \* the positions (0-based) that searches hide
          saved,    \* what the next start will load
          up        \* is the process running?

vars == <<docs, tombs, saved, up>>

Init == /\ docs = <<>>
        /\ tombs = {}
        /\ saved = [docs |-> <<>>, tombs |-> {}]
        /\ up = FALSE

\* New documents go to the end: no document moves or changes.
Extend ==
  /\ up /\ up'
  /\ Len(docs') > Len(docs)
  /\ SubSeq(docs', 1, Len(docs)) = docs
  /\ UNCHANGED <<tombs, saved>>

\* One document is hidden.
Hide ==
  /\ up /\ up'
  /\ \E i \in 0 .. Len(docs) - 1 : tombs' = tombs \union {i}
  /\ UNCHANGED <<docs, saved>>

\* The snapshot becomes the present contents, all of it at once.
Save ==
  /\ up /\ up'
  /\ saved' = [docs |-> docs, tombs |-> tombs]
  /\ UNCHANGED <<docs, tombs>>

\* The process ends, with or without a Save before it.
Stop ==
  /\ up /\ ~up'
  /\ docs' = <<>> /\ tombs' = {}
  /\ UNCHANGED saved

\* A start loads the snapshot.
Start ==
  /\ ~up /\ up'
  /\ docs' = saved.docs /\ tombs' = saved.tombs
  /\ UNCHANGED saved

Next == Extend \/ Hide \/ Save \/ Stop \/ Start

Spec == Init /\ [][Next]_vars
=============================================================================
