----------------------------- MODULE MCDocIndex -----------------------------
(* Small instances of DocIndex for TLC. *)
EXTENDS DocIndex

CONSTANTS u1, u2, t1, t2, t3, j1, j2

MCUrls  == {u1, u2}
\* t1 ~ t2 and t2 ~ t3, but t1 and t3 differ: near-duplicity is not transitive.
MCTexts == {t1, t2, t3}
MCNear  == {<<t, t>> : t \in MCTexts} \union {<<t1, t2>>, <<t2, t1>>, <<t2, t3>>, <<t3, t2>>}
MCJobs  == {j1, j2}
OneJob  == {j1}

AllTypes == {"hnsw", "ivf"}
Hnsw     == {"hnsw"}
Ivf      == {"ivf"}

OnlyWhenUp == {"up"}
Anywhere   == Phases \ {"down"}

\* Jobs are alike, and so are URLs; t1 and t3 are each near t2 only.
Alike == Permutations(MCJobs) \union Permutations(MCUrls)
         \union {(t1 :> t3) @@ (t2 :> t2) @@ (t3 :> t1)}

\* Bound: on files of two saves a process starts, searches, deletes, stops and is
\* killed, but runs no job.
Mixed  == disk.mixed => \A j \in Jobs : job[j] = "idle"
MCNext == Next /\ Mixed'
MCSpec == Init /\ [][MCNext]_vars
=============================================================================
