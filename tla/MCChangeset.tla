----------------------------- MODULE MCChangeset -----------------------------
EXTENDS Changeset, TLC

CONSTANT Extra   \* inode numbers that no file has at first

AllInodes == Files \cup Extra

\* The second batch overlaps the first and leaves a target as it was planned
\* first, or takes back what the first did to it.
TwoBatches == [p \in Plans |-> IF p = "a" THEN (1 :> "A" @@ 2 :> "A")
                               ELSE (1 :> "B" @@ 2 :> Original)]
OneBatch == [p \in Plans |-> (1 :> "A" @@ 2 :> "A")]

Symmetry == Permutations(Extra) \cup Permutations(Procs)
===============================================================================
