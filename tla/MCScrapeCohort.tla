----------------------------- MODULE MCScrapeCohort -----------------------------
(***************************************************************************)
(* Model-checking instances of ScrapeCohort.                               *)
(***************************************************************************)
EXTENDS ScrapeCohort, TLC

\* Listings, children and shards are interchangeable.
Symmetry == Permutations(Listing) \cup Permutations(Child) \cup Permutations(Shard)

\* Bound: a shard prunes one listing, while nothing has failed or been skipped.
ShardPrunesOnce ==
    \A s \in Shard :
        /\ pc'[s] \in {"work", "persist"} =>
              skips' = 0 /\ (\A l \in Listing : fails'[l] = 0) /\ Cardinality(job'[s].processed) = 1
        /\ pc[s] = "persist" /\ pc'[s] # "persist" => ~row'[job[s].at].exists
        /\ pc[s] = "done" => pc'[s] = "done"
=============================================================================
