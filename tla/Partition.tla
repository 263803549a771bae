----------------------------- MODULE Partition -----------------------------
(* How the scheduler splits the entities of a system into shards            *)
(* (partition in pkg/simulation/scheduler.go).                              *)
EXTENDS Integers, Sequences

\* The number of shards: never more than there are entities.
ShardCount(n, workers) == IF workers <= 1 THEN 1 ELSE IF workers > n THEN n ELSE workers

\* The length of a shard: rounded up, so that the last shards can be short or empty.
Chunk(n, w) == (n + w - 1) \div w

\* The shards of a sequence of entities, which is not empty.
Shards(entities, workers) ==
    LET n == Len(entities)
        w == ShardCount(n, workers)
        chunk == Chunk(n, w)
    IN  [i \in 1 .. w |-> SubSeq(entities, (i - 1) * chunk + 1, IF i * chunk > n THEN n ELSE i * chunk)]
=============================================================================
