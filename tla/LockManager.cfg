\* Three transactions; two rows with exclusive locks only, in different shards, so that
\* deadlock cycles and queues of two occur, and a row with shared locks and upgrades that
\* has its shard in common with the first.
CONSTANTS
    t1 = t1
    t2 = t2
    t3 = t3
    Txns <- MCTxns
    Rids = {1, 2, 3}
    Modes <- MCModes
    Shards = {0, 1}
    ShardOf <- MCShardOf
    Nobody = Nobody
    MaxQueue = 3
SPECIFICATION FairSpec
INVARIANTS
    OkMeansGranted
    NothingOutlives
    NobodyStranded
    Compatible
PROPERTIES
    WriterNotOvertaken
    CallReturns
