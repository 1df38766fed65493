-------------------------- MODULE MCPosixTransfer --------------------------
(* Dumps and loads of one block of one or two shards, as whole blocks or,   *)
(* as the layer-wise connector submits them, one shard to a task.           *)
EXTENDS PosixTransfer

CONSTANTS a, w1, w2

Load(s) == [type |-> "load", shards |-> s]
Dump(s) == [type |-> "dump", shards |-> s]

SingleShards == <<Dump(<<<<a, 0>>>>), Dump(<<<<a, 0>>>>), Dump(<<<<a, 0>>>>), Load(<<<<a, 0>>>>)>>

WholeBlocks == <<Dump(<<<<a, 0>>, <<a, 1>>>>), Dump(<<<<a, 0>>, <<a, 1>>>>), Load(<<<<a, 0>>, <<a, 1>>>>)>>

LayerByLayer == <<Dump(<<<<a, 0>>>>), Dump(<<<<a, 1>>>>), Load(<<<<a, 0>>>>)>>

=============================================================================
