---------------------------- MODULE MCConnector ----------------------------
(* Connector for TLC: the requests of the runs. *)
EXTENDS Connector, TLC

(* r1 and r2 ask the same *)
SamePrompts == [r \in Requests |-> IF r = "r3" THEN <<4>> ELSE <<1, 1, 2, 2, 3>>]

(* r2 goes on from r1's prompt and answer *)
TwoTurns == [r \in Requests |-> IF r = "r1" THEN <<1, 1, 2>> ELSE IF r = "r2" THEN <<1, 1, 2, 7, 5>> ELSE <<4>>]

(* a prompt that ends with a block, and one with more after it *)
FullBlocks == [r \in Requests |-> IF r = "r1" THEN <<1, 1, 2, 2>> ELSE IF r = "r2" THEN <<1, 1, 2, 2, 3, 3, 4>> ELSE <<4>>]

(* nothing shared *)
OwnPrompts == [r \in Requests |-> IF r = "r1" THEN <<1, 1, 2, 2, 3>> ELSE IF r = "r2" THEN <<2, 1, 2>> ELSE <<3, 3>>]

(* two prompts that do not share, all of whose full blocks are in the store *)
StoredPrompts == [r \in Requests |-> IF r = "r1" THEN <<1, 1, 2, 2, 3>> ELSE IF r = "r2" THEN <<2, 2, 3>> ELSE <<4>>]

Load(k, p, n, s, f) ==
    [kind |-> k, layers |-> IF k = "layerwise" THEN 2 ELSE 1, is_mla |-> k # "layerwise", hit_ratio |-> 50,
     prompt |-> p, hbm |-> n, stored |-> s, faults |-> f]

EarlierBlocks == {<<1, 1>>, <<1, 1, 2, 2>>}
Refusals == {"lookup", "dump", "wait"}

\* Enough device memory for requests that share prefixes, too little for requests that do not.
MixedLoads ==
    {Load("direct", SamePrompts, 9, {}, Refusals), Load("direct", TwoTurns, 7, {}, Refusals),
     Load("direct", FullBlocks, 8, EarlierBlocks, Refusals),
     Load("direct", OwnPrompts, 4, {<<1, 1>>}, Refusals),
     [Load("layerwise", StoredPrompts, 8, {<<1, 1>>}, {"dump"}) EXCEPT !.is_mla = TRUE],
     Load("layerwise", OwnPrompts, 4, EarlierBlocks, {}),
     Load("mock", StoredPrompts, 8, EarlierBlocks \cup {<<2, 2>>}, {"lookup"})}

LoadsFromStore == {Load("direct", FullBlocks, 8, EarlierBlocks, {"load"})}
WaitRaises == {Load("direct", SamePrompts, 4, {}, {"wait"})}
TightLoads == {Load("direct", SamePrompts, 4, {}, {})}

(* what the properties leave out: a mock whose hits are cut in chunks, or  *)
(* beside hits on the device; a layer-wise dump of which waiting fails     *)
MockInChunks == {Load("mock", [r \in Requests |-> <<1, 1, 2, 2, 3, 3, 4>>], 8, EarlierBlocks, {})}
MockOnDevice == {[Load("mock", [r \in Requests |-> <<1, 1, 2, 2, 3, 3, 4>>], 8, EarlierBlocks, {}) EXCEPT !.hit_ratio = 30]}
LayerWaitFails == {Load("layerwise", OwnPrompts, 4, {}, {"wait"})}

Replies == [r \in Requests |-> IF r = "r1" THEN 7 ELSE 8]
=============================================================================
