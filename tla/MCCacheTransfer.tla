-------------------------- MODULE MCCacheTransfer --------------------------
(* Short mixes of tasks that share keys within and across the two queues.   *)
EXTENDS CacheTransfer, TLC

CONSTANTS a, b, c

Load(s) == [type |-> "load", keys |-> s]
Dump(s) == [type |-> "dump", keys |-> s]

Mix(work, held, timeouts, backendFails, copyFails) ==
    [work |-> work, stored |-> held, timeouts |-> timeouts,
     backendFails |-> backendFails, copyFails |-> copyFails]

MixedWork == <<Load(<<a, b>>), Dump(<<b, c>>), Load(<<b>>)>>
CrossedWork == <<Load(<<a, b>>), Dump(<<b, a>>)>>
RepeatedWork == <<Load(<<a>>), Load(<<a, b>>)>>

(* a backend that lacks or fails shards; failing copies; and everything that may fail *)
MCMixes ==
    {Mix(MixedWork, {a}, FALSE, TRUE, FALSE),
     Mix(CrossedWork, {a}, FALSE, TRUE, TRUE),
     Mix(CrossedWork, {a}, TRUE, TRUE, TRUE)}

EarlyReturn == {Mix(<<Dump(<<a, b>>), Load(<<c>>)>>, {c}, FALSE, FALSE, TRUE)}
MixedLate == {Mix(MixedWork, {a, b, c}, TRUE, FALSE, FALSE)}
MixedLookup == {Mix(MixedWork, {a}, FALSE, FALSE, FALSE)}
MixedLost == {Mix(MixedWork, {a}, FALSE, TRUE, FALSE)}
Repeated == {Mix(RepeatedWork, {a}, FALSE, FALSE, FALSE)}

=============================================================================
