----------------------------- MODULE MCCacheStore -----------------------------
(* Two processes on one store, the older program with two threads.         *)
EXTENDS CacheStore

MCSessions == {"old", "new"}
MCThreads == {1, 2, 3}
MCHome == [t \in MCThreads |-> IF t = 3 THEN "new" ELSE "old"]
MCSchema == [s \in MCSessions |-> IF s = "old" THEN 1 ELSE 2]
MCKeys == {<<1, 1>>, <<2, 1>>}
MCBytes == [k \in MCKeys |-> k[1]]
=============================================================================
