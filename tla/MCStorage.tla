----------------------------- MODULE MCStorage -----------------------------
(***************************************************************************)
(* What stores the data, side by side: the engines, the heap of deadlines, *)
(* the commands on keys with deadlines, the same commands replayed on a    *)
(* second store, the documents, and the memory pool.  A behaviour          *)
(* exercises one of them, chosen at the start; the others rest.            *)
(***************************************************************************)
EXTENDS Engines, ExpireHeap, Replay, DocStore, SlabPool

CONSTANTS v1, v2

VARIABLE layer
Layers == {"engine", "heap", "keyspace", "replay", "docs", "pool"}

StorageInit ==
    /\ layer \in Layers
    /\ EnginesInit /\ (layer # "engine" => eng = "rbtree" /\ store = RbCreate)
    /\ ExpireInit /\ KeyspaceInit /\ ReplayInit /\ DocInit /\ SlabInit

StorageNext ==
    \/ /\ layer = "engine" /\ EnginesNext
       /\ UNCHANGED <<layer, table, keyspaceVars, replayVars, docVars, slabVars>>
    \/ /\ layer = "heap" /\ ExpireNext
       /\ UNCHANGED <<layer, engineVars, keyspaceVars, replayVars, docVars, slabVars>>
    \/ /\ layer = "keyspace" /\ KeyspaceNext
       /\ UNCHANGED <<layer, engineVars, table, replayVars, docVars, slabVars>>
    \/ /\ layer = "replay" /\ ReplayNext
       /\ UNCHANGED <<layer, engineVars, table, keyspaceVars, docVars, slabVars>>
    \/ /\ layer = "pool" /\ SlabNext
       /\ UNCHANGED <<layer, engineVars, table, keyspaceVars, replayVars, docVars>>
    \/ /\ layer = "docs" /\ DocNext
       /\ UNCHANGED <<layer, engineVars, table, keyspaceVars, replayVars, slabVars>>

StorageSpec ==
    StorageInit /\ [][StorageNext]_<<layer, engineVars, table, keyspaceVars, replayVars, docVars, slabVars>>

-----------------------------------------------------------------------------
(* Engines: enough keys for the tree to rebalance in every way and for the *)
(* tables to grow twice and shrink; two hash seeds, one with collisions.   *)
StorageKeys == 1..5
StorageInputs ==
    LET keys == [array |-> 1..3, hash |-> 1..4, rbtree |-> 1..5, skiptable |-> 1..3]
    IN  [e \in EngineNames |->
           {<<k, v1>> : k \in keys[e]} \cup (IF e = "rbtree" THEN {} ELSE {<<1, v2>>})]
StorageSeeds == {<<0, 1, 2, 3, 0>>, <<5, 5, 2, 7, 4>>}

(* The commands use two keys.                                              *)
Cmd(op, key, val, ttl) == [op |-> op, key |-> key, val |-> val, ttl |-> ttl, key2 |-> Gone]
StorageWrites ==
    {Cmd(op, 1, Gone, 0) : op \in {"DEL", "PERSIST"}}
    \cup {Cmd("SET", 1, v1, 0), Cmd("MOD", 1, v2, 0), [Cmd("MSET", 1, v2, 0) EXCEPT !.key2 = 2]}
    \cup {Cmd("EXPIRE", 1, Gone, 1)} \cup {Cmd("SETEX", 1, v2, t) : t \in {0, 1}}
    \cup {Cmd(op, 1, v1, 1) : op \in {"LOCK", "UNLOCK", "RENEW"}} \cup {Cmd("LOCK", 1, v2, 1)}
StorageCommands ==
    StorageWrites
    \cup {Cmd(op, 1, Gone, 0) : op \in {"GET", "EXIST", "TTL", "EXPIRE"}}
    \cup {Cmd(op, 1, v2, 1) : op \in {"UNLOCK", "RENEW"}}
    \cup {Cmd(op, 1, v1, 0) : op \in {"LOCK", "RENEW"}}
    \cup {Cmd(op, 2, Gone, 1) : op \in {"GET", "DEL", "EXPIRE"}} \cup {Cmd("SETEX", 2, v1, 2)}

(* Documents: three keys outgrow the table, two of them and both fields     *)
(* share a chain; a value of two words the second of which reads as a       *)
(* field.                                                                  *)
StorageDocHash == [n \in {1, 2, 3, 11, 12} |-> IF n = 3 THEN 1 ELSE 2]
StorageDocInputs ==
    {<<1, 11, <<v1>>>>, <<1, 12, <<v2>>>>, <<1, 11, <<v1, v2, <<12, v1>>>>>>,
     <<2, 11, << >>>>, <<3, 12, <<v1>>>>}

-----------------------------------------------------------------------------
(* Every structure keeps its shape through every call, failed ones          *)
(* included: the engines, the heap of deadlines with the indexes its        *)
(* entries keep, and the documents (kvs_hash.c, kvs_array.c, kvs_rbtree.c,  *)
(* kvs_skiptable.c, kvs_expire.c, kvs_doc.c).                              *)
StructuresSound == EnginesSound /\ HeapSound /\ DocsSound
=============================================================================
