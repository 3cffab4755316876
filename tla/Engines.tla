------------------------------ MODULE Engines ------------------------------
(***************************************************************************)
(* The storage engines behind the commands, and the engine_* switches of   *)
(* kvstore.c that select one.  A behaviour uses one of the four engines,   *)
(* chosen at the start; each action is one whole call.                     *)
(***************************************************************************)
EXTENDS HashTable, Sequences

CONSTANTS
    Values,
    Inputs,      \* for each engine, the pairs of a key and a value that are written
    Starved,     \* the keys whose allocations may fail
    Seeds,       \* the keyed hashes, one of which the seed selects
    Lost,        \* a value pointer that is NULL
    MaxLevel,    \* KVS_SKIPLIST_MAX_LEVEL
    ArraySize,   \* KVS_ARRAY_SIZE
    FreeCap      \* the 16 of kvs_array_del

INSTANCE RbTree
INSTANCE SkipTable

VARIABLES
    eng,      \* the engine in use
    store,    \* its instance
    result    \* the last call, and what it returned

engineVars == <<eng, store, result>>

-----------------------------------------------------------------------------
(* The array engine: slots, a stack of free ones, and a hash index from     *)
(* keys to slots.                                                          *)

Slots == 0..(ArraySize - 1)
NoItem == [key |-> Absent, value |-> Absent]

\* kvs_array_create; the items, lazily allocated, are allocated here.
ArrayCreate(hv) == [index |-> HashCreate(hv), table |-> [s \in Slots |-> NoItem],
                    next |-> 0, free |-> << >>, cap |-> 0, total |-> 0]

\* find_slot: the array after its index moved chains, and the slot or Absent.
FindSlot(a, k) ==
    LET g == HashGet(a.index, k)
    IN  [h |-> [a EXCEPT !.index = g.h], slot |-> g.value]

\* A slot goes back to the stack, if there is room.
PushFree(a, s) == IF Len(a.free) < a.cap THEN [a EXCEPT !.free = Append(@, s)] ELSE a

\* kvs_array_mod
ArrayMod(a, k, v) ==
    LET f == FindSlot(a, k)
    IN  IF f.slot = Absent THEN {[h |-> f.h, rc |-> 1]}
        ELSE {[h |-> f.h, rc |-> -2], [h |-> [f.h EXCEPT !.table[f.slot].value = v], rc |-> 0]}

\* The slot of a new key is filled and indexed, or given back.
FillSlot(a, s, k, v) ==
    {[h |-> PushFree(a, s), rc |-> -2]}
    \cup {IF i.rc # 0 THEN [h |-> PushFree([a EXCEPT !.index = i.h], s), rc |-> -2]
          ELSE [h |-> [a EXCEPT !.index = i.h, !.total = @ + 1, !.table[s] = [key |-> k, value |-> v]],
                rc |-> 0] : i \in HashSet(a.index, k, s)}

\* kvs_array_set.  next_slot moves on even when the array is full; it is kept at most
\* one past the end.
ArraySet(a0, k, v) ==
    LET f == FindSlot(a0, k)
        a == f.h
        n == Len(a.free)
    IN  IF f.slot # Absent THEN ArrayMod(a, k, v)
        ELSE IF n > 0 THEN FillSlot([a EXCEPT !.free = SubSeq(@, 1, n - 1)], a.free[n], k, v)
        ELSE LET b == [a EXCEPT !.next = Min({@ + 1, ArraySize})]
             IN  IF a.next >= ArraySize THEN {[h |-> b, rc |-> -1]} ELSE FillSlot(b, a.next, k, v)

\* Mutant: the slot is freed but the key stays in the index.
ArrayDelKeepsIndex(a, k) ==
    LET f == FindSlot(a, k)
        cleared == [f.h EXCEPT !.table[f.slot] = NoItem, !.total = @ - 1]
        grown == [cleared EXCEPT !.cap = IF @ = 0 THEN FreeCap ELSE @ * 2]
    IN  IF f.slot = Absent THEN {[h |-> f.h, rc |-> 1]}
        ELSE {[h |-> PushFree(b, f.slot), rc |-> 0] :
                b \in IF Len(f.h.free) = f.h.cap THEN {cleared, grown} ELSE {cleared}}

\* kvs_array_del: when the stack is full it may or may not be possible to grow it.
ArrayDel(a, k) ==
    LET f == FindSlot(a, k)
        cleared == [f.h EXCEPT !.table[f.slot] = NoItem, !.total = @ - 1]
        grown == [cleared EXCEPT !.cap = IF @ = 0 THEN FreeCap ELSE @ * 2]
    IN  IF f.slot = Absent THEN {[h |-> f.h, rc |-> 1]}
        ELSE {[h |-> [PushFree(b, f.slot) EXCEPT !.index = i.h], rc |-> 0] :
                b \in IF Len(f.h.free) = f.h.cap THEN {cleared, grown} ELSE {cleared},
                i \in HashDel(f.h.index, k)}

\* kvs_array_get
ArrayGet(a, k) ==
    LET f == FindSlot(a, k)
    IN  [h |-> f.h, value |-> IF f.slot = Absent THEN Absent ELSE a.table[f.slot].value]

\* kvs_array_exist
ArrayExist(a, k) ==
    LET f == FindSlot(a, k) IN [h |-> f.h, rc |-> IF f.slot = Absent THEN 1 ELSE 0]

\* What a walk over the items finds.
ArrayContents(a) ==
    [k \in Keys |-> LET here == {s \in Slots : a.table[s].key = k}
                    IN  IF here = {} THEN Absent ELSE a.table[CHOOSE s \in here : TRUE].value]

\* The items, the index and the stack of free slots agree.
ArraySound(a) ==
    LET used == {s \in Slots : a.table[s] # NoItem}
        Holder(k) == {s \in used : a.table[s].key = k}
    IN  /\ HashSound(a.index)
        /\ \A k \in Keys : Holder(k) = {HashContents(a.index)[k]} \ {Absent}
        /\ a.total = Cardinality(used)
        /\ \A i, j \in DOMAIN a.free : i # j => a.free[i] # a.free[j]
        /\ \A i \in DOMAIN a.free : a.free[i] \notin used /\ a.free[i] < a.next
        /\ \A s \in used : s < a.next

-----------------------------------------------------------------------------
(* The switches on the engine                                              *)

EngineNames == {"array", "rbtree", "hash", "skiptable"}

\* The creation of the engines in main.
EnginesInit ==
    /\ eng \in EngineNames
    /\ \E hv \in Seeds :
         store = CASE eng = "array" -> ArrayCreate(hv) [] eng = "hash" -> HashCreate(hv)
                   [] eng = "rbtree" -> RbCreate [] eng = "skiptable" -> SkipCreate
    /\ result = [call |-> << >>, ret |-> 0]

\* One of the outcomes of a write.
Apply(call, outcomes) ==
    \E o \in outcomes :
      /\ o.rc = -2 => call[2] \in Starved
      /\ store' = o.h
      /\ result' = [call |-> call, ret |-> o.rc]
      /\ UNCHANGED eng

\* engine_set
EngineSet(k, v) ==
    Apply(<<"set", k, v>>, CASE eng = "array" -> ArraySet(store, k, v) [] eng = "hash" -> HashSet(store, k, v)
            [] eng = "rbtree" -> RbSet(store, k, v) [] eng = "skiptable" -> SkipSet(store, k, v))

\* engine_mod
EngineMod(k, v) ==
    Apply(<<"mod", k, v>>, CASE eng = "array" -> ArrayMod(store, k, v) [] eng = "hash" -> HashMod(store, k, v)
            [] eng = "rbtree" -> RbMod(store, k, v) [] eng = "skiptable" -> SkipMod(store, k, v))

\* engine_del
EngineDel(k) ==
    Apply(<<"del", k>>, CASE eng = "array" -> ArrayDel(store, k) [] eng = "hash" -> HashDel(store, k)
            [] eng = "rbtree" -> RbDel(store, k) [] eng = "skiptable" -> SkipDel(store, k))

\* engine_get
EngineGet(k) ==
    LET g == CASE eng = "array" -> ArrayGet(store, k) [] eng = "hash" -> HashGet(store, k)
               [] eng = "rbtree" -> [h |-> store, value |-> RbGet(store, k)]
               [] eng = "skiptable" -> [h |-> store, value |-> SkipGet(store, k)]
    IN  store' = g.h /\ result' = [call |-> <<"get", k>>, ret |-> g.value] /\ UNCHANGED eng

\* engine_exist
EngineExist(k) ==
    Apply(<<"exist", k>>, {CASE eng = "array" -> ArrayExist(store, k) [] eng = "hash" -> HashExist(store, k)
             [] eng = "rbtree" -> [h |-> store, rc |-> RbExist(store, k)]
             [] eng = "skiptable" -> [h |-> store, rc |-> SkipExist(store, k)]})

EnginesNext ==
    \/ \E in \in Inputs[eng] : EngineSet(in[1], in[2]) \/ EngineMod(in[1], in[2])
    \/ \E k \in {in[1] : in \in Inputs[eng]} : EngineDel(k) \/ EngineGet(k) \/ EngineExist(k)

EnginesSpec == EnginesInit /\ [][EnginesNext]_engineVars

-----------------------------------------------------------------------------
(* Properties                                                              *)

\* What the engine holds, as the dumps walk over it.
Contents == CASE eng = "array" -> ArrayContents(store) [] eng = "hash" -> HashContents(store)
              [] eng = "rbtree" -> RbContents(store) [] eng = "skiptable" -> SkipContents(store)

(* Every engine is a map: each call answers and acts as the abstract map    *)
(* does, through growing, shrinking, rebalancing and failed allocations,    *)
(* and what a dump walks over is what the lookups find.                    *)
Map == INSTANCE KvMap WITH map <- Contents, lossy <- (eng = "rbtree"), answer <- result
EnginesImplementMap == Map!KvMapSpec

(* The structures keep their shape through every call, failed ones          *)
(* included.  The hash table and the array's index are sound while they     *)
(* grow and shrink; an item of the array is at the slot the index gives for *)
(* its key, and no slot is free twice or both free and in use; the tree is  *)
(* a red-black search tree; every level of the skip list is the sorted list *)
(* of the nodes that reach it (kvs_hash.c, kvs_array.c, kvs_rbtree.c,       *)
(* kvs_skiptable.c).                                                       *)
EnginesSound ==
    CASE eng = "hash" -> HashSound(store)
      [] eng = "array" -> ArraySound(store)
      [] eng = "rbtree" -> RbSound(store)
      [] eng = "skiptable" -> SkipSound(store)
=============================================================================
