----------------------------- MODULE HashTable -----------------------------
(***************************************************************************)
(* The hash table of kvs_hash.c: the HASH engine, and the index of the     *)
(* ARRAY engine.  It has two tables while it grows or shrinks.  Every      *)
(* operation first moves a few chains from ht[0] to ht[1]; new keys go to  *)
(* ht[1] meanwhile, and when ht[0] has been emptied ht[1] takes its place. *)
(*                                                                         *)
(* A table is a function from its slots to the set of nodes in the chain;  *)
(* the order within a chain is left out.  An operation is the set of its   *)
(* outcomes, a new table and a return code for each, because any           *)
(* allocation in it may fail.                                              *)
(***************************************************************************)
EXTENDS Integers, FiniteSets, FiniteSetsExt

CONSTANTS
    Keys,
    Absent,       \* the NULL of a lookup
    InitSize,     \* HASH_INIT_SIZE
    LoadFactor,   \* HASH_LOAD_FACTOR
    Sparse,       \* the 8 of _maybe_shrink
    StepBuckets   \* REHASH_STEP_BUCKETS

ASSUME HashAssumption ==
    /\ {InitSize, LoadFactor, Sparse, StepBuckets} \subseteq Nat \ {0}
    /\ IsFiniteSet(Keys)

\* A table of n empty slots, and ht[1] when nothing is being moved.
EmptyTable(n) == [nodes |-> [i \in 0..(n - 1) |-> {}], slots |-> n, count |-> 0]
NoTable == EmptyTable(0)

\* kvs_hash_create; hv is the keyed hash, whose seed is drawn here.
HashCreate(hv) == [ht |-> <<EmptyTable(InitSize), NoTable>>, rehash |-> -1, hv |-> hv]

Nodes(t) == UNION {t.nodes[i] : i \in DOMAIN t.nodes}

\* The chain of table t that key k belongs to.
Chain(h, t, k) == h.ht[t].nodes[h.hv[k] % h.ht[t].slots]

-----------------------------------------------------------------------------
(* Moving the chains                                                       *)

\* Where the loop of _rehash_step stops: after StepBuckets chains, or at the end.
StepEnd(h) ==
    Min({j \in h.rehash..h.ht[1].slots :
            \/ j = h.ht[1].slots
            \/ Cardinality({i \in h.rehash..(j - 1) : h.ht[1].nodes[i] # {}}) = StepBuckets})

\* _rehash_step
RehashStep(h) ==
    IF h.rehash < 0 THEN h
    ELSE LET end   == StepEnd(h)
             moved == UNION {h.ht[1].nodes[i] : i \in h.rehash..(end - 1)}
             from  == [h.ht[1] EXCEPT !.nodes = [i \in DOMAIN @ |-> IF i < end THEN {} ELSE @[i]],
                                      !.count = @ - Cardinality(moved)]
             to    == [h.ht[2] EXCEPT !.nodes = [i \in DOMAIN @ |->
                                          @[i] \cup {n \in moved : h.hv[n.key] % h.ht[2].slots = i}],
                                      !.count = @ + Cardinality(moved)]
         IN  IF end >= h.ht[1].slots
             THEN [h EXCEPT !.ht = <<to, NoTable>>, !.rehash = -1]
             ELSE [h EXCEPT !.ht = <<from, to>>, !.rehash = end]

\* Start to move to a new ht[1] of n slots; without memory nothing happens.
Resize(h, n) == {h, [h EXCEPT !.ht[2] = EmptyTable(n), !.rehash = 0]}

\* _maybe_expand
MaybeExpand(h) ==
    IF h.rehash >= 0 \/ h.ht[1].count <= h.ht[1].slots * LoadFactor THEN {h}
    ELSE Resize(h, h.ht[1].slots * 2)

\* _maybe_shrink
MaybeShrink(h) ==
    IF h.rehash >= 0 \/ h.ht[1].slots <= InitSize \/ h.ht[1].count > h.ht[1].slots \div Sparse
    THEN {h}
    ELSE Resize(h, Max({h.ht[1].slots \div 2, InitSize}))

-----------------------------------------------------------------------------
(* Operations                                                              *)

\* The tables _find_node and kvs_hash_del search, in order; mutant: only ht[0].
SearchedFirstOnly(h) == IF h.ht[1].count > 0 THEN {1} ELSE {}
Searched(h) ==
    {t \in {1, 2} : h.ht[t].count > 0 /\ (t = 2 => h.rehash >= 0)}

\* The table _find_node finds k in, 0 if there is none.
FoundIn(h, k) ==
    LET tables == {t \in Searched(h) : \E n \in Chain(h, t, k) : n.key = k}
    IN  IF tables = {} THEN 0 ELSE Min(tables)

Found(h, t, k) == CHOOSE n \in Chain(h, t, k) : n.key = k

\* kvs_hash_get, kvs_hash_get_len: the value found.
HashGet(h, k) ==
    LET t == FoundIn(RehashStep(h), k)
    IN  [h |-> RehashStep(h), value |-> IF t = 0 THEN Absent ELSE Found(RehashStep(h), t, k).value]

\* kvs_hash_exist
HashExist(h, k) ==
    [h |-> RehashStep(h), rc |-> IF FoundIn(RehashStep(h), k) = 0 THEN 1 ELSE 0]

WithChain(h, t, k, chain, count) ==
    [h EXCEPT !.ht[t].nodes[h.hv[k] % h.ht[t].slots] = chain, !.ht[t].count = count]

\* _overwrite_value of the node of k in table t: in place, or in a new block if there is one.
Overwrite(h, t, k, v) ==
    {[h |-> h, rc |-> -2],
     [h |-> WithChain(h, t, k, (Chain(h, t, k) \ {Found(h, t, k)}) \cup {[key |-> k, value |-> v]},
                      h.ht[t].count),
      rc |-> 0]}

\* The table a new key is put into.
InsertInto(h) == IF h.rehash >= 0 THEN 2 ELSE 1

\* kvs_hash_set and kvs_hash_set_len
HashSet(h0, k, v) ==
    LET h == RehashStep(h0)
        f == FoundIn(h, k)
        t == InsertInto(h)
    IN  IF f # 0 THEN Overwrite(h, f, k, v)
        ELSE {[h |-> h, rc |-> -2]}
             \cup {[h |-> g, rc |-> 0] :
                     g \in MaybeExpand(WithChain(h, t, k, Chain(h, t, k) \cup {[key |-> k, value |-> v]},
                                                 h.ht[t].count + 1))}

\* kvs_hash_mod
HashMod(h0, k, v) ==
    LET h == RehashStep(h0)
        f == FoundIn(h, k)
    IN  IF f = 0 THEN {[h |-> h, rc |-> 1]} ELSE Overwrite(h, f, k, v)

\* kvs_hash_del
HashDel(h0, k) ==
    LET h == RehashStep(h0)
        f == FoundIn(h, k)
    IN  IF f = 0 THEN {[h |-> h, rc |-> 1]}
        ELSE {[h |-> g, rc |-> 0] :
                g \in MaybeShrink(WithChain(h, f, k, Chain(h, f, k) \ {Found(h, f, k)},
                                            h.ht[f].count - 1))}

-----------------------------------------------------------------------------
\* What a walk over both tables finds, as the snapshots do it.
HashContents(h) ==
    [k \in Keys |-> LET here == {n \in Nodes(h.ht[1]) \cup Nodes(h.ht[2]) : n.key = k}
                    IN  IF here = {} THEN Absent ELSE (CHOOSE n \in here : TRUE).value]

(* Growing and shrinking while the table is used keeps it a table of its    *)
(* keys: every node is in the slot of its hash, no key is twice in it, the *)
(* counts that guard the searches are exact, the slots already moved are   *)
(* empty, and ht[1] is there exactly while chains are being moved          *)
(* (_rehash_step, kvs_hash_set, kvs_hash_del).                             *)
HashSound(h) ==
    /\ \A t \in {1, 2} :
         /\ \A i \in DOMAIN h.ht[t].nodes : \A n \in h.ht[t].nodes[i] : h.hv[n.key] % h.ht[t].slots = i
         /\ h.ht[t].count = Cardinality(Nodes(h.ht[t]))
    /\ \A m, n \in Nodes(h.ht[1]) \cup Nodes(h.ht[2]) : m.key = n.key => m = n
    /\ Nodes(h.ht[1]) \cap Nodes(h.ht[2]) = {}
    /\ IF h.rehash < 0 THEN h.rehash = -1 /\ h.ht[2] = NoTable
       ELSE /\ h.rehash < h.ht[1].slots /\ h.ht[2].slots > 0
            /\ \A i \in 0..(h.rehash - 1) : h.ht[1].nodes[i] = {}
    /\ h.ht[1].slots >= InitSize
=============================================================================
