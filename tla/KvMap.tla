------------------------------- MODULE KvMap -------------------------------
(***************************************************************************)
(* What a storage engine promises: a map from keys to values.  Reads are   *)
(* exact.  A write that returns 0 took place and one that returns an error *)
(* left the map as it was, except that an engine that is lossy may be left *)
(* without the value of the key whose replacement failed.                  *)
(***************************************************************************)
EXTENDS Integers

CONSTANTS Keys, Values, Absent, Lost

VARIABLES
    map,     \* the value of each key, Absent, or Lost: the key without a value
    lossy,   \* the engine may lose a value
    answer   \* the last call, and what it returned

kvMapVars == <<map, lossy, answer>>

KvMapInit == /\ map = [k \in Keys |-> Absent]
             /\ lossy \in BOOLEAN
             /\ answer = [call |-> << >>, ret |-> 0]

Returns(call, ret) == answer' = [call |-> call, ret |-> ret]

Put(call, k, v) == Returns(call, 0) /\ map' = [map EXCEPT ![k] = v]
Missing(call, k) == Returns(call, 1) /\ map[k] = Absent /\ map' = map
Fail(call, k) ==
    /\ Returns(call, -1) \/ Returns(call, -2)
    /\ \/ map' = map
       \/ lossy /\ map[k] # Absent /\ map' = [map EXCEPT ![k] = Lost]

AbstractSet(k, v) == \/ Put(<<"set", k, v>>, k, v)
                     \/ Fail(<<"set", k, v>>, k)
AbstractMod(k, v) == \/ Missing(<<"mod", k, v>>, k)
                     \/ map[k] # Absent /\ Put(<<"mod", k, v>>, k, v)
                     \/ map[k] # Absent /\ Fail(<<"mod", k, v>>, k)
AbstractDel(k) == \/ Missing(<<"del", k>>, k)
                  \/ map[k] # Absent /\ Put(<<"del", k>>, k, Absent)
AbstractGet(k) == /\ Returns(<<"get", k>>, IF map[k] = Lost THEN Absent ELSE map[k])
                  /\ map' = map
AbstractExist(k) == /\ Returns(<<"exist", k>>, IF map[k] = Absent THEN 1 ELSE 0)
                    /\ map' = map

\* The call is the one that is answered.
KvMapNext ==
    LET call == answer'.call
    IN  /\ call # << >>
        /\ lossy' = lossy
        /\ \/ call[1] = "set" /\ AbstractSet(call[2], call[3])
           \/ call[1] = "mod" /\ AbstractMod(call[2], call[3])
           \/ call[1] = "del" /\ AbstractDel(call[2])
           \/ call[1] = "get" /\ AbstractGet(call[2])
           \/ call[1] = "exist" /\ AbstractExist(call[2])

KvMapSpec == KvMapInit /\ [][KvMapNext]_kvMapVars
=============================================================================
