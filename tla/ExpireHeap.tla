----------------------------- MODULE ExpireHeap -----------------------------
(***************************************************************************)
(* The expiry table of ExpireTable used in every order, with any           *)
(* deadlines, by its three callers: a command that sets a deadline, one    *)
(* that drops it, and the cycle that takes the first.                      *)
(***************************************************************************)
EXTENDS ExpireTable

CONSTANTS HeapKeys, Deadlines

VARIABLE table

ExpireInit == table = EmptyTab(HeapKeys)

TabSet(k, d) == table' = ExpireSet(table, k, d, FALSE).tab
TabDel(k) == table.at[k] # NoTtl /\ table' = ExpireDel(table, k).tab
\* One turn of the loop of kvs_active_expire_cycle.
TabPop(now) == Due(table, now) /\ table' = ExpireDel(table, table.heap[1]).tab

ExpireNext ==
    \/ \E k \in HeapKeys, d \in Deadlines : TabSet(k, d)
    \/ \E k \in HeapKeys : TabDel(k)
    \/ \E now \in Deadlines : TabPop(now)

ExpireSpec == ExpireInit /\ [][ExpireNext]_table

(* Through any sequence of new, moved and dropped deadlines the heap is a   *)
(* heap of exactly the keys with a deadline, every item's stored position   *)
(* is where it is, and so the top is the earliest: a cycle that stops at    *)
(* the first item not yet due leaves none that is (heap_remove_at,          *)
(* heap_update, kvs_active_expire_cycle).                                  *)
HeapSound ==
    /\ {table.heap[i] : i \in DOMAIN table.heap} = {k \in HeapKeys : table.at[k] # NoTtl}
    /\ \A i \in DOMAIN table.heap : table.idx[table.heap[i]] = i
    /\ \A k \in HeapKeys : table.at[k] = NoTtl => table.idx[k] = NoIndex
    /\ \A i \in 2..Len(table.heap) : At(table, i \div 2) <= At(table, i)
=============================================================================
