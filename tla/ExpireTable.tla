---------------------------- MODULE ExpireTable ----------------------------
(***************************************************************************)
(* The expiry table of kvs_expire.c: one item for each key with a          *)
(* deadline, found through a hash index and ordered by a binary heap, in   *)
(* which each item knows its own position.  Positions start at 1.          *)
(***************************************************************************)
EXTENDS Integers, Sequences, FiniteSets

NoTtl == 0      \* there is no item; a deadline is a positive time
NoIndex == 0    \* the (size_t)-1 of heap_index

\* kvs_expire_create
EmptyTab(keys) == [at |-> [k \in keys |-> NoTtl], heap |-> << >>, idx |-> [k \in keys |-> NoIndex]]

-----------------------------------------------------------------------------
(* The heap                                                                *)

\* heap_swap
HeapSwap(tab, i, j) ==
    [tab EXCEPT !.heap = [@ EXCEPT ![i] = tab.heap[j], ![j] = tab.heap[i]],
                !.idx = [@ EXCEPT ![tab.heap[i]] = j, ![tab.heap[j]] = i]]

\* The deadline of the item at position i.
At(tab, i) == tab.at[tab.heap[i]]

\* heap_sift_up
RECURSIVE SiftUp(_, _)
SiftUp(tab, i) ==
    IF i = 1 \/ At(tab, i \div 2) <= At(tab, i) THEN tab
    ELSE SiftUp(HeapSwap(tab, i \div 2, i), i \div 2)

\* The smallest of position i and its children.
Smallest(tab, i) ==
    LET earlier(s, c) == IF c <= Len(tab.heap) /\ At(tab, c) < At(tab, s) THEN c ELSE s
    IN  earlier(earlier(i, 2 * i), 2 * i + 1)

\* heap_sift_down
RECURSIVE SiftDown(_, _)
SiftDown(tab, i) ==
    IF Smallest(tab, i) = i THEN tab
    ELSE SiftDown(HeapSwap(tab, i, Smallest(tab, i)), Smallest(tab, i))

\* heap_push
HeapPush(tab, k) ==
    LET n == Len(tab.heap) + 1
    IN  SiftUp([tab EXCEPT !.heap = Append(@, k), !.idx[k] = n], n)

\* Mutant: the item moved into the gap is only sifted down.
HeapRemoveAtDown(tab, i) ==
    LET n == Len(tab.heap)
        swapped == IF i = n THEN tab ELSE HeapSwap(tab, i, n)
        cut == [swapped EXCEPT !.idx[swapped.heap[n]] = NoIndex, !.heap = SubSeq(@, 1, n - 1)]
    IN  IF i < n THEN SiftDown(cut, i) ELSE cut

\* heap_remove_at
HeapRemoveAt(tab, i) ==
    LET n == Len(tab.heap)
        swapped == IF i = n THEN tab ELSE HeapSwap(tab, i, n)
        cut == [swapped EXCEPT !.idx[swapped.heap[n]] = NoIndex, !.heap = SubSeq(@, 1, n - 1)]
    IN  IF i < n THEN SiftUp(SiftDown(cut, i), i) ELSE cut

\* heap_update: both sifts start at the item's own position.
HeapUpdate(tab, k) ==
    LET down == SiftDown(tab, tab.idx[k])
    IN  SiftUp(down, down.idx[k])

-----------------------------------------------------------------------------
(* The table                                                               *)

\* kvs_expire_set with the deadline it has computed; starved: an allocation fails.
ExpireSet(tab, k, deadline, starved) ==
    IF tab.at[k] # NoTtl THEN [tab |-> HeapUpdate([tab EXCEPT !.at[k] = deadline], k), rc |-> 0]
    ELSE IF starved THEN [tab |-> tab, rc |-> -1]
    ELSE [tab |-> HeapPush([tab EXCEPT !.at[k] = deadline], k), rc |-> 0]

\* kvs_expire_del and kvs_expire_persist, with expire_free_node
ExpireDel(tab, k) ==
    IF tab.at[k] = NoTtl THEN [tab |-> tab, rc |-> 1]
    ELSE [tab |-> [HeapRemoveAt(tab, tab.idx[k]) EXCEPT !.at[k] = NoTtl], rc |-> 0]

\* kvs_expire_is_expired
IsExpired(tab, k, now) == tab.at[k] # NoTtl /\ now >= tab.at[k]

\* The first item of kvs_active_expire_cycle, if it is due.
Due(tab, now) == tab.heap # << >> /\ At(tab, 1) <= now
=============================================================================
