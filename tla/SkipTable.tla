----------------------------- MODULE SkipTable -----------------------------
(***************************************************************************)
(* The skip list of kvs_skiptable.c, the SKIPTABLE engine.  A node is      *)
(* known by its key, a number in the order of strcmp; the header is 0.     *)
(***************************************************************************)
EXTENDS Integers, FiniteSets

CONSTANTS
    Keys,    \* keys, as positive numbers
    Absent,  \* the NULL of a lookup
    MaxLevel     \* KVS_SKIPLIST_MAX_LEVEL

Header == 0
End == -1        \* a NULL forward pointer
Levels == 0..MaxLevel
Places == Keys \cup {Header}

NoForward == [i \in Levels |-> End]

\* kvs_skiptable_create
SkipCreate == [level |-> 0, count |-> 0, fwd |-> [p \in Places |-> NoForward],
               top |-> [p \in Places |-> IF p = Header THEN MaxLevel ELSE -1],
               value |-> [k \in Keys |-> Absent]]

\* Where the inner loop of skiptable_search_node stops on level i.
WalkLevel(S, from, i, k) ==
    LET at[p \in Places] == IF S.fwd[p][i] # End /\ S.fwd[p][i] < k THEN at[S.fwd[p][i]] ELSE p
    IN  at[from]

\* update[] of skiptable_search_node, for the levels in use.
SearchPath(S, k) ==
    LET up[i \in 0..S.level] == WalkLevel(S, IF i = S.level THEN Header ELSE up[i + 1], i, k)
    IN  up

\* Is k found?
SkipFound(S, k) == S.fwd[SearchPath(S, k)[0]][0] = k

\* kvs_skiptable_get, kvs_skiptable_exist
SkipGet(S, k) == IF SkipFound(S, k) THEN S.value[k] ELSE Absent
SkipExist(S, k) == IF SkipFound(S, k) THEN 0 ELSE 1

\* kvs_skiptable_mod
SkipMod(S, k, v) ==
    IF ~SkipFound(S, k) THEN {[h |-> S, rc |-> 1]}
    ELSE {[h |-> S, rc |-> -2], [h |-> [S EXCEPT !.value[k] = v], rc |-> 0]}

\* Mutant: update[] is not extended to the new levels of the list.
SkipLinkOld(S, k, v, level, up) ==
    [S EXCEPT !.fwd = [p \in Places |-> [i \in Levels |->
                          IF i > S.level \/ i > level THEN @[p][i]
                          ELSE IF p = k THEN @[up[i]][i]
                          ELSE IF up[i] = p THEN k ELSE @[p][i]]],
              !.level = IF level > @ THEN level ELSE @,
              !.top[k] = level, !.value[k] = v, !.count = @ + 1]

\* The new node is linked on each of its levels, above the old top level below the header.
SkipLink(S, k, v, level, up) ==
    LET before(i) == IF i > S.level THEN Header ELSE up[i]
    IN  [S EXCEPT !.fwd = [p \in Places |-> [i \in Levels |->
                              IF i > level THEN @[p][i]
                              ELSE IF p = k THEN @[before(i)][i]
                              ELSE IF before(i) = p THEN k ELSE @[p][i]]],
                  !.level = IF level > @ THEN level ELSE @,
                  !.top[k] = level, !.value[k] = v, !.count = @ + 1]

\* kvs_skiptable_set with any random_level; the list's level is raised before the
\* node is allocated.
SkipSet(S, k, v) ==
    IF SkipFound(S, k) THEN SkipMod(S, k, v)
    ELSE UNION {{[h |-> [S EXCEPT !.level = IF level > @ THEN level ELSE @], rc |-> -2],
                 [h |-> SkipLink(S, k, v, level, SearchPath(S, k)), rc |-> 0]} : level \in Levels}

\* kvs_skiptable_del: unlink level by level, then lower the list's level.
SkipDel(S, k) ==
    IF ~SkipFound(S, k) THEN {[h |-> S, rc |-> 1]}
    ELSE LET up   == SearchPath(S, k)
             cut  == {i \in 0..S.level : \A j \in 0..i : S.fwd[up[j]][j] = k}
             fwd  == [p \in Places |-> [i \in Levels |->
                        IF p = k THEN End
                        ELSE IF i \in cut /\ up[i] = p THEN S.fwd[k][i] ELSE S.fwd[p][i]]]
             used == {i \in 1..S.level : fwd[Header][i] # End}
         IN  {[h |-> [S EXCEPT !.fwd = fwd, !.count = @ - 1, !.top[k] = -1, !.value[k] = Absent,
                               !.level = IF used = {} THEN 0
                                         ELSE CHOOSE i \in used : \A j \in used : j <= i],
               rc |-> 0]}

\* What kvs_skiptable_foreach visits: the bottom level.
OnLevel(S, i) ==
    LET from[n \in 0..Cardinality(Keys), p \in Places] ==
          IF n = 0 \/ S.fwd[p][i] = End THEN {} ELSE {S.fwd[p][i]} \cup from[n - 1, S.fwd[p][i]]
    IN  from[Cardinality(Keys), Header]
SkipContents(S) == [k \in Keys |-> IF k \in OnLevel(S, 0) THEN S.value[k] ELSE Absent]

-----------------------------------------------------------------------------
(* Every level of the skip list is sorted and holds exactly the nodes that  *)
(* are at least that high, the count is that of the nodes, and no node is   *)
(* higher than the list, so that a search from the list's level misses none *)
(* (kvs_skiptable_set, kvs_skiptable_del).                                 *)
SkipSound(S) ==
    LET held == {k \in Keys : S.top[k] >= 0}
    IN  /\ S.count = Cardinality(held)
        /\ \A k \in held : S.top[k] <= S.level
        /\ \A i \in Levels : OnLevel(S, i) = {k \in held : S.top[k] >= i}
        /\ \A p \in Places, i \in Levels : S.fwd[p][i] # End => p < S.fwd[p][i]
=============================================================================
