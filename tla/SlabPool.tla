------------------------------ MODULE SlabPool ------------------------------
(***************************************************************************)
(* The custom memory backend of kvs_mem.c.  A request up to SMALL_MAX_SIZE *)
(* takes a chunk from a page of its size class, a larger one a mapping of  *)
(* its own, and either falls back to malloc when there is no memory.  Each *)
(* call holds g_mem.lock while it changes the pages and the counters, so   *)
(* it is one step.                                                         *)
(*                                                                         *)
(* A block is a record: a chunk of a page, or a block on its own that is   *)
(* told from others of its kind by a number.  Its header, which custom_free *)
(* reads back, gives its kind, its class and the size asked for.           *)
(***************************************************************************)
EXTENDS Integers, Sequences, FiniteSets, SequencesExt, FiniteSetsExt

CONSTANTS
    ClassSizes,  \* the sizes of the classes
    PageChunks,  \* chunks in a page
    MaxPages,    \* bound: pages the system maps for a class
    MaxAlone,    \* bound: blocks outside the pages
    Requests     \* sizes asked for

ASSUME SlabAssumption ==
    /\ ClassSizes \subseteq Nat \ {0} /\ ClassSizes # {} /\ IsFiniteSet(ClassSizes)
    /\ {PageChunks, MaxPages} \subseteq Nat \ {0}

VARIABLES
    list,     \* pages of each class, the newest first
    page,     \* the mapped pages: free_stack and chunks_in_use
    active,   \* active_page of each class, 0 for NULL
    blocks,   \* the blocks the program holds
    acct      \* the counters of g_mem

slabVars == <<list, page, active, blocks, acct>>

Chunks == 0..(PageChunks - 1)
SmallMax == Max(ClassSizes)    \* SMALL_MAX_SIZE

\* class_index_for
ClassOf(size) == Min({c \in ClassSizes : size <= c})

FreshPage == [stack |-> [i \in 1..PageChunks |-> i - 1], inUse |-> 0]
PagesOf(c) == ToSet(list[c])

SlabInit ==
    /\ list = [c \in ClassSizes |-> << >>]
    /\ page = [c \in ClassSizes |-> << >>]
    /\ active = [c \in ClassSizes |-> 0]
    /\ blocks = {}
    /\ acct = [small |-> 0, large |-> 0, fallback |-> 0, requested |-> 0, allocated |-> 0, chunks |-> 0]

-----------------------------------------------------------------------------
(* The operations work on the pool as a record, so that realloc can put two *)
(* of them together.                                                       *)

Pool == [list |-> list, page |-> page, active |-> active, blocks |-> blocks, acct |-> acct]
Becomes(p) == /\ list' = p.list /\ page' = p.page /\ active' = p.active
              /\ blocks' = p.blocks /\ acct' = p.acct

\* account_live_alloc_locked, account_live_free_locked; the counters stop at zero.
Minus(a, n) == IF a >= n THEN a - n ELSE 0
Account(a, field, used, requested, allocated) ==
    [a EXCEPT ![field] = @ + used, !.requested = @ + requested, !.allocated = @ + allocated]
Unaccount(a, field, used, requested, allocated) ==
    [a EXCEPT ![field] = Minus(@, used), !.requested = Minus(@, requested),
              !.allocated = Minus(@, allocated)]

\* A block outside the pages, with the first free number.
Alone(p, kind, size) ==
    LET id == Min({i \in 1..MaxAlone : \A b \in p.blocks : b.kind \in {"large", "fallback"} => b.id # i})
    IN  [p EXCEPT !.blocks = @ \cup {[kind |-> kind, id |-> id, size |-> size]},
                  !.acct = Account(@, kind, size, size, size)]
Room(p) == Cardinality({b \in p.blocks : b.kind # "small"}) < MaxAlone

\* fallback_malloc: a block, or NULL (no outcome here, see Malloc).
Fallback(p, size) == IF Room(p) THEN {Alone(p, "fallback", size)} ELSE {}

\* slab_grow_locked, at a free address
Grow(p, c) ==
    LET g == Min({i \in 1..MaxPages : i \notin ToSet(p.list[c])})
    IN  [p EXCEPT !.list[c] = <<g>> \o @,
                  !.page[c] = [i \in DOMAIN @ \cup {g} |-> IF i = g THEN FreshPage ELSE @[i]],
                  !.active[c] = g, !.acct.chunks = @ + PageChunks]

\* The page custom_malloc takes a chunk from, once there is one.
Usable(p, c) == {i \in DOMAIN p.list[c] : p.page[c][p.list[c][i]].stack # << >>}
ChunkPage(p, c) ==
    IF p.active[c] # 0 /\ p.page[c][p.active[c]].stack # << >> THEN p.active[c]
    ELSE p.list[c][Min(Usable(p, c))]

\* Take the chunk on top of the page's free stack.
TakeChunk(p, c, size) ==
    LET g == ChunkPage(p, c)
        stack == p.page[c][g].stack
    IN  [p EXCEPT !.active[c] = g,
                  !.page[c][g] = [stack |-> Front(stack), inUse |-> @.inUse + 1],
                  !.blocks = @ \cup {[kind |-> "small", class |-> c, page |-> g, chunk |-> Last(stack),
                                      size |-> size]},
                  !.acct = Account(@, "small", c, size, c)]

\* custom_malloc of a small block: the pools it may lead to; none is NULL.
MallocSmall(p, size) ==
    LET c == ClassOf(size)
    IN  IF Usable(p, c) # {} THEN {TakeChunk(p, c, size)}
        ELSE Fallback(p, size)
             \cup (IF Len(p.list[c]) < MaxPages THEN {TakeChunk(Grow(p, c), c, size)} ELSE {})

\* custom_malloc
CustomMalloc(p, size) ==
    IF size <= SmallMax THEN MallocSmall(p, size)
    ELSE Fallback(p, size) \cup (IF Room(p) THEN {Alone(p, "large", size)} ELSE {})

\* The threshold of try_reclaim_page_locked: two pages' worth of free chunks elsewhere.
MayReclaim(p, c, g) ==
    LET free == MapThenSumSet(LAMBDA i : Len(p.page[c][i].stack), ToSet(p.list[c]) \ {g})
    IN  free >= PageChunks * 2

\* Mutant: the cached page outlives its mapping.
ReclaimKeepsActive(p, c, g) ==
    [p EXCEPT !.list[c] = SelectSeq(@, LAMBDA i : i # g),
              !.page[c] = [i \in DOMAIN @ \ {g} |-> @[i]],
              !.acct.chunks = @ - PageChunks]
\* try_reclaim_page_locked
Reclaim(p, c, g) ==
    [p EXCEPT !.list[c] = SelectSeq(@, LAMBDA i : i # g),
              !.page[c] = [i \in DOMAIN @ \ {g} |-> @[i]],
              !.active[c] = IF @ = g THEN 0 ELSE @,
              !.acct.chunks = @ - PageChunks]

\* custom_free of a chunk; find_page_for_chunk finds the page of its address.
FreeSmall(p, b) ==
    LET c == b.class
        q == [p EXCEPT !.page[c][b.page] = [stack |-> Append(@.stack, b.chunk), inUse |-> @.inUse - 1],
                       !.blocks = @ \ {b}, !.acct = Unaccount(@, "small", c, b.size, c)]
    IN  IF q.page[c][b.page].inUse = 0 /\ MayReclaim(q, c, b.page) THEN Reclaim(q, c, b.page) ELSE q

\* custom_free
CustomFree(p, b) ==
    IF b.kind = "small" THEN FreeSmall(p, b)
    ELSE [p EXCEPT !.blocks = @ \ {b}, !.acct = Unaccount(@, b.kind, b.size, b.size, b.size)]

-----------------------------------------------------------------------------
\* kvs_malloc, kvs_calloc
KvsMalloc(size) == \E p \in CustomMalloc(Pool, size) : Becomes(p)

\* kvs_free
KvsFree(b) == Becomes(CustomFree(Pool, b))

\* kvs_realloc that has to move: the new block first, then the old one is freed.
KvsRealloc(b, size) == /\ size > b.size
                       /\ \E p \in CustomMalloc(Pool, size) : Becomes(CustomFree(p, b))

SlabNext ==
    \/ \E size \in Requests : KvsMalloc(size)
    \/ \E b \in blocks : KvsFree(b) \/ \E size \in Requests : KvsRealloc(b, size)

SlabSpec == SlabInit /\ [][SlabNext]_slabVars

-----------------------------------------------------------------------------
\* The counters of MEMORY STATS are those of the blocks held.
AccountsExact ==
    LET sizes(B) == MapThenSumSet(LAMBDA b : b.size, B)
        small == {b \in blocks : b.kind = "small"}
    IN  /\ acct.small = MapThenSumSet(LAMBDA b : b.class, small)
        /\ \A kind \in {"large", "fallback"} : acct[kind] = sizes({b \in blocks : b.kind = kind})
        /\ acct.requested = sizes(blocks)
        /\ acct.allocated = acct.small + acct.large + acct.fallback
        /\ acct.chunks = PageChunks * MapThenSumSet(LAMBDA c : Len(list[c]), ClassSizes)

(* The pool never hands out memory twice or takes it back while in use:     *)
(* through any sequence of malloc, realloc and free, every chunk held lies  *)
(* on a mapped page, in no free stack and in no other block; the stack and  *)
(* the count of each page are exact; the cached page is mapped; and no      *)
(* counter drifts as blocks move between classes, mappings and malloc       *)
(* (custom_malloc, custom_free, try_reclaim_page_locked, backend_realloc). *)
PoolSound ==
    /\ \A c \in ClassSizes :
         /\ DOMAIN page[c] = PagesOf(c) /\ IsInjective(list[c])
         /\ active[c] \in PagesOf(c) \cup {0}
         /\ \A g \in PagesOf(c) :
              LET held == {b \in blocks : b.kind = "small" /\ b.class = c /\ b.page = g}
              IN  /\ IsInjective(page[c][g].stack)
                  /\ ToSet(page[c][g].stack) = Chunks \ {b.chunk : b \in held}
                  /\ page[c][g].inUse = Cardinality(held)
    /\ \A b \in blocks : b.kind = "small" => b.page \in PagesOf(b.class) /\ b.size <= b.class
    /\ AccountsExact
=============================================================================
