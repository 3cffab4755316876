---------------------------- MODULE ReplForward ----------------------------
(***************************************************************************)
(* The forwarding thread of the master, for replicas that are not served   *)
(* by the ebpf-proxy (repl_transport_kind other than EBPF_TCP).            *)
(*                                                                         *)
(* The reactor executes commands.  It puts a copy of every write into one  *)
(* bounded queue, once for each replica, and a copy of a piece of the      *)
(* backlog when a REPLACK or REPLDONE shows that a replica is behind.  The *)
(* forwarding thread takes the nodes in order, moves their bytes to a      *)
(* buffer of the replica's own and writes them to its socket as far as it  *)
(* takes them.  A water mark for each replica says how far its bytes have  *)
(* been handed over: what lies below it is not sent again, and what a slow *)
(* replica missed is fetched from the backlog from there on.  Connections  *)
(* close at any time, and the memory of a closed one may be that of the    *)
(* next.                                                                   *)
(*                                                                         *)
(* Every write is one unit long: unit n takes the offset from n - 1 to n.  *)
(* Memory is taken to suffice, and a replay to fit the output ring.        *)
(***************************************************************************)
EXTENDS Naturals, Sequences

CONSTANTS
    Addrs,        \* addresses of conn_t: a connection is known by its address
    QueueMax,     \* MAX_FWD_QUEUE_BYTES
    BufMax,       \* MAX_FWD_SEND_BUF_BYTES
    FwdBacklogSize,  \* KVS_REPL_BACKLOG_SIZE
    MaxFwdWrites,    \* bound: writes on the master
    MaxPeers,     \* bound: connections accepted
    MaxAcks       \* bound: REPLACKs received

ASSUME FwdAssumption ==
    /\ {BufMax, FwdBacklogSize} \subseteq Nat \ {0}
    /\ QueueMax \in Nat /\ QueueMax >= FwdBacklogSize
    /\ {MaxFwdWrites, MaxPeers, MaxAcks} \subseteq Nat

VARIABLES
    up,        \* is the master running?
    off,       \* g_master_repl_offset
    fwdLog,      \* g_repl_backlog and g_repl_backlog_contiguous
    fullsync,  \* g_repl_fullsync_in_progress
    replicas,      \* g_replicas, a list
    peer,      \* the connection at each address
    rx,        \* where the reactor is: between commands or in repl_fwd_enqueue
    queue,     \* g_fwd_head .. g_fwd_tail
    qbytes,    \* g_fwd_queue_bytes
    st,        \* g_fwd_states
    left       \* what is left of MaxConns and MaxAcks

fwdVars == <<up, off, fwdLog, fullsync, replicas, peer, rx, queue, qbytes, st, left>>

\* The units after offset lo, up to offset hi.
Units(lo, hi) == [i \in 1..(hi - lo) |-> lo + i]

Larger(m, n) == IF m > n THEN m ELSE n

NoNode == [c |-> "none", bytes |-> <<>>, end |-> 0]

\* An address without a connection.
Free == [phase |-> "free", replica |-> FALSE, pending |-> FALSE,
         draining |-> FALSE, loading |-> FALSE, broken |-> FALSE,
         ring |-> <<>>, wire |-> <<>>, base |-> 0, upto |-> 0, gap |-> "none"]

\* No state: the thread has met no node of this address yet.
NoState == [exists |-> FALSE, buf |-> <<>>, wm |-> 0, stalled |-> FALSE,
            armed |-> FALSE, dropped |-> FALSE]

\* The elements of q at the positions in places, in their order.
Kept(q, places) ==
    LET kept[i \in 0..Len(q)] ==
            IF i = 0 THEN <<>>
            ELSE IF i \in places THEN Append(kept[i - 1], q[i]) ELSE kept[i - 1]
    IN  kept[Len(q)]

Idle == [pc |-> "idle", todo |-> <<>>, node |-> NoNode]

FwdInit ==
    /\ up = TRUE
    /\ off = 0
    /\ fwdLog = [buf |-> FALSE, start |-> 0, end |-> 0, contig |-> TRUE]
    /\ fullsync = FALSE
    /\ replicas = <<>>
    /\ peer = [a \in Addrs |-> Free]
    /\ rx = Idle
    /\ queue = <<>>
    /\ qbytes = 0
    /\ st = [a \in Addrs |-> NoState]
    /\ left = [conns |-> MaxPeers, acks |-> MaxAcks]

-----------------------------------------------------------------------------
(* The backlog                                                             *)

\* repl_backlog_feed of the next write.  What it holds is the history itself
\* (BacklogExact of ReplSync), so the two ends are enough here.
Feed ==
    IF replicas = <<>> THEN [fwdLog EXCEPT !.contig = FALSE]
    ELSE LET from == IF fwdLog.buf THEN fwdLog.start ELSE off
             end  == (IF fwdLog.buf THEN fwdLog.end ELSE off) + 1
         IN  [fwdLog EXCEPT !.buf = TRUE, !.end = end,
                          !.start = IF end - from > FwdBacklogSize THEN end - FwdBacklogSize ELSE from]

\* repl_backlog_reset
Reset(base) == [fwdLog EXCEPT !.start = base, !.end = base, !.contig = TRUE]

\* repl_backlog_can_continue, for a slave that knows the master's id.
FwdCanContinue(req) ==
    /\ fwdLog.buf
    /\ fwdLog.contig
    /\ fwdLog.end >= off
    /\ req \in fwdLog.start..fwdLog.end

\* repl_backlog_copy_range; nothing on failure.
CopyRange(from) ==
    IF fwdLog.buf /\ from \in fwdLog.start..fwdLog.end THEN Units(from, fwdLog.end) ELSE <<>>

-----------------------------------------------------------------------------
(* The forwarding thread's state for one replica                           *)

FwdAppendAll(s, bytes, end) ==
    IF s.stalled \/ bytes = <<>> \/ end <= s.wm THEN s
    ELSE IF Len(s.buf) + Len(bytes) > BufMax THEN [s EXCEPT !.stalled = TRUE]
    ELSE [s EXCEPT !.buf = @ \o bytes, !.wm = end]

\* repl_fwd_append: the part above the water mark, if the buffer has room.
FwdAppend(s, bytes, end) ==
    LET start   == IF end > Len(bytes) THEN end - Len(bytes) ELSE 0
        covered == IF start < s.wm THEN s.wm - start ELSE 0
        rest    == SubSeq(bytes, covered + 1, Len(bytes))
    IN  IF s.stalled \/ end <= s.wm \/ rest = <<>> THEN s
        ELSE IF Len(s.buf) + Len(rest) > BufMax THEN [s EXCEPT !.stalled = TRUE]
        ELSE [s EXCEPT !.buf = @ \o rest, !.wm = end]

\* repl_fwd_drain_send: what may come of writing the buffer to the socket of c,
\* and the units the socket took.  A hard error drops the buffer, and the socket
\* takes nothing from then on.  When it took some units before the error, the
\* length that is moved down wraps around and the master dies in memmove.
FwdDrain(c, s) ==
    IF s.buf = <<>> \/ fullsync THEN {[s |-> s, out |-> <<>>, broken |-> c.broken, up |-> TRUE]}
    ELSE {[s   |-> [s EXCEPT !.buf = SubSeq(@, k + 1, Len(@)), !.armed = k < Len(s.buf)],
           out |-> SubSeq(s.buf, 1, k), broken |-> FALSE, up |-> TRUE]
                : k \in IF c.broken THEN {} ELSE 0..Len(s.buf)}
         \cup {[s   |-> [s EXCEPT !.buf = <<>>, !.armed = FALSE],
                out |-> SubSeq(s.buf, 1, k), broken |-> TRUE, up |-> k = 0]
                : k \in IF c.broken THEN {0} ELSE 0..(Len(s.buf) - 1)}

\* The first half of repl_fwd_refill: a buffer less than half full takes more.
Unstall(s) ==
    IF s.stalled /\ Len(s.buf) < BufMax \div 2 THEN [s EXCEPT !.stalled = FALSE] ELSE s

FwdRefillSkips(s) ==
    LET u == Unstall(s)
    IN  IF fullsync THEN s
        ELSE IF u.stalled \/ Len(u.buf) >= BufMax \/ u.wm >= fwdLog.end THEN u
        ELSE FwdAppend(u, CopyRange(u.wm + 1), u.wm + 1 + Len(CopyRange(u.wm + 1)))

\* repl_fwd_refill
FwdRefill(s) ==
    LET u == Unstall(s)
    IN  IF fullsync THEN s
        ELSE IF u.stalled \/ Len(u.buf) >= BufMax \/ u.wm >= fwdLog.end THEN u
        ELSE FwdAppend(u, CopyRange(u.wm), u.wm + Len(CopyRange(u.wm)))

\* The buffer was let go on although the backlog does not reach down to the
\* water mark: what lies between is never sent.
Stranded(s) == s.stalled /\ ~FwdRefill(s).stalled /\ FwdRefill(s).wm = s.wm /\ s.wm < fwdLog.end

Mark(c, g) == IF c.gap = "none" THEN [c EXCEPT !.gap = g] ELSE c

\* The connection c after the thread has written d.out to it and looked for more.
Written(c, d) ==
    LET w == [c EXCEPT !.broken = d.broken,
                       !.wire = @ \o [i \in DOMAIN d.out |-> [n |-> d.out[i], fwd |-> TRUE]]]
    IN  IF d.out # <<>> /\ c.ring # <<>> THEN Mark(w, "crossed")
        ELSE IF Stranded(d.s) THEN Mark(w, "stranded") ELSE w

\* Drain and refill, as repl_fwd_process_one and repl_fwd_drain_fd do.
Pump(a, s) ==
    \E d \in FwdDrain(peer[a], s) :
        /\ st' = [st EXCEPT ![a] = FwdRefill(d.s)]
        /\ peer' = [peer EXCEPT ![a] = Written(@, d)]
        /\ up' = d.up

\* repl_fwd_thread_main with a node, repl_fwd_process_one.
FwdTake ==
    /\ up
    /\ queue # <<>>
    /\ queue' = Tail(queue)
    /\ qbytes' = qbytes - Len(Head(queue).bytes)
    /\ LET n == Head(queue)
           s == [st[n.c] EXCEPT !.exists = TRUE]   \* repl_fwd_get_or_create
       IN  \/ /\ s.dropped
              /\ UNCHANGED <<up, peer, st>>
           \/ /\ ~s.dropped
              /\ Pump(n.c, FwdAppend(s, n.bytes, n.end))
    /\ UNCHANGED <<off, fwdLog, fullsync, replicas, rx, left>>

\* The socket of a is writable again: repl_fwd_epoll_collect, repl_fwd_drain_fd.
FwdWritable(a) ==
    /\ up
    /\ st[a].armed
    /\ ~st[a].dropped
    /\ Pump(a, st[a])
    /\ UNCHANGED <<off, fwdLog, fullsync, replicas, rx, queue, qbytes, left>>

-----------------------------------------------------------------------------
(* The reactor                                                             *)

Ready == up /\ rx.pc = "idle"

\* The rest of the walk over the replicas.
Walk(todo) == IF todo = <<>> THEN Idle ELSE [Idle EXCEPT !.pc = "each", !.todo = todo]

Enqueueing(a, bytes, end, todo) ==
    [pc |-> "put", todo |-> todo, node |-> [c |-> a, bytes |-> bytes, end |-> end]]

\* on_accept
Accept(a) ==
    /\ Ready
    /\ peer[a].phase = "free"
    /\ left.conns > 0
    /\ left' = [left EXCEPT !.conns = @ - 1]
    /\ peer' = [peer EXCEPT ![a] = [Free EXCEPT !.phase = "client"]]
    /\ UNCHANGED <<up, off, fwdLog, fullsync, replicas, rx, queue, qbytes, st>>

\* REPLSYNC answered with +CONTINUE: no barrier is needed, repl_add_slave, and
\* the replay goes to the connection's own output ring.
FwdSyncContinue(a, req) ==
    /\ Ready
    /\ peer[a].phase = "client"
    /\ FwdCanContinue(req)
    /\ replicas' = <<a>> \o replicas
    /\ peer' = [peer EXCEPT ![a] = [@ EXCEPT !.phase = "sync", !.replica = TRUE,
                                             !.base = req, !.upto = off,
                                             !.ring = Units(req, off)]]
    /\ UNCHANGED <<up, off, fwdLog, fullsync, rx, queue, qbytes, st, left>>

\* REPLSYNC answered with +FULLRESYNC, queue_snapshot: it writes to the socket
\* itself, and the reactor does nothing else meanwhile.  When it fails the
\* replica is rejected, and the full synchronisation stays marked as going on.
FwdSyncFull(a, ok) ==
    /\ Ready
    /\ peer[a].phase = "client"
    /\ replicas' = <<a>> \o replicas
    /\ fullsync' = TRUE
    /\ fwdLog' = Reset(off)
    /\ peer' = [peer EXCEPT ![a] = [@ EXCEPT !.phase = "sync", !.replica = TRUE,
                                             !.base = off, !.upto = off,
                                             !.pending = ok, !.loading = ok,
                                             !.draining = ~ok]]
    /\ UNCHANGED <<up, off, rx, queue, qbytes, st, left>>

\* flush_conn_output: the socket takes the first k units of the output ring.
FlushRing(a, k) ==
    /\ Ready
    /\ ~peer[a].broken
    /\ k \in 1..Len(peer[a].ring)
    /\ LET c    == peer[a]
           sent == [i \in 1..k |-> [n |-> c.ring[i], fwd |-> FALSE]]
       IN  peer' = [peer EXCEPT ![a] = [c EXCEPT !.ring = SubSeq(c.ring, k + 1, Len(c.ring)),
                                                !.wire = c.wire \o sent]]
    /\ UNCHANGED <<up, off, fwdLog, fullsync, replicas, rx, queue, qbytes, st, left>>

\* A client's write: repl_backlog_feed, repl_note_broadcast, repl_broadcast.
FwdClientWrite ==
    /\ Ready
    /\ off < MaxFwdWrites
    /\ off' = off + 1
    /\ fwdLog' = Feed
    /\ rx' = Walk(replicas)
    /\ UNCHANGED <<up, fullsync, replicas, peer, queue, qbytes, st, left>>

\* repl_unlink_replica_locked
FwdUnlink(a) == Kept(replicas, {i \in DOMAIN replicas : replicas[i] # a})
Unlinked(c) == [c EXCEPT !.replica = FALSE, !.draining = FALSE, !.pending = FALSE]

Skips(a) ==
    \/ peer[a].pending
    \/ fullsync
    \/ st[a].stalled /\ ~st[a].dropped      \* repl_fwd_is_stalled

\* One replica of repl_broadcast.
BroadcastNext ==
    /\ up
    /\ rx.pc = "each"
    /\ LET a == Head(rx.todo)
       IN  \/ /\ peer[a].draining
              /\ replicas' = FwdUnlink(a)
              /\ peer' = [peer EXCEPT ![a] = Unlinked(@)]
              /\ rx' = Walk(Tail(rx.todo))
           \/ /\ ~peer[a].draining
              /\ Skips(a)
              /\ peer' = [peer EXCEPT ![a] =
                             IF fullsync /\ ~peer[a].pending THEN Mark(@, "passed") ELSE @]
              /\ rx' = Walk(Tail(rx.todo))
              /\ UNCHANGED replicas
           \/ /\ ~peer[a].draining
              /\ ~Skips(a)
              /\ rx' = Enqueueing(a, <<off>>, off, Tail(rx.todo))
              /\ UNCHANGED <<peer, replicas>>
    /\ UNCHANGED <<up, off, fwdLog, fullsync, queue, qbytes, st, left>>

\* repl_fwd_enqueue: with no room the reactor waits for g_fwd_cond.
Enqueue ==
    /\ up
    /\ rx.pc = "put"
    /\ \/ /\ qbytes + Len(rx.node.bytes) > QueueMax
          /\ rx' = [rx EXCEPT !.pc = "wait"]
          /\ UNCHANGED <<queue, qbytes>>
       \/ /\ qbytes + Len(rx.node.bytes) <= QueueMax
          /\ queue' = Append(queue, rx.node)
          /\ qbytes' = qbytes + Len(rx.node.bytes)
          /\ rx' = Walk(rx.todo)
    /\ UNCHANGED <<up, off, fwdLog, fullsync, replicas, peer, st, left>>

\* pthread_cond_wait returns.  Nobody signals g_fwd_cond when a node is taken,
\* so this is a spurious wake-up, which may never come.
SpuriousWakeup ==
    /\ up
    /\ rx.pc = "wait"
    /\ rx' = [rx EXCEPT !.pc = "put"]
    /\ UNCHANGED <<up, off, fwdLog, fullsync, replicas, peer, queue, qbytes, st, left>>

\* repl_fwd_get_watermark
Watermark(a) == IF st[a].dropped THEN 0 ELSE st[a].wm

\* REPLACK: the slave has applied the first k units of what was written to it.
\* A replica that is behind gets the rest of the backlog.
FwdReplAck(a, k) ==
    /\ Ready
    /\ peer[a].phase = "sync"
    /\ k <= Len(peer[a].wire)
    /\ left.acks > 0
    /\ left' = [left EXCEPT !.acks = @ - 1]
    /\ LET applied == peer[a].base + k
           from    == Larger(applied, Watermark(a))
       IN  IF off > applied /\ applied \in fwdLog.start..fwdLog.end /\ CopyRange(from) # <<>>
           THEN /\ rx' = Enqueueing(a, CopyRange(from), fwdLog.end, <<>>)
                /\ peer' = [peer EXCEPT ![a] = IF from < @.upto THEN Mark(@, "resent") ELSE @]
           ELSE UNCHANGED <<rx, peer>>
    /\ UNCHANGED <<up, off, fwdLog, fullsync, replicas, queue, qbytes, st>>

\* REPLDONE: the slave has loaded the snapshot; what came meanwhile is replayed.
FwdReplDone(a) ==
    /\ Ready
    /\ peer[a].loading
    /\ peer[a].replica
    /\ fullsync' = FALSE
    /\ LET c    == [peer[a] EXCEPT !.loading = FALSE, !.pending = FALSE]
           from == Larger(fwdLog.start, Watermark(a))
       IN  /\ peer' = [peer EXCEPT ![a] = IF fwdLog.start > c.base THEN Mark(c, "wrapped") ELSE c]
           /\ rx' = IF off > fwdLog.start /\ CopyRange(from) # <<>>
                    THEN Enqueueing(a, CopyRange(from), fwdLog.end, <<>>) ELSE rx
    /\ UNCHANGED <<up, off, fwdLog, replicas, queue, qbytes, st, left>>

\* The bytes of all the nodes in q.
Bytes(q) ==
    LET sum[i \in 0..Len(q)] == IF i = 0 THEN 0 ELSE sum[i - 1] + Len(q[i].bytes)
    IN  sum[Len(q)]

\* Where the nodes of a are in the queue.
NodesOf(a) == {i \in DOMAIN queue : queue[i].c = a}

PurgeStateOnly(a) ==
    /\ UNCHANGED <<queue, qbytes>>
    /\ st' = IF st[a].exists THEN [st EXCEPT ![a].dropped = TRUE, ![a].armed = FALSE] ELSE st

PurgeMiscounts(a) ==
    /\ queue' = Kept(queue, DOMAIN queue \ NodesOf(a))
    /\ UNCHANGED qbytes
    /\ st' = IF st[a].exists THEN [st EXCEPT ![a].dropped = TRUE, ![a].armed = FALSE] ELSE st

\* repl_fwd_purge_conn: the state stays in the list, marked.
Purge(a) ==
    /\ queue' = Kept(queue, DOMAIN queue \ NodesOf(a))
    /\ qbytes' = qbytes - Bytes(Kept(queue, NodesOf(a)))
    /\ st' = IF st[a].exists THEN [st EXCEPT ![a].dropped = TRUE, ![a].armed = FALSE] ELSE st

\* close_conn: repl_remove_slave, repl_fwd_purge_conn, free.
FwdClose(a) ==
    /\ Ready
    /\ peer[a].phase # "free"
    /\ replicas' = FwdUnlink(a)
    /\ Purge(a)
    /\ peer' = [peer EXCEPT ![a] = Free]
    /\ UNCHANGED <<up, off, fwdLog, fullsync, rx, left>>

FwdNext ==
    \/ FwdClientWrite
    \/ BroadcastNext
    \/ Enqueue
    \/ SpuriousWakeup
    \/ FwdTake
    \/ \E a \in Addrs :
        \/ Accept(a)
        \/ \E req \in 0..MaxFwdWrites : FwdSyncContinue(a, req)
        \/ \E ok \in BOOLEAN : FwdSyncFull(a, ok)
        \/ \E k \in 1..MaxFwdWrites : FlushRing(a, k)
        \/ \E k \in 0..(2 * MaxFwdWrites) : FwdReplAck(a, k)
        \/ FwdReplDone(a)
        \/ FwdClose(a)
        \/ FwdWritable(a)

\* The thread loops, a socket becomes writable in the end, and the reactor goes
\* on with a command it has begun.  Nobody has to come, write or leave.
FwdFairness ==
    /\ WF_fwdVars(FwdTake)
    /\ \A a \in Addrs : WF_fwdVars(FwdWritable(a))
    /\ WF_fwdVars(BroadcastNext)
    /\ WF_fwdVars(Enqueue)

FwdSpec == FwdInit /\ [][FwdNext]_fwdVars
FwdLiveSpec == FwdSpec /\ FwdFairness

-----------------------------------------------------------------------------
(* Properties                                                              *)

\* What a replica reads on its connection is the history from its offset on,
\* without a hole, a repetition or a change of order, whatever the queue, the
\* buffer, the refill from the backlog and the catch-up after REPLACK and
\* REPLDONE did to get it there.  Five situations in which the code loses this
\* are named and excluded: the thread writes while the replay is still in the
\* output ring ("crossed"), a REPLACK makes it send a replay again that is on its way
\* ("resent"), a stalled buffer goes on after the backlog has moved past its
\* water mark ("stranded"), a write is passed over while another replica loads
\* a snapshot ("passed"), the backlog has moved on while this one did
\* ("wrapped").
StreamIntact ==
    \A a \in Addrs : peer[a].gap = "none" =>
        \A i \in DOMAIN peer[a].wire : peer[a].wire[i].n = peer[a].base + i

\* The forwarding thread never writes a unit twice and never an earlier one
\* after a later one, even in those situations: a command that is not idempotent
\* is not applied twice on its account (the water mark of repl_fwd_append).
ForwardOnce ==
    \A a \in Addrs : \A i, j \in DOMAIN peer[a].wire :
        i < j /\ peer[a].wire[i].fwd /\ peer[a].wire[j].fwd
            => peer[a].wire[i].n < peer[a].wire[j].n

\* No node and no live state belongs to a closed connection, whose memory has
\* been freed: the thread uses neither after repl_fwd_purge_conn.
NoDangling ==
    /\ \A i \in DOMAIN queue : peer[queue[i].c].phase # "free"
    /\ \A a \in Addrs : st[a].exists /\ ~st[a].dropped => peer[a].phase # "free"

\* g_fwd_queue_bytes is the number of bytes queued, also after a purge from the
\* middle, and neither the queue nor a buffer exceeds its limit.
Accounting ==
    /\ qbytes = Bytes(queue)
    /\ qbytes <= QueueMax
    /\ \A a \in Addrs : Len(st[a].buf) <= BufMax

\* Back-pressure: a reactor that waits in repl_fwd_enqueue for room in the queue
\* goes on, since the thread keeps taking nodes.
BackpressureEnds == up /\ rx.pc = "wait" ~> ~up \/ rx.pc # "wait"
=============================================================================
