------------------------------ MODULE ReplSync ------------------------------
(***************************************************************************)
(* Resynchronisation of a slave over the "ebpf+tcp" transport.             *)
(*                                                                         *)
(* A slave opens a control connection to the master and asks, with         *)
(* REPLSYNC, to go on from its offset.  The master answers +CONTINUE and a *)
(* replay from its backlog, or +FULLRESYNC and a snapshot.  Later writes   *)
(* reach the slave over another connection, from the ebpf-proxy, which a   *)
(* barrier makes hold them back until the slave has said, with REPLACK or  *)
(* REPLDONE, that the answer has been applied.  Connections break at any   *)
(* time, the master may learn it after the slave has come back on a new    *)
(* one, and the slave may be killed and restarted.                         *)
(*                                                                         *)
(* Every write is one unit long, so that an offset counts writes and write *)
(* n of the history is the one that takes the offset from n - 1 to n.  The *)
(* Commit Gate (module CommitGate) is seen here by what it promises: a     *)
(* captured write reaches the proxy in commit order, or the session is     *)
(* invalidated.                                                            *)
(***************************************************************************)
EXTENDS Naturals, Sequences, FiniteSets

CONSTANTS
    Keys,         \* keys of the store
    BacklogSize,  \* KVS_REPL_BACKLOG_SIZE, in writes
    OutRing,      \* OUT_RING_SIZE, in writes: what a replay can queue at once
    MaxConns,     \* bound: control connections the slave opens
    MaxWrites,    \* bound: writes on the master
    MaxUnread,    \* bound: messages of the slave unread when a second has passed
    MaxFaults     \* bound: proxy faults, barrier and snapshot failures, lost
                  \* data connections, killed slaves

ASSUME SizesAssumption ==
    /\ {BacklogSize, OutRing, MaxConns} \subseteq Nat \ {0}
    /\ {MaxWrites, MaxUnread, MaxFaults} \subseteq Nat

Conns == 1..MaxConns
NoConn == 0

VARIABLES
    hist,    \* the writes of the master, the n-th ending at offset n
    blog,    \* g_repl_backlog and g_repl_backlog_contiguous
    reps,    \* g_replicas
    drain,   \* connections with repl_draining set
    sess,    \* is there a replication session?
    bar,     \* g_barrier_*
    conn,    \* each control connection: its state and both directions
    px,      \* the proxy: capture, barrier state, cache, data connection
    sl,      \* the slave process and its files
    gap,     \* history: the way the slave has got out of step, if it has
    faults   \* what is left of MaxFaults

master == <<hist, blog, reps, drain, sess, bar>>
vars == <<hist, blog, reps, drain, sess, bar, conn, px, sl, gap, faults>>

Absent == 0

\* A store: the write that gave each key its value, or Absent.
EmptyDb == [k \in Keys |-> Absent]

\* Does the store change (return code 0)?  A DEL of a missing key does not.
Changes(db, w) == w.op = "set" \/ db[w.k] # Absent

\* The store db after the writes ns, in that order: for each key the last one.
Play(db, ns) ==
    [k \in Keys |->
        LET at == {i \in DOMAIN ns : hist[ns[i]].k = k}
        IN  IF at = {} THEN db[k]
            ELSE LET n == ns[CHOOSE i \in at : \A j \in at : j <= i]
                 IN  IF hist[n].op = "set" THEN n ELSE Absent]

\* The master's store when its offset was n.
After(n) == Play(EmptyDb, [i \in 1..n |-> i])

Offset == Len(hist)
BacklogEnd == blog.start + Len(blog.data)

Init ==
    /\ hist = <<>>
    /\ blog = [buf |-> FALSE, start |-> 0, data |-> <<>>, contig |-> TRUE]
    /\ reps = {}
    /\ drain = {}
    /\ sess = FALSE
    /\ bar = [active |-> FALSE, gated |-> FALSE, end |-> 0, marker |-> 0]
    /\ conn = [i \in Conns |-> [st |-> "new", wire |-> <<>>, back |-> <<>>]]
    /\ px = [capture |-> FALSE, faulted |-> FALSE, buffering |-> TRUE,
             cache |-> <<>>, overflow |-> FALSE, wire |-> <<>>]
    /\ sl = [c |-> NoConn, id |-> FALSE, off |-> 0,
             loading |-> FALSE, loaded |-> 0, tmp |-> <<>>, db |-> EmptyDb,
             dump |-> EmptyDb, log |-> <<>>, quiet |-> FALSE]
    /\ gap = "none"
    /\ faults = MaxFaults

-----------------------------------------------------------------------------
(* The master's state: backlog, session, barrier                           *)

Fst(q, n) == SubSeq(q, 1, n)
Last(q, n) == IF Len(q) <= n THEN q ELSE SubSeq(q, Len(q) - n + 1, Len(q))

\* repl_backlog_feed: nothing is recorded without a replica, and the history
\* then has a hole.  The buffer is allocated by the first write it records.
BacklogFeed(n) ==
    IF reps = {} THEN [blog EXCEPT !.contig = FALSE]
    ELSE LET b == IF blog.buf THEN blog
                  ELSE [blog EXCEPT !.buf = TRUE, !.start = n - 1, !.data = <<>>]
             d == Last(Append(b.data, n), BacklogSize)
         IN  [b EXCEPT !.data = d, !.start = b.start + Len(b.data) + 1 - Len(d)]

BacklogResetKeepsBytes(base) == [blog EXCEPT !.start = base, !.contig = TRUE]

\* repl_backlog_reset
BacklogReset(base) == [blog EXCEPT !.start = base, !.data = <<>>, !.contig = TRUE]

\* repl_backlog_can_continue
CanContinue(id, off) ==
    /\ id
    /\ blog.buf
    /\ blog.contig
    /\ BacklogEnd >= Offset
    /\ off \in blog.start..BacklogEnd

\* queue_bytes: what does not fit the connection's output ring is not sent.
Fitting(ns) ==
    [i \in 1..(IF Len(ns) < OutRing THEN Len(ns) ELSE OutRing) |-> [t |-> "cmd", n |-> ns[i]]]

ReplayFromStart(off, end) == Fitting(Fst(blog.data, end - off))

\* repl_backlog_write_range_upto, through repl_send_chunked.
Replay(off, end) == Fitting(SubSeq(blog.data, off - blog.start + 1, end - blog.start))

\* What the slave reads of what is written to connection i: nothing once it has
\* left.
Write(i, msgs) == IF sl.c = i THEN conn[i].wire \o msgs ELSE <<>>

Lowered == [bar EXCEPT !.active = FALSE, !.gated = FALSE, !.marker = 0]

\* repl_end_session_notify: the barrier is cancelled; the proxy sees
\* SESSION_VALID = 0 and drops what it holds.
EndedPx(p) == [p EXCEPT !.capture = FALSE, !.faulted = FALSE, !.cache = <<>>]

\* repl_session_invalidate: capture off, every replica draining and shut down.
Shut(cs, is) == [i \in Conns |-> IF i \in is THEN [cs[i] EXCEPT !.st = "shut", !.back = <<>>]
                                 ELSE cs[i]]
InvalidPx(p) == [p EXCEPT !.capture = FALSE, !.cache = <<>>]

\* cache_append: refused once the cache has overflowed; the Commit Gate then
\* has a write it cannot deliver.
Cached(p, ns) == IF p.overflow THEN [p EXCEPT !.faulted = @ \/ ns # <<>>]
                 ELSE [p EXCEPT !.cache = @ \o ns]

\* What the proxy sends goes to the slave, or waits in the cache for it; a gate
\* that has a fault sends nothing.
Forward(p, ns) == IF p.faulted THEN p
                  ELSE IF sl.c = NoConn THEN Cached(p, ns)
                  ELSE [p EXCEPT !.wire = @ \o ns]

\* RESUME and client_ctl[3] = 0: the proxy forgets what the marker covers and
\* flushes the rest.
Resumed(p, marker) ==
    Forward([p EXCEPT !.buffering = FALSE, !.cache = <<>>],
            SelectSeq(p.cache, LAMBDA n : n > marker))

\* A failure uses up one of the faults.
Costs(n) == faults >= n /\ faults' = faults - n

\* repl_barrier_release of barrier b, which is up.  A RESUME that cannot be sent invalidates
\* the session.  cs, rs, ds and p are the state it finds.
Release(b, cs, rs, ds, p) ==
    /\ bar' = Lowered
    /\ \/ /\ conn' = cs /\ drain' = ds /\ px' = Resumed(p, b.marker)
          /\ UNCHANGED faults
       \/ /\ Costs(1)
          /\ conn' = Shut(cs, rs) /\ drain' = ds \cup rs /\ px' = InvalidPx(p)

\* The ways a slave gets out of step that the code does not exclude:
\*   "torn"      it takes a snapshot's offset and never gets the whole snapshot;
\*   "tmp"       a snapshot is appended to the pieces of an earlier one;
\*   "leftover"  a snapshot is loaded over keys it does not have;
\*   "ahead"     a restarted slave asks to go on after writes it has lost;
\*   "lost"      the data connection breaks with writes under way;
\*   "early"     the proxy forwards to a connection not yet synchronised;
\*   "overlap"   a REPLSYNC finds the barrier of another one.
\* A full load heals all but the last two, whose writes may come after it.
Lasting == {"early", "overlap"}
Gaps == {"torn", "tmp", "leftover", "ahead", "lost"} \cup Lasting

\* The first one is kept, unless one of gs lasts longer.
Noted(gs) ==
    IF gs = {} \/ gap \in Lasting THEN gap
    ELSE IF gs \cap Lasting # {} THEN CHOOSE g \in gs \cap Lasting : TRUE
    ELSE IF gap = "none" THEN CHOOSE g \in gs : TRUE ELSE gap

\* This step forwards to a slave that is connected, but whose REPLSYNC
\* the master has still to read.
Early == IF px'.wire # px.wire /\ sl.c \notin reps' THEN {"early"} ELSE {}

-----------------------------------------------------------------------------
(* The master: clients' writes, the end of connections                     *)

UnlinkOnly(gone, p) ==
    /\ reps' = reps \ gone
    /\ drain' = drain \ gone
    /\ px' = p
    /\ UNCHANGED <<sess, bar>>

\* repl_unlink_replica_locked for the members of gone, and what its callers do
\* when the last replica has left.
Unlink(gone, p) ==
    /\ reps' = reps \ gone
    /\ drain' = drain \ gone
    /\ IF reps \cap gone # {} /\ reps \subseteq gone
       THEN sess' = FALSE /\ bar' = Lowered /\ px' = EndedPx(p)
       ELSE UNCHANGED <<sess, bar>> /\ px' = p

\* repl_broadcast: the proxy sends the data, so all it does with this transport is
\* unlink the replicas that are draining.
Broadcast(p) == Unlink(reps \cap drain, p)

PublishedPastBarrier(n) ==
    IF ~sess \/ px.faulted THEN px
    ELSE IF ~px.capture THEN [px EXCEPT !.faulted = TRUE]
    ELSE Forward(px, <<n>>)

\* repl_commit_publish_write: with capture on the write gets to the proxy, and
\* from there into the cache (barrier up) or to the slave; with capture off the
\* proxy is left with a descriptor that nothing matches.
Published(n) ==
    IF ~sess \/ px.faulted THEN px
    ELSE IF ~px.capture THEN [px EXCEPT !.faulted = TRUE]
    ELSE IF px.buffering THEN Cached(px, <<n>>)
    ELSE Forward(px, <<n>>)

\* The write path of handle_parsed_command: execute, publish, feed the backlog,
\* count, and broadcast.
ClientWrite(k, op) ==
    LET n == Offset + 1
        w == [k |-> k, op |-> op]
    IN  /\ n <= MaxWrites
        /\ Changes(After(Offset), w)
        /\ hist' = Append(hist, w)
        /\ blog' = BacklogFeed(n)
        /\ Broadcast(Published(n))
        /\ gap' = Noted(Early)
        /\ UNCHANGED <<conn, sl, faults>>

\* close_conn, once the master has read everything and then end-of-file.
Close(i) ==
    /\ \/ conn[i].st = "gone" /\ conn[i].back = <<>>
       \/ conn[i].st = "shut"
    /\ conn' = [conn EXCEPT ![i].st = "closed"]
    /\ Unlink({i}, px)
    /\ UNCHANGED <<hist, blog, sl, gap, faults>>

\* A fault of the Commit Gate (proxy_health_thread, repl_commit_rearm_tick): one
\* of many causes, or a descriptor that was not matched in time.
ProxyFault ==
    /\ reps # {}
    /\ \/ px.faulted /\ UNCHANGED faults
       \/ Costs(1)
    /\ conn' = Shut(conn, reps)
    /\ drain' = drain \cup reps
    /\ px' = [InvalidPx(px) EXCEPT !.faulted = FALSE]
    /\ UNCHANGED <<hist, blog, reps, sess, bar, sl, gap>>

\* The proxy's cache reaches its hard limit (proxy_cache.c).
CacheOverflow ==
    /\ px.cache # <<>>
    /\ Costs(1)
    /\ px' = [px EXCEPT !.cache = <<>>, !.overflow = TRUE, !.faulted = TRUE]
    /\ UNCHANGED <<master, conn, sl, gap>>

-----------------------------------------------------------------------------
(* The master: REPLSYNC, REPLACK, REPLDONE                                 *)

\* The next command on connection i is of type t.
Reads(i, t) ==
    /\ conn[i].st \in {"up", "fin", "gone"}
    /\ conn[i].back # <<>>
    /\ Head(conn[i].back).t = t

\* The connection after that, with msgs written to it.
Answered(i, msgs) ==
    [conn EXCEPT ![i].back = Tail(@), ![i].wire = Write(i, msgs)]

\* repl_reject_replica: shutdown of the write direction.
Rejected(cs, i) == [cs EXCEPT ![i].st = IF @ = "up" THEN "fin" ELSE @]

\* repl_barrier_begin, when the proxy confirms: a barrier that is already up is
\* kept as it is, marker included.
Raised == IF bar.active THEN bar
          ELSE [active |-> TRUE, gated |-> FALSE, end |-> Offset, marker |-> Offset]
RaisedPx == IF bar.active THEN px
            ELSE [px EXCEPT !.buffering = TRUE, !.cache = <<>>, !.overflow = FALSE]

\* repl_add_slave: the first replica opens a session and capture with it.
Attached == IF reps = {} THEN [RaisedPx EXCEPT !.capture = TRUE, !.faulted = FALSE,
                                               !.cache = <<>>, !.overflow = FALSE]
            ELSE RaisedPx

\* The barrier in place was raised by another REPLSYNC.
Overlap == IF bar.active THEN {"overlap"} ELSE {}

\* REPLSYNC when the proxy does not confirm the barrier: it may have seen its
\* two edges too late, or not at all.
SyncRefused(i, seen) ==
    /\ Reads(i, "sync")
    /\ ~bar.active
    /\ Costs(1)
    /\ conn' = Rejected(Answered(i, <<>>), i)
    /\ drain' = drain \cup {i}
    /\ px' = IF seen THEN [RaisedPx EXCEPT !.buffering = FALSE] ELSE px
    /\ UNCHANGED <<hist, blog, reps, sess, bar, sl, gap>>

\* REPLSYNC answered with +CONTINUE.  The result of the replay is not looked at.
SyncContinue(i) ==
    LET m == Head(conn[i].back)
        cs == Answered(i, <<[t |-> "continue"]>> \o Replay(m.off, Offset))
    IN  /\ Reads(i, "sync")
        /\ CanContinue(m.id, m.off)
        /\ reps' = reps \cup {i}
        /\ sess' = TRUE
        /\ \/ /\ m.off >= Offset
              /\ Release(Raised, cs, reps \cup {i}, drain \ {i}, Attached)
           \/ /\ m.off < Offset
              /\ bar' = [Raised EXCEPT !.gated = TRUE]
              /\ conn' = cs
              /\ drain' = drain \ {i}
              /\ px' = Attached
              /\ UNCHANGED faults
        /\ gap' = Noted(Overlap \cup Early \cup
                        (IF sl.loading /\ sl.c = i THEN {"torn"} ELSE {}))
        /\ UNCHANGED <<hist, blog, sl>>

\* A snapshot is sent as a header and this many pieces.
Pieces == 2

Snapshot(base) ==
    <<[t |-> "full", base |-> base]>>
        \o [p \in 1..Pieces |-> [t |-> "kvsd", base |-> base, p |-> p]]

\* REPLSYNC answered with +FULLRESYNC: queue_snapshot sends the first n parts;
\* if that is not all, the replica is rejected and the barrier released.
SyncFull(i, n) ==
    LET m == Head(conn[i].back)
        cs == Answered(i, Fst(Snapshot(Offset), n))
    IN  /\ Reads(i, "sync")
        /\ ~CanContinue(m.id, m.off)
        /\ reps' = reps \cup {i}
        /\ sess' = TRUE
        /\ blog' = BacklogReset(Offset)
        /\ \/ /\ n = Pieces + 1
              /\ bar' = Raised
              /\ conn' = cs
              /\ drain' = drain \ {i}
              /\ px' = Attached
              /\ UNCHANGED faults
           \/ /\ n <= Pieces
              /\ Release(Raised, Rejected(cs, i), reps \cup {i}, drain \cup {i}, Attached)
        /\ gap' = Noted(Overlap \cup Early \cup
                        (IF n <= Pieces /\ sl.c = i THEN {"torn"} ELSE {}))
        /\ UNCHANGED <<hist, sl>>

\* REPLACK: a cache that has overflowed costs the replica its connection; else an
\* offset at the barrier's end releases a barrier that waits for one.
ReplAck(i) ==
    LET m == Head(conn[i].back)
    IN  /\ Reads(i, "ack")
        /\ \/ /\ px.overflow
              /\ conn' = Rejected(Answered(i, <<>>), i)
              /\ drain' = drain \cup {i}
              /\ UNCHANGED <<bar, px, faults>>
           \/ /\ ~px.overflow
              /\ bar.active /\ bar.gated /\ m.off >= bar.end
              /\ Release(bar, Answered(i, <<>>), reps, drain, px)
           \/ /\ ~px.overflow
              /\ ~(bar.active /\ bar.gated /\ m.off >= bar.end)
              /\ conn' = Answered(i, <<>>)
              /\ UNCHANGED <<drain, bar, px, faults>>
        /\ UNCHANGED <<hist, blog, reps, sess, sl>>
        /\ gap' = Noted(Early)

\* REPLDONE, which counts from any connection that is still a replica.
ReplDone(i) ==
    /\ Reads(i, "done")
    /\ \/ /\ i \in reps /\ bar.active
          /\ Release(bar, Answered(i, <<>>), reps, drain, px)
       \/ /\ ~(i \in reps /\ bar.active)
          /\ conn' = Answered(i, <<>>)
          /\ UNCHANGED <<drain, bar, px, faults>>
    /\ UNCHANGED <<hist, blog, reps, sess, sl>>
    /\ gap' = Noted(Early)

\* repl_barrier_tick, REPL_BARRIER_HOLD_MAX_MS after a replay was sent.
BarrierExpires ==
    /\ bar.active
    /\ bar.gated
    /\ bar' = Lowered
    /\ conn' = Shut(conn, reps)
    /\ drain' = drain \cup reps
    /\ px' = InvalidPx(px)
    /\ UNCHANGED <<hist, blog, reps, sess, sl, gap, faults>>

-----------------------------------------------------------------------------
(* The slave                                                               *)

\* repl_slave_send_ack with offset off, and the slave after it: at most one per
\* second, and only on a live connection.
AckMsgs(off) == IF sl.quiet THEN <<>> ELSE <<[t |-> "ack", off |-> off]>>
Sent(cs, msgs) == IF cs[sl.c].st \in {"up", "fin"}
                  THEN [cs EXCEPT ![sl.c].back = @ \o msgs] ELSE cs

\* slave_thread connects, a second or more after the last connection, and sends
\* REPLSYNC with the offset it has.
Connect(i) ==
    /\ sl.c = NoConn
    /\ conn[i].st = "new" /\ \A j \in 1..(i - 1) : conn[j].st # "new"
    /\ conn' = [conn EXCEPT ![i].st = "up",
                            ![i].back = <<[t |-> "sync", id |-> sl.id, off |-> sl.off]>>]
    /\ sl' = [sl EXCEPT !.c = i]
    /\ UNCHANGED <<master, px, gap, faults>>

\* The connection without the slave at its end.  What it sent may be lost too.
Left(i, lost) ==
    [conn EXCEPT ![i].st = IF @ \in {"up", "fin"} THEN "gone" ELSE @,
                 ![i].wire = <<>>, ![i].back = IF lost THEN <<>> ELSE @]

\* The control connection breaks or is at its end: slave_thread closes the data
\* connection as well.  Its offsets, the loading flag and the temporary file stay.
Leave(lost) ==
    /\ sl.c # NoConn
    /\ conn' = Left(sl.c, lost)
    /\ sl' = [sl EXCEPT !.c = NoConn, !.quiet = FALSE]
    /\ px' = [px EXCEPT !.wire = <<>>]
    /\ UNCHANGED <<master, gap, faults>>

\* replay_dump_file on the received file, over what is in memory: keys that the
\* snapshot does not have stay.
Loaded(base) == [k \in Keys |-> IF After(base)[k] # Absent THEN After(base)[k] ELSE sl.db[k]]

IsSnapshot(f, base) == f = Tail(Snapshot(base))

\* parse_resp_stream while loading: whatever message m arrives is written to the
\* file, and the last expected piece ends the load (repl_slave_finish_fullsync).
\* A file that is not the snapshot is refused by the loader half-way.
Swallow(m, cs) ==
    LET f == Append(sl.tmp, m)
        whole == IsSnapshot(f, sl.off)
        db == IF whole THEN Loaded(sl.off) ELSE sl.db
    IN  IF sl.loaded + 1 < Pieces
        THEN /\ sl' = [sl EXCEPT !.tmp = f, !.loaded = @ + 1, !.quiet = TRUE]
             /\ conn' = Sent(cs, AckMsgs(sl.off))
             /\ UNCHANGED gap
        ELSE /\ sl' = [sl EXCEPT !.loading = FALSE, !.tmp = <<>>, !.loaded = 0, !.db = db,
                                 !.dump = IF whole THEN After(sl.off) ELSE sl.db,
                                 !.log = <<>>, !.quiet = TRUE]
             /\ conn' = Sent(cs, <<[t |-> "done"]>> \o AckMsgs(sl.off))
             /\ gap' = IF ~whole \/ gap \in Lasting THEN gap
                       ELSE IF db # After(sl.off) THEN "leftover" ELSE "none"

\* A replicated command: note_durable acknowledges the offset before it, unless
\* an acknowledgement went out within the last second; late is when that second
\* ends before the heartbeat that follows.  A command that changes nothing is
\* not counted.
Apply(n, cs, late) ==
    LET ok == Changes(sl.db, hist[n])
        to == IF ok THEN sl.off + 1 ELSE sl.off
    IN  /\ sl' = [sl EXCEPT !.off = to, !.quiet = TRUE,
                            !.db = IF ok THEN Play(@, <<n>>) ELSE @,
                            !.log = IF ok THEN Append(@, n) ELSE @]
        /\ conn' = Sent(cs, IF ~sl.quiet THEN AckMsgs(sl.off)
                            ELSE IF late THEN <<[t |-> "ack", off |-> to]>> ELSE <<>>)
        /\ UNCHANGED gap

\* repl_slave_set_sync_state for +FULLRESYNC: the offset is the snapshot's before
\* the snapshot is there.  A temporary file left by a load that was cut off is
\* still open, and goes on being written to.
OnFull(m, cs) ==
    /\ sl' = [sl EXCEPT !.id = TRUE, !.off = m.base, !.loading = TRUE, !.loaded = 0,
                        !.quiet = TRUE]
    /\ conn' = Sent(cs, AckMsgs(m.base))
    /\ gap' = Noted(IF sl.tmp # <<>> THEN {"tmp"} ELSE {})

\* The same for +CONTINUE: not loading (any more), temporary file removed.
OnContinue(cs) ==
    /\ sl' = [sl EXCEPT !.id = TRUE, !.loading = FALSE, !.loaded = 0, !.tmp = <<>>,
                        !.quiet = TRUE]
    /\ conn' = Sent(cs, AckMsgs(sl.off))
    /\ UNCHANGED gap

\* The slave reads the next message of the control connection.
RecvControl(late) ==
    /\ sl.c # NoConn
    /\ conn[sl.c].wire # <<>>
    /\ LET m == Head(conn[sl.c].wire)
           cs == [conn EXCEPT ![sl.c].wire = Tail(@)]
       IN  \/ m.t = "full" /\ OnFull(m, cs)
           \/ m.t = "continue" /\ OnContinue(cs)
           \/ m.t \in {"kvsd", "cmd"} /\ sl.loading /\ Swallow(m, cs)
           \/ m.t = "cmd" /\ ~sl.loading /\ Apply(m.n, cs, late)
           \/ m.t = "kvsd" /\ ~sl.loading /\ conn' = cs /\ UNCHANGED <<sl, gap>>
    /\ UNCHANGED <<master, px, faults>>

\* The slave reads a write the proxy forwarded.
RecvData(late) ==
    /\ sl.c # NoConn
    /\ px.wire # <<>>
    /\ px' = [px EXCEPT !.wire = Tail(@)]
    /\ LET m == [t |-> "cmd", n |-> Head(px.wire)]
       IN  \/ sl.loading /\ Swallow(m, conn)
           \/ ~sl.loading /\ Apply(m.n, conn, late)
    /\ UNCHANGED <<master, faults>>

\* A second since the last REPLACK.  Bound: MaxUnread of the slave's messages
\* wait for the master meanwhile.
Second ==
    /\ sl.quiet
    /\ Len(conn[sl.c].back) <= MaxUnread
    /\ sl' = [sl EXCEPT !.quiet = FALSE]
    /\ UNCHANGED <<master, conn, px, gap, faults>>

\* The slave is killed and started again: it recovers its dump and the n first
\* writes of its AOF, as many as its AOF thread had written (module AofPipeline),
\* and repl_slave_state_load gives it the offset it had.
Restart(n, lost) ==
    /\ Costs(1)
    /\ n <= Len(sl.log)
    /\ sl' = [sl EXCEPT !.c = NoConn, !.loading = FALSE, !.loaded = 0, !.tmp = <<>>,
                        !.db = Play(sl.dump, Fst(sl.log, n)), !.log = Fst(@, n),
                        !.quiet = FALSE]
    /\ conn' = IF sl.c = NoConn THEN conn ELSE Left(sl.c, lost)
    /\ px' = [px EXCEPT !.wire = <<>>]
    /\ gap' = Noted(IF sl.loading THEN {"torn"}
                    ELSE IF n < Len(sl.log) THEN {"ahead"} ELSE {})
    /\ UNCHANGED master

-----------------------------------------------------------------------------
(* The proxy's data connection                                             *)

\* The data connection alone breaks; what the kernel held is lost.
DataLost ==
    /\ px.wire # <<>>
    /\ Costs(1)
    /\ px' = [px EXCEPT !.wire = <<>>]
    /\ gap' = Noted({"lost"})
    /\ UNCHANGED <<master, conn, sl>>

\* The proxy connects again within a session and flushes its cache.
Relink ==
    /\ sess
    /\ ~px.buffering
    /\ px.cache # <<>>
    /\ sl.c # NoConn
    /\ px' = Resumed(px, 0)
    /\ UNCHANGED <<master, conn, sl, faults>>
    /\ gap' = Noted(Early)

-----------------------------------------------------------------------------
Master ==
    \/ \E k \in Keys, op \in {"set", "del"} : ClientWrite(k, op)
    \/ \E i \in Conns : Close(i) \/ SyncContinue(i) \/ ReplAck(i) \/ ReplDone(i)
    \/ \E i \in Conns, seen \in BOOLEAN : SyncRefused(i, seen)
    \/ \E i \in Conns, n \in 0..(Pieces + 1) : SyncFull(i, n)
    \/ ProxyFault
    \/ BarrierExpires

Slave ==
    \/ \E i \in Conns : Connect(i)
    \/ \E b \in BOOLEAN : Leave(b) \/ RecvControl(b) \/ RecvData(b)
    \/ \E n \in 0..MaxWrites, lost \in BOOLEAN : Restart(n, lost)
    \/ Second

Proxy == CacheOverflow \/ DataLost \/ Relink

Next == Master \/ Slave \/ Proxy

Spec == Init /\ [][Next]_vars

-----------------------------------------------------------------------------
(* Properties                                                              *)

\* A slave that is not loading and that has met none of the known ways out of
\* step has exactly the store the master had at the slave's offset: whatever was
\* replayed, cached, flushed, lost with a connection or sent again in between.
ReplicaConsistent ==
    sl.id /\ ~sl.loading /\ gap = "none" => sl.off <= Offset /\ sl.db = After(sl.off)

\* A slave takes the writes one by one in the master's order, over whichever of
\* its two connections they come: repl_barrier_* keeps the proxy's flush behind
\* the replay.
InOrder ==
    [][sl'.off = sl.off + 1 /\ Len(sl'.log) > Len(sl.log) /\ gap = "none"
         => sl'.log[Len(sl'.log)] = sl'.off]_vars

\* While there is a replica the backlog ends at the master's offset and holds
\* the very writes its offsets say (repl_backlog_end_offset = master_repl_offset).
BacklogExact ==
    /\ reps # {} => blog.contig /\ (blog.buf => BacklogEnd = Offset)
    /\ blog.buf => \A i \in DOMAIN blog.data : blog.data[i] = blog.start + i

\* Without a replica nothing is captured and no barrier is up, however the last
\* replica went: closed, rejected, shut down, or unlinked by a later write.
NoReplicaNoCapture == reps = {} => ~px.capture /\ ~bar.active /\ ~sess

=============================================================================
