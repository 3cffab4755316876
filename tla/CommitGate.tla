----------------------------- MODULE CommitGate -----------------------------
(***************************************************************************)
(* The Commit Gate between the master and the ebpf-proxy process.          *)
(*                                                                         *)
(* A BPF program copies every byte the master receives from a client into  *)
(* a ring buffer.  The proxy cuts the bytes into commands, but forwards a  *)
(* command to the slave only once the master has said, over a separate     *)
(* Unix socket, that the command was committed as a write and which place  *)
(* it has in the global write order.  The two streams race each other, and *)
(* both race the barrier that a replica's REPLSYNC raises.                 *)
(*                                                                         *)
(* Actors: the master's owner thread (client reads, REPLSYNC, release of   *)
(* the barrier, end of the session), the master's health thread, and the   *)
(* proxy's main loop, step by step.  A command is one member of Commands,  *)
(* received by one read; a CRC is the command itself.                      *)
(***************************************************************************)
EXTENDS Naturals, Sequences, SequencesExt

CONSTANTS
    Clients,     \* connections that send commands
    Replicas,    \* connections that send REPLSYNC
    Early,       \* connections accepted before the first step
    Writes,      \* commands that change the store
    Reads,       \* commands that do not
    None,        \* no connection
    ReplSyncCmd, \* the REPLSYNC command, as bytes
    MaxCmds,     \* bound: commands executed
    MaxFaults    \* bound: faults, one for each record lost at a full ring buffer,
                 \* failed send on the commit channel, connection closed, loss or
                 \* failed set-up of the proxy's connection to the slave

ASSUME BoundsAssumption ==
    /\ {MaxCmds, MaxFaults} \subseteq Nat
    /\ Clients \cap Replicas = {}
    /\ Early \subseteq Clients \cup Replicas
    /\ Writes \cap Reads = {}

Conns == Clients \cup Replicas
Commands == Writes \cup Reads

VARIABLES
    conn,    \* state of each connection at the master
    parsed,  \* repl_parsed_seq of each connection
    hist,    \* history: every write the master executed, with its global_seq
             \* (0 when it was not published)
    gseq,    \* g_global_seq
    sn,      \* session: id (0 = none), last id used, replicas, those draining,
             \* and from: what its first replica got over the control connection
    bar,     \* barrier: where the owner thread is, for whom, the marker
    fd,      \* g_commit_fd >= 0
    chan,    \* messages on the commit channel, a break included
    health,  \* g_commit_reconnected and g_proxy_failure_pending
    ctl,     \* client_ctl keys the master and the proxy share
    ring,    \* records in the BPF ring buffer
    rseq,    \* last recv_seq the BPF program gave each connection
    pc,      \* where the proxy's main loop is
    retry,   \* is it in the reconnect loop?
    late,    \* has something been missing for PC_TIMEOUT_MS?
    px,      \* the rest of the proxy process
    left     \* what remains of the two bounds

master == <<conn, parsed, hist, gseq, sn, bar>>
loop == <<pc, retry, late>>
gateVars == <<conn, parsed, hist, gseq, sn, bar, fd, chan, health, ctl, ring,
              rseq, pc, retry, late, px, left>>

NoCtx == [base |-> FALSE, ignored |-> FALSE, next |-> 0, seen |-> FALSE,
          last |-> 0, buf |-> <<>>, cmds |-> <<>>, descs |-> <<>>]

\* The proxy has started, has found the capture gate closed, and has since read
\* the baselines of the Early connections.
GateInit ==
    /\ conn = [c \in Conns |-> IF c \in Early THEN "open" ELSE "new"]
    /\ parsed = [c \in Conns |-> 0]
    /\ hist = <<>>
    /\ gseq = 0
    /\ sn = [id |-> 0, last |-> 0, reps |-> {}, draining |-> {}, from |-> 0]
    /\ bar = [at |-> "loop", by |-> None, active |-> FALSE, marker |-> 0]
    /\ fd = TRUE
    /\ chan = <<>>
    /\ health = [reconnected |-> FALSE, pending |-> FALSE]
    /\ ctl = [fullsync |-> 0, proxy |-> 0, capture |-> 0]
    /\ ring = <<>>
    /\ rseq = [c \in Conns |-> 0]
    /\ pc = "poll"
    /\ retry = FALSE
    /\ late = FALSE
    /\ px = [mfd |-> TRUE,
             ctx |-> [c \in Conns |-> IF c \in Early THEN [NoCtx EXCEPT !.base = TRUE, !.next = 1]
                                      ELSE NoCtx],
             epoch |-> 0, next |-> 0, ready |-> <<>>, buffering |-> TRUE,
             wait |-> FALSE, rec |-> <<>>, faulted |-> FALSE, code |-> FALSE,
             handled |-> FALSE, cfault |-> FALSE, drop |-> TRUE,
             state |-> "BUFFERING", seen |-> 0, sid |-> 0, link |-> FALSE,
             event |-> FALSE, cache |-> <<>>, out |-> <<>>]
    /\ left = [cmds |-> MaxCmds, faults |-> MaxFaults]

-----------------------------------------------------------------------------
(* The master: messages, capture, commands                                 *)

\* commit_send_msg: nothing is sent on a closed channel.
Sent(q, msgs) == IF fd THEN q \o msgs ELSE q

\* A descriptor for command n of connection c; g is 0 in a SKIP.
Batch(c, n, cmd, g) ==
    [t |-> "batch", desc |-> [c |-> c, n |-> n, crc |-> cmd, g |-> g], epoch |-> sn.id]

Baseline(c, n, id) == [t |-> "baseline", c |-> c, n |-> n, epoch |-> id]

\* commit_send_all_baselines: a baseline for each connection of cs.
Baselines(cs, id) == SetToSeq({Baseline(c, parsed[c] + 1, id) : c \in cs})

\* fexit_tcp_recvmsg: records are made only while capture is enabled (and only
\* for connections on the allowlist, the open ones).  A full ring loses the
\* record, but its sequence number is already used.
Captured(c, cmd, lost) ==
    /\ rseq' = [rseq EXCEPT ![c] = @ + ctl.capture]
    /\ ring' = IF ctl.capture = 1 /\ ~lost
               THEN Append(ring, [c |-> c, n |-> rseq[c] + 1, cmd |-> cmd])
               ELSE ring

\* commit_send_locked: a failed send loses the message and closes the channel;
\* the proxy reads end-of-file after what was sent before.
Broken(q) == Append(q, [t |-> "eof"])

\* repl_end_session_notify, repl_commit_session_end: the barrier is cancelled
\* without RESUME, descriptors not yet sent are forgotten.
EndSession ==
    /\ sn' = [sn EXCEPT !.id = 0, !.reps = {}, !.draining = {}]
    /\ bar' = [bar EXCEPT !.active = FALSE, !.marker = 0]
    /\ ctl' = [ctl EXCEPT !.capture = 0]

\* on_accept: a client gets a baseline whether or not a session exists.
Accept(c) ==
    /\ bar.at = "loop"
    /\ conn[c] = "new"
    /\ conn' = [conn EXCEPT ![c] = "open"]
    /\ chan' = Sent(chan, <<Baseline(c, 1, sn.id)>>)
    /\ UNCHANGED <<loop, parsed, hist, gseq, sn, bar, fd, health, ctl, ring, rseq, px, left>>

\* A read of one command: capture, execution, publish_write or publish_skip,
\* repl_broadcast (which unlinks draining replicas, and ends the session with
\* the last one) and the flush at the end of parse_resp_stream.
Read(c, cmd, lost, broken) ==
    LET write  == cmd \in Writes
        posted == sn.id # 0 /\ fd
        ends   == write /\ sn.reps # {} /\ sn.reps = sn.draining
        sends  == posted /\ ~ends
    IN
    /\ bar.at = "loop"
    /\ conn[c] = "open"
    /\ left.cmds > 0
    /\ lost => ctl.capture = 1
    /\ broken => sends
    /\ ~(lost /\ broken)
    /\ lost \/ broken => left.faults > 0
    /\ parsed' = [parsed EXCEPT ![c] = @ + 1]
    /\ hist' = IF write THEN Append(hist, [g |-> IF posted THEN gseq + 1 ELSE 0, cmd |-> cmd])
                        ELSE hist
    /\ gseq' = IF posted /\ write THEN gseq + 1 ELSE gseq
    /\ Captured(c, cmd, lost)
    /\ IF ends THEN EndSession
       ELSE /\ sn' = IF write THEN [sn EXCEPT !.reps = @ \ sn.draining, !.draining = {}]
                              ELSE sn
            /\ UNCHANGED <<bar, ctl>>
    /\ chan' = CASE broken -> Broken(chan)
                 [] sends /\ ~broken ->
                        Append(chan, Batch(c, parsed[c] + 1, cmd,
                                           IF write THEN gseq + 1 ELSE 0))
                 [] OTHER -> chan
    /\ fd' = (fd /\ ~broken)
    /\ left' = [left EXCEPT !.cmds = @ - 1,
                            !.faults = IF lost \/ broken THEN @ - 1 ELSE @]
    /\ UNCHANGED <<loop, conn, health, px>>

\* close_conn of a client: FORGET carries the wildcard epoch 0.
Close(c) ==
    /\ bar.at = "loop"
    /\ conn[c] \in {"open", "refused"}
    /\ left.faults > 0
    /\ left' = [left EXCEPT !.faults = @ - 1]
    /\ conn' = [conn EXCEPT ![c] = "closed"]
    /\ chan' = Sent(chan, <<[t |-> "forget", c |-> c]>>)
    /\ UNCHANGED <<loop, parsed, hist, gseq, sn, bar, fd, health, ctl, ring, rseq, px>>

-----------------------------------------------------------------------------
(* The master: REPLSYNC and the barrier                                    *)

\* The owner thread blocks in repl_barrier_begin.  If the last barrier was left
\* up, FULLSYNC_STATE is lowered first; the wait for PROXY_STATE = 0 ends at
\* once, for repl_barrier_begin has just stored that 0 itself.  A barrier that
\* is already up is used as it is, with its old marker.
ReplSync(c, lost) ==
    LET stale == ctl.fullsync = 1 IN
    /\ bar.at = "loop"
    /\ conn[c] = "open"
    /\ lost => ctl.capture = 1 /\ left.faults > 0
    /\ parsed' = [parsed EXCEPT ![c] = @ + 1]
    /\ Captured(c, ReplSyncCmd, lost)
    /\ IF bar.active
       THEN /\ bar' = [bar EXCEPT !.by = c, !.at = "up"]
            /\ UNCHANGED ctl
       ELSE /\ bar' = [bar EXCEPT !.by = c, !.at = IF stale THEN "raise" ELSE "wait",
                                  !.marker = gseq]
            /\ ctl' = [ctl EXCEPT !.proxy = 0, !.fullsync = IF stale THEN 0 ELSE 1]
    /\ left' = [left EXCEPT !.faults = IF lost THEN @ - 1 ELSE @]
    /\ UNCHANGED <<loop, conn, hist, gseq, sn, fd, chan, health, px>>

BarrierRaise ==
    /\ bar.at = "raise"
    /\ bar' = [bar EXCEPT !.at = "wait"]
    /\ ctl' = [ctl EXCEPT !.proxy = 0, !.fullsync = 1]
    /\ UNCHANGED <<loop, conn, parsed, hist, gseq, sn, fd, chan, health, ring, rseq, px, left>>

\* The proxy did not answer in time: the replica is refused.
BarrierTimeout ==
    /\ bar.at = "wait"
    /\ bar' = [bar EXCEPT !.at = "loop", !.by = None, !.marker = 0]
    /\ ctl' = [ctl EXCEPT !.fullsync = 0]
    /\ conn' = [conn EXCEPT ![bar.by] = "refused"]
    /\ chan' = Sent(chan, <<[t |-> "ignore", c |-> bar.by, epoch |-> sn.id]>>
                          \o (IF sn.id = 0 THEN <<>> ELSE <<Batch(bar.by, parsed[bar.by],
                                                                  ReplSyncCmd, 0)>>))
    /\ UNCHANGED <<loop, parsed, hist, gseq, sn, fd, health, ring, rseq, px, left>>

\* The proxy has confirmed: repl_add_slave, repl_session_begin, repl_notify_ebpf_proxy_session and
\* repl_commit_ignore.  What the control connection will bring the slave is
\* everything executed so far; px.out starts anew, as the record of what the
\* data connection adds to it.  There is one data connection: a replica that
\* joins a session does not restart the record.
Attach ==
    LET c == bar.by
        first == sn.reps = {}
        id == IF first THEN sn.last + 1 ELSE sn.id
        others == {d \in Conns : conn[d] = "open" /\ d # c}
    IN
    /\ bar.at = "up" \/ (bar.at = "wait" /\ ctl.proxy = 1)
    /\ bar' = [bar EXCEPT !.at = "loop", !.by = None, !.active = TRUE]
    /\ conn' = [conn EXCEPT ![c] = "replica"]
    /\ sn' = [sn EXCEPT !.reps = @ \cup {c}, !.id = id,
                        !.last = IF first THEN id ELSE @,
                        !.from = IF first THEN Len(hist) ELSE @]
    /\ chan' = Sent(chan, (IF first THEN Baselines(others, id) ELSE <<>>)
                          \o <<[t |-> "ignore", c |-> c, epoch |-> id]>>)
    /\ ctl' = IF first THEN [ctl EXCEPT !.capture = 1] ELSE ctl
    /\ px' = IF first THEN [px EXCEPT !.out = <<>>] ELSE px
    /\ UNCHANGED <<loop, parsed, hist, gseq, fd, health, ring, rseq, left>>

InvalidatedKeepsReplicas == sn

\* repl_session_invalidate: capture off, replicas shut down.
Invalidated == [sn EXCEPT !.draining = sn.reps]

\* repl_barrier_release, after REPLDONE, a REPLACK that caught up, or at once
\* when the replica misses nothing.
Release ==
    /\ bar.at = "loop"
    /\ bar.active
    /\ bar' = [bar EXCEPT !.active = FALSE, !.marker = 0]
    /\ IF fd
       THEN /\ chan' = Append(chan, [t |-> "resume", marker |-> bar.marker, epoch |-> sn.id])
            /\ ctl' = [ctl EXCEPT !.fullsync = 0]
            /\ UNCHANGED sn
       ELSE /\ ctl' = [ctl EXCEPT !.capture = 0]
            /\ sn' = Invalidated
            /\ UNCHANGED chan
    /\ UNCHANGED <<loop, conn, parsed, hist, gseq, fd, health, ring, rseq, px, left>>

\* repl_barrier_tick: the slave never acknowledged.
BarrierExpires ==
    /\ bar.at = "loop"
    /\ bar.active
    /\ bar' = [bar EXCEPT !.active = FALSE, !.marker = 0]
    /\ sn' = Invalidated
    /\ ctl' = [ctl EXCEPT !.capture = 0]
    /\ UNCHANGED <<loop, conn, parsed, hist, gseq, fd, chan, health, ring, rseq, px, left>>

\* close_conn of a replica; the last one ends the session.
ReplicaGone(c) ==
    /\ bar.at = "loop"
    /\ conn[c] = "replica"
    /\ conn' = [conn EXCEPT ![c] = "closed"]
    /\ IF sn.reps = {c} THEN EndSession
       ELSE /\ sn' = [sn EXCEPT !.reps = @ \ {c}, !.draining = @ \ {c}]
            /\ UNCHANGED <<bar, ctl>>
    /\ chan' = Sent(chan, <<[t |-> "forget", c |-> c]>>)
    /\ UNCHANGED <<loop, parsed, hist, gseq, fd, health, ring, rseq, px, left>>

-----------------------------------------------------------------------------
(* The master: health thread and re-arming                                 *)

\* commit_health_tick: reconnect, and say HELLO.
Reconnect ==
    /\ ~fd
    /\ fd' = TRUE
    /\ chan' = Append(chan, [t |-> "hello"])
    /\ health' = [health EXCEPT !.reconnected = TRUE]
    /\ UNCHANGED <<loop, master, ctl, ring, rseq, px, left>>

\* proxy_health_thread takes the proxy's COMMIT_FAULT over.
NoteFault ==
    /\ px.cfault
    /\ px' = [px EXCEPT !.cfault = FALSE]
    /\ health' = [health EXCEPT !.pending = @ \/ sn.id # 0]
    /\ UNCHANGED <<loop, master, fd, chan, ctl, ring, rseq, left>>

\* repl_commit_rearm_tick, at the end of an event-loop round.
Rearm ==
    /\ bar.at = "loop"
    /\ \/ /\ health.pending
          /\ health' = [health EXCEPT !.pending = FALSE]
          /\ sn' = Invalidated
          /\ ctl' = [ctl EXCEPT !.capture = 0]
          /\ UNCHANGED chan
       \/ /\ ~health.pending
          /\ health.reconnected /\ sn.id # 0 /\ fd
          /\ health' = [health EXCEPT !.reconnected = FALSE]
          /\ chan' = Sent(chan, Baselines({c \in Conns : conn[c] = "open"}, sn.id))
          /\ UNCHANGED <<sn, ctl>>
    /\ UNCHANGED <<loop, conn, parsed, hist, gseq, bar, fd, ring, rseq, px, left>>

-----------------------------------------------------------------------------
(* The proxy: proxy_commit.c as functions from proxy states to proxy states *)

\* pc_fault and commit_fault_cb: latched; the gate closes, the slave is cut off.
Fault(p) ==
    IF p.faulted THEN p
    ELSE [p EXCEPT !.faulted = TRUE, !.code = TRUE, !.cfault = TRUE,
                   !.drop = TRUE, !.state = "BUFFERING", !.link = FALSE]

\* proxy_commit_purge: everything but the session's epoch.
Purge(p) ==
    [p EXCEPT !.ctx = [c \in Conns |-> NoCtx], !.ready = <<>>, !.rec = <<>>,
              !.next = 0, !.wait = FALSE, !.faulted = FALSE]

\* proxy_capture_drop_pending, without the ring.
DropPending(p) ==
    [Purge(p) EXCEPT !.state = "BUFFERING", !.drop = TRUE, !.link = FALSE, !.cache = <<>>]

\* commit_emit: into the cache while BUFFERING, else to a connected slave.  The
\* forwarding thread is taken to be prompt: what it is given is sent at once.
CanDeliver(p) == ~p.drop /\ (p.state = "BUFFERING" \/ p.link)

Deliver(p, ws) ==
    IF p.state = "BUFFERING" THEN [p EXCEPT !.cache = @ \o ws]
                             ELSE [p EXCEPT !.out = @ \o ws]

FlushKeepsCache(p) ==
    IF p.sid # 0 /\ p.state = "FORWARDING" /\ p.link THEN [p EXCEPT !.out = @ \o p.cache]
    ELSE p

\* request_cache_flush and the flush in proxy_fwd_thread_main: the cache of a
\* session that is over is discarded.
Flush(p) ==
    CASE p.sid = 0 -> [p EXCEPT !.cache = <<>>]
      [] p.sid # 0 /\ p.state = "FORWARDING" /\ p.link ->
            [p EXCEPT !.out = @ \o p.cache, !.cache = <<>>]
      [] OTHER -> p

\* pc_emit_cmd
Emit(p, w) ==
    IF p.buffering \/ p.wait \/ p.rec # <<>> THEN [p EXCEPT !.rec = Append(@, w)]
    ELSE IF CanDeliver(p) THEN Deliver(p, <<w>>)
    ELSE Fault(p)

\* pc_drain_ready: the first write after a purge sets the expected number.
RECURSIVE DrainReady(_)
DrainReady(p) ==
    IF p.ready = <<>> THEN p
    ELSE LET w == Head(p.ready)
             n == IF p.next = 0 THEN w.g ELSE p.next
             q == Emit([p EXCEPT !.next = n, !.ready = Tail(@)], w)
         IN  CASE w.g < n -> Fault(p)
               [] w.g > n -> p
               [] w.g = n /\ q.faulted -> q
               [] OTHER -> DrainReady([q EXCEPT !.next = n + 1])

\* pc_ready_insert: ordered by global_seq.
ReadyInsert(q, w) == SelectSeq(q, LAMBDA x : x.g < w.g) \o <<w>>
                     \o SelectSeq(q, LAMBDA x : x.g >= w.g)

AgreesNoCrc(cmd, d) == cmd.n = d.n

Agrees(cmd, d) == cmd.n = d.n /\ cmd.cmd = d.crc

\* pc_try_match: the heads must agree on sequence number and bytes.
RECURSIVE TryMatch(_, _)
TryMatch(p, c) ==
    LET x == p.ctx[c] IN
    IF x.cmds = <<>> \/ x.descs = <<>> THEN p
    ELSE LET cmd == Head(x.cmds)
             d   == Head(x.descs)
             q   == [p EXCEPT !.ctx[c].cmds = Tail(@), !.ctx[c].descs = Tail(@)]
         IN  IF ~Agrees(cmd, d) THEN Fault(p)
             ELSE IF d.g = 0 THEN TryMatch(q, c)
             ELSE TryMatch(DrainReady([q EXCEPT !.ready =
                              ReadyInsert(@, [g |-> d.g, cmd |-> cmd.cmd])]), c)

\* pc_frame_ctx, pc_frame_one: number the buffered commands.
RECURSIVE Frame(_, _)
Frame(p, c) ==
    LET x == p.ctx[c] IN
    IF ~x.base \/ x.buf = <<>> THEN p
    ELSE Frame(TryMatch([p EXCEPT !.ctx[c].buf = Tail(@), !.ctx[c].next = @ + 1,
                                  !.ctx[c].cmds = Append(@, [n |-> x.next, cmd |-> Head(x.buf)])],
                        c), c)

\* pc_on_desc: kept until the baseline comes, dropped for an ignored connection.
OnDesc(p, d) ==
    IF p.faulted \/ p.ctx[d.c].ignored THEN p
    ELSE LET q == [p EXCEPT !.ctx[d.c].descs = Append(@, d)]
         IN  IF p.ctx[d.c].base THEN TryMatch(q, d.c) ELSE q

\* proxy_commit_on_record
OnRecord(p, r) ==
    LET x == p.ctx[r.c] IN
    IF p.faulted \/ x.ignored THEN p
    ELSE IF x.seen /\ r.n # x.last + 1 THEN Fault(p)
    ELSE Frame([p EXCEPT !.ctx[r.c].seen = TRUE, !.ctx[r.c].last = r.n,
                         !.ctx[r.c].buf = Append(@, r.cmd)], r.c)

\* pc_on_baseline: a first baseline keeps the bytes that came before it.
OnBaseline(p, m) ==
    LET x == p.ctx[m.c] IN
    Frame([p EXCEPT !.epoch = m.epoch,
                    !.ctx[m.c] = [NoCtx EXCEPT !.base = TRUE, !.next = m.n,
                                  !.buf = IF x.base THEN <<>> ELSE x.buf]], m.c)

OnResumeKeepsAll(p, marker) ==
    LET q == [p EXCEPT !.rec = <<>>, !.wait = FALSE]
    IN  IF p.rec # <<>> /\ ~CanDeliver(p) THEN Fault(q)
        ELSE Deliver([q EXCEPT !.event = TRUE], p.rec)

\* pc_on_resume: what the control connection has brought the slave is dropped.
OnResume(p, marker) ==
    LET keep == SelectSeq(p.rec, LAMBDA w : w.g > marker)
        q    == [p EXCEPT !.rec = <<>>, !.wait = FALSE]
    IN  IF keep # <<>> /\ ~CanDeliver(p) THEN Fault(q)
        ELSE Deliver([q EXCEPT !.event = TRUE], keep)

\* pc_epoch_stale
Stale(p, m) == m.epoch # 0 /\ p.epoch # 0 /\ m.epoch # p.epoch

\* pc_process_msg
Process(p, m) ==
    CASE m.t = "hello"    -> [Purge(p) EXCEPT !.epoch = 0]
      [] m.t = "baseline" -> OnBaseline(p, m)
      [] m.t = "forget"   -> [p EXCEPT !.ctx[m.c] = NoCtx]
      [] m.t = "ignore"   -> IF Stale(p, m) THEN p
                             ELSE [p EXCEPT !.ctx[m.c] = [NoCtx EXCEPT !.ignored = TRUE]]
      [] m.t = "resume"   -> IF Stale(p, m) THEN p ELSE OnResume(p, m.marker)
      [] m.t = "batch"    -> IF Stale(p, m) THEN p ELSE OnDesc(p, m.desc)
      [] m.t = "eof"      -> [Fault(p) EXCEPT !.mfd = FALSE]

-----------------------------------------------------------------------------
(* The proxy: main_loop                                                    *)

\* Something is missing and nothing in flight can supply it: PC_TIMEOUT_MS is
\* long against the time a message or a record takes.
Overdue(p) ==
    \/ p.wait
    \/ p.ready # <<>> /\ p.next # 0 /\ Head(p.ready).g > p.next
    \/ \E c \in Conns : ~p.ctx[c].ignored
                        /\ (p.ctx[c].cmds = <<>>) # (p.ctx[c].descs = <<>>)

\* pc_read_master: read until nothing is left or the gate is faulted.
RECURSIVE ReadMaster(_, _)
ReadMaster(p, q) ==
    IF q = <<>> THEN [p |-> p, q |-> q]
    ELSE LET r == Process(p, Head(q))
         IN  IF r.faulted THEN [p |-> r, q |-> Tail(q)] ELSE ReadMaster(r, Tail(q))

\* g_commit_fault_code is handled once.
Handles(p) == p.code /\ ~p.handled
Handle(p) == IF Handles(p) THEN [DropPending(p) EXCEPT !.handled = TRUE] ELSE p

\* proxy_commit_take_resume_event
TakeEvent(p) == [IF p.event /\ p.state = "FORWARDING" THEN Flush(p) ELSE p
                    EXCEPT !.event = FALSE]

\* Time passes: nothing has arrived for so long that what is missing is overdue.
Tick ==
    /\ ~late
    /\ chan = <<>> /\ ring = <<>>
    /\ Overdue(px)
    /\ late' = TRUE
    /\ UNCHANGED <<master, fd, chan, health, ctl, ring, rseq, pc, retry, px, left>>

\* proxy_commit_poll: accept a new master connection or read the present one,
\* then the edge of BUFFERING, then timeouts; outside the reconnect loop a
\* fault and a RESUME are followed up at once.
Poll ==
    LET r  == IF px.mfd THEN ReadMaster(px, chan)
              ELSE [q |-> chan, p |-> IF chan = <<>> THEN px
                                      ELSE [Purge(px) EXCEPT !.mfd = TRUE]]
        b  == r.p.state = "BUFFERING"
        p1 == [r.p EXCEPT !.buffering = b,
                          !.wait = @ \/ (r.p.buffering /\ ~b /\ r.p.rec # <<>>)]
        p2 == IF late /\ Overdue(p1) THEN Fault(p1) ELSE p1
    IN
    /\ pc = "poll"
    /\ pc' = "gate"
    /\ late' = FALSE
    /\ chan' = r.q
    /\ px' = IF retry THEN p2 ELSE TakeEvent(Handle(p2))
    /\ ring' = IF Handles(p2) /\ ~retry THEN <<>> ELSE ring
    /\ UNCHANGED <<master, fd, health, ctl, rseq, retry, left>>

\* proxy_capture_gate_poll
Gate ==
    LET closes == ctl.capture # 1 /\ ~px.drop
        p == CASE closes -> DropPending(px)
               [] ctl.capture = 1 /\ px.drop ->
                     [px EXCEPT !.drop = FALSE, !.code = FALSE, !.handled = FALSE]
               [] OTHER -> px
    IN
    /\ pc = "gate"
    /\ pc' = "ring"
    /\ px' = p
    /\ ring' = IF closes THEN <<>> ELSE ring
    /\ UNCHANGED <<retry, late, master, fd, chan, health, ctl, rseq, left>>

\* ringbuf_callback: a record that finds the gate just reopened is accepted.
Callback(p, r) ==
    IF p.drop /\ (ctl.capture # 1 \/ p.code) THEN p
    ELSE OnRecord([p EXCEPT !.drop = FALSE], r)

\* ring_buffer__consume: the records there are now.  In the reconnect loop
\* ring_buffer__poll may return without having consumed any, for records are
\* written with BPF_RB_NO_WAKEUP.
Consume(idle) ==
    /\ pc = "ring"
    /\ pc' = "edge"
    /\ idle => retry /\ ring # <<>>
    /\ ring' = IF idle THEN ring ELSE <<>>
    /\ px' = IF idle THEN px ELSE FoldLeft(Callback, px, ring)
    /\ UNCHANGED <<retry, late, master, fd, chan, health, ctl, rseq, left>>

\* A REPLSYNC has written slave_addr.
AddrKnown == \E r \in Replicas : parsed[r] > 0

\* poll_session_state: another session, or none, discards the cache.
PollSession(p) == IF p.sid = sn.id THEN p ELSE [p EXCEPT !.sid = sn.id, !.cache = <<>>]

\* The edges of FULLSYNC_STATE; a rising edge discards the cache, a falling one
\* asks for its flush.
FollowBarrier(p) ==
    CASE ctl.fullsync = 1 /\ p.seen = 0 ->
            [p EXCEPT !.seen = 1, !.state = "BUFFERING", !.cache = <<>>]
      [] ctl.fullsync = 0 /\ p.seen = 1 ->
            Flush([p EXCEPT !.seen = 0, !.state = "FORWARDING"])
      [] OTHER -> p

\* proxy_slave_connect succeeded
Linked(p) == Flush([p EXCEPT !.link = TRUE])

\* The rest of a round of main_loop: session, barrier, slave connection.  When
\* the slave does not answer the proxy enters its reconnect loop.
Edge(ok) ==
    LET p == FollowBarrier(PollSession(px))
        dial == ~p.link /\ AddrKnown
    IN
    /\ pc = "edge"
    /\ pc' = "poll"
    /\ ~retry
    /\ retry' = ~ok
    /\ ~ok => dial /\ left.faults > 0
    /\ px' = IF dial /\ ok THEN Linked(p) ELSE p
    /\ ctl' = [ctl EXCEPT !.proxy = IF p.seen = px.seen THEN @ ELSE p.seen]
    /\ left' = [left EXCEPT !.faults = IF ok THEN @ ELSE @ - 1]
    /\ UNCHANGED <<master, fd, chan, health, ring, rseq, late>>

\* A round of the reconnect loop, which looks at neither barrier nor session.
Retry(ok) ==
    LET p == TakeEvent(Handle(px)) IN
    /\ pc = "edge"
    /\ pc' = "poll"
    /\ retry
    /\ retry' = ~ok
    /\ px' = IF ok THEN Linked(p) ELSE p
    /\ ring' = IF Handles(px) THEN <<>> ELSE ring
    /\ UNCHANGED <<master, fd, chan, health, ctl, rseq, late, left>>

\* The forwarding thread loses the connection to the slave.
LinkDown ==
    /\ px.link
    /\ left.faults > 0
    /\ px' = [px EXCEPT !.link = FALSE]
    /\ left' = [left EXCEPT !.faults = @ - 1]
    /\ UNCHANGED <<loop, master, fd, chan, health, ctl, ring, rseq>>

MasterNext ==
    \/ \E c \in Conns : Accept(c) \/ Close(c)
    \/ \E c \in Clients, cmd \in Commands, lost, broken \in BOOLEAN :
          Read(c, cmd, lost, broken)
    \/ \E c \in Replicas : (\E lost \in BOOLEAN : ReplSync(c, lost)) \/ ReplicaGone(c)
    \/ BarrierRaise \/ BarrierTimeout \/ Attach
    \/ Release \/ BarrierExpires \/ Rearm

HealthNext == Reconnect \/ NoteFault

ProxyNext ==
    \/ Poll \/ Tick
    \/ Gate
    \/ \E idle \in BOOLEAN : Consume(idle)
    \/ \E ok \in BOOLEAN : Edge(ok) \/ Retry(ok)
    \/ LinkDown

GateNext == MasterNext \/ HealthNext \/ ProxyNext

GateSpec == GateInit /\ [][GateNext]_gateVars

\* The proxy's loop turns and the slave answers its calls in the end; what stays
\* overdue runs into PC_TIMEOUT_MS; the health thread runs; the owner thread ends
\* its wait for the proxy, gets round to re-arming, and gets the slave's answer
\* that lowers a barrier.
Fairness ==
    /\ \A k \in {"poll", "gate", "ring", "edge"} :
          WF_pc(pc = k /\ pc' \in {"poll", "gate", "ring", "edge"} \ {k})
    /\ SF_retry(retry /\ retry' = FALSE)
    /\ WF_gateVars(Tick)
    /\ WF_gateVars(HealthNext)
    /\ WF_gateVars(BarrierRaise) /\ WF_gateVars(Attach \/ BarrierTimeout)
    /\ SF_gateVars(Rearm) /\ SF_gateVars(Release)

LiveSpec == GateSpec /\ Fairness

-----------------------------------------------------------------------------
(* Properties                                                              *)

\* Every command handed on is, byte for byte, the write the master committed
\* under that global number: the two streams are never mismatched, whatever was
\* lost, dropped or re-based in between.
Committed ==
    \A i \in 1..Len(px.out) : \E h \in 1..Len(hist) : hist[h] = px.out[i]

\* Global order: between two barriers no write is handed on twice or after a
\* later one.
NeverTwice ==
    \A i, j \in 1..Len(px.out) : i < j => px.out[i].g < px.out[j].g

\* A write that the snapshot or the backlog replay already gave the slave is
\* not handed on again.
BeyondMarker ==
    \A i \in 1..Len(px.out), h \in 1..Len(hist) :
        hist[h].g = px.out[i].g => h > sn.from

\* What the proxy hands on is the master's history of writes from the point
\* the slave was brought to, with nothing missing, repeated or reordered.
Exact ==
    \A i \in 1..Len(px.out) :
        sn.from + i <= Len(hist) /\ px.out[i] = hist[sn.from + i]

\* The session serves a replica that has not been told to come back.
Serving == sn.reps # sn.draining

\* A fault of the gate is never swallowed: the session it hits is given up.
FaultEndsSession == px.cfault ~> ~Serving
=============================================================================
