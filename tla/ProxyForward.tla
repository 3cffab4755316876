---------------------------- MODULE ProxyForward ----------------------------
(***************************************************************************)
(* How the ebpf-proxy sends what its Commit Gate has released.  The main   *)
(* loop puts a write into the forwarding queue, or into the cache while a  *)
(* barrier is up; the forwarding thread is the only one that writes to the *)
(* slave.  It takes the queue in batches, flushes the cache when asked to, *)
(* and puts into the cache what it could not send.  The master raises and  *)
(* lowers the barrier, opens and ends sessions.  CommitGate takes this     *)
(* path to be prompt; here the two threads run at their own speeds.        *)
(*                                                                         *)
(* Writes are numbered in the order they are committed, and a write is one *)
(* unit long.  A step is what a thread does between two locks that matter: *)
(* the batch is written under g_state_lock, which keeps BUFFERING out, so  *)
(* a main step that sets it comes before or after the whole write.         *)
(***************************************************************************)
EXTENDS Naturals, Sequences, FiniteSets

CONSTANTS
    ProxyQueueMax,  \* MAX_PFWD_QUEUE_BYTES
    BatchMax,       \* PFWD_BATCH_BYTES_MAX
    HighMark,       \* PFWD_BACKPRESSURE_HIGH
    LowMark,        \* PFWD_BACKPRESSURE_LOW
    CacheMax,       \* PROXY_CACHE_MAX_BYTES
    MaxSessions,    \* bound: sessions, and barriers that come to nothing
    MaxWork,        \* bound: writes committed, and sessions, together
    MaxBreaks       \* bound: times the link to the slave breaks or is not set up

ASSUME ProxyAssumption ==
    /\ {ProxyQueueMax, BatchMax, CacheMax} \subseteq Nat \ {0}
    /\ {HighMark, LowMark, MaxSessions, MaxWork, MaxBreaks} \subseteq Nat
    /\ BatchMax < LowMark /\ LowMark <= HighMark /\ HighMark < ProxyQueueMax

VARIABLES
    ms,      \* the master: where it is with a session, and the writes the slave has
    keys,    \* the keys of client_ctl the two processes share
    main,    \* the main loop
    fwd,     \* the forwarding thread
    fwdq,    \* g_pfwd_head .. g_pfwd_tail
    press,   \* g_fwdq_bp_state
    flush,   \* g_cache_flush_pending
    state,   \* g_state: is it BUFFERING?
    cache,   \* g_cache
    link,    \* is the slave connected?
    sent,    \* history: the writes sent to the slave in this session
    spare    \* what is left of the bounds, and what the order of sent excludes

pfwdVars == <<ms, keys, main, fwd, fwdq, press, flush, state, cache, link, sent, spare>>
masterSide == <<ms, keys>>
sending == <<fwdq, press, flush, state, cache, link, sent>>

NoBatch == [pc |-> "take", batch |-> << >>, sid |-> 0, flush |-> FALSE]

PfwdInit ==
    /\ ms = [at |-> "alone", last |-> 0, base |-> 0, count |-> 0, resume |-> FALSE]
    /\ keys = [sid |-> 0, valid |-> FALSE, cinv |-> TRUE, full |-> FALSE, ack |-> FALSE,
               gate |-> FALSE, fault |-> FALSE]
    /\ main = [pc |-> "poll", todo |-> << >>, hold |-> TRUE, rec |-> << >>, waits |-> FALSE,
               retry |-> FALSE, event |-> FALSE, drop |-> TRUE, faulted |-> FALSE, code |-> FALSE, seen |-> FALSE,
               sid |-> 0, valid |-> FALSE, cinv |-> FALSE]
    /\ fwd = NoBatch
    /\ fwdq = << >>
    /\ press = FALSE
    /\ flush = FALSE
    /\ state = "BUFFERING"
    /\ cache = [nodes |-> << >>, invalid |-> FALSE]
    /\ link = FALSE
    /\ sent = << >>
    /\ spare = [breaks |-> MaxBreaks, gaps |-> {}]

-----------------------------------------------------------------------------
(* The master, as far as the proxy sees it                                 *)

\* repl_barrier_begin: a barrier left over from before is lowered first, without
\* waiting until the proxy has seen it.
MasterBegin ==
    /\ ms.at = "alone" /\ ms.last < MaxSessions /\ ms.last + ms.count < MaxWork
    /\ ms' = [ms EXCEPT !.at = IF keys.full THEN "raise" ELSE "wait", !.last = @ + 1]
    /\ keys' = [keys EXCEPT !.ack = FALSE, !.full = ~keys.full]
    /\ UNCHANGED <<main, fwd, sending, spare>>

MasterRaise ==
    /\ ms.at = "raise"
    /\ ms' = [ms EXCEPT !.at = "wait"]
    /\ keys' = [keys EXCEPT !.ack = FALSE, !.full = TRUE]
    /\ UNCHANGED <<main, fwd, sending, spare>>

\* The wait for PROXY_STATE ran out: the replica is refused.
MasterTimeout ==
    /\ ms.at = "wait"
    /\ ms' = [ms EXCEPT !.at = "alone"]
    /\ keys' = [keys EXCEPT !.full = FALSE]
    /\ UNCHANGED <<main, fwd, sending, spare>>

\* repl_add_slave, repl_notify_ebpf_proxy_session(1, id): the snapshot or the
\* backlog brings the slave all writes so far.
MasterAttach ==
    /\ ms.at = "wait" /\ keys.ack
    /\ ms' = [ms EXCEPT !.at = "barrier", !.base = ms.count]
    /\ keys' = [keys EXCEPT !.sid = ms.last, !.cinv = FALSE, !.valid = TRUE, !.gate = TRUE]
    /\ sent' = << >>
    /\ spare' = [spare EXCEPT !.gaps = {}]
    /\ UNCHANGED <<main, fwd, fwdq, press, flush, state, cache, link>>

\* repl_barrier_release: RESUME on the commit channel, then FULLSYNC_STATE = 0.
MasterRelease ==
    /\ ms.at = "barrier"
    /\ ms' = [ms EXCEPT !.at = "open", !.resume = TRUE]
    /\ keys' = [keys EXCEPT !.full = FALSE]
    /\ UNCHANGED <<main, fwd, sending, spare>>

\* The replica leaves or is thrown out, for a COMMIT_FAULT or a CACHE_INVALID
\* among others: repl_end_session_notify.
MasterEnd ==
    /\ ms.at \in {"barrier", "open"}
    /\ ms' = [ms EXCEPT !.at = "alone", !.resume = FALSE]
    /\ keys' = [keys EXCEPT !.gate = FALSE, !.valid = FALSE, !.sid = 0, !.cinv = TRUE, !.fault = FALSE]
    /\ sent' = << >>
    /\ spare' = [spare EXCEPT !.gaps = {}]
    /\ UNCHANGED <<main, fwd, fwdq, press, flush, state, cache, link>>

-----------------------------------------------------------------------------
(* Queue and cache                                                         *)

\* g_inflight_bytes: what another thread may find there.
InFlight == IF fwd.pc \in {"send", "spill"} THEN 0..Len(fwd.batch) ELSE {0}

\* fwdq_clear_backpressure_locked, with n units queued or in flight
Eased(n) == press /\ n >= LowMark

CacheCleared == [cache EXCEPT !.nodes = << >>]
CacheReset == [nodes |-> << >>, invalid |-> FALSE]
FlushAllowed == main.valid /\ ~cache.invalid

\* Mutant: the oldest writes make room.
CacheAppendDropsOldest(c, u, sid) ==
    [c EXCEPT !.nodes = Append(IF Len(@) < CacheMax THEN @ ELSE Tail(@), [u |-> u, sid |-> sid])]
\* cache_append: the hard limit invalidates the session's cache.
CacheAppend(c, u, sid) ==
    IF c.invalid THEN c
    ELSE IF Len(c.nodes) + 1 > CacheMax THEN [nodes |-> << >>, invalid |-> TRUE]
    ELSE [c EXCEPT !.nodes = Append(@, [u |-> u, sid |-> sid])]
CacheAll(us) ==
    LET c[i \in 0..Len(us)] == IF i = 0 THEN cache ELSE CacheAppend(c[i - 1], us[i], main.sid)
    IN  c[Len(us)]

\* Mutant: the flag outlives the queue.
DiscardKeepsPressure == fwdq' = << >> /\ UNCHANGED press
\* Mutant: what was queued before the barrier stays.
DiscardNothing == UNCHANGED <<fwdq, press>>
\* proxy_fwd_drain_to_cache_or_discard
Discard == fwdq' = << >> /\ \E n \in InFlight : press' = Eased(n)

\* The situations the properties except.
Note(gap, when) == IF when THEN spare.gaps \cup {gap} ELSE spare.gaps

-----------------------------------------------------------------------------
(* The main loop                                                           *)

\* pc_fault, commit_fault_cb
Faulted(m) == [m EXCEPT !.todo = << >>, !.faulted = TRUE, !.code = TRUE, !.drop = TRUE]
RaiseFault ==
    /\ main' = Faulted(main)
    /\ keys' = [keys EXCEPT !.fault = TRUE]
    /\ state' = "BUFFERING"
    /\ link' = FALSE

\* pc_emit_cmd of a write that is committed now: held back during a barrier and
\* until RESUME, else given to commit_emit.
Commit(m) ==
    IF m.hold \/ m.rec # << >> THEN [m EXCEPT !.rec = Append(@, ms.count + 1)]
    ELSE [m EXCEPT !.todo = Append(@, ms.count + 1)]

\* pc_on_resume: what the slave has got over the control connection is dropped.
Resumed(m) ==
    [m EXCEPT !.todo = @ \o SelectSeq(m.rec, LAMBDA u : u > ms.base), !.rec = << >>]

\* What was read before the session belongs to writes before it.
InSession == ms.at \in {"barrier", "open"}
CanCommit == ms.last + ms.count < MaxWork /\ ~main.drop /\ ~main.faulted

\* proxy_commit_poll: messages first, then the edge of BUFFERING.
MainPoll(n) ==
    /\ main.pc = "poll"
    /\ n = 1 => CanCommit /\ (InSession => main.sid = keys.sid)
    /\ LET m == IF n = 1 THEN Commit(main) ELSE main
           r == IF ms.resume THEN Resumed(m) ELSE m
       IN  main' = [r EXCEPT !.pc = "polled", !.hold = (state = "BUFFERING"), !.event = ms.resume]
    /\ ms' = [ms EXCEPT !.count = @ + n, !.resume = FALSE]
    /\ UNCHANGED <<keys, fwd, sending, spare>>

\* commit_emit of one write.  With no room in the queue the loop waits.
CommitEmit ==
    /\ main.todo # << >> /\ ~main.waits
    /\ LET u == Head(main.todo)
           m == [main EXCEPT !.todo = Tail(@)]
       IN  \/ /\ ~main.drop /\ state = "BUFFERING"
              /\ cache' = CacheAppend(cache, u, main.sid)
              /\ IF cache'.invalid THEN RaiseFault
                 ELSE main' = m /\ UNCHANGED <<keys, state, link>>
              /\ UNCHANGED <<fwdq, press>>
           \/ /\ ~main.drop /\ state = "FORWARDING" /\ link
              /\ IF Len(fwdq) + 1 > ProxyQueueMax
                 THEN main' = [main EXCEPT !.waits = TRUE] /\ UNCHANGED <<fwdq, press>>
                 ELSE /\ main' = m
                      /\ fwdq' = Append(fwdq, u)
                      /\ \E n \in InFlight : press' = (press \/ Len(fwdq') + n > HighMark)
              /\ UNCHANGED <<keys, state, cache, link>>
           \/ /\ main.drop \/ (state = "FORWARDING" /\ ~link)
              /\ RaiseFault
              /\ UNCHANGED <<fwdq, press, cache>>
    /\ spare' = [spare EXCEPT !.gaps = Note("unpolled", InSession /\ main.sid # keys.sid)]
    /\ UNCHANGED <<ms, fwd, flush, sent>>

\* proxy_capture_drop_pending
CaptureDropPending ==
    /\ state' = "BUFFERING"
    /\ Discard
    /\ cache' = CacheReset
    /\ link' = FALSE

Purged(m) == [m EXCEPT !.rec = << >>, !.faulted = FALSE]

\* proxy_commit_take_resume_event, after a fault was followed up: a flush is asked for.
ResumeTaken == flush' = (flush \/ (main.event /\ ~main.code /\ state = "FORWARDING"))

\* A fault is followed up and the resume event taken, then proxy_capture_gate_poll;
\* the reconnect loop goes to the gate first, and a gate that is open forgets the fault.
MainGate ==
    /\ main.pc = "polled" /\ main.todo = << >>
    /\ LET drops == (main.code /\ ~main.retry) \/ (~keys.gate /\ ~main.drop)
           m == [main EXCEPT !.pc = "gated", !.drop = ~keys.gate, !.code = @ /\ ~keys.gate /\ main.retry,
                             !.event = @ /\ main.retry]
       IN  IF drops THEN main' = Purged(m) /\ CaptureDropPending
           ELSE main' = m /\ UNCHANGED <<fwdq, press, state, cache, link>>
    /\ IF main.retry THEN UNCHANGED flush ELSE ResumeTaken
    /\ UNCHANGED <<ms, keys, fwd, sent, spare>>

\* ring_buffer__consume: the records may complete a write.
MainRing(n) ==
    /\ main.pc = "gated"
    /\ n = 1 => CanCommit
    /\ main' = [IF n = 1 THEN Commit(main) ELSE main EXCEPT !.pc = IF main.retry THEN "follow" ELSE "session"]
    /\ ms' = [ms EXCEPT !.count = @ + n]
    /\ UNCHANGED <<keys, fwd, sending, spare>>

\* The reconnect loop follows a fault up and takes the resume event.
MainFollow ==
    /\ main.pc = "follow" /\ main.todo = << >>
    /\ LET m == [main EXCEPT !.pc = "link", !.code = FALSE, !.event = FALSE]
       IN  IF main.code THEN main' = Purged(m) /\ CaptureDropPending
           ELSE main' = m /\ UNCHANGED <<fwdq, press, state, cache, link>>
    /\ ResumeTaken
    /\ UNCHANGED <<ms, keys, fwd, sent, spare>>

\* poll_session_state, and the report of an invalid cache.
MainSession ==
    /\ main.pc = "session" /\ main.todo = << >>
    /\ LET changed == keys.sid # main.sid
           cut == changed \/ (main.valid /\ ~keys.valid)
       IN  /\ main' = [main EXCEPT !.pc = "barrier", !.sid = keys.sid, !.valid = keys.valid,
                                   !.cinv = keys.cinv]
           /\ cache' = CASE changed /\ keys.valid -> CacheReset
                         [] cut \/ (keys.cinv /\ ~main.cinv) -> CacheCleared
                         [] OTHER -> cache
           /\ IF cut THEN Discard ELSE UNCHANGED <<fwdq, press>>
           /\ keys' = [keys EXCEPT !.cinv = @ \/ cache'.invalid]
    /\ UNCHANGED <<ms, fwd, flush, state, link, sent, spare>>

\* The edges of FULLSYNC_STATE.
MainBarrier ==
    /\ main.pc = "barrier"
    /\ main' = [main EXCEPT !.pc = "link", !.seen = keys.full]
    /\ \/ /\ keys.full /\ ~main.seen
          /\ state' = "BUFFERING"
          /\ Discard
          /\ cache' = CacheReset
          /\ keys' = [keys EXCEPT !.ack = TRUE]
          /\ UNCHANGED flush
       \/ /\ ~keys.full /\ main.seen
          /\ state' = "FORWARDING"
          /\ keys' = [keys EXCEPT !.ack = FALSE]
          /\ IF FlushAllowed THEN flush' = TRUE /\ UNCHANGED cache
             ELSE cache' = CacheCleared /\ UNCHANGED flush
          /\ UNCHANGED <<fwdq, press>>
       \/ /\ keys.full = main.seen
          /\ UNCHANGED <<keys, fwdq, press, flush, state, cache>>
    /\ UNCHANGED <<ms, fwd, link, sent, spare>>

\* proxy_slave_connect, if the slave is not connected and its address is known;
\* a failure leads into the reconnect loop, which sees neither session nor barrier.
MainLink(ok) ==
    /\ main.pc = "link"
    /\ LET dial == ~link /\ ms.last > 0
       IN  /\ ~ok => dial /\ spare.breaks > 0
           /\ link' = (link \/ (dial /\ ok))
           /\ main' = [main EXCEPT !.pc = IF dial /\ ok THEN "linked" ELSE "poll", !.retry = ~ok]
    /\ spare' = [spare EXCEPT !.breaks = IF ok THEN @ ELSE @ - 1]
    /\ UNCHANGED <<masterSide, fwd, fwdq, press, flush, state, cache, sent>>

\* Connected: the thread is asked to flush what the cache still holds.
MainLinked ==
    /\ main.pc = "linked"
    /\ main' = [main EXCEPT !.pc = "poll"]
    /\ IF FlushAllowed THEN flush' = TRUE /\ UNCHANGED cache
       ELSE cache' = CacheCleared /\ UNCHANGED flush
    /\ UNCHANGED <<masterSide, fwd, fwdq, press, state, link, sent, spare>>

-----------------------------------------------------------------------------
(* The forwarding thread                                                   *)

Woken(m) == [m EXCEPT !.waits = FALSE]

\* proxy_fwd_thread_main: what there is to do, and room for who waits for it.
Take ==
    /\ fwd.pc = "take" /\ (fwdq # << >> \/ flush)
    /\ LET n == IF Len(fwdq) < BatchMax THEN Len(fwdq) ELSE BatchMax
       IN  /\ fwd' = [pc |-> "check", batch |-> SubSeq(fwdq, 1, n), sid |-> keys.sid, flush |-> flush]
           /\ fwdq' = SubSeq(fwdq, n + 1, Len(fwdq))
           /\ press' = IF n > 0 THEN Eased(Len(fwdq')) ELSE press
           /\ main' = IF n > 0 THEN Woken(main) ELSE main
    /\ flush' = FALSE
    /\ UNCHANGED <<masterSide, state, cache, link, sent, spare>>

\* May the cache be flushed?  The locks are released before it is.
Check ==
    /\ fwd.pc = "check"
    /\ fwd' = [fwd EXCEPT !.pc = IF fwd.flush /\ FlushAllowed /\ state = "FORWARDING" /\ link
                                 THEN "flush" ELSE "send"]
    /\ cache' = IF fwd.flush /\ ~FlushAllowed THEN CacheCleared ELSE cache
    /\ UNCHANGED <<masterSide, main, fwdq, press, flush, state, link, sent, spare>>

\* cache_flush sends the nodes of the present session and drops the others.
Flushable == SelectSeq(cache.nodes, LAMBDA x : x.sid = main.sid)

\* cache_flush and, when it could not send all, proxy_slave_mark_down.  The
\* socket is the one Check found: it may be closed by now.
FlushCache(k, cut) ==
    /\ fwd.pc = "flush"
    /\ LET all == Flushable
           done == k = Len(all)
       IN  /\ k <= Len(all) /\ (done \/ ~link \/ spare.breaks > 0) /\ (k > 0 => link)
           /\ cut => ~done /\ link
           /\ cache' = [cache EXCEPT !.nodes = SubSeq(all, k + 1, Len(all))]
           /\ sent' = sent \o [i \in 1..k |-> all[i].u]
           /\ link' = (link /\ done)
           /\ spare' = [breaks |-> IF done \/ ~link THEN spare.breaks ELSE spare.breaks - 1,
                        gaps |-> IF cut THEN Note("cut", TRUE)
                                ELSE Note("stale", k > 0 /\ state = "BUFFERING")]
    /\ fwd' = [fwd EXCEPT !.pc = "send"]
    /\ UNCHANGED <<masterSide, main, fwdq, press, flush, state>>

\* proxy_fwd_send_batch: BUFFERING, the batch goes to the cache.
SendToCache ==
    /\ fwd.pc = "send" /\ (state = "BUFFERING" \/ fwd.batch = << >>)
    /\ cache' = CacheAll(fwd.batch)
    /\ spare' = [spare EXCEPT !.gaps = Note("stale", fwd.batch # << >> /\ fwd.sid # keys.sid)]
    /\ fwd' = NoBatch
    /\ UNCHANGED <<masterSide, main, fwdq, press, flush, state, link, sent>>

\* proxy_fwd_send_batch: FORWARDING, the batch is written, k units of it when
\* the link breaks.  What the slave has not read then is lost (cut).
SendBatch(k, cut) ==
    /\ fwd.pc = "send" /\ state = "FORWARDING" /\ fwd.batch # << >>
    /\ LET done == k = Len(fwd.batch)
       IN  /\ k <= Len(fwd.batch) /\ (done \/ ~link \/ spare.breaks > 0) /\ (k > 0 => link)
           /\ cut => ~done /\ link
           /\ sent' = sent \o SubSeq(fwd.batch, 1, k)
           /\ spare' = [breaks |-> IF done \/ ~link THEN spare.breaks ELSE spare.breaks - 1,
                        gaps |-> IF cut THEN Note("cut", TRUE)
                                ELSE IF fwd.sid # keys.sid THEN Note("stale", TRUE)
                                ELSE Note("overtaken", k > 0 /\ Flushable # << >>)]
           /\ fwd' = IF done THEN NoBatch
                     ELSE [fwd EXCEPT !.pc = "spill", !.batch = SubSeq(@, k + 1, Len(@))]
    /\ UNCHANGED <<masterSide, main, fwdq, press, flush, state, cache, link>>

\* The rest of a batch that could not be written goes to the cache, the link is
\* taken down and a flush is asked for.
Spill ==
    /\ fwd.pc = "spill"
    /\ cache' = CacheAll(fwd.batch)
    /\ spare' = [spare EXCEPT !.gaps = Note("stale", fwd.sid # keys.sid)]
    /\ link' = FALSE
    /\ flush' = TRUE
    /\ fwd' = NoBatch
    /\ UNCHANGED <<masterSide, main, fwdq, press, state, sent>>

MasterSteps == MasterBegin \/ MasterRaise \/ MasterTimeout \/ MasterAttach \/ MasterRelease \/ MasterEnd
MainSteps == \/ \E n \in {0, 1} : MainPoll(n) \/ MainRing(n)
             \/ CommitEmit \/ MainGate \/ MainFollow \/ MainSession \/ MainBarrier \/ MainLinked
             \/ \E ok \in BOOLEAN : MainLink(ok)
FwdSteps == \/ Take \/ Check \/ SendToCache \/ Spill
            \/ \E k \in 0..MaxWork, cut \in BOOLEAN : FlushCache(k, cut) \/ SendBatch(k, cut)

PfwdNext == MasterSteps \/ MainSteps \/ FwdSteps
PfwdSpec == PfwdInit /\ [][PfwdNext]_pfwdVars

-----------------------------------------------------------------------------
(* Properties                                                              *)

Increasing(s) == \A i, j \in DOMAIN s : i < j => s[i] < s[j]

\* What the slave reads on the data connection continues what the control
\* connection brought it: only later writes, none twice and none before an
\* earlier one, through queue, cache, flush, barrier and reconnection.  Three
\* situations in which the code loses this are named and excluded: the thread
\* acts on a batch or a decision from before the last barrier ("stale"), it
\* writes a batch while an earlier one waits in the cache for a flush that was
\* taken when the link was down ("overtaken"), and a link that breaks takes
\* unread bytes with it ("cut").
ProxyOrder ==
    InSession /\ spare.gaps \subseteq {"unpolled"} => Increasing(sent) /\ \A i \in DOMAIN sent : sent[i] > ms.base

UnitsOf(s) == {s[i] : i \in DOMAIN s}

\* The writes of this session that were neither sent nor are on their way.
Missing ==
    (ms.base + 1)..ms.count
        \ (UnitsOf(sent) \cup UnitsOf(main.todo) \cup UnitsOf(main.rec) \cup UnitsOf(fwdq) \cup UnitsOf(fwd.batch)
           \cup {x.u : x \in {y \in UnitsOf(cache.nodes) : y.sid = keys.sid}})

\* The proxy has told the master that the session is broken, or is about to.
Reported == keys.fault \/ keys.cinv \/ cache.invalid

\* The proxy never loses a write in silence: one that is missing has made it
\* report the session as broken (COMMIT_FAULT, CACHE_INVALID), so that the master
\* ends it and the slave synchronises anew (commit_emit, cache_append).  A link
\* that breaks may take unread bytes with it ("cut").  A second situation is named
\* and excluded: writes that are released before poll_session_state has seen their
\* session, which discards them when it does ("unpolled").
LossReported == InSession /\ spare.gaps \cap {"cut", "unpolled"} = {} /\ ~Reported => Missing = {}

\* Back-pressure has a cause: the main loop waits for room only while the queue is
\* full, so no wake-up is lost, and the flag that stops the master stands only
\* while the thread has something to take, which will lower it; also when a
\* barrier or the end of a session empties the queue and not the thread.
PressureHasCause ==
    /\ main.waits => Len(fwdq) = ProxyQueueMax
    /\ press => fwdq # << >>
=============================================================================
