------------------------------ MODULE FullSync ------------------------------
(***************************************************************************)
(* The transfer of one snapshot after another from a master to its slave   *)
(* with repl_fullsync_transport rdma.  The reactor of the master runs      *)
(* queue_snapshot to its end: it waits for the slave's RDMA connection,    *)
(* sends the header over TCP, waits for the address of the slave's mapped  *)
(* file and writes the chunks into it, or falls back to TCP.  The slave    *)
(* has two threads, slave_thread and one that connects in the background.  *)
(* Every connection of the slave asks for one snapshot: attempt n is the   *)
(* one of connection n.  Partial synchronisation is in ReplSync.           *)
(***************************************************************************)
EXTENDS Integers, Sequences

CONSTANTS
    NChunks,    \* chunks of a snapshot
    OutRing,    \* chunks the output ring of a connection has room for
    SendSlots,  \* send_pipeline_depth
    MaxSyncs    \* bound: connections of the slave

ASSUME FullSyncAssumption == {NChunks, OutRing, SendSlots, MaxSyncs} \subseteq Nat \ {0}

VARIABLES
    tcp,      \* the slave's connection: its number, whether it is open, the bytes each way
    mst,      \* the master: where queue_snapshot is, and its g_repl_rdma_ctx
    lastTid,  \* repl_fullsync_next_transfer_id's counter
    cooldown, \* g_repl_transport_fallback_until_ms is in the future
    outRing,  \* the chunks in the connection's output ring
    rdma,     \* the RDMA connection: its state and the slave's protection domain
    wire,     \* the RDMA WRITEs posted and not completed
    slv,      \* the slave: slave_thread, the background thread, its g_repl_rdma_ctx
    tmp,      \* the temporary file repl_slave_set_sync_state opens
    tgt,      \* g_slave_fullsync_target
    got,      \* history: what the slave last loaded, and for which attempt
    unclean   \* history: the attempts that were not carried over by one clean transfer

fullSyncVars ==
    <<tcp, mst, lastTid, cooldown, outRing, rdma, wire, slv, tmp, tgt, got, unclean>>
masterPart == <<mst, lastTid, cooldown, outRing>>
slavePart == <<slv, tmp, tgt, got>>

Chunks == 1..NChunks
Hole == <<0, 0>>
Snapshot(n) == [i \in Chunks |-> <<n, i>>]
NoMr == [tid |-> 0, pd |-> 0]
NoLink == [st |-> "none", pd |-> 0]
NoTmp == [open |-> FALSE, n |-> 0, data |-> << >>]
\* What repl_rdma_slave_target_cleanup leaves: file closed, MR deregistered, nothing mapped.
NoTarget ==
    [tid |-> 0, n |-> 0, fd |-> FALSE, map |-> FALSE, mr |-> 0, complete |-> FALSE,
     file |-> [i \in Chunks |-> Hole]]

Header(n, tid) == [kind |-> "FULLRESYNC", n |-> n, tid |-> tid]
End(tid) == [kind |-> "FULLSYNCEND", tid |-> tid]
Abort(tid) == [kind |-> "FULLSYNCABORT", tid |-> tid]
Data(c) == [kind |-> "data", chunk |-> c]

FullSyncInit ==
    /\ tcp = [n |-> 0, open |-> FALSE, up |-> << >>, down |-> << >>]
    /\ mst = [pc |-> "idle", n |-> 0, ok |-> FALSE, conn |-> FALSE, listening |-> FALSE,
              tid |-> 0, mr |-> NoMr, i |-> 1, sent |-> 0, written |-> 0]
    /\ lastTid = 0 /\ cooldown = FALSE /\ outRing = << >>
    /\ rdma = NoLink /\ wire = << >>
    /\ slv = [pc |-> "loop", n |-> 0, tid |-> 0, loading |-> FALSE, loaded |-> 0, done |-> FALSE,
              aborted |-> 0, bg |-> "none", conn |-> FALSE, pd |-> 0, pds |-> 0]
    /\ tmp = NoTmp /\ tgt = NoTarget
    /\ got = [n |-> 0, data |-> << >>]
    /\ unclean = {}

Served == tcp.open /\ tcp.n = mst.n

\* What is written to a connection that is gone is lost without an error, or with one.
ToSlave(items) == tcp' = IF Served THEN [tcp EXCEPT !.down = @ \o items] ELSE tcp

-----------------------------------------------------------------------------
(* The control connection                                                  *)

\* slave_thread connects and sends REPLSYNC.
SlaveConnect ==
    /\ slv.pc = "loop" /\ ~tcp.open /\ tcp.n < MaxSyncs
    /\ tcp' = [n |-> tcp.n + 1, open |-> TRUE, up |-> <<[kind |-> "REPLSYNC"]>>, down |-> << >>]
    /\ UNCHANGED <<masterPart, rdma, wire, slavePart, unclean>>

Closed == [tcp EXCEPT !.open = FALSE, !.up = << >>, !.down = << >>]

TcpBreaks ==
    /\ tcp.open
    /\ tcp' = Closed
    /\ UNCHANGED <<masterPart, rdma, wire, slavePart, unclean>>

\* The RDMA connection breaks: neither side knows until it looks.
LinkBreaks ==
    /\ rdma.st \in {"acc", "up"}
    /\ rdma' = NoLink
    /\ UNCHANGED <<tcp, masterPart, wire, slavePart, unclean>>

-----------------------------------------------------------------------------
(* The master: REPLSYNC, repl_rdma_start_fullsync, queue_snapshot          *)

\* repl_rdma_reset_ctx destroys the connection, the listener and the transfer's state.
MasterReset(s) ==
    [s EXCEPT !.ok = FALSE, !.conn = FALSE, !.listening = FALSE, !.tid = 0, !.mr = NoMr,
              !.sent = 0]

\* As TransferCleanup, and the address of the slave's file stays.
TransferCleanupKeepsMr(s) == [s EXCEPT !.tid = 0, !.sent = 0]

\* repl_rdma_master_transfer_cleanup leaves the connection up.
TransferCleanup(s) == [s EXCEPT !.tid = 0, !.mr = NoMr, !.sent = 0]

\* REPLSYNC of a new connection; the old one, and its output ring, are closed by then.
StartFullsync ==
    /\ mst.pc = "idle" /\ tcp.open /\ tcp.up # << >> /\ Head(tcp.up).kind = "REPLSYNC"
    /\ tcp' = [tcp EXCEPT !.up = Tail(@)]
    /\ outRing' = << >>
    /\ LET s == [TransferCleanup(mst) EXCEPT !.n = tcp.n, !.i = 1, !.written = 0]
       IN \/ /\ mst.conn
             /\ mst' = [s EXCEPT !.pc = "header", !.ok = TRUE]
             /\ UNCHANGED <<rdma, wire>>
          \/ /\ ~mst.conn
             /\ mst' \in {[MasterReset(s) EXCEPT !.pc = "request", !.listening = TRUE],
                          [MasterReset(s) EXCEPT !.pc = "header"]}
             /\ rdma' = NoLink /\ wire' = << >>
    /\ UNCHANGED <<lastTid, cooldown, slavePart, unclean>>

\* A CONNECT_REQUEST arrives and is accepted.
AcceptRequest ==
    /\ mst.pc = "request" /\ rdma.st = "req"
    /\ mst' = [mst EXCEPT !.pc = "accepted"]
    /\ rdma' = [rdma EXCEPT !.st = "acc"]
    /\ UNCHANGED <<tcp, lastTid, cooldown, outRing, wire, slavePart, unclean>>

Established ==
    /\ mst.pc = "accepted" /\ rdma.st = "up"
    /\ mst' = [mst EXCEPT !.pc = "header", !.ok = TRUE, !.conn = TRUE]
    /\ UNCHANGED <<tcp, lastTid, cooldown, outRing, rdma, wire, slavePart, unclean>>

\* Ten seconds pass, or a resource cannot be had: the snapshot goes over TCP.
StartFails ==
    /\ mst.pc \in {"request", "accepted"}
    /\ mst' = [MasterReset(mst) EXCEPT !.pc = "header"]
    /\ rdma' = NoLink /\ wire' = << >>
    /\ UNCHANGED <<tcp, lastTid, cooldown, outRing, slavePart, unclean>>

\* The snapshot is dumped; with RDMA it gets a transfer_id; the header goes out over TCP.
SendHeader ==
    /\ mst.pc = "header"
    /\ lastTid' = IF mst.ok THEN lastTid + 1 ELSE lastTid
    /\ mst' = [mst EXCEPT !.pc = IF mst.ok THEN "handshake" ELSE "sendfile",
                          !.tid = IF mst.ok THEN lastTid' ELSE @]
    /\ ToSlave(<<Header(mst.n, IF mst.ok THEN lastTid' ELSE 0)>>)
    /\ UNCHANGED <<cooldown, outRing, rdma, wire, slavePart, unclean>>

\* The dump or a send fails: queue_snapshot returns -1 and the replica is rejected.
Reject ==
    /\ mst.pc = "header" \/ (mst.pc = "sendfile" /\ ~Served)
    /\ mst' = [mst EXCEPT !.pc = "idle"]
    /\ tcp' = IF Served THEN Closed ELSE tcp
    /\ UNCHANGED <<lastTid, cooldown, outRing, rdma, wire, slavePart, unclean>>

WriteReady == [mst EXCEPT !.pc = "write"]

\* kvs_fullsync_validate_remote_mr
Valid(msg) == msg.mr.tid = mst.tid

\* repl_fullsync_wait_remote_mr: an address that is known already is taken as it is; what
\* precedes the +FULLRESYNCWR in the stream is dropped.
WaitRemoteMr ==
    /\ mst.pc = "handshake"
    /\ IF mst.mr # NoMr
       THEN mst' = WriteReady /\ UNCHANGED tcp
       ELSE /\ mst.conn /\ Served
            /\ \E j \in DOMAIN tcp.up :
                  /\ tcp.up[j].kind = "FULLRESYNCWR"
                  /\ IF Valid(tcp.up[j])
                     THEN /\ mst' = [WriteReady EXCEPT !.mr = tcp.up[j].mr]
                          /\ tcp' = [tcp EXCEPT !.up = SubSeq(@, j + 1, Len(@))]
                     ELSE /\ mst' = [TransferCleanup(mst) EXCEPT !.pc = "sendfile"]
                          /\ UNCHANGED tcp
    /\ UNCHANGED <<lastTid, cooldown, outRing, rdma, wire, slavePart, unclean>>

\* As WaitFails, with a time limit of zero, which stands for none.
WaitFailsUnlimited ==
    /\ mst.pc = "handshake" /\ mst.mr = NoMr /\ ~mst.conn
    /\ mst' = [TransferCleanup(mst) EXCEPT !.pc = "sendfile"]
    /\ UNCHANGED <<tcp, lastTid, cooldown, outRing, rdma, wire, slavePart, unclean>>

\* Eight seconds pass, or the RDMA connection is gone.
WaitFails ==
    /\ mst.pc = "handshake" /\ mst.mr = NoMr
    /\ mst' = [TransferCleanup(mst) EXCEPT !.pc = "sendfile"]
    /\ UNCHANGED <<tcp, lastTid, cooldown, outRing, rdma, wire, slavePart, unclean>>

\* repl_rdma_try_send and repl_rdma_flush_batch: one chunk is one WRITE of one slot.  It goes
\* behind the chunks sent as WRITEs so far, wherever in the snapshot it comes from.
PostWrite ==
    /\ mst.pc = "write" /\ mst.i <= NChunks /\ mst.conn /\ ~cooldown /\ Len(wire) < SendSlots
    /\ wire' = Append(wire, [n |-> mst.n, i |-> mst.i, at |-> mst.sent + 1, mr |-> mst.mr])
    /\ mst' = [mst EXCEPT !.i = @ + 1, !.sent = @ + 1]
    /\ UNCHANGED <<tcp, lastTid, cooldown, outRing, rdma, slavePart, unclean>>

\* ibv_post_send fails; repl_send_chunked_ctx does not look at the result of the flush.
PostFails ==
    /\ mst.pc = "write" /\ mst.i <= NChunks /\ mst.conn /\ ~cooldown /\ Len(wire) < SendSlots
    /\ mst' = [mst EXCEPT !.i = @ + 1, !.sent = @ + 1, !.conn = FALSE]
    /\ UNCHANGED <<tcp, lastTid, cooldown, outRing, rdma, wire, slavePart, unclean>>

\* repl_transport_tcp_send: the chunk waits in the output ring, which the reactor is not flushing.
QueueChunk(s) ==
    IF Len(outRing) < OutRing
    THEN mst' = [s EXCEPT !.i = @ + 1] /\ outRing' = Append(outRing, <<mst.n, mst.i>>)
    ELSE mst' = [s EXCEPT !.pc = "abort"] /\ UNCHANGED outRing

\* repl_rdma_try_send gives up: a disconnect event, or no slot within five seconds.
FallBack ==
    /\ mst.pc = "write" /\ mst.i <= NChunks /\ mst.conn /\ ~cooldown
    /\ \/ rdma.st # "up" /\ QueueChunk([mst EXCEPT !.conn = FALSE])
       \/ Len(wire) >= SendSlots /\ QueueChunk(mst)
    /\ cooldown' = TRUE
    /\ UNCHANGED <<tcp, lastTid, rdma, wire, slavePart, unclean>>

\* repl_transport_ops_for_context has chosen TCP for this chunk.
SendOverTcp ==
    /\ mst.pc = "write" /\ mst.i <= NChunks /\ (~mst.conn \/ cooldown)
    /\ QueueChunk(mst)
    /\ UNCHANGED <<tcp, lastTid, cooldown, rdma, wire, slavePart, unclean>>

CooldownEnds ==
    /\ cooldown
    /\ cooldown' = FALSE
    /\ UNCHANGED <<tcp, mst, lastTid, outRing, rdma, wire, slavePart, unclean>>

\* repl_rdma_wait_all_sends ends after fifteen seconds at the latest, or at once when it is
\* disconnected, and FULLSYNCEND goes out whatever it returned.
SendEnd ==
    /\ mst.pc = "write" /\ mst.i > NChunks
    /\ ToSlave(<<End(mst.tid)>>)
    /\ unclean' = IF mst.written = NChunks THEN unclean ELSE unclean \cup {mst.n}
    /\ mst' = [TransferCleanup(mst) EXCEPT !.pc = "idle"]
    /\ UNCHANGED <<lastTid, cooldown, outRing, rdma, wire, slavePart>>

SendAbort ==
    /\ mst.pc = "abort"
    /\ ToSlave(<<Abort(mst.tid)>>)
    /\ unclean' = unclean \cup {mst.n}
    /\ mst' = [TransferCleanup(mst) EXCEPT !.pc = "sendfile"]
    /\ UNCHANGED <<lastTid, cooldown, outRing, rdma, wire, slavePart>>

Sendfile ==
    /\ mst.pc = "sendfile"
    /\ ToSlave([i \in Chunks |-> Data(<<mst.n, i>>)])
    /\ mst' = [TransferCleanup(mst) EXCEPT !.pc = "idle"]
    /\ UNCHANGED <<lastTid, cooldown, outRing, rdma, wire, slavePart, unclean>>

\* The reactor runs again: it writes out the ring ...
DrainOut ==
    /\ mst.pc = "idle" /\ outRing # << >>
    /\ ToSlave([i \in DOMAIN outRing |-> Data(outRing[i])])
    /\ outRing' = << >>
    /\ UNCHANGED <<mst, lastTid, cooldown, rdma, wire, slavePart, unclean>>

\* ... and reads: REPLDONE stops RDMA, a late FULLRESYNCWR finds no transfer.
ReadControl ==
    /\ mst.pc = "idle" /\ Served /\ tcp.up # << >>
    /\ Head(tcp.up).kind \in {"REPLDONE", "FULLRESYNCWR"}
    /\ tcp' = [tcp EXCEPT !.up = Tail(@)]
    /\ mst' = IF Head(tcp.up).kind = "REPLDONE" THEN [mst EXCEPT !.conn = FALSE] ELSE mst
    /\ UNCHANGED <<lastTid, cooldown, outRing, rdma, wire, slavePart, unclean>>

-----------------------------------------------------------------------------
(* The adapter runs the WRITEs; repl_rdma_cq_poll_thread takes completions *)

Reachable(w) ==
    /\ rdma.st = "up" /\ tgt.mr # 0
    /\ w.mr = [tid |-> tgt.tid, pd |-> tgt.mr] /\ tgt.mr = rdma.pd

\* A WRITE lands whether or not the master still waits for it.
WriteLands ==
    /\ wire # << >> /\ Reachable(Head(wire))
    /\ tgt' = [tgt EXCEPT !.file[Head(wire).at] = <<Head(wire).n, Head(wire).i>>]
    /\ wire' = Tail(wire)
    /\ mst' = [mst EXCEPT !.written = IF Head(wire).n = mst.n THEN @ + 1 ELSE @]
    /\ UNCHANGED <<tcp, lastTid, cooldown, outRing, rdma, slv, tmp, got, unclean>>

\* An error completion, of a WRITE or of a posted receive, disconnects.
CqError ==
    /\ \/ mst.conn /\ rdma.st # "up"
       \/ wire # << >> /\ ~Reachable(Head(wire))
    /\ mst' = [mst EXCEPT !.conn = FALSE]
    /\ wire' = << >>
    /\ rdma' = IF rdma.st = "up" THEN NoLink ELSE rdma
    /\ UNCHANGED <<tcp, lastTid, cooldown, outRing, slavePart, unclean>>

-----------------------------------------------------------------------------
(* The slave's background thread: repl_transport_rdma_connect_slave        *)

SlaveReset(s) == [s EXCEPT !.conn = FALSE, !.pd = 0]

BgReset ==
    /\ slv.bg = "start"
    /\ slv' = [SlaveReset(slv) EXCEPT !.bg = "resolve"]
    /\ rdma' = NoLink
    /\ UNCHANGED <<tcp, masterPart, wire, tmp, tgt, got, unclean>>

BgResources ==
    /\ slv.bg = "resolve"
    /\ slv' = [slv EXCEPT !.bg = "connect", !.pds = @ + 1, !.pd = slv.pds + 1]
    /\ UNCHANGED <<tcp, masterPart, rdma, wire, tmp, tgt, got, unclean>>

BgRequest ==
    /\ slv.bg = "connect" /\ mst.listening /\ rdma = NoLink
    /\ slv' = [slv EXCEPT !.bg = "established"]
    /\ rdma' = [st |-> "req", pd |-> slv.pd]
    /\ UNCHANGED <<tcp, masterPart, wire, tmp, tgt, got, unclean>>

BgEstablished ==
    /\ slv.bg = "established" /\ rdma.st = "acc"
    /\ slv' = [slv EXCEPT !.bg = "exit", !.conn = TRUE]
    /\ rdma' = [rdma EXCEPT !.st = "up"]
    /\ UNCHANGED <<tcp, masterPart, wire, tmp, tgt, got, unclean>>

\* An address that does not resolve, no listener, a refusal, or twelve seconds.
BgFails ==
    /\ slv.bg \in {"resolve", "connect", "established"}
    /\ slv' = [SlaveReset(slv) EXCEPT !.bg = "exit"]
    /\ rdma' = NoLink
    /\ UNCHANGED <<tcp, masterPart, wire, tmp, tgt, got, unclean>>

\* g_rdma_bg_connecting is cleared last.
BgExit ==
    /\ slv.bg = "exit"
    /\ slv' = [slv EXCEPT !.bg = "none"]
    /\ UNCHANGED <<tcp, masterPart, rdma, wire, tmp, tgt, got, unclean>>

-----------------------------------------------------------------------------
(* The slave's thread: parse_resp_stream and the end of a full sync        *)

Receiving(kind) ==
    slv.pc = "loop" /\ tcp.open /\ tcp.down # << >> /\ Head(tcp.down).kind = kind

Msg == Head(tcp.down)
Consumed == [tcp EXCEPT !.down = Tail(@)]

\* repl_slave_set_sync_state truncates the temporary file only when it opens it.
OpenTmp(n) == IF tmp.open THEN tmp ELSE [open |-> TRUE, n |-> n, data |-> << >>]

\* repl_rdma_slave_start_fullsync_connect: one background thread at a time.
BgStarted(s) == IF s.bg = "none" THEN [s EXCEPT !.bg = "start"] ELSE s

\* +FULLRESYNC: repl_slave_set_sync_state, the background connection, and the first half of
\* repl_rdma_slave_prepare_target, up to its wait for a protection domain.  A mapping whose
\* file a finished sync has closed is handed to the wrong deallocator, which may be fatal.
\* A snapshot above repl_rdma_write_buf_max_mb gets no target.
ReceiveHeader ==
    /\ Receiving("FULLRESYNC")
    /\ tcp' = Consumed
    /\ tmp' = OpenTmp(Msg.n)
    /\ \E fits \in BOOLEAN :
          LET wanted == fits /\ Msg.tid \notin {0, slv.aborted}
              s == [BgStarted(slv) EXCEPT !.n = Msg.n, !.tid = Msg.tid, !.loading = TRUE,
                                          !.loaded = 0, !.done = FALSE,
                                          !.pc = IF wanted THEN "prepare" ELSE "loop"]
          IN /\ \/ slv' = s
                \/ tgt.map /\ ~tgt.fd /\ slv' = [s EXCEPT !.pc = "dead"]
             /\ tgt' = IF wanted THEN [NoTarget EXCEPT !.tid = Msg.tid] ELSE NoTarget
    /\ UNCHANGED <<masterPart, rdma, wire, got, unclean>>

\* There is a protection domain: the file is registered in it and its address sent.
PrepareTarget ==
    /\ slv.pc = "prepare" /\ slv.pd # 0
    /\ tmp' = NoTmp
    /\ IF tcp.open
       THEN /\ tgt' = [NoTarget EXCEPT !.tid = slv.tid, !.n = slv.n, !.fd = TRUE,
                                       !.map = TRUE, !.mr = slv.pd]
            /\ tcp' = [tcp EXCEPT !.up = Append(@, [kind |-> "FULLRESYNCWR",
                                                    mr |-> [tid |-> slv.tid, pd |-> slv.pd]])]
       ELSE tgt' = NoTarget /\ UNCHANGED tcp
    /\ slv' = [slv EXCEPT !.pc = "loop"]
    /\ UNCHANGED <<masterPart, rdma, wire, got, unclean>>

\* Five seconds pass without one, or the file cannot be made or registered.
PrepareFails ==
    /\ slv.pc = "prepare"
    /\ slv' = [slv EXCEPT !.pc = "loop"]
    /\ UNCHANGED <<tcp, masterPart, rdma, wire, tmp, tgt, got, unclean>>

\* repl_slave_finish_fullsync with the files as they then are: what is loaded is the
\* target, else the temporary file, else nothing; REPLDONE follows in any case.
Finish(s, file, temp, conn) ==
    IF s.done
    THEN /\ slv' = s /\ tgt' = file /\ tmp' = temp /\ tcp' = conn
         /\ UNCHANGED <<got, unclean>>
    ELSE /\ slv' = [s EXCEPT !.done = TRUE, !.loading = FALSE, !.loaded = 0]
         /\ got' = [n |-> s.n, data |-> IF file.fd THEN file.file ELSE temp.data]
         /\ unclean' = unclean \cup {n \in {s.n} : ~file.fd /\ temp.open /\ temp.n # n}
         /\ tgt' = [file EXCEPT !.fd = FALSE]
         /\ tmp' = NoTmp
         /\ tcp' = [conn EXCEPT !.up = Append(@, [kind |-> "REPLDONE"])]

\* A chunk in the stream goes to the target, else to the temporary file, else nowhere.
ReceiveData ==
    /\ Receiving("data") /\ slv.loading
    /\ LET mapped == tgt.fd /\ tgt.map
           s == [slv EXCEPT !.loaded = @ + 1]
           file == IF mapped THEN [tgt EXCEPT !.file[s.loaded] = Msg.chunk] ELSE tgt
           temp == IF ~mapped /\ tmp.open THEN [tmp EXCEPT !.data = Append(@, Msg.chunk)] ELSE tmp
       IN IF s.loaded = NChunks
          THEN Finish(s, file, temp, Consumed)
          ELSE /\ slv' = s /\ tgt' = file /\ tmp' = temp /\ tcp' = Consumed
               /\ UNCHANGED <<got, unclean>>
    /\ UNCHANGED <<masterPart, rdma, wire>>

\* Bytes of a snapshot after its end are read as commands.
ReceiveRest ==
    /\ Receiving("data") /\ ~slv.loading
    /\ tcp' = Consumed
    /\ UNCHANGED <<masterPart, rdma, wire, slavePart, unclean>>

\* repl_rdma_slave_finalize_signal
ReceiveEnd ==
    /\ Receiving("FULLSYNCEND")
    /\ tcp' = Consumed
    /\ tgt' = IF tgt.tid \in {0, Msg.tid} /\ (tgt.map \/ tgt.mr # 0 \/ tgt.fd)
              THEN [tgt EXCEPT !.complete = TRUE] ELSE tgt
    /\ UNCHANGED <<masterPart, rdma, wire, slv, tmp, got, unclean>>

\* repl_rdma_slave_abort_target
ReceiveAbort ==
    /\ Receiving("FULLSYNCABORT")
    /\ tcp' = Consumed
    /\ IF tgt.tid \in {0, Msg.tid}
       THEN /\ slv' = [slv EXCEPT !.aborted = Msg.tid]
            /\ tgt' = IF tgt.map \/ tgt.mr # 0 \/ tgt.fd THEN NoTarget ELSE tgt
       ELSE UNCHANGED <<slv, tgt>>
    /\ UNCHANGED <<masterPart, rdma, wire, tmp, got, unclean>>

\* As CheckWriteComplete, and FULLSYNCEND is not waited for.
CheckWriteCompleteEarly ==
    /\ slv.pc = "loop" /\ tcp.open /\ slv.conn /\ tgt.map
    /\ Finish([slv EXCEPT !.conn = FALSE], [tgt EXCEPT !.map = FALSE, !.mr = 0], tmp, tcp)
    /\ UNCHANGED <<masterPart, rdma, wire>>

\* repl_rdma_slave_check_write_complete, polled while the slave's RDMA connection is up.
CheckWriteComplete ==
    /\ slv.pc = "loop" /\ tcp.open /\ slv.conn /\ tgt.complete /\ tgt.map
    /\ Finish([slv EXCEPT !.conn = FALSE], [tgt EXCEPT !.map = FALSE, !.mr = 0], tmp, tcp)
    /\ UNCHANGED <<masterPart, rdma, wire>>

\* An event or an error completion tells the slave that the RDMA connection is gone.
SlaveDisconnected ==
    /\ slv.conn /\ rdma.st # "up"
    /\ slv' = [slv EXCEPT !.conn = FALSE]
    /\ UNCHANGED <<tcp, masterPart, rdma, wire, tmp, tgt, got, unclean>>

-----------------------------------------------------------------------------
MasterStep ==
    \/ AcceptRequest \/ Established \/ StartFails \/ SendHeader \/ Reject \/ WaitRemoteMr \/ WaitFails
    \/ PostWrite \/ PostFails \/ FallBack \/ SendOverTcp \/ SendEnd \/ SendAbort

FullSyncNext ==
    \/ SlaveConnect \/ TcpBreaks \/ LinkBreaks
    \/ StartFullsync \/ MasterStep \/ Sendfile \/ CooldownEnds \/ DrainOut \/ ReadControl
    \/ WriteLands \/ CqError
    \/ BgReset \/ BgResources \/ BgRequest \/ BgEstablished \/ BgFails \/ BgExit
    \/ ReceiveHeader \/ PrepareTarget \/ PrepareFails \/ ReceiveData \/ ReceiveRest
    \/ ReceiveEnd \/ ReceiveAbort \/ CheckWriteComplete \/ SlaveDisconnected

FullSyncSpec == FullSyncInit /\ [][FullSyncNext]_fullSyncVars

-----------------------------------------------------------------------------
(* What must hold                                                          *)

\* What the slave loads at the end of a full sync (repl_slave_finish_fullsync) is the
\* snapshot of that very attempt, whichever way it came and however the background
\* connection, the time limits and the two connections' breaks fell in between.  Excepted
\* are the attempts of unclean, which the code does not carry over whole: FULLSYNCEND was
\* sent although a WRITE was still out, had failed or was replaced by TCP (the results of
\* repl_rdma_flush_batch and repl_rdma_wait_all_sends are not looked at); FULLSYNCABORT
\* was sent, after which neither file is open for what sendfile brings; or the temporary
\* file still held the bytes of an attempt that was interrupted.
CleanLoad == got.n \notin unclean \cup {0} => got.data = Snapshot(got.n)

\* One transfer, one file: the master WRITEs only to the address it was given for the
\* transfer it is at (repl_fullsync_wait_remote_mr, repl_rdma_master_transfer_cleanup), and
\* a target never holds a chunk of another attempt, late WRITEs of earlier transfers over a
\* connection that stayed up included.
TransferBound ==
    /\ mst.pc = "write" => mst.mr.tid = mst.tid
    /\ tgt.fd => \A i \in Chunks : tgt.file[i][1] \in {0, tgt.n}

\* queue_snapshot runs in the reactor, which serves nobody meanwhile: whatever the slave and
\* the network do, its waits for the RDMA connection, the address, a slot and the completions
\* end, and it returns or has come to repl_fullsync_sendfile.  That one has no time limit: it
\* waits for as long as a slave keeps the connection and does not read.
WaitsEnd == mst.pc # "idle" ~> mst.pc \in {"idle", "sendfile"}
=============================================================================
