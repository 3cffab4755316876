--------------------------- MODULE ReplSyncProofs ---------------------------
(***************************************************************************)
(* Proofs about the master's side of a resynchronisation: for any size of  *)
(* the backlog, any number of connections, writes and faults, the backlog  *)
(* holds what its offsets say, and nothing is left switched on when the    *)
(* last replica has gone.                                                  *)
(***************************************************************************)
EXTENDS ReplSync, SequenceTheorems, TLAPS

-----------------------------------------------------------------------------
(* The backlog                                                             *)

\* What a broadcast carries.
Writes == [k : Keys, op : {"set", "del"}]

\* The history and the backlog are writes; the backlog starts at some offset.
BlogType ==
    /\ hist \in Seq(Writes)
    /\ DOMAIN blog = {"buf", "start", "data", "contig"}
    /\ blog.start \in Nat /\ blog.data \in Seq(Nat)

\* A backlog that was left behind by writes without a replica ends before the
\* offset; repl_backlog_can_continue relies on that.
BlogInv == BlogType /\ BacklogExact /\ (blog.buf => BacklogEnd <= Offset)

\* The bytes repl_backlog_feed keeps are the last ones, in order.
LEMMA LastKeeps ==
  ASSUME NEW q \in Seq(Nat), NEW n \in Nat
  PROVE  /\ Last(q, n) \in Seq(Nat) /\ Len(Last(q, n)) <= Len(q)
         /\ \A i \in 1..Len(Last(q, n)) : Last(q, n)[i] = q[Len(q) - Len(Last(q, n)) + i]
<1>1. Len(q) \in Nat /\ \A i \in 1..Len(q) : q[i] \in Nat
  BY LenProperties, ElementOfSeq
<1>2. CASE Len(q) <= n
  BY <1>1, <1>2 DEF Last
<1>3. CASE Len(q) > n
  <2> DEFINE m == Len(q) - n + 1
             d == SubSeq(q, m, Len(q))
  <2>1. m \in Int /\ Len(q) \in Int /\ \A i \in m..Len(q) : q[i] \in Nat
    BY <1>1, <1>3
  <2>2. /\ d \in Seq(Nat) /\ Len(d) = IF m <= Len(q) THEN Len(q) - m + 1 ELSE 0
        /\ \A i \in 1..(Len(q) - m + 1) : d[i] = q[m + i - 1]
    BY <2>1, SubSeqProperties
  <2> HIDE DEF d
  <2>3. Len(d) = n
    BY <1>1, <1>3, <2>2
  <2>4. ASSUME NEW i \in 1..Len(d) PROVE d[i] = q[Len(q) - Len(d) + i]
    <3>1. m + i - 1 = Len(q) - Len(d) + i /\ i \in 1..(Len(q) - m + 1)
      BY <1>1, <1>3, <2>3
    <3> QED BY <2>2, <3>1, SMTT(30)
  <2>5. Last(q, n) = d
    BY <1>1, <1>3 DEF Last, d
  <2>6. Len(d) <= Len(q) /\ d \in Seq(Nat)
    BY <1>1, <1>3, <2>2, <2>3
  <2> HIDE DEF m
  <2> QED BY <2>4, <2>5, <2>6
<1> QED BY <1>1, <1>2, <1>3

\* repl_backlog_feed of the next write.
LEMMA FeedKeepsBlog ==
  ASSUME BlogInv, NEW w \in Writes, hist' = Append(hist, w), blog' = BacklogFeed(Offset + 1),
         reps' \subseteq reps
  PROVE  BlogInv'
<1>1. /\ hist' \in Seq(Writes) /\ Len(hist') = Len(hist) + 1 /\ Len(hist) \in Nat
  BY AppendProperties, LenProperties DEF BlogInv, BlogType
<1>2. CASE reps = {}
  BY <1>1, <1>2 DEF BlogInv, BlogType, BacklogExact, BacklogEnd, Offset, BacklogFeed
<1>3. CASE reps # {}
  <2> DEFINE n == Offset + 1
             b == IF blog.buf THEN blog
                  ELSE [blog EXCEPT !.buf = TRUE, !.start = n - 1, !.data = <<>>]
             q == Append(b.data, n)
             d == Last(q, BacklogSize)
  <2>1. /\ DOMAIN b = {"buf", "start", "data", "contig"}
        /\ b.start \in Nat /\ b.data \in Seq(Nat)
        /\ b.contig = blog.contig /\ b.start + Len(b.data) = Offset
        /\ \A i \in 1..Len(b.data) : b.data[i] = b.start + i
    <3>1. CASE blog.buf
      BY <1>3, <3>1, LenProperties, SMTT(30) DEF BlogInv, BlogType, BacklogExact, BacklogEnd
    <3>2. CASE ~blog.buf
      BY <1>1, <3>2, EmptySeq DEF BlogInv, BlogType, Offset
    <3> QED BY <3>1, <3>2
  <2>2. blog' = [b EXCEPT !.data = d, !.start = b.start + Len(b.data) + 1 - Len(d)]
    BY <1>3 DEF BacklogFeed
  <2>x. b.buf /\ (~blog.buf \/ b = blog)
    BY DEF BlogInv, BlogType
  <2> HIDE DEF b
  <2>3. /\ q \in Seq(Nat) /\ Len(q) = Len(b.data) + 1 /\ Len(b.data) \in Nat
        /\ \A i \in 1..Len(q) : q[i] = b.start + i
    BY <1>1, <2>1, AppendProperties, LenProperties DEF Offset
  <2>4. /\ d \in Seq(Nat) /\ Len(d) <= Len(q) /\ Len(d) \in Nat
        /\ \A i \in 1..Len(d) : d[i] = q[Len(q) - Len(d) + i]
    BY <2>3, LastKeeps, LenProperties, SizesAssumption, Zenon
  <2> HIDE DEF d, q
  <2>5. /\ blog'.start = b.start + Len(q) - Len(d) /\ blog'.data = d
        /\ blog'.contig = b.contig /\ blog'.buf = b.buf
        /\ DOMAIN blog' = {"buf", "start", "data", "contig"}
    <3>1. b.start + Len(b.data) + 1 - Len(d) = b.start + Len(q) - Len(d)
      BY <2>1, <2>3, <2>4
    <3> QED BY <2>1, <2>2, <3>1, Zenon
  <2>6. ASSUME NEW i \in 1..Len(d) PROVE d[i] = blog'.start + i
    <3>1. Len(q) - Len(d) + i \in 1..Len(q)
      BY <2>3, <2>4
    <3>2. d[i] = b.start + (Len(q) - Len(d) + i)
      BY <2>3, <2>4, <3>1, Zenon
    <3> QED BY <2>1, <2>3, <2>4, <2>5, <3>2
  <2>7. DOMAIN d = 1..Len(d)
    BY <2>4, LenProperties
  <2>8. blog'.start + Len(blog'.data) = Len(hist')
    BY <1>1, <2>1, <2>3, <2>4, <2>5, SMTT(30) DEF Offset
  <2>9. blog.contig
    BY <1>3 DEF BlogInv, BacklogExact
  <2>10. blog'.contig /\ blog'.buf
    BY <2>1, <2>5, <2>9, <2>x, Zenon
  <2>11. BlogType'
    BY <1>1, <2>1, <2>3, <2>4, <2>5, SMTT(30) DEF BlogType
  <2>12. BacklogEnd' = Offset' /\ Offset' \in Nat
    BY <1>1, <2>8 DEF BacklogEnd, Offset
  <2>13. BacklogExact'
    BY <2>5, <2>6, <2>7, <2>10, <2>12 DEF BacklogExact
  <2> QED BY <2>11, <2>12, <2>13 DEF BlogInv
<1> QED BY <1>2, <1>3

\* repl_backlog_reset, at the offset of the snapshot.
LEMMA ResetKeepsBlog ==
  ASSUME BlogInv, UNCHANGED hist, blog' = BacklogReset(Offset)
  PROVE  BlogInv'
<1>1. Len(hist) \in Nat /\ <<>> \in Seq(Nat) /\ Len(<<>>) = 0 /\ DOMAIN <<>> = {}
  BY LenProperties, EmptySeq DEF BlogInv, BlogType
<1> QED BY <1>1 DEF BlogInv, BlogType, BacklogExact, BacklogEnd, Offset, BacklogReset

\* No backlog has been allocated at the start.
LEMMA BlogInitInv == Init => BlogInv
<1>1. <<>> \in Seq(Nat) /\ <<>> \in Seq(Writes) /\ Len(<<>>) = 0
  BY EmptySeq
<1> QED BY <1>1 DEF Init, BlogInv, BlogType, BacklogExact, BacklogEnd, Offset

\* Only a broadcast and the start of a full resync touch history or backlog.
LEMMA BlogStepInv == BlogInv /\ [Next]_vars => BlogInv'
<1> SUFFICES ASSUME BlogInv, [Next]_vars PROVE BlogInv'
  OBVIOUS
<1>1. ASSUME UNCHANGED <<hist, blog>>, reps' \subseteq reps PROVE BlogInv'
  BY <1>1 DEF BlogInv, BlogType, BacklogExact, BacklogEnd, Offset
<1>2. ASSUME NEW k \in Keys, NEW op \in {"set", "del"}, ClientWrite(k, op) PROVE BlogInv'
  BY <1>2, FeedKeepsBlog DEF ClientWrite, Broadcast, Unlink, Writes
<1>3. ASSUME NEW i \in Conns, SyncContinue(i) PROVE BlogInv'
  <2>1. UNCHANGED <<hist, blog>> /\ blog.buf /\ blog.contig /\ BacklogEnd >= Offset
    BY <1>3 DEF SyncContinue, CanContinue
  <2>2. Len(hist) \in Nat /\ blog.start + Len(blog.data) \in Nat
    BY LenProperties DEF BlogInv, BlogType
  <2> QED BY <2>1, <2>2 DEF BlogInv, BlogType, BacklogExact, BacklogEnd, Offset
<1>4. ASSUME NEW i \in Conns, NEW n \in 0..(Pieces + 1), SyncFull(i, n) PROVE BlogInv'
  BY <1>4, ResetKeepsBlog DEF SyncFull
<1>5. ASSUME NEW i \in Conns, Close(i) PROVE BlogInv'
  BY <1>1, <1>5 DEF Close, Unlink
<1>6. ASSUME NEW i \in Conns, ReplAck(i) \/ ReplDone(i) \/ \E seen \in BOOLEAN : SyncRefused(i, seen)
      PROVE  BlogInv'
  BY <1>1, <1>6 DEF ReplAck, ReplDone, SyncRefused
<1>7. CASE ProxyFault \/ BarrierExpires
  BY <1>1, <1>7 DEF ProxyFault, BarrierExpires
<1>8. CASE Slave
  BY <1>1, <1>8, Zenon DEF Slave, Connect, Leave, RecvControl, RecvData, Restart, Second, master
<1>9. CASE Proxy
  BY <1>1, <1>9 DEF Proxy, CacheOverflow, DataLost, Relink, master
<1>10. CASE UNCHANGED vars
  BY <1>1, <1>10 DEF vars
<1> QED BY <1>2, <1>3, <1>4, <1>5, <1>6, <1>7, <1>8, <1>9, <1>10 DEF Next, Master

\* For every size of the backlog and any number of writes, connections and faults
\* the backlog holds the very writes its offsets say, and reaches the master's
\* offset while there is a replica (repl_backlog_feed, repl_backlog_reset,
\* repl_backlog_can_continue).
THEOREM BacklogExactHolds == Spec => []BacklogExact
<1>1. BlogInv => BacklogExact
  BY DEF BlogInv
<1> QED BY <1>1, BlogInitInv, BlogStepInv, PTL DEF Spec

-----------------------------------------------------------------------------
(* Capture, barrier and session                                            *)

\* The fields of the proxy's and of the barrier's records.
PxFields == {"capture", "faulted", "buffering", "cache", "overflow", "wire"}
BarFields == {"active", "gated", "end", "marker"}

\* NoReplicaNoCapture with the shape of the records it reads, which every update
\* of one of their fields relies on.
CaptureInv ==
    /\ DOMAIN px = PxFields /\ DOMAIN bar = BarFields
    /\ NoReplicaNoCapture

\* What the proxy caches, forwards or flushes leaves the capture as it is.
LEMMA ForwardKeepsCapture ==
  ASSUME NEW p, NEW ns, DOMAIN p = PxFields
  PROVE  /\ DOMAIN Cached(p, ns) = PxFields /\ Cached(p, ns).capture = p.capture
         /\ DOMAIN Forward(p, ns) = PxFields /\ Forward(p, ns).capture = p.capture
BY DEF Cached, Forward, PxFields

\* RESUME flushes the cache and leaves the capture as it is.
LEMMA ResumedKeepsCapture ==
  ASSUME NEW p, NEW marker, DOMAIN p = PxFields
  PROVE  DOMAIN Resumed(p, marker) = PxFields /\ Resumed(p, marker).capture = p.capture
<1> DEFINE q == [p EXCEPT !.buffering = FALSE, !.cache = <<>>]
<1>1. DOMAIN q = PxFields /\ q.capture = p.capture
  BY DEF PxFields
<1> HIDE DEF q
<1> QED BY <1>1, ForwardKeepsCapture, Zenon DEF Resumed, q

\* repl_session_invalidate and repl_end_session_notify switch it off.
LEMMA EndStopsCapture ==
  ASSUME NEW p, DOMAIN p = PxFields
  PROVE  /\ DOMAIN InvalidPx(p) = PxFields /\ ~InvalidPx(p).capture
         /\ DOMAIN EndedPx(p) = PxFields /\ ~EndedPx(p).capture
BY DEF InvalidPx, EndedPx, PxFields

\* A barrier that is lowered is neither active nor gated.
LEMMA LoweredBarrier ==
  ASSUME DOMAIN bar = BarFields
  PROVE  DOMAIN Lowered = BarFields /\ ~Lowered.active
BY DEF Lowered, BarFields

\* repl_barrier_release, whichever way it goes.
LEMMA ReleaseKeepsShape ==
  ASSUME NEW b, NEW cs, NEW rs, NEW ds, NEW p, DOMAIN p = PxFields, DOMAIN bar = BarFields,
         Release(b, cs, rs, ds, p)
  PROVE  /\ DOMAIN px' = PxFields /\ DOMAIN bar' = BarFields
         /\ ~bar'.active /\ (px'.capture = p.capture \/ ~px'.capture)
<1>1. bar' = Lowered /\ (px' = Resumed(p, b.marker) \/ px' = InvalidPx(p))
  BY DEF Release
<1> QED BY <1>1, LoweredBarrier, ResumedKeepsCapture, EndStopsCapture

\* The last replica leaves by whichever way.
LEMMA UnlinkKeepsCapture ==
  ASSUME CaptureInv, NEW gone, NEW p, DOMAIN p = PxFields, p.capture = px.capture, Unlink(gone, p)
  PROVE  CaptureInv'
<1>1. CASE reps \cap gone # {} /\ reps \subseteq gone
  <2>1. ~sess' /\ bar' = Lowered /\ px' = EndedPx(p)
    BY <1>1 DEF Unlink
  <2> QED BY <2>1, LoweredBarrier, EndStopsCapture DEF CaptureInv, NoReplicaNoCapture
<1>2. CASE ~(reps \cap gone # {} /\ reps \subseteq gone)
  <2>1. UNCHANGED <<sess, bar>> /\ px' = p /\ reps' = reps \ gone
    BY <1>2 DEF Unlink
  <2>2. reps' = {} => reps = {}
    BY <1>2, <2>1
  <2> QED BY <2>1, <2>2 DEF CaptureInv, NoReplicaNoCapture
<1> QED BY <1>1, <1>2

\* A write on the master leaves the capture as it is.
LEMMA PublishedKeepsCapture ==
  ASSUME DOMAIN px = PxFields, NEW n
  PROVE  DOMAIN Published(n) = PxFields /\ Published(n).capture = px.capture
<1>1. DOMAIN [px EXCEPT !.faulted = TRUE] = PxFields /\ [px EXCEPT !.faulted = TRUE].capture = px.capture
  BY DEF PxFields
<1> QED BY <1>1, ForwardKeepsCapture DEF Published

\* REPLSYNC raises the barrier and attaches the replica.
LEMMA RaisedShape ==
  ASSUME DOMAIN px = PxFields, DOMAIN bar = BarFields
  PROVE  /\ DOMAIN Raised = BarFields
         /\ DOMAIN RaisedPx = PxFields /\ RaisedPx.capture = px.capture
         /\ DOMAIN Attached = PxFields
<1>1. DOMAIN Raised = BarFields
  BY DEF Raised, BarFields
<1>2. DOMAIN RaisedPx = PxFields /\ RaisedPx.capture = px.capture
  BY DEF RaisedPx, PxFields
<1>3. DOMAIN Attached = PxFields
  BY <1>2 DEF Attached
<1> QED BY <1>1, <1>2, <1>3

\* Nothing is captured when the master starts.
LEMMA CaptureInitInv == Init => CaptureInv
BY DEF Init, CaptureInv, PxFields, BarFields, NoReplicaNoCapture

\* Every command, tick, close and step of the slave keeps it.
LEMMA CaptureStepInv == CaptureInv /\ [Next]_vars => CaptureInv'
<1> SUFFICES ASSUME CaptureInv, [Next]_vars PROVE CaptureInv'
  OBVIOUS
<1>s. DOMAIN px = PxFields /\ DOMAIN bar = BarFields
  BY DEF CaptureInv
<1>1. ASSUME UNCHANGED <<reps, sess, bar>>, DOMAIN px' = PxFields,
             px'.capture = px.capture \/ ~px'.capture
      PROVE  CaptureInv'
  BY <1>1 DEF CaptureInv, NoReplicaNoCapture
<1>w. ASSUME DOMAIN px' = PxFields, DOMAIN bar' = BarFields, ~bar'.active, UNCHANGED <<reps, sess>>,
             px'.capture = px.capture \/ ~px'.capture
      PROVE  CaptureInv'
  BY <1>w DEF CaptureInv, NoReplicaNoCapture
<1>2. ASSUME NEW k \in Keys, NEW op \in {"set", "del"}, ClientWrite(k, op) PROVE CaptureInv'
  <2>1. Unlink(reps \cap drain, Published(Offset + 1))
    BY <1>2 DEF ClientWrite, Broadcast
  <2> QED BY <1>s, <2>1, PublishedKeepsCapture, UnlinkKeepsCapture
<1>3. ASSUME NEW i \in Conns, Close(i) PROVE CaptureInv'
  BY <1>s, <1>3, UnlinkKeepsCapture DEF Close
<1>4. ASSUME NEW i \in Conns, SyncContinue(i) PROVE CaptureInv'
  <2> DEFINE m == Head(conn[i].back)
             cs == Answered(i, <<[t |-> "continue"]>> \o Replay(m.off, Offset))
  <2>1. reps' # {}
    BY <1>4 DEF SyncContinue
  <2>2. CASE Release(Raised, cs, reps \cup {i}, drain \ {i}, Attached)
    BY <1>s, <2>1, <2>2, RaisedShape, ReleaseKeepsShape DEF CaptureInv, NoReplicaNoCapture
  <2>3. CASE bar' = [Raised EXCEPT !.gated = TRUE] /\ px' = Attached
    <3>1. DOMAIN bar' = DOMAIN Raised
      BY <2>3
    <3> QED BY <1>s, <2>1, <2>3, <3>1, RaisedShape DEF CaptureInv, NoReplicaNoCapture
  <2> QED BY <1>4, <2>2, <2>3 DEF SyncContinue
<1>5. ASSUME NEW i \in Conns, NEW n \in 0..(Pieces + 1), SyncFull(i, n) PROVE CaptureInv'
  <2> DEFINE cs == Answered(i, Fst(Snapshot(Offset), n))
  <2>1. reps' # {}
    BY <1>5 DEF SyncFull
  <2>2. CASE Release(Raised, Rejected(cs, i), reps \cup {i}, drain \cup {i}, Attached)
    BY <1>s, <2>1, <2>2, RaisedShape, ReleaseKeepsShape DEF CaptureInv, NoReplicaNoCapture
  <2>3. CASE bar' = Raised /\ px' = Attached
    BY <1>s, <2>1, <2>3, RaisedShape DEF CaptureInv, NoReplicaNoCapture
  <2> QED BY <1>5, <2>2, <2>3 DEF SyncFull
<1>6. ASSUME NEW i \in Conns, ReplAck(i) PROVE CaptureInv'
  <2>1. CASE Release(bar, Answered(i, <<>>), reps, drain, px)
    BY <1>s, <1>6, <1>w, <2>1, ReleaseKeepsShape DEF ReplAck
  <2>2. CASE UNCHANGED <<bar, px>>
    BY <1>1, <1>s, <1>6, <2>2 DEF ReplAck
  <2> QED BY <1>6, <2>1, <2>2 DEF ReplAck
<1>7. ASSUME NEW i \in Conns, ReplDone(i) PROVE CaptureInv'
  <2>1. CASE Release(bar, Answered(i, <<>>), reps, drain, px)
    BY <1>s, <1>7, <1>w, <2>1, ReleaseKeepsShape DEF ReplDone
  <2>2. CASE UNCHANGED <<bar, px>>
    BY <1>1, <1>s, <1>7, <2>2 DEF ReplDone
  <2> QED BY <1>7, <2>1, <2>2 DEF ReplDone
<1>8. ASSUME NEW i \in Conns, NEW seen \in BOOLEAN, SyncRefused(i, seen) PROVE CaptureInv'
  <2>1. CASE px' = [RaisedPx EXCEPT !.buffering = FALSE]
    <3>1. DOMAIN px' = PxFields /\ px'.capture = px.capture
      BY <1>s, <2>1, RaisedShape DEF PxFields
    <3> QED BY <1>1, <1>8, <3>1 DEF SyncRefused
  <2>2. CASE px' = px
    BY <1>1, <1>s, <1>8, <2>2, Zenon DEF SyncRefused
  <2> QED BY <1>8, <2>1, <2>2 DEF SyncRefused
<1>9. CASE ProxyFault
  <2>1. px' = [InvalidPx(px) EXCEPT !.faulted = FALSE] /\ UNCHANGED <<reps, sess, bar>>
    BY <1>9 DEF ProxyFault
  <2>2. DOMAIN px' = PxFields /\ px'.capture = InvalidPx(px).capture
    BY <1>s, <2>1, EndStopsCapture DEF PxFields
  <2> QED BY <1>1, <1>s, <2>1, <2>2, EndStopsCapture
<1>10. CASE BarrierExpires
  BY <1>s, <1>10, <1>w, LoweredBarrier, EndStopsCapture DEF BarrierExpires
<1>11. CASE CacheOverflow \/ DataLost
  <2>1. DOMAIN px' = PxFields /\ px'.capture = px.capture /\ UNCHANGED <<reps, sess, bar>>
    BY <1>s, <1>11, Zenon DEF CacheOverflow, DataLost, PxFields, master
  <2> QED BY <1>1, <2>1
<1>12. CASE Relink
  <2>1. px' = Resumed(px, 0) /\ UNCHANGED <<reps, sess, bar>>
    BY <1>12 DEF Relink, master
  <2> QED BY <1>1, <1>s, <2>1, ResumedKeepsCapture
<1>13. CASE Slave
  <2>1. UNCHANGED <<reps, sess, bar>> /\ (px' = px \/ \E q : px' = [px EXCEPT !.wire = q])
    BY <1>13, Zenon DEF Slave, Connect, Leave, RecvControl, RecvData, Restart, Second, master
  <2>2. DOMAIN px' = PxFields /\ px'.capture = px.capture
    BY <1>s, <2>1 DEF PxFields
  <2> QED BY <1>1, <2>1, <2>2
<1>14. CASE UNCHANGED vars
  BY <1>1, <1>14, <1>s DEF vars
<1> QED BY <1>2, <1>3, <1>4, <1>5, <1>6, <1>7, <1>8, <1>9, <1>10, <1>11, <1>12, <1>13, <1>14
        DEF Next, Master, Proxy

\* However the last replica leaves, and whatever fails on the way, nothing stays
\* captured and no barrier or session stays up (repl_remove_slave,
\* repl_session_invalidate, repl_barrier_release, repl_broadcast).
THEOREM NoReplicaNoCaptureHolds == Spec => []NoReplicaNoCapture
<1>1. CaptureInv => NoReplicaNoCapture
  BY DEF CaptureInv
<1> QED BY <1>1, CaptureInitInv, CaptureStepInv, PTL DEF Spec
=============================================================================
