--------------------------- MODULE FullSyncProofs ---------------------------
(***************************************************************************)
(* TransferBound of FullSync for any number of snapshots, chunks and send  *)
(* slots: an RDMA WRITE reaches the file of its own transfer or none.      *)
(***************************************************************************)
EXTENDS FullSync, SequenceTheorems, TLAPS

-----------------------------------------------------------------------------
(* The invariant                                                           *)

Pair == Nat \X Nat
Mr == [tid : Nat, pd : Nat]
WriteOps == [n : Nat, i : Nat, at : Nat, mr : Mr]
DownMsgs ==
    [kind : {"FULLRESYNC"}, n : Nat, tid : Nat]
      \cup [kind : {"FULLSYNCEND", "FULLSYNCABORT"}, tid : Nat]
      \cup [kind : {"data"}, chunk : Pair]
UpMsgs == [kind : {"REPLSYNC", "REPLDONE"}] \cup [kind : {"FULLRESYNCWR"}, mr : Mr]

\* The parts of the state the invariant speaks of.
TcpType ==
    /\ DOMAIN tcp = {"n", "open", "up", "down"}
    /\ tcp.n \in Nat /\ tcp.up \in Seq(UpMsgs) /\ tcp.down \in Seq(DownMsgs)
MasterType ==
    /\ DOMAIN mst = {"pc", "n", "ok", "conn", "listening", "tid", "mr", "i", "sent", "written"}
    /\ mst.n \in Nat /\ mst.tid \in Nat /\ mst.i \in Nat /\ mst.sent \in Nat
    /\ mst.written \in Nat /\ mst.mr \in Mr
    /\ lastTid \in Nat /\ outRing \in Seq(Pair) /\ wire \in Seq(WriteOps)
SlaveType ==
    /\ DOMAIN slv = {"pc", "n", "tid", "loading", "loaded", "done", "aborted", "bg", "conn",
                     "pd", "pds"}
    /\ slv.n \in Nat /\ slv.tid \in Nat /\ slv.pd \in Nat /\ slv.pds \in Nat
    /\ DOMAIN tgt = {"tid", "n", "fd", "map", "mr", "complete", "file"}
    /\ tgt.tid \in Nat /\ tgt.n \in Nat /\ tgt.mr \in Nat /\ tgt.file \in [Chunks -> Pair]

\* Transfer t, if it is one, is a transfer of attempt n.
Owns(o, t, n) == t # 0 => t \in DOMAIN o /\ o[t] = n

\* repl_fullsync_next_transfer_id gives every transfer a number of its own: whoever has
\* a number has it for the same attempt.
Owned(o) ==
    /\ o \in [1..lastTid -> Nat]
    /\ Owns(o, mst.tid, mst.n) /\ Owns(o, slv.tid, slv.n)
    /\ tgt.mr # 0 => tgt.tid # 0 /\ Owns(o, tgt.tid, tgt.n)
    /\ \A j \in DOMAIN wire : Owns(o, wire[j].mr.tid, wire[j].n)
    /\ \A j \in DOMAIN tcp.down :
          tcp.down[j].kind = "FULLRESYNC" => Owns(o, tcp.down[j].tid, tcp.down[j].n)

\* The slave has read the header of the present connection, or it is the next thing it reads.
HeaderFirst ==
    slv.n = tcp.n \/ (tcp.down # << >> /\ Head(tcp.down).kind = "FULLRESYNC")

\* A connection carries one snapshot, and its header comes first.
Stream ==
    /\ mst.n <= tcp.n
    /\ \A j \in DOMAIN tcp.down :
          /\ tcp.down[j].kind = "FULLRESYNC" => tcp.down[j].n = tcp.n
          /\ tcp.down[j].kind = "data" => tcp.down[j].chunk[1] = tcp.n
    /\ \A j \in DOMAIN outRing : outRing[j][1] = mst.n
    /\ tcp.down # << >> => HeaderFirst
    /\ mst.pc \in {"handshake", "write", "abort", "sendfile"} /\ Served => HeaderFirst
    /\ outRing # << >> /\ Served => HeaderFirst

\* The master has an address only while it writes, and then that of its transfer.
Address ==
    /\ mst.pc \notin {"write", "abort"} => mst.mr = NoMr
    /\ mst.pc = "write" => mst.mr.tid = mst.tid
    /\ slv.pc = "prepare" => slv.tid # 0

\* The target is that of the snapshot the slave is at, and holds chunks of it only.
Target ==
    /\ tgt.fd => tgt.n = slv.n
    /\ \A i \in Chunks : tgt.file[i][1] \in {0, tgt.n}

TransferInv ==
    /\ TcpType /\ MasterType /\ SlaveType
    /\ (\E o : Owned(o)) /\ Stream /\ Address /\ Target

-----------------------------------------------------------------------------
(* Streams                                                                 *)

\* Reading the head of a stream.
LEMMA TailElements ==
  ASSUME NEW S, NEW d \in Seq(S), d # << >>
  PROVE  /\ Tail(d) \in Seq(S) /\ Head(d) = d[1] /\ 1 \in DOMAIN d /\ Head(d) \in S
         /\ \A j \in DOMAIN Tail(d) : j + 1 \in DOMAIN d /\ Tail(d)[j] = d[j + 1]
BY HeadTailProperties, LenProperties, ElementOfSeq, EmptySeq

\* Writing to a stream: the head stays what it was.
LEMMA ConcatElements ==
  ASSUME NEW S, NEW d \in Seq(S), NEW e \in Seq(S)
  PROVE  /\ d \o e \in Seq(S)
         /\ d # << >> => d \o e # << >> /\ Head(d \o e) = Head(d)
         /\ d = << >> => d \o e = e
<1>1. /\ d \o e \in Seq(S) /\ Len(d \o e) = Len(d) + Len(e)
      /\ \A i \in 1..(Len(d) + Len(e)) :
            (d \o e)[i] = IF i <= Len(d) THEN d[i] ELSE e[i - Len(d)]
  BY ConcatProperties
<1>2. /\ Len(d) \in Nat /\ DOMAIN d = 1..Len(d) /\ Len(e) \in Nat /\ DOMAIN e = 1..Len(e)
      /\ DOMAIN (d \o e) = 1..Len(d \o e)
  BY <1>1, LenProperties
<1>4. ASSUME d # << >> PROVE d \o e # << >> /\ Head(d \o e) = Head(d)
  <2>1. Len(d) > 0
    BY <1>2, <1>4, EmptySeq
  <2>2. (d \o e)[1] = d[1] /\ Len(d \o e) > 0
    BY <1>1, <1>2, <2>1
  <2> QED BY <1>1, <1>2, <2>1, <2>2, <1>4, EmptySeq, HeadTailProperties
<1>5. ASSUME d = << >> PROVE d \o e = e
  BY <1>5, ConcatEmptySeq
<1> QED BY <1>1, <1>4, <1>5

\* ... and every message was there or has been written.
LEMMA ConcatMember ==
  ASSUME NEW S, NEW d \in Seq(S), NEW e \in Seq(S), NEW j \in DOMAIN (d \o e)
  PROVE  \/ \E k \in DOMAIN d : (d \o e)[j] = d[k]
         \/ \E k \in DOMAIN e : (d \o e)[j] = e[k]
<1>1. /\ d \o e \in Seq(S) /\ Len(d \o e) = Len(d) + Len(e)
      /\ \A i \in 1..(Len(d) + Len(e)) :
            (d \o e)[i] = IF i <= Len(d) THEN d[i] ELSE e[i - Len(d)]
  BY ConcatProperties
<1>2. /\ Len(d) \in Nat /\ DOMAIN d = 1..Len(d) /\ Len(e) \in Nat /\ DOMAIN e = 1..Len(e)
      /\ DOMAIN (d \o e) = 1..Len(d \o e)
  BY <1>1, LenProperties
<1>3. CASE j <= Len(d)
  BY <1>1, <1>2, <1>3
<1>4. CASE j > Len(d)
  <2>1. j - Len(d) \in DOMAIN e /\ (d \o e)[j] = e[j - Len(d)]
    BY <1>1, <1>2, <1>4
  <2> QED BY <2>1
<1> QED BY <1>1, <1>2, <1>3, <1>4

-----------------------------------------------------------------------------
(* Types                                                                   *)

\* What the master sends.
LEMMA SentTypes ==
  ASSUME MasterType
  PROVE  /\ \A t \in Nat : <<Header(mst.n, t)>> \in Seq(DownMsgs)
         /\ <<End(mst.tid)>> \in Seq(DownMsgs) /\ <<Abort(mst.tid)>> \in Seq(DownMsgs)
         /\ [i \in Chunks |-> Data(<<mst.n, i>>)] \in Seq(DownMsgs)
         /\ [i \in DOMAIN outRing |-> Data(outRing[i])] \in Seq(DownMsgs)
<1> DEFINE a == [i \in Chunks |-> Data(<<mst.n, i>>)]
           b == [i \in DOMAIN outRing |-> Data(outRing[i])]
<1>1. \A c \in Pair : Data(c) \in DownMsgs
  BY DEF Data, DownMsgs
<1>2. \A t \in Nat : Header(mst.n, t) \in DownMsgs /\ End(t) \in DownMsgs /\ Abort(t) \in DownMsgs
  BY DEF Header, End, Abort, DownMsgs, MasterType
<1>3. a \in Seq(DownMsgs)
  <2>1. NChunks \in Nat /\ \A i \in 1..NChunks : Data(<<mst.n, i>>) \in DownMsgs
    BY <1>1, FullSyncAssumption, SMTT(30) DEF Pair, MasterType
  <2> QED BY <2>1, IsASeq DEF Chunks
<1>4. b \in Seq(DownMsgs)
  <2>1. DOMAIN outRing = 1..Len(outRing) /\ Len(outRing) \in Nat
    BY LenProperties DEF MasterType
  <2>2. \A i \in 1..Len(outRing) : outRing[i] \in Pair
    BY <2>1, ElementOfSeq DEF MasterType
  <2> QED BY <1>1, <2>1, <2>2, IsASeq
<1>5. \A m \in DownMsgs : <<m>> \in Seq(DownMsgs)
  OBVIOUS
<1> QED BY <1>2, <1>3, <1>4, <1>5 DEF MasterType

\* Every step keeps the shape of the control connection.
LEMMA TcpTypeStep ==
  ASSUME TcpType, MasterType, SlaveType, FullSyncNext
  PROVE  TcpType'
<1>1. ASSUME tcp' = tcp PROVE TcpType'
  BY <1>1 DEF TcpType
<1>2. ASSUME NEW items \in Seq(DownMsgs), ToSlave(items) PROVE TcpType'
  BY <1>2, ConcatElements DEF TcpType, ToSlave
<1>3. tcp.down # << >> => Tail(tcp.down) \in Seq(DownMsgs)
  BY TailElements DEF TcpType
<1>4. tcp.up # << >> => Tail(tcp.up) \in Seq(UpMsgs)
  BY TailElements DEF TcpType
<1>5. ASSUME tcp.down # << >>, tcp' = Consumed PROVE TcpType'
  BY <1>3, <1>5 DEF TcpType, Consumed
<1>6. ASSUME tcp' = Closed PROVE TcpType'
  BY <1>6 DEF TcpType, Closed
<1>7. ASSUME NEW m \in UpMsgs, NEW c, DOMAIN c = {"n", "open", "up", "down"},
             c.n \in Nat, c.up \in Seq(UpMsgs), c.down \in Seq(DownMsgs),
             tcp' = [c EXCEPT !.up = Append(@, m)]
      PROVE  TcpType'
  BY <1>7, AppendProperties DEF TcpType
<1>8. [kind |-> "REPLDONE"] \in UpMsgs /\ [kind |-> "REPLSYNC"] \in UpMsgs
  BY DEF UpMsgs
<1>9. ASSUME NEW s, NEW file, NEW temp, NEW c, c = tcp \/ (tcp.down # << >> /\ c = Consumed),
             Finish(s, file, temp, c)
      PROVE  TcpType'
  <2>1. /\ DOMAIN c = {"n", "open", "up", "down"}
        /\ c.n \in Nat /\ c.up \in Seq(UpMsgs) /\ c.down \in Seq(DownMsgs)
    BY <1>3, <1>9, Zenon DEF TcpType, Consumed
  <2>2. tcp' = c \/ tcp' = [c EXCEPT !.up = Append(@, [kind |-> "REPLDONE"])]
    BY <1>9 DEF Finish
  <2>3. CASE tcp' = c
    BY <2>1, <2>3 DEF TcpType
  <2>4. CASE tcp' = [c EXCEPT !.up = Append(@, [kind |-> "REPLDONE"])]
    BY <1>7, <1>8, <2>1, <2>4
  <2> QED BY <2>2, <2>3, <2>4
<1>10. CASE SlaveConnect
  <2>1. tcp' = [n |-> tcp.n + 1, open |-> TRUE, up |-> <<[kind |-> "REPLSYNC"]>>, down |-> << >>]
    BY <1>10 DEF SlaveConnect
  <2>2. tcp.n + 1 \in Nat /\ << >> \in Seq(DownMsgs) /\ <<[kind |-> "REPLSYNC"]>> \in Seq(UpMsgs)
    BY <1>8 DEF TcpType
  <2> QED BY <2>1, <2>2 DEF TcpType
<1>11. CASE StartFullsync \/ ReadControl
  BY <1>4, <1>11, Zenon DEF StartFullsync, ReadControl, TcpType
<1>12. CASE WaitRemoteMr
  <2>1. CASE UNCHANGED tcp
    BY <1>1, <2>1
  <2>2. CASE \E j \in DOMAIN tcp.up : tcp' = [tcp EXCEPT !.up = SubSeq(@, j + 1, Len(@))]
    <3>1. PICK j \in DOMAIN tcp.up : tcp' = [tcp EXCEPT !.up = SubSeq(@, j + 1, Len(@))]
      BY <2>2, Zenon
    <3>2. DOMAIN tcp.up = 1..Len(tcp.up) /\ Len(tcp.up) \in Nat
      BY LenProperties DEF TcpType
    <3>3. \A k \in (j + 1)..Len(tcp.up) : tcp.up[k] \in UpMsgs
      BY <3>2, ElementOfSeq DEF TcpType
    <3>4. SubSeq(tcp.up, j + 1, Len(tcp.up)) \in Seq(UpMsgs)
      BY <3>2, <3>3, SubSeqProperties
    <3> QED BY <3>1, <3>4 DEF TcpType
  <2> QED BY <1>12, <2>1, <2>2 DEF WaitRemoteMr
<1>13. CASE PrepareTarget
  <2>1. [kind |-> "FULLRESYNCWR", mr |-> [tid |-> slv.tid, pd |-> slv.pd]] \in UpMsgs
    BY DEF UpMsgs, Mr, SlaveType
  <2> QED BY <1>1, <1>7, <1>13, <2>1, SMTT(30) DEF PrepareTarget, TcpType
<1>14. CASE SendHeader
  <2> DEFINE t == IF mst.ok THEN lastTid' ELSE 0
  <2>1. t \in Nat
    BY <1>14 DEF SendHeader, MasterType
  <2>2. ToSlave(<<Header(mst.n, t)>>)
    BY <1>14 DEF SendHeader
  <2> HIDE DEF t
  <2> QED BY <1>2, <2>1, <2>2, SentTypes, Zenon
<1>15. CASE SendEnd \/ SendAbort \/ Sendfile \/ DrainOut
  BY <1>2, <1>15, SentTypes, Zenon DEF SendEnd, SendAbort, Sendfile, DrainOut
<1>16. CASE TcpBreaks \/ Reject
  BY <1>1, <1>6, <1>16 DEF TcpBreaks, Reject
<1>17. CASE ReceiveHeader \/ ReceiveRest \/ ReceiveEnd \/ ReceiveAbort
  BY <1>5, <1>17, Zenon DEF ReceiveHeader, ReceiveRest, ReceiveEnd, ReceiveAbort, Receiving
<1>18. CASE ReceiveData
  BY <1>5, <1>9, <1>18 DEF ReceiveData, Receiving
<1>19. CASE CheckWriteComplete
  BY <1>9, <1>19 DEF CheckWriteComplete
<1>20. CASE \/ LinkBreaks \/ AcceptRequest \/ Established \/ StartFails \/ WaitFails \/ PostWrite
            \/ PostFails \/ FallBack \/ SendOverTcp \/ CooldownEnds \/ WriteLands \/ CqError
  BY <1>1, <1>20 DEF LinkBreaks, AcceptRequest, Established, StartFails, WaitFails, PostWrite,
       PostFails, FallBack, SendOverTcp, CooldownEnds, WriteLands, CqError
<1>21. CASE \/ BgReset \/ BgResources \/ BgRequest \/ BgEstablished \/ BgFails \/ BgExit
            \/ PrepareFails \/ SlaveDisconnected
  BY <1>1, <1>21 DEF BgReset, BgResources, BgRequest, BgEstablished, BgFails, BgExit,
       PrepareFails, SlaveDisconnected
<1> QED BY <1>10, <1>11, <1>12, <1>13, <1>14, <1>15, <1>16, <1>17, <1>18, <1>19, <1>20, <1>21
        DEF FullSyncNext, MasterStep

\* Every step of the master keeps the shape of its state; the others leave it alone.
LEMMA MasterTypeStep ==
  ASSUME TcpType, MasterType, SlaveType, FullSyncNext
  PROVE  MasterType'
<1>1. ASSUME UNCHANGED <<mst, lastTid, outRing, wire>> PROVE MasterType'
  BY <1>1 DEF MasterType
<1>2. NoMr \in Mr /\ << >> \in Seq(Pair) /\ << >> \in Seq(WriteOps)
  BY DEF NoMr, Mr
<1>3. CASE StartFullsync
  <2>1. /\ UNCHANGED lastTid /\ outRing' = << >> /\ wire' \in {wire, << >>}
        /\ DOMAIN mst' = DOMAIN mst
        /\ mst'.n = tcp.n /\ mst'.tid = 0 /\ mst'.mr = NoMr
        /\ mst'.i = 1 /\ mst'.sent = 0 /\ mst'.written = 0
    BY <1>3, ZenonT(40) DEF StartFullsync, TransferCleanup, MasterReset, MasterType
  <2>2. wire' \in Seq(WriteOps)
    BY <1>2, <2>1, Zenon DEF MasterType
  <2>3. outRing' \in Seq(Pair) /\ lastTid' \in Nat
    BY <1>2, <2>1 DEF MasterType
  <2>4. /\ mst'.n \in Nat /\ mst'.tid \in Nat /\ mst'.i \in Nat /\ mst'.sent \in Nat
        /\ mst'.written \in Nat /\ mst'.mr \in Mr
    BY <1>2, <2>1 DEF TcpType
  <2> QED BY <2>1, <2>2, <2>3, <2>4 DEF MasterType
<1>4. CASE AcceptRequest \/ Established
  <2>1. CASE AcceptRequest
    BY <2>1 DEF AcceptRequest, MasterType
  <2>2. CASE Established
    BY <2>2 DEF Established, MasterType
  <2> QED BY <1>4, <2>1, <2>2
<1>5. CASE StartFails
  BY <1>2, <1>5 DEF StartFails, MasterReset, MasterType
<1>6. CASE SendHeader
  BY <1>6 DEF SendHeader, MasterType
<1>7. CASE Reject
  BY <1>7 DEF Reject, MasterType
<1>8. CASE WaitRemoteMr
  <2>1. \A j \in DOMAIN tcp.up : tcp.up[j].kind = "FULLRESYNCWR" => tcp.up[j].mr \in Mr
    BY LenProperties, ElementOfSeq, SMTT(30) DEF TcpType, UpMsgs
  <2>2. UNCHANGED <<lastTid, outRing, wire>>
    BY <1>8 DEF WaitRemoteMr
  <2>3. \/ mst' = WriteReady
        \/ mst' = [TransferCleanup(mst) EXCEPT !.pc = "sendfile"]
        \/ \E a \in Mr : mst' = [WriteReady EXCEPT !.mr = a]
    BY <1>8, <2>1 DEF WaitRemoteMr
  <2>4. CASE mst' = WriteReady
    BY <2>2, <2>4 DEF WriteReady, MasterType
  <2>5. CASE mst' = [TransferCleanup(mst) EXCEPT !.pc = "sendfile"]
    BY <1>2, <2>2, <2>5 DEF TransferCleanup, MasterType
  <2>6. CASE \E a \in Mr : mst' = [WriteReady EXCEPT !.mr = a]
    BY <2>2, <2>6 DEF WriteReady, MasterType
  <2> QED BY <2>3, <2>4, <2>5, <2>6
<1>9. CASE WaitFails
  BY <1>2, <1>9 DEF WaitFails, TransferCleanup, MasterType
<1>10. CASE PostWrite
  <2>1. [n |-> mst.n, i |-> mst.i, at |-> mst.sent + 1, mr |-> mst.mr] \in WriteOps
    BY DEF WriteOps, MasterType
  <2> QED BY <1>10, <2>1, AppendProperties, SMTT(30) DEF PostWrite, MasterType
<1>11. CASE PostFails
  BY <1>11 DEF PostFails, MasterType
<1>12. ASSUME NEW s, s = mst \/ s = [mst EXCEPT !.conn = FALSE], QueueChunk(s), UNCHANGED <<lastTid, wire>>
       PROVE  MasterType'
  <2>1. <<mst.n, mst.i>> \in Pair
    BY DEF MasterType, Pair
  <2>2. DOMAIN s = DOMAIN mst /\ s.n = mst.n /\ s.tid = mst.tid /\ s.i = mst.i /\ s.sent = mst.sent
        /\ s.written = mst.written /\ s.mr = mst.mr
    BY <1>12 DEF MasterType
  <2>3. CASE mst' = [s EXCEPT !.i = @ + 1] /\ outRing' = Append(outRing, <<mst.n, mst.i>>)
    <3>1. outRing' \in Seq(Pair)
      BY <2>1, <2>3, AppendProperties DEF MasterType
    <3>2. /\ DOMAIN mst' = DOMAIN mst /\ mst'.n = mst.n /\ mst'.tid = mst.tid
          /\ mst'.i = mst.i + 1 /\ mst'.sent = mst.sent /\ mst'.written = mst.written /\ mst'.mr = mst.mr
      BY <2>2, <2>3 DEF MasterType
    <3> QED BY <1>12, <3>1, <3>2 DEF MasterType
  <2>4. CASE mst' = [s EXCEPT !.pc = "abort"] /\ UNCHANGED outRing
    BY <1>12, <2>2, <2>4 DEF MasterType
  <2> QED BY <1>12, <2>3, <2>4 DEF QueueChunk
<1>13. CASE FallBack \/ SendOverTcp
  BY <1>12, <1>13 DEF FallBack, SendOverTcp
<1>14. CASE SendEnd \/ SendAbort \/ Sendfile
  <2>1. UNCHANGED <<lastTid, outRing, wire>> /\ \E p : mst' = [TransferCleanup(mst) EXCEPT !.pc = p]
    BY <1>14 DEF SendEnd, SendAbort, Sendfile
  <2> QED BY <1>2, <2>1 DEF TransferCleanup, MasterType
<1>15. CASE DrainOut \/ ReadControl
  BY <1>2, <1>15, Zenon DEF DrainOut, ReadControl, MasterType
<1>16. CASE WriteLands
  BY <1>16, TailElements, SMTT(30) DEF WriteLands, MasterType
<1>17. CASE CqError
  BY <1>2, <1>17 DEF CqError, MasterType
<1>18. CASE SlaveConnect \/ TcpBreaks \/ LinkBreaks \/ CooldownEnds
  BY <1>1, <1>18 DEF SlaveConnect, TcpBreaks, LinkBreaks, CooldownEnds, masterPart
<1>19. CASE BgReset \/ BgResources \/ BgRequest \/ BgEstablished \/ BgFails \/ BgExit
  BY <1>1, <1>19 DEF BgReset, BgResources, BgRequest, BgEstablished, BgFails, BgExit, masterPart
<1>20. CASE \/ ReceiveHeader \/ PrepareTarget \/ PrepareFails \/ ReceiveData \/ ReceiveRest
            \/ ReceiveEnd \/ ReceiveAbort \/ CheckWriteComplete \/ SlaveDisconnected
  BY <1>1, <1>20, Zenon DEF ReceiveHeader, PrepareTarget, PrepareFails, ReceiveData, ReceiveRest,
       ReceiveEnd, ReceiveAbort, CheckWriteComplete, SlaveDisconnected, masterPart
<1> QED BY <1>3, <1>4, <1>5, <1>6, <1>7, <1>8, <1>9, <1>10, <1>11, <1>13, <1>14, <1>15, <1>16,
           <1>17, <1>18, <1>19, <1>20 DEF FullSyncNext, MasterStep

\* What the slave writes into its target leaves its shape.
LEMMA FileType ==
  ASSUME SlaveType, NEW k, NEW c \in Pair
  PROVE  [tgt.file EXCEPT ![k] = c] \in [Chunks -> Pair]
BY Zenon DEF SlaveType

\* A target that is closed or was never made.
LEMMA NoTargetType ==
  /\ DOMAIN NoTarget = {"tid", "n", "fd", "map", "mr", "complete", "file"}
  /\ NoTarget.tid = 0 /\ NoTarget.n = 0 /\ NoTarget.mr = 0 /\ ~NoTarget.fd
  /\ NoTarget.file \in [Chunks -> Pair] /\ \A i \in Chunks : NoTarget.file[i][1] = 0
BY DEF NoTarget, Hole, Pair

\* A header gives the slave its attempt and, if it is to prepare a target, a transfer.
LEMMA HeaderFields ==
  ASSUME SlaveType, ReceiveHeader
  PROVE  /\ DOMAIN slv' = DOMAIN slv /\ slv'.n = Msg.n /\ slv'.tid = Msg.tid
         /\ slv'.pd = slv.pd /\ slv'.pds = slv.pds /\ (slv'.pc = "prepare" => Msg.tid # 0)
<1> DEFINE b == BgStarted(slv)
<1>1. DOMAIN b = DOMAIN slv /\ b.pd = slv.pd /\ b.pds = slv.pds
  BY DEF BgStarted, SlaveType
<1> HIDE DEF b
<1>2. PICK q : /\ q = "prepare" => Msg.tid # 0
               /\ LET s == [b EXCEPT !.n = Msg.n, !.tid = Msg.tid, !.loading = TRUE, !.loaded = 0,
                                     !.done = FALSE, !.pc = q]
                  IN slv' = s \/ slv' = [s EXCEPT !.pc = "dead"]
  <2>1. PICK fits \in BOOLEAN :
          LET wanted == fits /\ Msg.tid \notin {0, slv.aborted}
              s == [b EXCEPT !.n = Msg.n, !.tid = Msg.tid, !.loading = TRUE, !.loaded = 0,
                             !.done = FALSE, !.pc = IF wanted THEN "prepare" ELSE "loop"]
          IN slv' = s \/ slv' = [s EXCEPT !.pc = "dead"]
    BY Zenon DEF ReceiveHeader, b
  <2>2. CASE fits /\ Msg.tid \notin {0, slv.aborted}
    BY <2>1, <2>2, Zenon
  <2>3. CASE ~(fits /\ Msg.tid \notin {0, slv.aborted})
    BY <2>1, <2>3, Zenon
  <2> QED BY <2>2, <2>3, Zenon
<1> DEFINE s == [b EXCEPT !.n = Msg.n, !.tid = Msg.tid, !.loading = TRUE, !.loaded = 0,
                          !.done = FALSE, !.pc = q]
<1>3. DOMAIN s = DOMAIN slv /\ s.n = Msg.n /\ s.tid = Msg.tid /\ s.pd = slv.pd /\ s.pds = slv.pds /\ s.pc = q
  BY <1>1 DEF SlaveType
<1>4. slv' = s \/ slv' = [s EXCEPT !.pc = "dead"]
  BY <1>2
<1> HIDE DEF s
<1>5. CASE slv' = s
  BY <1>2, <1>3, <1>5
<1>6. CASE slv' = [s EXCEPT !.pc = "dead"]
  BY <1>3, <1>6 DEF SlaveType
<1> QED BY <1>4, <1>5, <1>6

\* Every step of the slave keeps the shape of its state; the others leave it alone.
LEMMA SlaveTypeStep ==
  ASSUME TcpType, MasterType, SlaveType, FullSyncNext
  PROVE  SlaveType'
<1>1. ASSUME UNCHANGED <<slv, tgt>> PROVE SlaveType'
  BY <1>1 DEF SlaveType
<1>2. ASSUME tcp.down # << >>
      PROVE  /\ Msg.kind = "FULLRESYNC" => Msg.n \in Nat /\ Msg.tid \in Nat
             /\ Msg.kind = "data" => Msg.chunk \in Pair
  BY <1>2, TailElements DEF Msg, TcpType, DownMsgs
<1>3. CASE WriteLands
  <2>1. Head(wire).n \in Nat /\ Head(wire).i \in Nat
    <3>1. wire # << >> /\ wire \in Seq(WriteOps)
      BY <1>3 DEF WriteLands, MasterType
    <3>2. Head(wire) \in WriteOps
      BY <3>1, TailElements
    <3> QED BY <3>2 DEF WriteOps
  <2>2. <<Head(wire).n, Head(wire).i>> \in Pair
    BY <2>1 DEF Pair
  <2> QED BY <1>3, <2>2, FileType DEF WriteLands, SlaveType
<1>4. CASE BgReset \/ BgResources \/ BgRequest \/ BgEstablished \/ BgFails \/ BgExit
  <2>1. CASE BgReset \/ BgFails
    <3>1. UNCHANGED tgt /\ \E b : slv' = [slv EXCEPT !.conn = FALSE, !.pd = 0, !.bg = b]
      BY <2>1, Zenon DEF BgReset, BgFails, SlaveReset, SlaveType
    <3> QED BY <3>1 DEF SlaveType
  <2>2. CASE BgResources
    BY <2>2 DEF BgResources, SlaveType
  <2>3. CASE BgRequest \/ BgEstablished \/ BgExit
    BY <2>3, ZenonT(40) DEF BgRequest, BgEstablished, BgExit, SlaveType
  <2> QED BY <1>4, <2>1, <2>2, <2>3
<1>5. CASE ReceiveHeader
  <2>1. Msg.n \in Nat /\ Msg.tid \in Nat
    BY <1>2, <1>5 DEF ReceiveHeader, Receiving, Msg
  <2>2. DOMAIN slv' = DOMAIN slv /\ slv'.n = Msg.n /\ slv'.tid = Msg.tid /\ slv'.pd = slv.pd
        /\ slv'.pds = slv.pds
    BY <1>5, HeaderFields
  <2>3. tgt' = [NoTarget EXCEPT !.tid = Msg.tid] \/ tgt' = NoTarget
    BY <1>5 DEF ReceiveHeader
  <2> QED BY <2>1, <2>2, <2>3, NoTargetType DEF SlaveType
<1>6. CASE PrepareTarget
  <2>1. \/ tgt' = NoTarget
        \/ tgt' = [NoTarget EXCEPT !.tid = slv.tid, !.n = slv.n, !.fd = TRUE, !.map = TRUE,
                                   !.mr = slv.pd]
    BY <1>6 DEF PrepareTarget
  <2>2. /\ DOMAIN tgt' = DOMAIN NoTarget /\ tgt'.tid \in Nat /\ tgt'.n \in Nat /\ tgt'.mr \in Nat
        /\ tgt'.file = NoTarget.file
    <3>1. CASE tgt' = NoTarget
      BY <3>1, NoTargetType
    <3>2. CASE tgt' = [NoTarget EXCEPT !.tid = slv.tid, !.n = slv.n, !.fd = TRUE, !.map = TRUE,
                                       !.mr = slv.pd]
      <4>1. /\ DOMAIN tgt' = DOMAIN NoTarget /\ tgt'.tid = slv.tid /\ tgt'.n = slv.n
            /\ tgt'.mr = slv.pd /\ tgt'.file = NoTarget.file
        BY <3>2, NoTargetType
      <4> QED BY <4>1 DEF SlaveType
    <3> QED BY <2>1, <3>1, <3>2
  <2>3. /\ DOMAIN slv' = DOMAIN slv /\ slv'.n = slv.n /\ slv'.tid = slv.tid /\ slv'.pd = slv.pd
        /\ slv'.pds = slv.pds
    BY <1>6 DEF PrepareTarget, SlaveType
  <2> QED BY <2>2, <2>3, NoTargetType DEF SlaveType
<1>7. CASE PrepareFails \/ SlaveDisconnected
  BY <1>7 DEF PrepareFails, SlaveDisconnected, SlaveType
<1>8. ASSUME NEW s, DOMAIN s = DOMAIN slv, s.n = slv.n, s.tid = slv.tid, s.pd = slv.pd, s.pds = slv.pds,
             NEW file, DOMAIN file = DOMAIN tgt, file.n = tgt.n, file.tid = tgt.tid,
             file.mr \in Nat, file.file \in [Chunks -> Pair],
             NEW temp, NEW c, Finish(s, file, temp, c)
      PROVE  SlaveType'
  BY <1>8, ZenonT(40) DEF Finish, SlaveType
<1>9. CASE ReceiveData
  <2> DEFINE s == [slv EXCEPT !.loaded = @ + 1]
             file == IF tgt.fd /\ tgt.map THEN [tgt EXCEPT !.file[s.loaded] = Msg.chunk] ELSE tgt
  <2>1. DOMAIN s = DOMAIN slv /\ s.n = slv.n /\ s.tid = slv.tid /\ s.pd = slv.pd /\ s.pds = slv.pds
    BY DEF SlaveType
  <2>2. Msg.chunk \in Pair
    BY <1>2, <1>9 DEF ReceiveData, Receiving, Msg
  <2>3. /\ DOMAIN file = DOMAIN tgt /\ file.n = tgt.n /\ file.tid = tgt.tid /\ file.mr = tgt.mr
        /\ file.file \in [Chunks -> Pair]
    BY <2>2, FileType DEF SlaveType
  <2>4. (slv' = s /\ tgt' = file) \/ \E temp, c : Finish(s, file, temp, c)
    BY <1>9 DEF ReceiveData
  <2> HIDE DEF s, file
  <2> QED BY <1>8, <2>1, <2>3, <2>4 DEF SlaveType
<1>10. CASE CheckWriteComplete
  BY <1>8, <1>10, Zenon DEF CheckWriteComplete, SlaveType
<1>11. CASE ReceiveEnd \/ ReceiveAbort
  BY <1>11, NoTargetType DEF ReceiveEnd, ReceiveAbort, SlaveType
<1>12. CASE \/ SlaveConnect \/ TcpBreaks \/ LinkBreaks \/ CooldownEnds \/ CqError \/ ReceiveRest
            \/ StartFullsync \/ Sendfile \/ DrainOut \/ ReadControl
  BY <1>1, <1>12 DEF SlaveConnect, TcpBreaks, LinkBreaks, CooldownEnds, CqError, ReceiveRest,
       StartFullsync, Sendfile, DrainOut, ReadControl, slavePart
<1>13. CASE MasterStep
  BY <1>1, <1>13, Zenon DEF MasterStep, AcceptRequest, Established, StartFails, SendHeader, Reject,
       WaitRemoteMr, WaitFails, PostWrite, PostFails, FallBack, SendOverTcp, SendEnd, SendAbort, slavePart
<1> QED BY <1>3, <1>4, <1>5, <1>6, <1>7, <1>9, <1>10, <1>11, <1>12, <1>13 DEF FullSyncNext
-----------------------------------------------------------------------------
(* What a step does to the parts the invariant speaks of                   *)

Busy == {"handshake", "write", "abort", "sendfile"}
SameTransfer == mst'.n = mst.n /\ mst'.tid = mst.tid /\ mst'.mr = mst.mr
NoTransfer == mst'.n = mst.n /\ mst'.tid = 0 /\ mst'.mr = NoMr
SameHeader == slv'.n = slv.n /\ slv'.tid = slv.tid /\ (slv'.pc = "prepare" => slv.pc = "prepare")

\* The master at work between the header and the end of its snapshot: it keeps the transfer
\* it is at, or ends it.
LEMMA MasterMoves ==
  ASSUME MasterType, FullSyncNext, ~StartFullsync, ~SendHeader, ~WaitRemoteMr
  PROVE  \/ SameTransfer /\ mst'.pc = mst.pc
         \/ SameTransfer /\ mst.pc = "write" /\ mst'.pc \in {"write", "abort"}
         \/ SameTransfer /\ mst.pc \notin Busy \ {"sendfile"} /\ mst'.pc \notin Busy
         \/ NoTransfer /\ (mst'.pc \in Busy => mst.pc \in Busy) /\ mst'.pc \notin {"write", "abort"}
<1> USE DEF SameTransfer, NoTransfer, Busy
<1>1. CASE mst' = mst
  BY <1>1
<1>2. CASE StartFails
  BY <1>2 DEF StartFails, MasterReset, MasterType
<1>3. CASE AcceptRequest
  BY <1>3 DEF AcceptRequest, MasterType
<1>4. CASE Established
  BY <1>4 DEF Established, MasterType
<1>5. CASE Reject
  BY <1>5 DEF Reject, MasterType
<1>6. CASE WaitFails
  BY <1>6 DEF WaitFails, TransferCleanup, MasterType
<1>7. CASE PostWrite
  BY <1>7 DEF PostWrite, MasterType
<1>8. CASE PostFails
  BY <1>8 DEF PostFails, MasterType
<1>9. ASSUME NEW s, s = mst \/ s = [mst EXCEPT !.conn = FALSE], QueueChunk(s), mst.pc = "write"
      PROVE  SameTransfer /\ mst'.pc \in {"write", "abort"}
  <2>1. DOMAIN s = DOMAIN mst /\ s.n = mst.n /\ s.tid = mst.tid /\ s.mr = mst.mr /\ s.pc = "write"
    BY <1>9 DEF MasterType
  <2>2. mst' = [s EXCEPT !.i = @ + 1] \/ mst' = [s EXCEPT !.pc = "abort"]
    BY <1>9 DEF QueueChunk
  <2> QED BY <2>1, <2>2 DEF MasterType
<1>10. CASE FallBack \/ SendOverTcp
  BY <1>9, <1>10 DEF FallBack, SendOverTcp
<1>11. CASE SendEnd
  BY <1>11 DEF SendEnd, TransferCleanup, MasterType
<1>12. CASE SendAbort
  BY <1>12 DEF SendAbort, TransferCleanup, MasterType
<1>13. CASE Sendfile
  BY <1>13 DEF Sendfile, TransferCleanup, MasterType
<1>14. CASE ReadControl
  BY <1>14 DEF ReadControl, MasterType
<1>15. CASE WriteLands
  BY <1>15 DEF WriteLands, MasterType
<1>16. CASE CqError
  BY <1>16 DEF CqError, MasterType
<1>17. CASE SlaveConnect \/ TcpBreaks \/ LinkBreaks \/ CooldownEnds \/ DrainOut
  BY <1>1, <1>17 DEF SlaveConnect, TcpBreaks, LinkBreaks, CooldownEnds, DrainOut, masterPart
<1>18. CASE BgReset \/ BgResources \/ BgRequest \/ BgEstablished \/ BgFails \/ BgExit
  BY <1>1, <1>18 DEF BgReset, BgResources, BgRequest, BgEstablished, BgFails, BgExit, masterPart
<1>19. CASE \/ ReceiveHeader \/ PrepareTarget \/ PrepareFails \/ ReceiveData \/ ReceiveRest
            \/ ReceiveEnd \/ ReceiveAbort \/ CheckWriteComplete \/ SlaveDisconnected
  BY <1>1, <1>19, Zenon DEF ReceiveHeader, PrepareTarget, PrepareFails, ReceiveData, ReceiveRest,
       ReceiveEnd, ReceiveAbort, CheckWriteComplete, SlaveDisconnected, masterPart
<1> QED BY <1>2, <1>3, <1>4, <1>5, <1>6, <1>7, <1>8, <1>10, <1>11, <1>12, <1>13, <1>14, <1>15,
           <1>16, <1>17, <1>18, <1>19, Zenon DEF FullSyncNext, MasterStep

\* A new attempt has no transfer yet.
LEMMA StartMoves ==
  ASSUME MasterType, StartFullsync
  PROVE  /\ mst'.n = tcp.n /\ mst'.tid = 0 /\ mst'.mr = NoMr /\ mst'.pc \in {"header", "request"}
         /\ outRing' = << >> /\ tcp'.n = tcp.n /\ tcp'.open = tcp.open /\ tcp'.down = tcp.down
         /\ UNCHANGED <<slv, tgt, lastTid>> /\ wire' \in {wire, << >>}
<1>1. tcp' = [tcp EXCEPT !.up = Tail(@)] /\ outRing' = << >> /\ UNCHANGED <<slv, tgt, lastTid>>
      /\ wire' \in {wire, << >>}
  BY DEF StartFullsync, slavePart
<1>2. mst'.n = tcp.n /\ mst'.tid = 0 /\ mst'.mr = NoMr /\ mst'.pc \in {"header", "request"}
  BY ZenonT(40) DEF StartFullsync, TransferCleanup, MasterReset, MasterType
<1> QED BY <1>1, <1>2

\* The header of an attempt over RDMA has a number no transfer had before.
LEMMA HeaderMoves ==
  ASSUME MasterType, SendHeader
  PROVE  /\ mst'.n = mst.n /\ mst'.mr = mst.mr /\ mst'.pc \in {"handshake", "sendfile"}
         /\ \/ lastTid' = lastTid + 1 /\ mst'.tid = lastTid + 1 /\ ToSlave(<<Header(mst.n, lastTid + 1)>>)
            \/ lastTid' = lastTid /\ mst'.tid = mst.tid /\ ToSlave(<<Header(mst.n, 0)>>)
         /\ UNCHANGED <<slv, tgt, wire, outRing>> /\ mst.pc = "header"
<1>1. CASE mst.ok
  BY <1>1 DEF SendHeader, slavePart, MasterType
<1>2. CASE ~mst.ok
  BY <1>2 DEF SendHeader, slavePart, MasterType
<1> QED BY <1>1, <1>2

\* An address that arrives is taken for the transfer it was made for, or not at all.
LEMMA AddressMoves ==
  ASSUME MasterType, Address, WaitRemoteMr
  PROVE  /\ mst'.n = mst.n /\ mst.pc = "handshake"
         /\ \/ mst'.pc = "write" /\ mst'.tid = mst.tid /\ mst'.mr.tid = mst.tid
            \/ mst'.pc = "sendfile" /\ mst'.tid = 0 /\ mst'.mr = NoMr
         /\ tcp'.n = tcp.n /\ tcp'.open = tcp.open /\ tcp'.down = tcp.down
         /\ UNCHANGED <<slv, tgt, wire, outRing, lastTid>>
<1>1. mst.mr = NoMr /\ mst.pc = "handshake"
  BY DEF Address, WaitRemoteMr
<1>2. PICK j \in DOMAIN tcp.up :
         \/ /\ Valid(tcp.up[j]) /\ mst' = [WriteReady EXCEPT !.mr = tcp.up[j].mr]
            /\ tcp' = [tcp EXCEPT !.up = SubSeq(@, j + 1, Len(@))]
         \/ mst' = [TransferCleanup(mst) EXCEPT !.pc = "sendfile"] /\ UNCHANGED tcp
  BY <1>1 DEF WaitRemoteMr
<1>3. UNCHANGED <<slv, tgt, wire, outRing, lastTid>>
  BY DEF WaitRemoteMr, slavePart
<1>4. CASE Valid(tcp.up[j]) /\ mst' = [WriteReady EXCEPT !.mr = tcp.up[j].mr]
           /\ tcp' = [tcp EXCEPT !.up = SubSeq(@, j + 1, Len(@))]
  <2>1. mst'.n = mst.n /\ mst'.pc = "write" /\ mst'.tid = mst.tid /\ mst'.mr.tid = mst.tid
    BY <1>4 DEF WriteReady, Valid, MasterType
  <2>2. tcp'.n = tcp.n /\ tcp'.open = tcp.open /\ tcp'.down = tcp.down
    BY <1>4
  <2> QED BY <1>1, <1>3, <2>1, <2>2
<1>5. CASE mst' = [TransferCleanup(mst) EXCEPT !.pc = "sendfile"] /\ UNCHANGED tcp
  <2>1. mst'.n = mst.n /\ mst'.pc = "sendfile" /\ mst'.tid = 0 /\ mst'.mr = NoMr
    BY <1>5 DEF TransferCleanup, MasterType
  <2> QED BY <1>1, <1>3, <1>5, <2>1
<1> QED BY <1>2, <1>4, <1>5

\* The slave goes to another attempt only with a header.
LEMMA SlaveMoves ==
  ASSUME SlaveType, FullSyncNext, ~ReceiveHeader
  PROVE  SameHeader
<1> USE DEF SameHeader
<1>1. CASE UNCHANGED slv
  BY <1>1
<1>2. CASE BgReset
  BY <1>2 DEF BgReset, SlaveReset, SlaveType
<1>3. CASE BgFails
  BY <1>3 DEF BgFails, SlaveReset, SlaveType
<1>4. CASE BgResources
  BY <1>4 DEF BgResources, SlaveType
<1>5. CASE BgRequest \/ BgEstablished \/ BgExit
  BY <1>5, ZenonT(40) DEF BgRequest, BgEstablished, BgExit, SlaveType
<1>6. CASE PrepareTarget \/ PrepareFails
  BY <1>6 DEF PrepareTarget, PrepareFails, SlaveType
<1>7. CASE SlaveDisconnected
  BY <1>7 DEF SlaveDisconnected, SlaveType
<1>8. CASE ReceiveAbort
  BY <1>8 DEF ReceiveAbort, SlaveType
<1>9. ASSUME NEW s, DOMAIN s = DOMAIN slv, s.n = slv.n, s.tid = slv.tid, s.pc = slv.pc,
             NEW file, NEW temp, NEW c, Finish(s, file, temp, c)
      PROVE  SameHeader
  BY <1>9, ZenonT(40) DEF Finish, SlaveType
<1>10. CASE ReceiveData
  <2> DEFINE s == [slv EXCEPT !.loaded = @ + 1]
  <2>1. DOMAIN s = DOMAIN slv /\ s.n = slv.n /\ s.tid = slv.tid /\ s.pc = slv.pc
    BY DEF SlaveType
  <2>2. slv' = s \/ \E file, temp, c : Finish(s, file, temp, c)
    BY <1>10 DEF ReceiveData
  <2> HIDE DEF s
  <2> QED BY <1>9, <2>1, <2>2
<1>11. CASE CheckWriteComplete
  <2> DEFINE s == [slv EXCEPT !.conn = FALSE]
  <2>1. DOMAIN s = DOMAIN slv /\ s.n = slv.n /\ s.tid = slv.tid /\ s.pc = slv.pc
    BY DEF SlaveType
  <2>2. \E file, temp, c : Finish(s, file, temp, c)
    BY <1>11 DEF CheckWriteComplete
  <2> HIDE DEF s
  <2> QED BY <1>9, <2>1, <2>2
<1>12. CASE \/ SlaveConnect \/ TcpBreaks \/ LinkBreaks \/ CooldownEnds \/ CqError \/ ReceiveRest
            \/ StartFullsync \/ Sendfile \/ DrainOut \/ ReadControl \/ WriteLands \/ ReceiveEnd
  BY <1>1, <1>12, Zenon DEF SlaveConnect, TcpBreaks, LinkBreaks, CooldownEnds, CqError, ReceiveRest,
       StartFullsync, Sendfile, DrainOut, ReadControl, WriteLands, ReceiveEnd, slavePart
<1>13. CASE MasterStep
  BY <1>1, <1>13, Zenon DEF MasterStep, AcceptRequest, Established, StartFails, SendHeader, Reject,
       WaitRemoteMr, WaitFails, PostWrite, PostFails, FallBack, SendOverTcp, SendEnd, SendAbort, slavePart
<1> QED BY <1>2, <1>3, <1>4, <1>5, <1>6, <1>7, <1>8, <1>10, <1>11, <1>12, <1>13 DEF FullSyncNext

\* A header takes the slave to its attempt and closes the target of the one before.
LEMMA ReceiveMoves ==
  ASSUME SlaveType, TcpType, ReceiveHeader
  PROVE  /\ slv'.n = Msg.n /\ slv'.tid = Msg.tid /\ (slv'.pc = "prepare" => Msg.tid # 0)
         /\ ~tgt'.fd /\ tgt'.mr = 0 /\ \A i \in Chunks : tgt'.file[i][1] = 0
         /\ tcp.down # << >> /\ Msg.kind = "FULLRESYNC" /\ tcp' = Consumed
         /\ UNCHANGED <<mst, lastTid, outRing, wire>>
<1>1. slv'.n = Msg.n /\ slv'.tid = Msg.tid /\ (slv'.pc = "prepare" => Msg.tid # 0)
  BY HeaderFields
<1>2. tgt' = [NoTarget EXCEPT !.tid = Msg.tid] \/ tgt' = NoTarget
  BY DEF ReceiveHeader
<1>3. ~tgt'.fd /\ tgt'.mr = 0 /\ tgt'.file = NoTarget.file
  BY <1>2, NoTargetType
<1>4. tcp.down # << >> /\ Msg.kind = "FULLRESYNC" /\ tcp' = Consumed /\ UNCHANGED <<mst, lastTid, outRing, wire>>
  BY DEF ReceiveHeader, Receiving, Msg, masterPart
<1> QED BY <1>1, <1>3, <1>4, NoTargetType

SameFile == tgt'.n = tgt.n /\ tgt'.tid = tgt.tid /\ tgt'.mr \in {0, tgt.mr} /\ (tgt'.fd => tgt.fd)
EmptyFile == ~tgt'.fd /\ tgt'.mr = 0 /\ \A i \in Chunks : tgt'.file[i][1] = 0

\* The target changes hands only with a header or a registration; else it is closed, or a
\* chunk is written into it by the adapter or by slave_thread.
LEMMA TargetMoves ==
  ASSUME SlaveType, FullSyncNext, ~ReceiveHeader, ~PrepareTarget
  PROVE  \/ EmptyFile
         \/ SameFile /\ tgt'.file = tgt.file
         \/ SameFile /\ WriteLands /\ tgt'.file = [tgt.file EXCEPT ![Head(wire).at] = <<Head(wire).n, Head(wire).i>>]
         \/ SameFile /\ ReceiveData /\ tgt.fd /\ \E k : tgt'.file = [tgt.file EXCEPT ![k] = Msg.chunk]
<1> USE DEF SameFile
<1>1. CASE UNCHANGED tgt
  BY <1>1
<1>2. CASE WriteLands
  BY <1>2 DEF WriteLands, SlaveType
<1>3. CASE ReceiveEnd
  BY <1>3 DEF ReceiveEnd, SlaveType
<1>4. CASE ReceiveAbort
  <2>1. tgt' = tgt \/ tgt' = NoTarget
    BY <1>4 DEF ReceiveAbort
  <2> QED BY <1>1, <2>1, NoTargetType, Zenon DEF EmptyFile
<1>5. ASSUME NEW s, NEW temp, NEW c, NEW file, DOMAIN file = DOMAIN tgt, Finish(s, file, temp, c)
      PROVE  tgt'.n = file.n /\ tgt'.tid = file.tid /\ tgt'.mr = file.mr /\ tgt'.file = file.file /\ (tgt'.fd => file.fd)
  <2>1. tgt' = file \/ tgt' = [file EXCEPT !.fd = FALSE]
    BY <1>5 DEF Finish
  <2> QED BY <1>5, <2>1 DEF SlaveType
<1>6. CASE ReceiveData
  <2> DEFINE s == [slv EXCEPT !.loaded = @ + 1]
             file == IF tgt.fd /\ tgt.map THEN [tgt EXCEPT !.file[s.loaded] = Msg.chunk] ELSE tgt
  <2>1. /\ DOMAIN file = DOMAIN tgt /\ file.n = tgt.n /\ file.tid = tgt.tid /\ file.mr = tgt.mr
        /\ file.fd => tgt.fd
        /\ file.file = tgt.file \/ (tgt.fd /\ file.file = [tgt.file EXCEPT ![s.loaded] = Msg.chunk])
    BY DEF SlaveType
  <2>2. tgt' = file \/ \E temp, c : Finish(s, file, temp, c)
    BY <1>6 DEF ReceiveData
  <2>3. tgt'.n = file.n /\ tgt'.tid = file.tid /\ tgt'.mr = file.mr /\ tgt'.file = file.file /\ (tgt'.fd => file.fd)
    <3> HIDE DEF s, file
    <3> QED BY <1>5, <2>1, <2>2
  <2> HIDE DEF s, file
  <2> QED BY <1>6, <2>1, <2>3, ZenonT(40)
<1>7. CASE CheckWriteComplete
  <2> DEFINE s == [slv EXCEPT !.conn = FALSE]
             file == [tgt EXCEPT !.map = FALSE, !.mr = 0]
  <2>1. DOMAIN file = DOMAIN tgt /\ file.n = tgt.n /\ file.tid = tgt.tid /\ file.mr = 0 /\ file.file = tgt.file
        /\ file.fd = tgt.fd
    BY DEF SlaveType
  <2>2. \E temp, c : Finish(s, file, temp, c)
    BY <1>7 DEF CheckWriteComplete
  <2> HIDE DEF s, file
  <2> QED BY <1>5, <2>1, <2>2
<1>8. CASE \/ SlaveConnect \/ TcpBreaks \/ LinkBreaks \/ CooldownEnds \/ CqError \/ ReceiveRest
           \/ StartFullsync \/ Sendfile \/ DrainOut \/ ReadControl
  BY <1>1, <1>8, Zenon DEF SlaveConnect, TcpBreaks, LinkBreaks, CooldownEnds, CqError, ReceiveRest,
       StartFullsync, Sendfile, DrainOut, ReadControl, slavePart
<1>9. CASE MasterStep
  BY <1>1, <1>9, Zenon DEF MasterStep, AcceptRequest, Established, StartFails, SendHeader, Reject,
       WaitRemoteMr, WaitFails, PostWrite, PostFails, FallBack, SendOverTcp, SendEnd, SendAbort, slavePart
<1>10. CASE BgReset \/ BgResources \/ BgRequest \/ BgEstablished \/ BgFails \/ BgExit \/ PrepareFails \/ SlaveDisconnected
  BY <1>1, <1>10 DEF BgReset, BgResources, BgRequest, BgEstablished, BgFails, BgExit, PrepareFails, SlaveDisconnected
<1> QED BY <1>2, <1>3, <1>4, <1>6, <1>7, <1>8, <1>9, <1>10, Zenon DEF FullSyncNext

\* A WRITE is posted for the transfer the master is at.
LEMMA WireMoves ==
  ASSUME MasterType, FullSyncNext, NEW j \in DOMAIN wire'
  PROVE  \/ \E k \in DOMAIN wire : wire'[j] = wire[k]
         \/ mst.pc = "write" /\ wire'[j].n = mst.n /\ wire'[j].mr = mst.mr
<1>1. CASE UNCHANGED wire
  BY <1>1
<1>2. CASE wire' = << >>
  BY <1>2
<1>3. CASE WriteLands
  <2>1. wire # << >> /\ wire' = Tail(wire) /\ wire \in Seq(WriteOps)
    BY <1>3 DEF WriteLands, MasterType
  <2>2. j + 1 \in DOMAIN wire /\ wire'[j] = wire[j + 1]
    BY <2>1, TailElements
  <2> QED BY <2>2
<1>4. CASE PostWrite
  <2> DEFINE w == [n |-> mst.n, i |-> mst.i, at |-> mst.sent + 1, mr |-> mst.mr]
  <2>1. wire' = Append(wire, w) /\ mst.pc = "write"
    BY <1>4 DEF PostWrite
  <2>2. w.n = mst.n /\ w.mr = mst.mr
    OBVIOUS
  <2>3. w \in WriteOps /\ wire \in Seq(WriteOps)
    BY DEF WriteOps, MasterType
  <2> HIDE DEF w
  <2>4. /\ DOMAIN wire' = 1..(Len(wire) + 1) /\ DOMAIN wire = 1..Len(wire) /\ Len(wire) \in Nat
        /\ \A i \in 1..Len(wire) : wire'[i] = wire[i]
        /\ wire'[Len(wire) + 1] = w
    BY <2>1, <2>3, AppendProperties, LenProperties
  <2>5. CASE j = Len(wire) + 1
    BY <2>1, <2>2, <2>4, <2>5
  <2>6. CASE j # Len(wire) + 1
    <3>1. j \in DOMAIN wire /\ wire'[j] = wire[j]
      BY <2>4, <2>6
    <3> QED BY <3>1
  <2> QED BY <2>5, <2>6
<1>5. CASE StartFullsync \/ StartFails \/ CqError
  BY <1>1, <1>2, <1>5 DEF StartFullsync, StartFails, CqError
<1>6. CASE MasterStep /\ ~StartFails /\ ~PostWrite
  BY <1>1, <1>6 DEF MasterStep, AcceptRequest, Established, SendHeader, Reject,
       WaitRemoteMr, WaitFails, PostFails, FallBack, SendOverTcp, SendEnd, SendAbort
<1>7. CASE SlaveConnect \/ TcpBreaks \/ LinkBreaks \/ CooldownEnds \/ Sendfile \/ DrainOut \/ ReadControl
  BY <1>1, <1>7 DEF SlaveConnect, TcpBreaks, LinkBreaks, CooldownEnds, Sendfile, DrainOut, ReadControl
<1>8. CASE BgReset \/ BgResources \/ BgRequest \/ BgEstablished \/ BgFails \/ BgExit
  BY <1>1, <1>8 DEF BgReset, BgResources, BgRequest, BgEstablished, BgFails, BgExit
<1>9. CASE \/ ReceiveHeader \/ PrepareTarget \/ PrepareFails \/ ReceiveData \/ ReceiveRest
           \/ ReceiveEnd \/ ReceiveAbort \/ CheckWriteComplete \/ SlaveDisconnected
  BY <1>1, <1>9, Zenon DEF ReceiveHeader, PrepareTarget, PrepareFails, ReceiveData, ReceiveRest,
       ReceiveEnd, ReceiveAbort, CheckWriteComplete, SlaveDisconnected
<1> QED BY <1>3, <1>4, <1>5, <1>6, <1>7, <1>8, <1>9 DEF FullSyncNext, MasterStep

\* What is in the output ring is of the attempt the master is at.
LEMMA RingMoves ==
  ASSUME FullSyncNext, ~StartFullsync
  PROVE  \/ outRing' = outRing
         \/ outRing' = << >>
         \/ mst.pc = "write" /\ UNCHANGED tcp /\ outRing' = Append(outRing, <<mst.n, mst.i>>)
<1>1. CASE FallBack \/ SendOverTcp
  BY <1>1 DEF FallBack, SendOverTcp, QueueChunk
<1>2. CASE DrainOut
  BY <1>2 DEF DrainOut
<1>3. CASE MasterStep /\ ~FallBack /\ ~SendOverTcp
  BY <1>3 DEF MasterStep, AcceptRequest, Established, StartFails, SendHeader, Reject,
       WaitRemoteMr, WaitFails, PostWrite, PostFails, SendEnd, SendAbort
<1>4. CASE SlaveConnect \/ TcpBreaks \/ LinkBreaks \/ CooldownEnds \/ Sendfile \/ ReadControl \/ WriteLands \/ CqError
  BY <1>4 DEF SlaveConnect, TcpBreaks, LinkBreaks, CooldownEnds, Sendfile, ReadControl, WriteLands, CqError, masterPart
<1>5. CASE BgReset \/ BgResources \/ BgRequest \/ BgEstablished \/ BgFails \/ BgExit
  BY <1>5 DEF BgReset, BgResources, BgRequest, BgEstablished, BgFails, BgExit, masterPart
<1>6. CASE \/ ReceiveHeader \/ PrepareTarget \/ PrepareFails \/ ReceiveData \/ ReceiveRest
           \/ ReceiveEnd \/ ReceiveAbort \/ CheckWriteComplete \/ SlaveDisconnected
  BY <1>6, Zenon DEF ReceiveHeader, PrepareTarget, PrepareFails, ReceiveData, ReceiveRest,
       ReceiveEnd, ReceiveAbort, CheckWriteComplete, SlaveDisconnected, masterPart
<1> QED BY <1>1, <1>2, <1>3, <1>4, <1>5, <1>6 DEF FullSyncNext, MasterStep

Sends == SendHeader \/ SendEnd \/ SendAbort \/ Sendfile \/ DrainOut
SameLink == tcp'.n = tcp.n /\ tcp'.open = tcp.open
Reads == tcp.down # << >> /\ SameLink /\ tcp'.down = Tail(tcp.down)

\* Where the master does not send, the stream to the slave stays, loses its head to the
\* slave, or is gone with its connection.
LEMMA DownMoves ==
  ASSUME TcpType, FullSyncNext, ~Sends
  PROVE  \/ SameLink /\ tcp'.down = tcp.down
         \/ tcp'.n = tcp.n /\ ~tcp'.open /\ tcp'.down = << >>
         \/ tcp'.n = tcp.n + 1 /\ tcp'.down = << >>
         \/ Reads /\ (ReceiveHeader \/ Msg.kind # "FULLRESYNC")
<1> USE DEF SameLink
<1>1. CASE UNCHANGED tcp
  BY <1>1
<1>2. CASE SlaveConnect
  BY <1>2 DEF SlaveConnect
<1>3. CASE TcpBreaks \/ Reject
  BY <1>3, Zenon DEF TcpBreaks, Reject, Closed, TcpType
<1>4. CASE StartFullsync \/ ReadControl
  BY <1>4 DEF StartFullsync, ReadControl, TcpType
<1>5. CASE WaitRemoteMr
  BY <1>5 DEF WaitRemoteMr, TcpType
<1>6. CASE PrepareTarget
  BY <1>6 DEF PrepareTarget, TcpType
<1>7. ASSUME tcp.down # << >>, tcp' = Consumed PROVE Reads
  BY <1>7 DEF Reads, Consumed, TcpType
<1>8. CASE ReceiveHeader \/ ReceiveRest \/ ReceiveEnd \/ ReceiveAbort
  BY <1>7, <1>8, Zenon DEF ReceiveHeader, ReceiveRest, ReceiveEnd, ReceiveAbort, Receiving, Msg
<1>9. ASSUME NEW s, NEW file, NEW temp, NEW c, DOMAIN c = DOMAIN tcp, Finish(s, file, temp, c)
      PROVE  tcp'.n = c.n /\ tcp'.open = c.open /\ tcp'.down = c.down
  <2>1. tcp' = c \/ tcp' = [c EXCEPT !.up = Append(@, [kind |-> "REPLDONE"])]
    BY <1>9 DEF Finish
  <2> QED BY <1>9, <2>1 DEF TcpType
<1>10. CASE ReceiveData
  <2>1. tcp.down # << >> /\ Msg.kind = "data"
    BY <1>10 DEF ReceiveData, Receiving, Msg
  <2>2. tcp' = Consumed \/ \E s, file, temp : Finish(s, file, temp, Consumed)
    BY <1>10 DEF ReceiveData
  <2>3. DOMAIN Consumed = DOMAIN tcp /\ Consumed.n = tcp.n /\ Consumed.open = tcp.open /\ Consumed.down = Tail(tcp.down)
    BY DEF Consumed, TcpType
  <2>4. tcp'.n = Consumed.n /\ tcp'.open = Consumed.open /\ tcp'.down = Consumed.down
    BY <1>9, <2>2, <2>3
  <2> QED BY <2>1, <2>3, <2>4 DEF Reads
<1>11. CASE CheckWriteComplete
  <2>1. \E s, file, temp : Finish(s, file, temp, tcp)
    BY <1>11 DEF CheckWriteComplete
  <2> QED BY <1>9, <2>1
<1>12. CASE \/ LinkBreaks \/ AcceptRequest \/ Established \/ StartFails \/ WaitFails \/ PostWrite
            \/ PostFails \/ FallBack \/ SendOverTcp \/ CooldownEnds \/ WriteLands \/ CqError
  BY <1>1, <1>12 DEF LinkBreaks, AcceptRequest, Established, StartFails, WaitFails, PostWrite,
       PostFails, FallBack, SendOverTcp, CooldownEnds, WriteLands, CqError
<1>13. CASE \/ BgReset \/ BgResources \/ BgRequest \/ BgEstablished \/ BgFails \/ BgExit
            \/ PrepareFails \/ SlaveDisconnected
  BY <1>1, <1>13 DEF BgReset, BgResources, BgRequest, BgEstablished, BgFails, BgExit,
       PrepareFails, SlaveDisconnected
<1> QED BY <1>2, <1>3, <1>4, <1>5, <1>6, <1>8, <1>10, <1>11, <1>12, <1>13, Zenon
        DEF FullSyncNext, MasterStep, Sends

\* What the master sends after the header goes to the connection the attempt is for.
LEMMA SendMoves ==
  ASSUME MasterType, Sends, ~SendHeader
  PROVE  /\ \E items \in Seq(DownMsgs) :
              /\ ToSlave(items)
              /\ \A j \in DOMAIN items : items[j].kind # "FULLRESYNC"
                                         /\ (items[j].kind = "data" => \/ items[j].chunk[1] = mst.n
                                                                       \/ \E k \in DOMAIN outRing : items[j].chunk = outRing[k])
         /\ mst.pc \in Busy \/ outRing # << >>
<1>1. CASE SendEnd
  <2>1. ToSlave(<<End(mst.tid)>>) /\ mst.pc = "write"
    BY <1>1 DEF SendEnd
  <2>2. \A j \in DOMAIN <<End(mst.tid)>> : <<End(mst.tid)>>[j].kind = "FULLSYNCEND"
    BY DEF End
  <2> QED BY <2>1, <2>2, SentTypes, Zenon DEF Busy
<1>2. CASE SendAbort
  <2>1. ToSlave(<<Abort(mst.tid)>>) /\ mst.pc = "abort"
    BY <1>2 DEF SendAbort
  <2>2. \A j \in DOMAIN <<Abort(mst.tid)>> : <<Abort(mst.tid)>>[j].kind = "FULLSYNCABORT"
    BY DEF Abort
  <2> QED BY <2>1, <2>2, SentTypes, Zenon DEF Busy
<1>3. CASE Sendfile
  <2> DEFINE items == [i \in Chunks |-> Data(<<mst.n, i>>)]
  <2>1. ToSlave(items) /\ mst.pc = "sendfile" /\ items \in Seq(DownMsgs)
    BY <1>3, SentTypes DEF Sendfile
  <2>2. \A j \in DOMAIN items : items[j].kind = "data" /\ items[j].chunk[1] = mst.n
    BY DEF Data
  <2> HIDE DEF items
  <2> QED BY <2>1, <2>2 DEF Busy
<1>4. CASE DrainOut
  <2> DEFINE items == [i \in DOMAIN outRing |-> Data(outRing[i])]
  <2>1. ToSlave(items) /\ outRing # << >> /\ items \in Seq(DownMsgs)
    BY <1>4, SentTypes DEF DrainOut
  <2>2. \A j \in DOMAIN items : j \in DOMAIN outRing /\ items[j].kind = "data" /\ items[j].chunk = outRing[j]
    BY DEF Data
  <2> HIDE DEF items
  <2> QED BY <2>1, <2>2
<1> QED BY <1>1, <1>2, <1>3, <1>4 DEF Sends

-----------------------------------------------------------------------------
(* Every step keeps the invariant                                          *)

\* The header of a connection comes before all else that it carries.
LEMMA StreamStep ==
  ASSUME TcpType, MasterType, SlaveType, Stream, Address, FullSyncNext
  PROVE  Stream'
<1> DEFINE HoldsRing == /\ \A j \in DOMAIN outRing' : outRing'[j][1] = mst'.n
                        /\ outRing' # << >> => outRing # << >> \/ mst.pc = "write"
           SameSlave == slv'.n = slv.n
           Calm == mst'.n = mst.n /\ (mst'.pc \in Busy => mst.pc \in Busy)
<1>1. ASSUME ~StartFullsync, mst'.n = mst.n PROVE HoldsRing
  <2>1. CASE outRing' = outRing \/ outRing' = << >>
    BY <1>1, <2>1 DEF Stream
  <2>2. CASE mst.pc = "write" /\ outRing' = Append(outRing, <<mst.n, mst.i>>)
    <3>1. <<mst.n, mst.i>> \in Pair /\ outRing \in Seq(Pair)
      BY DEF Pair, MasterType
    <3>2. /\ DOMAIN outRing' = 1..(Len(outRing) + 1) /\ DOMAIN outRing = 1..Len(outRing) /\ Len(outRing) \in Nat
          /\ \A i \in 1..Len(outRing) : outRing'[i] = outRing[i]
          /\ outRing'[Len(outRing) + 1] = <<mst.n, mst.i>>
      BY <2>2, <3>1, AppendProperties, LenProperties
    <3>3. \A i \in DOMAIN outRing' : i = Len(outRing) + 1 \/ (i \in DOMAIN outRing /\ outRing'[i] = outRing[i])
      BY <3>2
    <3>4. <<mst.n, mst.i>>[1] = mst.n
      OBVIOUS
    <3> QED BY <1>1, <2>2, <3>2, <3>3, <3>4 DEF Stream
  <2> QED BY <1>1, <2>1, <2>2, RingMoves
<1>2. ASSUME SameLink, tcp'.down = tcp.down, SameSlave, Calm, HoldsRing PROVE Stream'
  BY <1>2 DEF Stream, HeaderFirst, Served, SameLink, Busy
<1>3. ASSUME ~Served', tcp'.down = << >>, tcp'.n >= tcp.n, tcp'.n \in Nat, mst'.n = mst.n, HoldsRing
      PROVE  Stream'
  <2>1. mst'.n <= tcp'.n
    BY <1>3, SMTT(30) DEF Stream, TcpType, MasterType
  <2>2. DOMAIN tcp'.down = {}
    BY <1>3
  <2> QED BY <1>3, <2>1, <2>2 DEF Stream
<1>4. ASSUME Reads, slv'.n = tcp.n, Calm, HoldsRing PROVE Stream'
  <2>1. \A j \in DOMAIN tcp'.down : j + 1 \in DOMAIN tcp.down /\ tcp'.down[j] = tcp.down[j + 1]
    BY <1>4, TailElements DEF Reads, TcpType
  <2>2. HeaderFirst'
    BY <1>4 DEF HeaderFirst, Reads, SameLink
  <2> QED BY <1>4, <2>1, <2>2 DEF Stream, Reads, SameLink
<1>5. ASSUME NEW items \in Seq(DownMsgs), ToSlave(items), SameSlave, mst'.n = mst.n, HoldsRing,
             mst'.pc \in Busy /\ Served => HeaderFirst \/ SendHeader,
             outRing' # << >> /\ Served => HeaderFirst,
             Served => HeaderFirst \/ (items # << >> /\ Head(items).kind = "FULLRESYNC"),
             SendHeader => items # << >> /\ Head(items).kind = "FULLRESYNC",
             Served => \A j \in DOMAIN items :
                          /\ items[j].kind = "FULLRESYNC" => items[j].n = tcp.n
                          /\ items[j].kind = "data" => items[j].chunk[1] = tcp.n
      PROVE  Stream'
  <2>1. CASE ~Served
    <3>1. tcp' = tcp /\ ~Served'
      BY <1>5, <2>1 DEF ToSlave, Served
    <3> QED BY <1>5, <3>1, Zenon DEF Stream, HeaderFirst
  <2>2. CASE Served
    <3>1. SameLink /\ tcp'.down = tcp.down \o items
      BY <1>5, <2>2 DEF ToSlave, TcpType, SameLink
    <3>2. \A j \in DOMAIN tcp'.down : \/ \E k \in DOMAIN tcp.down : tcp'.down[j] = tcp.down[k]
                                      \/ \E k \in DOMAIN items : tcp'.down[j] = items[k]
      <4>1. tcp.down \in Seq(DownMsgs)
        BY DEF TcpType
      <4>2. \A j \in DOMAIN (tcp.down \o items) :
              \/ \E k \in DOMAIN tcp.down : (tcp.down \o items)[j] = tcp.down[k]
              \/ \E k \in DOMAIN items : (tcp.down \o items)[j] = items[k]
        BY <4>1, ConcatMember, SMTT(30)
      <4> QED BY <3>1, <4>2, Zenon
    <3>3. tcp.down # << >> => tcp'.down # << >> /\ Head(tcp'.down) = Head(tcp.down)
      BY <3>1, ConcatElements DEF TcpType
    <3>4. tcp.down = << >> => tcp'.down = items
      BY <3>1, ConcatElements DEF TcpType
    <3>5. HeaderFirst'
      <4>1. CASE tcp.down # << >>
        <5>1. HeaderFirst
          BY <4>1 DEF Stream
        <5> QED BY <1>5, <3>1, <3>3, <4>1, <5>1 DEF HeaderFirst, SameLink
      <4>2. CASE tcp.down = << >>
        BY <1>5, <2>2, <3>1, <3>4, <4>2 DEF HeaderFirst, SameLink
      <4> QED BY <4>1, <4>2
    <3>6. \A j \in DOMAIN tcp'.down :
            /\ tcp'.down[j].kind = "FULLRESYNC" => tcp'.down[j].n = tcp.n
            /\ tcp'.down[j].kind = "data" => tcp'.down[j].chunk[1] = tcp.n
      BY <1>5, <2>2, <3>2 DEF Stream
    <3> QED BY <1>5, <3>1, <3>5, <3>6, Zenon DEF Stream, SameLink
  <2> QED BY <2>1, <2>2
<1>6. CASE StartFullsync
  <2>1. tcp.n <= tcp.n
    BY DEF TcpType
  <2>2. /\ mst'.n = tcp.n /\ mst'.pc \in {"header", "request"} /\ outRing' = << >>
        /\ tcp'.n = tcp.n /\ tcp'.down = tcp.down /\ slv' = slv
    BY <1>6, StartMoves
  <2>3. DOMAIN outRing' = {}
    BY <2>2
  <2>4. HeaderFirst' <=> HeaderFirst
    BY <2>2 DEF HeaderFirst
  <2> QED BY <2>1, <2>2, <2>3, <2>4 DEF Stream
<1>7. CASE SendHeader
  <2>1. PICK t : ToSlave(<<Header(mst.n, t)>>) /\ t \in Nat
    <3>1. lastTid + 1 \in Nat /\ 0 \in Nat
      BY DEF MasterType
    <3>2. ToSlave(<<Header(mst.n, lastTid + 1)>>) \/ ToSlave(<<Header(mst.n, 0)>>)
      BY <1>7, HeaderMoves
    <3> QED BY <3>1, <3>2
  <2>2. <<Header(mst.n, t)>> \in Seq(DownMsgs)
    BY <2>1, SentTypes
  <2>3. /\ <<Header(mst.n, t)>> # << >> /\ Head(<<Header(mst.n, t)>>).kind = "FULLRESYNC"
        /\ \A j \in DOMAIN <<Header(mst.n, t)>> :
              <<Header(mst.n, t)>>[j].kind = "FULLRESYNC" /\ <<Header(mst.n, t)>>[j].n = mst.n
    BY DEF Header
  <2>4. SameSlave /\ mst'.n = mst.n /\ outRing' = outRing
    BY <1>7, HeaderMoves
  <2>5. ~StartFullsync
    BY <1>7 DEF SendHeader, StartFullsync
  <2>6. HoldsRing
    BY <1>1, <2>4, <2>5
  <2>7. outRing' # << >> /\ Served => HeaderFirst
    BY <2>4 DEF Stream
  <2> HIDE DEF HoldsRing, SameSlave, Calm
  <2> QED BY <1>5, <1>7, <2>1, <2>2, <2>3, <2>4, <2>6, <2>7, Zenon DEF Served
<1>8. CASE Sends /\ ~SendHeader
  <2>1. PICK items \in Seq(DownMsgs) :
              /\ ToSlave(items)
              /\ \A j \in DOMAIN items : items[j].kind # "FULLRESYNC"
                                         /\ (items[j].kind = "data" => \/ items[j].chunk[1] = mst.n
                                                                       \/ \E k \in DOMAIN outRing : items[j].chunk = outRing[k])
    BY <1>8, SendMoves
  <2>2. \A j \in DOMAIN items : items[j].kind # "FULLRESYNC" /\ (items[j].kind = "data" => items[j].chunk[1] = mst.n)
    BY <2>1 DEF Stream
  <2>3. Served => HeaderFirst
    BY <1>8, SendMoves, Zenon DEF Stream, Busy
  <2>4. SameSlave /\ mst'.n = mst.n /\ ~StartFullsync
    BY <1>8, Zenon DEF Sends, SendEnd, SendAbort, Sendfile, DrainOut, StartFullsync, slavePart, TransferCleanup, MasterType
  <2>5. HoldsRing
    BY <1>1, <2>4
  <2> HIDE DEF HoldsRing, SameSlave, Calm
  <2> QED BY <1>5, <1>8, <2>1, <2>2, <2>3, <2>4, <2>5 DEF Served
<1>9. CASE WaitRemoteMr
  <2>1. SameLink /\ tcp'.down = tcp.down /\ SameSlave /\ Calm /\ outRing' = outRing
    BY <1>9, AddressMoves DEF SameLink, Busy
  <2>2. HoldsRing
    BY <2>1 DEF Stream
  <2> QED BY <1>2, <2>1, <2>2
<1>10. CASE ReceiveHeader
  <2>1. Reads /\ Msg = tcp.down[1] /\ 1 \in DOMAIN tcp.down
    BY <1>10, ReceiveMoves, TailElements DEF Reads, Consumed, SameLink, TcpType, Msg
  <2>2. slv'.n = tcp.n
    BY <1>10, <2>1, ReceiveMoves DEF Stream
  <2>3. Calm /\ outRing' = outRing
    BY <1>10, ReceiveMoves
  <2>4. HoldsRing
    BY <2>3 DEF Stream
  <2> QED BY <1>4, <2>1, <2>2, <2>3, <2>4
<1>11. CASE ~StartFullsync /\ ~Sends /\ ~WaitRemoteMr /\ ~ReceiveHeader
  <2>1. Calm
    BY <1>11, MasterMoves DEF SameTransfer, NoTransfer, Sends, Busy
  <2>2. SameSlave
    BY <1>11, SlaveMoves DEF SameHeader
  <2>3. HoldsRing
    BY <1>1, <1>11, <2>1
  <2>4. CASE SameLink /\ tcp'.down = tcp.down
    BY <1>2, <2>1, <2>2, <2>3, <2>4
  <2>5. CASE tcp'.n = tcp.n /\ ~tcp'.open /\ tcp'.down = << >>
    <3>1. ~Served' /\ tcp'.n >= tcp.n /\ tcp'.n \in Nat
      BY <2>5 DEF Served, TcpType
    <3> QED BY <1>3, <2>1, <2>3, <2>5, <3>1
  <2>6. CASE tcp'.n = tcp.n + 1 /\ tcp'.down = << >>
    <3>1. ~Served' /\ tcp'.n >= tcp.n /\ tcp'.n \in Nat
      BY <2>1, <2>6, SMTT(30) DEF Served, TcpType, Stream, MasterType
    <3> QED BY <1>3, <2>1, <2>3, <2>6, <3>1
  <2>7. CASE Reads /\ Msg.kind # "FULLRESYNC"
    <3>1. slv'.n = tcp.n
      BY <2>2, <2>7 DEF Stream, HeaderFirst, Reads, Msg
    <3> QED BY <1>4, <2>1, <2>3, <2>7, <3>1
  <2> QED BY <1>11, <2>4, <2>5, <2>6, <2>7, DownMoves
<1> QED BY <1>6, <1>7, <1>8, <1>9, <1>10, <1>11

\* An address is held only while it is written to, for the transfer it belongs to.
LEMMA AddressStep ==
  ASSUME TcpType, MasterType, SlaveType, Address, FullSyncNext
  PROVE  Address'
<1>1. slv'.pc = "prepare" => slv'.tid # 0
  BY SlaveMoves, ReceiveMoves DEF SameHeader, Address
<1>2. CASE StartFullsync
  BY <1>1, <1>2, StartMoves DEF Address
<1>3. CASE SendHeader
  BY <1>1, <1>3, HeaderMoves DEF Address
<1>4. CASE WaitRemoteMr
  BY <1>1, <1>4, AddressMoves DEF Address
<1>5. CASE ~StartFullsync /\ ~SendHeader /\ ~WaitRemoteMr
  BY <1>1, <1>5, MasterMoves DEF Address, SameTransfer, NoTransfer, Busy
<1> QED BY <1>2, <1>3, <1>4, <1>5

\* No number is given to two attempts.
LEMMA OwnedStep ==
  ASSUME TcpType, MasterType, SlaveType, Address, FullSyncNext, NEW o, Owned(o)
  PROVE  (\E p : Owned(p))'
<1>0. PICK p : p = IF lastTid' = lastTid
                   THEN o
                   ELSE [t \in 1..(lastTid + 1) |-> IF t = lastTid + 1 THEN mst.n ELSE o[t]]
  BY Zenon
<1> DEFINE Tr(t, n) == t # 0 => t \in DOMAIN p /\ p[t] = n
<1>1. lastTid' = lastTid \/ (SendHeader /\ lastTid' = lastTid + 1 /\ mst'.tid = lastTid + 1 /\ mst'.n = mst.n)
  BY HeaderMoves, Zenon DEF FullSyncNext, MasterStep, SlaveConnect, TcpBreaks, LinkBreaks, StartFullsync,
     AcceptRequest, Established, StartFails, Reject, WaitRemoteMr, WaitFails, PostWrite, PostFails,
     FallBack, SendOverTcp, SendEnd, SendAbort, Sendfile, CooldownEnds, DrainOut, ReadControl,
     WriteLands, CqError, BgReset, BgResources, BgRequest, BgEstablished, BgFails, BgExit,
     ReceiveHeader, PrepareTarget, PrepareFails, ReceiveData, ReceiveRest, ReceiveEnd,
     ReceiveAbort, CheckWriteComplete, SlaveDisconnected, masterPart
<1>2. lastTid \in Nat /\ mst.n \in Nat /\ o \in [1..lastTid -> Nat]
  BY DEF MasterType, Owned
<1>3. p \in [1..lastTid' -> Nat]
  BY <1>0, <1>1, <1>2
<1>4. \A t, n : Owns(o, t, n) => Tr(t, n)
  <2>1. \A t \in DOMAIN o : t \in DOMAIN p /\ p[t] = o[t]
    BY <1>0, <1>1, <1>2
  <2> QED BY <2>1 DEF Owns
<1>5. lastTid' # lastTid => Tr(lastTid + 1, mst.n)
  BY <1>0, <1>1, <1>2
<1>6. Tr(mst'.tid, mst'.n)
  <2>1. CASE StartFullsync
    BY <2>1, StartMoves
  <2>2. CASE SendHeader
    <3>1. mst'.n = mst.n /\ ((lastTid' = lastTid + 1 /\ mst'.tid = lastTid + 1) \/ mst'.tid = mst.tid)
      BY <2>2, HeaderMoves
    <3>2. lastTid' = lastTid + 1 => lastTid' # lastTid
      BY <1>2
    <3> QED BY <1>4, <1>5, <3>1, <3>2 DEF Owned
  <2>3. CASE WaitRemoteMr
    BY <1>4, <2>3, AddressMoves DEF Owned
  <2>4. CASE ~StartFullsync /\ ~SendHeader /\ ~WaitRemoteMr
    BY <1>4, <2>4, MasterMoves DEF Owned, SameTransfer, NoTransfer
  <2> QED BY <2>1, <2>2, <2>3, <2>4
<1>7. tcp.down # << >> => 1 \in DOMAIN tcp.down /\ Msg = tcp.down[1]
  BY TailElements DEF TcpType, Msg
<1>8. Tr(slv'.tid, slv'.n)
  <2>1. CASE ReceiveHeader
    BY <1>4, <1>7, <2>1, ReceiveMoves DEF Owned
  <2>2. CASE ~ReceiveHeader
    BY <1>4, <2>2, SlaveMoves, Zenon DEF Owned, SameHeader
  <2> QED BY <2>1, <2>2
<1>9. tgt'.mr # 0 => tgt'.tid # 0 /\ Tr(tgt'.tid, tgt'.n)
  <2>1. CASE ReceiveHeader
    BY <2>1, ReceiveMoves
  <2>2. CASE PrepareTarget
    <3>1. \/ tgt' = NoTarget
          \/ tgt' = [NoTarget EXCEPT !.tid = slv.tid, !.n = slv.n, !.fd = TRUE, !.map = TRUE,
                                     !.mr = slv.pd]
      BY <2>2 DEF PrepareTarget
    <3>2. slv.tid # 0 /\ Tr(slv.tid, slv.n)
      BY <1>4, <2>2 DEF PrepareTarget, Address, Owned
    <3>3. tgt'.mr # 0 => tgt'.tid = slv.tid /\ tgt'.n = slv.n
      BY <3>1, NoTargetType, Zenon
    <3> QED BY <3>2, <3>3
  <2>3. CASE ~ReceiveHeader /\ ~PrepareTarget
    <3>1. tgt'.mr = 0 \/ (tgt'.n = tgt.n /\ tgt'.tid = tgt.tid /\ tgt'.mr = tgt.mr)
      BY <2>3, TargetMoves DEF EmptyFile, SameFile
    <3> QED BY <1>4, <3>1 DEF Owned
  <2> QED BY <2>1, <2>2, <2>3
<1>10. \A j \in DOMAIN wire' : Tr(wire'[j].mr.tid, wire'[j].n)
  <2> SUFFICES ASSUME NEW j \in DOMAIN wire' PROVE Tr(wire'[j].mr.tid, wire'[j].n)
    OBVIOUS
  <2>1. CASE \E k \in DOMAIN wire : wire'[j] = wire[k]
    BY <1>4, <2>1 DEF Owned
  <2>2. CASE mst.pc = "write" /\ wire'[j].n = mst.n /\ wire'[j].mr = mst.mr
    BY <1>4, <2>2, ZenonT(40) DEF Owned, Address
  <2> QED BY <2>1, <2>2, WireMoves
<1>11. \A j \in DOMAIN tcp'.down : tcp'.down[j].kind = "FULLRESYNC" => Tr(tcp'.down[j].tid, tcp'.down[j].n)
  <2>1. \A k \in DOMAIN tcp.down : tcp.down[k].kind = "FULLRESYNC" => Tr(tcp.down[k].tid, tcp.down[k].n)
    BY <1>4 DEF Owned
  <2>2. ASSUME NEW items \in Seq(DownMsgs), ToSlave(items),
               \A j \in DOMAIN items : items[j].kind = "FULLRESYNC" => Tr(items[j].tid, items[j].n)
        PROVE  \A j \in DOMAIN tcp'.down : tcp'.down[j].kind = "FULLRESYNC" => Tr(tcp'.down[j].tid, tcp'.down[j].n)
    <3>1. tcp' = tcp \/ tcp'.down = tcp.down \o items
      BY <2>2, SMTT(30) DEF ToSlave, TcpType
    <3>2. CASE tcp' = tcp
      BY <2>1, <3>2
    <3>3. CASE tcp'.down = tcp.down \o items
      <4>1. \A j \in DOMAIN tcp'.down : \/ \E k \in DOMAIN tcp.down : tcp'.down[j] = tcp.down[k]
                                        \/ \E k \in DOMAIN items : tcp'.down[j] = items[k]
        <5>1. tcp.down \in Seq(DownMsgs)
          BY DEF TcpType
        <5>2. \A j \in DOMAIN (tcp.down \o items) :
                \/ \E k \in DOMAIN tcp.down : (tcp.down \o items)[j] = tcp.down[k]
                \/ \E k \in DOMAIN items : (tcp.down \o items)[j] = items[k]
          BY <5>1, ConcatMember, SMTT(30)
        <5> QED BY <3>3, <5>2, Zenon
      <4> HIDE DEF Tr
      <4> QED BY <2>1, <2>2, <4>1
    <3> QED BY <3>1, <3>2, <3>3, Zenon
  <2>3. CASE SendHeader
    <3>1. PICK t \in Nat : ToSlave(<<Header(mst.n, t)>>) /\ Tr(t, mst.n)
      BY <1>5, <1>1, <1>2, <2>3, HeaderMoves
    <3>2. <<Header(mst.n, t)>> \in Seq(DownMsgs)
      BY <3>1, SentTypes, Zenon
    <3>3. \A j \in DOMAIN <<Header(mst.n, t)>> :
             <<Header(mst.n, t)>>[j].tid = t /\ <<Header(mst.n, t)>>[j].n = mst.n
      BY DEF Header
    <3> HIDE DEF Tr
    <3> QED BY <2>2, <3>1, <3>2, <3>3, Zenon
  <2>4. CASE Sends /\ ~SendHeader
    <3> HIDE DEF Tr
    <3> QED BY <2>2, <2>4, SendMoves
  <2>5. CASE ~Sends
    <3>1. CASE tcp'.down = tcp.down \/ tcp'.down = << >>
      BY <2>1, <3>1, SMTT(30)
    <3>2. CASE Reads
      <4>1. \A j \in DOMAIN tcp'.down : j + 1 \in DOMAIN tcp.down /\ tcp'.down[j] = tcp.down[j + 1]
        BY <3>2, TailElements DEF Reads, TcpType
      <4> HIDE DEF Tr
      <4> QED BY <2>1, <4>1
    <3> QED BY <2>5, <3>1, <3>2, DownMoves, Zenon
  <2> QED BY <2>3, <2>4, <2>5, Zenon
<1>12. Owned(p)'
  BY <1>3, <1>6, <1>8, <1>9, <1>10, <1>11, Zenon DEF Owned, Owns
<1> QED BY <1>12

\* What a WRITE or slave_thread writes into the target is of the target's own attempt.
LEMMA TargetStep ==
  ASSUME TcpType, MasterType, SlaveType, Stream, Target, FullSyncNext, NEW o, Owned(o)
  PROVE  Target'
<1>1. CASE ReceiveHeader
  BY <1>1, ReceiveMoves DEF Target
<1>2. CASE PrepareTarget
  <2>1. \/ tgt' = NoTarget
        \/ tgt' = [NoTarget EXCEPT !.tid = slv.tid, !.n = slv.n, !.fd = TRUE, !.map = TRUE,
                                   !.mr = slv.pd]
    BY <1>2 DEF PrepareTarget
  <2>2. (tgt'.fd => tgt'.n = slv.n) /\ tgt'.file = NoTarget.file
    BY <2>1, NoTargetType, Zenon
  <2>3. slv'.n = slv.n
    BY <1>2 DEF PrepareTarget, SlaveType
  <2> QED BY <2>2, <2>3, NoTargetType DEF Target
<1>3. CASE ~ReceiveHeader /\ ~PrepareTarget
  <2>1. slv'.n = slv.n
    BY <1>3, SlaveMoves DEF SameHeader
  <2>2. CASE EmptyFile
    BY <2>2 DEF EmptyFile, Target
  <2>3. CASE SameFile /\ tgt'.file = tgt.file
    BY <2>1, <2>3 DEF SameFile, Target
  <2>4. ASSUME NEW k, NEW c, c[1] = tgt.n, SameFile, tgt'.file = [tgt.file EXCEPT ![k] = c] PROVE Target'
    BY <2>1, <2>4, Zenon DEF SameFile, Target, SlaveType
  <2>5. CASE SameFile /\ WriteLands /\ tgt'.file = [tgt.file EXCEPT ![Head(wire).at] = <<Head(wire).n, Head(wire).i>>]
    <3>1. wire # << >> /\ Reachable(Head(wire)) /\ wire \in Seq(WriteOps)
      BY <2>5 DEF WriteLands, MasterType
    <3>2. 1 \in DOMAIN wire /\ Head(wire) = wire[1]
      BY <3>1, TailElements
    <3>3. tgt.mr # 0 /\ Head(wire).mr.tid = tgt.tid
      BY <3>1 DEF Reachable
    <3>4. Head(wire).n = tgt.n
      BY <3>2, <3>3 DEF Owned, Owns
    <3>5. <<Head(wire).n, Head(wire).i>>[1] = tgt.n
      BY <3>4
    <3> QED BY <2>4, <2>5, <3>5, Zenon
  <2>6. CASE SameFile /\ ReceiveData /\ tgt.fd /\ \E k : tgt'.file = [tgt.file EXCEPT ![k] = Msg.chunk]
    <3>1. tcp.down # << >> /\ Msg.kind = "data"
      BY <2>6 DEF ReceiveData, Receiving, Msg
    <3>2. 1 \in DOMAIN tcp.down /\ Msg = tcp.down[1]
      BY <3>1, TailElements DEF TcpType, Msg
    <3>3. Msg.chunk[1] = tcp.n /\ slv.n = tcp.n
      BY <3>1, <3>2 DEF Stream, HeaderFirst, Msg
    <3>4. Msg.chunk[1] = tgt.n
      BY <2>6, <3>3 DEF Target
    <3> QED BY <2>4, <2>6, <3>4
  <2> QED BY <1>3, <2>2, <2>3, <2>5, <2>6, TargetMoves
<1> QED BY <1>1, <1>2, <1>3

\* The invariant holds initially.
LEMMA TransferInvInit == FullSyncInit => TransferInv
<1> SUFFICES ASSUME FullSyncInit PROVE TransferInv
  OBVIOUS
<1>a. /\ DOMAIN tcp = {"n", "open", "up", "down"}
      /\ tcp.n = 0 /\ ~tcp.open /\ tcp.up = << >> /\ tcp.down = << >>
  BY Zenon DEF FullSyncInit
<1>b. /\ DOMAIN mst = {"pc", "n", "ok", "conn", "listening", "tid", "mr", "i", "sent", "written"}
      /\ mst.pc = "idle" /\ mst.n = 0 /\ mst.tid = 0 /\ mst.mr = NoMr /\ mst.i = 1 /\ mst.sent = 0
      /\ mst.written = 0
  BY Zenon DEF FullSyncInit
<1>c. /\ DOMAIN slv = {"pc", "n", "tid", "loading", "loaded", "done", "aborted", "bg", "conn",
                       "pd", "pds"}
      /\ slv.pc = "loop" /\ slv.n = 0 /\ slv.tid = 0 /\ slv.pd = 0 /\ slv.pds = 0
  BY Zenon DEF FullSyncInit
<1>d. tgt = NoTarget /\ lastTid = 0 /\ outRing = << >> /\ wire = << >>
  BY Zenon DEF FullSyncInit
<1>1. TcpType /\ MasterType
  BY <1>a, <1>b, <1>d, SMTT(30) DEF TcpType, MasterType, NoMr, Mr
<1>2. SlaveType
  BY <1>c, <1>d, NoTargetType DEF SlaveType
<1>3. Owned([t \in 1..0 |-> 0])
  BY <1>a, <1>b, <1>c, <1>d, NoTargetType, SMTT(30) DEF Owned, Owns
<1>4. Stream /\ Address
  BY <1>a, <1>b, <1>c, <1>d DEF Stream, Address, Served
<1>5. Target
  BY <1>d, NoTargetType DEF Target
<1> QED BY <1>1, <1>2, <1>3, <1>4, <1>5 DEF TransferInv

\* Every step keeps the invariant, and one that changes nothing does too.
LEMMA TransferInvStep == TransferInv /\ [FullSyncNext]_fullSyncVars => TransferInv'
<1> SUFFICES ASSUME TransferInv, [FullSyncNext]_fullSyncVars PROVE TransferInv'
  OBVIOUS
<1>1. CASE FullSyncNext
  <2>1. PICK o : Owned(o)
    BY DEF TransferInv
  <2>2. TcpType' /\ MasterType' /\ SlaveType'
    BY <1>1, TcpTypeStep, MasterTypeStep, SlaveTypeStep DEF TransferInv
  <2>3. Stream' /\ Address'
    BY <1>1, StreamStep, AddressStep DEF TransferInv
  <2>4. Target'
    BY <1>1, <2>1, TargetStep DEF TransferInv
  <2>5. (\E p : Owned(p))'
    BY <1>1, <2>1, OwnedStep DEF TransferInv
  <2> QED BY <2>2, <2>3, <2>4, <2>5 DEF TransferInv
<1>2. CASE UNCHANGED fullSyncVars
  <2>1. TcpType' /\ MasterType' /\ SlaveType'
    BY <1>2, Zenon DEF fullSyncVars, TransferInv, TcpType, MasterType, SlaveType
  <2>2. Stream' /\ Address' /\ Target'
    BY <1>2, Zenon DEF fullSyncVars, TransferInv, Stream, HeaderFirst, Served, Address, Target
  <2>3. (\E p : Owned(p))'
    BY <1>2, Zenon DEF fullSyncVars, TransferInv, Owned
  <2> QED BY <2>1, <2>2, <2>3 DEF TransferInv
<1> QED BY <1>1, <1>2

\* TransferBound for every number of snapshots, chunks and slots: the master writes only to
\* the address of its own transfer, and no WRITE or byte of another attempt ever gets into
\* the target of one.
THEOREM TransferBoundHolds == FullSyncSpec => []TransferBound
<1>1. TransferInv => TransferBound
  BY DEF TransferInv, Address, Target, TransferBound
<1> QED BY <1>1, TransferInvInit, TransferInvStep, PTL DEF FullSyncSpec
=============================================================================
