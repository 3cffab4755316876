----------------------------- MODULE KprobeRing -----------------------------
(***************************************************************************)
(* The kprobe path of kvs_repl_kprobe.c: the master copies each captured   *)
(* write into one of its send slots and posts two RDMA WRITEs, the data    *)
(* into the replica's ring and the new producer_head; the replica polls    *)
(* the head and applies the slots up to it.  The adapter (external) runs   *)
(* the requests of the connection in order, and reads the local buffer of  *)
(* one when it runs it.  Nothing tells the master how far the replica is.  *)
(***************************************************************************)
EXTENDS Integers, Sequences

CONSTANTS
    WriteSlots,  \* KVS_RDMA_WRITE_SLOTS
    RingSlots,   \* KPROBE_RDMA_SLOT_COUNT
    MaxEvents    \* bound: events of the BPF ring buffer

ASSUME KprobeAssumption == {WriteSlots, RingSlots} \subseteq Nat \ {0} /\ MaxEvents \in Nat

VARIABLES
    wslots,   \* g_wr_slots: what a slot holds, and its in_flight
    whead,    \* g_wr_head
    wseq,     \* g_wr_producer_seq
    headBuf,  \* g_head_buf
    event,    \* the event the callback is at, and whether its data is posted
    sq,       \* the requests posted and not yet run
    cq,       \* the slots of the requests that have run and were not polled
    ringbuf,     \* the replica's slots and producer_head
    poller,   \* kprobe_rdma_slave_poll: the head it read, its tail
    accepted, \* history: the events whose two requests were posted
    applied,  \* history: the events the replica has applied
    kgaps     \* the situations that lose an event

kprobeVars == <<wslots, whead, wseq, headBuf, event, sq, cq, ringbuf, poller, accepted, applied, kgaps>>
masterRing == <<wslots, whead, wseq, headBuf, event, accepted>>
replicaRing == <<ringbuf, poller, applied>>

WSlots == 0..(WriteSlots - 1)
NoData == 0

KprobeInit ==
    /\ wslots = [s \in WSlots |-> [buf |-> NoData, busy |-> FALSE]]
    /\ whead = 0 /\ wseq = 0 /\ headBuf = 0
    /\ event = [n |-> 1, slot |-> -1]
    /\ sq = << >> /\ cq = << >>
    /\ ringbuf = [slots |-> [i \in 0..(RingSlots - 1) |-> NoData], head |-> 0]
    /\ poller = [head |-> 0, tail |-> 0]
    /\ accepted = << >> /\ applied = << >>
    /\ kgaps = {}

NextEvent == [n |-> event.n + 1, slot |-> -1]
Gap(g, when) == kgaps' = IF when THEN kgaps \cup {g} ELSE kgaps

-----------------------------------------------------------------------------
(* The master: kprobe_ringbuf_cb                                           *)

Acquiring == event.slot = -1 /\ event.n <= MaxEvents

\* wr_slot_acquire takes the first free slot from whead on.
FirstFree(s) ==
    /\ ~wslots[s].busy
    /\ \A t \in WSlots : (t - whead) % WriteSlots < (s - whead) % WriteSlots => wslots[t].busy

\* A slot is reused although the data it held has not been read.
Unread(s) == \E i \in DOMAIN sq : sq[i].kind = "data" /\ sq[i].slot = s

\* The slot is filled and wr_submit_data posts it for the place of wseq; if that
\* fails the event is dropped, as is one that is too long.
SubmitData(ok, fits) ==
    /\ Acquiring
    /\ \E s \in WSlots :
         /\ FirstFree(s)
         /\ whead' = (s + 1) % WriteSlots
         /\ wslots' = IF fits THEN [wslots EXCEPT ![s] = [buf |-> event.n, busy |-> ok]] ELSE wslots
         /\ IF ok /\ fits
            THEN /\ sq' = Append(sq, [kind |-> "data", slot |-> s, at |-> wseq % RingSlots])
                 /\ event' = [event EXCEPT !.slot = s]
            ELSE event' = NextEvent /\ UNCHANGED sq
         /\ Gap("reused", fits /\ Unread(s))
    /\ UNCHANGED <<wseq, headBuf, accepted, cq, replicaRing>>

\* Mutant: a head that cannot be posted moves wseq on as well.
SubmitHeadAdvances(ok) ==
    /\ event.slot # -1
    /\ headBuf' = wseq + 1
    /\ event' = NextEvent
    /\ wseq' = wseq + 1
    /\ IF ok
       THEN /\ sq' = Append(sq, [kind |-> "head", slot |-> event.slot, at |-> 0])
            /\ accepted' = Append(accepted, event.n)
       ELSE UNCHANGED <<sq, accepted>>
    /\ Gap("shared", \E i \in DOMAIN sq : sq[i].kind = "head")
    /\ UNCHANGED <<wslots, whead, cq, replicaRing>>
\* wr_submit_head.  All its requests share one buffer; one that fails leaves the
\* slot taken and the place of wseq to the next event.
SubmitHead(ok) ==
    /\ event.slot # -1
    /\ headBuf' = wseq + 1
    /\ event' = NextEvent
    /\ IF ok
       THEN /\ sq' = Append(sq, [kind |-> "head", slot |-> event.slot, at |-> 0])
            /\ wseq' = wseq + 1
            /\ accepted' = Append(accepted, event.n)
       ELSE UNCHANGED <<sq, wseq, accepted>>
    /\ Gap("shared", \E i \in DOMAIN sq : sq[i].kind = "head")
    /\ UNCHANGED <<wslots, whead, cq, replicaRing>>

\* No slot is free: the completions are polled, and each frees its slot, be it of
\* data or of head.  Then the event may be dropped for the time it took.
PollCq(late) ==
    /\ Acquiring /\ \A s \in WSlots : wslots[s].busy
    /\ wslots' = [s \in WSlots |-> [wslots[s] EXCEPT !.busy = @ /\ s \notin {cq[i] : i \in DOMAIN cq}]]
    /\ cq' = << >>
    /\ event' = IF late THEN NextEvent ELSE event
    /\ late \/ cq # << >>
    /\ UNCHANGED <<whead, wseq, headBuf, accepted, sq, replicaRing, kgaps>>

-----------------------------------------------------------------------------
(* The adapter and the replica                                             *)

\* The next request runs.
RunRequest ==
    /\ sq # << >>
    /\ LET r == Head(sq)
       IN  /\ ringbuf' = IF r.kind = "head" THEN [ringbuf EXCEPT !.head = headBuf]
                      ELSE [ringbuf EXCEPT !.slots[r.at] = wslots[r.slot].buf]
           /\ cq' = Append(cq, r.slot)
           /\ Gap("lapped", r.kind = "data" /\ \E i \in poller.tail..(ringbuf.head - 1) : i % RingSlots = r.at)
    /\ sq' = Tail(sq)
    /\ UNCHANGED <<masterRing, poller, applied>>

\* kprobe_rdma_slave_poll reads producer_head,
ReadHead ==
    /\ poller.tail = poller.head /\ ringbuf.head # poller.head
    /\ poller' = [poller EXCEPT !.head = ringbuf.head]
    /\ UNCHANGED <<masterRing, sq, cq, ringbuf, applied, kgaps>>

\* and applies the slots before it; an empty one is skipped.
ConsumeSlot ==
    /\ poller.tail # poller.head
    /\ LET x == ringbuf.slots[poller.tail % RingSlots]
       IN  applied' = IF x = NoData THEN applied ELSE Append(applied, x)
    /\ poller' = [poller EXCEPT !.tail = @ + 1]
    /\ UNCHANGED <<masterRing, sq, cq, ringbuf, kgaps>>

KprobeNext ==
    \/ \E ok, fits \in BOOLEAN : SubmitData(ok, fits)
    \/ \E ok \in BOOLEAN : SubmitHead(ok) \/ PollCq(ok)
    \/ RunRequest \/ ReadHead \/ ConsumeSlot

KprobeSpec == KprobeInit /\ [][KprobeNext]_kprobeVars

-----------------------------------------------------------------------------
(* Properties                                                              *)

\* The replica applies exactly the events whose requests were posted, each once
\* and in order, whatever was dropped or failed in between.  Three situations in
\* which the code loses this are named and excluded: the completion of a head
\* frees a slot that already holds the next data ("reused"), a head is written
\* into the shared buffer while an earlier one is still to be read ("shared"),
\* and the master overtakes the replica by a whole ring ("lapped").
RingDelivers ==
    kgaps = {} => /\ Len(applied) <= Len(accepted) /\ applied = SubSeq(accepted, 1, Len(applied))
                  /\ Len(applied) = poller.tail
                  /\ sq = << >> /\ poller.tail = ringbuf.head => applied = accepted
=============================================================================
