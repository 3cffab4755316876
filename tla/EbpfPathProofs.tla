--------------------------- MODULE EbpfPathProofs ---------------------------
(***************************************************************************)
(* The two paths that eBPF feeds: the kprobe ring over RDMA delivers       *)
(* (RingDelivers), and the proxy's back-pressure has a cause               *)
(* (PressureHasCause), each for every value of the constants.              *)
(*                                                                         *)
(* The ring.  A head is posted right after the data it announces, and the  *)
(* adapter runs the requests in order, so in front of a pending head       *)
(* stands its data, or the data is in the replica's ring already           *)
(* (Carried).  With at most one head pending the shared head buffer still  *)
(* holds its value (Counters), and as long as no request overwrites a slot *)
(* the replica has not applied, the ring holds the accepted events from    *)
(* the replica's tail up to the head it was told (Unapplied).              *)
(*                                                                         *)
(* The proxy.  The main loop waits only inside commit_emit, with a write   *)
(* in hand (WaitsInEmit), and each step that empties the queue finds it    *)
(* with nothing to emit.  A batch stays below the low mark (QueueBounded), *)
(* so discarding the queue lowers the flag although the thread may still   *)
(* hold a batch.                                                           *)
(***************************************************************************)
EXTENDS KprobeRing, ProxyForward, SequenceTheorems, TLAPS

\* Where the event with sequence number n goes in the replica's ring.
Place(n) == n % RingSlots

Places == 0..(RingSlots - 1)

Requests == [kind : {"data", "head"}, slot : WSlots, at : Places]

\* The types of what the argument uses: g_wr_slots, the queue of the adapter,
\* the ring, the poller and the two histories.
KprobeType ==
    /\ wslots \in [WSlots -> [buf : Nat, busy : BOOLEAN]]
    /\ wseq \in Nat /\ headBuf \in Nat
    /\ event \in [n : Nat \ {0}, slot : WSlots \cup {-1}]
    /\ sq \in Seq(Requests)
    /\ ringbuf \in [slots : [Places -> Nat], head : Nat]
    /\ poller \in [head : Nat, tail : Nat]
    /\ accepted \in Seq(Nat \ {0}) /\ applied \in Seq(Nat)

HeadPending == \E i \in DOMAIN sq : sq[i].kind = "head"

\* At most one request for the shared head buffer is pending.
OneHead == \A i, j \in DOMAIN sq : sq[i].kind = "head" /\ sq[j].kind = "head" => i = j

\* The producer's sequence number, the head the replica was told, the head it
\* has read and its tail.
Counters ==
    /\ Len(accepted) = wseq /\ Len(applied) = poller.tail
    /\ poller.tail <= poller.head /\ poller.head <= ringbuf.head
    /\ HeadPending => wseq = ringbuf.head + 1 /\ headBuf = wseq
    /\ ~HeadPending => wseq = ringbuf.head

Applied == \A i \in 1..poller.tail : applied[i] = accepted[i]

\* What the replica was told of and has not applied is in its ring.
Unapplied ==
    \A i \in poller.tail..(ringbuf.head - 1) : ringbuf.slots[Place(i)] = accepted[i + 1]

\* A data request in front of the pending head is for the place of that head.
AtPlace ==
    \A i \in DOMAIN sq : sq[i].kind = "data" =>
        sq[i].at = IF \E j \in 1..(i - 1) : sq[j].kind = "head" THEN Place(wseq) ELSE Place(ringbuf.head)

\* The i-th request brings x to the ring; it is there when all have run.
Carries(i, x) ==
    IF i = 0 THEN ringbuf.slots[Place(ringbuf.head)] = x
    ELSE sq[i].kind = "data" /\ wslots[sq[i].slot].buf = x

Carried ==
    /\ \A i \in DOMAIN sq : sq[i].kind = "head" => Carries(i - 1, accepted[wseq])
    /\ event.slot # -1 => Carries(Len(sq), event.n)

Delivery == OneHead /\ Counters /\ Applied /\ Unapplied /\ AtPlace /\ Carried

\* The inductive invariant: once a gap has happened nothing is promised.
KprobeInv == KprobeType /\ (kgaps = {} => Delivery)

-----------------------------------------------------------------------------
(* Facts about sequences                                                   *)

\* The requests after one was posted.
LEMMA PostedElements ==
    ASSUME NEW S, NEW q \in Seq(S), NEW x \in S
    PROVE  /\ Append(q, x) \in Seq(S) /\ Len(Append(q, x)) = Len(q) + 1 /\ Len(q) \in Nat
           /\ DOMAIN q = 1..Len(q) /\ DOMAIN Append(q, x) = 1..(Len(q) + 1)
           /\ \A i \in 1..Len(q) : Append(q, x)[i] = q[i]
           /\ Append(q, x)[Len(q) + 1] = x
BY AppendProperties, LenProperties

\* The requests after the first has run.
LEMMA RunElements ==
    ASSUME NEW S, NEW q \in Seq(S), q # << >>
    PROVE  /\ Head(q) = q[1] /\ q[1] \in S /\ Len(q) \in Nat \ {0}
           /\ Tail(q) \in Seq(S) /\ Len(Tail(q)) = Len(q) - 1
           /\ DOMAIN q = 1..Len(q) /\ DOMAIN Tail(q) = 1..(Len(q) - 1)
           /\ \A i \in 1..(Len(q) - 1) : Tail(q)[i] = q[i + 1]
BY HeadTailProperties, LenProperties, EmptySeq, ElementOfSeq

\* The place of a sequence number is one of the ring.
LEMMA PlaceType == \A n \in Nat : Place(n) \in Places
BY KprobeAssumption DEF Place, Places

-----------------------------------------------------------------------------
(* Types                                                                   *)

\* Every pending request names a send slot and a place of the ring.
LEMMA RequestTypes ==
    ASSUME KprobeType
    PROVE  \A i \in DOMAIN sq : sq[i] \in Requests /\ sq[i].slot \in WSlots /\ sq[i].kind \in {"data", "head"}
<1>1. sq \in Seq(Requests)
  BY Zenon DEF KprobeType
<1>2. \A i \in DOMAIN sq : sq[i] \in Requests
  BY <1>1, ElementOfSeq, LenProperties
<1>3. \A r \in Requests : r.slot \in WSlots /\ r.kind \in {"data", "head"}
  BY DEF Requests
<1> QED BY <1>2, <1>3, Zenon

\* Before the first event: kprobe_ringbuf_cb has posted nothing.
LEMMA KprobeTypeInit == KprobeInit => KprobeType
BY KprobeAssumption DEF KprobeInit, KprobeType, NoData, Places

\* Every step of the callback, the adapter and the poller keeps the types.
LEMMA KprobeTypeStep == KprobeType /\ [KprobeNext]_kprobeVars => KprobeType'
<1> SUFFICES ASSUME KprobeType, [KprobeNext]_kprobeVars PROVE KprobeType'
  OBVIOUS
<1> USE DEF KprobeType
<1>1. \A ok, fits \in BOOLEAN : SubmitData(ok, fits) => KprobeType'
  <2> TAKE ok, fits \in BOOLEAN
  <2> HAVE SubmitData(ok, fits)
  <2>1. PICK s \in WSlots :
          /\ wslots' = IF fits THEN [wslots EXCEPT ![s] = [buf |-> event.n, busy |-> ok]] ELSE wslots
          /\ IF ok /\ fits
             THEN /\ sq' = Append(sq, [kind |-> "data", slot |-> s, at |-> Place(wseq)])
                  /\ event' = [event EXCEPT !.slot = s]
             ELSE event' = NextEvent /\ UNCHANGED sq
    BY Zenon DEF SubmitData, Place
  <2>2. UNCHANGED <<wseq, headBuf, accepted, ringbuf, poller, applied>>
    BY DEF SubmitData, replicaRing
  <2>3. wslots' \in [WSlots -> [buf : Nat, busy : BOOLEAN]]
    BY <2>1
  <2>4. event' \in [n : Nat \ {0}, slot : WSlots \cup {-1}]
    <3>1. NextEvent \in [n : Nat \ {0}, slot : WSlots \cup {-1}]
      BY DEF NextEvent
    <3>2. [event EXCEPT !.slot = s] \in [n : Nat \ {0}, slot : WSlots \cup {-1}]
      BY Zenon
    <3>3. event' = NextEvent \/ event' = [event EXCEPT !.slot = s]
      BY <2>1, Zenon
    <3> QED BY <3>1, <3>2, <3>3, Zenon
  <2>5. sq' \in Seq(Requests)
    <3> DEFINE r == [kind |-> "data", slot |-> s, at |-> Place(wseq)]
    <3>1. r \in Requests
      BY PlaceType DEF Requests
    <3>2. sq' = sq \/ sq' = Append(sq, r)
      BY <2>1, Zenon
    <3> HIDE DEF r
    <3>3. sq \in Seq(Requests)
      BY Zenon
    <3>4. Append(sq, r) \in Seq(Requests)
      BY <3>1, <3>3, PostedElements, Zenon
    <3> QED BY <3>2, <3>3, <3>4, Zenon
  <2> QED BY <2>2, <2>3, <2>4, <2>5, SMTT(30)
<1>2. \A ok \in BOOLEAN : SubmitHead(ok) => KprobeType'
  <2> TAKE ok \in BOOLEAN
  <2> HAVE SubmitHead(ok)
  <2>1. event.slot # -1 /\ headBuf' = wseq + 1 /\ event' = NextEvent
    BY DEF SubmitHead
  <2>2. UNCHANGED <<wslots, ringbuf, poller, applied>>
    BY DEF SubmitHead, replicaRing
  <2>3. \/ /\ sq' = Append(sq, [kind |-> "head", slot |-> event.slot, at |-> 0])
           /\ wseq' = wseq + 1
           /\ accepted' = Append(accepted, event.n)
        \/ UNCHANGED <<sq, wseq, accepted>>
    BY SMTT(30) DEF SubmitHead
  <2>4. [kind |-> "head", slot |-> event.slot, at |-> 0] \in Requests
    BY <2>1, KprobeAssumption, SMTT(30) DEF Requests, Places
  <2>5. event' \in [n : Nat \ {0}, slot : WSlots \cup {-1}] /\ headBuf' \in Nat /\ wseq' \in Nat
    BY <2>1, <2>3, SMTT(30) DEF NextEvent
  <2>6. sq' \in Seq(Requests) /\ accepted' \in Seq(Nat \ {0})
    <3> DEFINE r == [kind |-> "head", slot |-> event.slot, at |-> 0]
    <3>1. sq \in Seq(Requests) /\ accepted \in Seq(Nat \ {0}) /\ r \in Requests
      BY <2>4, Zenon
    <3>2. event.n \in Nat \ {0}
      OBVIOUS
    <3>3. (sq' = sq \/ sq' = Append(sq, r)) /\ (accepted' = accepted \/ accepted' = Append(accepted, event.n))
      BY <2>3, Zenon
    <3> HIDE DEF r
    <3>4. Append(sq, r) \in Seq(Requests) /\ Append(accepted, event.n) \in Seq(Nat \ {0})
      BY <3>1, <3>2, PostedElements, Zenon
    <3> QED BY <3>1, <3>3, <3>4, Zenon
  <2> QED BY <2>2, <2>5, <2>6, SMTT(30)
<1>3. \A late \in BOOLEAN : PollCq(late) => KprobeType'
  <2> TAKE late \in BOOLEAN
  <2> HAVE PollCq(late)
  <2>1. /\ wslots' = [s \in WSlots |-> [wslots[s] EXCEPT !.busy = @ /\ s \notin {cq[i] : i \in DOMAIN cq}]]
        /\ event' = NextEvent \/ event' = event
        /\ UNCHANGED <<wseq, headBuf, accepted, sq, ringbuf, poller, applied>>
    BY DEF PollCq, replicaRing
  <2>2. NextEvent \in [n : Nat \ {0}, slot : WSlots \cup {-1}]
    BY DEF NextEvent
  <2>3. \A s \in WSlots : [wslots[s] EXCEPT !.busy = @ /\ s \notin {cq[i] : i \in DOMAIN cq}] \in [buf : Nat, busy : BOOLEAN]
    <3> TAKE s \in WSlots
    <3>1. wslots[s] \in [buf : Nat, busy : BOOLEAN]
      BY Zenon
    <3>2. (wslots[s].busy /\ s \notin {cq[i] : i \in DOMAIN cq}) \in BOOLEAN
      BY Zenon
    <3> QED BY <3>1, <3>2, Zenon
  <2>4. wslots' \in [WSlots -> [buf : Nat, busy : BOOLEAN]]
    BY <2>1, <2>3, Zenon
  <2> QED BY <2>1, <2>2, <2>4, Zenon
<1>4. RunRequest => KprobeType'
  <2> HAVE RunRequest
  <2>1. sq # << >> /\ sq' = Tail(sq) /\ UNCHANGED <<wslots, wseq, headBuf, event, accepted, poller, applied>>
    BY DEF RunRequest, masterRing
  <2>2. \/ ringbuf' = [ringbuf EXCEPT !.head = headBuf]
        \/ ringbuf' = [ringbuf EXCEPT !.slots[Head(sq).at] = wslots[Head(sq).slot].buf]
    BY DEF RunRequest
  <2>3. Head(sq) \in Requests /\ Tail(sq) \in Seq(Requests)
    BY <2>1, RunElements
  <2>4. ringbuf' \in [slots : [Places -> Nat], head : Nat]
    <3> DEFINE x == wslots[Head(sq).slot].buf
    <3>1. Head(sq).slot \in WSlots /\ Head(sq).at \in Places
      BY <2>3, SMTT(30) DEF Requests
    <3>2. x \in Nat
      BY <3>1
    <3>3. ringbuf' = [ringbuf EXCEPT !.head = headBuf] \/ ringbuf' = [ringbuf EXCEPT !.slots[Head(sq).at] = x]
      BY <2>2, Zenon
    <3>4. ringbuf \in [slots : [Places -> Nat], head : Nat] /\ headBuf \in Nat
      BY Zenon
    <3> HIDE DEF x, KprobeType
    <3> QED BY <3>1, <3>2, <3>3, <3>4
  <2> QED BY <2>1, <2>3, <2>4, SMTT(30)
<1>5. ReadHead => KprobeType'
  BY Zenon DEF ReadHead, masterRing
<1>6. ConsumeSlot => KprobeType'
  <2> HAVE ConsumeSlot
  <2>1. UNCHANGED <<wslots, wseq, headBuf, event, accepted, sq, ringbuf>>
        /\ poller' = [poller EXCEPT !.tail = @ + 1]
    BY DEF ConsumeSlot, masterRing
  <2>2. applied' = applied \/ applied' = Append(applied, ringbuf.slots[Place(poller.tail)])
    BY DEF ConsumeSlot, Place
  <2>3. ringbuf.slots[Place(poller.tail)] \in Nat
    BY PlaceType
  <2>4. applied' \in Seq(Nat)
    <3>1. applied \in Seq(Nat)
      BY Zenon
    <3>2. Append(applied, ringbuf.slots[Place(poller.tail)]) \in Seq(Nat)
      BY <2>3, <3>1, PostedElements, Zenon
    <3> QED BY <2>2, <3>1, <3>2, Zenon
  <2>5. poller' \in [head : Nat, tail : Nat]
    <3>1. poller \in [head : Nat, tail : Nat]
      BY Zenon
    <3> HIDE DEF KprobeType
    <3>2. poller' = [poller EXCEPT !.tail = @ + 1]
      BY <2>1, Zenon
    <3> QED BY <3>1, <3>2
  <2> QED BY <2>1, <2>4, <2>5, Zenon
<1>7. UNCHANGED kprobeVars => KprobeType'
  BY DEF kprobeVars
<1> QED BY <1>1, <1>2, <1>3, <1>4, <1>5, <1>6, <1>7, Zenon DEF KprobeNext

-----------------------------------------------------------------------------
(* Delivery, action by action                                              *)

\* At the start nothing is pending and the ring is empty.
LEMMA DeliveryInit == KprobeInit => Delivery
<1> SUFFICES ASSUME KprobeInit PROVE Delivery
  OBVIOUS
<1>1. sq = << >> /\ DOMAIN sq = {} /\ Len(accepted) = 0 /\ Len(applied) = 0
  BY DEF KprobeInit
<1>2. wseq = 0 /\ poller.tail = 0 /\ poller.head = 0 /\ ringbuf.head = 0 /\ event.slot = -1
  BY DEF KprobeInit
<1>3. ~HeadPending /\ OneHead /\ AtPlace /\ Carried
  BY <1>1, <1>2 DEF HeadPending, OneHead, AtPlace, Carried
<1>4. Counters /\ Applied /\ Unapplied
  BY <1>1, <1>2, <1>3 DEF Counters, Applied, Unapplied
<1> QED BY <1>3, <1>4 DEF Delivery

\* A slot is filled and posted, or the event is dropped: a slot whose data has
\* not been read is not filled again, or that is a gap.
LEMMA SubmitDataDelivers ==
    ASSUME KprobeType, Delivery, NEW ok \in BOOLEAN, NEW fits \in BOOLEAN,
           SubmitData(ok, fits), kgaps' = {}
    PROVE  Delivery'
<1>1. PICK s \in WSlots :
        /\ wslots' = IF fits THEN [wslots EXCEPT ![s] = [buf |-> event.n, busy |-> ok]] ELSE wslots
        /\ IF ok /\ fits
           THEN /\ sq' = Append(sq, [kind |-> "data", slot |-> s, at |-> Place(wseq)])
                /\ event' = [event EXCEPT !.slot = s]
           ELSE event' = NextEvent /\ UNCHANGED sq
        /\ Gap("reused", fits /\ Unread(s))
  BY Zenon DEF SubmitData, Place
<1>2. UNCHANGED <<wseq, headBuf, accepted, ringbuf, poller, applied>> /\ event.slot = -1
  BY DEF SubmitData, replicaRing, Acquiring
<1>3. ~(fits /\ Unread(s))
  BY <1>1 DEF Gap
<1>4. \A i \in DOMAIN sq : sq[i].kind = "data" => wslots'[sq[i].slot].buf = wslots[sq[i].slot].buf
  <2> TAKE i \in DOMAIN sq
  <2> HAVE sq[i].kind = "data"
  <2>1. sq[i].slot \in WSlots
    BY RequestTypes, Zenon
  <2>2. fits => sq[i].slot # s
    BY <1>3 DEF Unread
  <2> QED BY <1>1, <2>1, <2>2, SMTT(30) DEF KprobeType
<1>5. \A i \in DOMAIN sq : \A x : i - 1 \in DOMAIN sq \cup {0} /\ Carries(i - 1, x) =>
         IF i - 1 = 0 THEN ringbuf'.slots[Place(ringbuf'.head)] = x
         ELSE sq[i - 1].kind = "data" /\ wslots'[sq[i - 1].slot].buf = x
  BY <1>2, <1>4 DEF Carries
<1>6. DOMAIN sq = 1..Len(sq) /\ Len(sq) \in Nat
  BY LenProperties DEF KprobeType
<1>7. CASE ok /\ fits
  <2> DEFINE r == [kind |-> "data", slot |-> s, at |-> Place(wseq)]
             n == Len(sq)
  <2>1. r \in Requests /\ r.kind = "data" /\ r.at = Place(wseq) /\ r.slot = s
    BY PlaceType DEF Requests, KprobeType
  <2>2. sq' = Append(sq, r) /\ event'.slot = s /\ event'.n = event.n /\ wslots'[s].buf = event.n
    BY <1>1, <1>7, SMTT(30) DEF KprobeType
  <2>3. /\ Len(sq') = n + 1 /\ DOMAIN sq' = 1..(n + 1)
        /\ \A i \in 1..n : sq'[i] = sq[i]
        /\ sq'[n + 1] = r
    BY <2>1, <2>2, PostedElements DEF KprobeType
  <2> HIDE DEF r
  <2>4. n \in Nat /\ DOMAIN sq = 1..n
    BY <1>6
  <2> HIDE DEF n
  <2>5. \A i \in 1..(n + 1) : sq'[i].kind = "head" => i \in 1..n /\ sq[i].kind = "head"
    BY <2>1, <2>3, <2>4
  <2>6. HeadPending' <=> HeadPending
    BY <2>3, <2>4, <2>5 DEF HeadPending
  <2>7. OneHead'
    BY <2>3, <2>4, <2>5 DEF Delivery, OneHead
  <2>8. Counters' /\ Applied' /\ Unapplied'
    BY <1>2, <2>6 DEF Delivery, Counters, Applied, Unapplied
  <2>9. AtPlace'
    <3> SUFFICES ASSUME NEW i \in 1..(n + 1), sq'[i].kind = "data"
                 PROVE  sq'[i].at = IF \E j \in 1..(i - 1) : sq'[j].kind = "head"
                                    THEN Place(wseq) ELSE Place(ringbuf.head)
      BY <1>2, <2>3 DEF AtPlace
    <3>1. \A j \in 1..(i - 1) : j \in 1..n /\ sq'[j] = sq[j]
      BY <2>3, <2>4
    <3>2. CASE i \in 1..n
      BY <2>3, <2>4, <3>1, <3>2 DEF Delivery, AtPlace
    <3>3. CASE i = n + 1
      <4>1. HeadPending => \E j \in 1..(i - 1) : sq'[j].kind = "head"
        BY <2>3, <2>4, <3>3 DEF HeadPending
      <4>2. ~HeadPending => wseq = ringbuf.head
        BY DEF Delivery, Counters
      <4> QED BY <2>1, <2>3, <3>3, <4>1, <4>2
    <3> QED BY <2>4, <3>2, <3>3
  <2>10. Carried'
    <3>1. ASSUME NEW i \in DOMAIN sq', sq'[i].kind = "head"
          PROVE  Carries(i - 1, accepted[wseq])'
      <4>1. i \in DOMAIN sq /\ sq[i].kind = "head" /\ i - 1 \in DOMAIN sq \cup {0}
        BY <2>3, <2>4, <2>5, <3>1
      <4>2. Carries(i - 1, accepted[wseq])
        BY <4>1 DEF Delivery, Carried
      <4>3. i - 1 # 0 => sq'[i - 1] = sq[i - 1]
        BY <2>3, <2>4, <4>1
      <4> QED BY <1>2, <1>5, <4>1, <4>2, <4>3 DEF Carries
    <3>2. Carries(Len(sq), event.n)'
      BY <2>1, <2>2, <2>3, <2>4 DEF Carries
    <3> QED BY <3>1, <3>2 DEF Carried
  <2> QED BY <2>7, <2>8, <2>9, <2>10 DEF Delivery
<1>8. CASE ~(ok /\ fits)
  <2>1. UNCHANGED sq /\ event'.slot = -1
    BY <1>1, <1>8 DEF NextEvent
  <2>2. HeadPending' <=> HeadPending
    BY <2>1 DEF HeadPending
  <2>3. OneHead' /\ Counters' /\ Applied' /\ Unapplied' /\ AtPlace'
    BY <1>2, <2>1, <2>2 DEF Delivery, OneHead, Counters, Applied, Unapplied, AtPlace
  <2>4. ASSUME NEW i \in DOMAIN sq', sq'[i].kind = "head"
        PROVE  Carries(i - 1, accepted[wseq])'
    <3>1. i \in DOMAIN sq /\ sq[i].kind = "head" /\ i - 1 \in DOMAIN sq \cup {0}
      BY <1>6, <2>1, <2>4
    <3>2. Carries(i - 1, accepted[wseq])
      BY <3>1 DEF Delivery, Carried
    <3> QED BY <1>2, <1>5, <2>1, <3>1, <3>2, Zenon DEF Carries
  <2> QED BY <2>1, <2>3, <2>4 DEF Delivery, Carried
<1> QED BY <1>7, <1>8

\* The head is posted behind its data, or the event is dropped: one that is
\* still to be read may not be overwritten, or that is a gap.
LEMMA SubmitHeadDelivers ==
    ASSUME KprobeType, Delivery, NEW ok \in BOOLEAN, SubmitHead(ok), kgaps' = {}
    PROVE  Delivery'
<1>1. /\ event.slot # -1 /\ headBuf' = wseq + 1 /\ event' = NextEvent
      /\ UNCHANGED <<wslots, ringbuf, poller, applied>>
      /\ IF ok
         THEN /\ sq' = Append(sq, [kind |-> "head", slot |-> event.slot, at |-> 0])
              /\ wseq' = wseq + 1
              /\ accepted' = Append(accepted, event.n)
         ELSE UNCHANGED <<sq, wseq, accepted>>
  BY DEF SubmitHead, replicaRing
<1>2. ~HeadPending
  BY Zenon DEF SubmitHead, Gap, HeadPending
<1>3. event'.slot = -1
  BY <1>1 DEF NextEvent
<1>4. /\ Len(accepted) = wseq /\ wseq = ringbuf.head /\ Len(applied) = poller.tail
      /\ poller.tail <= poller.head /\ poller.head <= ringbuf.head
      /\ wseq \in Nat /\ ringbuf.head \in Nat /\ poller.tail \in Nat /\ poller.head \in Nat
  BY <1>2 DEF Delivery, Counters, KprobeType
<1>5. CASE ok
  <2> DEFINE r == [kind |-> "head", slot |-> event.slot, at |-> 0]
             n == Len(sq)
  <2>1. r \in Requests /\ r.kind = "head"
    BY <1>1, KprobeAssumption, SMTT(30) DEF KprobeType, Requests, Places
  <2>2. /\ sq' = Append(sq, r) /\ wseq' = wseq + 1 /\ accepted' = Append(accepted, event.n)
        /\ event.n \in Nat \ {0}
    BY <1>1, <1>5, SMTT(30) DEF KprobeType
  <2>3. /\ Len(sq') = n + 1 /\ DOMAIN sq' = 1..(n + 1)
        /\ \A i \in 1..n : sq'[i] = sq[i]
        /\ sq'[n + 1] = r
        /\ n \in Nat /\ DOMAIN sq = 1..n
    BY <2>1, <2>2, PostedElements DEF KprobeType
  <2>4. /\ Len(accepted') = wseq + 1
        /\ \A i \in 1..wseq : accepted'[i] = accepted[i]
        /\ accepted'[wseq + 1] = event.n
    BY <1>4, <2>2, PostedElements, SMTT(30) DEF KprobeType
  <2> HIDE DEF r, n
  <2>5. \A i \in 1..n : sq[i].kind # "head"
    BY <1>2, <2>3 DEF HeadPending
  <2>6. HeadPending'
    BY <2>1, <2>3 DEF HeadPending
  <2>7. OneHead'
    BY <2>3, <2>5 DEF OneHead
  <2>8. Counters'
    BY <1>1, <1>4, <2>2, <2>4, <2>6 DEF Counters
  <2>9. Applied'
    BY <1>1, <1>4, <2>4, SMTT(30) DEF Applied, Delivery
  <2>10. Unapplied'
    <3> SUFFICES ASSUME NEW i \in poller.tail..(ringbuf.head - 1)
                 PROVE  ringbuf.slots[Place(i)] = accepted'[i + 1]
      BY <1>1 DEF Unapplied
    <3>1. i + 1 \in 1..wseq
      BY <1>4
    <3> QED BY <2>4, <3>1 DEF Delivery, Unapplied
  <2>11. AtPlace'
    <3> SUFFICES ASSUME NEW i \in 1..(n + 1), sq'[i].kind = "data"
                 PROVE  sq'[i].at = IF \E j \in 1..(i - 1) : sq'[j].kind = "head"
                                    THEN Place(wseq') ELSE Place(ringbuf.head)
      BY <1>1, <2>3 DEF AtPlace
    <3>1. i \in 1..n
      BY <2>1, <2>3
    <3>2. \A j \in 1..(i - 1) : j \in 1..n /\ sq'[j].kind # "head" /\ sq[j].kind # "head"
      BY <2>3, <2>5, <3>1
    <3>3. sq[i].at = Place(ringbuf.head)
      BY <2>3, <3>1, <3>2 DEF Delivery, AtPlace
    <3> QED BY <2>3, <3>1, <3>2, <3>3
  <2>12. Carried'
    <3>1. ASSUME NEW i \in DOMAIN sq', sq'[i].kind = "head"
          PROVE  Carries(i - 1, accepted[wseq])'
      <4>1. i = n + 1 /\ i - 1 = n
        BY <2>3, <2>5, <3>1
      <4>2. Carries(n, event.n)
        BY <1>1 DEF Delivery, Carried, n
      <4>3. n # 0 => sq'[n] = sq[n]
        BY <2>3
      <4> QED BY <1>1, <2>2, <2>4, <4>1, <4>2, <4>3, Zenon DEF Carries
    <3> QED BY <1>3, <3>1 DEF Carried
  <2> QED BY <2>7, <2>8, <2>9, <2>10, <2>11, <2>12 DEF Delivery
<1>6. CASE ~ok
  <2>1. UNCHANGED <<sq, wseq, accepted, wslots, ringbuf, poller, applied>>
    BY <1>1, <1>6
  <2>2. ~HeadPending'
    BY <1>2, <2>1 DEF HeadPending
  <2>3. Counters'
    BY <1>4, <2>1, <2>2 DEF Counters
  <2>4. OneHead' /\ Applied' /\ Unapplied' /\ AtPlace'
    BY <2>1 DEF Delivery, OneHead, Applied, Unapplied, AtPlace
  <2>5. Carried'
    BY <1>3, <2>2 DEF Carried, HeadPending
  <2> QED BY <2>3, <2>4, <2>5 DEF Delivery
<1> QED BY <1>5, <1>6

\* Completions are polled: only the marks of the slots change.
LEMMA PollCqDelivers ==
    ASSUME KprobeType, Delivery, NEW late \in BOOLEAN, PollCq(late)
    PROVE  Delivery'
<1>1. /\ wslots' = [s \in WSlots |-> [wslots[s] EXCEPT !.busy = @ /\ s \notin {cq[i] : i \in DOMAIN cq}]]
      /\ event.slot = -1 /\ (event' = NextEvent \/ event' = event)
      /\ UNCHANGED <<wseq, headBuf, accepted, sq, ringbuf, poller, applied>>
  BY DEF PollCq, replicaRing, Acquiring
<1>2. event'.slot = -1
  BY <1>1 DEF NextEvent
<1>3. \A s \in WSlots : wslots'[s].buf = wslots[s].buf
  BY <1>1, SMTT(30) DEF KprobeType
<1>4. \A i \in DOMAIN sq : sq[i].slot \in WSlots
  BY RequestTypes, Zenon
<1>5. HeadPending' <=> HeadPending
  BY <1>1 DEF HeadPending
<1>6. OneHead' /\ Counters' /\ Applied' /\ Unapplied' /\ AtPlace'
  BY <1>1, <1>5 DEF Delivery, OneHead, Counters, Applied, Unapplied, AtPlace
<1>7. ASSUME NEW i \in DOMAIN sq', sq'[i].kind = "head"
      PROVE  Carries(i - 1, accepted[wseq])'
  <2>1. i \in DOMAIN sq /\ sq[i].kind = "head" /\ i - 1 \in DOMAIN sq \cup {0}
    BY <1>1, <1>7, LenProperties DEF KprobeType
  <2>2. Carries(i - 1, accepted[wseq])
    BY <2>1 DEF Delivery, Carried
  <2> QED BY <1>1, <1>3, <1>4, <2>1, <2>2 DEF Carries
<1>8. Carried'
  BY <1>2, <1>7 DEF Carried
<1> QED BY <1>6, <1>8 DEF Delivery

\* The adapter runs a head: the place it announces holds the event.
LEMMA RunHeadDelivers ==
    ASSUME KprobeType, Delivery, RunRequest, kgaps' = {}, Head(sq).kind = "head"
    PROVE  Delivery'
<1> DEFINE n == Len(sq)
<1>1. /\ sq # << >> /\ sq' = Tail(sq)
      /\ UNCHANGED <<wslots, wseq, headBuf, event, accepted, poller, applied>>
      /\ ringbuf' = [ringbuf EXCEPT !.head = headBuf]
  BY DEF RunRequest, masterRing
<1>2. /\ Head(sq) = sq[1] /\ n \in Nat \ {0} /\ Len(sq') = n - 1
      /\ DOMAIN sq = 1..n /\ DOMAIN sq' = 1..(n - 1)
      /\ \A i \in 1..(n - 1) : sq'[i] = sq[i + 1]
  BY <1>1, RunElements DEF KprobeType
<1>3. Len(sq) = n /\ Len(sq)' = n - 1
  BY <1>2
<1> HIDE DEF n
<1>4. sq[1].kind = "head" /\ HeadPending /\ 1 \in DOMAIN sq
  BY <1>2 DEF HeadPending
<1>5. /\ wseq = ringbuf.head + 1 /\ headBuf = wseq /\ ringbuf'.head = wseq
      /\ ringbuf'.slots = ringbuf.slots
      /\ wseq \in Nat /\ ringbuf.head \in Nat /\ poller.tail \in Nat /\ poller.head \in Nat
  <2>1. wseq = ringbuf.head + 1 /\ headBuf = wseq
    BY <1>4, Zenon DEF Delivery, Counters
  <2>2. ringbuf \in [slots : [Places -> Nat], head : Nat] /\ poller \in [head : Nat, tail : Nat] /\ wseq \in Nat
    BY Zenon DEF KprobeType
  <2>3. ringbuf' = [ringbuf EXCEPT !.head = headBuf]
    BY <1>1, Zenon
  <2>4. ringbuf'.head = headBuf /\ ringbuf'.slots = ringbuf.slots
    BY <2>2, <2>3
  <2>5. ringbuf.head \in Nat /\ poller.tail \in Nat /\ poller.head \in Nat
    BY <2>2
  <2> QED BY <2>1, <2>2, <2>4, <2>5, Zenon
<1>6. \A i \in 1..(n - 1) : i + 1 \in DOMAIN sq /\ sq[i + 1].kind # "head" /\ sq'[i].kind # "head"
  <2>1. \A i \in 1..(n - 1) : i + 1 \in 1..n /\ i + 1 # 1
    BY <1>2
  <2>2. \A i \in DOMAIN sq : sq[i].kind = "head" => i = 1
    BY <1>4, Zenon DEF Delivery, OneHead
  <2> QED BY <1>2, <2>1, <2>2, Zenon
<1>7. ~HeadPending' /\ OneHead'
  BY <1>2, <1>6 DEF HeadPending, OneHead
<1>8. Counters' /\ Applied'
  BY <1>1, <1>5, <1>7 DEF Delivery, Counters, Applied
<1>9. ringbuf.slots[Place(ringbuf.head)] = accepted[wseq]
  BY <1>4 DEF Delivery, Carried, Carries
<1>10. Unapplied'
  <2> SUFFICES ASSUME NEW i \in poller.tail..(wseq - 1)
               PROVE  ringbuf.slots[Place(i)] = accepted[i + 1]
    BY <1>1, <1>5 DEF Unapplied
  <2>1. CASE i = ringbuf.head
    BY <1>5, <1>9, <2>1
  <2>2. CASE i # ringbuf.head
    <3>1. i \in poller.tail..(ringbuf.head - 1)
      BY <1>5, <2>2
    <3> QED BY <3>1 DEF Delivery, Unapplied
  <2> QED BY <2>1, <2>2
<1>11. AtPlace'
  <2> SUFFICES ASSUME NEW i \in 1..(n - 1), sq'[i].kind = "data"
               PROVE  sq'[i].at = Place(wseq)
    BY <1>1, <1>2, <1>5 DEF AtPlace
  <2>1. i + 1 \in DOMAIN sq /\ sq[i + 1].kind = "data" /\ 1 \in 1..((i + 1) - 1)
    BY <1>2
  <2> QED BY <1>2, <1>4, <2>1 DEF Delivery, AtPlace
<1>12. Carried'
  <2>1. event'.slot # -1 => Carries(Len(sq), event.n)'
    <3> SUFFICES ASSUME event.slot # -1 PROVE Carries(Len(sq), event.n)'
      BY <1>1
    <3>1. Carries(n, event.n)
      BY <1>3 DEF Delivery, Carried
    <3>2. n # 0 /\ sq[n].kind = "data" /\ wslots[sq[n].slot].buf = event.n
      BY <1>2, <3>1 DEF Carries
    <3>3. n # 1 /\ n - 1 \in 1..(n - 1) /\ (n - 1) + 1 = n /\ n - 1 # 0
      BY <1>2, <1>4, <3>2
    <3>4. sq'[n - 1] = sq[n]
      BY <1>2, <3>3
    <3> QED BY <1>1, <1>3, <3>2, <3>3, <3>4 DEF Carries
  <2> QED BY <1>7, <2>1 DEF Carried, HeadPending
<1> QED BY <1>7, <1>8, <1>10, <1>11, <1>12 DEF Delivery

\* The adapter runs a data request: it fills the place behind the head, which
\* holds nothing the replica still has to apply, or that is a gap.
LEMMA RunDataDelivers ==
    ASSUME KprobeType, Delivery, RunRequest, kgaps' = {}, Head(sq).kind = "data"
    PROVE  Delivery'
<1> DEFINE n == Len(sq)
<1>1. /\ sq # << >> /\ sq' = Tail(sq)
      /\ UNCHANGED <<wslots, wseq, headBuf, event, accepted, poller, applied>>
      /\ ringbuf' = [ringbuf EXCEPT !.slots[Head(sq).at] = wslots[Head(sq).slot].buf]
      /\ ~\E i \in poller.tail..(ringbuf.head - 1) : Place(i) = Head(sq).at
  BY Zenon DEF RunRequest, masterRing, Gap, Place
<1>2. /\ Head(sq) = sq[1] /\ sq[1] \in Requests /\ n \in Nat \ {0} /\ Len(sq') = n - 1
      /\ DOMAIN sq = 1..n /\ DOMAIN sq' = 1..(n - 1)
      /\ \A i \in 1..(n - 1) : sq'[i] = sq[i + 1]
  BY <1>1, RunElements DEF KprobeType
<1>3. Len(sq) = n /\ Len(sq)' = n - 1
  BY <1>2
<1> HIDE DEF n
<1>4. sq[1].kind = "data" /\ 1 \in DOMAIN sq
  BY <1>2
<1>5. sq[1].at = Place(ringbuf.head)
  <2>1. ~\E j \in 1..(1 - 1) : sq[j].kind = "head"
    OBVIOUS
  <2> QED BY <1>4, <2>1 DEF Delivery, AtPlace
<1> DEFINE p == Place(ringbuf.head)
           x == wslots[sq[1].slot].buf
<1>6. /\ ringbuf'.head = ringbuf.head /\ ringbuf'.slots = [ringbuf.slots EXCEPT ![p] = x]
      /\ p \in Places /\ ringbuf.slots \in [Places -> Nat]
      /\ ringbuf.head \in Nat /\ poller.tail \in Nat
  BY <1>1, <1>2, <1>5, PlaceType, Zenon DEF KprobeType
<1>7. \A i \in poller.tail..(ringbuf.head - 1) : Place(i) # p
  BY <1>1, <1>2, <1>5
<1> HIDE DEF p
<1>8. HeadPending' <=> HeadPending
  <2>1. ASSUME NEW i \in DOMAIN sq, sq[i].kind = "head" PROVE i - 1 \in DOMAIN sq' /\ sq'[i - 1].kind = "head"
    <3>1. i # 1
      BY <1>4, <2>1
    <3>2. i - 1 \in 1..(n - 1) /\ (i - 1) + 1 = i
      BY <1>2, <3>1
    <3> QED BY <1>2, <2>1, <3>2
  <2>2. ASSUME NEW i \in DOMAIN sq', sq'[i].kind = "head" PROVE i + 1 \in DOMAIN sq /\ sq[i + 1].kind = "head"
    BY <1>2, <2>2
  <2> QED BY <2>1, <2>2 DEF HeadPending
<1>9. OneHead'
  <2> SUFFICES ASSUME NEW i \in DOMAIN sq', NEW j \in DOMAIN sq', sq'[i].kind = "head", sq'[j].kind = "head"
               PROVE  i = j
    BY DEF OneHead
  <2>1. i + 1 \in DOMAIN sq /\ j + 1 \in DOMAIN sq /\ sq[i + 1].kind = "head" /\ sq[j + 1].kind = "head"
    BY <1>2, SMTT(30)
  <2>2. i + 1 = j + 1
    BY <2>1 DEF Delivery, OneHead
  <2> QED BY <1>2, <2>2
<1>10. Counters' /\ Applied'
  BY <1>1, <1>6, <1>8 DEF Delivery, Counters, Applied
<1>11. Unapplied'
  <2> SUFFICES ASSUME NEW i \in poller.tail..(ringbuf.head - 1)
               PROVE  ringbuf'.slots[Place(i)] = accepted[i + 1]
    BY <1>1, <1>6 DEF Unapplied
  <2>1. Place(i) \in Places /\ Place(i) # p
    BY <1>6, <1>7, PlaceType
  <2>2. ringbuf'.slots[Place(i)] = ringbuf.slots[Place(i)]
    BY <1>6, <2>1
  <2> QED BY <2>2 DEF Delivery, Unapplied
<1>12. AtPlace'
  <2> SUFFICES ASSUME NEW i \in 1..(n - 1), sq'[i].kind = "data"
               PROVE  sq'[i].at = IF \E j \in 1..(i - 1) : sq'[j].kind = "head"
                                  THEN Place(wseq) ELSE Place(ringbuf.head)
    BY <1>1, <1>2, <1>6, SMTT(30) DEF AtPlace
  <2>1. i + 1 \in DOMAIN sq /\ sq[i + 1].kind = "data" /\ sq'[i] = sq[i + 1]
    BY <1>2
  <2>2. (\E j \in 1..((i + 1) - 1) : sq[j].kind = "head") <=> (\E j \in 1..(i - 1) : sq'[j].kind = "head")
    <3>1. ASSUME NEW j \in 1..((i + 1) - 1), sq[j].kind = "head"
          PROVE  j - 1 \in 1..(i - 1) /\ sq'[j - 1].kind = "head"
      <4>1. j # 1
        BY <1>4, <3>1
      <4>2. j - 1 \in 1..(i - 1) /\ j - 1 \in 1..(n - 1) /\ (j - 1) + 1 = j
        BY <1>2, <4>1
      <4> QED BY <1>2, <3>1, <4>2
    <3>2. ASSUME NEW j \in 1..(i - 1), sq'[j].kind = "head"
          PROVE  j + 1 \in 1..((i + 1) - 1) /\ sq[j + 1].kind = "head"
      BY <1>2, <3>2
    <3> QED BY <3>1, <3>2
  <2> QED BY <2>1, <2>2 DEF Delivery, AtPlace
<1>13. \A i \in DOMAIN sq : \A y : Carries(i, y) =>
          IF i - 1 = 0 THEN ringbuf'.slots[Place(ringbuf'.head)] = y
          ELSE sq'[i - 1].kind = "data" /\ wslots'[sq'[i - 1].slot].buf = y
  <2> SUFFICES ASSUME NEW i \in DOMAIN sq, NEW y, Carries(i, y)
               PROVE  IF i - 1 = 0 THEN ringbuf'.slots[Place(ringbuf'.head)] = y
                      ELSE sq'[i - 1].kind = "data" /\ wslots'[sq'[i - 1].slot].buf = y
    OBVIOUS
  <2>1. i \in 1..n /\ sq[i].kind = "data" /\ wslots[sq[i].slot].buf = y
    BY <1>2 DEF Carries
  <2>2. CASE i = 1
    <3>1. x = y
      BY <2>1, <2>2
    <3>2. ringbuf'.slots[p] = x
      BY <1>6
    <3> QED BY <1>6, <2>2, <3>1, <3>2 DEF p
  <2>3. CASE i # 1
    <3>1. i - 1 # 0 /\ i - 1 \in 1..(n - 1) /\ (i - 1) + 1 = i
      BY <1>2, <2>1, <2>3
    <3>2. sq'[i - 1] = sq[i]
      BY <1>2, <3>1
    <3> QED BY <1>1, <2>1, <3>1, <3>2
  <2> QED BY <2>2, <2>3
<1>14. Carried'
  <2>1. ASSUME NEW i \in DOMAIN sq', sq'[i].kind = "head"
        PROVE  Carries(i - 1, accepted[wseq])'
    <3>1. i \in DOMAIN sq /\ i + 1 \in DOMAIN sq /\ sq[i + 1].kind = "head" /\ (i + 1) - 1 = i
      BY <1>2, <2>1
    <3>2. Carries(i, accepted[wseq])
      BY <3>1 DEF Delivery, Carried
    <3>3. IF i - 1 = 0 THEN ringbuf'.slots[Place(ringbuf'.head)] = accepted[wseq]
          ELSE sq'[i - 1].kind = "data" /\ wslots'[sq'[i - 1].slot].buf = accepted[wseq]
      BY <1>13, <3>1, <3>2, Zenon
    <3>4. accepted' = accepted /\ wseq' = wseq
      BY <1>1
    <3> QED BY <3>3, <3>4, Zenon DEF Carries
  <2>2. event'.slot # -1 => Carries(Len(sq), event.n)'
    <3> SUFFICES ASSUME event.slot # -1 PROVE Carries(Len(sq), event.n)'
      BY <1>1
    <3>1. Carries(n, event.n) /\ n \in DOMAIN sq
      BY <1>2, <1>3 DEF Delivery, Carried
    <3>2. IF n - 1 = 0 THEN ringbuf'.slots[Place(ringbuf'.head)] = event.n
          ELSE sq'[n - 1].kind = "data" /\ wslots'[sq'[n - 1].slot].buf = event.n
      BY <1>13, <3>1, Zenon
    <3>3. event' = event
      BY <1>1
    <3> QED BY <1>3, <3>2, <3>3, Zenon DEF Carries
  <2> QED BY <2>1, <2>2 DEF Carried
<1> QED BY <1>9, <1>10, <1>11, <1>12, <1>14 DEF Delivery

\* The replica reads the head, which moves nothing.
LEMMA ReadHeadDelivers ==
    ASSUME KprobeType, Delivery, ReadHead
    PROVE  Delivery'
<1>1. /\ UNCHANGED <<wslots, wseq, headBuf, event, accepted, sq, ringbuf, applied>>
      /\ poller'.head = ringbuf.head /\ poller'.tail = poller.tail
  BY DEF ReadHead, masterRing, KprobeType
<1>2. HeadPending' <=> HeadPending
  BY <1>1 DEF HeadPending
<1>3. Counters'
  BY <1>1, <1>2 DEF Delivery, Counters, KprobeType
<1>4. OneHead' /\ Applied' /\ Unapplied' /\ AtPlace' /\ Carried'
  BY <1>1, Zenon DEF Delivery, OneHead, Applied, Unapplied, AtPlace, Carried, Carries
<1> QED BY <1>3, <1>4 DEF Delivery

\* The replica applies a slot: it holds the next accepted event, and no event is
\* the mark of an empty slot.
LEMMA ConsumeSlotDelivers ==
    ASSUME KprobeType, Delivery, ConsumeSlot
    PROVE  Delivery'
<1> DEFINE t == poller.tail
           x == ringbuf.slots[Place(t)]
<1>1. /\ UNCHANGED <<wslots, wseq, headBuf, event, accepted, sq, ringbuf>>
      /\ poller'.tail = t + 1 /\ poller'.head = poller.head /\ t # poller.head
      /\ applied' = IF x = 0 THEN applied ELSE Append(applied, x)
  BY DEF ConsumeSlot, masterRing, KprobeType, Place, NoData
<1>2. /\ t \in Nat /\ poller.head \in Nat /\ ringbuf.head \in Nat /\ wseq \in Nat
      /\ t <= poller.head /\ poller.head <= ringbuf.head /\ Len(applied) = t
      /\ Len(accepted) = wseq /\ ringbuf.head <= wseq
  BY DEF Delivery, Counters, KprobeType
<1>3. t \in t..(ringbuf.head - 1) /\ t + 1 \in 1..Len(accepted)
  BY <1>1, <1>2
<1>4. x = accepted[t + 1]
  BY <1>3 DEF Delivery, Unapplied
<1>5. accepted[t + 1] \in Nat \ {0}
  BY <1>3, ElementOfSeq DEF KprobeType
<1> HIDE DEF x, t
<1>6. applied' = Append(applied, x) /\ x \in Nat
  BY <1>1, <1>4, <1>5
<1>7. Len(applied') = t + 1 /\ (\A i \in 1..t : applied'[i] = applied[i]) /\ applied'[t + 1] = x
  <2>1. applied \in Seq(Nat)
    BY Zenon DEF KprobeType
  <2>2. /\ Len(Append(applied, x)) = Len(applied) + 1
        /\ \A i \in 1..Len(applied) : Append(applied, x)[i] = applied[i]
        /\ Append(applied, x)[Len(applied) + 1] = x
    <3>1. x \in Nat
      BY <1>6, Zenon
    <3> QED BY <2>1, <3>1, AppendProperties
  <2> QED BY <1>2, <1>6, <2>2, Zenon
<1>8. HeadPending' <=> HeadPending
  BY <1>1 DEF HeadPending
<1>9. Counters'
  BY <1>1, <1>2, <1>7, <1>8 DEF Delivery, Counters
<1>10. Applied'
  <2> SUFFICES ASSUME NEW i \in 1..(t + 1) PROVE applied'[i] = accepted[i]
    BY <1>1, Zenon DEF Applied
  <2>1. CASE i = t + 1
    BY <1>4, <1>7, <2>1
  <2>2. CASE i # t + 1
    <3>1. i \in 1..t
      BY <1>2, <2>2
    <3> QED BY <1>7, <3>1 DEF Delivery, Applied, t
  <2> QED BY <2>1, <2>2
<1>11. Unapplied'
  <2> SUFFICES ASSUME NEW i \in (t + 1)..(ringbuf.head - 1)
               PROVE  ringbuf.slots[Place(i)] = accepted[i + 1]
    BY <1>1 DEF Unapplied
  <2>1. i \in t..(ringbuf.head - 1)
    BY <1>2
  <2> QED BY <2>1 DEF Delivery, Unapplied, t
<1>12. OneHead' /\ AtPlace' /\ Carried'
  BY <1>1, Zenon DEF Delivery, OneHead, AtPlace, Carried, Carries
<1> QED BY <1>9, <1>10, <1>11, <1>12 DEF Delivery

-----------------------------------------------------------------------------
(* The invariant and the theorem                                           *)

\* The invariant is inductive: a gap, once recorded, stays, and without one each
\* action delivers.
LEMMA KprobeInvStep == KprobeInv /\ [KprobeNext]_kprobeVars => KprobeInv'
<1> SUFFICES ASSUME KprobeInv, [KprobeNext]_kprobeVars PROVE KprobeInv'
  OBVIOUS
<1>1. KprobeType /\ KprobeType'
  BY KprobeTypeStep DEF KprobeInv
<1> SUFFICES ASSUME kgaps' = {} PROVE Delivery'
  BY <1>1 DEF KprobeInv
<1>2. CASE \E ok, fits \in BOOLEAN : SubmitData(ok, fits)
  <2>1. PICK ok \in BOOLEAN, fits \in BOOLEAN : SubmitData(ok, fits)
    BY <1>2
  <2>2. kgaps = {}
    BY <2>1 DEF SubmitData, Gap
  <2>3. Delivery
    BY <2>2 DEF KprobeInv
  <2> QED BY <1>1, <2>1, <2>3, SubmitDataDelivers
<1>3. CASE \E ok \in BOOLEAN : SubmitHead(ok)
  <2>1. PICK ok \in BOOLEAN : SubmitHead(ok)
    BY <1>3
  <2>2. kgaps = {}
    BY <2>1 DEF SubmitHead, Gap
  <2>3. Delivery
    BY <2>2 DEF KprobeInv
  <2> QED BY <1>1, <2>1, <2>3, SubmitHeadDelivers
<1>4. CASE \E late \in BOOLEAN : PollCq(late)
  <2>1. PICK late \in BOOLEAN : PollCq(late)
    BY <1>4
  <2>2. Delivery
    BY <2>1 DEF KprobeInv, PollCq
  <2> QED BY <1>1, <2>1, <2>2, PollCqDelivers
<1>5. CASE RunRequest
  <2>1. kgaps = {} /\ sq # << >>
    BY <1>5 DEF RunRequest, Gap
  <2>2. Delivery
    BY <2>1 DEF KprobeInv
  <2>3. Head(sq).kind \in {"data", "head"}
    <3>1. sq \in Seq(Requests)
      BY <1>1, Zenon DEF KprobeType
    <3>2. Head(sq) = sq[1] /\ 1 \in DOMAIN sq
      BY <2>1, <3>1, RunElements
    <3> QED BY <1>1, <3>2, RequestTypes, Zenon
  <2> QED BY <1>1, <1>5, <2>2, <2>3, RunHeadDelivers, RunDataDelivers
<1>6. CASE ReadHead
  BY <1>1, <1>6, ReadHeadDelivers DEF KprobeInv, ReadHead
<1>7. CASE ConsumeSlot
  BY <1>1, <1>7, ConsumeSlotDelivers DEF KprobeInv, ConsumeSlot
<1>8. CASE UNCHANGED kprobeVars
  <2>1. Delivery
    BY <1>8 DEF kprobeVars, KprobeInv
  <2> QED BY <1>8, <2>1, Zenon DEF kprobeVars, Delivery, OneHead, Counters, HeadPending, Applied, Unapplied,
            AtPlace, Carried, Carries
<1> QED BY <1>2, <1>3, <1>4, <1>5, <1>6, <1>7, <1>8 DEF KprobeNext

\* With the counters and the ring as the invariant says, the applied events are
\* the first ones accepted, and all of them once nothing is on its way.
LEMMA InvDelivers == KprobeInv => RingDelivers
<1> SUFFICES ASSUME KprobeInv, kgaps = {}
             PROVE  /\ Len(applied) <= Len(accepted) /\ applied = SubSeq(accepted, 1, Len(applied))
                    /\ Len(applied) = poller.tail
                    /\ sq = << >> /\ poller.tail = ringbuf.head => applied = accepted
  BY DEF RingDelivers
<1>1. KprobeType /\ Delivery
  BY DEF KprobeInv
<1>2. /\ Len(applied) = poller.tail /\ Len(accepted) = wseq /\ Len(applied) \in Nat /\ wseq \in Nat
      /\ Len(applied) <= wseq
      /\ \A i \in 1..Len(applied) : applied[i] = accepted[i]
  BY <1>1, SMTT(30) DEF KprobeType, Delivery, Counters, Applied
<1>3. applied \in Seq(Nat) /\ accepted \in Seq(Nat)
  <2>1. applied \in Seq(Nat) /\ accepted \in Seq(Nat \ {0})
    BY <1>1, Zenon DEF KprobeType
  <2> QED BY <2>1, SeqMonotonic
<1>4. applied = SubSeq(accepted, 1, Len(applied))
  <2> DEFINE n == Len(applied)
             t == SubSeq(accepted, 1, n)
  <2>1. \A i \in 1..n : i \in 1..Len(accepted)
    BY <1>2
  <2>2. n \in Int /\ 1 \in Int /\ \A i \in 1..n : accepted[i] \in Nat
    BY <1>2, <1>3, <2>1, ElementOfSeq
  <2>3. t \in Seq(Nat) /\ Len(t) = n /\ \A i \in 1..n : t[i] = accepted[i]
    <3> HIDE DEF n
    <3>1. n \in Nat
      BY <1>2 DEF n
    <3> QED BY <2>2, <3>1, SubSeqProperties
  <2> QED BY <1>2, <1>3, <2>3, SeqEqual
<1>5. ASSUME sq = << >>, poller.tail = ringbuf.head PROVE applied = accepted
  <2>1. ~HeadPending
    BY <1>5 DEF HeadPending
  <2>2. Len(applied) = Len(accepted)
    BY <1>1, <1>2, <1>5, <2>1 DEF Delivery, Counters
  <2> QED BY <1>2, <1>3, <2>2, SeqEqual
<1> QED BY <1>2, <1>4, <1>5

\* The replica applies the accepted events, each once and in order, in any ring
\* and with any number of send slots, unless one of the three named situations
\* has occurred: kprobe_ringbuf_cb, wr_slot_acquire and wr_submit_head against
\* kprobe_rdma_slave_poll.
THEOREM RingDeliversHolds == KprobeSpec => []RingDelivers
<1>1. KprobeInit => KprobeInv
  BY KprobeTypeInit, DeliveryInit DEF KprobeInv
<1>2. KprobeInv /\ [KprobeNext]_kprobeVars => KprobeInv'
  BY KprobeInvStep
<1>3. KprobeInv => RingDelivers
  BY InvDelivers
<1> QED BY <1>1, <1>2, <1>3, PTL DEF KprobeSpec

-----------------------------------------------------------------------------
(***************************************************************************)
(* The ebpf-proxy: back-pressure has a cause                               *)
(***************************************************************************)

\* A sequence, whatever it holds: the proof looks at lengths only.
IsSeq(s) == \E S : s \in Seq(S)

\* Where the main loop may have writes to emit.
Emitting == {"polled", "follow", "session"}

\* The queue holds no more than its limit and a batch no more than its own,
\* which is below the low mark.
QueueBounded ==
    /\ IsSeq(fwdq) /\ Len(fwdq) <= ProxyQueueMax
    /\ DOMAIN fwd = DOMAIN NoBatch /\ IsSeq(fwd.batch) /\ Len(fwd.batch) <= BatchMax

\* The main loop waits only in commit_emit, with the write it could not queue in
\* hand; every other step of it finds nothing left to emit.
WaitsInEmit ==
    /\ {"pc", "todo", "waits"} \subseteq DOMAIN main
    /\ main.pc \notin Emitting => main.todo = << >>
    /\ main.waits => main.todo # << >>

\* The inductive invariant of the back-pressure.
PressInv == QueueBounded /\ WaitsInEmit /\ PressureHasCause

\* Lengths, of the operations the queue and the batch go through.
LEMMA SeqLengths ==
    ASSUME NEW s, IsSeq(s)
    PROVE  /\ Len(s) \in Nat
           /\ s = << >> <=> Len(s) = 0
           /\ \A e : IsSeq(Append(s, e)) /\ Len(Append(s, e)) = Len(s) + 1
           /\ \A k \in 0..Len(s) :
                /\ IsSeq(SubSeq(s, 1, k)) /\ Len(SubSeq(s, 1, k)) = k
                /\ IsSeq(SubSeq(s, k + 1, Len(s))) /\ Len(SubSeq(s, k + 1, Len(s))) = Len(s) - k
<1>1. PICK S : s \in Seq(S)
  BY DEF IsSeq
<1>2. Len(s) \in Nat /\ (s = << >> <=> Len(s) = 0)
  BY <1>1
<1>3. ASSUME NEW e
      PROVE  IsSeq(Append(s, e)) /\ Len(Append(s, e)) = Len(s) + 1
  <2>1. s \in Seq(S \cup {e})
    BY <1>1
  <2>2. Append(s, e) \in Seq(S \cup {e}) /\ Len(Append(s, e)) = Len(s) + 1
    BY <2>1, SMTT(30)
  <2> QED BY <2>2 DEF IsSeq
<1>4. ASSUME NEW k \in 0..Len(s)
      PROVE  /\ IsSeq(SubSeq(s, 1, k)) /\ Len(SubSeq(s, 1, k)) = k
             /\ IsSeq(SubSeq(s, k + 1, Len(s))) /\ Len(SubSeq(s, k + 1, Len(s))) = Len(s) - k
  <2>1. SubSeq(s, 1, k) \in Seq(S) /\ Len(SubSeq(s, 1, k)) = k
    BY <1>1, <1>2, SubSeqProperties
  <2>2. SubSeq(s, k + 1, Len(s)) \in Seq(S) /\ Len(SubSeq(s, k + 1, Len(s))) = Len(s) - k
    BY <1>1, <1>2, SubSeqProperties
  <2> QED BY <2>1, <2>2, Zenon DEF IsSeq
<1> QED BY <1>2, <1>3, <1>4, Zenon

\* An empty queue or batch is a sequence of length 0.
LEMMA EmptyIsSeq == IsSeq(<< >>) /\ Len(<< >>) = 0
<1>1. << >> \in Seq({}) /\ Len(<< >>) = 0
  OBVIOUS
<1> QED BY <1>1 DEF IsSeq

\* main_loop starts with nothing queued, no batch and the flag down.
LEMMA PressInvInit == PfwdInit => PressInv
<1> SUFFICES ASSUME PfwdInit PROVE PressInv
  OBVIOUS
<1>1. IsSeq(fwdq) /\ Len(fwdq) = 0 /\ fwd = NoBatch /\ fwd.batch = << >> /\ ~press
  <2>1. fwdq = << >> /\ fwd = NoBatch /\ press = FALSE
    BY Zenon DEF PfwdInit
  <2>2. NoBatch.batch = << >>
    BY Zenon DEF NoBatch
  <2> QED BY <2>1, <2>2, EmptyIsSeq, Zenon
<1>2. QueueBounded
  BY <1>1, EmptyIsSeq, ProxyAssumption DEF QueueBounded
<1>3. {"pc", "todo", "waits"} \subseteq DOMAIN main /\ main.todo = << >> /\ ~main.waits
  BY Zenon DEF PfwdInit
<1> QED BY <1>1, <1>2, <1>3 DEF PressInv, WaitsInEmit, PressureHasCause

\* A discard lowers the flag: what is in flight is below the low mark.
LEMMA DiscardEases ==
    ASSUME PressInv, Discard
    PROVE  fwdq' = << >> /\ ~press'
<1>1. PICK n \in InFlight : press' = Eased(n)
  BY DEF Discard
<1>2. Len(fwd.batch) \in Nat /\ Len(fwd.batch) <= BatchMax
  BY SeqLengths, Zenon DEF PressInv, QueueBounded
<1>3. n \in Nat /\ n <= BatchMax
  BY <1>2, ProxyAssumption DEF InFlight
<1>4. ~(n >= LowMark)
  BY <1>3, ProxyAssumption
<1> QED BY <1>1, <1>4, Zenon DEF Discard, Eased

\* Steps that leave the queue, the batch and the flag alone.
LEMMA QuietKeeps ==
    ASSUME PressInv, UNCHANGED <<fwdq, press>>,
           DOMAIN fwd' = DOMAIN fwd, IsSeq(fwd'.batch), Len(fwd'.batch) <= BatchMax,
           WaitsInEmit', main'.waits => main.waits
    PROVE  PressInv'
BY DEF PressInv, QueueBounded, PressureHasCause

\* Steps of the main loop that may empty the queue.
LEMMA LoopKeeps ==
    ASSUME PressInv, UNCHANGED fwd, Discard \/ UNCHANGED <<fwdq, press>>,
           WaitsInEmit', ~main'.waits
    PROVE  PressInv'
<1>1. CASE Discard
  BY <1>1, DiscardEases, EmptyIsSeq, ProxyAssumption DEF PressInv, QueueBounded, PressureHasCause
<1>2. CASE UNCHANGED <<fwdq, press>>
  BY <1>2 DEF PressInv, QueueBounded, PressureHasCause
<1> QED BY <1>1, <1>2

\* The master's steps touch the shared keys, not the proxy's queue.
LEMMA MasterPress == ASSUME PressInv, MasterSteps PROVE PressInv'
<1>1. UNCHANGED <<main, fwd, fwdq, press>>
  BY DEF MasterSteps, MasterBegin, MasterRaise, MasterTimeout, MasterAttach, MasterRelease, MasterEnd, sending
<1> QED BY <1>1 DEF PressInv, QueueBounded, WaitsInEmit, PressureHasCause

\* What commit_emit may come to: the write is cached, cannot be queued yet, is
\* queued, or the commit path is faulted.
LEMMA EmitOutcomes ==
    ASSUME CommitEmit
    PROVE  /\ main.todo # << >> /\ ~main.waits /\ UNCHANGED fwd
           /\ \/ /\ main' = [main EXCEPT !.todo = Tail(@)] \/ main' = Faulted(main)
                 /\ UNCHANGED <<fwdq, press>>
              \/ /\ main' = [main EXCEPT !.waits = TRUE] /\ Len(fwdq) + 1 > ProxyQueueMax
                 /\ UNCHANGED <<fwdq, press>>
              \/ /\ main' = [main EXCEPT !.todo = Tail(@)] /\ ~(Len(fwdq) + 1 > ProxyQueueMax)
                 /\ fwdq' = Append(fwdq, Head(main.todo))
BY Zenon DEF CommitEmit, RaiseFault

\* commit_emit waits only when the queue is at MAX_PFWD_QUEUE_BYTES, and raises the
\* flag only with the write it has just queued.
LEMMA EmitPress == ASSUME PressInv, CommitEmit PROVE PressInv'
<1>1. /\ main.todo # << >> /\ ~main.waits /\ main.pc \in Emitting
      /\ {"pc", "todo", "waits"} \subseteq DOMAIN main /\ UNCHANGED fwd
  BY EmitOutcomes, Zenon DEF PressInv, WaitsInEmit
<1>2. Len(fwdq) \in Nat /\ Len(fwdq) <= ProxyQueueMax /\ ProxyQueueMax \in Nat /\ IsSeq(fwdq)
  BY SeqLengths, ProxyAssumption DEF PressInv, QueueBounded
<1>3. CASE main' = [main EXCEPT !.todo = Tail(@)] \/ main' = Faulted(main)
  <2>1. main'.pc = main.pc /\ main'.waits = main.waits /\ DOMAIN main' = DOMAIN main
    <3>1. CASE main' = [main EXCEPT !.todo = Tail(@)]
      BY <1>1, <3>1
    <3>2. CASE main' = Faulted(main)
      BY <1>1, <3>2 DEF Faulted
    <3> QED BY <1>3, <3>1, <3>2, Zenon
  <2>2. WaitsInEmit' /\ ~main'.waits
    BY <1>1, <2>1, Zenon DEF WaitsInEmit
  <2>3. CASE UNCHANGED <<fwdq, press>>
    BY <1>1, <2>2, <2>3, Zenon DEF PressInv, QueueBounded, PressureHasCause
  <2>4. CASE ~(Len(fwdq) + 1 > ProxyQueueMax) /\ fwdq' = Append(fwdq, Head(main.todo))
    <3>1. IsSeq(fwdq') /\ Len(fwdq') = Len(fwdq) + 1
      BY <1>2, <2>4, SeqLengths, Zenon
    <3>2. Len(fwdq') <= ProxyQueueMax /\ Len(fwdq') # 0
      BY <1>2, <2>4, <3>1
    <3>3. fwdq' # << >>
      BY <3>2, EmptyIsSeq, Zenon
    <3> QED BY <1>1, <2>2, <3>1, <3>2, <3>3, Zenon DEF PressInv, QueueBounded, PressureHasCause
  <2>5. ~(main' = [main EXCEPT !.waits = TRUE])
    BY <1>1, <2>2
  <2> QED BY <2>3, <2>4, <2>5, EmitOutcomes, Zenon
<1>4. CASE main' = [main EXCEPT !.waits = TRUE] /\ Len(fwdq) + 1 > ProxyQueueMax /\ UNCHANGED <<fwdq, press>>
  <2>1. main'.pc = main.pc /\ main'.todo = main.todo /\ DOMAIN main' = DOMAIN main
    BY <1>1, <1>4
  <2>2. WaitsInEmit'
    BY <1>1, <2>1, Zenon DEF WaitsInEmit
  <2>3. Len(fwdq) = ProxyQueueMax
    BY <1>2, <1>4
  <2> QED BY <1>1, <1>4, <2>2, <2>3, Zenon DEF PressInv, QueueBounded, PressureHasCause
<1> QED BY <1>3, <1>4, EmitOutcomes, Zenon

\* The other steps of the main loop find nothing to emit, so nobody waits when one
\* of them empties the queue.
LEMMA LoopPress ==
    ASSUME PressInv,
           \/ \E n \in {0, 1} : MainPoll(n) \/ MainRing(n)
           \/ MainGate \/ MainFollow \/ MainSession \/ MainBarrier \/ MainLinked
           \/ \E ok \in BOOLEAN : MainLink(ok)
    PROVE  PressInv'
<1>1. UNCHANGED fwd /\ (Discard \/ UNCHANGED <<fwdq, press>>)
  BY Zenon DEF MainPoll, MainRing, MainGate, MainFollow, MainSession, MainBarrier, MainLinked, MainLink,
         CaptureDropPending, sending
<1>2. {"pc", "todo", "waits"} \subseteq DOMAIN main
  BY DEF PressInv, WaitsInEmit
<1>3. main.todo = << >>
  <2>1. \/ main.pc \in {"poll", "gated", "barrier", "link", "linked"} \/ main.todo = << >>
    BY Zenon DEF MainPoll, MainRing, MainGate, MainFollow, MainSession, MainBarrier, MainLinked, MainLink
  <2> QED BY <2>1 DEF PressInv, WaitsInEmit, Emitting
<1>4. ~main.waits
  BY <1>3, Zenon DEF PressInv, WaitsInEmit
<1>5. CASE \E n \in {0, 1} : MainPoll(n) \/ MainRing(n)
  <2>1. PICK n \in {0, 1} : MainPoll(n) \/ MainRing(n)
    BY <1>5
  <2> DEFINE m == IF n = 1 THEN Commit(main) ELSE main
             r == IF ms.resume THEN Resumed(m) ELSE m
  <2>2. m.waits = main.waits /\ DOMAIN m = DOMAIN main
    BY <1>2 DEF Commit
  <2>3. \/ main' = [m EXCEPT !.pc = IF main.retry THEN "follow" ELSE "session"]
        \/ main' = [r EXCEPT !.pc = "polled", !.hold = (state = "BUFFERING"), !.event = ms.resume]
    BY <2>1, Zenon DEF MainPoll, MainRing
  <2> HIDE DEF m
  <2>4. r.waits = main.waits /\ DOMAIN r = DOMAIN main
    BY <1>2, <2>2 DEF Resumed
  <2> HIDE DEF r
  <2>5. main'.pc \in Emitting /\ main'.waits = main.waits /\ DOMAIN main' = DOMAIN main
    <3>1. CASE main' = [m EXCEPT !.pc = IF main.retry THEN "follow" ELSE "session"]
      BY <1>2, <2>2, <3>1 DEF Emitting
    <3>2. CASE main' = [r EXCEPT !.pc = "polled", !.hold = (state = "BUFFERING"), !.event = ms.resume]
      BY <1>2, <2>4, <3>2 DEF Emitting
    <3> QED BY <2>3, <3>1, <3>2, Zenon
  <2>6. WaitsInEmit' /\ ~main'.waits
    BY <1>2, <1>4, <2>5, Zenon DEF WaitsInEmit
  <2> QED BY <1>1, <2>6, LoopKeeps, Zenon
<1>6. CASE ~\E n \in {0, 1} : MainPoll(n) \/ MainRing(n)
  <2>1. main'.todo = main.todo /\ main'.waits = main.waits /\ DOMAIN main' = DOMAIN main
    <3>1. CASE MainGate
      BY <1>2, <3>1, Zenon DEF MainGate, Purged
    <3>2. CASE MainFollow
      BY <1>2, <3>2, Zenon DEF MainFollow, Purged
    <3>3. CASE MainSession
      BY <1>2, <3>3 DEF MainSession
    <3>4. CASE MainBarrier
      <4>1. main' = [main EXCEPT !.pc = "link", !.seen = keys.full]
        BY <3>4, Zenon DEF MainBarrier
      <4> QED BY <1>2, <4>1
    <3>5. CASE MainLinked \/ \E ok \in BOOLEAN : MainLink(ok)
      BY <1>2, <3>5, Zenon DEF MainLinked, MainLink
    <3> QED BY <1>6, <3>1, <3>2, <3>3, <3>4, <3>5, Zenon
  <2>2. WaitsInEmit' /\ ~main'.waits
    BY <1>2, <1>3, <1>4, <2>1, Zenon DEF WaitsInEmit
  <2> QED BY <1>1, <2>2, LoopKeeps, Zenon
<1> QED BY <1>5, <1>6

\* proxy_fwd_thread_main: taking a batch wakes who waits, and leaves the flag up
\* only over a queue above the low mark.
LEMMA TakePress == ASSUME PressInv, Take PROVE PressInv'
<1> DEFINE n == IF Len(fwdq) < BatchMax THEN Len(fwdq) ELSE BatchMax
<1>1. /\ fwd' = [pc |-> "check", batch |-> SubSeq(fwdq, 1, n), sid |-> keys.sid, flush |-> flush]
      /\ fwdq' = SubSeq(fwdq, n + 1, Len(fwdq))
      /\ press' = IF n > 0 THEN Eased(Len(fwdq')) ELSE press
      /\ main' = IF n > 0 THEN Woken(main) ELSE main
  BY Zenon DEF Take
<1>2. Len(fwdq) \in Nat /\ Len(fwdq) <= ProxyQueueMax /\ BatchMax \in Nat \ {0}
      /\ ProxyQueueMax \in Nat \ {0} /\ LowMark \in Nat \ {0} /\ IsSeq(fwdq)
  BY SeqLengths, ProxyAssumption DEF PressInv, QueueBounded
<1>3. n \in 0..Len(fwdq) /\ n <= BatchMax /\ (n = 0 => Len(fwdq) = 0)
  BY <1>2
<1> HIDE DEF n
<1>4. IsSeq(SubSeq(fwdq, 1, n)) /\ Len(SubSeq(fwdq, 1, n)) = n
  BY <1>2, <1>3, SeqLengths, Zenon
<1>5. IsSeq(fwdq') /\ Len(fwdq') = Len(fwdq) - n
  BY <1>1, <1>2, <1>3, SeqLengths, Zenon
<1>6. fwd'.batch = SubSeq(fwdq, 1, n) /\ DOMAIN fwd' = DOMAIN NoBatch
  BY <1>1, Zenon DEF NoBatch
<1>7. QueueBounded'
  <2>1. Len(fwdq') <= ProxyQueueMax
    BY <1>2, <1>3, <1>5
  <2> QED BY <1>3, <1>4, <1>5, <1>6, <2>1 DEF QueueBounded
<1>8. CASE n > 0
  <2>1. main' = Woken(main) /\ press' = Eased(Len(fwdq'))
    BY <1>1, <1>8, Zenon
  <2>2. {"pc", "todo", "waits"} \subseteq DOMAIN main
    BY DEF PressInv, WaitsInEmit
  <2>3. main'.pc = main.pc /\ main'.todo = main.todo /\ ~main'.waits /\ DOMAIN main' = DOMAIN main
    BY <2>1, <2>2 DEF Woken
  <2>4. WaitsInEmit'
    BY <2>2, <2>3 DEF WaitsInEmit, PressInv
  <2>5. press' => fwdq' # << >>
    <3>1. press' => Len(fwdq') >= LowMark
      BY <2>1, Zenon DEF Eased
    <3> QED BY <1>2, <1>5, <3>1, EmptyIsSeq
  <2> QED BY <1>7, <2>3, <2>4, <2>5 DEF PressInv, PressureHasCause
<1>9. CASE n = 0
  <2>1. Len(fwdq) = 0 /\ Len(fwdq') = 0
    BY <1>2, <1>3, <1>5, <1>9
  <2>2. fwdq = << >> /\ fwdq' = << >>
    BY <1>2, <1>5, <2>1, SeqLengths
  <2>3. main' = main /\ press' = press
    BY <1>1, <1>9
  <2> QED BY <1>7, <2>1, <2>2, <2>3 DEF PressInv, PressureHasCause, WaitsInEmit
<1> QED BY <1>3, <1>8, <1>9

\* The thread's other steps leave queue and flag alone; a batch only shrinks.
LEMMA ThreadPress ==
    ASSUME PressInv,
           \/ Check \/ SendToCache \/ Spill
           \/ \E k \in 0..MaxWork, cut \in BOOLEAN : FlushCache(k, cut) \/ SendBatch(k, cut)
    PROVE  PressInv'
<1>1. UNCHANGED <<main, fwdq, press>>
  BY Zenon DEF Check, SendToCache, Spill, FlushCache, SendBatch
<1>2. DOMAIN fwd = DOMAIN NoBatch /\ IsSeq(fwd.batch) /\ Len(fwd.batch) <= BatchMax
  BY DEF PressInv, QueueBounded
<1>3. DOMAIN NoBatch = {"pc", "batch", "sid", "flush"} /\ NoBatch.batch = << >>
  BY DEF NoBatch
<1>4. WaitsInEmit' /\ (main'.waits => main.waits)
  BY <1>1 DEF PressInv, WaitsInEmit
<1>5. CASE fwd' = NoBatch
  BY <1>1, <1>2, <1>3, <1>4, <1>5, EmptyIsSeq, QuietKeeps, ProxyAssumption
<1>6. CASE \E p : fwd' = [fwd EXCEPT !.pc = p]
  <2>1. fwd'.batch = fwd.batch /\ DOMAIN fwd' = DOMAIN fwd
    BY <1>2, <1>3, <1>6
  <2> QED BY <1>1, <1>2, <1>4, <2>1, QuietKeeps
<1>7. CASE \E k \in 0..Len(fwd.batch) :
             fwd' = [fwd EXCEPT !.pc = "spill", !.batch = SubSeq(@, k + 1, Len(@))]
  <2>1. PICK k \in 0..Len(fwd.batch) :
             fwd' = [fwd EXCEPT !.pc = "spill", !.batch = SubSeq(@, k + 1, Len(@))]
    BY <1>7, Zenon
  <2>2. fwd'.batch = SubSeq(fwd.batch, k + 1, Len(fwd.batch)) /\ DOMAIN fwd' = DOMAIN fwd
    BY <1>2, <1>3, <2>1, SMTT(30)
  <2>3. Len(fwd.batch) \in Nat /\ BatchMax \in Nat
    BY <1>2, SeqLengths, ProxyAssumption, Zenon
  <2>4. IsSeq(fwd'.batch) /\ Len(fwd'.batch) = Len(fwd.batch) - k
    BY <1>2, <2>2, SeqLengths, Zenon
  <2>5. Len(fwd'.batch) <= BatchMax
    BY <1>2, <2>3, <2>4
  <2> QED BY <1>1, <1>4, <2>2, <2>4, <2>5, QuietKeeps
<1>8. Len(fwd.batch) \in Nat
  BY <1>2, SeqLengths, Zenon
<1>9. CASE Check \/ SendToCache \/ Spill
  BY <1>5, <1>6, <1>9 DEF Check, SendToCache, Spill
<1>10. CASE \E k \in 0..MaxWork, cut \in BOOLEAN : FlushCache(k, cut)
  BY <1>6, <1>10, Zenon DEF FlushCache
<1>11. CASE \E k \in 0..MaxWork, cut \in BOOLEAN : SendBatch(k, cut)
  <2>1. PICK k \in 0..MaxWork, cut \in BOOLEAN : SendBatch(k, cut)
    BY <1>11
  <2>2. /\ k <= Len(fwd.batch)
        /\ \/ fwd' = NoBatch
           \/ fwd' = [fwd EXCEPT !.pc = "spill", !.batch = SubSeq(@, k + 1, Len(@))]
    BY <2>1, Zenon DEF SendBatch
  <2>3. k \in 0..Len(fwd.batch)
    BY <1>8, <2>2, ProxyAssumption
  <2> QED BY <1>5, <1>7, <2>2, <2>3, Zenon
<1> QED BY <1>9, <1>10, <1>11

\* Every step of proxy, thread and master keeps the invariant.
LEMMA PressInvNext == PressInv /\ [PfwdNext]_pfwdVars => PressInv'
<1> SUFFICES ASSUME PressInv, [PfwdNext]_pfwdVars PROVE PressInv'
  OBVIOUS
<1>1. CASE UNCHANGED pfwdVars
  BY <1>1 DEF pfwdVars, PressInv, QueueBounded, WaitsInEmit, PressureHasCause
<1>2. CASE MasterSteps
  BY <1>2, MasterPress
<1>3. CASE MainSteps
  BY <1>3, EmitPress, LoopPress, Zenon DEF MainSteps
<1>4. CASE FwdSteps
  BY <1>4, TakePress, ThreadPress, Zenon DEF FwdSteps
<1> QED BY <1>1, <1>2, <1>3, <1>4 DEF PfwdNext

\* For every size of queue, batch and marks the main loop waits only while the queue
\* is full, and the flag that stops the master stands only over a queue that is not
\* empty (proxy_fwd_enqueue, fwdq_clear_backpressure_locked,
\* proxy_fwd_drain_to_cache_or_discard).
THEOREM PressureHasCauseHolds == PfwdSpec => []PressureHasCause
<1>1. PressInv => PressureHasCause
  BY DEF PressInv
<1> QED BY PressInvInit, PressInvNext, <1>1, PTL DEF PfwdSpec
=============================================================================
