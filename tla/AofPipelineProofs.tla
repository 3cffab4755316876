------------------------- MODULE AofPipelineProofs -------------------------
(***************************************************************************)
(* Proofs that the slot pool of AofPipeline is sound for every number of   *)
(* slots, every MAX_OUTSTANDING and every interleaving of the main thread, *)
(* the AOF thread and the kernel, with I/O errors and rewrites included.   *)
(***************************************************************************)
EXTENDS AofPipeline, SequenceTheorems, TLAPS

-----------------------------------------------------------------------------
(* Sequences used as lists of distinct slots. *)

(* slot_push_ready: appending a new element keeps the list free of         *)
(* duplicates and adds exactly that element.                               *)
LEMMA AppendFresh ==
  ASSUME NEW S, NEW q \in Seq(S), NEW e \in S, IsInjective(q), e \notin Range(q)
  PROVE  /\ Append(q, e) \in Seq(S)
         /\ Len(Append(q, e)) = Len(q) + 1
         /\ IsInjective(Append(q, e))
         /\ Range(Append(q, e)) = Range(q) \cup {e}
<1> DEFINE r == Append(q, e)
<1>1. /\ r \in Seq(S) /\ Len(r) = Len(q) + 1
      /\ \A i \in 1..Len(q) : r[i] = q[i]
      /\ r[Len(q) + 1] = e
  BY AppendProperties
<1>2. DOMAIN q = 1..Len(q) /\ DOMAIN r = 1..(Len(q) + 1) /\ Len(q) \in Nat
  BY <1>1, LenProperties
<1>3. Range(q) = {q[i] : i \in 1..Len(q)} /\ Range(r) = {r[i] : i \in 1..(Len(q) + 1)}
  BY <1>2 DEF Range
<1>4. IsInjective(r)
  BY <1>1, <1>2, <1>3, SMT DEF IsInjective
<1>5. Range(r) = Range(q) \cup {e}
  BY <1>1, <1>2, <1>3, SMT
<1> QED BY <1>1, <1>4, <1>5

(* slot_pop_ready: the head of a list without duplicates leaves it. *)
LEMMA TailDistinct ==
  ASSUME NEW S, NEW q \in Seq(S), q # <<>>, IsInjective(q)
  PROVE  /\ Head(q) \in S /\ Head(q) \in Range(q)
         /\ Tail(q) \in Seq(S)
         /\ Len(Tail(q)) = Len(q) - 1
         /\ IsInjective(Tail(q))
         /\ Range(Tail(q)) = Range(q) \ {Head(q)}
<1> DEFINE r == Tail(q)
<1>1. /\ Head(q) \in S /\ r \in Seq(S) /\ Len(r) = Len(q) - 1
      /\ \A i \in 1..Len(r) : r[i] = q[i + 1]
  BY HeadTailProperties
<1>2. /\ DOMAIN q = 1..Len(q) /\ DOMAIN r = 1..(Len(q) - 1) /\ Len(q) \in Nat /\ Len(q) > 0
      /\ Head(q) = q[1]
  BY <1>1, LenProperties, EmptySeq
<1>3. Range(q) = {q[i] : i \in 1..Len(q)} /\ Range(r) = {r[i] : i \in 1..(Len(q) - 1)}
  BY <1>2, Zenon DEF Range
<1>4. IsInjective(r)
  BY <1>1, <1>2, SMT DEF IsInjective
<1>5. Range(r) = Range(q) \ {Head(q)}
  <2>1. ASSUME NEW x \in Range(r) PROVE x \in Range(q) /\ x # Head(q)
    BY <1>1, <1>2, <1>3, <2>1, SMT DEF IsInjective
  <2>2. ASSUME NEW x \in Range(q), x # Head(q) PROVE x \in Range(r)
    <3>1. PICK i \in 1..Len(q) : x = q[i]
      BY <1>3
    <3>2. i - 1 \in 1..(Len(q) - 1) /\ r[i - 1] = x
      BY <1>1, <1>2, <2>2, <3>1, SMT
    <3> QED BY <1>3, <3>2, Zenon
  <2> QED BY <2>1, <2>2
<1>6. Head(q) \in Range(q)
  BY <1>2, <1>3
<1> QED BY <1>1, <1>4, <1>5, <1>6

(* slot_push_completed: a slot of the ring leaves it, wherever it is. *)
LEMMA RemoveDistinct ==
  ASSUME NEW S, NEW q \in Seq(S), IsInjective(q), NEW e \in Range(q)
  PROVE  LET r == SeqWithout(q, e)
         IN  /\ r \in Seq(S)
             /\ Len(r) = Len(q) - 1
             /\ IsInjective(r)
             /\ Range(r) = Range(q) \ {e}
<1> DEFINE k == CHOOSE i \in DOMAIN q : q[i] = e
           a == SubSeq(q, 1, k - 1)
           b == SubSeq(q, k + 1, Len(q))
           r == a \o b
<1>1. DOMAIN q = 1..Len(q) /\ Len(q) \in Nat
  BY LenProperties
<1>2. k \in 1..Len(q) /\ q[k] = e
  BY <1>1 DEF Range
<1> HIDE DEF k
<1>e. \A i \in 1..Len(q) : q[i] \in S
  BY ElementOfSeq
<1>3. /\ a \in Seq(S) /\ Len(a) = k - 1 /\ \A i \in 1..(k - 1) : a[i] = q[i]
  <2>1. /\ a \in Seq(S) /\ Len(a) = IF 1 <= k - 1 THEN (k - 1) - 1 + 1 ELSE 0
        /\ \A i \in 1..((k - 1) - 1 + 1) : a[i] = q[1 + i - 1]
    <3>1. 1 \in Int /\ k - 1 \in Int /\ \A i \in 1..(k - 1) : q[i] \in S
      BY <1>1, <1>2, <1>e, SMT
    <3> QED BY <3>1, SubSeqProperties
  <2> QED BY <1>1, <1>2, <2>1, SMT
<1>4. /\ b \in Seq(S) /\ Len(b) = Len(q) - k /\ \A i \in 1..(Len(q) - k) : b[i] = q[k + i]
  <2>1. /\ b \in Seq(S) /\ Len(b) = IF k + 1 <= Len(q) THEN Len(q) - (k + 1) + 1 ELSE 0
        /\ \A i \in 1..(Len(q) - (k + 1) + 1) : b[i] = q[(k + 1) + i - 1]
    <3>1. k + 1 \in Int /\ Len(q) \in Int /\ \A i \in (k + 1)..Len(q) : q[i] \in S
      BY <1>1, <1>2, <1>e, SMT
    <3> QED BY <3>1, SubSeqProperties
  <2> QED BY <1>1, <1>2, <2>1, SMTT(30)
<1> HIDE DEF a, b
<1>5. /\ r \in Seq(S) /\ Len(r) = Len(q) - 1
      /\ \A i \in 1..(Len(q) - 1) : r[i] = IF i < k THEN q[i] ELSE q[i + 1]
  <2>1. /\ r \in Seq(S) /\ Len(r) = Len(a) + Len(b)
        /\ \A i \in 1..(Len(a) + Len(b)) : r[i] = IF i <= Len(a) THEN a[i] ELSE b[i - Len(a)]
    BY <1>3, <1>4, ConcatProperties, Zenon
  <2> HIDE DEF r
  <2>2. Len(r) = Len(q) - 1
    BY <1>1, <1>2, <1>3, <1>4, <2>1
  <2>3. ASSUME NEW i \in 1..(Len(q) - 1) PROVE r[i] = IF i < k THEN q[i] ELSE q[i + 1]
    <3>1. r[i] = IF i <= k - 1 THEN a[i] ELSE b[i - (k - 1)]
      BY <1>1, <1>2, <1>3, <1>4, <2>1, <2>3, SMT
    <3>2. CASE i < k
      BY <1>1, <1>2, <1>3, <3>1, <3>2, SMT
    <3>3. CASE i >= k
      <4>1. i - (k - 1) \in 1..(Len(q) - k)
        BY <1>1, <1>2, <3>3, SMT
      <4>2. b[i - (k - 1)] = q[k + (i - (k - 1))]
        BY <1>4, <4>1
      <4>3. k + (i - (k - 1)) = i + 1
        BY <1>1, <1>2, SMT
      <4> QED BY <1>1, <1>2, <3>1, <3>3, <4>2, <4>3, SMT
    <3> QED BY <1>1, <1>2, <3>2, <3>3, SMT
  <2> QED BY <2>1, <2>2, <2>3
<1> HIDE DEF r
<1>6. DOMAIN r = 1..(Len(q) - 1)
  BY <1>5, LenProperties
<1> DEFINE m(i) == IF i < k THEN i ELSE i + 1
<1>m. \A i \in 1..(Len(q) - 1) : m(i) \in 1..Len(q) /\ m(i) # k /\ r[i] = q[m(i)]
  BY <1>1, <1>2, <1>5, SMT
<1>n. \A i, j \in 1..(Len(q) - 1) : m(i) = m(j) => i = j
  BY <1>1, <1>2, SMT
<1> HIDE DEF m
<1>7. IsInjective(r)
  <2>1. \A i, j \in 1..(Len(q) - 1) : r[i] = r[j] => m(i) = m(j)
    BY <1>1, <1>m DEF IsInjective
  <2> QED BY <1>6, <1>n, <2>1 DEF IsInjective
<1>8. Range(q) = {q[i] : i \in 1..Len(q)} /\ Range(r) = {r[i] : i \in 1..(Len(q) - 1)}
  BY <1>1, <1>6 DEF Range
<1>9. Range(r) = Range(q) \ {e}
  <2>1. ASSUME NEW x \in Range(r) PROVE x \in Range(q) /\ x # e
    <3>1. PICK i \in 1..(Len(q) - 1) : x = r[i]
      BY <1>8
    <3>2. x = q[m(i)] /\ m(i) \in 1..Len(q) /\ m(i) # k
      BY <1>m, <3>1
    <3> QED BY <1>1, <1>2, <1>8, <3>2 DEF IsInjective
  <2>2. ASSUME NEW x \in Range(q), x # e PROVE x \in Range(r)
    <3>1. PICK i \in 1..Len(q) : x = q[i]
      BY <1>8
    <3>2. \E j \in 1..(Len(q) - 1) : r[j] = x
      <4>1. CASE i < k
        BY <1>1, <1>2, <1>5, <3>1, <4>1, Z3
      <4>2. CASE i > k
        <5>1. i - 1 \in 1..(Len(q) - 1) /\ r[i - 1] = x
          BY <1>1, <1>2, <1>5, <3>1, <4>2, Z3
        <5> QED BY <5>1
      <4> QED BY <1>2, <2>2, <3>1, <4>1, <4>2, Z3
    <3> QED BY <1>8, <3>2
  <2> QED BY <2>1, <2>2
<1> QED BY <1>5, <1>7, <1>9, Zenon DEF SeqWithout, r, a, b, k

-----------------------------------------------------------------------------
(* The inductive invariant. *)

(* A slot in flight has run as many requests as completions were posted,   *)
(* reaped or not, and less than two were reaped; outside the ring it has   *)
(* neither requests nor completions.                                       *)
RingInv ==
  \A s \in Slots :
    /\ s \in Range(inflight) => seen[s] < 2 /\ seen[s] + Len(cq[s]) = ran[s]
    /\ s \notin Range(inflight) => ran[s] = 0 /\ cq[s] = <<>>
    /\ s \notin Range(inflight) \cup completed => seen[s] = 0
    /\ ok[s] <= seen[s]

AtFence    == mpc = "fence" \/ (mpc = "wake" /\ ret = "fence")
AtRegFence == mpc = "regfence" \/ (mpc = "wake" /\ ret = "regfence")

(* What the main thread relies on while it waits: it holds no commands     *)
(* back, the drain fence opens only over an empty pipeline, and the        *)
(* re-registration fence only once the ring writes to the current inode.   *)
FenceInv ==
  /\ mpc \in {"flush", "handoff"} => cur # NoSlot
  /\ mpc = "wake" => ret \in {"reap", "fence", "regfence", "join"}
  /\ mpc = "drain" => CurLen = 0
  /\ AtFence => CurLen = 0 /\ (drainDone => outstanding = 0)
  /\ reg # gen => AtRegFence /\ ~regDone

(* The invariant the proofs carry: the fences alone are not inductive,     *)
(* because what they promise rests on who owns each slot and on how many of *)
(* its completions are still to come.                                      *)
IInv == TypeOK /\ SlotOwnership /\ OutstandingExact /\ RingInv /\ FenceInv

USE SlotsAssumption, MaxOutstandingAssumption, BoundsAssumption

(* persist_init establishes the invariant. *)
LEMMA InitIInv == Init => IInv
<1> SUFFICES ASSUME Init PROVE IInv OBVIOUS
<1>1. <<>> \in Seq(Slots) /\ <<>> \in Seq(Nat) /\ <<>> \in Seq(Int) /\ Len(<<>>) = 0
  BY EmptySeq
<1>2. Range(<<>>) = {} /\ IsInjective(<<>>)
  BY SMT DEF Range, IsInjective
<1>3. TypeOK
  <2>1. PoolType /\ RingType
    BY <1>1, SMT DEF Init, PoolType, RingType
  <2>2. CountType /\ FileType
    BY <1>1, SMT DEF Init, CountType, FileType
  <2>3. ThreadType
    BY SMT DEF Init, ThreadType, MainPc, AofPc, Work
  <2>4. FlagType
    BY Zenon DEF Init, FlagType
  <2> QED BY <2>1, <2>2, <2>3, <2>4 DEF TypeOK
<1>4. SlotOwnership
  BY <1>2 DEF Init, SlotOwnership
<1>5. OutstandingExact
  BY <1>1, SMT DEF Init, OutstandingExact
<1>6. RingInv
  BY <1>1, <1>2, SMT DEF Init, RingInv
<1>7. FenceInv
  BY DEF Init, FenceInv, AtFence, AtRegFence
<1> QED BY <1>3, <1>4, <1>5, <1>6, <1>7 DEF IInv

(* The steps that touch neither the slot pool nor the ring. *)
LEMMA QuietStep ==
  ASSUME IInv, UNCHANGED <<poolVars, ringVars>>
  PROVE  PoolType' /\ RingType' /\ SlotOwnership' /\ OutstandingExact' /\ RingInv'
<1>0. PoolType' /\ RingType'
  BY DEF IInv, TypeOK, PoolType, RingType, poolVars, ringVars
<1>1. SlotOwnership'
  BY DEF IInv, SlotOwnership, poolVars, ringVars
<1>2. OutstandingExact'
  BY DEF IInv, OutstandingExact, poolVars, ringVars
<1>3. RingInv'
  BY DEF IInv, RingInv, poolVars, ringVars
<1> QED BY <1>0, <1>1, <1>2, <1>3

(* The control steps of the main thread. *)
LEMMA MainControl ==
  ASSUME IInv,
         \/ FlushPending \/ Wake \/ DrainPending \/ DrainRequest \/ DrainReturn
         \/ ReregisterReturn \/ StopRequest \/ Join
         \/ \E size \in 0..SnapMax : FinalizeRewrite(size)
  PROVE  IInv'
<1>1. UNCHANGED <<poolVars, ringVars>> /\ UNCHANGED <<tpc, work>>
  BY DEF FlushPending, Wake, DrainPending, DrainRequest, DrainReturn, ReregisterReturn,
         StopRequest, Join, FinalizeRewrite
<1>2. PoolType' /\ RingType' /\ SlotOwnership' /\ OutstandingExact' /\ RingInv'
  BY <1>1, QuietStep
<1>3. CurLen' = CurLen
  BY <1>1 DEF poolVars, CurLen
<1>4. CASE \E size \in 0..SnapMax : FinalizeRewrite(size)
  <2>1. PICK size \in 0..SnapMax : FinalizeRewrite(size)
    BY <1>4
  <2>2. file' \in Seq(Nat)
    <3>1. size \in Nat
      BY SMT
    <3> QED BY <2>1, <3>1, IsASeq, SMT DEF FinalizeRewrite
  <2>3. TypeOK'
    <3>1. CountType' /\ FileType'
      BY <2>1, <2>2, SMT DEF IInv, TypeOK, CountType, FileType, FinalizeRewrite
    <3>2. ThreadType'
      BY <1>1, <2>1, SMT DEF IInv, TypeOK, ThreadType, FinalizeRewrite,
         AofWorkRequest, MainPc, AofPc, Work
    <3>3. FlagType'
      BY <2>1, Zenon DEF IInv, TypeOK, FlagType, FinalizeRewrite
    <3> QED BY <1>2, <3>1, <3>2, <3>3 DEF TypeOK
  <2>4. FenceInv'
    BY <1>1, <1>3, <2>1 DEF IInv, TypeOK, CountType, FileType, ThreadType, PoolType, FenceInv, AtFence, AtRegFence, FinalizeRewrite,
       AofWorkRequest, poolVars, ringVars, MainPc
  <2> QED BY <1>2, <2>3, <2>4 DEF IInv
<1>5. CASE FlushPending \/ Wake \/ DrainPending \/ DrainRequest \/ DrainReturn
           \/ ReregisterReturn \/ StopRequest \/ Join
  <2>0. UNCHANGED <<countVars, fileVars>>
    BY <1>5, Zenon DEF FlushPending, Wake, DrainPending, DrainRequest, DrainReturn, ReregisterReturn,
       StopRequest, Join
  <2>1. TypeOK'
    <3>1. CountType' /\ FileType'
      BY <2>0 DEF IInv, TypeOK, CountType, FileType, countVars, fileVars
    <3>2. ThreadType'
      <4>1. flags' \in {flags, flags \cup {"DRAIN"}, flags \cup {"STOP"}}
        BY <1>5, Zenon DEF FlushPending, Wake, DrainPending, DrainRequest, DrainReturn,
           ReregisterReturn, StopRequest, Join, AofWorkRequest
      <4>2. /\ mpc' \in {"run", "flush", "handoff", "drain", "wake", "stop", "closed", ret}
            /\ ret' \in {ret, "fence", "join"}
        BY <1>5, Zenon DEF FlushPending, Wake, DrainPending, DrainRequest, DrainReturn,
           ReregisterReturn, StopRequest, Join, AofWorkRequest
      <4> QED BY <1>1, <4>1, <4>2, SMT DEF IInv, TypeOK, ThreadType, MainPc, Work
    <3>3. FlagType'
      <4>1. wake' \in {wake, TRUE} /\ drainDone' \in {drainDone, FALSE}
        BY <1>5, Zenon DEF FlushPending, Wake, DrainPending, DrainRequest, DrainReturn,
           ReregisterReturn, StopRequest, Join
      <4>2. UNCHANGED <<fatal, regDone, clean>>
        BY <1>5, Zenon DEF FlushPending, Wake, DrainPending, DrainRequest, DrainReturn,
           ReregisterReturn, StopRequest, Join, countVars
      <4> QED BY <4>1, <4>2, Zenon DEF IInv, TypeOK, FlagType
    <3> QED BY <1>2, <3>1, <3>2, <3>3 DEF TypeOK
  <2>2. FenceInv'
    <3>1. CASE FlushPending
      BY <1>1, <1>3, <2>0, <3>1, SMTT(30) DEF IInv, FenceInv, AtFence, AtRegFence, FlushPending,
         poolVars, fileVars, CurLen
    <3>4. CASE DrainPending
      <4>1. reg' = gen'
        BY <2>0, <3>4, Zenon DEF IInv, FenceInv, AtRegFence, DrainPending, fileVars
      <4>2. CurLen \in Nat /\ (CurLen > 0 => cur # NoSlot)
        BY LenProperties, SMT DEF IInv, TypeOK, PoolType, CurLen
      <4>3. /\ mpc' \in {"handoff", "drain"} /\ (mpc' = "handoff" => cur' # NoSlot)
            /\ mpc' = "drain" => CurLen' = 0
        <5>1. UNCHANGED cur /\ mpc' = IF CurLen > 0 THEN "handoff" ELSE "drain"
          BY <1>1, <3>4, Zenon DEF DrainPending, poolVars
        <5> HIDE DEF CurLen
        <5> QED BY <1>3, <4>2, <5>1
      <4> QED BY <4>1, <4>3, Zenon DEF FenceInv, AtFence, AtRegFence
    <3>5. CASE DrainReturn \/ ReregisterReturn \/ Join
      <4>1. reg' = gen'
        BY <2>0, <3>5, Zenon DEF IInv, FenceInv, AtRegFence, DrainReturn, ReregisterReturn, Join,
           fileVars
      <4>2. mpc' \in {"run", "stop", "closed"}
        BY <3>5, Zenon DEF DrainReturn, ReregisterReturn, Join
      <4> QED BY <4>1, <4>2, Zenon DEF FenceInv, AtFence, AtRegFence
    <3>2. CASE Wake
      BY <1>1, <1>3, <3>2, SMTT(30) DEF IInv, TypeOK, CountType, FileType, ThreadType, PoolType, FenceInv, AtFence, AtRegFence, Wake,
         poolVars, fileVars, MainPc
    <3>3. CASE DrainRequest \/ StopRequest
      BY <1>1, <1>3, <3>3, Zenon DEF IInv, TypeOK, CountType, FileType, ThreadType, PoolType, FenceInv, AtFence, AtRegFence, DrainRequest,
         StopRequest, AofWorkRequest, poolVars, fileVars, MainPc
    <3> QED BY <1>5, <3>1, <3>2, <3>3, <3>4, <3>5
  <2> QED BY <1>2, <2>1, <2>2 DEF IInv
<1> QED BY <1>4, <1>5

(* The control steps of the AOF thread. *)
LEMMA AofControl ==
  ASSUME IInv, UringInit \/ ReadWake \/ FetchFlags \/ SubmitDone \/ DrainDone
  PROVE  IInv'
<1>1. UNCHANGED <<poolVars, ringVars, submitted, offset, ncmd, file, synced, gen, mpc, ret, clean>>
  BY DEF UringInit, ReadWake, FetchFlags, SubmitDone, DrainDone, countVars, fileVars
<1>2. PoolType' /\ RingType' /\ SlotOwnership' /\ OutstandingExact' /\ RingInv'
  BY <1>1, QuietStep
<1>3. CurLen' = CurLen
  BY <1>1 DEF poolVars, CurLen
<1>4. \A w : NextWork(w) \in AofPc
  BY DEF NextWork, AofPc
<1>5. TypeOK'
  <2>1. CountType' /\ FileType'
    BY <1>1, SMTT(30) DEF IInv, TypeOK, CountType, FileType, UringInit, ReadWake, FetchFlags,
       SubmitDone, DrainDone, fileVars
  <2>2. FlagType'
    <3>1. /\ wake' \in {wake, FALSE} /\ drainDone' \in {drainDone, TRUE}
          /\ regDone' \in {regDone, TRUE} /\ fatal' \in {fatal, TRUE}
      BY Zenon DEF UringInit, ReadWake, FetchFlags, SubmitDone, DrainDone, countVars
    <3> QED BY <1>1, <3>1, Zenon DEF IInv, TypeOK, FlagType
  <2>3. ThreadType'
    BY <1>1, <1>4, SMT DEF IInv, TypeOK, ThreadType, UringInit, ReadWake, FetchFlags,
       SubmitDone, DrainDone, AofPc, Work
  <2> QED BY <1>2, <2>1, <2>2, <2>3 DEF TypeOK
<1>6. FenceInv'
  <2>1. CASE DrainDone
    BY <1>1, <1>3, <2>1 DEF IInv, TypeOK, CountType, FileType, ThreadType, PoolType, FenceInv, AtFence, AtRegFence, DrainDone, poolVars
  <2>2. CASE UringInit \/ ReadWake \/ FetchFlags \/ SubmitDone
    <3>1. UNCHANGED <<reg, regDone, drainDone>>
      BY <2>2 DEF UringInit, ReadWake, FetchFlags, SubmitDone, fileVars
    <3> QED BY <1>1, <1>3, <3>1 DEF IInv, FenceInv, AtFence, AtRegFence, poolVars
  <2> QED BY <2>1, <2>2
<1> QED BY <1>2, <1>5, <1>6 DEF IInv

(* The steps that take or keep a slot as the current one. *)
LEMMA TakeSlot ==
  ASSUME IInv, NEW s \in Slots,
         IF cur = NoSlot THEN s \in free ELSE s = cur,
         free' = free \ {s}, cur' = s,
         UNCHANGED <<ready, inflight, completed, outstanding, ran, cq, seen, ok>>
  PROVE  SlotOwnership' /\ OutstandingExact' /\ RingInv'
<1>1. SlotOwnership'
  <2>1. Range(ready') = Range(ready) /\ Range(inflight') = Range(inflight)
        /\ IsInjective(ready') /\ IsInjective(inflight')
    BY DEF IInv, SlotOwnership
  <2>2. NoSlot \notin Slots
    OBVIOUS
  <2> QED BY <2>1, <2>2, Zenon DEF IInv, TypeOK, PoolType, SlotOwnership
<1>2. OutstandingExact'
  BY DEF IInv, OutstandingExact
<1>3. RingInv'
  BY DEF IInv, RingInv
<1> QED BY <1>1, <1>2, <1>3

(* persist_append_prepare: the command goes into the current slot, or into *)
(* one just taken from the free list.                                      *)
LEMMA AppendStep ==
  ASSUME IInv, NEW s \in Slots, Append1(s) \/ AppendTooBig(s)
  PROVE  IInv'
<1>1. /\ IF cur = NoSlot THEN s \in free ELSE s = cur
      /\ free' = free \ {s} /\ cur' = s
      /\ UNCHANGED <<ready, inflight, completed, outstanding, ran, cq, seen, ok>>
  BY DEF Append1, AppendTooBig, ringVars
<1>2. SlotOwnership' /\ OutstandingExact' /\ RingInv'
  BY <1>1, TakeSlot
<1>3. buf' \in [Slots -> Seq(Nat)] /\ submitted' \in Nat /\ ncmd' \in Nat
  <2>1. CASE Append1(s)
    <3>1. ncmd + 1 \in Nat /\ buf[s] \in Seq(Nat)
      BY SMT DEF IInv, TypeOK, PoolType, CountType
    <3>2. Append(buf[s], ncmd + 1) \in Seq(Nat)
      BY <3>1, AppendProperties
    <3> QED BY <2>1, <3>1, <3>2 DEF Append1, IInv, TypeOK, PoolType, CountType
  <2>2. CASE AppendTooBig(s)
    BY <2>2 DEF AppendTooBig, countVars, IInv, TypeOK, PoolType, CountType
  <2> QED BY <2>1, <2>2
<1>4. mpc = "run" /\ mpc' \in {"run", "flush"} /\ UNCHANGED <<offset, fileVars, ret, tpc, flags, work>>
  BY DEF Append1, AppendTooBig, countVars, threadVars
<1>5. UNCHANGED <<wake, drainDone, regDone, fatal, clean>>
  BY DEF Append1, AppendTooBig, countVars, threadVars
<1>6. TypeOK'
  <2>1. PoolType'
    BY <1>1, <1>3 DEF IInv, TypeOK, PoolType
  <2>2. RingType'
    BY <1>1 DEF IInv, TypeOK, RingType
  <2>3. CountType' /\ FileType'
    BY <1>3, <1>4 DEF IInv, TypeOK, CountType, FileType, fileVars
  <2>4. ThreadType'
    BY <1>4 DEF IInv, TypeOK, ThreadType, MainPc
  <2>5. FlagType'
    BY <1>5 DEF IInv, TypeOK, FlagType
  <2> QED BY <2>1, <2>2, <2>3, <2>4, <2>5 DEF TypeOK
<1>7. FenceInv'
  BY <1>1, <1>4, <1>5, SMT DEF IInv, FenceInv, AtFence, AtRegFence, fileVars
<1> QED BY <1>2, <1>6, <1>7 DEF IInv

(* persist_reap_completions: the completed slots become free. *)
LEMMA MainReapStep ==
  ASSUME IInv, MainReap
  PROVE  IInv'
<1>1. /\ UNCHANGED <<cur, ready, inflight, outstanding, ran, cq, countVars, fileVars, ret, tpc,
                     flags, work, wake, drainDone, regDone, clean>>
      /\ DrainCompleted
      /\ mpc \in {"run", "flush", "handoff", "reap"}
      /\ mpc' = IF mpc = "reap" THEN "run" ELSE mpc
  BY DEF MainReap
<1>2. TypeOK'
  <2>1. PoolType'
    <3>1. <<>> \in Seq(Nat)
      BY EmptySeq
    <3> QED BY <1>1, <3>1 DEF IInv, TypeOK, PoolType, DrainCompleted
  <2>2. RingType'
    BY <1>1, SMT DEF IInv, TypeOK, RingType, DrainCompleted
  <2>3. CountType' /\ FileType'
    BY <1>1 DEF IInv, TypeOK, CountType, FileType, countVars, fileVars
  <2>4. ThreadType'
    BY <1>1 DEF IInv, TypeOK, ThreadType, MainPc
  <2>5. FlagType'
    BY <1>1 DEF IInv, TypeOK, FlagType, countVars
  <2> QED BY <2>1, <2>2, <2>3, <2>4, <2>5 DEF TypeOK
<1>3. SlotOwnership'
  BY <1>1, Zenon DEF IInv, SlotOwnership, DrainCompleted
<1>4. OutstandingExact'
  BY <1>1 DEF IInv, OutstandingExact
<1>5. RingInv'
  <2>1. Range(inflight') = Range(inflight)
    BY <1>1
  <2> SUFFICES ASSUME NEW s \in Slots
               PROVE  /\ s \in Range(inflight) => seen'[s] < 2 /\ seen'[s] + Len(cq[s]) = ran[s]
                      /\ s \notin Range(inflight) => ran[s] = 0 /\ cq[s] = <<>>
                      /\ s \notin Range(inflight) => seen'[s] = 0
                      /\ ok'[s] <= seen'[s]
    BY <1>1, <2>1 DEF RingInv, DrainCompleted
  <2>2. /\ seen'[s] = IF s \in completed THEN 0 ELSE seen[s]
        /\ ok'[s] = IF s \in completed THEN 0 ELSE ok[s]
    BY <1>1, Zenon DEF DrainCompleted
  <2>3. s \in Range(inflight) => s \notin completed
    BY DEF IInv, SlotOwnership
  <2>4. /\ s \in Range(inflight) => seen[s] < 2 /\ seen[s] + Len(cq[s]) = ran[s]
        /\ s \notin Range(inflight) => ran[s] = 0 /\ cq[s] = <<>>
        /\ s \notin Range(inflight) \cup completed => seen[s] = 0
        /\ ok[s] <= seen[s]
    BY Zenon DEF IInv, RingInv
  <2> QED BY <2>2, <2>3, <2>4
<1>6. FenceInv'
  BY <1>1, SMT DEF IInv, FenceInv, AtFence, AtRegFence, fileVars
<1> QED BY <1>2, <1>3, <1>4, <1>5, <1>6 DEF IInv

(* handoff_current_slot: the current slot becomes ready, if there is room   *)
(* below MAX_OUTSTANDING.                                                  *)
LEMMA HandoffStep ==
  ASSUME IInv, HandoffCurrentSlot
  PROVE  IInv'
<1>1. /\ UNCHANGED <<free, inflight, completed, buf, ran, cq, seen, ok, submitted, offset, ncmd,
                     fileVars, tpc, flags, work>>
      /\ UNCHANGED <<fatal, wake, drainDone, regDone, clean>>
      /\ mpc \in {"flush", "handoff"} /\ outstanding < MaxOutstanding
      /\ ready' = Append(ready, cur) /\ outstanding' = outstanding + 1 /\ cur' = NoSlot
      /\ mpc' = IF mpc = "flush" THEN "wake" ELSE "drain"
      /\ ret' = IF mpc = "flush" THEN "reap" ELSE ret
  BY DEF HandoffRoom, HandoffCurrentSlot, ringVars, countVars
<1>2. cur \in Slots /\ cur \notin Range(ready) /\ IsInjective(ready) /\ ready \in Seq(Slots)
  BY <1>1 DEF IInv, TypeOK, PoolType, FenceInv, SlotOwnership
<1>3. /\ ready' \in Seq(Slots) /\ Len(ready') = Len(ready) + 1
      /\ IsInjective(ready') /\ Range(ready') = Range(ready) \cup {cur}
  BY <1>1, <1>2, AppendFresh
<1>4. TypeOK'
  <2>1. PoolType'
    BY <1>1, <1>3, SMT DEF IInv, TypeOK, PoolType
  <2>2. RingType' /\ CountType' /\ FileType'
    BY <1>1 DEF IInv, TypeOK, RingType, CountType, FileType, fileVars
  <2>4. ThreadType'
    BY <1>1 DEF IInv, TypeOK, ThreadType, MainPc
  <2>5. FlagType'
    BY <1>1 DEF IInv, TypeOK, FlagType
  <2> QED BY <2>1, <2>2, <2>4, <2>5 DEF TypeOK
<1>5. SlotOwnership'
  <2>1. Range(inflight') = Range(inflight) /\ IsInjective(inflight')
    BY <1>1 DEF IInv, SlotOwnership
  <2>2. NoSlot \notin free \cup completed \cup Range(ready') \cup Range(inflight)
    <3>1. free \subseteq Slots /\ completed \subseteq Slots /\ Range(ready') \subseteq Slots
          /\ Range(inflight) \subseteq Slots
      BY <1>3, RangeOfSeq DEF IInv, TypeOK, PoolType
    <3> QED BY <3>1
  <2>3. /\ cur \notin free \cup completed \cup Range(ready) \cup Range(inflight)
        /\ Slots \subseteq free \cup {cur} \cup Range(ready) \cup Range(inflight) \cup completed
        /\ free \cap (completed \cup Range(ready) \cup Range(inflight)) = {}
        /\ completed \cap (Range(ready) \cup Range(inflight)) = {}
        /\ Range(ready) \cap Range(inflight) = {}
    BY DEF IInv, SlotOwnership
  <2>4. /\ Slots \subseteq free \cup {NoSlot} \cup Range(ready') \cup Range(inflight) \cup completed
        /\ free \cap (completed \cup Range(ready') \cup Range(inflight)) = {}
        /\ completed \cap (Range(ready') \cup Range(inflight)) = {}
        /\ Range(ready') \cap Range(inflight) = {}
    BY <1>3, <2>3
  <2> QED BY <1>1, <1>3, <2>1, <2>2, <2>4, Zenon DEF SlotOwnership
<1>6. OutstandingExact'
  <2>1. Len(ready) \in Nat /\ Len(inflight) \in Nat
    BY LenProperties DEF IInv, TypeOK, PoolType
  <2> QED BY <1>1, <1>3, <2>1 DEF IInv, TypeOK, PoolType, OutstandingExact
<1>7. RingInv'
  BY <1>1, Zenon DEF IInv, RingInv
<1>8. FenceInv'
  BY <1>1, Zenon DEF IInv, FenceInv, AtFence, AtRegFence, fileVars, CurLen
<1> QED BY <1>4, <1>5, <1>6, <1>7, <1>8 DEF IInv

(* submit_one_slot: the first ready slot goes into the ring. *)
LEMMA SubmitStep ==
  ASSUME IInv, SubmitOneSlot
  PROVE  IInv'
<1> DEFINE s == Head(ready)
<1>1. /\ UNCHANGED <<free, cur, completed, outstanding, buf, ringVars, countVars, fileVars,
                     threadVars, clean>>
      /\ ready # <<>>
      /\ ready' = Tail(ready) /\ inflight' = Append(inflight, s)
  BY DEF SubmitOneSlot
<1>2. /\ ready \in Seq(Slots) /\ inflight \in Seq(Slots) /\ IsInjective(ready)
      /\ IsInjective(inflight) /\ Range(ready) \cap Range(inflight) = {}
  BY DEF IInv, TypeOK, PoolType, SlotOwnership
<1>3. /\ s \in Slots /\ s \in Range(ready)
      /\ ready' \in Seq(Slots) /\ Len(ready') = Len(ready) - 1
      /\ IsInjective(ready') /\ Range(ready') = Range(ready) \ {s}
  BY <1>1, <1>2, TailDistinct
<1>4. /\ inflight' \in Seq(Slots) /\ Len(inflight') = Len(inflight) + 1
      /\ IsInjective(inflight') /\ Range(inflight') = Range(inflight) \cup {s}
  <2>1. s \notin Range(inflight)
    BY <1>2, <1>3
  <2> QED BY <1>1, <1>2, <1>3, <2>1, AppendFresh
<1> HIDE DEF s
<1>5. TypeOK'
  <2>1. PoolType'
    BY <1>1, <1>3, <1>4 DEF IInv, TypeOK, PoolType
  <2>2. RingType' /\ CountType' /\ FileType' /\ ThreadType'
    BY <1>1, Zenon DEF IInv, TypeOK, RingType, CountType, FileType, ThreadType, ringVars, countVars,
       fileVars, threadVars
  <2>3. FlagType'
    BY <1>1 DEF IInv, TypeOK, FlagType, countVars, threadVars
  <2> QED BY <2>1, <2>2, <2>3 DEF TypeOK
<1>6. SlotOwnership'
  <2>1. /\ cur \notin free \cup completed \cup Range(ready) \cup Range(inflight)
        /\ Slots \subseteq free \cup {cur} \cup Range(ready) \cup Range(inflight) \cup completed
        /\ free \cap (completed \cup Range(ready) \cup Range(inflight)) = {}
        /\ completed \cap (Range(ready) \cup Range(inflight)) = {}
        /\ Range(ready) \cap Range(inflight) = {}
    BY DEF IInv, SlotOwnership
  <2>2. /\ cur \notin free \cup completed \cup Range(ready') \cup Range(inflight')
        /\ Slots \subseteq free \cup {cur} \cup Range(ready') \cup Range(inflight') \cup completed
        /\ free \cap (completed \cup Range(ready') \cup Range(inflight')) = {}
        /\ completed \cap (Range(ready') \cup Range(inflight')) = {}
        /\ Range(ready') \cap Range(inflight') = {}
    BY <1>3, <1>4, <2>1
  <2> QED BY <1>1, <1>3, <1>4, <2>2, Zenon DEF SlotOwnership
<1>7. OutstandingExact'
  <2>1. Len(ready) \in Nat /\ Len(inflight) \in Nat
    BY <1>2, LenProperties
  <2> QED BY <1>1, <1>3, <1>4, <2>1, SMT DEF IInv, OutstandingExact
<1>8. RingInv'
  <2> SUFFICES ASSUME NEW t \in Slots
               PROVE  /\ t \in Range(inflight') => seen[t] < 2 /\ seen[t] + Len(cq[t]) = ran[t]
                      /\ t \notin Range(inflight') => ran[t] = 0 /\ cq[t] = <<>>
                      /\ t \notin Range(inflight') \cup completed => seen[t] = 0
                      /\ ok[t] <= seen[t]
    BY <1>1, Zenon DEF RingInv, ringVars
  <2>1. /\ t \in Range(inflight) => seen[t] < 2 /\ seen[t] + Len(cq[t]) = ran[t]
        /\ t \notin Range(inflight) => ran[t] = 0 /\ cq[t] = <<>>
        /\ t \notin Range(inflight) \cup completed => seen[t] = 0
        /\ ok[t] <= seen[t]
    BY DEF IInv, RingInv
  <2>2. s \notin Range(inflight) \cup completed
    BY <1>3 DEF IInv, SlotOwnership
  <2>3. Len(<<>>) = 0
    BY EmptySeq
  <2>4. CASE t = s
    <3>1. ran[t] = 0 /\ seen[t] = 0 /\ Len(cq[t]) = 0 /\ ok[t] <= seen[t]
      BY <2>1, <2>2, <2>3, <2>4, Zenon
    <3>2. seen[t] < 2 /\ seen[t] + Len(cq[t]) = ran[t]
      BY <3>1
    <3>3. t \in Range(inflight')
      BY <1>4, <2>4, Zenon
    <3> QED BY <3>1, <3>2, <3>3, Zenon
  <2>5. CASE t # s
    BY <1>4, <2>1, <2>5, Zenon
  <2> QED BY <2>4, <2>5, Zenon
<1>9. FenceInv'
  <2>1. CurLen' = CurLen
    BY <1>1 DEF CurLen
  <2> QED BY <1>1, <2>1 DEF IInv, FenceInv, AtFence, AtRegFence, fileVars, threadVars
<1> QED BY <1>5, <1>6, <1>7, <1>8, <1>9 DEF IInv

(* reap_completions_inline: a completion is consumed, and the slot's second *)
(* one moves it to the completed list.                                     *)
LEMMA ReapStep ==
  ASSUME IInv, NEW s \in Slots, ReapCompletion(s)
  PROVE  IInv'
<1> DEFINE res  == Head(cq[s])
           oks  == IF res >= 0 THEN ok[s] + 1 ELSE ok[s]
           last == seen[s] = 1
           tl   == Tail(cq[s])
<1>1. /\ UNCHANGED <<free, cur, ready, buf, submitted, ncmd, fileVars, threadVars, clean>>
      /\ cq[s] # <<>>
      /\ offset' = IF res > 0 THEN offset + res ELSE offset
      /\ ok' = [ok EXCEPT ![s] = oks]
      /\ seen' = [seen EXCEPT ![s] = @ + 1]
      /\ cq' = [cq EXCEPT ![s] = tl]
      /\ fatal' = (fatal \/ (last /\ oks # 2))
  BY Zenon DEF ReapCompletion, LastCompletion, OffsetAfter
<1>u. UNCHANGED <<free, cur, ready, buf, fileVars, threadVars>>
  BY <1>1
<1>2. cq \in [Slots -> Seq(Int)] /\ cq[s] \in Seq(Int)
  BY DEF IInv, TypeOK, RingType
<1>3. /\ res \in Int /\ tl \in Seq(Int) /\ Len(tl) = Len(cq[s]) - 1
      /\ Len(cq[s]) \in Nat /\ Len(cq[s]) > 0
  BY <1>1, <1>2, HeadTailProperties, LenProperties, EmptySeq
<1> HIDE DEF tl
<1>4. s \in Range(inflight)
  BY <1>1, Zenon DEF IInv, RingInv
<1>5. /\ seen[s] < 2 /\ seen[s] + Len(cq[s]) = ran[s] /\ ok[s] <= seen[s]
  BY <1>4, Zenon DEF IInv, RingInv
<1>6. /\ seen \in [Slots -> 0..2] /\ ran \in [Slots -> 0..2] /\ ok \in [Slots -> 0..2]
      /\ offset \in Nat
      /\ seen[s] \in 0..2 /\ ran[s] \in 0..2 /\ ok[s] \in 0..2
  BY DEF IInv, TypeOK, RingType, CountType
<1>7. offset' \in Nat
  BY <1>1, <1>3, <1>6, SMT
<1>8. oks \in 0..2 /\ oks <= seen[s] + 1 /\ seen[s] + 1 \in 0..2
  BY <1>3, <1>5, <1>6, SMT
<1>9. /\ seen' \in [Slots -> 0..2] /\ ok' \in [Slots -> 0..2] /\ cq' \in [Slots -> Seq(Int)]
      /\ seen'[s] = seen[s] + 1 /\ ok'[s] = oks /\ cq'[s] = tl
      /\ \A t \in Slots \ {s} : seen'[t] = seen[t] /\ ok'[t] = ok[t] /\ cq'[t] = cq[t]
  BY <1>1, <1>2, <1>3, <1>6, <1>8, Zenon
<1>10. CountType' /\ FileType' /\ ThreadType'
  BY <1>1, <1>7, Zenon DEF IInv, TypeOK, CountType, FileType, ThreadType, fileVars, threadVars
<1>11. FlagType'
  <2>1. UNCHANGED <<wake, drainDone, regDone, clean>> /\ fatal' \in BOOLEAN
    BY <1>1, Zenon DEF threadVars
  <2> QED BY <2>1, Zenon DEF IInv, TypeOK, FlagType
<1> HIDE DEF res, oks
<1>12. CASE last
  <2>1. /\ completed' = completed \cup {s}
        /\ outstanding' = outstanding - 1
        /\ ran' = [ran EXCEPT ![s] = 0]
    BY <1>12, Zenon DEF ReapCompletion, LastCompletion, OffsetAfter
  <2>0. inflight' = SeqWithout(inflight, s)
    BY <1>12, Zenon DEF ReapCompletion, LastCompletion, OffsetAfter
  <2>2. inflight \in Seq(Slots) /\ ready \in Seq(Slots) /\ IsInjective(inflight)
    BY DEF IInv, TypeOK, PoolType, SlotOwnership
  <2>3. /\ inflight' \in Seq(Slots) /\ Len(inflight') = Len(inflight) - 1
        /\ IsInjective(inflight') /\ Range(inflight') = Range(inflight) \ {s}
    BY <1>4, <2>0, <2>2, RemoveDistinct
  <2>4. OutstandingExact' /\ outstanding' \in Nat
    <3>1. Len(ready) \in Nat /\ Len(inflight') \in Nat
      BY <2>2, <2>3, LenProperties
    <3>2. Len(inflight) \in Nat
      BY <2>2, LenProperties
    <3> QED BY <1>u, <2>1, <2>3, <3>1, <3>2 DEF IInv, OutstandingExact
  <2>5. TypeOK'
    <3>1. PoolType'
      BY <1>u, <2>1, <2>3, <2>4 DEF IInv, TypeOK, PoolType
    <3>2. ran' \in [Slots -> 0..2]
      BY <1>6, <2>1, SMT
    <3> QED BY <1>9, <1>10, <1>11, <3>1, <3>2, Zenon DEF TypeOK, RingType
  <2>6. SlotOwnership'
    <3>1. /\ cur \notin free \cup completed \cup Range(ready) \cup Range(inflight)
          /\ Slots \subseteq free \cup {cur} \cup Range(ready) \cup Range(inflight) \cup completed
          /\ free \cap (completed \cup Range(ready) \cup Range(inflight)) = {}
          /\ completed \cap (Range(ready) \cup Range(inflight)) = {}
          /\ Range(ready) \cap Range(inflight) = {}
          /\ IsInjective(ready)
      BY DEF IInv, SlotOwnership
    <3>2. /\ cur \notin free \cup completed' \cup Range(ready) \cup Range(inflight')
          /\ Slots \subseteq free \cup {cur} \cup Range(ready) \cup Range(inflight') \cup completed'
          /\ free \cap (completed' \cup Range(ready) \cup Range(inflight')) = {}
          /\ completed' \cap (Range(ready) \cup Range(inflight')) = {}
          /\ Range(ready) \cap Range(inflight') = {}
      BY <1>4, <2>1, <2>3, <3>1, ZenonT(40)
    <3> QED BY <1>u, <2>3, <3>1, <3>2, Zenon DEF SlotOwnership
  <2>7. RingInv'
    <3> SUFFICES ASSUME NEW t \in Slots
                 PROVE  /\ t \in Range(inflight') => seen'[t] < 2 /\ seen'[t] + Len(cq'[t]) = ran'[t]
                        /\ t \notin Range(inflight') => ran'[t] = 0 /\ cq'[t] = <<>>
                        /\ t \notin Range(inflight') \cup completed' => seen'[t] = 0
                        /\ ok'[t] <= seen'[t]
      BY Zenon DEF RingInv
    <3>1. CASE t = s
      <4>1. Len(tl) = 0
        <5>1. \A a, b \in 0..2 : \A n, m \in Nat :
                 a = 1 /\ n > 0 /\ a + n = b /\ m = n - 1 => m = 0
          BY SMT
        <5>2. /\ seen[s] = 1 /\ seen[s] \in 0..2 /\ ran[s] \in 0..2
              /\ Len(cq[s]) \in Nat /\ Len(tl) \in Nat /\ Len(cq[s]) > 0
              /\ seen[s] + Len(cq[s]) = ran[s] /\ Len(tl) = Len(cq[s]) - 1
          BY <1>3, <1>5, <1>6, <1>12, LenProperties
        <5> HIDE DEF tl
        <5> QED BY <5>1, <5>2, Zenon
      <4>2. cq'[s] = <<>>
        <5>1. tl \in Seq(Int) /\ cq'[s] = tl
          BY <1>3, <1>9, Zenon
        <5> QED BY <4>1, <5>1, EmptySeq
      <4>3. ran'[s] = 0
        BY <1>6, <2>1
      <4> QED BY <1>8, <1>9, <2>1, <2>3, <3>1, <4>2, <4>3, Zenon
    <3>2. CASE t # s
      <4>1. /\ t \in Range(inflight) => seen[t] < 2 /\ seen[t] + Len(cq[t]) = ran[t]
            /\ t \notin Range(inflight) => ran[t] = 0 /\ cq[t] = <<>>
            /\ t \notin Range(inflight) \cup completed => seen[t] = 0
            /\ ok[t] <= seen[t]
        BY Zenon DEF IInv, RingInv
      <4>2. seen'[t] = seen[t] /\ ok'[t] = ok[t] /\ cq'[t] = cq[t] /\ ran'[t] = ran[t]
        BY <1>6, <1>9, <2>1, <3>2
      <4> QED BY <2>1, <2>3, <3>2, <4>1, <4>2, Zenon
    <3> QED BY <3>1, <3>2, Zenon
  <2>8. FenceInv'
    <3>1. CurLen' = CurLen
      BY <1>u DEF CurLen
    <3>2. outstanding > 0
      <4>1. Len(ready) \in Nat /\ Len(inflight') \in Nat /\ Len(inflight) \in Nat
        BY <2>2, <2>3, LenProperties
      <4> QED BY <2>3, <4>1, SMT DEF IInv, OutstandingExact
    <3>3. AtFence => ~drainDone
      BY <3>2, SMT DEF IInv, FenceInv
    <3> QED BY <1>u, <3>1, <3>3 DEF IInv, FenceInv, AtFence, AtRegFence, fileVars, threadVars
  <2> QED BY <2>4, <2>5, <2>6, <2>7, <2>8 DEF IInv
<1>13. CASE ~last
  <2>1. UNCHANGED <<completed, inflight, outstanding, ran>>
    BY <1>13, Zenon DEF ReapCompletion, LastCompletion, OffsetAfter
  <2>2. TypeOK'
    <3>1. PoolType'
      BY <1>u, <2>1 DEF IInv, TypeOK, PoolType
    <3>2. RingType'
      BY <1>6, <1>9, <2>1 DEF RingType
    <3> QED BY <1>10, <1>11, <3>1, <3>2 DEF TypeOK
  <2>3. SlotOwnership' /\ OutstandingExact'
    BY <1>u, <2>1, Zenon DEF IInv, SlotOwnership, OutstandingExact
  <2>4. RingInv'
    <3> SUFFICES ASSUME NEW t \in Slots
                 PROVE  /\ t \in Range(inflight) => seen'[t] < 2 /\ seen'[t] + Len(cq'[t]) = ran[t]
                        /\ t \notin Range(inflight) => ran[t] = 0 /\ cq'[t] = <<>>
                        /\ t \notin Range(inflight) \cup completed => seen'[t] = 0
                        /\ ok'[t] <= seen'[t]
      BY <2>1, Zenon DEF RingInv
    <3>1. CASE t = s
      <4>1. seen[s] # 1 /\ seen[s] < 2 /\ seen[s] \in 0..2 /\ ran[s] \in 0..2 /\ Len(cq[s]) \in Nat
            /\ seen[s] + Len(cq[s]) = ran[s] /\ Len(tl) = Len(cq[s]) - 1
        BY <1>3, <1>5, <1>6, <1>13
      <4>2. seen'[s] < 2 /\ seen'[s] + Len(tl) = ran[s]
        <5>1. seen'[s] = seen[s] + 1
          BY <1>9, Zenon
        <5>2. \A a, b \in 0..2 : \A n, m \in Nat : \A d :
                 a # 1 /\ a < 2 /\ a + n = b /\ m = n - 1 /\ d = a + 1 => d < 2 /\ d + m = b
          BY SMT
        <5>3. Len(tl) \in Nat
          BY <1>3, LenProperties
        <5> HIDE DEF tl, last
        <5>4. seen[s] + 1 < 2 /\ (seen[s] + 1) + Len(tl) = ran[s]
          BY <4>1, <5>2, <5>3, SMTT(30)
        <5> QED BY <5>1, <5>4, Zenon
      <4>3. ok'[s] <= seen'[s]
        BY <1>8, <1>9, Zenon
      <4> QED BY <1>4, <1>9, <3>1, <4>2, <4>3, Zenon
    <3>2. CASE t # s
      <4>1. /\ t \in Range(inflight) => seen[t] < 2 /\ seen[t] + Len(cq[t]) = ran[t]
            /\ t \notin Range(inflight) => ran[t] = 0 /\ cq[t] = <<>>
            /\ t \notin Range(inflight) \cup completed => seen[t] = 0
            /\ ok[t] <= seen[t]
        BY Zenon DEF IInv, RingInv
      <4> QED BY <1>9, <3>2, <4>1, Zenon
    <3> QED BY <3>1, <3>2, Zenon
  <2>5. FenceInv'
    <3>1. CurLen' = CurLen
      BY <1>u DEF CurLen
    <3> QED BY <1>u, <2>1, <3>1, Zenon DEF IInv, FenceInv, AtFence, AtRegFence, fileVars, threadVars
  <2> QED BY <2>2, <2>3, <2>4, <2>5 DEF IInv
<1> QED BY <1>12, <1>13

(* The kernel moves a slot of the ring forward and posts its completions.  *)
LEMMA KernelStep ==
  ASSUME IInv, Kernel
  PROVE  IInv'
<1>1. PICK i \in DOMAIN inflight :
        \/ KernelWrite(i) \/ KernelSync(i)
        \/ \E n \in 0..(SlotMax - 1) : KernelWriteFails(i, n)
  BY DEF Kernel
<1> DEFINE s == inflight[i]
<1>2. s \in Slots /\ s \in Range(inflight)
  <2>1. inflight \in Seq(Slots) /\ DOMAIN inflight = 1..Len(inflight)
    BY LenProperties DEF IInv, TypeOK, PoolType
  <2> QED BY <2>1, ElementOfSeq DEF Range
<1>3. /\ UNCHANGED <<poolVars, seen, ok, countVars, gen, reg, threadVars>>
      /\ clean' = clean \/ clean' = FALSE
  <2>1. CASE KernelWrite(i)
    BY <2>1, Zenon DEF KernelWrite
  <2>2. CASE KernelSync(i)
    BY <2>2, Zenon DEF KernelSync
  <2>3. CASE \E n \in 0..(SlotMax - 1) : KernelWriteFails(i, n)
    BY <2>3, Zenon DEF KernelWriteFails
  <2> QED BY <1>1, <2>1, <2>2, <2>3, Zenon
<1>4. cq[s] \in Seq(Int) /\ cq \in [Slots -> Seq(Int)] /\ ran \in [Slots -> 0..2]
  BY <1>2 DEF IInv, TypeOK, RingType
<1>5. buf[s] \in Seq(Nat) /\ file \in Seq(Nat) /\ synced \in Nat
  BY <1>2 DEF IInv, TypeOK, PoolType, FileType
<1>6. /\ seen[s] < 2 /\ seen[s] + Len(cq[s]) = ran[s]
      /\ seen[s] \in 0..2 /\ Len(cq[s]) \in Nat
  BY <1>2, <1>4, LenProperties, Zenon DEF IInv, RingInv, TypeOK, RingType
<1> DEFINE Moved == /\ cq' \in [Slots -> Seq(Int)] /\ ran' \in [Slots -> 0..2]
                    /\ seen[s] + Len(cq'[s]) = ran'[s]
                    /\ \A t \in Slots \ {s} : cq'[t] = cq[t] /\ ran'[t] = ran[t]
<1>7. Moved
  <2>1. CASE KernelWrite(i)
    <3> DEFINE c == Append(cq[s], Len(buf[s]))
    <3>1. Len(buf[s]) \in Int
      BY <1>5, LenProperties
    <3>2. c \in Seq(Int) /\ Len(c) = Len(cq[s]) + 1
      BY <1>4, <3>1, AppendProperties
    <3>3. cq' = [cq EXCEPT ![s] = c] /\ ran' = [ran EXCEPT ![s] = 1] /\ ran[s] = 0
      BY <2>1, Zenon DEF KernelWrite
    <3> HIDE DEF c
    <3>4. seen[s] + Len(c) = 1 /\ 1 \in 0..2
      <4>1. \A a \in 0..2 : \A n \in Nat : \A b, m :
               a + n = b /\ b = 0 /\ m = n + 1 => a + m = 1 /\ 1 \in 0..2
        BY SMT
      <4>2. ran[s] = 0 /\ Len(c) = Len(cq[s]) + 1
        BY <3>2, <3>3
      <4> HIDE DEF s
      <4> QED BY <1>6, <4>1, <4>2, SMTT(30)
    <3> QED BY <1>2, <1>4, <3>2, <3>3, <3>4, Zenon
  <2>2. CASE KernelSync(i)
    <3>1. PICK e \in {0, -1} : /\ cq' = [cq EXCEPT ![s] = Append(cq[s], e)]
                               /\ ran' = [ran EXCEPT ![s] = 2] /\ ran[s] = 1
      BY <2>2 DEF KernelSync
    <3> DEFINE c == Append(cq[s], e)
    <3>2. e \in Int
      BY SMT
    <3>3. c \in Seq(Int) /\ Len(c) = Len(cq[s]) + 1
      BY <1>4, <3>2, AppendProperties
    <3>4. cq' = [cq EXCEPT ![s] = c]
      BY <3>1
    <3> HIDE DEF c
    <3>5. seen[s] + Len(c) = 2 /\ 2 \in 0..2
      <4>1. \A a \in 0..2 : \A n \in Nat : \A b, m :
               a + n = b /\ b = 1 /\ m = n + 1 => a + m = 2 /\ 2 \in 0..2
        BY SMT
      <4>2. ran[s] = 1 /\ Len(c) = Len(cq[s]) + 1
        BY <3>1, <3>3
      <4> HIDE DEF s
      <4> QED BY <1>6, <4>1, <4>2
    <3> QED BY <1>2, <1>4, <3>1, <3>3, <3>4, <3>5, ZenonT(40)
  <2>3. CASE \E n \in 0..(SlotMax - 1) : KernelWriteFails(i, n)
    <3>1. PICK n \in 0..(SlotMax - 1) : KernelWriteFails(i, n)
      BY <2>3
    <3> DEFINE d == <<IF n = 0 THEN -1 ELSE n, -1>>
               c == cq[s] \o d
    <3>2. d \in Seq(Int) /\ Len(d) = 2
      BY SMT
    <3>3. cq' = [cq EXCEPT ![s] = c] /\ ran' = [ran EXCEPT ![s] = 2] /\ ran[s] = 0
      BY <3>1 DEF KernelWriteFails
    <3> HIDE DEF d
    <3>4. c \in Seq(Int) /\ Len(c) = Len(cq[s]) + 2
      <4>1. c \in Seq(Int) /\ Len(c) = Len(cq[s]) + Len(d)
        <5>1. \A q \in Seq(Int) : q \o d \in Seq(Int) /\ Len(q \o d) = Len(q) + Len(d)
          <6> TAKE q \in Seq(Int)
          <6> QED BY <3>2, ConcatProperties, ZenonT(40)
        <5> QED BY <1>4, <5>1, Zenon
      <4> QED BY <3>2, <4>1
    <3> HIDE DEF c
    <3>5. seen[s] + Len(c) = 2 /\ 2 \in 0..2
      <4>1. \A a \in 0..2 : \A l \in Nat : \A b, m :
               a + l = b /\ b = 0 /\ m = l + 2 => a + m = 2 /\ 2 \in 0..2
        BY SMT
      <4>2. ran[s] = 0 /\ Len(c) = Len(cq[s]) + 2
        BY <3>3, <3>4
      <4> HIDE DEF s
      <4> QED BY <1>6, <4>1, <4>2
    <3> QED BY <1>2, <1>4, <3>3, <3>4, <3>5, Zenon
  <2> QED BY <1>1, <2>1, <2>2, <2>3, Zenon
<1>9. file' \in Seq(Nat) /\ synced' \in Nat
  <2>1. CASE KernelWrite(i)
    <3>1. file \o buf[s] \in Seq(Nat)
      BY <1>5, ConcatProperties
    <3> QED BY <1>5, <2>1, <3>1, Zenon DEF KernelWrite, Land
  <2>2. CASE KernelSync(i)
    <3>1. Len(file) \in Nat
      BY <1>5, LenProperties
    <3> QED BY <1>5, <2>2, <3>1, Zenon DEF KernelSync
  <2>3. CASE \E n \in 0..(SlotMax - 1) : KernelWriteFails(i, n)
    <3>1. PICK n \in 0..(SlotMax - 1) : KernelWriteFails(i, n)
      BY <2>3
    <3>2. n < Len(buf[s])
      BY <3>1 DEF KernelWriteFails
    <3>3. 1 \in Int /\ n \in Int /\ \A j \in 1..n : buf[s][j] \in Nat
      BY <1>5, <3>2, ElementOfSeq, LenProperties, SMTT(30)
    <3>4. SubSeq(buf[s], 1, n) \in Seq(Nat)
      BY <3>3, SubSeqProperties
    <3>5. file \o SubSeq(buf[s], 1, n) \in Seq(Nat)
      BY <1>5, <3>4, ConcatProperties
    <3> QED BY <1>5, <3>1, <3>5, Zenon DEF KernelWriteFails, Land
  <2> QED BY <1>1, <2>1, <2>2, <2>3
<1>10. clean' \in BOOLEAN
  <2> QED BY <1>3, Zenon DEF IInv, TypeOK, FlagType
<1> HIDE DEF s
<1>11. TypeOK'
  <2>1. PoolType' /\ CountType' /\ ThreadType'
    BY <1>3, Zenon DEF IInv, TypeOK, PoolType, CountType, ThreadType, poolVars, countVars, threadVars
  <2>2. RingType'
    BY <1>3, <1>7 DEF IInv, TypeOK, RingType
  <2>3. FileType'
    BY <1>3, <1>9 DEF IInv, TypeOK, FileType
  <2>4. FlagType'
    BY <1>3, <1>10 DEF IInv, TypeOK, FlagType, countVars, threadVars
  <2> QED BY <2>1, <2>2, <2>3, <2>4 DEF TypeOK
<1>12. SlotOwnership' /\ OutstandingExact'
  BY <1>3, Zenon DEF IInv, SlotOwnership, OutstandingExact, poolVars
<1>13. RingInv'
  <2> SUFFICES ASSUME NEW t \in Slots
               PROVE  /\ t \in Range(inflight) => seen[t] < 2 /\ seen[t] + Len(cq'[t]) = ran'[t]
                      /\ t \notin Range(inflight) => ran'[t] = 0 /\ cq'[t] = <<>>
                      /\ t \notin Range(inflight) \cup completed => seen[t] = 0
                      /\ ok[t] <= seen[t]
    BY <1>3, Zenon DEF RingInv, poolVars
  <2>1. /\ t \in Range(inflight) => seen[t] < 2 /\ seen[t] + Len(cq[t]) = ran[t]
        /\ t \notin Range(inflight) => ran[t] = 0 /\ cq[t] = <<>>
        /\ t \notin Range(inflight) \cup completed => seen[t] = 0
        /\ ok[t] <= seen[t]
    BY Zenon DEF IInv, RingInv
  <2>2. CASE t = s
    BY <1>2, <1>7, <2>1, <2>2, Zenon
  <2>3. CASE t # s
    BY <1>2, <1>7, <2>1, <2>3, Zenon
  <2> QED BY <2>2, <2>3, Zenon
<1>14. FenceInv'
  <2>1. CurLen' = CurLen
    BY <1>3 DEF CurLen, poolVars
  <2> QED BY <1>3, <2>1, Zenon DEF IInv, FenceInv, AtFence, AtRegFence, poolVars, threadVars
<1> QED BY <1>11, <1>12, <1>13, <1>14 DEF IInv

-----------------------------------------------------------------------------
(* Every step preserves the invariant. *)
LEMMA NextIInv == IInv /\ [Next]_vars => IInv'
<1> SUFFICES ASSUME IInv, [Next]_vars PROVE IInv' OBVIOUS
<1>1. CASE Main
  BY <1>1, MainControl, AppendStep, MainReapStep, HandoffStep DEF Main
<1>2. CASE AofThread
  BY <1>2, AofControl, SubmitStep, ReapStep DEF AofThread
<1>3. CASE Kernel
  BY <1>3, KernelStep
<1>4. CASE UNCHANGED vars
  <2>1. UNCHANGED <<poolVars, ringVars, countVars, fileVars, threadVars, clean>>
    BY <1>4 DEF vars
  <2>2. PoolType' /\ RingType' /\ SlotOwnership' /\ OutstandingExact' /\ RingInv'
    BY <2>1, QuietStep
  <2>3. CountType' /\ FileType' /\ ThreadType'
    BY <2>1 DEF IInv, TypeOK, CountType, FileType, ThreadType, countVars, fileVars, threadVars
  <2>4. FlagType'
    BY <2>1 DEF IInv, TypeOK, FlagType, countVars, threadVars
  <2>5. CurLen' = CurLen
    BY <2>1 DEF CurLen, poolVars
  <2>6. FenceInv'
    BY <2>1, <2>5 DEF IInv, FenceInv, AtFence, AtRegFence, poolVars, fileVars, threadVars
  <2> QED BY <2>2, <2>3, <2>4, <2>6 DEF IInv, TypeOK
<1> QED BY <1>1, <1>2, <1>3, <1>4 DEF Next, Terminated

(* The invariant holds in every behaviour of the pipeline. *)
LEMMA Invariance == Spec => []IInv
<1> QED BY InitIInv, NextIInv, PTL DEF Spec

(* The state of the pipeline keeps its type in every behaviour. *)
THEOREM TypeCorrect == Spec => []TypeOK
<1>1. IInv => TypeOK
  BY DEF IInv
<1> QED BY <1>1, Invariance, PTL

(* Slots are neither shared between two lists nor lost, for any number of  *)
(* slots and whatever the kernel completes, and in whatever order.         *)
THEOREM SlotsOwnedOnce == Spec => []SlotOwnership
<1>1. IInv => SlotOwnership
  BY DEF IInv
<1> QED BY <1>1, Invariance, PTL

(* g_outstanding is exact and bounded by MAX_OUTSTANDING: the crash window *)
(* documented for the reply-first mode.                                    *)
THEOREM CrashWindowBounded == Spec => []OutstandingExact
<1>1. IInv => OutstandingExact
  BY DEF IInv
<1> QED BY <1>1, Invariance, PTL

(* A completion never refers to a recycled slot. *)
THEOREM CompletionsInFlight == Spec => []NoStaleCompletion
<1>1. IInv => NoStaleCompletion
  BY Zenon DEF IInv, RingInv, NoStaleCompletion
<1> QED BY <1>1, Invariance, PTL

(* persist_drain_pending returns over an empty pipeline. *)
THEOREM DrainLeavesNothing == Spec => []DrainFence
<1>1. IInv => DrainFence
  <2> SUFFICES ASSUME IInv, mpc = "fence", drainDone
               PROVE  CurLen = 0 /\ ready = <<>> /\ inflight = <<>>
    BY DEF DrainFence
  <2>1. CurLen = 0 /\ outstanding = 0
    BY DEF IInv, FenceInv, AtFence
  <2>2. /\ ready \in Seq(Slots) /\ inflight \in Seq(Slots)
        /\ Len(ready) \in Nat /\ Len(inflight) \in Nat
    BY LenProperties DEF IInv, TypeOK, PoolType
  <2>3. Len(ready) = 0 /\ Len(inflight) = 0
    BY <2>1, <2>2, SMT DEF IInv, OutstandingExact
  <2> QED BY <2>1, <2>2, <2>3, EmptySeq
<1> QED BY <1>1, Invariance, PTL

(* The ring never writes to a replaced AOF outside a re-registration. *)
THEOREM RingWritesCurrentAof == Spec => []RegisteredFd
<1>1. IInv => RegisteredFd
  BY DEF IInv, FenceInv, AtRegFence, RegisteredFd
<1> QED BY <1>1, Invariance, PTL
=============================================================================
