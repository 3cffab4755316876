------------------------- MODULE AofFrontierProofs -------------------------
(***************************************************************************)
(* Proof that after a drain the three measures of the AOF agree: the bytes *)
(* accepted, the bytes counted as written and the bytes durable.  A        *)
(* command is one byte long, so what the pipeline still owes the file is   *)
(* the number of positions its buffers hold: the cardinality of a set of   *)
(* pairs, where a sum over the slots would need an induction.              *)
(***************************************************************************)
EXTENDS AofPipelineProofs, FiniteSetTheorems

(* The positions of the buffers b of the slots in P. *)
Bytes(b, P) == UNION {{s} \X (1..Len(b[s])) : s \in P}

(* Slots whose write the kernel has not run, and slots whose write has not *)
(* been reaped.  Free slots are among them, with nothing in their buffers. *)
ToWrite == {s \in Slots \ completed : ran[s] = 0}
ToReap  == {s \in Slots \ completed : seen[s] = 0}

(* The completions of a slot in the order of its requests: the write with  *)
(* its length, then the fdatasync with 0.                                  *)
Completions ==
  \A s \in Slots : \A j \in DOMAIN cq[s] :
    cq[s][j] = IF seen[s] + j = 1 THEN Len(buf[s]) ELSE 0

(* What is accepted is in the file or still to be written, and is counted  *)
(* or still to be reaped; what is in the file is durable or a fdatasync is *)
(* to come; and nothing is under way while the ring writes elsewhere.      *)
Ledger ==
  /\ IsFiniteSet(Bytes(buf, ToWrite)) /\ IsFiniteSet(Bytes(buf, ToReap))
  /\ submitted = Len(file) + Cardinality(Bytes(buf, ToWrite))
  /\ submitted = offset + Cardinality(Bytes(buf, ToReap))
  /\ synced = Len(file) \/ \E s \in Slots : ran[s] = 1
  /\ Completions
  /\ reg # gen => outstanding = 0 /\ CurLen = 0

(* A free slot is empty, and the ledger holds as long as the history is    *)
(* clean: no failed write and no rewrite over a busy pipeline.             *)
FrontierInv ==
  /\ \A s \in free : buf[s] = <<>>
  /\ clean => Ledger

-----------------------------------------------------------------------------
(* Counting positions. *)

(* A slot whose write has been run, or reaped, takes its length away. *)
LEMMA DropSlot ==
  ASSUME NEW b, NEW P, NEW s \in P, Len(b[s]) \in Nat, IsFiniteSet(Bytes(b, P))
  PROVE  /\ IsFiniteSet(Bytes(b, P \ {s}))
         /\ Cardinality(Bytes(b, P)) = Cardinality(Bytes(b, P \ {s})) + Len(b[s])
<1> DEFINE R == {s} \X (1..Len(b[s]))
           B == Bytes(b, P)
<1>1. IsFiniteSet(R) /\ Cardinality(R) = Len(b[s])
  <2>1. IsFiniteSet({s}) /\ Cardinality({s}) = 1
    BY FS_Singleton, Zenon
  <2>2. IsFiniteSet(1..Len(b[s])) /\ Cardinality(1..Len(b[s])) = Len(b[s])
    BY FS_Interval
  <2>3. IsFiniteSet(R) /\ Cardinality(R) = Cardinality({s}) * Cardinality(1..Len(b[s]))
    BY <2>1, <2>2, FS_Product, Zenon
  <2> QED BY <2>1, <2>2, <2>3
<1>2. Bytes(b, P \ {s}) = B \ R
  <2>1. ASSUME NEW x PROVE x \in Bytes(b, P \ {s}) <=> x \in B \ R
    BY SMT DEF Bytes
  <2> QED BY <2>1, Zenon
<1>3. B \cap R = R
  BY Zenon DEF Bytes
<1>4. IsFiniteSet(B \ R) /\ Cardinality(B \ R) = Cardinality(B) - Cardinality(B \cap R)
  BY FS_Difference, Zenon
<1>5. Cardinality(B) \in Nat
  BY FS_CardinalityType
<1> HIDE DEF R, B
<1>6. Cardinality(Bytes(b, P \ {s})) = Cardinality(B) - Len(b[s])
  BY <1>1, <1>2, <1>3, <1>4, Zenon
<1>7. Cardinality(B) = Cardinality(Bytes(b, P \ {s})) + Len(b[s])
  BY <1>5, <1>6
<1> QED BY <1>2, <1>4, <1>7, Zenon DEF B

(* A command appended to a buffer is one position more. *)
LEMMA GrowSlot ==
  ASSUME NEW b, NEW c, NEW P, NEW s \in P, IsFiniteSet(Bytes(b, P)),
         Len(b[s]) \in Nat, Len(c[s]) = Len(b[s]) + 1, \A t \in P \ {s} : c[t] = b[t]
  PROVE  /\ IsFiniteSet(Bytes(c, P))
         /\ Cardinality(Bytes(c, P)) = Cardinality(Bytes(b, P)) + 1
<1> DEFINE x == <<s, Len(b[s]) + 1>>
<1>1. x \notin Bytes(b, P)
  BY DEF Bytes
<1>2. 1..Len(c[s]) = (1..Len(b[s])) \cup {Len(b[s]) + 1}
  OBVIOUS
<1>3. Bytes(c, P) = Bytes(b, P) \cup {x}
  BY <1>2 DEF Bytes
<1> HIDE DEF x
<1> QED BY <1>1, <1>3, FS_AddElement

(* Slots with empty buffers count for nothing. *)
LEMMA SameBytes ==
  ASSUME NEW b, NEW P, NEW c, NEW Q,
         \A s \in P : b[s] = <<>> \/ (s \in Q /\ c[s] = b[s]),
         \A s \in Q : c[s] = <<>> \/ (s \in P /\ b[s] = c[s])
  PROVE  Bytes(b, P) = Bytes(c, Q)
<1>1. 1..Len(<<>>) = {}
  BY EmptySeq
<1> QED BY <1>1 DEF Bytes

(* Empty buffers have no positions. *)
LEMMA NoBytes ==
  ASSUME NEW b, NEW P, \A s \in P : b[s] = <<>>
  PROVE  IsFiniteSet(Bytes(b, P)) /\ Cardinality(Bytes(b, P)) = 0
<1>1. 1..Len(<<>>) = {}
  BY EmptySeq
<1>2. Bytes(b, P) = {}
  BY <1>1 DEF Bytes
<1> QED BY <1>2, FS_EmptySet

-----------------------------------------------------------------------------
(* The steps. *)

(* The types of the state the ledger speaks of. *)
LEMMA LedgerTypes ==
  ASSUME IInv
  PROVE  /\ buf \in [Slots -> Seq(Nat)] /\ file \in Seq(Nat) /\ cq \in [Slots -> Seq(Int)]
         /\ ran \in [Slots -> 0..2] /\ seen \in [Slots -> 0..2]
         /\ submitted \in Nat /\ offset \in Nat /\ synced \in Nat /\ outstanding \in Nat
         /\ free \subseteq Slots /\ completed \subseteq Slots /\ cur \in Slots \cup {NoSlot}
         /\ \A s \in Slots : buf[s] \in Seq(Nat) /\ Len(buf[s]) \in Nat
         /\ Len(file) \in Nat
BY LenProperties DEF IInv, TypeOK, PoolType, RingType, CountType, FileType

(* With no slot handed off and none current, no buffer that counts holds   *)
(* a command.                                                              *)
LEMMA IdleIsEmpty ==
  ASSUME IInv, FrontierInv, outstanding = 0, CurLen = 0
  PROVE  \A s \in Slots \ completed : buf[s] = <<>>
<1>1. ready \in Seq(Slots) /\ inflight \in Seq(Slots) /\ Len(ready) \in Nat /\ Len(inflight) \in Nat
  BY LenProperties DEF IInv, TypeOK, PoolType
<1>2. Len(ready) = 0 /\ Len(inflight) = 0
  BY <1>1, SMT DEF IInv, OutstandingExact
<1>3. ready = <<>> /\ inflight = <<>>
  BY <1>1, <1>2, EmptySeq
<1>4. Range(ready) = {} /\ Range(inflight) = {}
  BY <1>3, SMT DEF Range
<1>5. Slots \subseteq free \cup {cur} \cup completed
  BY <1>4 DEF IInv, SlotOwnership
<1>6. cur # NoSlot => buf[cur] = <<>>
  BY LedgerTypes, EmptySeq DEF CurLen
<1> QED BY <1>5, <1>6, SlotsAssumption DEF FrontierInv

(* A slot in flight is outstanding, and with a clean history the ring then *)
(* writes to the current inode.                                            *)
LEMMA FlightIsCurrent ==
  ASSUME IInv, FrontierInv, clean, ready # <<>> \/ inflight # <<>>
  PROVE  reg = gen
<1>1. ready \in Seq(Slots) /\ inflight \in Seq(Slots) /\ Len(ready) \in Nat /\ Len(inflight) \in Nat
  BY LenProperties DEF IInv, TypeOK, PoolType
<1>2. Len(ready) > 0 \/ Len(inflight) > 0
  BY <1>1, EmptySeq
<1>3. outstanding # 0
  BY <1>1, <1>2, SMT DEF IInv, OutstandingExact
<1> QED BY <1>3 DEF FrontierInv, Ledger

(* Steps that move slots between lists, or only control. *)
LEMMA LedgerKept ==
  ASSUME FrontierInv, free' \subseteq free,
         UNCHANGED <<completed, buf, ran, cq, seen, submitted, offset, file, synced, clean>>,
         clean => (reg' # gen' => outstanding' = 0 /\ CurLen' = 0)
  PROVE  FrontierInv'
<1>1. \A s \in free' : buf'[s] = <<>>
  BY DEF FrontierInv
<1>2. ASSUME clean PROVE Ledger'
  <2>1. ToWrite' = ToWrite /\ ToReap' = ToReap /\ buf' = buf
    BY DEF ToWrite, ToReap
  <2>2. Ledger
    BY <1>2 DEF FrontierInv
  <2>3. /\ IsFiniteSet(Bytes(buf, ToWrite))' /\ IsFiniteSet(Bytes(buf, ToReap))'
        /\ (submitted = Len(file) + Cardinality(Bytes(buf, ToWrite)))'
        /\ (submitted = offset + Cardinality(Bytes(buf, ToReap)))'
    BY <2>1, <2>2 DEF Ledger
  <2>4. Completions'
    BY <2>2 DEF Ledger, Completions
  <2>5. (synced = Len(file) \/ \E s \in Slots : ran[s] = 1)'
    BY <2>2 DEF Ledger
  <2> QED BY <1>2, <2>3, <2>4, <2>5 DEF Ledger
<1> QED BY <1>1, <1>2 DEF FrontierInv

(* persist_append_prepare: one byte more accepted, to be written and to be *)
(* reaped.                                                                 *)
LEMMA AppendLedger ==
  ASSUME IInv, FrontierInv, NEW s \in Slots, Append1(s)
  PROVE  FrontierInv'
<1>1. /\ mpc = "run" /\ (IF cur = NoSlot THEN s \in free ELSE s = cur)
      /\ free' = free \ {s} /\ buf' = [buf EXCEPT ![s] = Append(@, ncmd + 1)]
      /\ submitted' = submitted + 1
      /\ UNCHANGED <<completed, ran, cq, seen, offset, file, synced, gen, reg, clean>>
  BY DEF Append1, ringVars, fileVars
<1>2. s \notin completed /\ s \notin Range(inflight)
  BY <1>1 DEF IInv, SlotOwnership
<1>3. ran[s] = 0 /\ cq[s] = <<>> /\ seen[s] = 0
  BY <1>2 DEF IInv, RingInv
<1>4. s \in ToWrite /\ s \in ToReap /\ ToWrite' = ToWrite /\ ToReap' = ToReap
  BY <1>1, <1>2, <1>3 DEF ToWrite, ToReap
<1>5. ncmd + 1 \in Nat
  BY DEF IInv, TypeOK, CountType
<1>6. Len(buf'[s]) = Len(buf[s]) + 1 /\ \A t \in Slots \ {s} : buf'[t] = buf[t]
  <2>1. buf'[s] = Append(buf[s], ncmd + 1) /\ \A t \in Slots \ {s} : buf'[t] = buf[t]
    BY <1>1, LedgerTypes
  <2> QED BY <1>5, <2>1, LedgerTypes, AppendProperties
<1>7. \A t \in free' : buf'[t] = <<>>
  BY <1>1, <1>6, LedgerTypes DEF FrontierInv
<1>8. ASSUME clean PROVE Ledger'
  <2>1. Ledger
    BY <1>8 DEF FrontierInv
  <2>2. /\ IsFiniteSet(Bytes(buf', ToWrite))
        /\ Cardinality(Bytes(buf', ToWrite)) = Cardinality(Bytes(buf, ToWrite)) + 1
    <3>1. Len(buf[s]) \in Nat /\ \A t \in ToWrite \ {s} : buf'[t] = buf[t]
      BY <1>6, LedgerTypes DEF ToWrite
    <3>2. IsFiniteSet(Bytes(buf, ToWrite))
      BY <2>1 DEF Ledger
    <3> QED BY <1>4, <1>6, <3>1, <3>2, GrowSlot
  <2>3. /\ IsFiniteSet(Bytes(buf', ToReap))
        /\ Cardinality(Bytes(buf', ToReap)) = Cardinality(Bytes(buf, ToReap)) + 1
    <3>1. Len(buf[s]) \in Nat /\ \A t \in ToReap \ {s} : buf'[t] = buf[t]
      BY <1>6, LedgerTypes DEF ToReap
    <3>2. IsFiniteSet(Bytes(buf, ToReap))
      BY <2>1 DEF Ledger
    <3> QED BY <1>4, <1>6, <3>1, <3>2, GrowSlot
  <2>4. Cardinality(Bytes(buf, ToWrite)) \in Nat /\ Cardinality(Bytes(buf, ToReap)) \in Nat
    BY <2>1, FS_CardinalityType DEF Ledger
  <2>5. submitted' = Len(file') + Cardinality(Bytes(buf', ToWrite))
    BY <1>1, <2>1, <2>2, <2>4, LedgerTypes, SMTT(30) DEF Ledger
  <2>6. submitted' = offset' + Cardinality(Bytes(buf', ToReap))
    BY <1>1, <2>1, <2>3, <2>4, LedgerTypes, SMTT(30) DEF Ledger
  <2>7. Completions'
    <3> SUFFICES ASSUME NEW t \in Slots, NEW j \in DOMAIN cq[t]
                 PROVE  cq[t][j] = IF seen[t] + j = 1 THEN Len(buf'[t]) ELSE 0
      BY <1>1 DEF Completions
    <3>1. t # s
      BY <1>3, EmptySeq, SMT
    <3> QED BY <1>6, <2>1, <3>1 DEF Ledger, Completions
  <2>8. reg' = gen'
    BY <1>1 DEF IInv, FenceInv, AtRegFence
  <2>9. (synced = Len(file) \/ \E t \in Slots : ran[t] = 1)'
    BY <1>1, <2>1 DEF Ledger
  <2> QED BY <1>4, <2>2, <2>3, <2>5, <2>6, <2>7, <2>8, <2>9 DEF Ledger
<1> QED BY <1>1, <1>7, <1>8 DEF FrontierInv

(* drain_completed: the slots that go back to the free list have been      *)
(* written and reaped, and are emptied.                                    *)
LEMMA ReapedLedger ==
  ASSUME IInv, FrontierInv, MainReap
  PROVE  FrontierInv'
<1>1. /\ mpc \in {"run", "flush", "handoff", "reap"}
      /\ free' = free \cup completed /\ completed' = {}
      /\ buf'  = [s \in Slots |-> IF s \in completed THEN <<>> ELSE buf[s]]
      /\ seen' = [s \in Slots |-> IF s \in completed THEN 0 ELSE seen[s]]
      /\ UNCHANGED <<ran, cq, submitted, offset, file, synced, gen, reg, clean>>
  BY DEF MainReap, DrainCompleted, countVars, fileVars
<1>2. \A s \in free' : buf'[s] = <<>>
  BY <1>1, LedgerTypes DEF FrontierInv
<1>3. Bytes(buf', ToWrite') = Bytes(buf, ToWrite)
  <2>1. \A s \in ToWrite : s \in ToWrite' /\ buf'[s] = buf[s]
    BY <1>1 DEF ToWrite
  <2>2. \A s \in ToWrite' : buf'[s] = <<>> \/ (s \in ToWrite /\ buf[s] = buf'[s])
    BY <1>1 DEF ToWrite
  <2> QED BY <2>1, <2>2, SameBytes
<1>4. Bytes(buf', ToReap') = Bytes(buf, ToReap)
  <2>1. \A s \in ToReap : s \in ToReap' /\ buf'[s] = buf[s]
    BY <1>1 DEF ToReap
  <2>2. \A s \in ToReap' : buf'[s] = <<>> \/ (s \in ToReap /\ buf[s] = buf'[s])
    BY <1>1 DEF ToReap
  <2> QED BY <2>1, <2>2, SameBytes
<1>5. ASSUME clean PROVE Ledger'
  <2>1. Ledger
    BY <1>5 DEF FrontierInv
  <2>2. Completions'
    <3> SUFFICES ASSUME NEW t \in Slots, NEW j \in DOMAIN cq[t]
                 PROVE  cq[t][j] = IF seen'[t] + j = 1 THEN Len(buf'[t]) ELSE 0
      BY <1>1 DEF Completions
    <3>1. t \notin completed
      <4>1. cq[t] # <<>>
        BY EmptySeq, SMT
      <4> QED BY <4>1 DEF IInv, RingInv, SlotOwnership
    <3>2. seen'[t] = seen[t] /\ buf'[t] = buf[t]
      BY <1>1, <3>1
    <3> QED BY <2>1, <3>2 DEF Ledger, Completions
  <2>3. reg' = gen'
    BY <1>1 DEF IInv, FenceInv, AtRegFence
  <2>4. (synced = Len(file) \/ \E t \in Slots : ran[t] = 1)'
    BY <1>1, <2>1 DEF Ledger
  <2>5. /\ IsFiniteSet(Bytes(buf', ToWrite')) /\ IsFiniteSet(Bytes(buf', ToReap'))
        /\ submitted' = Len(file') + Cardinality(Bytes(buf', ToWrite'))
        /\ submitted' = offset' + Cardinality(Bytes(buf', ToReap'))
    BY <1>1, <1>3, <1>4, <2>1 DEF Ledger
  <2> QED BY <2>2, <2>3, <2>4, <2>5 DEF Ledger
<1> QED BY <1>1, <1>2, <1>5 DEF FrontierInv

(* finalize_rewrite_parent over an idle pipeline: all measures restart at  *)
(* the size of the new file.                                               *)
LEMMA RewriteLedger ==
  ASSUME IInv, FrontierInv, NEW size \in 0..SnapMax, FinalizeRewrite(size)
  PROVE  FrontierInv'
<1>1. /\ file' = [i \in 1..size |-> 0] /\ synced' = size /\ offset' = size /\ submitted' = size
      /\ clean' = (clean /\ outstanding = 0 /\ CurLen = 0)
      /\ UNCHANGED <<poolVars, ran, cq, seen>>
  BY DEF FinalizeRewrite, ringVars
<1>2. UNCHANGED <<free, cur, completed, outstanding, buf>>
  BY <1>1 DEF poolVars
<1>3. ASSUME clean' PROVE Ledger'
  <2>1. clean /\ outstanding = 0 /\ CurLen = 0
    BY <1>1, <1>3, Zenon
  <2>2. \A s \in Slots \ completed : buf[s] = <<>>
    BY <2>1, IdleIsEmpty
  <2>3. IsFiniteSet(Bytes(buf, ToWrite)) /\ Cardinality(Bytes(buf, ToWrite)) = 0
    BY <2>2, NoBytes DEF ToWrite
  <2>4. IsFiniteSet(Bytes(buf, ToReap)) /\ Cardinality(Bytes(buf, ToReap)) = 0
    BY <2>2, NoBytes DEF ToReap
  <2>5. ToWrite' = ToWrite /\ ToReap' = ToReap /\ buf' = buf
    BY <1>1, <1>2 DEF ToWrite, ToReap
  <2>6. size \in Nat /\ Len(file') = size
    BY <1>1, BoundsAssumption
  <2>7. Completions'
    BY <1>1, <1>2, <2>1 DEF FrontierInv, Ledger, Completions
  <2>8. CurLen' = 0 /\ outstanding' = 0
    BY <1>2, <2>1 DEF CurLen
  <2>9. /\ IsFiniteSet(Bytes(buf', ToWrite')) /\ IsFiniteSet(Bytes(buf', ToReap'))
        /\ Cardinality(Bytes(buf', ToWrite')) = 0 /\ Cardinality(Bytes(buf', ToReap')) = 0
    BY <2>3, <2>4, <2>5
  <2>10. /\ submitted' = Len(file') + Cardinality(Bytes(buf', ToWrite'))
         /\ submitted' = offset' + Cardinality(Bytes(buf', ToReap'))
         /\ synced' = Len(file')
    BY <1>1, <2>6, <2>9
  <2> QED BY <2>7, <2>8, <2>9, <2>10 DEF Ledger
<1>4. \A s \in free' : buf'[s] = <<>>
  BY <1>2 DEF FrontierInv
<1> QED BY <1>3, <1>4 DEF FrontierInv

(* The kernel runs the write of a slot: its bytes are in the file, and the *)
(* fdatasync linked to it is to come.                                      *)
LEMMA WriteLedger ==
  ASSUME IInv, FrontierInv, NEW i \in DOMAIN inflight, KernelWrite(i)
  PROVE  FrontierInv'
<1> DEFINE s == inflight[i]
<1>1. /\ ran[s] = 0 /\ ran' = [ran EXCEPT ![s] = 1]
      /\ cq' = [cq EXCEPT ![s] = Append(@, Len(buf[s]))]
      /\ file' = Land(buf[s])
      /\ UNCHANGED <<poolVars, seen, submitted, offset, synced, gen, reg, clean>>
  BY Zenon DEF KernelWrite, countVars
<1>2. UNCHANGED <<free, cur, completed, outstanding, buf>>
  BY <1>1, Zenon DEF poolVars
<1>3. s \in Slots /\ s \in Range(inflight) /\ inflight # <<>>
  <2>1. inflight \in Seq(Slots) /\ DOMAIN inflight = 1..Len(inflight)
    BY LenProperties DEF IInv, TypeOK, PoolType
  <2> QED BY <2>1, ElementOfSeq, EmptySeq DEF Range
<1> HIDE DEF s
<1>4. s \notin completed /\ seen[s] < 2 /\ seen[s] + Len(cq[s]) = ran[s]
  BY <1>3 DEF IInv, SlotOwnership, RingInv
<1>5. cq[s] \in Seq(Int) /\ Len(cq[s]) \in Nat /\ seen[s] \in 0..2
  BY <1>3, LedgerTypes, LenProperties
<1>6. seen[s] = 0 /\ Len(cq[s]) = 0
  <2>1. seen[s] + Len(cq[s]) = 0
    BY <1>1, <1>4, Zenon
  <2>2. seen[s] \in Nat
    BY <1>5
  <2> QED BY <1>5, <2>1, <2>2
<1>7. cq'[s] = <<Len(buf[s])>> /\ \A t \in Slots \ {s} : cq'[t] = cq[t]
  <2>1. cq[s] = <<>>
    BY <1>5, <1>6, EmptySeq
  <2>2. cq'[s] = Append(cq[s], Len(buf[s])) /\ \A t \in Slots \ {s} : cq'[t] = cq[t]
    BY <1>1, <1>3, LedgerTypes
  <2> QED BY <2>1, <2>2
<1>8. ASSUME clean PROVE Ledger'
  <2>1. Ledger
    BY <1>8 DEF FrontierInv
  <2>2. reg = gen /\ reg' = gen'
    BY <1>1, <1>3, <1>8, FlightIsCurrent
  <2>3. file' = file \o buf[s] /\ Len(file') = Len(file) + Len(buf[s])
    <3>1. file' = file \o buf[s]
      BY <1>1, <2>2 DEF Land
    <3>2. file \in Seq(Nat) /\ buf[s] \in Seq(Nat)
      BY <1>3, LedgerTypes
    <3> QED BY <3>1, <3>2, ConcatProperties, Zenon
  <2>4. s \in ToWrite /\ ToWrite' = ToWrite \ {s} /\ ToReap' = ToReap /\ buf' = buf
    BY <1>1, <1>2, <1>3, <1>4, LedgerTypes, SMTT(30) DEF ToWrite, ToReap
  <2>5. /\ IsFiniteSet(Bytes(buf, ToWrite'))
        /\ Cardinality(Bytes(buf, ToWrite)) = Cardinality(Bytes(buf, ToWrite')) + Len(buf[s])
    BY <1>3, <2>1, <2>4, LedgerTypes, DropSlot, Zenon DEF Ledger
  <2>6. Cardinality(Bytes(buf, ToWrite')) \in Nat
    BY <2>5, FS_CardinalityType
  <2>7. submitted = Len(file) + Cardinality(Bytes(buf, ToWrite))
    BY <2>1 DEF Ledger
  <2>8. submitted = Len(file') + Cardinality(Bytes(buf, ToWrite'))
    BY <1>3, <2>3, <2>5, <2>6, <2>7, LedgerTypes
  <2>9. Completions'
    <3> SUFFICES ASSUME NEW t \in Slots, NEW j \in DOMAIN cq'[t]
                 PROVE  cq'[t][j] = IF seen[t] + j = 1 THEN Len(buf[t]) ELSE 0
      BY <1>1, <1>2 DEF Completions
    <3>1. CASE t = s
      BY <1>6, <1>7, <3>1
    <3>2. CASE t # s
      BY <1>7, <2>1, <3>2 DEF Ledger, Completions
    <3> QED BY <3>1, <3>2
  <2>10. ran'[s] = 1
    BY <1>1, <1>3, LedgerTypes
  <2>11. IsFiniteSet(Bytes(buf, ToReap)) /\ submitted = offset + Cardinality(Bytes(buf, ToReap))
    BY <2>1 DEF Ledger
  <2> QED BY <1>1, <1>3, <2>2, <2>4, <2>5, <2>8, <2>9, <2>10, <2>11, Zenon DEF Ledger
<1> QED BY <1>1, <1>2, <1>8 DEF FrontierInv

(* The fdatasync of a slot: everything in the file is durable. *)
LEMMA SyncLedger ==
  ASSUME IInv, FrontierInv, NEW i \in DOMAIN inflight, KernelSync(i)
  PROVE  FrontierInv'
<1> DEFINE s == inflight[i]
<1>1. /\ ran[s] = 1 /\ ran' = [ran EXCEPT ![s] = 2]
      /\ UNCHANGED <<poolVars, seen, submitted, offset, file, gen, reg>>
  BY DEF KernelSync, countVars
<1>2. UNCHANGED <<free, cur, completed, outstanding, buf>>
  BY <1>1 DEF poolVars
<1>3. s \in Slots /\ s \in Range(inflight) /\ inflight # <<>>
  <2>1. inflight \in Seq(Slots) /\ DOMAIN inflight = 1..Len(inflight)
    BY LenProperties DEF IInv, TypeOK, PoolType
  <2> QED BY <2>1, ElementOfSeq, EmptySeq DEF Range
<1>4. ASSUME clean' PROVE Ledger'
  <2>1. /\ clean /\ cq' = [cq EXCEPT ![s] = Append(@, 0)]
        /\ synced' = IF reg = gen THEN Len(file) ELSE synced
    BY <1>4, Zenon DEF KernelSync
  <2> HIDE DEF s
  <2>2. Ledger
    BY <2>1 DEF FrontierInv
  <2>3. reg = gen /\ reg' = gen' /\ synced' = Len(file')
    BY <1>1, <1>3, <2>1, FlightIsCurrent
  <2>4. ToWrite' = ToWrite /\ ToReap' = ToReap /\ buf' = buf
    BY <1>1, <1>2, <1>3, LedgerTypes DEF ToWrite, ToReap
  <2>5. cq[s] \in Seq(Int) /\ Len(cq[s]) \in Nat /\ seen[s] \in 0..2 /\ seen[s] + Len(cq[s]) = 1
    BY <1>1, <1>3, LedgerTypes, LenProperties, Zenon DEF IInv, RingInv
  <2>6. /\ cq'[s] = Append(cq[s], 0) /\ DOMAIN cq'[s] = 1..(Len(cq[s]) + 1)
        /\ cq'[s][Len(cq[s]) + 1] = 0 /\ DOMAIN cq[s] = 1..Len(cq[s])
        /\ \A j \in 1..Len(cq[s]) : cq'[s][j] = cq[s][j]
        /\ \A t \in Slots \ {s} : cq'[t] = cq[t]
    <3>1. cq'[s] = Append(cq[s], 0) /\ \A t \in Slots \ {s} : cq'[t] = cq[t]
      BY <1>3, <2>1, LedgerTypes
    <3>2. /\ cq'[s] \in Seq(Int) /\ Len(cq'[s]) = Len(cq[s]) + 1 /\ cq'[s][Len(cq[s]) + 1] = 0
          /\ \A j \in 1..Len(cq[s]) : cq'[s][j] = cq[s][j]
      <4>1. ASSUME NEW q \in Seq(Int)
            PROVE  /\ Append(q, 0) \in Seq(Int) /\ Len(Append(q, 0)) = Len(q) + 1
                   /\ Append(q, 0)[Len(q) + 1] = 0
                   /\ \A j \in 1..Len(q) : Append(q, 0)[j] = q[j]
        <5>1. 0 \in Int
          OBVIOUS
        <5> QED BY <5>1, AppendProperties, SMTT(30)
      <4> QED BY <2>5, <3>1, <4>1, ZenonT(40)
    <3>3. DOMAIN cq'[s] = 1..Len(cq'[s]) /\ DOMAIN cq[s] = 1..Len(cq[s])
      BY <2>5, <3>2, LenProperties, Zenon
    <3> QED BY <3>1, <3>2, <3>3, Zenon
  <2>7. Completions'
    <3> SUFFICES ASSUME NEW t \in Slots, NEW j \in DOMAIN cq'[t]
                 PROVE  cq'[t][j] = IF seen[t] + j = 1 THEN Len(buf[t]) ELSE 0
      BY <1>1, <1>2 DEF Completions
    <3>1. CASE t = s /\ j = Len(cq[s]) + 1
      <4>1. seen[s] + j = 2
        BY <2>5, <3>1
      <4> QED BY <2>6, <3>1, <4>1
    <3>2. CASE t = s /\ j # Len(cq[s]) + 1
      <4>1. j \in DOMAIN cq[s] /\ cq'[s][j] = cq[s][j]
        BY <2>5, <2>6, <3>2, SMTT(30)
      <4> QED BY <2>2, <3>2, <4>1 DEF Ledger, Completions
    <3>3. CASE t # s
      BY <2>2, <2>6, <3>3, SMTT(30) DEF Ledger, Completions
    <3> QED BY <3>1, <3>2, <3>3
  <2> QED BY <1>1, <2>2, <2>3, <2>4, <2>7 DEF Ledger
<1>5. clean' => clean
  BY Zenon DEF KernelSync
<1> QED BY <1>2, <1>4 DEF FrontierInv

(* What is behind the head of a list moves up by one place. *)
LEMMA TailShifts ==
  ASSUME NEW S, NEW q \in Seq(S), q # <<>>
  PROVE  /\ DOMAIN Tail(q) = 1..(Len(q) - 1)
         /\ \A j \in 1..(Len(q) - 1) : Tail(q)[j] = q[j + 1]
OBVIOUS

(* reap_completions_inline: the write's completion is counted with its     *)
(* length, that of the fdatasync with nothing.                             *)
LEMMA CountedLedger ==
  ASSUME IInv, FrontierInv, NEW s \in Slots, ReapCompletion(s)
  PROVE  FrontierInv'
<1> DEFINE res == Head(cq[s])
<1>1. /\ cq[s] # <<>>
      /\ offset' = IF res > 0 THEN offset + res ELSE offset
      /\ seen' = [seen EXCEPT ![s] = @ + 1] /\ cq' = [cq EXCEPT ![s] = Tail(@)]
      /\ UNCHANGED <<free, cur, buf, submitted, file, synced, gen, reg, clean>>
      /\ IF seen[s] = 1
         THEN completed' = completed \cup {s} /\ ran' = [ran EXCEPT ![s] = 0]
         ELSE UNCHANGED <<completed, outstanding, ran>>
  BY Zenon DEF ReapCompletion, LastCompletion, OffsetAfter, fileVars
<1>2. s \in Range(inflight) /\ s \notin completed /\ inflight # <<>>
  <2>1. s \in Range(inflight)
    BY <1>1, Zenon DEF IInv, RingInv
  <2> QED BY <2>1 DEF IInv, SlotOwnership, Range
<1>3. /\ cq[s] \in Seq(Int) /\ Len(cq[s]) \in Nat /\ Len(cq[s]) > 0 /\ seen[s] \in 0..1
      /\ seen[s] + Len(cq[s]) = ran[s] /\ ran[s] \in 0..2 /\ DOMAIN cq[s] = 1..Len(cq[s])
      /\ res = cq[s][1]
  <2>1. cq[s] \in Seq(Int) /\ seen[s] \in 0..2 /\ ran[s] \in 0..2
    BY LedgerTypes
  <2>2. seen[s] < 2 /\ seen[s] + Len(cq[s]) = ran[s]
    BY <1>2 DEF IInv, RingInv
  <2> QED BY <1>1, <2>1, <2>2, LenProperties, EmptySeq, HeadTailProperties
<1>4. /\ DOMAIN cq'[s] = 1..(Len(cq[s]) - 1)
      /\ \A j \in 1..(Len(cq[s]) - 1) : cq'[s][j] = cq[s][j + 1]
      /\ \A t \in Slots \ {s} : cq'[t] = cq[t]
  <2>1. cq'[s] = Tail(cq[s]) /\ \A t \in Slots \ {s} : cq'[t] = cq[t]
    BY <1>1, LedgerTypes
  <2> QED BY <1>1, <1>3, <2>1, TailShifts, ZenonT(40)
<1>5. seen'[s] = seen[s] + 1 /\ \A t \in Slots \ {s} : seen'[t] = seen[t]
  BY <1>1, LedgerTypes
<1> HIDE DEF res
<1>6. ASSUME clean PROVE Ledger'
  <2>1. Ledger
    BY <1>6 DEF FrontierInv
  <2>2. reg' = gen'
    BY <1>1, <1>2, <1>6, FlightIsCurrent
  <2>3. res = IF seen[s] = 0 THEN Len(buf[s]) ELSE 0
    <3>1. 1 \in DOMAIN cq[s]
      BY <1>3
    <3>2. cq[s][1] = IF seen[s] + 1 = 1 THEN Len(buf[s]) ELSE 0
      BY <2>1, <3>1, Zenon DEF Ledger, Completions
    <3>3. seen[s] + 1 = 1 <=> seen[s] = 0
      BY <1>3
    <3> QED BY <1>3, <3>2, <3>3, Zenon
  <2>4. Completions'
    <3> SUFFICES ASSUME NEW t \in Slots, NEW j \in DOMAIN cq'[t]
                 PROVE  cq'[t][j] = IF seen'[t] + j = 1 THEN Len(buf[t]) ELSE 0
      BY <1>1 DEF Completions
    <3>1. CASE t = s
      <4>1. /\ j + 1 \in DOMAIN cq[s] /\ cq'[s][j] = cq[s][j + 1]
            /\ seen'[s] + j = seen[s] + (j + 1)
        <5>1. j \in 1..(Len(cq[s]) - 1)
          <6>1. DOMAIN cq'[t] = DOMAIN cq'[s]
            BY <3>1
          <6> QED BY <1>4, <6>1
        <5>2. ASSUME NEW n \in Nat, NEW m \in 0..1, j \in 1..(n - 1)
              PROVE  j + 1 \in 1..n /\ m + 1 + j = m + (j + 1)
          BY <5>2
        <5>3. Len(cq[s]) \in Nat /\ seen[s] \in 0..1
          BY <1>3
        <5>4. j + 1 \in 1..Len(cq[s]) /\ seen[s] + 1 + j = seen[s] + (j + 1)
          BY <5>1, <5>2, <5>3
        <5> QED BY <1>3, <1>4, <1>5, <5>1, <5>4, Zenon
      <4>2. cq[s][j + 1] = IF seen[s] + (j + 1) = 1 THEN Len(buf[s]) ELSE 0
        BY <2>1, <4>1, Zenon DEF Ledger, Completions
      <4> QED BY <3>1, <4>1, <4>2
    <3>2. CASE t # s
      <4>1. cq'[t] = cq[t] /\ seen'[t] = seen[t] /\ j \in DOMAIN cq[t]
        BY <1>4, <1>5, <3>2, Zenon
      <4>2. cq[t][j] = IF seen[t] + j = 1 THEN Len(buf[t]) ELSE 0
        BY <2>1, <4>1, Zenon DEF Ledger, Completions
      <4> QED BY <4>1, <4>2, Zenon
    <3> QED BY <3>1, <3>2
  <2>5. ToWrite' = ToWrite /\ \A t \in Slots : ran[t] = 1 /\ ran'[t] # 1 => t = s /\ seen[s] = 1
    BY <1>1, <1>2, <1>3, LedgerTypes, SMTT(30) DEF ToWrite
  <2>6. (synced = Len(file) \/ \E t \in Slots : ran[t] = 1)'
    <3>1. seen[s] = 1 => ran[s] = 2
      BY <1>3
    <3>2. UNCHANGED <<file, synced>> /\ (ran[s] = 2 => ran[s] # 1)
      BY <1>1
    <3>3. synced = Len(file) \/ \E t \in Slots : ran[t] = 1
      BY <2>1 DEF Ledger
    <3> QED BY <2>5, <3>1, <3>2, <3>3, Zenon
  <2>7. /\ IsFiniteSet(Bytes(buf, ToReap'))
        /\ submitted = offset' + Cardinality(Bytes(buf, ToReap'))
    <3>0. /\ IsFiniteSet(Bytes(buf, ToReap)) /\ Cardinality(Bytes(buf, ToReap)) \in Nat
          /\ submitted = offset + Cardinality(Bytes(buf, ToReap))
      BY <2>1, FS_CardinalityType DEF Ledger
    <3>1. CASE seen[s] = 0
      <4>1. s \in ToReap /\ ToReap' = ToReap \ {s}
        BY <1>1, <1>2, <1>5, <3>1, LedgerTypes, SMTT(30) DEF ToReap
      <4>2. /\ IsFiniteSet(Bytes(buf, ToReap'))
            /\ Cardinality(Bytes(buf, ToReap)) = Cardinality(Bytes(buf, ToReap')) + Len(buf[s])
        BY <3>0, <4>1, LedgerTypes, DropSlot, Zenon
      <4>3. Cardinality(Bytes(buf, ToReap')) \in Nat
        BY <4>2, FS_CardinalityType
      <4>4. offset' = offset + Len(buf[s])
        BY <1>1, <2>3, <3>1, LedgerTypes
      <4> QED BY <3>0, <4>2, <4>3, <4>4, LedgerTypes
    <3>2. CASE seen[s] # 0
      <4>1. ToReap' = ToReap
        BY <1>1, <1>2, <1>3, <1>5, <3>2, SMTT(30) DEF ToReap
      <4>2. offset' = offset
        BY <1>1, <2>3, <3>2
      <4> QED BY <3>0, <4>1, <4>2
    <3> QED BY <3>1, <3>2
  <2>8. /\ IsFiniteSet(Bytes(buf, ToWrite'))
        /\ submitted = Len(file) + Cardinality(Bytes(buf, ToWrite'))
    BY <2>1, <2>5, Zenon DEF Ledger
  <2> QED BY <1>1, <2>2, <2>4, <2>6, <2>7, <2>8 DEF Ledger
<1> QED BY <1>1, <1>6, Zenon DEF FrontierInv

(* persist_init: nothing accepted, nothing written. *)
LEMMA FrontierInit == Init => FrontierInv
<1> SUFFICES ASSUME Init PROVE FrontierInv OBVIOUS
<1>1. \A s \in Slots : buf[s] = <<>> /\ cq[s] = <<>>
  BY DEF Init
<1>2. IsFiniteSet(Bytes(buf, ToWrite)) /\ Cardinality(Bytes(buf, ToWrite)) = 0
  BY <1>1, NoBytes DEF ToWrite
<1>3. IsFiniteSet(Bytes(buf, ToReap)) /\ Cardinality(Bytes(buf, ToReap)) = 0
  BY <1>1, NoBytes DEF ToReap
<1>4. Completions
  BY <1>1 DEF Completions
<1>5. /\ free = Slots /\ submitted = 0 /\ offset = 0 /\ synced = 0 /\ file = <<>> /\ reg = gen
  BY DEF Init
<1>6. Len(file) = 0
  BY <1>5, EmptySeq
<1>7. Ledger
  BY <1>2, <1>3, <1>4, <1>5, <1>6 DEF Ledger
<1> QED BY <1>1, <1>5, <1>7 DEF FrontierInv

(* Every step of the two threads and of the kernel keeps the ledger. *)
LEMMA FrontierStep == IInv /\ FrontierInv /\ [Next]_vars => FrontierInv'
<1> SUFFICES ASSUME IInv, FrontierInv, [Next]_vars PROVE FrontierInv' OBVIOUS
<1>q. ASSUME UNCHANGED <<poolVars, ran, cq, seen, submitted, offset, file, synced, clean>>,
             UNCHANGED <<gen, reg>> \/ reg' = gen'
      PROVE  FrontierInv'
  <2>1. /\ UNCHANGED <<free, completed, buf, cur, outstanding>>
        /\ UNCHANGED <<ran, cq, seen, submitted, offset, file, synced, clean>>
    BY <1>q DEF poolVars
  <2>2. CurLen' = CurLen
    BY <2>1 DEF CurLen
  <2>3. clean => (reg' # gen' => outstanding' = 0 /\ CurLen' = 0)
    BY <1>q, <2>1, <2>2, Zenon DEF FrontierInv, Ledger
  <2> QED BY <2>1, <2>3, LedgerKept
<1>1. CASE \/ FlushPending \/ Wake \/ DrainPending \/ DrainRequest \/ DrainReturn
           \/ ReregisterReturn \/ StopRequest \/ Join
  BY <1>1, <1>q, Zenon DEF FlushPending, Wake, DrainPending, DrainRequest, DrainReturn,
     ReregisterReturn, StopRequest, Join, ringVars, countVars, fileVars
<1>2. CASE UringInit \/ ReadWake \/ FetchFlags \/ SubmitDone
  BY <1>2, <1>q, Zenon DEF UringInit, ReadWake, FetchFlags, SubmitDone, ringVars, countVars, fileVars
<1>3. CASE DrainDone
  BY <1>3, <1>q DEF DrainDone, ringVars, countVars
<1>4. ASSUME NEW s \in Slots, AppendTooBig(s) PROVE FrontierInv'
  <2>1. /\ free' \subseteq free /\ mpc = "run"
        /\ UNCHANGED <<completed, buf, ran, cq, seen, submitted, offset, file, synced, clean, gen, reg>>
    BY <1>4 DEF AppendTooBig, ringVars, countVars, fileVars
  <2>2. reg' = gen'
    BY <2>1 DEF IInv, FenceInv, AtRegFence
  <2> QED BY <2>1, <2>2, LedgerKept
<1>5. CASE HandoffCurrentSlot
  <2>1. /\ free' = free /\ mpc \in {"flush", "handoff"}
        /\ UNCHANGED <<completed, buf, ran, cq, seen, submitted, offset, file, synced, clean, gen, reg>>
    BY <1>5 DEF HandoffCurrentSlot, ringVars, countVars, fileVars
  <2>2. reg' = gen'
    BY <2>1 DEF IInv, FenceInv, AtRegFence
  <2> QED BY <2>1, <2>2, LedgerKept
<1>6. CASE SubmitOneSlot
  <2>1. /\ free' = free /\ ready # <<>>
        /\ UNCHANGED <<completed, buf, ran, cq, seen, submitted, offset, file, synced, clean, gen, reg>>
    BY <1>6 DEF SubmitOneSlot, ringVars, countVars, fileVars
  <2>2. clean => reg' = gen'
    BY <2>1, FlightIsCurrent
  <2> QED BY <2>1, <2>2, LedgerKept
<1>7. CASE Kernel
  <2>1. PICK i \in DOMAIN inflight :
          \/ KernelWrite(i) \/ KernelSync(i)
          \/ \E n \in 0..(SlotMax - 1) : KernelWriteFails(i, n)
    BY <1>7 DEF Kernel
  <2>2. ASSUME NEW n \in 0..(SlotMax - 1), KernelWriteFails(i, n) PROVE FrontierInv'
    <3>1. ~clean' /\ UNCHANGED <<free, buf>>
      BY <2>2 DEF KernelWriteFails, poolVars
    <3> QED BY <3>1 DEF FrontierInv
  <2> QED BY <2>1, <2>2, WriteLedger, SyncLedger
<1>8. CASE UNCHANGED vars
  BY <1>8, <1>q DEF vars, ringVars, countVars, fileVars
<1> QED BY <1>1, <1>2, <1>3, <1>4, <1>5, <1>6, <1>7, <1>8, AppendLedger, ReapedLedger, RewriteLedger,
           CountedLedger DEF Next, Main, AofThread, Terminated

(* After a drain g_aof_write_offset = g_aof_write_submitted = the durable  *)
(* length of the AOF, so that SAVE and BGSAVE may put it in the dump's     *)
(* header: for any number of slots in flight, completed in any order, and  *)
(* across every rewrite that found the pipeline idle.                      *)
THEOREM DrainedFrontierHolds == Spec => []DrainedFrontier
<1>1. IInv /\ FrontierInv => DrainedFrontier
  <2> SUFFICES ASSUME IInv, FrontierInv, clean, mpc = "fence", drainDone
               PROVE  offset = submitted /\ offset = synced /\ synced = Len(file)
    BY DEF DrainedFrontier
  <2>1. CurLen = 0 /\ outstanding = 0
    BY DEF IInv, FenceInv, AtFence
  <2>2. \A s \in Slots \ completed : buf[s] = <<>>
    BY <2>1, IdleIsEmpty
  <2>3. Cardinality(Bytes(buf, ToWrite)) = 0
    BY <2>2, NoBytes DEF ToWrite
  <2>4. Cardinality(Bytes(buf, ToReap)) = 0
    BY <2>2, NoBytes DEF ToReap
  <2>5. \A s \in Slots : ran[s] = 0
    <3>1. ready \in Seq(Slots) /\ inflight \in Seq(Slots) /\ Len(ready) \in Nat /\ Len(inflight) \in Nat
      BY LenProperties DEF IInv, TypeOK, PoolType
    <3>2. Len(inflight) = 0
      BY <2>1, <3>1 DEF IInv, OutstandingExact
    <3>3. Range(inflight) = {}
      BY <3>1, <3>2, EmptySeq, SMT DEF Range
    <3> QED BY <3>3 DEF IInv, RingInv
  <2>6. /\ submitted = Len(file) + Cardinality(Bytes(buf, ToWrite))
        /\ submitted = offset + Cardinality(Bytes(buf, ToReap))
        /\ synced = Len(file)
    BY <2>5, SMTT(30) DEF FrontierInv, Ledger
  <2>7. submitted \in Nat /\ offset \in Nat /\ Len(file) \in Nat
    BY LedgerTypes
  <2> QED BY <2>3, <2>4, <2>6, <2>7
<1>2. Init => IInv /\ FrontierInv
  BY InitIInv, FrontierInit
<1>3. IInv /\ FrontierInv /\ [Next]_vars => (IInv /\ FrontierInv)'
  BY NextIInv, FrontierStep
<1> QED BY <1>1, <1>2, <1>3, PTL DEF Spec
=============================================================================
