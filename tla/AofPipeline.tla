---------------------------- MODULE AofPipeline ----------------------------
(***************************************************************************)
(* The asynchronous append-only-file pipeline of kvs_persist.c: the main   *)
(* (reactor) thread fills a write-in-place slot and hands it off, the AOF  *)
(* thread owns the io_uring, submits write(IOSQE_IO_LINK)+fdatasync per    *)
(* slot and reaps the completions, and the kernel runs the requests.       *)
(*                                                                         *)
(*   free -> g_cur_slot -> ready -> in flight -> completed -> free         *)
(*                                                                         *)
(* Data: a command is its number in the order of acceptance and occupies   *)
(* one unit of the file; 0 stands for a unit of a rewritten snapshot.      *)
(* The AOF is opened O_APPEND, so a write lands at the end of the inode    *)
(* whatever offset the SQE carries (slot->base_offset has no effect).      *)
(***************************************************************************)
EXTENDS Integers, Sequences, Functions

CONSTANTS
  Slots,          \* g_inflight[PERSIST_INFLIGHT_SIZE]
  NoSlot,         \* the NULL slot pointer
  MaxOutstanding, \* MAX_OUTSTANDING
  SlotMax,        \* AOF_SLOT_MAX, in commands
  MaxCmds,        \* bound on the commands accepted
  MaxRewrites,    \* bound on the AOF rewrites finalised
  SnapMax,        \* bound on the size of a rewritten AOF
  InOrder,        \* the kernel runs the writes of different slots in order
  IoMayFail,      \* a write may fail or be short, a fdatasync may fail
  InitMayFail     \* the io_uring cannot be created

ASSUME SlotsAssumption == NoSlot \notin Slots
ASSUME MaxOutstandingAssumption == MaxOutstanding \in Nat \ {0}
ASSUME BoundsAssumption == SlotMax \in Nat \ {0} /\ MaxCmds \in Nat
                        /\ MaxRewrites \in Nat /\ SnapMax \in Nat
ASSUME SwitchesAssumption == {InOrder, IoMayFail, InitMayFail} \subseteq BOOLEAN

VARIABLES
  \* slot pool
  free, cur, ready, inflight, completed, outstanding,
  buf,         \* slot -> commands in aof_buf
  \* io_uring: requests of a slot the kernel has run, completions not reaped,
  \* completions reaped (cqe_seen, cqe_ok)
  ran, cq, seen, ok,
  \* counters and flags
  submitted, offset, fatal, ncmd,
  \* the file: content of the inode behind aof_path, its durable length, the
  \* inode aof_path names and the inode registered with the ring
  file, synced, gen, reg,
  \* the two threads and their mailbox
  mpc, ret, tpc, flags, work, wake, drainDone, regDone,
  \* history: no I/O error and no rewrite finalised over a busy pipeline
  clean

poolVars   == <<free, cur, ready, inflight, completed, outstanding, buf>>
ringVars   == <<ran, cq, seen, ok>>
countVars  == <<submitted, offset, fatal, ncmd>>
fileVars   == <<file, synced, gen, reg>>
threadVars == <<mpc, ret, tpc, flags, work, wake, drainDone, regDone>>
vars       == <<poolVars, ringVars, countVars, fileVars, threadVars, clean>>

MainPc == {"run", "flush", "handoff", "drain", "wake", "reap", "fence",
           "regfence", "stop", "join", "closed"}
AofPc  == {"init", "poll", "fetch", "reregister", "regwait", "drain",
           "drainwait", "submit", "dead", "stopped"}
Work   == {"DRAIN", "REREGISTER", "STOP"}

(* q without its element s. *)
SeqWithout(q, s) ==
  LET i == CHOOSE i \in DOMAIN q : q[i] = s
  IN  SubSeq(q, 1, i - 1) \o SubSeq(q, i + 1, Len(q))

CurLen == IF cur = NoSlot THEN 0 ELSE Len(buf[cur])

(* persist_init: every slot free, the AOF empty, the AOF thread starting.  *)
Init ==
  /\ free = Slots /\ cur = NoSlot /\ ready = <<>> /\ inflight = <<>>
  /\ completed = {} /\ outstanding = 0
  /\ buf = [s \in Slots |-> <<>>]
  /\ ran = [s \in Slots |-> 0] /\ cq = [s \in Slots |-> <<>>]
  /\ seen = [s \in Slots |-> 0] /\ ok = [s \in Slots |-> 0]
  /\ submitted = 0 /\ offset = 0 /\ fatal = FALSE /\ ncmd = 0
  /\ file = <<>> /\ synced = 0 /\ gen = 0 /\ reg = 0
  /\ mpc = "run" /\ ret = "run" /\ tpc = "init"
  /\ flags = {} /\ work = {} /\ wake = FALSE
  /\ drainDone = FALSE /\ regDone = FALSE
  /\ clean = TRUE

-----------------------------------------------------------------------------
(* Main thread. *)

(* drain_completed: all completed slots go back to the free list. *)
DrainCompleted ==
  /\ free' = free \cup completed
  /\ completed' = {}
  /\ buf'  = [s \in Slots |-> IF s \in completed THEN <<>> ELSE buf[s]]
  /\ seen' = [s \in Slots |-> IF s \in completed THEN 0 ELSE seen[s]]
  /\ ok'   = [s \in Slots |-> IF s \in completed THEN 0 ELSE ok[s]]

(* persist_append_prepare, asynchronous path: take a slot if there is no   *)
(* current one, append, and flush when the slot is full or, per command,   *)
(* always.                                                                 *)
Append1(s) ==
  /\ mpc = "run" /\ ~fatal /\ ncmd < MaxCmds
  /\ IF cur = NoSlot THEN s \in free ELSE s = cur
  /\ Len(buf[s]) < SlotMax
  /\ free' = free \ {s} /\ cur' = s
  /\ ncmd' = ncmd + 1
  /\ buf' = [buf EXCEPT ![s] = Append(@, ncmd + 1)]
  /\ submitted' = submitted + 1
  /\ \E perCommand \in BOOLEAN :
       mpc' = IF perCommand \/ Len(buf[s]) + 1 >= SlotMax THEN "flush" ELSE "run"
  /\ UNCHANGED <<ready, inflight, completed, outstanding, ringVars, offset, fatal,
                 fileVars, ret, tpc, flags, work, wake, drainDone, regDone, clean>>

(* persist_append_prepare returning KVS_PERSIST_ERR: the command does not  *)
(* fit under AOF_SLOT_MAX.  The slot taken for it stays the current slot.  *)
AppendTooBig(s) ==
  /\ mpc = "run" /\ ~fatal /\ cur = NoSlot
  /\ s \in free
  /\ free' = free \ {s} /\ cur' = s
  /\ UNCHANGED <<ready, inflight, completed, outstanding, buf, ringVars, countVars,
                 fileVars, threadVars, clean>>

(* persist_reap_completions: the flush inside the window, the wait for a   *)
(* free slot, the spin of handoff_current_slot and the tail of a flush.    *)
MainReap ==
  /\ mpc \in {"run", "flush", "handoff", "reap"}
  /\ mpc = "reap" \/ completed # {}
  /\ DrainCompleted
  /\ mpc' = IF mpc = "reap" THEN "run" ELSE mpc
  /\ UNCHANGED <<cur, ready, inflight, outstanding, ran, cq, countVars, fileVars,
                 ret, tpc, flags, work, wake, drainDone, regDone, clean>>

(* Mutants of FlushPending: no check for an empty slot, and a flush of     *)
(* full slots only.                                                        *)
FlushPendingEmpty ==
  /\ mpc = "run"
  /\ mpc' = "flush"
  /\ UNCHANGED <<poolVars, ringVars, countVars, fileVars, ret, tpc, flags, work,
                 wake, drainDone, regDone, clean>>
FlushPendingFull ==
  /\ mpc = "run" /\ CurLen = SlotMax
  /\ mpc' = "flush"
  /\ UNCHANGED <<poolVars, ringVars, countVars, fileVars, ret, tpc, flags, work,
                 wake, drainDone, regDone, clean>>

(* persist_flush_pending once the group-commit window is over. *)
FlushPending ==
  /\ mpc = "run" /\ CurLen > 0
  /\ mpc' = "flush"
  /\ UNCHANGED <<poolVars, ringVars, countVars, fileVars, ret, tpc, flags, work,
                 wake, drainDone, regDone, clean>>

(* The back-pressure test of handoff_current_slot, and a mutant of it that *)
(* admits one slot too many.                                               *)
HandoffRoomOffByOne == outstanding <= MaxOutstanding
HandoffRoom == outstanding < MaxOutstanding

(* Mutants of HandoffCurrentSlot: g_cur_slot is not reset; the flush does  *)
(* not wake the AOF thread.                                                *)
HandoffKeepsCur ==
  /\ mpc \in {"flush", "handoff"} /\ HandoffRoom
  /\ ready' = Append(ready, cur) /\ outstanding' = outstanding + 1
  /\ mpc' = IF mpc = "flush" THEN "wake" ELSE "drain"
  /\ ret' = IF mpc = "flush" THEN "reap" ELSE ret
  /\ UNCHANGED <<free, cur, inflight, completed, buf, ringVars, countVars, fileVars,
                 tpc, flags, work, wake, drainDone, regDone, clean>>
HandoffNoWake ==
  /\ mpc \in {"flush", "handoff"} /\ HandoffRoom
  /\ ready' = Append(ready, cur) /\ outstanding' = outstanding + 1
  /\ cur' = NoSlot
  /\ mpc' = IF mpc = "flush" THEN "reap" ELSE "drain"
  /\ UNCHANGED <<free, inflight, completed, buf, ringVars, countVars, fileVars, ret,
                 tpc, flags, work, wake, drainDone, regDone, clean>>

(* handoff_current_slot past its back-pressure loop: push to ready.  The   *)
(* flush then wakes the AOF thread; the drain goes on to its request.      *)
HandoffCurrentSlot ==
  /\ mpc \in {"flush", "handoff"} /\ HandoffRoom
  /\ ready' = Append(ready, cur) /\ outstanding' = outstanding + 1
  /\ cur' = NoSlot
  /\ mpc' = IF mpc = "flush" THEN "wake" ELSE "drain"
  /\ ret' = IF mpc = "flush" THEN "reap" ELSE ret
  /\ UNCHANGED <<free, inflight, completed, buf, ringVars, countVars, fileVars,
                 tpc, flags, work, wake, drainDone, regDone, clean>>

(* aof_work_request, first half: raise a flag; the eventfd write follows.  *)
AofWorkRequest(flag, next) ==
  /\ flags' = flags \cup {flag}
  /\ mpc' = "wake" /\ ret' = next

(* Second half of aof_work_request, and the signal of a flush. *)
Wake ==
  /\ mpc = "wake"
  /\ wake' = TRUE /\ mpc' = ret
  /\ UNCHANGED <<poolVars, ringVars, countVars, fileVars, ret, tpc, flags, work,
                 drainDone, regDone, clean>>

(* Mutant of DrainPending: the current slot is not handed off. *)
DrainPendingNoHandoff ==
  /\ mpc = "run"
  /\ mpc' = "drain"
  /\ UNCHANGED <<poolVars, ringVars, countVars, fileVars, ret, tpc, flags, work,
                 wake, drainDone, regDone, clean>>

(* persist_drain_pending, up to its hand-off. *)
DrainPending ==
  /\ mpc = "run"
  /\ mpc' = IF CurLen > 0 THEN "handoff" ELSE "drain"
  /\ UNCHANGED <<poolVars, ringVars, countVars, fileVars, ret, tpc, flags, work,
                 wake, drainDone, regDone, clean>>

(* persist_drain_pending: clear the fence and request the drain. *)
DrainRequest ==
  /\ mpc = "drain"
  /\ drainDone' = FALSE
  /\ AofWorkRequest("DRAIN", "fence")
  /\ UNCHANGED <<poolVars, ringVars, countVars, fileVars, tpc, work, wake, regDone, clean>>

(* fence_wait returns in persist_drain_pending; SAVE, BGSAVE and           *)
(* BGREWRITEAOF go on with g_aof_write_offset, persist_close with STOP.    *)
DrainReturn ==
  /\ mpc = "fence" /\ drainDone
  /\ mpc' \in {"run", "stop"}
  /\ UNCHANGED <<poolVars, ringVars, countVars, fileVars, ret, tpc, flags, work,
                 wake, drainDone, regDone, clean>>

(* finalize_rewrite_parent: the rewritten file, whose content reflects all *)
(* accepted commands, replaces aof_path, the counters restart at its size, *)
(* and the AOF thread is asked to switch to the new descriptor.            *)
FinalizeRewrite(size) ==
  /\ mpc = "run" /\ gen < MaxRewrites
  /\ gen' = gen + 1
  /\ file' = [i \in 1..size |-> 0] /\ synced' = size
  /\ offset' = size /\ submitted' = size
  /\ clean' = (clean /\ outstanding = 0 /\ CurLen = 0)
  /\ regDone' = FALSE
  /\ AofWorkRequest("REREGISTER", "regfence")
  /\ UNCHANGED <<poolVars, ringVars, fatal, ncmd, reg, tpc, work, wake, drainDone>>

(* Mutant of ReregisterReturn: the request is not waited for. *)
ReregisterNoWait ==
  /\ mpc = "regfence"
  /\ mpc' = "run"
  /\ UNCHANGED <<poolVars, ringVars, countVars, fileVars, ret, tpc, flags, work,
                 wake, drainDone, regDone, clean>>

(* fence_wait returns in persist_reregister_aof_fd. *)
ReregisterReturn ==
  /\ mpc = "regfence" /\ regDone
  /\ mpc' = "run"
  /\ UNCHANGED <<poolVars, ringVars, countVars, fileVars, ret, tpc, flags, work,
                 wake, drainDone, regDone, clean>>

(* persist_close after its drain: request STOP, then join the thread. *)
StopRequest ==
  /\ mpc = "stop"
  /\ AofWorkRequest("STOP", "join")
  /\ UNCHANGED <<poolVars, ringVars, countVars, fileVars, tpc, work, wake,
                 drainDone, regDone, clean>>

Join ==
  /\ mpc = "join" /\ tpc = "stopped"
  /\ mpc' = "closed"
  /\ UNCHANGED <<poolVars, ringVars, countVars, fileVars, ret, tpc, flags, work,
                 wake, drainDone, regDone, clean>>

Main == \/ \E s \in Slots : Append1(s) \/ AppendTooBig(s)
        \/ MainReap \/ FlushPending \/ HandoffCurrentSlot \/ Wake
        \/ DrainPending \/ DrainRequest \/ DrainReturn
        \/ \E size \in 0..SnapMax : FinalizeRewrite(size)
        \/ ReregisterReturn \/ StopRequest \/ Join

-----------------------------------------------------------------------------
(* AOF thread. *)

(* persist_uring_init_once at the start of aof_thread_main. *)
UringInit ==
  /\ tpc = "init"
  /\ \/ tpc' = "poll" /\ UNCHANGED fatal
     \/ InitMayFail /\ tpc' = "dead" /\ fatal' = TRUE
  /\ UNCHANGED <<poolVars, ringVars, submitted, offset, ncmd, fileVars, mpc, ret,
                 flags, work, wake, drainDone, regDone, clean>>

(* poll() reports the wake eventfd: reset it, then fetch the flags. *)
ReadWake ==
  /\ tpc = "poll" /\ wake
  /\ wake' = FALSE /\ tpc' = "fetch"
  /\ UNCHANGED <<poolVars, ringVars, countVars, fileVars, mpc, ret, flags, work,
                 drainDone, regDone, clean>>

(* What aof_thread_main does next with the flags it fetched; the mutant    *)
(* skips a drain, and its signal, when no slot is ready.                   *)
NextWorkSkipsDrain(w) ==
  CASE "REREGISTER" \in w -> "reregister"
    [] "DRAIN" \in w /\ ready # <<>> -> "drain"
    [] "STOP" \in w -> "stopped"
    [] OTHER -> "submit"
NextWork(w) ==
  CASE "REREGISTER" \in w -> "reregister"
    [] "DRAIN" \in w -> "drain"
    [] "STOP" \in w -> "stopped"
    [] OTHER -> "submit"

FetchFlags ==
  /\ tpc = "fetch"
  /\ work' = flags /\ flags' = {}
  /\ tpc' = NextWork(flags)
  /\ UNCHANGED <<poolVars, ringVars, countVars, fileVars, mpc, ret, wake,
                 drainDone, regDone, clean>>

(* submit_one_slot for the head of ready: in aof_thread_submit_all_ready   *)
(* unless a fatal error is set, in aof_thread_drain_impl always.  The ring *)
(* has 1024 entries and at most 2 * MAX_OUTSTANDING are in use, so the     *)
(* submission queue never lacks the two entries.                           *)
SubmitOneSlot ==
  /\ tpc \in {"reregister", "drain"} \/ (tpc = "submit" /\ ~fatal)
  /\ ready # <<>>
  /\ ready' = Tail(ready) /\ inflight' = Append(inflight, Head(ready))
  /\ UNCHANGED <<free, cur, completed, outstanding, buf, ringVars, countVars,
                 fileVars, threadVars, clean>>

(* The submit loop is over: back to poll, or on to the wait of the drain.  *)
SubmitDone ==
  /\ tpc \in {"reregister", "drain", "submit"}
  /\ ready = <<>> \/ (tpc = "submit" /\ fatal)
  /\ tpc' = CASE tpc = "reregister" -> "regwait"
              [] tpc = "drain" -> "drainwait"
              [] tpc = "submit" -> "poll"
  /\ UNCHANGED <<poolVars, ringVars, countVars, fileVars, mpc, ret, flags, work,
                 wake, drainDone, regDone, clean>>

(* The completion about to be reaped is the second of the slot; mutant:    *)
(* the slot is retired by its first completion.                            *)
AnyCompletion(s) == TRUE
LastCompletion(s) == seen[s] = 1

(* g_aof_write_offset after a completion with result res; mutant: only a   *)
(* completion that retires its slot counts (the fdatasync, with result 0). *)
OffsetAtRetire(s, res) == IF res > 0 /\ LastCompletion(s) THEN offset + res ELSE offset
OffsetAfter(s, res) == IF res > 0 THEN offset + res ELSE offset

(* reap_completions_inline, one completion: a positive result advances     *)
(* g_aof_write_offset; the second completion of a slot retires it.         *)
ReapCompletion(s) ==
  /\ tpc \in {"poll", "regwait", "drainwait"}
  /\ cq[s] # <<>>
  /\ LET res   == Head(cq[s])
         oks   == IF res >= 0 THEN ok[s] + 1 ELSE ok[s]
         last  == LastCompletion(s)
     IN /\ offset' = OffsetAfter(s, res)
        /\ ok' = [ok EXCEPT ![s] = oks]
        /\ seen' = [seen EXCEPT ![s] = @ + 1]
        /\ cq' = [cq EXCEPT ![s] = Tail(@)]
        /\ fatal' = (fatal \/ (last /\ oks # 2))
        /\ IF last
           THEN /\ completed' = completed \cup {s}
                /\ inflight' = SeqWithout(inflight, s)
                /\ outstanding' = outstanding - 1
                /\ ran' = [ran EXCEPT ![s] = 0]
           ELSE UNCHANGED <<completed, inflight, outstanding, ran>>
  /\ UNCHANGED <<free, cur, ready, buf, submitted, ncmd, fileVars, threadVars, clean>>

(* aof_thread_drain_impl leaves its wait: g_outstanding is 0.  A requested *)
(* drain signals the fence; the drain of a re-registration switches the    *)
(* registered file and signals its own fence.                              *)
DrainDone ==
  /\ tpc \in {"drainwait", "regwait"} /\ outstanding = 0
  /\ IF tpc = "drainwait"
     THEN /\ drainDone' = TRUE
          /\ work' = work \ {"DRAIN"}
          /\ UNCHANGED <<reg, regDone>>
     ELSE /\ reg' = gen /\ regDone' = TRUE
          /\ work' = work \ {"REREGISTER"}
          /\ UNCHANGED drainDone
  /\ tpc' = NextWork(work')
  /\ UNCHANGED <<poolVars, ringVars, countVars, file, synced, gen, mpc, ret, flags,
                 wake, clean>>

AofThread == \/ UringInit \/ ReadWake \/ FetchFlags \/ SubmitOneSlot \/ SubmitDone
             \/ \E s \in Slots : ReapCompletion(s)
             \/ DrainDone

-----------------------------------------------------------------------------
(* Kernel: the requests of a slot run in order, those of different slots   *)
(* in any order unless InOrder.  The inode is the registered one.          *)

Land(cmds) == IF reg = gen THEN file \o cmds ELSE file

(* The write succeeds in full. *)
KernelWrite(i) ==
  LET s == inflight[i] IN
  /\ ran[s] = 0
  /\ InOrder => \A j \in 1..(i - 1) : ran[inflight[j]] > 0
  /\ ran' = [ran EXCEPT ![s] = 1]
  /\ cq' = [cq EXCEPT ![s] = Append(@, Len(buf[s]))]
  /\ file' = Land(buf[s])
  /\ UNCHANGED <<poolVars, seen, ok, countVars, synced, gen, reg, threadVars, clean>>

(* The write fails or is short; the link cancels the fdatasync. *)
KernelWriteFails(i, n) ==
  LET s == inflight[i] IN
  /\ IoMayFail /\ ran[s] = 0 /\ n < Len(buf[s])
  /\ InOrder => \A j \in 1..(i - 1) : ran[inflight[j]] > 0
  /\ ran' = [ran EXCEPT ![s] = 2]
  /\ cq' = [cq EXCEPT ![s] = @ \o <<IF n = 0 THEN -1 ELSE n, -1>>]
  /\ file' = Land(SubSeq(buf[s], 1, n))
  /\ clean' = FALSE
  /\ UNCHANGED <<poolVars, seen, ok, countVars, synced, gen, reg, threadVars>>

(* The fdatasync linked to the write. *)
KernelSync(i) ==
  LET s == inflight[i] IN
  /\ ran[s] = 1
  /\ ran' = [ran EXCEPT ![s] = 2]
  /\ \/ /\ cq' = [cq EXCEPT ![s] = Append(@, 0)]
        /\ synced' = IF reg = gen THEN Len(file) ELSE synced
        /\ UNCHANGED clean
     \/ /\ IoMayFail
        /\ cq' = [cq EXCEPT ![s] = Append(@, -1)]
        /\ clean' = FALSE
        /\ UNCHANGED synced
  /\ UNCHANGED <<poolVars, seen, ok, countVars, file, gen, reg, threadVars>>

Kernel == \E i \in DOMAIN inflight :
            \/ KernelWrite(i) \/ KernelSync(i)
            \/ \E n \in 0..(SlotMax - 1) : KernelWriteFails(i, n)

-----------------------------------------------------------------------------
Terminated == mpc = "closed" /\ UNCHANGED vars

Next == Main \/ AofThread \/ Kernel \/ Terminated

(* The reactor flushes on every turn, both threads are scheduled and the   *)
(* kernel completes what was submitted; nothing forces new commands.       *)
Fairness ==
  /\ WF_vars(FlushPending) /\ WF_vars(MainReap) /\ WF_vars(HandoffCurrentSlot)
  /\ WF_vars(Wake) /\ WF_vars(DrainRequest) /\ WF_vars(DrainReturn)
  /\ WF_vars(ReregisterReturn) /\ WF_vars(StopRequest) /\ WF_vars(Join)
  /\ WF_vars(AofThread) /\ WF_vars(Kernel)

Spec == Init /\ [][Next]_vars /\ Fairness

-----------------------------------------------------------------------------
(* Properties. *)

PoolType   == /\ free \subseteq Slots /\ completed \subseteq Slots
              /\ cur \in Slots \cup {NoSlot}
              /\ ready \in Seq(Slots) /\ inflight \in Seq(Slots)
              /\ outstanding \in Nat
              /\ buf \in [Slots -> Seq(Nat)]
RingType   == /\ ran \in [Slots -> 0..2] /\ seen \in [Slots -> 0..2]
              /\ ok \in [Slots -> 0..2] /\ cq \in [Slots -> Seq(Int)]
CountType  == submitted \in Nat /\ offset \in Nat /\ ncmd \in Nat
FileType   == file \in Seq(Nat) /\ synced \in Nat /\ gen \in Nat /\ reg \in Nat
ThreadType == /\ mpc \in MainPc /\ ret \in MainPc /\ tpc \in AofPc
              /\ flags \subseteq Work /\ work \subseteq Work
FlagType   == /\ wake \in BOOLEAN /\ drainDone \in BOOLEAN /\ regDone \in BOOLEAN
              /\ fatal \in BOOLEAN /\ clean \in BOOLEAN

(* Type invariant of the slot pool, the ring, the counters, the file and   *)
(* the two threads.                                                        *)
TypeOK == PoolType /\ RingType /\ CountType /\ FileType /\ ThreadType /\ FlagType

(* A slot is owned once: the free list, the current slot, the ready list,  *)
(* the ring and the completed list never share a slot, no list holds one   *)
(* twice, and none is lost (the slot_push and slot_pop helpers).           *)
SlotOwnership ==
  /\ IsInjective(ready) /\ IsInjective(inflight)
  /\ Slots \subseteq free \cup {cur} \cup Range(ready) \cup Range(inflight) \cup completed
  /\ cur \notin free \cup completed \cup Range(ready) \cup Range(inflight)
  /\ free \cap (completed \cup Range(ready) \cup Range(inflight)) = {}
  /\ completed \cap (Range(ready) \cup Range(inflight)) = {}
  /\ Range(ready) \cap Range(inflight) = {}

(* g_outstanding is exactly ready + in-flight and never exceeds            *)
(* MAX_OUTSTANDING, the bound on the crash window (slot_push_ready,        *)
(* slot_push_completed, handoff_current_slot).                             *)
OutstandingExact ==
  /\ outstanding = Len(ready) + Len(inflight)
  /\ outstanding <= MaxOutstanding

(* A completion always belongs to a slot still in flight: a slot is not    *)
(* recycled while one of its two completions is still to be reaped.        *)
NoStaleCompletion ==
  \A s \in Slots : cq[s] # <<>> => s \in Range(inflight)

(* When the drain fence opens nothing is left in the pipeline: SAVE reads  *)
(* g_aof_write_offset with no slot current, ready or in flight.            *)
DrainFence ==
  mpc = "fence" /\ drainDone => CurLen = 0 /\ ready = <<>> /\ inflight = <<>>

(* While both threads agree (no re-registration pending) every submitted   *)
(* write goes to the inode aof_path names: the registered descriptor is    *)
(* never the one of a replaced AOF.                                        *)
RegisteredFd ==
  reg # gen => mpc = "regfence" \/ (mpc = "wake" /\ ret = "regfence")

(* C1: after a drain g_aof_write_offset = g_aof_write_submitted = durable  *)
(* length of the AOF, so the offset SAVE puts in the dump header is the    *)
(* place in the file the dump reflects.  Holds while no I/O has failed and *)
(* every rewrite was finalised over an idle pipeline.                      *)
DrainedFrontier ==
  clean /\ mpc = "fence" /\ drainDone
    => offset = submitted /\ offset = synced /\ synced = Len(file)

(* "AOF thread writes to disk in the original order": the commands in the  *)
(* AOF are in the order they were accepted.                                *)
OriginalOrder ==
  \A i, j \in DOMAIN file : i < j /\ file[j] # 0 => file[i] < file[j]

(* A fence the main thread waits for is always opened, as long as the AOF  *)
(* thread came up: SAVE, BGREWRITEAOF and shutdown return.                 *)
FencesOpen ==
  /\ mpc = "fence" ~> (mpc # "fence" \/ tpc = "dead")
  /\ mpc = "regfence" ~> (mpc # "regfence" \/ tpc = "dead")
  /\ mpc = "join" ~> mpc = "closed"

(* The back-pressure loop of handoff_current_slot ends, also after a fatal *)
(* error has stopped the submission of ready slots.                        *)
HandoffEnds == mpc \in {"flush", "handoff"} ~> (mpc \notin {"flush", "handoff"} \/ tpc = "dead")

(* Every accepted command becomes durable, unless an I/O error is latched  *)
(* or a rewrite replaced the file that holds it.                           *)
AcceptedBecomesDurable ==
  \A c \in 1..MaxCmds :
    ncmd >= c ~> (fatal \/ gen > 0 \/ \E i \in 1..synced : file[i] = c)
=============================================================================
