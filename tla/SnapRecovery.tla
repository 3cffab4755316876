---------------------------- MODULE SnapRecovery ----------------------------
(***************************************************************************)
(* Snapshots, AOF rewrites and recovery of kvs_persist.c over one store:   *)
(* SAVE, BGSAVE and its child, BGREWRITEAOF with its child and rewrite     *)
(* buffer, a crash at any moment and persist_recover.                      *)
(*                                                                         *)
(* The pipeline of AofPipeline is reduced to what the files see: the       *)
(* commands of g_cur_slot (cur), the slots handed off (handed) and the AOF *)
(* (file).  One unit of the file is one command; a command is a key and    *)
(* the value it stores, NoValue for a DEL.                                 *)
(***************************************************************************)
EXTENDS Naturals, Sequences, FiniteSets

CONSTANTS
  SnapKeys,         \* the keys of the store
  SnapDeleted,      \* those that are also deleted
  MaxSnapCmds,      \* bound on the commands accepted
  MaxSnapWork,      \* bound on commands, AOF rewrites and crashes together
  BigDump           \* the dump exceeds DUMP_BUF_SIZE: SAVE writes it in pieces

ASSUME SnapAssumption ==
  /\ IsFiniteSet(SnapKeys) /\ SnapDeleted \subseteq SnapKeys
  /\ {MaxSnapCmds, MaxSnapWork} \subseteq Nat
ASSUME BigDumpAssumption == BigDump \in BOOLEAN

VARIABLES
  alive, mem, saving,
  history,         \* the commands accepted (history)
  durable,         \* how many of them are on disk (history)
  cur, handed,     \* numbers of the commands in g_cur_slot; slots handed off
  file, aofOff,    \* the AOF behind aof_path; g_aof_write_offset
  gen, drift,      \* inode of aof_path; aofOff minus the length of the AOF (history)
  dumpFile,        \* the dump file
  bg, orphan,      \* snapshot of the BGSAVE child; of one that outlived a crash
  rw, rbuf,        \* snapshot of the rewrite child; the rewrite buffer
  crashes,
  lossyDump        \* a recovery used a dump that did not match (history)

memVars  == <<alive, mem, saving>>
histVars == <<history, durable, lossyDump>>
aofVars  == <<cur, handed, file, aofOff, gen, drift>>
bgVars   == <<bg, orphan>>
rwVars   == <<rw, rbuf>>
snapVars == <<memVars, histVars, aofVars, dumpFile, bgVars, rwVars, crashes>>

NoValue == 0
NoDump == [off |-> 0, data |-> [k \in SnapKeys |-> NoValue], gen |-> 0,
           drift |-> 0, whole |-> TRUE]
None   == [none |-> TRUE]

Empty == [k \in SnapKeys |-> NoValue]

(* One command executed: SET or DEL, an absolute operation. *)
Execute(d, c) == [d EXCEPT ![c.key] = c.val]
ReplayAll(d, cmds) ==
  LET store[i \in 0..Len(cmds)] == IF i = 0 THEN d ELSE Execute(store[i - 1], cmds[i])
  IN  store[Len(cmds)]

(* The store after the first n accepted commands. *)
StateAfter(n) == ReplayAll(Empty, SubSeq(history, 1, n))

(* snapshot_all_sink: one SET per key of the store, in some order. *)
SnapshotOf(d) ==
  LET sets == {[key |-> k, val |-> d[k]] : k \in {k \in SnapKeys : d[k] # NoValue}}
      n    == Cardinality(sets)
  IN  CHOOSE s \in [1..n -> sets] : {s[i] : i \in 1..n} = sets

(* The slots, one after the other. *)
Joined(slots) ==
  LET all[i \in 0..Len(slots)] == IF i = 0 THEN <<>> ELSE all[i - 1] \o slots[i]
  IN  all[Len(slots)]

(* The commands of slots given by number. *)
Cmds(ns) == [i \in DOMAIN ns |-> history[ns[i]]]

(* The number of the last command of a slot, or n if there is none. *)
Latest(n, ns) == IF ns = <<>> THEN n ELSE IF ns[Len(ns)] > n THEN ns[Len(ns)] ELSE n

SnapInit ==
  /\ alive = TRUE /\ mem = Empty /\ saving = FALSE
  /\ history = <<>> /\ durable = 0 /\ lossyDump = FALSE
  /\ cur = <<>> /\ handed = <<>> /\ file = <<>> /\ aofOff = 0 /\ gen = 0 /\ drift = 0
  /\ dumpFile = NoDump
  /\ bg = None /\ orphan = None /\ rw = None /\ rbuf = <<>>
  /\ crashes = 0

-----------------------------------------------------------------------------
(* The main thread, between two commands. *)
Running == alive /\ ~saving

SnapWork == Len(history) + gen + crashes + (IF rw = None THEN 0 ELSE 1)

(* A write command: applied, appended to g_cur_slot and, while a rewrite   *)
(* child runs, to the rewrite buffer.  Mutant: it is not.                  *)
SnapWriteNoRewriteBuffer(k, v) ==
  /\ Running /\ Len(history) < MaxSnapCmds /\ SnapWork < MaxSnapWork
  /\ LET c == [key |-> k, val |-> v]
         n == Len(history) + 1
     IN  /\ mem' = Execute(mem, c)
         /\ history' = Append(history, c)
         /\ cur' = Append(cur, n)
  /\ UNCHANGED <<alive, saving, durable, lossyDump, handed, file, aofOff, gen, drift, dumpFile, bgVars,
                 rwVars, crashes>>
SnapWrite(k, v) ==
  /\ Running /\ Len(history) < MaxSnapCmds /\ SnapWork < MaxSnapWork
  /\ LET c == [key |-> k, val |-> v]
         n == Len(history) + 1
     IN  /\ mem' = Execute(mem, c)
         /\ history' = Append(history, c)
         /\ cur' = Append(cur, n)
         /\ rbuf' = IF rw # None THEN Append(rbuf, n) ELSE rbuf
  /\ UNCHANGED <<alive, saving, durable, lossyDump, handed, file, aofOff, gen, drift, dumpFile, bgVars,
                 rw, crashes>>

(* handoff_current_slot. *)
Handoff ==
  /\ Running /\ cur # <<>>
  /\ handed' = Append(handed, cur) /\ cur' = <<>>
  /\ UNCHANGED <<memVars, histVars, file, aofOff, gen, drift, dumpFile, bgVars, rwVars, crashes>>

(* The AOF thread writes and syncs the oldest slot and advances            *)
(* g_aof_write_offset.                                                     *)
Land ==
  /\ alive /\ handed # <<>>
  /\ file' = file \o Cmds(Head(handed))
  /\ aofOff' = aofOff + Len(Head(handed))
  /\ durable' = Latest(durable, Head(handed))
  /\ handed' = Tail(handed)
  /\ UNCHANGED <<memVars, history, lossyDump, cur, gen, drift, dumpFile, bgVars, rwVars, crashes>>

(* persist_drain_pending: every slot, the current one included, reaches    *)
(* the AOF; the main thread waits.  Mutant: the current slot does not.     *)
DrainPendingKeepsCur ==
  LET ns == Joined(handed) IN
  /\ file' = file \o Cmds(ns) /\ aofOff' = aofOff + Len(ns) + Len(cur)
  /\ durable' = Latest(durable, ns)
  /\ handed' = <<>> /\ UNCHANGED cur
DrainPending ==
  LET ns == Joined(handed) \o cur IN
  /\ file' = file \o Cmds(ns) /\ aofOff' = aofOff + Len(ns)
  /\ durable' = Latest(durable, ns)
  /\ handed' = <<>> /\ cur' = <<>>

(* The dump of the store as it is, with the drained offset in its header.  *)
DumpOf(offset) == [off |-> offset, data |-> mem, gen |-> gen,
                   drift |-> drift, whole |-> TRUE]

-----------------------------------------------------------------------------
(* Snapshots. *)

(* persist_save_dump up to the open with O_TRUNC: drain, then empty the    *)
(* dump in place.  An empty dump is a missing one for replay_dump_file.    *)
SaveBegin ==
  /\ Running
  /\ DrainPending
  /\ saving' = TRUE
  /\ dumpFile' = NoDump
  /\ UNCHANGED <<alive, mem, history, lossyDump, gen, drift, bgVars, rwVars, crashes>>

(* dump_flush of a buffer before the last: the header and some records.    *)
SaveChunk(ks) ==
  /\ alive /\ saving /\ BigDump
  /\ dumpFile' = [DumpOf(aofOff) EXCEPT !.data = [k \in SnapKeys |-> IF k \in ks THEN mem[k] ELSE NoValue],
                                 !.whole = FALSE]
  /\ UNCHANGED <<memVars, histVars, aofVars, bgVars, rwVars, crashes>>

(* The last buffer and the fsync. *)
SaveEnd ==
  /\ alive /\ saving
  /\ dumpFile' = DumpOf(aofOff) /\ saving' = FALSE
  /\ UNCHANGED <<alive, mem, histVars, aofVars, bgVars, rwVars, crashes>>

(* persist_bgsave_start: drain, then fork. *)
BgsaveStart ==
  /\ Running /\ bg = None
  /\ DrainPending
  /\ bg' = DumpOf(aofOff')
  /\ UNCHANGED <<memVars, history, lossyDump, gen, drift, dumpFile, orphan, rwVars, crashes>>

(* The child renames its file over the dump, or fails and unlinks it; a    *)
(* child that outlived its parent does the same.                           *)
BgsaveChild ==
  /\ \/ bg # None /\ dumpFile' \in {bg, dumpFile} /\ bg' = None /\ UNCHANGED orphan
     \/ orphan # None /\ dumpFile' \in {orphan, dumpFile} /\ orphan' = None /\ UNCHANGED bg
  /\ ~saving
  /\ UNCHANGED <<memVars, histVars, aofVars, rwVars, crashes>>

-----------------------------------------------------------------------------
(* AOF rewrite. *)

(* persist_bgrewriteaof_start: drain, empty the rewrite buffer, fork. *)
RewriteStart ==
  /\ Running /\ rw = None /\ SnapWork < MaxSnapWork
  /\ DrainPending
  /\ rw' = [none |-> FALSE, cmds |-> SnapshotOf(mem)] /\ rbuf' = <<>>
  /\ UNCHANGED <<memVars, history, lossyDump, gen, drift, dumpFile, bgVars, crashes>>

(* persist_bgrewriteaof_poll after the child succeeded, and                *)
(* finalize_rewrite_parent: rename over aof_path, offset of the new file,  *)
(* then the re-registration, which drains the slots handed off: their      *)
(* bytes go to the replaced inode and still advance g_aof_write_offset.    *)
(* The current slot stays and lands in the new file later.                 *)
FinalizeRewrite ==
  /\ Running /\ rw # None
  /\ LET new  == rw.cmds \o Cmds(rbuf)
         late == Len(Joined(handed))
     IN  /\ file' = new
         /\ aofOff' = Len(new) + late
         /\ drift' = late
  /\ handed' = <<>>
  /\ gen' = gen + 1
  /\ durable' = Len(history)
  /\ rw' = None /\ rbuf' = <<>>
  /\ UNCHANGED <<memVars, history, lossyDump, cur, dumpFile, bgVars, crashes>>

(* The child failed: persist_bgrewriteaof_poll unlinks its file. *)
RewriteFails ==
  /\ Running /\ rw # None
  /\ rw' = None
  /\ UNCHANGED <<memVars, histVars, aofVars, dumpFile, bgVars, rbuf, crashes>>

-----------------------------------------------------------------------------
(* Crash and recovery. *)

(* The process dies; a BGSAVE child may survive it. *)
Crash ==
  /\ alive /\ SnapWork < MaxSnapWork
  /\ alive' = FALSE /\ saving' = FALSE /\ mem' = Empty
  /\ cur' = <<>> /\ handed' = <<>>
  /\ bg' = None /\ orphan' \in {None, IF bg # None THEN bg ELSE orphan}
  /\ rw' = None /\ rbuf' = <<>>
  /\ crashes' = crashes + 1
  /\ UNCHANGED <<histVars, file, aofOff, gen, drift, dumpFile>>

(* replay_dump_file, then replay_file_mmap from the offset of the header:  *)
(* a file that is not longer than the offset is not replayed.              *)
Tail1(skip) == IF Len(file) <= skip THEN <<>> ELSE SubSeq(file, skip + 1, Len(file))
Recovered == ReplayAll(dumpFile.data, Tail1(dumpFile.off))

(* The header of the dump refers to the AOF in place, was taken from an    *)
(* offset that was the length of the AOF, and the dump is complete.        *)
HeaderMatches ==
  dumpFile = NoDump \/ (dumpFile.gen = gen /\ dumpFile.drift = 0 /\ dumpFile.whole)

(* persist_recover, and persist_init: the offset is the length of the AOF. *)
Recover ==
  /\ ~alive
  /\ alive' = TRUE
  /\ mem' = Recovered
  /\ history' = SubSeq(history, 1, durable)
  /\ lossyDump' = (lossyDump \/ ~HeaderMatches)
  /\ aofOff' = Len(file) /\ drift' = 0
  /\ UNCHANGED <<saving, durable, cur, handed, file, gen, dumpFile, bgVars, rwVars, crashes>>

-----------------------------------------------------------------------------
SnapNext ==
  \/ \E k \in SnapKeys : SnapWrite(k, Len(history) + 1)
  \/ \E k \in SnapDeleted : SnapWrite(k, NoValue)
  \/ Handoff \/ Land
  \/ SaveBegin \/ (\E ks \in SUBSET SnapKeys : SaveChunk(ks)) \/ SaveEnd
  \/ BgsaveStart \/ BgsaveChild
  \/ RewriteStart \/ FinalizeRewrite \/ RewriteFails
  \/ Crash \/ Recover

SnapSpec == SnapInit /\ [][SnapNext]_snapVars

-----------------------------------------------------------------------------
(* Properties. *)

(* A crash now loses no durable command: persist_recover rebuilds exactly  *)
(* the store after the durable commands, with a BGSAVE child finishing at  *)
(* any time (after a later SAVE, after a restart), rewrites, repeated      *)
(* crashes, and commands that a rewrite wrote to the new AOF a second time *)
(* (append_to_rewrite_buffer and g_cur_slot).  The dump must match the     *)
(* AOF; without a dump it always does, unless the AOF was rewritten and an *)
(* older dump renamed in.                                                  *)
CrashSafe == ~lossyDump /\ HeaderMatches => Recovered = StateAfter(durable)

(* C1: SAVE leaves a dump whose header is the durable length of the AOF,   *)
(* so recovery replays nothing, unless a rewrite was finalised over slots  *)
(* in flight.                                                              *)
SaveZeroReplay == [][SaveEnd /\ drift = 0 => dumpFile'.off = Len(file)]_snapVars

(* "On restart: dump (full) + AOF (increment) = complete data", for any    *)
(* sequence of SAVE, BGSAVE and BGREWRITEAOF.                              *)
DumpPlusAofComplete == Recovered = StateAfter(durable)
=============================================================================
