------------------------------- MODULE Replay -------------------------------
(***************************************************************************)
(* Keys with deadlines on a second store that is given the logged commands *)
(* later: a replica, or the server after a restart.  A command is logged   *)
(* when it returned 0 and its deadline counts from the moment it is        *)
(* replayed.  The second store may be rebuilt from a dump, written by      *)
(* kvs_dump_to_fd and read by replay_dump_file, and the commands           *)
(* logged since.                                                           *)
(***************************************************************************)
EXTENDS Keyspace

CONSTANTS
    Writes,     \* the commands sent here
    MaxWrites,  \* bound: commands sent
    MaxLag      \* bound: commands logged and not replayed

VARIABLES
    master,  \* the store of the server that wrote the log
    ticks,   \* the time, the same on both
    mirror,  \* the second store
    queue,   \* commands logged and not yet replayed
    dump,    \* the dump it is to be rebuilt from, or << >>
    off,     \* history: the keys that have got out of step, by cause
    sent     \* commands sent

replayVars == <<master, ticks, mirror, queue, dump, off, sent>>

\* The keys out of step: by a command that failed half-way and was not logged, one that
\* the replay refused because a deadline passed there sooner or later than on the
\* master, and a deadline that a dump or its load lost.
NoneOff == [torn |-> {}, refused |-> {}, undying |-> {}]

ReplayInit ==
    /\ master = EmptyStore /\ ticks = 0
    /\ mirror = EmptyStore /\ queue = << >> /\ dump = << >>
    /\ off = NoneOff /\ sent = 0

\* handle_parsed_command on the first server: what returned 0 is logged.
WriteAndLog(c, n) ==
    /\ sent < MaxWrites
    /\ sent' = sent + 1
    /\ LET r == Run(master, c, ticks, n)
           changed == {k \in TtlKeys : LiveView(r.d, ticks)[k] # LiveView(master, ticks)[k]}
       IN  /\ master' = r.d
           /\ IF r.rc = 0 THEN Len(queue) < MaxLag /\ queue' = Append(queue, c) /\ off' = off
              ELSE queue' = queue /\ off' = [off EXCEPT !.torn = @ \cup changed]
    /\ UNCHANGED <<ticks, mirror, dump>>

\* The same handler on the second store.
ReplayOne ==
    /\ queue # << >> /\ dump = << >>
    /\ LET c == Head(queue)
           r == Run(mirror, c, ticks, 0)
       IN  /\ mirror' = r.d
           /\ off' = IF c.op # "DEL" /\ r.rc # 0 THEN [off EXCEPT !.refused = @ \cup {c.key}] ELSE off
    /\ queue' = Tail(queue)
    /\ UNCHANGED <<master, ticks, dump, sent>>

CycleHere == master' = Reap(master, ticks, Budget) /\ master' # master
             /\ UNCHANGED <<ticks, mirror, queue, dump, off, sent>>
CycleThere == mirror' = Reap(mirror, ticks, Budget) /\ mirror' # mirror
              /\ UNCHANGED <<master, ticks, queue, dump, off, sent>>

\* DUMP_WRITE_KV_EX: the remaining time, in whole seconds, from now; an expired key
\* that is still there has none.
Dumped(d, k, now) ==
    IF d.kv[k] = Gone THEN Gone
    ELSE [val |-> d.kv[k],
          exp |-> IF TtlOf(d.tab, k, now) < 0 THEN NoTtl
                  ELSE now + TtlOf(d.tab, k, now) * TicksPerSecond]

\* persist_save_dump, for a store that will be rebuilt: the log starts anew.
SaveDump ==
    /\ dump = << >>
    /\ dump' = [k \in TtlKeys |-> Dumped(master, k, ticks)]
    /\ queue' = << >>
    /\ off' = [NoneOff EXCEPT !.undying = {k \in TtlKeys : master.kv[k] # Gone /\ IsExpired(master.tab, k, ticks)}]
    /\ UNCHANGED <<master, ticks, mirror, sent>>

\* Mutant: the deadline in the dump is not used.
LoadKeyForgets(d, k, e, now) == IF e = Gone THEN d ELSE EngSet(d, k, e.val, FALSE).d
\* One record of replay_dump_file: a deadline that has passed is not set.
LoadKey(d, k, e, now) ==
    IF e = Gone THEN d
    ELSE LET s == EngSet(d, k, e.val, FALSE).d
         IN  IF e.exp = NoTtl THEN s ELSE SetTtl(s, k, e.exp - now, now, FALSE).d

\* replay_dump_file into an empty store
RECURSIVE LoadKeys(_, _, _)
LoadKeys(d, ks, now) ==
    IF ks = {} THEN d
    ELSE LET k == CHOOSE x \in ks : TRUE
         IN  LoadKeys(LoadKey(d, k, dump[k], now), ks \ {k}, now)

LoadDump ==
    /\ dump # << >>
    /\ mirror' = LoadKeys(EmptyStore, TtlKeys, ticks)
    /\ off' = [off EXCEPT !.undying = @ \cup
                 {k \in TtlKeys : dump[k] # Gone /\ dump[k].exp # NoTtl /\ dump[k].exp <= ticks}]
    /\ dump' = << >>
    /\ UNCHANGED <<master, ticks, queue, sent>>

TimeGoesOn == ticks < MaxTime /\ ticks' = ticks + 1
              /\ UNCHANGED <<master, mirror, queue, dump, off, sent>>

ReplayNext ==
    \/ \E c \in Writes, n \in 0..2 : WriteAndLog(c, n)
    \/ ReplayOne \/ CycleHere \/ CycleThere
    \/ SaveDump \/ LoadDump
    \/ TimeGoesOn

ReplaySpec == ReplayInit /\ [][ReplayNext]_replayVars

-----------------------------------------------------------------------------
(* The properties speak of a second store that has caught up.              *)

CaughtUp == queue = << >> /\ dump = << >>
OutOfStep == off.torn \cup off.refused \cup off.undying
Here == LiveView(master, ticks)
There == LiveView(mirror, ticks)

(* A replica, or a restarted server, that has replayed the log has every    *)
(* live key with its value and keeps it at least as long as the master, and *)
(* what it has beyond that is about to expire: outside three named gaps, a  *)
(* command's success never depends on when it is replayed (the rc == 0      *)
(* branch of handle_parsed_command, DUMP_WRITE_KV_EX, replay_dump_file).   *)
ReplicaFollows ==
    CaughtUp => \A k \in TtlKeys \ OutOfStep :
      /\ Here[k] # Gone =>
           /\ There[k] # Gone /\ There[k].val = Here[k].val
           /\ IF Here[k].at = NoTtl THEN There[k].at = NoTtl ELSE There[k].at >= Here[k].at
      /\ Here[k] = Gone /\ There[k] # Gone => There[k].at # NoTtl

(* The recovery removes the keys that expired meanwhile: a key that is      *)
(* there for good after a load is there for good on the server that wrote   *)
(* the dump (replay_dump_file, then kvs_active_expire_cycle in              *)
(* persist_recover).                                                       *)
ExpiredStaysGone ==
    CaughtUp => \A k \in TtlKeys :
      There[k] # Gone /\ There[k].at = NoTtl => Here[k] # Gone /\ Here[k].at = NoTtl
=============================================================================
