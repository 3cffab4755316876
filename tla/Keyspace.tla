------------------------------ MODULE Keyspace ------------------------------
(***************************************************************************)
(* The commands on keys of handle_parsed_command in kvstore.c: an engine,  *)
(* which is a map here (Engines shows that it is one), the expiry table    *)
(* beside it, removal of expired keys when they are touched and by the     *)
(* cycle of the event loop, and the locks.                                 *)
(*                                                                         *)
(* Every step that needs memory may fail; a command fails at its n-th such *)
(* step, 0 meaning that none fails.  Time is in ticks.                     *)
(***************************************************************************)
EXTENDS ExpireTable

CONSTANTS
    TtlKeys,         \* the keys
    Commands,        \* the commands clients send
    Gone,            \* the NULL of a lookup
    TicksPerSecond,  \* the 1000 of EXPIRE and SETEX
    Budget,          \* expire_cycle_budget
    MaxTime          \* bound: the clock

VARIABLES
    db,      \* the engine and the expiry table
    clock,   \* kvs_now_ms
    reply    \* the last command and its answer

keyspaceVars == <<db, clock, reply>>

EmptyStore == [kv |-> [k \in TtlKeys |-> Gone], tab |-> EmptyTab(TtlKeys)]

-----------------------------------------------------------------------------
(* The steps of the commands: a store and a return code.                   *)

WithTab(d, r) == [d |-> [d EXCEPT !.tab = r.tab], rc |-> r.rc]
Result(d, rc) == [d |-> d, rc |-> rc]

EngSet(d, k, v, starved) ==
    IF starved THEN Result(d, -2) ELSE Result([d EXCEPT !.kv[k] = v], 0)
EngMod(d, k, v, starved) == IF d.kv[k] = Gone THEN Result(d, 1) ELSE EngSet(d, k, v, starved)
EngDel(d, k) == IF d.kv[k] = Gone THEN Result(d, 1) ELSE Result([d EXCEPT !.kv[k] = Gone], 0)

DropTtl(d, k) == WithTab(d, ExpireDel(d.tab, k)).d

\* kvs_expire_set
SetTtl(d, k, ticks, now, starved) ==
    IF ticks <= 0 THEN Result(d, -1) ELSE WithTab(d, ExpireSet(d.tab, k, now + ticks, starved))

\* Mutant: the deadline of the removed key stays.
TryExpireKeepsTtl(d, k, now) == IF IsExpired(d.tab, k, now) THEN EngDel(d, k).d ELSE d

\* try_expire
TryExpire(d, k, now) == IF IsExpired(d.tab, k, now) THEN DropTtl(EngDel(d, k).d, k) ELSE d

\* engine_upsert: only an overwritten key can have a deadline to drop.
Upsert(d0, k, v, now, starved) ==
    LET d == TryExpire(d0, k, now)
        s == EngSet(d, k, v, starved)
    IN  IF d.kv[k] = Gone THEN s
        ELSE IF s.rc # 0 THEN Result(s.d, -1) ELSE Result(DropTtl(s.d, k), 0)

\* SET, MOD: what the code after the switch does when rc is 0.
DropTtlIfOk(r, k) == IF r.rc = 0 THEN Result(DropTtl(r.d, k), 0) ELSE r

\* handle_multi_set, for two pairs
MultiSet(d, c, now, n) ==
    LET one == Upsert(d, c.key, c.val, now, n = 1)
        two == Upsert(one.d, c.key2, c.val, now, n = 2)
    IN  IF one.rc # 0 THEN Result(one.d, -1) ELSE Result(two.d, IF two.rc = 0 THEN 0 ELSE -1)

\* SETEX
SetEx(d, c, now, n) ==
    LET s == EngSet(d, c.key, c.val, n = 1)
    IN  IF s.rc # 0 THEN s ELSE SetTtl(s.d, c.key, c.ttl * TicksPerSecond, now, n = 2)

\* Mutant: a lock is taken over an existing key.
LockAcquireSteals(d0, c, now, n) ==
    LET d == TryExpire(d0, c.key, now)
        s == EngSet(d, c.key, c.val, n = 1)
        e == SetTtl(s.d, c.key, c.ttl, now, n = 2)
    IN  IF c.ttl <= 0 THEN Result(d0, -1)
        ELSE IF s.rc # 0 THEN Result(s.d, -1)
        ELSE IF e.rc # 0 THEN Result(DropTtl(EngDel(e.d, c.key).d, c.key), -1) ELSE e

\* lock_acquire
LockAcquire(d0, c, now, n) ==
    LET d == TryExpire(d0, c.key, now)
        s == EngSet(d, c.key, c.val, n = 1)
        e == SetTtl(s.d, c.key, c.ttl, now, n = 2)
    IN  IF c.ttl <= 0 THEN Result(d0, -1)
        ELSE IF d.kv[c.key] # Gone THEN Result(d, 1)
        ELSE IF s.rc # 0 THEN Result(s.d, -1)
        ELSE IF e.rc # 0 THEN Result(DropTtl(EngDel(e.d, c.key).d, c.key), -1) ELSE e

\* lock_release
LockRelease(d0, c, now) ==
    LET d == TryExpire(d0, c.key, now)
    IN  IF d.kv[c.key] # c.val THEN Result(d, 1) ELSE Result(DropTtl(EngDel(d, c.key).d, c.key), 0)

\* lock_renew
LockRenew(d0, c, now, n) ==
    LET d == TryExpire(d0, c.key, now)
    IN  IF c.ttl <= 0 THEN Result(d0, -1)
        ELSE IF d.kv[c.key] # c.val THEN Result(d, 1) ELSE SetTtl(d, c.key, c.ttl, now, n = 1)

\* The commands that change the store, failing at their n-th allocation.
Run(d0, c, now, n) ==
    LET d == TryExpire(d0, c.key, now)
    IN  CASE c.op = "SET" -> DropTtlIfOk(EngSet(d, c.key, c.val, n = 1), c.key)
          [] c.op = "MOD" -> DropTtlIfOk(EngMod(d, c.key, c.val, n = 1), c.key)
          [] c.op = "MSET" -> MultiSet(d, c, now, n)
          [] c.op = "DEL" -> Result(DropTtl(EngDel(d, c.key).d, c.key), EngDel(d, c.key).rc)
          [] c.op = "SETEX" -> SetEx(d, c, now, n)
          [] c.op = "EXPIRE" -> IF d.kv[c.key] = Gone THEN Result(d, 1)
                                ELSE SetTtl(d, c.key, c.ttl * TicksPerSecond, now, n = 1)
          [] c.op = "PERSIST" -> IF d.kv[c.key] = Gone THEN Result(d, 1)
                                 ELSE WithTab(d, ExpireDel(d.tab, c.key))
          [] c.op = "LOCK" -> LockAcquire(d0, c, now, n)
          [] c.op = "UNLOCK" -> LockRelease(d0, c, now)
          [] c.op = "RENEW" -> LockRenew(d0, c, now, n)

\* kvs_expire_ttl, in seconds, rounded up
TtlOf(tab, k, now) ==
    IF tab.at[k] = NoTtl THEN -1
    ELSE IF now >= tab.at[k] THEN -2
    ELSE LET left == tab.at[k] - now
         IN  left \div TicksPerSecond + (IF left % TicksPerSecond # 0 THEN 1 ELSE 0)

\* The answers of the commands that only read; TTL reads the clock a second time.
Reads(d, c, now) ==
    CASE c.op = "GET" -> {d.kv[c.key]}      \* and OWNER
      [] c.op = "EXIST" -> {IF d.kv[c.key] = Gone THEN 0 ELSE 1}
      [] c.op = "TTL" -> IF d.kv[c.key] = Gone THEN {-2}
                         ELSE {TtlOf(d.tab, c.key, t) : t \in {now, now + 1}}

\* The loop of kvs_active_expire_cycle, at most n turns.
RECURSIVE Reap(_, _, _)
Reap(d, now, n) ==
    IF n = 0 \/ ~Due(d.tab, now) THEN d
    ELSE LET k == d.tab.heap[1] IN Reap(DropTtl(EngDel(d, k).d, k), now, n - 1)

-----------------------------------------------------------------------------
ReadOps == {"GET", "EXIST", "TTL"}

KeyspaceInit == db = EmptyStore /\ clock = 0 /\ reply = [cmd |-> Gone, ret |-> 0]

\* handle_parsed_command, one command at a time
DispatchWrite(c, n) ==
    /\ c.op \notin ReadOps
    /\ LET r == Run(db, c, clock, n)
       IN  db' = r.d /\ reply' = [cmd |-> c, ret |-> r.rc]
    /\ UNCHANGED clock

DispatchRead(c) ==
    /\ c.op \in ReadOps
    /\ db' = TryExpire(db, c.key, clock)
    /\ \E r \in Reads(db', c, clock) : reply' = [cmd |-> c, ret |-> r]
    /\ UNCHANGED clock

\* kvs_active_expire_cycle
ActiveExpireCycle == db' = Reap(db, clock, Budget) /\ db' # db /\ UNCHANGED <<clock, reply>>

TimePasses == clock < MaxTime /\ clock' = clock + 1 /\ UNCHANGED <<db, reply>>

KeyspaceNext ==
    \/ \E c \in Commands : DispatchRead(c) \/ \E n \in 0..2 : DispatchWrite(c, n)
    \/ ActiveExpireCycle
    \/ TimePasses

KeyspaceSpec == KeyspaceInit /\ [][KeyspaceNext]_keyspaceVars

-----------------------------------------------------------------------------
\* The keys that are there at time now.
LiveView(d, now) ==
    [k \in TtlKeys |-> IF d.kv[k] = Gone \/ IsExpired(d.tab, k, now) THEN Gone
                       ELSE [val |-> d.kv[k], at |-> d.tab.at[k]]]

(* The commands act on keys that vanish at their deadline: whether an       *)
(* expired key is still in the engine, was removed when touched or by the   *)
(* cycle, no answer and no effect depends on it; no deadline outlives its   *)
(* key and hits the next one of that name; a lock is held by one owner      *)
(* until released or expired (try_expire, kvs_active_expire_cycle,          *)
(* lock_acquire).                                                          *)
Promise == INSTANCE ExpiringMap WITH live <- LiveView(db, clock), time <- clock,
                                     said <- reply, Never <- NoTtl
KeyspaceImplementsMap == Promise!MapSpec
=============================================================================
