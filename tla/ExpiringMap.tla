---------------------------- MODULE ExpiringMap ----------------------------
(***************************************************************************)
(* What the commands on keys promise: a map in which a key may have a      *)
(* deadline and is gone from the moment the clock reaches it, whether or   *)
(* not anything has removed it.  A command that answers an error changes   *)
(* nothing, except for two that act in steps: MSET may stop half-way, and  *)
(* SETEX may set the value but not the deadline.                           *)
(***************************************************************************)
EXTENDS Integers, Sequences

CONSTANTS
    Commands,       \* the commands given
    Gone,           \* what stands for a missing key or value
    Never,          \* the deadline of a key without one
    TicksPerSecond

VARIABLES
    live,   \* the value and the deadline of each key, or Gone
    time,   \* the clock
    said    \* the last command and its answer

mapVars == <<live, time, said>>

Has(k) == live[k] # Gone
Entry(v, d) == [val |-> v, at |-> d]
Says(c, ret) == said' = [cmd |-> c, ret |-> ret]
Refuse(c, ret) == Says(c, ret) /\ live' = live
Becomes(c, k, e) == Says(c, 0) /\ live' = [live EXCEPT ![k] = e]
Deadline(c) == time + c.ttl * (IF c.op \in {"LOCK", "RENEW"} THEN 1 ELSE TicksPerSecond)
SecondsLeft(d, now) == (d - now + TicksPerSecond - 1) \div TicksPerSecond
\* Only a missing key, or one whose lock has another owner, is refused.
Mine(c) == Has(c.key) /\ live[c.key].val = c.val

Store(c, d) == Becomes(c, c.key, Entry(c.val, d)) \/ Refuse(c, -2)

Half(c) ==    \* SETEX: the new value, with the deadline the key had
    /\ Says(c, -1)
    /\ live' = [live EXCEPT ![c.key] = Entry(c.val, IF Has(c.key) THEN @.at ELSE Never)]

Both(c) ==    \* MSET of two keys: both, the first of them, or none
    LET one == [live EXCEPT ![c.key] = Entry(c.val, Never)]
        two == [one EXCEPT ![c.key2] = Entry(c.val, Never)]
    IN  \/ Says(c, 0) /\ live' = two
        \/ Says(c, -1) /\ live' \in {live, one}

Extend(c) ==
    IF c.ttl <= 0 THEN Refuse(c, -1)
    ELSE Becomes(c, c.key, [live[c.key] EXCEPT !.at = Deadline(c)]) \/ Refuse(c, -1)

Answer(c) ==
    CASE c.op = "SET" -> Store(c, Never)
      [] c.op = "MOD" -> IF Has(c.key) THEN Store(c, Never) ELSE Refuse(c, 1)
      [] c.op = "MSET" -> Both(c)
      [] c.op = "DEL" -> IF Has(c.key) THEN Becomes(c, c.key, Gone) ELSE Refuse(c, 1)
      [] c.op = "SETEX" -> IF c.ttl > 0 THEN Store(c, Deadline(c)) \/ Half(c)
                           ELSE Refuse(c, -2) \/ Half(c)
      [] c.op = "EXPIRE" -> IF Has(c.key) THEN Extend(c) ELSE Refuse(c, 1)
      [] c.op = "PERSIST" -> IF Has(c.key) /\ live[c.key].at # Never
                             THEN Becomes(c, c.key, [live[c.key] EXCEPT !.at = Never])
                             ELSE Refuse(c, 1)
      [] c.op = "GET" -> Refuse(c, IF Has(c.key) THEN live[c.key].val ELSE Gone)
      [] c.op = "EXIST" -> Refuse(c, IF Has(c.key) THEN 1 ELSE 0)
      [] c.op = "TTL" -> IF ~Has(c.key) THEN Refuse(c, -2)
                         ELSE IF live[c.key].at = Never THEN Refuse(c, -1)
                         ELSE \E now \in {time, time + 1} :
                                Refuse(c, IF now >= live[c.key].at THEN -2
                                          ELSE SecondsLeft(live[c.key].at, now))
      [] c.op = "LOCK" -> IF c.ttl <= 0 THEN Refuse(c, -1)
                          ELSE IF Has(c.key) THEN Refuse(c, 1)
                          ELSE Becomes(c, c.key, Entry(c.val, Deadline(c))) \/ Refuse(c, -1)
      [] c.op = "UNLOCK" -> IF Mine(c) THEN Becomes(c, c.key, Gone) ELSE Refuse(c, 1)
      [] c.op = "RENEW" -> IF c.ttl > 0 /\ ~Mine(c) THEN Refuse(c, 1) ELSE Extend(c)

Tick ==
    /\ time' = time + 1
    /\ live' = [k \in DOMAIN live |->
                  IF Has(k) /\ live[k].at # Never /\ live[k].at <= time' THEN Gone ELSE live[k]]
    /\ said' = said

MapInit == /\ \A k \in DOMAIN live : live[k] = Gone
           /\ time = 0
           /\ said = [cmd |-> Gone, ret |-> 0]
\* The command is the one that is answered.
Command == said'.cmd \in Commands /\ time' = time /\ Answer(said'.cmd)
MapNext == Tick \/ Command
MapSpec == MapInit /\ [][MapNext]_mapVars
=============================================================================
