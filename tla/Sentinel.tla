------------------------------ MODULE Sentinel ------------------------------
(***************************************************************************)
(* The sentinel: one process that pings the master and, when it has been   *)
(* silent for long enough, promotes one of the slaves it knows and points  *)
(* the others at it.                                                       *)
(*                                                                         *)
(* Every exchange opens a connection of its own, sends one line and waits  *)
(* for the reply with a timeout.  It fails when the node is down, and it   *)
(* may fail when the node is up: before the node has seen the command, or  *)
(* after it has executed it.  Nodes crash and come back at any time, with  *)
(* the role of their configuration file, since SLAVEOF is kept in memory   *)
(* only.                                                                   *)
(***************************************************************************)
EXTENDS Naturals, Sequences, FiniteSets, SequencesExt

CONSTANTS
    Known,       \* sentinel_known_slaves, the list of the slaves' addresses
    Master,      \* the master of the configuration files
    NoOne,       \* what a master follows
    MaxCrashes,  \* bound: crashes of nodes
    MaxLosses    \* bound: failed exchanges with a node that is up

ASSUME NodesAssumption ==
    /\ Known \in Seq(Range(Known)) /\ IsInjective(Known)
    /\ NoOne \notin Range(Known) \cup {Master}
    /\ {MaxCrashes, MaxLosses} \subseteq Nat

Slaves == Range(Known)
Nodes == Slaves \cup {Master}

VARIABLES
    up,      \* the nodes that are running
    of,      \* g_cfg.role and master_host of each node: whom it follows
    mon,     \* sentinel_monitor_host
    sdown,   \* sdown
    ripe,    \* has sdown_since been down_after ago?
    cool,    \* has last_failover_ms been failover_timeout ago?
    pc,      \* where sentinel_start is
    i,       \* the node of the list looked at
    target,  \* nodes[idx]
    missed,  \* history: nodes restarted, or not reached, since they were last set up
    faults   \* what is left of MaxCrashes and MaxLosses

timers == <<sdown, ripe, cool>>
sentinelVars == <<up, of, mon, sdown, ripe, cool, pc, i, target, missed, faults>>

IsMaster(n) == of[n] = NoOne
Configured(n) == IF n = Master THEN NoOne ELSE Master

SentinelInit ==
    /\ up = Nodes
    /\ of = [n \in Nodes |-> Configured(n)]
    /\ mon = Master
    /\ sdown = FALSE
    /\ ripe = FALSE
    /\ cool = TRUE
    /\ pc = "ping"
    /\ i = 1
    /\ target = NoOne
    /\ missed = {}
    /\ faults = [crashes |-> MaxCrashes, losses |-> MaxLosses]

-----------------------------------------------------------------------------
(* The nodes, time and the network                                         *)

Crash(n) ==
    /\ n \in up
    /\ faults.crashes > 0
    /\ up' = up \ {n}
    /\ faults' = [faults EXCEPT !.crashes = @ - 1]
    /\ UNCHANGED <<of, mon, timers, pc, i, target, missed>>

\* The process starts again: main reads the role from the configuration.
Restart(n) ==
    /\ n \notin up
    /\ up' = up \cup {n}
    /\ of' = [of EXCEPT ![n] = Configured(n)]
    /\ missed' = missed \cup {n}
    /\ UNCHANGED <<mon, timers, pc, i, target, faults>>

DownAfterPasses ==
    /\ sdown
    /\ ~ripe
    /\ ripe' = TRUE
    /\ UNCHANGED <<up, of, mon, sdown, cool, pc, i, target, missed, faults>>

FailoverTimeoutPasses ==
    /\ ~cool
    /\ cool' = TRUE
    /\ UNCHANGED <<up, of, mon, sdown, ripe, pc, i, target, missed, faults>>

\* SLAVEOF on a node, repl_slaveof_noone and repl_slaveof.
SlaveofNoOne(n) == [of EXCEPT ![n] = NoOne]
Slaveof(n, host) == [of EXCEPT ![n] = host]

\* send_inline_cmd_simple, fetch_info: the exchange with n succeeds, or it fails.
Reply(n) == n \in up /\ UNCHANGED faults

Silence(n) ==
    \/ /\ n \notin up
       /\ UNCHANGED faults
    \/ /\ n \in up
       /\ faults.losses > 0
       /\ faults' = [faults EXCEPT !.losses = @ - 1]

-----------------------------------------------------------------------------
(* sentinel_start                                                          *)

\* ping_node answers.
PingOk ==
    /\ pc = "ping"
    /\ Reply(mon)
    /\ sdown' = FALSE
    /\ ripe' = FALSE
    /\ UNCHANGED <<up, of, mon, cool, pc, i, target, missed>>

\* ping_node fails: suspicion begins, or it is old enough for a failover.
PingFails ==
    /\ pc = "ping"
    /\ Silence(mon)
    /\ sdown' = TRUE
    /\ ripe' = (sdown /\ ripe)
    /\ IF ripe' /\ cool THEN pc' = "choose" /\ i' = 1 ELSE UNCHANGED <<pc, i>>
    /\ UNCHANGED <<up, of, mon, cool, target, missed>>

PromotableSlave(n) == of[n] = mon

\* The condition of choose_promotion_target: a master, which an aborted failover
\* may have left behind, or a slave of the failed one.
Promotable(n) == IsMaster(n) \/ of[n] = mon

\* One node of choose_promotion_target.
Choose ==
    /\ pc = "choose"
    /\ i <= Len(Known)
    /\ LET n == Known[i]
       IN  \/ /\ n # mon
              /\ Reply(n)
              /\ Promotable(n)
              /\ target' = n
              /\ pc' = "promote"
              /\ UNCHANGED i
           \/ /\ \/ n = mon /\ UNCHANGED faults
                 \/ n # mon /\ Silence(n)
                 \/ n # mon /\ Reply(n) /\ ~Promotable(n)
              /\ i' = i + 1
              /\ UNCHANGED <<target, pc>>
    /\ UNCHANGED <<up, of, mon, timers, missed>>

\* "no promotable slave"
ChooseNone ==
    /\ pc = "choose"
    /\ i > Len(Known)
    /\ pc' = "ping"
    /\ UNCHANGED <<up, of, mon, timers, i, target, missed, faults>>

\* Every other way out of a failover that does not complete: the timeout runs.
Aborted ==
    /\ pc' = "ping"
    /\ cool' = FALSE
    /\ UNCHANGED <<sdown, ripe>>

\* issue_slaveof_no_one.  When only the reply is lost the node is a master and the
\* failover is aborted.
Promote ==
    /\ pc = "promote"
    /\ \/ /\ Reply(target)
          /\ of' = SlaveofNoOne(target)
          /\ pc' = "wait"
          /\ UNCHANGED timers
       \/ /\ Silence(target)
          /\ of' \in {of} \cup IF target \in up THEN {SlaveofNoOne(target)} ELSE {}
          /\ Aborted
    /\ UNCHANGED <<up, mon, i, target, missed>>

WaitUnchecked ==
    /\ pc = "wait"
    /\ pc' = "redirect"
    /\ i' = 1
    /\ missed' = missed \ {target}
    /\ UNCHANGED <<up, of, mon, timers, target, faults>>

\* wait_until_role_master: it is seen to be a master in time, or it is not.
Wait ==
    /\ pc = "wait"
    /\ \/ /\ Reply(target)
          /\ IsMaster(target)
          /\ pc' = "redirect"
          /\ i' = 1
          /\ missed' = missed \ {target}
          /\ UNCHANGED timers
       \/ /\ \/ Silence(target)
             \/ Reply(target) /\ ~IsMaster(target)
          /\ Aborted
          /\ UNCHANGED <<i, missed>>
    /\ UNCHANGED <<up, of, mon, target>>

MisdirectedFromOld(n) == of[n] = mon

\* The condition of redirect_other_slaves: all that do not follow the new master.
Misdirected(n) == of[n] = mon \/ of[n] # target

\* The nodes that redirect_other_slaves passes over: the new master and the old.
Passed(n) == n \in {target, mon}

\* One node of redirect_other_slaves: fetch_info, then SLAVEOF to the new master.
Redirect ==
    /\ pc = "redirect"
    /\ i <= Len(Known)
    /\ LET n == Known[i]
       IN  \/ /\ Passed(n)
              /\ UNCHANGED <<of, missed, faults>>
           \/ /\ ~Passed(n)
              /\ Reply(n)
              /\ of' = IF ~IsMaster(n) /\ Misdirected(n)
                       THEN Slaveof(n, target) ELSE of
              /\ missed' = missed \ {n}
           \/ /\ ~Passed(n)
              /\ Silence(n)
              /\ missed' = missed \cup {n}
              /\ of' \in {of} \cup IF n \in up /\ ~IsMaster(n)
                                   THEN {Slaveof(n, target)} ELSE {}
    /\ i' = i + 1
    /\ UNCHANGED <<up, mon, timers, pc, target>>

\* "failover done"
Done ==
    /\ pc = "redirect"
    /\ i > Len(Known)
    /\ mon' = target
    /\ cool' = FALSE
    /\ sdown' = FALSE
    /\ ripe' = FALSE
    /\ pc' = "ping"
    /\ UNCHANGED <<up, of, i, target, missed, faults>>

SentinelStep ==
    \/ PingOk \/ PingFails
    \/ Choose \/ ChooseNone
    \/ Promote \/ Wait
    \/ Redirect \/ Done

SentinelNext ==
    \/ SentinelStep
    \/ DownAfterPasses
    \/ FailoverTimeoutPasses
    \/ \E n \in Nodes : Crash(n) \/ Restart(n)

\* The loop of sentinel_start goes on and time passes.  Nobody has to restart a
\* node.
SentinelFairness ==
    /\ WF_sentinelVars(SentinelStep)
    /\ WF_sentinelVars(DownAfterPasses)
    /\ WF_sentinelVars(FailoverTimeoutPasses)

SentinelSpec == SentinelInit /\ [][SentinelNext]_sentinelVars /\ SentinelFairness

-----------------------------------------------------------------------------
(* Properties                                                              *)

\* The node the sentinel watches is a master, over any number of failovers,
\* aborted ones included, as long as it has not been restarted since it was
\* promoted (wait_until_role_master before the address is changed).
MonitoredIsMaster == pc = "ping" /\ mon \in up \ missed => IsMaster(mon)

\* Between failovers every known slave follows the watched master, except those
\* that were not reached or have been restarted: also a slave that an earlier
\* failover had missed is set right by the next that reaches it
\* (redirect_other_slaves).
SlavesFollow ==
    pc = "ping" => \A n \in Slaves \ (missed \cup {mon}) : IsMaster(n) \/ of[n] = mon

\* Once crashes and lost exchanges have ceased, the watched master runs or there
\* is no node left that could be promoted: no failover stays half done, though
\* any of its exchanges may have failed (the retry of sentinel_start, and a
\* master as candidate in choose_promotion_target).
FailoverCompletes ==
    <>[](\/ mon \in up
         \/ \A n \in (up \cap Slaves) \ {mon} : ~IsMaster(n) /\ of[n] # mon)
=============================================================================
