--------------------------- MODULE SentinelProofs ---------------------------
(***************************************************************************)
(* Proofs about the sentinel: for any list of known slaves, any number of  *)
(* crashes, restarts and lost exchanges, the node it watches is a master   *)
(* and the slaves it has reached follow that node.                         *)
(***************************************************************************)
EXTENDS Sentinel, SequenceTheorems, TLAPS

USE DEF IsMaster

\* The places of sentinel_start.
SentinelPc == {"ping", "choose", "promote", "wait", "redirect"}

\* The parts of the state the invariant speaks of.
SentinelType ==
    /\ pc \in SentinelPc
    /\ i \in Nat \ {0}
    /\ of \in [Nodes -> Nodes \cup {NoOne}]
    /\ mon \in Nodes
    /\ pc \in {"promote", "wait", "redirect"} => target \in Slaves

\* A node that was set up and has not been restarted since is what it was set up
\* to be.  Of the watched node this holds throughout a failover, of the new
\* master from wait_until_role_master on.
RolesKept ==
    /\ mon \notin missed => IsMaster(mon)
    /\ pc = "redirect" /\ target \notin missed => IsMaster(target)

\* The nodes follow the watched master until redirect_other_slaves begins; from
\* then on those it has passed follow the new one.
Directed ==
    /\ pc # "redirect" => \A n \in Slaves \ (missed \cup {mon}) : IsMaster(n) \/ of[n] = mon
    /\ pc = "redirect" =>
         \A j \in 1..Len(Known) :
            j < i /\ Known[j] \notin missed \cup {mon, target}
                => IsMaster(Known[j]) \/ of[Known[j]] = target

\* The two properties alone are not inductive: what holds when the sentinel pings
\* again rests on what every step of the failover in between has kept.
SentinelInv == SentinelType /\ RolesKept /\ Directed

-----------------------------------------------------------------------------
\* The list is the set of the slaves, place by place.
LEMMA KnownList ==
    /\ Len(Known) \in Nat
    /\ DOMAIN Known = 1..Len(Known)
    /\ \A j \in 1..Len(Known) : Known[j] \in Slaves
    /\ \A n \in Slaves : \E j \in 1..Len(Known) : n = Known[j]
BY NodesAssumption, LenProperties DEF Slaves, Range

\* The configuration files establish the invariant.
LEMMA SentinelInitInv == SentinelInit => SentinelInv
<1> SUFFICES ASSUME SentinelInit PROVE SentinelInv
  OBVIOUS
<1>1. of \in [Nodes -> Nodes \cup {NoOne}] /\ mon \in Nodes /\ mon = Master
  BY DEF SentinelInit, Nodes, Configured
<1>2. SentinelType
  BY <1>1 DEF SentinelInit, SentinelType, SentinelPc
<1>3. RolesKept
  BY <1>1 DEF SentinelInit, RolesKept, Configured
<1>4. Directed
  BY <1>1, Zenon DEF SentinelInit, Directed, Configured, Nodes
<1> QED BY <1>2, <1>3, <1>4 DEF SentinelInv

\* Every step of the sentinel, of time and of the nodes keeps it.
LEMMA SentinelStepInv == SentinelInv /\ [SentinelNext]_sentinelVars => SentinelInv'
<1> SUFFICES ASSUME SentinelInv, [SentinelNext]_sentinelVars PROVE SentinelInv'
  OBVIOUS
<1> USE DEF SentinelInv, SentinelType, RolesKept, Directed, SentinelPc
<1>s. Slaves \subseteq Nodes /\ NoOne \notin Nodes
  BY NodesAssumption DEF Nodes, Slaves
<1>1. CASE UNCHANGED <<of, mon, pc, i, target, missed>>
  BY <1>1
<1>2. ASSUME NEW n \in Nodes, Restart(n) PROVE SentinelInv'
  <2>1. /\ of' \in [Nodes -> Nodes \cup {NoOne}]
        /\ \A k \in Nodes : k # n => of'[k] = of[k]
    BY <1>2 DEF Restart, Configured, Nodes
  <2>2. missed' = missed \cup {n} /\ UNCHANGED <<mon, pc, i, target>>
    BY <1>2 DEF Restart
  <2>3. SentinelType'
    BY <2>1, <2>2
  <2>4. RolesKept'
    BY <1>s, <2>1, <2>2
  <2>5. Directed'
    BY <1>s, <2>1, <2>2, KnownList
  <2> QED BY <2>3, <2>4, <2>5
<1>3. CASE PingFails
  BY <1>3 DEF PingFails
<1>4. CASE Choose
  BY <1>4, KnownList DEF Choose
<1>5. CASE ChooseNone
  BY <1>5 DEF ChooseNone
<1>6. CASE Promote
  <2>1. /\ of' \in [Nodes -> Nodes \cup {NoOne}]
        /\ \A k \in Nodes : of'[k] = of[k] \/ of'[k] = NoOne
    BY <1>6, <1>s DEF Promote, SlaveofNoOne
  <2>2. /\ pc' \in {"ping", "wait"} /\ UNCHANGED <<mon, i, target, missed>>
        /\ pc = "promote" /\ target \in Slaves
    BY <1>6 DEF Promote, Aborted
  <2>3. SentinelType' /\ RolesKept'
    BY <1>s, <2>1, <2>2
  <2>4. Directed'
    BY <1>s, <2>1, <2>2
  <2> QED BY <2>3, <2>4
<1>7. CASE Wait
  <2>1. UNCHANGED <<of, mon, target>>
    BY <1>7 DEF Wait
  <2>2. CASE pc' = "redirect" /\ i' = 1 /\ missed' = missed \ {target} /\ IsMaster(target)
    BY <1>7, <2>1, <2>2, KnownList DEF Wait
  <2>3. CASE pc' = "ping" /\ UNCHANGED <<i, missed>>
    BY <1>7, <2>1, <2>3 DEF Wait
  <2> QED BY <1>7, <2>2, <2>3 DEF Wait, Aborted
<1>8. CASE Redirect
  <2> DEFINE n == Known[i]
  <2>1. /\ i \in 1..Len(Known) /\ n \in Slaves /\ n \in Nodes /\ target \in Nodes
        /\ pc = "redirect" /\ i' = i + 1 /\ UNCHANGED <<mon, pc, target>>
    BY <1>8, <1>s, KnownList DEF Redirect
  <2>2. /\ of' \in [Nodes -> Nodes \cup {NoOne}]
        /\ \A k \in Nodes : k # n => of'[k] = of[k]
    BY <1>8, <2>1 DEF Redirect, Slaveof
  <2>3. \/ Passed(n) /\ UNCHANGED <<of, missed>>
        \/ /\ ~Passed(n) /\ missed' = missed \ {n}
           /\ of'[n] = NoOne \/ of'[n] = target
        \/ ~Passed(n) /\ missed' = missed \cup {n}
    BY <1>8, <2>1 DEF Redirect, Slaveof, Misdirected
  <2>4. SentinelType'
    BY <2>1, <2>2
  <2>5. RolesKept'
    BY <2>1, <2>2, <2>3 DEF Passed
  <2>6. Directed'
    <3> SUFFICES ASSUME NEW j \in 1..Len(Known), j < i',
                        Known[j] \notin missed' \cup {mon, target}
                 PROVE  of'[Known[j]] = NoOne \/ of'[Known[j]] = target
      BY <2>1
    <3>1. CASE Known[j] = n
      BY <2>1, <2>3, <3>1 DEF Passed
    <3>2. CASE Known[j] # n
      BY <1>s, <2>1, <2>2, <2>3, <3>2, KnownList
    <3> QED BY <3>1, <3>2
  <2> QED BY <2>4, <2>5, <2>6
<1>9. CASE Done
  <2>1. /\ mon' = target /\ pc' = "ping" /\ UNCHANGED <<of, i, target, missed>>
        /\ pc = "redirect" /\ i > Len(Known) /\ target \in Nodes
    BY <1>9, <1>s DEF Done
  <2>2. SentinelType' /\ RolesKept'
    BY <2>1
  <2>3. ASSUME NEW n \in Slaves \ (missed \cup {target})
        PROVE  of[n] = NoOne \/ of[n] = target
    <3>1. CASE n = mon
      BY <2>3, <3>1
    <3>2. CASE n # mon
      BY <2>1, <2>3, <3>2, KnownList
    <3> QED BY <3>1, <3>2
  <2> QED BY <2>1, <2>2, <2>3
<1> QED
  <2>1. CASE UNCHANGED sentinelVars
    BY <1>1, <2>1 DEF sentinelVars
  <2>2. CASE DownAfterPasses \/ FailoverTimeoutPasses \/ PingOk \/ \E n \in Nodes : Crash(n)
    BY <1>1, <2>2 DEF DownAfterPasses, FailoverTimeoutPasses, PingOk, Crash
  <2> QED BY <1>2, <1>3, <1>4, <1>5, <1>6, <1>7, <1>8, <1>9, <2>1, <2>2, Zenon
          DEF SentinelNext, SentinelStep

\* The invariant holds throughout sentinel_start.
LEMMA SentinelInvariant == SentinelSpec => []SentinelInv
BY SentinelInitInv, SentinelStepInv, PTL DEF SentinelSpec

\* The node the sentinel watches is a master unless it was restarted: for every
\* list of slaves and any number of faults, MonitoredIsMaster is an invariant of
\* sentinel_start.
THEOREM MonitoredIsMasterHolds == SentinelSpec => []MonitoredIsMaster
<1>1. SentinelInv => MonitoredIsMaster
  BY DEF SentinelInv, RolesKept, MonitoredIsMaster
<1> QED BY <1>1, SentinelInvariant, PTL

\* Between failovers the slaves that were reached follow the watched master: for
\* every list of slaves and any number of faults, SlavesFollow is an invariant of
\* redirect_other_slaves and the steps around it.
THEOREM SlavesFollowHolds == SentinelSpec => []SlavesFollow
<1>1. SentinelInv => SlavesFollow
  BY DEF SentinelInv, Directed, SlavesFollow
<1> QED BY <1>1, SentinelInvariant, PTL
=============================================================================
