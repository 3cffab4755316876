----------------------------- MODULE MCProgress -----------------------------
(***************************************************************************)
(* Two parts that must get on by themselves, side by side: the sentinel    *)
(* (Sentinel) and the reactor that sends a snapshot (FullSync).  A         *)
(* behaviour exercises one of them, chosen at the start, under the         *)
(* fairness of that one; the other rests.                                  *)
(***************************************************************************)
EXTENDS Sentinel, FullSync

CONSTANTS s1, s2, s3, m

VARIABLE system

ProgressInit == system \in {"sentinel", "snapshot"} /\ SentinelInit /\ FullSyncInit

\* The bound on connections is used up, or the slave's process is gone.
SlaveIsDone == ~tcp.open /\ (tcp.n = MaxSyncs \/ slv.pc = "dead")

ProgressNext ==
    \/ system = "sentinel" /\ SentinelNext /\ UNCHANGED <<system, fullSyncVars>>
    \/ system = "snapshot" /\ FullSyncNext /\ UNCHANGED <<system, sentinelVars>>
    \/ system = "snapshot" /\ SlaveIsDone /\ UNCHANGED <<system, sentinelVars, fullSyncVars>>

\* The fairness of each part for its own behaviours.  The reactor that sends a snapshot
\* keeps running: every wait of queue_snapshot has a time limit.
ProgressFairness ==
    /\ WF_sentinelVars(system = "sentinel" /\ SentinelStep)
    /\ WF_sentinelVars(system = "sentinel" /\ DownAfterPasses)
    /\ WF_sentinelVars(system = "sentinel" /\ FailoverTimeoutPasses)
    /\ WF_fullSyncVars(system = "snapshot" /\ MasterStep)

ProgressSpec ==
    /\ ProgressInit
    /\ [][ProgressNext]_<<system, sentinelVars, fullSyncVars>>
    /\ ProgressFairness

\* The list may name the first master too: it is a slave once it has been replaced.
FourNodes == <<s1, s2, s3, m>>
=============================================================================
