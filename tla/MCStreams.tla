----------------------------- MODULE MCStreams -----------------------------
(***************************************************************************)
(* What carries the accepted writes out of the master's memory, side by    *)
(* side: its forwarding thread (ReplForward), the ebpf-proxy (ProxyForward) *)
(* and the kprobe ring (KprobeRing) to the replicas, and the AOF and the   *)
(* dump to a restart (SnapRecovery).  A behaviour exercises one of them,   *)
(* chosen at the start; the others rest.                                   *)
(***************************************************************************)
EXTENDS ReplForward, ProxyForward, KprobeRing, SnapRecovery, TLC

VARIABLE carrier

StreamsInit ==
    /\ carrier \in {"thread", "proxy", "kprobe", "files"}
    /\ FwdInit /\ PfwdInit /\ KprobeInit /\ SnapInit

StreamsNext ==
    \/ carrier = "thread" /\ FwdNext /\ UNCHANGED <<carrier, pfwdVars, kprobeVars, snapVars>>
    \/ carrier = "proxy" /\ PfwdNext /\ UNCHANGED <<carrier, fwdVars, kprobeVars, snapVars>>
    \/ carrier = "kprobe" /\ KprobeNext /\ UNCHANGED <<carrier, fwdVars, pfwdVars, snapVars>>
    \/ carrier = "files" /\ SnapNext /\ UNCHANGED <<carrier, fwdVars, pfwdVars, kprobeVars>>

StreamsSpec ==
    StreamsInit /\ [][StreamsNext]_<<carrier, fwdVars, pfwdVars, kprobeVars, snapVars>>

\* Addresses are interchangeable.
AddrSymmetry == Permutations(Addrs)
=============================================================================
