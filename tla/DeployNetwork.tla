---------------------------- MODULE DeployNetwork ----------------------------
(***************************************************************************)
(* The docker network that pairs a process-mode frontend with its backend: *)
(* found or created by whichever side starts first, removed by the last    *)
(* one out.  There is no count of its members: the daemon refuses to       *)
(* remove a network while a running container is attached, and a container *)
(* is attached from its start to its exit, not from its creation.          *)
(*                                                                         *)
(* One backend, its frontend, the deletion of their repository, and a kill *)
(* of the server are modelled.  A network is known by the order in which   *)
(* it was created; all of them have the deploy's name.                     *)
(***************************************************************************)
EXTENDS Naturals, FiniteSets

CONSTANTS
    NetworkIds,    \* bound: networks created
    DaemonFaults   \* bound: failed daemon calls, purges and kills

ASSUME DeployNetworkAssumption == NetworkIds \in Nat \ {0} /\ DaemonFaults \in Nat

VARIABLES
    networks,   \* the networks the daemon has
    formed,     \* how many were created so far
    containers, \* per side: "none", "created", "up" or "exited", and its network
    starter,    \* per side, startContainer: "off", "ensures", "creates", "starts"
    reaper,     \* per side: "off", "waits", "releases"
    netMu,      \* who holds Manager.netMu: a side, or "free"
    purge,      \* removeLabeled: "off", or "lists" with the networks it listed
    serving,    \* FALSE from a kill until ReclaimOrphans
    kept,       \* a network was left behind, and why
    troubles    \* faults so far

netVars == <<networks, formed, containers, starter, reaper, netMu, purge, serving, kept, troubles>>

Pair == {"be", "fe"}
NoContainer == [state |-> "none", network |-> 0]

NetInit ==
    /\ networks = {} /\ formed = 0 /\ containers = [s \in Pair |-> NoContainer]
    /\ starter = [s \in Pair |-> "off"] /\ reaper = [s \in Pair |-> "off"]
    /\ netMu = "free" /\ purge = [pc |-> "off", nets |-> {}] /\ serving = TRUE
    /\ kept = "no" /\ troubles = 0

Trouble == troubles < DaemonFaults /\ troubles' = troubles + 1

-------------------------------------------------------------------------------
(* The daemon *)

Attached(n) == \E s \in Pair : containers[s] = [state |-> "up", network |-> n]

\* RemoveNetwork: refused while a running container is attached.
Removed(ns) == { n \in networks : n \notin ns \/ Attached(n) }

-------------------------------------------------------------------------------
(* startContainer, under netMu from the lookup to the start *)

\* A key is started when nothing of its last process is left.
Begins(s) ==
    /\ serving /\ starter[s] = "off" /\ reaper[s] = "off" /\ netMu = "free"
    /\ netMu' = s /\ starter' = [starter EXCEPT ![s] = "ensures"]
    /\ UNCHANGED <<networks, formed, containers, reaper, purge, serving, kept, troubles>>

\* EnsureNetwork, and the removal of a stale namesake of the container.
Resolves(s) ==
    /\ IF networks # {} THEN UNCHANGED <<networks, formed>>
       ELSE formed < NetworkIds /\ formed' = formed + 1 /\ networks' = {formed'}
    /\ \E n \in networks' : containers' = [containers EXCEPT ![s] = [state |-> "none", network |-> n]]

\* A bug to catch: the lock is given back as soon as the network is resolved.
EnsuresThenUnlocks(s) ==
    /\ starter[s] = "ensures" /\ starter' = [starter EXCEPT ![s] = "creates"]
    /\ Resolves(s) /\ netMu' = "free"
    /\ UNCHANGED <<reaper, purge, serving, kept, troubles>>

\* The lookup, with netMu still held.
Ensures(s) ==
    /\ starter[s] = "ensures" /\ starter' = [starter EXCEPT ![s] = "creates"]
    /\ Resolves(s)
    /\ UNCHANGED <<reaper, netMu, purge, serving, kept, troubles>>

Creates(s) ==
    /\ starter[s] = "creates" /\ starter' = [starter EXCEPT ![s] = "starts"]
    /\ containers' = [containers EXCEPT ![s].state = "created"]
    /\ UNCHANGED <<networks, formed, reaper, netMu, purge, serving, kept, troubles>>

StartReturns(s) == starter' = [starter EXCEPT ![s] = "off"] /\ netMu' = "free"

\* CreateContainer fails: the network is not given back.
CreateFails(s) ==
    /\ starter[s] = "creates" /\ Trouble /\ StartReturns(s)
    /\ kept' = IF Attached(containers[s].network) THEN kept ELSE "create failed"
    /\ containers' = [containers EXCEPT ![s] = NoContainer]
    /\ UNCHANGED <<networks, formed, reaper, purge, serving>>

\* abort: a declared network is missing, or the container does not start.
Aborts(s) ==
    /\ starter[s] = "starts" /\ StartReturns(s)
    /\ IF containers[s].state = "created" /\ containers[s].network \in networks
       THEN Trouble ELSE UNCHANGED troubles
    /\ containers' = [containers EXCEPT ![s] = NoContainer]
    /\ networks' = Removed({containers[s].network})
    /\ UNCHANGED <<formed, reaper, purge, serving, kept>>

Starts(s) ==
    /\ starter[s] = "starts" /\ StartReturns(s)
    /\ containers[s].state = "created" /\ containers[s].network \in networks
    /\ containers' = [containers EXCEPT ![s].state = "up"]
    /\ reaper' = [reaper EXCEPT ![s] = "waits"]
    /\ UNCHANGED <<networks, formed, purge, serving, kept, troubles>>

-------------------------------------------------------------------------------
(* The container's end, and its reaper *)

ContainerExits(s) ==
    /\ containers[s].state = "up" /\ containers' = [containers EXCEPT ![s].state = "exited"]
    /\ UNCHANGED <<networks, formed, starter, reaper, netMu, purge, serving, kept, troubles>>

\* WaitContainer returns: the container has ended, or the daemon is away.
Reaps(s) ==
    /\ reaper[s] = "waits" /\ reaper' = [reaper EXCEPT ![s] = "releases"]
    /\ IF containers[s].state = "up" THEN Trouble ELSE UNCHANGED troubles
    /\ containers' = [containers EXCEPT ![s].state = "none"]
    /\ UNCHANGED <<networks, formed, starter, netMu, purge, serving, kept>>

\* releaseNetwork.
Releases(s) ==
    /\ reaper[s] = "releases" /\ netMu = "free" /\ reaper' = [reaper EXCEPT ![s] = "off"]
    /\ networks' = Removed({containers[s].network})
    /\ containers' = [containers EXCEPT ![s] = NoContainer]
    /\ UNCHANGED <<formed, starter, netMu, purge, serving, kept, troubles>>

\* netMu is held by a start for longer than the 30 s of the reaper's context.
ReleaseTooLate(s) ==
    /\ reaper[s] = "releases" /\ netMu # "free" /\ Trouble
    /\ reaper' = [reaper EXCEPT ![s] = "off"] /\ kept' = "too late"
    /\ containers' = [containers EXCEPT ![s] = NoContainer]
    /\ UNCHANGED <<networks, formed, starter, netMu, purge, serving>>

-------------------------------------------------------------------------------
(* removeLabeled: the deletion of the repository, and the start of the server *)

Stopped(c) == IF c.state \in {"created", "up"} THEN [c EXCEPT !.state = "exited"] ELSE c

\* Every labelled container is removed; then the networks are listed.
PurgeLists ==
    /\ serving /\ purge.pc = "off" /\ Trouble
    /\ containers' = [s \in Pair |-> Stopped(containers[s])]
    /\ purge' = [pc |-> "lists", nets |-> networks]
    /\ UNCHANGED <<networks, formed, starter, reaper, netMu, serving, kept>>

PurgeRemoves ==
    /\ purge.pc = "lists" /\ netMu = "free" /\ purge' = [pc |-> "off", nets |-> {}]
    /\ networks' = Removed(purge.nets)
    /\ UNCHANGED <<formed, containers, starter, reaper, netMu, serving, kept, troubles>>

Killed ==
    /\ serving /\ serving' = FALSE /\ Trouble
    /\ starter' = [s \in Pair |-> "off"] /\ reaper' = [s \in Pair |-> "off"]
    /\ netMu' = "free" /\ purge' = [pc |-> "off", nets |-> {}]
    /\ UNCHANGED <<networks, formed, containers, kept>>

\* ReclaimOrphans, before anything is started.
Reclaims ==
    /\ ~serving /\ serving' = TRUE /\ networks' = {} /\ kept' = "no"
    /\ containers' = [s \in Pair |-> NoContainer]
    /\ UNCHANGED <<formed, starter, reaper, netMu, purge, troubles>>

NetNext ==
    \/ PurgeLists \/ PurgeRemoves \/ Killed \/ Reclaims
    \/ \E s \in Pair : \/ Begins(s) \/ Ensures(s) \/ Creates(s) \/ CreateFails(s)
                       \/ Aborts(s) \/ Starts(s) \/ ContainerExits(s) \/ Reaps(s)
                       \/ Releases(s) \/ ReleaseTooLate(s)

NetSpec == NetInit /\ [][NetNext]_netVars

-------------------------------------------------------------------------------
NetTypeOK ==
    /\ networks \subseteq 1 .. NetworkIds /\ formed \in 0 .. NetworkIds
    /\ \A s \in Pair : /\ containers[s].state \in {"none", "created", "up", "exited"}
                       /\ starter[s] \in {"off", "ensures", "creates", "starts"}
                       /\ reaper[s] \in {"off", "waits", "releases"}
    /\ netMu \in Pair \cup {"free"} /\ kept \in {"no", "create failed", "too late"}

NothingStarting == serving /\ \A s \in Pair : starter[s] = "off" /\ reaper[s] = "off"

\* A network that a start has looked up is there until its container is on it
\* (the comment at container.go:60), so a frontend and its backend that are up
\* share one; and once neither is up no network is left, one per backend ever
\* served being what exhausted the daemon (supervise.go:1643), unless a creation
\* failed or a release came too late.
PairSharesNetwork ==
    /\ \A s \in Pair : containers[s].state = "up" \/ starter[s] \in {"creates", "starts"}
                       => containers[s].network \in networks
    /\ Cardinality(networks) <= 1
    /\ NothingStarting /\ kept = "no" /\ purge.pc = "off" => networks = {} \/ \E n \in networks : Attached(n)
=============================================================================
