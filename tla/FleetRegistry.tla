---------------------------- MODULE FleetRegistry ----------------------------
(***************************************************************************)
(* The control node's registry of self-registering workers: announcements, *)
(* heartbeats, the counters and settings that ride on them, and restarts   *)
(* on either side.                                                         *)
(*                                                                         *)
(* A worker is known by its endpoint; the machine behind it may restart or *)
(* be replaced (another instance-id).  Workers do not interact here, and a *)
(* poll sweep asks each of them once, so one call per endpoint is in       *)
(* flight.  Of the warm policy one setting is followed: the three are      *)
(* pushed alike.  Process events, which a heartbeat drains at most once,   *)
(* and what uses a heartbeat's load (FleetPlacement) are left out.         *)
(***************************************************************************)
EXTENDS Naturals

CONSTANTS
    Endpoints,    \* worker-API base URLs
    Instances,    \* cloud instance-ids
    Policies,     \* values the dashboard may set
    Unset,        \* -1: the setting was never made
    Hits,         \* bound: processes started or reused
    Restarts,     \* bound: worker restarts, replacements and exits
    Refusals,     \* bound: polls and pushes that fail, control node restarts
    PolicySets,   \* bound: changes of the policy
    NoWorker

ASSUME FleetRegistryAssumption ==
    /\ {Hits, Restarts, Refusals, PolicySets} \subseteq Nat
    /\ Unset \notin Policies /\ Instances # {}

VARIABLES
    machine,   \* what runs behind an endpoint
    registered, \* Registry.workers
    poll,      \* the heartbeat call: "idle", "failed" or the answer on its way
    push,      \* endpoints a Configure call follows for, with its value
    desired,   \* desiredMaxWarm
    setting,   \* the dashboard's setting in the control node's database
    ever,      \* ghost: hits served behind the endpoint, by anybody
    uses       \* how much of each bound is used

registryVars == <<machine, registered, poll, push, desired, setting, ever, uses>>
control == <<registered, poll, push, desired>>

NoHits == [warm |-> 0, cold |-> 0]
Plus(h, g) == [warm |-> h.warm + g.warm, cold |-> h.cold + g.cold]
AtMost(h, g) == h.warm <= g.warm /\ h.cold <= g.cold

Idle   == [pc |-> "idle"]
Failed == [pc |-> "failed"]

\* A worker starts with the value its flags give.
Booted(i) == [instance |-> i, up |-> TRUE, maxWarm |-> Unset, hits |-> NoHits]

FleetRegistryInit ==
    /\ machine = [e \in Endpoints |-> Booted(CHOOSE i \in Instances : TRUE)]
    /\ registered = [e \in Endpoints |-> NoWorker]
    /\ poll = [e \in Endpoints |-> Idle] /\ push = [e \in Endpoints |-> Unset]
    /\ desired = Unset /\ setting = Unset
    /\ ever = [e \in Endpoints |-> NoHits]
    /\ uses = [restarts |-> 0, refusals |-> 0, sets |-> 0]

Used(b, limit) == uses[b] < limit /\ uses' = [uses EXCEPT ![b] = @ + 1]

\* Registry.Add: idempotent for the worker it knows; fresh state for a new one.
Announce(e) ==
    LET i == machine[e].instance IN
    /\ machine[e].up
    /\ ~(registered[e] # NoWorker /\ registered[e].instance = i)
    /\ registered' = [registered EXCEPT ![e] =
          [instance |-> i, hits |-> NoHits, base |-> NoHits, beat |-> "never"]]
    /\ UNCHANGED <<machine, poll, push, desired, setting, ever, uses>>

\* A graceful exit says goodbye, if it is heard.
Leave(e, heard) ==
    /\ machine[e].up /\ Used("restarts", Restarts)
    /\ machine' = [machine EXCEPT ![e].up = FALSE]
    /\ registered' = IF heard THEN [registered EXCEPT ![e] = NoWorker] ELSE registered
    /\ UNCHANGED <<poll, push, desired, setting, ever>>

\* The machine restarts, or another one takes its address.
Boot(e, i) ==
    /\ Used("restarts", Restarts)
    /\ machine' = [machine EXCEPT ![e] = Booted(i)]
    /\ UNCHANGED <<control, setting, ever>>

\* A preview is served there: HitStats.
Hit(e, kind) ==
    /\ machine[e].up /\ ever[e].warm + ever[e].cold < Hits
    /\ machine' = [machine EXCEPT ![e].hits[kind] = @ + 1]
    /\ ever' = [ever EXCEPT ![e][kind] = @ + 1]
    /\ UNCHANGED <<control, setting, uses>>

\* handleHeartbeat answers; a machine that is down does not, others may fail to.
Poll(e) ==
    /\ registered[e] # NoWorker /\ poll[e] = Idle /\ push[e] = Unset
    /\ \/ /\ machine[e].up /\ UNCHANGED uses
          /\ poll' = [poll EXCEPT ![e] =
                [pc |-> "answer", hits |-> machine[e].hits, maxWarm |-> machine[e].maxWarm]]
       \/ ~machine[e].up /\ poll' = [poll EXCEPT ![e] = Failed] /\ UNCHANGED uses
       \/ machine[e].up /\ poll' = [poll EXCEPT ![e] = Failed] /\ Used("refusals", Refusals)
    /\ UNCHANGED <<machine, registered, push, desired, setting, ever>>

\* A bug to catch: a restart is noticed only when both counters run backwards.
BankedWhenBoth(w, hits) ==
    IF hits.warm >= w.hits.warm \/ hits.cold >= w.hits.cold THEN w.base ELSE Plus(w.base, w.hits)

\* A counter that runs backwards means a restart: bank the previous boot's.
Banked(w, hits) == IF AtMost(w.hits, hits) THEN w.base ELSE Plus(w.base, w.hits)

\* recordHeartbeat, for whoever is registered there by now.
Record(e, hits) ==
    registered' = IF registered[e] = NoWorker THEN registered
                  ELSE [registered EXCEPT ![e].hits = hits, ![e].beat = "reached",
                                          ![e].base = Banked(registered[e], hits)]

PollFails(e) ==
    /\ poll[e] = Failed /\ poll' = [poll EXCEPT ![e] = Idle]
    /\ registered' = IF registered[e] = NoWorker THEN registered
                     ELSE [registered EXCEPT ![e].beat = "unreachable"]
    /\ UNCHANGED <<machine, push, desired, setting, ever, uses>>

\* A bug to catch: each setting is pushed once, when it is made.
PollEndsQuietly(e) ==
    /\ poll[e].pc = "answer" /\ poll' = [poll EXCEPT ![e] = Idle]
    /\ Record(e, poll[e].hits) /\ UNCHANGED push
    /\ UNCHANGED <<machine, desired, setting, ever, uses>>

\* The answer is recorded, and a worker that reports another value than the
\* desired one gets a push.
PollEnds(e) ==
    /\ poll[e].pc = "answer" /\ poll' = [poll EXCEPT ![e] = Idle]
    /\ Record(e, poll[e].hits)
    /\ push' = IF poll[e].maxWarm = desired THEN push ELSE [push EXCEPT ![e] = desired]
    /\ UNCHANGED <<machine, desired, setting, ever, uses>>

\* Configure, which may fail: the next poll sees the difference again.
Configure(e) ==
    /\ push[e] # Unset /\ push' = [push EXCEPT ![e] = Unset]
    /\ \/ machine[e].up /\ machine' = [machine EXCEPT ![e].maxWarm = push[e]] /\ UNCHANGED uses
       \/ ~machine[e].up /\ UNCHANGED <<machine, uses>>
       \/ Used("refusals", Refusals) /\ UNCHANGED machine
    /\ UNCHANGED <<registered, poll, desired, setting, ever>>

\* warmPolicySetter: the setting is saved, then applied.
SetPolicy(v) ==
    /\ v # desired /\ Used("sets", PolicySets)
    /\ setting' = v /\ desired' = v
    /\ UNCHANGED <<machine, registered, poll, push, ever>>

\* The control node restarts: registrations are not persisted, settings are.
ControlRestarts ==
    /\ Used("refusals", Refusals)
    /\ registered' = [e \in Endpoints |-> NoWorker]
    /\ poll' = [e \in Endpoints |-> Idle] /\ push' = [e \in Endpoints |-> Unset]
    /\ desired' = setting
    /\ UNCHANGED <<machine, setting, ever>>

FleetRegistryNext ==
    \/ \E e \in Endpoints : \/ Announce(e) \/ Poll(e) \/ PollFails(e) \/ PollEnds(e) \/ Configure(e)
                            \/ \E i \in Instances : Boot(e, i)
                            \/ \E heard \in BOOLEAN : Leave(e, heard)
                            \/ \E kind \in {"warm", "cold"} : Hit(e, kind)
    \/ (\E v \in Policies : SetPolicy(v)) \/ ControlRestarts

\* Workers announce themselves every 20 s, the control node polls every 10 s
\* with a timeout on each call.
Announcing == \E e \in Endpoints : Announce(e)
Polling == \E e \in Endpoints : Poll(e) \/ PollFails(e) \/ PollEnds(e) \/ Configure(e)

FleetRegistrySpec ==
    FleetRegistryInit /\ [][FleetRegistryNext]_registryVars
    /\ WF_registryVars(Announcing) /\ WF_registryVars(Polling)

-------------------------------------------------------------------------------

FleetRegistryTypeOK ==
    /\ \A e \in Endpoints : /\ machine[e].maxWarm \in Policies \cup {Unset}
                            /\ AtMost(machine[e].hits, ever[e])
    /\ \A e \in Endpoints : registered[e] # NoWorker =>
          registered[e].beat \in {"never", "reached", "unreachable"}
    /\ {desired, setting} \subseteq Policies \cup {Unset}

Totals(w) == Plus(w.base, w.hits)

\* What a registered worker adds to the fleet's totals counts no hit twice, and
\* does not go back while it stays registered: through restarts of the worker,
\* polls that fail and answers that come late, for which the counters are banked
\* ("added to the live heartbeat values so fleet totals stay monotonic for as
\* long as the control node runs", fleet.go:61).  The fleet's own totals are less
\* than that comment says: they fall when a worker says goodbye (fleet.go:248),
\* also when it only restarts, when another machine takes its endpoint
\* (fleet.go:240), and as long as a worker that is not fresh is left out of the
\* sum (fleet.go:405).
HitTotalsCount ==
    [][\A e \in Endpoints :
          registered'[e] # NoWorker =>
             /\ AtMost(Totals(registered'[e]), ever'[e])
             /\ registered[e] # NoWorker /\ registered[e].instance = registered'[e].instance
                   => AtMost(Totals(registered[e]), Totals(registered'[e]))]_registryVars

\* "the settings survive the whole fleet's churn without any worker-side
\* persistence" (fleet.go:341): in the end every worker that is up applies what
\* the dashboard set last.
PolicyReachesWorkers ==
    <>[](\A e \in Endpoints : machine[e].up /\ desired # Unset => machine[e].maxWarm = desired)
=============================================================================
