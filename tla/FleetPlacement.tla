--------------------------- MODULE FleetPlacement ----------------------------
(***************************************************************************)
(* Where the control node places processes on its workers, from what their *)
(* last heartbeats and reports said, and what it tells the autoscaler.     *)
(*                                                                         *)
(* A key is a placement key: a repo and the hash of a backend, or of the   *)
(* backend a process-mode frontend belongs to, or of a frontend alone; the *)
(* processes of one placement key are not told apart.  Rendezvous weights  *)
(* are any injective ranking of the workers per key.  Recency is the order *)
(* of the last touches, and of nothing else.  Load is compared by          *)
(* cross-multiplication.                                                   *)
(***************************************************************************)
EXTENDS Naturals, FiniteSets

CONSTANTS
    Workers,     \* registered workers
    Autoscaled,  \* those with a cloud instance-id
    Keys,        \* placement keys
    Weight,      \* hrw: Weight[w][k]
    TopScore,    \* the largest value of a weight, 2^64 - 1
    MaxWarm,     \* hb.MaxWarm: the cap of each worker, 0 for none
    MinWarm,     \* desiredMinWarm: the fleet-wide floor
    Changes      \* bound: workers that go stale or drain, cloud calls that fail

ASSUME WeightAssumption ==
    /\ TopScore \in Nat /\ Weight \in [Workers -> [Keys -> 0 .. TopScore]]
    /\ \A k \in Keys : \A v, w \in Workers : Weight[v][k] = Weight[w][k] => v = w

ASSUME FleetPlacementAssumption ==
    /\ IsFiniteSet(Workers) /\ IsFiniteSet(Keys) /\ Autoscaled \subseteq Workers
    /\ MaxWarm \in [Workers -> Nat] /\ MinWarm \in Nat /\ Changes \in Nat

VARIABLES
    procs,     \* the keys each worker runs
    newer,     \* <<j, k>>, of keys that run: the last touch of j is after that of k
    beat,      \* the registry's view of a worker: last heartbeat, freshness
    unserved,  \* unservedDemand
    protected, \* Publisher.protected: instances it last set, and how
    shielded,  \* instances the autoscaling group protects from scale-in
    misled,    \* history: instances the last call for which was applied, though
               \* its answer was an error
    changes

fleetVars == <<procs, newer, beat, unserved, protected, shielded, misled, changes>>
cloud == <<protected, shielded, misled>>

FleetPlacementInit ==
    /\ procs = [w \in Workers |-> {}] /\ newer = {}
    /\ beat = [w \in Workers |-> [fresh |-> FALSE, running |-> 0, draining |-> FALSE]]
    /\ unserved = {} /\ protected = << >> /\ shielded = {} /\ misled = {} /\ changes = 0

-------------------------------------------------------------------------------
(* place *)

FreshIn(b) == {w \in Workers : b[w].fresh}
FallbackIn(b) == {w \in FreshIn(b) : ~b[w].draining}
EligibleIn(b) == {w \in FallbackIn(b) : MaxWarm[w] = 0 \/ b[w].running < MaxWarm[w]}

TopWeight(S, k) == CHOOSE w \in S : \A v \in S : Weight[v][k] <= Weight[w][k]

\* A smaller load, a tie broken by weight.  A worker without a cap has load 0.
Load(b, w) == IF MaxWarm[w] = 0 THEN <<0, 1>> ELSE <<b[w].running, MaxWarm[w]>>
Lighter(x, y) == x[1] * y[2] < y[1] * x[2]
LeastLoaded(b, k) ==
    LET S == {w \in FallbackIn(b) : \A v \in FallbackIn(b) : ~Lighter(Load(b, v), Load(b, w))}
    IN TopWeight(S, k)

\* A bug to catch: load decides first, weight only ties.
PlaceByLoad(b, k) == LeastLoaded(b, k)

\* The top-weighted worker with a free slot; when all are full the least loaded,
\* as a cap is a target and not a refusal.
Place(b, k) == IF EligibleIn(b) # {} THEN TopWeight(EligibleIn(b), k) ELSE LeastLoaded(b, k)

-------------------------------------------------------------------------------

Running == UNION {procs[w] : w \in Workers}
Without(k) == newer \cap ((Keys \ {k}) \X (Keys \ {k}))
Touched(k) == Without(k) \cup ({k} \X (Running \ {k}))

\* EnsureRunning: the worker starts or reuses the process; without a worker the
\* key counts as demand.
EnsureRunning(k) ==
    /\ \/ /\ FallbackIn(beat) = {} /\ unserved' = unserved \cup {k}
          /\ UNCHANGED <<procs, newer>>
       \/ /\ FallbackIn(beat) # {} /\ UNCHANGED unserved
          /\ procs' = [procs EXCEPT ![Place(beat, k)] = @ \cup {k}]
          /\ newer' = Touched(k)
    /\ UNCHANGED <<beat, cloud, changes>>

\* A process stops by itself or is reaped by its worker.
EndsOn(w, k) ==
    /\ k \in procs[w] /\ procs' = [procs EXCEPT ![w] = @ \ {k}]
    /\ newer' = IF \E v \in Workers \ {w} : k \in procs[v] THEN newer ELSE Without(k)
    /\ UNCHANGED <<beat, unserved, cloud, changes>>

\* Registry.Stop: every fresh worker is asked.
StopEverywhere(k) ==
    LET on == {w \in Workers : k \in procs[w]} IN
    /\ on # {}
    /\ procs' = [w \in Workers |-> IF beat[w].fresh THEN procs[w] \ {k} ELSE procs[w]]
    /\ newer' = IF on \subseteq FreshIn(beat) THEN Without(k) ELSE newer
    /\ UNCHANGED <<beat, unserved, cloud, changes>>

Heartbeat(w) ==
    /\ beat' = [beat EXCEPT ![w].fresh = TRUE, ![w].running = Cardinality(procs[w])]
    /\ beat' # beat
    /\ UNCHANGED <<procs, newer, unserved, cloud, changes>>

\* Silent for fleetStaleAfter, or told to drain before its instance ends.
Silent(w) ==
    /\ changes < Changes /\ changes' = changes + 1
    /\ \/ beat[w].fresh /\ beat' = [beat EXCEPT ![w].fresh = FALSE]
       \/ ~beat[w].draining /\ beat' = [beat EXCEPT ![w].draining = TRUE]
    /\ UNCHANGED <<procs, newer, unserved, cloud>>

\* report: every fresh worker's processes, one worker for each key.
Reports == LET on(k) == {w \in FreshIn(beat) : k \in procs[w]}
               seen == {k \in Keys : on(k) # {}}
           IN {f \in [seen -> Workers] : \A k \in seen : f[k] \in on(k)}

\* The n of them that were touched last.
Newest(ks, n) == {k \in ks : Cardinality({j \in ks : <<j, k>> \in newer}) < n}

\* minWarmQuotas: the floor's processes, counted per worker.
Floor(rep) == Newest(DOMAIN rep, MinWarm)

\* A bug to catch: the floor pushed to every worker as it is.
FloorEach(rep) == [w \in Workers |-> MinWarm]

Quotas(rep) == [w \in Workers |-> Cardinality({k \in Floor(rep) : rep[k] = w})]

\* A worker's reaper protects its own latest n processes.
Latest(w, n) == Newest(procs[w], n)

\* Publisher.tick: demand is published and forgotten; busy instances are
\* protected and idle ones released, those whose state the cache does not have.
\* A call that answers with an error leaves the cache as it is, though it may
\* have been applied, to all of its instances or to some (a timeout, or one
\* instance just terminated); instances out of sight leave the cache.
Busy == [w \in FreshIn(beat) \cap Autoscaled |-> beat[w].running > 0]
Cached(w, b) == w \in DOMAIN protected /\ protected[w] = b
Due == {w \in DOMAIN Busy : ~Cached(w, Busy[w])}

\* The group after calls that set the instances in set, of which those in lost
\* had an error for an answer.
Calls(set, lost) ==
    /\ shielded' = {w \in Workers : IF w \in set THEN Busy[w] ELSE w \in shielded}
    /\ misled' = (misled \ set) \cup lost

\* A bug to catch: the cache is written before the call is known to succeed.
TickOptimistic(refused, lost) ==
    /\ <<unserved, protected>> # <<{}, Busy>> /\ refused \subseteq Due /\ lost \subseteq refused
    /\ unserved' = {} /\ protected' = Busy
    /\ Calls((Due \ refused) \cup lost, lost)
    /\ changes' = changes + (IF refused = {} THEN 0 ELSE 1) /\ changes' <= Changes
    /\ UNCHANGED <<procs, newer, beat>>

Tick(refused, lost) ==
    LET done == Due \ refused IN
    /\ <<unserved, protected>> # <<{}, Busy>> /\ refused \subseteq Due /\ lost \subseteq refused
    /\ \A v, w \in Due : Busy[v] = Busy[w] => (v \in refused <=> w \in refused)
    /\ unserved' = {}
    /\ protected' = [w \in done \cup (DOMAIN Busy \cap DOMAIN protected) |->
                       IF w \in done THEN Busy[w] ELSE protected[w]]
    /\ Calls(done \cup lost, lost)
    /\ changes' = changes + (IF refused = {} THEN 0 ELSE 1) /\ changes' <= Changes
    /\ UNCHANGED <<procs, newer, beat>>

FleetPlacementNext ==
    \/ \E k \in Keys : EnsureRunning(k) \/ StopEverywhere(k)
    \/ \E w \in Workers : Heartbeat(w) \/ Silent(w) \/ \E k \in Keys : EndsOn(w, k)
    \/ \E refused, lost \in SUBSET Autoscaled : Tick(refused, lost)

FleetPlacementSpec == FleetPlacementInit /\ [][FleetPlacementNext]_fleetVars

-------------------------------------------------------------------------------

FleetPlacementTypeOK ==
    /\ procs \in [Workers -> SUBSET Keys]
    /\ newer \subseteq Running \X Running
    /\ \A j, k \in Running : j # k => <<j, k>> \in newer \/ <<k, j>> \in newer
    /\ \A i, j, k \in Running :
          <<i, j>> \in newer /\ <<j, k>> \in newer => <<i, k>> \in newer /\ i # k
    /\ beat \in [Workers -> [fresh : BOOLEAN, running : 0 .. Cardinality(Keys), draining : BOOLEAN]]
    /\ unserved \subseteq Keys /\ shielded \subseteq Workers /\ misled \subseteq Workers

\* "Minimally disruptive when workers join or leave (only the keys whose
\* top-weighted worker changed move)" (fleet.go:10): a key moves only away from
\* a worker that is no longer eligible, or to one that was not.
OnlyAffectedKeysMove ==
    [][\A k \in Keys :
          LET old == EligibleIn(beat)  new == EligibleIn(beat') IN
          old # {} /\ new # {} =>
             \/ Place(beat', k) = Place(beat, k)
             \/ Place(beat, k) \notin new \/ Place(beat', k) \notin old]_fleetVars

\* The shares "protect exactly the fleet's top-N" (fleet.go:168): as long as no
\* key runs twice, what the workers protect of their own is the floor's set.
FloorIsProtected ==
    (\A k \in Keys : \A v, w \in Workers : k \in procs[v] \cap procs[w] => v = w) =>
       \A rep \in Reports :
          UNION {Latest(w, Quotas(rep)[w]) : w \in Workers} = Floor(rep)

\* The publisher takes an instance's protection for other than what it is, and
\* skips the call that would set it, only if an error was the answer to a call
\* that set it.  Then it may: after a release whose answer was lost the cache
\* still says protected, so an instance that turns busy again before the next
\* tick stays unprotected until it has been idle once more, which the comment on
\* errors, "benign and self-heals next tick when it drops out of the fleet"
\* (cloudscale.go:235), has no word about.
OnlyLostAnswersMislead ==
    \A w \in DOMAIN protected : (protected[w] <=> w \in shielded) \/ w \in misled
=============================================================================
