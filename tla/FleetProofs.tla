----------------------------- MODULE FleetProofs ------------------------------
(***************************************************************************)
(* For any fleet, any weights and any counters: placement disturbs no key  *)
(* that the change of the fleet does not concern; the workers' shares of   *)
(* the warm floor are the floor; what the publisher remembers of scale-in  *)
(* protection is what the autoscaling group does, but for calls that were  *)
(* applied and answered with an error; the registry's totals miss no hit   *)
(* it was told of and count none twice; and init is taken to be done only  *)
(* where it was.                                                           *)
(***************************************************************************)
EXTENDS FleetPlacement, FleetRegistry, InitSteps, FiniteSetTheorems, WellFoundedInduction, TLAPS

(* Where a worker's keys go: FleetPlacement *)

(* The top-weighted worker *)

\* A set of weights has a largest one.
LEMMA SomeTop ==
    ASSUME NEW S \in SUBSET Workers, S # {}, NEW k \in Keys
    PROVE  \E w \in S : \A v \in S : Weight[v][k] <= Weight[w][k]
<1> DEFINE below(w) == TopScore - Weight[w][k]
           T == {below(w) : w \in S}
<1>1. \A w \in S : Weight[w][k] \in 0 .. TopScore /\ TopScore \in Nat
  BY WeightAssumption
<1>2. T \subseteq Nat /\ T # {}
  BY <1>1
<1>3. PICK n \in T : \A m \in T : ~(<<m, n>> \in OpToRel(<, Nat))
  BY <1>2, NatLessThanWellFounded, WFMin
<1>4. \A m \in T : ~(m < n)
  BY <1>2, <1>3 DEF OpToRel
<1>5. PICK w \in S : n = below(w)
  OBVIOUS
<1>6. ASSUME NEW v \in S PROVE Weight[v][k] <= Weight[w][k]
  <2>1. ~(below(v) < below(w))
    BY <1>4, <1>5
  <2> QED BY <2>1, <1>1
<1> QED BY <1>6

LEMMA TopIsTop ==
    ASSUME NEW S \in SUBSET Workers, S # {}, NEW k \in Keys
    PROVE  /\ TopWeight(S, k) \in S
           /\ \A v \in S : Weight[v][k] <= Weight[TopWeight(S, k)][k]
BY SomeTop DEF TopWeight

\* Of two sets that both hold the top of each, the tops are the same.
LEMMA SameTop ==
    ASSUME NEW S \in SUBSET Workers, NEW R \in SUBSET Workers, NEW k \in Keys,
           S # {}, R # {}, TopWeight(S, k) \in R, TopWeight(R, k) \in S
    PROVE  TopWeight(S, k) = TopWeight(R, k)
<1> DEFINE v == TopWeight(S, k)
           w == TopWeight(R, k)
<1>1. Weight[v][k] <= Weight[w][k] /\ Weight[w][k] <= Weight[v][k]
  BY TopIsTop
<1>2. v \in Workers /\ w \in Workers
  BY TopIsTop
<1>3. Weight[v][k] \in Nat /\ Weight[w][k] \in Nat
  BY <1>2, WeightAssumption
<1> HIDE DEF v, w
<1>4. Weight[v][k] = Weight[w][k]
  BY <1>1, <1>3
<1>5. v = w
  BY <1>2, <1>4, WeightAssumption
<1> QED BY <1>5 DEF v, w

-------------------------------------------------------------------------------

\* fleet.go:10: rendezvous hashing is "minimally disruptive when workers join or
\* leave": while there are workers with a free slot, a key changes its place
\* only from a worker that is no longer one of them, or to one that was not.
THEOREM OnlyAffectedMove == FleetPlacementSpec => OnlyAffectedKeysMove
<1> DEFINE Quiet ==
      \A k \in Keys :
          LET old == EligibleIn(beat)  new == EligibleIn(beat') IN
          old # {} /\ new # {} =>
             \/ Place(beat', k) = Place(beat, k)
             \/ Place(beat, k) \notin new \/ Place(beat', k) \notin old
<1>1. Quiet
  <2> SUFFICES ASSUME NEW k \in Keys,
                      EligibleIn(beat) # {}, EligibleIn(beat') # {},
                      Place(beat, k) \in EligibleIn(beat'), Place(beat', k) \in EligibleIn(beat)
               PROVE  Place(beat', k) = Place(beat, k)
    OBVIOUS
  <2>1. EligibleIn(beat) \in SUBSET Workers /\ EligibleIn(beat') \in SUBSET Workers
    BY DEF EligibleIn, FallbackIn, FreshIn
  <2>2. /\ Place(beat, k) = TopWeight(EligibleIn(beat), k)
        /\ Place(beat', k) = TopWeight(EligibleIn(beat'), k)
    BY DEF Place
  <2> QED BY <2>1, <2>2, SameTop
<1>2. [FleetPlacementNext]_fleetVars => [Quiet]_fleetVars
  BY <1>1
<1> QED BY <1>2, PTL DEF FleetPlacementSpec, OnlyAffectedKeysMove

-------------------------------------------------------------------------------
(* The cache of the scale-in protection *)

CacheInv ==
    /\ DOMAIN protected \subseteq Workers
    /\ \A w \in DOMAIN protected : protected[w] \in BOOLEAN
    /\ OnlyLostAnswersMislead

\* cloudscale.go:196: the publisher skips an instance whose protection it
\* remembers, so a call that was not applied must not be remembered, one that
\* succeeded must be, and only one that was applied and answered with an error
\* can leave the two apart.
THEOREM CacheAccounted == FleetPlacementSpec => []OnlyLostAnswersMislead
<1>1. FleetPlacementInit => CacheInv
  BY DEF FleetPlacementInit, CacheInv, OnlyLostAnswersMislead
<1>2. ASSUME CacheInv, [FleetPlacementNext]_fleetVars PROVE CacheInv'
  <2>1. ASSUME NEW refused \in SUBSET Autoscaled, NEW lost \in SUBSET Autoscaled,
               Tick(refused, lost)
        PROVE  CacheInv'
    <3> DEFINE done == Due \ refused
               set  == done \cup lost
               stay == DOMAIN Busy \cap DOMAIN protected
    <3>1. /\ protected' = [w \in done \cup stay |-> IF w \in done THEN Busy[w] ELSE protected[w]]
          /\ shielded' = {w \in Workers : IF w \in set THEN Busy[w] ELSE w \in shielded}
          /\ misled' = (misled \ set) \cup lost /\ lost \cap done = {}
      BY <2>1 DEF Tick, Calls
    <3>2. /\ DOMAIN Busy = FreshIn(beat) \cap Autoscaled
          /\ \A w \in DOMAIN Busy : Busy[w] \in BOOLEAN
      BY DEF Busy
    <3>3. done \cup stay \subseteq Workers /\ done \subseteq DOMAIN Busy
      BY <3>2 DEF FreshIn, Due
    <3>4. set = done \cup lost
      OBVIOUS
    <3>5. stay \subseteq DOMAIN protected
      OBVIOUS
    <3> HIDE DEF done, stay, set
    <3>6. DOMAIN protected' = done \cup stay
      BY <3>1
    <3>7. ASSUME NEW w \in done \cup stay
          PROVE  /\ protected'[w] \in BOOLEAN
                 /\ (protected'[w] <=> w \in shielded') \/ w \in misled'
      <4>1. CASE w \in done
        <5>1. protected'[w] = Busy[w] /\ (w \in shielded' <=> Busy[w])
          BY <3>1, <3>3, <3>4, <4>1
        <5>2. Busy[w] \in BOOLEAN
          BY <3>2, <3>3, <4>1
        <5> QED BY <5>1, <5>2
      <4>2. CASE w \in lost
        <5>1. w \in misled' /\ protected'[w] = protected[w] /\ w \in DOMAIN protected
          BY <3>1, <3>5, <3>7, <4>2
        <5> QED BY <1>2, <5>1 DEF CacheInv
      <4>3. CASE w \notin done /\ w \notin lost
        <5>1. /\ protected'[w] = protected[w] /\ w \in DOMAIN protected
              /\ w \in shielded' <=> w \in shielded
              /\ w \in misled' <=> w \in misled
          BY <3>1, <3>3, <3>4, <3>5, <3>7, <4>3
        <5> QED BY <1>2, <5>1 DEF CacheInv, OnlyLostAnswersMislead
      <4> QED BY <4>1, <4>2, <4>3
    <3> QED BY <3>3, <3>6, <3>7 DEF CacheInv, OnlyLostAnswersMislead
  <2>2. ASSUME UNCHANGED cloud PROVE CacheInv'
    BY <1>2, <2>2 DEF CacheInv, OnlyLostAnswersMislead, cloud
  <2>3. CASE \E k \in Keys : EnsureRunning(k) \/ StopEverywhere(k)
    BY <2>2, <2>3 DEF EnsureRunning, StopEverywhere
  <2>4. CASE \E w \in Workers : Heartbeat(w) \/ Silent(w) \/ \E k \in Keys : EndsOn(w, k)
    BY <2>2, <2>4 DEF Heartbeat, Silent, EndsOn
  <2>5. CASE UNCHANGED fleetVars
    BY <2>2, <2>5 DEF fleetVars, cloud
  <2> QED BY <1>2, <2>1, <2>3, <2>4, <2>5 DEF FleetPlacementNext
<1>3. CacheInv => OnlyLostAnswersMislead
  BY DEF CacheInv
<1> QED BY <1>1, <1>2, <1>3, PTL DEF FleetPlacementSpec

-------------------------------------------------------------------------------
(* The shares of the warm floor *)

RecencyInv ==
    /\ newer \subseteq Running \X Running
    /\ \A j, k \in Running : j # k => <<j, k>> \in newer \/ <<k, j>> \in newer
    /\ \A i, j, k \in Running :
          <<i, j>> \in newer /\ <<j, k>> \in newer => <<i, k>> \in newer /\ i # k

\* What is left of the order when k no longer runs, and when it is touched.
LEMMA OrderWithout ==
    ASSUME RecencyInv, Running \subseteq Keys, NEW k, NEW R, R \subseteq Running \ {k},
           Running \ {k} \subseteq R
    PROVE  /\ Without(k) \subseteq R \X R
           /\ \A i, j \in R : i # j => <<i, j>> \in Without(k) \/ <<j, i>> \in Without(k)
           /\ \A h, i, j \in R :
                 <<h, i>> \in Without(k) /\ <<i, j>> \in Without(k) => <<h, j>> \in Without(k) /\ h # j
<1>1. \A i, j \in R : <<i, j>> \in Without(k) <=> <<i, j>> \in newer
  BY DEF Without
<1>2. Without(k) \subseteq R \X R
  BY DEF Without, RecencyInv
<1> QED BY <1>1, <1>2 DEF RecencyInv

LEMMA OrderTouched ==
    ASSUME RecencyInv, Running \subseteq Keys, NEW k, NEW R, R = Running \cup {k}
    PROVE  /\ Touched(k) \subseteq R \X R
           /\ \A i, j \in R : i # j => <<i, j>> \in Touched(k) \/ <<j, i>> \in Touched(k)
           /\ \A h, i, j \in R :
                 <<h, i>> \in Touched(k) /\ <<i, j>> \in Touched(k) => <<h, j>> \in Touched(k) /\ h # j
<1>1. \A i, j \in Running \ {k} : <<i, j>> \in Touched(k) <=> <<i, j>> \in newer
  BY DEF Without, Touched
<1>2. \A i \in R : <<i, k>> \notin Touched(k)
  BY DEF Without, Touched
<1>3. \A j \in Running \ {k} : <<k, j>> \in Touched(k)
  BY DEF Touched
<1>4. Touched(k) \subseteq R \X R
  BY DEF Touched, Without, RecencyInv
<1> QED BY <1>1, <1>2, <1>3, <1>4 DEF RecencyInv

LEMMA LiveRunning == ASSUME procs \in [Workers -> SUBSET Keys]
                     PROVE  Running \subseteq Keys /\ \A k : k \in Running <=> \E w \in Workers : k \in procs[w]
BY DEF Running


\* A quotient of an integer and a positive one.
LEMMA Quotients ==
    ASSUME NEW a \in Nat, NEW b \in Nat \ {0}, NEW c \in Nat, NEW d \in Nat \ {0},
           NEW e \in Nat, NEW f \in Nat \ {0},
           a * d < c * b, c * f < e * d
    PROVE  a * f < e * b
<1>1. \A x, y \in Nat, z \in Nat \ {0} : x < y => x * z < y * z
  OBVIOUS
<1>2. \A x, y \in Nat, z \in Nat \ {0} : x * z < y * z => x < y
  OBVIOUS
<1>3. /\ a * d \in Nat /\ c * b \in Nat /\ c * f \in Nat /\ e * d \in Nat
      /\ a * f \in Nat /\ e * b \in Nat
  OBVIOUS
<1>4. (a * d) * f < (c * b) * f /\ (c * f) * b < (e * d) * b
  BY <1>1, <1>3
<1>5. (a * d) * f = (a * f) * d /\ (c * b) * f = (c * f) * b /\ (e * d) * b = (e * b) * d
  OBVIOUS
<1>6. (a * f) * d < (e * b) * d
  <2>1. (a * f) * d \in Nat /\ (c * f) * b \in Nat /\ (e * b) * d \in Nat
    OBVIOUS
  <2> QED BY <1>4, <1>5, <2>1
<1> QED BY <1>2, <1>3, <1>6

BeatType == beat \in [Workers -> [fresh : BOOLEAN, running : 0 .. Cardinality(Keys), draining : BOOLEAN]]

PlacementInv ==
    /\ procs \in [Workers -> SUBSET Keys] /\ RecencyInv /\ BeatType
    /\ unserved \subseteq Keys /\ shielded \subseteq Workers /\ misled \subseteq Workers

LEMMA LoadType ==
    ASSUME BeatType
    PROVE  \A w \in Workers : Load(beat, w)[1] \in Nat /\ Load(beat, w)[2] \in Nat \ {0}
<1> SUFFICES ASSUME NEW w \in Workers
             PROVE  Load(beat, w)[1] \in Nat /\ Load(beat, w)[2] \in Nat \ {0}
  OBVIOUS
<1>1. Cardinality(Keys) \in Nat
  BY FleetPlacementAssumption, FS_CardinalityType
<1>2. beat[w].running \in Nat /\ MaxWarm[w] \in Nat
  BY <1>1, FleetPlacementAssumption DEF BeatType
<1> QED BY <1>2 DEF Load

\* Any workers, if there are some, have one that none is lighter than.
LEMMA SomeLightest ==
    ASSUME BeatType, NEW S \in SUBSET Workers, S # {}
    PROVE  \E w \in S : \A v \in S : ~Lighter(Load(beat, v), Load(beat, w))
<1> DEFINE Lightest(w, T) == \A v \in T : ~Lighter(Load(beat, v), Load(beat, w))
           Bad == {T \in SUBSET Workers : T # {} /\ ~\E w \in T : Lightest(w, T)}
           Sizes == {Cardinality(T) : T \in Bad}
<1>0. \A T \in SUBSET Workers : IsFiniteSet(T) /\ Cardinality(T) \in Nat
  BY FleetPlacementAssumption, FS_Subset, FS_CardinalityType
<1> SUFFICES ASSUME Bad # {} PROVE FALSE
  <2>1. S \notin Bad
    OBVIOUS
  <2> QED BY <2>1
<1>1. Sizes \subseteq Nat /\ Sizes # {}
  BY <1>0
<1>2. PICK n \in Sizes : \A m \in Sizes : ~(<<m, n>> \in OpToRel(<, Nat))
  BY <1>1, NatLessThanWellFounded, WFMin
<1>3. \A m \in Sizes : ~(m < n)
  BY <1>1, <1>2 DEF OpToRel
<1>4. PICK T \in Bad : Cardinality(T) = n
  OBVIOUS
<1>5. PICK x \in T : TRUE
  OBVIOUS
<1>6. T \ {x} \notin Bad
  <2>1. Cardinality(T \ {x}) = n - 1 /\ n \in Nat
    BY <1>0, <1>4, <1>5, FS_RemoveElement
  <2>2. Cardinality(T \ {x}) \notin Sizes
    BY <1>3, <2>1
  <2> QED BY <2>2
<1>7. CASE T \ {x} = {}
  <2>1. T = {x}
    BY <1>5, <1>7
  <2>2. ~Lighter(Load(beat, x), Load(beat, x))
    <3>1. Load(beat, x)[1] \in Nat /\ Load(beat, x)[2] \in Nat
      BY <1>5, LoadType
    <3> QED BY <3>1 DEF Lighter
  <2> QED BY <2>1, <2>2
<1>8. CASE T \ {x} # {}
  <2>1. PICK w \in T \ {x} : Lightest(w, T \ {x})
    BY <1>6, <1>8
  <2>2. CASE ~Lighter(Load(beat, x), Load(beat, w))
    <3>1. Lightest(w, T)
      BY <2>1, <2>2
    <3> QED BY <2>1, <3>1
  <2>3. CASE Lighter(Load(beat, x), Load(beat, w))
    <3>1. ASSUME NEW v \in T, Lighter(Load(beat, v), Load(beat, x)) PROVE FALSE
      <4>1. \A u \in {v, x, w} : Load(beat, u)[1] \in Nat /\ Load(beat, u)[2] \in Nat \ {0}
        BY <1>5, <2>1, <3>1, LoadType
      <4>2. Lighter(Load(beat, v), Load(beat, w))
        <5>1. PICK a, c, e \in Nat, b, d, f \in Nat \ {0} :
                 /\ a = Load(beat, v)[1] /\ c = Load(beat, x)[1] /\ e = Load(beat, w)[1]
                 /\ b = Load(beat, v)[2] /\ d = Load(beat, x)[2] /\ f = Load(beat, w)[2]
          BY <4>1
        <5>2. a * d < c * b /\ c * f < e * d
          BY <2>3, <3>1, <5>1 DEF Lighter
        <5>3. a * f < e * b
          BY <5>2, Quotients
        <5> QED BY <5>1, <5>3 DEF Lighter
      <4>3. v # x
        BY <3>1, <4>1 DEF Lighter
      <4> QED BY <2>1, <4>2, <4>3
    <3> QED BY <1>5, <3>1
  <2> QED BY <2>2, <2>3
<1> QED BY <1>7, <1>8

\* A key is placed on a worker that takes keys, if there is one.
LEMMA PlaceIsFallback ==
    ASSUME BeatType, NEW k \in Keys, FallbackIn(beat) # {}
    PROVE  Place(beat, k) \in FallbackIn(beat)
<1>1. FallbackIn(beat) \in SUBSET Workers /\ EligibleIn(beat) \subseteq FallbackIn(beat)
  BY DEF EligibleIn, FallbackIn, FreshIn
<1>2. CASE EligibleIn(beat) # {}
  BY <1>1, <1>2, TopIsTop DEF Place
<1>3. CASE EligibleIn(beat) = {}
  <2> DEFINE S == {w \in FallbackIn(beat) : \A v \in FallbackIn(beat) :
                       ~Lighter(Load(beat, v), Load(beat, w))}
  <2>1. S # {} /\ S \in SUBSET Workers
    BY <1>1, SomeLightest
  <2>2. Place(beat, k) = TopWeight(S, k)
    BY <1>3 DEF Place, LeastLoaded
  <2> QED BY <2>1, <2>2, TopIsTop
<1> QED BY <1>2, <1>3

 
LEMMA ItsRunning == \A k : k \in Running <=> \E w \in Workers : k \in procs[w]
BY DEF Running

LEMMA PlacementInit == ASSUME FleetPlacementInit PROVE PlacementInv
<1>1. Cardinality(Keys) \in Nat
  BY FleetPlacementAssumption, FS_CardinalityType
<1>2. Running = {}
  BY ItsRunning DEF FleetPlacementInit
<1> QED BY <1>1, <1>2 DEF FleetPlacementInit, PlacementInv, RecencyInv, BeatType

LEMMA PlacementStep == ASSUME PlacementInv, [FleetPlacementNext]_fleetVars PROVE PlacementInv'
<1> USE DEF PlacementInv
<1>0. /\ procs \in [Workers -> SUBSET Keys] /\ Running \subseteq Keys
      /\ \A k : k \in Running' <=> \E w \in Workers : k \in procs'[w]
  BY ItsRunning DEF Running
<1>1. ASSUME UNCHANGED <<procs, newer>> PROVE RecencyInv'
  BY <1>1 DEF RecencyInv, Running
<1>2. ASSUME NEW k \in Keys, newer' = Without(k), k \notin Running',
             \A j \in Keys \ {k} : j \in Running' <=> j \in Running, Running' \subseteq Keys
      PROVE  RecencyInv'
  <2>1. Running' \subseteq Running \ {k} /\ Running \ {k} \subseteq Running'
    BY <1>0, <1>2
  <2>2. /\ Without(k) \subseteq Running' \X Running'
        /\ \A i, j \in Running' : i # j => <<i, j>> \in Without(k) \/ <<j, i>> \in Without(k)
        /\ \A h, i, j \in Running' :
              <<h, i>> \in Without(k) /\ <<i, j>> \in Without(k) => <<h, j>> \in Without(k) /\ h # j
    BY <1>0, <2>1, OrderWithout
  <2> QED BY <1>2, <2>2 DEF RecencyInv
<1>3. ASSUME NEW k \in Keys, EnsureRunning(k) PROVE PlacementInv'
  <2>1. CASE FallbackIn(beat) = {}
    BY <1>1, <1>3, <2>1 DEF EnsureRunning, BeatType, cloud
  <2>2. CASE FallbackIn(beat) # {}
    <3> DEFINE p == Place(beat, k)
    <3>1. p \in Workers
      BY <2>2, PlaceIsFallback DEF FallbackIn, FreshIn
    <3>2. /\ procs' = [procs EXCEPT ![p] = @ \cup {k}] /\ newer' = Touched(k)
          /\ UNCHANGED <<beat, cloud, changes, unserved>>
      BY <1>3, <2>2 DEF EnsureRunning
    <3> HIDE DEF p
    <3>3. procs' \in [Workers -> SUBSET Keys]
      BY <1>0, <3>1, <3>2
    <3>4. Running' = Running \cup {k}
      BY <1>0, <3>1, <3>2, ItsRunning
    <3>5. PICK R : R = Running' /\ R = Running \cup {k}
      BY <3>4
    <3> HIDE DEF PlacementInv
    <3>6. RecencyInv /\ Running \subseteq Keys
      BY <1>0 DEF PlacementInv
    <3>7. /\ Touched(k) \subseteq R \X R
          /\ \A i, j \in R : i # j => <<i, j>> \in Touched(k) \/ <<j, i>> \in Touched(k)
          /\ \A h, i, j \in R :
                <<h, i>> \in Touched(k) /\ <<i, j>> \in Touched(k) => <<h, j>> \in Touched(k) /\ h # j
      BY <3>5, <3>6, OrderTouched
    <3>8. RecencyInv'
      BY <3>2, <3>5, <3>7 DEF RecencyInv
    <3> QED BY <3>2, <3>3, <3>8 DEF PlacementInv, BeatType, cloud
  <2> QED BY <2>1, <2>2
<1>4. ASSUME NEW k \in Keys, StopEverywhere(k) PROVE PlacementInv'
  <2> DEFINE on == {w \in Workers : k \in procs[w]}
  <2>1. /\ procs' = [w \in Workers |-> IF beat[w].fresh THEN procs[w] \ {k} ELSE procs[w]]
        /\ newer' = IF on \subseteq FreshIn(beat) THEN Without(k) ELSE newer
        /\ UNCHANGED <<beat, unserved, cloud, changes>>
    BY <1>4 DEF StopEverywhere
  <2>2. procs' \in [Workers -> SUBSET Keys]
    BY <1>0, <2>1
  <2>3. Running' \subseteq Keys /\ \A j \in Keys \ {k} : j \in Running' <=> j \in Running
    BY <1>0, <2>1, <2>2, ItsRunning
  <2>4. k \in Running' <=> ~(on \subseteq FreshIn(beat))
    BY <1>0, <2>1 DEF FreshIn
  <2>5. on \subseteq FreshIn(beat) => RecencyInv'
    BY <1>2, <2>1, <2>3, <2>4
  <2>6. ~(on \subseteq FreshIn(beat)) => RecencyInv'
    <3> SUFFICES ASSUME ~(on \subseteq FreshIn(beat)) PROVE RecencyInv'
      OBVIOUS
    <3>1. Running' = Running
      BY <1>0, <2>3, <2>4, ItsRunning
    <3> QED BY <2>1, <3>1 DEF RecencyInv
  <2> QED BY <2>1, <2>2, <2>5, <2>6 DEF BeatType, cloud
<1>5. ASSUME NEW w \in Workers, Heartbeat(w) PROVE PlacementInv'
  <2>1. Cardinality(procs[w]) \in 0 .. Cardinality(Keys)
    BY <1>0, FleetPlacementAssumption, FS_Subset, FS_CardinalityType
  <2>2. BeatType'
    BY <1>5, <2>1 DEF Heartbeat, BeatType
  <2> QED BY <1>1, <1>5, <2>2 DEF Heartbeat, cloud
<1>6. ASSUME NEW w \in Workers, Silent(w) PROVE PlacementInv'
  <2>1. BeatType'
    BY <1>6 DEF Silent, BeatType
  <2> QED BY <1>1, <1>6, <2>1 DEF Silent, cloud
<1>7. ASSUME NEW w \in Workers, NEW k \in Keys, EndsOn(w, k) PROVE PlacementInv'
  <2>1. /\ procs' = [procs EXCEPT ![w] = @ \ {k}]
        /\ newer' = IF \E v \in Workers \ {w} : k \in procs[v] THEN newer ELSE Without(k)
        /\ k \in procs[w] /\ UNCHANGED <<beat, unserved, cloud, changes>>
    BY <1>7 DEF EndsOn
  <2>2. procs' \in [Workers -> SUBSET Keys]
    BY <1>0, <2>1
  <2>3. Running' \subseteq Keys /\ \A j \in Keys \ {k} : j \in Running' <=> j \in Running
    BY <1>0, <2>1, <2>2, ItsRunning
  <2>4. k \in Running' <=> \E v \in Workers \ {w} : k \in procs[v]
    BY <1>0, <2>1
  <2>5. CASE \E v \in Workers \ {w} : k \in procs[v]
    <3>1. Running' = Running
      BY <1>0, <2>1, <2>3, <2>4, <2>5, ItsRunning
    <3>2. RecencyInv'
      BY <2>1, <2>5, <3>1 DEF RecencyInv
    <3> QED BY <2>1, <2>2, <3>2 DEF BeatType, cloud
  <2>6. CASE ~\E v \in Workers \ {w} : k \in procs[v]
    <3>1. RecencyInv'
      BY <1>2, <2>1, <2>3, <2>4, <2>6
    <3> QED BY <2>1, <2>2, <3>1 DEF BeatType, cloud
  <2> QED BY <2>5, <2>6
<1>8. ASSUME NEW refused \in SUBSET Autoscaled, NEW lost \in SUBSET Autoscaled,
             Tick(refused, lost)
      PROVE  PlacementInv'
  BY <1>1, <1>8, FleetPlacementAssumption DEF Tick, Calls, BeatType
<1>9. CASE UNCHANGED fleetVars
  BY <1>1, <1>9 DEF fleetVars, cloud, BeatType
<1> QED BY <1>3, <1>4, <1>5, <1>6, <1>7, <1>8, <1>9 DEF FleetPlacementNext

\* The variables of FleetPlacement have the values its comments promise; above
\* all, whatever runs has its place in the order of touches.
THEOREM PlacementTyped == FleetPlacementSpec => []FleetPlacementTypeOK
<1>1. PlacementInv => FleetPlacementTypeOK
  BY DEF PlacementInv, FleetPlacementTypeOK, RecencyInv, BeatType
<1> QED BY <1>1, PlacementInit, PlacementStep, PTL DEF FleetPlacementSpec

-------------------------------------------------------------------------------

\* Of a set of running keys, a part that holds with every key those touched
\* after it is as many of the newest as it has.
LEMMA NewestPart ==
    ASSUME RecencyInv, NEW S, S \subseteq Running, NEW D, D \subseteq S, IsFiniteSet(S),
           \A k \in D : \A j \in S : <<j, k>> \in newer => j \in D
    PROVE  Newest(S, Cardinality(D)) = D
<1> DEFINE over(k) == {j \in S : <<j, k>> \in newer}
<1>1. IsFiniteSet(D) /\ Cardinality(D) \in Nat
  BY FS_Subset, FS_CardinalityType
<1>2. \A k \in S : IsFiniteSet(over(k)) /\ Cardinality(over(k)) \in Nat
  BY FS_Subset, FS_CardinalityType
<1>3. ASSUME NEW k \in D PROVE Cardinality(over(k)) < Cardinality(D)
  <2>1. over(k) \subseteq D \ {k}
    BY <1>3 DEF RecencyInv
  <2>2. Cardinality(D \ {k}) = Cardinality(D) - 1 /\ IsFiniteSet(D \ {k})
    BY <1>1, <1>3, FS_RemoveElement
  <2>3. Cardinality(over(k)) <= Cardinality(D \ {k})
    BY <2>1, <2>2, FS_Subset
  <2> QED BY <1>1, <1>2, <1>3, <2>2, <2>3
<1>4. ASSUME NEW k \in S \ D PROVE Cardinality(D) <= Cardinality(over(k))
  <2>1. D \subseteq over(k)
    BY <1>4 DEF RecencyInv
  <2> QED BY <1>2, <2>1, FS_Subset
<1> HIDE DEF over
<1>5. \A k \in S : Cardinality(over(k)) < Cardinality(D) <=> k \in D
  BY <1>1, <1>2, <1>3, <1>4
<1>6. Newest(S, Cardinality(D)) = {k \in S : Cardinality(over(k)) < Cardinality(D)}
  BY DEF Newest, over
<1> QED BY <1>5, <1>6

\* The newest of a set are such a part of it.
LEMMA NewestClosed ==
    ASSUME RecencyInv, NEW S, S \subseteq Running, IsFiniteSet(S), NEW n \in Nat,
           NEW k \in Newest(S, n), NEW j \in S, <<j, k>> \in newer
    PROVE  j \in Newest(S, n)
<1> DEFINE over(i) == {h \in S : <<h, i>> \in newer}
<1>1. k \in S /\ Cardinality(over(k)) < n
  BY DEF Newest
<1>2. over(j) \subseteq over(k)
  BY <1>1 DEF RecencyInv
<1>3. IsFiniteSet(over(k)) /\ IsFiniteSet(over(j))
  BY FS_Subset
<1>4. /\ Cardinality(over(j)) <= Cardinality(over(k))
      /\ Cardinality(over(j)) \in Nat /\ Cardinality(over(k)) \in Nat
  BY <1>2, <1>3, FS_Subset, FS_CardinalityType
<1>5. Cardinality(over(j)) < n
  BY <1>1, <1>4
<1> QED BY <1>5 DEF Newest

\* fleet.go:168: the shares protect exactly the fleet's top N, as "local recency
\* order agrees with fleet order restricted to that worker", while no key runs
\* twice.
THEOREM SharesAreTheFloor == FleetPlacementSpec => []FloorIsProtected
<1>1. PlacementInv => FloorIsProtected
  <2> SUFFICES ASSUME PlacementInv,
                      \A k \in Keys : \A v, w \in Workers : k \in procs[v] \cap procs[w] => v = w,
                      NEW rep \in Reports
               PROVE  UNION {Latest(w, Quotas(rep)[w]) : w \in Workers} = Floor(rep)
    BY DEF FloorIsProtected
  <2> DEFINE live == DOMAIN rep
             share(w) == {k \in Floor(rep) : rep[k] = w}
  <2>1. /\ live = {k \in Keys : \E w \in Workers : beat[w].fresh /\ k \in procs[w]}
        /\ \A k \in live : rep[k] \in Workers /\ beat[rep[k]].fresh /\ k \in procs[rep[k]]
    BY DEF Reports, FreshIn
  <2>2. /\ Running \subseteq Keys /\ RecencyInv /\ IsFiniteSet(Running)
        /\ \A w \in Workers : procs[w] \subseteq Running
    BY FleetPlacementAssumption, FS_Subset DEF PlacementInv, Running
  <2>3. live \subseteq Running /\ IsFiniteSet(live) /\ Floor(rep) \subseteq live
    BY <2>1, <2>2, FS_Subset DEF Floor, Newest
  <2>4. ASSUME NEW w \in Workers PROVE Latest(w, Quotas(rep)[w]) = share(w)
    <3>1. \A k \in live : rep[k] = w <=> beat[w].fresh /\ k \in procs[w]
      BY <2>1
    <3>2. share(w) \subseteq procs[w]
      BY <2>3, <3>1
    <3>3. ASSUME NEW k \in share(w), NEW j \in procs[w], <<j, k>> \in newer PROVE j \in share(w)
      <4>1. k \in live /\ beat[w].fresh
        BY <2>3, <3>1, <3>3
      <4>2. j \in live /\ rep[j] = w
        BY <2>1, <2>2, <3>1, <3>3, <4>1
      <4>3. j \in Floor(rep)
        BY <2>2, <2>3, <3>3, <4>2, NewestClosed, FleetPlacementAssumption DEF Floor
      <4> QED BY <4>2, <4>3
    <3>4. IsFiniteSet(procs[w]) /\ procs[w] \subseteq Running
      BY <2>2, FS_Subset
    <3>5. Quotas(rep)[w] = Cardinality(share(w))
      BY DEF Quotas
    <3> HIDE DEF share
    <3>6. Newest(procs[w], Cardinality(share(w))) = share(w)
      BY <2>2, <3>2, <3>3, <3>4, NewestPart
    <3> QED BY <3>5, <3>6 DEF Latest
  <2>5. UNION {share(w) : w \in Workers} = Floor(rep)
    BY <2>1, <2>3
  <2> QED BY <2>4, <2>5
<1> QED BY <1>1, PlacementInit, PlacementStep, PTL DEF FleetPlacementSpec

-------------------------------------------------------------------------------
(* The hits of a fleet: FleetRegistry *)

Tallies == [warm : Nat, cold : Nat]
WarmSettings == Policies \cup {Unset}

MachineType == machine \in [Endpoints -> [instance : Instances, up : BOOLEAN,
                                          maxWarm : WarmSettings, hits : Tallies]]
RegisteredType ==
    /\ DOMAIN registered = Endpoints
    /\ \A e \in Endpoints : registered[e] # NoWorker =>
          registered[e] \in [instance : Instances, hits : Tallies, base : Tallies,
                             beat : {"never", "reached", "unreachable"}]
PollType ==
    /\ DOMAIN poll = Endpoints
    /\ \A e \in Endpoints : poll[e] \in {Idle, Failed} \cup
          [pc : {"answer"}, hits : Tallies, maxWarm : WarmSettings]
SettingType == push \in [Endpoints -> WarmSettings] /\ desired \in WarmSettings /\ setting \in WarmSettings

RegistryType == MachineType /\ RegisteredType /\ PollType /\ SettingType
                /\ ever \in [Endpoints -> Tallies]

\* What the registry banked of earlier boots, what it last heard of the counters,
\* and what it will hear next: the answer on its way, or what is there by then.
Banks(e) == IF registered[e] = NoWorker THEN NoHits ELSE registered[e].base
Known(e) == IF registered[e] = NoWorker THEN NoHits ELSE registered[e].hits
Coming(e) == IF poll[e].pc = "answer" THEN poll[e].hits ELSE machine[e].hits

\* The three counters, known, on its way and of now, are of one boot, of two or
\* of three; those of one boot grow, and different boots count different hits.
Counted(b, w, p, m, all) ==
    \/ AtMost(w, p) /\ AtMost(p, m) /\ AtMost(Plus(b, m), all)
    \/ AtMost(w, p) /\ AtMost(Plus(b, Plus(p, m)), all)
    \/ AtMost(p, m) /\ AtMost(Plus(b, Plus(w, m)), all)
    \/ AtMost(Plus(b, Plus(w, Plus(p, m))), all)

LEMMA Vectors ==
    /\ NoHits \in Tallies
    /\ \A h, g \in Tallies : Plus(h, g) \in Tallies
BY DEF NoHits, Tallies, Plus

\* A poll starts, or its answer is lost.
LEMMA CountAfresh ==
    ASSUME NEW b \in Tallies, NEW w \in Tallies, NEW p \in Tallies, NEW m \in Tallies,
           NEW all \in Tallies, Counted(b, w, p, m, all)
    PROVE  Counted(b, w, m, m, all)
BY DEF Tallies, Counted, AtMost, Plus

\* Its answer is recorded.
LEMMA CountBanked ==
    ASSUME NEW b \in Tallies, NEW w \in Tallies, NEW p \in Tallies, NEW m \in Tallies,
           NEW all \in Tallies, Counted(b, w, p, m, all)
    PROVE  Counted(IF AtMost(w, p) THEN b ELSE Plus(b, w), p, m, m, all)
BY DEF Tallies, Counted, AtMost, Plus

\* The registration is forgotten.
LEMMA CountForgotten ==
    ASSUME NEW b \in Tallies, NEW w \in Tallies, NEW p \in Tallies, NEW m \in Tallies,
           NEW all \in Tallies, Counted(b, w, p, m, all)
    PROVE  Counted(NoHits, NoHits, p, m, all)
BY DEF Tallies, Counted, AtMost, Plus, NoHits

\* The machine boots.
LEMMA CountBooted ==
    ASSUME NEW b \in Tallies, NEW w \in Tallies, NEW p \in Tallies, NEW m \in Tallies,
           NEW all \in Tallies, Counted(b, w, p, m, all)
    PROVE  Counted(b, w, p, NoHits, all)
BY DEF Tallies, Counted, AtMost, Plus, NoHits

\* It serves.
LEMMA CountHit ==
    ASSUME NEW b \in Tallies, NEW w \in Tallies, NEW p \in Tallies, NEW m \in Tallies,
           NEW all \in Tallies, Counted(b, w, p, m, all), NEW one \in Tallies
    PROVE  Counted(b, w, p, Plus(m, one), Plus(all, one))
BY DEF Tallies, Counted, AtMost, Plus, NoHits

\* What the registry shows is never more than was served.
LEMMA CountShown ==
    ASSUME NEW b \in Tallies, NEW w \in Tallies, NEW p \in Tallies, NEW m \in Tallies,
           NEW all \in Tallies, Counted(b, w, p, m, all)
    PROVE  AtMost(Plus(b, w), all) /\ AtMost(m, all)
BY DEF Tallies, Counted, AtMost, Plus

CountedAt(e) == Counted(Banks(e), Known(e), Coming(e), machine[e].hits, ever[e])
RegistryInv == RegistryType /\ \A e \in Endpoints : CountedAt(e)

LEMMA RegistryStarts == FleetRegistryInit => RegistryInv
<1> SUFFICES ASSUME FleetRegistryInit PROVE RegistryInv
    OBVIOUS
<1>0. NoHits \in Tallies
    BY Vectors
<1>1. (CHOOSE i \in Instances : TRUE) \in Instances
    BY FleetRegistryAssumption
<1>2. RegistryType
    <2>1. MachineType
        BY <1>0, <1>1 DEF FleetRegistryInit, MachineType, Booted, WarmSettings
    <2>2. RegisteredType /\ PollType /\ SettingType /\ ever \in [Endpoints -> Tallies]
        BY <1>0 DEF FleetRegistryInit, RegisteredType, PollType, SettingType, WarmSettings
    <2> QED BY <2>1, <2>2 DEF RegistryType
<1>3. ASSUME NEW e \in Endpoints PROVE CountedAt(e)
    <2>1. /\ Banks(e) = NoHits /\ Known(e) = NoHits
        BY DEF FleetRegistryInit, Banks, Known
    <2>2. machine[e].hits = NoHits /\ ever[e] = NoHits
        BY DEF FleetRegistryInit, Booted
    <2>3. poll[e].pc # "answer"
        BY DEF FleetRegistryInit, Idle
    <2>4. Coming(e) = NoHits
        BY <2>2, <2>3 DEF Coming
    <2> QED BY <2>1, <2>2, <2>4 DEF CountedAt, Counted, AtMost, Plus, NoHits
<1> QED BY <1>2, <1>3 DEF RegistryInv

\* The vectors of an endpoint are vectors.
LEMMA RegistryVectors ==
    ASSUME RegistryType, NEW e \in Endpoints
    PROVE  /\ Banks(e) \in Tallies /\ Known(e) \in Tallies /\ Coming(e) \in Tallies
           /\ machine[e].hits \in Tallies /\ ever[e] \in Tallies
<1>1. machine[e].hits \in Tallies /\ ever[e] \in Tallies
    BY DEF RegistryType, MachineType
<1>2. Banks(e) \in Tallies /\ Known(e) \in Tallies
    BY Vectors DEF RegistryType, RegisteredType, Banks, Known
<1>3. Coming(e) \in Tallies
    BY <1>1 DEF RegistryType, PollType, Coming, Idle, Failed
<1> QED BY <1>1, <1>2, <1>3

\* What an endpoint's step leaves alone at the others.
LEMMA CountedElsewhere ==
    ASSUME NEW e \in Endpoints, CountedAt(e),
           registered'[e] = registered[e], poll'[e] = poll[e],
           machine'[e].hits = machine[e].hits, ever'[e] = ever[e]
    PROVE  CountedAt(e)'
BY DEF CountedAt, Banks, Known, Coming

\* While no answer is on its way, the next count is the machine's.
LEMMA CountedIdle ==
    ASSUME RegistryType, NEW e \in Endpoints, CountedAt(e)
    PROVE  Counted(Banks(e), Known(e), machine[e].hits, machine[e].hits, ever[e])
BY RegistryVectors, CountAfresh DEF CountedAt

-------------------------------------------------------------------------------

LEMMA AnnounceCounts ==
    ASSUME RegistryInv, NEW e \in Endpoints, Announce(e)
    PROVE  RegistryInv'
<1> DEFINE i == machine[e].instance
           new == [instance |-> i, hits |-> NoHits, base |-> NoHits, beat |-> "never"]
<1>1. registered' = [registered EXCEPT ![e] = new] /\ UNCHANGED <<machine, poll, push, desired, setting, ever>>
    BY DEF Announce
<1>2. DOMAIN registered = Endpoints /\ RegistryType
    BY DEF RegistryInv, RegistryType, RegisteredType
<1>3. registered'[e] = new /\ \A f \in Endpoints : f # e => registered'[f] = registered[f]
    BY <1>1, <1>2
<1>4. i \in Instances
    BY <1>2 DEF RegistryType, MachineType
<1>5. RegistryType'
    <2>1. RegisteredType'
        BY <1>1, <1>2, <1>3, <1>4, Vectors DEF RegistryType, RegisteredType
    <2> QED BY <2>1, <1>1, <1>2 DEF RegistryType, MachineType, PollType, SettingType
<1>6. ASSUME NEW f \in Endpoints PROVE CountedAt(f)'
    <2>0. CountedAt(f)
        BY DEF RegistryInv
    <2>1. CASE f # e
        BY <2>0, <2>1, <1>1, <1>3, CountedElsewhere
    <2>2. CASE f = e
        <3>1. Banks(e)' = NoHits /\ Known(e)' = NoHits
            BY <1>3 DEF Banks, Known
        <3>2. Coming(e)' = Coming(e) /\ machine'[e].hits = machine[e].hits /\ ever'[e] = ever[e]
            BY <1>1 DEF Coming
        <3>3. Counted(NoHits, NoHits, Coming(e), machine[e].hits, ever[e])
            BY <2>0, <2>2, <1>2, RegistryVectors, CountForgotten DEF CountedAt
        <3> QED BY <3>1, <3>2, <3>3, <2>2 DEF CountedAt
    <2> QED BY <2>1, <2>2
<1> QED BY <1>5, <1>6 DEF RegistryInv

LEMMA LeaveCounts ==
    ASSUME RegistryInv, NEW e \in Endpoints, NEW heard \in BOOLEAN, Leave(e, heard)
    PROVE  RegistryInv'
<1>1. /\ machine' = [machine EXCEPT ![e].up = FALSE]
      /\ registered' = IF heard THEN [registered EXCEPT ![e] = NoWorker] ELSE registered
      /\ UNCHANGED <<poll, push, desired, setting, ever>>
    BY DEF Leave
<1>2. RegistryType /\ DOMAIN registered = Endpoints
    BY DEF RegistryInv, RegistryType, RegisteredType
<1>3. MachineType' /\ \A f \in Endpoints : machine'[f].hits = machine[f].hits
    BY <1>1, <1>2 DEF RegistryType, MachineType
<1>4. /\ registered'[e] = NoWorker \/ registered'[e] = registered[e]
      /\ \A f \in Endpoints : f # e => registered'[f] = registered[f]
    BY <1>1, <1>2
<1>5. RegisteredType'
    BY <1>1, <1>2, <1>4 DEF RegistryType, RegisteredType
<1>6. RegistryType'
    BY <1>1, <1>2, <1>3, <1>5 DEF RegistryType, PollType, SettingType
<1>7. ASSUME NEW f \in Endpoints PROVE CountedAt(f)'
    <2>0. CountedAt(f)
        BY DEF RegistryInv
    <2>1. CASE registered'[f] = registered[f]
        BY <2>0, <2>1, <1>1, <1>3, CountedElsewhere
    <2>2. CASE registered'[f] = NoWorker
        <3>1. Banks(f)' = NoHits /\ Known(f)' = NoHits
            BY <2>2 DEF Banks, Known
        <3>2. Coming(f)' = Coming(f) /\ machine'[f].hits = machine[f].hits /\ ever'[f] = ever[f]
            BY <1>1, <1>3 DEF Coming
        <3>3. Counted(NoHits, NoHits, Coming(f), machine[f].hits, ever[f])
            BY <2>0, <1>2, RegistryVectors, CountForgotten DEF CountedAt
        <3> QED BY <3>1, <3>2, <3>3 DEF CountedAt
    <2> QED BY <2>1, <2>2, <1>4
<1> QED BY <1>6, <1>7 DEF RegistryInv

LEMMA BootCounts ==
    ASSUME RegistryInv, NEW e \in Endpoints, NEW i \in Instances, Boot(e, i)
    PROVE  RegistryInv'
<1>1. machine' = [machine EXCEPT ![e] = Booted(i)] /\ UNCHANGED <<registered, poll, push, desired, setting, ever>>
    BY DEF Boot, control
<1>2. RegistryType
    BY DEF RegistryInv
<1>3. MachineType' /\ machine'[e].hits = NoHits /\ \A f \in Endpoints : f # e => machine'[f].hits = machine[f].hits
    BY <1>1, <1>2, Vectors DEF RegistryType, MachineType, Booted, WarmSettings
<1>4. RegistryType'
    BY <1>1, <1>2, <1>3 DEF RegistryType, PollType, SettingType, RegisteredType
<1>5. ASSUME NEW f \in Endpoints PROVE CountedAt(f)'
    <2>0. CountedAt(f)
        BY DEF RegistryInv
    <2>1. CASE f # e
        BY <2>0, <2>1, <1>1, <1>3, CountedElsewhere
    <2>2. CASE f = e
        <3>1. Banks(e)' = Banks(e) /\ Known(e)' = Known(e) /\ ever'[e] = ever[e]
            BY <1>1 DEF Banks, Known
        <3>2. CASE poll[e].pc = "answer"
            <4>1. Coming(e)' = Coming(e)
                BY <1>1, <3>2 DEF Coming
            <4>2. Counted(Banks(e), Known(e), Coming(e), NoHits, ever[e])
                BY <2>0, <2>2, <1>2, RegistryVectors, CountBooted DEF CountedAt
            <4> QED BY <3>1, <4>1, <4>2, <1>3, <2>2 DEF CountedAt
        <3>3. CASE poll[e].pc # "answer"
            <4>1. Coming(e)' = NoHits
                BY <1>1, <1>3, <3>3 DEF Coming
            <4>2. Counted(Banks(e), Known(e), machine[e].hits, NoHits, ever[e])
                BY <2>0, <2>2, <1>2, RegistryVectors, CountedIdle, CountBooted
            <4>3. Counted(Banks(e), Known(e), NoHits, NoHits, ever[e])
                BY <4>2, <1>2, RegistryVectors, Vectors, CountAfresh
            <4> QED BY <3>1, <4>1, <4>3, <1>3, <2>2 DEF CountedAt
        <3> QED BY <3>2, <3>3
    <2> QED BY <2>1, <2>2
<1> QED BY <1>4, <1>5 DEF RegistryInv

LEMMA HitCounts ==
    ASSUME RegistryInv, NEW e \in Endpoints, NEW kind \in {"warm", "cold"}, Hit(e, kind)
    PROVE  RegistryInv'
<1> DEFINE one == [warm |-> IF kind = "warm" THEN 1 ELSE 0, cold |-> IF kind = "cold" THEN 1 ELSE 0]
<1>0. one \in Tallies
    BY DEF Tallies
<1>1. /\ machine' = [machine EXCEPT ![e].hits[kind] = @ + 1]
      /\ ever' = [ever EXCEPT ![e][kind] = @ + 1]
      /\ UNCHANGED <<registered, poll, push, desired, setting>>
    BY DEF Hit, control
<1>2. RegistryType
    BY DEF RegistryInv
<1>3. machine[e].hits \in Tallies /\ ever[e] \in Tallies
    BY <1>2, RegistryVectors
<1>4. /\ machine'[e].hits = [machine[e].hits EXCEPT ![kind] = @ + 1]
      /\ ever'[e] = [ever[e] EXCEPT ![kind] = @ + 1]
    BY <1>1, <1>2 DEF RegistryType, MachineType
<1>5. machine'[e].hits = Plus(machine[e].hits, one) /\ ever'[e] = Plus(ever[e], one)
    <2>1. CASE kind = "warm"
        BY <1>3, <1>4, <2>1 DEF Tallies, Plus
    <2>2. CASE kind = "cold"
        BY <1>3, <1>4, <2>2 DEF Tallies, Plus
    <2> QED BY <2>1, <2>2
<1>6. Plus(machine[e].hits, one) \in Tallies /\ Plus(ever[e], one) \in Tallies
    BY <1>0, <1>3, Vectors
<1>7. \A f \in Endpoints : f # e => machine'[f] = machine[f] /\ ever'[f] = ever[f]
    BY <1>1, <1>2 DEF RegistryType, MachineType
<1>8. machine' = [machine EXCEPT ![e].hits = Plus(machine[e].hits, one)]
    <2>1. machine' = [machine EXCEPT ![e].hits = [machine[e].hits EXCEPT ![kind] = @ + 1]]
        BY <1>1, <1>2 DEF RegistryType, MachineType
    <2> QED BY <2>1, <1>4, <1>5
<1>9. MachineType' /\ ever' \in [Endpoints -> Tallies]
    <2>1. MachineType'
        BY <1>2, <1>6, <1>8 DEF RegistryType, MachineType
    <2>2. ever' = [ever EXCEPT ![e] = Plus(ever[e], one)]
        BY <1>1, <1>2, <1>4, <1>5 DEF RegistryType
    <2> QED BY <2>1, <2>2, <1>2, <1>6 DEF RegistryType
<1>10. RegistryType'
    BY <1>1, <1>2, <1>9 DEF RegistryType, PollType, SettingType, RegisteredType
<1>11. ASSUME NEW f \in Endpoints PROVE CountedAt(f)'
    <2>0. CountedAt(f)
        BY DEF RegistryInv
    <2>1. CASE f # e
        BY <2>0, <2>1, <1>1, <1>7, CountedElsewhere
    <2>2. CASE f = e
        <3>1. Banks(e)' = Banks(e) /\ Known(e)' = Known(e)
            BY <1>1 DEF Banks, Known
        <3>2. CASE poll[e].pc = "answer"
            <4>1. Coming(e)' = Coming(e)
                BY <1>1, <3>2 DEF Coming
            <4>2. Counted(Banks(e), Known(e), Coming(e), Plus(machine[e].hits, one), Plus(ever[e], one))
                BY <2>0, <2>2, <1>0, <1>2, RegistryVectors, CountHit DEF CountedAt
            <4> QED BY <3>1, <4>1, <4>2, <1>5, <2>2 DEF CountedAt
        <3>3. CASE poll[e].pc # "answer"
            <4>1. Coming(e)' = Plus(machine[e].hits, one)
                BY <1>1, <1>5, <3>3 DEF Coming
            <4>2. Counted(Banks(e), Known(e), machine[e].hits, Plus(machine[e].hits, one), Plus(ever[e], one))
                BY <2>0, <2>2, <1>0, <1>2, RegistryVectors, CountedIdle, CountHit
            <4>3. Counted(Banks(e), Known(e), Plus(machine[e].hits, one), Plus(machine[e].hits, one), Plus(ever[e], one))
                BY <4>2, <1>2, <1>6, RegistryVectors, CountAfresh
            <4> QED BY <3>1, <4>1, <4>3, <1>5, <2>2 DEF CountedAt
        <3> QED BY <3>2, <3>3
    <2> QED BY <2>1, <2>2
<1> QED BY <1>10, <1>11 DEF RegistryInv

LEMMA PollCounts ==
    ASSUME RegistryInv, NEW e \in Endpoints, Poll(e)
    PROVE  RegistryInv'
<1> DEFINE answer == [pc |-> "answer", hits |-> machine[e].hits, maxWarm |-> machine[e].maxWarm]
<1>1. /\ UNCHANGED <<machine, registered, push, desired, setting, ever>>
      /\ poll' = [poll EXCEPT ![e] = answer] \/ poll' = [poll EXCEPT ![e] = Failed]
    BY DEF Poll
<1>2. RegistryType /\ DOMAIN poll = Endpoints
    BY DEF RegistryInv, RegistryType, PollType
<1>3. /\ poll'[e] = answer \/ poll'[e] = Failed
      /\ \A f \in Endpoints : f # e => poll'[f] = poll[f]
      /\ DOMAIN poll' = Endpoints
    BY <1>1, <1>2
<1>4. answer \in [pc : {"answer"}, hits : Tallies, maxWarm : WarmSettings]
    BY <1>2 DEF RegistryType, MachineType
<1>5. PollType'
    BY <1>2, <1>3, <1>4 DEF RegistryType, PollType
<1>6. RegistryType'
    BY <1>1, <1>2, <1>5 DEF RegistryType, MachineType, RegisteredType, SettingType
<1>7. ASSUME NEW f \in Endpoints PROVE CountedAt(f)'
    <2>0. CountedAt(f)
        BY DEF RegistryInv
    <2>1. CASE f # e
        BY <2>0, <2>1, <1>1, <1>3, CountedElsewhere
    <2>2. CASE f = e
        <3>1. Coming(e)' = machine[e].hits
            BY <1>1, <1>3 DEF Coming, Failed
        <3>2. Banks(e)' = Banks(e) /\ Known(e)' = Known(e)
            BY <1>1 DEF Banks, Known
        <3>3. Counted(Banks(e), Known(e), machine[e].hits, machine[e].hits, ever[e])
            BY <2>0, <2>2, <1>2, CountedIdle
        <3> QED BY <3>1, <3>2, <3>3, <1>1, <2>2 DEF CountedAt
    <2> QED BY <2>1, <2>2
<1> QED BY <1>6, <1>7 DEF RegistryInv

LEMMA PollFailsCounts ==
    ASSUME RegistryInv, NEW e \in Endpoints, PollFails(e)
    PROVE  RegistryInv'
<1> DEFINE lost == [registered[e] EXCEPT !.beat = "unreachable"]
<1>1. /\ UNCHANGED <<machine, push, desired, setting, ever>>
      /\ poll[e] = Failed /\ poll' = [poll EXCEPT ![e] = Idle]
      /\ registered' = IF registered[e] = NoWorker THEN registered
                       ELSE [registered EXCEPT ![e] = lost]
    BY DEF PollFails
<1>2. RegistryType /\ DOMAIN poll = Endpoints /\ DOMAIN registered = Endpoints
    BY DEF RegistryInv, RegistryType, PollType, RegisteredType
<1>3. /\ poll'[e] = Idle /\ \A f \in Endpoints : f # e => poll'[f] = poll[f]
      /\ DOMAIN poll' = Endpoints /\ DOMAIN registered' = Endpoints
      /\ \A f \in Endpoints : f # e => registered'[f] = registered[f]
      /\ registered'[e] = IF registered[e] = NoWorker THEN NoWorker ELSE lost
    BY <1>1, <1>2
<1>4. registered[e] # NoWorker =>
         /\ lost \in [instance : Instances, hits : Tallies, base : Tallies,
                      beat : {"never", "reached", "unreachable"}]
         /\ lost.hits = registered[e].hits /\ lost.base = registered[e].base
    BY <1>2 DEF RegistryType, RegisteredType
<1>5. PollType'
    BY <1>2, <1>3 DEF RegistryType, PollType
<1>6. RegisteredType'
    BY <1>2, <1>3, <1>4 DEF RegistryType, RegisteredType
<1>7. RegistryType'
    BY <1>1, <1>2, <1>5, <1>6 DEF RegistryType, MachineType, SettingType
<1>8. ASSUME NEW f \in Endpoints PROVE CountedAt(f)'
    <2>0. CountedAt(f)
        BY DEF RegistryInv
    <2>1. CASE f # e
        BY <2>0, <2>1, <1>1, <1>3, CountedElsewhere
    <2>2. CASE f = e
        <3>1. Coming(e)' = machine[e].hits
            BY <1>1, <1>3 DEF Coming, Idle
        <3>2. \/ Banks(e)' = Banks(e) /\ Known(e)' = Known(e)
              \/ Banks(e)' = NoHits /\ Known(e)' = NoHits
            BY <1>3, <1>4 DEF Banks, Known
        <3>3. Counted(Banks(e), Known(e), machine[e].hits, machine[e].hits, ever[e])
            BY <2>0, <2>2, <1>2, CountedIdle
        <3>4. Counted(NoHits, NoHits, machine[e].hits, machine[e].hits, ever[e])
            BY <3>3, <1>2, RegistryVectors, CountForgotten
        <3> QED BY <3>1, <3>2, <3>3, <3>4, <1>1, <2>2 DEF CountedAt
    <2> QED BY <2>1, <2>2
<1> QED BY <1>7, <1>8 DEF RegistryInv

\* What a poll's answer does to the row, if there is one.
LEMMA PollEndsDoes ==
    ASSUME RegistryType, NEW e \in Endpoints, PollEnds(e)
    PROVE  LET new == [registered[e] EXCEPT !.hits = poll[e].hits, !.beat = "reached",
                                            !.base = Banked(registered[e], poll[e].hits)] IN
           /\ poll[e].pc = "answer" /\ poll[e].hits \in Tallies
           /\ UNCHANGED <<machine, desired, setting, ever>>
           /\ poll'[e] = Idle /\ \A f \in Endpoints : f # e => poll'[f] = poll[f]
           /\ DOMAIN poll' = Endpoints /\ DOMAIN registered' = Endpoints
           /\ \A f \in Endpoints : f # e => registered'[f] = registered[f]
           /\ push' \in [Endpoints -> WarmSettings]
           /\ registered[e] = NoWorker => registered' = registered
           /\ registered[e] # NoWorker =>
                 /\ registered'[e] = new
                 /\ new \in [instance : Instances, hits : Tallies, base : Tallies,
                             beat : {"never", "reached", "unreachable"}]
                 /\ new.instance = registered[e].instance /\ new.hits = poll[e].hits
                 /\ new.base = IF AtMost(registered[e].hits, poll[e].hits) THEN registered[e].base
                               ELSE Plus(registered[e].base, registered[e].hits)
<1> DEFINE new == [registered[e] EXCEPT !.hits = poll[e].hits, !.beat = "reached",
                                        !.base = Banked(registered[e], poll[e].hits)]
<1>1. /\ UNCHANGED <<machine, desired, setting, ever>>
      /\ poll[e].pc = "answer" /\ poll' = [poll EXCEPT ![e] = Idle]
      /\ registered' = IF registered[e] = NoWorker THEN registered ELSE [registered EXCEPT ![e] = new]
      /\ push' = IF poll[e].maxWarm = desired THEN push ELSE [push EXCEPT ![e] = desired]
    BY DEF PollEnds, Record
<1>2. DOMAIN poll = Endpoints /\ DOMAIN registered = Endpoints
    BY DEF RegistryType, PollType, RegisteredType
<1>3. poll[e].hits \in Tallies
    BY <1>1 DEF RegistryType, PollType, Idle, Failed
<1>4. push' \in [Endpoints -> WarmSettings]
    BY <1>1 DEF RegistryType, SettingType
<1>5. ASSUME registered[e] # NoWorker
      PROVE  /\ registered[e] \in [instance : Instances, hits : Tallies, base : Tallies,
                                   beat : {"never", "reached", "unreachable"}]
             /\ Banked(registered[e], poll[e].hits) \in Tallies
    <2>1. registered[e] \in [instance : Instances, hits : Tallies, base : Tallies,
                             beat : {"never", "reached", "unreachable"}]
        BY <1>5 DEF RegistryType, RegisteredType
    <2> QED BY <2>1, Vectors DEF Banked
<1>6. ASSUME registered[e] # NoWorker
      PROVE  /\ new \in [instance : Instances, hits : Tallies, base : Tallies,
                         beat : {"never", "reached", "unreachable"}]
             /\ new.instance = registered[e].instance /\ new.hits = poll[e].hits
             /\ new.base = Banked(registered[e], poll[e].hits)
    BY <1>3, <1>5, <1>6
<1>7. registered[e] # NoWorker => registered'[e] = new
    BY <1>1, <1>2
<1>8. /\ poll'[e] = Idle /\ \A f \in Endpoints : f # e => poll'[f] = poll[f]
      /\ DOMAIN poll' = Endpoints /\ DOMAIN registered' = Endpoints
      /\ \A f \in Endpoints : f # e => registered'[f] = registered[f]
      /\ registered[e] = NoWorker => registered' = registered
    BY <1>1, <1>2
<1> QED BY <1>1, <1>3, <1>4, <1>6, <1>7, <1>8 DEF Banked

LEMMA PollEndsCounts ==
    ASSUME RegistryInv, NEW e \in Endpoints, PollEnds(e)
    PROVE  RegistryInv'
<1> DEFINE new == [registered[e] EXCEPT !.hits = poll[e].hits, !.beat = "reached",
                                        !.base = Banked(registered[e], poll[e].hits)]
<1>1. RegistryType
    BY DEF RegistryInv
<1>2. /\ poll[e].pc = "answer" /\ poll[e].hits \in Tallies
      /\ UNCHANGED <<machine, desired, setting, ever>>
      /\ poll'[e] = Idle /\ \A f \in Endpoints : f # e => poll'[f] = poll[f]
      /\ DOMAIN poll' = Endpoints /\ DOMAIN registered' = Endpoints
      /\ \A f \in Endpoints : f # e => registered'[f] = registered[f]
      /\ push' \in [Endpoints -> WarmSettings]
      /\ registered[e] = NoWorker => registered' = registered
      /\ registered[e] # NoWorker =>
            /\ registered'[e] = new
            /\ new \in [instance : Instances, hits : Tallies, base : Tallies,
                        beat : {"never", "reached", "unreachable"}]
            /\ new.hits = poll[e].hits
            /\ new.base = IF AtMost(registered[e].hits, poll[e].hits) THEN registered[e].base
                          ELSE Plus(registered[e].base, registered[e].hits)
    BY <1>1, PollEndsDoes
<1> HIDE DEF new
<1>3. RegisteredType'
    BY <1>1, <1>2 DEF RegistryType, RegisteredType
<1>4. PollType'
    BY <1>1, <1>2 DEF RegistryType, PollType
<1>5. RegistryType'
    BY <1>1, <1>2, <1>3, <1>4 DEF RegistryType, MachineType, SettingType
<1>6. ASSUME NEW f \in Endpoints PROVE CountedAt(f)'
    <2>0. CountedAt(f)
        BY DEF RegistryInv
    <2>1. CASE f # e
        BY <2>0, <2>1, <1>2, CountedElsewhere
    <2>2. CASE f = e
        <3>1. Coming(e) = poll[e].hits /\ Coming(e)' = machine[e].hits
            BY <1>2 DEF Coming, Idle
        <3>2. CASE registered[e] = NoWorker
            <4>1. Banks(e)' = Banks(e) /\ Known(e)' = Known(e)
                BY <1>2, <3>2 DEF Banks, Known
            <4>2. Counted(Banks(e), Known(e), machine[e].hits, machine[e].hits, ever[e])
                BY <2>0, <2>2, <1>1, CountedIdle
            <4> QED BY <3>1, <4>1, <4>2, <1>2, <2>2 DEF CountedAt
        <3>3. CASE registered[e] # NoWorker
            <4> DEFINE b == IF AtMost(Known(e), poll[e].hits) THEN Banks(e) ELSE Plus(Banks(e), Known(e))
            <4>1. b = new.base /\ b \in Tallies
                BY <1>1, <1>2, <3>3, RegistryVectors, Vectors DEF Banks, Known
            <4>2. Counted(b, poll[e].hits, machine[e].hits, machine[e].hits, ever[e])
                BY <2>0, <2>2, <3>1, <1>1, RegistryVectors, CountBanked DEF CountedAt
            <4>3. Counted(NoHits, NoHits, machine[e].hits, machine[e].hits, ever[e])
                BY <4>1, <4>2, <1>1, <1>2, RegistryVectors, CountForgotten
            <4>4. \/ Banks(e)' = b /\ Known(e)' = poll[e].hits
                  \/ Banks(e)' = NoHits /\ Known(e)' = NoHits
                BY <4>1, <1>2, <3>3 DEF Banks, Known
            <4> QED BY <3>1, <4>2, <4>3, <4>4, <1>2, <2>2 DEF CountedAt
        <3> QED BY <3>2, <3>3
    <2> QED BY <2>1, <2>2
<1> QED BY <1>5, <1>6 DEF RegistryInv

LEMMA ConfigureCounts ==
    ASSUME RegistryInv, NEW e \in Endpoints, Configure(e)
    PROVE  RegistryInv'
<1>1. /\ push' = [push EXCEPT ![e] = Unset] /\ UNCHANGED <<registered, poll, desired, setting, ever>>
      /\ machine' = [machine EXCEPT ![e].maxWarm = push[e]] \/ machine' = machine
    BY DEF Configure
<1>2. RegistryType
    BY DEF RegistryInv
<1>3. push[e] \in WarmSettings /\ Unset \in WarmSettings
    BY <1>2 DEF RegistryType, SettingType, WarmSettings
<1>4. MachineType' /\ \A f \in Endpoints : machine'[f].hits = machine[f].hits
    BY <1>1, <1>2, <1>3 DEF RegistryType, MachineType
<1>5. RegistryType'
    BY <1>1, <1>2, <1>3, <1>4 DEF RegistryType, PollType, RegisteredType, SettingType
<1>6. ASSUME NEW f \in Endpoints PROVE CountedAt(f)'
    BY <1>1, <1>4, CountedElsewhere DEF RegistryInv
<1> QED BY <1>5, <1>6 DEF RegistryInv

LEMMA SetPolicyCounts ==
    ASSUME RegistryInv, NEW v \in Policies, SetPolicy(v)
    PROVE  RegistryInv'
<1>1. setting' = v /\ desired' = v /\ UNCHANGED <<machine, registered, poll, push, ever>>
    BY DEF SetPolicy
<1>2. RegistryType'
    BY <1>1 DEF RegistryInv, RegistryType, MachineType, PollType, RegisteredType, SettingType, WarmSettings
<1>3. ASSUME NEW f \in Endpoints PROVE CountedAt(f)'
    BY <1>1, CountedElsewhere DEF RegistryInv
<1> QED BY <1>2, <1>3 DEF RegistryInv

LEMMA ControlRestartsCounts ==
    ASSUME RegistryInv, ControlRestarts
    PROVE  RegistryInv'
<1>1. /\ registered' = [e \in Endpoints |-> NoWorker]
      /\ poll' = [e \in Endpoints |-> Idle] /\ push' = [e \in Endpoints |-> Unset]
      /\ desired' = setting /\ UNCHANGED <<machine, setting, ever>>
    BY DEF ControlRestarts
<1>2. RegistryType
    BY DEF RegistryInv
<1>3. RegistryType'
    BY <1>1, <1>2 DEF RegistryType, MachineType, PollType, RegisteredType, SettingType, WarmSettings
<1>4. ASSUME NEW f \in Endpoints PROVE CountedAt(f)'
    <2>1. Banks(f)' = NoHits /\ Known(f)' = NoHits /\ Coming(f)' = machine[f].hits
        BY <1>1 DEF Banks, Known, Coming, Idle
    <2>2. Counted(Banks(f), Known(f), machine[f].hits, machine[f].hits, ever[f])
        BY <1>2, CountedIdle DEF RegistryInv
    <2>3. Counted(NoHits, NoHits, machine[f].hits, machine[f].hits, ever[f])
        BY <2>2, <1>2, RegistryVectors, CountForgotten
    <2> QED BY <2>1, <2>3, <1>1 DEF CountedAt
<1> QED BY <1>3, <1>4 DEF RegistryInv

LEMMA RegistrySteps == RegistryInv /\ [FleetRegistryNext]_registryVars => RegistryInv'
<1> SUFFICES ASSUME RegistryInv, [FleetRegistryNext]_registryVars PROVE RegistryInv'
    OBVIOUS
<1>1. ASSUME NEW e \in Endpoints, Announce(e) PROVE RegistryInv'
    BY <1>1, AnnounceCounts
<1>2. ASSUME NEW e \in Endpoints, Poll(e) PROVE RegistryInv'
    BY <1>2, PollCounts
<1>3. ASSUME NEW e \in Endpoints, PollFails(e) PROVE RegistryInv'
    BY <1>3, PollFailsCounts
<1>4. ASSUME NEW e \in Endpoints, PollEnds(e) PROVE RegistryInv'
    BY <1>4, PollEndsCounts
<1>5. ASSUME NEW e \in Endpoints, Configure(e) PROVE RegistryInv'
    BY <1>5, ConfigureCounts
<1>6. ASSUME NEW e \in Endpoints, NEW i \in Instances, Boot(e, i) PROVE RegistryInv'
    BY <1>6, BootCounts
<1>7. ASSUME NEW e \in Endpoints, NEW heard \in BOOLEAN, Leave(e, heard) PROVE RegistryInv'
    BY <1>7, LeaveCounts
<1>8. ASSUME NEW e \in Endpoints, NEW kind \in {"warm", "cold"}, Hit(e, kind) PROVE RegistryInv'
    BY <1>8, HitCounts
<1>9. ASSUME NEW v \in Policies, SetPolicy(v) PROVE RegistryInv'
    BY <1>9, SetPolicyCounts
<1>10. CASE ControlRestarts
    BY <1>10, ControlRestartsCounts
<1>11. CASE UNCHANGED registryVars
    <2>1. RegistryType'
        BY <1>11 DEF RegistryInv, RegistryType, MachineType, PollType, RegisteredType, SettingType, registryVars
    <2>2. ASSUME NEW f \in Endpoints PROVE CountedAt(f)'
        BY <1>11, CountedElsewhere DEF RegistryInv, registryVars
    <2> QED BY <2>1, <2>2 DEF RegistryInv
<1> QED BY <1>1, <1>2, <1>3, <1>4, <1>5, <1>6, <1>7, <1>8, <1>9, <1>10, <1>11 DEF FleetRegistryNext

LEMMA RegistryInvariance == FleetRegistrySpec => []RegistryInv
BY RegistryStarts, RegistrySteps, PTL DEF FleetRegistrySpec

LEMMA RegistryTypes == RegistryInv => FleetRegistryTypeOK
<1> SUFFICES ASSUME RegistryInv PROVE FleetRegistryTypeOK
    OBVIOUS
<1>1. RegistryType
    BY DEF RegistryInv
<1>2. ASSUME NEW e \in Endpoints
      PROVE  machine[e].maxWarm \in Policies \cup {Unset} /\ AtMost(machine[e].hits, ever[e])
    <2>1. AtMost(machine[e].hits, ever[e])
        BY <1>1, RegistryVectors, CountShown DEF RegistryInv, CountedAt
    <2> QED BY <1>1, <2>1 DEF RegistryType, MachineType, WarmSettings
<1> QED BY <1>1, <1>2 DEF FleetRegistryTypeOK, RegistryType, RegisteredType, SettingType, WarmSettings

\* Machines, registrations, polls in flight and settings keep their types.
THEOREM RegistryTyped == FleetRegistrySpec => []FleetRegistryTypeOK
BY RegistryTypes, RegistryInvariance, PTL

\* The growth of a total within one registration.
LEMMA TotalsGrow ==
    ASSUME RegistryInv, [FleetRegistryNext]_registryVars, NEW e \in Endpoints,
           registered[e] # NoWorker, registered'[e] # NoWorker,
           registered[e].instance = registered'[e].instance
    PROVE  AtMost(Totals(registered[e]), Totals(registered'[e]))
<1>0. RegistryType /\ DOMAIN registered = Endpoints
    BY DEF RegistryInv, RegistryType, RegisteredType
<1>1. registered[e].hits \in Tallies /\ registered[e].base \in Tallies
    BY <1>0 DEF RegistryType, RegisteredType
<1>2. CASE registered'[e] = registered[e]
    BY <1>1, <1>2 DEF Totals, AtMost, Plus, Tallies
<1>3. ASSUME NEW f \in Endpoints, Announce(f) PROVE registered'[e] = registered[e]
    <2>1. CASE f # e
        BY <1>0, <1>3, <2>1 DEF Announce
    <2>2. CASE f = e
        BY <1>0, <1>3, <2>2 DEF Announce
    <2> QED BY <2>1, <2>2
<1>4. ASSUME NEW f \in Endpoints, PollFails(f)
      PROVE  AtMost(Totals(registered[e]), Totals(registered'[e]))
    <2>1. CASE f # e
        BY <1>0, <1>2, <1>4, <2>1 DEF PollFails
    <2>2. CASE f = e
        <3>1. registered' = [registered EXCEPT ![e] = [registered[e] EXCEPT !.beat = "unreachable"]]
            BY <1>4, <2>2 DEF PollFails
        <3>2. registered'[e] = [registered[e] EXCEPT !.beat = "unreachable"]
            BY <1>0, <3>1
        <3>3. registered'[e].hits = registered[e].hits /\ registered'[e].base = registered[e].base
            BY <1>0, <3>2 DEF RegistryType, RegisteredType
        <3> QED BY <1>1, <3>3 DEF Totals, AtMost, Plus, Tallies
    <2> QED BY <2>1, <2>2
<1>5. ASSUME NEW f \in Endpoints, PollEnds(f)
      PROVE  AtMost(Totals(registered[e]), Totals(registered'[e]))
    <2>1. CASE f # e
        <3>1. registered'[e] = registered[e]
            BY <1>0, <1>5, <2>1, e \in Endpoints DEF PollEnds, Record
        <3> QED BY <3>1, <1>2
    <2>2. CASE f = e
        <3> DEFINE new == [registered[e] EXCEPT !.hits = poll[e].hits, !.beat = "reached",
                                                !.base = Banked(registered[e], poll[e].hits)]
        <3>0. PollEnds(e)
            BY <1>5, <2>2
        <3>1. /\ registered'[e] = new /\ poll[e].hits \in Tallies /\ new.hits = poll[e].hits
              /\ new.base = IF AtMost(registered[e].hits, poll[e].hits) THEN registered[e].base
                            ELSE Plus(registered[e].base, registered[e].hits)
            BY <1>0, <3>0, PollEndsDoes
        <3> HIDE DEF new
        <3> QED BY <1>1, <3>1 DEF Totals, AtMost, Plus, Tallies
    <2> QED BY <2>1, <2>2
<1>6. ASSUME NEW f \in Endpoints, NEW heard \in BOOLEAN, Leave(f, heard)
      PROVE  registered'[e] = registered[e]
    BY <1>0, <1>6 DEF Leave
<1>7. ASSUME ControlRestarts PROVE FALSE
    BY <1>7 DEF ControlRestarts
<1>8. ASSUME UNCHANGED registered PROVE registered'[e] = registered[e]
    BY <1>8
<1>9. ASSUME NEW f \in Endpoints, \/ Poll(f) \/ Configure(f) \/ (\E i \in Instances : Boot(f, i))
                                  \/ \E kind \in {"warm", "cold"} : Hit(f, kind)
      PROVE  UNCHANGED registered
    BY <1>9 DEF Poll, Configure, Boot, Hit, control
<1>10. ASSUME NEW v \in Policies, SetPolicy(v) PROVE UNCHANGED registered
    BY <1>10 DEF SetPolicy
<1>11. UNCHANGED registryVars => UNCHANGED registered
    BY DEF registryVars
<1> QED BY <1>2, <1>3, <1>4, <1>5, <1>6, <1>7, <1>8, <1>9, <1>10, <1>11 DEF FleetRegistryNext

\* What is shown of an endpoint is at most what it ever counted.
RegistryShown == \A e \in Endpoints : AtMost(Plus(Banks(e), Known(e)), ever[e])

LEMMA RegistryShows == RegistryInv => RegistryShown
BY RegistryVectors, CountShown DEF RegistryInv, CountedAt, RegistryShown

\* However often machines reboot, register again and are polled late, the totals
\* the registry shows of an endpoint exceed no count of its hits, and never go back
\* while its worker stays registered (fleet.go:61).
THEOREM HitsCount == FleetRegistrySpec => HitTotalsCount
<1> DEFINE Step == \A e \in Endpoints :
          registered'[e] # NoWorker =>
             /\ AtMost(Totals(registered'[e]), ever'[e])
             /\ registered[e] # NoWorker /\ registered[e].instance = registered'[e].instance
                   => AtMost(Totals(registered[e]), Totals(registered'[e]))
<1>1. RegistryInv /\ RegistryShown' /\ [FleetRegistryNext]_registryVars => [Step]_registryVars
    <2> SUFFICES ASSUME RegistryInv, RegistryShown', [FleetRegistryNext]_registryVars,
                        NEW e \in Endpoints, registered'[e] # NoWorker
                 PROVE  /\ AtMost(Totals(registered'[e]), ever'[e])
                        /\ registered[e] # NoWorker /\ registered[e].instance = registered'[e].instance
                              => AtMost(Totals(registered[e]), Totals(registered'[e]))
        OBVIOUS
    <2>1. AtMost(Totals(registered'[e]), ever'[e])
        BY DEF RegistryShown, Banks, Known, Totals
    <2> QED BY <2>1, TotalsGrow
<1> QED BY <1>1, RegistryShows, RegistryInvariance, PTL DEF FleetRegistrySpec, HitTotalsCount

-------------------------------------------------------------------------------
(* Init done once per deploy: InitSteps *)

InitRequests == [pc : {"sent", "wait", "ok", "failed"}, at : InitWorkers, kind : Kinds, done : BOOLEAN]

InitStepsType ==
    /\ row \in BOOLEAN /\ made \in BOOLEAN /\ up \subseteq InitWorkers
    /\ wireDone \in [InitWorkers -> BOOLEAN] /\ revoked \in [InitWorkers -> BOOLEAN]
    /\ starting \in [InitWorkers -> {"none", "init", "ran", "skip"}]
    /\ ensure \in [Requests -> {NoEnsure} \cup InitRequests]
    /\ used \in [losses : Nat, reboots : Nat]

\* Init has succeeded, if what it made has not been lost since.
Earned == made \/ used.losses > 0

\* Whoever believes that init was done, the row, a request with the row's word, a
\* worker, or an answer that says its backend runs, is right to.
EarnedInv ==
    /\ InitStepsType
    /\ row => Earned
    /\ \A w \in InitWorkers : wireDone[w] \/ w \in up => Earned
    /\ \A r \in Requests : ensure[r] # NoEnsure =>
          ((ensure[r].done \/ (ensure[r].pc = "ok" /\ ensure[r].kind = "backend")) => Earned)

LEMMA EarnedStarts == InitStepsInit => EarnedInv
<1> SUFFICES ASSUME InitStepsInit PROVE EarnedInv
    OBVIOUS
<1>1. \A r \in Requests : ensure[r] = NoEnsure
    BY DEF InitStepsInit
<1>2. InitStepsType
    BY DEF InitStepsInit, InitStepsType
<1> QED BY <1>1, <1>2 DEF InitStepsInit, EarnedInv

LEMMA EarnedSteps == EarnedInv /\ [InitStepsNext]_initVars => EarnedInv'
<1> SUFFICES ASSUME EarnedInv, [InitStepsNext]_initVars PROVE EarnedInv'
    OBVIOUS
<1> USE DEF EarnedInv, InitStepsType, InitRequests, Earned, atWorker
<1>0. NoEnsure.pc = "idle"
    BY DEF NoEnsure
<1>1. ASSUME NEW r \in Requests, NEW w \in InitWorkers, NEW kind \in Kinds, ResolveWireSpec(r, w, kind)
      PROVE  EarnedInv'
    <2>1. ensure' = [ensure EXCEPT ![r] = [pc |-> "sent", at |-> w, kind |-> kind, done |-> row]]
          /\ UNCHANGED <<row, made, wireDone, revoked, starting, up, used>>
        BY <1>1 DEF ResolveWireSpec
    <2>2. ensure' \in [Requests -> {NoEnsure} \cup InitRequests]
        BY <2>1
    <2> QED BY <2>1, <2>2, <1>0
<1>2. ASSUME NEW r \in Requests, HandleEnsure(r) PROVE EarnedInv'
    <2> DEFINE w == ensure[r].at
    <2>1. ensure[r] \in InitRequests /\ w \in InitWorkers
        BY <1>0, <1>2 DEF HandleEnsure
    <2>2. /\ wireDone' = [wireDone EXCEPT ![w] = (@ \/ ensure[r].done) /\ ~revoked[w]]
          /\ UNCHANGED <<row, made, revoked, up, used>>
          /\ \/ /\ w \in up \/ ensure[r].kind = "frontend"
                /\ ensure' = [ensure EXCEPT ![r].pc = "ok"] /\ UNCHANGED starting
             \/ /\ ensure' = [ensure EXCEPT ![r].pc = "wait"]
                /\ \/ UNCHANGED starting
                   \/ starting' = [starting EXCEPT ![w] = "skip"]
                   \/ starting' = [starting EXCEPT ![w] = "init"]
        BY <1>2 DEF HandleEnsure, OfferWireSpec
    <2>3. /\ wireDone' \in [InitWorkers -> BOOLEAN]
          /\ starting' \in [InitWorkers -> {"none", "init", "ran", "skip"}]
        BY <2>1, <2>2
    <2>4. Earned' = Earned /\ (\A v \in InitWorkers : wireDone'[v] => Earned)
        BY <2>1, <2>2, <1>0
    <2>5. ASSUME NEW pc \in {"ok", "wait"}, ensure' = [ensure EXCEPT ![r].pc = pc],
                 pc = "ok" => w \in up \/ ensure[r].kind = "frontend"
          PROVE  EarnedInv'
        <3>1. ensure'[r] = [ensure[r] EXCEPT !.pc = pc] /\ ensure'[r] \in InitRequests
            BY <2>1, <2>5
        <3>2. ensure' \in [Requests -> {NoEnsure} \cup InitRequests]
            BY <3>1, <2>5
        <3>3. ensure'[r].done = ensure[r].done /\ ensure'[r].kind = ensure[r].kind /\ ensure'[r].pc = pc
            BY <3>1, <2>1
        <3>4. \A q \in Requests : q # r => ensure'[q] = ensure[q]
            BY <2>5
        <3>5. ASSUME NEW q \in Requests, ensure'[q] # NoEnsure,
                     ensure'[q].done \/ (ensure'[q].pc = "ok" /\ ensure'[q].kind = "backend")
              PROVE  Earned
            BY <3>3, <3>4, <3>5, <2>1, <2>5, <1>0
        <3> QED BY <2>2, <2>3, <2>4, <3>2, <3>5
    <2> QED BY <2>2, <2>5
<1>3. ASSUME NEW r \in Requests, Learns(r) PROVE EarnedInv'
    <2>1. ensure' = [ensure EXCEPT ![r] = NoEnsure] /\ UNCHANGED <<made, wireDone, revoked, starting, up, used>>
        BY <1>3 DEF Learns
    <2>2. ensure[r] \in InitRequests
        BY <1>0, <1>3 DEF Learns
    <2>3. row' \in BOOLEAN /\ (row' => Earned)
        BY <2>2, <1>0, <1>3 DEF Learns, Kinds
    <2> QED BY <2>1, <2>3
<1>4. ASSUME NEW r \in Requests, Unanswered(r) PROVE EarnedInv'
    BY <1>4 DEF Unanswered
<1>5. ASSUME NEW w \in InitWorkers, NEW pc \in {"ok", "failed"}, Answer(w, pc)
      PROVE  /\ ensure' \in [Requests -> {NoEnsure} \cup InitRequests]
             /\ \A r \in Requests : ensure'[r] # NoEnsure =>
                  /\ ensure[r] # NoEnsure /\ ensure'[r].done = ensure[r].done
                  /\ ensure'[r].kind = ensure[r].kind
                  /\ ensure'[r].pc = "ok" => ensure[r].pc = "ok" \/ pc = "ok"
    <2>1. ASSUME NEW r \in Requests
          PROVE  /\ ensure'[r] \in {NoEnsure} \cup InitRequests
                 /\ ensure'[r] # NoEnsure =>
                      /\ ensure[r] # NoEnsure /\ ensure'[r].done = ensure[r].done
                      /\ ensure'[r].kind = ensure[r].kind
                      /\ ensure'[r].pc = "ok" => ensure[r].pc = "ok" \/ pc = "ok"
        <3>1. CASE ensure[r].pc = "wait" /\ ensure[r].at = w
            <4>1. ensure[r] \in InitRequests
                BY <1>0, <3>1
            <4>2. ensure'[r] = [ensure[r] EXCEPT !.pc = pc]
                BY <1>5, <3>1 DEF Answer
            <4> QED BY <4>1, <4>2, <1>0
        <3>2. CASE ~(ensure[r].pc = "wait" /\ ensure[r].at = w)
            <4>1. ensure'[r] = ensure[r]
                BY <1>5, <3>2 DEF Answer
            <4> QED BY <4>1
        <3> QED BY <3>1, <3>2
    <2>2. ensure' = [r \in Requests |-> ensure'[r]]
        BY <1>5 DEF Answer
    <2> QED BY <2>1, <2>2
<1>6. ASSUME NEW w \in InitWorkers, RunInit(w) PROVE EarnedInv'
    BY <1>6 DEF RunInit
<1>7. ASSUME NEW w \in InitWorkers, InitFails(w) PROVE EarnedInv'
    <2>1. Answer(w, "failed") /\ UNCHANGED <<row, made, wireDone, revoked, up, used>>
          /\ starting' = [starting EXCEPT ![w] = "none"]
        BY <1>7 DEF InitFails
    <2> QED BY <2>1, <1>5
<1>8. ASSUME NEW w \in InitWorkers, Healthy(w) PROVE EarnedInv'
    <2>1. Answer(w, "ok") /\ UNCHANGED <<row, made, wireDone, revoked, used>> /\ made
          /\ up' = up \cup {w} /\ starting' = [starting EXCEPT ![w] = "none"]
        BY <1>8 DEF Healthy
    <2> QED BY <2>1, <1>5
<1>9. ASSUME NEW w \in InitWorkers, Fails(w) PROVE EarnedInv'
    <2>1. /\ Answer(w, "failed") /\ UNCHANGED <<row, made, up, used>>
          /\ starting' = [starting EXCEPT ![w] = "none"]
          /\ wireDone' = [wireDone EXCEPT ![w] = @ /\ starting[w] # "skip"]
          /\ revoked' = [revoked EXCEPT ![w] = @ \/ starting[w] = "skip"]
        BY <1>9 DEF Fails
    <2>2. /\ wireDone' \in [InitWorkers -> BOOLEAN] /\ revoked' \in [InitWorkers -> BOOLEAN]
          /\ \A v \in InitWorkers : wireDone'[v] => wireDone[v]
        BY <2>1
    <2>3. /\ ensure' \in [Requests -> {NoEnsure} \cup InitRequests]
          /\ \A r \in Requests : ensure'[r] # NoEnsure =>
                  /\ ensure[r] # NoEnsure /\ ensure'[r].done = ensure[r].done
                  /\ ensure'[r].kind = ensure[r].kind
                  /\ ensure'[r].pc = "ok" => ensure[r].pc = "ok"
        BY <2>1, <1>5
    <2> QED BY <2>1, <2>2, <2>3
<1>10. ASSUME NEW w \in InitWorkers, Stops(w) PROVE EarnedInv'
    BY <1>10 DEF Stops
<1>11. ASSUME NEW w \in InitWorkers, RebootWorker(w) PROVE EarnedInv'
    <2>1. /\ used' = [used EXCEPT !.reboots = @ + 1] /\ UNCHANGED <<row, made>>
          /\ wireDone' = [wireDone EXCEPT ![w] = FALSE] /\ revoked' = [revoked EXCEPT ![w] = FALSE]
          /\ starting' = [starting EXCEPT ![w] = "none"] /\ up' = up \ {w}
          /\ ensure' = [r \in Requests |->
                          IF ensure[r] # NoEnsure /\ ensure[r].at = w THEN NoEnsure ELSE ensure[r]]
        BY <1>11 DEF RebootWorker
    <2>2. used' \in [losses : Nat, reboots : Nat] /\ used'.losses = used.losses
        BY <2>1
    <2>3. /\ ensure' \in [Requests -> {NoEnsure} \cup InitRequests]
          /\ \A r \in Requests : ensure'[r] # NoEnsure => ensure'[r] = ensure[r]
        BY <2>1
    <2> QED BY <2>1, <2>2, <2>3
<1>12. CASE Lose
    <2>1. /\ used' = [used EXCEPT !.losses = @ + 1] /\ made' = FALSE
          /\ UNCHANGED <<row, wireDone, revoked, starting, up, ensure>>
        BY <1>12 DEF Lose
    <2>2. used' \in [losses : Nat, reboots : Nat] /\ used'.losses > 0
        BY <2>1
    <2> QED BY <2>1, <2>2
<1>13. CASE UNCHANGED initVars
    BY <1>13 DEF initVars
<1> QED BY <1>1, <1>2, <1>3, <1>4, <1>6, <1>7, <1>8, <1>9, <1>10, <1>11, <1>12, <1>13 DEF InitStepsNext

LEMMA EarnedInvariance == InitStepsSpec => []EarnedInv
BY EarnedStarts, EarnedSteps, PTL DEF InitStepsSpec

\* A row says that init is done only if an init succeeded, or what it made was
\* lost since (supervise.go:647).
THEOREM RecordsAreEarned == InitStepsSpec => []RecordIsEarned
<1>1. EarnedInv => RecordIsEarned
    BY DEF EarnedInv, Earned, RecordIsEarned
<1> QED BY <1>1, EarnedInvariance, PTL

\* The row, the workers' records and the requests keep their types.
THEOREM InitStepsTyped == InitStepsSpec => []InitStepsTypeOK
<1>1. EarnedInv => InitStepsTypeOK
    BY DEF EarnedInv, InitStepsType, InitStepsTypeOK, InitRequests, NoEnsure
<1> QED BY <1>1, EarnedInvariance, PTL

===============================================================================
