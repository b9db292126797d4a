----------------------------- MODULE DeployProofs -----------------------------
(***************************************************************************)
(* What a deploy is made from, runs in and is listed with, for any number  *)
(* of repositories, networks, commits, deploys, failures and kills: a      *)
(* mirror is there with its row alone; a frontend and its backend share the *)
(* network one of them looked up, and the last of them to end takes it     *)
(* away; what is served is what the commit declared, in the environment it *)
(* declared; and the changes made while the list is browsed bound what a   *)
(* browse shows twice, misses or shows with a wrong state.                 *)
(***************************************************************************)
EXTENDS CloneJobs, DeployNetwork, BuildInputs, DeployPages, FiniteSetTheorems, SequenceTheorems,
        WellFoundedInduction, TLAPS

(* Cloning and deleting: CloneJobs *)

\* Somebody still answers for a mirror on the disk: a row, a job that landed it
\* and has yet to look for its row, or a deletion that has yet to remove it.
MirrorOwned ==
    \/ \E r \in Repos : status[r] \in Row \/ cloneJob[r] \in {"landed", "orphan"}
    \/ \E d \in Deleters : deletion[d].pc = "mirror"

\* MirrorFollowsRow looks at the state where all is quiet; on the way there it is
\* this that every step has to keep.
MirrorInv == mirrorOf # NoMirror => leftover \/ MirrorOwned

\* Rows come one after the other, and what works for one works after it came.
OrderInv ==
    /\ \A q, r \in Repos : status[r] # "new" /\ q < r => status[q] = "deleted"
    /\ \A r \in Repos : status[r] = "new" => cloneJob[r] = "none"
    /\ \A d \in Deleters : deletion[d] # NoDeletion => status[deletion[d].repo] # "new"
    /\ \A d \in Deleters : deletion[d].pc = "mirror" => status[deletion[d].repo] = "deleted"

\* While a row is there, nobody works for another, but those it came beside.
AloneInv ==
    \A r \in Repos \ beside : status[r] \in Row =>
        /\ \A q \in Repos \ {r} : cloneJob[q] = "none"
        /\ \A d \in Deleters : deletion[d] # NoDeletion => deletion[d].repo = r

\* So what a job cloned stays in its place as long as the row does.
OwnInv ==
    \A r \in Repos :
        /\ status[r] = "ready" => cloneJob[r] = "none"
        /\ r \notin beside /\ status[r] \in Row =>
              (status[r] = "ready" \/ cloneJob[r] = "landed" => mirrorOf = r)
        /\ cloneJob[r] = "orphan" => status[r] \notin Row

CloneInv == CloneJobsTypeOK /\ MirrorInv /\ OrderInv /\ AloneInv /\ OwnInv

LEMMA CloneStart == ASSUME CloneJobsInit PROVE CloneInv
<1>1. CloneJobsTypeOK
  BY DEF CloneJobsInit, CloneJobsTypeOK
<1>2. MirrorInv
  BY DEF CloneJobsInit, MirrorInv
<1>3. OrderInv
  BY DEF CloneJobsInit, OrderInv, NoDeletion
<1>4. AloneInv /\ OwnInv
  BY DEF CloneJobsInit, AloneInv, OwnInv, Row
<1> QED BY <1>1, <1>2, <1>3, <1>4 DEF CloneInv

LEMMA CloneStepType == ASSUME CloneJobsTypeOK, [CloneJobsNext]_cloneVars PROVE CloneJobsTypeOK'
<1> USE DEF CloneJobsTypeOK, mirrorVars, serverVars
<1>1. ASSUME NEW r \in Repos, CreateRepo(r) PROVE CloneJobsTypeOK'
  BY <1>1 DEF CreateRepo, Row
<1>2. ASSUME NEW r \in Repos, SetWatchFails(r) PROVE CloneJobsTypeOK'
  BY <1>2 DEF SetWatchFails
<1>3. ASSUME NEW r \in Repos, Begin(r) PROVE CloneJobsTypeOK'
  BY <1>3 DEF Begin
<1>4. ASSUME NEW r \in Repos, Clone(r) PROVE CloneJobsTypeOK'
  BY <1>4 DEF Clone
<1>5. ASSUME NEW r \in Repos, Vacate(r) PROVE CloneJobsTypeOK'
  BY <1>5 DEF Vacate, MirrorGoes, MirrorStays
<1>6. ASSUME NEW r \in Repos, MoveIn(r) PROVE CloneJobsTypeOK'
  BY <1>6 DEF MoveIn
<1>7. ASSUME NEW r \in Repos, RecordFailure(r) PROVE CloneJobsTypeOK'
  BY <1>7 DEF RecordFailure, SetRepoStatus, Row
<1>8. ASSUME NEW r \in Repos, RecordLanding(r) PROVE CloneJobsTypeOK'
  BY <1>8 DEF RecordLanding, SetRepoStatus, Row
<1>9. ASSUME NEW r \in Repos, RemoveOrphan(r) PROVE CloneJobsTypeOK'
  BY <1>9 DEF RemoveOrphan, MirrorGoes, MirrorStays
<1>10. ASSUME NEW r \in Repos, NEW d \in Deleters, Cancel(d, r) PROVE CloneJobsTypeOK'
  BY <1>10 DEF Cancel, Deletions
<1>11. ASSUME NEW d \in Deleters, DeleteRepo(d) PROVE CloneJobsTypeOK'
  BY <1>11 DEF DeleteRepo, Deletions, NoDeletion
<1>12. ASSUME NEW d \in Deleters, RemoveMirror(d) PROVE CloneJobsTypeOK'
  BY <1>12 DEF RemoveMirror, MirrorGoes, MirrorStays
<1>13. CASE Shutdown
  BY <1>13 DEF Shutdown
<1>14. CASE Start
  BY <1>14 DEF Start, Resumed, Interrupted
<1>15. CASE UNCHANGED cloneVars
  BY <1>15 DEF cloneVars, mirrorVars, serverVars
<1> QED
  BY <1>1, <1>2, <1>3, <1>4, <1>5, <1>6, <1>7, <1>8,
     <1>9, <1>10, <1>11, <1>12, <1>13, <1>14, <1>15
  DEF CloneJobsNext, CloneWorks

LEMMA CloneStepMirror == ASSUME CloneInv, [CloneJobsNext]_cloneVars PROVE MirrorInv'
<1> SUFFICES ASSUME mirrorOf' # NoMirror, ~leftover' PROVE MirrorOwned'
  BY DEF MirrorInv
<1> USE DEF CloneInv, CloneJobsTypeOK, MirrorInv, MirrorOwned, mirrorVars, serverVars
<1>1. ASSUME NEW r \in Repos, CreateRepo(r) PROVE MirrorOwned'
  BY <1>1 DEF CreateRepo, Row
<1>2. ASSUME NEW r \in Repos, SetWatchFails(r) PROVE MirrorOwned'
  BY <1>2 DEF SetWatchFails
<1>3. ASSUME NEW r \in Repos, Begin(r) PROVE MirrorOwned'
  BY <1>3 DEF Begin
<1>4. ASSUME NEW r \in Repos, Clone(r) PROVE MirrorOwned'
  BY <1>4 DEF Clone
<1>5. ASSUME NEW r \in Repos, Vacate(r) PROVE MirrorOwned'
  BY <1>5 DEF Vacate, MirrorGoes, MirrorStays
<1>6. ASSUME NEW r \in Repos, MoveIn(r) PROVE MirrorOwned'
  BY <1>6 DEF MoveIn
<1>7. ASSUME NEW r \in Repos, RecordFailure(r) PROVE MirrorOwned'
  BY <1>7 DEF RecordFailure, SetRepoStatus, Row
<1>8. ASSUME NEW r \in Repos, RecordLanding(r) PROVE MirrorOwned'
  BY <1>8 DEF RecordLanding, SetRepoStatus, Row
<1>9. ASSUME NEW r \in Repos, RemoveOrphan(r) PROVE MirrorOwned'
  BY <1>9 DEF RemoveOrphan, MirrorGoes, MirrorStays
<1>10. ASSUME NEW r \in Repos, NEW d \in Deleters, Cancel(d, r) PROVE MirrorOwned'
  BY <1>10 DEF Cancel, NoDeletion
<1>11. ASSUME NEW d \in Deleters, DeleteRepo(d) PROVE MirrorOwned'
  BY <1>11 DEF DeleteRepo, Deletions, NoDeletion
<1>12. ASSUME NEW d \in Deleters, RemoveMirror(d) PROVE MirrorOwned'
  BY <1>12 DEF RemoveMirror, MirrorGoes, MirrorStays
<1>13. CASE Shutdown
  BY <1>13 DEF Shutdown
<1>14. CASE Start
  BY <1>14 DEF Start
<1>15. CASE UNCHANGED cloneVars
  BY <1>15 DEF cloneVars, mirrorVars, serverVars
<1> QED
  BY <1>1, <1>2, <1>3, <1>4, <1>5, <1>6, <1>7, <1>8,
     <1>9, <1>10, <1>11, <1>12, <1>13, <1>14, <1>15
  DEF CloneJobsNext, CloneWorks

LEMMA CloneStepOrder == ASSUME CloneInv, [CloneJobsNext]_cloneVars PROVE OrderInv'
<1> USE CloneJobsAssumption DEF CloneInv, CloneJobsTypeOK, OrderInv, mirrorVars, serverVars
<1>1. ASSUME NEW r \in Repos, CreateRepo(r) PROVE OrderInv'
  BY <1>1 DEF CreateRepo, Row
<1>2. ASSUME NEW r \in Repos, SetWatchFails(r) PROVE OrderInv'
  BY <1>2 DEF SetWatchFails
<1>3. ASSUME NEW r \in Repos, Begin(r) PROVE OrderInv'
  BY <1>3 DEF Begin
<1>4. ASSUME NEW r \in Repos, Clone(r) PROVE OrderInv'
  BY <1>4 DEF Clone
<1>5. ASSUME NEW r \in Repos, Vacate(r) PROVE OrderInv'
  BY <1>5 DEF Vacate, MirrorGoes, MirrorStays
<1>6. ASSUME NEW r \in Repos, MoveIn(r) PROVE OrderInv'
  BY <1>6 DEF MoveIn
<1>7. ASSUME NEW r \in Repos, RecordFailure(r) PROVE OrderInv'
  <2>1. /\ UNCHANGED deletion
        /\ (UNCHANGED status) \/ (status[r] \in Row /\ status' = [status EXCEPT ![r] = "failed"])
    BY <1>7 DEF RecordFailure, SetRepoStatus
  <2>2. cloneJob[r] # "none" /\ \A q \in Repos \ {r} : cloneJob'[q] = cloneJob[q]
    BY <1>7 DEF RecordFailure
  <2>3. \A q \in Repos : /\ (status'[q] = "new") <=> (status[q] = "new")
                         /\ (status'[q] = "deleted") <=> (status[q] = "deleted")
    BY <2>1 DEF Row
  <2>4. status[r] # "new"
    BY <2>2
  <2>5. \A d \in Deleters : deletion[d] # NoDeletion => deletion[d].repo \in Repos
    BY DEF Deletions
  <2>6. \A d \in Deleters : deletion[d].pc = "mirror" => deletion[d].repo \in Repos
    BY <2>5 DEF NoDeletion
  <2>7. \A p, q \in Repos : status'[q] # "new" /\ p < q => status'[p] = "deleted"
    BY <2>3
  <2>8. \A q \in Repos : status'[q] = "new" => cloneJob'[q] = "none"
    BY <2>2, <2>3, <2>4
  <2>9. \A d \in Deleters : deletion'[d] # NoDeletion => status'[deletion'[d].repo] # "new"
    BY <2>1, <2>3, <2>5
  <2>10. \A d \in Deleters : deletion'[d].pc = "mirror" => status'[deletion'[d].repo] = "deleted"
    BY <2>1, <2>3, <2>6
  <2> QED BY <2>7, <2>8, <2>9, <2>10
<1>8. ASSUME NEW r \in Repos, RecordLanding(r) PROVE OrderInv'
  <2>1. /\ UNCHANGED deletion
        /\ (UNCHANGED status) \/ (status[r] \in Row /\ status' = [status EXCEPT ![r] = "ready"])
    BY <1>8 DEF RecordLanding, SetRepoStatus
  <2>2. cloneJob[r] # "none" /\ \A q \in Repos \ {r} : cloneJob'[q] = cloneJob[q]
    BY <1>8 DEF RecordLanding
  <2>3. \A q \in Repos : /\ (status'[q] = "new") <=> (status[q] = "new")
                         /\ (status'[q] = "deleted") <=> (status[q] = "deleted")
    BY <2>1 DEF Row
  <2>4. status[r] # "new"
    BY <2>2
  <2>5. \A d \in Deleters : deletion[d] # NoDeletion => deletion[d].repo \in Repos
    BY DEF Deletions
  <2>6. \A d \in Deleters : deletion[d].pc = "mirror" => deletion[d].repo \in Repos
    BY <2>5 DEF NoDeletion
  <2>7. \A p, q \in Repos : status'[q] # "new" /\ p < q => status'[p] = "deleted"
    BY <2>3
  <2>8. \A q \in Repos : status'[q] = "new" => cloneJob'[q] = "none"
    BY <2>2, <2>3, <2>4
  <2>9. \A d \in Deleters : deletion'[d] # NoDeletion => status'[deletion'[d].repo] # "new"
    BY <2>1, <2>3, <2>5
  <2>10. \A d \in Deleters : deletion'[d].pc = "mirror" => status'[deletion'[d].repo] = "deleted"
    BY <2>1, <2>3, <2>6
  <2> QED BY <2>7, <2>8, <2>9, <2>10
<1>9. ASSUME NEW r \in Repos, RemoveOrphan(r) PROVE OrderInv'
  BY <1>9 DEF RemoveOrphan, MirrorGoes, MirrorStays
<1>10. ASSUME NEW r \in Repos, NEW d \in Deleters, Cancel(d, r) PROVE OrderInv'
  BY <1>10 DEF Cancel, NoDeletion, Row
<1>11. ASSUME NEW d \in Deleters, DeleteRepo(d) PROVE OrderInv'
  BY <1>11 DEF DeleteRepo, Deletions, NoDeletion
<1>12. ASSUME NEW d \in Deleters, RemoveMirror(d) PROVE OrderInv'
  BY <1>12 DEF RemoveMirror, NoDeletion
<1>13. CASE Shutdown
  BY <1>13 DEF Shutdown
<1>14. CASE Start
  BY <1>14 DEF Start, Resumed, Interrupted, NoDeletion
<1>15. CASE UNCHANGED cloneVars
  BY <1>15 DEF cloneVars, mirrorVars, serverVars
<1> QED
  BY <1>1, <1>2, <1>3, <1>4, <1>5, <1>6, <1>7, <1>8,
     <1>9, <1>10, <1>11, <1>12, <1>13, <1>14, <1>15
  DEF CloneJobsNext, CloneWorks

LEMMA CloneStepAlone == ASSUME CloneInv, [CloneJobsNext]_cloneVars PROVE AloneInv'
<1> USE DEF CloneInv, CloneJobsTypeOK, AloneInv, mirrorVars, serverVars
<1>1. ASSUME NEW r \in Repos, CreateRepo(r) PROVE AloneInv'
  BY <1>1 DEF CreateRepo, Row
<1>2. ASSUME NEW r \in Repos, SetWatchFails(r) PROVE AloneInv'
  BY <1>2 DEF SetWatchFails
<1>3. ASSUME NEW r \in Repos, Begin(r) PROVE AloneInv'
  BY <1>3 DEF Begin
<1>4. ASSUME NEW r \in Repos, Clone(r) PROVE AloneInv'
  BY <1>4 DEF Clone
<1>5. ASSUME NEW r \in Repos, Vacate(r) PROVE AloneInv'
  BY <1>5 DEF Vacate, MirrorGoes, MirrorStays
<1>6. ASSUME NEW r \in Repos, MoveIn(r) PROVE AloneInv'
  BY <1>6 DEF MoveIn
<1>7. ASSUME NEW r \in Repos, RecordFailure(r) PROVE AloneInv'
  BY <1>7 DEF RecordFailure, SetRepoStatus, Row
<1>8. ASSUME NEW r \in Repos, RecordLanding(r) PROVE AloneInv'
  BY <1>8 DEF RecordLanding, SetRepoStatus, Row
<1>9. ASSUME NEW r \in Repos, RemoveOrphan(r) PROVE AloneInv'
  BY <1>9 DEF RemoveOrphan, MirrorGoes, MirrorStays
<1>10. ASSUME NEW r \in Repos, NEW d \in Deleters, Cancel(d, r) PROVE AloneInv'
  <2>1. /\ UNCHANGED <<status, cloneJob, beside>> /\ status[r] \in Row
        /\ deletion' = [deletion EXCEPT ![d] = [pc |-> "rows", repo |-> r]]
    BY <1>10 DEF Cancel
  <2>2. ASSUME NEW q \in Repos, status[q] \in Row PROVE q = r
    BY <2>1, <2>2, CloneJobsAssumption DEF OrderInv, Row
  <2> QED BY <2>1, <2>2
<1>11. ASSUME NEW d \in Deleters, DeleteRepo(d) PROVE AloneInv'
  BY <1>11 DEF DeleteRepo, Deletions, NoDeletion, Row
<1>12. ASSUME NEW d \in Deleters, RemoveMirror(d) PROVE AloneInv'
  BY <1>12 DEF RemoveMirror, MirrorGoes, MirrorStays
<1>13. CASE Shutdown
  BY <1>13 DEF Shutdown
<1>14. CASE Start
  <2>1. /\ UNCHANGED <<status, beside>> /\ deletion' = [d \in Deleters |-> NoDeletion]
        /\ \A q \in Repos : cloneJob'[q] # "none" => status[q] = "cloning"
    BY <1>14 DEF Start, Resumed, Interrupted
  <2>2. ASSUME NEW q \in Repos, NEW r \in Repos, status[q] \in Row, status[r] \in Row PROVE q = r
    BY <2>2, CloneJobsAssumption DEF OrderInv, Row
  <2>3. \A q, r \in Repos : status[r] \in Row /\ q # r => cloneJob'[q] = "none"
    BY <2>1, <2>2 DEF Row
  <2> QED BY <2>1, <2>3
<1>15. CASE UNCHANGED cloneVars
  BY <1>15 DEF cloneVars, mirrorVars, serverVars
<1> QED
  BY <1>1, <1>2, <1>3, <1>4, <1>5, <1>6, <1>7, <1>8,
     <1>9, <1>10, <1>11, <1>12, <1>13, <1>14, <1>15
  DEF CloneJobsNext, CloneWorks

LEMMA CloneStepOwn == ASSUME CloneInv, [CloneJobsNext]_cloneVars PROVE OwnInv'
<1> USE DEF CloneInv, CloneJobsTypeOK, OwnInv, mirrorVars, serverVars
<1>1. ASSUME NEW r \in Repos, CreateRepo(r) PROVE OwnInv'
  BY <1>1 DEF CreateRepo, Row
<1>2. ASSUME NEW r \in Repos, SetWatchFails(r) PROVE OwnInv'
  BY <1>2 DEF SetWatchFails
<1>3. ASSUME NEW r \in Repos, Begin(r) PROVE OwnInv'
  BY <1>3 DEF Begin
<1>4. ASSUME NEW r \in Repos, Clone(r) PROVE OwnInv'
  BY <1>4 DEF Clone
<1>5. ASSUME NEW r \in Repos, Vacate(r) PROVE OwnInv'
  BY <1>5 DEF Vacate, MirrorGoes, MirrorStays, AloneInv
<1>6. ASSUME NEW r \in Repos, MoveIn(r) PROVE OwnInv'
  BY <1>6 DEF MoveIn, AloneInv
<1>7. ASSUME NEW r \in Repos, RecordFailure(r) PROVE OwnInv'
  BY <1>7 DEF RecordFailure, SetRepoStatus, Row
<1>8. ASSUME NEW r \in Repos, RecordLanding(r) PROVE OwnInv'
  BY <1>8 DEF RecordLanding, SetRepoStatus, Row
<1>9. ASSUME NEW r \in Repos, RemoveOrphan(r) PROVE OwnInv'
  BY <1>9 DEF RemoveOrphan, MirrorGoes, MirrorStays, AloneInv
<1>10. ASSUME NEW r \in Repos, NEW d \in Deleters, Cancel(d, r) PROVE OwnInv'
  BY <1>10 DEF Cancel, Deletions
<1>11. ASSUME NEW d \in Deleters, DeleteRepo(d) PROVE OwnInv'
  <2>1. UNCHANGED <<cloneJob, mirrorOf, beside>>
    BY <1>11 DEF DeleteRepo
  <2>2. ASSUME NEW q \in Repos PROVE status'[q] \in {status[q], "deleted"}
    BY <1>11 DEF DeleteRepo
  <2> QED BY <2>1, <2>2 DEF Row
<1>12. ASSUME NEW d \in Deleters, RemoveMirror(d) PROVE OwnInv'
  BY <1>12 DEF RemoveMirror, MirrorGoes, MirrorStays, AloneInv, OrderInv, NoDeletion, Deletions, Row
<1>13. CASE Shutdown
  BY <1>13 DEF Shutdown
<1>14. CASE Start
  BY <1>14 DEF Start, Resumed, Interrupted, Row
<1>15. CASE UNCHANGED cloneVars
  BY <1>15 DEF cloneVars, mirrorVars, serverVars
<1> QED
  BY <1>1, <1>2, <1>3, <1>4, <1>5, <1>6, <1>7, <1>8,
     <1>9, <1>10, <1>11, <1>12, <1>13, <1>14, <1>15
  DEF CloneJobsNext, CloneWorks

LEMMA CloneSteps == ASSUME CloneInv, [CloneJobsNext]_cloneVars PROVE CloneInv'
BY CloneStepType, CloneStepMirror, CloneStepOrder, CloneStepAlone, CloneStepOwn DEF CloneInv

LEMMA CloneInvariance == CloneJobsSpec => []CloneInv
BY CloneStart, CloneSteps, PTL DEF CloneJobsSpec

\* Rows, jobs, their contexts, the handlers and the mirror keep their types.
THEOREM CloneTypes == CloneJobsSpec => []CloneJobsTypeOK
<1>1. CloneInv => CloneJobsTypeOK
  BY DEF CloneInv
<1> QED BY CloneInvariance, <1>1, PTL

\* clone.go:95-102 and the delete handler: whichever of the clone and the deletion
\* comes last takes the mirror away, as far as it can be removed; and a ready repo
\* has the mirror it cloned, if nobody was at work for an earlier one when it came.
THEOREM MirrorGoesWithRow == CloneJobsSpec => []MirrorFollowsRow
<1>1. CloneInv => MirrorFollowsRow
  BY DEF CloneInv, MirrorInv, MirrorOwned, OwnInv, MirrorFollowsRow, NoDeletion, Row
<1> QED BY CloneInvariance, <1>1, PTL

-------------------------------------------------------------------------------
(* The network of a pair: DeployNetwork *)

ContainerSet == [state : {"none", "created", "up", "exited"}, network : Nat]

NetTypeInv ==
    /\ networks \subseteq 1 .. NetworkIds /\ formed \in 0 .. NetworkIds
    /\ containers \in [Pair -> ContainerSet]
    /\ starter \in [Pair -> {"off", "ensures", "creates", "starts"}]
    /\ reaper \in [Pair -> {"off", "waits", "releases"}]
    /\ netMu \in Pair \cup {"free"} /\ kept \in {"no", "create failed", "too late"}
    /\ purge \in [pc : {"off", "lists"}, nets : SUBSET (1 .. NetworkIds)]
    /\ serving \in BOOLEAN

\* netMu is held by exactly the start that is under way, whose key has no reaper
\* left; and nothing is under way in a server that is down.
LockInv ==
    /\ \A s \in Pair : starter[s] # "off" <=> netMu = s
    /\ \A s \in Pair : starter[s] # "off" => reaper[s] = "off"
    /\ ~serving => \A s \in Pair : starter[s] = "off" /\ reaper[s] = "off"

Holding == {"creates", "starts"}

\* The networks that are in use are there, and there is one at most.
MemberInv ==
    /\ \A s \in Pair : containers[s].state = "up" \/ starter[s] \in Holding
                       => containers[s].network \in networks
    /\ \A m, n \in networks : m = n

\* A container that is up has a reaper waiting for its end, ...
ReaperInv == serving => \A s \in Pair : containers[s].state = "up" => reaper[s] = "waits"

\* ... and so each network has somebody who will give it back.
Charged(n) ==
    \E s \in Pair : containers[s].network = n /\ (starter[s] \in Holding \/ reaper[s] # "off")

ChargeInv == serving /\ kept = "no" => \A n \in networks : Charged(n)

NetInv == NetTypeInv /\ LockInv /\ MemberInv /\ ReaperInv /\ ChargeInv

LEMMA NetStart == NetInit => NetInv
<1> SUFFICES ASSUME NetInit PROVE NetInv
  OBVIOUS
<1>1. NetTypeInv
  BY DeployNetworkAssumption DEF NetInit, NetTypeInv, ContainerSet, NoContainer, Pair
<1>2. LockInv /\ MemberInv /\ ReaperInv /\ ChargeInv
  BY DEF NetInit, LockInv, MemberInv, ReaperInv, ChargeInv, Pair, NoContainer, Holding
<1> QED BY <1>1, <1>2 DEF NetInv

-------------------------------------------------------------------------------
(* Facts about the daemon *)

\* What is removed is gone, unless a running container is attached to it.
LEMMA RemovedKeeps ==
    ASSUME NEW ns, NetInv
    PROVE  /\ Removed(ns) \subseteq networks
           /\ \A s \in Pair : containers[s].state = "up" => containers[s].network \in Removed(ns)
           /\ \A n \in ns \cap Removed(ns) :
                 \E s \in Pair : containers[s].state = "up" /\ containers[s].network = n
<1>1. ASSUME NEW s \in Pair, containers[s].state = "up"
      PROVE  containers[s] = [state |-> "up", network |-> containers[s].network]
  BY <1>1 DEF NetInv, NetTypeInv, ContainerSet
<1>2. ASSUME NEW s \in Pair, containers[s].state = "up"
      PROVE  containers[s].network \in Removed(ns)
  BY <1>1, <1>2 DEF NetInv, MemberInv, Removed, Attached
<1>3. ASSUME NEW n \in ns \cap Removed(ns)
      PROVE  \E s \in Pair : containers[s].state = "up" /\ containers[s].network = n
  BY <1>3 DEF Removed, Attached
<1> QED BY <1>2, <1>3 DEF Removed

-------------------------------------------------------------------------------
(* Each step keeps the invariant *)

LEMMA BeginsStep == ASSUME NetInv, NEW s \in Pair, Begins(s) PROVE NetInv'
<1> USE DEF Begins, NetInv, Pair
<1>1. NetTypeInv' BY DEF NetTypeInv
<1>2. LockInv' BY DEF LockInv, NetTypeInv
<1>3. MemberInv' /\ ReaperInv' BY DEF MemberInv, ReaperInv, NetTypeInv, Holding
<1>4. ChargeInv' BY DEF ChargeInv, Charged, NetTypeInv, LockInv, Holding
<1> QED BY <1>1, <1>2, <1>3, <1>4

\* One more network, below the bound.
LEMMA CountsOn ==
    ASSUME NEW N \in Nat, NEW f \in 0 .. N, f < N
    PROVE  f + 1 \in 1 .. N /\ f + 1 \in 0 .. N
OBVIOUS

LEMMA EnsuresStep == ASSUME NetInv, NEW s \in Pair, Ensures(s) PROVE NetInv'
<1> USE DEF Ensures, NetInv
<1>1. PICK n \in networks' : containers' = [containers EXCEPT ![s] = [state |-> "none", network |-> n]]
  BY DEF Resolves
<1>2. /\ networks \subseteq networks' /\ \A k, l \in networks' : k = l
      /\ networks' \subseteq 1 .. NetworkIds /\ formed' \in 0 .. NetworkIds
  <2>1. CASE networks # {}
    BY <2>1 DEF Resolves, MemberInv, NetTypeInv
  <2>2. CASE networks = {}
    <3>1. formed < NetworkIds /\ formed' = formed + 1 /\ networks' = {formed'}
      BY <2>2 DEF Resolves
    <3>2. formed' \in 1 .. NetworkIds /\ formed' \in 0 .. NetworkIds
      <4>1. formed \in 0 .. NetworkIds /\ NetworkIds \in Nat
        BY DeployNetworkAssumption DEF NetTypeInv
      <4> QED BY <3>1, <4>1, CountsOn
    <3>3. networks \subseteq networks' /\ \A k, l \in networks' : k = l
      BY <2>2, <3>1
    <3>4. networks' \subseteq 1 .. NetworkIds
      BY <3>1, <3>2
    <3> QED BY <3>2, <3>3, <3>4
  <2> QED BY <2>1, <2>2
<1>3. n \in Nat
  BY <1>2
<1>4. NetTypeInv' BY <1>1, <1>2, <1>3 DEF NetTypeInv, ContainerSet
<1>5. LockInv' BY DEF LockInv, NetTypeInv
<1>6. MemberInv' BY <1>1, <1>2 DEF MemberInv, NetTypeInv, Holding
<1>7. ReaperInv' BY <1>1 DEF ReaperInv, NetTypeInv
<1>8. ChargeInv'
  <2>1. containers'[s].network = n /\ starter'[s] \in Holding
    BY <1>1 DEF NetTypeInv, Holding
  <2> QED BY <2>1, <1>1, <1>2 DEF ChargeInv, Charged
<1> QED BY <1>4, <1>5, <1>6, <1>7, <1>8

LEMMA CreatesStep == ASSUME NetInv, NEW s \in Pair, Creates(s) PROVE NetInv'
<1> USE DEF Creates, NetInv
<1>1. /\ containers' \in [Pair -> ContainerSet]
      /\ \A t \in Pair : containers'[t].network = containers[t].network
      /\ \A t \in Pair : containers'[t].state = "up" => containers[t].state = "up"
  BY DEF NetTypeInv, ContainerSet
<1>2. NetTypeInv' BY <1>1 DEF NetTypeInv
<1>3. LockInv' BY DEF LockInv, NetTypeInv
<1>4. MemberInv'
  <2>1. \A t \in Pair : starter'[t] \in Holding => starter[t] \in Holding
    BY DEF NetTypeInv, Holding
  <2>2. \A t \in Pair : containers'[t].state = "up" \/ starter'[t] \in Holding
                       => containers'[t].network \in networks
    BY <1>1, <2>1 DEF MemberInv
  <2> QED BY <2>2 DEF MemberInv
<1>5. ReaperInv' BY <1>1 DEF ReaperInv
<1>6. ChargeInv'
  <2>1. \A t \in Pair : starter[t] \in Holding => starter'[t] \in Holding
    BY DEF NetTypeInv, Holding
  <2> QED BY <1>1, <2>1 DEF ChargeInv, Charged
<1> QED BY <1>2, <1>3, <1>4, <1>5, <1>6

\* In each of the steps that end a start or a reaper, a network that is left is
\* in the charge of whoever is attached to it, or of somebody else as before.
LEMMA ChargedByUp ==
    ASSUME NetInv, serving, NEW t \in Pair, containers[t].state = "up"
    PROVE  reaper[t] = "waits" /\ starter[t] = "off"
BY DEF NetInv, ReaperInv, LockInv, NetTypeInv

LEMMA CreateFailsStep == ASSUME NetInv, NEW s \in Pair, CreateFails(s) PROVE NetInv'
<1> USE DEF CreateFails, NetInv, StartReturns, NoContainer
<1>1. NetTypeInv' BY DEF NetTypeInv, ContainerSet
<1>2. LockInv' BY DEF LockInv, NetTypeInv, Pair
<1>3. MemberInv' /\ ReaperInv' BY DEF MemberInv, ReaperInv, NetTypeInv, Holding
<1>4. ChargeInv'
  <2> SUFFICES ASSUME serving, kept' = "no", NEW n \in networks PROVE Charged(n)'
    BY DEF ChargeInv
  <2>1. kept = "no"
    BY DEF NetTypeInv
  <2>2. PICK t \in Pair : containers[t].network = n /\ (starter[t] \in Holding \/ reaper[t] # "off")
    BY <2>1 DEF ChargeInv, Charged
  <2>3. CASE t # s
    BY <2>2, <2>3 DEF Charged, NetTypeInv
  <2>4. CASE t = s
    <3>1. PICK u \in Pair : containers[u] = [state |-> "up", network |-> n]
      BY <2>2, <2>4 DEF Attached
    <3>2. containers[u].state = "up" /\ containers[u].network = n
      BY <3>1
    <3>3. u # s /\ reaper[u] = "waits"
      BY <3>2, ChargedByUp
    <3> QED BY <3>2, <3>3 DEF Charged, NetTypeInv
  <2> QED BY <2>3, <2>4
<1> QED BY <1>1, <1>2, <1>3, <1>4

LEMMA AbortsStep == ASSUME NetInv, NEW s \in Pair, Aborts(s) PROVE NetInv'
<1> USE DEF Aborts, NetInv, StartReturns, NoContainer
<1>1. networks' \subseteq networks /\ kept' = kept /\ serving' = serving
  BY RemovedKeeps
<1>2. NetTypeInv' BY <1>1 DEF NetTypeInv, ContainerSet
<1>3. LockInv' BY DEF LockInv, NetTypeInv, Pair
<1>4. MemberInv'
  <2>1. ASSUME NEW t \in Pair, containers'[t].state = "up" \/ starter'[t] \in Holding
        PROVE  containers'[t].network \in networks'
    <3>1. t # s /\ starter[t] = "off"
      BY <2>1 DEF NetTypeInv, LockInv, Holding
    <3> QED BY <2>1, <3>1, RemovedKeeps DEF NetTypeInv, Holding
  <2> QED BY <2>1, <1>1 DEF MemberInv
<1>5. ReaperInv' BY DEF ReaperInv, NetTypeInv
<1>6. ChargeInv'
  <2> SUFFICES ASSUME serving, kept = "no", NEW n \in networks' PROVE Charged(n)'
    BY <1>1 DEF ChargeInv
  <2>1. PICK t \in Pair : containers[t].network = n /\ (starter[t] \in Holding \/ reaper[t] # "off")
    BY <1>1 DEF ChargeInv, Charged
  <2>2. CASE t # s
    BY <2>1, <2>2 DEF Charged, NetTypeInv
  <2>3. CASE t = s
    <3>1. PICK u \in Pair : containers[u].state = "up" /\ containers[u].network = n
      BY <2>1, <2>3, RemovedKeeps
    <3>2. u # s /\ reaper[u] = "waits"
      BY <3>1, ChargedByUp
    <3> QED BY <3>1, <3>2 DEF Charged, NetTypeInv
  <2> QED BY <2>2, <2>3
<1> QED BY <1>2, <1>3, <1>4, <1>5, <1>6

LEMMA StartsStep == ASSUME NetInv, NEW s \in Pair, Starts(s) PROVE NetInv'
<1> USE DEF Starts, NetInv, StartReturns
<1>1. /\ containers' \in [Pair -> ContainerSet]
      /\ \A t \in Pair : containers'[t].network = containers[t].network
      /\ \A t \in Pair : t # s => containers'[t] = containers[t]
  BY DEF NetTypeInv, ContainerSet
<1>2. NetTypeInv' BY <1>1 DEF NetTypeInv
<1>3. LockInv' BY DEF LockInv, NetTypeInv, Pair
<1>4. /\ \A t \in Pair : starter'[t] \in Holding => starter[t] \in Holding
      /\ reaper'[s] = "waits" /\ \A t \in Pair : t # s => reaper'[t] = reaper[t]
  BY DEF NetTypeInv, Holding
<1>5. MemberInv'
  <2>1. ASSUME NEW t \in Pair, containers'[t].state = "up" \/ starter'[t] \in Holding
        PROVE  containers'[t].network \in networks
    BY <1>1, <1>4, <2>1 DEF MemberInv
  <2> QED BY <2>1 DEF MemberInv
<1>6. ReaperInv' BY <1>1, <1>4 DEF ReaperInv
<1>7. ChargeInv' BY <1>1 DEF ChargeInv, Charged, NetTypeInv
<1> QED BY <1>2, <1>3, <1>5, <1>6, <1>7

LEMMA ContainerExitsStep == ASSUME NetInv, NEW s \in Pair, ContainerExits(s) PROVE NetInv'
<1> USE DEF ContainerExits, NetInv
<1>1. /\ containers' \in [Pair -> ContainerSet]
      /\ \A t \in Pair : containers'[t].network = containers[t].network
      /\ \A t \in Pair : containers'[t].state = "up" => containers[t].state = "up"
  BY DEF NetTypeInv, ContainerSet
<1>2. NetTypeInv' /\ LockInv' BY <1>1 DEF NetTypeInv, LockInv
<1>3. MemberInv' /\ ReaperInv' BY <1>1 DEF MemberInv, ReaperInv
<1>4. ChargeInv' BY <1>1 DEF ChargeInv, Charged
<1> QED BY <1>2, <1>3, <1>4

LEMMA ReapsStep == ASSUME NetInv, NEW s \in Pair, Reaps(s) PROVE NetInv'
<1> USE DEF Reaps, NetInv
<1>1. /\ containers' \in [Pair -> ContainerSet]
      /\ \A t \in Pair : containers'[t].network = containers[t].network
      /\ \A t \in Pair : containers'[t].state = "up" => containers[t].state = "up" /\ t # s
  BY DEF NetTypeInv, ContainerSet
<1>2. NetTypeInv' /\ LockInv' BY <1>1 DEF NetTypeInv, LockInv
<1>3. MemberInv' BY <1>1 DEF MemberInv
<1>4. ReaperInv' BY <1>1 DEF ReaperInv, NetTypeInv
<1>5. ChargeInv' BY <1>1 DEF ChargeInv, Charged, NetTypeInv
<1> QED BY <1>2, <1>3, <1>4, <1>5

LEMMA ReleasesStep == ASSUME NetInv, NEW s \in Pair, Releases(s) PROVE NetInv'
<1> USE DEF Releases, NetInv, NoContainer
<1>1. networks' \subseteq networks /\ kept' = kept /\ serving' = serving
  BY RemovedKeeps
<1>2. NetTypeInv' BY <1>1 DEF NetTypeInv, ContainerSet
<1>3. LockInv' BY DEF LockInv, NetTypeInv
<1>4. MemberInv'
  <2>1. ASSUME NEW t \in Pair, containers'[t].state = "up" \/ starter'[t] \in Holding
        PROVE  containers'[t].network \in networks'
    <3>1. starter[t] = "off"
      BY DEF LockInv, NetTypeInv, Pair
    <3>2. t # s /\ containers[t].state = "up"
      BY <2>1, <3>1 DEF NetTypeInv, Holding
    <3> QED BY <3>2, RemovedKeeps DEF NetTypeInv
  <2> QED BY <2>1, <1>1 DEF MemberInv
<1>5. ReaperInv' BY DEF ReaperInv, NetTypeInv
<1>6. ChargeInv'
  <2> SUFFICES ASSUME serving, kept = "no", NEW n \in networks' PROVE Charged(n)'
    BY <1>1 DEF ChargeInv
  <2>1. PICK t \in Pair : containers[t].network = n /\ (starter[t] \in Holding \/ reaper[t] # "off")
    BY <1>1 DEF ChargeInv, Charged
  <2>2. CASE t # s
    BY <2>1, <2>2 DEF Charged, NetTypeInv
  <2>3. CASE t = s
    <3>1. PICK u \in Pair : containers[u].state = "up" /\ containers[u].network = n
      BY <2>1, <2>3, RemovedKeeps
    <3>2. u # s /\ reaper[u] = "waits"
      BY <3>1, ChargedByUp
    <3> QED BY <3>1, <3>2 DEF Charged, NetTypeInv
  <2> QED BY <2>2, <2>3
<1> QED BY <1>2, <1>3, <1>4, <1>5, <1>6

LEMMA ReleaseTooLateStep == ASSUME NetInv, NEW s \in Pair, ReleaseTooLate(s) PROVE NetInv'
<1> USE DEF ReleaseTooLate, NetInv, NoContainer
<1>1. NetTypeInv' BY DEF NetTypeInv, ContainerSet
<1>2. LockInv' BY DEF LockInv, NetTypeInv
<1>3. starter[s] = "off"
  BY DEF LockInv, NetTypeInv
<1>4. MemberInv' /\ ReaperInv' BY <1>3 DEF MemberInv, ReaperInv, NetTypeInv, Holding
<1>5. ChargeInv' BY DEF ChargeInv
<1> QED BY <1>1, <1>2, <1>4, <1>5

LEMMA PurgeListsStep == ASSUME NetInv, PurgeLists PROVE NetInv'
<1> USE DEF PurgeLists, NetInv
<1>1. /\ containers' \in [Pair -> ContainerSet]
      /\ \A t \in Pair : /\ containers'[t].network = containers[t].network
                         /\ containers'[t].state # "up"
  BY DEF NetTypeInv, ContainerSet, Stopped
<1>2. NetTypeInv' /\ LockInv' BY <1>1 DEF NetTypeInv, LockInv
<1>3. MemberInv' /\ ReaperInv' BY <1>1 DEF MemberInv, ReaperInv
<1>4. ChargeInv' BY <1>1 DEF ChargeInv, Charged
<1> QED BY <1>2, <1>3, <1>4

LEMMA PurgeRemovesStep == ASSUME NetInv, PurgeRemoves PROVE NetInv'
<1> USE DEF PurgeRemoves, NetInv
<1>1. networks' \subseteq networks
  BY RemovedKeeps
<1>2. NetTypeInv' /\ LockInv' BY <1>1 DEF NetTypeInv, LockInv
<1>3. \A t \in Pair : starter[t] \notin Holding
  BY DEF LockInv, NetTypeInv, Pair, Holding
<1>4. MemberInv' /\ ReaperInv' BY <1>1, <1>3, RemovedKeeps DEF MemberInv, ReaperInv
<1>5. ChargeInv' BY <1>1 DEF ChargeInv, Charged
<1> QED BY <1>2, <1>4, <1>5

LEMMA KilledStep == ASSUME NetInv, Killed PROVE NetInv'
<1> USE DEF Killed, NetInv
<1>1. NetTypeInv' /\ LockInv' BY DEF NetTypeInv, LockInv, Pair
<1>2. MemberInv' /\ ReaperInv' /\ ChargeInv' BY DEF MemberInv, ReaperInv, ChargeInv, Holding
<1> QED BY <1>1, <1>2

LEMMA ReclaimsStep == ASSUME NetInv, Reclaims PROVE NetInv'
<1> USE DEF Reclaims, NetInv, NoContainer
<1>1. NetTypeInv' /\ LockInv' BY DEF NetTypeInv, LockInv, ContainerSet
<1>2. MemberInv' /\ ReaperInv' /\ ChargeInv' BY DEF LockInv, MemberInv, ReaperInv, ChargeInv, Holding
<1> QED BY <1>1, <1>2

LEMMA NetInvariance == NetSpec => []NetInv
<1>1. ASSUME NetInv, [NetNext]_netVars PROVE NetInv'
  <2>1. CASE NetNext
    BY <1>1, <2>1, BeginsStep, EnsuresStep, CreatesStep, CreateFailsStep, AbortsStep, StartsStep,
       ContainerExitsStep, ReapsStep, ReleasesStep, ReleaseTooLateStep,
       PurgeListsStep, PurgeRemovesStep, KilledStep, ReclaimsStep DEF NetNext
  <2>2. CASE UNCHANGED netVars
    <3>1. NetTypeInv' /\ LockInv'
      BY <1>1, <2>2 DEF netVars, NetInv, NetTypeInv, LockInv
    <3>2. MemberInv' /\ ReaperInv'
      BY <1>1, <2>2 DEF netVars, NetInv, MemberInv, ReaperInv
    <3>3. ChargeInv'
      BY <1>1, <2>2 DEF netVars, NetInv, ChargeInv, Charged
    <3> QED BY <3>1, <3>2, <3>3 DEF NetInv
  <2> QED BY <1>1, <2>1, <2>2
<1> QED BY NetStart, <1>1, PTL DEF NetSpec

-------------------------------------------------------------------------------

\* Networks, containers, starts and reapers keep their types.
THEOREM NetworkTypes == NetSpec => []NetTypeOK
<1>1. NetInv => NetTypeOK
  BY DEF NetInv, NetTypeInv, NetTypeOK, ContainerSet
<1> QED BY NetInvariance, <1>1, PTL

\* container.go:56-175: without a count of its members the network outlives
\* nobody and nobody outlives it, because the daemon refuses to remove one that
\* is attached and netMu closes the gap between the lookup and the attachment.
THEOREM PairStaysTogether == NetSpec => []PairSharesNetwork
<1>1. ASSUME NetInv PROVE PairSharesNetwork
  <2>1. Cardinality(networks) <= 1
    <3>1. CASE networks = {}
      BY <3>1, FS_EmptySet
    <3>2. CASE networks # {}
      <4>1. PICK n : networks = {n}
        BY <1>1, <3>2 DEF NetInv, MemberInv
      <4>2. Cardinality({n}) = 1
        BY FS_Singleton
      <4> QED BY <4>1, <4>2
    <3> QED BY <3>1, <3>2
  <2>2. NothingStarting /\ kept = "no" => networks = {}
    BY <1>1 DEF NetInv, ChargeInv, Charged, NothingStarting, Holding
  <2>3. \A s \in Pair : containers[s].state = "up" \/ starter[s] \in {"creates", "starts"}
                        => containers[s].network \in networks
    BY <1>1 DEF NetInv, MemberInv, Holding
  <2> QED BY <2>1, <2>2, <2>3 DEF PairSharesNetwork
<1> QED BY NetInvariance, <1>1, PTL

-------------------------------------------------------------------------------
(* Declared, built and served: BuildInputs *)

\* What holds of every manifest: the download runs nowhere and the backend runs.
GoodManifest(m) ==
    /\ m.be.run = TRUE /\ m.dl.run = FALSE /\ m.dl.path = "srv" /\ m.fe.path = "web"

SectionSet == [path : {"web", "srv", "."}, exclude : BOOLEAN, steps : {"make", "make all"},
               image : {Unnamed, "builder", "other"}, runImage : {Unnamed, "runner", "other"}, run : BOOLEAN]
ManifestSet == [fe : SectionSet, be : SectionSet, dl : SectionSet, networks : {"n1", "n2"}]

Remade(m) == [m EXCEPT !.dl.steps = "make all"]

\* The disk holds nothing, the first commit's manifest, or that with an edit.
CommitInv ==
    /\ \A c \in Pushed : commits[c].manifest \in ManifestSet /\ GoodManifest(commits[c].manifest)
    /\ \A c \in Pushed : commits[c].source \in {"file", "broken", "absent"}
    /\ \/ manifestDir = <<>> \/ manifestDir = <<commits[1].manifest>>
       \/ manifestDir = <<Remade(commits[1].manifest)>>

\* A deploy's addresses are those of what its commit declares now; but an edit of
\* the disk changes what is declared of the download.
Addressed(c) ==
    Deployed(c) =>
        /\ ~NoManifest(c)
        /\ \A s \in {"fe", "be"} : address[c][s] = Address(c, Loaded(c), s)
        /\ ~Edited => address[c]["dl"] = Address(c, Loaded(c), "dl")
        /\ address[c]["dl"][1].path = "srv" /\ address[c]["dl"][1].run = FALSE

\* What an address says of the build, and of the process.
BuildEnvOf(a) == IF a[1].image # Unnamed THEN a[1].image ELSE a[2]
RunEnvOf(a) == IF a[1].runImage # Unnamed THEN a[1].runImage ELSE a[2]

Right(a) == /\ published[a].section = a[1] /\ published[a].files = a[3]
            /\ SameEnv(published[a].env, BuildEnvOf(a))

PublishedInv == \A a \in DOMAIN published : Right(a) \/ (Edited /\ a[1].path = "srv" /\ a[1].run = FALSE)
ConfigInv    == \A a \in DOMAIN runConfig : a[1].run = TRUE /\ runConfig[a].env = RunEnvOf(a)
                                            /\ DOMAIN runConfig[a] = {"image", "env", "networks"}
ProcessInv   == \A a \in DOMAIN processes : a[1].run = TRUE /\ SameEnv(processes[a].env, RunEnvOf(a))

InputInv == /\ InputTypeOK /\ CommitInv /\ (\A c \in Pushed : Addressed(c))
            /\ DOMAIN address = Pushed
            /\ PublishedInv /\ ConfigInv /\ ProcessInv

LEMMA Keeps ==
    \A map, key, value :
       /\ DOMAIN Keep(map, key, value) = DOMAIN map \cup {key}
       /\ \A k \in DOMAIN map : Keep(map, key, value)[k] = map[k]
       /\ key \notin DOMAIN map => Keep(map, key, value)[key] = value
<1> TAKE map, key, value
<1>1. CASE key \in DOMAIN map
    BY <1>1 DEF Keep
<1>2. CASE key \notin DOMAIN map
    <2>1. Keep(map, key, value) = Put(map, key, value)
        BY <1>2 DEF Keep
    <2> QED BY <1>2, <2>1 DEF Put
<1> QED BY <1>1, <1>2

LEMMA NothingHasNoDomain == DOMAIN <<>> = {}
OBVIOUS

\* A manifest's sections, by name.
LEMMA ManifestSections ==
    ASSUME NEW m \in ManifestSet, NEW s \in Sides
    PROVE  m[s] \in SectionSet
BY DEF ManifestSet, Sides

\* An edit of the disk concerns the download alone.
LEMMA RemadeIs ==
    ASSUME NEW m \in ManifestSet, GoodManifest(m)
    PROVE  /\ Remade(m) \in ManifestSet /\ GoodManifest(Remade(m))
           /\ Remade(m).fe = m.fe /\ Remade(m).be = m.be /\ Remade(Remade(m)) = Remade(m)
<1> DEFINE d == [m.dl EXCEPT !.steps = "make all"]
<1>1. m.dl \in SectionSet
    BY DEF ManifestSet
<1>2. d \in SectionSet /\ d.path = m.dl.path /\ d.run = m.dl.run /\ [d EXCEPT !.steps = "make all"] = d
    <2>1. d \in SectionSet
        BY <1>1 DEF SectionSet
    <2>2. d.path = m.dl.path /\ d.run = m.dl.run /\ d.steps = "make all"
        BY <1>1 DEF SectionSet
    <2> HIDE DEF d
    <2>3. [d EXCEPT !.steps = "make all"] = d
        BY <2>1, <2>2 DEF SectionSet
    <2> QED BY <2>1, <2>2, <2>3
<1>3. Remade(m) = [m EXCEPT !.dl = d]
    BY DEF Remade
<1> HIDE DEF d
<1>4. Remade(m) \in ManifestSet /\ Remade(m).dl = d /\ Remade(m).fe = m.fe /\ Remade(m).be = m.be
    BY <1>2, <1>3 DEF ManifestSet
<1>5. ASSUME NEW r \in ManifestSet, r.dl = d PROVE Remade(r) = r
    <2>1. Remade(r) = [r EXCEPT !.dl = d]
        BY <1>2, <1>5 DEF Remade
    <2> QED BY <2>1, <1>5 DEF ManifestSet
<1>6. Remade(Remade(m)) = Remade(m)
    BY <1>4, <1>5
<1> QED BY <1>2, <1>4, <1>6 DEF GoodManifest

LEMMA LoadedIsGood ==
    ASSUME CommitInv, NEW c \in Pushed, ~NoManifest(c)
    PROVE  Loaded(c) \in ManifestSet /\ GoodManifest(Loaded(c))
<1>1. 1 \in Pushed
    BY DEF Pushed
<1> DEFINE m == commits[1].manifest
<1>2. m \in ManifestSet /\ GoodManifest(m)
    BY <1>1 DEF CommitInv
<1>3. Remade(m) \in ManifestSet /\ GoodManifest(Remade(m))
    BY <1>2, RemadeIs
<1>4. CASE commits[c].source = "file"
    BY <1>4 DEF CommitInv, Loaded
<1>5. CASE commits[c].source # "file"
    <2>1. Loaded(c) = manifestDir[1]
        BY <1>5 DEF Loaded
    <2>2. CASE manifestDir # <<>>
        BY <1>2, <1>3, <2>1, <2>2 DEF CommitInv
    <2>3. CASE manifestDir = <<>>
        BY <2>3, <1>5 DEF NoManifest, CommitInv
    <2> QED BY <2>2, <2>3
<1> QED BY <1>4, <1>5

\* An address tells the environments of the build and, where the side runs, of the
\* process: this is what the devcontainer is counted for.
LEMMA AddressTells ==
    \A c, m, s :
       /\ Address(c, m, s)[1] = m[s] /\ Address(c, m, s)[3] = Partition(c, m, s)
       /\ BuildEnvOf(Address(c, m, s)) = BuildEnv(c, m, s)
       /\ m[s].run = TRUE => RunEnvOf(Address(c, m, s)) = RunEnv(c, m, s)
BY DEF Address, BuildEnvOf, BuildEnv, RunEnvOf, RunEnv, Extra
-------------------------------------------------------------------------------
(* Where commits come from *)

LEMMA ManifestsAreGood == ASSUME NEW m \in Manifests PROVE m \in ManifestSet /\ GoodManifest(m)
<1>1. PICK i \in {Unnamed, "builder"}, r \in {Unnamed, "runner"} :
        m = [fe |-> [Section("web", Unnamed) EXCEPT !.run = (i = Unnamed)],
             be |-> [Section(".", i) EXCEPT !.run = TRUE, !.runImage = r],
             dl |-> Section("srv", i), networks |-> "n1"]
    BY DEF Manifests
<1> DEFINE fe == [Section("web", Unnamed) EXCEPT !.run = (i = Unnamed)]
           be == [Section(".", i) EXCEPT !.run = TRUE, !.runImage = r]
           dl == Section("srv", i)
<1>2. fe \in SectionSet /\ fe.path = "web"
    BY DEF Section, SectionSet
<1>3. be \in SectionSet /\ be.run = TRUE
    BY DEF Section, SectionSet
<1>4. dl \in SectionSet /\ dl.path = "srv" /\ dl.run = FALSE
    BY DEF Section, SectionSet
<1>5. m = [fe |-> fe, be |-> be, dl |-> dl, networks |-> "n1"]
    BY <1>1
<1> HIDE DEF fe, be, dl
<1> QED BY <1>2, <1>3, <1>4, <1>5 DEF ManifestSet, GoodManifest

LEMMA ManifestChangesAreGood ==
    ASSUME NEW m \in ManifestSet, GoodManifest(m), NEW n \in ManifestChanges(m)
    PROVE  n \in ManifestSet /\ GoodManifest(n)
<1>0. m.fe \in SectionSet /\ m.be \in SectionSet /\ m.dl \in SectionSet
    BY DEF ManifestSet
<1>1. ASSUME NEW x \in SectionSet, NEW y \in SectionSet, NEW z \in SectionSet, NEW w \in {"n1", "n2"},
             n = [m EXCEPT !.fe = x] \/ n = [m EXCEPT !.be = y] \/ n = [m EXCEPT !.dl = z]
                \/ n = [m EXCEPT !.networks = w],
             x.path = m.fe.path, y.run = m.be.run, z.path = m.dl.path, z.run = m.dl.run
      PROVE  n \in ManifestSet /\ GoodManifest(n)
    <2>1. CASE n = [m EXCEPT !.fe = x]
        BY <1>1, <2>1 DEF ManifestSet, GoodManifest
    <2>2. CASE n = [m EXCEPT !.be = y]
        BY <1>1, <2>2 DEF ManifestSet, GoodManifest
    <2>3. CASE n = [m EXCEPT !.dl = z]
        BY <1>1, <2>3 DEF ManifestSet, GoodManifest
    <2>4. CASE n = [m EXCEPT !.networks = w]
        BY <1>1, <2>4 DEF ManifestSet, GoodManifest
    <2> QED BY <1>1, <2>1, <2>2, <2>3, <2>4
<1>2. ASSUME NEW q \in SectionSet, NEW s \in Sides,
             n = [m EXCEPT ![s] = q], q.path = m[s].path, q.run = m[s].run
      PROVE  n \in ManifestSet /\ GoodManifest(n)
    <2>1. CASE s = "fe"
        BY <1>0, <1>1, <1>2, <2>1
    <2>2. CASE s = "be"
        BY <1>0, <1>1, <1>2, <2>2
    <2>3. CASE s = "dl"
        BY <1>0, <1>1, <1>2, <2>3
    <2> QED BY <2>1, <2>2, <2>3 DEF Sides
<1>3. ASSUME NEW s \in Sides, n = [m EXCEPT ![s].steps = "make all"] PROVE n \in ManifestSet /\ GoodManifest(n)
    <2> DEFINE q == [m[s] EXCEPT !.steps = "make all"]
    <2>1. q \in SectionSet /\ q.path = m[s].path /\ q.run = m[s].run
        <3>1. PICK r \in SectionSet : r = m[s]
            BY ManifestSections
        <3>2. [r EXCEPT !.steps = "make all"] \in SectionSet
            BY DEF SectionSet
        <3> QED BY <3>1, <3>2 DEF SectionSet
    <2>2. n = [m EXCEPT ![s] = q]
        BY <1>3
    <2> QED BY <1>2, <2>1, <2>2
<1>4. ASSUME NEW s \in Sides, n = [m EXCEPT ![s].image = "other"] PROVE n \in ManifestSet /\ GoodManifest(n)
    <2> DEFINE q == [m[s] EXCEPT !.image = "other"]
    <2>1. q \in SectionSet /\ q.path = m[s].path /\ q.run = m[s].run
        <3>1. PICK r \in SectionSet : r = m[s]
            BY ManifestSections
        <3>2. [r EXCEPT !.image = "other"] \in SectionSet
            BY DEF SectionSet
        <3> QED BY <3>1, <3>2 DEF SectionSet
    <2>2. n = [m EXCEPT ![s] = q]
        BY <1>4
    <2> QED BY <1>2, <2>1, <2>2
<1>5. ASSUME NEW q \in {[m.be EXCEPT !.exclude = TRUE], [m.be EXCEPT !.path = "srv"],
                        [m.be EXCEPT !.runImage = "other"]}, n = [m EXCEPT !.be = q]
      PROVE  n \in ManifestSet /\ GoodManifest(n)
    <2>1. q \in SectionSet /\ q.run = m.be.run
        BY <1>0 DEF SectionSet
    <2> QED BY <1>0, <1>1, <1>5, <2>1
<1>6. CASE n = [m EXCEPT !.networks = "n2"]
    BY <1>0, <1>1, <1>6
<1> QED BY <1>3, <1>4, <1>5, <1>6 DEF ManifestChanges

LEMMA CommitsStartGood == InputInit => CommitInv
<1> SUFFICES ASSUME InputInit PROVE CommitInv
    OBVIOUS
<1>1. PICK first \in FirstCommits : \E second \in CommitChanges(first) : commits = <<first, second>>
    BY DEF InputInit
<1>2. PICK second \in CommitChanges(first) : commits = <<first, second>>
    BY <1>1
<1>3. PICK m \in Manifests : first = [tree |-> [f \in Files |-> 1], devc |-> "d1", source |-> "file", manifest |-> m]
    BY DEF FirstCommits
<1>4. m \in ManifestSet /\ GoodManifest(m)
    BY ManifestsAreGood
<1>5. /\ second.manifest = m \/ second.manifest \in ManifestChanges(m)
      /\ second.source \in {"file", "broken", "absent"}
    BY <1>3 DEF CommitChanges
<1>6. second.manifest \in ManifestSet /\ GoodManifest(second.manifest)
    BY <1>4, <1>5, ManifestChangesAreGood
<1>7. commits[1].manifest = m /\ commits[1].source = "file" /\ commits[2] = second
    BY <1>2, <1>3
<1>8. manifestDir = <<>> \/ manifestDir = <<commits[1].manifest>>
    BY DEF InputInit
<1> QED BY <1>4, <1>5, <1>6, <1>7, <1>8 DEF CommitInv, Pushed

-------------------------------------------------------------------------------
(* Steps *)

LEMMA InputsStart == InputInit => InputInv
<1> SUFFICES ASSUME InputInit PROVE InputInv
    OBVIOUS
<1>1. \A c \in Pushed : progress[c] = "new"
    BY DEF InputInit
<1>2. DOMAIN published = {} /\ DOMAIN runConfig = {} /\ DOMAIN processes = {}
    BY NothingHasNoDomain DEF InputInit
<1>3. InputTypeOK
    BY <1>2, BuildInputsAssumption DEF InputInit, InputTypeOK
<1>4. \A c \in Pushed : Addressed(c)
    BY <1>1 DEF Addressed, Deployed
<1>5. DOMAIN address = Pushed
    BY DEF InputInit
<1> QED BY <1>2, <1>3, <1>4, <1>5, CommitsStartGood DEF InputInv, PublishedInv, ConfigInv, ProcessInv

\* What an address is computed from.
LEMMA SameAddress ==
    ASSUME UNCHANGED commits, NEW c \in Pushed, NEW s \in Sides
    PROVE  \A m, n : m[s] = n[s] /\ m.fe = n.fe => Address(c, m, s)' = Address(c, n, s)
BY DEF Address, Extra, Devcontainer, Usable, Partition, Tree

LEMMA LoadedAddress ==
    ASSUME NEW c \in Pushed, NEW s \in Sides
    PROVE  \A m : m = Loaded(c)' => Address(c, Loaded(c), s)' = Address(c, m, s)'
BY DEF Address, Extra, Devcontainer, Usable, Partition, Tree

LEMMA SameManifest ==
    ASSUME UNCHANGED <<commits, manifestDir>>, NEW c \in Pushed
    PROVE  /\ Loaded(c)' = Loaded(c) /\ NoManifest(c)' = NoManifest(c) /\ Edited' = Edited
           /\ \A s \in Sides : Address(c, Loaded(c), s)' = Address(c, Loaded(c), s)
<1>1. Loaded(c)' = Loaded(c) /\ NoManifest(c)' = NoManifest(c) /\ Edited' = Edited
    BY DEF Loaded, NoManifest, Edited
<1>2. ASSUME NEW s \in Sides PROVE Address(c, Loaded(c), s)' = Address(c, Loaded(c), s)
    <2>1. PICK m : m = Loaded(c)
        OBVIOUS
    <2>2. Address(c, Loaded(c), s)' = Address(c, m, s)'
        BY <1>1, <2>1, LoadedAddress
    <2>3. Address(c, m, s)' = Address(c, m, s)
        BY SameAddress
    <2> QED BY <2>1, <2>2, <2>3
<1> QED BY <1>1, <1>2

LEMMA StillAddressed ==
    ASSUME UNCHANGED <<commits, manifestDir>>, NEW c \in Pushed, Addressed(c), address'[c] = address[c],
           Deployed(c)' => Deployed(c)
    PROVE  Addressed(c)'
BY SameManifest DEF Addressed, Deployed, Sides

\* A daemon that was there goes on being so.
LEMMA StillRight ==
    ASSUME PublishedInv, docker' = docker \/ (docker # "up" /\ docker' # "up"), Edited => Edited',
           NEW a \in DOMAIN published, published'[a] = published[a]
    PROVE  Right(a)' \/ (Edited' /\ a[1].path = "srv" /\ a[1].run = FALSE)
BY DEF PublishedInv, Right, SameEnv

LEMMA StillRunning ==
    ASSUME ConfigInv, ProcessInv, docker' = docker \/ (docker # "up" /\ docker' # "up"),
           UNCHANGED <<runConfig, processes>>
    PROVE  ConfigInv' /\ ProcessInv'
BY DEF ConfigInv, ProcessInv, SameEnv

\* The build of a side is right at its address.
LEMMA BuiltRight ==
    ASSUME docker \in {"up", "down", "back"}
    PROVE  \A c, m, s, env :
              env = BuildEnv(c, m, s) \/ env = RunsIn(BuildEnv(c, m, s))
              => SameEnv(env, BuildEnvOf(Address(c, m, s)))
BY AddressTells DEF RunsIn, Docked, SameEnv

LEMMA DeployBuildsStep == ASSUME InputInv, NEW c \in Pushed, DeployBuilds(c) PROVE InputInv'
<1> DEFINE m == Loaded(c)
           fe == Address(c, m, "fe")
           be == Address(c, m, "be")
<1>1. /\ Buildable(c) /\ progress' = [progress EXCEPT ![c] = "resolved"]
      /\ address' = [address EXCEPT ![c] = [s \in Sides |-> Address(c, m, s)]]
      /\ published' = Keep(Keep(published, fe, BuiltFrom(c, m, "fe")), be, BuiltFrom(c, m, "be"))
      /\ runConfig' = IF m.fe.run THEN Put(Put(runConfig, be, Contract(c, m, "be")), fe, Contract(c, m, "fe"))
                      ELSE Put(runConfig, be, Contract(c, m, "be"))
      /\ UNCHANGED <<docker, commits, manifestDir, calls, processes>>
    BY DEF DeployBuilds
<1>2. ~NoManifest(c) /\ CommitInv /\ docker \in {"up", "down", "back"}
    BY <1>1 DEF Buildable, InputInv, InputTypeOK
<1>3. m \in ManifestSet /\ GoodManifest(m) /\ m.fe.run \in BOOLEAN
    <2>1. m \in ManifestSet /\ GoodManifest(m)
        BY <1>2, LoadedIsGood
    <2> QED BY <2>1 DEF ManifestSet, SectionSet
<1>4. CommitInv'
    BY <1>1, <1>2 DEF CommitInv
<1>5. ASSUME NEW d \in Pushed PROVE Addressed(d)'
    <2>1. CASE d # c
        <3>1. address'[d] = address[d] /\ (Deployed(d)' => Deployed(d))
            BY <1>1, <2>1 DEF InputInv, InputTypeOK, Deployed
        <3> QED BY <1>1, <3>1, StillAddressed DEF InputInv
    <2>2. CASE d = c
        <3>1. \A s \in Sides : address'[c][s] = Address(c, m, s)
            BY <1>1 DEF InputInv
        <3>2. /\ Loaded(c)' = m /\ NoManifest(c)' = NoManifest(c) /\ Edited' = Edited
              /\ \A s \in Sides : Address(c, Loaded(c), s)' = Address(c, m, s)
            BY <1>1, SameManifest
        <3>3. Address(c, m, "dl")[1] = m["dl"]
            BY DEF Address
        <3> QED BY <1>2, <1>3, <2>2, <3>1, <3>2, <3>3 DEF Addressed, GoodManifest, Sides
    <2> QED BY <2>1, <2>2
<1>6. PublishedInv'
    <2> DEFINE once == Keep(published, fe, BuiltFrom(c, m, "fe"))
    <2>1. /\ DOMAIN once = DOMAIN published \cup {fe}
          /\ \A a \in DOMAIN published : once[a] = published[a]
          /\ fe \notin DOMAIN published => once[fe] = BuiltFrom(c, m, "fe")
        BY Keeps
    <2>2. /\ DOMAIN published' = DOMAIN once \cup {be}
          /\ \A a \in DOMAIN once : published'[a] = once[a]
          /\ be \notin DOMAIN once => published'[be] = BuiltFrom(c, m, "be")
        <3> HIDE DEF fe, be, once
        <3>1. published' = Keep(once, be, BuiltFrom(c, m, "be"))
            BY <1>1 DEF once, fe, be
        <3> QED BY <3>1 DEF Keep, Put
    <2> HIDE DEF once
    <2>3. ASSUME NEW s \in {"fe", "be"}, NEW a, a = Address(c, m, s), published'[a] = BuiltFrom(c, m, s)
          PROVE  Right(a)'
        <3>1. SameEnv(RunsIn(BuildEnv(c, m, s)), BuildEnvOf(a))
            BY <1>2, <2>3, BuiltRight
        <3> QED BY <1>1, <2>3, <3>1, AddressTells DEF BuiltFrom, Right, SameEnv
    <2>4. ASSUME NEW a \in DOMAIN published'
          PROVE  Right(a)' \/ (Edited' /\ a[1].path = "srv" /\ a[1].run = FALSE)
        <3>1. CASE a \in DOMAIN published
            <4>1. published'[a] = published[a]
                BY <2>1, <2>2, <3>1
            <4> QED BY <1>1, <3>1, <4>1, StillRight, SameManifest DEF InputInv
        <3>2. CASE a \notin DOMAIN published
            <4>1. \/ (a = fe /\ published'[a] = BuiltFrom(c, m, "fe"))
                  \/ (a = be /\ published'[a] = BuiltFrom(c, m, "be"))
                BY <2>1, <2>2, <3>2
            <4> QED BY <2>3, <4>1
        <3> QED BY <3>1, <3>2
    <2> QED BY <2>4 DEF PublishedInv
<1>7. ConfigInv' /\ DOMAIN runConfig \subseteq DOMAIN runConfig'
    <2> DEFINE one == Put(runConfig, be, Contract(c, m, "be"))
    <2>1. /\ DOMAIN one = DOMAIN runConfig \cup {be} /\ one[be] = Contract(c, m, "be")
          /\ \A a \in DOMAIN runConfig : a # be => one[a] = runConfig[a]
        BY DEF Put
    <2>2. ASSUME NEW s \in {"fe", "be"}, m[s].run = TRUE, NEW a, a = Address(c, m, s),
                 runConfig'[a] = Contract(c, m, s)
          PROVE  a[1].run = TRUE /\ runConfig'[a].env = RunEnvOf(a)
                 /\ DOMAIN runConfig'[a] = {"image", "env", "networks"}
        BY <2>2, AddressTells DEF Contract
    <2>3. CASE m.fe.run = FALSE
        <3>1. runConfig' = one
            BY <1>1, <2>3
        <3> HIDE DEF one
        <3> QED BY <1>3, <2>1, <2>2, <3>1 DEF ConfigInv, InputInv, GoodManifest
    <2>4. CASE m.fe.run = TRUE
        <3>1. runConfig' = Put(one, fe, Contract(c, m, "fe"))
            BY <1>1, <2>4
        <3>2. /\ DOMAIN runConfig' = DOMAIN one \cup {fe} /\ runConfig'[fe] = Contract(c, m, "fe")
              /\ \A a \in DOMAIN one : a # fe => runConfig'[a] = one[a]
            <4> HIDE DEF one, fe, be
            <4> QED BY <3>1 DEF Put
        <3> HIDE DEF one
        <3>3. /\ fe[1].run = TRUE /\ runConfig'[fe].env = RunEnvOf(fe)
              /\ DOMAIN runConfig'[fe] = {"image", "env", "networks"}
            BY <2>2, <2>4, <3>2
        <3>4. /\ be[1].run = TRUE /\ one[be].env = RunEnvOf(be)
              /\ DOMAIN one[be] = {"image", "env", "networks"}
            BY <1>3, <2>1, AddressTells DEF GoodManifest, Contract
        <3> HIDE DEF one, fe, be
        <3> QED BY <2>1, <3>2, <3>3, <3>4 DEF ConfigInv, InputInv
    <2> QED BY <1>3, <2>3, <2>4
<1>8. ProcessInv'
    BY <1>1 DEF InputInv, ProcessInv, SameEnv
<1>9. InputTypeOK'
    BY <1>1, <1>7 DEF InputInv, InputTypeOK
<1>10. DOMAIN address' = Pushed
    BY <1>1 DEF InputInv
<1> QED BY <1>4, <1>5, <1>6, <1>7, <1>8, <1>9, <1>10 DEF InputInv

LEMMA DeployFailsStep == ASSUME InputInv, NEW c \in Pushed, DeployFails(c) PROVE InputInv'
<1>1. /\ progress' = [progress EXCEPT ![c] = "failed"]
      /\ UNCHANGED <<docker, commits, manifestDir, calls, address, published, runConfig, processes>>
    BY DEF DeployFails
<1>2. ASSUME NEW d \in Pushed PROVE Addressed(d)'
    <2>1. Deployed(d)' => Deployed(d)
        BY <1>1 DEF InputInv, InputTypeOK, Deployed
    <2> QED BY <1>1, <2>1, StillAddressed DEF InputInv
<1>3. CommitInv' /\ InputTypeOK' /\ DOMAIN address' = Pushed
    BY <1>1 DEF InputInv, CommitInv, InputTypeOK
<1>4. PublishedInv'
    BY <1>1, StillRight, SameManifest DEF InputInv, PublishedInv, Edited
<1>5. ConfigInv' /\ ProcessInv'
    BY <1>1, StillRunning DEF InputInv
<1> QED BY <1>2, <1>3, <1>4, <1>5 DEF InputInv

\* An artifact that is put at an address, and is right there.
LEMMA PublishedOneMore ==
    ASSUME InputInv, UNCHANGED <<docker, commits, manifestDir>>,
           NEW a, NEW built, a \notin DOMAIN published, published' = Put(published, a, built),
           Right(a)' \/ (Edited' /\ a[1].path = "srv" /\ a[1].run = FALSE)
    PROVE  PublishedInv'
<1>1. Edited' = Edited
    BY DEF Edited
<1>2. DOMAIN published' = DOMAIN published \cup {a} /\ \A b \in DOMAIN published : published'[b] = published[b]
    BY DEF Put
<1>3. ASSUME NEW b \in DOMAIN published
      PROVE  Right(b)' \/ (Edited' /\ b[1].path = "srv" /\ b[1].run = FALSE)
    BY <1>1, <1>2, StillRight DEF InputInv
<1> QED BY <1>2, <1>3 DEF PublishedInv

LEMMA BuildsArtifactStep == ASSUME InputInv, NEW c \in Pushed, BuildsArtifact(c) PROVE InputInv'
<1> DEFINE m == Loaded(c)
           a == address[c]["dl"]
<1>1. /\ progress[c] = "resolved" /\ progress' = [progress EXCEPT ![c] = "ready"]
      /\ published' = IF NoManifest(c) THEN published ELSE Keep(published, a, BuiltFrom(c, m, "dl"))
      /\ UNCHANGED <<docker, commits, manifestDir, calls, address, runConfig, processes>>
    BY DEF BuildsArtifact
<1>2. ASSUME NEW d \in Pushed PROVE Addressed(d)'
    <2>1. Deployed(d)' => Deployed(d)
        BY <1>1 DEF InputInv, InputTypeOK, Deployed
    <2> QED BY <1>1, <2>1, StillAddressed DEF InputInv
<1>3. CommitInv' /\ InputTypeOK' /\ DOMAIN address' = Pushed
    BY <1>1 DEF InputInv, CommitInv, InputTypeOK
<1>4. ConfigInv' /\ ProcessInv'
    BY <1>1, StillRunning DEF InputInv
<1>5. Addressed(c) /\ Deployed(c) /\ docker \in {"up", "down", "back"} /\ Edited' = Edited
    BY <1>1, SameManifest DEF InputInv, InputTypeOK, Deployed
<1>6. PublishedInv'
    <2>1. CASE published' = published
        BY <1>1, <1>5, <2>1, StillRight DEF InputInv, PublishedInv
    <2>2. CASE published' # published
        <3>1. a \notin DOMAIN published /\ published' = Put(published, a, BuiltFrom(c, m, "dl"))
            <4> HIDE DEF a, m
            <4> QED BY <1>1, <2>2 DEF Keep, m, a
        <3>2. published'[a] = BuiltFrom(c, m, "dl")
            <4> HIDE DEF a, m
            <4> QED BY <3>1 DEF Put
        <3>3. CASE Edited
            BY <1>1, <1>5, <3>1, <3>3, PublishedOneMore DEF Addressed
        <3>4. CASE ~Edited
            <4>1. a = Address(c, m, "dl")
                BY <1>5, <3>4 DEF Addressed
            <4>2. SameEnv(RunsIn(BuildEnv(c, m, "dl")), BuildEnvOf(a))
                BY <1>5, <4>1, BuiltRight
            <4>3. Right(a)'
                BY <1>1, <3>2, <4>1, <4>2, AddressTells DEF BuiltFrom, Right, SameEnv
            <4> QED BY <1>1, <3>1, <4>3, PublishedOneMore
        <3> QED BY <3>3, <3>4
    <2> QED BY <2>1, <2>2
<1> QED BY <1>2, <1>3, <1>4, <1>6 DEF InputInv

LEMMA UploadsStep == ASSUME InputInv, NEW c \in Pushed, NEW s \in Sides, Uploads(c, s) PROVE InputInv'
<1>0. PICK m, a, built : /\ m = Loaded(c) /\ a = Address(c, m, s)
                         /\ built = [BuiltFrom(c, m, s) EXCEPT !.env = BuildEnv(c, m, s)]
    OBVIOUS
<1>1. /\ calls < OutsideCalls /\ calls' = calls + 1
      /\ a \notin DOMAIN published /\ published' = Put(published, a, built)
      /\ UNCHANGED <<docker, commits, manifestDir, progress, address, runConfig, processes>>
    BY <1>0 DEF Uploads
<1>2. ASSUME NEW d \in Pushed PROVE Addressed(d)'
    BY <1>1, StillAddressed DEF InputInv, Deployed
<1>3. CommitInv' /\ InputTypeOK' /\ DOMAIN address' = Pushed
    BY <1>1, BuildInputsAssumption DEF InputInv, CommitInv, InputTypeOK
<1>4. ConfigInv' /\ ProcessInv'
    BY <1>1, StillRunning DEF InputInv
<1>5. Right(a)'
    <2>1. published'[a] = built
        BY <1>1 DEF Put
    <2>2. SameEnv(BuildEnv(c, m, s), BuildEnvOf(a))
        BY <1>0, BuiltRight DEF InputInv, InputTypeOK
    <2>4. a[1] = m[s] /\ a[3] = Partition(c, m, s)
        BY <1>0, AddressTells
    <2>3. built.env = BuildEnv(c, m, s) /\ built.section = m[s] /\ built.files = Partition(c, m, s)
        BY <1>0 DEF BuiltFrom
    <2> QED BY <1>1, <2>1, <2>2, <2>3, <2>4 DEF Right, SameEnv
<1>6. PublishedInv'
    BY <1>1, <1>5, PublishedOneMore
<1> QED BY <1>2, <1>3, <1>4, <1>6 DEF InputInv

LEMMA ProcessesEndStep == ASSUME InputInv, ProcessesEnd PROVE InputInv'
<1>1. /\ docker = "down" /\ docker' = "back" /\ processes' = <<>>
      /\ UNCHANGED <<commits, manifestDir, calls, progress, address, published, runConfig>>
    BY DEF ProcessesEnd
<1>2. ASSUME NEW d \in Pushed PROVE Addressed(d)'
    BY <1>1, StillAddressed DEF InputInv, Deployed
<1>3. CommitInv' /\ InputTypeOK' /\ DOMAIN address' = Pushed /\ ProcessInv'
    BY <1>1, NothingHasNoDomain DEF InputInv, CommitInv, InputTypeOK, ProcessInv
<1>4. PublishedInv'
    BY <1>1, StillRight DEF InputInv, PublishedInv, Edited
<1>5. ConfigInv'
    BY <1>1 DEF InputInv, ConfigInv
<1> QED BY <1>2, <1>3, <1>4, <1>5 DEF InputInv

LEMMA EditsDiskStep == ASSUME InputInv, EditsDisk PROVE InputInv'
<1> DEFINE first == commits[1].manifest
<1>1. /\ calls < OutsideCalls /\ calls' = calls + 1 /\ manifestDir # <<>>
      /\ UNCHANGED <<docker, commits, progress, address, published, runConfig, processes>>
    BY DEF EditsDisk
<1>2. first \in ManifestSet /\ GoodManifest(first)
    BY DEF InputInv, CommitInv, Pushed
<1>3. PICK x \in {first, Remade(first)} : manifestDir = <<x>>
    BY <1>1 DEF InputInv, CommitInv
<1>4. manifestDir' = <<Remade(x)>>
    <2>1. manifestDir' = [manifestDir EXCEPT ![1] = Remade(manifestDir[1])]
        BY DEF EditsDisk, Remade
    <2>2. PICK y : y = Remade(x)
        OBVIOUS
    <2>3. manifestDir' = [<<x>> EXCEPT ![1] = y]
        BY <1>3, <2>1, <2>2
    <2> QED BY <2>2, <2>3
<1>5. Remade(x) = Remade(first) /\ Remade(x).fe = x.fe /\ Remade(x).be = x.be
    BY <1>2, <1>3, RemadeIs
<1>6. CommitInv'
    BY <1>1, <1>4, <1>5 DEF InputInv, CommitInv
<1>7. Edited => Edited'
    BY <1>1, <1>3, <1>4, <1>5 DEF Edited
<1>8. ~Edited' => manifestDir' = manifestDir
    BY <1>1, <1>3, <1>4, <1>5, <1>7 DEF Edited
<1>9. ASSUME NEW c \in Pushed PROVE Addressed(c)'
    <2>1. CASE manifestDir' = manifestDir
        BY <1>1, <2>1, <1>9, StillAddressed DEF InputInv, Deployed
    <2>2. CASE manifestDir' # manifestDir
        <3>1. Edited' /\ NoManifest(c)' = NoManifest(c) /\ Deployed(c)' = Deployed(c)
            BY <1>1, <1>3, <1>4, <1>8, <2>2 DEF NoManifest, Deployed
        <3>2. PICK m, n : m = Loaded(c) /\ n = Loaded(c)'
            OBVIOUS
        <3>3. m.fe = n.fe /\ m.be = n.be
            BY <1>1, <1>3, <1>4, <1>5, <3>2 DEF Loaded
        <3>4. ASSUME NEW s \in {"fe", "be"} PROVE Address(c, Loaded(c), s)' = Address(c, Loaded(c), s)
            <4>1. m[s] = n[s] /\ s \in Sides
                BY <3>3 DEF Sides
            <4>2. Address(c, Loaded(c), s)' = Address(c, n, s)'
                BY <3>2, <4>1, LoadedAddress
            <4>3. Address(c, n, s)' = Address(c, m, s)
                BY <1>1, <3>3, <4>1, SameAddress
            <4> QED BY <3>2, <4>2, <4>3
        <3> QED BY <1>1, <3>1, <3>4 DEF InputInv, Addressed
    <2> QED BY <2>1, <2>2
<1>10. InputTypeOK' /\ DOMAIN address' = Pushed
    <2>1. calls' \in 0 .. OutsideCalls
        BY <1>1, BuildInputsAssumption DEF InputInv, InputTypeOK
    <2> QED BY <1>1, <2>1 DEF InputInv, InputTypeOK
<1>11. PublishedInv'
    BY <1>1, <1>7, StillRight DEF InputInv, PublishedInv
<1>12. ConfigInv' /\ ProcessInv'
    BY <1>1, StillRunning DEF InputInv
<1> QED BY <1>6, <1>9, <1>10, <1>11, <1>12 DEF InputInv

LEMMA ProcessStartsStep == ASSUME InputInv, NEW a \in DOMAIN runConfig, ProcessStarts(a) PROVE InputInv'
<1>1. /\ processes = <<>> /\ processes' = Put(processes, a, [runConfig[a] EXCEPT !.env = RunsIn(@)])
      /\ UNCHANGED <<docker, commits, manifestDir, calls, progress, address, published, runConfig>>
    BY DEF ProcessStarts
<1>2. ASSUME NEW d \in Pushed PROVE Addressed(d)'
    BY <1>1, StillAddressed DEF InputInv, Deployed
<1>3. DOMAIN processes' = {a} /\ processes'[a] = [runConfig[a] EXCEPT !.env = RunsIn(@)]
    BY <1>1, NothingHasNoDomain DEF Put
<1>4. CommitInv' /\ InputTypeOK' /\ DOMAIN address' = Pushed /\ ConfigInv'
    BY <1>1, <1>3 DEF InputInv, CommitInv, InputTypeOK, ConfigInv
<1>5. ProcessInv'
    <2>1. a[1].run = TRUE /\ runConfig[a].env = RunEnvOf(a) /\ "env" \in DOMAIN runConfig[a]
        BY DEF InputInv, ConfigInv
    <2>2. processes'[a].env = RunsIn(RunEnvOf(a))
        BY <1>3, <2>1
    <2>3. SameEnv(RunsIn(RunEnvOf(a)), RunEnvOf(a))
        BY DEF RunsIn, Docked, SameEnv, InputInv, InputTypeOK
    <2> QED BY <1>1, <1>3, <2>1, <2>2, <2>3 DEF ProcessInv, SameEnv
<1>6. PublishedInv'
    BY <1>1, StillRight DEF InputInv, PublishedInv, Edited
<1> QED BY <1>2, <1>4, <1>5, <1>6 DEF InputInv

LEMMA InputIdle == ASSUME InputInv, UNCHANGED inputVars PROVE InputInv'
<1>1. ASSUME NEW d \in Pushed PROVE Addressed(d)'
    BY StillAddressed DEF InputInv, Deployed, inputVars
<1>2. CommitInv' /\ InputTypeOK' /\ DOMAIN address' = Pushed
    BY DEF InputInv, CommitInv, InputTypeOK, inputVars
<1>3. PublishedInv'
    BY StillRight DEF InputInv, PublishedInv, Edited, inputVars
<1>4. ConfigInv' /\ ProcessInv'
    BY StillRunning DEF InputInv, inputVars
<1> QED BY <1>1, <1>2, <1>3, <1>4 DEF InputInv

LEMMA InputsStep == InputInv /\ [InputNext]_inputVars => InputInv'
<1> SUFFICES ASSUME InputInv, [InputNext]_inputVars PROVE InputInv'
    OBVIOUS
<1>1. CASE EditsDisk
    BY <1>1, EditsDiskStep
<1>2. CASE ProcessesEnd
    BY <1>2, ProcessesEndStep
<1>3. ASSUME NEW c \in Pushed, DeployBuilds(c) PROVE InputInv'
    BY <1>3, DeployBuildsStep
<1>4. ASSUME NEW c \in Pushed, DeployFails(c) PROVE InputInv'
    BY <1>4, DeployFailsStep
<1>5. ASSUME NEW c \in Pushed, BuildsArtifact(c) PROVE InputInv'
    BY <1>5, BuildsArtifactStep
<1>6. ASSUME NEW c \in Pushed, NEW s \in Sides, Uploads(c, s) PROVE InputInv'
    BY <1>6, UploadsStep
<1>7. ASSUME NEW a \in DOMAIN runConfig, ProcessStarts(a) PROVE InputInv'
    BY <1>7, ProcessStartsStep
<1>8. CASE UNCHANGED inputVars
    BY <1>8, InputIdle
<1> QED BY <1>1, <1>2, <1>3, <1>4, <1>5, <1>6, <1>7, <1>8 DEF InputNext

LEMMA InputInvariance == InputSpec => []InputInv
BY InputsStart, InputsStep, PTL DEF InputSpec

\* What the invariant says of a deploy that is served.
LEMMA InputsShow == InputInv => ServedAsDeclared
<1> SUFFICES ASSUME InputInv, NEW c \in Pushed, Deployed(c)
             PROVE  LET m == Loaded(c) IN
                    /\ \A s \in Sides \ (IF Edited THEN {"dl"} ELSE {}) :
                          LET built == published[address[c][s]] IN
                          address[c][s] \in DOMAIN published =>
                              /\ built.section = m[s] /\ built.files = Partition(c, m, s)
                              /\ SameEnv(built.env, BuildEnv(c, m, s))
                    /\ \A s \in Sides : address[c][s] \in DOMAIN processes =>
                              SameEnv(processes[address[c][s]].env, RunEnv(c, m, s))
    BY DEF ServedAsDeclared
<1> DEFINE m == Loaded(c)
<1>1. Addressed(c) /\ ~NoManifest(c) /\ CommitInv
    BY DEF InputInv, Addressed
<1>2. m \in ManifestSet /\ GoodManifest(m)
    BY <1>1, LoadedIsGood
<1>3. ASSUME NEW s \in Sides, Edited => s # "dl", address[c][s] \in DOMAIN published
      PROVE  /\ published[address[c][s]].section = m[s]
             /\ published[address[c][s]].files = Partition(c, m, s)
             /\ SameEnv(published[address[c][s]].env, BuildEnv(c, m, s))
    <2>1. address[c][s] = Address(c, m, s)
        BY <1>1, <1>3 DEF Addressed, Sides
    <2>2. PICK a : a = Address(c, m, s)
        OBVIOUS
    <2>3. a[1] = m[s] /\ a[3] = Partition(c, m, s) /\ BuildEnvOf(a) = BuildEnv(c, m, s)
        BY <2>2, AddressTells
    <2>4. ~(Edited /\ a[1].path = "srv" /\ a[1].run = FALSE)
        BY <1>2, <1>3, <2>3 DEF GoodManifest, Sides
    <2>5. Right(a)
        BY <1>3, <2>1, <2>2, <2>4 DEF InputInv, PublishedInv
    <2> QED BY <2>1, <2>2, <2>3, <2>5 DEF Right
<1>4. ASSUME NEW s \in Sides, address[c][s] \in DOMAIN processes
      PROVE  SameEnv(processes[address[c][s]].env, RunEnv(c, m, s))
    <2>1. PICK a : a = address[c][s]
        OBVIOUS
    <2>2. a[1].run = TRUE /\ SameEnv(processes[a].env, RunEnvOf(a))
        BY <1>4, <2>1 DEF InputInv, ProcessInv
    <2>3. s # "dl"
        BY <1>1, <2>1, <2>2 DEF Addressed
    <2>4. a = Address(c, m, s)
        BY <1>1, <2>1, <2>3 DEF Addressed, Sides
    <2>5. m[s].run = TRUE /\ RunEnvOf(a) = RunEnv(c, m, s)
        BY <2>2, <2>4, AddressTells
    <2> QED BY <2>1, <2>2, <2>5
<1> QED BY <1>3, <1>4

\* Whatever was built or started before, a deploy is served artifacts and
\* processes its own commit declares (buildinputs.go, server/deploy.go).
THEOREM DeclaredIsServed == InputSpec => []ServedAsDeclared
BY InputInvariance, InputsShow, PTL

\* The variables of the build inputs have their types.
THEOREM InputsTyped == InputSpec => []InputTypeOK
<1>1. InputInv => InputTypeOK
    BY DEF InputInv
<1> QED BY <1>1, InputInvariance, PTL

-------------------------------------------------------------------------------
(* The deploys list, page by page: DeployPages *)

\* Where d comes in S, newest first.
Rank(S, d) == Cardinality({ e \in S : e >= d })

LEMMA Ranks ==
    ASSUME NEW S \in SUBSET Nat, IsFiniteSet(S)
    PROVE  /\ Cardinality(S) \in Nat
           /\ \A d : Rank(S, d) \in Nat /\ Rank(S, d) <= Cardinality(S)
           /\ \A d \in S : Rank(S, d) >= 1
           /\ \A d, e \in S : d < e => Rank(S, e) < Rank(S, d)
<1>1. \A d : /\ IsFiniteSet({ e \in S : e >= d })
             /\ Cardinality({ e \in S : e >= d }) <= Cardinality(S)
             /\ Cardinality({ e \in S : e >= d }) \in Nat
  BY FS_Subset, FS_CardinalityType
<1>2. Cardinality(S) \in Nat
  BY FS_CardinalityType
<1>3. ASSUME NEW d \in S PROVE Rank(S, d) >= 1
  <2>1. { e \in S : e >= d } # {}
    BY <1>3
  <2>2. Cardinality({ e \in S : e >= d }) # 0
    BY <1>1, <2>1, FS_EmptySet
  <2> QED BY <1>1, <2>2 DEF Rank
<1>4. ASSUME NEW d \in S, NEW f \in S, d < f PROVE Rank(S, f) < Rank(S, d)
  <2> DEFINE D == { e \in S : e >= d }
             F == { e \in S : e >= f }
  <2>1. F \subseteq D /\ d \in D /\ d \notin F
    <3>1. \A e \in S : e >= f => e >= d
      BY <1>4
    <3>2. d >= d /\ ~(d >= f)
      BY <1>4
    <3> QED BY <1>4, <3>1, <3>2
  <2>2. IsFiniteSet(D) /\ Cardinality(D) \in Nat /\ Cardinality(F) \in Nat
    BY <1>1
  <2> HIDE DEF D, F
  <2>3. Cardinality(F) <= Cardinality(D) /\ Cardinality(F) # Cardinality(D)
    BY <2>1, <2>2, FS_Subset
  <2> QED BY <2>2, <2>3 DEF Rank, D, F
<1> QED BY <1>1, <1>2, <1>3, <1>4 DEF Rank

\* Every rank up to the size of the set is somebody's.
LEMMA AtItsRank ==
    ASSUME NEW S \in SUBSET Nat, IsFiniteSet(S), NEW i \in 1 .. Cardinality(S)
    PROVE  AtRank(S, i) \in S /\ Rank(S, AtRank(S, i)) = i
<1> DEFINE n == Cardinality(S)
           f == [d \in S |-> Rank(S, d)]
<1>1. n \in Nat /\ IsFiniteSet(1 .. n) /\ Cardinality(1 .. n) = n
  <2>1. n \in Nat
    BY Ranks
  <2> QED BY <2>1, FS_Interval
<1>2. f \in [S -> 1 .. n]
  BY <1>1, Ranks
<1>3. \A d, e \in S : f[d] = f[e] => d = e
  <2> SUFFICES ASSUME NEW d \in S, NEW e \in S, d # e PROVE f[d] # f[e]
    OBVIOUS
  <2>1. d < e \/ e < d
    OBVIOUS
  <2>2. Rank(S, d) \in Nat /\ Rank(S, e) \in Nat
    BY Ranks
  <2> QED BY <2>1, <2>2, Ranks
<1>4. f \in Injection(S, 1 .. n)
  BY <1>2, <1>3 DEF Injection, IsInjective
<1> HIDE DEF f
<1>5. f \in Surjection(S, 1 .. n)
  BY <1>1, <1>4, FS_Injection
<1>6. PICK d \in S : f[d] = i
  BY <1>5, <1>1 DEF Surjection
<1>7. \E e \in S : Rank(S, e) = i
  BY <1>6 DEF f
<1> QED BY <1>7 DEF AtRank, Rank

\* A set of numbers has a least one, and a finite set a largest.
LEMMA Least ==
    ASSUME NEW S \in SUBSET Nat, S # {}
    PROVE  \E n \in S : \A m \in S : n <= m
<1>1. PICK n \in S : \A m \in S : ~(<<m, n>> \in OpToRel(<, Nat))
  BY NatLessThanWellFounded, WFMin
<1>2. \A m \in S : ~(m < n)
  BY <1>1 DEF OpToRel
<1> QED BY <1>2

LEMMA Largest ==
    ASSUME NEW S \in SUBSET Nat, S # {}, IsFiniteSet(S)
    PROVE  \E n \in S : \A m \in S : m <= n
<1> DEFINE R == { Rank(S, d) : d \in S }
<1>1. R \subseteq Nat /\ R # {}
  BY Ranks
<1>2. PICK r \in R : \A q \in R : r <= q
  BY <1>1, Least
<1>3. PICK n \in S : Rank(S, n) = r
  OBVIOUS
<1>4. ASSUME NEW m \in S PROVE m <= n
  <2>1. Rank(S, n) <= Rank(S, m) /\ Rank(S, n) \in Nat /\ Rank(S, m) \in Nat
    BY <1>2, <1>3, Ranks
  <2>2. ~(n < m)
    BY <2>1, Ranks
  <2> QED BY <2>2
<1> QED BY <1>4

\* Who is beyond the s-th of M, but not of L, moved there for those who are in
\* M only: there are no more of them.
LEMMA Crossing ==
    ASSUME NEW L \in SUBSET Nat, NEW M \in SUBSET Nat, IsFiniteSet(L), IsFiniteSet(M),
           NEW s \in Nat, NEW Z \in SUBSET M,
           \A z \in Z : s < Rank(M, z) /\ (z \in L => Rank(L, z) <= s)
    PROVE  Cardinality(Z) <= Cardinality(M \ L)
<1>1. IsFiniteSet(Z) /\ IsFiniteSet(M \ L) /\ Cardinality(Z) \in Nat /\ Cardinality(M \ L) \in Nat
  <2>1. IsFiniteSet(Z) /\ IsFiniteSet(M \ L)
    BY FS_Subset
  <2> QED BY <2>1, FS_CardinalityType
<1>2. CASE Z \cap L = {}
  <2>1. Z \subseteq M \ L
    BY <1>2
  <2> QED BY <1>1, <2>1, FS_Subset
<1>3. CASE Z \cap L # {}
  <2>1. PICK a \in Z \cap L : \A z \in Z \cap L : a <= z
    <3>1. Z \cap L \in SUBSET Nat
      OBVIOUS
    <3> QED BY <1>3, <3>1, Least
  <2>2. PICK b \in Z : \A z \in Z : z <= b
    <3>1. Z \in SUBSET Nat /\ Z # {}
      BY <1>3
    <3> QED BY <1>1, <3>1, Largest
  <2> DEFINE K == { m \in M : m >= b } \ {b}
             X == K \cup Z
             H == { e \in L : e >= a }
  <2>3. IsFiniteSet(K) /\ Cardinality(K) \in Nat /\ s <= Cardinality(K)
    <3>1. IsFiniteSet({ m \in M : m >= b }) /\ b \in { m \in M : m >= b }
      BY FS_Subset
    <3>2. Cardinality(K) = Rank(M, b) - 1 /\ IsFiniteSet(K)
      BY <3>1, FS_RemoveElement DEF Rank
    <3>3. Rank(M, b) \in Nat /\ s < Rank(M, b)
      BY Ranks
    <3> QED BY <3>2, <3>3
  <2>4. K \cap Z = {}
    <3> SUFFICES ASSUME NEW z \in Z, z >= b PROVE z = b
      OBVIOUS
    <3>1. z <= b /\ z \in Nat /\ b \in Nat
      BY <2>2
    <3> QED BY <3>1
  <2>5. IsFiniteSet(X) /\ Cardinality(X) = Cardinality(K) + Cardinality(Z)
    <3> HIDE DEF K
    <3>1. IsFiniteSet(X) /\ Cardinality(X) = Cardinality(K) + Cardinality(Z) - Cardinality(K \cap Z)
      BY <1>1, <2>3, FS_Union
    <3>2. Cardinality(K \cap Z) = 0
      BY <2>4, FS_EmptySet
    <3> QED BY <1>1, <2>3, <3>1, <3>2
  <2>6. X \subseteq H \cup (M \ L)
    <3>1. \A z \in X : z \in M /\ (z \in L => z >= a)
      <4>1. a <= b
        BY <2>1, <2>2
      <4> QED BY <2>1, <2>2, <4>1
    <3> QED BY <3>1
  <2>7. IsFiniteSet(H) /\ Cardinality(H) \in Nat /\ Cardinality(H) <= s
    <3>1. IsFiniteSet(H)
      BY FS_Subset
    <3>2. Cardinality(H) = Rank(L, a)
      BY DEF Rank
    <3> QED BY <2>1, <3>1, <3>2, FS_CardinalityType
  <2> HIDE DEF X, H, K
  <2>8. /\ IsFiniteSet(H \cup (M \ L)) /\ Cardinality(H \cap (M \ L)) \in Nat
        /\ Cardinality(H \cup (M \ L)) = Cardinality(H) + Cardinality(M \ L) - Cardinality(H \cap (M \ L))
    BY <1>1, <2>7, FS_Union, FS_Intersection, FS_CardinalityType
  <2>9. Cardinality(X) <= Cardinality(H \cup (M \ L))
    BY <2>6, <2>8, FS_Subset
  <2> QED BY <1>1, <2>3, <2>5, <2>7, <2>8, <2>9
<1> QED BY <1>2, <1>3

\* Two sets apart within the union of two others.
LEMMA Apart ==
    ASSUME NEW X, NEW Y, NEW A, NEW B, IsFiniteSet(A), IsFiniteSet(B),
           X \cap Y = {}, X \cup Y \subseteq A \cup B
    PROVE  Cardinality(X) + Cardinality(Y) <= Cardinality(A) + Cardinality(B)
<1>1. /\ IsFiniteSet(A \cup B) /\ Cardinality(A \cap B) \in Nat
      /\ Cardinality(A) \in Nat /\ Cardinality(B) \in Nat
      /\ Cardinality(A \cup B) = Cardinality(A) + Cardinality(B) - Cardinality(A \cap B)
  BY FS_Union, FS_Intersection, FS_CardinalityType
<1>2. IsFiniteSet(X) /\ IsFiniteSet(Y) /\ Cardinality(X) \in Nat /\ Cardinality(Y) \in Nat
  BY <1>1, FS_Subset, FS_CardinalityType
<1>3. /\ IsFiniteSet(X \cup Y) /\ Cardinality(X \cap Y) = 0
      /\ Cardinality(X \cup Y) = Cardinality(X) + Cardinality(Y) - Cardinality(X \cap Y)
  BY <1>2, FS_Union, FS_EmptySet
<1>4. Cardinality(X \cup Y) <= Cardinality(A \cup B)
  BY <1>1, FS_Subset
<1> QED BY <1>1, <1>2, <1>3, <1>4

\* Those of K that are beyond the s-th, when the list changes from L to M.
LEMMA Overshoot ==
    ASSUME NEW L \in SUBSET Nat, NEW M \in SUBSET Nat, IsFiniteSet(L), IsFiniteSet(M),
           NEW s \in Nat, NEW K
    PROVE  Cardinality({ d \in K \cap M : Rank(M, d) > s })
              <= Cardinality({ d \in K \cap L : Rank(L, d) > s }) + Cardinality(M \ L)
<1> DEFINE A == { d \in K \cap L : Rank(L, d) > s }
           B == { d \in K \cap M : Rank(M, d) > s }
           Z == B \ A
<1>1. Cardinality(Z) <= Cardinality(M \ L)
  <2>1. Z \in SUBSET M
    OBVIOUS
  <2>2. \A z \in Z : s < Rank(M, z) /\ (z \in L => Rank(L, z) <= s)
    BY Ranks
  <2> HIDE DEF Z
  <2> QED BY <2>1, <2>2, Crossing
<1>2. /\ IsFiniteSet(A) /\ IsFiniteSet(Z) /\ IsFiniteSet(M \ L)
      /\ Cardinality(A) \in Nat /\ Cardinality(Z) \in Nat /\ Cardinality(M \ L) \in Nat
  <2>1. A \subseteq L /\ Z \subseteq M
    OBVIOUS
  <2> HIDE DEF A, Z
  <2>2. IsFiniteSet(A) /\ IsFiniteSet(Z) /\ IsFiniteSet(M \ L)
    BY <2>1, FS_Subset
  <2> QED BY <2>2, FS_CardinalityType
<1>3. Cardinality(B) + Cardinality({}) <= Cardinality(A) + Cardinality(Z)
  <2>1. B \cap {} = {} /\ B \cup {} \subseteq A \cup Z
    OBVIOUS
  <2> HIDE DEF A, B, Z
  <2> QED BY <1>2, <2>1, Apart
<1>4. Cardinality({}) = 0 /\ Cardinality(B) \in Nat
  <2>1. B \subseteq M
    OBVIOUS
  <2> HIDE DEF B
  <2> QED BY <2>1, FS_Subset, FS_CardinalityType, FS_EmptySet
<1> HIDE DEF A, B, Z
<1>5. Cardinality(B) <= Cardinality(A) + Cardinality(M \ L)
  BY <1>1, <1>2, <1>3, <1>4
<1> QED BY <1>5 DEF A, B

\* Those of V, in both lists, that are not beyond it.
LEMMA Undershoot ==
    ASSUME NEW L \in SUBSET Nat, NEW M \in SUBSET Nat, IsFiniteSet(L), IsFiniteSet(M),
           NEW s \in Nat, NEW V \in SUBSET (L \cap M)
    PROVE  Cardinality({ d \in V : Rank(M, d) <= s })
              <= Cardinality({ d \in V : Rank(L, d) <= s }) + Cardinality(L \ M)
<1> DEFINE A == { d \in V : Rank(L, d) <= s }
           B == { d \in V : Rank(M, d) <= s }
           Z == B \ A
<1>1. Cardinality(Z) <= Cardinality(L \ M)
  <2>1. Z \in SUBSET L
    OBVIOUS
  <2>2. \A z \in Z : s < Rank(L, z) /\ (z \in M => Rank(M, z) <= s)
    BY Ranks
  <2> HIDE DEF Z
  <2> QED BY <2>1, <2>2, Crossing
<1>2. /\ IsFiniteSet(A) /\ IsFiniteSet(Z) /\ IsFiniteSet(L \ M)
      /\ Cardinality(A) \in Nat /\ Cardinality(Z) \in Nat /\ Cardinality(L \ M) \in Nat
  <2>1. A \subseteq L /\ Z \subseteq L
    OBVIOUS
  <2> HIDE DEF A, Z
  <2>2. IsFiniteSet(A) /\ IsFiniteSet(Z) /\ IsFiniteSet(L \ M)
    BY <2>1, FS_Subset
  <2> QED BY <2>2, FS_CardinalityType
<1>3. Cardinality(B) + Cardinality({}) <= Cardinality(A) + Cardinality(Z)
  <2>1. B \cap {} = {} /\ B \cup {} \subseteq A \cup Z
    OBVIOUS
  <2> HIDE DEF A, B, Z
  <2> QED BY <1>2, <2>1, Apart
<1>4. Cardinality({}) = 0 /\ Cardinality(B) \in Nat
  <2>1. B \subseteq L
    OBVIOUS
  <2> HIDE DEF B
  <2> QED BY <2>1, FS_Subset, FS_CardinalityType, FS_EmptySet
<1> HIDE DEF A, B, Z
<1>5. Cardinality(B) <= Cardinality(A) + Cardinality(L \ M)
  BY <1>1, <1>2, <1>3, <1>4
<1> QED BY <1>5 DEF A, B

\* Two lists that change in H only.
LEMMA ChangeIsSmall ==
    ASSUME NEW L \in SUBSET Nat, NEW M \in SUBSET Nat, NEW J \in SUBSET Nat, NEW N \in SUBSET Nat,
           IsFiniteSet(L), IsFiniteSet(M), IsFiniteSet(J), IsFiniteSet(N), NEW H, IsFiniteSet(H),
           \A d : d \notin H => (d \in M <=> d \in L) /\ (d \in N <=> d \in J)
    PROVE  /\ Cardinality(M \ L) + Cardinality(N \ M) <= Cardinality(J \ L) + Cardinality(H)
           /\ Cardinality(L \ M) + Cardinality(M \ N) <= Cardinality(L \ J) + Cardinality(H)
           /\ Cardinality(M \ L) + Cardinality(L \ M) <= Cardinality(H)
<1>1. IsFiniteSet(J \ L) /\ IsFiniteSet(L \ J) /\ IsFiniteSet({}) /\ Cardinality({}) = 0
  BY FS_Subset, FS_EmptySet
<1>2. Cardinality(M \ L) + Cardinality(N \ M) <= Cardinality(J \ L) + Cardinality(H)
  <2>1. (M \ L) \cap (N \ M) = {} /\ (M \ L) \cup (N \ M) \subseteq (J \ L) \cup H
    OBVIOUS
  <2> QED BY <1>1, <2>1, Apart
<1>3. Cardinality(L \ M) + Cardinality(M \ N) <= Cardinality(L \ J) + Cardinality(H)
  <2>1. (L \ M) \cap (M \ N) = {} /\ (L \ M) \cup (M \ N) \subseteq (L \ J) \cup H
    OBVIOUS
  <2> QED BY <1>1, <2>1, Apart
<1>4. Cardinality(M \ L) + Cardinality(L \ M) <= Cardinality(H)
  <2>1. (M \ L) \cap (L \ M) = {} /\ (M \ L) \cup (L \ M) \subseteq H \cup {}
    OBVIOUS
  <2>2. Cardinality(M \ L) + Cardinality(L \ M) <= Cardinality(H) + Cardinality({})
    BY <1>1, <2>1, Apart
  <2> QED BY <1>1, <2>2, FS_CardinalityType
<1> QED BY <1>2, <1>3, <1>4

-------------------------------------------------------------------------------
(* The browse *)

\* What was shown or will be with the page at hand, how far that goes, and the
\* pin that it gives.
Ahead == { browse.shown[i] : i \in 1 .. Len(browse.shown) }
            \cup { browse.page[i] : i \in 1 .. Len(browse.page) }
Far == Len(browse.shown) + Len(browse.page)
TopAhead == IF browse.shown # <<>> THEN browse.shown[1]
            ELSE IF browse.page # <<>> THEN browse.page[1] ELSE 0
AheadPin == IF browse.pins THEN TopAhead ELSE 0
Within(d) == AheadPin = 0 \/ d <= AheadPin

\* The list as the browse takes it to be, and as it would be if it looked now.
RowsFor(crashed) == Matching(browse.filter, AheadPin, crashed)
SeenDead == IF browse.pc = "asks" /\ browse.shown = <<>> THEN dead ELSE browse.seen
Listed == RowsFor(SeenDead)
Current == RowsFor(dead)

\* What the next page would show again; what it would leave out; what the count
\* leaves out; and whose state may not be what it was taken for.
Again    == { d \in Ahead \cap Listed : Rank(Listed, d) > Far }
Passed   == { d \in untouched \ Ahead : Rank(Listed, d) <= Far }
Beyond   == { d \in untouched : Rank(Listed, d) > browse.total }
Doubtful == { d \in DOMAIN table : /\ Within(d)
                                   /\ ~(table[d].process \in browse.seen <=> table[d].process \in dead) }
ByState  == browse.filter \in {"ready", "crashed"}

RowType == [status : {"ready", "failed"}, process : Processes]
PagesTypeInv ==
    /\ newest \in Nat /\ DOMAIN table \subseteq 1 .. newest /\ dead \in SUBSET Processes
    /\ table \in [DOMAIN table -> RowType]
    /\ browse \in [pc : {"closed", "asks", "counts", "lists", "shows", "done"}, filter : Filters,
                   pins : BOOLEAN, pin : Nat, seen : SUBSET Processes, total : Nat,
                   page : Seq(Nat), shown : Seq(Nat), wrong : Nat]
    /\ edits \in [all : Nat, touching : Nat] /\ untouched \subseteq DOMAIN table

PageInv ==
    /\ browse.pc # "shows" => browse.page = <<>>
    /\ browse.pc \in {"closed"} => browse.shown = <<>>
    /\ \A i, j \in 1 .. Len(browse.page) : browse.page[i] = browse.page[j] => i = j
    /\ \A i \in 1 .. Len(browse.page) :
          /\ browse.page[i] \in 1 .. newest /\ Within(browse.page[i])
          /\ browse.page[i] \in DOMAIN table /\ ByState =>
                (table[browse.page[i]].process \in browse.seen <=> browse.filter = "crashed")
    /\ \A i \in 1 .. Len(browse.shown) : browse.shown[i] \in 1 .. newest
    /\ browse.pin = IF browse.pins /\ browse.shown # <<>> THEN browse.shown[1] ELSE 0

\* Every change of a row that the browse looks at is counted, and the count pays
\* for what it does to the pages: for the rows that were pushed back beyond the
\* pages shown, to be shown again, and those that will be when the browse next
\* looks at what has crashed;
TwiceInv == Far + Cardinality(Again) + Cardinality(Current \ Listed)
               <= edits.touching + Cardinality(Ahead)
\* for the rows that moved onto pages already shown, and will not be seen;
MissInv == /\ untouched \subseteq Listed \cap Current
           /\ Cardinality(Passed) + Cardinality(Listed \ Current) <= edits.touching
\* for the rows the count has left out;
CountInv == browse.pc = "lists" => Cardinality(Passed) + Cardinality(Beyond) <= edits.touching
AtEnd == \/ browse.pc = "shows" /\ (browse.page = <<>> \/ Far >= browse.total)
         \/ browse.pc = "done"
\* once the last page is known, for all those the browse has not shown;
EndInv == AtEnd => Cardinality(untouched \ Ahead) <= edits.touching
\* for the rows shown as what they no longer are, or may yet be;
WrongInv == /\ browse.wrong <= edits.touching
            /\ browse.pc \in {"counts", "lists", "shows"} /\ ByState =>
                  browse.wrong + Cardinality(Doubtful) <= edits.touching
\* and, when the browse is over, for the rows it has shown twice.
OverInv == Far <= edits.touching + Cardinality(Ahead)

PagesInv == /\ PagesTypeInv /\ PageInv /\ EndInv /\ WrongInv /\ OverInv
            /\ Browsing => TwiceInv /\ MissInv /\ CountInv

\* The sets of the argument are finite sets of numbers.
LEMMA PagesSets ==
    ASSUME PagesTypeInv, PageInv
    PROVE  /\ \A x : RowsFor(x) \in SUBSET Nat /\ IsFiniteSet(RowsFor(x)) /\ RowsFor(x) \subseteq DOMAIN table
           /\ IsFiniteSet(untouched) /\ untouched \in SUBSET Nat /\ IsFiniteSet(Doubtful)
           /\ IsFiniteSet(Ahead) /\ Ahead \in SUBSET Nat /\ Ahead \subseteq 1 .. newest
           /\ Far \in Nat /\ edits.touching \in Nat /\ browse.wrong \in Nat /\ browse.total \in Nat
<1>1. IsFiniteSet(1 .. newest) /\ IsFiniteSet(DOMAIN table) /\ DOMAIN table \subseteq Nat
  <2>1. newest \in Nat /\ DOMAIN table \subseteq 1 .. newest
    BY DEF PagesTypeInv
  <2>2. IsFiniteSet(1 .. newest)
    BY <2>1, FS_Interval
  <2>3. IsFiniteSet(DOMAIN table)
    BY <2>1, <2>2, FS_Subset
  <2> QED BY <2>1, <2>2, <2>3
<1>2. \A x : RowsFor(x) \subseteq DOMAIN table
  BY DEF RowsFor, Matching, MatchingUnpinned
<1>3. untouched \subseteq DOMAIN table /\ Doubtful \subseteq DOMAIN table
  BY DEF PagesTypeInv, Doubtful
<1>4. Ahead \subseteq 1 .. newest
  BY DEF Ahead, PageInv
<1>5. /\ Len(browse.shown) \in Nat /\ Len(browse.page) \in Nat
      /\ edits.touching \in Nat /\ browse.wrong \in Nat /\ browse.total \in Nat
  BY DEF PagesTypeInv
<1>6. Far \in Nat
  <2>1. PICK a, b \in Nat : a = Len(browse.shown) /\ b = Len(browse.page)
    BY <1>5
  <2>2. Far = a + b
    BY <2>1 DEF Far
  <2> QED BY <2>2
<1>7. \A x : RowsFor(x) \in SUBSET Nat /\ IsFiniteSet(RowsFor(x))
  BY <1>1, <1>2, FS_Subset
<1>8. IsFiniteSet(untouched) /\ IsFiniteSet(Doubtful) /\ IsFiniteSet(Ahead)
  BY <1>1, <1>3, <1>4, FS_Subset
<1>9. Ahead \in SUBSET Nat /\ untouched \in SUBSET Nat
  <2>1. 1 .. newest \subseteq Nat
    BY DEF PagesTypeInv
  <2> QED BY <1>1, <1>3, <1>4, <2>1
<1> QED BY <1>2, <1>4, <1>5, <1>6, <1>7, <1>8, <1>9

\* A change of the rows in H: outside of it the list stays as it was, what is
\* in it counts, and is no longer untouched.
LEMMA EditKeeps ==
    ASSUME PagesInv, PagesTypeInv', PageInv', Browsing, browse' = browse,
           NEW H, IsFiniteSet(H),
           edits'.touching = edits.touching + Cardinality(H), untouched' = untouched \ H,
           \A d : d \notin H => (d \in Listed' <=> d \in Listed) /\ (d \in Current' <=> d \in Current),
           browse.pc \in {"counts", "lists", "shows"} /\ ByState =>
               \A d : d \notin H /\ d \in Doubtful' => d \in Doubtful
    PROVE  PagesInv'
<1>1. PagesTypeInv /\ PageInv
  BY DEF PagesInv
<1>2. /\ Listed \in SUBSET Nat /\ Current \in SUBSET Nat /\ IsFiniteSet(Listed) /\ IsFiniteSet(Current)
      /\ IsFiniteSet(untouched) /\ IsFiniteSet(Ahead) /\ Ahead \in SUBSET Nat /\ IsFiniteSet(Doubtful)
      /\ Far \in Nat /\ edits.touching \in Nat /\ browse.wrong \in Nat /\ browse.total \in Nat
  BY <1>1, PagesSets DEF Listed, Current
<1>3. /\ Listed' \in SUBSET Nat /\ Current' \in SUBSET Nat /\ IsFiniteSet(Listed') /\ IsFiniteSet(Current')
      /\ IsFiniteSet(Doubtful')
  <2>1. newest' \in Nat /\ DOMAIN table' \subseteq 1 .. newest'
    BY DEF PagesTypeInv
  <2>2. IsFiniteSet(1 .. newest') /\ 1 .. newest' \subseteq Nat
    BY <2>1, FS_Interval
  <2>3. Listed' \subseteq DOMAIN table' /\ Current' \subseteq DOMAIN table' /\ Doubtful' \subseteq DOMAIN table'
    BY DEF Listed, Current, RowsFor, Matching, MatchingUnpinned, Doubtful
  <2>4. Listed' \subseteq 1 .. newest' /\ Current' \subseteq 1 .. newest' /\ Doubtful' \subseteq 1 .. newest'
    BY <2>1, <2>3
  <2> QED BY <2>2, <2>4, FS_Subset
<1>4. UNCHANGED <<Ahead, Far, ByState, browse.total, AtEnd, Browsing>>
  BY DEF Ahead, Far, ByState, AtEnd, Browsing
<1>5. PICK L, J, M, N \in SUBSET Nat : L = Listed /\ J = Current /\ M = Listed' /\ N = Current'
  BY <1>2, <1>3
<1>6. PICK A \in SUBSET Nat, s, t, n, h \in Nat :
         A = Ahead /\ s = Far /\ t = edits.touching /\ n = browse.total /\ h = Cardinality(H)
  BY <1>2, FS_CardinalityType
<1>7. PICK U : U = untouched
  OBVIOUS
<1> DEFINE again(X) == { d \in A \cap X : Rank(X, d) > s }
           passed(V, X) == { d \in V \ A : Rank(X, d) <= s }
           beyond(V, X) == { d \in V : Rank(X, d) > n }
<1>8. /\ IsFiniteSet(L) /\ IsFiniteSet(J) /\ IsFiniteSet(M) /\ IsFiniteSet(N) /\ IsFiniteSet(A) /\ IsFiniteSet(U)
      /\ \A d : d \notin H => (d \in M <=> d \in L) /\ (d \in N <=> d \in J)
  BY <1>2, <1>3, <1>5, <1>6, <1>7
<1>9. /\ Cardinality(M \ L) + Cardinality(N \ M) <= Cardinality(J \ L) + h
      /\ Cardinality(L \ M) + Cardinality(M \ N) <= Cardinality(L \ J) + h
      /\ Cardinality(M \ L) + Cardinality(L \ M) <= h
  BY <1>6, <1>8, ChangeIsSmall
<1>10. /\ Cardinality(M \ L) \in Nat /\ Cardinality(N \ M) \in Nat /\ Cardinality(J \ L) \in Nat
       /\ Cardinality(L \ M) \in Nat /\ Cardinality(M \ N) \in Nat /\ Cardinality(L \ J) \in Nat
       /\ Cardinality(A) \in Nat
  BY <1>8, FS_Subset, FS_CardinalityType
<1>11. s + Cardinality(again(L)) + Cardinality(J \ L) <= t + Cardinality(A)
  BY <1>5, <1>6 DEF PagesInv, TwiceInv, Again
<1>12. U \subseteq L \cap J /\ Cardinality(passed(U, L)) + Cardinality(L \ J) <= t
  BY <1>5, <1>6, <1>7 DEF PagesInv, MissInv, Passed
<1>13. \A X : X \in {L, M} => /\ Cardinality(again(X)) \in Nat
                             /\ \A V \in SUBSET U : Cardinality(passed(V, X)) \in Nat
                                                   /\ Cardinality(beyond(V, X)) \in Nat
                                                   /\ IsFiniteSet(passed(V, X)) /\ IsFiniteSet(beyond(V, X))
  BY <1>8, FS_Subset, FS_CardinalityType
<1>14. TwiceInv'
  <2>1. Cardinality(again(M)) <= Cardinality(again(L)) + Cardinality(M \ L)
    BY <1>8, Overshoot
  <2>2. Cardinality(again(L)) \in Nat /\ Cardinality(again(M)) \in Nat
    BY <1>13
  <2> HIDE DEF again
  <2>3. s + Cardinality(again(M)) + Cardinality(N \ M) <= t + h + Cardinality(A)
    BY <1>9, <1>10, <1>11, <2>1, <2>2
  <2> USE DEF again
  <2>4. /\ Again' = again(M) /\ (Current \ Listed)' = N \ M /\ Far' = s
        /\ Ahead' = A /\ edits'.touching = t + h
    BY <1>4, <1>5, <1>6 DEF Again
  <2> HIDE DEF again
  <2> QED BY <2>3, <2>4 DEF TwiceInv
<1>15. U \ H \subseteq M \cap N /\ U \ H \subseteq L \cap M
  BY <1>8, <1>12
<1>16. Cardinality(passed(U \ H, M)) <= Cardinality(passed(U, L)) + Cardinality(L \ M)
  <2> DEFINE V == (U \ H) \ A
  <2>1. Cardinality({ d \in V : Rank(M, d) <= s }) <= Cardinality({ d \in V : Rank(L, d) <= s }) + Cardinality(L \ M)
    <3>1. V \in SUBSET (L \cap M)
      BY <1>15
    <3> HIDE DEF V
    <3> QED BY <1>8, <3>1, Undershoot
  <2>2. Cardinality({ d \in V : Rank(L, d) <= s }) <= Cardinality(passed(U, L))
    <3>1. { d \in V : Rank(L, d) <= s } \subseteq passed(U, L) /\ IsFiniteSet(passed(U, L))
      BY <1>13
    <3> QED BY <3>1, FS_Subset
  <2>3. /\ Cardinality({ d \in V : Rank(M, d) <= s }) \in Nat
        /\ Cardinality({ d \in V : Rank(L, d) <= s }) \in Nat
        /\ Cardinality(passed(U, L)) \in Nat
    <3>1. IsFiniteSet(V)
      BY <1>8, FS_Subset
    <3> QED BY <1>13, <3>1, FS_Subset, FS_CardinalityType
  <2> QED BY <1>10, <2>1, <2>2, <2>3
<1>17. MissInv'
  <2>1. Cardinality(passed(U, L)) \in Nat /\ Cardinality(passed(U \ H, M)) \in Nat
    BY <1>13
  <2>2. Passed' = passed(U \ H, M) /\ edits'.touching = t + h /\ untouched' = U \ H
    BY <1>4, <1>5, <1>6, <1>7 DEF Passed
  <2> HIDE DEF passed
  <2>3. Cardinality(passed(U \ H, M)) + Cardinality(M \ N) <= t + h
    BY <1>9, <1>10, <1>12, <1>16, <2>1
  <2> QED BY <1>5, <1>15, <2>2, <2>3 DEF MissInv
<1>18. CountInv'
  <2> SUFFICES ASSUME browse.pc = "lists" PROVE Cardinality(Passed') + Cardinality(Beyond') <= edits'.touching
    BY DEF CountInv
  <2>1. Cardinality(passed(U, L)) + Cardinality(beyond(U, L)) <= t
    BY <1>5, <1>6, <1>7 DEF PagesInv, CountInv, Passed, Beyond
  <2>2. Cardinality(beyond(U \ H, M)) <= Cardinality(beyond(U, L)) + Cardinality(M \ L)
    <3> DEFINE V == U \ H
    <3>1. Cardinality({ d \in V \cap M : Rank(M, d) > n })
             <= Cardinality({ d \in V \cap L : Rank(L, d) > n }) + Cardinality(M \ L)
      <4> HIDE DEF V
      <4> QED BY <1>8, Overshoot
    <3>2. { d \in V \cap M : Rank(M, d) > n } = beyond(V, M) /\ { d \in V \cap L : Rank(L, d) > n } = beyond(V, L)
      BY <1>15
    <3>3. Cardinality(beyond(V, L)) <= Cardinality(beyond(U, L))
      <4>1. beyond(V, L) \subseteq beyond(U, L) /\ IsFiniteSet(beyond(U, L))
        BY <1>13
      <4> QED BY <4>1, FS_Subset
    <3>4. /\ Cardinality(beyond(V, L)) \in Nat /\ Cardinality(beyond(U, L)) \in Nat
          /\ Cardinality(beyond(V, M)) \in Nat
      BY <1>13
    <3>5. Cardinality(beyond(V, M)) <= Cardinality(beyond(V, L)) + Cardinality(M \ L)
      BY <3>1, <3>2
    <3> HIDE DEF beyond
    <3> QED BY <1>10, <3>3, <3>4, <3>5
  <2>3. /\ Cardinality(passed(U, L)) \in Nat /\ Cardinality(passed(U \ H, M)) \in Nat
        /\ Cardinality(beyond(U, L)) \in Nat /\ Cardinality(beyond(U \ H, M)) \in Nat
    BY <1>13
  <2>4. /\ Passed' = passed(U \ H, M) /\ Beyond' = beyond(U \ H, M) /\ edits'.touching = t + h
    BY <1>4, <1>5, <1>6, <1>7 DEF Passed, Beyond
  <2> HIDE DEF passed, beyond
  <2> QED BY <1>9, <1>10, <1>16, <2>1, <2>2, <2>3, <2>4
<1>19. EndInv' /\ OverInv'
  <2>1. /\ Cardinality(U \ A) \in Nat /\ Cardinality((U \ H) \ A) \in Nat
        /\ Cardinality((U \ H) \ A) <= Cardinality(U \ A)
    <3>1. IsFiniteSet(U \ A) /\ (U \ H) \ A \subseteq U \ A
      BY <1>8, FS_Subset
    <3> QED BY <3>1, FS_Subset, FS_CardinalityType
  <2>2. AtEnd => Cardinality(U \ A) <= t
    BY <1>6, <1>7 DEF PagesInv, EndInv
  <2>3. AtEnd => Cardinality((U \ H) \ A) <= t + h
    BY <2>1, <2>2
  <2>4. s <= t + h + Cardinality(A)
    <3>1. s <= t + Cardinality(A)
      BY <1>6 DEF PagesInv, OverInv
    <3> QED BY <1>10, <3>1
  <2> QED BY <1>4, <1>6, <1>7, <2>3, <2>4 DEF EndInv, OverInv
<1>20. WrongInv'
  <2>1. PICK w \in Nat : w = browse.wrong
    BY <1>2
  <2>2. w <= t + h
    BY <1>6, <2>1 DEF PagesInv, WrongInv
  <2>3. ASSUME browse.pc \in {"counts", "lists", "shows"}, ByState
        PROVE  w + Cardinality(Doubtful') <= t + h
    <3>1. Cardinality(Doubtful') + Cardinality({}) <= Cardinality(Doubtful) + h
      <4>1. Doubtful' \cap {} = {} /\ Doubtful' \cup {} \subseteq Doubtful \cup H
        BY <2>3
      <4> QED BY <1>2, <1>6, <4>1, Apart
    <3>2. Cardinality({}) = 0 /\ Cardinality(Doubtful') \in Nat /\ Cardinality(Doubtful) \in Nat
      BY <1>2, <1>3, FS_EmptySet, FS_CardinalityType
    <3>3. w + Cardinality(Doubtful) <= t
      BY <1>6, <2>1, <2>3 DEF PagesInv, WrongInv
    <3> QED BY <3>1, <3>2, <3>3
  <2> QED BY <1>4, <1>6, <2>1, <2>2, <2>3 DEF WrongInv
<1> QED BY <1>14, <1>17, <1>18, <1>19, <1>20 DEF PagesInv

\* What the filter takes, whatever the pin.
Fit(crashed) == MatchingUnpinned(browse.filter, 0, crashed)

LEMMA RowsFit == \A d, x : d \in RowsFor(x) <=> d \in Fit(x) /\ Within(d)
BY DEF RowsFor, Matching, MatchingUnpinned, Fit, Within

\* The pin of the page at hand is no looser than the one the browse asks with.
LEMMA PinHolds ==
    ASSUME PagesInv PROVE \A d : Within(d) => browse.pin = 0 \/ d <= browse.pin
<1>1. browse.pin = IF browse.pins /\ browse.shown # <<>> THEN browse.shown[1] ELSE 0
  BY DEF PagesInv, PageInv
<1> QED BY <1>1 DEF Within, AheadPin, TopAhead

\* The rows of ds change, in what the filter looks at if looked.
LEMMA EditStep ==
    ASSUME PagesInv, NEW ds, NEW looked \in BOOLEAN, IsFiniteSet(ds), Touches(ds, looked),
           PagesTypeInv', newest <= newest',
           \A d \in 1 .. newest : d \in DOMAIN table' =>
               d \in DOMAIN table /\ table'[d].process = table[d].process,
           \A d : d \notin ds \/ ~looked =>
               /\ d \in Fit(SeenDead)' <=> d \in Fit(SeenDead)
               /\ d \in Fit(dead)' <=> d \in Fit(dead)
               /\ d \in DOMAIN table' => d \in DOMAIN table,
           ByState => looked /\
               \A d \in DOMAIN table' : d \notin ds =>
                  (table'[d].process \in dead' <=> table'[d].process \in dead)
    PROVE  PagesInv'
<1> DEFINE H == IF looked THEN { d \in ds : browse.pin = 0 \/ d <= browse.pin } ELSE {}
<1>1. /\ Browsing /\ browse' = browse /\ untouched' = untouched \ H
      /\ edits'.touching = edits.touching + Cardinality(H)
  BY DEF Touches
<1>2. IsFiniteSet(H)
  BY FS_Subset, FS_EmptySet
<1>3. \A d : Within(d) /\ d \notin H => d \notin ds \/ ~looked
  BY PinHolds
<1>4. /\ \A d : Within(d)' <=> Within(d)
      /\ (ByState' <=> ByState)
  BY <1>1 DEF Within, AheadPin, TopAhead, ByState
<1>5. newest \in Nat /\ newest' \in Nat /\ DOMAIN table' \subseteq 1 .. newest' /\ DOMAIN table \subseteq 1 .. newest
  BY DEF PagesInv, PagesTypeInv
<1>6. PageInv'
  <2>1. ASSUME NEW k \in 1 .. Len(browse.page)
        PROVE  /\ browse.page[k] \in 1 .. newest' /\ Within(browse.page[k])
               /\ browse.page[k] \in DOMAIN table' /\ ByState =>
                     (table'[browse.page[k]].process \in browse.seen <=> browse.filter = "crashed")
    <3>1. /\ browse.page[k] \in 1 .. newest /\ Within(browse.page[k])
          /\ browse.page[k] \in DOMAIN table /\ ByState =>
                (table[browse.page[k]].process \in browse.seen <=> browse.filter = "crashed")
      BY <2>1 DEF PagesInv, PageInv
    <3>2. browse.page[k] \in 1 .. newest'
      BY <1>5, <3>1
    <3> QED BY <3>1, <3>2
  <2>2. \A k \in 1 .. Len(browse.shown) : browse.shown[k] \in 1 .. newest'
    BY <1>5 DEF PagesInv, PageInv
  <2> QED BY <1>1, <1>4, <2>1, <2>2 DEF PagesInv, PageInv
<1>7. \A d : d \notin H => (d \in Listed' <=> d \in Listed) /\ (d \in Current' <=> d \in Current)
  <2> SUFFICES ASSUME NEW d, d \notin H
               PROVE  (d \in Listed' <=> d \in Listed) /\ (d \in Current' <=> d \in Current)
    OBVIOUS
  <2>1. /\ d \in Listed <=> d \in Fit(SeenDead) /\ Within(d)
        /\ d \in Current <=> d \in Fit(dead) /\ Within(d)
    BY RowsFit DEF Listed, Current
  <2>2. /\ d \in Listed' <=> d \in Fit(SeenDead)' /\ Within(d)'
        /\ d \in Current' <=> d \in Fit(dead)' /\ Within(d)'
    BY DEF Listed, Current, RowsFor, Matching, MatchingUnpinned, Fit, Within
  <2> QED BY <1>3, <1>4, <2>1, <2>2
<1>8. ASSUME ByState, NEW d, d \notin H, d \in Doubtful' PROVE d \in Doubtful
  <2>1. d \in DOMAIN table' /\ Within(d) /\ ~(table'[d].process \in browse.seen <=> table'[d].process \in dead')
    BY <1>1, <1>4, <1>8 DEF Doubtful
  <2>2. d \notin ds /\ d \in DOMAIN table /\ d \in 1 .. newest
    BY <1>3, <1>5, <1>8, <2>1
  <2>3. table'[d].process = table[d].process /\ (table'[d].process \in dead' <=> table'[d].process \in dead)
    BY <1>8, <2>1, <2>2
  <2> QED BY <2>1, <2>2, <2>3 DEF Doubtful
<1> HIDE DEF H
<1> QED BY <1>1, <1>2, <1>6, <1>7, <1>8, EditKeeps

\* What every change leaves of the types.
LEMMA TouchType ==
    ASSUME PagesInv, NEW ds, NEW looked \in BOOLEAN, IsFiniteSet(ds), Touches(ds, looked)
    PROVE  /\ edits' \in [all : Nat, touching : Nat] /\ untouched' \subseteq untouched /\ browse' = browse
           /\ looked => untouched' \cap ds = {}
<1> DEFINE H == IF looked THEN { d \in ds : browse.pin = 0 \/ d <= browse.pin } ELSE {}
<1>1. /\ Browsing /\ browse' = browse /\ untouched' = untouched \ H
      /\ edits' = [all |-> edits.all + 1, touching |-> edits.touching + Cardinality(H)]
  BY DEF Touches
<1>2. Cardinality(H) \in Nat
  BY FS_Subset, FS_EmptySet, FS_CardinalityType
<1>3. edits.all \in Nat /\ edits.touching \in Nat
  BY DEF PagesInv, PagesTypeInv
<1>4. \A d \in untouched : Within(d)
  <2>1. untouched \subseteq Listed
    BY <1>1 DEF PagesInv, MissInv
  <2> QED BY <2>1, RowsFit DEF Listed
<1>5. looked => untouched' \cap ds = {}
  BY <1>1, <1>4, PinHolds
<1> HIDE DEF H
<1>6. edits' \in [all : Nat, touching : Nat]
  BY <1>1, <1>2, <1>3
<1> QED BY <1>1, <1>5, <1>6

LEMMA RequestedKeeps ==
    ASSUME PagesInv, NEW p \in Processes, NEW row \in RowsOf(p), Requested(row) PROVE PagesInv'
<1>1. /\ newest' = newest + 1 /\ Touches({newest'}, TRUE) /\ UNCHANGED dead
      /\ table' = [d \in DOMAIN table \cup {newest'} |-> IF d = newest' THEN row ELSE table[d]]
  BY DEF Requested
<1>2. IsFiniteSet({newest'})
  BY FS_Singleton
<1>3. row \in RowType
  BY DEF RowsOf, RowType
<1>4. newest \in Nat /\ DOMAIN table \subseteq 1 .. newest /\ table \in [DOMAIN table -> RowType]
  BY DEF PagesInv, PagesTypeInv
<1>5. /\ edits' \in [all : Nat, touching : Nat] /\ untouched' \subseteq untouched /\ browse' = browse
  BY <1>1, <1>2, TouchType
<1>6. DOMAIN table' = DOMAIN table \cup {newest'} /\ newest' \notin DOMAIN table
  BY <1>1, <1>4
<1>7. \A d \in DOMAIN table : table'[d] = table[d]
  BY <1>1, <1>6
<1>8. table' \in [DOMAIN table' -> RowType] /\ DOMAIN table' \subseteq 1 .. newest' /\ newest' \in Nat
  BY <1>1, <1>3, <1>4, <1>6
<1>9. PagesTypeInv'
  BY <1>1, <1>5, <1>6, <1>8 DEF PagesInv, PagesTypeInv
<1>10. \A d \in 1 .. newest : d \in DOMAIN table' => d \in DOMAIN table /\ table'[d].process = table[d].process
  BY <1>1, <1>4, <1>6, <1>7
<1>11. \A d : d \notin {newest'} =>
               /\ d \in Fit(SeenDead)' <=> d \in Fit(SeenDead)
               /\ d \in Fit(dead)' <=> d \in Fit(dead)
               /\ d \in DOMAIN table' => d \in DOMAIN table
  BY <1>1, <1>5, <1>6, <1>7 DEF Fit, MatchingUnpinned, SeenDead
<1>12. newest <= newest'
  BY <1>1, <1>4
<1> QED BY <1>1, <1>2, <1>9, <1>10, <1>11, <1>12, EditStep

LEMMA DeletedKeeps == ASSUME PagesInv, NEW r \in DOMAIN table, DeletedRow(r) PROVE PagesInv'
<1>1. /\ Touches({r}, TRUE) /\ UNCHANGED <<newest, dead>>
      /\ table' = [e \in DOMAIN table \ {r} |-> table[e]]
  BY DEF DeletedRow
<1>2. IsFiniteSet({r})
  BY FS_Singleton
<1>3. newest \in Nat /\ DOMAIN table \subseteq 1 .. newest /\ table \in [DOMAIN table -> RowType]
      /\ untouched \subseteq DOMAIN table
  BY DEF PagesInv, PagesTypeInv
<1>4. /\ edits' \in [all : Nat, touching : Nat] /\ untouched' \subseteq untouched \ {r} /\ browse' = browse
  BY <1>1, <1>2, TouchType
<1>5. DOMAIN table' = DOMAIN table \ {r} /\ \A d \in DOMAIN table' : table'[d] = table[d]
  BY <1>1
<1>6. PagesTypeInv'
  BY <1>1, <1>3, <1>4, <1>5 DEF PagesInv, PagesTypeInv
<1>7. \A d \in 1 .. newest : d \in DOMAIN table' => d \in DOMAIN table /\ table'[d].process = table[d].process
  BY <1>5
<1>8. \A d : d \notin {r} =>
               /\ d \in Fit(SeenDead)' <=> d \in Fit(SeenDead)
               /\ d \in Fit(dead)' <=> d \in Fit(dead)
               /\ d \in DOMAIN table' => d \in DOMAIN table
  BY <1>1, <1>4, <1>5 DEF Fit, MatchingUnpinned, SeenDead
<1>9. newest <= newest'
  BY <1>1, <1>3
<1> QED BY <1>1, <1>2, <1>6, <1>7, <1>8, <1>9, EditStep

LEMMA SettlesKeeps == ASSUME PagesInv, NEW r \in DOMAIN table, Settles(r) PROVE PagesInv'
<1> DEFINE looked == browse.filter # "all"
<1>1. /\ Touches({r}, looked) /\ UNCHANGED <<newest, dead>>
      /\ table' = [table EXCEPT ![r].status = IF @ = "ready" THEN "failed" ELSE "ready"]
  BY DEF Settles
<1>2. IsFiniteSet({r}) /\ looked \in BOOLEAN
  BY FS_Singleton
<1>3. newest \in Nat /\ DOMAIN table \subseteq 1 .. newest /\ table \in [DOMAIN table -> RowType]
      /\ untouched \subseteq DOMAIN table
  BY DEF PagesInv, PagesTypeInv
<1>4. /\ edits' \in [all : Nat, touching : Nat] /\ untouched' \subseteq untouched /\ browse' = browse
  BY <1>1, <1>2, TouchType
<1>5. /\ DOMAIN table' = DOMAIN table /\ table' \in [DOMAIN table -> RowType]
      /\ \A d \in DOMAIN table' : table'[d].process = table[d].process
      /\ \A d \in DOMAIN table' : d # r => table'[d] = table[d]
  BY <1>1, <1>3 DEF RowType
<1>6. PagesTypeInv'
  BY <1>1, <1>3, <1>4, <1>5 DEF PagesInv, PagesTypeInv
<1>7. \A d \in 1 .. newest : d \in DOMAIN table' => d \in DOMAIN table /\ table'[d].process = table[d].process
  BY <1>5
<1>8. \A d : d \notin {r} \/ ~looked =>
               /\ d \in Fit(SeenDead)' <=> d \in Fit(SeenDead)
               /\ d \in Fit(dead)' <=> d \in Fit(dead)
               /\ d \in DOMAIN table' => d \in DOMAIN table
  BY <1>1, <1>4, <1>5 DEF Fit, MatchingUnpinned, SeenDead
<1>9. newest <= newest'
  BY <1>1, <1>3
<1>10. ByState => looked /\ \A d \in DOMAIN table' : d \notin {r} =>
                  (table'[d].process \in dead' <=> table'[d].process \in dead)
  BY <1>1 DEF ByState
<1> HIDE DEF looked
<1> QED BY <1>1, <1>2, <1>6, <1>7, <1>8, <1>9, <1>10, EditStep

LEMMA FlipsKeeps == ASSUME PagesInv, NEW p \in Processes, Flips(p) PROVE PagesInv'
<1> DEFINE looked == browse.filter \in {"ready", "crashed"}
           ds == { d \in DOMAIN table : table[d].process = p }
<1>1. /\ Touches(ds, looked) /\ UNCHANGED <<newest, table>>
      /\ dead' = (dead \cup {p}) \ (dead \cap {p})
  BY DEF Flips
<1>2. newest \in Nat /\ DOMAIN table \subseteq 1 .. newest /\ table \in [DOMAIN table -> RowType]
      /\ untouched \subseteq DOMAIN table /\ dead \in SUBSET Processes
  BY DEF PagesInv, PagesTypeInv
<1>3. IsFiniteSet(ds) /\ looked \in BOOLEAN
  <2>1. IsFiniteSet(1 .. newest)
    BY <1>2, FS_Interval
  <2>2. ds \subseteq 1 .. newest
    BY <1>2
  <2>3. looked \in BOOLEAN
    OBVIOUS
  <2> HIDE DEF ds, looked
  <2> QED BY <2>1, <2>2, <2>3, FS_Subset
<1>4. /\ edits' \in [all : Nat, touching : Nat] /\ untouched' \subseteq untouched /\ browse' = browse
  <2> HIDE DEF looked, ds
  <2> QED BY <1>1, <1>3, TouchType
<1>5. PagesTypeInv'
  BY <1>1, <1>2, <1>4 DEF PagesInv, PagesTypeInv
<1>6. \A d \in 1 .. newest : d \in DOMAIN table' => d \in DOMAIN table /\ table'[d].process = table[d].process
  BY <1>1
<1>7. \A q : q # p => (q \in dead' <=> q \in dead)
  BY <1>1
<1>8. \A d : d \notin ds \/ ~looked =>
               /\ d \in Fit(SeenDead)' <=> d \in Fit(SeenDead)
               /\ d \in Fit(dead)' <=> d \in Fit(dead)
               /\ d \in DOMAIN table' => d \in DOMAIN table
  <2> SUFFICES ASSUME NEW d \in DOMAIN table, d \notin ds \/ ~looked
               PROVE  /\ d \in Fit(SeenDead)' <=> d \in Fit(SeenDead)
                      /\ d \in Fit(dead)' <=> d \in Fit(dead)
    BY <1>1 DEF Fit, MatchingUnpinned
  <2>1. looked => (table[d].process \in dead' <=> table[d].process \in dead)
    BY <1>7
  <2>2. looked => (table[d].process \in SeenDead' <=> table[d].process \in SeenDead)
    BY <1>4, <2>1 DEF SeenDead
  <2> QED BY <1>1, <1>4, <2>1, <2>2 DEF Fit, MatchingUnpinned
<1>9. newest <= newest'
  BY <1>1, <1>2
<1>10. ByState => looked /\ \A d \in DOMAIN table' : d \notin ds =>
                  (table'[d].process \in dead' <=> table'[d].process \in dead)
  BY <1>1, <1>7 DEF ByState
<1> HIDE DEF looked, ds
<1> QED BY <1>1, <1>3, <1>5, <1>6, <1>8, <1>9, <1>10, EditStep

\* The steps of the browse itself.
LEMMA OpensKeeps ==
    ASSUME PagesInv, NEW filter \in Filters, NEW pins \in BOOLEAN, Opens(filter, pins)
    PROVE  PagesInv'
<1>1. /\ browse' = [pc |-> "asks", filter |-> filter, pins |-> pins, pin |-> 0, seen |-> {},
                    total |-> 0, page |-> <<>>, shown |-> <<>>, wrong |-> 0]
      /\ untouched' = Matching(filter, 0, dead) /\ edits' = [edits EXCEPT !.touching = 0]
      /\ UNCHANGED <<table, newest, dead>>
  BY DEF Opens, Closed
<1>2. untouched' \subseteq DOMAIN table'
  BY <1>1 DEF Matching, MatchingUnpinned
<1>3. edits' \in [all : Nat, touching : Nat] /\ edits'.touching = 0
  BY <1>1 DEF PagesInv, PagesTypeInv
<1>4. PagesTypeInv'
  <2>1. browse' \in [pc : {"closed", "asks", "counts", "lists", "shows", "done"}, filter : Filters,
                     pins : BOOLEAN, pin : Nat, seen : SUBSET Processes, total : Nat,
                     page : Seq(Nat), shown : Seq(Nat), wrong : Nat]
    <3>1. <<>> \in Seq(Nat)
      BY EmptySeq
    <3> QED BY <1>1, <3>1
  <2> QED BY <1>1, <1>2, <1>3, <2>1 DEF PagesInv, PagesTypeInv
<1>5. Len(browse'.shown) = 0 /\ Len(browse'.page) = 0
  BY <1>1, EmptySeq
<1>6. PageInv'
  BY <1>1, <1>5 DEF PageInv
<1>7. /\ Ahead' = {} /\ Far' = 0 /\ AheadPin' = 0 /\ SeenDead' = dead /\ Browsing'
      /\ AtEnd' = FALSE
  BY <1>1, <1>5 DEF Ahead, Far, AheadPin, TopAhead, SeenDead, Browsing, AtEnd
<1>8. PICK L : L = Listed' /\ L = Current' /\ untouched' = L
  BY <1>1, <1>7 DEF Listed, Current, RowsFor, Matching, MatchingUnpinned
<1>9. L \in SUBSET Nat /\ IsFiniteSet(L)
  <2>1. newest \in Nat /\ DOMAIN table \subseteq 1 .. newest
    BY DEF PagesInv, PagesTypeInv
  <2>2. IsFiniteSet(1 .. newest) /\ L \subseteq 1 .. newest /\ 1 .. newest \subseteq Nat
    BY <1>1, <1>2, <1>8, <2>1, FS_Interval
  <2> QED BY <2>2, FS_Subset
<1>10. L \ L = {} /\ Cardinality({}) = 0
  BY FS_EmptySet
<1>11. Again' = {} /\ Passed' = {}
  <2>1. \A d \in L : ~(Rank(L, d) <= 0)
    BY <1>9, Ranks
  <2> QED BY <1>7, <1>8, <2>1 DEF Again, Passed
<1>12. TwiceInv' /\ MissInv' /\ CountInv' /\ EndInv' /\ OverInv'
  <2>1. TwiceInv'
    <3>1. (Current \ Listed)' = {} /\ edits'.touching = 0
      BY <1>3, <1>8
    <3>2. 0 + 0 + 0 <= 0 + 0
      OBVIOUS
    <3> QED BY <1>7, <1>10, <1>11, <3>1, <3>2 DEF TwiceInv
  <2>2. MissInv'
    BY <1>3, <1>8, <1>10, <1>11 DEF MissInv
  <2>3. CountInv'
    BY <1>1 DEF CountInv
  <2>4. EndInv' /\ OverInv'
    BY <1>3, <1>7, <1>10 DEF EndInv, OverInv
  <2> QED BY <2>1, <2>2, <2>3, <2>4
<1>13. WrongInv'
  BY <1>1, <1>3 DEF WrongInv
<1> QED BY <1>4, <1>6, <1>12, <1>13 DEF PagesInv

LEMMA AsksKeeps == ASSUME PagesInv, Asks PROVE PagesInv'
<1>1. /\ browse.pc = "asks" /\ browse' = [browse EXCEPT !.pc = "counts", !.seen = dead]
      /\ UNCHANGED <<table, newest, dead, edits, untouched>>
  BY DEF Asks
<1>2. PagesTypeInv /\ PageInv /\ Browsing
  BY <1>1 DEF PagesInv, Browsing
<1>3. /\ browse'.pc = "counts" /\ browse'.seen = dead /\ browse'.page = browse.page
      /\ browse'.shown = browse.shown /\ browse'.filter = browse.filter /\ browse'.pins = browse.pins
      /\ browse'.pin = browse.pin /\ browse'.wrong = browse.wrong /\ browse.page = <<>>
  BY <1>1, <1>2 DEF PagesTypeInv, PageInv
<1>4. PagesTypeInv'
  BY <1>1, <1>2 DEF PagesTypeInv
<1>5. UNCHANGED <<Ahead, Far, AheadPin>> /\ \A d : Within(d)' <=> Within(d)
  BY <1>3 DEF Ahead, Far, AheadPin, TopAhead, Within
<1>6. PageInv'
  <2>1. Len(browse.page) = 0
    BY <1>3, EmptySeq
  <2> QED BY <1>1, <1>2, <1>3, <1>5, <2>1 DEF PageInv
<1>7. PICK L, M \in SUBSET Nat : L = Listed /\ M = Current /\ IsFiniteSet(L) /\ IsFiniteSet(M)
  BY <1>2, PagesSets DEF Listed, Current
<1>8. Listed' = M /\ Current' = M
  <2>1. SeenDead' = dead
    BY <1>3, <1>1 DEF SeenDead
  <2> QED BY <1>1, <1>3, <1>5, <1>7, <2>1 DEF Listed, Current, RowsFor, Matching, MatchingUnpinned
<1>9. PICK A, U \in SUBSET Nat, s, t \in Nat :
         /\ A = Ahead /\ U = untouched /\ s = Far /\ t = edits.touching
         /\ IsFiniteSet(A) /\ IsFiniteSet(U)
  BY <1>2, PagesSets
<1> DEFINE again(X) == { d \in A \cap X : Rank(X, d) > s }
           passed(X) == { d \in U \ A : Rank(X, d) <= s }
<1>10. s + Cardinality(again(L)) + Cardinality(M \ L) <= t + Cardinality(A)
  BY <1>2, <1>7, <1>9 DEF PagesInv, TwiceInv, Again
<1>11. U \subseteq L \cap M /\ Cardinality(passed(L)) + Cardinality(L \ M) <= t
  BY <1>2, <1>7, <1>9 DEF PagesInv, MissInv, Passed
<1>12. /\ \A X : X \in {L, M} => Cardinality(again(X)) \in Nat /\ Cardinality(passed(X)) \in Nat
       /\ Cardinality(M \ L) \in Nat /\ Cardinality(L \ M) \in Nat /\ Cardinality(A) \in Nat
  BY <1>7, <1>9, FS_Subset, FS_CardinalityType
<1>13. M \ M = {} /\ Cardinality({}) = 0
  BY FS_EmptySet
<1>14. TwiceInv'
  <2>1. Cardinality(again(M)) <= Cardinality(again(L)) + Cardinality(M \ L)
    BY <1>7, Overshoot
  <2>2. Again' = again(M) /\ Far' = s /\ Ahead' = A /\ edits'.touching = t
    BY <1>1, <1>5, <1>8, <1>9 DEF Again
  <2>3. Cardinality(again(L)) \in Nat /\ Cardinality(again(M)) \in Nat
    BY <1>12
  <2> HIDE DEF again
  <2>4. s + Cardinality(again(M)) + 0 <= t + Cardinality(A)
    BY <1>10, <1>12, <2>1, <2>3
  <2> QED BY <1>8, <1>13, <2>2, <2>4 DEF TwiceInv
<1>15. MissInv'
  <2>1. Cardinality(passed(M)) <= Cardinality(passed(L)) + Cardinality(L \ M)
    <3> DEFINE V == U \ A
    <3>1. V \in SUBSET (L \cap M)
      BY <1>11
    <3>2. IsFiniteSet(L) /\ IsFiniteSet(M)
      BY <1>7
    <3> HIDE DEF V
    <3>3. Cardinality({ d \in V : Rank(M, d) <= s })
             <= Cardinality({ d \in V : Rank(L, d) <= s }) + Cardinality(L \ M)
      BY <3>1, <3>2, Undershoot
    <3> QED BY <3>3 DEF V
  <2>2. Passed' = passed(M) /\ edits'.touching = t /\ untouched' = U
    BY <1>1, <1>5, <1>8, <1>9 DEF Passed
  <2>3. Cardinality(passed(L)) \in Nat /\ Cardinality(passed(M)) \in Nat
    BY <1>12
  <2> HIDE DEF passed
  <2>4. Cardinality(passed(M)) + 0 <= t
    BY <1>11, <1>12, <2>1, <2>3
  <2> QED BY <1>8, <1>11, <1>13, <2>2, <2>4 DEF MissInv
<1>16. CountInv' /\ EndInv'
  BY <1>3 DEF CountInv, EndInv, AtEnd
<1>17. OverInv'
  BY <1>1, <1>5 DEF OverInv, PagesInv
<1>18. WrongInv'
  <2>1. Doubtful' = {}
    BY <1>1, <1>3 DEF Doubtful
  <2>2. browse.wrong <= edits.touching /\ browse.wrong \in Nat
    BY <1>2, PagesSets DEF PagesInv, WrongInv
  <2> QED BY <1>1, <1>3, <1>13, <2>1, <2>2 DEF WrongInv
<1> QED BY <1>4, <1>6, <1>14, <1>15, <1>16, <1>17, <1>18 DEF PagesInv

LEMMA CountsKeeps == ASSUME PagesInv, Counts PROVE PagesInv'
<1>1. /\ browse.pc = "counts" /\ UNCHANGED <<table, newest, dead, edits, untouched>>
      /\ browse' = [browse EXCEPT !.pc = "lists",
                      !.total = Cardinality(Matching(browse.filter, browse.pin, browse.seen))]
  BY DEF Counts
<1>2. PagesTypeInv /\ PageInv /\ Browsing
  BY <1>1 DEF PagesInv, Browsing
<1>3. browse.page = <<>> /\ browse.pin = AheadPin /\ SeenDead = browse.seen
  BY <1>1, <1>2 DEF PageInv, AheadPin, TopAhead, SeenDead
<1>4. PICK L \in SUBSET Nat : L = Listed /\ IsFiniteSet(L) /\ Cardinality(L) \in Nat
  BY <1>2, PagesSets, FS_CardinalityType DEF Listed
<1>5. browse' = [browse EXCEPT !.pc = "lists", !.total = Cardinality(L)]
  BY <1>1, <1>3, <1>4 DEF Listed, RowsFor
<1>6. /\ browse'.pc = "lists" /\ browse'.total = Cardinality(L) /\ browse'.seen = browse.seen
      /\ browse'.page = browse.page /\ browse'.shown = browse.shown /\ browse'.filter = browse.filter
      /\ browse'.pins = browse.pins /\ browse'.pin = browse.pin /\ browse'.wrong = browse.wrong
  BY <1>2, <1>5 DEF PagesTypeInv
<1>7. PagesTypeInv'
  BY <1>1, <1>2, <1>4, <1>5 DEF PagesTypeInv
<1>8. UNCHANGED <<Ahead, Far, AheadPin, SeenDead, ByState>> /\ \A d : Within(d)' <=> Within(d)
  <2>1. UNCHANGED <<Ahead, Far, AheadPin, ByState>>
    BY <1>6 DEF Ahead, Far, AheadPin, TopAhead, ByState
  <2>2. SeenDead' = SeenDead
    BY <1>3, <1>6 DEF SeenDead
  <2> QED BY <2>1, <2>2 DEF Within
<1>9. PageInv'
  <2>1. Len(browse.page) = 0
    BY <1>3, EmptySeq
  <2> QED BY <1>1, <1>2, <1>3, <1>6, <1>8, <2>1 DEF PageInv
<1>10. Listed' = L /\ Current' = Current /\ Doubtful' = Doubtful
  BY <1>1, <1>4, <1>6, <1>8 DEF Listed, Current, RowsFor, Matching, MatchingUnpinned, Doubtful
<1>11. Again' = Again /\ Passed' = Passed
  BY <1>1, <1>4, <1>8, <1>10 DEF Again, Passed
<1>12. TwiceInv' /\ MissInv'
  BY <1>1, <1>2, <1>4, <1>8, <1>10, <1>11 DEF TwiceInv, MissInv, PagesInv
<1>13. CountInv'
  <2>1. Beyond' = {}
    <3>1. \A d : ~(Rank(L, d) > Cardinality(L))
      BY <1>4, Ranks
    <3> QED BY <1>6, <1>10, <3>1 DEF Beyond
  <2>2. PICK p, r, t \in Nat : /\ p = Cardinality(Passed) /\ t = edits.touching
                               /\ r = Cardinality(Listed \ Current)
    <3>1. IsFiniteSet(Passed) /\ IsFiniteSet(Listed \ Current) /\ edits.touching \in Nat
      BY <1>2, <1>4, PagesSets, FS_Subset DEF Passed
    <3> QED BY <3>1, FS_CardinalityType
  <2>3. p + r <= t
    BY <1>2, <2>2 DEF PagesInv, MissInv
  <2>4. p + 0 <= t
    BY <2>3
  <2> QED BY <1>1, <1>11, <2>1, <2>2, <2>4, FS_EmptySet DEF CountInv
<1>14. EndInv' /\ OverInv'
  BY <1>1, <1>6, <1>8 DEF EndInv, AtEnd, OverInv, PagesInv
<1>15. WrongInv'
  BY <1>1, <1>6, <1>8, <1>10 DEF WrongInv, PagesInv
<1> QED BY <1>7, <1>9, <1>12, <1>13, <1>14, <1>15 DEF PagesInv

\* The page: the rows of the next ranks, as many as there are or as it holds.
PageOf(L, s) ==
    [i \in 1 .. IF Cardinality(L) - s < PageSize THEN Cardinality(L) - s ELSE PageSize |-> AtRank(L, s + i)]

PageFollows(L, s, p, n) ==
    /\ p \in Seq(Nat) /\ Len(p) = n
    /\ \A i \in 1 .. n : p[i] \in L /\ Rank(L, p[i]) = s + i
    /\ n = 0 => Cardinality(L) <= s

LEMMA PageIsNext ==
    ASSUME NEW L \in SUBSET Nat, IsFiniteSet(L), NEW s \in Nat, NEW p, p = PageOf(L, s)
    PROVE  \E n \in Nat : PageFollows(L, s, p, n)
<1> DEFINE m == IF Cardinality(L) - s < PageSize THEN Cardinality(L) - s ELSE PageSize
<1>1. Cardinality(L) \in Nat /\ PageSize \in Nat \ {0}
  BY Ranks, DeployPagesAssumption
<1>2. PICK n \in Nat : 1 .. n = 1 .. m /\ s + n <= Cardinality(L) + s /\ (n = 0 => Cardinality(L) <= s)
                       /\ (n > 0 => s + n <= Cardinality(L))
  <2>1. CASE m < 0
    <3>1. 1 .. 0 = 1 .. m /\ Cardinality(L) <= s
      BY <1>1, <2>1
    <3> QED BY <1>1, <3>1
  <2>2. CASE ~(m < 0)
    <3>1. m \in Nat /\ (m = 0 => Cardinality(L) <= s) /\ (m > 0 => s + m <= Cardinality(L))
      BY <1>1, <2>2
    <3>2. s + m <= Cardinality(L) + s
      BY <1>1, <3>1
    <3> HIDE DEF m
    <3> QED BY <3>1, <3>2
  <2> QED BY <2>1, <2>2
<1> HIDE DEF m
<1>3. p = [i \in 1 .. n |-> AtRank(L, s + i)]
  BY <1>2 DEF m, PageOf
<1>4. ASSUME NEW i \in 1 .. n PROVE AtRank(L, s + i) \in L /\ Rank(L, AtRank(L, s + i)) = s + i
  <2>1. s + i \in 1 .. Cardinality(L)
    BY <1>1, <1>2, <1>4
  <2> QED BY <2>1, AtItsRank
<1>5. p \in [1 .. n -> Nat]
  BY <1>3, <1>4
<1>7. \A i \in 1 .. n : p[i] \in L /\ Rank(L, p[i]) = s + i
  BY <1>3, <1>4
<1>6. p \in Seq(Nat) /\ Len(p) = n
  <2>1. PICK f \in [1 .. n -> Nat] : f = p
    BY <1>5
  <2>2. f \in Seq(Nat) /\ Len(f) = n
    <3>1. f \in Seq(Nat)
      BY SeqDef
    <3>2. DOMAIN f = 1 .. n /\ DOMAIN f = 1 .. Len(f) /\ Len(f) \in Nat
      BY <3>1, LenProperties
    <3> QED BY <3>1, <3>2
  <2> QED BY <2>1, <2>2
<1>8. /\ p \in Seq(Nat) /\ Len(p) = n
      /\ \A i \in 1 .. n : p[i] \in L /\ Rank(L, p[i]) = s + i
      /\ n = 0 => Cardinality(L) <= s
  BY <1>2, <1>6, <1>7
<1> QED BY <1>8 DEF PageFollows

LEMMA ListsKeeps == ASSUME PagesInv, Lists PROVE PagesInv'
<1>1. /\ browse.pc = "lists" /\ UNCHANGED <<table, newest, dead, edits, untouched>>
  BY DEF Lists
<1>2. PagesTypeInv /\ PageInv /\ Browsing
  BY <1>1 DEF PagesInv, Browsing
<1>3. /\ browse.page = <<>> /\ browse.pin = AheadPin /\ SeenDead = browse.seen
      /\ Len(browse.page) = 0
  BY <1>1, <1>2, EmptySeq DEF PageInv, AheadPin, TopAhead, SeenDead
<1>4. PICK s \in Nat : s = Len(browse.shown) /\ s = Far
  <2>1. PICK s \in Nat : s = Len(browse.shown)
    BY <1>2 DEF PagesTypeInv
  <2>2. Far = s + 0
    BY <1>3, <2>1 DEF Far
  <2> QED BY <2>1, <2>2
<1>5. PICK L, M \in SUBSET Nat : L = Listed /\ M = Current /\ IsFiniteSet(L) /\ IsFiniteSet(M)
  BY <1>2, PagesSets DEF Listed, Current
<1>6. PICK p : /\ p = [i \in 1 .. IF Cardinality(L) - s < PageSize THEN Cardinality(L) - s ELSE PageSize |->
                         AtRank(L, s + i)]
               /\ browse' = [browse EXCEPT !.pc = "shows", !.page = p]
  BY <1>3, <1>4, <1>5 DEF Lists, Listed, RowsFor
<1>7. PICK n \in Nat : /\ p \in Seq(Nat) /\ Len(p) = n
                       /\ \A i \in 1 .. n : p[i] \in L /\ Rank(L, p[i]) = s + i
                       /\ n = 0 => Cardinality(L) <= s
  <2>1. p = PageOf(L, s)
    BY <1>6 DEF PageOf
  <2>2. IsFiniteSet(L)
    BY <1>5
  <2>3. s \in Nat /\ L \in SUBSET Nat
    BY <1>4, <1>5
  <2>4. PICK n \in Nat : PageFollows(L, s, p, n)
    BY <2>1, <2>2, <2>3, PageIsNext
  <2> QED BY <2>4 DEF PageFollows
<1>8. /\ browse'.pc = "shows" /\ browse'.total = browse.total /\ browse'.seen = browse.seen
      /\ browse'.page = p /\ browse'.shown = browse.shown /\ browse'.filter = browse.filter
      /\ browse'.pins = browse.pins /\ browse'.pin = browse.pin /\ browse'.wrong = browse.wrong
  BY <1>2, <1>6 DEF PagesTypeInv
<1>9. PagesTypeInv'
  BY <1>1, <1>2, <1>6, <1>7 DEF PagesTypeInv
\* A page may give the pin, which is then its first row.
<1>10. /\ \A d \in L : Within(d)'
       /\ \A d : Within(d)' => Within(d)
  <2>1. CASE browse.shown # <<>> \/ ~browse.pins \/ p = <<>>
    <3>1. AheadPin' = AheadPin
      BY <1>3, <1>8, <2>1 DEF AheadPin, TopAhead
    <3>2. \A d \in L : Within(d)
      BY <1>5, RowsFit DEF Listed
    <3> QED BY <3>1, <3>2 DEF Within
  <2>2. CASE browse.shown = <<>> /\ browse.pins /\ p # <<>>
    <3>1. AheadPin' = p[1] /\ AheadPin = 0
      BY <1>3, <1>8, <2>2 DEF AheadPin, TopAhead
    <3>2. s = 0 /\ n \in Nat \ {0}
      BY <1>4, <1>7, <2>2, EmptySeq
    <3>3. p[1] \in L /\ Rank(L, p[1]) = 1
      BY <1>7, <3>2
    <3>4. ASSUME NEW d \in L PROVE d <= p[1]
      <4>1. PICK q \in L : q = p[1]
        BY <3>3
      <4>2. Rank(L, q) = 1
        BY <3>3, <4>1
      <4>3. Rank(L, d) \in Nat /\ Rank(L, d) >= 1 /\ (q < d => Rank(L, d) < Rank(L, q))
        <5>1. IsFiniteSet(L)
          BY <1>5
        <5> QED BY <5>1, Ranks
      <4>4. ~(q < d) /\ q \in Nat /\ d \in Nat
        BY <4>2, <4>3
      <4> QED BY <4>1, <4>4
    <3> QED BY <3>1, <3>4 DEF Within
  <2> QED BY <2>1, <2>2
<1>11. PageInv'
  <2>1. ASSUME NEW i \in 1 .. n, NEW j \in 1 .. n, p[i] = p[j] PROVE i = j
    <3>1. s + i = s + j
      BY <1>7, <2>1
    <3> QED BY <3>1
  <2>2. ASSUME NEW i \in 1 .. n
        PROVE  /\ p[i] \in 1 .. newest /\ Within(p[i])'
               /\ p[i] \in DOMAIN table /\ ByState =>
                     (table[p[i]].process \in browse.seen <=> browse.filter = "crashed")
    <3>1. p[i] \in L
      BY <1>7
    <3>2. p[i] \in DOMAIN table /\ p[i] \in Fit(browse.seen)
      BY <1>2, <1>3, <1>5, <3>1, RowsFit, PagesSets DEF Listed
    <3>3. p[i] \in 1 .. newest
      BY <1>2, <3>2 DEF PagesTypeInv
    <3>4. ByState => (table[p[i]].process \in browse.seen <=> browse.filter = "crashed")
      BY <3>2 DEF Fit, MatchingUnpinned, ByState
    <3> QED BY <1>10, <3>1, <3>3, <3>4
  <2>3. ByState' <=> ByState
    BY <1>8 DEF ByState
  <2> QED BY <1>1, <1>2, <1>7, <1>8, <2>1, <2>2, <2>3 DEF PageInv
<1> DEFINE Q == { p[i] : i \in 1 .. n }
<1>12. IsFiniteSet(Q) /\ Cardinality(Q) = n /\ Q \subseteq L
  <2>1. p \in [1 .. n -> Q] /\ \A i, j \in 1 .. n : p[i] = p[j] => i = j
    <3>1. p \in [1 .. n -> Nat]
      BY <1>7
    <3>2. \A i, j \in 1 .. n : p[i] = p[j] => i = j
      BY <1>8, <1>7, <1>11 DEF PageInv
    <3> QED BY <3>1, <3>2
  <2>2. p \in Injection(1 .. n, Q) /\ p \in Surjection(1 .. n, Q)
    BY <2>1 DEF Injection, IsInjective, Surjection
  <2>3. IsFiniteSet(1 .. n) /\ Cardinality(1 .. n) = n
    BY FS_Interval
  <2>4. Q \subseteq L
    BY <1>7
  <2> HIDE DEF Q
  <2> QED BY <2>2, <2>3, <2>4, FS_Surjection
<1>13. PICK A, U \in SUBSET Nat, t, c \in Nat :
         /\ A = Ahead /\ U = untouched /\ t = edits.touching /\ c = browse.total
         /\ IsFiniteSet(A) /\ IsFiniteSet(U)
  BY <1>2, PagesSets
<1>14. Ahead' = A \cup Q /\ Far' = s + n /\ SeenDead' = SeenDead /\ Ahead = { browse.shown[i] : i \in 1 .. Len(browse.shown) }
  <2>1. Ahead' = { browse.shown[i] : i \in 1 .. Len(browse.shown) } \cup Q
    BY <1>7, <1>8 DEF Ahead
  <2>2. Ahead = { browse.shown[i] : i \in 1 .. Len(browse.shown) }
    BY <1>3 DEF Ahead
  <2>3. Far' = s + n
    BY <1>4, <1>7, <1>8 DEF Far
  <2>4. SeenDead' = SeenDead
    BY <1>3, <1>8 DEF SeenDead
  <2> QED BY <1>13, <2>1, <2>2, <2>3, <2>4
<1> HIDE DEF Q
<1>15. Listed' = L /\ Current' \subseteq M /\ L \cap M \subseteq Current'
  <2>1. \A d, x : d \in RowsFor(x)' <=> d \in Fit(x) /\ Within(d)'
    BY <1>1, <1>8 DEF RowsFor, Matching, MatchingUnpinned, Fit, Within
  <2>2. \A d : d \in L <=> d \in Fit(SeenDead) /\ Within(d)
    BY <1>5, RowsFit DEF Listed
  <2>3. \A d : d \in M <=> d \in Fit(dead) /\ Within(d)
    BY <1>5, RowsFit DEF Current
  <2>4. \A d : d \in Listed' <=> d \in Fit(SeenDead) /\ Within(d)'
    BY <1>3, <1>14, <2>1, <1>8 DEF Listed
  <2>5. \A d : d \in Current' <=> d \in Fit(dead) /\ Within(d)'
    BY <1>1, <2>1 DEF Current
  <2>6. Listed' = L
    <3>1. \A d : d \in Listed' <=> d \in L
      BY <1>10, <2>2, <2>4
    <3> QED BY <3>1
  <2> QED BY <1>10, <2>2, <2>3, <2>5, <2>6
<1>16. PICK N \in SUBSET Nat : N = Current' /\ IsFiniteSet(N)
  <2>1. PICK N : N = Current'
    OBVIOUS
  <2>2. N \subseteq M /\ IsFiniteSet(M)
    BY <1>5, <1>15, <2>1
  <2>3. IsFiniteSet(N) /\ N \in SUBSET Nat
    BY <2>2, FS_Subset
  <2> QED BY <2>1, <2>3
<1> DEFINE again  == { d \in A \cap L : Rank(L, d) > s }
           againN == { d \in (A \cup Q) \cap L : Rank(L, d) > s + n }
           passed  == { d \in U \ A : Rank(L, d) <= s }
           passedN == { d \in U \ (A \cup Q) : Rank(L, d) <= s + n }
           beyond  == { d \in U : Rank(L, d) > c }
<1>17. /\ Again = again /\ Again' = againN /\ Passed = passed /\ Passed' = passedN /\ Beyond = beyond
  BY <1>1, <1>4, <1>5, <1>13, <1>14, <1>15 DEF Again, Passed, Beyond
<1>18. /\ s + Cardinality(again) + Cardinality(M \ L) <= t + Cardinality(A)
       /\ U \subseteq L \cap M /\ Cardinality(passed) + Cardinality(L \ M) <= t
       /\ Cardinality(passed) + Cardinality(beyond) <= t
  <2> HIDE DEF again, passed, beyond
  <2> QED BY <1>1, <1>2, <1>4, <1>5, <1>13, <1>17 DEF PagesInv, TwiceInv, MissInv, CountInv
<1>19. /\ IsFiniteSet(again) /\ IsFiniteSet(againN) /\ IsFiniteSet(passed) /\ IsFiniteSet(passedN)
       /\ IsFiniteSet(beyond) /\ IsFiniteSet(M \ L) /\ IsFiniteSet(L \ M) /\ IsFiniteSet(N \ L) /\ IsFiniteSet(L \ N)
       /\ IsFiniteSet(A \cap Q) /\ IsFiniteSet(A \cup Q) /\ IsFiniteSet(U \ (A \cup Q))
  BY <1>5, <1>12, <1>13, <1>16, FS_Subset, FS_Union
<1>20. \A i \in 1 .. n : Rank(L, p[i]) = s + i /\ p[i] \in L
  BY <1>7
<1>21. /\ \A d \in Q : d \in L /\ Rank(L, d) > s /\ Rank(L, d) <= s + n
       /\ \A d \in L : Rank(L, d) > s /\ Rank(L, d) <= s + n => d \in Q
  <2>1. ASSUME NEW d \in Q PROVE d \in L /\ Rank(L, d) > s /\ Rank(L, d) <= s + n
    <3>1. PICK i \in 1 .. n : d = p[i]
      BY <2>1 DEF Q
    <3> QED BY <1>20, <3>1
  <2>2. ASSUME NEW d \in L, Rank(L, d) > s, Rank(L, d) <= s + n PROVE d \in Q
    <3>1. Rank(L, d) \in Nat
      BY <1>5, Ranks
    <3>2. PICK i \in 1 .. n : Rank(L, d) = s + i
      <4>1. Rank(L, d) - s \in 1 .. n /\ Rank(L, d) = s + (Rank(L, d) - s)
        BY <2>2, <3>1
      <4> QED BY <4>1
    <3>3. p[i] \in L /\ Rank(L, p[i]) = Rank(L, d)
      BY <1>20, <3>2
    <3>4. p[i] = d
      <4>1. PICK q \in L : q = p[i]
        BY <3>3
      <4>2. Rank(L, q) = Rank(L, d) /\ Rank(L, d) \in Nat
        BY <3>1, <3>3, <4>1
      <4>3. (q < d => Rank(L, d) < Rank(L, q)) /\ (d < q => Rank(L, q) < Rank(L, d))
        <5>1. IsFiniteSet(L)
          BY <1>5
        <5> QED BY <5>1, Ranks
      <4>4. ~(q < d) /\ ~(d < q) /\ q \in Nat /\ d \in Nat
        BY <4>2, <4>3
      <4> QED BY <4>1, <4>4
    <3> QED BY <3>4 DEF Q
  <2> QED BY <2>1, <2>2
<1>22. \A d : Rank(L, d) \in Nat
  BY <1>5, Ranks
<1>23. TwiceInv'
  <2>1. Cardinality(againN) + Cardinality(A \cap Q) <= Cardinality(again) + Cardinality({})
    <3>1. againN \cap (A \cap Q) = {}
      BY <1>21, <1>22
    <3>2. againN \cup (A \cap Q) \subseteq again \cup {}
      BY <1>21, <1>22
    <3> HIDE DEF again, againN
    <3>3. IsFiniteSet({})
      BY FS_EmptySet
    <3> QED BY <1>19, <3>1, <3>2, <3>3, Apart
  <2>2. Cardinality(A \cup Q) = Cardinality(A) + n - Cardinality(A \cap Q)
    BY <1>12, <1>13, FS_Union
  <2>3. Cardinality(N \ L) <= Cardinality(M \ L)
    <3>1. N \ L \subseteq M \ L
      BY <1>15, <1>16
    <3> QED BY <1>19, <3>1, FS_Subset
  <2>4. /\ Cardinality(again) \in Nat /\ Cardinality(againN) \in Nat /\ Cardinality(A \cap Q) \in Nat
        /\ Cardinality(A) \in Nat /\ Cardinality(A \cup Q) \in Nat /\ Cardinality({}) = 0
        /\ Cardinality(N \ L) \in Nat /\ Cardinality(M \ L) \in Nat
    <3> HIDE DEF again, againN
    <3> QED BY <1>13, <1>19, FS_CardinalityType, FS_EmptySet
  <2> HIDE DEF again, againN
  <2>5. (s + n) + Cardinality(againN) + Cardinality(N \ L) <= t + Cardinality(A \cup Q)
    BY <1>18, <2>1, <2>2, <2>3, <2>4
  <2>6. (Current \ Listed)' = N \ L /\ edits'.touching = t
    BY <1>1, <1>13, <1>15, <1>16
  <2> QED BY <1>14, <1>17, <2>5, <2>6 DEF TwiceInv
<1>24. passedN \subseteq passed
  <2> SUFFICES ASSUME NEW d \in U, d \notin A, d \notin Q, Rank(L, d) <= s + n PROVE Rank(L, d) <= s
    OBVIOUS
  <2>1. d \in L /\ Rank(L, d) \in Nat
    BY <1>18, <1>22
  <2>2. ~(Rank(L, d) > s)
    BY <1>21, <2>1
  <2> QED BY <2>1, <2>2
<1>25. /\ Cardinality(passed) \in Nat /\ Cardinality(passedN) \in Nat /\ Cardinality(beyond) \in Nat
       /\ Cardinality(L \ M) \in Nat /\ Cardinality(L \ N) \in Nat
       /\ Cardinality(U \ (A \cup Q)) \in Nat
       /\ Cardinality(passedN) <= Cardinality(passed)
  <2> HIDE DEF passed, passedN, beyond
  <2> QED BY <1>19, <1>24, FS_CardinalityType, FS_Subset
<1>26. MissInv'
  <2>1. L \ N = L \ M
    BY <1>15, <1>16
  <2>2. U \subseteq L \cap N
    BY <1>15, <1>16, <1>18
  <2> HIDE DEF passed, passedN
  <2>3. Cardinality(passedN) + Cardinality(L \ N) <= t
    <3>1. PICK x, y, z \in Nat : x = Cardinality(passedN) /\ y = Cardinality(passed) /\ z = Cardinality(L \ M)
      BY <1>25
    <3>2. x <= y /\ y + z <= t
      BY <1>18, <1>25, <3>1
    <3>3. x + z <= t
      BY <3>2
    <3> QED BY <2>1, <3>1, <3>3
  <2> QED BY <1>1, <1>13, <1>15, <1>16, <1>17, <2>2, <2>3 DEF MissInv
<1>27. CountInv'
  BY <1>8 DEF CountInv
<1>28. EndInv'
  <2> SUFFICES ASSUME AtEnd' PROVE Cardinality((untouched \ Ahead)') <= edits'.touching
    BY DEF EndInv
  <2>1. n = 0 \/ s + n >= c
    <3>1. p = <<>> \/ s + n >= c
      BY <1>8, <1>13, <1>14 DEF AtEnd
    <3> QED BY <1>7, <3>1, EmptySeq
  <2>2. U \ (A \cup Q) \subseteq passed \cup beyond
    <3> SUFFICES ASSUME NEW d \in U \ (A \cup Q), ~(Rank(L, d) <= s) PROVE Rank(L, d) > c
      OBVIOUS
    <3>1. d \in L /\ ~(Rank(L, d) <= s + n)
      BY <1>18, <1>21, <1>22
    <3>2. n # 0
      <4>1. Rank(L, d) <= Cardinality(L) /\ Cardinality(L) \in Nat
        BY <1>5, Ranks
      <4> QED BY <1>7, <1>22, <4>1
    <3> QED BY <1>22, <2>1, <3>1, <3>2
  <2>3. Cardinality(U \ (A \cup Q)) + Cardinality({}) <= Cardinality(passed) + Cardinality(beyond)
    <3>1. /\ (U \ (A \cup Q)) \cap {} = {}
          /\ (U \ (A \cup Q)) \cup {} \subseteq passed \cup beyond
      BY <2>2
    <3> HIDE DEF passed, beyond
    <3> QED BY <1>19, <3>1, Apart
  <2> HIDE DEF passed, beyond
  <2>4. Cardinality(U \ (A \cup Q)) <= t
    <3>1. Cardinality({}) = 0
      BY FS_EmptySet
    <3> QED BY <1>18, <1>25, <2>3, <3>1
  <2> QED BY <1>1, <1>13, <1>14, <2>4
<1>29. OverInv'
  <2>1. PICK f, a, b, e \in Nat : /\ f = Far' /\ a = Cardinality(againN) /\ b = Cardinality(N \ L)
                                  /\ e = edits'.touching
    <3> HIDE DEF againN
    <3>1. Cardinality(againN) \in Nat /\ Cardinality(N \ L) \in Nat
      BY <1>19, FS_CardinalityType
    <3>2. s + n \in Nat
      OBVIOUS
    <3>3. Far' \in Nat /\ edits'.touching \in Nat
      BY <1>1, <1>13, <1>14, <3>2
    <3> QED BY <3>1, <3>3
  <2>2. PICK g \in Nat : g = Cardinality(Ahead')
    BY <1>14, <1>19, FS_CardinalityType
  <2>3. f + a + b <= e + g
    <3> HIDE DEF againN
    <3> QED BY <1>15, <1>16, <1>17, <1>23, <2>1, <2>2 DEF TwiceInv
  <2>4. f <= e + g
    BY <2>3
  <2> QED BY <2>1, <2>2, <2>4 DEF OverInv
<1>30. WrongInv'
  <2>1. browse.wrong <= edits.touching /\ (ByState => browse.wrong + Cardinality(Doubtful) <= edits.touching)
    BY <1>1 DEF PagesInv, WrongInv
  <2>2. Doubtful' \subseteq Doubtful /\ IsFiniteSet(Doubtful)
    BY <1>1, <1>2, <1>8, <1>10, PagesSets DEF Doubtful
  <2>3. PICK x, y, w, e \in Nat : /\ x = Cardinality(Doubtful') /\ y = Cardinality(Doubtful)
                                  /\ w = browse.wrong /\ e = edits.touching
    BY <1>2, <2>2, FS_Subset, FS_CardinalityType, PagesSets
  <2>4. x <= y
    BY <2>2, <2>3, FS_Subset
  <2>5. w <= e /\ (ByState => w + x <= e)
    BY <2>1, <2>3, <2>4
  <2> QED BY <1>1, <1>8, <2>3, <2>5 DEF WrongInv, ByState
<1> QED BY <1>9, <1>11, <1>23, <1>26, <1>27, <1>28, <1>29, <1>30 DEF PagesInv

\* Showing the page moves it behind what was shown, and changes nothing else.
LEMMA ShowsKeeps == ASSUME PagesInv, ShowsPage PROVE PagesInv'
<1>1. /\ browse.pc = "shows" /\ UNCHANGED <<table, newest, dead, edits, untouched>>
  BY DEF ShowsPage
<1>2. PagesTypeInv /\ PageInv /\ Browsing
  BY <1>1 DEF PagesInv, Browsing
<1>3. PICK sh, pg \in Seq(Nat) : sh = browse.shown /\ pg = browse.page
  BY <1>2 DEF PagesTypeInv
<1>4. PICK s, n \in Nat : /\ s = Len(sh) /\ n = Len(pg)
                          /\ (pg = <<>> <=> n = 0) /\ (sh = <<>> <=> s = 0)
  BY <1>3, EmptySeq, LenProperties
<1>5. PICK all \in Seq(Nat) : /\ all = sh \o pg /\ Len(all) = s + n
                              /\ \A i \in 1 .. s + n : all[i] = IF i <= s THEN sh[i] ELSE pg[i - s]
  <2>1. /\ sh \o pg \in Seq(Nat) /\ Len(sh \o pg) = Len(sh) + Len(pg)
        /\ \A i \in 1 .. Len(sh) + Len(pg) :
              (sh \o pg)[i] = IF i <= Len(sh) THEN sh[i] ELSE pg[i - Len(sh)]
    BY <1>3, ConcatProperties
  <2>2. PICK all : all = sh \o pg
    OBVIOUS
  <2>3. all \in Seq(Nat) /\ Len(all) = s + n
    BY <1>4, <2>1, <2>2
  <2>4. \A i \in 1 .. s + n : all[i] = IF i <= s THEN sh[i] ELSE pg[i - s]
    BY <1>4, <2>1, <2>2
  <2> QED BY <2>2, <2>3, <2>4
<1>6. all = <<>> <=> s + n = 0
  BY <1>5, EmptySeq
<1> DEFINE top == IF all = <<>> THEN 0 ELSE all[1]
           w == IF browse.filter \in {"ready", "crashed"} THEN ShownWrong(browse.page) ELSE 0
           pc == IF browse.page = <<>> \/ Len(all) >= browse.total THEN "done" ELSE "asks"
           pin == IF browse.pins THEN top ELSE 0
<1>7. browse' = [browse EXCEPT !.pc = pc, !.shown = all, !.page = <<>>, !.pin = pin, !.wrong = @ + w]
  BY <1>3, <1>5 DEF ShowsPage
<1>8. /\ browse'.pc = pc /\ browse'.total = browse.total /\ browse'.seen = browse.seen
      /\ browse'.page = <<>> /\ browse'.shown = all /\ browse'.filter = browse.filter
      /\ browse'.pins = browse.pins /\ browse'.pin = pin /\ browse'.wrong = browse.wrong + w
  <2> HIDE DEF pc, pin, w
  <2> QED BY <1>2, <1>7 DEF PagesTypeInv
<1>9. top \in Nat
  <2>1. s + n \in Nat /\ (s + n # 0 => 1 \in 1 .. Len(all))
    BY <1>4, <1>5
  <2>2. all \in [1 .. Len(all) -> Nat]
    BY <1>5, LenProperties
  <2> QED BY <1>6, <2>1, <2>2
\* A row that its page shows with a state the filter excludes is doubtful.
<1>10. w \in Nat /\ (ByState => w <= Cardinality(Doubtful)) /\ (~ByState => w = 0)
  <2>1. IsFiniteSet(Doubtful) /\ Cardinality(Doubtful) \in Nat
    BY <1>2, PagesSets, FS_CardinalityType
  <2>2. CASE ByState
    <3> DEFINE I == { i \in DOMAIN pg : pg[i] \in DOMAIN table /\
                        (table[pg[i]].process \in dead) # (browse.filter = "crashed") }
               g == [i \in I |-> pg[i]]
    <3>1. DOMAIN pg = 1 .. n
      BY <1>3, <1>4, LenProperties
    <3>2. ASSUME NEW i \in I PROVE pg[i] \in Doubtful
      <4>1. /\ i \in 1 .. n /\ pg[i] \in DOMAIN table
            /\ ~(table[pg[i]].process \in dead <=> browse.filter = "crashed")
        BY <3>1
      <4>2. Within(pg[i]) /\ (table[pg[i]].process \in browse.seen <=> browse.filter = "crashed")
        BY <1>2, <1>3, <1>4, <2>2, <4>1 DEF PageInv
      <4> QED BY <4>1, <4>2 DEF Doubtful
    <3>3. \A i, j \in I : pg[i] = pg[j] => i = j
      BY <1>2, <1>3, <1>4, <3>1 DEF PageInv
    <3> HIDE DEF I
    <3>4. g \in Injection(I, Doubtful)
      BY <3>2, <3>3 DEF Injection, IsInjective
    <3>5. IsFiniteSet(I) /\ Cardinality(I) <= Cardinality(Doubtful)
      BY <2>1, <3>4, FS_Injection
    <3>6. Cardinality(I) \in Nat
      BY <3>5, FS_CardinalityType
    <3>7. w = Cardinality(I)
      BY <1>3, <2>2 DEF ShownWrong, ByState, I
    <3> QED BY <2>2, <3>5, <3>6, <3>7
  <2>3. CASE ~ByState
    BY <2>3 DEF ByState
  <2> QED BY <2>2, <2>3
<1>11. pin \in Nat /\ pc \in {"done", "asks"}
  BY <1>9
<1> HIDE DEF w
<1>12. PagesTypeInv'
  <2>1. browse.wrong + w \in Nat
    BY <1>2, <1>10 DEF PagesTypeInv
  <2>2. <<>> \in Seq(Nat) /\ all \in Seq(Nat)
    BY <1>5, EmptySeq
  <2>3. browse' \in [pc : {"closed", "asks", "counts", "lists", "shows", "done"}, filter : Filters,
                     pins : BOOLEAN, pin : Nat, seen : SUBSET Processes, total : Nat,
                     page : Seq(Nat), shown : Seq(Nat), wrong : Nat]
    <3> DEFINE ww == browse.wrong + w
    <3>1. ww \in Nat
      BY <2>1
    <3>2. browse' = [browse EXCEPT !.pc = pc, !.shown = all, !.page = <<>>, !.pin = pin, !.wrong = ww]
      BY <1>7
    <3> HIDE DEF ww, pc, pin
    <3> QED BY <1>2, <1>11, <2>2, <3>1, <3>2 DEF PagesTypeInv
  <2> QED BY <1>1, <1>2, <2>3 DEF PagesTypeInv
<1>13. Far' = Far /\ Far = s + n
  <2>1. Far = s + n
    BY <1>3, <1>4 DEF Far
  <2>2. Far' = (s + n) + 0
    BY <1>5, <1>8, EmptySeq DEF Far
  <2>3. s + n \in Nat
    OBVIOUS
  <2> QED BY <2>1, <2>2, <2>3
<1>14. AheadPin' = AheadPin /\ AheadPin' = pin /\ \A d : Within(d)' <=> Within(d)
  <2>1. TopAhead' = top
    BY <1>8 DEF TopAhead
  <2>2. TopAhead = top
    <3>1. TopAhead = IF s # 0 THEN sh[1] ELSE IF n # 0 THEN pg[1] ELSE 0
      BY <1>3, <1>4 DEF TopAhead
    <3>2. s # 0 => 1 \in 1 .. s + n /\ 1 <= s
      OBVIOUS
    <3>3. s = 0 /\ n # 0 => 1 \in 1 .. s + n /\ ~(1 <= s) /\ 1 - s = 1
      OBVIOUS
    <3>4. s = 0 /\ n = 0 <=> s + n = 0
      OBVIOUS
    <3>5. CASE s # 0
      BY <1>5, <1>6, <3>1, <3>2, <3>4, <3>5
    <3>6. CASE s = 0 /\ n # 0
      BY <1>5, <1>6, <3>1, <3>3, <3>4, <3>6
    <3>7. CASE s = 0 /\ n = 0
      BY <1>6, <3>1, <3>4, <3>7
    <3> QED BY <3>5, <3>6, <3>7
  <2>3. AheadPin' = AheadPin /\ AheadPin' = pin
    BY <1>8, <2>1, <2>2 DEF AheadPin
  <2> QED BY <2>3 DEF Within
<1>15. Ahead' = Ahead
  <2> DEFINE S == { sh[i] : i \in 1 .. s }
             P == { pg[i] : i \in 1 .. n }
             T == { all[i] : i \in 1 .. s + n }
  <2>1. Ahead = S \cup P
    BY <1>3, <1>4 DEF Ahead
  <2>2. Ahead' = T
    <3>1. Len(<<>>) = 0
      BY EmptySeq
    <3> QED BY <1>5, <1>8, <3>1 DEF Ahead
  <2>3. T \subseteq S \cup P
    <3> SUFFICES ASSUME NEW i \in 1 .. s + n PROVE all[i] \in S \cup P
      OBVIOUS
    <3>1. CASE i <= s
      <4>1. i \in 1 .. s /\ all[i] = sh[i]
        BY <1>5, <3>1
      <4> QED BY <4>1
    <3>2. CASE ~(i <= s)
      <4>1. i - s \in 1 .. n /\ all[i] = pg[i - s]
        BY <1>5, <3>2
      <4> QED BY <4>1
    <3> QED BY <3>1, <3>2
  <2>4. S \subseteq T
    <3> SUFFICES ASSUME NEW i \in 1 .. s PROVE sh[i] \in T
      OBVIOUS
    <3>1. i \in 1 .. s + n /\ i <= s
      OBVIOUS
    <3>2. all[i] = sh[i]
      BY <1>5, <3>1
    <3> QED BY <3>1, <3>2
  <2>5. P \subseteq T
    <3> SUFFICES ASSUME NEW i \in 1 .. n PROVE pg[i] \in T
      OBVIOUS
    <3>1. s + i \in 1 .. s + n /\ ~(s + i <= s) /\ (s + i) - s = i
      OBVIOUS
    <3>2. all[s + i] = pg[i]
      BY <1>5, <3>1
    <3> QED BY <3>1, <3>2
  <2> QED BY <2>1, <2>2, <2>3, <2>4, <2>5
<1>16. SeenDead' = SeenDead
  <2>1. SeenDead = browse.seen
    BY <1>1 DEF SeenDead
  <2>2. browse'.pc = "asks" => browse'.shown # <<>>
    <3>1. pg # <<>> => s + n # 0
      BY <1>4
    <3> QED BY <1>3, <1>6, <1>8, <3>1
  <2> QED BY <1>8, <2>1, <2>2 DEF SeenDead
<1>17. Listed' = Listed /\ Current' = Current
  <2> HIDE DEF pc, pin
  <2>1. browse'.filter = browse.filter /\ AheadPin' = AheadPin
    BY <1>8, <1>14
  <2> QED BY <1>1, <1>16, <2>1 DEF Listed, Current, RowsFor, Matching, MatchingUnpinned
<1>18. Again' = Again /\ Passed' = Passed
  BY <1>1, <1>13, <1>15, <1>17 DEF Again, Passed
<1>19. PageInv'
  <2>1. \A i \in 1 .. Len(all) : all[i] \in 1 .. newest
    <3>1. \A d \in Ahead : d \in 1 .. newest
      BY <1>2, PagesSets
    <3>2. \A i \in 1 .. Len(all) : all[i] \in Ahead'
      BY <1>8 DEF Ahead
    <3> QED BY <1>15, <3>1, <3>2
  <2>2. Len(<<>>) = 0 /\ 1 .. 0 = {}
    BY EmptySeq
  <2>3. browse'.pin = IF browse'.pins /\ browse'.shown # <<>> THEN browse'.shown[1] ELSE 0
    BY <1>8
  <2> HIDE DEF pin, pc
  <2> QED BY <1>1, <1>8, <1>11, <2>1, <2>2, <2>3 DEF PageInv
<1>20. TwiceInv' /\ MissInv' /\ OverInv'
  <2>1. TwiceInv /\ MissInv /\ OverInv
    BY <1>2 DEF PagesInv
  <2> QED BY <1>1, <1>13, <1>15, <1>17, <1>18, <2>1 DEF TwiceInv, MissInv, OverInv
<1>21. CountInv'
  BY <1>8, <1>11 DEF CountInv
<1>22. EndInv'
  <2>1. AtEnd' => AtEnd
    <3>1. AtEnd' => browse'.pc = "done"
      BY <1>8, <1>11 DEF AtEnd
    <3>2. browse'.pc = "done" => browse.page = <<>> \/ Far >= browse.total
      BY <1>5, <1>8, <1>13
    <3> QED BY <1>1, <3>1, <3>2 DEF AtEnd
  <2> QED BY <1>1, <1>15, <2>1 DEF EndInv, PagesInv
<1>23. WrongInv'
  <2>1. PICK x, v, t \in Nat : x = Cardinality(Doubtful) /\ v = browse.wrong /\ t = edits.touching
    BY <1>2, PagesSets, FS_CardinalityType
  <2>2. v <= t /\ (ByState => v + x <= t)
    BY <1>1, <2>1 DEF PagesInv, WrongInv
  <2>3. v + w <= t
    <3>1. CASE ByState
      BY <1>10, <2>1, <2>2, <3>1
    <3>2. CASE ~ByState
      BY <1>10, <2>1, <2>2, <3>2
    <3> QED BY <3>1, <3>2
  <2>4. browse'.pc \notin {"counts", "lists", "shows"}
    BY <1>8, <1>11
  <2> QED BY <1>1, <1>8, <2>1, <2>3, <2>4 DEF WrongInv
<1> QED BY <1>12, <1>19, <1>20, <1>21, <1>22, <1>23 DEF PagesInv

LEMMA PagesStart == ASSUME PagesInit PROVE PagesInv
<1>1. /\ newest = 2 /\ table \in [1 .. 2 -> UNION { RowsOf(p) : p \in Processes }]
      /\ dead = {} /\ edits = [all |-> 0, touching |-> 0] /\ untouched = {}
      /\ browse = [pc |-> "closed", filter |-> "all", pins |-> FALSE, pin |-> 0, seen |-> {},
                   total |-> 0, page |-> <<>>, shown |-> <<>>, wrong |-> 0]
  BY DEF PagesInit, Closed
<1>2. PagesTypeInv
  <2>1. table \in [DOMAIN table -> RowType] /\ DOMAIN table = 1 .. 2
    <3>1. UNION { RowsOf(p) : p \in Processes } \subseteq RowType
      BY DEF RowsOf, RowType
    <3> QED BY <1>1, <3>1
  <2>2. <<>> \in Seq(Nat)
    BY EmptySeq
  <2> QED BY <1>1, <2>1, <2>2 DEF PagesTypeInv, Filters
<1>3. Len(<<>>) = 0 /\ 1 .. 0 = {} /\ Cardinality({}) = 0
  BY EmptySeq, FS_EmptySet
<1>4. PageInv
  BY <1>1, <1>3 DEF PageInv
<1>5. Ahead = {} /\ Far = 0 /\ ~Browsing /\ ~AtEnd
  BY <1>1, <1>3 DEF Ahead, Far, Browsing, AtEnd
<1>6. EndInv /\ WrongInv /\ OverInv
  BY <1>1, <1>3, <1>5 DEF EndInv, WrongInv, OverInv
<1> QED BY <1>2, <1>4, <1>5, <1>6 DEF PagesInv

LEMMA PagesStutter == ASSUME PagesInv, UNCHANGED pagesVars PROVE PagesInv'
<1>1. UNCHANGED <<table, newest, dead, browse, edits, untouched>>
  BY DEF pagesVars
<1>2. /\ UNCHANGED <<AheadPin, SeenDead, Far, Ahead, Doubtful>> /\ \A d : Within(d)' <=> Within(d)
  BY <1>1 DEF AheadPin, TopAhead, SeenDead, Far, Ahead, Within, Doubtful
<1>3. UNCHANGED <<Listed, Current>>
  BY <1>1, <1>2 DEF Listed, Current, RowsFor, Matching, MatchingUnpinned
<1>4. UNCHANGED <<Again, Passed, Beyond>>
  BY <1>1, <1>2, <1>3 DEF Again, Passed, Beyond
<1>5. PagesTypeInv' /\ PageInv'
  BY <1>1, <1>2 DEF PagesInv, PagesTypeInv, PageInv, ByState
<1>6. EndInv' /\ WrongInv' /\ OverInv'
  BY <1>1, <1>2 DEF PagesInv, EndInv, AtEnd, WrongInv, ByState, OverInv
<1>7. Browsing' => TwiceInv' /\ MissInv' /\ CountInv'
  <2>1. Browsing' => Browsing
    BY <1>1 DEF Browsing
  <2> QED BY <1>1, <1>2, <1>3, <1>4, <2>1 DEF PagesInv, TwiceInv, MissInv, CountInv
<1> QED BY <1>5, <1>6, <1>7 DEF PagesInv

LEMMA PagesStep == PagesInv /\ [PagesNext]_pagesVars => PagesInv'
<1> SUFFICES ASSUME PagesInv, [PagesNext]_pagesVars PROVE PagesInv'
  OBVIOUS
<1>1. CASE \E f \in Filters, pins \in BOOLEAN : Opens(f, pins)
  BY <1>1, OpensKeeps
<1>2. CASE Asks
  BY <1>2, AsksKeeps
<1>3. CASE Counts
  BY <1>3, CountsKeeps
<1>4. CASE Lists
  BY <1>4, ListsKeeps
<1>5. CASE ShowsPage
  BY <1>5, ShowsKeeps
<1>6. CASE \E p \in Processes : Flips(p) \/ \E row \in RowsOf(p) : Requested(row)
  BY <1>6, FlipsKeeps, RequestedKeeps
<1>7. CASE \E d \in DOMAIN table : DeletedRow(d) \/ Settles(d)
  BY <1>7, DeletedKeeps, SettlesKeeps
<1>8. CASE UNCHANGED pagesVars
  BY <1>8, PagesStutter
<1> QED BY <1>1, <1>2, <1>3, <1>4, <1>5, <1>6, <1>7, <1>8 DEF PagesNext

\* The types of the listing and of a browse of it.
THEOREM PagesTyped == PagesSpec => []PagesTypeOK
<1>1. PagesInv => PagesTypeOK
  <2> SUFFICES ASSUME PagesTypeInv PROVE PagesTypeOK
    BY DEF PagesInv
  <2>1. ASSUME NEW r \in RowType PROVE r \in UNION { RowsOf(p) : p \in Processes }
    <3>1. r.process \in Processes /\ r \in RowsOf(r.process)
      BY DEF RowType, RowsOf
    <3> QED BY <3>1
  <2> QED BY <2>1 DEF PagesTypeInv, PagesTypeOK
<1> QED BY <1>1, PagesStart, PagesStep, PTL DEF PagesSpec

\* A sequence has no more elements than its length.
LEMMA Elements ==
    ASSUME NEW q \in Seq(Nat)
    PROVE  /\ IsFiniteSet({ q[i] : i \in 1 .. Len(q) })
           /\ Cardinality({ q[i] : i \in 1 .. Len(q) }) <= Len(q)
<1> DEFINE E == { q[i] : i \in 1 .. Len(q) }
<1>1. Len(q) \in Nat /\ q \in [1 .. Len(q) -> E]
  BY LenProperties
<1>2. q \in Surjection(1 .. Len(q), E)
  BY <1>1 DEF Surjection
<1>3. IsFiniteSet(1 .. Len(q)) /\ Cardinality(1 .. Len(q)) = Len(q)
  BY <1>1, FS_Interval
<1> HIDE DEF E
<1>4. IsFiniteSet(E) /\ Cardinality(E) <= Len(q)
  BY <1>2, <1>3, FS_Surjection
<1> QED BY <1>4 DEF E

\* A change between two pages of the deploys list shifts the window and corrupts
\* nothing: the rows a browse shows twice, those it should have shown and never
\* did, and those it shows with a state their filter excludes are each no more
\* than the changes, since it was opened, of rows it looks at.
THEOREM PagesShift == PagesSpec => []WindowOnlyShifts
<1>1. PagesInv => WindowOnlyShifts
  <2> SUFFICES ASSUME PagesInv PROVE WindowOnlyShifts
    OBVIOUS
  <2>1. PagesTypeInv /\ PageInv
    BY DEF PagesInv
  <2>2. PICK sh, pg \in Seq(Nat) : sh = browse.shown /\ pg = browse.page
    BY <2>1 DEF PagesTypeInv
  <2> DEFINE S == { sh[i] : i \in 1 .. Len(sh) }
             P == { pg[i] : i \in 1 .. Len(pg) }
  <2>3. ShownSet = S /\ Ahead = S \cup P
    <3>1. DOMAIN sh = 1 .. Len(sh)
      BY <2>2, LenProperties
    <3> QED BY <2>2, <3>1 DEF ShownSet, Ahead
  <2>4. /\ IsFiniteSet(S) /\ IsFiniteSet(P) /\ Cardinality(P) <= Len(pg)
        /\ Len(sh) \in Nat /\ Len(pg) \in Nat
    BY <2>2, Elements, LenProperties
  <2>5. edits.touching \in Nat /\ (browse.pc = "done" => pg = <<>>)
    BY <2>1, <2>2, PagesSets DEF PageInv
  <2>6. pg = <<>> => P = {}
    BY EmptySeq
  <2> HIDE DEF S, P
  <2>7. PICK a, b, k, s, n, t \in Nat :
          /\ a = Cardinality(S \cup P) /\ b = Cardinality(S) /\ k = Cardinality(P)
          /\ s = Len(sh) /\ n = Len(pg) /\ t = edits.touching /\ a <= b + k /\ k <= n
    <3>1. /\ IsFiniteSet(S \cup P) /\ Cardinality(S \cap P) \in Nat
          /\ Cardinality(S \cup P) = Cardinality(S) + Cardinality(P) - Cardinality(S \cap P)
      BY <2>4, FS_Union, FS_Intersection, FS_CardinalityType
    <3>2. Cardinality(S) \in Nat /\ Cardinality(P) \in Nat /\ Cardinality(S \cup P) \in Nat
      BY <2>4, <3>1, FS_CardinalityType
    <3>3. Cardinality(S \cup P) <= Cardinality(S) + Cardinality(P)
      BY <3>1, <3>2
    <3> QED BY <2>4, <2>5, <3>2, <3>3
  <2>8. s + n <= t + a
    BY <2>2, <2>3, <2>7 DEF PagesInv, OverInv, Far
  <2>9. s - b <= t
    BY <2>7, <2>8
  <2>10. browse.pc = "done" => Cardinality(untouched \ ShownSet) <= edits.touching
    <3>1. browse.pc = "done" => Ahead = ShownSet
      BY <2>3, <2>5, <2>6
    <3> QED BY <3>1 DEF PagesInv, EndInv, AtEnd
  <2>11. browse.wrong <= edits.touching
    BY DEF PagesInv, WrongInv
  <2> QED BY <2>2, <2>3, <2>7, <2>9, <2>10, <2>11 DEF WindowOnlyShifts
<1> QED BY <1>1, PagesStart, PagesStep, PTL DEF PagesSpec
===============================================================================
