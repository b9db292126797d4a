-------------------------- MODULE BuildQueueProofs --------------------------
(***************************************************************************)
(* What holds of the deploy pipeline for every set of deploys, workers,    *)
(* requests and evictions: an inductive invariant of BuildQueue, and from  *)
(* it that no deploy is forgotten and that one worker builds an address.   *)
(* What a deploy's status then says is module BuildQueueMoreProofs.        *)
(***************************************************************************)
EXTENDS BuildQueue, TLAPS

SidePC     == {"load", "mark", "flag", "hash", "cache", "provision", "state",
               "record", "finish", "reload", "fail"}
DownloadPC == {"artifact", "built", "unbuilt"}
BuildPC    == {"build", "publish", "replace"}

RowSet     == [status : Statuses, hashed : BOOLEAN,
               dl : {None, "building", "ready", "failed"}]
WorkerSet  == [pc : WorkerPC, d : Deploys \cup {None},
               side : {"side", "download"}, rebuild : BOOLEAN]
CallerSet  == [pc : {"idle", "create", "reset", "flag", "send"},
               d : Deploys \cup {None}, rebuild : BOOLEAN]
Snapshots  == [d : Deploys, hashes : SUBSET Hashes]
CleanerSet == [pc : {"idle", "mark", "survey", "drop", "files", "state"},
               todo : SUBSET Snapshots, d : Snapshots \cup {None},
               live : SUBSET Hashes]

\* A row has a status of its own; only a deploy with a download records one.
RowInv ==
    /\ row \in [Deploys -> RowSet]
    /\ \A d \in Deploys : /\ ~Exists(d) => ~row[d].hashed
                          /\ row[d].dl # None => row[d].hashed
                          /\ row[d].dl # None => Download[d] # None

\* A busy worker has a deploy and is at a place of the side it builds.
WorkerInv ==
    /\ worker \in [Workers -> WorkerSet]
    /\ \A w \in Workers :
          /\ worker[w].pc = "idle" => worker[w].d = None /\ worker[w].side = "side"
          /\ worker[w].pc # "idle" => worker[w].d \in Deploys
          /\ worker[w].pc \in SidePC => worker[w].side = "side"
          /\ worker[w].pc \in DownloadPC => worker[w].side = "download"
          /\ worker[w].side = "download" => Download[worker[w].d] # None

CallerInv ==
    /\ caller \in [Callers -> CallerSet]
    /\ \A c \in Callers : caller[c].pc # "idle" => caller[c].d \in Deploys

CleanerInv == cleaner \in [Cleaners -> CleanerSet]

\* The disk holds content addresses, of sides where only sides go.
DiskInv == files \subseteq Hashes /\ state \subseteq Sides /\ arow \subseteq Sides

MemoryInv ==
    /\ ctx \in {"up", "stopping", "down"}
    /\ work \in Seq(Deploys) /\ Len(work) <= WorkCap
    /\ rebuild \subseteq Deploys
    /\ listed \in BOOLEAN /\ resume \subseteq Deploys
    /\ ctx = "down" => ~listed

BoundInv == /\ broken \subseteq Fragile /\ strays \subseteq Sides
            /\ asked \in 0..Asks /\ rounds \in 0..Rounds /\ lives \in 1..Lives
            /\ ctx # "up" => lives < Lives

\* The flight of an address is entered for exactly the worker that builds it,
\* and whoever joined one has somebody to wait for.
FlightInv ==
    /\ flight \in [Hashes -> Workers \cup {None}]
    /\ \A h \in Hashes, w \in Workers :
          flight[h] = w <=> worker[w].pc \in BuildPC /\ Hash(w) = h
JoinInv ==
    \A w \in Workers : worker[w].pc = "join" => flight[Hash(w)] # None

IInv ==
    /\ RowInv /\ WorkerInv /\ CallerInv /\ CleanerInv /\ DiskInv /\ MemoryInv
    /\ BoundInv /\ FlightInv /\ JoinInv /\ InFlightHeld

-----------------------------------------------------------------------------
(* Addresses and rows *)

\* A busy worker is at a content address, and one at a side at a side's.
LEMMA HashType ==
    ASSUME WorkerInv, NEW w \in Workers, worker[w].pc # "idle"
    PROVE  /\ Hash(w) \in Hashes
           /\ worker[w].side = "side" => /\ Hash(w) = Side[worker[w].d]
                                         /\ Hash(w) \in Sides
BY BuildQueueAssumption DEF WorkerInv, WorkerSet, Hash, Hashes, Sides, Downloads

\* Replacing one row by a row that a deploy may have.
LEMMA RowReplaced ==
    ASSUME RowInv, NEW d \in Deploys, NEW r \in RowSet,
           r.status \in {"none", "deleted"} => ~r.hashed,
           r.dl # None => r.hashed /\ Download[d] # None,
           row' = [row EXCEPT ![d] = r]
    PROVE  RowInv'
<1>1. row' \in [Deploys -> RowSet] /\ \A x \in Deploys : row'[x] = IF x = d THEN r ELSE row[x]
  BY DEF RowInv
<1> QED BY <1>1 DEF RowInv, Exists

\* An UPDATE of the status of a row that may be gone.
LEMMA StatusUpdated ==
    ASSUME RowInv, NEW d \in Deploys, NEW s \in Statuses \ {"none", "deleted"},
           Update(d, s)
    PROVE  RowInv'
<1>1. CASE Exists(d)
  <2> DEFINE r == [row[d] EXCEPT !.status = s]
  <2>1. row[d] \in RowSet
    BY DEF RowInv
  <2>2. /\ r \in RowSet /\ r.status = s /\ r.hashed = row[d].hashed /\ r.dl = row[d].dl
    BY <2>1 DEF RowSet
  <2>3. row' = [row EXCEPT ![d] = r]
    BY <1>1 DEF Update
  <2> HIDE DEF r
  <2> QED BY <2>2, <2>3, RowReplaced DEF RowInv
<1>2. CASE ~Exists(d)
  BY <1>2 DEF Update, RowInv, Exists
<1> QED BY <1>1, <1>2

\* The status of a download changes only on a row that has one.
LEMMA DownloadUpdated ==
    ASSUME RowInv, NEW d \in Deploys, NEW s \in {"ready", "failed"},
           UpdateDownload(d, s)
    PROVE  RowInv'
<1>1. CASE row[d].dl # None
  <2> DEFINE r == [row[d] EXCEPT !.dl = s]
  <2>1. row[d] \in RowSet
    BY DEF RowInv
  <2>2. /\ r \in RowSet /\ r.status = row[d].status /\ r.hashed = row[d].hashed /\ r.dl = s
    BY <2>1 DEF RowSet
  <2>3. row' = [row EXCEPT ![d] = r]
    BY <1>1 DEF UpdateDownload
  <2> HIDE DEF r
  <2> QED BY <1>1, <2>2, <2>3, RowReplaced DEF RowInv, Exists
<1>2. CASE row[d].dl = None
  BY <1>2 DEF UpdateDownload, RowInv, Exists
<1> QED BY <1>1, <1>2

\* Rows change status, hashes and download, each with its conditions.
LEMMA RowStep == ASSUME IInv, Next PROVE RowInv'
<1> USE BuildQueueAssumption DEF IInv
<1>1. ASSUME NEW w \in Workers, MarkBuilding(w) PROVE RowInv'
  <2>1. worker[w].d \in Deploys
    BY <1>1 DEF MarkBuilding, WorkerInv
  <2> QED BY <1>1, <2>1, StatusUpdated DEF MarkBuilding, Statuses
<1>2. ASSUME NEW w \in Workers, Resolve(w) PROVE RowInv'
  <2>1. worker[w].d \in Deploys
    BY <1>2 DEF Resolve, WorkerInv
  <2> DEFINE d == worker[w].d
  <2> DEFINE l == IF Download[d] = None THEN None
                  ELSE IF ~worker[w].rebuild /\ Download[d] \in files
                       THEN "ready" ELSE "building"
             r == [row[d] EXCEPT !.hashed = TRUE, !.dl = l]
  <2>2. CASE row' = row
    BY <2>2 DEF RowInv, Exists
  <2>3. CASE Exists(d) /\ row' = [row EXCEPT ![d] = r]
    <3>1. row[d] \in RowSet
      BY <2>1 DEF RowInv
    <3>2. r \in RowSet /\ r.status = row[d].status /\ r.hashed /\ r.dl = l
      BY <3>1 DEF RowSet
    <3>3. r.dl # None => Download[d] # None
      BY <3>2
    <3>4. r.status \notin {"none", "deleted"}
      BY <2>3, <3>2 DEF Exists
    <3> HIDE DEF r
    <3> QED BY <2>1, <2>3, <3>2, <3>3, <3>4, RowReplaced
  <2>4. \/ row' = row
        \/ Exists(d) /\ row' = [row EXCEPT ![d].hashed = TRUE, ![d].dl = l]
    BY <1>2 DEF Resolve
  <2>5. [row EXCEPT ![d].hashed = TRUE, ![d].dl = l] = [row EXCEPT ![d] = r]
    BY <2>1 DEF RowInv, RowSet
  <2> QED BY <2>2, <2>3, <2>4, <2>5
<1>3. ASSUME NEW w \in Workers, SetReady(w) PROVE RowInv'
  <2>1. worker[w].d \in Deploys
    BY <1>3 DEF SetReady, WorkerInv
  <2> QED BY <1>3, <2>1, StatusUpdated DEF SetReady, Statuses
<1>4. ASSUME NEW w \in Workers, SetFailed(w) PROVE RowInv'
  <2>1. worker[w].d \in Deploys
    BY <1>4 DEF SetFailed, WorkerInv
  <2> QED BY <1>4, <2>1, StatusUpdated DEF SetFailed, Statuses
<1>5. ASSUME NEW w \in Workers, ArtifactBuilt(w) PROVE RowInv'
  <2>1. worker[w].d \in Deploys
    BY <1>5 DEF ArtifactBuilt, WorkerInv
  <2> QED BY <1>5, <2>1, DownloadUpdated DEF ArtifactBuilt, Statuses
<1>6. ASSUME NEW w \in Workers, ArtifactFailed(w) PROVE RowInv'
  <2>1. worker[w].d \in Deploys
    BY <1>6 DEF ArtifactFailed, WorkerInv
  <2>2. CASE row' = row
    BY <2>2 DEF RowInv, Exists
  <2>3. CASE UpdateDownload(worker[w].d, "failed")
    BY <2>1, <2>3, DownloadUpdated
  <2> QED BY <1>6, <2>2, <2>3 DEF ArtifactFailed
<1>7. ASSUME NEW c \in Callers, Create(c) PROVE RowInv'
  <2>1. caller[c].d \in Deploys
    BY <1>7 DEF Create, CallerInv
  <2>2. FreshRow \in RowSet /\ FreshRow.status = "queued" /\ FreshRow.dl = None
    BY DEF FreshRow, NoRow, RowSet, Statuses
  <2>3. CASE row' = row
    BY <2>3 DEF RowInv, Exists
  <2>4. CASE row' = [row EXCEPT ![caller[c].d] = FreshRow]
    BY <2>1, <2>2, <2>4, RowReplaced
  <2> QED BY <1>7, <2>3, <2>4 DEF Create
<1>8. ASSUME NEW c \in Callers, ResetDeploy(c) PROVE RowInv'
  <2>1. caller[c].d \in Deploys
    BY <1>8 DEF ResetDeploy, CallerInv
  <2> QED BY <1>8, <2>1, StatusUpdated DEF ResetDeploy, Statuses
<1>9. ASSUME NEW e \in Cleaners, Mark(e) PROVE RowInv'
  <2>1. PICK s \in cleaner[e].todo :
           row' = IF Deletes(e) THEN [row EXCEPT ![s.d] = DeletedRow]
                  ELSE IF Exists(s.d) THEN [row EXCEPT ![s.d].status = "evicted"]
                  ELSE row
    BY <1>9 DEF Mark
  <2>2. s.d \in Deploys
    BY <2>1 DEF CleanerInv, CleanerSet, Snapshots
  <2>3. DeletedRow \in RowSet /\ ~DeletedRow.hashed /\ DeletedRow.dl = None
    BY DEF DeletedRow, NoRow, RowSet, Statuses
  <2>4. CASE Deletes(e)
    BY <2>1, <2>2, <2>3, <2>4, RowReplaced
  <2>5. CASE ~Deletes(e)
    <3>1. Update(s.d, "evicted")
      BY <2>1, <2>5 DEF Update
    <3> QED BY <2>2, <3>1, StatusUpdated DEF Statuses
  <2> QED BY <2>4, <2>5
<1>10. ASSUME NEW w \in Workers,
          Take(w) \/ LoadRow(w) \/ TakeRebuild(w) \/ Cache(w) \/ Enter(w) \/
                 BuildSteps(w) \/ Publish(w) \/ Replace(w) \/ Provision(w) \/
                 StateDir(w) \/ CreateBackendArtifact(w) \/ Reload(w) \/
                 Artifact(w)
     PROVE  RowInv'
  <2>1. UNCHANGED <<row>>
    BY <1>10 DEF Take, LoadRow, TakeRebuild, Cache, Enter, BuildSteps, Publish,
           Replace, Provision, StateDir, CreateBackendArtifact, Reload,
           Artifact, disk, bounds, startup, memory, Land, Goto, Move
  <2> QED BY <2>1 DEF RowInv, Exists
<1>11. ASSUME NEW c \in Callers,
          Ask(c) \/ SetRebuild(c) \/ Enqueue(c)
     PROVE  RowInv'
  <2>1. UNCHANGED <<row>>
    BY <1>11 DEF Ask, SetRebuild, Enqueue, disk, bounds, startup, memory, Land,
           Goto, Move
  <2> QED BY <2>1 DEF RowInv, Exists
<1>12. ASSUME NEW e \in Cleaners,
          List(e) \/ Survey(e) \/ DeleteBackendArtifact(e) \/ RemoveFiles(e) \/
                 RemoveState(e)
     PROVE  RowInv'
  <2>1. UNCHANGED <<row>>
    BY <1>12 DEF List, Survey, DeleteBackendArtifact, RemoveFiles, RemoveState,
           disk, bounds, startup, memory, Land, Goto, Move
  <2> QED BY <2>1 DEF RowInv, Exists
<1>13. ASSUME ListUnfinished \/ Resume \/ Cancel \/ Die \/ Start
     PROVE  RowInv'
  <2>1. UNCHANGED <<row>>
    BY <1>13 DEF ListUnfinished, Resume, Cancel, Die, Start, disk, bounds,
           startup, memory, Land, Goto, Move
  <2> QED BY <2>1 DEF RowInv, Exists
<1> QED BY <1>1, <1>2, <1>3, <1>4, <1>5, <1>6, <1>7, <1>8, <1>9, <1>10, <1>11,
       <1>12, <1>13
       DEF Next, Process, RequestDeploy, Clean

\* Going on to another place of the same side.
LEMMA GotoKeeps ==
    ASSUME WorkerInv, NEW w \in Workers, NEW l \in WorkerPC \ {"idle"},
           worker[w].pc # "idle", Goto(w, l),
           l \in SidePC => worker[w].side = "side",
           l \in DownloadPC => worker[w].side = "download"
    PROVE  WorkerInv'
BY DEF WorkerInv, WorkerSet, Goto

\* A worker that is done is idle.
LEMMA FinishedKeeps ==
    ASSUME WorkerInv, NEW w \in Workers, Finished(w)
    PROVE  WorkerInv'
BY DEF WorkerInv, WorkerSet, Finished, IdleWorker, SidePC, DownloadPC, WorkerPC

\* Going on to the downloads of a row that has one to build.
LEMMA ArtifactsKeeps ==
    ASSUME WorkerInv, RowInv, NEW w \in Workers, NEW d \in Deploys,
           NEW r \in BOOLEAN, Artifacts(w, d, r)
    PROVE  WorkerInv'
<1>1. row[d].dl = "building" => Download[d] # None
  BY BuildQueueAssumption DEF RowInv
<1> QED BY <1>1 DEF Artifacts, WorkerInv, WorkerSet, IdleWorker, SidePC, DownloadPC,
          WorkerPC

\* A build ends, for the worker that ran it and for those that joined.
LEMMA LandKeeps ==
    ASSUME WorkerInv, NEW w \in Workers, NEW ok \in BOOLEAN, Land(w, ok),
           worker[w].pc # "idle"
    PROVE  WorkerInv'
<1> USE DEF WorkerInv, WorkerSet
<1> DEFINE Over(v) == [worker[v] EXCEPT !.pc =
                         IF worker[v].side = "side"
                         THEN IF ok THEN "provision" ELSE "fail"
                         ELSE IF ok THEN "built" ELSE "unbuilt"]
<1>1. \A v \in Workers :
         /\ Over(v) \in WorkerSet /\ Over(v).d = worker[v].d
         /\ Over(v).side = worker[v].side
         /\ Over(v).pc = IF worker[v].side = "side"
                         THEN IF ok THEN "provision" ELSE "fail"
                         ELSE IF ok THEN "built" ELSE "unbuilt"
  BY DEF WorkerPC
<1>2. \A v \in Workers : worker'[v] \in {Over(v), worker[v]}
                         /\ (worker[v].pc = "idle" => worker'[v] = worker[v])
  BY DEF Land, Joined
<1>3. DOMAIN worker' = Workers /\ worker' = [v \in Workers |-> worker'[v]]
  BY DEF Land
<1> HIDE DEF Over
<1> QED BY <1>1, <1>2, <1>3 DEF SidePC, DownloadPC

\* A worker keeps its deploy and side until it is done.
LEMMA WorkerStep == ASSUME IInv, Next PROVE WorkerInv'
<1> USE BuildQueueAssumption DEF IInv, SidePC, DownloadPC, WorkerPC
<1>1. ASSUME NEW w \in Workers, Take(w) PROVE WorkerInv'
  <2>1. Head(work) \in Deploys
    BY <1>1 DEF Take, MemoryInv
  <2>2. worker' = [worker EXCEPT ![w].pc = "load", ![w].d = Head(work)]
    BY <1>1 DEF Take
  <2>3. worker[w].pc = "idle"
    BY <1>1 DEF Take
  <2> QED BY <2>1, <2>2, <2>3 DEF WorkerInv, WorkerSet
<1>2. ASSUME NEW w \in Workers, LoadRow(w) PROVE WorkerInv'
  <2>1. worker[w].side = "side" /\ worker[w].d \in Deploys
    BY <1>2 DEF LoadRow, WorkerInv
  <2> QED BY <1>2, <2>1, GotoKeeps, FinishedKeeps, ArtifactsKeeps DEF LoadRow
<1>3. ASSUME NEW w \in Workers, MarkBuilding(w) PROVE WorkerInv'
  <2>1. worker[w].side = "side"
    BY <1>3 DEF MarkBuilding, WorkerInv
  <2> QED BY <1>3, <2>1, GotoKeeps, FinishedKeeps DEF MarkBuilding
<1>4. ASSUME NEW w \in Workers, TakeRebuild(w) PROVE WorkerInv'
  <2>1. worker[w].pc = "flag" /\ worker[w].side = "side"
    BY <1>4 DEF TakeRebuild, WorkerInv
  <2>2. worker' = [worker EXCEPT ![w] = [worker[w] EXCEPT
                      !.pc = "hash", !.rebuild = worker[w].d \in rebuild]]
    BY <1>4 DEF TakeRebuild, WorkerInv
  <2>3. PICK r \in WorkerSet : /\ worker' = [worker EXCEPT ![w] = r]
                              /\ r.pc = "hash" /\ r.d = worker[w].d
                              /\ r.side = worker[w].side
    <3>0. worker[w] \in WorkerSet
      BY DEF WorkerInv
    <3>1. CASE worker[w].d \in rebuild
      <4> DEFINE r == [worker[w] EXCEPT !.pc = "hash", !.rebuild = TRUE]
      <4>1. worker' = [worker EXCEPT ![w] = r]
        BY <2>2, <3>1
      <4>2. r \in WorkerSet /\ r.pc = "hash" /\ r.d = worker[w].d /\ r.side = worker[w].side
        BY <3>0 DEF WorkerSet
      <4> QED BY <4>1, <4>2
    <3>2. CASE worker[w].d \notin rebuild
      <4> DEFINE r == [worker[w] EXCEPT !.pc = "hash", !.rebuild = FALSE]
      <4>0. (worker[w].d \in rebuild) = FALSE
        BY <3>2
      <4>1. worker' = [worker EXCEPT ![w] = r]
        BY <2>2, <4>0
      <4>2. r \in WorkerSet /\ r.pc = "hash" /\ r.d = worker[w].d /\ r.side = worker[w].side
        BY <3>0 DEF WorkerSet
      <4> QED BY <4>1, <4>2
    <3> QED BY <3>1, <3>2
  <2> QED BY <2>1, <2>3 DEF WorkerInv
<1>5. ASSUME NEW w \in Workers, Resolve(w) PROVE WorkerInv'
  <2>1. worker[w].side = "side"
    BY <1>5 DEF Resolve, WorkerInv
  <2> QED BY <1>5, <2>1, GotoKeeps, FinishedKeeps DEF Resolve
<1>6. ASSUME NEW w \in Workers, Cache(w) PROVE WorkerInv'
  <2>1. worker[w].side = "side"
    BY <1>6 DEF Cache, WorkerInv
  <2> QED BY <1>6, <2>1, GotoKeeps, FinishedKeeps DEF Cache
<1>7. ASSUME NEW w \in Workers, Enter(w) PROVE WorkerInv'
  BY <1>7, GotoKeeps DEF Enter
<1>8. ASSUME NEW w \in Workers, BuildSteps(w) PROVE WorkerInv'
  <2>1. CASE \E ok \in BOOLEAN : Land(w, ok)
    BY <1>8, <2>1, LandKeeps DEF BuildSteps
  <2> QED BY <1>8, <2>1, GotoKeeps DEF BuildSteps
<1>9. ASSUME NEW w \in Workers, Publish(w) PROVE WorkerInv'
  <2>1. CASE \E ok \in BOOLEAN : Land(w, ok)
    BY <1>9, <2>1, LandKeeps DEF Publish
  <2> QED BY <1>9, <2>1, GotoKeeps DEF Publish
<1>10. ASSUME NEW w \in Workers, Replace(w) PROVE WorkerInv'
  <2>1. CASE \E ok \in BOOLEAN : Land(w, ok)
    BY <1>10, <2>1, LandKeeps DEF Replace
  <2> QED BY <1>10, <2>1, GotoKeeps DEF Replace
<1>11. ASSUME NEW w \in Workers, Provision(w) PROVE WorkerInv'
  <2>1. worker[w].side = "side"
    BY <1>11 DEF Provision, WorkerInv
  <2> QED BY <1>11, <2>1, GotoKeeps, FinishedKeeps DEF Provision
<1>12. ASSUME NEW w \in Workers, StateDir(w) PROVE WorkerInv'
  <2>1. worker[w].side = "side"
    BY <1>12 DEF StateDir, WorkerInv
  <2> QED BY <1>12, <2>1, GotoKeeps, FinishedKeeps DEF StateDir
<1>13. ASSUME NEW w \in Workers, CreateBackendArtifact(w) PROVE WorkerInv'
  <2>1. worker[w].side = "side"
    BY <1>13 DEF CreateBackendArtifact, WorkerInv
  <2> QED BY <1>13, <2>1, GotoKeeps, FinishedKeeps DEF CreateBackendArtifact
<1>14. ASSUME NEW w \in Workers, SetReady(w) PROVE WorkerInv'
  <2>1. worker[w].side = "side"
    BY <1>14 DEF SetReady, WorkerInv
  <2> QED BY <1>14, <2>1, GotoKeeps, FinishedKeeps DEF SetReady
<1>15. ASSUME NEW w \in Workers, Reload(w) PROVE WorkerInv'
  <2> DEFINE r == worker[w].rebuild
  <2>1. worker[w].d \in Deploys
    BY <1>15 DEF Reload, WorkerInv
  <2>2. r \in BOOLEAN
    BY DEF WorkerInv, WorkerSet
  <2>3. Artifacts(w, worker[w].d, r)
    BY <1>15 DEF Reload
  <2> HIDE DEF r
  <2> QED BY <2>1, <2>2, <2>3, ArtifactsKeeps
<1>16. ASSUME NEW w \in Workers, SetFailed(w) PROVE WorkerInv'
  <2>1. worker[w].side = "side"
    BY <1>16 DEF SetFailed, WorkerInv
  <2> QED BY <1>16, <2>1, GotoKeeps, FinishedKeeps DEF SetFailed
<1>17. ASSUME NEW w \in Workers, Artifact(w) PROVE WorkerInv'
  <2>1. worker[w].side = "download"
    BY <1>17 DEF Artifact, WorkerInv
  <2> QED BY <1>17, <2>1, GotoKeeps, FinishedKeeps DEF Artifact
<1>18. ASSUME NEW w \in Workers, ArtifactBuilt(w) PROVE WorkerInv'
  <2>1. worker[w].side = "download"
    BY <1>18 DEF ArtifactBuilt, WorkerInv
  <2> QED BY <1>18, <2>1, GotoKeeps, FinishedKeeps DEF ArtifactBuilt
<1>19. ASSUME NEW w \in Workers, ArtifactFailed(w) PROVE WorkerInv'
  <2>1. worker[w].side = "download"
    BY <1>19 DEF ArtifactFailed, WorkerInv
  <2> QED BY <1>19, <2>1, GotoKeeps, FinishedKeeps DEF ArtifactFailed
<1>20. ASSUME Die PROVE WorkerInv'
  BY <1>20 DEF Die, IdleWorker, WorkerInv, WorkerSet
<1>21. ASSUME NEW c \in Callers,
          Ask(c) \/ Create(c) \/ ResetDeploy(c) \/ SetRebuild(c) \/ Enqueue(c)
     PROVE  WorkerInv'
  <2>1. UNCHANGED <<worker>>
    BY <1>21 DEF Ask, Create, ResetDeploy, SetRebuild, Enqueue, disk, bounds,
           startup, memory, Land, Goto, Move
  <2> QED BY <2>1 DEF WorkerInv
<1>22. ASSUME NEW e \in Cleaners,
          List(e) \/ Mark(e) \/ Survey(e) \/ DeleteBackendArtifact(e) \/
                 RemoveFiles(e) \/ RemoveState(e)
     PROVE  WorkerInv'
  <2>1. UNCHANGED <<worker>>
    BY <1>22 DEF List, Mark, Survey, DeleteBackendArtifact, RemoveFiles,
           RemoveState, disk, bounds, startup, memory, Land, Goto, Move
  <2> QED BY <2>1 DEF WorkerInv
<1>23. ASSUME ListUnfinished \/ Resume \/ Cancel \/ Start
     PROVE  WorkerInv'
  <2>1. UNCHANGED <<worker>>
    BY <1>23 DEF ListUnfinished, Resume, Cancel, Start, disk, bounds, startup,
           memory, Land, Goto, Move
  <2> QED BY <2>1 DEF WorkerInv
<1> QED BY <1>1, <1>2, <1>3, <1>4, <1>5, <1>6, <1>7, <1>8, <1>9, <1>10, <1>11,
       <1>12, <1>13, <1>14, <1>15, <1>16, <1>17, <1>18, <1>19, <1>20, <1>21,
       <1>22, <1>23
       DEF Next, Process, RequestDeploy, Clean

\* A request keeps its deploy.
LEMMA CallerStep == ASSUME IInv, Next PROVE CallerInv'
<1> USE BuildQueueAssumption DEF CallerInv, CallerSet, IdleCaller, IInv
<1>1. ASSUME NEW c \in Callers, Ask(c) PROVE CallerInv'
  BY <1>1 DEF Ask
<1>2. ASSUME NEW c \in Callers, Create(c) PROVE CallerInv'
  <2>1. \/ caller' = [caller EXCEPT ![c] = IdleCaller]
        \/ caller' = [caller EXCEPT ![c].pc = "flag"] /\ caller[c].pc = "create"
    BY <1>2 DEF Create
  <2>2. CASE caller' = [caller EXCEPT ![c] = IdleCaller]
    BY <2>2
  <2>3. CASE caller' = [caller EXCEPT ![c].pc = "flag"] /\ caller[c].pc = "create"
    BY <2>3
  <2> QED BY <2>1, <2>2, <2>3
<1>3. ASSUME NEW c \in Callers, ResetDeploy(c) PROVE CallerInv'
  BY <1>3 DEF ResetDeploy
<1>4. ASSUME NEW c \in Callers, SetRebuild(c) PROVE CallerInv'
  BY <1>4 DEF SetRebuild
<1>5. ASSUME NEW c \in Callers, Enqueue(c) PROVE CallerInv'
  BY <1>5 DEF Enqueue
<1>6. ASSUME Die PROVE CallerInv'
  BY <1>6 DEF Die
<1>7. ASSUME NEW w \in Workers,
          Take(w) \/ LoadRow(w) \/ MarkBuilding(w) \/ TakeRebuild(w) \/
                 Resolve(w) \/ Cache(w) \/ Enter(w) \/ BuildSteps(w) \/
                 Publish(w) \/ Replace(w) \/ Provision(w) \/ StateDir(w) \/
                 CreateBackendArtifact(w) \/ SetReady(w) \/ Reload(w) \/
                 SetFailed(w) \/ Artifact(w) \/ ArtifactBuilt(w) \/
                 ArtifactFailed(w)
     PROVE  CallerInv'
  <2>1. UNCHANGED <<caller>>
    BY <1>7 DEF Take, LoadRow, MarkBuilding, TakeRebuild, Resolve, Cache,
           Enter, BuildSteps, Publish, Replace, Provision, StateDir,
           CreateBackendArtifact, SetReady, Reload, SetFailed, Artifact,
           ArtifactBuilt, ArtifactFailed, disk, bounds, startup, memory, Land,
           Goto, Move
  <2> QED BY <2>1
<1>8. ASSUME NEW e \in Cleaners,
          List(e) \/ Mark(e) \/ Survey(e) \/ DeleteBackendArtifact(e) \/
                 RemoveFiles(e) \/ RemoveState(e)
     PROVE  CallerInv'
  <2>1. UNCHANGED <<caller>>
    BY <1>8 DEF List, Mark, Survey, DeleteBackendArtifact, RemoveFiles,
           RemoveState, disk, bounds, startup, memory, Land, Goto, Move
  <2> QED BY <2>1
<1>9. ASSUME ListUnfinished \/ Resume \/ Cancel \/ Start
     PROVE  CallerInv'
  <2>1. UNCHANGED <<caller>>
    BY <1>9 DEF ListUnfinished, Resume, Cancel, Start, disk, bounds, startup,
           memory, Land, Goto, Move
  <2> QED BY <2>1
<1> QED BY <1>1, <1>2, <1>3, <1>4, <1>5, <1>6, <1>7, <1>8, <1>9
       DEF Next, Process, RequestDeploy, Clean

\* An eviction pass works off snapshots of rows.
LEMMA CleanerStep == ASSUME IInv, Next PROVE CleanerInv'
<1> USE BuildQueueAssumption DEF CleanerInv, CleanerSet, IdleCleaner, IInv
<1>1. ASSUME NEW e \in Cleaners, List(e) PROVE CleanerInv'
  <2>1. \A d \in Deploys : Snapshot(d) \in Snapshots
    BY DEF Snapshot, Snapshots
  <2>2. PICK S \in SUBSET Candidates(e) :
           cleaner' = [cleaner EXCEPT ![e].pc = "mark",
                                      ![e].todo = {Snapshot(d) : d \in S}]
    BY <1>1 DEF List
  <2> DEFINE T == {Snapshot(d) : d \in S}
  <2>3. T \in SUBSET Snapshots
    BY <2>1, <2>2 DEF Candidates
  <2> DEFINE r == [cleaner[e] EXCEPT !.pc = "mark", !.todo = T]
  <2>4. cleaner' = [cleaner EXCEPT ![e] = r]
    BY <2>2
  <2> HIDE DEF T
  <2>5. r \in CleanerSet
    BY <2>3
  <2> HIDE DEF r
  <2> QED BY <2>4, <2>5
<1>2. ASSUME NEW e \in Cleaners, Mark(e) PROVE CleanerInv'
  <2>1. PICK s \in cleaner[e].todo :
           LET rest == cleaner[e].todo \ {s}
           IN  cleaner' = [cleaner EXCEPT ![e] =
                 IF Exists(s.d) \/ Deletes(e)
                 THEN [pc |-> "survey", todo |-> rest, d |-> s, live |-> {}]
                 ELSE IF rest = {} THEN IdleCleaner
                 ELSE [IdleCleaner EXCEPT !.pc = "mark", !.todo = rest]]
    BY <1>2 DEF Mark
  <2>2. s \in Snapshots /\ cleaner[e].todo \ {s} \subseteq Snapshots
    BY <2>1
  <2> QED BY <2>1, <2>2
<1>3. ASSUME NEW e \in Cleaners, Survey(e) PROVE CleanerInv'
  <2>1. Pinned \in SUBSET Hashes
    BY DEF Pinned
  <2>2. cleaner' = [cleaner EXCEPT ![e].pc = "drop", ![e].live = Pinned]
    BY <1>3 DEF Survey
  <2> DEFINE r == [cleaner[e] EXCEPT !.pc = "drop", !.live = Pinned]
  <2>3. r \in CleanerSet
    BY <2>1
  <2>4. cleaner' = [cleaner EXCEPT ![e] = r]
    BY <2>2
  <2> HIDE DEF r
  <2> QED BY <2>3, <2>4
<1>4. ASSUME NEW e \in Cleaners, DeleteBackendArtifact(e) PROVE CleanerInv'
  BY <1>4 DEF DeleteBackendArtifact, Move
<1>5. ASSUME NEW e \in Cleaners, RemoveFiles(e) PROVE CleanerInv'
  BY <1>5 DEF RemoveFiles, Move
<1>6. ASSUME NEW e \in Cleaners, RemoveState(e) PROVE CleanerInv'
  BY <1>6 DEF RemoveState, Move
<1>7. ASSUME Die PROVE CleanerInv'
  BY <1>7 DEF Die
<1>8. ASSUME NEW w \in Workers,
          Take(w) \/ LoadRow(w) \/ MarkBuilding(w) \/ TakeRebuild(w) \/
                 Resolve(w) \/ Cache(w) \/ Enter(w) \/ BuildSteps(w) \/
                 Publish(w) \/ Replace(w) \/ Provision(w) \/ StateDir(w) \/
                 CreateBackendArtifact(w) \/ SetReady(w) \/ Reload(w) \/
                 SetFailed(w) \/ Artifact(w) \/ ArtifactBuilt(w) \/
                 ArtifactFailed(w)
     PROVE  CleanerInv'
  <2>1. UNCHANGED <<cleaner>>
    BY <1>8 DEF Take, LoadRow, MarkBuilding, TakeRebuild, Resolve, Cache,
           Enter, BuildSteps, Publish, Replace, Provision, StateDir,
           CreateBackendArtifact, SetReady, Reload, SetFailed, Artifact,
           ArtifactBuilt, ArtifactFailed, disk, bounds, startup, memory, Land,
           Goto, Move
  <2> QED BY <2>1
<1>9. ASSUME NEW c \in Callers,
          Ask(c) \/ Create(c) \/ ResetDeploy(c) \/ SetRebuild(c) \/ Enqueue(c)
     PROVE  CleanerInv'
  <2>1. UNCHANGED <<cleaner>>
    BY <1>9 DEF Ask, Create, ResetDeploy, SetRebuild, Enqueue, disk, bounds,
           startup, memory, Land, Goto, Move
  <2> QED BY <2>1
<1>10. ASSUME ListUnfinished \/ Resume \/ Cancel \/ Start
     PROVE  CleanerInv'
  <2>1. UNCHANGED <<cleaner>>
    BY <1>10 DEF ListUnfinished, Resume, Cancel, Start, disk, bounds, startup,
           memory, Land, Goto, Move
  <2> QED BY <2>1
<1> QED BY <1>1, <1>2, <1>3, <1>4, <1>5, <1>6, <1>7, <1>8, <1>9, <1>10
       DEF Next, Process, RequestDeploy, Clean

\* Only content addresses are published or provisioned.
LEMMA DiskStep == ASSUME IInv, Next PROVE DiskInv'
<1> USE BuildQueueAssumption DEF DiskInv, IInv
<1>1. ASSUME NEW w \in Workers, Publish(w) PROVE DiskInv'
  <2>1. Hash(w) \in Hashes
    BY <1>1, HashType DEF Publish
  <2> QED BY <1>1, <2>1 DEF Publish
<1>2. ASSUME NEW w \in Workers, Replace(w) PROVE DiskInv'
  <2>1. Hash(w) \in Hashes
    BY <1>2, HashType DEF Replace
  <2> QED BY <1>2, <2>1 DEF Replace
<1>3. ASSUME NEW w \in Workers, StateDir(w) PROVE DiskInv'
  <2>1. Hash(w) \in Sides
    BY <1>3, HashType DEF StateDir, WorkerInv, SidePC
  <2> QED BY <1>3, <2>1 DEF StateDir
<1>4. ASSUME NEW w \in Workers, CreateBackendArtifact(w) PROVE DiskInv'
  <2>1. Hash(w) \in Sides
    BY <1>4, HashType DEF CreateBackendArtifact, WorkerInv, SidePC
  <2> QED BY <1>4, <2>1 DEF CreateBackendArtifact
<1>5. ASSUME NEW e \in Cleaners, DeleteBackendArtifact(e) PROVE DiskInv'
  BY <1>5 DEF DeleteBackendArtifact
<1>6. ASSUME NEW e \in Cleaners, RemoveFiles(e) PROVE DiskInv'
  BY <1>6 DEF RemoveFiles
<1>7. ASSUME NEW e \in Cleaners, RemoveState(e) PROVE DiskInv'
  BY <1>7 DEF RemoveState
<1>8. ASSUME NEW w \in Workers,
          Take(w) \/ LoadRow(w) \/ MarkBuilding(w) \/ TakeRebuild(w) \/
                 Resolve(w) \/ Cache(w) \/ Enter(w) \/ BuildSteps(w) \/
                 Provision(w) \/ SetReady(w) \/ Reload(w) \/ SetFailed(w) \/
                 Artifact(w) \/ ArtifactBuilt(w) \/ ArtifactFailed(w)
     PROVE  DiskInv'
  <2>1. UNCHANGED <<files, state, arow>>
    BY <1>8 DEF Take, LoadRow, MarkBuilding, TakeRebuild, Resolve, Cache,
           Enter, BuildSteps, Provision, SetReady, Reload, SetFailed, Artifact,
           ArtifactBuilt, ArtifactFailed, disk, bounds, startup, memory, Land,
           Goto, Move
  <2> QED BY <2>1
<1>9. ASSUME NEW c \in Callers,
          Ask(c) \/ Create(c) \/ ResetDeploy(c) \/ SetRebuild(c) \/ Enqueue(c)
     PROVE  DiskInv'
  <2>1. UNCHANGED <<files, state, arow>>
    BY <1>9 DEF Ask, Create, ResetDeploy, SetRebuild, Enqueue, disk, bounds,
           startup, memory, Land, Goto, Move
  <2> QED BY <2>1
<1>10. ASSUME NEW e \in Cleaners,
          List(e) \/ Mark(e) \/ Survey(e)
     PROVE  DiskInv'
  <2>1. UNCHANGED <<files, state, arow>>
    BY <1>10 DEF List, Mark, Survey, disk, bounds, startup, memory, Land, Goto,
           Move
  <2> QED BY <2>1
<1>11. ASSUME ListUnfinished \/ Resume \/ Cancel \/ Die \/ Start
     PROVE  DiskInv'
  <2>1. UNCHANGED <<files, state, arow>>
    BY <1>11 DEF ListUnfinished, Resume, Cancel, Die, Start, disk, bounds,
           startup, memory, Land, Goto, Move
  <2> QED BY <2>1
<1> QED BY <1>1, <1>2, <1>3, <1>4, <1>5, <1>6, <1>7, <1>8, <1>9, <1>10, <1>11
       DEF Next, Process, RequestDeploy, Clean

\* The channel, the flags and the resume hold deploys, within the capacity.
LEMMA MemoryStep == ASSUME IInv, Next PROVE MemoryInv'
<1> USE BuildQueueAssumption DEF MemoryInv, IInv
<1>1. ASSUME NEW w \in Workers, Take(w) PROVE MemoryInv'
  BY <1>1 DEF Take, startup
<1>2. ASSUME NEW w \in Workers, TakeRebuild(w) PROVE MemoryInv'
  BY <1>2 DEF TakeRebuild, startup
<1>3. ASSUME NEW c \in Callers, SetRebuild(c) PROVE MemoryInv'
  <2>1. caller[c].d \in Deploys
    BY <1>3 DEF SetRebuild, CallerInv
  <2> QED BY <1>3, <2>1 DEF SetRebuild, startup
<1>4. ASSUME NEW c \in Callers, Enqueue(c) PROVE MemoryInv'
  <2>1. caller[c].d \in Deploys
    BY <1>4 DEF Enqueue, CallerInv
  <2> QED BY <1>4, <2>1 DEF Enqueue, startup
<1>5. ASSUME ListUnfinished PROVE MemoryInv'
  BY <1>5 DEF ListUnfinished
<1>6. ASSUME Resume PROVE MemoryInv'
  BY <1>6 DEF Resume
<1>7. ASSUME Cancel PROVE MemoryInv'
  BY <1>7 DEF Cancel, memory, startup
<1>8. ASSUME Die PROVE MemoryInv'
  <2>1. <<>> \in Seq(Deploys) /\ Len(<<>>) = 0
    OBVIOUS
  <2>2. work' = <<>> /\ rebuild' = {} /\ resume' = {} /\ ~listed' /\ ctx' = "down"
    BY <1>8 DEF Die
  <2>3. listed' \in BOOLEAN
    BY <1>8 DEF Die
  <2> QED BY <2>1, <2>2, <2>3
<1>9. ASSUME Start PROVE MemoryInv'
  BY <1>9 DEF Start, memory, startup
<1>10. ASSUME NEW w \in Workers,
          LoadRow(w) \/ MarkBuilding(w) \/ Resolve(w) \/ Cache(w) \/ Enter(w)
                 \/ BuildSteps(w) \/ Publish(w) \/ Replace(w) \/ Provision(w)
                 \/ StateDir(w) \/ CreateBackendArtifact(w) \/ SetReady(w) \/
                 Reload(w) \/ SetFailed(w) \/ Artifact(w) \/ ArtifactBuilt(w)
                 \/ ArtifactFailed(w)
     PROVE  MemoryInv'
  <2>1. UNCHANGED <<ctx, work, rebuild, listed, resume>>
    BY <1>10 DEF LoadRow, MarkBuilding, Resolve, Cache, Enter, BuildSteps,
           Publish, Replace, Provision, StateDir, CreateBackendArtifact,
           SetReady, Reload, SetFailed, Artifact, ArtifactBuilt,
           ArtifactFailed, disk, bounds, startup, memory, Land, Goto, Move
  <2> QED BY <2>1
<1>11. ASSUME NEW c \in Callers,
          Ask(c) \/ Create(c) \/ ResetDeploy(c)
     PROVE  MemoryInv'
  <2>1. UNCHANGED <<ctx, work, rebuild, listed, resume>>
    BY <1>11 DEF Ask, Create, ResetDeploy, disk, bounds, startup, memory, Land,
           Goto, Move
  <2> QED BY <2>1
<1>12. ASSUME NEW e \in Cleaners,
          List(e) \/ Mark(e) \/ Survey(e) \/ DeleteBackendArtifact(e) \/
                 RemoveFiles(e) \/ RemoveState(e)
     PROVE  MemoryInv'
  <2>1. UNCHANGED <<ctx, work, rebuild, listed, resume>>
    BY <1>12 DEF List, Mark, Survey, DeleteBackendArtifact, RemoveFiles,
           RemoveState, disk, bounds, startup, memory, Land, Goto, Move
  <2> QED BY <2>1
<1> QED BY <1>1, <1>2, <1>3, <1>4, <1>5, <1>6, <1>7, <1>8, <1>9, <1>10, <1>11,
       <1>12
       DEF Next, Process, RequestDeploy, Clean

\* The counters stay within their bounds.
LEMMA BoundStep == ASSUME IInv, Next PROVE BoundInv'
<1> USE BuildQueueAssumption DEF BoundInv, IInv
<1>1. ASSUME NEW c \in Callers, Ask(c) PROVE BoundInv'
  BY <1>1 DEF Ask
<1>2. ASSUME NEW e \in Cleaners, List(e) PROVE BoundInv'
  BY <1>2 DEF List
<1>3. ASSUME Cancel PROVE BoundInv'
  BY <1>3 DEF Cancel, bounds
<1>4. ASSUME Die PROVE BoundInv'
  BY <1>4 DEF Die, bounds
<1>5. ASSUME Start PROVE BoundInv'
  BY <1>5 DEF Start
<1>6. ASSUME NEW w \in Workers,
          Take(w) \/ LoadRow(w) \/ MarkBuilding(w) \/ TakeRebuild(w) \/
                 Resolve(w) \/ Cache(w) \/ Enter(w) \/ BuildSteps(w) \/
                 Publish(w) \/ Replace(w) \/ Provision(w) \/ StateDir(w) \/
                 CreateBackendArtifact(w) \/ SetReady(w) \/ Reload(w) \/
                 SetFailed(w) \/ Artifact(w) \/ ArtifactBuilt(w) \/
                 ArtifactFailed(w)
     PROVE  BoundInv'
  <2>1. UNCHANGED <<ctx, broken, strays, asked, rounds, lives>>
    BY <1>6 DEF Take, LoadRow, MarkBuilding, TakeRebuild, Resolve, Cache,
           Enter, BuildSteps, Publish, Replace, Provision, StateDir,
           CreateBackendArtifact, SetReady, Reload, SetFailed, Artifact,
           ArtifactBuilt, ArtifactFailed, disk, bounds, startup, memory, Land,
           Goto, Move
  <2> QED BY <2>1
<1>7. ASSUME NEW c \in Callers,
          Create(c) \/ ResetDeploy(c) \/ SetRebuild(c) \/ Enqueue(c)
     PROVE  BoundInv'
  <2>1. UNCHANGED <<ctx, broken, strays, asked, rounds, lives>>
    BY <1>7 DEF Create, ResetDeploy, SetRebuild, Enqueue, disk, bounds,
           startup, memory, Land, Goto, Move
  <2> QED BY <2>1
<1>8. ASSUME NEW e \in Cleaners,
          Survey(e) \/ DeleteBackendArtifact(e) \/ RemoveFiles(e) \/
                 RemoveState(e)
     PROVE  BoundInv'
  <2>1. UNCHANGED <<ctx, broken, strays, asked, rounds, lives>>
    BY <1>8 DEF Survey, DeleteBackendArtifact, RemoveFiles, RemoveState,
           disk, bounds, startup, memory, Land, Goto, Move
  <2> QED BY <2>1
<1>9. ASSUME ListUnfinished \/ Resume
     PROVE  BoundInv'
  <2>1. UNCHANGED <<ctx, broken, strays, asked, rounds, lives>>
    BY <1>9 DEF ListUnfinished, Resume, disk, bounds, startup, memory, Land,
           Goto, Move
  <2> QED BY <2>1
<1>10. ASSUME NEW e \in Cleaners, Mark(e) PROVE BoundInv'
  <2>1. PICK s \in cleaner[e].todo : strays' \subseteq strays \cup {Side[s.d]}
    BY <1>10 DEF Mark
  <2>2. Side[s.d] \in Sides
    <3>1. s.d \in Deploys
      BY <2>1 DEF CleanerInv, CleanerSet, Snapshots
    <3> QED BY <3>1 DEF Sides
  <2>3. UNCHANGED <<ctx, broken, asked, rounds, lives>>
    BY <1>10 DEF Mark
  <2> QED BY <2>1, <2>2, <2>3
<1> QED BY <1>1, <1>2, <1>3, <1>4, <1>5, <1>6, <1>7, <1>8, <1>9, <1>10
       DEF Next, Process, RequestDeploy, Clean

-----------------------------------------------------------------------------
(* One build per content address *)

\* An actor that keeps its deploy and side keeps its address.
LEMMA HashKept ==
    ASSUME NEW w \in Workers, worker'[w].d = worker[w].d,
           worker'[w].side = worker[w].side
    PROVE  Hash(w)' = Hash(w)
BY DEF Hash

\* A step of one worker that neither enters nor leaves a build.
LEMMA FlightKept ==
    ASSUME FlightInv, JoinInv, NEW w \in Workers, UNCHANGED flight,
           worker \in [Workers -> WorkerSet],
           worker' \in [Workers -> WorkerSet],
           \A v \in Workers : v # w => worker'[v] = worker[v],
           worker[w].pc \notin BuildPC, worker'[w].pc \notin BuildPC \cup {"join"}
    PROVE  FlightInv' /\ JoinInv'
<1>1. \A v \in Workers : v # w => Hash(v)' = Hash(v)
  BY DEF Hash
<1> QED BY <1>1 DEF FlightInv, JoinInv

\* A worker in a build goes on to another place in it.
LEMMA FlightGoes ==
    ASSUME FlightInv, JoinInv, WorkerInv, NEW w \in Workers, NEW l \in BuildPC,
           UNCHANGED flight, worker[w].pc \in BuildPC, Goto(w, l)
    PROVE  FlightInv' /\ JoinInv'
<1>1. /\ \A v \in Workers : v # w => worker'[v] = worker[v]
      /\ worker'[w].pc = l /\ worker'[w].d = worker[w].d
      /\ worker'[w].side = worker[w].side
  BY DEF Goto, WorkerInv, WorkerSet
<1>2. \A v \in Workers : Hash(v)' = Hash(v)
  BY <1>1 DEF Hash
<1> QED BY <1>1, <1>2 DEF FlightInv, JoinInv, BuildPC

\* A build lands: its flight is over, and nobody is left in it.
LEMMA FlightLands ==
    ASSUME FlightInv, JoinInv, WorkerInv, NEW w \in Workers, NEW ok \in BOOLEAN,
           Land(w, ok), worker[w].pc \in BuildPC
    PROVE  FlightInv' /\ JoinInv'
<1> DEFINE Out == {"provision", "fail", "built", "unbuilt"}
<1>1. Hash(w) \in Hashes
  BY HashType DEF BuildPC
<1>2. flight' = [flight EXCEPT ![Hash(w)] = None] /\ flight[Hash(w)] = w
  BY <1>1 DEF Land, FlightInv
<1>3. \A v \in Workers :
         /\ v \in Joined(w) \cup {w} => worker'[v].pc \in Out
         /\ v \notin Joined(w) \cup {w} => worker'[v].pc = worker[v].pc
         /\ worker'[v].d = worker[v].d /\ worker'[v].side = worker[v].side
  BY DEF Land, WorkerInv, WorkerSet
<1>4. \A v \in Workers : Hash(v)' = Hash(v)
  BY <1>3 DEF Hash
<1>5. \A v \in Workers : worker[v].pc = "join" /\ Hash(v) = Hash(w) => v \in Joined(w)
  BY DEF Joined
<1>6. \A v \in Workers : v \in Joined(w) => worker[v].pc = "join"
  BY DEF Joined
<1>7. FlightInv'
  <2>1. flight' \in [Hashes -> Workers \cup {None}]
    BY <1>2 DEF FlightInv
  <2>2. ASSUME NEW h \in Hashes, NEW v \in Workers
        PROVE  flight'[h] = v <=> worker'[v].pc \in BuildPC /\ Hash(v)' = h
    <3>1. v # None
      BY BuildQueueAssumption
    <3>2. CASE v \in Joined(w) \cup {w}
      <4>1. worker'[v].pc \notin BuildPC
        BY <1>3, <3>2 DEF BuildPC
      <4>2. worker[v].pc \notin BuildPC \/ Hash(w) = h \/ flight[h] # v
        BY <1>6, <3>2 DEF BuildPC, FlightInv
      <4>3. flight'[h] # v
        BY <1>1, <1>2, <3>1, <4>2 DEF FlightInv
      <4> QED BY <4>1, <4>3
    <3>3. CASE v \notin Joined(w) \cup {w}
      BY <1>1, <1>2, <1>3, <1>4, <3>1, <3>3 DEF FlightInv
    <3> QED BY <3>2, <3>3
  <2> QED BY <2>1, <2>2 DEF FlightInv
<1>8. JoinInv'
  <2>1. ASSUME NEW v \in Workers, worker'[v].pc = "join"
        PROVE  flight'[Hash(v)'] # None
    <3>1. v \notin Joined(w) \cup {w}
      BY <1>3, <2>1
    <3>2. worker[v].pc = "join" /\ Hash(v)' = Hash(v)
      BY <1>3, <1>4, <2>1, <3>1
    <3>3. Hash(v) # Hash(w) /\ Hash(v) \in Hashes
      BY <1>5, <3>1, <3>2, HashType
    <3> QED BY <1>1, <1>2, <3>2, <3>3 DEF JoinInv, FlightInv
  <2> QED BY <2>1 DEF JoinInv
<1> QED BY <1>7, <1>8

\* Flights begin and end with the builds.
LEMMA FlightStep == ASSUME IInv, WorkerInv', Next PROVE FlightInv' /\ JoinInv'
<1> USE DEF IInv
<1>0. worker \in [Workers -> WorkerSet] /\ worker' \in [Workers -> WorkerSet]
  BY DEF WorkerInv
<1>1. ASSUME NEW w \in Workers,
          Take(w) \/ LoadRow(w) \/ MarkBuilding(w) \/ TakeRebuild(w) \/
                 Resolve(w) \/ Cache(w) \/ Provision(w) \/ StateDir(w) \/
                 CreateBackendArtifact(w) \/ SetReady(w) \/ Reload(w) \/
                 SetFailed(w) \/ Artifact(w) \/ ArtifactBuilt(w) \/
                 ArtifactFailed(w)
     PROVE  FlightInv' /\ JoinInv'
  <2>1. UNCHANGED flight
    BY <1>1 DEF Take, LoadRow, MarkBuilding, TakeRebuild, Resolve, Cache,
           Provision, StateDir, CreateBackendArtifact, SetReady, Reload,
           SetFailed, Artifact, ArtifactBuilt, ArtifactFailed, memory
  <2>2. \A v \in Workers : v # w => worker'[v] = worker[v]
    BY <1>0, <1>1 DEF Take, LoadRow, MarkBuilding, TakeRebuild, Resolve, Cache,
           Provision, StateDir, CreateBackendArtifact, SetReady, Reload,
           SetFailed, Artifact, ArtifactBuilt, ArtifactFailed, Goto, Finished,
           Artifacts
  <2>3. worker[w].pc \notin BuildPC
    BY <1>1 DEF Take, LoadRow, MarkBuilding, TakeRebuild, Resolve, Cache,
           Provision, StateDir, CreateBackendArtifact, SetReady, Reload,
           SetFailed, Artifact, ArtifactBuilt, ArtifactFailed, BuildPC
  <2>4. worker'[w].pc \notin BuildPC \cup {"join"}
    BY <1>0, <1>1 DEF Take, LoadRow, MarkBuilding, TakeRebuild, Resolve, Cache,
           Provision, StateDir, CreateBackendArtifact, SetReady, Reload,
           SetFailed, Artifact, ArtifactBuilt, ArtifactFailed, BuildPC, Goto,
           Finished, Artifacts, IdleWorker, WorkerSet
  <2> QED BY <1>0, <2>1, <2>2, <2>3, <2>4, FlightKept
<1>2. ASSUME NEW w \in Workers, Enter(w) PROVE FlightInv' /\ JoinInv'
  <2>1. Hash(w) \in Hashes
    BY <1>2, HashType DEF Enter
  <2>2. /\ \A v \in Workers : v # w => worker'[v] = worker[v]
        /\ worker'[w].d = worker[w].d /\ worker'[w].side = worker[w].side
        /\ worker[w].pc = "enter"
    BY <1>0, <1>2 DEF Enter, Goto, WorkerSet
  <2>3. \A v \in Workers : Hash(v)' = Hash(v)
    BY <2>2 DEF Hash
  <2>4. CASE flight[Hash(w)] = None /\ flight' = [flight EXCEPT ![Hash(w)] = w]
             /\ Goto(w, "build")
    <3>1. worker'[w].pc = "build"
      BY <1>0, <2>4 DEF Goto
    <3>2. FlightInv'
      BY <2>1, <2>2, <2>3, <2>4, <3>1, BuildQueueAssumption DEF FlightInv, BuildPC
    <3>3. JoinInv'
      BY <2>1, <2>2, <2>3, <2>4, <3>1, BuildQueueAssumption DEF FlightInv, JoinInv
    <3> QED BY <3>2, <3>3
  <2>5. CASE flight[Hash(w)] # None /\ flight' = flight /\ Goto(w, "join")
    <3>1. worker'[w].pc = "join"
      BY <1>0, <2>5 DEF Goto
    <3> QED BY <2>1, <2>2, <2>3, <2>5, <3>1 DEF FlightInv, JoinInv, BuildPC
  <2> QED BY <1>2, <2>4, <2>5 DEF Enter
<1>3. ASSUME NEW w \in Workers, BuildSteps(w) \/ Publish(w) \/ Replace(w)
      PROVE  FlightInv' /\ JoinInv'
  <2>1. worker[w].pc \in BuildPC
    BY <1>3 DEF BuildSteps, Publish, Replace, BuildPC
  <2>2. \/ \E ok \in BOOLEAN : Land(w, ok)
        \/ \E l \in BuildPC : Goto(w, l) /\ UNCHANGED flight
    BY <1>3 DEF BuildSteps, Publish, Replace, BuildPC
  <2> QED BY <2>1, <2>2, FlightLands, FlightGoes
<1>4. ASSUME NEW c \in Callers,
          Ask(c) \/ Create(c) \/ ResetDeploy(c) \/ SetRebuild(c) \/ Enqueue(c)
     PROVE  FlightInv' /\ JoinInv'
  <2>1. UNCHANGED <<worker, flight>>
    BY <1>4 DEF Ask, Create, ResetDeploy, SetRebuild, Enqueue, memory, Move
  <2> QED BY <2>1 DEF FlightInv, JoinInv, Hash
<1>5. ASSUME NEW e \in Cleaners,
          List(e) \/ Mark(e) \/ Survey(e) \/ DeleteBackendArtifact(e) \/
                 RemoveFiles(e) \/ RemoveState(e)
     PROVE  FlightInv' /\ JoinInv'
  <2>1. UNCHANGED <<worker, flight>>
    BY <1>5 DEF List, Mark, Survey, DeleteBackendArtifact, RemoveFiles,
           RemoveState, memory, Move
  <2> QED BY <2>1 DEF FlightInv, JoinInv, Hash
<1>6. ASSUME ListUnfinished \/ Resume \/ Cancel \/ Start
     PROVE  FlightInv' /\ JoinInv'
  <2>1. UNCHANGED <<worker, flight>>
    BY <1>6 DEF ListUnfinished, Resume, Cancel, Start, memory, Move
  <2> QED BY <2>1 DEF FlightInv, JoinInv, Hash
<1>7. ASSUME Die PROVE FlightInv' /\ JoinInv'
  BY <1>7, BuildQueueAssumption DEF Die, FlightInv, JoinInv, IdleWorker, BuildPC
<1> QED BY <1>1, <1>2, <1>3, <1>4, <1>5, <1>6, <1>7 DEF Next, Process, RequestDeploy, Clean

-----------------------------------------------------------------------------
(* What the small steps do *)

Holds(w, d) == worker[w].d = d /\ worker[w].side = "side" /\ worker[w].pc # "reload"
On(s, d)    == \E i \in 1..Len(s) : s[i] = d

\* What is on the channel after a send.
LEMMA OnAppend ==
    ASSUME NEW s \in Seq(Deploys), NEW d \in Deploys, NEW x
    PROVE  On(Append(s, d), x) <=> x = d \/ On(s, x)
<1>1. /\ Len(Append(s, d)) = Len(s) + 1 /\ Append(s, d)[Len(s) + 1] = d
      /\ \A i \in 1..Len(s) : Append(s, d)[i] = s[i]
      /\ Len(s) \in Nat
  OBVIOUS
<1>2. \A i \in 1..(Len(s) + 1) : i = Len(s) + 1 \/ i \in 1..Len(s)
  BY <1>1
<1>3. Len(s) + 1 \in 1..(Len(s) + 1) /\ \A i \in 1..Len(s) : i \in 1..(Len(s) + 1)
  BY <1>1
<1>4. ASSUME On(Append(s, d), x) PROVE x = d \/ On(s, x)
  <2>1. PICK i \in 1..(Len(s) + 1) : Append(s, d)[i] = x
    BY <1>1, <1>4 DEF On
  <2>2. CASE i = Len(s) + 1
    BY <1>1, <2>1, <2>2
  <2>3. CASE i \in 1..Len(s)
    BY <1>1, <2>1, <2>3 DEF On
  <2> QED BY <1>2, <2>2, <2>3
<1>5. ASSUME x = d PROVE On(Append(s, d), x)
  BY <1>1, <1>3, <1>5 DEF On
<1>6. ASSUME On(s, x) PROVE On(Append(s, d), x)
  <2>1. PICK i \in 1..Len(s) : s[i] = x
    BY <1>6 DEF On
  <2>2. i \in 1..Len(Append(s, d)) /\ Append(s, d)[i] = x
    BY <1>1, <1>3, <2>1
  <2> QED BY <2>2 DEF On
<1> QED BY <1>4, <1>5, <1>6

\* What is on the channel before a receive.
LEMMA OnTail ==
    ASSUME NEW s \in Seq(Deploys), s # <<>>, NEW x
    PROVE  /\ On(s, x) <=> x = Head(s) \/ On(Tail(s), x)
           /\ Head(s) \in Deploys
<1>1. /\ Len(s) \in Nat \ {0} /\ Len(Tail(s)) = Len(s) - 1 /\ Head(s) = s[1]
      /\ \A i \in 1..(Len(s) - 1) : Tail(s)[i] = s[i + 1]
      /\ Head(s) \in Deploys
  OBVIOUS
<1>2. \A i \in 1..Len(s) : i = 1 \/ (i - 1 \in 1..(Len(s) - 1) /\ (i - 1) + 1 = i)
  BY <1>1
<1>3. 1 \in 1..Len(s) /\ \A i \in 1..(Len(s) - 1) : i + 1 \in 1..Len(s)
  BY <1>1
<1>4. ASSUME On(s, x) PROVE x = Head(s) \/ On(Tail(s), x)
  <2>1. PICK i \in 1..Len(s) : s[i] = x
    BY <1>4 DEF On
  <2>2. CASE i = 1
    BY <1>1, <2>1, <2>2
  <2>3. CASE i # 1
    <3>1. i - 1 \in 1..Len(Tail(s)) /\ Tail(s)[i - 1] = x
      BY <1>1, <1>2, <2>1, <2>3
    <3> QED BY <3>1 DEF On
  <2> QED BY <2>2, <2>3
<1>5. ASSUME x = Head(s) PROVE On(s, x)
  BY <1>1, <1>3, <1>5 DEF On
<1>6. ASSUME On(Tail(s), x) PROVE On(s, x)
  <2>1. PICK i \in 1..(Len(s) - 1) : Tail(s)[i] = x
    BY <1>1, <1>6 DEF On
  <2>2. i + 1 \in 1..Len(s) /\ s[i + 1] = x
    BY <1>1, <1>3, <2>1
  <2> QED BY <2>2 DEF On
<1> QED BY <1>1, <1>4, <1>5, <1>6

\* One worker moves; no address changes.
LEMMA GotoDoes ==
    ASSUME WorkerInv, NEW w \in Workers, NEW l, Goto(w, l)
    PROVE  /\ \A v \in Workers : v # w => worker'[v] = worker[v]
           /\ worker'[w].pc = l /\ worker'[w].d = worker[w].d
           /\ worker'[w].side = worker[w].side
           /\ \A v \in Workers : Hash(v)' = Hash(v)
BY DEF Goto, WorkerInv, WorkerSet, Hash

\* One worker becomes idle.
LEMMA FinishedDoes ==
    ASSUME WorkerInv, NEW w \in Workers, Finished(w)
    PROVE  /\ \A v \in Workers : v # w => worker'[v] = worker[v] /\ Hash(v)' = Hash(v)
           /\ worker'[w].pc = "idle" /\ worker'[w].d = None
BY DEF Finished, WorkerInv, WorkerSet, IdleWorker, Hash

\* One worker turns to the download, or becomes idle.
LEMMA ArtifactsDoes ==
    ASSUME WorkerInv, NEW w \in Workers, NEW d, NEW r, Artifacts(w, d, r)
    PROVE  /\ \A v \in Workers : v # w => worker'[v] = worker[v] /\ Hash(v)' = Hash(v)
           /\ \/ worker'[w].pc = "idle" /\ worker'[w].d = None
              \/ worker'[w].pc = "artifact" /\ worker'[w].d = d
                 /\ worker'[w].side = "download"
BY DEF Artifacts, WorkerInv, WorkerSet, IdleWorker, Hash

\* A build ends for its worker and for those at the same address.
LEMMA LandDoes ==
    ASSUME WorkerInv, NEW w \in Workers, NEW ok \in BOOLEAN, Land(w, ok)
    PROVE  \A v \in Workers :
             /\ worker'[v].d = worker[v].d /\ worker'[v].side = worker[v].side
             /\ Hash(v)' = Hash(v)
             /\ \/ worker'[v] = worker[v] /\ v # w
                \/ /\ v = w \/ Hash(v) = Hash(w)
                   /\ ok => worker'[v].pc \in {"provision", "built"}
                   /\ ~ok => worker'[v].pc \in {"fail", "unbuilt"}
<1>1. \A v \in Workers :
         /\ v \in Joined(w) \cup {w} =>
              /\ ok => worker'[v].pc \in {"provision", "built"}
              /\ ~ok => worker'[v].pc \in {"fail", "unbuilt"}
         /\ v \notin Joined(w) \cup {w} => worker'[v] = worker[v]
         /\ worker'[v].d = worker[v].d /\ worker'[v].side = worker[v].side
  BY DEF Land, WorkerInv, WorkerSet
<1>2. \A v \in Workers : Hash(v)' = Hash(v)
  BY <1>1 DEF Hash
<1> QED BY <1>1, <1>2 DEF Joined

\* An UPDATE by id changes one status, if the row is there.
LEMMA UpdateDoes ==
    ASSUME RowInv, NEW d \in Deploys, NEW s, Update(d, s)
    PROVE  \A x \in Deploys :
              row'[x].status = IF x = d /\ Exists(d) THEN s ELSE row[x].status
BY DEF Update, RowInv, RowSet

\* A download's status is not the deploy's.
LEMMA DownloadDoes ==
    ASSUME RowInv, NEW d \in Deploys, NEW s, UpdateDownload(d, s)
    PROVE  \A x \in Deploys : row'[x].status = row[x].status
BY DEF UpdateDownload, RowInv, RowSet

-----------------------------------------------------------------------------
(* No deploy is forgotten *)

\* Held, with its parts named.
LEMMA HeldIs ==
    ASSUME NEW d \in Deploys
    PROVE  Held(d) <=> \/ \E c \in Callers : caller[c].d = d /\ caller[c].pc \in {"flag", "send"}
                       \/ On(work, d) \/ ~listed \/ d \in resume
                       \/ \E w \in Workers : Holds(w, d)
BY DEF Held, On, Holds

\* A step of the workers: nothing else moves, and a worker lets go of a row
\* only when it is no longer in flight.
LEMMA HeldByWorkers ==
    ASSUME InFlightHeld, UNCHANGED <<ctx, caller, work, listed, resume>>,
           \A d \in Deploys : InFlight(d)' => InFlight(d) \/ \E w \in Workers : Holds(w, d)',
           \A v \in Workers, d \in Deploys : Holds(v, d) /\ InFlight(d)' => Holds(v, d)'
    PROVE  InFlightHeld'
<1> SUFFICES ASSUME ctx = "up", NEW d \in Deploys, InFlight(d)' PROVE Held(d)'
  BY DEF InFlightHeld
<1>1. CASE \E w \in Workers : Holds(w, d)'
  BY <1>1 DEF Held, Holds
<1>2. CASE InFlight(d)
  <2>1. Held(d)
    BY <1>2 DEF InFlightHeld
  <2>2. CASE \E w \in Workers : Holds(w, d)
    BY <1>1, <2>2
  <2>3. CASE ~\E w \in Workers : Holds(w, d)
    BY <2>1, <2>3 DEF Held, Holds
  <2> QED BY <2>2, <2>3
<1> QED BY <1>1, <1>2

\* Whoever lets go of a row that is in flight hands it on.
LEMMA HeldStep == ASSUME IInv, Next PROVE InFlightHeld'
<1> USE DEF IInv
<1>1. ASSUME NEW w \in Workers, Take(w) PROVE InFlightHeld'
  <2>1. Head(work) \in Deploys /\ \A d \in Deploys : On(work, d) => d = Head(work) \/ On(Tail(work), d)
    BY <1>1, OnTail DEF Take, MemoryInv
  <2>2. UNCHANGED <<ctx, row, caller, listed, resume>> /\ work' = Tail(work)
    BY <1>1 DEF Take, startup
  <2>3. /\ \A v \in Workers : v # w => worker'[v] = worker[v]
        /\ worker'[w].d = Head(work) /\ worker'[w].side = "side" /\ worker'[w].pc = "load"
        /\ worker[w].d = None
    BY <1>1 DEF Take, WorkerInv, WorkerSet
  <2>4. \A v \in Workers, d \in Deploys : Holds(v, d) => Holds(v, d)'
    BY <2>3, BuildQueueAssumption DEF Holds
  <2> SUFFICES ASSUME ctx' = "up", NEW d \in Deploys, InFlight(d)' PROVE Held(d)'
    BY DEF InFlightHeld
  <2>6. Held(d)
    BY <2>2 DEF InFlightHeld, InFlight
  <2>7. CASE \E v \in Workers : Holds(v, d)
    BY <2>4, <2>7 DEF Held, Holds
  <2>8. CASE On(work, d)
    <3>1. d = Head(work) \/ On(Tail(work), d)
      BY <2>1, <2>8
    <3>2. CASE d = Head(work)
      BY <2>3, <3>2 DEF Held
    <3>3. CASE On(Tail(work), d)
      BY <2>2, <3>3 DEF Held, On
    <3> QED BY <3>1, <3>2, <3>3
  <2> QED BY <2>2, <2>6, <2>7, <2>8 DEF Held, On, Holds
<1>2. ASSUME NEW w \in Workers, LoadRow(w) PROVE InFlightHeld'
  <2>1. UNCHANGED <<ctx, caller, work, listed, resume>>
    BY <1>2 DEF LoadRow, memory, startup, Land
  <2>2. worker[w].d \in Deploys
    BY <1>2 DEF LoadRow, WorkerInv
  <2>3. \A d \in Deploys : InFlight(d)' => InFlight(d)
    BY <1>2 DEF LoadRow, InFlight
  <2>4. \A v \in Workers, d \in Deploys : Holds(v, d) /\ InFlight(d)' => Holds(v, d)'
    <3>1. row' = row
      BY <1>2 DEF LoadRow
    <3>2. CASE Goto(w, "mark")
      BY <3>2, GotoDoes DEF Holds
    <3>3. CASE ~InFlight(worker[w].d) /\ \A v \in Workers : v # w => worker'[v] = worker[v]
      BY <3>1, <3>3 DEF Holds, InFlight
    <3>4. Goto(w, "mark") \/ (~InFlight(worker[w].d) /\ (Finished(w) \/ Artifacts(w, worker[w].d, FALSE)))
      BY <1>2 DEF LoadRow, InFlight, Exists
    <3> QED BY <3>2, <3>3, <3>4, FinishedDoes, ArtifactsDoes
  <2> QED BY <2>1, <2>3, <2>4, HeldByWorkers
<1>3. ASSUME NEW w \in Workers, MarkBuilding(w) PROVE InFlightHeld'
  <2>1. UNCHANGED <<ctx, caller, work, listed, resume>>
    BY <1>3 DEF MarkBuilding, memory, startup, Land
  <2>2. worker[w].d \in Deploys
    BY <1>3 DEF MarkBuilding, WorkerInv
  <2>3. \A d \in Deploys : InFlight(d)' => InFlight(d) \/ \E v \in Workers : Holds(v, d)'
    BY <1>3, <2>2, UpdateDoes, GotoDoes DEF MarkBuilding, InFlight, Holds, WorkerInv, SidePC, Exists
  <2>4. \A v \in Workers, d \in Deploys : Holds(v, d) /\ InFlight(d)' => Holds(v, d)'
    BY <1>3, <2>2, UpdateDoes, GotoDoes, FinishedDoes DEF MarkBuilding, InFlight, Holds, Exists
  <2> QED BY <2>1, <2>3, <2>4, HeldByWorkers
<1>4. ASSUME NEW w \in Workers, SetReady(w) PROVE InFlightHeld'
  <2>1. UNCHANGED <<ctx, caller, work, listed, resume>>
    BY <1>4 DEF SetReady, memory, startup, Land
  <2>2. worker[w].d \in Deploys
    BY <1>4 DEF SetReady, WorkerInv
  <2>3. \A d \in Deploys : InFlight(d)' => InFlight(d) \/ \E v \in Workers : Holds(v, d)'
    BY <1>4, <2>2, UpdateDoes, GotoDoes DEF SetReady, InFlight, Holds, WorkerInv, SidePC, Exists
  <2>4. \A v \in Workers, d \in Deploys : Holds(v, d) /\ InFlight(d)' => Holds(v, d)'
    BY <1>4, <2>2, UpdateDoes, GotoDoes, FinishedDoes DEF SetReady, InFlight, Holds, Exists
  <2> QED BY <2>1, <2>3, <2>4, HeldByWorkers
<1>5. ASSUME NEW w \in Workers, SetFailed(w) PROVE InFlightHeld'
  <2>1. UNCHANGED <<ctx, caller, work, listed, resume>>
    BY <1>5 DEF SetFailed, memory, startup, Land
  <2>2. worker[w].d \in Deploys
    BY <1>5 DEF SetFailed, WorkerInv
  <2>3. \A d \in Deploys : InFlight(d)' => InFlight(d) \/ \E v \in Workers : Holds(v, d)'
    BY <1>5, <2>2, UpdateDoes, GotoDoes DEF SetFailed, InFlight, Holds, WorkerInv, SidePC, Exists
  <2>4. \A v \in Workers, d \in Deploys : Holds(v, d) /\ InFlight(d)' => Holds(v, d)'
    BY <1>5, <2>2, UpdateDoes, GotoDoes, FinishedDoes DEF SetFailed, InFlight, Holds, Exists
  <2> QED BY <2>1, <2>3, <2>4, HeldByWorkers
<1>6. ASSUME NEW w \in Workers, TakeRebuild(w) PROVE InFlightHeld'
  <2>1. UNCHANGED <<ctx, caller, work, listed, resume>>
    BY <1>6 DEF TakeRebuild, memory, startup, Land
  <2>2. worker[w].d \in Deploys
    BY <1>6 DEF TakeRebuild, WorkerInv
  <2>3. \A d \in Deploys : InFlight(d)' => InFlight(d)
    BY <1>6 DEF TakeRebuild, InFlight
  <2>4. \A v \in Workers, d \in Deploys : Holds(v, d) /\ InFlight(d)' => Holds(v, d)'
    BY <1>6 DEF TakeRebuild, Holds, WorkerInv, WorkerSet
  <2> QED BY <2>1, <2>3, <2>4, HeldByWorkers
<1>7. ASSUME NEW w \in Workers, Resolve(w) PROVE InFlightHeld'
  <2>1. UNCHANGED <<ctx, caller, work, listed, resume>>
    BY <1>7 DEF Resolve, memory, startup, Land
  <2>2. worker[w].d \in Deploys
    BY <1>7 DEF Resolve, WorkerInv
  <2>3. \A d \in Deploys : InFlight(d)' => InFlight(d)
    BY <1>7, <2>2 DEF Resolve, InFlight, RowInv, RowSet
  <2>4. \A v \in Workers, d \in Deploys : Holds(v, d) /\ InFlight(d)' => Holds(v, d)'
    BY <1>7, GotoDoes DEF Resolve, Holds
  <2> QED BY <2>1, <2>3, <2>4, HeldByWorkers
<1>8. ASSUME NEW w \in Workers, Cache(w) PROVE InFlightHeld'
  <2>1. UNCHANGED <<ctx, caller, work, listed, resume>>
    BY <1>8 DEF Cache, memory, startup, Land
  <2>2. worker[w].d \in Deploys
    BY <1>8 DEF Cache, WorkerInv
  <2>3. \A d \in Deploys : InFlight(d)' => InFlight(d)
    BY <1>8 DEF Cache, InFlight
  <2>4. \A v \in Workers, d \in Deploys : Holds(v, d) /\ InFlight(d)' => Holds(v, d)'
    BY <1>8, GotoDoes DEF Cache, Holds
  <2> QED BY <2>1, <2>3, <2>4, HeldByWorkers
<1>9. ASSUME NEW w \in Workers, Enter(w) PROVE InFlightHeld'
  <2>1. UNCHANGED <<ctx, caller, work, listed, resume>>
    BY <1>9 DEF Enter, memory, startup, Land
  <2>2. worker[w].d \in Deploys
    BY <1>9 DEF Enter, WorkerInv
  <2>3. \A d \in Deploys : InFlight(d)' => InFlight(d)
    BY <1>9 DEF Enter, InFlight
  <2>4. \A v \in Workers, d \in Deploys : Holds(v, d) /\ InFlight(d)' => Holds(v, d)'
    BY <1>9, GotoDoes DEF Enter, Holds
  <2> QED BY <2>1, <2>3, <2>4, HeldByWorkers
<1>10. ASSUME NEW w \in Workers, Provision(w) PROVE InFlightHeld'
  <2>1. UNCHANGED <<ctx, caller, work, listed, resume>>
    BY <1>10 DEF Provision, memory, startup, Land
  <2>2. worker[w].d \in Deploys
    BY <1>10 DEF Provision, WorkerInv
  <2>3. \A d \in Deploys : InFlight(d)' => InFlight(d)
    BY <1>10 DEF Provision, InFlight
  <2>4. \A v \in Workers, d \in Deploys : Holds(v, d) /\ InFlight(d)' => Holds(v, d)'
    BY <1>10, GotoDoes DEF Provision, Holds
  <2> QED BY <2>1, <2>3, <2>4, HeldByWorkers
<1>11. ASSUME NEW w \in Workers, StateDir(w) PROVE InFlightHeld'
  <2>1. UNCHANGED <<ctx, caller, work, listed, resume>>
    BY <1>11 DEF StateDir, memory, startup, Land
  <2>2. worker[w].d \in Deploys
    BY <1>11 DEF StateDir, WorkerInv
  <2>3. \A d \in Deploys : InFlight(d)' => InFlight(d)
    BY <1>11 DEF StateDir, InFlight
  <2>4. \A v \in Workers, d \in Deploys : Holds(v, d) /\ InFlight(d)' => Holds(v, d)'
    BY <1>11, GotoDoes DEF StateDir, Holds
  <2> QED BY <2>1, <2>3, <2>4, HeldByWorkers
<1>12. ASSUME NEW w \in Workers, CreateBackendArtifact(w) PROVE InFlightHeld'
  <2>1. UNCHANGED <<ctx, caller, work, listed, resume>>
    BY <1>12 DEF CreateBackendArtifact, memory, startup, Land
  <2>2. worker[w].d \in Deploys
    BY <1>12 DEF CreateBackendArtifact, WorkerInv
  <2>3. \A d \in Deploys : InFlight(d)' => InFlight(d)
    BY <1>12 DEF CreateBackendArtifact, InFlight
  <2>4. \A v \in Workers, d \in Deploys : Holds(v, d) /\ InFlight(d)' => Holds(v, d)'
    BY <1>12, GotoDoes DEF CreateBackendArtifact, Holds
  <2> QED BY <2>1, <2>3, <2>4, HeldByWorkers
<1>13. ASSUME NEW w \in Workers, Artifact(w) PROVE InFlightHeld'
  <2>1. UNCHANGED <<ctx, caller, work, listed, resume>>
    BY <1>13 DEF Artifact, memory, startup, Land
  <2>2. worker[w].d \in Deploys
    BY <1>13 DEF Artifact, WorkerInv
  <2>3. \A d \in Deploys : InFlight(d)' => InFlight(d)
    BY <1>13 DEF Artifact, InFlight
  <2>4. \A v \in Workers, d \in Deploys : Holds(v, d) /\ InFlight(d)' => Holds(v, d)'
    BY <1>13, GotoDoes DEF Artifact, Holds
  <2> QED BY <2>1, <2>3, <2>4, HeldByWorkers
<1>14. ASSUME NEW w \in Workers, BuildSteps(w) PROVE InFlightHeld'
  <2>1. UNCHANGED <<ctx, caller, work, listed, resume>>
    BY <1>14 DEF BuildSteps, memory, startup, Land
  <2>2. worker[w].d \in Deploys
    BY <1>14 DEF BuildSteps, WorkerInv, BuildPC
  <2>3. \A d \in Deploys : InFlight(d)' => InFlight(d)
    BY <1>14 DEF BuildSteps, InFlight
  <2>4. \A v \in Workers, d \in Deploys : Holds(v, d) /\ InFlight(d)' => Holds(v, d)'
    <3>1. CASE \E ok \in BOOLEAN : Land(w, ok)
      BY <3>1, LandDoes DEF Holds
    <3>2. CASE \E l \in {"publish", "replace"} : Goto(w, l)
      BY <3>2, GotoDoes DEF Holds
    <3> QED BY <1>14, <3>1, <3>2 DEF BuildSteps
  <2> QED BY <2>1, <2>3, <2>4, HeldByWorkers
<1>15. ASSUME NEW w \in Workers, Publish(w) PROVE InFlightHeld'
  <2>1. UNCHANGED <<ctx, caller, work, listed, resume>>
    BY <1>15 DEF Publish, memory, startup, Land
  <2>2. worker[w].d \in Deploys
    BY <1>15 DEF Publish, WorkerInv, BuildPC
  <2>3. \A d \in Deploys : InFlight(d)' => InFlight(d)
    BY <1>15 DEF Publish, InFlight
  <2>4. \A v \in Workers, d \in Deploys : Holds(v, d) /\ InFlight(d)' => Holds(v, d)'
    <3>1. CASE \E ok \in BOOLEAN : Land(w, ok)
      BY <3>1, LandDoes DEF Holds
    <3>2. CASE \E l \in {"publish", "replace"} : Goto(w, l)
      BY <3>2, GotoDoes DEF Holds
    <3> QED BY <1>15, <3>1, <3>2 DEF Publish
  <2> QED BY <2>1, <2>3, <2>4, HeldByWorkers
<1>16. ASSUME NEW w \in Workers, Replace(w) PROVE InFlightHeld'
  <2>1. UNCHANGED <<ctx, caller, work, listed, resume>>
    BY <1>16 DEF Replace, memory, startup, Land
  <2>2. worker[w].d \in Deploys
    BY <1>16 DEF Replace, WorkerInv, BuildPC
  <2>3. \A d \in Deploys : InFlight(d)' => InFlight(d)
    BY <1>16 DEF Replace, InFlight
  <2>4. \A v \in Workers, d \in Deploys : Holds(v, d) /\ InFlight(d)' => Holds(v, d)'
    <3>1. CASE \E ok \in BOOLEAN : Land(w, ok)
      BY <3>1, LandDoes DEF Holds
    <3>2. CASE \E l \in {"publish", "replace"} : Goto(w, l)
      BY <3>2, GotoDoes DEF Holds
    <3> QED BY <1>16, <3>1, <3>2 DEF Replace
  <2> QED BY <2>1, <2>3, <2>4, HeldByWorkers
<1>17. ASSUME NEW w \in Workers, Reload(w) PROVE InFlightHeld'
  <2>1. UNCHANGED <<ctx, caller, work, listed, resume>>
    BY <1>17 DEF Reload, memory, startup, Land
  <2>2. worker[w].d \in Deploys
    BY <1>17 DEF Reload, WorkerInv
  <2>3. \A d \in Deploys : InFlight(d)' => InFlight(d)
    BY <1>17 DEF Reload, InFlight
  <2>4. \A v \in Workers, d \in Deploys : Holds(v, d) /\ InFlight(d)' => Holds(v, d)'
    BY <1>17, ArtifactsDoes DEF Reload, Holds
  <2> QED BY <2>1, <2>3, <2>4, HeldByWorkers
<1>18. ASSUME NEW w \in Workers, ArtifactBuilt(w) PROVE InFlightHeld'
  <2>1. UNCHANGED <<ctx, caller, work, listed, resume>>
    BY <1>18 DEF ArtifactBuilt, memory, startup, Land
  <2>2. worker[w].d \in Deploys
    BY <1>18 DEF ArtifactBuilt, WorkerInv
  <2>3. \A d \in Deploys : InFlight(d)' => InFlight(d)
    BY <1>18, <2>2, DownloadDoes DEF ArtifactBuilt, InFlight
  <2>4. \A v \in Workers, d \in Deploys : Holds(v, d) /\ InFlight(d)' => Holds(v, d)'
    BY <1>18, FinishedDoes DEF ArtifactBuilt, Holds, WorkerInv, DownloadPC
  <2> QED BY <2>1, <2>3, <2>4, HeldByWorkers
<1>19. ASSUME NEW w \in Workers, ArtifactFailed(w) PROVE InFlightHeld'
  <2>1. UNCHANGED <<ctx, caller, work, listed, resume>>
    BY <1>19 DEF ArtifactFailed, memory, startup, Land
  <2>2. worker[w].d \in Deploys
    BY <1>19 DEF ArtifactFailed, WorkerInv
  <2>3. \A d \in Deploys : InFlight(d)' => InFlight(d)
    BY <1>19, <2>2, DownloadDoes DEF ArtifactFailed, InFlight
  <2>4. \A v \in Workers, d \in Deploys : Holds(v, d) /\ InFlight(d)' => Holds(v, d)'
    BY <1>19, FinishedDoes DEF ArtifactFailed, Holds, WorkerInv, DownloadPC
  <2> QED BY <2>1, <2>3, <2>4, HeldByWorkers
<1>20. ASSUME NEW c \in Callers, Ask(c) PROVE InFlightHeld'
  <2>1. \A x \in Callers : x # c => caller'[x] = caller[x]
    BY <1>20 DEF Ask, CallerInv
  <2>2. caller[c].pc = "idle" /\ UNCHANGED <<ctx, row, work, listed, resume, worker>>
    BY <1>20 DEF Ask, memory, startup
  <2> QED BY <2>1, <2>2 DEF InFlightHeld, Held, InFlight
<1>21. ASSUME NEW c \in Callers, Create(c) PROVE InFlightHeld'
  <2>1. caller[c].d \in Deploys /\ caller[c].pc \notin {"flag", "send"}
    BY <1>21 DEF Create, CallerInv
  <2>2. /\ \A x \in Callers : x # c => caller'[x] = caller[x]
        /\ UNCHANGED <<ctx, work, listed, resume, worker>>
    BY <1>21 DEF Create, memory, startup, CallerInv
  <2>3. \/ row' = row
        \/ /\ \A d \in Deploys : d # caller[c].d => row'[d] = row[d]
           /\ caller' = [caller EXCEPT ![c].pc = "flag"]
    BY <1>21, <2>1 DEF Create, Update, RowInv
  <2>4. CASE row' = row
    BY <2>1, <2>2, <2>4 DEF InFlightHeld, Held, InFlight
  <2>5. CASE /\ \A d \in Deploys : d # caller[c].d => row'[d] = row[d]
             /\ caller' = [caller EXCEPT ![c].pc = "flag"]
    <3>1. caller'[c].pc = "flag" /\ caller'[c].d = caller[c].d
      BY <2>5 DEF CallerInv, CallerSet
    <3> QED BY <2>1, <2>2, <2>5, <3>1 DEF InFlightHeld, Held, InFlight
  <2> QED BY <2>3, <2>4, <2>5
<1>22. ASSUME NEW c \in Callers, ResetDeploy(c) PROVE InFlightHeld'
  <2>1. caller[c].d \in Deploys /\ caller[c].pc \notin {"flag", "send"}
    BY <1>22 DEF ResetDeploy, CallerInv
  <2>2. /\ \A x \in Callers : x # c => caller'[x] = caller[x]
        /\ UNCHANGED <<ctx, work, listed, resume, worker>>
    BY <1>22 DEF ResetDeploy, memory, startup, CallerInv
  <2>3. \/ row' = row
        \/ /\ \A d \in Deploys : d # caller[c].d => row'[d] = row[d]
           /\ caller' = [caller EXCEPT ![c].pc = "flag"]
    BY <1>22, <2>1 DEF ResetDeploy, Update, RowInv
  <2>4. CASE row' = row
    BY <2>1, <2>2, <2>4 DEF InFlightHeld, Held, InFlight
  <2>5. CASE /\ \A d \in Deploys : d # caller[c].d => row'[d] = row[d]
             /\ caller' = [caller EXCEPT ![c].pc = "flag"]
    <3>1. caller'[c].pc = "flag" /\ caller'[c].d = caller[c].d
      BY <2>5 DEF CallerInv, CallerSet
    <3> QED BY <2>1, <2>2, <2>5, <3>1 DEF InFlightHeld, Held, InFlight
  <2> QED BY <2>3, <2>4, <2>5
<1>23. ASSUME NEW c \in Callers, SetRebuild(c) PROVE InFlightHeld'
  <2>1. /\ \A x \in Callers : x # c => caller'[x] = caller[x]
        /\ caller[c].pc = "flag" /\ caller'[c].pc = "send" /\ caller'[c].d = caller[c].d
        /\ UNCHANGED <<ctx, row, work, listed, resume, worker>>
    BY <1>23 DEF SetRebuild, memory, startup, CallerInv, CallerSet
  <2> QED BY <2>1 DEF InFlightHeld, Held, InFlight
<1>24. ASSUME NEW c \in Callers, Enqueue(c) PROVE InFlightHeld'
  <2>1. caller[c].d \in Deploys
    BY <1>24 DEF Enqueue, CallerInv
  <2>2. /\ \A x \in Callers : x # c => caller'[x] = caller[x]
        /\ work' = Append(work, caller[c].d)
        /\ UNCHANGED <<ctx, row, listed, resume, worker>>
    BY <1>24 DEF Enqueue, startup, CallerInv
  <2>3. \A d \in Deploys : On(work, d) \/ d = caller[c].d => On(work', d)
    BY <2>1, <2>2, OnAppend DEF MemoryInv
  <2> SUFFICES ASSUME ctx' = "up", NEW d \in Deploys, InFlight(d)' PROVE Held(d)'
    BY DEF InFlightHeld
  <2>4. Held(d)
    BY <2>2 DEF InFlightHeld, InFlight
  <2>5. CASE On(work', d)
    BY <2>5 DEF Held, On
  <2>6. CASE ~On(work', d)
    BY <2>2, <2>3, <2>4, <2>6 DEF Held, On
  <2> QED BY <2>5, <2>6
<1>25. ASSUME NEW e \in Cleaners,
          List(e) \/ Survey(e) \/ DeleteBackendArtifact(e) \/ RemoveFiles(e) \/
                 RemoveState(e)
     PROVE InFlightHeld'
  <2>1. UNCHANGED <<ctx, row, work, listed, resume, worker, caller>>
    BY <1>25 DEF List, Survey, DeleteBackendArtifact, RemoveFiles, RemoveState, memory, startup, Move
  <2> QED BY <2>1 DEF InFlightHeld, Held, InFlight
<1>26. ASSUME NEW e \in Cleaners, Mark(e) PROVE InFlightHeld'
  <2>1. UNCHANGED <<ctx, work, listed, resume, worker, caller>>
    BY <1>26 DEF Mark, memory, startup
  <2>2. PICK s \in cleaner[e].todo :
           row' = IF Deletes(e) THEN [row EXCEPT ![s.d] = DeletedRow]
                  ELSE IF Exists(s.d) THEN [row EXCEPT ![s.d].status = "evicted"]
                  ELSE row
    BY <1>26 DEF Mark
  <2>3. s.d \in Deploys
    BY <2>2 DEF CleanerInv, CleanerSet, Snapshots
  <2>4. \A d \in Deploys : row'[d].status \in {row[d].status, "evicted", "deleted"}
    BY <2>2, <2>3 DEF RowInv, RowSet, DeletedRow, NoRow
  <2> QED BY <2>1, <2>4 DEF InFlightHeld, Held, InFlight
<1>27. ASSUME ListUnfinished PROVE InFlightHeld'
  <2>1. \A d \in Deploys : InFlight(d)' => d \in resume'
    BY <1>27 DEF ListUnfinished, InFlight
  <2> QED BY <2>1 DEF InFlightHeld, Held
<1>28. ASSUME Resume PROVE InFlightHeld'
  <2>1. PICK d0 \in resume : work' = Append(work, d0) /\ resume' = resume \ {d0}
    BY <1>28 DEF Resume
  <2>2. UNCHANGED <<ctx, row, listed, worker, caller>>
    BY <1>28 DEF Resume
  <2>3. \A d \in Deploys : On(work, d) \/ d = d0 => On(work', d)
    BY <2>1, OnAppend DEF MemoryInv
  <2> SUFFICES ASSUME ctx' = "up", NEW d \in Deploys, InFlight(d)' PROVE Held(d)'
    BY DEF InFlightHeld
  <2>4. Held(d)
    BY <2>2 DEF InFlightHeld, InFlight
  <2>5. CASE On(work', d)
    BY <2>5 DEF Held, On
  <2>6. CASE ~On(work', d)
    BY <2>1, <2>2, <2>3, <2>4, <2>6 DEF Held, On
  <2> QED BY <2>5, <2>6
<1>29. ASSUME Cancel \/ Die PROVE InFlightHeld'
  BY <1>29 DEF Cancel, Die, InFlightHeld
<1>30. ASSUME Start PROVE InFlightHeld'
  BY <1>30 DEF Start, memory, startup, MemoryInv, InFlightHeld, Held
<1> QED BY <1>1, <1>2, <1>3, <1>4, <1>5, <1>6, <1>7, <1>8, <1>9, <1>10, <1>11,
       <1>12, <1>13, <1>14, <1>15, <1>16, <1>17, <1>18, <1>19, <1>20, <1>21,
       <1>22, <1>23, <1>24, <1>25, <1>26, <1>27, <1>28, <1>29, <1>30
       DEF Next, Process, RequestDeploy, Clean

-----------------------------------------------------------------------------
(* The invariant and what follows from it *)

\* Initially nobody is busy and nothing is anywhere.
LEMMA InitIInv == ASSUME Init PROVE IInv
<1> USE BuildQueueAssumption DEF Init
<1>1. RowInv
  BY DEF RowInv, RowSet, NoRow, Exists, Statuses
<1>2. WorkerInv
  BY DEF WorkerInv, WorkerSet, WorkerPC, IdleWorker, SidePC, DownloadPC
<1>3. CallerInv /\ CleanerInv
  BY DEF CallerInv, CallerSet, IdleCaller, CleanerInv, CleanerSet, IdleCleaner
<1>4. DiskInv /\ MemoryInv /\ BoundInv
  <2>1. <<>> \in Seq(Deploys) /\ Len(<<>>) = 0
    OBVIOUS
  <2>2. DiskInv /\ BoundInv
    BY DEF DiskInv, BoundInv
  <2>3. work = <<>> /\ rebuild = {} /\ resume = {} /\ ctx = "up" /\ listed = FALSE
    OBVIOUS
  <2>4. Len(work) <= WorkCap
    BY <2>1, <2>3
  <2>5. work \in Seq(Deploys) /\ rebuild \subseteq Deploys /\ resume \subseteq Deploys
    BY <2>1, <2>3
  <2>6. listed \in BOOLEAN /\ ~listed /\ ctx \in {"up", "stopping", "down"}
    BY <2>3
  <2> QED BY <2>2, <2>4, <2>5, <2>6 DEF MemoryInv
<1>5. FlightInv /\ JoinInv
  BY DEF FlightInv, JoinInv, IdleWorker, BuildPC
<1>6. InFlightHeld
  BY DEF InFlightHeld, Held
<1> QED BY <1>1, <1>2, <1>3, <1>4, <1>5, <1>6 DEF IInv

\* A step that changes nothing keeps the invariant.
LEMMA StutterIInv == ASSUME IInv, UNCHANGED vars PROVE IInv'
BY DEF IInv, vars, RowInv, Exists, WorkerInv, CallerInv, CleanerInv, DiskInv,
       MemoryInv, BoundInv, FlightInv, JoinInv, InFlightHeld, Held, InFlight,
       Hash, disk, bounds, startup, memory

\* The inductive invariant holds of every behaviour.
THEOREM Inductive == Spec => []IInv
<1>1. IInv /\ [Next]_vars => IInv'
  <2>1. ASSUME IInv, Next PROVE IInv'
    BY <2>1, RowStep, WorkerStep, CallerStep, CleanerStep, DiskStep, MemoryStep,
       BoundStep, FlightStep, HeldStep DEF IInv
  <2> QED BY <2>1, StutterIInv
<1> QED BY InitIInv, <1>1, PTL DEF Spec

\* Rows, workers, requests and the channel keep their types and the bounds,
\* whatever is requested, built, evicted or killed.
THEOREM TypeCorrect == Spec => []TypeOK
<1>1. IInv => TypeOK
  <2> SUFFICES ASSUME IInv PROVE TypeOK
    OBVIOUS
  <2> USE DEF IInv
  <2>2. \A w \in Workers : (worker[w].pc = "idle") = (worker[w].d = None)
    BY BuildQueueAssumption DEF WorkerInv
  <2>3. \A e \in Cleaners :
           cleaner[e].pc \in {"idle", "mark", "survey", "drop", "files", "state"}
    BY DEF CleanerInv, CleanerSet
  <2> QED BY <2>2, <2>3
          DEF TypeOK, RowInv, RowSet, WorkerInv, WorkerSet, CallerInv, CallerSet,
              DiskInv, MemoryInv, BoundInv, FlightInv
<1> QED BY <1>1, Inductive, PTL

\* While the program runs, every row that reads queued or building is in the
\* hands of a request, the channel, the resume or a worker (RequestDeploy,
\* process, Start): over kills, evictions and a full channel none is forgotten.
THEOREM NoDeployForgotten == Spec => []InFlightHeld
BY Inductive, PTL DEF IInv

\* However many workers meet at a content address, one of them builds and
\* publishes it (singleflight in buildDeploy and buildArtifacts).
THEOREM OneBuilder == Spec => []OneBuildPerHash
<1>1. IInv => OneBuildPerHash
  <2> SUFFICES ASSUME IInv, NEW v \in Workers, NEW w \in Workers,
                      worker[v].pc \in BuildPC, worker[w].pc \in BuildPC,
                      Hash(v) = Hash(w)
               PROVE  v = w
    BY DEF OneBuildPerHash, BuildPC
  <2>1. Hash(v) \in Hashes
    BY HashType DEF IInv, BuildPC
  <2> QED BY <2>1 DEF IInv, FlightInv
<1> QED BY <1>1, Inductive, PTL

\* Whoever joined a build waits for a worker that is building that address:
\* no flight ends without its joiners (singleflight.Do).
THEOREM JoinersAreServed ==
    Spec => [](\A w \in Workers : worker[w].pc = "join" =>
                  \E v \in Workers : worker[v].pc \in BuildPC /\ Hash(v) = Hash(w))
<1>1. IInv => \A w \in Workers : worker[w].pc = "join" =>
                  \E v \in Workers : worker[v].pc \in BuildPC /\ Hash(v) = Hash(w)
  <2> SUFFICES ASSUME IInv, NEW w \in Workers, worker[w].pc = "join"
               PROVE  \E v \in Workers : worker[v].pc \in BuildPC /\ Hash(v) = Hash(w)
    OBVIOUS
  <2>1. Hash(w) \in Hashes /\ flight[Hash(w)] # None
    BY HashType DEF IInv, JoinInv
  <2>2. flight[Hash(w)] \in Workers
    BY <2>1 DEF IInv, FlightInv
  <2> QED BY <2>1, <2>2 DEF IInv, FlightInv
<1> QED BY <1>1, Inductive, PTL
=============================================================================
