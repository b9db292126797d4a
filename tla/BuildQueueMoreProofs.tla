------------------------ MODULE BuildQueueMoreProofs ------------------------
(***************************************************************************)
(* What a status says, and what evictions leave behind.  For every set of  *)
(* deploys, workers and requests, a ready deploy is one whose build steps  *)
(* succeed.  As long as nothing is evicted (Cleaners = {}), a failed one   *)
(* is one whose build steps fail, and a ready one is provisioned and       *)
(* published.  With evictions none of these is so: the run of              *)
(* MCBuildQueueServe.cfg shows one way.  And the evictions, however many   *)
(* run at once, do not leave an address on disk to each other.             *)
(* Last, with any evictions, that the queue implements DeployLife.         *)
(***************************************************************************)
EXTENDS BuildQueueProofs

PastPublish == {"provision", "state", "record", "finish", "reload"}
Sound       == PastPublish \cup {"publish", "replace"}

\* What fails to build is never published, and a worker past its build, or
\* a ready deploy, is at an address that builds.
SoundInv ==
    /\ files \cap broken = {}
    /\ \A d \in Deploys : row[d].status = "ready" => Side[d] \notin broken
    /\ \A w \in Workers : worker[w].pc \in Sound => Hash(w) \notin broken

\* A deploy that somebody has in hand was requested, and so had its row.
Seen(d) == row[d].status # "none"
KnownInv ==
    /\ \A w \in Workers : worker[w].pc # "idle" => Seen(worker[w].d)
    /\ \A c \in Callers : caller[c].pc \in {"flag", "send"} => Seen(caller[c].d)
    /\ \A d \in Deploys : On(work, d) \/ d \in resume => Seen(d)

\* Without evictions it still has it.
ExistsInv == KnownInv /\ \A d \in Deploys : row[d].status # "deleted"

\* Until the program is told to stop only broken addresses fail.
FaultInv ==
    lives = 1 /\ ctx = "up" =>
        /\ \A d \in Deploys : row[d].status = "failed" => Side[d] \in broken
        /\ \A w \in Workers : worker[w].pc = "fail" => Hash(w) \in broken

\* The state directory comes before its row, and the row before ready.
ProvisionInv ==
    /\ arow \subseteq state
    /\ \A d \in Deploys : row[d].status = "ready" => Side[d] \in arow
    /\ \A w \in Workers : /\ worker[w].pc = "record" => Hash(w) \in state
                          /\ worker[w].pc = "finish" => Hash(w) \in arow

\* Until the first kill the files of what is built are there or being replaced.
Here(h) == h \in files \/ \E w \in Workers : worker[w].pc = "replace" /\ Hash(w) = h
FilesInv ==
    lives = 1 /\ ctx # "down" =>
        /\ \A d \in Deploys : row[d].status = "ready" => Here(Side[d])
        /\ \A w \in Workers : worker[w].pc \in PastPublish => Here(Hash(w))

-----------------------------------------------------------------------------
(* Effects of the steps on the statuses *)

\* A step that writes no outcome.
StatusKept == \A d \in Deploys : row'[d].status \in {"ready", "failed"}
                                    => row'[d].status = row[d].status

\* The steps of a worker between the first and the last status it writes.
LEMMA QuietWorker ==
    ASSUME IInv, NEW w \in Workers,
           Take(w) \/ LoadRow(w) \/ MarkBuilding(w) \/ TakeRebuild(w) \/
                  Resolve(w) \/ Cache(w) \/ Enter(w) \/ BuildSteps(w) \/
                  Publish(w) \/ Replace(w) \/ Provision(w) \/ StateDir(w) \/
                  CreateBackendArtifact(w) \/ Reload(w) \/ Artifact(w) \/
                  ArtifactBuilt(w) \/ ArtifactFailed(w)
    PROVE  StatusKept
<1> USE DEF IInv, StatusKept
<1>1. CASE Take(w) \/ LoadRow(w) \/ TakeRebuild(w) \/ Cache(w) \/ Enter(w) \/
       BuildSteps(w) \/ Publish(w) \/ Replace(w) \/ Provision(w) \/ StateDir(w)
       \/ CreateBackendArtifact(w) \/ Reload(w) \/ Artifact(w)
  <2>1. row' = row
    BY <1>1 DEF Take, LoadRow, TakeRebuild, Cache, Enter, BuildSteps, Publish,
           Replace, Provision, StateDir, CreateBackendArtifact, Reload, Artifact
  <2> QED BY <2>1
<1>2. CASE ArtifactBuilt(w) \/ ArtifactFailed(w)
  <2>1. worker[w].d \in Deploys
    BY <1>2 DEF ArtifactBuilt, ArtifactFailed, WorkerInv
  <2> QED BY <1>2, <2>1, DownloadDoes DEF ArtifactBuilt, ArtifactFailed
<1>3. CASE MarkBuilding(w)
  <2>1. worker[w].d \in Deploys
    BY <1>3 DEF MarkBuilding, WorkerInv
  <2> QED BY <1>3, <2>1, UpdateDoes DEF MarkBuilding
<1>4. CASE Resolve(w)
  <2>1. worker[w].d \in Deploys
    BY <1>4 DEF Resolve, WorkerInv
  <2> QED BY <1>4, <2>1 DEF Resolve, RowInv, RowSet
<1> QED BY <1>1, <1>2, <1>3, <1>4

\* Requests queue deploys and write no outcome.
LEMMA QuietCaller ==
    ASSUME IInv, NEW c \in Callers,
           Ask(c) \/ Create(c) \/ ResetDeploy(c) \/ SetRebuild(c) \/ Enqueue(c)
    PROVE  StatusKept /\ UNCHANGED <<ctx, broken, files, state, arow, worker, lives>>
<1> USE DEF IInv, StatusKept
<1>1. UNCHANGED <<ctx, broken, files, state, arow, worker, lives>>
  BY DEF Ask, Create, ResetDeploy, SetRebuild, Enqueue, disk, bounds
<1>2. CASE Create(c)
  <2>1. caller[c].d \in Deploys
    BY <1>2 DEF Create, CallerInv
  <2> QED BY <1>1, <1>2, <2>1 DEF Create, RowInv, FreshRow, NoRow
<1>3. CASE ResetDeploy(c)
  <2>1. caller[c].d \in Deploys
    BY <1>3 DEF ResetDeploy, CallerInv
  <2> QED BY <1>1, <1>3, <2>1, UpdateDoes DEF ResetDeploy
<1>4. CASE Ask(c) \/ SetRebuild(c) \/ Enqueue(c)
  <2>1. row' = row
    BY <1>4 DEF Ask, SetRebuild, Enqueue
  <2> QED BY <1>1, <2>1
<1> QED BY <1>2, <1>3, <1>4

\* Evictions write no outcome and only remove files.
LEMMA QuietCleaner ==
    ASSUME IInv, NEW e \in Cleaners, List(e) \/ Clean(e)
    PROVE  /\ StatusKept /\ UNCHANGED <<ctx, broken, worker, lives>>
           /\ files' \subseteq files
<1> USE DEF IInv, StatusKept
<1>1. UNCHANGED <<ctx, broken, worker, lives>> /\ files' \subseteq files
  BY DEF List, Clean, Mark, Survey, DeleteBackendArtifact, RemoveFiles, RemoveState,
         disk, bounds
<1>2. CASE Mark(e)
  <2>1. PICK s \in cleaner[e].todo :
           row' = IF Deletes(e) THEN [row EXCEPT ![s.d] = DeletedRow]
                  ELSE IF Exists(s.d) THEN [row EXCEPT ![s.d].status = "evicted"]
                  ELSE row
    BY <1>2 DEF Mark
  <2>2. s.d \in Deploys
    BY <2>1 DEF CleanerInv, CleanerSet, Snapshots
  <2> QED BY <1>1, <2>1, <2>2 DEF RowInv, RowSet, DeletedRow, NoRow
<1>3. CASE List(e) \/ Survey(e) \/ DeleteBackendArtifact(e) \/ RemoveFiles(e) \/ RemoveState(e)
  <2>1. row' = row
    BY <1>3 DEF List, Survey, DeleteBackendArtifact, RemoveFiles, RemoveState
  <2> QED BY <1>1, <2>1
<1> QED BY <1>2, <1>3 DEF Clean

-----------------------------------------------------------------------------
(* What is ready builds *)

\* What a step of one worker must do to leave what is served sound.
LEMMA SoundKept ==
    ASSUME SoundInv, NEW w \in Workers, broken' = broken,
           files' \cap broken = {},
           \A v \in Workers : v # w => worker'[v] = worker[v],
           worker'[w].pc \in Sound => Hash(w)' \notin broken,
           \A d \in Deploys : row'[d].status = "ready"
                                 => row[d].status = "ready" \/ Side[d] \notin broken
    PROVE  SoundInv'
<1>1. \A v \in Workers : v # w => Hash(v)' = Hash(v)
  BY DEF Hash
<1> QED BY <1>1 DEF SoundInv

\* Only what has been built or was found published is served.
LEMMA SoundStep == ASSUME IInv, SoundInv, Next PROVE SoundInv'
<1> USE DEF IInv, StatusKept
<1>0. worker \in [Workers -> WorkerSet]
  BY DEF WorkerInv
<1>1. ASSUME NEW w \in Workers,
          Take(w) \/ LoadRow(w) \/ MarkBuilding(w) \/ TakeRebuild(w) \/
                 Resolve(w) \/ Enter(w) \/ SetFailed(w) \/ Reload(w) \/
                 Artifact(w) \/ ArtifactBuilt(w) \/ ArtifactFailed(w)
     PROVE  SoundInv'
  <2>1. UNCHANGED <<broken, files>>
    BY <1>1 DEF Take, LoadRow, MarkBuilding, TakeRebuild, Resolve, Enter,
           SetFailed, Reload, Artifact, ArtifactBuilt, ArtifactFailed, disk,
           bounds
  <2>2. \A v \in Workers : v # w => worker'[v] = worker[v]
    BY <1>0, <1>1 DEF Take, LoadRow, MarkBuilding, TakeRebuild, Resolve, Enter,
           SetFailed, Reload, Artifact, ArtifactBuilt, ArtifactFailed, Goto,
           Finished, Artifacts
  <2>3. worker'[w].pc \notin Sound
    BY <1>0, <1>1 DEF Take, LoadRow, MarkBuilding, TakeRebuild, Resolve, Enter,
           SetFailed, Reload, Artifact, ArtifactBuilt, ArtifactFailed, Sound,
           PastPublish, Goto, Finished, Artifacts, IdleWorker, WorkerSet
  <2>4. \A d \in Deploys : row'[d].status = "ready" => row[d].status = "ready"
    <3>1. CASE SetFailed(w)
      <4>1. worker[w].d \in Deploys
        BY <3>1 DEF SetFailed, WorkerInv
      <4> QED BY <3>1, <4>1, UpdateDoes DEF SetFailed
    <3>2. CASE ~SetFailed(w)
      BY <1>1, <3>2, QuietWorker
    <3> QED BY <3>1, <3>2
  <2>5. files' \cap broken = {}
    BY <2>1 DEF SoundInv
  <2> QED BY <2>1, <2>2, <2>3, <2>4, <2>5, SoundKept
<1>2. ASSUME NEW w \in Workers,
             Cache(w) \/ Provision(w) \/ StateDir(w) \/ CreateBackendArtifact(w)
      PROVE  SoundInv'
  <2>1. UNCHANGED <<broken, files, row>>
    BY <1>2 DEF Cache, Provision, StateDir, CreateBackendArtifact, disk, bounds
  <2>2. PICK l \in WorkerPC : Goto(w, l)
    BY <1>2 DEF Cache, Provision, StateDir, CreateBackendArtifact, WorkerPC
  <2>3. /\ \A v \in Workers : v # w => worker'[v] = worker[v]
        /\ worker'[w].pc = l /\ Hash(w)' = Hash(w)
    BY <2>2, GotoDoes
  <2>4. l \in Sound => Hash(w) \notin broken
    <3>1. CASE Cache(w)
      <4>1. \/ Hash(w) \in files
            \/ \E k \in {"enter", "fail"} : Goto(w, k)
        BY <3>1 DEF Cache
      <4>2. CASE Hash(w) \in files
        BY <4>2 DEF SoundInv
      <4>3. ASSUME NEW k \in {"enter", "fail"}, Goto(w, k) PROVE l \notin Sound
        BY <2>3, <4>3, GotoDoes DEF Sound, PastPublish
      <4> QED BY <4>1, <4>2, <4>3
    <3>2. CASE Provision(w) \/ StateDir(w) \/ CreateBackendArtifact(w)
      BY <3>2 DEF Provision, StateDir, CreateBackendArtifact, SoundInv, Sound, PastPublish
    <3> QED BY <1>2, <3>1, <3>2
  <2>5. files' \cap broken = {}
    BY <2>1 DEF SoundInv
  <2> QED BY <2>1, <2>3, <2>4, <2>5, SoundKept
<1>3. ASSUME NEW w \in Workers, SetReady(w) PROVE SoundInv'
  <2>1. UNCHANGED <<broken, files>> /\ worker[w].pc = "finish"
    BY <1>3 DEF SetReady, disk, bounds
  <2>2. worker[w].d \in Deploys /\ Hash(w) = Side[worker[w].d] /\ Hash(w) \notin broken
    BY <2>1, HashType DEF WorkerInv, SidePC, SoundInv, Sound, PastPublish
  <2>3. \A d \in Deploys : row'[d].status = "ready" => row[d].status = "ready" \/ d = worker[w].d
    BY <1>3, <2>2, UpdateDoes DEF SetReady
  <2>4. \A v \in Workers : v # w => worker'[v] = worker[v]
    BY <1>3, GotoDoes, FinishedDoes DEF SetReady
  <2>5. worker'[w].pc \in Sound => Hash(w)' \notin broken
    BY <1>3, <2>2, GotoDoes, FinishedDoes DEF SetReady, Sound, PastPublish
  <2>6. files' \cap broken = {}
    BY <2>1 DEF SoundInv
  <2> QED BY <2>1, <2>2, <2>3, <2>4, <2>5, <2>6, SoundKept
<1>4. ASSUME NEW w \in Workers, BuildSteps(w) \/ Publish(w) \/ Replace(w)
      PROVE  SoundInv'
  <2>1. UNCHANGED <<broken, row>>
    BY <1>4 DEF BuildSteps, Publish, Replace, bounds
  <2>2. files' \subseteq files \cup {Hash(w)} /\ (BuildSteps(w) => files' = files)
    BY <1>4 DEF BuildSteps, Publish, Replace, disk
  <2>3. Publish(w) \/ Replace(w) => Hash(w) \notin broken
    BY DEF Publish, Replace, SoundInv, Sound
  <2>4. files' \cap broken = {}
    BY <1>4, <2>2, <2>3 DEF SoundInv
  <2>5. CASE \E l \in {"publish", "replace"} : Goto(w, l)
    <3>1. Hash(w) \notin broken
      <4>1. CASE BuildSteps(w)
        <5>1. PICK l \in {"publish", "replace"} : Goto(w, l)
          BY <2>5
        <5>2. worker'[w].pc \in {"publish", "replace"}
          BY <5>1, GotoDoes
        <5>3. ~Land(w, FALSE)
          BY <5>2, LandDoes
        <5> QED BY <4>1, <5>3 DEF BuildSteps
      <4> QED BY <1>4, <2>3, <4>1
    <3> QED BY <2>1, <2>4, <2>5, <3>1, GotoDoes, SoundKept
  <2>6. ASSUME NEW ok \in BOOLEAN, Land(w, ok), ok => Hash(w) \notin broken
        PROVE  SoundInv'
    <3>1. ASSUME NEW v \in Workers, worker'[v].pc \in Sound
          PROVE  Hash(v)' \notin broken
      <4>1. Hash(v)' = Hash(v)
        BY <2>6, LandDoes
      <4>2. CASE worker'[v] = worker[v]
        BY <3>1, <4>1, <4>2 DEF SoundInv
      <4>3. CASE worker'[v] # worker[v]
        <5>1. /\ v = w \/ Hash(v) = Hash(w)
              /\ ~ok => worker'[v].pc \in {"fail", "unbuilt"}
          BY <2>6, <4>3, LandDoes
        <5>2. ok
          BY <3>1, <5>1 DEF Sound, PastPublish
        <5> QED BY <2>6, <4>1, <5>1, <5>2
      <4> QED BY <4>2, <4>3
    <3> QED BY <2>1, <2>4, <3>1 DEF SoundInv
  <2> QED BY <1>4, <2>3, <2>5, <2>6 DEF BuildSteps, Publish, Replace
<1>5. ASSUME NEW c \in Callers, Ask(c) \/ RequestDeploy(c) \/ Enqueue(c) PROVE SoundInv'
  <2>1. StatusKept /\ UNCHANGED <<ctx, broken, files, state, arow, worker, lives>>
    BY <1>5, QuietCaller DEF RequestDeploy
  <2> QED BY <2>1 DEF SoundInv, Hash
<1>6. ASSUME NEW e \in Cleaners, List(e) \/ Clean(e) PROVE SoundInv'
  BY <1>6, QuietCleaner DEF SoundInv, Hash
<1>7. ASSUME ListUnfinished \/ Resume \/ Cancel \/ Start PROVE SoundInv'
  <2>1. UNCHANGED <<broken, files, row, worker>>
    BY <1>7 DEF ListUnfinished, Resume, Cancel, Start, disk, bounds
  <2> QED BY <2>1 DEF SoundInv, Hash
<1>8. ASSUME Die PROVE SoundInv'
  BY <1>8 DEF Die, SoundInv, IdleWorker, Sound, PastPublish, disk, bounds
<1> QED BY <1>1, <1>2, <1>3, <1>4, <1>5, <1>6, <1>7, <1>8 DEF Next, Process

\* In every behaviour what is served builds.
LEMMA SoundInductive == Spec => []SoundInv
<1>1. Init => SoundInv
  BY DEF Init, SoundInv, NoRow, IdleWorker, Sound, PastPublish
<1>2. IInv /\ SoundInv /\ [Next]_vars => SoundInv'
  <2>1. ASSUME SoundInv, UNCHANGED vars PROVE SoundInv'
    BY <2>1 DEF SoundInv, vars, Hash, disk, bounds
  <2> QED BY <2>1, SoundStep
<1> QED BY Inductive, <1>1, <1>2, PTL DEF Spec

\* A ready deploy is one whose build steps succeed, whoever built its address,
\* joined its build or found it in the cache, with any evictions and kills
\* (process, buildDeploy, Store.publish).
THEOREM ReadyBuilds ==
    Spec => [](\A d \in Deploys : row[d].status = "ready" => Side[d] \notin broken)
<1>1. SoundInv => \A d \in Deploys : row[d].status = "ready" => Side[d] \notin broken
  BY DEF SoundInv
<1> QED BY SoundInductive, <1>1, PTL

-----------------------------------------------------------------------------
(* What the steps do to the rows *)

\* A worker writes an outcome, or that it builds, into its own row if that is
\* there, and takes no hashes from any.
LEMMA WorkerRows ==
    ASSUME IInv, NEW w \in Workers, Take(w) \/ Process(w), NEW d \in Deploys
    PROVE  /\ row[d].hashed => row'[d].hashed
           /\ \/ row'[d].status = row[d].status
              \/ /\ d = worker[w].d /\ Exists(d)
                 /\ \/ worker[w].pc = "mark" /\ row'[d].status = "building"
                    \/ worker[w].pc = "finish" /\ row'[d].status = "ready"
                    \/ worker[w].pc = "fail" /\ row'[d].status = "failed"
<1> USE DEF IInv
<1>1. CASE Take(w) \/ LoadRow(w) \/ TakeRebuild(w) \/ Cache(w) \/ Enter(w) \/
       BuildSteps(w) \/ Publish(w) \/ Replace(w) \/ Provision(w) \/ StateDir(w)
       \/ CreateBackendArtifact(w) \/ Reload(w) \/ Artifact(w)
  BY <1>1 DEF Take, LoadRow, TakeRebuild, Cache, Enter, BuildSteps, Publish,
         Replace, Provision, StateDir, CreateBackendArtifact, Reload, Artifact
<1>2. CASE MarkBuilding(w) \/ SetReady(w) \/ SetFailed(w)
  <2>1. worker[w].d \in Deploys
    BY <1>2 DEF MarkBuilding, SetReady, SetFailed, WorkerInv
  <2>2. PICK s : /\ Update(worker[w].d, s)
                 /\ \/ worker[w].pc = "mark" /\ s = "building"
                    \/ worker[w].pc = "finish" /\ s = "ready"
                    \/ worker[w].pc = "fail" /\ s = "failed"
    BY <1>2 DEF MarkBuilding, SetReady, SetFailed
  <2>3. row'[d].hashed = row[d].hashed
    BY <2>1, <2>2 DEF Update, RowInv, RowSet
  <2> QED BY <2>1, <2>2, <2>3, UpdateDoes
<1>3. CASE ArtifactBuilt(w) \/ ArtifactFailed(w)
  <2>1. worker[w].d \in Deploys
    BY <1>3 DEF ArtifactBuilt, ArtifactFailed, WorkerInv
  <2>2. CASE \E s \in {"ready", "failed"} : UpdateDownload(worker[w].d, s)
    <3>1. PICK s \in {"ready", "failed"} : UpdateDownload(worker[w].d, s)
      BY <2>2
    <3>2. row'[d].hashed = row[d].hashed
      BY <2>1, <3>1 DEF UpdateDownload, RowInv, RowSet
    <3> QED BY <2>1, <3>1, <3>2, DownloadDoes
  <2>3. CASE row' = row
    BY <2>3
  <2> QED BY <1>3, <2>2, <2>3 DEF ArtifactBuilt, ArtifactFailed
<1>4. CASE Resolve(w)
  <2>1. worker[w].d \in Deploys
    BY <1>4 DEF Resolve, WorkerInv
  <2> QED BY <1>4, <2>1 DEF Resolve, RowInv, RowSet
<1> QED BY <1>1, <1>2, <1>3, <1>4 DEF Process

\* A request queues a deploy: a new one, or one that has its row.
LEMMA CallerRows ==
    ASSUME IInv, NEW c \in Callers, Ask(c) \/ RequestDeploy(c) \/ Enqueue(c),
           NEW d \in Deploys
    PROVE  \/ row'[d] = row[d]
           \/ /\ row'[d].status = "queued"
              /\ \/ row[d].status = "none"
                 \/ Exists(d) /\ row'[d].hashed = row[d].hashed
<1> USE DEF IInv
<1>1. CASE Ask(c) \/ SetRebuild(c) \/ Enqueue(c)
  BY <1>1 DEF Ask, SetRebuild, Enqueue
<1>2. CASE Create(c)
  <2>1. caller[c].d \in Deploys
    BY <1>2 DEF Create, CallerInv
  <2>2. CASE row' = row
    BY <2>2
  <2>3. CASE row[caller[c].d].status = "none" /\ row' = [row EXCEPT ![caller[c].d] = FreshRow]
    <3>1. row'[d] = IF d = caller[c].d THEN FreshRow ELSE row[d]
      BY <2>1, <2>3 DEF RowInv
    <3>2. FreshRow.status = "queued"
      BY DEF FreshRow, NoRow
    <3>3. CASE d = caller[c].d
      BY <2>3, <3>1, <3>2, <3>3
    <3>4. CASE d # caller[c].d
      BY <3>1, <3>4
    <3> QED BY <3>3, <3>4
  <2> QED BY <1>2, <2>2, <2>3 DEF Create
<1>3. CASE ResetDeploy(c)
  <2>1. caller[c].d \in Deploys
    BY <1>3 DEF ResetDeploy, CallerInv
  <2> QED BY <1>3, <2>1 DEF ResetDeploy, Update, RowInv, RowSet
<1> QED BY <1>1, <1>2, <1>3 DEF RequestDeploy

\* An eviction marks or deletes the row of a deploy it has listed.
LEMMA CleanerRows ==
    ASSUME IInv, NEW e \in Cleaners, List(e) \/ Clean(e)
    PROVE  \/ row' = row
           \/ /\ Mark(e)
              /\ \E s \in cleaner[e].todo :
                    /\ s.d \in Deploys
                    /\ \A d \in Deploys : d # s.d => row'[d] = row[d]
                    /\ \/ Deletes(e) /\ row'[s.d] = DeletedRow
                       \/ /\ ~Deletes(e) /\ Exists(s.d) /\ row'[s.d].status = "evicted"
                          /\ row'[s.d].hashed = row[s.d].hashed
                    /\ cleaner'[e].pc = "survey" /\ cleaner'[e].d = s
                    /\ strays \subseteq strays'
                    /\ PassesBy(e, s) => Side[s.d] \in strays'
<1> USE DEF IInv
<1>1. CASE Mark(e)
  <2>1. PICK s \in cleaner[e].todo :
          /\ row' = IF Deletes(e) THEN [row EXCEPT ![s.d] = DeletedRow]
                    ELSE IF Exists(s.d) THEN [row EXCEPT ![s.d].status = "evicted"]
                    ELSE row
          /\ Exists(s.d) \/ Deletes(e) => cleaner' = [cleaner EXCEPT ![e] =
                [pc |-> "survey", todo |-> cleaner[e].todo \ {s}, d |-> s, live |-> {}]]
          /\ strays' = IF PassesBy(e, s) THEN strays \cup {Side[s.d]} ELSE strays
    BY <1>1 DEF Mark
  <2>2. s.d \in Deploys
    BY <2>1 DEF CleanerInv, CleanerSet, Snapshots
  <2>3. strays \subseteq strays' /\ (PassesBy(e, s) => Side[s.d] \in strays')
    BY <2>1
  <2>4. Exists(s.d) \/ Deletes(e) => cleaner'[e].pc = "survey" /\ cleaner'[e].d = s
    BY <2>1 DEF CleanerInv
  <2>5. CASE Deletes(e)
    <3>1. /\ \A d \in Deploys : d # s.d => row'[d] = row[d]
          /\ row'[s.d] = DeletedRow
      BY <2>1, <2>2, <2>5 DEF RowInv
    <3> QED BY <1>1, <2>2, <2>3, <2>4, <2>5, <3>1
  <2>6. CASE ~Deletes(e) /\ Exists(s.d)
    <3>1. /\ \A d \in Deploys : d # s.d => row'[d] = row[d]
          /\ row'[s.d].status = "evicted" /\ row'[s.d].hashed = row[s.d].hashed
      BY <2>1, <2>2, <2>6 DEF RowInv, RowSet
    <3> QED BY <1>1, <2>2, <2>3, <2>4, <2>6, <3>1
  <2> QED BY <2>1, <2>5, <2>6
<1>2. CASE List(e) \/ Survey(e) \/ DeleteBackendArtifact(e) \/ RemoveFiles(e) \/ RemoveState(e)
  BY <1>2 DEF List, Survey, DeleteBackendArtifact, RemoveFiles, RemoveState
<1> QED BY <1>1, <1>2 DEF Clean

\* The rest of the program writes no rows.
LEMMA OtherRows ==
    ASSUME ListUnfinished \/ Resume \/ Cancel \/ Die \/ Start PROVE row' = row
BY DEF ListUnfinished, Resume, Cancel, Die, Start, disk

\* A deploy once requested is never unknown again.
LEMMA SeenKept ==
    ASSUME IInv, Next, NEW d \in Deploys, row[d].status # "none"
    PROVE  row'[d].status # "none"
<1>1. ASSUME NEW w \in Workers, Take(w) \/ Process(w) PROVE row'[d].status # "none"
  BY <1>1, WorkerRows
<1>2. ASSUME NEW c \in Callers, Ask(c) \/ RequestDeploy(c) \/ Enqueue(c)
      PROVE  row'[d].status # "none"
  BY <1>2, CallerRows
<1>3. ASSUME NEW e \in Cleaners, List(e) \/ Clean(e) PROVE row'[d].status # "none"
  BY <1>3, CleanerRows DEF DeletedRow, NoRow
<1> QED BY <1>1, <1>2, <1>3, OtherRows DEF Next

\* Without evictions a row that is there stays.
LEMMA RowsStay ==
    ASSUME Cleaners = {}, IInv, Next
    PROVE  \A d \in Deploys : \/ row'[d].status = row[d].status
                              \/ row'[d].status \notin {"none", "deleted"}
<1> SUFFICES ASSUME NEW d \in Deploys
             PROVE  \/ row'[d].status = row[d].status
                    \/ row'[d].status \notin {"none", "deleted"}
  OBVIOUS
<1>1. ASSUME NEW w \in Workers, Take(w) \/ Process(w)
      PROVE  row'[d].status \in {row[d].status, "building", "ready", "failed"}
  BY <1>1, WorkerRows
<1>2. ASSUME NEW c \in Callers, Ask(c) \/ RequestDeploy(c) \/ Enqueue(c)
      PROVE  row'[d].status \in {row[d].status, "queued"}
  BY <1>2, CallerRows
<1> QED BY <1>1, <1>2, OtherRows DEF Next

-----------------------------------------------------------------------------
(* Whose deploys have rows *)

\* d was requested before, after the step.
SeenThen(d) == row'[d].status # "none"

\* A worker keeps its deploy for as long as it is busy.
LEMMA BusyKept ==
    ASSUME IInv, NEW w \in Workers, Process(w)
    PROVE  \A v \in Workers : worker'[v].pc # "idle"
              => worker[v].pc # "idle" /\ worker'[v].d = worker[v].d
<1> USE DEF IInv, WorkerInv, WorkerSet
<1>1. CASE LoadRow(w) \/ MarkBuilding(w) \/ TakeRebuild(w) \/ Resolve(w) \/
       Cache(w) \/ Enter(w) \/ Provision(w) \/ StateDir(w) \/
       CreateBackendArtifact(w) \/ SetReady(w) \/ Reload(w) \/ SetFailed(w) \/
       Artifact(w) \/ ArtifactBuilt(w) \/ ArtifactFailed(w)
  BY <1>1 DEF LoadRow, MarkBuilding, TakeRebuild, Resolve, Cache, Enter,
         Provision, StateDir, CreateBackendArtifact, SetReady, Reload,
         SetFailed, Artifact, ArtifactBuilt, ArtifactFailed, Goto, Finished,
         Artifacts, IdleWorker
<1>2. CASE BuildSteps(w) \/ Publish(w) \/ Replace(w)
  <2>1. worker[w].pc # "idle"
    BY <1>2 DEF BuildSteps, Publish, Replace
  <2>2. CASE \E l \in {"publish", "replace"} : Goto(w, l)
    BY <2>1, <2>2, GotoDoes
  <2>3. ASSUME NEW ok \in BOOLEAN, Land(w, ok)
        PROVE  \A v \in Workers : /\ worker'[v].d = worker[v].d
                                  /\ worker[v].pc = "idle" => worker'[v] = worker[v]
    <3>1. \A v \in Workers : worker'[v].d = worker[v].d
      BY <2>3, LandDoes
    <3>2. \A v \in Workers : worker[v].pc = "idle" => worker'[v] = worker[v]
      BY <2>1, <2>3 DEF Land, Joined
    <3> QED BY <3>1, <3>2
  <2> QED BY <1>2, <2>2, <2>3 DEF BuildSteps, Publish, Replace
<1> QED BY <1>1, <1>2 DEF Process

\* Every step works on deploys that were requested.
LEMMA KnownStep == ASSUME IInv, KnownInv, Next PROVE KnownInv'
<1> USE DEF IInv, Seen, SeenThen
<1>1. \A d \in Deploys : Seen(d) => SeenThen(d)
  BY SeenKept
<1>2. ASSUME NEW w \in Workers, Take(w) PROVE KnownInv'
  <2>1. work \in Seq(Deploys) /\ work # <<>> /\ work' = Tail(work) /\ UNCHANGED <<resume, caller>>
    BY <1>2 DEF Take, MemoryInv, startup
  <2>2. Seen(Head(work)) /\ \A d \in Deploys : On(work', d) => Seen(d)
    BY <2>1, OnTail DEF KnownInv
  <2>3. /\ \A v \in Workers : v # w => worker'[v] = worker[v]
        /\ worker'[w].d = Head(work)
    BY <1>2 DEF Take, WorkerInv, WorkerSet
  <2>4. Head(work) \in Deploys /\ \A v \in Workers : worker[v].pc # "idle" => worker[v].d \in Deploys
    BY <2>1, OnTail DEF WorkerInv
  <2>5. \A v \in Workers : worker'[v].pc # "idle" => SeenThen(worker'[v].d)
    BY <1>1, <2>2, <2>3, <2>4 DEF KnownInv
  <2>6. \A c \in Callers : caller[c].pc \in {"flag", "send"} => SeenThen(caller[c].d)
    BY <1>1 DEF KnownInv, CallerInv
  <2> QED BY <1>1, <2>1, <2>2, <2>5, <2>6 DEF KnownInv
<1>3. ASSUME NEW w \in Workers, Process(w) PROVE KnownInv'
  <2>1. UNCHANGED <<work, resume, caller>>
    BY <1>3 DEF Process, LoadRow, MarkBuilding, TakeRebuild, Resolve, Cache,
           Enter, BuildSteps, Publish, Replace, Provision, StateDir,
           CreateBackendArtifact, SetReady, Reload, SetFailed, Artifact,
           ArtifactBuilt, ArtifactFailed, memory, startup
  <2>2. \A v \in Workers : worker'[v].pc # "idle" => SeenThen(worker'[v].d)
    BY <1>1, <1>3, BusyKept DEF KnownInv, WorkerInv
  <2>3. \A c \in Callers : caller[c].pc \in {"flag", "send"} => SeenThen(caller[c].d)
    BY <1>1 DEF KnownInv, CallerInv
  <2> QED BY <1>1, <2>1, <2>2, <2>3 DEF KnownInv
<1>4. \A v \in Workers : worker[v].pc # "idle" => SeenThen(worker[v].d)
  BY <1>1 DEF KnownInv, WorkerInv
<1>5. ASSUME NEW c \in Callers, Ask(c) \/ RequestDeploy(c) PROVE KnownInv'
  <2>1. UNCHANGED <<work, resume, worker>>
    BY <1>5 DEF Ask, RequestDeploy, Create, ResetDeploy, SetRebuild, memory, startup
  <2>2. \A x \in Callers : x # c => caller'[x] = caller[x]
    BY <1>5 DEF Ask, RequestDeploy, Create, ResetDeploy, SetRebuild, CallerInv
  <2>3. caller'[c].pc \in {"flag", "send"} =>
           \/ caller'[c].d = caller[c].d /\ caller[c].pc \in {"create", "reset", "flag"}
    BY <1>5 DEF Ask, RequestDeploy, Create, ResetDeploy, SetRebuild, CallerInv, CallerSet, IdleCaller
  <2>4. caller'[c].pc \in {"flag", "send"} => SeenThen(caller[c].d)
    <3>1. CASE Create(c)
      <4>1. caller[c].d \in Deploys
        BY <3>1 DEF Create, CallerInv
      <4>2. Seen(caller[c].d) \/ row'[caller[c].d] = FreshRow
        BY <3>1, <4>1 DEF Create, RowInv
      <4> QED BY <1>1, <4>1, <4>2 DEF FreshRow, NoRow
    <3>2. CASE ResetDeploy(c)
      <4>1. caller[c].d \in Deploys
        BY <3>2 DEF ResetDeploy, CallerInv
      <4>2. Seen(caller[c].d) \/ caller'[c].pc = "idle"
        BY <3>2 DEF ResetDeploy, IdleCaller, CallerInv, Exists
      <4> QED BY <1>1, <4>1, <4>2
    <3>3. CASE SetRebuild(c)
      BY <1>1, <3>3 DEF SetRebuild, KnownInv, CallerInv
    <3>4. CASE Ask(c)
      BY <3>4 DEF Ask, CallerInv
    <3> QED BY <1>5, <3>1, <3>2, <3>3, <3>4 DEF RequestDeploy
  <2>5. \A x \in Callers : caller'[x].pc \in {"flag", "send"} => SeenThen(caller'[x].d)
    BY <1>1, <2>2, <2>3, <2>4 DEF KnownInv, CallerInv
  <2> QED BY <1>1, <1>4, <2>1, <2>5 DEF KnownInv
<1>6. ASSUME NEW c \in Callers, Enqueue(c) PROVE KnownInv'
  <2>1. /\ UNCHANGED <<resume, worker>> /\ work' = Append(work, caller[c].d)
        /\ caller[c].pc = "send" /\ work \in Seq(Deploys) /\ caller[c].d \in Deploys
    BY <1>6 DEF Enqueue, startup, MemoryInv, CallerInv
  <2>2. \A d \in Deploys : On(work', d) => Seen(d)
    BY <2>1, OnAppend DEF KnownInv
  <2>3. \A x \in Callers : caller'[x].pc \in {"flag", "send"} => caller'[x] = caller[x]
    BY <1>6 DEF Enqueue, CallerInv, IdleCaller
  <2>4. \A x \in Callers : caller'[x].pc \in {"flag", "send"} => SeenThen(caller'[x].d)
    BY <1>1, <2>3 DEF KnownInv, CallerInv
  <2> QED BY <1>1, <1>4, <2>1, <2>2, <2>4 DEF KnownInv
<1>7. \A c \in Callers : caller[c].pc \in {"flag", "send"} => SeenThen(caller[c].d)
  BY <1>1 DEF KnownInv, CallerInv
<1>8. ASSUME Resume PROVE KnownInv'
  <2>1. PICK d \in resume : work' = Append(work, d) /\ resume' = resume \ {d}
    BY <1>8 DEF Resume
  <2>2. d \in Deploys /\ work \in Seq(Deploys) /\ UNCHANGED <<worker, caller>>
    BY <1>8 DEF Resume, MemoryInv
  <2>3. \A x \in Deploys : On(work', x) \/ x \in resume' => Seen(x)
    BY <2>1, <2>2, OnAppend DEF KnownInv
  <2> QED BY <1>1, <1>4, <1>7, <2>2, <2>3 DEF KnownInv
<1>9. ASSUME ListUnfinished PROVE KnownInv'
  <2>1. UNCHANGED <<row, work, worker, caller>> /\ \A d \in resume' : InFlight(d) \/ row[d].status = "ready"
    BY <1>9 DEF ListUnfinished
  <2> QED BY <1>1, <1>4, <1>7, <2>1 DEF KnownInv, InFlight
<1>10. ASSUME Cancel \/ Start PROVE KnownInv'
  BY <1>10 DEF Cancel, Start, KnownInv, memory, startup
<1>11. ASSUME Die PROVE KnownInv'
  <2>1. /\ work' = <<>> /\ resume' = {}
        /\ \A w \in Workers : worker'[w].pc = "idle"
        /\ \A c \in Callers : caller'[c].pc = "idle"
    BY <1>11 DEF Die, IdleWorker, IdleCaller
  <2> QED BY <2>1 DEF KnownInv, On
<1>12. ASSUME NEW e \in Cleaners, List(e) \/ Clean(e) PROVE KnownInv'
  <2>1. UNCHANGED <<work, resume, worker, caller>>
    BY <1>12 DEF List, Clean, Mark, Survey, DeleteBackendArtifact, RemoveFiles,
           RemoveState, memory, startup
  <2> QED BY <1>1, <1>4, <1>7, <2>1 DEF KnownInv
<1> QED BY <1>2, <1>3, <1>5, <1>6, <1>8, <1>9, <1>10, <1>11, <1>12 DEF Next

\* Without evictions they have their rows as well.
LEMMA ExistsStep == ASSUME Cleaners = {}, IInv, ExistsInv, Next PROVE ExistsInv'
<1>1. KnownInv'
  BY KnownStep DEF ExistsInv
<1>2. \A d \in Deploys : row'[d].status # "deleted"
  BY RowsStay DEF ExistsInv
<1> QED BY <1>1, <1>2 DEF ExistsInv

\* A deploy at hand has its row as long as none is deleted.
LEMMA Exist ==
    ASSUME IInv, ExistsInv
    PROVE  /\ \A w \in Workers : worker[w].pc # "idle" => Exists(worker[w].d)
           /\ \A d \in Deploys : On(work, d) \/ d \in resume => Exists(d)
BY DEF IInv, WorkerInv, CallerInv, ExistsInv, KnownInv, Seen, Exists

-----------------------------------------------------------------------------
(* Where the workers go *)

\* Outside a build a step moves one worker, which keeps its address or ends
\* up where no side is built.
LEMMA OneMoves ==
    ASSUME IInv, NEW w \in Workers, Take(w) \/ Process(w),
           ~BuildSteps(w), ~Publish(w), ~Replace(w)
    PROVE  /\ \A v \in Workers : v # w => worker'[v] = worker[v] /\ Hash(v)' = Hash(v)
           /\ \/ Hash(w)' = Hash(w)
              \/ worker'[w].pc \in {"idle", "load", "artifact"}
<1> USE DEF IInv, WorkerInv, WorkerSet
<1>1. Take(w) \/ LoadRow(w) \/ MarkBuilding(w) \/ TakeRebuild(w) \/ Resolve(w)
       \/ Cache(w) \/ Enter(w) \/ Provision(w) \/ StateDir(w) \/
       CreateBackendArtifact(w) \/ SetReady(w) \/ Reload(w) \/ SetFailed(w) \/
       Artifact(w) \/ ArtifactBuilt(w) \/ ArtifactFailed(w)
  BY DEF Process
<1>2. \A v \in Workers : v # w => worker'[v] = worker[v]
  BY <1>1 DEF Take, LoadRow, MarkBuilding, TakeRebuild, Resolve, Cache, Enter,
         Provision, StateDir, CreateBackendArtifact, SetReady, Reload,
         SetFailed, Artifact, ArtifactBuilt, ArtifactFailed, Goto, Finished,
         Artifacts
<1>3. \A v \in Workers : v # w => Hash(v)' = Hash(v)
  BY <1>2 DEF Hash
<1>4. \/ worker'[w].d = worker[w].d /\ worker'[w].side = worker[w].side
      \/ worker'[w].pc \in {"idle", "load", "artifact"}
  <2>1. CASE Take(w)
    BY <2>1 DEF Take
  <2>2. CASE LoadRow(w) \/ Reload(w)
    BY <2>2 DEF LoadRow, Reload, Artifacts, Finished, Goto, IdleWorker
  <2>3. CASE MarkBuilding(w) \/ SetReady(w) \/ SetFailed(w) \/ ArtifactBuilt(w) \/ ArtifactFailed(w)
    BY <2>3 DEF MarkBuilding, SetReady, SetFailed, ArtifactBuilt, ArtifactFailed, Finished, Goto,
         IdleWorker
  <2>4. CASE TakeRebuild(w)
    BY <2>4 DEF TakeRebuild
  <2>5. CASE Resolve(w) \/ Cache(w) \/ Enter(w) \/ Provision(w) \/ Artifact(w)
    BY <2>5 DEF Resolve, Cache, Enter, Provision, Artifact, Goto
  <2>6. CASE StateDir(w) \/ CreateBackendArtifact(w)
    BY <2>6 DEF StateDir, CreateBackendArtifact, Goto
  <2> QED BY <1>1, <2>1, <2>2, <2>3, <2>4, <2>5, <2>6
<1> QED BY <1>2, <1>3, <1>4 DEF Hash

\* A build ends for all who wait for it, when its files are there or because
\* one of its steps may fail.
LEMMA BuildMoves ==
    ASSUME IInv, NEW w \in Workers, BuildSteps(w) \/ Publish(w) \/ Replace(w)
    PROVE  \A v \in Workers :
              /\ Hash(v)' = Hash(v)
              /\ \/ worker'[v] = worker[v] /\ v # w
                 \/ v = w /\ worker'[v].pc \in {"publish", "replace"}
                 \/ /\ Hash(v) = Hash(w) /\ Hash(w) \in files'
                    /\ worker'[v].pc \in {"provision", "built"}
                 \/ /\ Hash(v) = Hash(w) /\ CanFail(w)
                    /\ worker'[v].pc \in {"fail", "unbuilt"}
<1> USE DEF IInv
<1>1. CASE \E l \in {"publish", "replace"} : Goto(w, l)
  BY <1>1, GotoDoes
<1>2. CASE Land(w, FALSE) /\ CanFail(w)
  <2>1. FALSE \in BOOLEAN
    OBVIOUS
  <2> QED BY <1>2, <2>1, LandDoes
<1>3. CASE Land(w, TRUE) /\ Hash(w) \in files'
  <2>1. TRUE \in BOOLEAN
    OBVIOUS
  <2> QED BY <1>3, <2>1, LandDoes
<1> QED BY <1>1, <1>2, <1>3 DEF BuildSteps, Publish, Replace

-----------------------------------------------------------------------------
(* What is failed does not build *)

\* A worker fails only what does not build, until the program is stopped.
LEMMA FailsFairly ==
    ASSUME Cleaners = {}, IInv, ExistsInv, ctx = "up",
           \A x \in Workers : worker[x].pc = "fail" => Hash(x) \in broken,
           NEW w \in Workers, Take(w) \/ Process(w),
           NEW v \in Workers, worker'[v].pc = "fail"
    PROVE  Hash(v)' \in broken
<1> USE DEF IInv
<1>1. CASE BuildSteps(w) \/ Publish(w) \/ Replace(w)
  BY <1>1, BuildMoves DEF CanFail
<1>2. CASE ~(BuildSteps(w) \/ Publish(w) \/ Replace(w)) /\ v # w
  BY <1>2, OneMoves
<1>3. CASE ~(BuildSteps(w) \/ Publish(w) \/ Replace(w)) /\ v = w
  <2>1. Hash(w)' = Hash(w)
    BY <1>3, OneMoves
  <2>2. Resolve(w) \/ Cache(w) \/ StateDir(w)
    BY <1>3 DEF Process, Take, LoadRow, MarkBuilding, TakeRebuild, Enter,
           Provision, CreateBackendArtifact, SetReady, Reload, SetFailed,
           Artifact, ArtifactBuilt, ArtifactFailed, Goto, Finished, Artifacts,
           IdleWorker, WorkerInv, WorkerSet
  <2>3. CASE Resolve(w)
    <3>1. Exists(worker[w].d)
      BY <2>3, Exist DEF Resolve
    <3>2. Goto(w, "cache") \/ CanFail(w)
      BY <2>3, <3>1 DEF Resolve
    <3> QED BY <1>3, <2>1, <3>2, GotoDoes DEF CanFail
  <2>4. CASE Cache(w)
    <3>1. Goto(w, "enter") \/ Goto(w, "provision") \/ CanFail(w)
      BY <2>4 DEF Cache
    <3> QED BY <1>3, <2>1, <3>1, GotoDoes DEF CanFail
  <2>5. CASE StateDir(w)
    <3>1. Goto(w, "record")
      BY <2>5 DEF StateDir
    <3> QED BY <1>3, <3>1, GotoDoes
  <2> QED BY <2>2, <2>3, <2>4, <2>5
<1> QED BY <1>1, <1>2, <1>3

\* Every step leaves only broken addresses failed.
LEMMA FaultStep == ASSUME Cleaners = {}, IInv, ExistsInv, FaultInv, Next PROVE FaultInv'
<1> USE DEF IInv
<1> SUFFICES ASSUME lives' = 1, ctx' = "up"
             PROVE  /\ \A d \in Deploys : row'[d].status = "failed" => Side[d] \in broken'
                    /\ \A w \in Workers : worker'[w].pc = "fail" => Hash(w)' \in broken'
  BY DEF FaultInv
<1>1. ASSUME NEW w \in Workers, Take(w) \/ Process(w)
      PROVE  UNCHANGED <<ctx, lives, broken>>
  BY <1>1 DEF Process, Take, LoadRow, MarkBuilding, TakeRebuild, Resolve,
         Cache, Enter, BuildSteps, Publish, Replace, Provision, StateDir,
         CreateBackendArtifact, SetReady, Reload, SetFailed, Artifact,
         ArtifactBuilt, ArtifactFailed, bounds
<1>2. ASSUME NEW w \in Workers, Take(w) \/ Process(w)
      PROVE  \A d \in Deploys : row'[d].status = "failed" => Side[d] \in broken
  <2>1. \A d \in Deploys : row[d].status = "failed" => Side[d] \in broken
    BY <1>1, <1>2 DEF FaultInv
  <2>2. CASE SetFailed(w)
    <3>1. worker[w].d \in Deploys /\ Hash(w) = Side[worker[w].d] /\ Hash(w) \in broken
      BY <1>1, <1>2, <2>2, HashType DEF SetFailed, WorkerInv, SidePC, FaultInv
    <3> QED BY <2>1, <2>2, <3>1, UpdateDoes DEF SetFailed
  <2>3. CASE SetReady(w)
    <3>1. worker[w].d \in Deploys
      BY <2>3 DEF SetReady, WorkerInv
    <3> QED BY <2>1, <2>3, <3>1, UpdateDoes DEF SetReady
  <2>4. CASE ~SetFailed(w) /\ ~SetReady(w)
    <3>1. StatusKept
      BY <1>2, <2>4, QuietWorker DEF Process
    <3> QED BY <2>1, <3>1 DEF StatusKept
  <2> QED BY <2>2, <2>3, <2>4
<1>3. ASSUME NEW w \in Workers, Take(w) \/ Process(w)
      PROVE  \A v \in Workers : worker'[v].pc = "fail" => Hash(v)' \in broken
  BY <1>1, <1>3, FailsFairly DEF FaultInv
<1>4. ASSUME NEW c \in Callers, Ask(c) \/ RequestDeploy(c) \/ Enqueue(c) PROVE FaultInv'
  <2>1. StatusKept /\ UNCHANGED <<ctx, broken, files, state, arow, worker, lives>>
    BY <1>4, QuietCaller DEF RequestDeploy
  <2> QED BY <2>1 DEF FaultInv, Hash, StatusKept
<1>5. ASSUME ListUnfinished \/ Resume PROVE FaultInv'
  BY <1>5 DEF ListUnfinished, Resume, FaultInv, Hash, bounds
<1>6. ~Cancel /\ ~Die /\ ~Start
  <2>1. lives \in Nat /\ lives >= 1
    BY BuildQueueAssumption DEF BoundInv
  <2>2. lives + 1 # 1
    BY <2>1
  <2> QED BY <2>2 DEF Cancel, Die, Start
<1> QED BY <1>1, <1>2, <1>3, <1>4, <1>5, <1>6 DEF Next, FaultInv

\* Without evictions a deploy reads failed only if its own build steps fail,
\* and ready only if they do not, whichever worker built its address and
\* whoever shared it (process, buildDeploy; until the program is stopped).
THEOREM OutcomesAreRight == ASSUME Cleaners = {} PROVE Spec => []OutcomeIsRight
<1>1. Init => ExistsInv /\ FaultInv
  <2> SUFFICES ASSUME Init PROVE ExistsInv /\ FaultInv
    OBVIOUS
  <2>1. \A d \in Deploys : ~On(work, d)
    <3>1. Len(work) = 0
      BY DEF Init
    <3> QED BY <3>1 DEF On
  <2> QED BY <2>1 DEF Init, ExistsInv, KnownInv, FaultInv, NoRow, IdleWorker, IdleCaller
<1>2. IInv /\ ExistsInv /\ FaultInv /\ [Next]_vars => ExistsInv' /\ FaultInv'
  <2>1. ASSUME ExistsInv, FaultInv, UNCHANGED vars PROVE ExistsInv' /\ FaultInv'
    BY <2>1 DEF ExistsInv, KnownInv, Seen, On, FaultInv, vars, Hash, memory,
           startup, bounds
  <2> QED BY <2>1, ExistsStep, FaultStep
<1>3. SoundInv /\ FaultInv => OutcomeIsRight
  BY DEF SoundInv, FaultInv, OutcomeIsRight
<1> QED BY Inductive, SoundInductive, <1>1, <1>2, <1>3, PTL DEF Spec

-----------------------------------------------------------------------------
(* What is ready is provisioned and published *)

\* Every step provisions before it says ready.
LEMMA ProvisionStep ==
    ASSUME Cleaners = {}, IInv, ProvisionInv, Next PROVE ProvisionInv'
<1> USE DEF IInv
<1>1. ASSUME NEW w \in Workers, Take(w) \/ Process(w) PROVE ProvisionInv'
  <2>1. state \subseteq state' /\ arow \subseteq arow'
    BY <1>1 DEF Process, Take, LoadRow, MarkBuilding, TakeRebuild, Resolve,
           Cache, Enter, BuildSteps, Publish, Replace, Provision, StateDir,
           CreateBackendArtifact, SetReady, Reload, SetFailed, Artifact,
           ArtifactBuilt, ArtifactFailed, disk
  <2>2. arow' \subseteq state'
    <3>1. CASE CreateBackendArtifact(w)
      BY <3>1 DEF CreateBackendArtifact, ProvisionInv
    <3>2. CASE ~CreateBackendArtifact(w)
      <4>1. arow' = arow
        BY <1>1, <3>2 DEF Process, Take, LoadRow, MarkBuilding, TakeRebuild,
               Resolve, Cache, Enter, BuildSteps, Publish, Replace, Provision,
               StateDir, SetReady, Reload, SetFailed, Artifact, ArtifactBuilt,
               ArtifactFailed, disk
      <4> QED BY <2>1, <4>1 DEF ProvisionInv
    <3> QED BY <3>1, <3>2
  <2>3. \A d \in Deploys : row'[d].status = "ready" => Side[d] \in arow
    <3>1. CASE SetReady(w)
      <4>1. worker[w].d \in Deploys /\ Hash(w) = Side[worker[w].d] /\ Hash(w) \in arow
        BY <3>1, HashType DEF SetReady, WorkerInv, SidePC, ProvisionInv
      <4> QED BY <3>1, <4>1, UpdateDoes DEF SetReady, ProvisionInv
    <3>2. CASE SetFailed(w)
      <4>1. worker[w].d \in Deploys
        BY <3>2 DEF SetFailed, WorkerInv
      <4> QED BY <3>2, <4>1, UpdateDoes DEF SetFailed, ProvisionInv
    <3>3. CASE ~SetReady(w) /\ ~SetFailed(w)
      <4>1. StatusKept
        BY <1>1, <3>3, QuietWorker DEF Process
      <4> QED BY <4>1 DEF StatusKept, ProvisionInv
    <3> QED BY <3>1, <3>2, <3>3
  <2>4. ASSUME NEW v \in Workers, worker'[v].pc \in {"record", "finish"}
        PROVE  /\ worker'[v].pc = "record" => Hash(v)' \in state'
               /\ worker'[v].pc = "finish" => Hash(v)' \in arow'
    <3>1. CASE BuildSteps(w) \/ Publish(w) \/ Replace(w)
      BY <2>1, <2>4, <3>1, BuildMoves DEF ProvisionInv
    <3>2. CASE ~(BuildSteps(w) \/ Publish(w) \/ Replace(w)) /\ v # w
      BY <1>1, <2>1, <3>2, OneMoves DEF ProvisionInv
    <3>3. CASE ~(BuildSteps(w) \/ Publish(w) \/ Replace(w)) /\ v = w
      <4>1. Hash(w)' = Hash(w)
        BY <1>1, <2>4, <3>3, OneMoves
      <4>2. Provision(w) \/ StateDir(w) \/ CreateBackendArtifact(w)
        BY <1>1, <2>4, <3>3 DEF Process, Take, LoadRow, MarkBuilding,
               TakeRebuild, Resolve, Cache, Enter, SetReady, Reload, SetFailed,
               Artifact, ArtifactBuilt, ArtifactFailed, Goto, Finished,
               Artifacts, IdleWorker, WorkerInv, WorkerSet
      <4>3. CASE Provision(w)
        <5>1. Goto(w, "state") \/ (Goto(w, "finish") /\ Hash(w) \in arow)
          BY <4>3 DEF Provision
        <5> QED BY <2>1, <3>3, <4>1, <5>1, GotoDoes, <2>4
      <4>4. CASE StateDir(w)
        <5>1. Goto(w, "record") /\ Hash(w) \in state'
          BY <4>4 DEF StateDir
        <5> QED BY <3>3, <4>1, <5>1, GotoDoes
      <4>5. CASE CreateBackendArtifact(w)
        <5>1. Goto(w, "finish") /\ Hash(w) \in arow'
          BY <4>5 DEF CreateBackendArtifact
        <5> QED BY <3>3, <4>1, <5>1, GotoDoes
      <4> QED BY <4>2, <4>3, <4>4, <4>5
    <3> QED BY <3>1, <3>2, <3>3
  <2> QED BY <2>1, <2>2, <2>3, <2>4 DEF ProvisionInv
<1>2. ASSUME NEW c \in Callers, Ask(c) \/ RequestDeploy(c) \/ Enqueue(c) PROVE ProvisionInv'
  <2>1. StatusKept /\ UNCHANGED <<ctx, broken, files, state, arow, worker, lives>>
    BY <1>2, QuietCaller DEF RequestDeploy
  <2> QED BY <2>1 DEF ProvisionInv, Hash, StatusKept
<1>3. ASSUME ListUnfinished \/ Resume \/ Cancel \/ Start PROVE ProvisionInv'
  BY <1>3 DEF ListUnfinished, Resume, Cancel, Start, ProvisionInv, Hash, disk
<1>4. ASSUME Die PROVE ProvisionInv'
  BY <1>4 DEF Die, ProvisionInv, IdleWorker, disk
<1> QED BY <1>1, <1>2, <1>3, <1>4 DEF Next

\* Without evictions ready implies the state directory and its row, over kills
\* at any moment, so the proxy's path provisions nothing (buildDeploy).
THEOREM ReadyMeansProvisioned ==
    ASSUME Cleaners = {} PROVE Spec => []ReadyIsProvisioned
<1>1. Init => ProvisionInv
  BY DEF Init, ProvisionInv, NoRow, IdleWorker
<1>2. IInv /\ ProvisionInv /\ [Next]_vars => ProvisionInv'
  <2>1. ASSUME ProvisionInv, UNCHANGED vars PROVE ProvisionInv'
    BY <2>1 DEF ProvisionInv, vars, Hash, disk
  <2> QED BY <2>1, ProvisionStep
<1>3. ProvisionInv => ReadyIsProvisioned
  BY DEF ProvisionInv, ReadyIsProvisioned
<1> QED BY Inductive, <1>1, <1>2, <1>3, PTL DEF Spec

\* The files of h are there, or being replaced, after the step.
HereThen(h) == h \in files' \/ \E w \in Workers : worker'[w].pc = "replace" /\ Hash(w)' = h

\* Files go away only while their address is being replaced.
LEMMA HereKept ==
    ASSUME IInv, NEW w \in Workers, Take(w) \/ Process(w), NEW h, Here(h)
    PROVE  HereThen(h)
<1> USE DEF IInv
<1>1. CASE BuildSteps(w) \/ Publish(w) \/ Replace(w)
  <2>1. \/ files \subseteq files' /\ ~Replace(w)
        \/ files' = files \cup {Hash(w)}
        \/ files' = files \ {Hash(w)} /\ Goto(w, "replace")
    BY <1>1 DEF BuildSteps, Publish, Replace, disk
  <2>2. ASSUME NEW v \in Workers, worker[v].pc = "replace", Hash(v) = h
        PROVE  HereThen(h)
    <3>1. Hash(v)' = Hash(v)
      BY <1>1, BuildMoves
    <3>2. CASE Replace(w) /\ v = w
      BY <2>2, <3>2 DEF Replace, HereThen
    <3>3. CASE v # w
      <4>1. worker'[v] = worker[v]
        <5>1. CASE \E l \in {"publish", "replace"} : Goto(w, l)
          BY <3>3, <5>1, GotoDoes
        <5>2. CASE \E ok \in BOOLEAN : Land(w, ok)
          BY <2>2, <3>3, <5>2 DEF Land, Joined
        <5> QED BY <1>1, <5>1, <5>2 DEF BuildSteps, Publish, Replace
      <4> QED BY <2>2, <3>1, <4>1 DEF Here, HereThen
    <3>4. ~(v = w /\ ~Replace(w))
      BY <1>1, <2>2 DEF BuildSteps, Publish
    <3> QED BY <3>2, <3>3, <3>4
  <2>3. ASSUME h \in files PROVE HereThen(h)
    <3>1. CASE h \in files'
      BY <3>1 DEF Here, HereThen
    <3>2. CASE h \notin files'
      <4>1. h = Hash(w) /\ Goto(w, "replace")
        BY <2>1, <2>3, <3>2
      <4> QED BY <4>1, GotoDoes DEF Here, HereThen
    <3> QED BY <3>1, <3>2
  <2> QED BY <2>2, <2>3 DEF Here, HereThen
<1>2. CASE ~(BuildSteps(w) \/ Publish(w) \/ Replace(w))
  <2>1. files' = files
    BY <1>2 DEF Process, Take, LoadRow, MarkBuilding, TakeRebuild, Resolve,
           Cache, Enter, Provision, StateDir, CreateBackendArtifact, SetReady,
           Reload, SetFailed, Artifact, ArtifactBuilt, ArtifactFailed, disk
  <2>2. worker[w].pc # "replace"
    BY <1>2 DEF Process, Take, LoadRow, MarkBuilding, TakeRebuild, Resolve,
           Cache, Enter, Provision, StateDir, CreateBackendArtifact, SetReady,
           Reload, SetFailed, Artifact, ArtifactBuilt, ArtifactFailed
  <2>3. \A v \in Workers : worker[v].pc = "replace" => worker'[v] = worker[v] /\ Hash(v)' = Hash(v)
    BY <1>2, <2>2, OneMoves
  <2> QED BY <2>1, <2>3 DEF Here, HereThen
<1> QED BY <1>1, <1>2

\* Every step publishes before it says ready.
LEMMA FilesStep == ASSUME Cleaners = {}, IInv, FilesInv, Next PROVE FilesInv'
<1> USE DEF IInv
<1> SUFFICES ASSUME lives' = 1, ctx' # "down" PROVE FilesInv'
  BY DEF FilesInv
<1>1. ASSUME NEW w \in Workers, Take(w) \/ Process(w) PROVE FilesInv'
  <2>1. UNCHANGED <<ctx, lives>>
    BY <1>1 DEF Process, Take, LoadRow, MarkBuilding, TakeRebuild, Resolve,
           Cache, Enter, BuildSteps, Publish, Replace, Provision, StateDir,
           CreateBackendArtifact, SetReady, Reload, SetFailed, Artifact,
           ArtifactBuilt, ArtifactFailed, bounds
  <2>2. \A d \in Deploys : row'[d].status = "ready" => Here(Side[d])
    <3>1. CASE SetReady(w)
      <4>1. worker[w].d \in Deploys /\ Hash(w) = Side[worker[w].d] /\ Here(Hash(w))
        BY <2>1, <3>1, HashType DEF SetReady, WorkerInv, SidePC, FilesInv, PastPublish
      <4> QED BY <2>1, <3>1, <4>1, UpdateDoes DEF SetReady, FilesInv
    <3>2. CASE SetFailed(w)
      <4>1. worker[w].d \in Deploys
        BY <3>2 DEF SetFailed, WorkerInv
      <4> QED BY <2>1, <3>2, <4>1, UpdateDoes DEF SetFailed, FilesInv
    <3>3. CASE ~SetReady(w) /\ ~SetFailed(w)
      <4>1. StatusKept
        BY <1>1, <3>3, QuietWorker DEF Process
      <4> QED BY <2>1, <4>1 DEF StatusKept, FilesInv
    <3> QED BY <3>1, <3>2, <3>3
  <2>3. ASSUME NEW v \in Workers, worker'[v].pc \in PastPublish PROVE HereThen(Hash(v)')
    <3> HIDE DEF PastPublish
    <3>1. CASE worker[v].pc \in PastPublish /\ Hash(v)' = Hash(v)
      BY <1>1, <2>1, <3>1, HereKept DEF FilesInv
    <3>2. CASE BuildSteps(w) \/ Publish(w) \/ Replace(w)
      <4>1. \/ worker'[v] = worker[v] /\ Hash(v)' = Hash(v)
            \/ Hash(v)' \in files'
        BY <2>3, <3>2, BuildMoves DEF PastPublish
      <4> QED BY <2>3, <3>1, <4>1 DEF HereThen
    <3>3. CASE ~(BuildSteps(w) \/ Publish(w) \/ Replace(w)) /\ v # w
      BY <1>1, <2>3, <3>1, <3>3, OneMoves
    <3>4. CASE ~(BuildSteps(w) \/ Publish(w) \/ Replace(w)) /\ v = w
      <4>1. Hash(v)' = Hash(v)
        BY <1>1, <2>3, <3>4, OneMoves DEF PastPublish
      <4>2. CASE Cache(w)
        <5>1. Hash(w) \in files \/ Goto(w, "enter") \/ Goto(w, "fail")
          BY <4>2 DEF Cache
        <5>2. ~Goto(w, "enter") /\ ~Goto(w, "fail")
          BY <2>3, <3>4, GotoDoes DEF PastPublish
        <5>3. files' = files
          BY <4>2 DEF Cache, disk
        <5> QED BY <3>4, <4>1, <5>1, <5>2, <5>3 DEF HereThen
      <4>3. CASE ~Cache(w)
        <5>1. worker[w].pc \in PastPublish
          BY <1>1, <2>3, <3>4, <4>3 DEF Process, Take, LoadRow, MarkBuilding,
                 TakeRebuild, Resolve, Enter, Provision, StateDir,
                 CreateBackendArtifact, SetReady, Reload, SetFailed, Artifact,
                 ArtifactBuilt, ArtifactFailed, Goto, Finished, Artifacts,
                 IdleWorker, WorkerInv, WorkerSet, PastPublish
        <5> QED BY <3>1, <3>4, <4>1, <5>1
      <4> QED BY <4>2, <4>3
    <3> QED BY <3>2, <3>3, <3>4
  <2>4. \A d \in Deploys : row'[d].status = "ready" => HereThen(Side[d])
    BY <1>1, <2>2, HereKept
  <2> QED BY <2>3, <2>4 DEF FilesInv, Here, HereThen
<1>2. ASSUME NEW c \in Callers, Ask(c) \/ RequestDeploy(c) \/ Enqueue(c) PROVE FilesInv'
  <2>1. StatusKept /\ UNCHANGED <<ctx, broken, files, state, arow, worker, lives>>
    BY <1>2, QuietCaller DEF RequestDeploy
  <2> QED BY <2>1 DEF FilesInv, Here, Hash, StatusKept
<1>3. ASSUME ListUnfinished \/ Resume \/ Cancel PROVE FilesInv'
  BY <1>3 DEF ListUnfinished, Resume, Cancel, FilesInv, Here, Hash, disk, bounds
<1>4. ~Die /\ ~Start
  <2>1. lives \in Nat /\ lives >= 1
    BY BuildQueueAssumption DEF BoundInv
  <2>2. lives + 1 # 1
    BY <2>1
  <2> QED BY <2>2 DEF Die, Start
<1> QED BY <1>1, <1>2, <1>3, <1>4 DEF Next

\* Without evictions, and until the first kill, a ready deploy has its files,
\* but for the moment a rebuild replaces them (Store.publish).
THEOREM ReadyMeansPublished ==
    ASSUME Cleaners = {} PROVE Spec => []ReadyHasFiles
<1>1. Init => FilesInv
  BY DEF Init, FilesInv, NoRow, IdleWorker, PastPublish
<1>2. IInv /\ FilesInv /\ [Next]_vars => FilesInv'
  <2>1. ASSUME FilesInv, UNCHANGED vars PROVE FilesInv'
    BY <2>1 DEF FilesInv, vars, Here, Hash, disk, bounds
  <2> QED BY <2>1, FilesStep
<1>3. FilesInv => ReadyHasFiles
  BY DEF FilesInv, ReadyHasFiles, Here
<1> QED BY Inductive, <1>1, <1>2, <1>3, PTL DEF Spec

-----------------------------------------------------------------------------
(* Nothing is leaked *)

Quiet == lives = 1 /\ ctx = "up"

\* Where a worker is once the hashes of its deploy are recorded.
Marked == {"cache", "enter", "join", "build", "publish", "replace", "provision",
           "state", "record", "finish", "fail"}
Settling(w) == worker[w].pc \in Marked /\ worker[w].side = "side"

\* A deploy whose worker is past its hashes has them in its row, unless it does
\* not build; and a worker whose row was deleted meanwhile is at a stray.
WorkerHashed == \A w \in Workers : Settling(w) /\ Exists(worker[w].d)
                  => row[worker[w].d].hashed \/ Side[worker[w].d] \in broken
Busy(w)   == worker[w].pc \notin {"idle", "load", "reload"} /\ worker[w].side = "side"
StrayInv  == \A w \in Workers :
                Busy(w) /\ ~Exists(worker[w].d) => Side[worker[w].d] \in strays
HashedInv == Quiet => WorkerHashed

\* What does not build has no files, no state directory and no row of it.
OnDisk   == files \cup state \cup arow
CleanInv == OnDisk \cap broken = {}

\* An address is on disk for a deploy that is not evicted, for a worker that
\* will write the outcome of one, or because an eviction has yet to remove it.
Live(h)   == \E d \in Deploys : /\ Side[d] = h /\ Exists(d) /\ row[d].hashed
                                /\ row[d].status # "evicted"
Writer(h) == \E w \in Workers : Busy(w) /\ Side[worker[w].d] = h
Doomed(h, e) ==
    /\ cleaner[e].d # None /\ h \in cleaner[e].d.hashes
    /\ \/ cleaner[e].pc = "survey"
       \/ /\ h \notin cleaner[e].live
          /\ \/ cleaner[e].pc = "drop"
             \/ cleaner[e].pc = "files" /\ h \notin arow
             \/ cleaner[e].pc = "state" /\ h \notin arow \cup files
Coll(h)   == \E e \in Cleaners : Doomed(h, e)

GarbageInv ==
    Quiet => \A h \in (OnDisk \cap Sides) \ strays : Live(h) \/ Writer(h) \/ Coll(h)

\* What is on disk builds.
LEMMA CleanStep == ASSUME IInv, SoundInv, CleanInv, Next PROVE CleanInv'
<1> USE DEF CleanInv, OnDisk
<1>1. files' \cap broken' = {}
  BY SoundStep DEF SoundInv
<1>2. ASSUME NEW w \in Workers, StateDir(w) \/ CreateBackendArtifact(w) PROVE CleanInv'
  <2>1. Hash(w) \notin broken
    BY <1>2 DEF StateDir, CreateBackendArtifact, SoundInv, Sound, PastPublish
  <2>2. /\ state' \cup arow' \subseteq state \cup arow \cup {Hash(w)}
        /\ UNCHANGED broken
    BY <1>2 DEF StateDir, CreateBackendArtifact, disk, bounds
  <2> QED BY <1>1, <2>1, <2>2
<1>3. ASSUME NEW w \in Workers, Take(w) \/ Process(w),
             ~StateDir(w), ~CreateBackendArtifact(w)
      PROVE  UNCHANGED <<state, arow, broken>>
  BY <1>3 DEF Process, Take, LoadRow, MarkBuilding, TakeRebuild, Resolve,
         Cache, Enter, BuildSteps, Publish, Replace, Provision, SetReady,
         Reload, SetFailed, Artifact, ArtifactBuilt, ArtifactFailed, disk, bounds
<1>4. ASSUME NEW c \in Callers, Ask(c) \/ RequestDeploy(c) \/ Enqueue(c)
      PROVE  UNCHANGED <<state, arow, broken>>
  BY <1>4, QuietCaller DEF RequestDeploy
<1>5. ASSUME NEW e \in Cleaners, List(e) \/ Clean(e)
      PROVE  state' \subseteq state /\ arow' \subseteq arow /\ UNCHANGED broken
  BY <1>5 DEF List, Clean, Mark, Survey, DeleteBackendArtifact, RemoveFiles,
         RemoveState, disk, bounds
<1>6. ASSUME ListUnfinished \/ Resume \/ Cancel \/ Die \/ Start
      PROVE  UNCHANGED <<state, arow, broken>>
  BY <1>6 DEF ListUnfinished, Resume, Cancel, Die, Start, disk, bounds
<1> QED BY <1>1, <1>2, <1>3, <1>4, <1>5, <1>6 DEF Next

\* While all is quiet the program does not stop or start again.
LEMMA QuietBefore == ASSUME IInv, Next, Quiet' PROVE Quiet /\ ~Cancel /\ ~Die /\ ~Start
<1> USE DEF Quiet
<1>1. ~Cancel /\ ~Die /\ ~Start
  <2>1. lives \in Nat /\ lives >= 1
    BY BuildQueueAssumption DEF IInv, BoundInv
  <2>2. lives + 1 # 1
    BY <2>1
  <2> QED BY <2>2 DEF Cancel, Die, Start
<1>2. ASSUME NEW w \in Workers, Take(w) \/ Process(w) PROVE UNCHANGED <<ctx, lives>>
  BY <1>2 DEF Process, Take, LoadRow, MarkBuilding, TakeRebuild, Resolve,
         Cache, Enter, BuildSteps, Publish, Replace, Provision, StateDir,
         CreateBackendArtifact, SetReady, Reload, SetFailed, Artifact,
         ArtifactBuilt, ArtifactFailed, bounds
<1>3. ASSUME NEW c \in Callers, Ask(c) \/ RequestDeploy(c) \/ Enqueue(c)
      PROVE  UNCHANGED <<ctx, lives>>
  BY <1>3, QuietCaller DEF RequestDeploy
<1>4. ASSUME NEW e \in Cleaners, List(e) \/ Clean(e) PROVE UNCHANGED <<ctx, lives>>
  BY <1>4, QuietCleaner
<1>5. ASSUME ListUnfinished \/ Resume PROVE UNCHANGED <<ctx, lives>>
  BY <1>5 DEF ListUnfinished, Resume, bounds
<1> QED BY <1>1, <1>2, <1>3, <1>4, <1>5 DEF Next

\* Only Resolve brings a worker past its hashes.
LEMMA SettlingFrom ==
    ASSUME IInv, NEW w \in Workers, Take(w) \/ Process(w),
           NEW v \in Workers, Settling(v)'
    PROVE  /\ worker'[v].d = worker[v].d /\ worker[v].d \in Deploys
           /\ Settling(v) \/ (v = w /\ Resolve(w) /\ worker[v].side = "side")
<1> USE DEF IInv, WorkerInv, WorkerSet, Settling, Marked
<1>1. CASE Take(w) \/ LoadRow(w) \/ MarkBuilding(w) \/ TakeRebuild(w) \/
       Cache(w) \/ Enter(w) \/ Provision(w) \/ StateDir(w) \/
       CreateBackendArtifact(w) \/ SetReady(w) \/ Reload(w) \/ SetFailed(w) \/
       Artifact(w) \/ ArtifactBuilt(w) \/ ArtifactFailed(w)
  BY <1>1 DEF Take, LoadRow, MarkBuilding, TakeRebuild, Cache, Enter,
         Provision, StateDir, CreateBackendArtifact, SetReady, Reload,
         SetFailed, Artifact, ArtifactBuilt, ArtifactFailed, Goto, Finished,
         Artifacts, IdleWorker, DownloadPC
<1>2. CASE Resolve(w)
  <2>1. PICK l \in {"cache", "fail"} : Goto(w, l)
    BY <1>2 DEF Resolve
  <2>2. worker[w].pc = "hash"
    BY <1>2 DEF Resolve
  <2> QED BY <1>2, <2>1, <2>2, GotoDoes
<1>3. CASE BuildSteps(w) \/ Publish(w) \/ Replace(w)
  <2>1. worker[w].pc \in {"build", "publish", "replace"}
    BY <1>3 DEF BuildSteps, Publish, Replace
  <2>2. CASE \E l \in {"publish", "replace"} : Goto(w, l)
    BY <2>1, <2>2, GotoDoes
  <2>3. ASSUME NEW ok \in BOOLEAN, Land(w, ok)
        PROVE  Settling(v) /\ worker'[v].d = worker[v].d /\ worker[v].d \in Deploys
    <3>1. worker'[v].d = worker[v].d /\ worker'[v].side = worker[v].side
      BY <2>3, LandDoes
    <3>2. worker'[v] = worker[v] \/ worker[v].pc = "join" \/ v = w
      BY <2>3 DEF Land, Joined
    <3> QED BY <2>1, <3>1, <3>2
  <2> QED BY <1>3, <2>2, <2>3 DEF BuildSteps, Publish, Replace
<1> QED BY <1>1, <1>2, <1>3 DEF Process

\* A worker is past its hashes only once they are in the row.
LEMMA HashedStep ==
    ASSUME IInv, KnownInv, Quiet, WorkerHashed, Next, Quiet'
    PROVE  WorkerHashed'
<1> USE DEF IInv
<1>2. ASSUME NEW w \in Workers, Take(w) \/ Process(w) PROVE WorkerHashed'
  <2>1. UNCHANGED broken
    BY <1>2 DEF Process, Take, LoadRow, MarkBuilding, TakeRebuild, Resolve,
           Cache, Enter, BuildSteps, Publish, Replace, Provision, StateDir,
           CreateBackendArtifact, SetReady, Reload, SetFailed, Artifact,
           ArtifactBuilt, ArtifactFailed, bounds
  <2>3. ASSUME NEW v \in Workers, Settling(v)', Exists(worker[v].d)'
        PROVE  row'[worker'[v].d].hashed \/ Side[worker'[v].d] \in broken
    <3>1. /\ worker'[v].d = worker[v].d /\ worker[v].d \in Deploys
          /\ Settling(v) \/ (v = w /\ Resolve(w) /\ worker[v].side = "side")
      BY <1>2, <2>3, SettlingFrom
    <3>2. row[worker[v].d].hashed => row'[worker[v].d].hashed
      BY <1>2, <3>1, WorkerRows
    <3>3. Exists(worker[v].d)
      BY <1>2, <2>3, <3>1, WorkerRows DEF Exists
    <3>4. CASE Settling(v)
      BY <3>1, <3>2, <3>3, <3>4 DEF WorkerHashed
    <3>5. CASE v = w /\ Resolve(w) /\ worker[v].side = "side"
      <4>1. CASE Hash(w) \in broken
        BY <3>1, <3>5, <4>1 DEF Hash
      <4>2. CASE Hash(w) \notin broken
        <5>1. row' = [row EXCEPT ![worker[w].d].hashed = TRUE, ![worker[w].d].dl =
                       IF Download[worker[w].d] = None THEN None
                       ELSE IF ~worker[w].rebuild /\ Download[worker[w].d] \in files
                            THEN "ready" ELSE "building"]
          BY <3>3, <3>5, <4>2 DEF Resolve, CanFail, Quiet
        <5> QED BY <3>1, <3>5, <5>1 DEF RowInv, RowSet
      <4> QED BY <4>1, <4>2
    <3> QED BY <3>1, <3>4, <3>5
  <2> QED BY <2>1, <2>3 DEF WorkerHashed
<1>3. ASSUME NEW c \in Callers, Ask(c) \/ RequestDeploy(c) \/ Enqueue(c) PROVE WorkerHashed'
  <2>1. UNCHANGED <<broken, worker>>
    BY <1>3 DEF Ask, RequestDeploy, Create, ResetDeploy, SetRebuild, Enqueue, bounds
  <2>3. ASSUME NEW v \in Workers, Settling(v), Exists(worker[v].d)'
        PROVE  row'[worker[v].d].hashed \/ Side[worker[v].d] \in broken
    <3>1. worker[v].d \in Deploys /\ Seen(worker[v].d)
      BY <2>3 DEF Settling, Marked, WorkerInv, KnownInv
    <3>2. Exists(worker[v].d) /\ row'[worker[v].d].hashed = row[worker[v].d].hashed
      BY <1>3, <2>1, <2>3, <3>1, CallerRows DEF Seen, Exists
    <3> QED BY <2>3, <3>2 DEF WorkerHashed
  <2> QED BY <2>1, <2>3 DEF WorkerHashed, Settling
<1>4. ASSUME NEW e \in Cleaners, List(e) \/ Clean(e) PROVE WorkerHashed'
  <2>1. UNCHANGED <<broken, worker>>
    BY <1>4, QuietCleaner
  <2>3. \A d \in Deploys : Exists(d)' => Exists(d) /\ row'[d].hashed = row[d].hashed
    BY <1>4, CleanerRows DEF DeletedRow, NoRow, Exists
  <2>4. ASSUME NEW v \in Workers, Settling(v), Exists(worker[v].d)'
        PROVE  row'[worker[v].d].hashed \/ Side[worker[v].d] \in broken
    <3>1. worker[v].d \in Deploys
      BY <2>4 DEF Settling, Marked, WorkerInv
    <3> QED BY <2>1, <2>3, <2>4, <3>1 DEF WorkerHashed
  <2> QED BY <2>1, <2>4 DEF WorkerHashed, Settling
<1>5. ASSUME ListUnfinished \/ Resume PROVE WorkerHashed'
  <2>1. UNCHANGED <<broken, row, worker>>
    BY <1>5 DEF ListUnfinished, Resume, bounds
  <2> QED BY <2>1 DEF WorkerHashed, Settling, Exists
<1> QED BY <1>2, <1>3, <1>4, <1>5, QuietBefore DEF Next

\* Only LoadRow gives a worker a side to build, and that of a row it has read.
LEMMA BusyFrom ==
    ASSUME IInv, NEW w \in Workers, Take(w) \/ Process(w), NEW v \in Workers, Busy(v)'
    PROVE  /\ worker'[v].d = worker[v].d /\ worker[v].d \in Deploys
           /\ Busy(v) \/ Exists(worker[v].d)
<1> USE DEF IInv, WorkerInv, WorkerSet, Busy
<1>1. CASE Take(w) \/ LoadRow(w) \/ MarkBuilding(w) \/ TakeRebuild(w) \/
       Cache(w) \/ Enter(w) \/ Provision(w) \/ StateDir(w) \/
       CreateBackendArtifact(w) \/ SetReady(w) \/ Reload(w) \/ SetFailed(w) \/
       Artifact(w) \/ ArtifactBuilt(w) \/ ArtifactFailed(w)
  BY <1>1 DEF Take, LoadRow, MarkBuilding, TakeRebuild, Cache, Enter,
         Provision, StateDir, CreateBackendArtifact, SetReady, Reload,
         SetFailed, Artifact, ArtifactBuilt, ArtifactFailed, Goto, Finished,
         Artifacts, IdleWorker, DownloadPC, Exists
<1>2. CASE Resolve(w)
  <2>1. PICK l \in {"cache", "fail"} : Goto(w, l)
    BY <1>2 DEF Resolve
  <2>2. worker[w].pc = "hash"
    BY <1>2 DEF Resolve
  <2> QED BY <1>2, <2>1, <2>2, GotoDoes
<1>3. CASE BuildSteps(w) \/ Publish(w) \/ Replace(w)
  <2>1. worker[w].pc \in {"build", "publish", "replace"}
    BY <1>3 DEF BuildSteps, Publish, Replace
  <2>2. CASE \E l \in {"publish", "replace"} : Goto(w, l)
    BY <2>1, <2>2, GotoDoes
  <2>3. ASSUME NEW ok \in BOOLEAN, Land(w, ok)
        PROVE  Busy(v) /\ worker'[v].d = worker[v].d /\ worker[v].d \in Deploys
    <3>1. worker'[v].d = worker[v].d /\ worker'[v].side = worker[v].side
      BY <2>3, LandDoes
    <3>2. worker'[v] = worker[v] \/ worker[v].pc = "join" \/ v = w
      BY <2>3 DEF Land, Joined
    <3> QED BY <2>1, <3>1, <3>2
  <2> QED BY <1>3, <2>2, <2>3 DEF BuildSteps, Publish, Replace
<1> QED BY <1>1, <1>2, <1>3 DEF Process

\* Whoever deletes the row of a deploy that is being built makes a stray of it.
LEMMA StrayStep == ASSUME IInv, StrayInv, Next PROVE StrayInv'
<1> USE DEF IInv
<1>1. ASSUME NEW w \in Workers, Take(w) \/ Process(w) PROVE StrayInv'
  <2>1. UNCHANGED strays
    BY <1>1 DEF Process, Take, LoadRow, MarkBuilding, TakeRebuild, Resolve,
           Cache, Enter, BuildSteps, Publish, Replace, Provision, StateDir,
           CreateBackendArtifact, SetReady, Reload, SetFailed, Artifact,
           ArtifactBuilt, ArtifactFailed, bounds
  <2>2. ASSUME NEW v \in Workers, Busy(v)', ~Exists(worker[v].d)'
        PROVE  Side[worker'[v].d] \in strays
    <3>1. /\ worker'[v].d = worker[v].d /\ worker[v].d \in Deploys
          /\ Busy(v) \/ Exists(worker[v].d)
      BY <1>1, <2>2, BusyFrom
    <3>2. ~Exists(worker[v].d)
      BY <1>1, <2>2, <3>1, WorkerRows DEF Exists
    <3> QED BY <3>1, <3>2 DEF StrayInv
  <2> QED BY <2>1, <2>2 DEF StrayInv
<1>2. ASSUME NEW c \in Callers, Ask(c) \/ RequestDeploy(c) \/ Enqueue(c) PROVE StrayInv'
  <2>1. UNCHANGED <<strays, worker>>
    BY <1>2 DEF Ask, RequestDeploy, Create, ResetDeploy, SetRebuild, Enqueue, bounds
  <2>2. \A d \in Deploys : Exists(d) => Exists(d)'
    BY <1>2, CallerRows DEF Exists
  <2>3. \A v \in Workers : Busy(v) => worker[v].d \in Deploys
    BY DEF Busy, WorkerInv
  <2> QED BY <2>1, <2>2, <2>3 DEF StrayInv, Busy
<1>3. ASSUME NEW e \in Cleaners, List(e) \/ Clean(e) PROVE StrayInv'
  <2>1. UNCHANGED worker
    BY <1>3, QuietCleaner
  <2>2. strays \subseteq strays'
    BY <1>3 DEF List, Clean, Mark, Survey, DeleteBackendArtifact, RemoveFiles,
           RemoveState, bounds
  <2>3. ASSUME NEW v \in Workers, Busy(v), ~Exists(worker[v].d)'
        PROVE  Side[worker[v].d] \in strays'
    <3>1. worker[v].d \in Deploys
      BY <2>3 DEF Busy, WorkerInv
    <3>2. CASE ~Exists(worker[v].d)
      BY <2>2, <2>3, <3>2 DEF StrayInv
    <3>3. CASE Exists(worker[v].d)
      <4>1. row' # row
        BY <2>1, <2>3, <3>1, <3>3 DEF Exists
      <4>2. PICK s \in cleaner[e].todo :
               /\ s.d \in Deploys
               /\ \A d \in Deploys : d # s.d => row'[d] = row[d]
               /\ Deletes(e) \/ row'[s.d].status = "evicted"
               /\ PassesBy(e, s) => Side[s.d] \in strays'
        BY <1>3, <4>1, CleanerRows
      <4>3. s.d = worker[v].d /\ Deletes(e)
        BY <2>1, <2>3, <3>1, <3>3, <4>2 DEF Exists
      <4> QED BY <4>2, <4>3 DEF PassesBy
    <3> QED BY <3>2, <3>3
  <2> QED BY <2>1, <2>3 DEF StrayInv, Busy
<1>4. ASSUME ListUnfinished \/ Resume \/ Cancel \/ Start PROVE StrayInv'
  <2>1. UNCHANGED <<strays, row, worker>>
    BY <1>4 DEF ListUnfinished, Resume, Cancel, Start, bounds
  <2> QED BY <2>1 DEF StrayInv, Busy, Exists
<1>5. ASSUME Die PROVE StrayInv'
  BY <1>5 DEF Die, StrayInv, Busy, IdleWorker
<1> QED BY <1>1, <1>2, <1>3, <1>4, <1>5 DEF Next

\* The three reasons after the step.
LiveThen(h)   == \E d \in Deploys : /\ Side[d] = h /\ Exists(d)' /\ row'[d].hashed
                                    /\ row'[d].status # "evicted"
BusyThen(w)   == worker'[w].pc \notin {"idle", "load", "reload"} /\ worker'[w].side = "side"
WriterThen(h) == \E w \in Workers : BusyThen(w) /\ Side[worker'[w].d] = h
DoomedThen(h, e) ==
    /\ cleaner'[e].d # None /\ h \in cleaner'[e].d.hashes
    /\ \/ cleaner'[e].pc = "survey"
       \/ /\ h \notin cleaner'[e].live
          /\ \/ cleaner'[e].pc = "drop"
             \/ cleaner'[e].pc = "files" /\ h \notin arow'
             \/ cleaner'[e].pc = "state" /\ h \notin arow' \cup files'
CollThen(h)   == \E e \in Cleaners : DoomedThen(h, e)

\* What a worker adds to the disk is what it works on.
LEMMA AtWork ==
    ASSUME IInv, NEW w \in Workers, NEW h \in Sides, h = Hash(w),
           Publish(w) \/ Replace(w) \/ StateDir(w) \/ CreateBackendArtifact(w)
    PROVE  WriterThen(h)
<1> USE DEF IInv
<1>1. worker[w].pc \in {"publish", "replace", "state", "record"}
  BY DEF Publish, Replace, StateDir, CreateBackendArtifact
<1>2. worker[w].d \in Deploys /\ worker[w].side \in {"side", "download"}
  BY <1>1 DEF WorkerInv, WorkerSet
<1>3. worker[w].side = "side" /\ Side[worker[w].d] = h
  <2>1. CASE worker[w].side = "download"
    <3>1. Hash(w) \in Downloads
      BY <1>2, <2>1 DEF Hash, Downloads, WorkerInv
    <3> QED BY <3>1, BuildQueueAssumption
  <2> QED BY <1>2, <2>1 DEF Hash
<1>4. /\ worker'[w].d = worker[w].d /\ worker'[w].side = worker[w].side
      /\ worker'[w].pc \notin {"idle", "load", "reload"}
  <2>1. CASE \E l \in {"replace", "record", "finish", "fail"} : Goto(w, l)
    BY <2>1, GotoDoes
  <2>2. CASE Land(w, TRUE)
    <3>1. TRUE \in BOOLEAN
      OBVIOUS
    <3> QED BY <2>2, <3>1, LandDoes DEF Land, WorkerInv, WorkerSet
  <2> QED BY <2>1, <2>2 DEF Publish, Replace, StateDir, CreateBackendArtifact
<1> QED BY <1>3, <1>4 DEF WriterThen, BusyThen

\* So what is new on the disk has a worker.
LEMMA Writes ==
    ASSUME IInv, NEW w \in Workers, Take(w) \/ Process(w), NEW h \in Sides,
           h \in (files' \ files) \cup (state' \ state) \cup (arow' \ arow)
    PROVE  WriterThen(h)
<1>1. Publish(w) \/ Replace(w) \/ StateDir(w) \/ CreateBackendArtifact(w)
  BY DEF Process, Take, LoadRow, MarkBuilding, TakeRebuild, Resolve, Cache,
         Enter, BuildSteps, Provision, SetReady, Reload, SetFailed, Artifact,
         ArtifactBuilt, ArtifactFailed, disk
<1>2. h = Hash(w)
  <2>1. CASE Publish(w) \/ Replace(w)
    BY <2>1 DEF Publish, Replace
  <2>2. CASE StateDir(w) \/ CreateBackendArtifact(w)
    BY <2>2 DEF StateDir, CreateBackendArtifact
  <2> QED BY <1>1, <2>1, <2>2
<1> QED BY <1>1, <1>2, AtWork

\* A worker that lets go of a deploy that has a row leaves it with an outcome.
LEMMA WriterLeaves ==
    ASSUME IInv, StrayInv, WorkerHashed, NEW w \in Workers, Take(w) \/ Process(w),
           NEW h, h \notin broken \cup strays, Writer(h)
    PROVE  WriterThen(h) \/ LiveThen(h)
<1> USE DEF IInv
<1>1. PICK v \in Workers : Busy(v) /\ Side[worker[v].d] = h
  BY DEF Writer
<1>2. worker[v].d \in Deploys /\ Exists(worker[v].d)
  BY <1>1 DEF WorkerInv, Busy, StrayInv
<1>3. CASE BuildSteps(w) \/ Publish(w) \/ Replace(w)
  <2>1. worker'[v].d = worker[v].d /\ worker'[v].side = worker[v].side
    <3>1. CASE \E l \in {"publish", "replace"} : Goto(w, l)
      BY <3>1, GotoDoes
    <3>2. CASE \E ok \in BOOLEAN : Land(w, ok)
      BY <3>2, LandDoes
    <3> QED BY <1>3, <3>1, <3>2 DEF BuildSteps, Publish, Replace
  <2>2. worker'[v].pc \notin {"idle", "load", "reload"}
    BY <1>1, <1>3, BuildMoves DEF Busy
  <2> QED BY <1>1, <2>1, <2>2 DEF WriterThen, BusyThen, Busy
<1>4. CASE ~(BuildSteps(w) \/ Publish(w) \/ Replace(w)) /\ v # w
  BY <1>1, <1>4, OneMoves DEF WriterThen, BusyThen, Busy
<1>5. CASE v = w /\ (SetReady(w) \/ SetFailed(w))
  <2>1. PICK s \in {"ready", "failed"} : Update(worker[w].d, s)
    BY <1>5 DEF SetReady, SetFailed
  <2>2. PICK x \in Deploys : x = worker[w].d
    BY <1>2, <1>5
  <2>3. row'[x].status = s
    BY <1>2, <1>5, <2>1, <2>2, UpdateDoes
  <2>4. Settling(w)
    BY <1>1, <1>5 DEF SetReady, SetFailed, Settling, Marked, Busy
  <2>5. row[x].hashed
    BY <1>1, <1>2, <1>5, <2>2, <2>4 DEF WorkerHashed
  <2>6. row'[x].hashed
    BY <2>2, <2>5, WorkerRows
  <2>7. Exists(x)' /\ row'[x].status # "evicted"
    BY <2>3 DEF Exists
  <2> QED BY <1>1, <1>5, <2>2, <2>6, <2>7 DEF LiveThen
<1>6. CASE v = w /\ (MarkBuilding(w) \/ TakeRebuild(w) \/ Resolve(w) \/ Cache(w) \/
                     Enter(w) \/ Provision(w) \/ StateDir(w) \/ CreateBackendArtifact(w))
  <2>1. /\ worker'[w].d = worker[w].d /\ worker'[w].side = worker[w].side
        /\ worker'[w].pc \notin {"idle", "load", "reload"}
    BY <1>2, <1>6 DEF MarkBuilding, TakeRebuild, Resolve, Cache, Enter, Provision, StateDir,
           CreateBackendArtifact, Goto, WorkerInv, WorkerSet
  <2> QED BY <1>1, <1>6, <2>1 DEF WriterThen, BusyThen, Busy
<1>7. v = w => ~(Take(w) \/ LoadRow(w) \/ Reload(w) \/ Artifact(w) \/
                 ArtifactBuilt(w) \/ ArtifactFailed(w))
  BY <1>1 DEF Take, LoadRow, Reload, Artifact, ArtifactBuilt, ArtifactFailed,
         WorkerInv, DownloadPC, Busy
<1> QED BY <1>3, <1>4, <1>5, <1>6, <1>7 DEF Process

\* A step of a worker leaks nothing.
LEMMA WorkerLeaks ==
    ASSUME IInv, StrayInv, WorkerHashed, CleanInv, NEW w \in Workers, Take(w) \/ Process(w),
           NEW h \in Sides, h \notin strays,
           h \in OnDisk => Live(h) \/ Writer(h) \/ Coll(h), h \in OnDisk'
    PROVE  LiveThen(h) \/ WriterThen(h) \/ CollThen(h)
<1> USE DEF IInv
<1>1. CASE h \notin OnDisk
  BY <1>1, Writes DEF OnDisk
<1>2. CASE h \in OnDisk
  <2>1. h \notin broken
    BY <1>2 DEF CleanInv
  <2>2. CASE Live(h)
    BY <2>2, WorkerRows DEF Live, LiveThen, Exists
  <2>3. CASE Writer(h)
    BY <2>1, <2>3, WriterLeaves
  <2>4. CASE Coll(h)
    <3>1. UNCHANGED cleaner
      BY DEF Process, Take, LoadRow, MarkBuilding, TakeRebuild, Resolve, Cache,
             Enter, BuildSteps, Publish, Replace, Provision, StateDir,
             CreateBackendArtifact, SetReady, Reload, SetFailed, Artifact,
             ArtifactBuilt, ArtifactFailed
    <3>2. CASE (h \in arow' => h \in arow) /\ (h \in files' => h \in files)
      BY <2>4, <3>1, <3>2 DEF Coll, Doomed, CollThen, DoomedThen
    <3>3. CASE h \in (files' \ files) \cup (arow' \ arow)
      BY <3>3, Writes
    <3> QED BY <3>2, <3>3
  <2> QED BY <1>2, <2>2, <2>3, <2>4
<1> QED BY <1>1, <1>2

\* A request takes nothing away.
LEMMA CallerLeaks ==
    ASSUME IInv, NEW c \in Callers, Ask(c) \/ RequestDeploy(c) \/ Enqueue(c), NEW h \in Sides,
           h \in OnDisk => Live(h) \/ Writer(h) \/ Coll(h), h \in OnDisk'
    PROVE  LiveThen(h) \/ WriterThen(h) \/ CollThen(h)
<1>1. UNCHANGED <<files, state, arow, worker, cleaner>>
  BY DEF Ask, RequestDeploy, Create, ResetDeploy, SetRebuild, Enqueue, disk
<1>2. CASE Live(h)
  <2>1. PICK d \in Deploys : /\ Side[d] = h /\ Exists(d) /\ row[d].hashed
                             /\ row[d].status # "evicted"
    BY <1>2 DEF Live
  <2>2. row'[d] = row[d] \/ (row'[d].status = "queued" /\ row'[d].hashed = row[d].hashed)
    BY <2>1, CallerRows DEF Exists
  <2> QED BY <2>1, <2>2 DEF LiveThen, Exists
<1>3. Writer(h) => WriterThen(h)
  BY <1>1 DEF Writer, WriterThen, Busy, BusyThen
<1>4. Coll(h) => CollThen(h)
  BY <1>1 DEF Coll, CollThen, Doomed, DoomedThen
<1>5. h \in OnDisk
  BY <1>1 DEF OnDisk
<1> QED BY <1>2, <1>3, <1>4, <1>5

\* An eviction leaves what it removes to the rows that pin it, or removes it.
LEMMA CleanerLeaks ==
    ASSUME IInv, NEW e \in Cleaners, List(e) \/ Clean(e), NEW h \in Sides, h \notin strays',
           h \in OnDisk => Live(h) \/ Writer(h) \/ Coll(h), h \in OnDisk'
    PROVE  LiveThen(h) \/ WriterThen(h) \/ CollThen(h)
<1> USE DEF IInv
<1>1. /\ files' \subseteq files /\ state' \subseteq state /\ arow' \subseteq arow
      /\ worker' = worker
  BY DEF List, Clean, Mark, Survey, DeleteBackendArtifact, RemoveFiles,
         RemoveState, disk
<1>2. h \in OnDisk
  BY <1>1 DEF OnDisk
<1>3. \A x \in Cleaners : x # e => cleaner'[x] = cleaner[x]
  BY DEF List, Clean, Mark, Survey, DeleteBackendArtifact, RemoveFiles,
         RemoveState, Move, CleanerInv
<1>4. ASSUME NEW x \in Cleaners, x # e, Doomed(h, x) PROVE DoomedThen(h, x)
  BY <1>1, <1>3, <1>4 DEF Doomed, DoomedThen
<1>5. Writer(h) => WriterThen(h)
  BY <1>1 DEF Writer, WriterThen, Busy, BusyThen
<1>6. CASE row' = row
  <2>1. Live(h) => LiveThen(h)
    BY <1>6 DEF Live, LiveThen, Exists
  <2>2. ASSUME Doomed(h, e), ~LiveThen(h) PROVE DoomedThen(h, e)
    <3>1. ~List(e) /\ ~Mark(e)
      BY <2>2 DEF Doomed, List, Mark
    <3>2. CASE Survey(e)
      <4>1. /\ cleaner'[e].pc = "drop" /\ cleaner'[e].live = Pinned
            /\ cleaner'[e].d = cleaner[e].d
        BY <3>2 DEF Survey, CleanerInv, CleanerSet
      <4>2. h \notin Pinned
        <5>1. ~Live(h)
          BY <2>1, <2>2
        <5>2. ASSUME NEW d \in Deploys, row[d].dl # None PROVE Download[d] \in Downloads
          BY <5>2 DEF RowInv, Downloads
        <5> QED BY <5>1, <5>2, BuildQueueAssumption DEF Pinned, Live
      <4> QED BY <2>2, <4>1, <4>2 DEF Doomed, DoomedThen
    <3>3. CASE DeleteBackendArtifact(e)
      <4>1. Move(e, "files") /\ arow' = arow \ Condemned(e) /\ cleaner[e].pc = "drop"
        BY <3>3 DEF DeleteBackendArtifact
      <4>2. /\ cleaner'[e].pc = "files" /\ cleaner'[e].live = cleaner[e].live
            /\ cleaner'[e].d = cleaner[e].d
        BY <4>1 DEF Move, CleanerInv, CleanerSet
      <4> QED BY <2>2, <4>1, <4>2 DEF Doomed, DoomedThen, Condemned
    <3>4. CASE RemoveFiles(e)
      <4>1. /\ Move(e, "state") /\ files' = files \ Condemned(e) /\ arow' = arow
            /\ cleaner[e].pc = "files"
        BY <3>4 DEF RemoveFiles
      <4>2. /\ cleaner'[e].pc = "state" /\ cleaner'[e].live = cleaner[e].live
            /\ cleaner'[e].d = cleaner[e].d
        BY <4>1 DEF Move, CleanerInv, CleanerSet
      <4> QED BY <2>2, <4>1, <4>2 DEF Doomed, DoomedThen, Condemned
    <3>5. ~RemoveState(e)
      <4>1. SUFFICES ASSUME RemoveState(e) PROVE h \notin OnDisk'
        OBVIOUS
      <4> QED BY <2>2, <4>1 DEF RemoveState, Doomed, Condemned, OnDisk
    <3> QED BY <3>1, <3>2, <3>3, <3>4, <3>5 DEF Clean
  <2>3. Coll(h) => CollThen(h) \/ LiveThen(h)
    BY <1>4, <2>2 DEF Coll, CollThen
  <2> QED BY <1>2, <1>5, <2>1, <2>3
<1>7. CASE row' # row
  <2>1. PICK s \in cleaner[e].todo :
           /\ s.d \in Deploys /\ \A x \in Deploys : x # s.d => row'[x] = row[x]
           /\ cleaner'[e].pc = "survey" /\ cleaner'[e].d = s
           /\ PassesBy(e, s) => Side[s.d] \in strays'
           /\ Mark(e)
    BY <1>7, CleanerRows
  <2>2. s # None
    BY BuildQueueAssumption DEF CleanerInv, CleanerSet, Snapshots
  <2>3. CASE Side[s.d] = h /\ row[s.d].hashed
    <3>1. h \in s.hashes
      BY <2>1, <2>3 DEF PassesBy
    <3> QED BY <2>1, <2>2, <3>1 DEF CollThen, DoomedThen
  <2>4. CASE ~(Side[s.d] = h /\ row[s.d].hashed)
    <3>1. Live(h) => LiveThen(h)
      BY <2>1, <2>4 DEF Live, LiveThen, Exists
    <3>2. ~Doomed(h, e)
      BY <2>1 DEF Mark, Doomed
    <3>3. Coll(h) => CollThen(h)
      BY <1>4, <3>2 DEF Coll, CollThen
    <3> QED BY <1>2, <1>5, <3>1, <3>3
  <2> QED BY <2>3, <2>4
<1> QED BY <1>6, <1>7

\* No step leaks.
LEMMA GarbageStep ==
    ASSUME IInv, StrayInv, CleanInv, HashedInv, GarbageInv, Next, Quiet'
    PROVE  GarbageInv'
<1>1. Quiet /\ WorkerHashed /\ ~Cancel /\ ~Die /\ ~Start
  BY QuietBefore DEF HashedInv
<1>2. SUFFICES ASSUME NEW h \in Sides, h \notin strays', h \in OnDisk'
               PROVE  LiveThen(h) \/ WriterThen(h) \/ CollThen(h)
  BY DEF GarbageInv, Live, LiveThen, Writer, WriterThen, Busy, BusyThen, Coll,
         CollThen, Doomed, DoomedThen
<1>3. h \notin strays
  <2>1. ASSUME NEW w \in Workers, Take(w) \/ Process(w) PROVE UNCHANGED strays
    BY <2>1 DEF Process, Take, LoadRow, MarkBuilding, TakeRebuild, Resolve,
           Cache, Enter, BuildSteps, Publish, Replace, Provision, StateDir,
           CreateBackendArtifact, SetReady, Reload, SetFailed, Artifact,
           ArtifactBuilt, ArtifactFailed, bounds
  <2>2. ASSUME NEW c \in Callers, Ask(c) \/ RequestDeploy(c) \/ Enqueue(c) PROVE UNCHANGED strays
    BY <2>2 DEF Ask, RequestDeploy, Create, ResetDeploy, SetRebuild, Enqueue, bounds
  <2>3. ASSUME NEW e \in Cleaners, List(e) \/ Clean(e) PROVE strays \subseteq strays'
    BY <2>3 DEF List, Clean, Mark, Survey, DeleteBackendArtifact, RemoveFiles,
           RemoveState, bounds
  <2>4. ASSUME ListUnfinished \/ Resume PROVE UNCHANGED strays
    BY <2>4 DEF ListUnfinished, Resume, bounds
  <2> QED BY <1>1, <1>2, <2>1, <2>2, <2>3, <2>4 DEF Next
<1>4. h \in OnDisk => Live(h) \/ Writer(h) \/ Coll(h)
  BY <1>1, <1>3 DEF GarbageInv
<1>5. ASSUME NEW w \in Workers, Take(w) \/ Process(w)
      PROVE  LiveThen(h) \/ WriterThen(h) \/ CollThen(h)
  BY <1>1, <1>2, <1>3, <1>4, <1>5, WorkerLeaks
<1>6. ASSUME NEW c \in Callers, Ask(c) \/ RequestDeploy(c) \/ Enqueue(c)
      PROVE  LiveThen(h) \/ WriterThen(h) \/ CollThen(h)
  BY <1>2, <1>4, <1>6, CallerLeaks
<1>7. ASSUME NEW e \in Cleaners, List(e) \/ Clean(e)
      PROVE  LiveThen(h) \/ WriterThen(h) \/ CollThen(h)
  BY <1>2, <1>4, <1>7, CleanerLeaks
<1>8. ASSUME ListUnfinished \/ Resume PROVE LiveThen(h) \/ WriterThen(h) \/ CollThen(h)
  <2>1. UNCHANGED <<files, state, arow, row, worker, cleaner>>
    BY <1>8 DEF ListUnfinished, Resume, disk
  <2> QED BY <1>2, <1>4, <2>1 DEF OnDisk, Live, LiveThen, Writer, WriterThen, Busy,
         BusyThen, Coll, CollThen, Doomed, DoomedThen, Exists
<1> QED BY <1>1, <1>5, <1>6, <1>7, <1>8 DEF Next

\* However many passes of the poller, the sweep and delete requests run at once,
\* none leaves an address to the others: when all is quiet around one that is
\* not a stray, it is on disk only for a deploy that is not evicted
\* (EvictUnreachable, Sweep, GCDeploy, DeleteDeploy).
THEOREM NothingIsLeaked == Spec => []GarbageIsCollected
<1> DEFINE Inv == KnownInv /\ CleanInv /\ HashedInv /\ StrayInv /\ GarbageInv
<1>1. Init => Inv
  <2> SUFFICES ASSUME Init PROVE Inv
    OBVIOUS
  <2>1. \A d \in Deploys : ~On(work, d)
    <3>1. Len(work) = 0
      BY DEF Init
    <3> QED BY <3>1 DEF On
  <2>2. OnDisk = {}
    BY DEF Init, OnDisk
  <2>3. KnownInv
    BY <2>1 DEF Init, KnownInv, IdleWorker, IdleCaller
  <2>4. HashedInv /\ StrayInv
    BY DEF Init, HashedInv, StrayInv, WorkerHashed, Settling, Marked, Busy, IdleWorker
  <2> QED BY <2>2, <2>3, <2>4 DEF CleanInv, GarbageInv
<1>2. IInv /\ SoundInv /\ Inv /\ [Next]_vars => Inv'
  <2>1. ASSUME Inv, UNCHANGED vars PROVE Inv'
    <3>1. KnownInv' /\ CleanInv' /\ HashedInv' /\ StrayInv'
      BY <2>1 DEF KnownInv, CleanInv, OnDisk, HashedInv, StrayInv, WorkerHashed, Busy,
             Settling, Quiet, Seen, On, Exists, vars, memory, startup, disk, bounds
    <3>2. GarbageInv'
      BY <2>1 DEF GarbageInv, Quiet, OnDisk, Live, Writer, Busy, Coll, Doomed,
             Exists, vars, disk, bounds
    <3> QED BY <3>1, <3>2
  <2>2. ASSUME IInv, SoundInv, Inv, Next PROVE Inv'
    <3>1. KnownInv' /\ CleanInv' /\ StrayInv'
      BY <2>2, KnownStep, CleanStep, StrayStep
    <3>2. HashedInv'
      BY <2>2, QuietBefore, HashedStep DEF HashedInv
    <3>3. GarbageInv'
      <4>1. CASE Quiet'
        BY <2>2, <4>1, GarbageStep
      <4>2. CASE ~Quiet'
        BY <4>2 DEF GarbageInv
      <4> QED BY <4>1, <4>2
    <3> QED BY <3>1, <3>2, <3>3
  <2> QED BY <2>1, <2>2
<1>3. IInv /\ Inv => GarbageIsCollected
  <2> SUFFICES ASSUME IInv, Inv, lives = 1, ctx = "up",
                      NEW h \in ((files \cup state \cup arow) \cap Sides) \ strays, Settled(h)
               PROVE  \E d \in Deploys : Side[d] = h /\ Exists(d) /\ row[d].status # "evicted"
    BY DEF GarbageIsCollected
  <2>1. Live(h) \/ Writer(h) \/ Coll(h)
    BY DEF GarbageInv, Quiet, OnDisk
  <2>2. ~Writer(h)
    BY BuildQueueAssumption DEF Writer, Busy, Settled, IInv, WorkerInv
  <2>3. ~Coll(h)
    BY DEF Coll, Doomed, Settled
  <2> QED BY <2>1, <2>2, <2>3 DEF Live
<1> QED BY Inductive, SoundInductive, <1>1, <1>2, <1>3, PTL DEF Spec

-----------------------------------------------------------------------------
(* The queue implements DeployLife *)

\* Whoever is on an eviction's list was requested.
ListedInv == \A e \in Cleaners : \A s \in cleaner[e].todo : Seen(s.d)

\* Without evictions, what the theorems above rest on.
CalmInv == Cleaners = {} => ExistsInv /\ FaultInv /\ ProvisionInv /\ FilesInv

LifeInv == SoundInv /\ ListedInv /\ CalmInv

Calm == lives = 1 /\ ctx = "up"

\* Every step leaves only such deploys listed.
LEMMA ListedStep == ASSUME IInv, ListedInv, Next PROVE ListedInv'
<1> USE DEF IInv, ListedInv
<1>1. \A e \in Cleaners : cleaner[e].todo \subseteq Snapshots
  BY DEF CleanerInv, CleanerSet
<1>2. \A s \in Snapshots : s.d \in Deploys
  BY DEF Snapshots
<1>3. \A d \in Deploys : Seen(d) => Seen(d)'
  BY SeenKept DEF Seen
<1>4. CASE UNCHANGED cleaner
  BY <1>1, <1>2, <1>3, <1>4
<1>5. ASSUME NEW e \in Cleaners, List(e) PROVE ListedInv'
  <2>1. PICK S \in SUBSET Candidates(e) : cleaner' = [cleaner EXCEPT ![e].pc = "mark",
                                                        ![e].todo = {Snapshot(d) : d \in S}]
    BY <1>5 DEF List
  <2>2. \A d \in S : d \in Deploys /\ Seen(d)
    BY DEF Candidates, Exists, Seen
  <2>3. \A s \in cleaner'[e].todo : Seen(s.d)'
    BY <1>3, <2>1, <2>2 DEF Snapshot, CleanerInv, CleanerSet
  <2>4. \A f \in Cleaners : f # e => cleaner'[f] = cleaner[f]
    BY <2>1 DEF CleanerInv
  <2> QED BY <1>1, <1>2, <1>3, <2>3, <2>4
<1>6. ASSUME NEW e \in Cleaners, Clean(e) PROVE ListedInv'
  <2>1. \A f \in Cleaners : f # e => cleaner'[f] = cleaner[f]
    BY <1>6 DEF Clean, Mark, Survey, DeleteBackendArtifact, RemoveFiles, RemoveState, Move, CleanerInv
  <2>2. cleaner'[e].todo \subseteq cleaner[e].todo
    <3>1. CASE Survey(e)
      BY <3>1 DEF Survey, CleanerInv, CleanerSet
    <3>2. CASE Mark(e)
      <4>1. PICK s \in cleaner[e].todo : cleaner' = [cleaner EXCEPT ![e] =
                   IF Exists(s.d) \/ Deletes(e)
                   THEN [pc |-> "survey", todo |-> cleaner[e].todo \ {s}, d |-> s, live |-> {}]
                   ELSE IF cleaner[e].todo \ {s} = {} THEN IdleCleaner
                   ELSE [IdleCleaner EXCEPT !.pc = "mark", !.todo = cleaner[e].todo \ {s}]]
        BY <3>2 DEF Mark
      <4> QED BY <4>1 DEF CleanerInv, CleanerSet, IdleCleaner
    <3>3. ASSUME NEW l, Move(e, l) PROVE cleaner'[e].todo \subseteq cleaner[e].todo
      BY <3>3 DEF Move, CleanerInv, CleanerSet, IdleCleaner
    <3> QED BY <1>6, <3>1, <3>2, <3>3 DEF Clean, DeleteBackendArtifact, RemoveFiles, RemoveState
  <2> QED BY <1>1, <1>2, <1>3, <2>1, <2>2
<1>7. CASE Die
  BY <1>7 DEF Die, IdleCleaner
<1>8. ASSUME NEW w \in Workers, Take(w) \/ Process(w) PROVE UNCHANGED cleaner
  BY <1>8 DEF Process, Take, LoadRow, MarkBuilding, TakeRebuild, Resolve, Cache, Enter, BuildSteps,
         Publish, Replace, Provision, StateDir, CreateBackendArtifact, SetReady, Reload, SetFailed,
         Artifact, ArtifactBuilt, ArtifactFailed
<1>9. ASSUME NEW c \in Callers, Ask(c) \/ RequestDeploy(c) \/ Enqueue(c) PROVE UNCHANGED cleaner
  BY <1>9 DEF RequestDeploy, Ask, Create, ResetDeploy, SetRebuild, Enqueue
<1>10. ASSUME ListUnfinished \/ Resume \/ Cancel \/ Start PROVE UNCHANGED cleaner
  BY <1>10 DEF ListUnfinished, Resume, Cancel, Start
<1> QED BY <1>4, <1>5, <1>6, <1>7, <1>8, <1>9, <1>10 DEF Next

LEMMA LifeInductive == Spec => []LifeInv
<1>1. Init => ListedInv /\ CalmInv
  <2> SUFFICES ASSUME Init PROVE ListedInv /\ CalmInv
    OBVIOUS
  <2>1. \A d \in Deploys : ~On(work, d)
    <3>1. Len(work) = 0
      BY DEF Init
    <3> QED BY <3>1 DEF On
  <2>2. ListedInv
    BY DEF Init, ListedInv, IdleCleaner
  <2>3. ExistsInv
    BY <2>1 DEF Init, ExistsInv, KnownInv, NoRow, IdleWorker, IdleCaller
  <2>4. FaultInv /\ ProvisionInv /\ FilesInv
    BY DEF Init, FaultInv, ProvisionInv, FilesInv, NoRow, IdleWorker, PastPublish
  <2> QED BY <2>2, <2>3, <2>4 DEF CalmInv
<1>2. IInv /\ ListedInv /\ CalmInv /\ [Next]_vars => ListedInv' /\ CalmInv'
  <2>1. ASSUME ListedInv, CalmInv, UNCHANGED vars PROVE ListedInv' /\ CalmInv'
    BY <2>1 DEF ListedInv, CalmInv, ExistsInv, KnownInv, Seen, On, FaultInv, ProvisionInv,
           FilesInv, Here, vars, Hash, disk, memory, startup, bounds
  <2>2. ASSUME IInv, CalmInv, Next PROVE CalmInv'
    BY <2>2, ExistsStep, FaultStep, ProvisionStep, FilesStep DEF CalmInv
  <2> QED BY <2>1, <2>2, ListedStep
<1> QED BY Inductive, SoundInductive, <1>1, <1>2, PTL DEF Spec, LifeInv

\* The builder of an address is whoever its flight names.
LEMMA BuildersAre ==
    ASSUME FlightInv, NEW h \in Hashes PROVE Builders(h) = {w \in Workers : flight[h] = w}
BY DEF FlightInv, Builders, BuildPC

LEMMA BuildersKept ==
    ASSUME FlightInv, FlightInv', flight' = flight
    PROVE  \A h \in Hashes : Builders(h)' = Builders(h)
<1>1. \A h \in Hashes : Builders(h)' = {w \in Workers : flight'[h] = w}
  BY DEF FlightInv, Builders, BuildPC
<1> QED BY <1>1, BuildersAre

\* What a step does that changes nothing but rows.
RowsOnly ==
    /\ \A h \in Hashes : Builders(h)' = Builders(h)
    /\ UNCHANGED <<files, state, arow, broken>> /\ Calm' = Calm

LEMMA Unseen ==
    ASSUME RowsOnly, \A d \in Deploys : row'[d].status = row[d].status
    PROVE  UNCHANGED DL!vars
BY DEF RowsOnly, DL!vars, DL!rows, DL!addresses, Calm

LEMMA RowSays ==
    ASSUME RowsOnly, NEW d \in Deploys, NEW s,
           \A x \in Deploys : row'[x].status = IF x = d THEN s ELSE row[x].status
    PROVE  DL!Says(d, s)
<1>1. [x \in Deploys |-> row'[x].status] = [[x \in Deploys |-> row[x].status] EXCEPT ![d] = s]
  OBVIOUS
<1> QED BY <1>1 DEF RowsOnly, DL!Says, DL!addresses, Calm

\* An UPDATE by id says what it writes, if the row is there.
LEMMA UpdateSays ==
    ASSUME RowInv, RowsOnly, NEW d \in Deploys, NEW s, Update(d, s)
    PROVE  \/ Exists(d) /\ DL!Says(d, s)
           \/ ~Exists(d) /\ UNCHANGED DL!vars
<1>1. CASE Exists(d)
  <2>1. \A x \in Deploys : row'[x].status = IF x = d THEN s ELSE row[x].status
    BY <1>1, UpdateDoes
  <2> QED BY <1>1, <2>1, RowSays
<1>2. CASE ~Exists(d)
  <2>1. \A x \in Deploys : row'[x].status = row[x].status
    BY <1>2, UpdateDoes
  <2> QED BY <1>2, <2>1, Unseen
<1> QED BY <1>1, <1>2

LEMMA RowMoves ==
    ASSUME NEW d \in Deploys, DL!Request(d) \/ DL!Work(d) \/ DL!Succeed(d) \/ DL!Fail(d) \/ DL!Evict(d)
    PROVE  DL!Next
BY DEF DL!Next

\* A worker outside its build touches no more than rows, unless it provisions.
LEMMA WorkerRowsOnly ==
    ASSUME FlightInv, FlightInv', NEW w \in Workers, Take(w) \/ Process(w),
           ~Enter(w), ~BuildSteps(w), ~Publish(w), ~Replace(w),
           ~StateDir(w), ~CreateBackendArtifact(w)
    PROVE  RowsOnly
<1>1. UNCHANGED <<files, state, arow, broken, flight, ctx, lives>>
  BY DEF Process, Take, LoadRow, MarkBuilding, TakeRebuild, Resolve, Cache, Provision, SetReady,
         Reload, SetFailed, Artifact, ArtifactBuilt, ArtifactFailed, disk, memory, bounds
<1> QED BY <1>1, BuildersKept DEF RowsOnly, Calm

\* What process writes about a deploy is so.
LEMMA OutcomesAreSaid ==
    ASSUME IInv, LifeInv, RowsOnly, NEW w \in Workers,
           MarkBuilding(w) \/ SetReady(w) \/ SetFailed(w)
    PROVE  [DL!Next]_(DL!vars)
<1> USE DEF IInv
<1>1. PICK d \in Deploys : d = worker[w].d /\ Hash(w) = Side[d] /\ Side[d] \in Hashes
  BY HashType DEF MarkBuilding, SetReady, SetFailed, WorkerInv, SidePC, Hash, Hashes, Sides
<1>2. CASE MarkBuilding(w)
  <2>1. (DL!Says(d, "building") /\ Exists(d)) \/ UNCHANGED DL!vars
    BY <1>1, <1>2, UpdateSays DEF MarkBuilding
  <2>2. ASSUME DL!Says(d, "building"), Exists(d) PROVE DL!Work(d)
    BY <1>1, <2>2 DEF DL!Work, DL!Known, Exists
  <2> QED BY <1>1, <2>1, <2>2, RowMoves
<1>3. CASE SetReady(w)
  <2>1. (DL!Says(d, "ready") /\ Exists(d)) \/ UNCHANGED DL!vars
    BY <1>1, <1>3, UpdateSays DEF SetReady
  <2>2. Side[d] \notin broken
    BY <1>1, <1>3 DEF SetReady, LifeInv, SoundInv, Sound, PastPublish
  <2>3. Cleaners = {} => Side[d] \in state \cap arow
    BY <1>1, <1>3 DEF SetReady, LifeInv, CalmInv, ProvisionInv
  <2>4. Cleaners = {} /\ Calm => Side[d] \in files \/ Builders(Side[d]) # {}
    BY <1>1, <1>3 DEF SetReady, LifeInv, CalmInv, FilesInv, Calm, Here, PastPublish, Builders
  <2>5. ASSUME DL!Says(d, "ready"), Exists(d) PROVE DL!Succeed(d)
    BY <1>1, <2>2, <2>3, <2>4, <2>5 DEF DL!Succeed, DL!Known, Exists, Calm
  <2> QED BY <1>1, <2>1, <2>5, RowMoves
<1>4. CASE SetFailed(w)
  <2>1. (DL!Says(d, "failed") /\ Exists(d)) \/ UNCHANGED DL!vars
    BY <1>1, <1>4, UpdateSays DEF SetFailed
  <2>2. Cleaners = {} /\ Calm => Side[d] \in broken
    BY <1>1, <1>4 DEF SetFailed, LifeInv, CalmInv, FaultInv, Calm
  <2>3. ASSUME DL!Says(d, "failed"), Exists(d) PROVE DL!Fail(d)
    BY <1>1, <2>2, <2>3 DEF DL!Fail, DL!Known, Exists, Calm
  <2> QED BY <1>1, <2>1, <2>3, RowMoves
<1> QED BY <1>2, <1>3, <1>4

\* Of the workers at an address one enters its build; the others wait.
LEMMA EnterBegins ==
    ASSUME IInv, IInv', NEW w \in Workers, Enter(w) PROVE [DL!Next]_(DL!vars)
<1> USE DEF IInv
<1>1. Hash(w) \in Hashes /\ worker[w].pc = "enter"
  BY HashType DEF Enter
<1>2. UNCHANGED <<row, files, state, arow, broken, ctx, lives>>
  BY DEF Enter, disk, bounds
<1>3. CASE flight[Hash(w)] = None /\ flight' = [flight EXCEPT ![Hash(w)] = w]
  <2>1. \A h \in Hashes : Builders(h) = {v \in Workers : flight[h] = v}
    BY BuildersAre
  <2>2. \A h \in Hashes : Builders(h)' = {v \in Workers : flight'[h] = v}
    BY DEF FlightInv, Builders, BuildPC
  <2>3. None \notin Workers
    BY BuildQueueAssumption
  <2>4. \A h \in Hashes : Builders(h)' = IF h = Hash(w) THEN {w} ELSE Builders(h)
    <3>1. \A h \in Hashes : flight'[h] = IF h = Hash(w) THEN w ELSE flight[h]
      BY <1>1, <1>3 DEF FlightInv
    <3> QED BY <2>1, <2>2, <3>1
  <2>5. Builders(Hash(w)) = {}
    BY <1>1, <1>3, <2>1, <2>3
  <2>6. \A h \in Hashes : w \notin Builders(h)
    BY <1>1 DEF Builders
  <2>7. [h \in Hashes |-> Builders(h)'] = [[h \in Hashes |-> Builders(h)] EXCEPT ![Hash(w)] = {w}]
    BY <1>1, <2>4
  <2>8. DL!Begin(Hash(w), w)
    BY <1>1, <1>2, <2>5, <2>6, <2>7 DEF DL!Begin, DL!rows
  <2> QED BY <1>1, <2>8 DEF DL!Next
<1>4. CASE flight' = flight
  <2>1. RowsOnly
    BY <1>2, <1>4, BuildersKept DEF RowsOnly, Calm
  <2> QED BY <1>2, <2>1, Unseen
<1> QED BY <1>3, <1>4 DEF Enter

\* A build that lands leaves its address without a builder.
LEMMA LandLeaves ==
    ASSUME IInv, IInv', NEW w \in Workers, NEW ok \in BOOLEAN, Land(w, ok), worker[w].pc \in BuildPC
    PROVE  /\ Hash(w) \in Hashes /\ Builders(Hash(w)) # {}
           /\ [h \in Hashes |-> Builders(h)'] = [[h \in Hashes |-> Builders(h)] EXCEPT ![Hash(w)] = {}]
<1> USE DEF IInv
<1>1. Hash(w) \in Hashes /\ w \in Builders(Hash(w))
  BY HashType DEF Builders, BuildPC
<1>2. \A h \in Hashes : Builders(h) = {v \in Workers : flight[h] = v}
  BY BuildersAre
<1>3. \A h \in Hashes : Builders(h)' = {v \in Workers : flight'[h] = v}
  BY DEF FlightInv, Builders, BuildPC
<1>4. None \notin Workers
  BY BuildQueueAssumption
<1>5. \A h \in Hashes : Builders(h)' = IF h = Hash(w) THEN {} ELSE Builders(h)
  <2>1. \A h \in Hashes : flight'[h] = IF h = Hash(w) THEN None ELSE flight[h]
    BY <1>1 DEF FlightInv, Land
  <2> QED BY <1>2, <1>3, <1>4, <2>1
<1> QED BY <1>1, <1>5

\* The steps inside a build: one puts its files in place, or gives up.
LEMMA BuildsArePublished ==
    ASSUME IInv, IInv', LifeInv, NEW w \in Workers, BuildSteps(w) \/ Publish(w) \/ Replace(w)
    PROVE  [DL!Next]_(DL!vars)
<1> USE DEF IInv
<1>1. worker[w].pc \in BuildPC /\ Hash(w) \in Hashes /\ w \in Builders(Hash(w))
  BY HashType DEF BuildSteps, Publish, Replace, Builders, BuildPC
<1>2. UNCHANGED <<row, state, arow, broken, ctx, lives>>
  BY DEF BuildSteps, Publish, Replace, disk, bounds
<1>3. CASE files' = files /\ CanFail(w) /\ Land(w, FALSE)
  <2>1. Calm => Hash(w) \in broken
    BY <1>3 DEF CanFail, Calm
  <2>2. DL!Abandon(Hash(w))
    BY <1>1, <1>2, <1>3, <2>1, LandLeaves DEF DL!Abandon, DL!rows, Calm
  <2> QED BY <1>1, <2>2 DEF DL!Next
<1>4. CASE worker[w].pc \in Sound /\ files' = files \cup {Hash(w)} /\ Land(w, TRUE)
  <2>1. Hash(w) \notin broken
    BY <1>4 DEF LifeInv, SoundInv
  <2>2. DL!Publish(Hash(w))
    BY <1>1, <1>2, <1>4, <2>1, LandLeaves DEF DL!Publish, DL!rows, Calm
  <2> QED BY <1>1, <2>2 DEF DL!Next
<1>5. CASE worker[w].pc \in Sound /\ files' = files \ {Hash(w)} /\ flight' = flight
  <2>1. Hash(w) \notin broken
    BY <1>5 DEF LifeInv, SoundInv
  <2>2. \A h \in Hashes : Builders(h)' = Builders(h)
    BY <1>5, BuildersKept
  <2>3. DL!SetAside(Hash(w))
    BY <1>1, <1>2, <1>5, <2>1, <2>2 DEF DL!SetAside, DL!rows, Calm
  <2> QED BY <1>1, <2>3 DEF DL!Next
<1>6. CASE files' = files /\ flight' = flight
  <2>1. RowsOnly
    BY <1>2, <1>6, BuildersKept DEF RowsOnly, Calm
  <2> QED BY <1>2, <2>1, Unseen
<1>7. BuildSteps(w) => files' = files
  BY DEF BuildSteps, disk
<1> QED BY <1>3, <1>4, <1>5, <1>6, <1>7 DEF BuildSteps, Publish, Replace, Sound

\* ForkOrInitStateDir and its row make an address provisioned, that builds.
LEMMA StateIsProvided ==
    ASSUME IInv, IInv', LifeInv, NEW w \in Workers, StateDir(w) \/ CreateBackendArtifact(w)
    PROVE  [DL!Next]_(DL!vars)
<1> USE DEF IInv
<1>1. Hash(w) \in Hashes /\ Hash(w) \notin broken
  BY HashType DEF StateDir, CreateBackendArtifact, LifeInv, SoundInv, Sound, PastPublish
<1>2. UNCHANGED <<row, files, broken, flight, ctx, lives>>
  BY DEF StateDir, CreateBackendArtifact, memory, bounds
<1>3. \A h \in Hashes : Builders(h)' = Builders(h)
  BY <1>2, BuildersKept
<1>4. state' \cap arow' \in {state \cap arow, (state \cap arow) \cup {Hash(w)}}
  BY DEF StateDir, CreateBackendArtifact
<1>5. CASE state' \cap arow' = (state \cap arow) \cup {Hash(w)}
  <2>1. DL!Provide(Hash(w))
    BY <1>1, <1>2, <1>3, <1>5 DEF DL!Provide, DL!rows, Calm
  <2> QED BY <1>1, <2>1 DEF DL!Next
<1>6. CASE state' \cap arow' = state \cap arow
  BY <1>2, <1>3, <1>6 DEF DL!vars, DL!rows, DL!addresses, Calm
<1> QED BY <1>4, <1>5, <1>6

\* Every step of a worker is one of DeployLife, or not seen there.
LEMMA WorkerLives ==
    ASSUME IInv, IInv', LifeInv, NEW w \in Workers, Take(w) \/ Process(w)
    PROVE  [DL!Next]_(DL!vars)
<1> DEFINE Quietly == ~Enter(w) /\ ~BuildSteps(w) /\ ~Publish(w) /\ ~Replace(w)
                      /\ ~StateDir(w) /\ ~CreateBackendArtifact(w)
<1>1. Quietly => RowsOnly
  BY WorkerRowsOnly DEF IInv
<1>2. CASE Quietly /\ (MarkBuilding(w) \/ SetReady(w) \/ SetFailed(w))
  BY <1>1, <1>2, OutcomesAreSaid
<1>3. CASE Quietly /\ ~MarkBuilding(w) /\ ~SetReady(w) /\ ~SetFailed(w)
  <2>1. worker[w].pc \notin {"mark", "finish", "fail"}
    BY <1>3 DEF Process, Take, LoadRow, TakeRebuild, Resolve, Cache, Provision, Reload,
           Artifact, ArtifactBuilt, ArtifactFailed
  <2>2. \A d \in Deploys : row'[d].status = row[d].status
    BY <2>1, WorkerRows
  <2> QED BY <1>1, <1>3, <2>2, Unseen
<1> QED BY <1>2, <1>3, EnterBegins, BuildsArePublished, StateIsProvided

\* Every step of a request queues a deploy that is not deleted, or is not seen.
LEMMA CallerLives ==
    ASSUME IInv, IInv', NEW c \in Callers, Ask(c) \/ RequestDeploy(c) \/ Enqueue(c)
    PROVE  [DL!Next]_(DL!vars)
<1> USE DEF IInv
<1>1. RowsOnly
  <2>1. UNCHANGED <<files, state, arow, broken, flight, ctx, lives>>
    BY DEF RequestDeploy, Ask, Create, ResetDeploy, SetRebuild, Enqueue, disk, memory, bounds
  <2> QED BY <2>1, BuildersKept DEF RowsOnly, Calm
<1>2. CASE row' = row
  BY <1>1, <1>2, Unseen
<1>3. CASE Create(c) /\ row' # row
  <2>1. PICK d \in Deploys : row[d].status = "none" /\ row' = [row EXCEPT ![d] = FreshRow]
    BY <1>3 DEF Create, CallerInv
  <2>2. FreshRow.status = "queued"
    BY DEF FreshRow, NoRow
  <2>3. \A x \in Deploys : row'[x].status = IF x = d THEN "queued" ELSE row[x].status
    BY <2>1, <2>2 DEF RowInv
  <2>4. DL!Says(d, "queued")
    BY <1>1, <2>1, <2>3, RowSays
  <2>5. DL!Request(d)
    BY <2>1, <2>4 DEF DL!Request
  <2> QED BY <2>1, <2>5, RowMoves
<1>4. CASE ResetDeploy(c)
  <2>1. PICK d \in Deploys : Update(d, "queued")
    BY <1>4 DEF ResetDeploy, CallerInv
  <2>2. (DL!Says(d, "queued") /\ Exists(d)) \/ UNCHANGED DL!vars
    BY <1>1, <2>1, UpdateSays
  <2>3. ASSUME DL!Says(d, "queued"), Exists(d) PROVE DL!Request(d)
    BY <2>1, <2>3 DEF DL!Request, Exists
  <2> QED BY <2>1, <2>2, <2>3, RowMoves
<1> QED BY <1>2, <1>3, <1>4 DEF RequestDeploy, Ask, SetRebuild, Enqueue

\* Every step of an eviction marks a requested deploy, collects, or is not seen.
LEMMA CleanerLives ==
    ASSUME IInv, IInv', LifeInv, NEW e \in Cleaners, List(e) \/ Clean(e)
    PROVE  [DL!Next]_(DL!vars)
<1> USE DEF IInv
<1>1. UNCHANGED <<worker, flight, broken, ctx, lives>>
  BY DEF Clean, List, Mark, Survey, DeleteBackendArtifact, RemoveFiles, RemoveState, memory, bounds
<1>2. \A h \in Hashes : Builders(h)' = Builders(h)
  BY <1>1, BuildersKept
<1>3. CASE UNCHANGED <<files, state, arow>>
  <2>1. RowsOnly
    BY <1>1, <1>2, <1>3 DEF RowsOnly, Calm
  <2>2. CASE row' = row
    BY <2>1, <2>2, Unseen
  <2>3. CASE row' # row
    <3>1. PICK s \in cleaner[e].todo :
             /\ s.d \in Deploys
             /\ \A d \in Deploys : d # s.d => row'[d] = row[d]
             /\ \/ row'[s.d] = DeletedRow
                \/ Exists(s.d) /\ row'[s.d].status = "evicted"
      BY <2>3, CleanerRows
    <3>2. Seen(s.d)
      BY <3>1 DEF LifeInv, ListedInv
    <3>3. CASE row'[s.d] = DeletedRow
      <4>1. row'[s.d].status = "deleted"
        BY <3>3 DEF DeletedRow, NoRow
      <4>2. DL!Says(s.d, "deleted")
        BY <2>1, <3>1, <4>1, RowSays
      <4>3. DL!Evict(s.d)
        BY <3>1, <3>2, <4>2 DEF DL!Evict, Seen
      <4> QED BY <3>1, <4>3, RowMoves
    <3>4. CASE Exists(s.d) /\ row'[s.d].status = "evicted"
      <4>1. DL!Says(s.d, "evicted")
        BY <2>1, <3>1, <3>4, RowSays
      <4>2. DL!Evict(s.d)
        BY <3>1, <3>4, <4>1 DEF DL!Evict, DL!Known, Exists
      <4> QED BY <3>1, <4>2, RowMoves
    <3> QED BY <3>1, <3>3, <3>4
  <2> QED BY <2>2, <2>3
<1>4. CASE DeleteBackendArtifact(e) \/ RemoveFiles(e) \/ RemoveState(e)
  <2> DEFINE hs == Condemned(e) \cap Hashes
  <2>1. /\ row' = row
        /\ files' \in {files, files \ Condemned(e)}
        /\ state' \in {state, state \ Condemned(e)} /\ arow' \in {arow, arow \ Condemned(e)}
    BY <1>4 DEF DeleteBackendArtifact, RemoveFiles, RemoveState
  <2>2. files \subseteq Hashes /\ state \cap arow \subseteq Hashes
    BY DEF DiskInv, Hashes
  <2>3. files' \in {files, files \ hs} /\ state' \cap arow' \in {state \cap arow, (state \cap arow) \ hs}
    BY <2>1, <2>2
  <2>4. DL!Collect(hs)
    BY <1>1, <1>2, <2>1, <2>3 DEF DL!Collect, DL!rows, Calm
  <2> QED BY <2>4 DEF DL!Next
<1>5. CASE List(e) \/ Mark(e) \/ Survey(e)
  BY <1>3, <1>5 DEF List, Mark, Survey, disk
<1> QED BY <1>4, <1>5 DEF Clean

\* Of the rest of the program DeployLife sees that it stops.
LEMMA OtherLives ==
    ASSUME IInv, IInv', ListUnfinished \/ Resume \/ Cancel \/ Die \/ Start
    PROVE  [DL!Next]_(DL!vars)
<1> USE DEF IInv
<1>1. UNCHANGED <<row, files, state, arow, broken>>
  BY DEF ListUnfinished, Resume, Cancel, Die, Start, disk, bounds
<1>2. CASE ListUnfinished \/ Resume \/ Start
  <2>1. UNCHANGED flight
    BY <1>2 DEF ListUnfinished, Resume, Start, memory
  <2>2. Calm' = Calm
    <3>1. CASE ListUnfinished \/ Resume
      BY <3>1 DEF ListUnfinished, Resume, bounds, Calm
    <3>2. CASE Start
      <4>1. ctx = "down" /\ lives' = lives + 1 /\ lives \in Nat /\ lives >= 1
        BY <3>2, BuildQueueAssumption DEF Start, BoundInv
      <4>2. lives' # 1
        BY <4>1
      <4> QED BY <4>1, <4>2 DEF Calm
    <3> QED BY <1>2, <3>1, <3>2
  <2>3. RowsOnly
    BY <1>1, <2>1, <2>2, BuildersKept DEF RowsOnly
  <2> QED BY <1>1, <2>3, Unseen
<1>3. CASE Cancel \/ Die
  <2>1. ~Calm'
    BY <1>3 DEF Cancel, Die, Calm
  <2>2. [h \in Hashes |-> Builders(h)'] \in {[h \in Hashes |-> Builders(h)], [h \in Hashes |-> {}]}
    <3>1. CASE Cancel
      BY <3>1, BuildersKept DEF Cancel, memory
    <3>2. CASE Die
      <4>1. \A h \in Hashes : Builders(h)' = {}
        BY <3>2 DEF Die, Builders, IdleWorker
      <4> QED BY <4>1
    <3> QED BY <1>3, <3>1, <3>2
  <2>3. DL!Stop
    BY <1>1, <2>1, <2>2 DEF DL!Stop, DL!rows, Calm
  <2> QED BY <2>3 DEF DL!Next
<1> QED BY <1>2, <1>3

\* The queue implements DeployLife: whoever asks, builds, evicts or kills, a row
\* says what is so when it is written (process, RequestDeploy), an address has one
\* builder, and only that builder puts its files in place (buildDeploy, publish).
THEOREM DeployLifeImplemented == Spec => ImplementsDeployLife
<1>1. Init => DL!Init
  <2> SUFFICES ASSUME Init PROVE DL!Init
    OBVIOUS
  <2>1. [d \in Deploys |-> row[d].status] = [d \in Deploys |-> "none"]
    BY DEF Init, NoRow
  <2>2. [h \in Hashes |-> Builders(h)] = [h \in Hashes |-> {}]
    BY DEF Init, Builders, IdleWorker
  <2>3. broken \in SUBSET Hashes
    BY BuildQueueAssumption DEF Init
  <2> QED BY <2>1, <2>2, <2>3 DEF Init, DL!Init
<1>2. IInv /\ IInv' /\ LifeInv /\ [Next]_vars => [DL!Next]_(DL!vars)
  <2>1. ASSUME UNCHANGED vars PROVE UNCHANGED DL!vars
    <3>1. \A h : Builders(h)' = Builders(h)
      BY <2>1 DEF vars, Builders, Hash
    <3> QED BY <2>1, <3>1 DEF vars, disk, bounds, DL!vars, DL!rows, DL!addresses
  <2>2. ASSUME IInv, IInv', LifeInv, Next PROVE [DL!Next]_(DL!vars)
    BY <2>2, WorkerLives, CallerLives, CleanerLives, OtherLives DEF Next
  <2> QED BY <2>1, <2>2
<1> QED BY Inductive, LifeInductive, <1>1, <1>2, PTL DEF Spec, ImplementsDeployLife, DL!Spec
=============================================================================
