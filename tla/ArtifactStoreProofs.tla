------------------------- MODULE ArtifactStoreProofs -------------------------
(***************************************************************************)
(* For any number of addresses, readers, upload workers, builds, sweeps,   *)
(* failures and kills: a directory that is there is complete, and so is an *)
(* object of the durable tier, unless a removal was caught half done; and  *)
(* what turns ready is in the durable tier by then.  Together they are     *)
(* ArtifactLife, which ArtifactStore implements.                           *)
(***************************************************************************)
EXTENDS ArtifactStore, SequenceTheorems, TLAPS

\* What a saver and a publisher work on is an address.
Assigned ==
    /\ \A p \in Publishers : job[p].pc # "idle" => job[p].addr \in Addr
    /\ \A s \in Savers : save[s].pc # "idle" => save[s].addr \in Addr
    /\ rec.pc # "idle" => rec.at \in Addr

\* A directory under removal is in part gone, ...
Removing == \A a \in Addr : removal[a] # "none" => dir[a] = "part"

\* ... and without a removal seen half done nothing else is incomplete, neither
\* what a fetch is about to publish nor what a saver has read.
Complete ==
    ~torn => /\ \A a \in Addr : /\ dir[a] = "part" => removal[a] # "none"
                                /\ tier[a] # "short" /\ flight[a] # "part"
             /\ \A s \in Savers : save[s].pc = "put" => save[s].got = "whole"

Safe == Removing /\ Complete

IInv == ArtifactTypeOK /\ Assigned /\ Safe

LEMMA SaversAre == "queue" \in Savers /\ "rec" \in Savers /\ PersistWorkers \subseteq Savers
BY DEF Savers

LEMMA ArtifactInitInv == ArtifactInit => IInv
<1> SUFFICES ASSUME ArtifactInit PROVE IInv
  OBVIOUS
<1>1. /\ dir \in [Addr -> {"none", "part", "whole"}]
      /\ removal \in [Addr -> {"none", "sweep", "gc"}]
      /\ tier \in [Addr -> {"none", "good", "bare", "short"}]
      /\ live \subseteq Addr
      /\ flight \in [Addr -> {"none", "check", "part", "whole"}]
      /\ reader \in [Readers -> Addr \cup {NoAddr}] /\ sweep \subseteq Addr /\ torn \in BOOLEAN
  BY DEF ArtifactInit
<1>2. job \in [Publishers -> [addr : Addr \cup {NoAddr}, over : BOOLEAN,
                  pc : {"idle", "tier", "wait", "decide", "build", "land", "durable", "save"}]]
  BY DEF ArtifactInit, IdleJob
<1>3. persistJobs \in Seq(Addr) /\ Len(persistJobs) <= PersistQueueSize
  BY ArtifactStoreAssumption DEF ArtifactInit
<1>4. save \in [Savers -> [addr : Addr \cup {NoAddr}, pc : {"idle", "stat", "walk", "put"},
                            got : {"none", "part", "whole"}]]
  BY DEF ArtifactInit, IdleSave
<1>5. rec \in [todo : SUBSET Addr, at : Addr \cup {NoAddr},
               obj : {"none", "good", "bare", "short"}, pc : {"idle", "look", "drop", "save"}]
  BY DEF ArtifactInit, IdleRec
<1>6. spent \in [{"builds", "sweeps", "mishaps"} -> Nat]
  BY DEF ArtifactInit
<1>7. ArtifactTypeOK
  BY <1>1, <1>2, <1>3, <1>4, <1>5, <1>6 DEF ArtifactTypeOK
<1>8. Assigned /\ Safe
  BY DEF ArtifactInit, Assigned, Safe, Removing, Complete, IdleJob, IdleSave, IdleRec
<1> QED BY <1>7, <1>8 DEF IInv

-------------------------------------------------------------------------------
(* What the parts of the steps do *)

Contents == <<disk, tier, flight, save, torn>>

\* Who touches no content keeps it complete.
LEMMA ContentsKept == ASSUME Safe, UNCHANGED Contents PROVE Safe'
BY DEF Safe, Removing, Complete, Contents, disk

\* A removal that begins leaves part of one directory and one that ends nothing
\* of it, and the others are as they were.
LEMMA RemovalKeepsSafe ==
    ASSUME IInv, NEW a \in Addr, NEW d, NEW x,
           dir' = [dir EXCEPT ![a] = d], removal' = [removal EXCEPT ![a] = x],
           d = "part" <=> x # "none", UNCHANGED <<tier, flight, save, torn>>
    PROVE  Safe'
<1>1. /\ dir \in [Addr -> {"none", "part", "whole"}]
      /\ removal \in [Addr -> {"none", "sweep", "gc"}] /\ Removing /\ Complete
  BY DEF IInv, ArtifactTypeOK, Safe
<1>2. \A b \in Addr : /\ dir'[b] = IF b = a THEN d ELSE dir[b]
                     /\ removal'[b] = IF b = a THEN x ELSE removal[b]
  BY <1>1
<1>3. Removing'
  BY <1>1, <1>2 DEF Removing
<1>4. Complete'
  <2>1. \A b \in Addr : ~torn => /\ dir'[b] = "part" => removal'[b] # "none"
                                 /\ tier[b] # "short" /\ flight[b] # "part"
    BY <1>1, <1>2 DEF Complete
  <2>2. \A s \in Savers : ~torn => (save[s].pc = "put" => save[s].got = "whole")
    BY <1>1 DEF Complete
  <2> QED BY <2>1, <2>2 DEF Complete, Savers
<1> QED BY <1>3, <1>4 DEF Safe

SpentType == spent \in [{"builds", "sweeps", "mishaps"} -> Nat]
JobType == job \in [Publishers -> [addr : Addr \cup {NoAddr}, over : BOOLEAN,
              pc : {"idle", "tier", "wait", "decide", "build", "land", "durable", "save"}]]
SaveType == save \in [Savers -> [addr : Addr \cup {NoAddr}, pc : {"idle", "stat", "walk", "put"},
                                 got : {"none", "part", "whole"}]]
QueueType == persistJobs \in Seq(Addr) /\ Len(persistJobs) <= PersistQueueSize
RecType == rec \in [todo : SUBSET Addr, at : Addr \cup {NoAddr},
                    obj : {"none", "good", "bare", "short"}, pc : {"idle", "look", "drop", "save"}]
DiskType == /\ dir \in [Addr -> {"none", "part", "whole"}]
            /\ removal \in [Addr -> {"none", "sweep", "gc"}]
            /\ tier \in [Addr -> {"none", "good", "bare", "short"}] /\ torn \in BOOLEAN
FetchType == /\ flight \in [Addr -> {"none", "check", "part", "whole"}]
             /\ reader \in [Readers -> Addr \cup {NoAddr}]
SetType == live \subseteq Addr /\ sweep \subseteq Addr

LEMMA TypePartsNext ==
    ASSUME SpentType', JobType', SaveType', QueueType', RecType', DiskType', FetchType', SetType'
    PROVE  ArtifactTypeOK'
BY DEF ArtifactTypeOK, SpentType, JobType, SaveType, QueueType, RecType, DiskType, FetchType,
   SetType

\* --steps--

LEMMA SpendKeeps == ASSUME SpentType, NEW b \in {"builds", "sweeps", "mishaps"}, Spend(b) PROVE SpentType'
BY DEF SpentType, Spend

LEMMA FaultKeeps == ASSUME SpentType, Fault PROVE SpentType'
BY SpendKeeps DEF Fault

\* A complete directory lands where there is none, or nothing changes.
LEMMA LandKeeps ==
    ASSUME IInv, NEW a \in Addr, NEW content \in {"part", "whole"}, Land(a, content),
           ~torn => content = "whole",
           UNCHANGED <<removal, tier, save, torn>>,
           \A b \in Addr : flight'[b] = "part" => flight[b] = "part"
    PROVE  Safe' /\ DiskType'
<1>1. /\ dir' \in [Addr -> {"none", "part", "whole"}]
      /\ \A b \in Addr : dir'[b] = dir[b] \/ (dir[b] = "none" /\ dir'[b] = content)
  BY DEF Land, Resident, IInv, ArtifactTypeOK
<1>2. DiskType'
  BY <1>1 DEF DiskType, IInv, ArtifactTypeOK
<1>3. Removing'
  BY <1>1 DEF Removing, IInv, Safe
<1>4. Complete'
  BY <1>1 DEF Complete, IInv, Safe
<1> QED BY <1>2, <1>3, <1>4 DEF Safe

LEMMA PublishedKeeps ==
    ASSUME IInv, NEW p \in Publishers, job[p].pc # "idle", Published(p, job[p].addr)
    PROVE  /\ JobType' /\ QueueType'
           /\ \A q \in Publishers :
                 job'[q].pc # "idle" => job[q].pc # "idle" /\ job'[q].addr = job[q].addr
<1>1. job[p].addr \in Addr
  BY DEF IInv, Assigned
<1>2. QueueType'
  BY <1>1, ArtifactStoreAssumption DEF Published, QueueType, IInv, ArtifactTypeOK
<1>3. job \in [Publishers -> [addr : Addr \cup {NoAddr}, over : BOOLEAN,
            pc : {"idle", "tier", "wait", "decide", "build", "land", "durable", "save"}]]
  BY DEF IInv, ArtifactTypeOK
<1>4. CASE p = "queue"
  <2>1. job' = [job EXCEPT ![p].pc = "durable"]
    BY <1>4 DEF Published
  <2>2. JobType'
    BY <1>3, <2>1 DEF JobType
  <2>3. \A q \in Publishers : job'[q].addr = job[q].addr /\ (q # p => job'[q] = job[q])
    BY <1>3, <2>1
  <2> QED BY <1>2, <2>2, <2>3
<1>5. CASE p # "queue"
  <2>1. job' = [job EXCEPT ![p] = IdleJob]
    BY <1>5 DEF Published
  <2>2. JobType'
    BY <1>3, <2>1 DEF JobType, IdleJob
  <2>3. job'[p].pc = "idle" /\ \A q \in Publishers : q # p => job'[q] = job[q]
    BY <1>3, <2>1 DEF IdleJob
  <2> QED BY <1>2, <2>2, <2>3
<1> QED BY <1>2, <1>4, <1>5

\* A saver goes on to its next step.
LEMMA SaveGoesOn ==
    ASSUME IInv, NEW s \in Savers, NEW x \in {"stat", "walk", "put"}, save[s].pc # "idle",
           NEW g \in {"none", "part", "whole"},
           \/ save' = [save EXCEPT ![s].pc = x, ![s].got = g]
           \/ save' = [save EXCEPT ![s].pc = x]
    PROVE  /\ SaveType'
           /\ \A r \in Savers : save'[r].addr = save[r].addr
           /\ \A r \in Savers : save'[r].pc # "idle" => save[r].pc # "idle"
<1>1. save \in [Savers -> [addr : Addr \cup {NoAddr}, pc : {"idle", "stat", "walk", "put"},
                          got : {"none", "part", "whole"}]]
  BY DEF IInv, ArtifactTypeOK
<1>2. CASE save' = [save EXCEPT ![s].pc = x]
  <2>1. SaveType'
    BY <1>1, <1>2 DEF SaveType
  <2>2. \A r \in Savers : save'[r].addr = save[r].addr /\ (r # s => save'[r] = save[r])
    BY <1>1, <1>2
  <2> QED BY <2>1, <2>2
<1>3. CASE save' = [save EXCEPT ![s].pc = x, ![s].got = g]
  <2>1. SaveType'
    <3> DEFINE next == [save[s] EXCEPT !.pc = x, !.got = g]
    <3>1. next \in [addr : Addr \cup {NoAddr}, pc : {"idle", "stat", "walk", "put"},
                   got : {"none", "part", "whole"}]
      BY <1>1
    <3>2. save' = [save EXCEPT ![s] = next]
      BY <1>1, <1>3
    <3> HIDE DEF next
    <3> QED BY <1>1, <3>1, <3>2 DEF SaveType
  <2>2. \A r \in Savers : save'[r].addr = save[r].addr /\ (r # s => save'[r] = save[r])
    BY <1>1, <1>3
  <2> QED BY <2>1, <2>2
<1> QED BY <1>2, <1>3

\* The end of a fetch.
LEMMA FinishKeeps ==
    ASSUME IInv, NEW a \in Addr, Finish(a)
    PROVE  /\ FetchType' /\ JobType'
           /\ \A b \in Addr : flight'[b] = "part" => flight[b] = "part"
           /\ \A p \in Publishers : /\ job'[p].pc # "idle" => job[p].pc # "idle"
                                    /\ job'[p].addr = job[p].addr
<1>1. FetchType' /\ \A b \in Addr : flight'[b] = "part" => flight[b] = "part"
  BY DEF Finish, FetchType, IInv, ArtifactTypeOK
<1>2. JobType' /\ \A p \in Publishers : /\ job'[p].pc # "idle" => job[p].pc # "idle"
                                        /\ job'[p].addr = job[p].addr
  <2>1. job \in [Publishers -> [addr : Addr \cup {NoAddr}, over : BOOLEAN,
              pc : {"idle", "tier", "wait", "decide", "build", "land", "durable", "save"}]]
    BY DEF IInv, ArtifactTypeOK
  <2>2. CASE job["queue"].pc = "wait" /\ job["queue"].addr = a
    BY <2>1, <2>2 DEF Finish, JobType, Publishers
  <2>3. CASE ~(job["queue"].pc = "wait" /\ job["queue"].addr = a)
    BY <2>1, <2>3 DEF Finish, JobType
  <2> QED BY <2>2, <2>3
<1> QED BY <1>1, <1>2

LEMMA JoinKeeps ==
    ASSUME IInv, NEW a \in Addr, Join(a)
    PROVE  /\ flight' \in [Addr -> {"none", "check", "part", "whole"}]
           /\ \A b \in Addr : flight'[b] = "part" => flight[b] = "part"
BY DEF Join, IInv, ArtifactTypeOK

LEMMA StartSaveKeeps ==
    ASSUME IInv, NEW s \in Savers, NEW a \in Addr, StartSave(s, a)
    PROVE  /\ SaveType'
           /\ \A r \in Savers : save'[r].pc = "put" => save[r].pc = "put" /\ save'[r] = save[r]
           /\ \A r \in Savers : save'[r].pc # "idle" => save'[r].addr \in Addr
<1>1. \A r \in Savers : /\ r = s => save'[r] = [addr |-> a, pc |-> "stat", got |-> "none"]
                        /\ r # s => save'[r] = save[r]
  BY DEF StartSave, IInv, ArtifactTypeOK
<1>2. SaveType'
  BY DEF StartSave, SaveType, IInv, ArtifactTypeOK
<1> QED BY <1>1, <1>2 DEF IInv, Assigned

LEMMA NextRefKeeps ==
    ASSUME IInv
    PROVE  /\ NextRef \in [todo : SUBSET Addr, at : Addr \cup {NoAddr},
                          obj : {"none", "good", "bare", "short"},
                          pc : {"idle", "look", "drop", "save"}]
           /\ NextRef.pc = "idle"
BY DEF NextRef, IInv, ArtifactTypeOK

\* The end of an upload.
LEMMA SaveReturnsKeeps ==
    ASSUME IInv, NEW s \in Savers, NEW o, SaveReturns(s, o), save[s].pc # "idle"
    PROVE  /\ SaveType' /\ JobType' /\ RecType' /\ live' \subseteq Addr /\ Assigned'
           /\ \A r \in Savers : save'[r].pc = "put" => save[r].pc = "put" /\ save'[r] = save[r]
<1>1. /\ SaveType'
      /\ \A r \in Savers : save'[r].pc = "put" => save[r].pc = "put" /\ save'[r] = save[r]
      /\ \A r \in Savers : save'[r].pc # "idle" => save[r].pc # "idle" /\ save'[r] = save[r]
  BY DEF SaveReturns, IdleSave, SaveType, IInv, ArtifactTypeOK
<1>2. JobType' /\ \A p \in Publishers : job'[p].pc # "idle" => job'[p] = job[p]
  BY DEF SaveReturns, IdleJob, JobType, Publishers, IInv, ArtifactTypeOK
<1>3. RecType' /\ (rec'.pc # "idle" => rec' = rec)
  BY NextRefKeeps DEF SaveReturns, RecType, IInv, ArtifactTypeOK
<1>4. live' \subseteq Addr
  BY DEF SaveReturns, IInv, ArtifactTypeOK, Assigned
<1>5. Assigned'
  BY <1>1, <1>2, <1>3 DEF Assigned, IInv
<1> QED BY <1>1, <1>2, <1>3, <1>4, <1>5

LEMMA NoPutKept ==
    ASSUME IInv, UNCHANGED <<disk, tier, torn>>,
           \A b \in Addr : flight'[b] = "part" => flight[b] = "part",
           \A r \in Savers : save'[r].pc = "put" => save[r].pc = "put" /\ save'[r] = save[r]
    PROVE  Safe' /\ DiskType'
<1>1. DiskType' /\ Removing'
  BY DEF IInv, Safe, Removing, ArtifactTypeOK, DiskType, disk
<1>2. Complete'
  BY DEF IInv, Safe, Complete, disk
<1> QED BY <1>1, <1>2 DEF Safe

LEMMA PublishStep == ASSUME IInv, NEW p \in Publishers, Publish(p) PROVE IInv'
<1>1. ArtifactTypeOK'
  <2>1. JobType'
    BY PublishedKeeps DEF Publish, IInv, ArtifactTypeOK, JobType
  <2>2. QueueType'
    BY PublishedKeeps DEF Publish, IInv, ArtifactTypeOK, QueueType
  <2>3. DiskType'
    BY DEF Publish, Land, Resident, IInv, ArtifactTypeOK, DiskType
  <2>4. SpentType' /\ SaveType' /\ RecType' /\ FetchType' /\ SetType'
    BY DEF Publish, disk, fetch, work, passes, IInv, ArtifactTypeOK, SpentType, SaveType,
       RecType, FetchType, SetType
  <2> QED BY <2>1, <2>2, <2>3, <2>4, TypePartsNext
<1>2. Assigned'
  <2>1. CASE Published(p, job[p].addr)
    BY <2>1, PublishedKeeps DEF Publish, Assigned, IInv, passes
  <2>2. CASE job' = [job EXCEPT ![p].pc = "land"]
    <3>1. \A q \in Publishers :
             job'[q].pc # "idle" => job[q].pc # "idle" /\ job'[q].addr = job[q].addr
      BY <2>2 DEF Publish, IInv, ArtifactTypeOK
    <3>2. UNCHANGED <<save, rec>>
      BY DEF Publish, passes
    <3>3. \A q \in Publishers : job'[q].pc # "idle" => job'[q].addr \in Addr
      BY <3>1 DEF Assigned, IInv
    <3> QED BY <3>2, <3>3 DEF Assigned, IInv
  <2> QED BY <2>1, <2>2 DEF Publish
<1>3. Safe'
  <2>1. job[p].addr \in Addr
    BY DEF IInv, Assigned, Publish
  <2>2. CASE Land(job[p].addr, "whole")
    BY <2>1, <2>2, LandKeeps DEF Publish, fetch, passes
  <2>3. CASE removal[job[p].addr] = "none" /\ dir' = [dir EXCEPT ![job[p].addr] = "none"]
    BY <2>1, <2>3 DEF Publish, Safe, Removing, Complete, IInv, ArtifactTypeOK, fetch
  <2> QED BY <2>2, <2>3 DEF Publish
<1> QED BY <1>1, <1>2, <1>3 DEF IInv

LEMMA LandNewStep == ASSUME IInv, NEW p \in Publishers, LandNew(p) PROVE IInv'
<1>1. ArtifactTypeOK'
  <2>1. JobType' /\ QueueType'
    BY PublishedKeeps DEF LandNew, IInv, ArtifactTypeOK, JobType, QueueType
  <2>2. DiskType'
    BY DEF LandNew, Land, Resident, IInv, ArtifactTypeOK, DiskType
  <2>3. SpentType' /\ SaveType' /\ RecType' /\ FetchType' /\ SetType'
    BY DEF LandNew, disk, fetch, work, passes, IInv, ArtifactTypeOK, SpentType, SaveType,
       RecType, FetchType, SetType
  <2> QED BY <2>1, <2>2, <2>3, TypePartsNext
<1>2. Assigned'
  BY PublishedKeeps DEF LandNew, disk, fetch, work, passes, Assigned, IInv
<1>3. Safe'
  <2>1. job[p].addr \in Addr
    BY DEF IInv, Assigned, LandNew
  <2> QED BY <2>1, LandKeeps DEF LandNew, fetch, passes
<1> QED BY <1>1, <1>2, <1>3 DEF IInv

LEMMA BuildFailsStep == ASSUME IInv, NEW p \in Publishers, BuildFails(p) PROVE IInv'
<1>1. ArtifactTypeOK'
  <2>1. JobType'
    BY DEF BuildFails, IdleJob, IInv, ArtifactTypeOK, JobType
  <2>2. SpentType' /\ SaveType' /\ QueueType' /\ RecType' /\ DiskType' /\ FetchType' /\ SetType'
    BY DEF BuildFails, disk, fetch, work, passes, IInv, ArtifactTypeOK, SpentType, SaveType,
       QueueType, RecType, DiskType, FetchType, SetType
  <2> QED BY <2>1, <2>2, TypePartsNext
<1>2. Assigned'
  BY DEF BuildFails, disk, fetch, work, passes, Assigned, IdleJob, ArtifactTypeOK, IInv
<1>3. Safe'
  BY ContentsKept DEF BuildFails, disk, fetch, work, passes, Contents, IInv
<1> QED BY <1>1, <1>2, <1>3 DEF IInv

LEMMA ServeStep == ASSUME IInv, NEW r \in Readers, NEW a \in Addr, Serve(r, a) PROVE IInv'
<1>1. ArtifactTypeOK'
  <2>1. FetchType'
    BY JoinKeeps DEF Serve, IInv, ArtifactTypeOK, FetchType
  <2>2. SpentType' /\ JobType' /\ SaveType' /\ QueueType' /\ RecType' /\ DiskType' /\ SetType'
    BY DEF Serve, disk, fetch, work, passes, IInv, ArtifactTypeOK, SpentType, JobType, SaveType,
       QueueType, RecType, DiskType, SetType
  <2> QED BY <2>1, <2>2, TypePartsNext
<1>2. Assigned'
  BY DEF Serve, disk, fetch, work, passes, Assigned, IInv
<1>3. Safe'
  BY JoinKeeps, NoPutKept DEF Serve, disk, fetch, work, passes, IInv
<1> QED BY <1>1, <1>2, <1>3 DEF IInv

LEMMA GiveUpStep == ASSUME IInv, NEW r \in Readers, GiveUp(r) PROVE IInv'
<1>1. ArtifactTypeOK'
  <2>1. FetchType'
    BY DEF GiveUp, IInv, ArtifactTypeOK, FetchType
  <2>2. SpentType' /\ JobType' /\ SaveType' /\ QueueType' /\ RecType' /\ DiskType' /\ SetType'
    BY DEF GiveUp, disk, fetch, work, passes, IInv, ArtifactTypeOK, SpentType, JobType,
       SaveType, QueueType, RecType, DiskType, SetType
  <2> QED BY <2>1, <2>2, TypePartsNext
<1>2. Assigned'
  BY DEF GiveUp, disk, fetch, work, passes, Assigned, IInv
<1>3. Safe'
  BY ContentsKept DEF GiveUp, disk, fetch, work, passes, Contents, IInv
<1> QED BY <1>1, <1>2, <1>3 DEF IInv

LEMMA FetchOpenStep == ASSUME IInv, NEW a \in Addr, FetchOpen(a) PROVE IInv'
<1>1. ArtifactTypeOK'
  <2>1. FetchType'
    BY FinishKeeps DEF FetchOpen, IInv, ArtifactTypeOK, FetchType
  <2>2. JobType'
    BY FinishKeeps DEF FetchOpen, IInv, ArtifactTypeOK, JobType
  <2>3. SpentType'
    BY FaultKeeps DEF FetchOpen, IInv, ArtifactTypeOK, SpentType
  <2>4. SaveType' /\ QueueType' /\ RecType' /\ DiskType' /\ SetType'
    BY DEF FetchOpen, disk, fetch, work, passes, IInv, ArtifactTypeOK, SaveType, QueueType,
       RecType, DiskType, SetType
  <2> QED BY <2>1, <2>2, <2>3, <2>4, TypePartsNext
<1>2. Assigned'
  BY FinishKeeps DEF FetchOpen, disk, fetch, work, passes, Assigned, IInv
<1>3. Safe'
  <2>1. CASE Finish(a)
    BY <2>1, FinishKeeps, NoPutKept DEF FetchOpen
  <2>2. CASE flight' = [flight EXCEPT ![a] = IF tier[a] = "short" THEN "part" ELSE "whole"]
    BY <2>2 DEF FetchOpen, IInv, Safe, Removing, Complete, ArtifactTypeOK, disk
  <2> QED BY <2>1, <2>2 DEF FetchOpen
<1> QED BY <1>1, <1>2, <1>3 DEF IInv

LEMMA FetchCutStep == ASSUME IInv, NEW a \in Addr, FetchCut(a) PROVE IInv'
<1>1. ArtifactTypeOK'
  <2>1. FetchType'
    BY FinishKeeps DEF FetchCut, IInv, ArtifactTypeOK, FetchType
  <2>2. JobType'
    BY FinishKeeps DEF FetchCut, IInv, ArtifactTypeOK, JobType
  <2>3. SpentType'
    BY FaultKeeps DEF FetchCut, IInv, ArtifactTypeOK, SpentType
  <2>4. SaveType' /\ QueueType' /\ RecType' /\ DiskType' /\ SetType'
    BY DEF FetchCut, disk, fetch, work, passes, IInv, ArtifactTypeOK, SaveType, QueueType,
       RecType, DiskType, SetType
  <2> QED BY <2>1, <2>2, <2>3, <2>4, TypePartsNext
<1>2. Assigned'
  BY FinishKeeps DEF FetchCut, disk, fetch, work, passes, Assigned, IInv
<1>3. Safe'
  BY FinishKeeps, NoPutKept DEF FetchCut, disk, fetch, work, passes, IInv
<1> QED BY <1>1, <1>2, <1>3 DEF IInv

LEMMA FetchLandStep == ASSUME IInv, NEW a \in Addr, FetchLand(a) PROVE IInv'
<1>1. ArtifactTypeOK'
  <2>1. FetchType'
    BY FinishKeeps DEF FetchLand, IInv, ArtifactTypeOK, FetchType
  <2>2. JobType'
    BY FinishKeeps DEF FetchLand, IInv, ArtifactTypeOK, JobType
  <2>3. DiskType'
    BY FinishKeeps DEF FetchLand, Land, Resident, IInv, ArtifactTypeOK, DiskType
  <2>4. SpentType' /\ SaveType' /\ QueueType' /\ RecType' /\ SetType'
    BY DEF FetchLand, disk, fetch, work, passes, IInv, ArtifactTypeOK, SpentType, SaveType,
       QueueType, RecType, SetType
  <2> QED BY <2>1, <2>2, <2>3, <2>4, TypePartsNext
<1>2. Assigned'
  BY FinishKeeps DEF FetchLand, disk, fetch, work, passes, Assigned, IInv
<1>3. Safe'
  <2>1. ~torn => flight[a] = "whole"
    BY DEF FetchLand, IInv, Safe, Complete
  <2> QED BY <2>1, FinishKeeps, LandKeeps DEF FetchLand
<1> QED BY <1>1, <1>2, <1>3 DEF IInv

LEMMA BuildBeginStep == ASSUME IInv, NEW a \in Addr, NEW over \in BOOLEAN, BuildBegin(a, over) PROVE IInv'
<1>1. ArtifactTypeOK'
  <2>1. JobType'
    BY DEF BuildBegin, Publishers, IInv, ArtifactTypeOK, JobType
  <2>2. SpentType'
    BY SpendKeeps DEF BuildBegin, IInv, ArtifactTypeOK, SpentType
  <2>3. SetType'
    BY DEF BuildBegin, passes, IInv, ArtifactTypeOK, SetType
  <2>4. SaveType' /\ QueueType' /\ RecType' /\ DiskType' /\ FetchType'
    BY DEF BuildBegin, disk, fetch, work, passes, IInv, ArtifactTypeOK, SaveType, QueueType,
       RecType, DiskType, FetchType
  <2> QED BY <2>1, <2>2, <2>3, <2>4, TypePartsNext
<1>2. Assigned'
  BY DEF BuildBegin, disk, fetch, work, passes, Assigned, ArtifactTypeOK, IInv
<1>3. Safe'
  BY ContentsKept DEF BuildBegin, disk, fetch, work, passes, Contents, IInv
<1> QED BY <1>1, <1>2, <1>3 DEF IInv

LEMMA BuildHydratesStep == ASSUME IInv, BuildHydrates PROVE IInv'
<1>1. ArtifactTypeOK'
  <2>1. JobType'
    BY DEF BuildHydrates, Publishers, IInv, ArtifactTypeOK, JobType
  <2>2. FetchType'
    BY JoinKeeps DEF BuildHydrates, Assigned, Publishers, IInv, ArtifactTypeOK, FetchType
  <2>3. SpentType' /\ SaveType' /\ QueueType' /\ RecType' /\ DiskType' /\ SetType'
    BY DEF BuildHydrates, disk, fetch, work, passes, IInv, ArtifactTypeOK, SpentType, SaveType,
       QueueType, RecType, DiskType, SetType
  <2> QED BY <2>1, <2>2, <2>3, TypePartsNext
<1>2. Assigned'
  <2>1. \A p \in Publishers :
           job'[p].pc # "idle" => job[p].pc # "idle" /\ job'[p].addr = job[p].addr
    BY DEF BuildHydrates, IInv, ArtifactTypeOK, Publishers
  <2>2. UNCHANGED <<save, rec>>
    BY DEF BuildHydrates, passes
  <2>3. \A p \in Publishers : job'[p].pc # "idle" => job'[p].addr \in Addr
    BY <2>1 DEF Assigned, IInv
  <2> QED BY <2>2, <2>3 DEF Assigned, IInv
<1>3. Safe'
  <2>1. job["queue"].addr \in Addr
    BY DEF BuildHydrates, IInv, Assigned, Publishers
  <2> QED BY <2>1, JoinKeeps, NoPutKept DEF BuildHydrates
<1> QED BY <1>1, <1>2, <1>3 DEF IInv

LEMMA BuildDecidesStep == ASSUME IInv, BuildDecides PROVE IInv'
<1>1. ArtifactTypeOK'
  <2>1. JobType'
    <3>1. PICK x \in {"durable", "build"} : job' = [job EXCEPT !["queue"].pc = x]
      BY DEF BuildDecides
    <3> QED BY <3>1 DEF Publishers, IInv, ArtifactTypeOK, JobType
  <2>2. SpentType' /\ SaveType' /\ QueueType' /\ RecType' /\ DiskType' /\ FetchType' /\ SetType'
    BY DEF BuildDecides, disk, fetch, work, passes, IInv, ArtifactTypeOK, SpentType, SaveType,
       QueueType, RecType, DiskType, FetchType, SetType
  <2> QED BY <2>1, <2>2, TypePartsNext
<1>2. Assigned'
  BY DEF BuildDecides, disk, fetch, work, passes, Assigned, ArtifactTypeOK, Publishers, IInv
<1>3. Safe'
  BY ContentsKept DEF BuildDecides, disk, fetch, work, passes, Contents, IInv
<1> QED BY <1>1, <1>2, <1>3 DEF IInv

LEMMA UploadBeginStep == ASSUME IInv, NEW a \in Addr, NEW over \in BOOLEAN, UploadBegin(a, over) PROVE IInv'
<1>1. ArtifactTypeOK'
  <2>1. JobType'
    BY DEF UploadBegin, Publishers, IInv, ArtifactTypeOK, JobType
  <2>2. SpentType'
    BY SpendKeeps DEF UploadBegin, IInv, ArtifactTypeOK, SpentType
  <2>3. SaveType' /\ QueueType' /\ RecType' /\ DiskType' /\ FetchType' /\ SetType'
    BY DEF UploadBegin, disk, fetch, work, passes, IInv, ArtifactTypeOK, SaveType, QueueType,
       RecType, DiskType, FetchType, SetType
  <2> QED BY <2>1, <2>2, <2>3, TypePartsNext
<1>2. Assigned'
  BY DEF UploadBegin, disk, fetch, work, passes, Assigned, ArtifactTypeOK, IInv
<1>3. Safe'
  BY ContentsKept DEF UploadBegin, disk, fetch, work, passes, Contents, IInv
<1> QED BY <1>1, <1>2, <1>3 DEF IInv

LEMMA PersistTakeStep == ASSUME IInv, NEW w \in PersistWorkers, PersistTake(w) PROVE IInv'
<1>4. Head(persistJobs) \in Addr
  BY DEF PersistTake, IInv, ArtifactTypeOK
<1>5. Tail(persistJobs) \in Seq(Addr) /\ Len(Tail(persistJobs)) <= PersistQueueSize
  BY HeadTailProperties, ArtifactStoreAssumption DEF PersistTake, IInv, ArtifactTypeOK
<1>1. ArtifactTypeOK'
  <2>1. QueueType'
    BY <1>5 DEF PersistTake, IInv, ArtifactTypeOK, QueueType
  <2>2. SaveType'
    BY <1>4, StartSaveKeeps, SaversAre DEF PersistTake, IInv, ArtifactTypeOK, SaveType
  <2>3. SpentType' /\ JobType' /\ RecType' /\ DiskType' /\ FetchType' /\ SetType'
    BY DEF PersistTake, disk, fetch, work, passes, IInv, ArtifactTypeOK, SpentType, JobType,
       RecType, DiskType, FetchType, SetType
  <2> QED BY <2>1, <2>2, <2>3, TypePartsNext
<1>2. Assigned'
  BY <1>4, SaversAre, StartSaveKeeps DEF PersistTake, disk, fetch, work, passes, Assigned, IInv
<1>3. Safe'
  BY <1>4, SaversAre, StartSaveKeeps, NoPutKept DEF PersistTake, disk, fetch, work, passes, IInv
<1> QED BY <1>1, <1>2, <1>3 DEF IInv

LEMMA EnsureDurableStep == ASSUME IInv, EnsureDurable PROVE IInv'
<1>4. job["queue"].addr \in Addr
  BY DEF EnsureDurable, IInv, Assigned, Publishers
<1>1. ArtifactTypeOK'
  <2>1. JobType'
    BY DEF EnsureDurable, Publishers, IInv, ArtifactTypeOK, JobType
  <2>2. SaveType'
    BY <1>4, StartSaveKeeps, SaversAre DEF EnsureDurable, IInv, ArtifactTypeOK, SaveType
  <2>3. SpentType' /\ QueueType' /\ RecType' /\ DiskType' /\ FetchType' /\ SetType'
    BY DEF EnsureDurable, disk, fetch, work, passes, IInv, ArtifactTypeOK, SpentType, QueueType,
       RecType, DiskType, FetchType, SetType
  <2> QED BY <2>1, <2>2, <2>3, TypePartsNext
<1>2. Assigned'
  <2>1. \A p \in Publishers : /\ job'[p].addr = job[p].addr
                               /\ job'[p].pc # "idle" => job[p].pc # "idle"
    BY DEF EnsureDurable, IInv, ArtifactTypeOK, Publishers
  <2> QED BY <1>4, <2>1, SaversAre, StartSaveKeeps DEF EnsureDurable, passes, Assigned, IInv
<1>3. Safe'
  BY <1>4, SaversAre, StartSaveKeeps, NoPutKept DEF EnsureDurable, disk, fetch, work, passes, IInv
<1> QED BY <1>1, <1>2, <1>3 DEF IInv

LEMMA SaveStatStep == ASSUME IInv, NEW s \in Savers, SaveStat(s) PROVE IInv'
<1>1. ArtifactTypeOK'
  <2>1. SaveType'
    BY SaveReturnsKeeps, SaveGoesOn DEF SaveStat, IInv, ArtifactTypeOK, SaveType
  <2>2. JobType'
    BY SaveReturnsKeeps DEF SaveStat, IInv, ArtifactTypeOK, JobType
  <2>3. RecType'
    BY SaveReturnsKeeps DEF SaveStat, IInv, ArtifactTypeOK, RecType
  <2>4. SetType'
    BY SaveReturnsKeeps DEF SaveStat, IInv, ArtifactTypeOK, SetType
  <2>5. SpentType'
    BY FaultKeeps DEF SaveStat, IInv, ArtifactTypeOK, SpentType
  <2>6. QueueType' /\ DiskType' /\ FetchType'
    BY DEF SaveStat, disk, fetch, work, passes, IInv, ArtifactTypeOK, QueueType, DiskType,
       FetchType
  <2> QED BY <2>1, <2>2, <2>3, <2>4, <2>5, <2>6, TypePartsNext
<1>2. Assigned'
  <2>1. CASE \E o \in {"ok", "err"} : SaveReturns(s, o)
    BY <2>1, SaveReturnsKeeps DEF SaveStat
  <2>2. CASE save' = [save EXCEPT ![s].pc = "walk"] /\ UNCHANGED <<job, rec>>
    BY <2>2, SaveGoesOn DEF SaveStat, Assigned, IInv
  <2> QED BY <2>1, <2>2 DEF SaveStat
<1>3. Safe'
  <2>1. CASE \E o \in {"ok", "err"} : SaveReturns(s, o)
    BY <2>1, SaveReturnsKeeps, NoPutKept DEF SaveStat, fetch
  <2>2. CASE save' = [save EXCEPT ![s].pc = "walk"]
    <3>1. \A t \in Savers : save'[t].pc = "put" => save[t].pc = "put" /\ save'[t] = save[t]
      BY <2>2 DEF IInv, ArtifactTypeOK
    <3> QED BY <3>1, NoPutKept DEF SaveStat, fetch
  <2> QED BY <2>1, <2>2 DEF SaveStat
<1> QED BY <1>1, <1>2, <1>3 DEF IInv

LEMMA SaveWalkStep == ASSUME IInv, NEW s \in Savers, SaveWalk(s) PROVE IInv'
<1>4. save[s].addr \in Addr /\ dir[save[s].addr] \in {"none", "part", "whole"}
  BY DEF SaveWalk, IInv, Assigned, ArtifactTypeOK
<1>1. ArtifactTypeOK'
  <2>1. SaveType'
    BY SaveReturnsKeeps, SaveGoesOn, <1>4 DEF SaveWalk, IInv, ArtifactTypeOK, SaveType
  <2>2. JobType'
    BY SaveReturnsKeeps DEF SaveWalk, IInv, ArtifactTypeOK, JobType
  <2>3. RecType'
    BY SaveReturnsKeeps DEF SaveWalk, IInv, ArtifactTypeOK, RecType
  <2>4. SetType'
    BY SaveReturnsKeeps DEF SaveWalk, IInv, ArtifactTypeOK, SetType
  <2>5. DiskType'
    BY DEF SaveWalk, disk, Resident, IInv, ArtifactTypeOK, DiskType
  <2>6. SpentType' /\ QueueType' /\ FetchType'
    BY DEF SaveWalk, disk, fetch, work, passes, IInv, ArtifactTypeOK, SpentType, QueueType,
       FetchType
  <2> QED BY <2>1, <2>2, <2>3, <2>4, <2>5, <2>6, TypePartsNext
<1>2. Assigned'
  <2>1. CASE SaveReturns(s, "gone")
    BY <2>1, SaveReturnsKeeps DEF SaveWalk
  <2>2. CASE /\ Resident(save[s].addr) /\ UNCHANGED <<job, rec>>
             /\ save' = [save EXCEPT ![s].pc = "put", ![s].got = dir[save[s].addr]]
    BY <2>2, <1>4, SaveGoesOn DEF SaveWalk, Assigned, IInv
  <2> QED BY <2>1, <2>2 DEF SaveWalk
<1>3. Safe'
  <2>1. CASE SaveReturns(s, "gone") /\ UNCHANGED torn
    BY <2>1, SaveReturnsKeeps, NoPutKept DEF SaveWalk, fetch
  <2>2. CASE /\ Resident(save[s].addr) /\ torn' = (torn \/ removal[save[s].addr] # "none")
             /\ save' = [save EXCEPT ![s].pc = "put", ![s].got = dir[save[s].addr]]
    <3>1. Removing'
      BY DEF SaveWalk, IInv, Safe, Removing, disk
    <3>2. ~torn' => dir[save[s].addr] = "whole"
      <4>1. ~torn' => ~torn /\ removal[save[s].addr] = "none"
        BY <2>2 DEF IInv, ArtifactTypeOK
      <4>2. dir[save[s].addr] # "none"
        BY <2>2 DEF Resident
      <4> QED BY <1>4, <4>1, <4>2 DEF IInv, Safe, Complete
    <3>3. \A t \in Savers : \/ save'[t] = save[t]
                            \/ t = s /\ save'[t].got = dir[save[s].addr]
      BY <2>2 DEF IInv, ArtifactTypeOK
    <3>4. torn => torn'
      BY <2>2
    <3>5. Complete'
      BY <1>4, <2>2, <3>2, <3>3, <3>4 DEF SaveWalk, IInv, Safe, Complete, Resident, disk, fetch
    <3> QED BY <3>1, <3>5 DEF Safe
  <2> QED BY <2>1, <2>2 DEF SaveWalk
<1> QED BY <1>1, <1>2, <1>3 DEF IInv

LEMMA SavePutStep == ASSUME IInv, NEW s \in Savers, SavePut(s) PROVE IInv'
<1>1. ArtifactTypeOK'
  <2>1. SaveType' /\ JobType' /\ RecType'
    BY SaveReturnsKeeps DEF SavePut, IInv, ArtifactTypeOK, SaveType, JobType, RecType
  <2>2. SetType'
    BY SaveReturnsKeeps DEF SavePut, IInv, ArtifactTypeOK, SetType
  <2>3. SpentType'
    BY FaultKeeps DEF SavePut, IInv, ArtifactTypeOK, SpentType
  <2>4. DiskType'
    BY DEF SavePut, disk, IInv, ArtifactTypeOK, DiskType
  <2>5. QueueType' /\ FetchType'
    BY DEF SavePut, disk, fetch, work, passes, IInv, ArtifactTypeOK, QueueType, FetchType
  <2> QED BY <2>1, <2>2, <2>3, <2>4, <2>5, TypePartsNext
<1>2. Assigned'
  BY SaveReturnsKeeps DEF SavePut, disk, fetch, work, passes, Assigned, IInv
<1>3. Safe'
  <2>1. CASE SaveReturns(s, "err") /\ UNCHANGED tier
    BY <2>1, SaveReturnsKeeps, NoPutKept DEF SavePut, fetch
  <2>2. CASE /\ SaveReturns(s, "ok")
             /\ tier' = [tier EXCEPT ![save[s].addr] = IF save[s].got = "whole" THEN "good" ELSE "short"]
    <3>1. \A t \in Savers : save'[t].pc = "put" => save[t].pc = "put" /\ save'[t] = save[t]
      BY <2>2, SaveReturnsKeeps DEF SavePut
    <3>2. ~torn => save[s].got = "whole"
      BY DEF SavePut, IInv, Safe, Complete
    <3>3. ~torn => \A b \in Addr : tier'[b] # "short"
      BY <2>2, <3>2 DEF IInv, ArtifactTypeOK, Safe, Complete
    <3> QED BY <3>1, <3>3 DEF SavePut, IInv, Safe, Removing, Complete, disk, fetch
  <2> QED BY <2>1, <2>2 DEF SavePut
<1> QED BY <1>1, <1>2, <1>3 DEF IInv

LEMMA RecBeginStep == ASSUME IInv, RecBegin PROVE IInv'
<1>1. ArtifactTypeOK'
  <2>1. RecType'
    BY DEF RecBegin, IInv, ArtifactTypeOK, RecType
  <2>2. SpentType' /\ JobType' /\ SaveType' /\ QueueType' /\ DiskType' /\ FetchType' /\ SetType'
    BY DEF RecBegin, disk, fetch, work, passes, IInv, ArtifactTypeOK, SpentType, JobType,
       SaveType, QueueType, DiskType, FetchType, SetType
  <2> QED BY <2>1, <2>2, TypePartsNext
<1>2. Assigned'
  BY DEF RecBegin, disk, fetch, work, passes, Assigned, ArtifactTypeOK, IInv
<1>3. Safe'
  BY ContentsKept DEF RecBegin, disk, fetch, work, passes, Contents, IInv
<1> QED BY <1>1, <1>2, <1>3 DEF IInv

LEMMA RecStatStep == ASSUME IInv, NEW a \in Addr, RecStat(a) PROVE IInv'
<1>4. rec' \in [todo : SUBSET Addr, at : Addr \cup {NoAddr},
               obj : {"none", "good", "bare", "short"}, pc : {"idle", "look", "drop", "save"}]
      /\ (rec'.pc # "idle" => rec'.at \in Addr)
  <2>1. CASE rec' = [rec EXCEPT !.at = a, !.obj = tier[a], !.pc = "look"]
    <3>1. tier[a] \in {"none", "good", "bare", "short"}
      BY DEF IInv, ArtifactTypeOK
    <3> QED BY <2>1, <3>1 DEF IInv, ArtifactTypeOK
  <2>2. CASE rec' = [rec EXCEPT !.todo = @ \ {a}]
    BY <2>2 DEF RecStat, IInv, ArtifactTypeOK
  <2> QED BY <2>1, <2>2 DEF RecStat
<1>1. ArtifactTypeOK'
  <2>1. RecType'
    BY <1>4 DEF RecStat, IInv, ArtifactTypeOK, RecType
  <2>2. SpentType'
    BY FaultKeeps DEF RecStat, IInv, ArtifactTypeOK, SpentType
  <2>3. JobType' /\ SaveType' /\ QueueType' /\ DiskType' /\ FetchType' /\ SetType'
    BY DEF RecStat, disk, fetch, work, passes, IInv, ArtifactTypeOK, JobType, SaveType,
       QueueType, DiskType, FetchType, SetType
  <2> QED BY <2>1, <2>2, <2>3, TypePartsNext
<1>2. Assigned'
  BY <1>4 DEF RecStat, disk, fetch, work, passes, Assigned, IInv
<1>3. Safe'
  BY ContentsKept DEF RecStat, disk, fetch, work, passes, Contents, IInv
<1> QED BY <1>1, <1>2, <1>3 DEF IInv

LEMMA RecLookStep == ASSUME IInv, RecLook PROVE IInv'
<1>4. rec.at \in Addr
  BY DEF RecLook, IInv, Assigned
<1>5. /\ rec' \in [todo : SUBSET Addr, at : Addr \cup {NoAddr},
                   obj : {"none", "good", "bare", "short"}, pc : {"idle", "look", "drop", "save"}]
      /\ rec'.pc # "idle" => rec'.at = rec.at
  <2>1. CASE rec' = NextRef
    BY <2>1, NextRefKeeps
  <2>2. CASE \E x \in {"drop", "save"} : rec' = [rec EXCEPT !.pc = x]
    BY <2>2 DEF IInv, ArtifactTypeOK
  <2> QED BY <2>1, <2>2 DEF RecLook
<1>1. ArtifactTypeOK'
  <2>1. RecType'
    BY <1>5 DEF RecLook, IInv, ArtifactTypeOK, RecType
  <2>2. SaveType'
    BY <1>4, StartSaveKeeps, SaversAre DEF RecLook, IInv, ArtifactTypeOK, SaveType
  <2>3. SpentType' /\ JobType' /\ QueueType' /\ DiskType' /\ FetchType' /\ SetType'
    BY DEF RecLook, disk, fetch, work, passes, IInv, ArtifactTypeOK, SpentType, JobType,
       QueueType, DiskType, FetchType, SetType
  <2> QED BY <2>1, <2>2, <2>3, TypePartsNext
<1>2. Assigned'
  BY <1>4, <1>5, SaversAre, StartSaveKeeps DEF RecLook, disk, fetch, work, passes, Assigned, IInv
<1>3. Safe'
  <2>1. \A t \in Savers : save'[t].pc = "put" => save[t].pc = "put" /\ save'[t] = save[t]
    BY <1>4, StartSaveKeeps, SaversAre DEF RecLook, IInv, ArtifactTypeOK
  <2> QED BY <2>1, NoPutKept DEF RecLook, fetch
<1> QED BY <1>1, <1>2, <1>3 DEF IInv

LEMMA RecDropStep == ASSUME IInv, RecDrop PROVE IInv'
<1>4. rec.at \in Addr
  BY DEF RecDrop, IInv, Assigned
<1>5. /\ rec' \in [todo : SUBSET Addr, at : Addr \cup {NoAddr},
                   obj : {"none", "good", "bare", "short"}, pc : {"idle", "look", "drop", "save"}]
      /\ rec'.pc # "idle" => rec'.at = rec.at
  <2>1. CASE rec' = NextRef
    BY <2>1, NextRefKeeps
  <2>2. CASE \E x \in {"drop", "save"} : rec' = [rec EXCEPT !.pc = x]
    BY <2>2 DEF IInv, ArtifactTypeOK
  <2> QED BY <2>1, <2>2 DEF RecDrop
<1>1. ArtifactTypeOK'
  <2>1. RecType'
    BY <1>5 DEF RecDrop, IInv, ArtifactTypeOK, RecType
  <2>2. SaveType'
    BY <1>4, StartSaveKeeps, SaversAre DEF RecDrop, IInv, ArtifactTypeOK, SaveType
  <2>3. SpentType'
    BY FaultKeeps DEF RecDrop, IInv, ArtifactTypeOK, SpentType
  <2>4. DiskType'
    BY DEF RecDrop, disk, IInv, ArtifactTypeOK, DiskType
  <2>5. JobType' /\ QueueType' /\ FetchType' /\ SetType'
    BY DEF RecDrop, disk, fetch, work, passes, IInv, ArtifactTypeOK, JobType, QueueType,
       FetchType, SetType
  <2> QED BY <2>1, <2>2, <2>3, <2>4, <2>5, TypePartsNext
<1>2. Assigned'
  BY <1>4, <1>5, SaversAre, StartSaveKeeps DEF RecDrop, disk, fetch, work, passes, Assigned, IInv
<1>3. Safe'
  <2>1. \A t \in Savers : save'[t].pc = "put" => save[t].pc = "put" /\ save'[t] = save[t]
    BY <1>4, StartSaveKeeps, SaversAre DEF RecDrop, IInv, ArtifactTypeOK
  <2>2. \A b \in Addr : tier'[b] = "short" => tier[b] = "short"
    BY DEF RecDrop, IInv, ArtifactTypeOK
  <2> QED BY <2>1, <2>2 DEF RecDrop, IInv, Safe, Removing, Complete, disk, fetch
<1> QED BY <1>1, <1>2, <1>3 DEF IInv

LEMMA SweepBeginStep == ASSUME IInv, SweepBegin PROVE IInv'
<1>1. ArtifactTypeOK'
  <2>1. SetType'
    BY DEF SweepBegin, work, IInv, ArtifactTypeOK, SetType
  <2>2. SpentType'
    BY SpendKeeps DEF SweepBegin, IInv, ArtifactTypeOK, SpentType
  <2>3. JobType' /\ SaveType' /\ QueueType' /\ RecType' /\ DiskType' /\ FetchType'
    BY DEF SweepBegin, disk, fetch, work, passes, IInv, ArtifactTypeOK, JobType, SaveType,
       QueueType, RecType, DiskType, FetchType
  <2> QED BY <2>1, <2>2, <2>3, TypePartsNext
<1>2. Assigned'
  BY DEF SweepBegin, disk, fetch, work, passes, Assigned, IInv
<1>3. Safe'
  BY ContentsKept DEF SweepBegin, disk, fetch, work, passes, Contents, IInv
<1> QED BY <1>1, <1>2, <1>3 DEF IInv

LEMMA SweepOneStep == ASSUME IInv, NEW a \in Addr, SweepOne(a) PROVE IInv'
<1>1. ArtifactTypeOK'
  <2>1. SetType'
    BY DEF SweepOne, work, IInv, ArtifactTypeOK, SetType
  <2>2. DiskType'
    BY DEF SweepOne, disk, IInv, ArtifactTypeOK, DiskType
  <2>3. SpentType' /\ JobType' /\ SaveType' /\ QueueType' /\ RecType' /\ FetchType'
    BY DEF SweepOne, disk, fetch, work, passes, IInv, ArtifactTypeOK, SpentType, JobType,
       SaveType, QueueType, RecType, FetchType
  <2> QED BY <2>1, <2>2, <2>3, TypePartsNext
<1>2. Assigned'
  BY DEF SweepOne, disk, fetch, work, passes, Assigned, IInv
<1>3. Safe'
  <2>1. UNCHANGED <<tier, flight, save, torn>>
    BY DEF SweepOne, fetch
  <2>2. CASE UNCHANGED disk
    BY <2>1, <2>2, ContentsKept DEF Contents, IInv
  <2>3. CASE dir' = [dir EXCEPT ![a] = "part"] /\ removal' = [removal EXCEPT ![a] = "sweep"]
    BY <2>1, <2>3, RemovalKeepsSafe
  <2> QED BY <2>2, <2>3 DEF SweepOne
<1> QED BY <1>1, <1>2, <1>3 DEF IInv

LEMMA SweepSkipsStep == ASSUME IInv, NEW a \in Addr, SweepSkips(a) PROVE IInv'
<1>1. ArtifactTypeOK'
  <2>1. SetType'
    BY DEF SweepSkips, work, IInv, ArtifactTypeOK, SetType
  <2>2. SpentType' /\ JobType' /\ SaveType' /\ QueueType' /\ RecType' /\ DiskType' /\ FetchType'
    BY DEF SweepSkips, disk, fetch, work, passes, IInv, ArtifactTypeOK, SpentType, JobType,
       SaveType, QueueType, RecType, DiskType, FetchType
  <2> QED BY <2>1, <2>2, TypePartsNext
<1>2. Assigned'
  BY DEF SweepSkips, disk, fetch, work, passes, Assigned, IInv
<1>3. Safe'
  BY ContentsKept DEF SweepSkips, disk, fetch, work, passes, Contents, IInv
<1> QED BY <1>1, <1>2, <1>3 DEF IInv

LEMMA EvictDeployStep == ASSUME IInv, NEW a \in Addr, EvictDeploy(a) PROVE IInv'
<1>1. ArtifactTypeOK'
  <2>1. SetType'
    BY DEF EvictDeploy, passes, IInv, ArtifactTypeOK, SetType
  <2>2. SpentType' /\ JobType' /\ SaveType' /\ QueueType' /\ RecType' /\ DiskType' /\ FetchType'
    BY DEF EvictDeploy, disk, fetch, work, passes, IInv, ArtifactTypeOK, SpentType, JobType,
       SaveType, QueueType, RecType, DiskType, FetchType
  <2> QED BY <2>1, <2>2, TypePartsNext
<1>2. Assigned'
  BY DEF EvictDeploy, disk, fetch, work, passes, Assigned, IInv
<1>3. Safe'
  BY ContentsKept DEF EvictDeploy, disk, fetch, work, passes, Contents, IInv
<1> QED BY <1>1, <1>2, <1>3 DEF IInv

LEMMA CollectStep == ASSUME IInv, NEW a \in Addr, Collect(a) PROVE IInv'
<1>1. ArtifactTypeOK'
  <2>1. DiskType'
    BY DEF Collect, IInv, ArtifactTypeOK, DiskType
  <2>2. SpentType' /\ JobType' /\ SaveType' /\ QueueType' /\ RecType' /\ FetchType' /\ SetType'
    BY DEF Collect, disk, fetch, work, passes, IInv, ArtifactTypeOK, SpentType, JobType,
       SaveType, QueueType, RecType, FetchType, SetType
  <2> QED BY <2>1, <2>2, TypePartsNext
<1>2. Assigned'
  BY DEF Collect, disk, fetch, work, passes, Assigned, IInv
<1>3. Safe'
  <2>1. /\ dir' = [dir EXCEPT ![a] = "part"] /\ removal' = [removal EXCEPT ![a] = "gc"]
        /\ UNCHANGED <<tier, flight, save, torn>>
    BY DEF Collect, fetch
  <2> QED BY <2>1, RemovalKeepsSafe
<1> QED BY <1>1, <1>2, <1>3 DEF IInv

LEMMA RemovalEndsStep == ASSUME IInv, NEW a \in Addr, RemovalEnds(a) PROVE IInv'
<1>1. ArtifactTypeOK'
  <2>1. DiskType'
    BY DEF RemovalEnds, IInv, ArtifactTypeOK, DiskType
  <2>2. SpentType' /\ JobType' /\ SaveType' /\ QueueType' /\ RecType' /\ FetchType' /\ SetType'
    BY DEF RemovalEnds, disk, fetch, work, passes, IInv, ArtifactTypeOK, SpentType, JobType,
       SaveType, QueueType, RecType, FetchType, SetType
  <2> QED BY <2>1, <2>2, TypePartsNext
<1>2. Assigned'
  BY DEF RemovalEnds, disk, fetch, work, passes, Assigned, IInv
<1>3. Safe'
  <2>1. /\ dir' = [dir EXCEPT ![a] = "none"] /\ removal' = [removal EXCEPT ![a] = "none"]
        /\ UNCHANGED <<tier, flight, save, torn>>
    BY DEF RemovalEnds, fetch
  <2> QED BY <2>1, RemovalKeepsSafe
<1> QED BY <1>1, <1>2, <1>3 DEF IInv

LEMMA KillStep == ASSUME IInv, Kill PROVE IInv'
<1>1. ArtifactTypeOK'
  <2>1. SpentType'
    BY FaultKeeps DEF Kill, IInv, ArtifactTypeOK, SpentType
  <2>2. JobType'
    BY DEF Kill, IdleJob, IInv, ArtifactTypeOK, JobType
  <2>3. SaveType'
    BY DEF Kill, IdleSave, IInv, ArtifactTypeOK, SaveType
  <2>4. QueueType'
    BY ArtifactStoreAssumption DEF Kill, IInv, ArtifactTypeOK, QueueType
  <2>5. RecType'
    BY DEF Kill, IdleRec, IInv, ArtifactTypeOK, RecType
  <2>6. DiskType'
    BY DEF Kill, IInv, ArtifactTypeOK, DiskType
  <2>7. FetchType' /\ SetType'
    BY DEF Kill, IInv, ArtifactTypeOK, FetchType, SetType
  <2> QED BY <2>1, <2>2, <2>3, <2>4, <2>5, <2>6, <2>7, TypePartsNext
<1>2. Assigned'
  BY DEF Kill, disk, fetch, work, passes, Assigned, IdleJob, IdleSave, IdleRec, IInv
<1>3. Safe'
  <2>1. Removing'
    BY DEF Kill, Removing, IInv, ArtifactTypeOK
  <2>2. Complete'
    BY DEF Kill, IInv, Safe, Complete, ArtifactTypeOK, IdleSave
  <2> QED BY <2>1, <2>2 DEF Safe
<1> QED BY <1>1, <1>2, <1>3 DEF IInv

LEMMA Invariance == ArtifactSpec => []IInv
<1>1. ASSUME IInv, [ArtifactNext]_artifactVars PROVE IInv'
  <2>1. CASE ArtifactNext
    BY <1>1, <2>1,
       PublishStep, LandNewStep, BuildFailsStep, ServeStep, GiveUpStep,
       FetchOpenStep, FetchCutStep, FetchLandStep, BuildBeginStep,
       BuildHydratesStep, BuildDecidesStep, UploadBeginStep, PersistTakeStep,
       EnsureDurableStep, SaveStatStep, SaveWalkStep, SavePutStep,
       RecBeginStep, RecStatStep, RecLookStep, RecDropStep, SweepBeginStep,
       SweepOneStep, SweepSkipsStep, EvictDeployStep, CollectStep,
       RemovalEndsStep, KillStep
       DEF ArtifactNext
  <2>2. CASE UNCHANGED artifactVars
    <3>1. ArtifactTypeOK'
      BY <1>1, <2>2 DEF IInv, ArtifactTypeOK, artifactVars, disk, fetch, work, passes
    <3>2. Assigned' /\ Safe'
      BY <1>1, <2>2 DEF IInv, Assigned, Safe, Removing, Complete, artifactVars, disk, fetch,
         work, passes
    <3> QED BY <3>1, <3>2 DEF IInv
  <2> QED BY <1>1, <2>1, <2>2
<1> QED BY ArtifactInitInv, <1>1, PTL DEF ArtifactSpec

-------------------------------------------------------------------------------

\* Directories, objects, builds, uploads and passes keep their types.
THEOREM ArtifactTypes == ArtifactSpec => []ArtifactTypeOK
<1>1. IInv => ArtifactTypeOK
  BY DEF IInv
<1> QED BY Invariance, <1>1, PTL

\* store.go:5 "the directory exists always means the content is complete", and
\* the same of the durable tier: no order of builds, hydrations, uploads, sweeps,
\* failures and kills publishes part of an artifact.
THEOREM NothingPartial == ArtifactSpec => []WholeUnlessTorn
<1>1. IInv => WholeUnlessTorn
  BY DEF IInv, Safe, Complete, WholeUnlessTorn
<1> QED BY Invariance, <1>1, PTL

-------------------------------------------------------------------------------
(* What a step may make ready *)

Durable(a) == tier[a] # "none" \/ tier'[a] # "none" \/ dir[a] # "whole"

\* A saver finds the object, puts it, or finds the files gone.
LEMMA SaversPromise ==
    ASSUME IInv, NEW s \in Savers, SaveStat(s) \/ SaveWalk(s) \/ SavePut(s), NEW a \in live' \ live
    PROVE  Durable(a)
<1>1. PICK o \in {"ok", "err", "gone"} : SaveReturns(s, o)
  BY DEF SaveStat, SaveWalk, SavePut
<1>2. a = save[s].addr /\ o # "err" /\ a \in Addr
  BY <1>1 DEF SaveReturns, SaveStat, SaveWalk, SavePut, IInv, Assigned
<1>3. CASE SaveStat(s)
  <2>1. CASE tier[a] # "none"
    BY <2>1 DEF Durable
  <2>2. CASE tier[a] = "none"
    BY <1>2, <1>3, <2>2 DEF SaveStat, SaveReturns
  <2> QED BY <2>1, <2>2
<1>4. CASE SaveWalk(s)
  <2>1. dir[a] = "none" \/ removal[a] # "none"
    BY <1>2, <1>4 DEF SaveWalk
  <2>2. dir[a] # "whole"
    BY <1>2, <2>1 DEF IInv, Safe, Removing
  <2> QED BY <2>2 DEF Durable
<1>5. CASE SavePut(s)
  <2>1. CASE tier' = [tier EXCEPT ![save[s].addr] = IF save[s].got = "whole" THEN "good" ELSE "short"]
    <3>1. tier'[a] # "none"
      BY <1>2, <2>1 DEF IInv, ArtifactTypeOK
    <3> QED BY <3>1 DEF Durable
  <2>2. CASE SaveReturns(s, "err")
    BY <1>2, <2>2 DEF SaveReturns
  <2> QED BY <1>5, <2>1, <2>2 DEF SavePut
<1> QED BY <1>3, <1>4, <1>5

\* artifacttier.go:137: a build turns its deploy ready only once the artifact is
\* in the durable tier, or its files are gone from under the upload.
THEOREM DurableBeforeReady == ArtifactSpec => ReadyIsDurable
<1>1. ASSUME IInv, ArtifactNext, NEW a \in live' \ live PROVE Durable(a)
  <2>1. CASE \E s \in Savers : SaveStat(s) \/ SaveWalk(s) \/ SavePut(s)
    BY <1>1, <2>1, SaversPromise
  <2>2. CASE \E p \in Publishers : Publish(p) \/ LandNew(p) \/ BuildFails(p)
    BY <1>1, <2>2 DEF Publish, LandNew, BuildFails
  <2>3. CASE \E r \in Readers : GiveUp(r) \/ \E b \in Addr : Serve(r, b)
    BY <1>1, <2>3 DEF GiveUp, Serve, work
  <2>4. CASE \E b \in Addr : FetchOpen(b) \/ FetchCut(b) \/ FetchLand(b)
    BY <1>1, <2>4 DEF FetchOpen, FetchCut, FetchLand
  <2>5. CASE \E b \in Addr, over \in BOOLEAN : BuildBegin(b, over) \/ UploadBegin(b, over)
    BY <1>1, <2>5 DEF BuildBegin, UploadBegin
  <2>6. CASE BuildHydrates \/ BuildDecides \/ EnsureDurable \/ \E w \in PersistWorkers : PersistTake(w)
    BY <1>1, <2>6 DEF BuildHydrates, BuildDecides, EnsureDurable, PersistTake
  <2>7. CASE RecBegin \/ (\E b \in Addr : RecStat(b)) \/ RecLook \/ RecDrop
    BY <1>1, <2>7 DEF RecBegin, RecStat, RecLook, RecDrop, work
  <2>8. CASE SweepBegin \/ Kill \/ \E b \in Addr : SweepOne(b) \/ SweepSkips(b) \/ EvictDeploy(b)
                                                  \/ Collect(b) \/ RemovalEnds(b)
    BY <1>1, <2>8 DEF SweepBegin, Kill, SweepOne, SweepSkips, EvictDeploy, Collect, RemovalEnds,
       work
  <2> QED BY <1>1, <2>1, <2>2, <2>3, <2>4, <2>5, <2>6, <2>7, <2>8 DEF ArtifactNext
<1>2. ASSUME IInv, [ArtifactNext]_artifactVars
      PROVE  [\A a \in live' \ live :
                 tier[a] # "none" \/ tier'[a] # "none" \/ dir[a] # "whole"]_artifactVars
  BY <1>1, <1>2 DEF Durable
<1> QED BY Invariance, <1>2, PTL DEF ArtifactSpec, ReadyIsDurable

-------------------------------------------------------------------------------
(* Directories and tier are ArtifactLife *)

\* What ArtifactLife sees of an address.
Local(a)  == IF removal[a] # "none" THEN "going" ELSE dir[a]
Object(a) == CASE tier[a] = "none" -> "none" [] tier[a] = "short" -> "part" [] OTHER -> "whole"

LEMMA StoreUnseen == ASSUME UNCHANGED <<dir, removal, tier, live, torn>> PROVE UNCHANGED AL!vars
BY DEF AL!vars

\* What it sees of a step that changes one directory, or one object.
LEMMA LocalChanges ==
    ASSUME NEW a \in Addr, NEW c, Local(a)' = c,
           \A b \in Addr : b # a => dir'[b] = dir[b] /\ removal'[b] = removal[b]
    PROVE  [b \in Addr |-> Local(b)'] = [[b \in Addr |-> Local(b)] EXCEPT ![a] = c]
<1>1. \A b \in Addr : Local(b)' = IF b = a THEN c ELSE Local(b)
  BY DEF Local
<1> QED BY <1>1

LEMMA ObjectChanges ==
    ASSUME NEW a \in Addr, NEW c, Object(a)' = c, \A b \in Addr : b # a => tier'[b] = tier[b]
    PROVE  [b \in Addr |-> Object(b)'] = [[b \in Addr |-> Object(b)] EXCEPT ![a] = c]
<1>1. \A b \in Addr : Object(b)' = IF b = a THEN c ELSE Object(b)
  BY DEF Object
<1> QED BY <1>1

LEMMA AddressMoves ==
    ASSUME NEW a \in Addr,
           AL!Appear(a) \/ AL!Displace(a) \/ AL!Remove(a) \/ AL!Removed(a)
             \/ AL!Store(a) \/ AL!Discard(a) \/ AL!Promise(a) \/ AL!Retract(a)
    PROVE  AL!Next
BY DEF AL!Next

\* A directory that lands appears whole, or is not needed.
LEMMA LandAppears ==
    ASSUME IInv, NEW a \in Addr, NEW c \in {"part", "whole"}, Land(a, c), ~torn => c = "whole",
           UNCHANGED <<removal, tier, live, torn>>
    PROVE  [AL!Next]_(AL!vars)
<1>1. CASE dir' = dir
  BY <1>1, StoreUnseen
<1>2. CASE dir' = [dir EXCEPT ![a] = c] /\ dir[a] = "none"
  <2>1. removal[a] = "none"
    BY <1>2 DEF IInv, Safe, Removing
  <2>2. dir'[a] = c /\ \A b \in Addr : b # a => dir'[b] = dir[b]
    BY <1>2 DEF IInv, ArtifactTypeOK
  <2>3. Local(a)' = c /\ Local(a) = "none"
    BY <1>2, <2>1, <2>2 DEF Local
  <2>4. [b \in Addr |-> Local(b)'] = [[b \in Addr |-> Local(b)] EXCEPT ![a] = c]
    BY <2>2, <2>3, LocalChanges
  <2>5. AL!Appear(a)
    BY <2>3, <2>4 DEF AL!Appear, AL!Copies, Local
  <2> QED BY <2>5, AddressMoves
<1> QED BY <1>1, <1>2 DEF Land, Resident

\* What is there and not being removed is one of the copies.
LEMMA CopyThere ==
    ASSUME IInv, NEW a \in Addr, Resident(a), removal[a] = "none"
    PROVE  Local(a) \in AL!Copies /\ Local(a) = dir[a]
BY DEF Resident, Local, AL!Copies, IInv, ArtifactTypeOK, Safe, Complete

\* A removal begins.
LEMMA RemovalBegins ==
    ASSUME IInv, NEW a \in Addr, Resident(a), removal[a] = "none", NEW who \in {"sweep", "gc"},
           dir' = [dir EXCEPT ![a] = "part"], removal' = [removal EXCEPT ![a] = who],
           UNCHANGED <<tier, live, torn>>
    PROVE  AL!Next
<1>1. removal'[a] = who /\ \A b \in Addr : b # a => dir'[b] = dir[b] /\ removal'[b] = removal[b]
  BY DEF IInv, ArtifactTypeOK
<1>2. [b \in Addr |-> Local(b)'] = [[b \in Addr |-> Local(b)] EXCEPT ![a] = "going"]
  BY <1>1, LocalChanges DEF Local
<1>3. AL!Remove(a)
  BY <1>2, CopyThere DEF AL!Remove, Local
<1> QED BY <1>3, AddressMoves

\* Builds and uploads displace a directory, or land one where there is none.
LEMMA PublisherLives ==
    ASSUME IInv, NEW p \in Publishers, Publish(p) \/ LandNew(p) \/ BuildFails(p)
    PROVE  [AL!Next]_(AL!vars)
<1>1. PICK a \in Addr : a = job[p].addr
  BY DEF Publish, LandNew, BuildFails, IInv, Assigned
<1>2. UNCHANGED <<removal, tier, live, torn>>
  BY DEF Publish, LandNew, BuildFails, disk
<1>3. CASE Land(a, "whole")
  BY <1>2, <1>3, LandAppears
<1>4. CASE Resident(a) /\ removal[a] = "none" /\ dir' = [dir EXCEPT ![a] = "none"]
  <2>1. dir'[a] = "none" /\ \A b \in Addr : b # a => dir'[b] = dir[b]
    BY <1>4 DEF IInv, ArtifactTypeOK
  <2>2. Local(a)' = "none"
    BY <1>2, <1>4, <2>1 DEF Local
  <2>3. [b \in Addr |-> Local(b)'] = [[b \in Addr |-> Local(b)] EXCEPT ![a] = "none"]
    BY <1>2, <2>1, <2>2, LocalChanges
  <2>4. AL!Displace(a)
    BY <1>2, <1>4, <2>3, CopyThere DEF AL!Displace, Local
  <2> QED BY <2>4, AddressMoves
<1>5. CASE BuildFails(p)
  BY <1>2, <1>5, StoreUnseen DEF BuildFails, disk
<1> QED BY <1>1, <1>3, <1>4, <1>5 DEF Publish, LandNew

\* A fetch publishes what it has extracted, which is whole unless torn.
LEMMA FetchLives ==
    ASSUME IInv, NEW a \in Addr, FetchOpen(a) \/ FetchCut(a) \/ FetchLand(a)
    PROVE  [AL!Next]_(AL!vars)
<1>1. UNCHANGED <<removal, tier, live, torn>>
  BY DEF FetchOpen, FetchCut, FetchLand, disk
<1>2. CASE FetchLand(a)
  <2>1. PICK c \in {"part", "whole"} : c = flight[a] /\ Land(a, c)
    BY <1>2 DEF FetchLand
  <2>2. ~torn => c = "whole"
    BY <2>1 DEF IInv, Safe, Complete
  <2> QED BY <1>1, <2>1, <2>2, LandAppears
<1>3. CASE FetchOpen(a) \/ FetchCut(a)
  BY <1>1, <1>3, StoreUnseen DEF FetchOpen, FetchCut, disk
<1> QED BY <1>2, <1>3

\* A deploy that a saver makes ready is that of its address.
LEMMA SaverPromises ==
    ASSUME NEW s \in Savers, NEW a \in Addr, a = save[s].addr, NEW o, SaveReturns(s, o),
           o # "err" => Object(a) # "none" \/ Local(a) \in {"none", "going"},
           UNCHANGED <<dir, removal, tier, torn>>
    PROVE  [AL!Next]_(AL!vars)
<1>1. CASE live' = live
  BY <1>1, StoreUnseen
<1>2. CASE live' = live \cup {a} /\ o # "err"
  <2>1. AL!Promise(a)
    BY <1>2 DEF AL!Promise, Object, Local
  <2> QED BY <2>1, AddressMoves
<1> QED BY <1>1, <1>2 DEF SaveReturns

\* A saver stores an object, finds one or the files gone, or walks into a removal.
LEMMA SaverLives ==
    ASSUME IInv, NEW s \in Savers, SaveStat(s) \/ SaveWalk(s) \/ SavePut(s)
    PROVE  [AL!Next]_(AL!vars)
<1>1. PICK a \in Addr : a = save[s].addr
  BY DEF SaveStat, SaveWalk, SavePut, IInv, Assigned
<1>2. UNCHANGED <<dir, removal>>
  BY DEF SaveStat, SaveWalk, SavePut, disk
<1>3. CASE SaveStat(s)
  <2>1. UNCHANGED <<tier, torn>>
    BY <1>3 DEF SaveStat
  <2>2. CASE tier[a] # "none" /\ SaveReturns(s, "ok")
    <3>1. Object(a) # "none"
      BY <2>2 DEF Object
    <3> QED BY <1>1, <1>2, <2>1, <2>2, <3>1, SaverPromises
  <2>3. CASE SaveReturns(s, "err")
    BY <1>1, <1>2, <2>1, <2>3, SaverPromises
  <2>4. CASE live' = live
    BY <1>2, <2>1, <2>4, StoreUnseen
  <2> QED BY <1>1, <1>3, <2>2, <2>3, <2>4 DEF SaveStat
<1>4. CASE SaveWalk(s)
  <2>1. UNCHANGED tier
    BY <1>4 DEF SaveWalk
  <2>2. CASE (dir[a] = "none" \/ removal[a] # "none") /\ SaveReturns(s, "gone") /\ UNCHANGED torn
    <3>1. Local(a) \in {"none", "going"}
      BY <2>2 DEF Local
    <3> QED BY <1>1, <1>2, <2>1, <2>2, <3>1, SaverPromises
  <2>3. CASE torn' = (torn \/ removal[a] # "none") /\ live' = live
    <3>1. torn \in BOOLEAN
      BY DEF IInv, ArtifactTypeOK
    <3>2. CASE torn' = torn
      BY <1>2, <2>1, <2>3, <3>2, StoreUnseen
    <3>3. CASE torn' # torn
      <4>1. torn' = TRUE /\ removal[a] # "none"
        BY <2>3, <3>1, <3>3
      <4>2. AL!Tear
        BY <1>2, <2>1, <2>3, <4>1 DEF AL!Tear
      <4> QED BY <4>2 DEF AL!Next
    <3> QED BY <3>2, <3>3
  <2> QED BY <1>1, <1>4, <2>2, <2>3 DEF SaveWalk
<1>5. CASE SavePut(s)
  <2>1. UNCHANGED torn
    BY <1>5 DEF SavePut
  <2>2. CASE UNCHANGED tier /\ SaveReturns(s, "err")
    BY <1>1, <1>2, <2>1, <2>2, SaverPromises
  <2>3. CASE /\ tier' = [tier EXCEPT ![a] = IF save[s].got = "whole" THEN "good" ELSE "short"]
             /\ SaveReturns(s, "ok")
    <3>1. \A b \in Addr : b # a => tier'[b] = tier[b]
      BY <2>3 DEF IInv, ArtifactTypeOK
    <3>2. PICK c : c = IF save[s].got = "whole" THEN "whole" ELSE "part"
      OBVIOUS
    <3>3. tier'[a] = IF save[s].got = "whole" THEN "good" ELSE "short"
      BY <2>3 DEF IInv, ArtifactTypeOK
    <3>4. Object(a)' = c
      BY <3>2, <3>3 DEF Object
    <3>5. c \in AL!Copies
      BY <1>5, <3>2 DEF AL!Copies, IInv, Safe, Complete, SavePut
    <3>6. [b \in Addr |-> Object(b)'] = [[b \in Addr |-> Object(b)] EXCEPT ![a] = c]
      BY <3>1, <3>4, ObjectChanges
    <3>7. live' \in {live, live \cup {a}}
      BY <1>1, <2>3 DEF SaveReturns
    <3>8. AL!Store(a)
      BY <1>2, <2>1, <3>5, <3>6, <3>7 DEF AL!Store, Object
    <3> QED BY <3>8, AddressMoves
  <2> QED BY <1>1, <1>5, <2>2, <2>3 DEF SavePut
<1> QED BY <1>3, <1>4, <1>5

\* The reconciler discards an object that it distrusts.
LEMMA ReconcilerLives ==
    ASSUME IInv, RecBegin \/ (\E a \in Addr : RecStat(a)) \/ RecLook \/ RecDrop
    PROVE  [AL!Next]_(AL!vars)
<1>1. UNCHANGED <<dir, removal, live, torn>>
  BY DEF RecBegin, RecStat, RecLook, RecDrop, disk, work
<1>2. CASE UNCHANGED tier
  BY <1>1, <1>2, StoreUnseen
<1>3. CASE RecDrop /\ ~UNCHANGED tier
  <2>1. PICK a \in Addr : a = rec.at /\ tier' = [tier EXCEPT ![a] = "none"]
    BY <1>3 DEF RecDrop, IInv, Assigned
  <2>2. tier'[a] = "none" /\ \A b \in Addr : b # a => tier'[b] = tier[b]
    BY <2>1 DEF IInv, ArtifactTypeOK
  <2>3. Object(a)' = "none"
    BY <2>2 DEF Object
  <2>4. [b \in Addr |-> Object(b)'] = [[b \in Addr |-> Object(b)] EXCEPT ![a] = "none"]
    BY <2>2, <2>3, ObjectChanges
  <2>5. AL!Discard(a)
    BY <1>1, <2>4 DEF AL!Discard, Object
  <2> QED BY <2>5, AddressMoves
<1> QED BY <1>2, <1>3 DEF RecBegin, RecStat, RecLook

\* The sweeper and retention remove directories; an evicted or rebuilt deploy is
\* not ready any more.
LEMMA RemoverLives ==
    ASSUME IInv, NEW a \in Addr,
           SweepOne(a) \/ SweepSkips(a) \/ EvictDeploy(a) \/ Collect(a) \/ RemovalEnds(a)
             \/ \E over \in BOOLEAN : BuildBegin(a, over) \/ UploadBegin(a, over)
    PROVE  [AL!Next]_(AL!vars)
<1>1. UNCHANGED <<tier, torn>>
  BY DEF SweepOne, SweepSkips, EvictDeploy, Collect, RemovalEnds, BuildBegin, UploadBegin
<1>2. CASE UNCHANGED <<dir, removal, live>>
  BY <1>1, <1>2, StoreUnseen
<1>3. CASE UNCHANGED <<dir, removal>> /\ live' = live \ {a}
  <2>1. AL!Retract(a)
    BY <1>1, <1>3 DEF AL!Retract
  <2> QED BY <2>1, AddressMoves
<1>4. CASE /\ live' = live /\ Resident(a) /\ removal[a] = "none"
           /\ dir' = [dir EXCEPT ![a] = "part"]
           /\ \E who \in {"sweep", "gc"} : removal' = [removal EXCEPT ![a] = who]
  BY <1>1, <1>4, RemovalBegins
<1>5. CASE RemovalEnds(a)
  <2>1. /\ dir'[a] = "none" /\ removal'[a] = "none" /\ live' = live
        /\ \A b \in Addr : b # a => dir'[b] = dir[b] /\ removal'[b] = removal[b]
    BY <1>5 DEF RemovalEnds, IInv, ArtifactTypeOK, work
  <2>2. Local(a)' = "none" /\ Local(a) = "going"
    BY <1>5, <2>1 DEF Local, RemovalEnds
  <2>3. [b \in Addr |-> Local(b)'] = [[b \in Addr |-> Local(b)] EXCEPT ![a] = "none"]
    BY <2>1, <2>2, LocalChanges
  <2>4. AL!Removed(a)
    BY <1>1, <2>1, <2>2, <2>3 DEF AL!Removed, Local
  <2> QED BY <2>4, AddressMoves
<1>6. SweepOne(a) \/ Collect(a) => live' = live
  BY DEF SweepOne, Collect, work
<1> QED BY <1>2, <1>3, <1>4, <1>5, <1>6
     DEF SweepOne, SweepSkips, EvictDeploy, Collect, BuildBegin, UploadBegin, disk, work

\* A kill leaves what was being removed in part gone.
LEMMA KillTears == ASSUME IInv, Kill PROVE [AL!Next]_(AL!vars)
<1>1. UNCHANGED <<dir, tier, live>> /\ removal' = [a \in Addr |-> "none"]
  BY DEF Kill
<1>2. torn' = (torn \/ \E a \in Addr : removal[a] # "none") /\ torn \in BOOLEAN
  BY DEF Kill, IInv, ArtifactTypeOK
<1>3. CASE \A a \in Addr : removal[a] = "none"
  <2>1. removal' = removal
    BY <1>1, <1>3 DEF IInv, ArtifactTypeOK
  <2> QED BY <1>1, <1>2, <1>3, <2>1, StoreUnseen
<1>4. CASE \E a \in Addr : removal[a] # "none"
  <2>1. torn' = TRUE
    BY <1>2, <1>4
  <2>2. \A a \in Addr : Local(a)' = IF Local(a) = "going" THEN "part" ELSE Local(a)
    BY <1>1 DEF Local, IInv, ArtifactTypeOK, Safe, Removing
  <2>3. [a \in Addr |-> Local(a)']
           = [a \in Addr |-> IF [b \in Addr |-> Local(b)][a] = "going" THEN "part"
                             ELSE [b \in Addr |-> Local(b)][a]]
    BY <2>2
  <2>4. \E a \in Addr : [b \in Addr |-> Local(b)][a] = "going"
    BY <1>4 DEF Local
  <2>5. AL!Tear
    BY <1>1, <2>1, <2>3, <2>4 DEF AL!Tear, Local
  <2> QED BY <2>5 DEF AL!Next
<1> QED BY <1>3, <1>4

\* Everything else happens outside directories and tier.
LEMMA OthersUnseen ==
    ASSUME \/ \E r \in Readers : GiveUp(r) \/ \E a \in Addr : Serve(r, a)
           \/ BuildHydrates \/ BuildDecides \/ EnsureDurable \/ SweepBegin
           \/ \E w \in PersistWorkers : PersistTake(w)
    PROVE  UNCHANGED AL!vars
<1>1. UNCHANGED <<dir, removal, tier, live, torn>>
  BY DEF GiveUp, Serve, BuildHydrates, BuildDecides, EnsureDurable, SweepBegin, PersistTake,
     disk, work
<1> QED BY <1>1, StoreUnseen

\* store.go:5 and artifacttier.go:137 together: over every order of builds, fetches,
\* uploads, sweeps, removals, failures and kills, directories and objects appear
\* whole and are not changed in place, only a removal caught half done leaves a
\* part of one, and what turns ready does not depend on this disk alone.
THEOREM ArtifactLifeImplemented == ArtifactSpec => ImplementsArtifactLife
<1>1. ArtifactInit => AL!Init
  <2> SUFFICES ASSUME ArtifactInit PROVE AL!Init
    OBVIOUS
  <2>1. \A a \in Addr : Local(a) = dir[a] /\ Object(a) = IF tier[a] = "none" THEN "none" ELSE "whole"
    BY DEF ArtifactInit, Local, Object
  <2>2. live \in SUBSET {a \in Addr : Local(a) = "whole" \/ Object(a) = "whole"}
    BY <2>1 DEF ArtifactInit
  <2>3. /\ [a \in Addr |-> Local(a)] \in [Addr -> {"none", "whole"}]
        /\ [a \in Addr |-> Object(a)] \in [Addr -> {"none", "whole"}]
    BY <2>1 DEF ArtifactInit
  <2>4. \A a \in Addr : /\ [b \in Addr |-> Local(b)][a] = Local(a)
                        /\ [b \in Addr |-> Object(b)][a] = Object(a)
    OBVIOUS
  <2> QED BY <2>2, <2>3, <2>4 DEF ArtifactInit, AL!Init, Local, Object
<1>2. ASSUME IInv, [ArtifactNext]_artifactVars PROVE [AL!Next]_(AL!vars)
  <2>1. CASE UNCHANGED artifactVars
    BY <2>1, StoreUnseen DEF artifactVars, disk, work
  <2>2. CASE ArtifactNext
    BY <1>2, <2>2, PublisherLives, FetchLives, SaverLives, ReconcilerLives, RemoverLives, KillTears,
       OthersUnseen DEF ArtifactNext
  <2> QED BY <1>2, <2>1, <2>2
<1> QED BY Invariance, <1>1, <1>2, PTL DEF ArtifactSpec, ImplementsArtifactLife, AL!Spec

=============================================================================
