---------------------------- MODULE ArtifactStore ----------------------------
(***************************************************************************)
(* The local artifact directories as a cache of the durable tier: who      *)
(* publishes them (builds, CI uploads, hydration), who uploads them (the   *)
(* persist pool, a build that must be durable before it is ready, the      *)
(* reconciler) and who removes them (the cache sweeper, retention).        *)
(*                                                                         *)
(* All of these run side by side and none takes a lock: what they have     *)
(* instead is rename (a directory appears whole), os.RemoveAll (it does    *)
(* not disappear whole), singleflight per address for fetches, and Save's  *)
(* skip-if-exists.  An address is the (repo, side, hash) of a frontend or  *)
(* backend; a downloadable is published and persisted as an upload is.     *)
(*                                                                         *)
(* Abstractions.  What a directory or an object holds is "whole" or        *)
(* "part" (some of the files).  Sizes and ages are not modelled: the       *)
(* sweeper may find the footprint above its cap at any time, visits its    *)
(* candidates in any order and passes over any that a process protects or  *)
(* that is too young.  Repeated builds of one address are alike.  Scratch  *)
(* directories under tmp/ are nobody's business but their owner's.  A      *)
(* displacing publish and a removal of the same directory do not overlap.  *)
(***************************************************************************)
EXTENDS Naturals, Sequences

CONSTANTS
    Addr,              \* artifact addresses
    Readers,           \* requests that serve an artifact
    PersistWorkers,    \* the upload pool (4 in the code)
    PersistQueueSize,  \* its queue (256)
    Builds,            \* bound: builds and uploads in a behaviour
    Sweeps,            \* bound: cache sweeps
    Mishaps,           \* bound: failing calls to the tier and kills of the program
    NoAddr

ASSUME ArtifactStoreAssumption ==
    /\ NoAddr \notin Addr /\ PersistQueueSize \in Nat \ {0}
    /\ {Builds, Sweeps, Mishaps} \subseteq Nat
    /\ PersistWorkers \cap {"queue", "rec"} = {}

VARIABLES
    dir,       \* what is on local disk: "none", "part", "whole"
    removal,   \* who is inside os.RemoveAll of the directory, or "none"
    tier,      \* the object: "none", "good", "bare" (no metadata), "short"
    live,      \* addresses a ready deploy names
    flight,    \* Store.sf: "none", "check", or what the fetch will extract
    reader,    \* the address a request waits for inside Hydrate
    job,       \* the build worker and a CI upload
    persistJobs, \* Queue.persistJobs
    save,      \* calls of Tier.Save
    sweep,     \* candidates the sweeper has left
    rec,       \* the reconciler's pass
    torn,      \* ghost: a removal was seen half done, or never finished
    spent      \* how much of each bound is used

disk   == <<dir, removal>>
fetch  == <<flight, reader>>
work   == <<live, job, persistJobs>>
passes == <<sweep, rec>>
artifactVars == <<disk, tier, fetch, work, save, passes, torn, spent>>

Publishers == {"queue", "upload"}
Savers     == PersistWorkers \cup {"queue", "rec"}
IdleJob    == [addr |-> NoAddr, over |-> FALSE, pc |-> "idle"]
IdleSave   == [addr |-> NoAddr, pc |-> "idle", got |-> "none"]
IdleRec    == [todo |-> {}, at |-> NoAddr, obj |-> "none", pc |-> "idle"]

\* The program starts on the disk it left, the bucket possibly configured since
\* then, or with objects from before Save recorded any metadata with them.
ArtifactInit ==
    /\ dir \in [Addr -> {"none", "whole"}] /\ removal = [a \in Addr |-> "none"]
    /\ tier \in [Addr -> {"none", "bare"}]
    /\ live \in SUBSET {a \in Addr : dir[a] = "whole" \/ tier[a] = "bare"}
    /\ torn = FALSE
    /\ flight = [a \in Addr |-> "none"] /\ reader = [r \in Readers |-> NoAddr]
    /\ job = [p \in Publishers |-> IdleJob] /\ persistJobs = <<>>
    /\ save = [s \in Savers |-> IdleSave]
    /\ sweep = {} /\ rec = IdleRec
    /\ spent = [builds |-> 0, sweeps |-> 0, mishaps |-> 0]

Spend(b) == spent' = [spent EXCEPT ![b] = @ + 1]
Fault == spent.mishaps < Mishaps /\ Spend("mishaps")

Resident(a) == dir[a] # "none"

-------------------------------------------------------------------------------
(* Store.publish, and what follows a build's or an upload's publication *)

\* A directory lands by one rename; whoever finds one in place keeps it.
Land(a, content) == dir' = IF Resident(a) THEN dir ELSE [dir EXCEPT ![a] = content]

\* enqueuePersist never blocks: a full queue drops the upload.  The build goes
\* on to ensureDurable.
Published(p, a) ==
    /\ persistJobs' = IF Len(persistJobs) < PersistQueueSize
                      THEN Append(persistJobs, a) ELSE persistJobs
    /\ job' = IF p = "queue" THEN [job EXCEPT ![p].pc = "durable"]
                             ELSE [job EXCEPT ![p] = IdleJob]

\* With overwrite: the old one is renamed to trash, then the new one renamed in.
Publish(p) ==
    LET a == job[p].addr IN
    /\ job[p].pc = "build"
    /\ \/ /\ job[p].over /\ Resident(a) /\ removal[a] = "none"
          /\ dir' = [dir EXCEPT ![a] = "none"]
          /\ job' = [job EXCEPT ![p].pc = "land"] /\ UNCHANGED persistJobs
       \/ ~(job[p].over /\ Resident(a)) /\ Land(a, "whole") /\ Published(p, a)
    /\ UNCHANGED <<removal, tier, live, fetch, save, passes, torn, spent>>

LandNew(p) ==
    /\ job[p].pc = "land"
    /\ Land(job[p].addr, "whole") /\ Published(p, job[p].addr)
    /\ UNCHANGED <<removal, tier, live, fetch, save, passes, torn, spent>>

\* The build steps, or the extraction of the uploaded archive, fail.
BuildFails(p) ==
    /\ job[p].pc = "build" /\ job' = [job EXCEPT ![p] = IdleJob]
    /\ UNCHANGED <<disk, tier, live, persistJobs, fetch, save, passes, torn, spent>>

-------------------------------------------------------------------------------
(* Hydrate *)

\* DoChan: the first caller starts the fetch, the others wait for it.
Join(a) == flight' = IF flight[a] = "none" THEN [flight EXCEPT ![a] = "check"]
                     ELSE flight

Serve(r, a) ==
    /\ reader[r] = NoAddr /\ a \in live /\ ~Resident(a)
    /\ reader' = [reader EXCEPT ![r] = a] /\ Join(a)
    /\ UNCHANGED <<disk, tier, work, save, passes, torn, spent>>

\* The request's deadline passes; the fetch goes on without it.
GiveUp(r) ==
    /\ reader[r] # NoAddr /\ reader' = [reader EXCEPT ![r] = NoAddr]
    /\ UNCHANGED <<disk, tier, flight, work, save, passes, torn, spent>>

\* The flight's result goes to everybody who waits; a build ignores it.
Finish(a) ==
    /\ flight' = [flight EXCEPT ![a] = "none"]
    /\ reader' = [r \in Readers |-> IF reader[r] = a THEN NoAddr ELSE reader[r]]
    /\ job' = IF job["queue"].pc = "wait" /\ job["queue"].addr = a
              THEN [job EXCEPT !["queue"].pc = "decide"] ELSE job

\* A sibling may have landed it; otherwise open the object.
FetchOpen(a) ==
    /\ flight[a] = "check"
    /\ \/ (Resident(a) \/ tier[a] = "none") /\ Finish(a) /\ UNCHANGED spent
       \/ ~Resident(a) /\ Fault /\ Finish(a)
       \/ /\ ~Resident(a) /\ tier[a] # "none"
          /\ flight' = [flight EXCEPT ![a] = IF tier[a] = "short" THEN "part" ELSE "whole"]
          /\ UNCHANGED <<reader, job, spent>>
    /\ UNCHANGED <<disk, tier, live, persistJobs, save, passes, torn>>

\* A bug to catch: what a cut download extracted is published all the same.
FetchCutUnchecked(a) ==
    /\ flight[a] \in {"part", "whole"} /\ Fault
    /\ Land(a, "part") /\ Finish(a)
    /\ UNCHANGED <<removal, tier, live, persistJobs, save, passes, torn>>

\* A download that breaks off: a stream error, or an extraction that wrote
\* fewer bytes than Save recorded.  Nothing is published.
FetchCut(a) ==
    /\ flight[a] \in {"part", "whole"} /\ Fault /\ Finish(a)
    /\ UNCHANGED <<disk, tier, live, persistJobs, save, passes, torn>>

FetchLand(a) ==
    /\ flight[a] \in {"part", "whole"} /\ Land(a, flight[a]) /\ Finish(a)
    /\ UNCHANGED <<removal, tier, live, persistJobs, save, passes, torn, spent>>

-------------------------------------------------------------------------------
(* Builds and uploads *)

\* process() of a deploy of this address; a rebuilt side is not ready meanwhile.
BuildBegin(a, over) ==
    /\ job["queue"].pc = "idle" /\ spent.builds < Builds /\ Spend("builds")
    /\ over \/ a \notin live
    /\ job' = [job EXCEPT !["queue"] =
                  [addr |-> a, over |-> over, pc |-> IF over THEN "build" ELSE "tier"]]
    /\ live' = live \ {a}
    /\ UNCHANGED <<disk, tier, fetch, persistJobs, save, passes, torn>>

BuildHydrates ==
    LET a == job["queue"].addr IN
    /\ job["queue"].pc = "tier"
    /\ \/ Resident(a) /\ job' = [job EXCEPT !["queue"].pc = "decide"] /\ UNCHANGED flight
       \/ ~Resident(a) /\ job' = [job EXCEPT !["queue"].pc = "wait"] /\ Join(a)
    /\ UNCHANGED <<disk, tier, live, reader, persistJobs, save, passes, torn, spent>>

\* A hit needs no build; a miss does, whatever kept Hydrate from helping.
BuildDecides ==
    /\ job["queue"].pc = "decide"
    /\ job' = [job EXCEPT !["queue"].pc = IF Resident(job["queue"].addr) THEN "durable"
                                          ELSE "build"]
    /\ UNCHANGED <<disk, tier, live, persistJobs, fetch, save, passes, torn, spent>>

\* Queue.Upload: nothing to do when the address is there and not to be replaced.
UploadBegin(a, over) ==
    /\ job["upload"].pc = "idle" /\ spent.builds < Builds /\ Spend("builds")
    /\ over \/ ~Resident(a)
    /\ job' = [job EXCEPT !["upload"] = [addr |-> a, over |-> over, pc |-> "build"]]
    /\ UNCHANGED <<disk, tier, live, persistJobs, fetch, save, passes, torn>>

-------------------------------------------------------------------------------
(* Tier.Save and its three callers *)

StartSave(s, a) == save' = [save EXCEPT ![s] = [addr |-> a, pc |-> "stat", got |-> "none"]]

PersistTake(w) ==
    /\ save[w].pc = "idle" /\ persistJobs # <<>>
    /\ StartSave(w, Head(persistJobs)) /\ persistJobs' = Tail(persistJobs)
    /\ UNCHANGED <<disk, tier, live, job, fetch, passes, torn, spent>>

\* A bug to catch: trusting the pool with what the deploy is about to promise.
ReadyWithoutSave ==
    /\ job["queue"].pc = "durable"
    /\ live' = live \cup {job["queue"].addr} /\ job' = [job EXCEPT !["queue"] = IdleJob]
    /\ UNCHANGED <<disk, tier, persistJobs, fetch, save, passes, torn, spent>>

EnsureDurable ==
    /\ job["queue"].pc = "durable" /\ StartSave("queue", job["queue"].addr)
    /\ job' = [job EXCEPT !["queue"].pc = "save"]
    /\ UNCHANGED <<disk, tier, live, persistJobs, fetch, passes, torn, spent>>

NextRef == [rec EXCEPT !.todo = @ \ {rec.at}, !.at = NoAddr, !.obj = "none", !.pc = "idle"]

\* The deploy turns ready unless its upload failed: files that are gone count
\* as retention having won.  The pool and the reconciler only report.
SaveReturns(s, outcome) ==
    /\ save' = [save EXCEPT ![s] = IdleSave]
    /\ job' = IF s = "queue" THEN [job EXCEPT !["queue"] = IdleJob] ELSE job
    /\ live' = IF s = "queue" /\ outcome # "err" THEN live \cup {save[s].addr} ELSE live
    /\ rec' = IF s = "rec" THEN NextRef ELSE rec

SaveStat(s) ==
    /\ save[s].pc = "stat"
    /\ \/ tier[save[s].addr] # "none" /\ SaveReturns(s, "ok") /\ UNCHANGED spent
       \/ Fault /\ SaveReturns(s, "err")
       \/ /\ tier[save[s].addr] = "none" /\ save' = [save EXCEPT ![s].pc = "walk"]
          /\ UNCHANGED <<job, live, rec, spent>>
    /\ UNCHANGED <<disk, tier, fetch, persistJobs, sweep, torn>>

\* tarDir: a path that vanishes under the walk ends it; names removed before
\* their directory is read are not missed.
SaveWalk(s) ==
    LET a == save[s].addr IN
    /\ save[s].pc = "walk"
    /\ \/ /\ dir[a] = "none" \/ removal[a] # "none"
          /\ SaveReturns(s, "gone") /\ UNCHANGED torn
       \/ /\ Resident(a) /\ save' = [save EXCEPT ![s].pc = "put", ![s].got = dir[a]]
          /\ torn' = (torn \/ removal[a] # "none")
          /\ UNCHANGED <<job, live, rec>>
    /\ UNCHANGED <<disk, tier, fetch, persistJobs, sweep, spent>>

\* The metadata counts what the walk found, so it always fits the object.
SavePut(s) ==
    /\ save[s].pc = "put"
    /\ \/ /\ tier' = [tier EXCEPT ![save[s].addr] =
                         IF save[s].got = "whole" THEN "good" ELSE "short"]
          /\ SaveReturns(s, "ok") /\ UNCHANGED spent
       \/ Fault /\ SaveReturns(s, "err") /\ UNCHANGED tier
    /\ UNCHANGED <<disk, fetch, persistJobs, sweep, torn>>

-------------------------------------------------------------------------------
(* The reconciler *)

RecBegin ==
    /\ rec.pc = "idle" /\ rec.todo = {} /\ live # {}
    /\ rec' = [rec EXCEPT !.todo = live]
    /\ UNCHANGED <<disk, tier, fetch, work, save, sweep, torn, spent>>

RecStat(a) ==
    /\ rec.pc = "idle" /\ a \in rec.todo
    /\ \/ rec' = [rec EXCEPT !.at = a, !.obj = tier[a], !.pc = "look"] /\ UNCHANGED spent
       \/ Fault /\ rec' = [rec EXCEPT !.todo = @ \ {a}]
    /\ UNCHANGED <<disk, tier, fetch, work, save, sweep, torn>>

\* Metadata recorded, and the count that of the local copy if there is one.
Consistent(obj, d) == \/ obj = "good" /\ d # "part"
                      \/ obj = "short" /\ d # "whole"

RecLook ==
    LET d == dir[rec.at] IN
    /\ rec.pc = "look"
    /\ \/ /\ Consistent(rec.obj, d) \/ d = "none"
          /\ rec' = NextRef /\ UNCHANGED save
       \/ /\ ~Consistent(rec.obj, d) /\ d # "none" /\ rec.obj # "none"
          /\ rec' = [rec EXCEPT !.pc = "drop"] /\ UNCHANGED save
       \/ /\ d # "none" /\ rec.obj = "none"
          /\ rec' = [rec EXCEPT !.pc = "save"] /\ StartSave("rec", rec.at)
    /\ UNCHANGED <<disk, tier, fetch, work, sweep, torn, spent>>

\* Save skips what exists, so an object it distrusts goes first.
RecDrop ==
    /\ rec.pc = "drop"
    /\ \/ /\ tier' = [tier EXCEPT ![rec.at] = "none"]
          /\ rec' = [rec EXCEPT !.pc = "save"] /\ StartSave("rec", rec.at)
          /\ UNCHANGED spent
       \/ Fault /\ rec' = NextRef /\ UNCHANGED <<tier, save>>
    /\ UNCHANGED <<disk, fetch, work, sweep, torn>>

-------------------------------------------------------------------------------
(* The cache sweeper, retention, kills *)

\* EvictCacheToWatermark lists what is resident.
SweepBegin ==
    /\ sweep = {} /\ \A a \in Addr : removal[a] # "sweep"
    /\ spent.sweeps < Sweeps /\ Spend("sweeps")
    /\ sweep' = {a \in Addr : Resident(a)}
    /\ UNCHANGED <<disk, tier, fetch, work, save, rec, torn>>

\* One candidate is removed, or was by somebody else.
SweepOne(a) ==
    /\ a \in sweep /\ \A x \in Addr : removal[x] # "sweep"
    /\ sweep' = sweep \ {a}
    /\ IF ~Resident(a) \/ removal[a] # "none" THEN UNCHANGED disk
       ELSE /\ dir' = [dir EXCEPT ![a] = "part"]
            /\ removal' = [removal EXCEPT ![a] = "sweep"]
    /\ UNCHANGED <<tier, fetch, work, save, rec, torn, spent>>

\* A candidate is protected; or none is needed, the footprint is below the cap.
SweepSkips(a) ==
    /\ a \in sweep /\ sweep' = sweep \ {a}
    /\ UNCHANGED <<disk, tier, fetch, work, save, rec, torn, spent>>

\* The last deploy of an address is evicted; its files go (the survey of who
\* else needs them is module BuildQueue's subject).
EvictDeploy(a) ==
    /\ a \in live /\ live' = live \ {a}
    /\ UNCHANGED <<disk, tier, fetch, job, persistJobs, save, passes, torn, spent>>

Collect(a) ==
    /\ a \notin live /\ Resident(a) /\ removal[a] = "none"
    /\ \A p \in Publishers : job[p].addr # a
    /\ dir' = [dir EXCEPT ![a] = "part"] /\ removal' = [removal EXCEPT ![a] = "gc"]
    /\ UNCHANGED <<tier, fetch, work, save, passes, torn, spent>>

RemovalEnds(a) ==
    /\ removal[a] # "none"
    /\ dir' = [dir EXCEPT ![a] = "none"] /\ removal' = [removal EXCEPT ![a] = "none"]
    /\ UNCHANGED <<tier, fetch, work, save, passes, torn, spent>>

\* What is on disk, in the bucket and in the database stays.
Kill ==
    /\ Fault
    /\ torn' = (torn \/ \E a \in Addr : removal[a] # "none")
    /\ removal' = [a \in Addr |-> "none"] /\ flight' = [a \in Addr |-> "none"]
    /\ reader' = [r \in Readers |-> NoAddr]
    /\ job' = [p \in Publishers |-> IdleJob]
    /\ persistJobs' = <<>> /\ save' = [s \in Savers |-> IdleSave]
    /\ sweep' = {} /\ rec' = IdleRec
    /\ UNCHANGED <<dir, tier, live>>

ArtifactNext ==
    \/ \E p \in Publishers : Publish(p) \/ LandNew(p) \/ BuildFails(p)
    \/ \E r \in Readers : GiveUp(r) \/ \E a \in Addr : Serve(r, a)
    \/ \E a \in Addr : FetchOpen(a) \/ FetchCut(a) \/ FetchLand(a)
    \/ \E a \in Addr, over \in BOOLEAN : BuildBegin(a, over) \/ UploadBegin(a, over)
    \/ BuildHydrates \/ BuildDecides \/ EnsureDurable
    \/ \E w \in PersistWorkers : PersistTake(w)
    \/ \E s \in Savers : SaveStat(s) \/ SaveWalk(s) \/ SavePut(s)
    \/ RecBegin \/ (\E a \in Addr : RecStat(a)) \/ RecLook \/ RecDrop
    \/ SweepBegin
    \/ \E a \in Addr : SweepOne(a) \/ SweepSkips(a) \/ EvictDeploy(a) \/ Collect(a)
                       \/ RemovalEnds(a)
    \/ Kill

ArtifactSpec == ArtifactInit /\ [][ArtifactNext]_artifactVars

-------------------------------------------------------------------------------
(* Properties *)

ArtifactTypeOK ==
    /\ dir \in [Addr -> {"none", "part", "whole"}]
    /\ removal \in [Addr -> {"none", "sweep", "gc"}]
    /\ tier \in [Addr -> {"none", "good", "bare", "short"}]
    /\ live \subseteq Addr
    /\ flight \in [Addr -> {"none", "check", "part", "whole"}]
    /\ reader \in [Readers -> Addr \cup {NoAddr}]
    /\ job \in [Publishers -> [addr : Addr \cup {NoAddr}, over : BOOLEAN,
                  pc : {"idle", "tier", "wait", "decide", "build", "land", "durable", "save"}]]
    /\ persistJobs \in Seq(Addr) /\ Len(persistJobs) <= PersistQueueSize
    /\ save \in [Savers -> [addr : Addr \cup {NoAddr}, pc : {"idle", "stat", "walk", "put"},
                            got : {"none", "part", "whole"}]]
    /\ sweep \subseteq Addr
    /\ rec \in [todo : SUBSET Addr, at : Addr \cup {NoAddr},
                obj : {"none", "good", "bare", "short"},
                pc : {"idle", "look", "drop", "save"}]
    /\ torn \in BOOLEAN
    /\ spent \in [{"builds", "sweeps", "mishaps"} -> Nat]

\* "The directory exists always means the content is complete" (store.go:5),
\* and an object in the tier is complete, as long as no removal was caught
\* half done (a walk that overlapped one, a kill inside one): builds, uploads,
\* hydrations that break off and kills in the middle of them never leave part
\* of an artifact under its address.
WholeUnlessTorn ==
    ~torn => \A a \in Addr :
        /\ dir[a] = "part" => removal[a] # "none"
        /\ tier[a] # "short" /\ flight[a] # "part"

\* A frontend or backend that turns ready is in the durable tier by then
\* (artifacttier.go:137), unless its files were removed under the upload.
ReadyIsDurable ==
    [][\A a \in live' \ live :
          tier[a] # "none" \/ tier'[a] # "none" \/ dir[a] # "whole"]_artifactVars

\* Directories and tier are ArtifactLife: whoever looks at an address finds what
\* a build once made of it, or nothing (Store.publish, tarDir, Save's metadata),
\* and no deploy turns ready that only this node's disk holds (ensureDurable).
AL == INSTANCE ArtifactLife WITH
        local  <- [a \in Addr |-> IF removal[a] # "none" THEN "going" ELSE dir[a]],
        object <- [a \in Addr |-> CASE tier[a] = "none" -> "none" [] tier[a] = "short" -> "part"
                                    [] OTHER -> "whole"],
        ready  <- live,
        sound  <- ~torn

ImplementsArtifactLife == AL!Spec
=============================================================================
