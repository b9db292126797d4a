------------------------------ MODULE BuildQueue ------------------------------
(***************************************************************************)
(* The deploy pipeline: build.Queue, the deploys table it drives, the      *)
(* published artifacts, and everything that evicts deploys.                *)
(*                                                                         *)
(* RequestDeploy upserts a deploy row and sends its id on the channel      *)
(* `work`; workers take ids and run process().  One build per content      *)
(* address runs at a time (singleflight); whoever asks meanwhile shares    *)
(* its outcome.  The branch poller, the retention sweep and the delete     *)
(* request each mark rows and then remove what no other row pins.  No      *)
(* database transaction spans two of these steps: every action below is    *)
(* one statement on a row or one change of the artifact store (Resolve is  *)
(* two statements on its worker's own row).                                *)
(*                                                                         *)
(* Abstractions.  A deploy has one side that gates readiness (Side: the    *)
(* backend; a frontend side takes the same steps just before) and at most  *)
(* one downloadable (Download).  Hashes of a commit never change (a repo   *)
(* whose project scope is edited is left out).  There is no durable tier,  *)
(* so hydrate and ensureDurable have nothing to do.  Statements succeed    *)
(* unless their row is gone.  The fork of a state directory from an        *)
(* ancestor's is module Supervise's subject: here the directory appears.   *)
(***************************************************************************)
EXTENDS Naturals, Sequences

CONSTANTS
    Deploys,      \* deploy ids, numbered in order of creation
    Side,         \* Side[d]: content address of the side d serves
    Download,     \* Download[d]: content address of its downloadable, or None
    Fragile,      \* addresses whose build steps may be of the failing kind
    Workers,      \* build workers
    Callers,      \* requests that may be inside RequestDeploy at once
    Cleaners,     \* who evicts: "poll", "sweep", and delete requests
    WorkCap,      \* capacity of the work channel
    Asks,         \* bound: requests in a behaviour
    Rounds,       \* bound: passes the cleaners start in a behaviour
    Lives,        \* bound: times the program is started
    None

Sides     == {Side[d] : d \in Deploys}
Downloads == {Download[d] : d \in Deploys} \ {None}
Hashes    == Sides \cup Downloads

ASSUME BuildQueueAssumption ==
    /\ Deploys \subseteq Nat
    /\ DOMAIN Side = Deploys /\ DOMAIN Download = Deploys
    /\ Sides \cap Downloads = {} /\ None \notin Sides
    /\ Fragile \subseteq Hashes
    /\ WorkCap \in Nat \ {0} /\ Asks \in Nat /\ Rounds \in Nat
    /\ Lives \in Nat \ {0}
    /\ None \notin Deploys /\ None \notin Workers
    /\ None \notin {"building", "ready", "failed"}
    /\ None \notin [d : Deploys, hashes : SUBSET Hashes]

VARIABLES
    ctx,          \* "up", "stopping" (the work context is cancelled), "down"
    broken,       \* addresses whose build steps fail: fixed by the commits
    row,          \* the deploys table
    files,        \* published artifact directories
    state,        \* backend state directories
    arow,         \* backend_artifacts rows
    work,         \* Queue.work
    rebuild,      \* Queue.rebuild
    flight,       \* Queue.sf: the worker that builds each address, or None
    listed,       \* Start's goroutine has read the unfinished deploys
    resume,       \* and has these ids left to send
    worker,       \* location and variables of each worker's process()
    caller,       \* location and variables of each RequestDeploy
    cleaner,      \* location and variables of each eviction pass
    strays,       \* history: addresses that an eviction passed by unknowing
    asked, rounds, lives             \* how much of each bound is used

vars == <<ctx, broken, row, files, state, arow, work, rebuild, flight, listed,
          resume, worker, caller, cleaner, strays, asked, rounds, lives>>
disk == <<files, state, arow>>
bounds == <<asked, rounds, lives, broken, strays>>
startup == <<listed, resume>>
memory == <<work, rebuild, flight, startup>>

Statuses == {"none", "queued", "building", "ready", "failed", "evicted",
             "deleted"}

\* No row yet, a fresh row, a row that is gone (an id is never used again:
\* a new deploy of that commit gets another), the locals of an idle actor.
NoRow       == [status |-> "none", hashed |-> FALSE, dl |-> None]
FreshRow    == [NoRow EXCEPT !.status = "queued"]
DeletedRow  == [NoRow EXCEPT !.status = "deleted"]
IdleWorker  == [pc |-> "idle", d |-> None, side |-> "side", rebuild |-> FALSE]
IdleCaller  == [pc |-> "idle", d |-> None, rebuild |-> FALSE]
IdleCleaner == [pc |-> "idle", todo |-> {}, d |-> None, live |-> {}]

Exists(d) == row[d].status \notin {"none", "deleted"}

\* An UPDATE by id: it finds no row once the deploy is deleted.
Update(d, s) ==
    row' = IF Exists(d) THEN [row EXCEPT ![d].status = s] ELSE row

\* SetDeployArtifactStatus: an error when the row no longer has the ref.
UpdateDownload(d, s) ==
    row' = IF row[d].dl # None THEN [row EXCEPT ![d].dl = s] ELSE row

Init ==
    /\ ctx = "up"
    /\ broken \in SUBSET Fragile
    /\ row = [d \in Deploys |-> NoRow]
    /\ files = {} /\ state = {} /\ arow = {}
    /\ work = <<>> /\ rebuild = {} /\ listed = FALSE /\ resume = {}
    /\ flight = [h \in Hashes |-> None]
    /\ worker = [w \in Workers |-> IdleWorker]
    /\ caller = [c \in Callers |-> IdleCaller]
    /\ cleaner = [e \in Cleaners |-> IdleCleaner]
    /\ strays = {} /\ asked = 0 /\ rounds = 0 /\ lives = 1

-------------------------------------------------------------------------------
(* RequestDeploy *)

InFlight(d) == row[d].status \in {"queued", "building"}

\* GetDeployBySHA, and the switch on what it finds (a request that finds
\* nothing to do changes nothing).  Ids are handed out in order.
Ask(c) ==
    /\ ctx = "up" /\ caller[c].pc = "idle" /\ asked < Asks
    /\ \E d \in Deploys, r \in BOOLEAN :
          /\ row[d].status \notin {"queued", "building", "deleted"}
          /\ row[d].status = "ready" => r
          /\ \A x \in Deploys : x < d => row[x].status # "none"
          /\ caller' = [caller EXCEPT ![c] =
                [pc |-> IF Exists(d) THEN "reset" ELSE "create",
                 d |-> d, rebuild |-> r]]
    /\ asked' = asked + 1
    /\ UNCHANGED <<ctx, broken, row, disk, memory, worker, cleaner, strays, rounds, lives>>

\* CreateDeploy: ErrConflict when another request inserted the row first.  (If
\* that row is deleted by now, what is created is another deploy.)
Create(c) ==
    /\ caller[c].pc = "create"
    /\ LET d == caller[c].d
       IN  IF row[d].status # "none"
           THEN caller' = [caller EXCEPT ![c] = IdleCaller] /\ UNCHANGED row
           ELSE /\ row' = [row EXCEPT ![d] = FreshRow]
                /\ caller' = [caller EXCEPT ![c].pc = "flag"]
    /\ UNCHANGED <<ctx, disk, memory, worker, cleaner, bounds>>

ResetDeploy(c) ==
    /\ caller[c].pc = "reset"
    /\ Update(caller[c].d, "queued")
    /\ caller' = IF Exists(caller[c].d)
                 THEN [caller EXCEPT ![c].pc = "flag"]
                 ELSE [caller EXCEPT ![c] = IdleCaller]
    /\ UNCHANGED <<ctx, disk, memory, worker, cleaner, bounds>>

SetRebuild(c) ==
    /\ caller[c].pc = "flag"
    /\ rebuild' = IF caller[c].rebuild THEN rebuild \cup {caller[c].d}
                                       ELSE rebuild \ {caller[c].d}
    /\ caller' = [caller EXCEPT ![c].pc = "send"]
    /\ UNCHANGED <<ctx, row, disk, work, flight, startup, worker, cleaner, bounds>>

\* The send on q.work, which blocks while the buffer is full.
Enqueue(c) ==
    /\ caller[c].pc = "send" /\ Len(work) < WorkCap
    /\ work' = Append(work, caller[c].d)
    /\ caller' = [caller EXCEPT ![c] = IdleCaller]
    /\ UNCHANGED <<ctx, row, disk, rebuild, flight, startup, worker, cleaner, bounds>>

-------------------------------------------------------------------------------
(* process: up to the build *)

Goto(w, l) == worker' = [worker EXCEPT ![w].pc = l]
Finished(w) == worker' = [worker EXCEPT ![w] = IdleWorker]

\* The content address the worker is at.
Hash(w) == IF worker[w].side = "side" THEN Side[worker[w].d]
                                      ELSE Download[worker[w].d]

\* Steps that call git, the runner or a cancelled context may fail.
CanFail(w) == Hash(w) \in broken \/ ctx = "stopping"

\* Entering buildArtifacts, which has work only if the row says so.
Artifacts(w, d, r) ==
    worker' = [worker EXCEPT ![w] =
        IF row[d].dl = "building"
        THEN [pc |-> "artifact", d |-> d, side |-> "download", rebuild |-> r]
        ELSE IdleWorker]

Take(w) ==
    /\ ctx # "down" /\ worker[w].pc = "idle" /\ work # <<>>
    /\ worker' = [worker EXCEPT ![w].pc = "load", ![w].d = Head(work)]
    /\ work' = Tail(work)
    /\ UNCHANGED <<ctx, row, disk, rebuild, flight, startup, caller, cleaner, bounds>>

\* A bug to catch: process takes any row with known hashes for a ready one.
LoadRowByHash(w) ==
    /\ worker[w].pc = "load"
    /\ LET d == worker[w].d
       IN  IF ~Exists(d) \/ row[d].status = "evicted" THEN Finished(w)
           ELSE IF row[d].hashed THEN Artifacts(w, d, FALSE)
           ELSE Goto(w, "mark")
    /\ UNCHANGED <<ctx, row, disk, memory, caller, cleaner, bounds>>

LoadRow(w) ==
    /\ worker[w].pc = "load"
    /\ LET d == worker[w].d
       IN  \/ (~Exists(d) \/ row[d].status = "evicted") /\ Finished(w)
           \/ row[d].status = "ready" /\ Artifacts(w, d, FALSE)
           \/ row[d].status \in {"queued", "building", "failed"} /\ Goto(w, "mark")
    /\ UNCHANGED <<ctx, row, disk, memory, caller, cleaner, bounds>>

MarkBuilding(w) ==
    /\ worker[w].pc = "mark"
    /\ Update(worker[w].d, "building")
    /\ IF Exists(worker[w].d) THEN Goto(w, "flag") ELSE Finished(w)
    /\ UNCHANGED <<ctx, disk, memory, caller, cleaner, bounds>>

TakeRebuild(w) ==
    /\ worker[w].pc = "flag"
    /\ worker' = [worker EXCEPT ![w].pc = "hash",
                                ![w].rebuild = worker[w].d \in rebuild]
    /\ rebuild' = rebuild \ {worker[w].d}
    /\ UNCHANGED <<ctx, row, disk, work, flight, startup, caller, cleaner, bounds>>

\* A bug to catch: Resolve records the download but loses the hashes.
ResolveUnhashed(w) ==
    /\ worker[w].pc = "hash" /\ Exists(worker[w].d)
    /\ row' = [row EXCEPT ![worker[w].d].dl =
                  IF Download[worker[w].d] = None THEN None ELSE "building"]
    /\ Goto(w, "cache")
    /\ UNCHANGED <<ctx, disk, memory, caller, cleaner, bounds>>

\* Manifest and hashes, then SetDeployHashes and SetDeployArtifacts.
Resolve(w) ==
    /\ worker[w].pc = "hash"
    /\ LET d == worker[w].d
       IN  \/ /\ Exists(d)
              /\ row' = [row EXCEPT ![d].hashed = TRUE, ![d].dl =
                     IF Download[d] = None THEN None
                     ELSE IF ~worker[w].rebuild /\ Download[d] \in files
                          THEN "ready" ELSE "building"]
              /\ Goto(w, "cache")
           \/ /\ ~Exists(d) \/ CanFail(w)
              /\ Goto(w, "fail") /\ UNCHANGED row
    /\ UNCHANGED <<ctx, disk, memory, caller, cleaner, bounds>>

\* The cache-hit test, and the extraction of the commit if it misses.
Cache(w) ==
    /\ worker[w].pc = "cache"
    /\ IF worker[w].rebuild \/ Hash(w) \notin files
       THEN Goto(w, "enter") \/ (CanFail(w) /\ Goto(w, "fail"))
       ELSE Goto(w, "provision")
    /\ UNCHANGED <<ctx, row, disk, memory, caller, cleaner, bounds>>

-------------------------------------------------------------------------------
(* One build per content address *)

\* A bug to catch: builds without singleflight.
EnterAlone(w) ==
    /\ worker[w].pc = "enter"
    /\ flight' = [flight EXCEPT ![Hash(w)] = w]
    /\ Goto(w, "build")
    /\ UNCHANGED <<ctx, row, disk, work, rebuild, startup, caller, cleaner, bounds>>

\* singleflight.Do: build, or wait for the build that is on its way.
Enter(w) ==
    /\ worker[w].pc = "enter"
    /\ LET h == Hash(w)
       IN  \/ /\ flight[h] = None
              /\ flight' = [flight EXCEPT ![h] = w]
              /\ Goto(w, "build")
           \/ /\ flight[h] # None
              /\ Goto(w, "join") /\ UNCHANGED flight
    /\ UNCHANGED <<ctx, row, disk, work, rebuild, startup, caller, cleaner, bounds>>

Joined(w) == {v \in Workers : worker[v].pc = "join" /\ Hash(v) = Hash(w)}

\* A bug to catch: whoever joined a build goes on without looking at its error.
LandForJoined(w, ok) ==
    /\ flight' = [flight EXCEPT ![Hash(w)] = None]
    /\ worker' = [v \in Workers |->
          IF v \in Joined(w) \cup {w}
          THEN [worker[v] EXCEPT !.pc =
                  IF worker[v].side = "side"
                  THEN IF ok \/ v # w THEN "provision" ELSE "fail"
                  ELSE IF ok \/ v # w THEN "built" ELSE "unbuilt"]
          ELSE worker[v]]

\* Do returns, to the worker that built and to all who joined it.
Land(w, ok) ==
    /\ flight' = [flight EXCEPT ![Hash(w)] = None]
    /\ worker' = [v \in Workers |->
          IF v \in Joined(w) \cup {w}
          THEN [worker[v] EXCEPT !.pc =
                  IF worker[v].side = "side"
                  THEN IF ok THEN "provision" ELSE "fail"
                  ELSE IF ok THEN "built" ELSE "unbuilt"]
          ELSE worker[v]]

BuildSteps(w) ==
    /\ worker[w].pc = "build"
    /\ \/ Hash(w) \notin broken /\ Goto(w, "publish") /\ UNCHANGED flight
       \/ CanFail(w) /\ Land(w, FALSE)
    /\ UNCHANGED <<ctx, row, disk, work, rebuild, startup, caller, cleaner, bounds>>

\* A bug to catch: a rebuild moves the old files aside and forgets the new.
PublishAside(w) ==
    /\ worker[w].pc = "publish"
    /\ files' = IF worker[w].rebuild /\ Hash(w) \in files
                THEN files \ {Hash(w)} ELSE files \cup {Hash(w)}
    /\ Land(w, TRUE)
    /\ UNCHANGED <<ctx, row, state, arow, work, rebuild, startup, caller, cleaner, bounds>>

\* Store.publish: keep what is there, or move it aside first on a rebuild.
Publish(w) ==
    /\ worker[w].pc = "publish"
    /\ IF worker[w].rebuild /\ Hash(w) \in files
       THEN /\ files' = files \ {Hash(w)}
            /\ Goto(w, "replace") /\ UNCHANGED flight
       ELSE /\ files' = files \cup {Hash(w)}
            /\ Land(w, TRUE)
    /\ UNCHANGED <<ctx, row, state, arow, work, rebuild, startup, caller, cleaner, bounds>>

Replace(w) ==
    /\ worker[w].pc = "replace"
    /\ files' = files \cup {Hash(w)}
    /\ Land(w, TRUE)
    /\ UNCHANGED <<ctx, row, state, arow, work, rebuild, startup, caller, cleaner, bounds>>

-------------------------------------------------------------------------------
(* ForkOrInitStateDir, and the end of process *)

\* A bug to catch: published files are taken for a provisioned state.
ProvisionByFiles(w) ==
    /\ worker[w].pc = "provision"
    /\ Goto(w, IF Hash(w) \in files THEN "finish" ELSE "state")
    /\ UNCHANGED <<ctx, row, disk, memory, caller, cleaner, bounds>>

Provision(w) ==
    /\ worker[w].pc = "provision"
    /\ Goto(w, IF Hash(w) \in arow THEN "finish" ELSE "state")
    /\ UNCHANGED <<ctx, row, disk, memory, caller, cleaner, bounds>>

\* A fork fails when a cleaner took the directory it was about to copy.
StateDir(w) ==
    /\ worker[w].pc = "state"
    /\ \/ state' = state \cup {Hash(w)} /\ Goto(w, "record")
       \/ /\ Cleaners # {} /\ Hash(w) \notin state
          /\ Goto(w, "fail") /\ UNCHANGED state
    /\ UNCHANGED <<ctx, row, files, arow, memory, caller, cleaner, bounds>>

CreateBackendArtifact(w) ==
    /\ worker[w].pc = "record"
    /\ arow' = arow \cup {Hash(w)}
    /\ Goto(w, "finish")
    /\ UNCHANGED <<ctx, row, files, state, memory, caller, cleaner, bounds>>

SetReady(w) ==
    /\ worker[w].pc = "finish"
    /\ Update(worker[w].d, "ready")
    /\ IF Exists(worker[w].d) THEN Goto(w, "reload") ELSE Finished(w)
    /\ UNCHANGED <<ctx, disk, memory, caller, cleaner, bounds>>

Reload(w) ==
    /\ worker[w].pc = "reload"
    /\ Artifacts(w, worker[w].d, worker[w].rebuild)
    /\ UNCHANGED <<ctx, row, disk, memory, caller, cleaner, bounds>>

SetFailed(w) ==
    /\ worker[w].pc = "fail"
    /\ Update(worker[w].d, "failed")
    /\ Finished(w)
    /\ UNCHANGED <<ctx, disk, memory, caller, cleaner, bounds>>

(* buildArtifacts *)

Artifact(w) ==
    /\ worker[w].pc = "artifact"
    /\ IF worker[w].rebuild \/ Hash(w) \notin files
       THEN Goto(w, "enter") \/ (CanFail(w) /\ Goto(w, "unbuilt"))
       ELSE Goto(w, "built")
    /\ UNCHANGED <<ctx, row, disk, memory, caller, cleaner, bounds>>

ArtifactBuilt(w) ==
    /\ worker[w].pc = "built"
    /\ UpdateDownload(worker[w].d, "ready")
    /\ Finished(w)
    /\ UNCHANGED <<ctx, disk, memory, caller, cleaner, bounds>>

\* A cancelled build leaves the ref for the next start to resume.
ArtifactFailed(w) ==
    /\ worker[w].pc = "unbuilt"
    /\ IF ctx = "stopping" THEN UNCHANGED row
                           ELSE UpdateDownload(worker[w].d, "failed")
    /\ Finished(w)
    /\ UNCHANGED <<ctx, disk, memory, caller, cleaner, bounds>>

-------------------------------------------------------------------------------
(* EvictUnreachable ("poll"), Sweep ("sweep") and delete requests: a list  *)
(* of rows, and for each of them a mark followed by GCDeploy.              *)

Deletes(e) == e \notin {"poll", "sweep"}

Newest(d) == \A x \in Deploys : row[x].status = "ready" => x <= d

Candidates(e) ==
    {d \in Deploys :
        \/ e = "poll"   /\ row[d].status \in {"ready", "queued"}
        \/ e = "sweep"  /\ \/ row[d].status = "failed"
                           \/ row[d].status = "ready" /\ ~Newest(d)
        \/ Deletes(e)   /\ Exists(d)}

\* What GCDeploy is told of a row: its addresses as they were listed.
Snapshot(d) == [d |-> d, hashes |->
    {h \in Hashes : \/ h = Side[d] /\ row[d].hashed
                    \/ h = Download[d] /\ row[d].dl # None}]

\* ListDeploys; which candidates the tips or the policy condemn is open.
List(e) ==
    /\ ctx # "down" /\ cleaner[e].pc = "idle" /\ rounds < Rounds
    /\ \E S \in SUBSET Candidates(e) \ {{}} :
          /\ Deletes(e) => \E d \in S : S = {d}
          /\ cleaner' = [cleaner EXCEPT ![e].pc = "mark",
                                        ![e].todo = {Snapshot(d) : d \in S}]
    /\ rounds' = rounds + 1
    /\ UNCHANGED <<ctx, broken, row, disk, memory, worker, caller, strays, asked, lives>>

\* The next row of the list, or the end of the pass.
Move(e, l) ==
    cleaner' = [cleaner EXCEPT ![e] =
        IF l = "next"
        THEN IF cleaner[e].todo = {} THEN IdleCleaner
             ELSE [IdleCleaner EXCEPT !.pc = "mark", !.todo = cleaner[e].todo]
        ELSE [cleaner[e] EXCEPT !.pc = l]]

\* GCDeploy will not know of an address that got into the row after it was
\* listed, nor take what a worker is still building for a row that is deleted.
PassesBy(e, s) ==
    \/ row[s.d].hashed /\ Side[s.d] \notin s.hashes
    \/ Deletes(e) /\ \E w \in Workers : worker[w].d = s.d

\* A bug to catch: what others pin is read before the row is marked.
MarkLast(e) ==
    /\ cleaner[e].pc = "mark"
    /\ IF cleaner[e].d = None
       THEN /\ \E s \in cleaner[e].todo : cleaner' = [cleaner EXCEPT ![e] =
                   [pc |-> "mark", todo |-> @.todo \ {s}, d |-> s, live |->
                    {Side[x] : x \in {y \in Deploys \ {s.d} :
                                  row[y].hashed /\ row[y].status # "evicted"}}]]
            /\ UNCHANGED <<row, strays>>
       ELSE LET s == cleaner[e].d
            IN  /\ row' = IF Deletes(e) THEN [row EXCEPT ![s.d] = DeletedRow]
                          ELSE IF Exists(s.d) THEN [row EXCEPT ![s.d].status = "evicted"]
                          ELSE row
                /\ strays' = IF PassesBy(e, s) THEN strays \cup {Side[s.d]} ELSE strays
                /\ cleaner' = [cleaner EXCEPT ![e].pc = "drop"]
    /\ UNCHANGED <<ctx, disk, memory, worker, caller, asked, rounds, lives, broken>>

\* SetDeployEvicted, or DeleteDeploy; a row that is gone is passed over.
Mark(e) ==
    /\ cleaner[e].pc = "mark"
    /\ \E s \in cleaner[e].todo :
          /\ row' = IF Deletes(e) THEN [row EXCEPT ![s.d] = DeletedRow]
                    ELSE IF Exists(s.d) THEN [row EXCEPT ![s.d].status = "evicted"]
                    ELSE row
          /\ strays' = IF PassesBy(e, s) THEN strays \cup {Side[s.d]} ELSE strays
          /\ LET rest == cleaner[e].todo \ {s}
             IN  cleaner' = [cleaner EXCEPT ![e] =
                   IF Exists(s.d) \/ Deletes(e)
                   THEN [pc |-> "survey", todo |-> rest, d |-> s, live |-> {}]
                   ELSE IF rest = {} THEN IdleCleaner
                   ELSE [IdleCleaner EXCEPT !.pc = "mark", !.todo = rest]]
    /\ UNCHANGED <<ctx, disk, memory, worker, caller, asked, rounds, lives, broken>>

\* What the rows that are not evicted still pin.
Pinned ==
    {h \in Hashes : \E d \in Deploys :
        /\ Exists(d) /\ row[d].status # "evicted"
        /\ \/ h = Side[d] /\ row[d].hashed
           \/ h = Download[d] /\ row[d].dl # None}

Condemned(e) == cleaner[e].d.hashes \ cleaner[e].live

Survey(e) ==
    /\ cleaner[e].pc = "survey"
    /\ cleaner' = [cleaner EXCEPT ![e].pc = "drop", ![e].live = Pinned]
    /\ UNCHANGED <<ctx, row, disk, memory, worker, caller, bounds>>

DeleteBackendArtifact(e) ==
    /\ cleaner[e].pc = "drop"
    /\ arow' = arow \ Condemned(e)
    /\ Move(e, "files")
    /\ UNCHANGED <<ctx, row, files, state, memory, worker, caller, bounds>>

RemoveFiles(e) ==
    /\ cleaner[e].pc = "files"
    /\ files' = files \ Condemned(e)
    /\ Move(e, "state")
    /\ UNCHANGED <<ctx, row, state, arow, memory, worker, caller, bounds>>

RemoveState(e) ==
    /\ cleaner[e].pc = "state"
    /\ state' = state \ Condemned(e)
    /\ Move(e, "next")
    /\ UNCHANGED <<ctx, row, files, arow, memory, worker, caller, bounds>>

-------------------------------------------------------------------------------
(* Start, the cancellation of the work context, and the end of the program *)

\* A bug to catch: Start resumes what was queued and forgets what was building.
ListQueued ==
    /\ ctx = "up" /\ ~listed
    /\ listed' = TRUE
    /\ resume' = {d \in Deploys : row[d].status = "queued"}
    /\ UNCHANGED <<ctx, row, disk, work, rebuild, flight, worker, caller, cleaner, bounds>>

ListUnfinished ==
    /\ ctx = "up" /\ ~listed
    /\ listed' = TRUE
    /\ resume' = {d \in Deploys : InFlight(d)
                     \/ (row[d].status = "ready" /\ row[d].dl = "building")}
    /\ UNCHANGED <<ctx, row, disk, work, rebuild, flight, worker, caller, cleaner, bounds>>

Resume ==
    /\ ctx = "up" /\ Len(work) < WorkCap
    /\ \E d \in resume :
          /\ \A x \in resume : d <= x
          /\ work' = Append(work, d)
          /\ resume' = resume \ {d}
    /\ UNCHANGED <<ctx, row, disk, rebuild, flight, listed, worker, caller, cleaner, bounds>>

\* stopWork, on the way out of serve; the process will end.
Cancel ==
    /\ ctx = "up" /\ lives < Lives
    /\ ctx' = "stopping"
    /\ UNCHANGED <<row, disk, memory, worker, caller, cleaner, bounds>>

\* The process ends, after a Cancel or at any other moment.
Die ==
    /\ ctx # "down" /\ lives < Lives
    /\ ctx' = "down"
    /\ work' = <<>> /\ rebuild' = {} /\ listed' = FALSE /\ resume' = {}
    /\ flight' = [h \in Hashes |-> None]
    /\ worker' = [w \in Workers |-> IdleWorker]
    /\ caller' = [c \in Callers |-> IdleCaller]
    /\ cleaner' = [e \in Cleaners |-> IdleCleaner]
    /\ UNCHANGED <<row, disk, bounds>>

Start ==
    /\ ctx = "down"
    /\ ctx' = "up" /\ lives' = lives + 1
    /\ UNCHANGED <<broken, row, disk, memory, worker, caller, cleaner, strays, asked, rounds>>

-------------------------------------------------------------------------------
Process(w) ==
    \/ LoadRow(w) \/ MarkBuilding(w) \/ TakeRebuild(w) \/ Resolve(w)
    \/ Cache(w) \/ Enter(w) \/ BuildSteps(w) \/ Publish(w) \/ Replace(w)
    \/ Provision(w) \/ StateDir(w) \/ CreateBackendArtifact(w) \/ SetReady(w)
    \/ Reload(w) \/ SetFailed(w) \/ Artifact(w) \/ ArtifactBuilt(w)
    \/ ArtifactFailed(w)

RequestDeploy(c) == Create(c) \/ ResetDeploy(c) \/ SetRebuild(c)

Clean(e) ==
    \/ Mark(e) \/ Survey(e) \/ DeleteBackendArtifact(e)
    \/ RemoveFiles(e) \/ RemoveState(e)

Next ==
    \/ \E w \in Workers : Take(w) \/ Process(w)
    \/ \E c \in Callers : Ask(c) \/ RequestDeploy(c) \/ Enqueue(c)
    \/ \E e \in Cleaners : List(e) \/ Clean(e)
    \/ ListUnfinished \/ Resume \/ Cancel \/ Die \/ Start

\* Goroutines run, builds end (their steps have a timeout), the senders on
\* a full channel are served in turn, a cancelled program ends and a dead
\* one is started again.  A worker whose context is cancelled need not take
\* another id.
Fairness ==
    /\ \A w \in Workers : WF_vars(ctx = "up" /\ Take(w)) /\ WF_vars(Process(w))
    /\ \A c \in Callers : WF_vars(RequestDeploy(c)) /\ SF_vars(Enqueue(c))
    /\ \A e \in Cleaners : WF_vars(Clean(e))
    /\ WF_vars(ListUnfinished) /\ SF_vars(Resume)
    /\ WF_vars(ctx = "stopping" /\ Die) /\ WF_vars(Start)

Spec == Init /\ [][Next]_vars /\ Fairness

-------------------------------------------------------------------------------
(* Properties *)

WorkerPC == {"idle", "load", "mark", "flag", "hash", "cache", "enter", "join",
             "build", "publish", "replace", "provision", "state", "record",
             "finish", "reload", "fail", "artifact", "built", "unbuilt"}

\* Types of the variables; only an existing row has hashes or a download,
\* and an actor that is not idle has a deploy.
TypeOK ==
    /\ ctx \in {"up", "stopping", "down"}
    /\ broken \subseteq Fragile
    /\ row \in [Deploys -> [status : Statuses, hashed : BOOLEAN,
                            dl : {None, "building", "ready", "failed"}]]
    /\ \A d \in Deploys : /\ ~Exists(d) => ~row[d].hashed
                          /\ row[d].dl # None => row[d].hashed
    /\ files \subseteq Hashes /\ state \subseteq Sides /\ arow \subseteq Sides
    /\ work \in Seq(Deploys) /\ Len(work) <= WorkCap
    /\ rebuild \subseteq Deploys
    /\ flight \in [Hashes -> Workers \cup {None}]
    /\ listed \in BOOLEAN /\ resume \subseteq Deploys
    /\ worker \in [Workers -> [pc : WorkerPC, d : Deploys \cup {None},
                               side : {"side", "download"}, rebuild : BOOLEAN]]
    /\ \A w \in Workers : (worker[w].pc = "idle") = (worker[w].d = None)
    /\ caller \in [Callers -> [pc : {"idle", "create", "reset", "flag", "send"},
                               d : Deploys \cup {None}, rebuild : BOOLEAN]]
    /\ \A e \in Cleaners :
          cleaner[e].pc \in {"idle", "mark", "survey", "drop", "files", "state"}
    /\ strays \subseteq Sides /\ asked \in 0..Asks /\ rounds \in 0..Rounds /\ lives \in 1..Lives

\* Somebody is about to finish d's build: a request that will send it, the
\* channel, the resume at startup, or a worker that has not yet written the
\* outcome.
Held(d) ==
    \/ \E c \in Callers : caller[c].d = d /\ caller[c].pc \in {"flag", "send"}
    \/ \E i \in 1..Len(work) : work[i] = d
    \/ ~listed \/ d \in resume
    \/ \E w \in Workers : /\ worker[w].d = d /\ worker[w].side = "side"
                          /\ worker[w].pc # "reload"

\* No deploy is forgotten: while the program runs, every row that reads
\* queued or building is in somebody's hands (RequestDeploy returns such a
\* row as it is and relies on that), over kills, restarts and evictions.
InFlightHeld ==
    ctx = "up" => \A d \in Deploys : InFlight(d) => Held(d)

\* singleflight: however many deploys share an address, and however often
\* one deploy is queued, one worker at a time builds and publishes it.
OneBuildPerHash ==
    \A v, w \in Workers :
        /\ worker[v].pc \in {"build", "publish", "replace"}
        /\ worker[w].pc \in {"build", "publish", "replace"}
        /\ Hash(v) = Hash(w)
        => v = w

\* A deploy reads failed only if its own build steps fail, and ready only if
\* they do not, whichever worker built its address and whoever shared it.
\* (Until the program is stopped: see InterruptedIsNotFailed.)
OutcomeIsRight ==
    \A d \in Deploys :
        /\ row[d].status = "ready" => Side[d] \notin broken
        /\ row[d].status = "failed" /\ lives = 1 /\ ctx = "up" => Side[d] \in broken

\* buildDeploy: "ready must imply the state dir exists so the proxy's hot
\* path never provisions anything".  With it goes the backend_artifacts row.
ReadyIsProvisioned ==
    \A d \in Deploys :
        row[d].status = "ready" => Side[d] \in state /\ Side[d] \in arow

\* A ready deploy has its files, except while a rebuild of the same address
\* has moved them aside.  (A kill in that moment loses them.)
ReadyHasFiles ==
    lives = 1 /\ ctx # "down" => \A d \in Deploys :
        row[d].status = "ready" =>
            \/ Side[d] \in files
            \/ \E w \in Workers : worker[w].pc = "replace" /\ Hash(w) = Side[d]

\* Nobody is busy with the address h.
Settled(h) ==
    /\ \A w \in Workers : worker[w].d # None => Side[worker[w].d] # h
    /\ \A e \in Cleaners :
          /\ cleaner[e].d # None => h \notin cleaner[e].d.hashes
          /\ \A s \in cleaner[e].todo : h \notin s.hashes

\* Nothing is leaked: when all is quiet around an address, it is on disk only
\* for a deploy that is not evicted, also when the poller, the sweep and delete
\* requests take its last deploys at the same time: none may leave it to the
\* others.  (What does leak: the strays, and a kill in the middle of a pass.)
GarbageIsCollected ==
    lives = 1 /\ ctx = "up" =>
        \A h \in ((files \cup state \cup arow) \cap Sides) \ strays :
            Settled(h) =>
                \E d \in Deploys : Side[d] = h /\ Exists(d) /\ row[d].status # "evicted"

\* The queue implements DeployLife, whoever evicts, requests and kills: a status
\* is honest when it is written (process), of all who meet at an address one
\* builds it (singleflight in buildDeploy), and nobody else puts files there.
Builders(h) == {w \in Workers : worker[w].pc \in {"build", "publish", "replace"} /\ Hash(w) = h}

DL == INSTANCE DeployLife WITH
        Addresses   <- Hashes,
        Evicts      <- Cleaners # {},
        status      <- [d \in Deploys |-> row[d].status],
        bad         <- broken,
        building    <- [h \in Hashes |-> Builders(h)],
        published   <- files,
        provisioned <- state \cap arow,
        calm        <- lives = 1 /\ ctx = "up"

ImplementsDeployLife == DL!Spec

\* Every queued or building deploy gets an outcome, over kills and restarts.
InFlightResolves == \A d \in Deploys : InFlight(d) ~> ~InFlight(d)

\* The download of a ready deploy, built after readiness, does not stay in
\* building: an interrupted one is resumed by the next start.
ArtifactPending(d) == row[d].status = "ready" /\ row[d].dl = "building"
ArtifactResolves == \A d \in Deploys : ArtifactPending(d) ~> ~ArtifactPending(d)

\* No build is left half done: both outcomes arrive, over kills and restarts.
BuildsResolve == InFlightResolves /\ ArtifactResolves

\* buildArtifacts: "a cancelled build is an interrupted one, not a failed
\* one"; Start "re-enqueues deploys interrupted by a previous shutdown".
InterruptedIsNotFailed ==
    \A d \in Deploys : row[d].status = "failed" => Side[d] \in broken
==============================================================================
