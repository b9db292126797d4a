# A verification project for local-preview

local-preview builds every pushed commit of the repositories it watches into a
*deploy*, content-addresses what it builds, and runs previews on demand: the
first request for `<deploy>.<domain>` starts the processes, idleness stops
them. This directory holds TLA+ models of the parts of that program whose
correctness depends on the order of events, the TLC configurations that check
them on small instances, and TLAPS proofs of what holds for every instance.
Paths below are relative to the repository.

1. [The system](#1-the-system)
2. [Modules](#2-modules)
3. [Supervise and KeyLife](#3-supervise-and-keylife)
4. [BuildQueue](#4-buildqueue)
5. [The services around them](#5-the-services-around-them)
6. [Runs and bounds](#6-runs-and-bounds)
7. [Fairness](#7-fairness)
8. [Proofs](#8-proofs)
9. [Where the code and its comments disagree](#9-where-the-code-and-its-comments-disagree)
10. [What is not modelled](#10-what-is-not-modelled)
11. [Plan](#11-plan)

## 1. The system

One Go program (`cmd/server`, or embedded through `orchestrator`) over one
SQLite database and one artifact directory. In a fleet, one control node holds
the database and worker nodes run the processes.

| component | state it keeps | operations | what makes it correct |
|---|---|---|---|
| process supervisor `internal/supervise` | the process table, one lock per key, failure records, `process_records` rows, container labels | EnsureRunning, start, exit watchers, Stop, StopAll, the fork's quiesce, ReclaimOrphans, the reaper | at most one child per key; every child is tracked; a state directory is copied only while its backend is down; everyone who waits is answered; what survives an unclean exit never runs beside its successor |
| build queue `internal/build`, `internal/db/deploys.go` | deploy rows and their statuses, the work channel, rebuild flags, flights in progress | RequestDeploy, process, buildArtifacts, EvictUnreachable, the resume at start | no deploy is forgotten; one build per content address; the status says what happened; ready means published and provisioned |
| retention `internal/retain`, `Manager.GCDeploy` | nothing of its own (a policy in the settings) | Sweep, the collection after each eviction | what a serving deploy needs is not collected; what nobody needs is |
| artifact store and tier `internal/store`, `internal/s3store`, `internal/reconcile` | published directories, `tmp/`, access times; objects in the bucket; upload jobs | publish, hydrate, cache eviction, Save, reconcile | a published directory and an object are whole; what is ready is durable |
| build inputs `internal/manifest`, `internal/hashkey`, `internal/devcontainer` | manifests kept on the server | resolve, digest, build, run | whoever shares an address is served what its own commit declares |
| init steps and wire specs (`internal/supervise`, `internal/workerapi`) | which one-time init ran, on both nodes; specs sent with each ensure | OfferWireSpec, markInitDone, revokeInitDone, AdoptRemoteInitDone | init that never succeeded is not believed; init that was lost is run again |
| fleet registry `internal/fleet`, `internal/workerapi` | registered workers, last heartbeats, counters, warm policy | Upsert, pollOnce, SetMaxWarm | no hit is lost or counted twice; settings reach every worker |
| placement and scaling `internal/fleet`, `internal/cloudscale` | heartbeats, recency, demand, protected instances | place, minWarmQuotas, Publisher.tick | a key sticks to its worker; the floor is protected; the memory of the protection is wrong only where a call's answer was |
| deploy networks (`internal/supervise/container.go`) | docker networks | EnsureNetwork, releaseNetwork, removeLabeled | a pair shares one; the last to leave removes it |
| repository watcher `internal/watch` | the baseline and the last pass per repository | PollAll, pollRepo, reconcile | each branch head becomes a deploy; what a branch still holds is not evicted |
| clone `internal/clone` | clone jobs, the mirror on disk | Begin, Cancel, the resume at start | a repository ends cloned or failed; a ready one has its mirror, a deleted one leaves none |
| proxy `internal/proxy` | a route cache | ServeHTTP, the interim page | every page ends on the preview or on a final error |
| sign-in `internal/api/auth.go`, `internal/githubsso`, the proxy's redirects | sessions, grants, cookies | handshake, login, callback | no redirect goes round for ever |
| exec sessions `internal/supervise/exec.go`, `internal/execstream` | connections and goroutines per hop | Exec, Serve, the copiers | the exit status is the command's; nothing is left behind |
| run logs `internal/supervise/view.go` | log files per start | RunLog, the follower | a follower sees each attempt's bytes in order, none twice |
| HTTP responses `cmd/server/compress.go`, `main.go` | a pool of compressors | WriteHeader, Write, Flush, recoverPanics | the client gets the handler's answer in one encoding |
| deploys list `internal/db/deploys.go`, `orchestrator` | none | a page: crashed keys, count, rows, decoration | a change shifts the window, no more |
| the rest of the API, the command line, configuration, clients of docker / git / the cloud, dashboard | none | | |

How they meet:

* The watcher, the API and the command line call `Queue.RequestDeploy`; workers
  of the queue build, publish into the store, and ask the supervisor to
  provision a state directory (`ForkOrInitStateDir`), which stops the ancestor's
  backend under its key lock while the directory is copied.
* The proxy calls `EnsureRunning` (through the fleet's registry, or directly);
  a frontend's start calls `EnsureRunning` for its backend with its own key
  locked.
* The watcher (`EvictUnreachable`), the sweeper and the delete handler mark
  rows and call `GCDeploy`, which stops processes and removes rows and files.
* In a fleet, `EnsureRunning` asks the placement for a worker and carries the
  run spec (with what is known of init) to that worker's supervisor; heartbeats
  carry counters back and settings out; a fleet at zero is woken by the demand
  that failed placements count.
* A supervisor that starts a container resolves the deploy's network and the
  artifact's directory, which the cache may have to fetch from the tier first.
* On the way out `serve` (`cmd/server/main.go:445-468`) cancels the work
  context, calls `StopAll` and closes the database; the next start runs
  `ReclaimOrphans` and resumes unfinished deploys.

What is hard here: the key lock, the table mutex, three channels per process
and the exit watcher are four synchronisation devices for one object; database
statements are separate steps with no transaction around them; the program may
be killed at any of them; the decision to delete is taken from rows that
builds go on changing; directories and objects are shared by builds, uploads,
fetches and sweepers that take no lock; and what one node knows of another is
as old as the last answer that came through. `PROJECT.json` lists each such hazard at its line, with
the properties that cover it or the reason none does.

## 2. Modules

| module | what it is |
|---|---|
| `Supervise` | the process table of one `supervise.Manager`, with restarts of the program |
| `KeyLife` | the abstract specification `Supervise` implements: the life of the children of a key |
| `MCSupervise` | instances of `Supervise` |
| `SuperviseProofs` | the inductive invariant and the refinement of `KeyLife`; a second invariant on top of it: rows, containers, pairs, outcomes, Stop |
| `BuildQueue` | the deploy rows, the build workers, publication, provisioning, eviction |
| `DeployLife` | the abstract specification `BuildQueue` implements: what rows say, and who builds and publishes an address |
| `MCBuildQueue` | instances of `BuildQueue` |
| `BuildQueueProofs` | its inductive invariant: types, held deploys, one builder per address |
| `BuildQueueMoreProofs` | what a status says: ready builds, and without evictions is provisioned and published; that garbage is collected; the refinement of `DeployLife` |
| `ArtifactStore`, `ArtifactStoreProofs` | artifact directories as a cache of the durable tier; proofs |
| `ArtifactLife` | the abstract specification `ArtifactStore` implements: how directories and objects come and go |
| `BuildInputs` | what an address stands for |
| `InitSteps` | init over a fleet of workers |
| `FleetRegistry` | announcements, heartbeats, counters, settings |
| `FleetPlacement` | placement, the warm floor, scale-in protection |
| `DeployNetwork` | the docker network of a frontend and its backend |
| `RepoWatch`, `MCRepoWatch` | the watcher of one repository; an instance for the eviction it gets wrong |
| `CloneJobs` | registration, clone and deletion of a repository |
| `PreviewPage` | a browser on a preview that is not up yet |
| `SignIn` | the redirects of a browser that is not signed in |
| `ExecSession` | one `preview exec` |
| `RunLogs` | one `preview deploy logs --run --follow` |
| `Responses` | compression and panic recovery of responses |
| `DeployPages` | browsing the deploys |
| `Reaper` | which processes the warm policy stops |
| `FleetProofs` | proofs for `FleetPlacement`, `FleetRegistry`, `InitSteps` |
| `DeployProofs` | proofs for `CloneJobs`, `DeployNetwork`, `BuildInputs`, `DeployPages` |
| `StreamProofs` | proofs for `RunLogs`, `ExecSession`, `Responses` |
| `MCServices` | instances of the components from `ArtifactStore` on |
| `ServicesProofs` | proofs for `RepoWatch`, `SignIn`, `PreviewPage`, `Reaper`, and for all parts of `MCServices` together |

Where the modules meet, each takes the other's promise in the weakest form it
needs:

* `Supervise` and `BuildQueue` meet at the fork of a state directory. `Supervise`
  has its locking in full (a Stop of kind `fork`); `BuildQueue` takes it as one
  step in which the directory appears or, if a cleaner may have taken the source
  away, the fork fails.
* `BuildQueue` publishes in one step and has no tier; `ArtifactStore` has the
  rename, the tier and the uploads, and takes the queue as one build at a time
  of an address, and the survey of what may be collected as done.
* `InitSteps` and `DeployNetwork` take starts as coalesced per key, which
  `Supervise` shows; so does `Reaper`, with Stops that return when nothing of the
  key runs.
* `RepoWatch` knows of a deploy whether it lives or was evicted; `PreviewPage`
  has its statuses and its process's; neither has its build.
* `FleetPlacement` uses heartbeats and reports, which `FleetRegistry` delivers.

The definitions marked "A bug to catch", and the few in `Supervise` described
as forgetting or skipping something (`ForgetAnyone`, `DrainedAtOnce`,
`ForgetRow`, ...), are not part of the specification. Each is the definition
after it with a plausible mistake, and substituting it makes the property named
in `PROJECT.json` fail: they show that the properties bite.

## 3. Supervise and KeyLife

A `Key` names an artifact to run. `Manager.procs` maps a key to at most one
`process` object; `Procs` is the set of objects, each used once, so its size
bounds the number of starts. The goroutines of the code are locations:

| code | model |
|---|---|
| `EnsureRunning` (405-483) | `call[c]`: `Ensure`, then `Refuse`, `Join` or `Register` under the table mutex, a wait on the object's channels ended by `GotReady`, `GotDead`, `GotFailed` or `GiveUp` (the request's context ends); one retry (`MayRetry`) |
| `start` (877-1063) | `pc[p]`: `StartAcquire` (key lock), `Load`, for a frontend the nested EnsureRunning of its backend (`call[p]`), `Launch`, `Record`, `HealthOK` / `HealthFail`, `Drained`, `Publish`; and its deferred failure path `FailNote`, `FailClose`, `FailForget`, which gives the lock back last |
| child and exit watcher (1005-1029; container.go 149-174) | `child[p]`, `watch[p]`: `ChildExit`, `CloseDone`, `WatchForget`, `Unrecord`, `NoteExit`; the container path has no row to delete |
| `Stop`, `stopLocked` (1336-1384) | `stop[t]`: `BeginStop`, `StopAcquire`, `NothingToStop` or `Terminate`, `StopDrained` |
| `ForkOrInitStateDir`'s quiesce (1677-1688) | the same with `CopyDone` before the lock is released |
| `StopAll` (1401-1419), `serve`'s end | `StopAll`, `Exit` |
| a kill, `ReclaimOrphans` (1591-1641) | `Crash`; `ReclaimRow` per row; `Boot`, which removes those labelled containers it can |

Decisions worth knowing when reading it:

* `Stop` reads the table once it has the lock and finds an object that has not
  launched yet with nothing to kill (`NothingToStop`): this is the code, and
  the source of the first finding.
* A host child writes a `process_records` row after it is launched
  (`Record` is a step of its own); a container is found by its label instead.
  The devcontainer default falls back to the host when no daemon answers, so
  for keys in `Containered` the choice is open.
* Database writes of process records and `killProcess` succeed. The start of a
  container either leaves a container or an error, not both.
* The sweep by label at the start is skipped without a word when Docker is
  unreachable (supervise.go:1589, 1621-1624), and each removal may fail (1631): `Boot`
  sweeps any subset, so a container of an earlier life may run on while the next
  serves. What then stands between it and its successor is the removal by name
  before a container is created (container.go:92-99, `NamesakeGone`), which a
  successor on the host does not do.
* Recency, warm targets and hit counts only decide whom the reaper stops; a
  reap is a Stop of any key at any time, which `Tasks` of kind `user` allow.
  Whom the reaper stops is in `Reaper`.

Properties, all of them about several goroutines at once:

* `OneChildPerKey`, `LiveChildTracked`: no two servers on one state directory;
  no child that Stop and the reaper cannot find.
* `QuiescedCopy`: nothing of a backend runs while its directory is copied.
* `TrackedHasOutcome`: no table entry reads "starting" with nobody starting it.
* `FailureSubject`: a reported failure is about a dead process of that key,
  and not one that a Stop took down or that ended cleanly.
* `NoRivalOfEarlierLife`: a child of an earlier life of the program does not run
  beside the next one of its key, on the same state directory. Two cases are
  allowed, and the code has both: a host child that no row named when its life ended
  (`unnamed`: a kill between launch and row, or the row lost to an old watcher), and
  a container left by the sweep, when the key's next child runs on the host.
* `FrontendAfterBackend`: a frontend runs only with the port of a process of
  its own backend that was healthy.
* `StopLeavesNothing` (an action property): when Stop returns, or a fork begins
  to copy, no child of that key is alive.
* `CallAnswered`, `StopReturns`: every request that enters EnsureRunning is
  answered, its retry included, and every Stop returns, a fork's too. A request waits
  for a frontend's start, which waits, its lock held, for the backend's start,
  which waits for the backend's lock, which a fork holds while it copies: no such
  chain closes, and none ends at somebody with nothing left to do.
* `ImplementsKeyLife`: `KeyLife` says that a key has at most one child at a
  time, an object is launched at most once, and a copy begins only without a
  child and no child is launched during it. The mapping reads the running child
  of a key off `child`, the copies off `stop`, and the used objects off `child`.

## 4. BuildQueue

Deploy ids are numbers in the order of creation; `Side[d]` is the content
address of what the deploy serves, `Download[d]` that of its downloadable
artifact or `None`. `broken`, chosen at the start from `Fragile`, is the set of
addresses whose build steps fail: a commit builds or it does not. A row has its
status, whether its hashes are written, and the status of its download.

| code | model |
|---|---|
| `RequestDeploy` (220-258) | `caller[c]`: `Ask` (the lookup and the switch), `Create` or `ResetDeploy`, `SetRebuild`, `Enqueue` (blocks while the channel is full) |
| `worker`, `process` (198-207, 360-420) | `worker[w]`: `Take`, `LoadRow`, `MarkBuilding`, `TakeRebuild`, then `buildDeploy`, `SetReady` or `SetFailed`, `Reload` |
| `buildDeploy` (472-600) | `Resolve` (manifest, hashes, download refs), `Cache`, `Enter` / `BuildSteps` / `Land` (singleflight), `Publish` / `Replace` (a rebuild moves the old directory aside), `Provision`, `StateDir`, `CreateBackendArtifact` |
| `buildArtifacts` (672-746) | `Artifact`, the same flight, `ArtifactBuilt` / `ArtifactFailed` |
| `EvictUnreachable`, `Sweep`, delete; `GCDeploy` | `cleaner[e]`: `List`, `Mark`, `Survey`, `DeleteBackendArtifact`, `RemoveFiles`, `RemoveState` |
| `Start`, the work context, a kill | `ListUnfinished`, `Resume`, `Cancel`, `Die`, `Start` |

Which rows a pass condemns is any nonempty subset of those it may choose from:
the tips of the branches and the policy's arithmetic are data. The sweep spares
the newest ready deploy.

Properties:

* `InFlightHeld`: whenever the program runs, a row that reads queued or
  building is in somebody's hands. RequestDeploy answers "already in flight"
  for such a row and does nothing, so a row that nobody holds would be stuck
  for good. It has to survive kills, full channels, evictions and a deploy that
  is queued twice.
* `ImplementsDeployLife`: for those who read the table and the disk, the queue,
  with singleflight, the channel, the resume and the kills in it, is `DeployLife`:
  a row is set to ready only of an address that builds, and, as long as nothing
  is evicted, that is provisioned and, until the program is stopped, published or
  being replaced; to failed, under the same conditions, only of one that does not
  build. An address gets a builder only when it has none and only its builder
  moves or publishes its files; a build is given up only if it is broken or the
  program stops. A deleted row never returns. The mapping reads the builders of an
  address off the workers' locations, and takes as provisioned what has both a
  state directory and a row. `OneBuildPerHash`, singleflight across workers,
  deploys and rebuilds, is the invariant behind the builders.
* `OutcomeIsRight`: a deploy fails only if its own build fails, and is ready
  only if it does not, whoever built and whoever shared. Stated up to the first
  stop of the program; `InterruptedIsNotFailed` is the same claim beyond it,
  which the code does not keep.
* `ReadyIsProvisioned`: "ready must imply the state dir exists" (build.go:554),
  and its row, over kills between any two of the steps. Holds without cleaners;
  with them the code does not keep it.
* `ReadyHasFiles`: a ready deploy has its published directory, but for the
  moment a rebuild replaces it, and up to the first kill (a kill in that moment
  loses the directory: a hazard without a fix in the code's order of steps).
* `GarbageIsCollected`: the poller, the sweep and delete requests, two or three
  at once, do not leave the last deploys of an address to each other: each marks
  its rows, or deletes them, before it surveys. When all is quiet around an address
  it is on disk only for a deploy that is not evicted. Two things escape, and
  `strays` records the addresses: the poller passes a row on as it listed it, and a
  row listed before it was built names no address (build.go:336); and a row deleted
  while a worker builds it names none that is on disk yet. A kill in the
  middle of a pass leaks too, which is why the property speaks of the first life.
* `BuildsResolve`: a requested deploy and its download get an outcome, over
  kills and restarts.

## 5. The services around them

Each of these modules models one conversation that no lock and no transaction
holds together. Their code and line ranges are in `PROJECT.json`'s map; here is
what to know before reading one.

**ArtifactStore** (`internal/store`, `artifacttier.go`, `upload.go`,
`internal/s3store`, `internal/reconcile`). A directory is "whole" or "part", an
object "good", "bare" (no metadata) or "short"; rename is atomic, `os.RemoveAll`
is not (`removal[a]` from its first file to its last), a walk under a removal may
see either. `job` is a build worker and a CI upload, `save` the calls of
`Tier.Save` by the persist pool, the build that must be durable, and the
reconciler. Sizes, ages and the order of candidates are open. `WholeUnlessTorn`:
builds, uploads, hydrations that break off and kills never leave part of an
artifact under its address or in the tier, unless a removal was caught half done
(a walk that overlapped it, a kill inside it): `torn` marks these, and what follows
from them is in section 10. `ImplementsArtifactLife`: to a reader, who sees of an
address its directory, its object and whether a deploy of it is ready, all this is
`ArtifactLife`: a directory appears only where there is none, as a copy, and goes by
one rename or by a removal that takes its time; an object is stored as a copy; copies
are whole as long as no removal was caught half done, and only a removal under way can
be. A deploy turns ready when its object is there or its files are gone
(`ReadyIsDurable`, artifacttier.go:137). The mapping reads "going" off `removal`.

**BuildInputs** (`internal/manifest`, `internal/hashkey`, `internal/devcontainer`,
`build.go`, `containerrunner.go`). The digest is injective: an address is the
tuple of what is hashed. A commit changes a file, a section, a devcontainer, an
image or what a path means; a manifest on the server's disk changes at any time;
the daemon comes and goes. `ServedAsDeclared`: whoever shares an address is served
files, steps and an environment that its own commit declares, built or uploaded
by whichever commit came first. The exceptions in it are the code's: what was
built or started without a daemon, and a download built from a manifest edited
in between.

**InitSteps** (`supervise.go`, `workerapi`). `row` is the control node's
`init_done_at`, `wireDone` and `revoked` a worker's own book, `made` what init
leaves in the services outside, which may be lost. Ensures carry an offer, are
answered, time out, and join starts that another offer began. `RecordIsEarned`: the
control node believes no init that never succeeded. `BlindStartsEnd`: starts
without what init makes fail only finitely often after the last loss.

**FleetRegistry** (`fleet.go`, `workerapi/control.go`). Per endpoint a machine and
the registry's entry for it; announcements and answers to polls may come from the
machine that took the place of the one asked. `HitTotalsCount`: what a worker
contributes to the totals never falls while it is registered, and no hit counts
twice, through restarts, failed polls and late answers. The fleet's own totals do
fall, whatever the comment on `warmBase` says (section 9).
`PolicyReachesWorkers`: without persistence on the workers, each ends up with what
the dashboard set last.

**FleetPlacement** (`fleet.go`, `runtime.go`, `cloudscale.go`). Rendezvous weights
are any ranking per key without ties. `OnlyAffectedKeysMove`: between two states
of the fleet in which somebody is free, a key moves only from a worker that no
longer is, or to one that was not. `FloorIsProtected`: the shares each worker
applies to its own recency protect exactly the fleet's latest processes, as long
as no key runs twice. `OnlyLostAnswersMislead`: the publisher's memory of the
group's protection, by which it skips calls, is wrong only about an instance whose
last call was applied and answered with an error (`misled`); `Tick` has calls refused
and calls whose answer is lost.

**DeployNetwork** (`container.go`, `dockerapi/runtime.go`). There is no count of a
network's members: the daemon refuses to remove one with a running container, and
`netMu` covers the gap between the lookup and the container's start.
`PairSharesNetwork`: whoever looked a network up finds it until its container is
on it, a pair shares one, and nothing is left when both are down, except after a
creation that failed or a release that came too late (`kept` says which).

**RepoWatch** (`watch.go`, `webhook.go`, `build.go`'s eviction). A pass is fetch,
baseline, a deploy per tip, eviction, and the cache of its result, with requests that
fetch the same mirror, changed settings, deletions and restarts in between.
`TipsGetDeployed`: each watched tip gets a deploy, unless it was there before
watching started or the cached pass was overtaken by somebody else's fetch.
`LiveCommitIsKept` is what build.go promises of the eviction, and does not hold.

**CloneJobs** (`internal/clone`, `gitrepo.go`, `api.go`). The row and the job go by id,
the mirror by name: a deleted repository and the next of its name share the place on
disk. Registration inserts the row, stores the watch settings and begins the clone in
steps of their own; the clone clears its place and moves in in two; each call of the
database and each removal may fail, and any number of requests delete.
`MirrorFollowsRow`: when the rows are gone and nobody works any more, so is the
mirror, unless the last attempt to remove it failed or was killed (`leftover`); and a
ready repository has the mirror it cloned, unless it was registered `beside` a clone
or a deletion of an earlier one of its name, whose late step takes the mirror for its own.
`CloneEnds`: no repository stays "cloning", whatever kills the server, but one that
the database failed (`stranded`), until the next start. `ShutdownIsNoFailure` is what
clone.go promises of a shutdown, and does not hold.

**PreviewPage** (`internal/proxy`, `fleet.go`). A browser, the cached route, the deploy's
status, its process, and a fleet that may be at zero. `PageSettles`: every page
ends on the preview or on a final error, through a build, an eviction, a stale
route, and metrics that are lost while they should wake the fleet.

**SignIn** (`proxy.go`, `api/auth.go`, `internal/githubsso`). One browser whose tabs share
three cookies of different scope. `NavigationLands`: whatever expires on the way,
every navigation ends, unless onyx's cookie outlives the token in it.

**ExecSession** (`supervise/exec.go`, `execstream`, `dockerapi/exec.go`, `cmd/server/exec.go`).
Links with their two ends and two queues, copiers at each hop, the bridge and its
pump, the engine's stream, the command. `StatusIsTheCommands`: the command line
exits with the command's status, after all of its output. `SessionEnds`: nothing is
left of a session whose client is gone or whose command has ended, except while
the command does not read its stdin.

**RunLogs** (`view.go`, `fleet/runtime.go`, `cmd/server/deploy.go`). Files as
lengths, numbered per node; a cursor of attempt and offset; the control node's choice
of whom to ask. `FollowedInOrder`: within an attempt nothing is printed twice and, after
the first slice, nothing left out; the next attempt is announced and begun at its start
or its tail, not at the old one's offset; as long as the process and its logs stay on
their node: a cursor does not say whose attempt it counts. What was unread of the
old attempt is not shown: answers are of the latest only (docs/reference/api.md:366).

**Responses** (`compress.go`, `main.go`). The decision to compress is held back until a
status, a header, the size, a flush or a hijack forces it; compressors are pooled.
`WireIsTheResponse`: the client gets the handler's status and its bytes in order, in
the encoding the headers name, all of what was written by a flush once it returns and
the whole once the handler does. A hijack may come without any status: the proxy
answers an upgrade on the bare connection.

**DeployPages** (`db/deploys.go`, `orchestrator.go`, `api.go`). A page is four reads.
`WindowOnlyShifts`: rows shown twice, missed, or shown against the filter are no more
than the changes that touched rows the browse looks at; with a pin, new deploys are
none. A pinned browse comes from the embedding API, which cannot filter by crashes but
by status; the page of the HTTP API takes the other filters and no pin (`FiltersOf`).

**Reaper** (`supervise.go`'s `reap`). Recency is three ages: in active use, past the
active window, past the idle timeout. A pass makes its list (floor, pairs, idle,
target) from one look at the table and then stops it key by key; the ticker's and
one that a start begins run side by side, and requests, starts and deaths come
between. `BurstIsPruned`: once nobody asks, what runs comes down to the floor,
or without idle timeouts to the target (a pair counts, and goes frontend first).

`PartsConsistent` of `MCServices` is the one type invariant of the run, with
`RecordIsEarned`, `FloorIsProtected` and `OnlyLostAnswersMislead`. `VisitorArrives` is
`NavigationLands` and `PageSettles` together: the two halves of opening a preview.

## 6. Runs and bounds

| run | instance | result |
|---|---|---|
| `supervise` | one containered-or-host backend, two starts, one caller, a fork and StopAll, crashes and restarts; symmetry in the objects | 9 properties hold; 831 thousand states |
| `supervise_pair` | a frontend and its backend, three starts between them, one caller with its retry, forks of the backend | `FrontendAfterBackend`, `CallAnswered` and `StopReturns` hold; 174 thousand states |
| `supervise_shutdown` | one host backend, StopAll | `NoChildOutlivesShutdown` is violated |
| `supervise_record` | one host backend, two starts | `RecordNamesLiveChild` is violated |
| `build_queue` | two deploys of one side, the first with a download; two workers, a channel of one, three requests, one kill or stop; the side builds or fails; symmetry in the workers | 6 hold; 1.0 million states |
| `build_queue_clean` | two deploys of one side, one worker, two requests, a pass each of the poller, the sweep and a delete request or three among them, at once or in turn | `GarbageIsCollected` holds; 1.9 million states |
| `build_queue_live` | one deploy with a download that builds or fails, two workers, two requests, one kill or stop | `BuildsResolve` holds; 75 thousand states |
| `build_queue_serve` | two deploys of one side, one worker, one pass of the poller | `ReadyIsProvisioned` is violated |
| `build_queue_signal` | one sound deploy, one stop in its build | `InterruptedIsNotFailed` is violated |
| `services` | fifteen parts, below | 19 hold; 255 thousand states |
| `watch_eviction` | one repository, two branches and commits, two pushes, one request | `LiveCommitIsKept` is violated |
| `clone_shutdown` | two repositories of one name, one outage | `ShutdownIsNoFailure` is violated |

The bounds are the constants: `Procs` (starts), `Callers`, `Tasks` (the Stops
that may run), `Asks`, `Rounds`, `Lives`, `WorkCap`. Two objects are what the
races of `Supervise` need: an old one that is ending and a new one that takes
its key. With one key nothing is lost for the properties about one key; two
keys matter only for the pair, which is a run of its own, with an object for a retry
of either. There `PairStep` leaves out what decides nothing about waiting: requests
ask for the frontend, do not give up, objects are taken in order, a start that fails before
its child runs fails at the launch, and children exit cleanly, once they are ready or
signalled. `ListedFirst` starts the evictions' run with the
resume of an empty table, since a late resume is one more request to them. Two deploys that share
an address are what sharing, collecting and joining need; two workers for one
flight; a channel of one for the full channel (the code has 256: the model needs the
case to happen, not the number); three requests so that a deploy is requested,
finished, requested again and rebuilt while the other builds. The proofs remove
the bounds for what they cover.

The parts of `services` have no state in common, so their product would show
nothing that each alone does not, and multiply the states. A behaviour of
`MCServices` is therefore one of one part, chosen at the start, while the others
stay in an initial state; a temporal property of a part holds in every other
behaviour because that part keeps still in it. Bounds, per part:

| part | instance |
|---|---|
| artifacts | one address (addresses do not interact), one reader, one upload worker, a queue of one, one build or upload, one sweep, one failing call or kill; every state of disk and tier to start with: 75 thousand states |
| init steps | two workers, one ensure at a time, one loss, one reboot: 10 thousand |
| registry | one endpoint, two instances in its place, two policies set twice, one hit of each kind, one restart, one failed call: 7 thousand |
| placement | two workers with different caps, one of them a cloud instance, two keys that prefer different ones, a floor of one, one stall or failed call, applied or not: 16 thousand |
| watcher | two branches, two commits, two pushes, two changes of the settings, one other event, not all five in one behaviour: 24 thousand |
| clones | two repositories of one name, one deleter, one outage, one failing call: 15 thousand |
| sign-in | two tabs, two visits, one expiry, an onyx cookie of before: 2 thousand |
| page | one page, three faults: 2 thousand |
| exec | two hops, one chunk each way: 18 thousand |
| inputs | every manifest and change of it for two commits (changes of images alone where the server starts without Docker), one call from outside: 19 thousand |
| logs | two nodes, two starts, files of three bytes in all (two once a node or its logs are gone), tails and chunks of one, one loss: 22 thousand |
| network | three networks, two faults: 6 thousand |
| responses | two responses, one of any kind, two compressors, two units to the threshold: 23 thousand |
| reaper | a frontend and its backend, every floor and target of 0 and 1, with idle timeouts or without: 4 thousand |
| listing | three deploys, pages of one, one process, two changes: 15 thousand |

One of each bounded event is what separates the cases: these hazards are one
fault, or one actor, at the wrong moment. Where two are needed the bound is two:
two workers for an answer that went to the other, two instances for the machine that
took another's place, two tabs that share a cookie, two changes of the settings (off
and on again), two commits for an address that is shared. The proofs lift the
bounds of all fifteen for what is not liveness.

Deadlock is checked in the Supervise runs, where some step is always possible. In
the BuildQueue runs requests and restarts are bounded, so the system may
rightly come to rest, and `CHECK_DEADLOCK` is off; getting stuck before that
is what `BuildsResolve` is about. The same holds of `services`, `watch_eviction` and `clone_shutdown`,
where everything that comes from outside is bounded and its liveness properties are
about getting stuck.

Symmetry is used only where all properties are of safety: in the objects of the
supervisor, and in the workers of the queue, which are alike. The liveness runs use
none.

## 7. Fairness

Assumed, because the code justifies it:

* every goroutine that can take a step takes one (weak fairness per caller,
  start, watcher, Stop, worker, request, eviction pass);
* the health check ends (`awaitHealthy` has a deadline), a signalled child dies
  (SIGKILL follows the grace period), a build ends (its steps have a timeout);
* a key lock and a full channel serve their waiters in turn (strong fairness of
  the acquire and the send: Go's mutex hands over to a starving waiter, senders
  on a channel queue up);
* workers announce themselves and are polled on timers, each call with a timeout
  (`FleetRegistry`: weak fairness of Announcing and Polling);
* the watcher's loop goes on with its pass (`RepoWatch`); a clone's goroutine
  ends, and a server that went down is started again (`CloneJobs`);
* a browser follows redirects and its page polls, routes expire, the autoscaler
  answers a demand it is told of; a metric may fail, but one that is published
  again and again gets through (`PreviewPage`: the strong fairness of
  PublishDemand while there is demand);
* goroutines of an exec session that can step do (`ExecSession`). Of the engine and
  the network this is an assumption: the handshake that starts the exec has no
  deadline (dockerapi/exec.go:86-91), and those of the connections are cleared
  (execstream.go:168, 171), so a peer that never answers holds its session;
* the reaper's ticker fires, a pass goes on with its Stops, starts and Stops end, and
  time passes (`Reaper`);
* a program that was told to stop ends, and one that ended is started again.

Not assumed: that a request, a Stop, an eviction or an unprovoked exit of a
child ever comes; that a worker whose context is cancelled takes another id;
that a running program is killed; that a command in an exec session reads its input,
prints or ends; that a worker which left comes back; that requests for a preview cease or
do not. `CallAnswered` and `StopReturns` are stated
for `FairSpec`, in which the program is not killed: a kill answers nobody.

## 8. Proofs

### Supervise

All from one assumption, `SuperviseAssumption`: a frontend's peer is a backend,
which has no peer; the tasks are stops of keys; the identifiers of different
kinds are different. TLC evaluates it in every run of `MCSupervise`.

`SuperviseProofs!IInv` is the inductive invariant. The properties are not
inductive by themselves; `OneChildPerKey` needs in turn that

* a key's lock is held by exactly the start or Stop that is past its acquire
  (`LockInv`), so two starts of a key do not launch side by side;
* an object that has not launched is in the table, and has no child, watcher or
  closed channel (`FreshInv`), so the key it will launch for is free of any
  other tracked object;
* whoever takes an object out of the table knows its child is over: `done`,
  `failed`, the watcher's late locations (`OverInv`). This is where the order
  of the code matters: a failing start waits for `done` before it fails.

From these, `LiveChildTracked`: a running child is in the table; and a table
has one entry per key. `DrainInv` and `CopyInv` say that during a Stop nothing
runs under the key but what the Stop took down; `CallInv`, `KeyInv`, `RowInv`,
`DownInv` and `TypeOK` serve the others. The proof that a step preserves each
conjunct has one step per action.

| theorem | says, for all keys, objects, callers and stops |
|---|---|
| `TypeCorrect` | `Spec => []TypeOK` |
| `LiveChildIsTracked` | `Spec => []LiveChildTracked` |
| `AtMostOneChild` | `Spec => []OneChildPerKey` |
| `CopyIsQuiesced` | `Spec => []QuiescedCopy` |
| `KeyLifeImplemented` | `Spec => KL!Spec`: each action maps to a Launch, Die, BeginCopy, Lose or a stutter, under `IInv` |
| `EntriesAreDecided` | `Spec => []TrackedHasOutcome` |
| `RivalsAreKnown` | `Spec => []NoRivalOfEarlierLife`, skipped sweeps and failed removals included |
| `BackendComesFirst` | `Spec => []FrontendAfterBackend` |
| `StopIsComplete` | `Spec => StopLeavesNothing` |
| `FailuresAreReal` | `Spec => []FailureSubject` |

`EntriesAreDecided` to `BackendComesFirst` rest on `SuperviseProofs!Books`, an
invariant that is inductive together with `IInv`: which objects are in containers,
whose port a frontend holds, that while the program serves a row's object is one whose
watcher has yet to delete it (`RecordNotStale`; after a shutdown it need not be, section
10), and who may be left of an earlier life: a host child that no row names, or one
that is reclaimed before the program serves, and containers of keys whose running
child is in none (`OrphanInv`). `StopIsComplete` is shown step by step under `IInv`. `FailuresAreReal`
needs `EndInv` and `FailureInv` beside `IInv`: a healthy or a stopped process has no
start any more and a failed start is out of the table, so the Stop that holds a
key's lock finds a process whose start is over, and marks none whose failure is
on record.

### BuildQueue

From `BuildQueueAssumption`: deploy ids are numbers, every deploy has a side and
may have a download, the two kinds of address are apart, `None` is no id or
status, the bounds are numbers. TLC evaluates it in every run of `MCBuildQueue`.

`BuildQueueProofs!IInv` is the inductive invariant. Its parts:

* `FlightInv`: the flight of an address is entered for exactly the worker that
  builds, publishes or replaces it. `OneBuildPerHash` is a consequence; alone it
  is not inductive, for a free flight would say nothing about the workers.
  `JoinInv`: whoever joined a flight finds it entered.
* `WorkerInv`: a worker's location fixes which side it builds. `Held` counts
  only workers on the side that gates readiness, so this is what tells a worker
  that will still write the outcome from one that builds the download.
* `InFlightHeld` is inductive relative to the types: whoever lets go of a row in
  flight hands it on (a request to the channel, the channel to a worker), writes
  an outcome, or finds the row gone or ready; an eviction takes rows out of
  flight; a kill lets go of all of them, and `MemoryInv` says that the resume is
  then still to come.
* `RowInv`, `CallerInv`, `CleanerInv`, `DiskInv`, `BoundInv`: types, and that
  only deploys with a download record one.

`BuildQueueMoreProofs` adds to `IInv` and says in three parts what it needs more.
`SoundInv`: nothing broken is published, and no worker past its build is at a
broken address. With `Cleaners = {}`: `ExistsInv`, that every deploy at hand has
its row, so that `FaultInv` can say that a worker about to write failed has a
broken address; `ProvisionInv`, that the state directory comes before its row
and the row before ready; `FilesInv`, that files only go while a worker is
replacing them. `Cleaners = {}` is needed: with cleaners the code does not keep
what these three theorems say (`build_queue_serve`). `GarbageInv` is for
`GarbageIsCollected`, with any passes of any cleaners at once: an address on disk is a
stray, or has a live deploy, a worker that will write one, or a cleaner that has it on
its list and will remove it. It rests on `HashedInv`, that a deploy whose
worker is past its hashes names its address, unless nothing was built there, on
`StrayInv`, that a worker whose row was deleted is at a stray, and on `CleanInv`, that
what does not build is not on disk.

The refinement of `DeployLife` is proved action by action (`WorkerLives`,
`CallerLives`, `CleanerLives`, `OtherLives`): most steps stutter, `SetReady` is
`Succeed`, `Land` is `Publish` or `Abandon`, a `Die` is `Stop`. `Begin` needs that a
free flight has no builder and `Publish` that a landed one leaves none, which is
`FlightInv`; the guards of `Succeed` and `Fail` are `SoundInv` and, without evictions
(`CalmInv`), `ProvisionInv`, `FilesInv` and `FaultInv`; `Evict` needs `ListedInv`, that
whoever is on an eviction's list was requested. No constant is restricted: with
evictions `DeployLife` itself promises less.

| theorem | says, for all deploys, workers, requests and bounds |
|---|---|
| `TypeCorrect` | `Spec => []TypeOK` |
| `NoDeployForgotten` | `Spec => []InFlightHeld`, with any evictions |
| `OneBuilder` | `Spec => []OneBuildPerHash`, with any evictions |
| `JoinersAreServed` | a worker that joined a build has a builder to wait for |
| `DeployLifeImplemented` | `Spec => DL!Spec`: each action maps to one of `DeployLife` or a stutter, with any evictions |
| `ReadyBuilds` | a ready deploy is one that builds, with any evictions |
| `OutcomesAreRight` | `Spec => []OutcomeIsRight`, without evictions |
| `ReadyMeansProvisioned` | `Spec => []ReadyIsProvisioned`, without evictions |
| `ReadyMeansPublished` | `Spec => []ReadyHasFiles`, without evictions |
| `NothingIsLeaked` | `Spec => []GarbageIsCollected`, with any evictions and deletions |

### The services

From the assumption each module states of its constants, which TLC evaluates in
`services`: bounds are numbers, weights are distinct, there is a worker instance,
and the name that stands for nobody is no node, exchange or compressor.

* `ArtifactStoreProofs!IInv`: the types; `Assigned`, that who works works on an
  address; and `Safe`. `WholeUnlessTorn` alone is not inductive: a part could
  still arrive from a saver that has read it, so `Complete` also covers what a
  saver holds, and `Removing` says that a directory under removal is in part
  gone, so that a publisher finds it in place and lands nothing into it.
  `ReadyIsDurable` follows step by step: only the end of a build's own Save makes
  an address live, and it found the object, put it, or found the files gone. The
  refinement of `ArtifactLife` needs `Safe` wherever something lands, is stored or is
  removed: that what is at hand is one of the copies that may be.
* `DeployProofs!NetInv`: `LockInv`, that `netMu` is held by the start under way,
  whose key has no reaper; `MemberInv`, that what is in use is there;
  `ReaperInv` and `ChargeInv`, that each network has a start or a reaper that will
  give it back.
* `DeployProofs!CloneInv`: a mirror on disk is left over or has somebody who answers for
  it, a row, a job that has yet to look or a deletion that has yet to remove
  (`MirrorInv`); rows come one after the other (`OrderInv`); while a row is there that was
  not registered `beside` anyone, nobody works for another (`AloneInv`), so what its job
  moved in stays (`OwnInv`).
* `DeployProofs!InputInv`: what is published at an address is what the address
  itself says of paths, steps and environment (`Right`), not what the deploy that
  built it declared; and a deploy's addresses are those of what it declares
  (`Addressed`). An edit of the manifest on disk breaks the second for the download
  only, which is why the exception of `ServedAsDeclared` is as narrow as it is.
* `FleetProofs`, placement: any nonempty set of workers has one of top weight (the
  weights are bounded and well-founded), it is the only one, and two sets that
  hold each other's top have the same one.
* `FleetProofs`, the warm floor: the most recently touched of a fleet are closed under
  "touched later", and every part of a set closed in this way is the newest so many of
  it. So the part of the floor on a worker is what the worker itself finds by its
  share, for any division of the floor (`SharesAreTheFloor`). For the types, a key
  that is placed goes to a worker because any nonempty set of them has a lightest.
* `FleetProofs!RegistryInv`: the counters that the registry knows, that are on their
  way to it and that the machine has now are of one boot, of two or of three
  (`Counted`); those of one boot grow, and different boots count different hits, so
  what was banked and what is known never exceed what there was.
* `FleetProofs!EarnedInv`: whoever believes that init ran (the row, a request that
  read it, a worker, an answer in flight) is right to.
* `DeployProofs!PagesInv`: an account of the rows. Ranks in the list as the browse
  takes it to be (`Listed`, with the crashed processes it has read) tell which rows
  the next page would show again (`Again`), which it has gone past unseen
  (`Passed`) and which the count leaves out (`Beyond`); the crashes it has not read
  (`Current`) may add to both. A change of rows moves no more rows over the boundary
  of the pages shown than it touches (`ChangeIsSmall`), nor does a new look at the
  crashes move more than the two lists differ in (`Overshoot`, `Undershoot`), so
  each sum stays within the changes counted. `WindowOnlyShifts` alone is not
  inductive: it says nothing of a browse under way.
* `StreamProofs!LogInv`: the follower has a prefix of the newest file or of an older
  one, and what it printed ends at its cursor (`CursorInv`), so the next slice of that
  file starts where the last ended, and the first of a newer one never at the old offset.
  For the
  types, `LogTypeInv` bounds a node's files by the number of starts, and with them the
  cursor.
* `StreamProofs!ExecInv`: what the command wrote is what was shown and what the
  links and the engine's stream still carry (`FlowInv`); a status on a link is the
  last thing on it, nothing behind it is to come, and it is the command's
  (`StatusIn`). Before the bridge there is nothing on the way but errors. The type of
  `shown` rests on a count of its own (`FlowBound`): what was shown, what is under way on
  the links and in the hands of the copiers, and what the engine's stream holds are
  together at most what was printed, also where a broken connection loses some of it.
* `StreamProofs!RespInv`: a compressor and the response that uses it know each other
  (`Owned`, `ZipInv`); the status meant is recorded before anything is decided, and
  sent before any byte (`HeadInv`); what is on the wire and what the response or its
  compressor holds back are, in this order, the body so far (`BodyInv`). A response
  that is over holds nothing back (`AllSent`).
* `ServicesProofs`: the watcher's invariant says of a cached pass that its count of
  created deploys is no later than the current one; `ReapingInv` says that a pass lists
  no key twice, since the lists of idle and of surplus keys are apart. Each step of
  `MCServices` is of every part a step or none (`PartsStep`), so the invariant of each
  part holds in it, and `PartsConsistent` follows from them.

| theorem | says |
|---|---|
| `ArtifactTypes` | `ArtifactSpec => []ArtifactTypeOK` |
| `NothingPartial` | `ArtifactSpec => []WholeUnlessTorn` |
| `DurableBeforeReady` | `ArtifactSpec => ReadyIsDurable` |
| `ArtifactLifeImplemented` | `ArtifactSpec => AL!Spec`: each action maps to one of `ArtifactLife` or a stutter |
| `NetworkTypes`, `PairStaysTogether` | `NetSpec => []NetTypeOK`, `NetSpec => []PairSharesNetwork` |
| `CloneTypes`, `MirrorGoesWithRow` | `CloneJobsSpec => []CloneJobsTypeOK`, `CloneJobsSpec => []MirrorFollowsRow` |
| `OnlyAffectedMove` | `FleetPlacementSpec => OnlyAffectedKeysMove` |
| `CacheAccounted` | `FleetPlacementSpec => []OnlyLostAnswersMislead` |
| `PlacementTyped`, `SharesAreTheFloor` | `FleetPlacementSpec => []FleetPlacementTypeOK`, `FleetPlacementSpec => []FloorIsProtected` |
| `RegistryTyped`, `HitsCount` | `FleetRegistrySpec => []FleetRegistryTypeOK`, `FleetRegistrySpec => HitTotalsCount` |
| `InitStepsTyped`, `RecordsAreEarned` | `InitStepsSpec => []InitStepsTypeOK`, `InitStepsSpec => []RecordIsEarned` |
| `InputsTyped`, `DeclaredIsServed` | `InputSpec => []InputTypeOK`, `InputSpec => []ServedAsDeclared` |
| `PagesTyped`, `PagesShift` | `PagesSpec => []PagesTypeOK`, `PagesSpec => []WindowOnlyShifts` |
| `LogsTyped`, `LogsAreFollowed` | `LogSpec => []LogTypeOK`, `LogSpec => []FollowedInOrder` |
| `SessionsTyped`, `StatusIsReported` | `ExecSpec => []ExecTypeOK`, `ExecSpec => []StatusIsTheCommands` |
| `ResponsesTyped`, `WireIsSound` | `ResponsesSpec => []ResponsesTypeOK`, `ResponsesSpec => []WireIsTheResponse` |
| `WatcherTyped`, `SignInTyped` | `RepoWatchSpec => []RepoWatchTypeOK`, `SignInSpec => []SignInTypeOK` |
| `PreviewPagesTyped`, `ReaperTyped` | `PreviewPageSpec => []PreviewPageTypeOK`, `ReaperSpec => []ReaperTypeOK` |
| `PartsAreConsistent` | `ServicesSpec => []PartsConsistent`: the types of all parts, `RecordIsEarned`, `FloorIsProtected` and `OnlyLostAnswersMislead` |

### What is only model-checked

Every invariant and every action property of a passing run is a theorem. What is left
is liveness (`CallAnswered`, `StopReturns`, `BuildsResolve`, `BlindStartsEnd`,
`PolicyReachesWorkers`, `TipsGetDeployed`, `CloneEnds`, `VisitorArrives`,
`SessionEnds`, `BurstIsPruned`), which like ENABLED is beyond the prover.

No module has a RECURSIVE operator, so that all can be proved about; no proof here
needs an induction over data, which the installed provers cannot instantiate.

## 9. Where the code and its comments disagree

* **A child may outlive StopAll** (`supervise_shutdown`, supervise.go:1409).
  StopAll's Stop of a registered process that has not taken its key lock finds
  nothing to kill; the start then goes on and launches.
* **A running child's row is deleted** (`supervise_record`, supervise.go:1022).
  The old watcher forgets the key before it deletes the row by (repo, hash); a
  restart in between writes a row of its own, which is the one deleted.
* **A ready deploy loses its state directory** (`build_queue_serve`,
  supervise.go:1520). GCDeploy deletes by a survey that a cache hit of the same
  address has outrun.
* **A build interrupted by a shutdown is a failed one**
  (`build_queue_signal`, build.go:380). The downloads of the same deploy are
  handled the other way, with a comment that says why.
* **A poll evicts the head of a branch** (`watch_eviction`, watch.go:219). It
  judges by the tips read at the start of the pass a deploy requested since, of a
  commit that was pushed since and that the request's own lookup fetched; the
  comment at build.go:297-299 says that such a commit is never evicted.
* **A clone cancelled by a shutdown is a failed one** (`clone_shutdown`, clone.go:91).
  The comment at clone.go:52-54 says that its row stays "cloning" and is resumed;
  `run` marks it failed if the process lives that long, and no start resumes that.
* **The fleet's hit totals fall** (no run: it is a sum over entries that come and
  go). The comment at fleet.go:61-64 says that they stay monotonic as long as the
  control node runs; a worker that says goodbye takes its share along
  (fleet.go:248), also when it only restarts, so does one that is replaced
  (fleet.go:240), and a stale one is left out until it is heard of again
  (fleet.go:405). `HitTotalsCount` is about one entry while it stays.

## 10. What is not modelled

Parts of the modelled components: ports, the contents of logs and events, the
policy of retention (any rows), settings changed while the reaper works, a changed
project scope, auto-start, branch aliases, a frontend side of its own in
`BuildQueue`, several downloads of one deploy, `StopRepo` and `StopDeploy`, static
workers, external networks, websockets and extra routes of the proxy, tokens of
the command line and of CI, terminals and window sizes, the glob matcher.

Not at all, and not to be: request parsing and rendering of the HTTP API, the
clients of docker, git, the bucket and the cloud (what the modelled code relies on
is in its modules), configuration, the command line's other commands, the
dashboard, usage counters, examples. There is little state in them, and what
there is belongs to a component above.

What the models exclude by an assumption, or make visible without a property of
its own, and a reader of the code should know:

* supervise.go:1005: a kill between a host child's launch and its row leaves a
  child that no row names.
* supervise.go:888, :1058: a failure may outlive the start meant to clear it; a
  child that dies between its last health check and readiness reads idle.
* supervise.go:1136: reap looks for pairs once, among the processes that are ready by
  then; a frontend that has the backend's port and is not ready yet, or is started
  during the pass, loses its backend to it, although the comment at
  supervise.go:1083-1086 says that it never does (`Reaper` allows it).
* supervise.go:1310: container events go to the database past the event buffer's cap.
* supervise.go:1724: run-log attempts are numbered per node, so a process that
  moves may reuse a number a follower has seen.
* build.go:242, :375; db/deploys.go:477: a rebuild flag, or an eviction, that
  comes between a worker's load of a row and its write is lost.
* upload.go:131: an upload resolves and hashes once for its check and
  once for its publication; an edited manifest may come between.
* store.go:272, and the removals of ArtifactStore: a kill inside a rebuild's
  publication loses the directory, one inside a removal leaves part of it, which
  the next reader takes for whole; a walk over a removal saves a short object whose
  metadata agrees with it, which the reconciler takes for good once the local copy
  is gone.
* store/cache.go:98-115: the sweeper may remove an artifact whose upload is
  still waiting.
* container.go:115: a container that cannot be created leaves the network behind;
  so does a release that waits 30 s for `netMu` (`kept` in `DeployNetwork`).
* watch.go's cached pass: when somebody else's fetch moves the mirror, the next
  poll sees no change (`Overtaken` in `RepoWatch`).
* clone.go:97, gitrepo.go:182: all goes by the name, so a clone or a deletion that
  outlives its repository removes or replaces the mirror of the next of that name,
  ready as it may be (`beside` in `CloneJobs`); gitrepo.go:138 tells of removals that
  failed, which nobody repeats before the next registration (`leftover`).
* cloudscale.go:232: after a release that was applied but answered with an error the
  memory says protected, and an instance that is busy again by the next tick stays
  unprotected until it has been idle once more (`misled`).
* supervise.go:1374, :1022: a shutdown waits for its children, not for their watchers
  to delete the rows; such a row names a pid that may be somebody else's by the next
  start, which signals its group if it leads one.
* supervise.go:1589: when the sweep was skipped, a container of an earlier life runs on
  until its key is started in a container, and beside a child that is started on the host.
* view.go:49-60: a restart takes what the follower had not read of the old attempt.
* dockerapi/exec.go:86, execstream.go:168-171: neither the exec's handshake nor its
  session has a deadline.
* proxy.go:75: onyx's cookie outlives its token, and the redirects then go round
  (`TokenOutlived` in `SignIn`).
* githubsso.go:236-257: a failed look-up at GitHub counts as not being a member,
  although auth.go:364-367 distinguishes them.
* exec.go:95, :141: a pump that waits for a command which does not read keeps its
  goroutine; the engine's stream may end while the command runs, and 0 is
  reported.
* compress.go:74, main.go:902: an informational status is taken for the final
  one; after a panic an error text is appended to what was already sent.

## 11. Plan

Done in this order: the supervisor, the build queue and the artifact store, each with its abstract
specification, the fleet (init, registry, placement, networks), the watcher and
the clone, the proxy and sign-in, exec, logs, responses, the deploys list, the reaper. Next:

1. Compositions: `DeployNetwork` and `InitSteps` with `KeyLife` in place of the
   starts they take as coalesced; `ArtifactStore` with the survey of `BuildQueue`.
2. An abstract specification for `InitSteps` (ran, or to be run again), with the
   refinement.
3. Settings that change while the reaper works, and the failure records
   (`FailureIsCurrent`, `DeadReadsCrashed`).
