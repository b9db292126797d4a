----------------------------- MODULE BuildInputs -----------------------------
(***************************************************************************)
(* What a commit's sides are built from, and the content address that      *)
(* stands for it.  A side ("fe", "be", or the downloadable "dl") is built  *)
(* once per address; every commit with that address serves the result, and *)
(* shares one process per address.                                         *)
(*                                                                         *)
(* The digest is taken as injective: an address is the tuple of what is    *)
(* hashed.  Two commits of one repository are modelled, the second one a   *)
(* change to the first.  A manifest may also come from the server's disk,  *)
(* where it can be edited at any time.                                     *)
(***************************************************************************)
EXTENDS Naturals, FiniteSets

CONSTANT OutsideCalls   \* bound: uploads, and edits of the manifest on the disk

ASSUME BuildInputsAssumption == OutsideCalls \in Nat

VARIABLES
    docker,    \* the server's one probe of the daemon: "up", "down", or "back"
               \* once it has been restarted after a failed one
    commits,   \* what each commit holds
    manifestDir,      \* the local manifest, <<m>>, or <<>>
    calls,     \* uploads and edits so far
    progress,  \* per commit: "new", "resolved", "ready", "failed"
    address,   \* per commit and side: the recorded hash, or <<>>
    published, \* address -> what the artifact was built from
    runConfig, \* address -> the stored run contract
    processes  \* address -> the contract its process was started with; one
               \* process of the many is followed

inputVars == <<docker, commits, manifestDir, calls, progress, address, published, runConfig, processes>>

Pushed == 1 .. 2
Sides == {"fe", "be", "dl"}

-------------------------------------------------------------------------------
(* Commits and manifests *)

Files == {"web/app", "srv/main", "srv/notes"}
DirOf(f) == IF f = "web/app" THEN "web" ELSE "srv"
Under(f, path) == path = "." \/ DirOf(f) = path

\* An image the manifest leaves out.
Unnamed == "unnamed"

\* A manifest: each side's section, and the networks its processes join.
Section(path, image) ==
    [path |-> path, exclude |-> FALSE, steps |-> "make", image |-> image, runImage |-> Unnamed,
     run |-> FALSE]

Manifests ==
    { [fe |-> [Section("web", Unnamed) EXCEPT !.run = (image = Unnamed)],
       be |-> [Section(".", image) EXCEPT !.run = TRUE, !.runImage = runImage],
       dl |-> Section("srv", image), networks |-> "n1"] :
      image \in {Unnamed, "builder"}, runImage \in {Unnamed, "runner"} }

ManifestChanges(m) ==
    { [m EXCEPT ![s].steps = "make all"] : s \in Sides } \cup
    { [m EXCEPT ![s].image = "other"] : s \in Sides } \cup
    { [m EXCEPT !.be.exclude = TRUE], [m EXCEPT !.be.path = "srv"],
      [m EXCEPT !.be.runImage = "other"], [m EXCEPT !.networks = "n2"] }

\* The manifest sits in the commit ("file"), does not parse ("broken"), or is
\* absent, and then the disk is tried.
FirstCommits ==
    { [tree |-> [f \in Files |-> 1], devc |-> "d1", source |-> "file", manifest |-> m] : m \in Manifests }

CommitChanges(c) ==
    { [c EXCEPT !.tree[f] = oid] : f \in Files, oid \in {0, 2} } \cup
    { [c EXCEPT !.devc = d] : d \in {"d2", "broken", "imageless"} } \cup
    { [c EXCEPT !.source = s] : s \in {"broken", "absent"} } \cup
    { [c EXCEPT !.manifest = m] : m \in ManifestChanges(c.manifest) }

InputInit ==
    /\ docker \in {"up", "down"}
    /\ \E first \in FirstCommits : \E second \in CommitChanges(first) :
          commits = <<first, second>>
    /\ manifestDir = <<>> \/ (commits[2].source = "absent" /\ manifestDir = <<commits[1].manifest>>)
    /\ calls = 0
    /\ progress = [c \in Pushed |-> "new"]
    /\ address = [c \in Pushed |-> [s \in Sides |-> <<>>]]
    /\ published = <<>> /\ runConfig = <<>> /\ processes = <<>>

\* What loadManifest returns for a commit now.
NoManifest(c) == commits[c].source = "broken" \/ (commits[c].source = "absent" /\ manifestDir = <<>>)
Loaded(c) == IF commits[c].source = "file" THEN commits[c].manifest ELSE manifestDir[1]

\* A devcontainer that does not parse or names no image is as good as none.
Usable(devc) == devc \in {"d1", "d2"}
Devcontainer(c) == IF Usable(commits[c].devc) THEN commits[c].devc ELSE "none"

-------------------------------------------------------------------------------
(* The address *)

\* The commit's files with their blobs; the files of a side's partition.
Tree(c) == { <<f, commits[c].tree[f]>> : f \in { f \in Files : commits[c].tree[f] # 0 } }
Partition(c, m, s) ==
    { e \in Tree(c) : /\ Under(e[1], m[s].path)
                      /\ s # "fe" => ~Under(e[1], m.fe.path)
                      /\ m[s].exclude => e[1] # "srv/notes" }

\* A bug to catch: a side with a build image never uses the devcontainer.
ExtraOfBuild(c, m, s) == IF m[s].image # Unnamed THEN "none" ELSE Devcontainer(c)

\* The devcontainer counts when the side builds or runs in it.
Extra(c, m, s) ==
    IF m[s].image # Unnamed /\ (~m[s].run \/ m[s].runImage # Unnamed) THEN "none" ELSE Devcontainer(c)

Address(c, m, s) == <<m[s], Extra(c, m, s), Partition(c, m, s)>>

\* The daemon is dialled once, and the answer kept until the server restarts.
Docked == docker # "down"

\* What the build and the process of a side take from the commit.  Without a
\* daemon, builds and devcontainers fall back to the host.
BuildEnv(c, m, s) == IF m[s].image # Unnamed THEN m[s].image ELSE Devcontainer(c)
RunsIn(env) == IF Docked THEN env ELSE "none"
RunEnv(c, m, s) == IF m[s].runImage # Unnamed THEN m[s].runImage ELSE Devcontainer(c)
BuiltFrom(c, m, s) ==
    [section |-> m[s], env |-> RunsIn(BuildEnv(c, m, s)), files |-> Partition(c, m, s)]
Contract(c, m, s) ==
    [image |-> m[s].runImage, env |-> RunEnv(c, m, s), networks |-> m.networks]

-------------------------------------------------------------------------------
(* Building *)

Put(map, key, value) == [k \in DOMAIN map \cup {key} |-> IF k = key THEN value ELSE map[k]]
Keep(map, key, value) == IF key \in DOMAIN map THEN map ELSE Put(map, key, value)

\* A manifest, and no side without files.
Buildable(c) ==
    IF NoManifest(c) THEN FALSE ELSE \A s \in Sides : Partition(c, Loaded(c), s) # {}

\* A deploy resolves its addresses, and builds the sides that are not there.
DeployBuilds(c) ==
    LET m == Loaded(c) IN
    /\ progress[c] = "new" /\ Buildable(c)
    /\ progress' = [progress EXCEPT ![c] = "resolved"]
    /\ address' = [address EXCEPT ![c] = [s \in Sides |-> Address(c, m, s)]]
    /\ published' = Keep(Keep(published, Address(c, m, "fe"), BuiltFrom(c, m, "fe")),
                         Address(c, m, "be"), BuiltFrom(c, m, "be"))
    /\ runConfig' =
          LET be == Put(runConfig, Address(c, m, "be"), Contract(c, m, "be"))
          IN IF m.fe.run THEN Put(be, Address(c, m, "fe"), Contract(c, m, "fe")) ELSE be
    /\ UNCHANGED <<docker, commits, manifestDir, calls, processes>>

DeployFails(c) ==
    /\ progress[c] = "new"
    /\ ~Buildable(c)
    /\ progress' = [progress EXCEPT ![c] = "failed"]
    /\ UNCHANGED <<docker, commits, manifestDir, calls, address, published, runConfig, processes>>

\* Later, the download is built, from the manifest as it is loaded now, and is
\* filed under the address recorded before.
BuildsArtifact(c) ==
    /\ progress[c] = "resolved" /\ progress' = [progress EXCEPT ![c] = "ready"]
    /\ published' = IF NoManifest(c) THEN published
                    ELSE Keep(published, address[c]["dl"], BuiltFrom(c, Loaded(c), "dl"))
    /\ UNCHANGED <<docker, commits, manifestDir, calls, address, runConfig, processes>>

\* CI built the side from this commit, as declared, and uploads it.
Uploads(c, s) ==
    LET m == Loaded(c) IN
    /\ calls < OutsideCalls /\ calls' = calls + 1
    /\ ~NoManifest(c) /\ Partition(c, m, s) # {} /\ Address(c, m, s) \notin DOMAIN published
    /\ published' = Put(published, Address(c, m, s),
                        [BuiltFrom(c, m, s) EXCEPT !.env = BuildEnv(c, m, s)])
    /\ UNCHANGED <<docker, commits, manifestDir, progress, address, runConfig, processes>>

\* The daemon is there again, and the server is restarted.
ProcessesEnd ==
    /\ docker = "down" /\ docker' = "back" /\ processes' = <<>>
    /\ UNCHANGED <<commits, manifestDir, calls, progress, address, published, runConfig>>

EditsDisk ==
    /\ calls < OutsideCalls /\ calls' = calls + 1 /\ manifestDir # <<>>
    /\ manifestDir' = [manifestDir EXCEPT ![1].dl.steps = "make all"]
    /\ UNCHANGED <<docker, commits, progress, address, published, runConfig, processes>>

-------------------------------------------------------------------------------
(* Processes *)

\* A run image needs the daemon.
ProcessStarts(a) ==
    /\ a \in DOMAIN runConfig /\ processes = <<>>
    /\ ~Docked => runConfig[a].image = Unnamed
    /\ processes' = Put(processes, a, [runConfig[a] EXCEPT !.env = RunsIn(@)])
    /\ UNCHANGED <<docker, commits, manifestDir, calls, progress, address, published, runConfig>>

InputNext ==
    \/ EditsDisk \/ ProcessesEnd
    \/ \E c \in Pushed : \/ DeployBuilds(c) \/ DeployFails(c) \/ BuildsArtifact(c)
                          \/ \E s \in Sides : Uploads(c, s)
    \/ \E a \in DOMAIN runConfig : ProcessStarts(a)

InputSpec == InputInit /\ [][InputNext]_inputVars

-------------------------------------------------------------------------------
InputTypeOK ==
    /\ calls \in 0 .. OutsideCalls /\ docker \in {"up", "down", "back"}
    /\ progress \in [Pushed -> {"new", "resolved", "ready", "failed"}]
    /\ DOMAIN processes \subseteq DOMAIN runConfig

Deployed(c) == progress[c] \in {"resolved", "ready"}

\* A deploy is served what its own commit declares, whichever commit or upload
\* the artifact came from: built from the same files, by the same steps, in the
\* same environment, and running in the same one.  Two exceptions: whatever was
\* built or started without a daemon has the host for its environment, for good;
\* and buildArtifacts files a download built from an edited manifest on the
\* disk under the address of the manifest before.
Edited == manifestDir # <<>> /\ manifestDir # <<commits[1].manifest>>
SameEnv(env, declared) == env = declared \/ (docker # "up" /\ env = "none")

ServedAsDeclared ==
    \A c \in Pushed : Deployed(c) =>
        LET m == Loaded(c) IN
        /\ \A s \in Sides \ (IF Edited THEN {"dl"} ELSE {}) :
              LET built == published[address[c][s]] IN
              address[c][s] \in DOMAIN published =>
                  /\ built.section = m[s] /\ built.files = Partition(c, m, s)
                  /\ SameEnv(built.env, BuildEnv(c, m, s))
        /\ \A s \in Sides : address[c][s] \in DOMAIN processes =>
                  SameEnv(processes[address[c][s]].env, RunEnv(c, m, s))
=============================================================================
