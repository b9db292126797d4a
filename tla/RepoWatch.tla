------------------------------ MODULE RepoWatch ------------------------------
(***************************************************************************)
(* The watcher of one ready repo: it polls the mirror clone and requests a *)
(* deploy for every watched branch tip that has none, beside pushes,       *)
(* deploy requests that fetch the same mirror, changes of the watch        *)
(* settings, deleted deploys and restarts.                                 *)
(*                                                                         *)
(* A commit stands for its sha; the globs of watch_branches for the        *)
(* branches they match.  A deploy row is followed as far as the watcher    *)
(* asks: there is none, it is pending or serving ("live"), or evicted.     *)
(***************************************************************************)
EXTENDS Naturals

CONSTANTS
    Branches, Commits,
    History,      \* History[c]: the commits reachable from c, c among them
    First,        \* the commit every branch starts at
    Watched,      \* the branches the globs match
    Gone,         \* no such branch
    NoPass,       \* nothing cached
    Pushes,       \* bound: pushes
    Settings,     \* bound: changes of the watch settings
    Meddlings     \* bound: deploy requests, deletions, failures and restarts

ASSUME RepoWatchAssumption ==
    /\ {Pushes, Settings, Meddlings} \subseteq Nat
    /\ First \in Commits /\ Watched \subseteq Branches
    /\ \A c \in Commits : c \in History[c] /\ History[c] \subseteq Commits

VARIABLES
    remote,       \* branch heads at the source
    mirror,       \* branch heads in the mirror clone
    watchRow,     \* repos: watch, watch_baselined
    base,         \* watch_baselines
    deploys,      \* deploys by sha
    created,      \* how many rows were created: the newest id
    lastPass,     \* Watcher.lastPass
    watchPoll,    \* the poll in progress
    everTip, old, \* ghosts: tips the source has had, and those that watching
                  \* started with
    watchSpent    \* how much of each bound is used

repoWatchVars == <<remote, mirror, watchRow, base, deploys, created, lastPass, watchPoll,
                   everTip, old, watchSpent>>
ghosts == <<everTip, old>>

Heads == [Branches -> Commits \cup {Gone}]
NotPolling == [pc |-> "idle"]

RepoWatchInit ==
    /\ remote = [b \in Branches |-> First] /\ mirror = remote
    /\ watchRow = [watch |-> FALSE, baselined |-> TRUE] /\ base = {}
    /\ deploys = [c \in Commits |-> "none"] /\ created = 0
    /\ lastPass = NoPass /\ watchPoll = NotPolling /\ everTip = {First} /\ old = {}
    /\ watchSpent = [pushes |-> 0, settings |-> 0, others |-> 0]

Tips(heads, on) == {heads[b] : b \in on} \ {Gone}

\* What the walk of UnreachableSHAs visits.
Reachable(tips) == UNION {History[c] : c \in Tips(tips, Branches)}

WatchSpend(b, limit) == watchSpent[b] < limit /\ watchSpent' = [watchSpent EXCEPT ![b] = @ + 1]

-------------------------------------------------------------------------------
\* The next fetch is the one whose tips are recorded as the baseline.
Arming == ~watchRow.baselined \/ (watchPoll.pc = "fetch" /\ ~watchPoll.baselined)

\* A branch moves, is created or deleted at the source.
Push(b, c) ==
    /\ remote[b] # c /\ WatchSpend("pushes", Pushes)
    /\ remote' = [remote EXCEPT ![b] = c] /\ everTip' = (everTip \cup {c}) \ {Gone}
    /\ old' = IF Arming THEN everTip' ELSE old
    /\ UNCHANGED <<mirror, watchRow, base, deploys, created, lastPass, watchPoll>>

\* A bug to catch: every change of the settings arms the baseline.
SetRepoWatchAlways(on, backfill) ==
    /\ WatchSpend("settings", Settings)
    /\ watchRow' = [watch |-> on, baselined |-> ~on \/ backfill]
    /\ base' = {}
    /\ old' = IF on /\ ~watchRow.watch THEN everTip ELSE old
    /\ UNCHANGED <<remote, mirror, deploys, created, lastPass, watchPoll, everTip>>

\* Only the edge from off to on arms the baseline.
SetRepoWatch(on, backfill) ==
    LET arm == on /\ ~watchRow.watch IN
    /\ WatchSpend("settings", Settings)
    /\ watchRow' = [watch |-> on,
               baselined |-> IF arm THEN backfill ELSE ~on \/ watchRow.baselined]
    /\ base' = IF arm \/ ~on THEN {} ELSE base
    /\ old' = IF on /\ ~watchRow.watch THEN everTip ELSE old
    /\ UNCHANGED <<remote, mirror, deploys, created, lastPass, watchPoll, everTip>>

Want(c) == CASE deploys[c] = "none"    -> /\ deploys' = [deploys EXCEPT ![c] = "live"]
                                          /\ created' = created + 1
             [] deploys[c] = "evicted" -> /\ deploys' = [deploys EXCEPT ![c] = "live"]
                                          /\ UNCHANGED created
             [] OTHER                  -> UNCHANGED <<deploys, created>>

\* RequestDeploy of a branch, by a hook, a webhook or the command line: it
\* fetches the mirror first.
Request(b) ==
    /\ WatchSpend("others", Meddlings) /\ mirror' = remote
    /\ IF remote[b] = Gone THEN UNCHANGED <<deploys, created>> ELSE Want(remote[b])
    /\ UNCHANGED <<remote, watchRow, base, lastPass, watchPoll, ghosts>>

\* A push event asks for the commit it names, which a later push may have
\* replaced; a sha the mirror does not have makes RequestDeploy fetch.
Webhook(b, c) ==
    /\ b \in Watched /\ c \in everTip /\ WatchSpend("others", Meddlings) /\ Want(c)
    /\ \/ c \notin Reachable(mirror) /\ mirror' = remote
       \/ UNCHANGED mirror
    /\ UNCHANGED <<remote, watchRow, base, lastPass, watchPoll, ghosts>>

\* DELETE /api/deploys/{id}.
DeleteDeploy(c) ==
    /\ deploys[c] # "none" /\ WatchSpend("others", Meddlings)
    /\ deploys' = [deploys EXCEPT ![c] = "none"]
    /\ UNCHANGED <<remote, mirror, watchRow, base, created, lastPass, watchPoll, ghosts>>

WatchRestarts ==
    /\ WatchSpend("others", Meddlings) /\ watchPoll' = NotPolling /\ lastPass' = NoPass
    /\ UNCHANGED <<remote, mirror, watchRow, base, deploys, created, ghosts>>

-------------------------------------------------------------------------------
\* PollAll: settings are read from the row once; an unwatched repo starts over.
PollBegins ==
    /\ watchPoll = NotPolling
    /\ IF watchRow.watch
       THEN watchPoll' = [pc |-> "fetch", baselined |-> watchRow.baselined] /\ UNCHANGED lastPass
       ELSE lastPass # NoPass /\ lastPass' = NoPass /\ UNCHANGED watchPoll
    /\ UNCHANGED <<remote, mirror, watchRow, base, deploys, created, ghosts, watchSpent>>

\* Fetch lists the refs first: no ref moved, and the last pass is known.
Quiet == mirror = remote /\ lastPass # NoPass

\* What the fetch says of the tips: the cached ones when it was quiet.
PollFetches ==
    /\ watchPoll.pc = "fetch"
    /\ watchPoll' = [pc |-> "baseline", baselined |-> watchPoll.baselined,
                tips |-> IF Quiet THEN lastPass.tips ELSE remote,
                evict |-> Quiet => created > lastPass.created]
    /\ mirror' = remote
    /\ UNCHANGED <<remote, watchRow, base, deploys, created, lastPass, ghosts, watchSpent>>

\* The first pass records every tip, matched or not.
Baselines ==
    /\ watchPoll.pc = "baseline"
    /\ IF watchPoll.baselined THEN UNCHANGED <<watchRow, base>>
       ELSE /\ base' = Tips(watchPoll.tips, Branches)
            /\ watchRow' = [watchRow EXCEPT !.baselined = TRUE]
    /\ watchPoll' = [pc |-> "deploy", baselined |-> watchPoll.baselined,
                tips |-> watchPoll.tips, evict |-> watchPoll.evict,
                todo |-> Tips(watchPoll.tips, Watched) \ base']
    /\ UNCHANGED <<remote, mirror, deploys, created, lastPass, ghosts, watchSpent>>

\* A tip with any row is passed over; a request may fail, and is only logged.
Deploys(c) ==
    /\ watchPoll.pc = "deploy" /\ c \in watchPoll.todo
    /\ watchPoll' = [watchPoll EXCEPT !.todo = @ \ {c}]
    /\ \/ deploys[c] # "none" /\ UNCHANGED <<deploys, created, watchSpent>>
       \/ deploys[c] = "none" /\ Want(c) /\ UNCHANGED watchSpent
       \/ deploys[c] = "none" /\ WatchSpend("others", Meddlings) /\ UNCHANGED <<deploys, created>>
    /\ UNCHANGED <<remote, mirror, watchRow, base, lastPass, ghosts>>

\* A baseline entry that is a tip no more has done its job.
PruneWatchBaseline(tips) == base' = base \cap Tips(tips, Branches)

EvictUnreachable(tips) ==
    deploys' = [c \in Commits |->
                  IF deploys[c] = "live" /\ c \notin Reachable(tips) THEN "evicted" ELSE deploys[c]]

Evicts ==
    /\ watchPoll.pc = "deploy" /\ watchPoll.todo = {}
    /\ watchPoll' = [watchPoll EXCEPT !.pc = "done"]
    /\ IF watchPoll.evict
       THEN PruneWatchBaseline(watchPoll.tips) /\ EvictUnreachable(watchPoll.tips)
       ELSE UNCHANGED <<base, deploys>>
    /\ UNCHANGED <<remote, mirror, watchRow, created, lastPass, ghosts, watchSpent>>

PassEnds ==
    /\ watchPoll.pc = "done" /\ watchPoll' = NotPolling
    /\ lastPass' = [tips |-> watchPoll.tips, created |-> created]
    /\ UNCHANGED <<remote, mirror, watchRow, base, deploys, created, ghosts, watchSpent>>

\* A fetch, a query or a walk fails, and the pass ends early.
PollBreaks ==
    /\ watchPoll # NotPolling /\ WatchSpend("others", Meddlings) /\ watchPoll' = NotPolling
    /\ UNCHANGED <<remote, mirror, watchRow, base, deploys, created, lastPass, ghosts>>

Polls ==
    \/ PollBegins \/ PollFetches \/ Baselines \/ Evicts \/ PassEnds
    \/ \E c \in Commits : Deploys(c)

RepoWatchNext ==
    \/ Polls \/ PollBreaks \/ WatchRestarts
    \/ \E b \in Branches : \/ Request(b)
                         \/ \E c \in Commits : Webhook(b, c)
                         \/ \E h \in Commits \cup {Gone} : Push(b, h)
    \/ \E on, backfill \in BOOLEAN : SetRepoWatch(on, backfill)
    \/ \E c \in Commits : DeleteDeploy(c)

\* The poll loop ticks every minute.
RepoWatchSpec ==
    RepoWatchInit /\ [][RepoWatchNext]_repoWatchVars /\ WF_repoWatchVars(Polls)

-------------------------------------------------------------------------------

RepoWatchTypeOK ==
    /\ {remote, mirror} \subseteq Heads
    /\ watchRow \in [watch : BOOLEAN, baselined : BOOLEAN] /\ base \subseteq Commits
    /\ deploys \in [Commits -> {"none", "live", "evicted"}]
    /\ lastPass # NoPass => lastPass.tips \in Heads /\ lastPass.created <= created
    /\ watchPoll.pc \in {"idle", "fetch", "baseline", "deploy", "done"}

\* The mirror moved behind the watcher's back: somebody else's fetch took the
\* change, or the pass that took it broke off before it was cached.
Overtaken == lastPass # NoPass /\ lastPass.tips # mirror

\* "polls watched repos' mirror clones and deploys new branch tips"
\* (watch.go:1): through failed requests, deleted deploys, restarts and changed
\* settings each watched tip gets a deploy, unless it was there before
\* watching started, or the cached pass was overtaken.
TipsGetDeployed ==
    <>[](watchRow.watch /\ ~Overtaken =>
            \A c \in Tips(remote, Watched) : deploys[c] # "none" \/ c \in old)

\* "a commit still living on some other branch is never evicted"
\* (build.go:299): a poll evicts no commit that is reachable in the mirror.
LiveCommitIsKept ==
    [][\A c \in Commits :
          deploys[c] = "live" /\ deploys'[c] = "evicted"
              => c \notin Reachable(mirror)]_repoWatchVars
=============================================================================
