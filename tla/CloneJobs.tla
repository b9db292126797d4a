------------------------------ MODULE CloneJobs ------------------------------
(***************************************************************************)
(* Registration of a repo, its background clone, its deletion, and         *)
(* restarts of the server in between.                                      *)
(*                                                                         *)
(* All repos here have the same name, one after the other: the mirror's    *)
(* place on disk goes by the name, the row and the clone job by the id.    *)
(* A removal of the mirror may fail, or race a fetch that writes it again: *)
(* either way a mirror is left.                                            *)
(***************************************************************************)
EXTENDS Naturals

CONSTANTS
    Repos,        \* row ids, in the order of registration
    Deleters,     \* requests to delete, each the handler of one at a time
    Outages,      \* bound: shutdowns and kills
    CloneFaults,  \* bound: calls of the database, removals and renames that fail
    NoMirror

ASSUME CloneJobsAssumption ==
    Outages \in Nat /\ CloneFaults \in Nat /\ Repos \subseteq Nat /\ NoMirror \notin Repos

VARIABLES
    status,      \* repos.status; "new" and "deleted" stand for no row
    mirrorOf,    \* whose clone <name>.git is
    cloneJob,    \* by repo: its registration ("begin"), then Cloner.run
    cancelled,   \* jobs whose context is done
    deletion,    \* the handlers of DELETE /api/repos/{name}
    serverUp, outages, cloneFaults,
    stranded,    \* history: rows left "cloning" without a job, since the last start
    beside,      \* history: repos registered while a job or a deletion of an
                 \* earlier one of the name was still at work
    leftover     \* history: the last removal failed, or a kill came before it

mirrorVars == <<mirrorOf, leftover>>
serverVars == <<serverUp, outages>>
cloneVars == <<status, mirrorVars, cloneJob, cancelled, deletion, serverVars, cloneFaults,
               stranded, beside>>

Row == {"cloning", "ready", "failed"}
NoDeletion == [pc |-> "none"]
Deletions == [pc : {"rows", "mirror"}, repo : Repos]

CloneJobsInit ==
    /\ status = [r \in Repos |-> "new"] /\ mirrorOf = NoMirror
    /\ cloneJob = [r \in Repos |-> "none"] /\ cancelled = {}
    /\ deletion = [d \in Deleters |-> NoDeletion]
    /\ serverUp = TRUE /\ outages = 0 /\ cloneFaults = 0
    /\ stranded = {} /\ beside = {} /\ leftover = FALSE

CallFails == cloneFaults < CloneFaults /\ cloneFaults' = cloneFaults + 1
CallWorks == UNCHANGED cloneFaults

\* Manager.Remove, and the removal in Manager.Add, go by the name.
MirrorGoes == CallWorks /\ mirrorOf' = NoMirror /\ leftover' = FALSE
MirrorStays == CallFails /\ leftover' = TRUE /\ UNCHANGED mirrorOf

-------------------------------------------------------------------------------
\* handleCreateRepo: refused while the name is taken.
CreateRepo(r) ==
    /\ serverUp /\ status[r] = "new"
    /\ \A q \in Repos : /\ status[q] \notin Row
                        /\ q < r => status[q] = "deleted"
    /\ status' = [status EXCEPT ![r] = "cloning"] /\ cloneJob' = [cloneJob EXCEPT ![r] = "begin"]
    /\ beside' = IF \/ \E q \in Repos : cloneJob[q] # "none"
                    \/ \E d \in Deleters : deletion[d] # NoDeletion
                 THEN beside \cup {r} ELSE beside
    /\ UNCHANGED <<mirrorVars, cancelled, deletion, serverVars, cloneFaults, stranded>>

\* The watch settings, if there are any, are stored before the clone begins, and
\* the handler returns when that fails, as it does for a row deleted meanwhile.
SetWatchFails(r) ==
    /\ cloneJob[r] = "begin" /\ cloneJob' = [cloneJob EXCEPT ![r] = "none"]
    /\ \/ status[r] \in Row /\ CallFails /\ stranded' = stranded \cup {r}
       \/ status[r] \notin Row /\ CallWorks /\ UNCHANGED stranded
    /\ UNCHANGED <<status, mirrorVars, cancelled, deletion, serverVars, beside>>

\* Cloner.Begin; nothing looks whether the row is still there.
Begin(r) ==
    /\ cloneJob[r] = "begin" /\ cloneJob' = [cloneJob EXCEPT ![r] = "clone"]
    /\ cancelled' = IF serverUp THEN cancelled ELSE cancelled \cup {r}
    /\ UNCHANGED <<status, mirrorVars, deletion, serverVars, cloneFaults, stranded, beside>>

\* Manager.Add clones into a temporary directory, as far as its context lasts.
Clone(r) ==
    /\ cloneJob[r] = "clone"
    /\ \E pc \in IF r \in cancelled THEN {"aborted"} ELSE {"swap", "failed"} :
          cloneJob' = [cloneJob EXCEPT ![r] = pc]
    /\ UNCHANGED <<status, mirrorVars, cancelled, deletion, serverVars, cloneFaults, stranded, beside>>

\* The clone replaces whatever is in its place, cancelled or not: what is there
\* is removed,
Vacate(r) ==
    /\ cloneJob[r] = "swap"
    /\ \/ MirrorGoes /\ cloneJob' = [cloneJob EXCEPT ![r] = "move"]
       \/ MirrorStays /\ cloneJob' = [cloneJob EXCEPT ![r] = "failed"]
    /\ UNCHANGED <<status, cancelled, deletion, serverVars, stranded, beside>>

\* and the clone renamed, unless another is there by then.
MoveIn(r) ==
    /\ cloneJob[r] = "move"
    /\ \/ /\ mirrorOf = NoMirror /\ CallWorks
          /\ mirrorOf' = r /\ cloneJob' = [cloneJob EXCEPT ![r] = "landed"]
       \/ /\ IF mirrorOf = NoMirror THEN CallFails ELSE CallWorks
          /\ cloneJob' = [cloneJob EXCEPT ![r] = "failed"] /\ UNCHANGED mirrorOf
    /\ UNCHANGED <<status, leftover, cancelled, deletion, serverVars, stranded, beside>>

\* The outcome is recorded, or the row keeps its "cloning" with
\* nobody at work; of a deleted row there is nothing to record.
SetRepoStatus(r, s) ==
    \/ status[r] \in Row /\ CallWorks /\ status' = [status EXCEPT ![r] = s] /\ UNCHANGED stranded
    \/ status[r] \in Row /\ CallFails /\ stranded' = stranded \cup {r} /\ UNCHANGED status

\* Cloner.run after a clone that failed, on its own or by its context.
RecordFailure(r) ==
    /\ cloneJob[r] \in {"failed", "aborted"} /\ cloneJob' = [cloneJob EXCEPT ![r] = "none"]
    /\ \/ SetRepoStatus(r, "failed")
       \/ status[r] \notin Row /\ CallWorks /\ UNCHANGED <<status, stranded>>
    /\ UNCHANGED <<mirrorVars, cancelled, deletion, serverVars, beside>>

\* A bug to catch: a row deleted while cloning is only logged.
RecordLandingOnly(r) ==
    /\ cloneJob[r] = "landed" /\ cloneJob' = [cloneJob EXCEPT ![r] = "none"]
    /\ \/ SetRepoStatus(r, "ready")
       \/ status[r] \notin Row /\ CallWorks /\ UNCHANGED <<status, stranded>>
    /\ UNCHANGED <<mirrorVars, cancelled, deletion, serverVars, beside>>

\* Cloner.run after a clone that landed: a row deleted meanwhile leaves it an
\* orphan, if the database answers so.
RecordLanding(r) ==
    /\ cloneJob[r] = "landed"
    /\ \/ SetRepoStatus(r, "ready") /\ cloneJob' = [cloneJob EXCEPT ![r] = "none"] /\ UNCHANGED leftover
       \/ /\ status[r] \notin Row /\ CallWorks /\ UNCHANGED <<status, stranded, leftover>>
          /\ cloneJob' = [cloneJob EXCEPT ![r] = "orphan"]
       \/ /\ status[r] \notin Row /\ CallFails /\ leftover' = TRUE /\ UNCHANGED <<status, stranded>>
          /\ cloneJob' = [cloneJob EXCEPT ![r] = "none"]
    /\ UNCHANGED <<mirrorOf, cancelled, deletion, serverVars, beside>>

RemoveOrphan(r) ==
    /\ cloneJob[r] = "orphan" /\ cloneJob' = [cloneJob EXCEPT ![r] = "none"]
    /\ MirrorGoes \/ MirrorStays
    /\ UNCHANGED <<status, cancelled, deletion, serverVars, stranded, beside>>

-------------------------------------------------------------------------------
\* handleDeleteRepo: cancels the clone, if it is begun,
Cancel(d, r) ==
    /\ serverUp /\ deletion[d] = NoDeletion /\ status[r] \in Row
    /\ cancelled' = IF cloneJob[r] \in {"none", "begin"} THEN cancelled ELSE cancelled \cup {r}
    /\ deletion' = [deletion EXCEPT ![d] = [pc |-> "rows", repo |-> r]]
    /\ UNCHANGED <<status, mirrorVars, cloneJob, serverVars, cloneFaults, stranded, beside>>

\* then its rows go, those that another handler has left (or it gives up here),
DeleteRepo(d) ==
    /\ deletion[d].pc = "rows"
    /\ \/ /\ CallWorks /\ status' = [status EXCEPT ![deletion[d].repo] = "deleted"]
          /\ deletion' = [deletion EXCEPT ![d].pc = "mirror"]
       \/ CallFails /\ deletion' = [deletion EXCEPT ![d] = NoDeletion] /\ UNCHANGED status
    /\ UNCHANGED <<mirrorVars, cloneJob, cancelled, serverVars, stranded, beside>>

\* then the mirror, as far as it can be removed.
RemoveMirror(d) ==
    /\ deletion[d].pc = "mirror" /\ deletion' = [deletion EXCEPT ![d] = NoDeletion]
    /\ MirrorGoes \/ MirrorStays
    /\ UNCHANGED <<status, cloneJob, cancelled, serverVars, stranded, beside>>

-------------------------------------------------------------------------------
\* A shutdown cancels every job, and the process may end before one is done.
Shutdown ==
    /\ serverUp /\ outages < Outages /\ serverUp' = FALSE
    /\ cancelled' = cancelled \cup {r \in Repos : cloneJob[r] \notin {"none", "begin"}}
    /\ UNCHANGED <<status, mirrorVars, cloneJob, deletion, outages, cloneFaults, stranded, beside>>

Interrupted == {r \in Repos : status[r] = "cloning"}

\* A bug to catch: nothing is resumed.
ResumedNever == [r \in Repos |-> "none"]

\* Cloner.Start restarts the clones a previous run left unfinished.
Resumed == [r \in Repos |-> IF r \in Interrupted THEN "clone" ELSE "none"]

\* The process ends, after a shutdown or a kill, and comes up again; if the repos
\* cannot be listed nothing is resumed.
Start ==
    /\ outages < Outages /\ outages' = outages + 1 /\ serverUp' = TRUE
    /\ \/ CallWorks /\ cloneJob' = Resumed /\ stranded' = {}
       \/ CallFails /\ cloneJob' = [r \in Repos |-> "none"] /\ stranded' = Interrupted
    /\ cancelled' = {} /\ deletion' = [d \in Deleters |-> NoDeletion]
    /\ leftover' = \/ leftover
                   \/ \E d \in Deleters : deletion[d].pc = "mirror"
                   \/ \E r \in Repos : status[r] \notin Row /\ cloneJob[r] \in {"landed", "orphan"}
    /\ UNCHANGED <<status, mirrorOf, beside>>

CloneWorks == \E r \in Repos :
    \/ Begin(r) \/ SetWatchFails(r) \/ Clone(r) \/ Vacate(r) \/ MoveIn(r)
    \/ RecordFailure(r) \/ RecordLanding(r) \/ RemoveOrphan(r)

CloneJobsNext ==
    \/ CloneWorks
    \/ \E r \in Repos : CreateRepo(r) \/ \E d \in Deleters : Cancel(d, r)
    \/ \E d \in Deleters : DeleteRepo(d) \/ RemoveMirror(d)
    \/ Shutdown \/ Start

\* A clone ends one way or the other; a server that goes down comes up again.
CloneJobsSpec ==
    CloneJobsInit /\ [][CloneJobsNext]_cloneVars
    /\ WF_cloneVars(CloneWorks) /\ WF_cloneVars(~serverUp /\ Start)

-------------------------------------------------------------------------------

CloneJobsTypeOK ==
    /\ status \in [Repos -> Row \cup {"new", "deleted"}]
    /\ mirrorOf \in Repos \cup {NoMirror} /\ cancelled \subseteq Repos
    /\ cloneJob \in [Repos -> {"none", "begin", "clone", "swap", "move", "failed", "aborted",
                              "landed", "orphan"}]
    /\ deletion \in [Deleters -> {NoDeletion} \cup Deletions]
    /\ stranded \subseteq Repos /\ beside \subseteq Repos /\ leftover \in BOOLEAN

\* "Deleted while cloning: the delete's mirror cleanup may have run before the
\* clone landed" (clone.go:97): when every row is gone, and nobody is at work any
\* more, so is the mirror, unless the last attempt to remove it failed or was
\* killed.  And a ready repo has the mirror that it cloned, unless an earlier one
\* of the name was still at work when it was registered: all go by the name, so
\* the late clone of the earlier one, or its late removal, takes the mirror of
\* the other for its own.
MirrorFollowsRow ==
    /\ /\ \A r \in Repos : status[r] \notin Row /\ cloneJob[r] = "none"
       /\ \A d \in Deleters : deletion[d] = NoDeletion
       /\ ~leftover
       => mirrorOf = NoMirror
    /\ \A r \in Repos \ beside : status[r] = "ready" => mirrorOf = r

\* No repo stays "cloning", whatever kills the server, but one whose registration
\* or outcome the database refused to write, or whose resumption it refused to
\* read: only the next start sees to that one.  A clone that a shutdown cancels
\* ends too, as a failure (ShutdownIsNoFailure).
CloneEnds == <>[](\A r \in Repos : status[r] = "cloning" => r \in stranded)

\* "a shutdown cancels them; the rows stay "cloning" and are picked up again
\* here" (clone.go:52): what a shutdown did to a clone is not recorded as its
\* failure, which no start would resume.
ShutdownIsNoFailure ==
    [][\A r \in Repos :
          ~serverUp /\ cloneJob[r] = "aborted" /\ status[r] = "cloning" => status'[r] # "failed"
      ]_cloneVars
=============================================================================
