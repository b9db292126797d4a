------------------------------ MODULE MCServices ------------------------------
(***************************************************************************)
(* Small instances of the parts of the server that have a module of their  *)
(* own and meet only in what those modules abstract.  A behaviour is one   *)
(* of one part, chosen at the start; the others keep still, each in one of *)
(* its initial states, so what is checked of a part is what its own        *)
(* specification would show.                                               *)
(***************************************************************************)
EXTENDS ArtifactStore, InitSteps, FleetRegistry, FleetPlacement, RepoWatch, CloneJobs,
        SignIn, PreviewPage, ExecSession, BuildInputs, RunLogs, DeployNetwork,
        Responses, DeployPages, Reaper

CONSTANTS m1, m2, k1, k2, c1, c2, x1, b1, f1

VARIABLE part   \* the part whose behaviour it is

\* Two keys that prefer different workers, one of which has twice the slots.
MCWeight  == [w \in Workers |-> [k \in Keys |-> IF (w = m1) = (k = k1) THEN 2 ELSE 1]]
MCMaxWarm == [w \in Workers |-> IF w = m1 THEN 1 ELSE 2]

\* c2 follows c1.
MCHistory == [c \in Commits |-> IF c = c1 THEN {c1} ELSE {c1, c2}]

\* One response of any kind, long enough to go on being compressed once it is,
\* beside one of known length that is just long enough to start.
MCBodyUnits == [r \in Exchanges |-> IF r = x1 THEN 3 ELSE 2]
MCKinds     == [r \in Exchanges |-> IF r = x1 THEN ResponseKinds ELSE {"sized"}]

\* A frontend and its backend, under every warm policy that tells them apart.
MCPeer         == [k \in WarmKeys |-> IF k = f1 THEN b1 ELSE NoPeer]
MCWarmPolicies == [floor : {0, 1}, target : {0, 1}, idle : BOOLEAN]

Parts == { "artifacts", "init steps", "registry", "placement", "watcher", "clones", "sign-in",
          "page", "exec", "inputs", "logs", "network", "responses", "listing", "reaper" }

\* A part that may start in several ways does so when it is the one chosen.
ArtifactPin  == dir = [a \in Addr |-> "none"] /\ tier = dir /\ live = {}
InputPin     == docker = "up" /\ manifestDir = <<>> /\ commits[2].source = "broken"
                /\ commits[1].manifest = CHOOSE m \in Manifests : TRUE
ResponsesPin == \A r \in Exchanges : res[r] = Fresh(CHOOSE kind \in KindsOf[r] : TRUE)
PagesPin     == \A d \in DOMAIN table : table[d] = [status |-> "ready", process |-> CHOOSE p \in Processes : TRUE]
ReaperPin    == warmth = CHOOSE s \in WarmPolicies : TRUE

\* Without Docker at the start, the second commit changes images alone: they are
\* what the daemon is for.
ImagesDiffer ==
    \/ commits[1].devc # commits[2].devc
    \/ commits[1].manifest.be.runImage # commits[2].manifest.be.runImage
    \/ \E s \in Sides : commits[1].manifest[s].image # commits[2].manifest[s].image
InputStart == docker = "up" \/ ImagesDiffer

ServicesInit ==
    /\ part \in Parts
    /\ ArtifactInit /\ (part = "artifacts" \/ ArtifactPin)
    /\ InitStepsInit
    /\ FleetRegistryInit
    /\ FleetPlacementInit
    /\ RepoWatchInit
    /\ CloneJobsInit
    /\ SignInInit
    /\ PreviewPageInit
    /\ ExecInit
    /\ InputInit /\ InputStart /\ (part = "inputs" \/ InputPin)
    /\ LogInit
    /\ NetInit
    /\ ResponsesInit /\ (part = "responses" \/ ResponsesPin)
    /\ PagesInit /\ (part = "listing" \/ PagesPin)
    /\ ReaperInit /\ (part = "reaper" \/ ReaperPin)

\* The watcher's bounds are not all used up in one behaviour.
WatchBudget == watchSpent'.pushes + watchSpent'.settings + watchSpent'.others <= 4

\* The files of a node are short together, and shorter once something happened
\* to a node or its logs.
LogBudget ==
    \A n \in LogNodes :
        FoldLeft(+, 0, files'[n]) <= IF Undisturbed' THEN LogBytes ELSE LogBytes - 1

\* The chosen part steps, and every other one keeps still.
Still(p, v) == IF part = p THEN TRUE ELSE UNCHANGED v
Alone ==
    /\ UNCHANGED part
    /\ Still("artifacts", artifactVars)
    /\ Still("init steps", initVars)
    /\ Still("registry", registryVars)
    /\ Still("placement", fleetVars)
    /\ Still("watcher", repoWatchVars)
    /\ Still("clones", cloneVars)
    /\ Still("sign-in", signInVars)
    /\ Still("page", pageVars)
    /\ Still("exec", execVars)
    /\ Still("inputs", inputVars)
    /\ Still("logs", logVars)
    /\ Still("network", netVars)
    /\ Still("responses", respVars)
    /\ Still("listing", pagesVars)
    /\ Still("reaper", reaperVars)

ServicesNext ==
    \/ part = "artifacts" /\ Alone /\ ArtifactNext
    \/ part = "init steps" /\ Alone /\ InitStepsNext
    \/ part = "registry" /\ Alone /\ FleetRegistryNext
    \/ part = "placement" /\ Alone /\ FleetPlacementNext
    \/ part = "watcher" /\ Alone /\ RepoWatchNext /\ WatchBudget
    \/ part = "clones" /\ Alone /\ CloneJobsNext
    \/ part = "sign-in" /\ Alone /\ SignInNext
    \/ part = "page" /\ Alone /\ PreviewPageNext
    \/ part = "exec" /\ Alone /\ ExecNext
    \/ part = "inputs" /\ Alone /\ InputNext
    \/ part = "logs" /\ Alone /\ LogNext /\ LogBudget
    \/ part = "network" /\ Alone /\ NetNext
    \/ part = "responses" /\ Alone /\ ResponsesNext
    \/ part = "listing" /\ Alone /\ PagesNext
    \/ part = "reaper" /\ Alone /\ ReaperNext

servicesVars ==
    <<part, artifactVars, initVars, registryVars, fleetVars, repoWatchVars, cloneVars,
      signInVars, pageVars, execVars, inputVars, logVars, netVars, respVars, pagesVars,
      reaperVars>>

\* Each part's own fairness.
ServicesSpec ==
    /\ ServicesInit /\ [][ServicesNext]_servicesVars
    /\ WF_registryVars(part = "registry" /\ Announcing)
    /\ WF_registryVars(part = "registry" /\ Polling)
    /\ WF_repoWatchVars(part = "watcher" /\ Polls)
    /\ WF_cloneVars(part = "clones" /\ CloneWorks)
    /\ WF_cloneVars(part = "clones" /\ ~serverUp /\ Start)
    /\ \A t \in Tabs : WF_signInVars(part = "sign-in" /\ Serves(t))
    /\ WF_pageVars(part = "page" /\ Runs)
    /\ WF_pageVars(part = "page" /\ RouteExpires)
    /\ WF_pageVars(part = "page" /\ WorkerJoins)
    /\ \A p \in Pages : WF_pageVars(part = "page" /\ PageServed(p))
    /\ SF_pageVars(part = "page" /\ demand /\ PublishDemand)
    /\ WF_execVars(part = "exec" /\ Streams)
    /\ \A k \in WarmKeys : WF_reaperVars(part = "reaper" /\ Advances(k))
    /\ \A r \in Passes : WF_reaperVars(part = "reaper" /\ Proceeds(r))
    /\ WF_reaperVars(part = "reaper" /\ Reap("ticker"))
    /\ WF_reaperVars(part = "reaper" /\ TimePasses)

\* The variables of every part hold what its module says they hold; and besides,
\* the control node believes no init that never succeeded (InitSteps), the
\* workers' shares of the warm floor are the floor, and only a lost answer makes
\* the publisher take the cloud's protection for what it is not (FleetPlacement).
PartsConsistent ==
    /\ RecordIsEarned /\ FloorIsProtected /\ OnlyLostAnswersMislead
    /\ ArtifactTypeOK /\ InitStepsTypeOK /\ FleetRegistryTypeOK /\ FleetPlacementTypeOK
    /\ RepoWatchTypeOK /\ CloneJobsTypeOK /\ SignInTypeOK /\ PreviewPageTypeOK
    /\ ExecTypeOK /\ InputTypeOK /\ LogTypeOK /\ NetTypeOK
    /\ ResponsesTypeOK /\ PagesTypeOK /\ ReaperTypeOK

\* Whoever opens a preview gets there: the redirects of the sign-in come to an
\* end (NavigationLands, of SignIn), and the page that waits for a process, or
\* for a worker to be provisioned, turns into the preview or into an error that
\* says so (PageSettles, of PreviewPage).
VisitorArrives == NavigationLands /\ PageSettles
===============================================================================
