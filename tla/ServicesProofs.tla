---------------------------- MODULE ServicesProofs ----------------------------
(***************************************************************************)
(* What holds of the parts of the server side by side, for every instance  *)
(* of them: whichever part a behaviour is of, each one's invariant holds,  *)
(* those of the other modules of proofs and the types of the parts that    *)
(* have nothing else to prove.                                             *)
(***************************************************************************)
EXTENDS MCServices, ArtifactStoreProofs, FleetProofs, DeployProofs, StreamProofs

-------------------------------------------------------------------------------
(* The repository watcher *)

\* What a poll knows in each of its steps.
WatchPollType ==
    /\ watchPoll.pc \in {"idle", "fetch", "baseline", "deploy", "done"}
    /\ watchPoll.pc \in {"baseline", "deploy", "done"} => watchPoll.tips \in Heads
    /\ watchPoll.pc \in {"deploy", "done"} => watchPoll =
          [pc |-> watchPoll.pc, baselined |-> watchPoll.baselined, tips |-> watchPoll.tips,
           evict |-> watchPoll.evict, todo |-> watchPoll.todo]

WatchInv ==
    /\ remote \in Heads /\ mirror \in Heads
    /\ watchRow \in [watch : BOOLEAN, baselined : BOOLEAN] /\ base \subseteq Commits
    /\ deploys \in [Commits -> {"none", "live", "evicted"}] /\ created \in Nat
    /\ lastPass # NoPass =>
          lastPass.tips \in Heads /\ lastPass.created \in Nat /\ lastPass.created <= created
    /\ WatchPollType

LEMMA TipsAre == ASSUME NEW heads \in Heads, NEW on \in SUBSET Branches
                 PROVE  Tips(heads, on) \subseteq Commits
BY DEF Heads, Tips

LEMMA WatchStarts == RepoWatchInit => WatchInv
<1> SUFFICES ASSUME RepoWatchInit PROVE WatchInv
  OBVIOUS
<1>1. WatchPollType
  BY DEF RepoWatchInit, WatchPollType, NotPolling
<1> QED BY <1>1, RepoWatchAssumption DEF RepoWatchInit, WatchInv, Heads

\* A request makes a row, or takes an evicted one up again.
LEMMA Wanted ==
    ASSUME WatchInv, NEW c \in Commits, Want(c)
    PROVE  deploys' \in [Commits -> {"none", "live", "evicted"}] /\ created' \in Nat /\ created <= created'
<1>1. deploys \in [Commits -> {"none", "live", "evicted"}] /\ created \in Nat
  BY DEF WatchInv
<1>2. CASE deploys[c] = "none"
  BY <1>1, <1>2 DEF Want
<1>3. CASE deploys[c] = "evicted"
  BY <1>1, <1>3 DEF Want
<1>4. CASE deploys[c] = "live"
  BY <1>1, <1>4 DEF Want
<1> QED BY <1>1, <1>2, <1>3, <1>4

LEMMA WatchSteps == WatchInv /\ [RepoWatchNext]_repoWatchVars => WatchInv'
<1> SUFFICES ASSUME WatchInv, [RepoWatchNext]_repoWatchVars PROVE WatchInv'
  OBVIOUS
<1> USE DEF WatchInv, WatchPollType
<1>1. CASE UNCHANGED repoWatchVars
  BY <1>1 DEF repoWatchVars, ghosts
<1>2. ASSUME PollBegins PROVE WatchInv'
  BY <1>2 DEF PollBegins, NotPolling, ghosts
<1>3. ASSUME PollFetches PROVE WatchInv'
  BY <1>3 DEF PollFetches, Quiet, ghosts
<1>4. ASSUME Baselines PROVE WatchInv'
  <2>1. Tips(watchPoll.tips, Branches) \subseteq Commits
    BY <1>4, TipsAre DEF Baselines
  <2>2. /\ watchPoll'.pc = "deploy" /\ watchPoll'.tips \in Heads /\ WatchPollType'
        /\ UNCHANGED <<remote, mirror, deploys, created, lastPass>>
    BY <1>4 DEF Baselines
  <2>3. base' \subseteq Commits /\ watchRow' \in [watch : BOOLEAN, baselined : BOOLEAN]
    BY <1>4, <2>1 DEF Baselines
  <2> QED BY <2>2, <2>3
<1>5. ASSUME NEW c \in Commits, Deploys(c) PROVE WatchInv'
  <2>1. /\ deploys' \in [Commits -> {"none", "live", "evicted"}] /\ created' \in Nat /\ created <= created'
    BY <1>5, Wanted DEF Deploys
  <2>2. WatchPollType' /\ UNCHANGED <<remote, mirror, watchRow, base, lastPass>>
    BY <1>5 DEF Deploys
  <2> QED BY <2>1, <2>2
<1>6. ASSUME Evicts PROVE WatchInv'
  <2>1. base' \subseteq Commits /\ deploys' \in [Commits -> {"none", "live", "evicted"}]
    BY <1>6 DEF Evicts, PruneWatchBaseline, EvictUnreachable
  <2>2. WatchPollType' /\ UNCHANGED <<remote, mirror, watchRow, created, lastPass>>
    BY <1>6 DEF Evicts
  <2> QED BY <2>1, <2>2
<1>7. ASSUME PassEnds PROVE WatchInv'
  BY <1>7 DEF PassEnds, NotPolling
<1>8. ASSUME PollBreaks \/ WatchRestarts PROVE WatchInv'
  BY <1>8 DEF PollBreaks, WatchRestarts, NotPolling
<1>9. ASSUME NEW b \in Branches, Request(b) PROVE WatchInv'
  <2>1. /\ deploys' \in [Commits -> {"none", "live", "evicted"}] /\ created' \in Nat /\ created <= created'
    BY <1>9, Wanted DEF Request, Heads
  <2>2. UNCHANGED <<remote, watchRow, base, lastPass, watchPoll>> /\ mirror' = remote
    BY <1>9 DEF Request
  <2> QED BY <2>1, <2>2
<1>10. ASSUME NEW b \in Branches, NEW c \in Commits, Webhook(b, c) PROVE WatchInv'
  <2>1. /\ deploys' \in [Commits -> {"none", "live", "evicted"}] /\ created' \in Nat /\ created <= created'
    BY <1>10, Wanted DEF Webhook
  <2>2. UNCHANGED <<remote, watchRow, base, lastPass, watchPoll>> /\ mirror' \in {remote, mirror}
    BY <1>10 DEF Webhook
  <2> QED BY <2>1, <2>2
<1>11. ASSUME NEW b \in Branches, NEW h \in Commits \cup {Gone}, Push(b, h) PROVE WatchInv'
  <2>1. remote' \in Heads
    BY <1>11 DEF Push, Heads
  <2>2. UNCHANGED <<mirror, watchRow, base, deploys, created, lastPass, watchPoll>>
    BY <1>11 DEF Push
  <2> QED BY <2>1, <2>2
<1>12. ASSUME NEW on \in BOOLEAN, NEW backfill \in BOOLEAN, SetRepoWatch(on, backfill) PROVE WatchInv'
  <2>1. watchRow' \in [watch : BOOLEAN, baselined : BOOLEAN]
    <3>1. watchRow.baselined \in BOOLEAN
      OBVIOUS
    <3> QED BY <1>12, <3>1 DEF SetRepoWatch
  <2>2. base' \subseteq Commits /\ UNCHANGED <<remote, mirror, deploys, created, lastPass, watchPoll>>
    BY <1>12 DEF SetRepoWatch
  <2> QED BY <2>1, <2>2
<1>13. ASSUME NEW c \in Commits, DeleteDeploy(c) PROVE WatchInv'
  BY <1>13 DEF DeleteDeploy
<1> QED BY <1>1, <1>2, <1>3, <1>4, <1>5, <1>6, <1>7, <1>8, <1>9, <1>10, <1>11, <1>12, <1>13
        DEF RepoWatchNext, Polls

-------------------------------------------------------------------------------
(* Sign-in *)

Places == AtRest \cup {"preview", "canonical", "google", "grant", "code", "login", "github", "callback"}
Sessions == {"none", "live", "dead"}

SignInInv ==
    /\ tab \in [Tabs -> [at : Places, to : {"preview", "canonical"}]]
    /\ code \in [Tabs -> {"none", "good", "bad"}]
    /\ jar \in [apex : Sessions, grant : Sessions, state : Tabs \cup {NoTab},
                return : BOOLEAN, onyx : {"none", "host", "wide"}]

LEMMA SignInStarts == SignInInit => SignInInv
BY SignInAssumption DEF SignInInit, SignInInv, Places, AtRest, Sessions

LEMMA TabGoes ==
    ASSUME SignInInv, NEW t \in Tabs, NEW place \in Places, Goes(t, place)
    PROVE  tab' \in [Tabs -> [at : Places, to : {"preview", "canonical"}]]
BY DEF SignInInv, Goes

LEMMA SignInSteps == SignInInv /\ [SignInNext]_signInVars => SignInInv'
<1> SUFFICES ASSUME SignInInv, [SignInNext]_signInVars PROVE SignInInv'
  OBVIOUS
<1> USE DEF SignInInv, Sessions
<1>1. CASE UNCHANGED signInVars
  BY <1>1 DEF signInVars
<1>2. ASSUME Ends PROVE SignInInv'
  <2>1. CASE ApexEnds
    BY <2>1 DEF ApexEnds, Orphaned
  <2>2. CASE CookieEnds
    BY <2>2 DEF CookieEnds
  <2>3. CASE TokenEnds
    BY <2>3 DEF TokenEnds
  <2>4. ASSUME NEW t \in Tabs, CodeEnds(t) PROVE SignInInv'
    BY <2>4 DEF CodeEnds
  <2> QED BY <1>2, <2>1, <2>2, <2>3, <2>4 DEF Ends
<1>3. ASSUME NEW t \in Tabs, Visit(t) PROVE SignInInv'
  BY <1>3 DEF Visit, Places
<1>4. ASSUME NEW t \in Tabs, Gated(t) PROVE SignInInv'
  BY <1>4 DEF Gated, Places
<1>5. ASSUME NEW t \in Tabs, Preview(t) PROVE SignInInv'
  BY <1>5, TabGoes DEF Preview, Places, AtRest
<1>6. ASSUME NEW t \in Tabs, Canonical(t) PROVE SignInInv'
  BY <1>6, TabGoes DEF Canonical, Returns, Places, AtRest
<1>7. ASSUME NEW t \in Tabs, NEW yes \in BOOLEAN, Google(t, yes) \/ GitHub(t, yes) PROVE SignInInv'
  BY <1>7, TabGoes DEF Google, GitHub, Places, AtRest
<1>8. ASSUME NEW t \in Tabs, Grant(t) PROVE SignInInv'
  BY <1>8, TabGoes DEF Grant, Places
<1>9. ASSUME NEW t \in Tabs, Redeem(t) PROVE SignInInv'
  BY <1>9, TabGoes DEF Redeem, Places
<1>10. ASSUME NEW t \in Tabs, Login(t) PROVE SignInInv'
  BY <1>10, TabGoes DEF Login, Places
<1>11. ASSUME NEW t \in Tabs, NEW account, NEW fails, Callback(t, account, fails) PROVE SignInInv'
  BY <1>11, TabGoes DEF Callback, Places, AtRest
<1> QED BY <1>1, <1>2, <1>3, <1>4, <1>5, <1>6, <1>7, <1>8, <1>9, <1>10, <1>11
        DEF SignInNext, Serves

-------------------------------------------------------------------------------
(* The preview's page *)

PageTyped ==
    /\ build \in InFlight \cup {"ready", "failed", "evicted"}
    /\ proc \in {"idle", "starting", "running", "crashed"}
    /\ page \in [Pages -> Settled \cup Asking \cup {"interim", "waits", "poll waits"}]
    /\ worker \in BOOLEAN /\ demand \in BOOLEAN /\ alarm \in BOOLEAN

LEMMA PageStarts == PreviewPageInit => PageTyped
BY DEF PreviewPageInit, PageTyped, InFlight, Settled

LEMMA PageSteps == PageTyped /\ [PreviewPageNext]_pageVars => PageTyped'
<1> SUFFICES ASSUME PageTyped, [PreviewPageNext]_pageVars PROVE PageTyped'
  OBVIOUS
<1> USE DEF PageTyped, Settled, Asking
<1>1. CASE UNCHANGED pageVars
  BY <1>1 DEF pageVars
<1>2. ASSUME BuildAdvances PROVE PageTyped'
  <2>1. NextPhase(build) \in InFlight \cup {"ready"}
    BY <1>2 DEF BuildAdvances, NextPhase, InFlight
  <2> QED BY <1>2, <2>1 DEF BuildAdvances
<1>3. ASSUME PageBuildFails \/ Evicted \/ Redeploy PROVE PageTyped'
  BY <1>3 DEF PageBuildFails, Evicted, Redeploy, InFlight
<1>4. ASSUME StartEnds \/ Reaped \/ WorkerJoins \/ WorkerLeaves \/ RouteExpires PROVE PageTyped'
  BY <1>4 DEF StartEnds, Reaped, WorkerJoins, WorkerLeaves, RouteExpires
<1>5. ASSUME PublishDemand PROVE PageTyped'
  BY <1>5 DEF PublishDemand
<1>6. ASSUME NEW p \in Pages, Open(p) \/ PageTick(p) PROVE PageTyped'
  BY <1>6 DEF Open, PageTick, Shows
<1>7. ASSUME NEW p \in Pages, ServeStatus(p) PROVE PageTyped'
  BY <1>7 DEF ServeStatus, Final, Shows
<1>8. ASSUME NEW p \in Pages, ServeReady(p) PROVE PageTyped'
  BY <1>8 DEF ServeReady, Wake, Ensure, Shows
<1>9. ASSUME NEW p \in Pages, PageAnswered(p) PROVE PageTyped'
  <2>1. \E what \in {"preview", "navigates", "interim", "error", "failed"} : Shows(p, what)
    <3>1. CASE proc = "running"
      BY <1>9, <3>1 DEF PageAnswered
    <3>2. CASE proc = "starting"
      BY <1>9, <3>2 DEF PageAnswered
    <3>3. CASE proc \in {"idle", "crashed"}
      BY <1>9, <3>3 DEF PageAnswered
    <3> QED BY <3>1, <3>2, <3>3
  <2> QED BY <1>9, <2>1 DEF PageAnswered, Shows
<1> QED BY <1>1, <1>2, <1>3, <1>4, <1>5, <1>6, <1>7, <1>8, <1>9 DEF PreviewPageNext, PageServed

-------------------------------------------------------------------------------
(* The reaper *)

ReapingInv ==
    /\ warmth \in WarmPolicies /\ age \in [WarmKeys -> 0..2]
    /\ warm \in [WarmKeys -> {"none", "starting", "waiting", "launched", "ready", "stopping"}]
    /\ doomed \in [Passes -> Seq(WarmKeys)] /\ \A r \in Passes : IsInjective(doomed[r])

\* What a pass decides to stop is a list of keys, each once.
LEMMA StopListsAre ==
    ASSUME warmth \in WarmPolicies, NEW s \in SetToSeqs(Candidates), NEW list \in StopLists(s)
    PROVE  list \in Seq(WarmKeys) /\ IsInjective(list)
<1> DEFINE S == IdleOut(s) \cup Oldest(s)
           n == Cardinality(S)
<1>1. Candidates \subseteq WarmKeys /\ IsFiniteSet(Candidates)
  BY ReaperAssumption, FS_Subset DEF Candidates
<1>2. S \subseteq WarmKeys
  <2>1. s \in [1..Cardinality(Candidates) -> Candidates]
    BY DEF SetToSeqs
  <2>2. Cardinality(Candidates) \in Nat
    BY <1>1, FS_CardinalityType
  <2>3. DOMAIN s = 1..Len(s) /\ \A i \in 1..Len(s) : s[i] \in WarmKeys
    BY <1>1, <2>1, <2>2
  <2>4. warmth.floor \in Nat
    BY ReaperAssumption
  <2>5. warmth.floor + 1 .. Len(s) \subseteq 1..Len(s)
    BY <2>4
  <2> QED BY <2>3, <2>5 DEF PastFloor, IdleOut, Unhurried, Oldest
<1>3. n \in Nat
  BY <1>2, ReaperAssumption, FS_Subset, FS_CardinalityType
<1>4. list \in [1..n -> S] /\ \A i, j \in 1..n : i # j => list[i] # list[j]
  BY DEF StopLists, SetToSeqs
<1> HIDE DEF S, n
<1>5. list \in [1..n -> WarmKeys]
  BY <1>2, <1>4
<1>6. IsInjective(list)
  BY <1>4 DEF IsInjective
<1> QED BY <1>3, <1>5, <1>6

LEMMA TailInjective ==
    ASSUME NEW s \in Seq(WarmKeys), IsInjective(s), s # <<>>
    PROVE  Tail(s) \in Seq(WarmKeys) /\ IsInjective(Tail(s))
<1>1. /\ Tail(s) \in Seq(WarmKeys) /\ DOMAIN Tail(s) = 1 .. Len(s) - 1
      /\ \A i \in 1 .. Len(s) - 1 : Tail(s)[i] = s[i + 1]
  OBVIOUS
<1>2. ASSUME NEW i \in 1 .. Len(s) - 1, NEW j \in 1 .. Len(s) - 1, Tail(s)[i] = Tail(s)[j]
      PROVE  i = j
  <2>1. i + 1 \in DOMAIN s /\ j + 1 \in DOMAIN s /\ s[i + 1] = s[j + 1]
    BY <1>1, <1>2
  <2> QED BY <2>1 DEF IsInjective
<1> QED BY <1>1, <1>2 DEF IsInjective

LEMMA ReaperStarts == ReaperInit => ReapingInv
<1> SUFFICES ASSUME ReaperInit PROVE ReapingInv
  OBVIOUS
<1>1. IsInjective(<<>>) /\ <<>> \in Seq(WarmKeys)
  BY DEF IsInjective
<1> QED BY <1>1 DEF ReaperInit, ReapingInv

LEMMA ReaperSteps == ReapingInv /\ [ReaperNext]_reaperVars => ReapingInv'
<1> SUFFICES ASSUME ReapingInv, [ReaperNext]_reaperVars PROVE ReapingInv'
  OBVIOUS
<1> USE DEF ReapingInv
<1>1. CASE UNCHANGED reaperVars
  BY <1>1 DEF reaperVars
<1>2. ASSUME NEW k \in WarmKeys, Ask(k) PROVE ReapingInv'
  BY <1>2 DEF Ask, Ensured
<1>3. ASSUME NEW k \in WarmKeys, EnsureBackend(k) PROVE ReapingInv'
  <2> DEFINE seen == [warm EXCEPT ![k] = "waiting"]
  <2>1. /\ Peer[k] \in WarmKeys
        /\ seen \in [WarmKeys -> {"none", "starting", "waiting", "launched", "ready", "stopping"}]
    BY <1>3, ReaperAssumption DEF EnsureBackend
  <2>2. Ensured(Peer[k], seen)
    BY <1>3 DEF EnsureBackend
  <2> HIDE DEF seen
  <2> QED BY <2>1, <2>2 DEF Ensured
<1>4. ASSUME NEW k \in WarmKeys, GotBackend(k) \/ TurnsHealthy(k) \/ Vanish(k) \/ Dies(k)
      PROVE  ReapingInv'
  BY <1>4 DEF GotBackend, TurnsHealthy, Vanish, Dies
<1>5. ASSUME NEW r \in Passes, Reap(r) PROVE ReapingInv'
  <2>1. PICK list : /\ doomed' = [doomed EXCEPT ![r] = list]
                    /\ list \in Seq(WarmKeys) /\ IsInjective(list)
    BY <1>5, StopListsAre DEF Reap
  <2> QED BY <1>5, <2>1 DEF Reap
<1>6. ASSUME NEW r \in Passes, BeginStop(r) PROVE ReapingInv'
  BY <1>6 DEF BeginStop
<1>7. ASSUME NEW r \in Passes, StopDone(r) PROVE ReapingInv'
  <2>1. Tail(doomed[r]) \in Seq(WarmKeys) /\ IsInjective(Tail(doomed[r]))
    BY <1>7, TailInjective DEF StopDone
  <2> QED BY <1>7, <2>1 DEF StopDone
<1>8. ASSUME TimePasses PROVE ReapingInv'
  BY <1>8 DEF TimePasses
<1> QED BY <1>1, <1>2, <1>3, <1>4, <1>5, <1>6, <1>7, <1>8
        DEF ReaperNext, Advances, Proceeds

-------------------------------------------------------------------------------
(* The parts beside each other *)

\* The types of a part's variables follow from its invariant.
LEMMA WatchTypes == WatchInv => RepoWatchTypeOK
BY DEF WatchInv, WatchPollType, RepoWatchTypeOK

LEMMA SignInTypes == SignInInv => SignInTypeOK
BY DEF SignInInv, Places, Sessions, SignInTypeOK

LEMMA PageTypes == PageTyped => PreviewPageTypeOK
<1> SUFFICES ASSUME PageTyped PROVE PreviewPageTypeOK
  OBVIOUS
<1>1. worker \in BOOLEAN /\ demand \in BOOLEAN /\ alarm \in BOOLEAN
  BY DEF PageTyped
<1>2. {worker, demand, alarm} \subseteq BOOLEAN
  BY <1>1, Zenon
<1>3. \A p \in Pages : page[p] \in Settled \cup Asking \cup {"interim", "waits", "poll waits"}
  BY DEF PageTyped
<1> QED BY <1>2, <1>3 DEF PageTyped, PreviewPageTypeOK

LEMMA ReaperTypes == ReapingInv => ReaperTypeOK
<1> SUFFICES ASSUME ReapingInv PROVE ReaperTypeOK
  OBVIOUS
<1>1. ASSUME NEW r \in Passes PROVE Range(doomed[r]) \subseteq WarmKeys
  BY DEF ReapingInv, Range
<1> QED BY <1>1 DEF ReapingInv, ReaperTypeOK

\* The watcher's row, baseline and deploys keep their types.
THEOREM WatcherTyped == RepoWatchSpec => []RepoWatchTypeOK
BY WatchStarts, WatchSteps, WatchTypes, PTL DEF RepoWatchSpec

\* So do tabs, codes and cookies of a sign-in.
THEOREM SignInTyped == SignInSpec => []SignInTypeOK
BY SignInStarts, SignInSteps, SignInTypes, PTL DEF SignInSpec

\* So do builds, processes and pages.
THEOREM PreviewPagesTyped == PreviewPageSpec => []PreviewPageTypeOK
BY PageStarts, PageSteps, PageTypes, PTL DEF PreviewPageSpec

\* A pass of the reaper names each key it stops once.
THEOREM ReaperTyped == ReaperSpec => []ReaperTypeOK
BY ReaperStarts, ReaperSteps, ReaperTypes, PTL DEF ReaperSpec

LEMMA PartsStart ==
    ASSUME ServicesInit
    PROVE  /\ ArtifactInit /\ InitStepsInit /\ FleetRegistryInit /\ FleetPlacementInit /\ RepoWatchInit
           /\ CloneJobsInit /\ SignInInit /\ PreviewPageInit /\ ExecInit /\ InputInit /\ LogInit
           /\ NetInit /\ ResponsesInit /\ PagesInit /\ ReaperInit
BY DEF ServicesInit

\* A step of the whole is of each part a step or none.
StepOfEachPart ==
    /\ [ArtifactNext]_artifactVars /\ [InitStepsNext]_initVars /\ [FleetRegistryNext]_registryVars
    /\ [FleetPlacementNext]_fleetVars /\ [RepoWatchNext]_repoWatchVars /\ [CloneJobsNext]_cloneVars
    /\ [SignInNext]_signInVars /\ [PreviewPageNext]_pageVars /\ [ExecNext]_execVars
    /\ [InputNext]_inputVars /\ [LogNext]_logVars /\ [NetNext]_netVars
    /\ [ResponsesNext]_respVars /\ [PagesNext]_pagesVars /\ [ReaperNext]_reaperVars

LEMMA PartsStep == ASSUME [ServicesNext]_servicesVars PROVE StepOfEachPart
<1>1. CASE UNCHANGED servicesVars
  BY <1>1 DEF servicesVars, StepOfEachPart
<1>2. CASE part = "artifacts" /\ Alone /\ ArtifactNext
  BY <1>2 DEF Alone, Still, StepOfEachPart
<1>3. CASE part = "init steps" /\ Alone /\ InitStepsNext
  BY <1>3 DEF Alone, Still, StepOfEachPart
<1>4. CASE part = "registry" /\ Alone /\ FleetRegistryNext
  BY <1>4 DEF Alone, Still, StepOfEachPart
<1>5. CASE part = "placement" /\ Alone /\ FleetPlacementNext
  BY <1>5 DEF Alone, Still, StepOfEachPart
<1>6. CASE part = "watcher" /\ Alone /\ RepoWatchNext
  BY <1>6 DEF Alone, Still, StepOfEachPart
<1>7. CASE part = "clones" /\ Alone /\ CloneJobsNext
  BY <1>7 DEF Alone, Still, StepOfEachPart
<1>8. CASE part = "sign-in" /\ Alone /\ SignInNext
  BY <1>8 DEF Alone, Still, StepOfEachPart
<1>9. CASE part = "page" /\ Alone /\ PreviewPageNext
  BY <1>9 DEF Alone, Still, StepOfEachPart
<1>10. CASE part = "exec" /\ Alone /\ ExecNext
  BY <1>10 DEF Alone, Still, StepOfEachPart
<1>11. CASE part = "inputs" /\ Alone /\ InputNext
  BY <1>11 DEF Alone, Still, StepOfEachPart
<1>12. CASE part = "logs" /\ Alone /\ LogNext
  BY <1>12 DEF Alone, Still, StepOfEachPart
<1>13. CASE part = "network" /\ Alone /\ NetNext
  BY <1>13 DEF Alone, Still, StepOfEachPart
<1>14. CASE part = "responses" /\ Alone /\ ResponsesNext
  BY <1>14 DEF Alone, Still, StepOfEachPart
<1>15. CASE part = "listing" /\ Alone /\ PagesNext
  BY <1>15 DEF Alone, Still, StepOfEachPart
<1>16. CASE part = "reaper" /\ Alone /\ ReaperNext
  BY <1>16 DEF Alone, Still, StepOfEachPart
<1> QED BY <1>1, <1>2, <1>3, <1>4, <1>5, <1>6, <1>7, <1>8, <1>9, <1>10, <1>11, <1>12, <1>13, <1>14,
           <1>15, <1>16 DEF ServicesNext

\* Of the parts whose own specifications ask for no fairness, a behaviour of the
\* whole is a behaviour.
LEMMA PartsBehave ==
    ServicesSpec => /\ ArtifactSpec /\ InitStepsSpec /\ FleetPlacementSpec /\ InputSpec /\ LogSpec
                    /\ NetSpec /\ ResponsesSpec /\ PagesSpec
<1>1. ServicesInit => /\ ArtifactInit /\ InitStepsInit /\ FleetPlacementInit /\ InputInit /\ LogInit
                      /\ NetInit /\ ResponsesInit /\ PagesInit
  BY PartsStart
<1>2. [ServicesNext]_servicesVars =>
          /\ [ArtifactNext]_artifactVars /\ [InitStepsNext]_initVars /\ [FleetPlacementNext]_fleetVars
          /\ [InputNext]_inputVars /\ [LogNext]_logVars /\ [NetNext]_netVars
          /\ [ResponsesNext]_respVars /\ [PagesNext]_pagesVars
  BY PartsStep DEF StepOfEachPart
<1> QED BY <1>1, <1>2, PTL
        DEF ServicesSpec, ArtifactSpec, InitStepsSpec, FleetPlacementSpec, InputSpec, LogSpec, NetSpec,
            ResponsesSpec, PagesSpec

\* The invariants of the others.
OthersInv ==
    RegistryInv /\ WatchInv /\ CloneInv /\ SignInInv /\ PageTyped /\ ExecInv /\ ExecTypeInv /\ ReapingInv

LEMMA OthersKeepInv == ServicesSpec => []OthersInv
<1>1. ASSUME ServicesInit PROVE OthersInv
  BY <1>1, PartsStart, RegistryStarts, WatchStarts, CloneStart, SignInStarts, PageStarts,
     SessionStarts, ExecTypesStart, ReaperStarts DEF OthersInv
<1>2. ASSUME OthersInv, [ServicesNext]_servicesVars PROVE OthersInv'
  <2>1. /\ [FleetRegistryNext]_registryVars /\ [RepoWatchNext]_repoWatchVars /\ [CloneJobsNext]_cloneVars
        /\ [SignInNext]_signInVars /\ [PreviewPageNext]_pageVars /\ [ExecNext]_execVars
        /\ [ReaperNext]_reaperVars
    BY <1>2, PartsStep DEF StepOfEachPart
  <2>2. CloneInv'
    BY <1>2, <2>1, CloneSteps DEF OthersInv
  <2>3. RegistryInv' /\ WatchInv' /\ SignInInv' /\ PageTyped'
    BY <1>2, <2>1, RegistrySteps, WatchSteps, SignInSteps, PageSteps DEF OthersInv
  <2>4. ExecInv' /\ ExecTypeInv' /\ ReapingInv'
    BY <1>2, <2>1, SessionSteps, ExecTypeSteps, ReaperSteps DEF OthersInv
  <2> QED BY <2>2, <2>3, <2>4 DEF OthersInv
<1> QED BY <1>1, <1>2, PTL DEF ServicesSpec

LEMMA OthersTyped ==
    OthersInv => /\ FleetRegistryTypeOK /\ RepoWatchTypeOK /\ CloneJobsTypeOK /\ SignInTypeOK
                 /\ PreviewPageTypeOK /\ ExecTypeOK /\ ReaperTypeOK
<1>1. CloneInv => CloneJobsTypeOK
  BY DEF CloneInv
<1> QED BY <1>1, RegistryTypes, WatchTypes, SignInTypes, PageTypes, ExecTypesHold, ReaperTypes DEF OthersInv

\* Whichever part of the server a behaviour is of: the control node believes no
\* init that never succeeded (orchestrator.go), the workers' shares of the warm
\* floor are the floor (fleet.go), only a lost answer makes the publisher take the
\* cloud's protection for what it is not (cloudscale.go), and the variables of every
\* part have their types.
THEOREM PartsAreConsistent == ServicesSpec => []PartsConsistent
<1>1. /\ RecordIsEarned /\ FloorIsProtected /\ OnlyLostAnswersMislead /\ ArtifactTypeOK /\ InitStepsTypeOK
      /\ FleetPlacementTypeOK /\ InputTypeOK /\ LogTypeOK /\ NetTypeOK /\ ResponsesTypeOK /\ PagesTypeOK
      /\ OthersInv
      => PartsConsistent
  BY OthersTyped DEF PartsConsistent
<1> QED BY <1>1, PartsBehave, OthersKeepInv, RecordsAreEarned, SharesAreTheFloor, CacheAccounted,
           ArtifactTypes, InitStepsTyped, PlacementTyped, InputsTyped, LogsTyped, NetworkTypes,
           ResponsesTyped, PagesTyped, PTL
================================================================================
