----------------------------- MODULE PreviewPage -----------------------------
(***************************************************************************)
(* A browser on a preview's address: what the router answers in each state *)
(* of the deploy and of its backend, the interim page that polls until the *)
(* answer is final, and a fleet at zero that the polls have to wake.       *)
(*                                                                         *)
(* One deploy with a backend that every request goes to; extra routes, the *)
(* /api prefix, static files (ArtifactStore) and the text of the pages are *)
(* left out.  A start may also be refused for missing files, which is how  *)
(* a deploy that a stale route still calls ready ends.                     *)
(***************************************************************************)
EXTENDS Naturals

CONSTANTS
    Pages,     \* browser tabs
    NoRoute,   \* nothing cached
    Faults     \* bound: failed builds, starts and metrics, workers that leave,
               \* processes reaped, evictions

ASSUME PreviewPageAssumption == Faults \in Nat

VARIABLES
    build,    \* the deploy's status, and how far its build is
    route,    \* Router.cache: the status it was resolved with
    proc,     \* the backend's process
    worker,   \* a worker is registered and fresh
    demand,   \* the preview is in unservedDemand
    alarm,    \* UnservedDemand was published above zero: a machine is coming
    page,     \* what each tab shows
    faults

pageVars == <<build, route, proc, worker, demand, alarm, page, faults>>

InFlight == {"queued", "resolving", "frontend", "backend", "persisting"}
Settled  == {"closed", "preview", "error", "failed"}
Asking   == {"navigates", "polls"}

PreviewPageInit ==
    /\ build = "queued" /\ route = NoRoute /\ proc = "idle"
    /\ worker = FALSE /\ demand = FALSE /\ alarm = FALSE
    /\ page = [p \in Pages |-> "closed"] /\ faults = 0

Mishap == faults < Faults /\ faults' = faults + 1
Shows(p, what) == page' = [page EXCEPT ![p] = what]

-------------------------------------------------------------------------------
(* The rest of the system *)

NextPhase(s) == CASE s = "queued" -> "resolving" [] s = "resolving" -> "frontend"
              [] s = "frontend" -> "backend" [] s = "backend" -> "persisting"
              [] s = "persisting" -> "ready"

BuildAdvances ==
    /\ build \in InFlight /\ build' = NextPhase(build)
    /\ UNCHANGED <<route, proc, worker, demand, alarm, page, faults>>

PageBuildFails ==
    /\ build \in InFlight /\ Mishap /\ build' = "failed"
    /\ UNCHANGED <<route, proc, worker, demand, alarm, page>>

Evicted ==
    /\ build = "ready" /\ Mishap /\ build' = "evicted" /\ proc' = "idle"
    /\ UNCHANGED <<route, worker, demand, alarm, page>>

Redeploy ==
    /\ build \in {"failed", "evicted"} /\ Mishap /\ build' = "queued"
    /\ UNCHANGED <<route, proc, worker, demand, alarm, page>>

StartEnds ==
    /\ proc = "starting"
    /\ \/ build = "ready" /\ proc' = "running" /\ UNCHANGED faults
       \/ build # "ready" /\ proc' = "crashed" /\ UNCHANGED faults
       \/ Mishap /\ proc' = "crashed"
    /\ UNCHANGED <<build, route, worker, demand, alarm, page>>

Reaped ==
    /\ proc = "running" /\ Mishap /\ proc' = "idle"
    /\ UNCHANGED <<build, route, worker, demand, alarm, page>>

\* publishMetrics drains the demand, whether the put succeeds or not.
PublishDemand ==
    /\ demand' = FALSE
    /\ \/ alarm' = (alarm \/ demand) /\ UNCHANGED faults
       \/ demand /\ Mishap /\ UNCHANGED alarm
    /\ UNCHANGED <<build, route, proc, worker, page>>

\* The autoscaling group starts a machine for the alarm, which registers.
WorkerJoins ==
    /\ alarm /\ ~worker /\ worker' = TRUE /\ alarm' = FALSE
    /\ UNCHANGED <<build, route, proc, demand, page, faults>>

\* Scale-in, or a worker that goes stale.
WorkerLeaves ==
    /\ worker /\ Mishap /\ worker' = FALSE /\ proc' = "idle"
    /\ UNCHANGED <<build, route, demand, alarm, page>>

-------------------------------------------------------------------------------
(* The router *)

RouteExpires ==
    /\ route # NoRoute /\ route' = NoRoute
    /\ UNCHANGED <<build, proc, worker, demand, alarm, page, faults>>

Open(p) ==
    /\ page[p] \in Settled /\ Mishap /\ Shows(p, "navigates")
    /\ UNCHANGED <<build, route, proc, worker, demand, alarm>>

PageTick(p) ==
    /\ page[p] = "interim" /\ Shows(p, "polls")
    /\ UNCHANGED <<build, route, proc, worker, demand, alarm, faults>>

\* lookup, when the cache has nothing fresh.
Resolved == IF route = NoRoute THEN build ELSE route

\* A poll that gets a final answer reloads the page; a navigation shows it.
Final(p, what) == Shows(p, IF page[p] = "polls" THEN "navigates" ELSE what)

\* servePreview of a deploy that is not ready.
ServeStatus(p) ==
    /\ page[p] \in Asking /\ Resolved # "ready" /\ route' = Resolved
    /\ IF Resolved \in InFlight THEN Shows(p, "interim") ELSE Final(p, "error")
    /\ UNCHANGED <<build, proc, worker, demand, alarm, faults>>

\* A bug to catch: only a navigation is demand.
WakeOnce(p) ==
    /\ ~worker /\ Shows(p, "interim") /\ demand' = (demand \/ page[p] = "navigates")
    /\ UNCHANGED proc

\* ErrNoWorker: the request itself is the demand, and so is each poll.
Wake(p) == ~worker /\ Shows(p, "interim") /\ demand' = TRUE /\ UNCHANGED proc

\* EnsureRunning joins the start, or makes one.
Ensure(p) ==
    /\ worker /\ Shows(p, IF page[p] = "polls" THEN "poll waits" ELSE "waits")
    /\ proc' = IF proc \in {"idle", "crashed"} THEN "starting" ELSE proc
    /\ UNCHANGED demand

ServeReady(p) ==
    /\ page[p] \in Asking /\ Resolved = "ready" /\ route' = "ready"
    /\ Wake(p) \/ Ensure(p)
    /\ UNCHANGED <<build, worker, alarm, faults>>

\* ensureAndProxy: the preview, the interim page when the wait is over, or the
\* failure, which a polling page shows in place.
PageAnswered(p) ==
    /\ page[p] \in {"waits", "poll waits"}
    /\ CASE proc = "running"  -> Shows(p, IF page[p] = "waits" THEN "preview" ELSE "navigates")
         [] proc = "starting" -> Shows(p, "interim")
         [] OTHER             -> Shows(p, IF page[p] = "waits" THEN "error" ELSE "failed")
    /\ UNCHANGED <<build, route, proc, worker, demand, alarm, faults>>

-------------------------------------------------------------------------------
Runs == BuildAdvances \/ StartEnds
PageServed(p) == PageTick(p) \/ ServeStatus(p) \/ ServeReady(p) \/ PageAnswered(p)

PreviewPageNext ==
    \/ BuildAdvances \/ PageBuildFails \/ Evicted \/ Redeploy \/ StartEnds \/ Reaped
    \/ PublishDemand \/ WorkerJoins \/ WorkerLeaves \/ RouteExpires
    \/ \E p \in Pages : Open(p) \/ PageServed(p)

PreviewPageSpec ==
    /\ PreviewPageInit /\ [][PreviewPageNext]_pageVars
    /\ \A p \in Pages : WF_pageVars(PageServed(p))
    /\ WF_pageVars(Runs) /\ WF_pageVars(RouteExpires)
    /\ WF_pageVars(WorkerJoins) /\ SF_pageVars(demand /\ PublishDemand)

-------------------------------------------------------------------------------
PreviewPageTypeOK ==
    /\ build \in InFlight \cup {"ready", "failed", "evicted"}
    /\ proc \in {"idle", "starting", "running", "crashed"}
    /\ \A p \in Pages : page[p] \in Settled \cup Asking \cup {"interim", "waits", "poll waits"}
    /\ {worker, demand, alarm} \subseteq BOOLEAN

\* "The preview loads automatically once it's up" (proxy.go:689): every page
\* ends on the preview or on a final error, through a build, an eviction, a
\* route cached before them, a fleet at zero and metrics that are lost.
PageSettles == \A p \in Pages : []<>(page[p] \in Settled)
=============================================================================
