-------------------------------- MODULE Reaper --------------------------------
(***************************************************************************)
(* The warm policy of one supervise.Manager: which processes its reaper    *)
(* stops.  reap() looks at the table once, under its mutex, and decides    *)
(* from what it saw; the Stops it then makes, one after the other, take as *)
(* long as they take, while requests go on touching and starting           *)
(* processes.  The ticker begins a pass, and so does a start that turns    *)
(* healthy while a warm target is set, beside the ticker's (here at any    *)
(* time, and one such pass at a time).                                     *)
(*                                                                         *)
(* Of a process this keeps what module Supervise shows of it: a key has at *)
(* most one, a start is not stopped before it ends, and a Stop returns     *)
(* when the process is gone.  Nobody else stops here; processes die by     *)
(* themselves.  The policy does not change within a behaviour.             *)
(***************************************************************************)
EXTENDS Naturals, SequencesExt

CONSTANTS
    WarmKeys,      \* supervise.Key values
    Peer,          \* Peer[k]: the backend a frontend's environment names, or NoPeer
    WarmPolicies,  \* [floor, target, idle]: MinWarm, MaxWarm (0 is none), and
                   \* whether idle timeouts apply
    NoPeer

ASSUME ReaperAssumption ==
    /\ IsFiniteSet(WarmKeys)
    /\ Peer \in [WarmKeys -> WarmKeys \cup {NoPeer}] /\ NoPeer \notin WarmKeys
    /\ \A k \in WarmKeys : Peer[k] # NoPeer => Peer[Peer[k]] = NoPeer
    /\ WarmPolicies \subseteq [floor : Nat, target : Nat, idle : BOOLEAN]

VARIABLES
    warmth,    \* the warm policy
    warm,      \* the process of each key: "none", "starting", a frontend
               \* "waiting" for its backend or "launched" with it, "ready",
               \* "stopping"
    age,       \* since lastTouch: 0 within the active window, 1 past it, 2 past
               \* the idle timeout as well
    doomed     \* per pass under way, the keys it has yet to stop

reaperVars == <<warmth, warm, age, doomed>>
Passes == {"ticker", "start"}

ReaperInit ==
    /\ warmth \in WarmPolicies
    /\ warm = [k \in WarmKeys |-> "none"] /\ age = [k \in WarmKeys |-> 0]
    /\ doomed = [r \in Passes |-> <<>>]

-----------------------------------------------------------------------------
(* EnsureRunning *)

\* The key, and the backend of a frontend if that is in the table.
TouchedWith(k) == {k} \cup {b \in WarmKeys : b = Peer[k] /\ warm[b] # "none"}

\* EnsureRunning touches the process it finds or registers.
Ensured(k, table) ==
    /\ warm' = IF warm[k] = "none" THEN [table EXCEPT ![k] = "starting"] ELSE table
    /\ age' = [x \in WarmKeys |-> IF x \in TouchedWith(k) THEN 0 ELSE age[x]]
    /\ UNCHANGED <<warmth, doomed>>

Ask(k) == Ensured(k, warm)

\* A frontend's start ensures its backend; with one that was healthy it is
\* launched, and fails with one that is not to be had.
EnsureBackend(k) ==
    /\ warm[k] = "starting" /\ Peer[k] # NoPeer
    /\ Ensured(Peer[k], [warm EXCEPT ![k] = "waiting"])

GotBackend(k) ==
    /\ warm[k] = "waiting"
    /\ \/ /\ warm[Peer[k]] \in {"ready", "stopping"}
          /\ warm' = [warm EXCEPT ![k] = "launched"]
       \/ /\ warm[Peer[k]] = "none"
          /\ warm' = [warm EXCEPT ![k] = "none"]
    /\ UNCHANGED <<warmth, age, doomed>>

TurnsHealthy(k) ==
    /\ warm[k] = IF Peer[k] = NoPeer THEN "starting" ELSE "launched"
    /\ warm' = [warm EXCEPT ![k] = "ready"]
    /\ UNCHANGED <<warmth, age, doomed>>

\* A start fails, or a process dies.
Dies(k) ==
    /\ warm[k] \in {"starting", "waiting", "launched", "ready"}
    /\ warm' = [warm EXCEPT ![k] = "none"]
    /\ UNCHANGED <<warmth, age, doomed>>

-----------------------------------------------------------------------------
(* reap *)

Candidates == {k \in WarmKeys : warm[k] \in {"ready", "stopping"}}

\* The most recent first; on equal touches a backend before a frontend, so that
\* the frontend is stopped first.
ByRecency(s) ==
    \A i, j \in DOMAIN s : i < j =>
        /\ age[s[i]] <= age[s[j]]
        /\ age[s[i]] = age[s[j]] => ~(Peer[s[i]] # NoPeer /\ Peer[s[j]] = NoPeer)

MoreRecent(k, x, s) == \E i, j \in DOMAIN s : i < j /\ s[i] = k /\ s[j] = x

\* A bug to catch: a backend is spared whether or not a frontend of it runs.
PairedAlways == {Peer[k] : k \in WarmKeys}

\* Backends of which a frontend runs.
Paired == {Peer[k] : k \in Candidates}

\* Beyond the floor, what has been idle for too long, and what is quiet at least.
PastFloor(s) == {s[i] : i \in warmth.floor + 1 .. Len(s)} \ Paired
IdleOut(s)   == {k \in PastFloor(s) : warmth.idle /\ age[k] = 2}
Unhurried(s) == {k \in PastFloor(s) \ IdleOut(s) : age[k] > 0}

\* The oldest of the quiet ones, as many as are left beyond the target.
Oldest(s) ==
    LET alive  == Len(s) - Cardinality(IdleOut(s))
        excess == IF warmth.target \in 1..alive THEN alive - warmth.target ELSE 0
    IN  {k \in Unhurried(s) : Cardinality({x \in Unhurried(s) : MoreRecent(k, x, s)}) < excess}

\* The keys to stop: the idle ones as they come, then the others from the oldest on.
StopLists(s) ==
    {list \in SetToSeqs(IdleOut(s) \cup Oldest(s)) :
        \A i, j \in DOMAIN list : i < j =>
            \/ list[i] \in IdleOut(s) /\ (list[j] \in IdleOut(s) => MoreRecent(list[i], list[j], s))
            \/ {list[i], list[j]} \subseteq Oldest(s) /\ MoreRecent(list[j], list[i], s)}

Reap(r) ==
    /\ doomed[r] = <<>>
    /\ r = "start" => warmth.target > 0
    /\ \E s \in SetToSeqs(Candidates) :
          ByRecency(s) /\ \E list \in StopLists(s) : doomed' = [doomed EXCEPT ![r] = list]
    /\ UNCHANGED <<warmth, warm, age>>

\* Stop, of whatever the key has by now: it waits for a start that has the key's
\* lock to end, and returns when there is nothing (more) to stop.
BeginStop(r) ==
    /\ doomed[r] # <<>> /\ warm[Head(doomed[r])] = "ready"
    /\ warm' = [warm EXCEPT ![Head(doomed[r])] = "stopping"]
    /\ UNCHANGED <<warmth, age, doomed>>

Vanish(k) ==
    /\ warm[k] = "stopping" /\ warm' = [warm EXCEPT ![k] = "none"]
    /\ UNCHANGED <<warmth, age, doomed>>

StopDone(r) ==
    /\ doomed[r] # <<>> /\ warm[Head(doomed[r])] \in {"none", "starting"}
    /\ doomed' = [doomed EXCEPT ![r] = Tail(@)]
    /\ UNCHANGED <<warmth, warm, age>>

TimePasses ==
    /\ age' = [k \in WarmKeys |-> IF warm[k] # "none" /\ age[k] < 2 THEN age[k] + 1 ELSE age[k]]
    /\ UNCHANGED <<warmth, warm, doomed>>

\* What a key's process does of itself, and what a pass does with its list.
Advances(k)  == EnsureBackend(k) \/ GotBackend(k) \/ TurnsHealthy(k) \/ Vanish(k)
Proceeds(r)  == BeginStop(r) \/ StopDone(r)

ReaperNext ==
    \/ \E k \in WarmKeys : Ask(k) \/ Advances(k) \/ Dies(k)
    \/ \E r \in Passes : Reap(r) \/ Proceeds(r)
    \/ TimePasses

\* A start ends and a stopped process dies; the ticker fires, a pass goes on with
\* its Stops, and time passes.
ReaperSpec ==
    /\ ReaperInit /\ [][ReaperNext]_reaperVars
    /\ \A k \in WarmKeys : WF_reaperVars(Advances(k))
    /\ \A r \in Passes : WF_reaperVars(Proceeds(r))
    /\ WF_reaperVars(Reap("ticker")) /\ WF_reaperVars(TimePasses)

-----------------------------------------------------------------------------

ReaperTypeOK ==
    /\ warmth \in WarmPolicies /\ age \in [WarmKeys -> 0..2]
    /\ warm \in [WarmKeys -> {"none", "starting", "waiting", "launched", "ready", "stopping"}]
    /\ \A r \in Passes : IsInjective(doomed[r]) /\ Range(doomed[r]) \subseteq WarmKeys

\* "A burst ... is served in full and pruned back once it quiets down"
\* (supervise.go:276): when nobody asks any more, what runs comes down to the
\* floor, or without idle timeouts to the target, whatever died, was started or
\* was touched between a pass and its Stops.
Quota == IF warmth.idle THEN warmth.floor
         ELSE IF warmth.target = 0 THEN Cardinality(WarmKeys)
         ELSE IF warmth.floor > warmth.target THEN warmth.floor ELSE warmth.target
WasAsked == \E k \in WarmKeys : Ask(k)
BurstIsPruned ==
    []<><<WasAsked>>_reaperVars
    \/ <>[](Cardinality({k \in WarmKeys : warm[k] # "none"}) <= Quota)
=============================================================================
