------------------------------ MODULE InitSteps ------------------------------
(***************************************************************************)
(* The init steps of one backend artifact served by a fleet of workers.    *)
(* Init is owed once per artifact: what it makes lives in services outside *)
(* (a database per preview, say), which may lose it.  The control node     *)
(* records a success in its row (init_done_at), ships it with every ensure *)
(* as part of the run spec (WireSpec), and learns from the answers; a      *)
(* worker keeps its own copy, and a revocation that outranks both.         *)
(*                                                                         *)
(* What init makes is one Boolean.  A start that does not find it fails;   *)
(* others may.  Starts of one worker are coalesced (module Supervise): a   *)
(* start is shared by whoever asks while it runs.                          *)
(***************************************************************************)
EXTENDS Naturals

CONSTANTS
    InitWorkers,   \* workers an ensure may be placed on
    Requests,      \* ensures the control node has in flight
    Losses,        \* bound: times what init made is lost
    Reboots        \* bound: worker restarts

ASSUME InitStepsAssumption == Losses \in Nat /\ Reboots \in Nat

VARIABLES
    row,       \* init_done_at in the control node's database
    made,      \* what init makes is there
    wireDone,  \* InitDone of the worker's cached wire spec
    revoked,   \* the worker's initRevoked
    starting,  \* the worker's start: "none", "init", "ran", "skip"
    up,        \* workers whose process is healthy
    ensure,    \* the control node's calls
    used       \* how much of each bound is used

initVars == <<row, made, wireDone, revoked, starting, up, ensure, used>>
atWorker == <<wireDone, revoked, starting, up>>

\* A backend's ensure; a frontend's carries the spec of its backend, which the
\* worker starts only when the frontend's environment names it.
Kinds == {"backend", "frontend"}
NoEnsure == [pc |-> "idle"]

InitStepsInit ==
    /\ row = FALSE /\ made = FALSE
    /\ wireDone = [w \in InitWorkers |-> FALSE]
    /\ revoked = [w \in InitWorkers |-> FALSE]
    /\ starting = [w \in InitWorkers |-> "none"] /\ up = {}
    /\ ensure = [r \in Requests |-> NoEnsure]
    /\ used = [losses |-> 0, reboots |-> 0]

\* EnsureRunning on the control node: the spec is read, the request goes out.
ResolveWireSpec(r, w, kind) ==
    /\ ensure[r] = NoEnsure
    /\ ensure' = [ensure EXCEPT ![r] = [pc |-> "sent", at |-> w, kind |-> kind, done |-> row]]
    /\ UNCHANGED <<row, made, atWorker, used>>

\* InitDone is sticky, and a revocation beats both it and the offer.
OfferWireSpec(w, done) ==
    wireDone' = [wireDone EXCEPT ![w] = (@ \/ done) /\ ~revoked[w]]

\* handleEnsure: offer, then start the process unless it runs or starts.
\* loadRunSpec decides whether this start skips init.
HandleEnsure(r) ==
    LET w == ensure[r].at IN
    /\ ensure[r].pc = "sent" /\ OfferWireSpec(w, ensure[r].done)
    /\ \/ /\ w \in up \/ ensure[r].kind = "frontend"
          /\ ensure' = [ensure EXCEPT ![r].pc = "ok"] /\ UNCHANGED starting
       \/ /\ w \notin up /\ ensure' = [ensure EXCEPT ![r].pc = "wait"]
          /\ starting' = IF starting[w] # "none" THEN starting
                         ELSE [starting EXCEPT ![w] = IF wireDone'[w] /\ ~revoked[w]
                                                      THEN "skip" ELSE "init"]
    /\ UNCHANGED <<row, made, revoked, up, used>>

Answer(w, pc) ==
    ensure' = [r \in Requests |-> IF ensure[r].pc = "wait" /\ ensure[r].at = w
                                  THEN [ensure[r] EXCEPT !.pc = pc] ELSE ensure[r]]

\* runInit and markInitDone; the process is started next.
RunInit(w) ==
    /\ starting[w] = "init" /\ made' = TRUE
    /\ wireDone' = [wireDone EXCEPT ![w] = TRUE]
    /\ revoked' = [revoked EXCEPT ![w] = FALSE]
    /\ starting' = [starting EXCEPT ![w] = "ran"]
    /\ UNCHANGED <<row, up, ensure, used>>

\* A step fails or times out; the next start runs them from the first.
InitFails(w) ==
    /\ starting[w] = "init" /\ starting' = [starting EXCEPT ![w] = "none"]
    /\ Answer(w, "failed")
    /\ UNCHANGED <<row, made, wireDone, revoked, up, used>>

Healthy(w) ==
    /\ starting[w] \in {"ran", "skip"} /\ made
    /\ up' = up \cup {w} /\ starting' = [starting EXCEPT ![w] = "none"]
    /\ Answer(w, "ok")
    /\ UNCHANGED <<row, made, wireDone, revoked, used>>

\* A bug to catch: the flag is withdrawn, but any later offer brings it back.
FailsForgetful(w) ==
    /\ starting[w] \in {"ran", "skip"}
    /\ starting' = [starting EXCEPT ![w] = "none"] /\ Answer(w, "failed")
    /\ wireDone' = [wireDone EXCEPT ![w] = @ /\ starting[w] # "skip"]
    /\ UNCHANGED <<row, made, revoked, up, used>>

\* The process never goes healthy, for whatever reason.  If the start had
\* skipped init, what init made may be gone: revokeInitDone.
Fails(w) ==
    /\ starting[w] \in {"ran", "skip"}
    /\ starting' = [starting EXCEPT ![w] = "none"] /\ Answer(w, "failed")
    /\ wireDone' = [wireDone EXCEPT ![w] = @ /\ starting[w] # "skip"]
    /\ revoked' = [revoked EXCEPT ![w] = @ \/ starting[w] = "skip"]
    /\ UNCHANGED <<row, made, up, used>>

\* A bug to catch: a frontend's success taken for its backend's.
LearnsFromAll(r) ==
    /\ ensure[r].pc \in {"ok", "failed"}
    /\ row' = IF ensure[r].pc = "ok" THEN row \/ ~ensure[r].done
              ELSE row /\ ~(ensure[r].kind = "backend" /\ ensure[r].done)
    /\ ensure' = [ensure EXCEPT ![r] = NoEnsure]
    /\ UNCHANGED <<made, atWorker, used>>

\* The answer arrives: InitMarker adopts a success of a backend that was not
\* known to be done; InitRevoker withdraws a record a reported failure refutes.
Learns(r) ==
    /\ ensure[r].pc \in {"ok", "failed"}
    /\ row' = IF ensure[r].kind = "frontend" THEN row
              ELSE IF ensure[r].pc = "ok" THEN row \/ ~ensure[r].done
              ELSE row /\ ~ensure[r].done
    /\ ensure' = [ensure EXCEPT ![r] = NoEnsure]
    /\ UNCHANGED <<made, atWorker, used>>

\* A timeout, a broken connection or a caller that left: nothing is learnt, and
\* whatever the worker was asked to do goes on there.
Unanswered(r) ==
    /\ ensure[r] # NoEnsure /\ ensure' = [ensure EXCEPT ![r] = NoEnsure]
    /\ UNCHANGED <<row, made, atWorker, used>>

\* A process stops: idle, superseded or crashed.
Stops(w) ==
    /\ w \in up /\ up' = up \ {w}
    /\ UNCHANGED <<row, made, wireDone, revoked, starting, ensure, used>>

\* A worker's memory is all it has.
RebootWorker(w) ==
    /\ used.reboots < Reboots /\ used' = [used EXCEPT !.reboots = @ + 1]
    /\ wireDone' = [wireDone EXCEPT ![w] = FALSE]
    /\ revoked' = [revoked EXCEPT ![w] = FALSE]
    /\ starting' = [starting EXCEPT ![w] = "none"] /\ up' = up \ {w}
    /\ ensure' = [r \in Requests |->
                    IF ensure[r] # NoEnsure /\ ensure[r].at = w THEN NoEnsure ELSE ensure[r]]
    /\ UNCHANGED <<row, made>>

\* Somebody drops the database.
Lose ==
    /\ made /\ made' = FALSE
    /\ used.losses < Losses /\ used' = [used EXCEPT !.losses = @ + 1]
    /\ UNCHANGED <<row, atWorker, ensure>>

InitStepsNext ==
    \/ \E r \in Requests : \/ HandleEnsure(r) \/ Learns(r) \/ Unanswered(r)
                           \/ \E w \in InitWorkers, kind \in Kinds : ResolveWireSpec(r, w, kind)
    \/ \E w \in InitWorkers :
          RunInit(w) \/ InitFails(w) \/ Healthy(w) \/ Fails(w) \/ Stops(w) \/ RebootWorker(w)
    \/ Lose

InitStepsSpec == InitStepsInit /\ [][InitStepsNext]_initVars

-------------------------------------------------------------------------------

InitStepsTypeOK ==
    /\ {row, made} \subseteq BOOLEAN /\ up \subseteq InitWorkers
    /\ {wireDone, revoked} \subseteq [InitWorkers -> BOOLEAN]
    /\ starting \in [InitWorkers -> {"none", "init", "ran", "skip"}]
    /\ \A r \in Requests : ensure[r].pc \in {"idle", "sent", "wait", "ok", "failed"}

\* "init_done_at records that init's effects exist" (supervise.go:647): the
\* control node has no such record of an init that never succeeded anywhere,
\* whatever the order in which answers, timeouts and placements come.
RecordIsEarned == row => made \/ used.losses > 0

\* A preview whose database is gone heals itself: starts fail for want of it
\* only finitely often after the last loss and reboot, although workers fail
\* starts the control node never hears of and its offers repeat what it believes.
BlindStartsEnd == <>[][\A w \in InitWorkers : Fails(w) => made]_initVars
=============================================================================
