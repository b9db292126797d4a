------------------------------ MODULE Supervise ------------------------------
(***************************************************************************)
(* The process table of one supervise.Manager (internal/supervise).        *)
(*                                                                         *)
(* A key names an artifact to run.  The manager keeps at most one process  *)
(* object per key in `procs`; each object has one start goroutine (`pc`),  *)
(* one exit watcher (`watch`) and at most one operating-system child       *)
(* (`child`).  EnsureRunning, Stop, StopAll and the quiesced copy of a     *)
(* backend's state directory meet in that table and in one lock per key.   *)
(* The orchestrator may be killed at any moment and restarted: memory is   *)
(* lost, children and process_records rows stay, ReclaimOrphans runs.      *)
(*                                                                         *)
(* Left out: what a child does, its port number and log, hit counters and  *)
(* recency (they only steer the reaper, whose effect here is a Stop), the  *)
(* one-time init steps (they can only fail the load phase).                *)
(***************************************************************************)
EXTENDS Naturals

CONSTANTS
    Keys,         \* supervise.Key values
    Peer,         \* Peer[k]: backend whose URL k's environment needs, or None
    Containered,  \* keys with a container image; the devcontainer default of
                  \* these falls back to the host when no daemon answers
    Row,          \* Row[k]: the process_records primary key (repo, hash) of k
    Procs,        \* process objects; bounds the number of starts
    Callers,      \* requests that may be inside EnsureRunning at once
    Tasks,        \* the Stops that may run, each of them one at a time:
                  \* <<who calls, key>>, who one of "user", "shutdown", "fork"
    None

Rows  == {Row[k] : k \in Keys}
Waiters == Callers \cup Procs     \* a frontend's start waits for its backend

ASSUME SuperviseAssumption ==
    /\ Peer \in [Keys -> Keys \cup {None}]
    /\ \A k \in Keys : Peer[k] # None => Peer[Peer[k]] = None
    /\ Containered \subseteq Keys
    /\ DOMAIN Row = Keys
    /\ Tasks \subseteq {"user", "shutdown", "fork"} \X Keys
    /\ None \notin Keys \cup Procs \cup Callers \cup Tasks \cup Rows
    /\ Procs \cap Tasks = {}
    /\ Procs \cap Callers = {}

VARIABLES
    life,         \* "serving", or how the orchestrator last went away
    stopping,     \* Manager.stopping
    procs,        \* Manager.procs: the tracked process of each key
    failures,     \* Manager.failures: the process whose end is reported
    lock,         \* Manager.locks: who holds each key's lock
    records,      \* process_records: the child each row names
    key,          \* key each process object was made for
    pc,           \* location of each object's start goroutine
    child,        \* operating-system child of each object
    watch,        \* location of each object's exit watcher
    peer,         \* backend process whose port a frontend was given
    ready, failed, done,             \* closed channels of the objects
    boxed,        \* processes launched in a container
    clean, killed, intentional,      \* exitOK; signalled; process.intentional
    call,         \* location of each EnsureRunning
    stop,         \* location of each Stop
    unnamed       \* ghost: host children no row named when the program last ended

vars == <<life, stopping, procs, failures, lock, records, key, pc, child, watch,
          peer, ready, failed, done, boxed, clean, killed, intentional, call, stop,
          unnamed>>

table   == <<procs, failures, lock>>
chans   == <<ready, failed, done>>
marks   == <<boxed, clean, killed, intentional>>
starts  == <<key, pc, peer>>
world   == <<life, stopping, unnamed>>

-----------------------------------------------------------------------------
(* Shapes *)

BeforeLaunch == {"lock", "load", "peer", "launch"}
Holding == {"load", "peer", "launch", "record", "health", "publish", "drain",
            "fail", "failclose", "failforget"}
StartPC == {"unused", "lock", "end"} \cup Holding
WatchPC == {"none", "wait", "forget", "unrecord", "note", "end"}
Idle    == [pc |-> "idle", key |-> None, p |-> None, misses |-> 0]
Waiting(k, p, m) == [pc |-> "wait", key |-> k, p |-> p, misses |-> m]
Looking(k, m)    == [pc |-> "lookup", key |-> k, p |-> None, misses |-> m]
StopIdle == [pc |-> "idle", p |-> None]

TypeOK ==
    /\ life \in {"serving", "exited", "crashed"}
    /\ stopping \in BOOLEAN
    /\ procs \in [Keys -> Procs \cup {None}]
    /\ failures \in [Keys -> Procs \cup {None}]
    /\ lock \in [Keys -> Procs \cup Tasks \cup {None}]
    /\ records \in [Rows -> Procs \cup {None}]
    /\ key \in [Procs -> Keys \cup {None}]
    /\ pc \in [Procs -> StartPC]
    /\ child \in [Procs -> {"none", "alive", "orphan", "exited"}]
    /\ watch \in [Procs -> WatchPC]
    /\ peer \in [Procs -> Procs \cup {None}]
    /\ ready \subseteq Procs /\ failed \subseteq Procs /\ done \subseteq Procs
    /\ boxed \subseteq Procs
    /\ clean \subseteq Procs /\ killed \subseteq Procs /\ intentional \subseteq Procs
    /\ unnamed \subseteq Procs
    /\ call \in [Waiters -> [pc : {"idle", "lookup", "wait"}, key : Keys \cup {None},
                             p : Procs \cup {None}, misses : {0, 1}]]
    /\ stop \in [Tasks -> [pc : {"idle", "lock", "look", "drain", "copy"},
                           p : Procs \cup {None}]]

Init ==
    /\ life = "serving" /\ stopping = FALSE /\ unnamed = {}
    /\ procs = [k \in Keys |-> None]
    /\ failures = [k \in Keys |-> None]
    /\ lock = [k \in Keys |-> None]
    /\ records = [r \in Rows |-> None]
    /\ key = [p \in Procs |-> None]
    /\ pc = [p \in Procs |-> "unused"]
    /\ child = [p \in Procs |-> "none"]
    /\ watch = [p \in Procs |-> "none"]
    /\ peer = [p \in Procs |-> None]
    /\ ready = {} /\ failed = {} /\ done = {}
    /\ boxed = {} /\ clean = {} /\ killed = {} /\ intentional = {}
    /\ call = [w \in Waiters |-> Idle]
    /\ stop = [t \in Tasks |-> StopIdle]

(* A forget that does not look whose entry it deletes. *)
ForgetAnyone(k, p) == [procs EXCEPT ![k] = None]

(* The table after forget(k, p): the entry goes only if it is still p. *)
Forget(k, p) == IF procs[k] = p THEN [procs EXCEPT ![k] = None] ELSE procs

-----------------------------------------------------------------------------
(* EnsureRunning, by a request or by the start of a frontend *)

(* A request enters EnsureRunning for k. *)
Ensure(c, k) ==
    /\ life = "serving" /\ call[c].pc = "idle"
    /\ call' = [call EXCEPT ![c] = Looking(k, 0)]
    /\ UNCHANGED <<world, table, records, starts, child, watch, chans, marks, stop>>

(* EnsureRunning returns to w: a start goroutine resumes with the backend it
   got, or fails; a request is simply answered. *)
Answer(w, q) ==
    /\ call' = [call EXCEPT ![w] = Idle]
    /\ IF w \in Procs
       THEN /\ pc' = [pc EXCEPT ![w] = IF q = None THEN "fail" ELSE "launch"]
            /\ peer' = [peer EXCEPT ![w] = q]
       ELSE UNCHANGED <<pc, peer>>

(* Procs bounds the process objects of a behaviour.  Past it a call that
   needs a new one is refused, as it is by a manager that is stopping. *)
Exhausted == \A p \in Procs : pc[p] # "unused"

(* The manager is stopping: the call is refused. *)
Refuse(w) ==
    /\ call[w].pc = "lookup"
    /\ stopping \/ (procs[call[w].key] = None /\ Exhausted)
    /\ Answer(w, None)
    /\ UNCHANGED <<world, table, records, key, child, watch, chans, marks, stop>>

(* The key has a process, healthy or still starting: wait on it. *)
Join(w) ==
    LET k == call[w].key IN
    /\ call[w].pc = "lookup" /\ ~stopping /\ procs[k] # None
    /\ call' = [call EXCEPT ![w] = Waiting(k, procs[k], call[w].misses)]
    /\ UNCHANGED <<world, table, records, starts, child, watch, chans, marks, stop>>

(* The key has none: register a process object and spawn its start. *)
Register(w, p) ==
    LET k == call[w].key IN
    /\ call[w].pc = "lookup" /\ ~stopping /\ procs[k] = None
    /\ pc[p] = "unused"
    /\ procs' = [procs EXCEPT ![k] = p]
    /\ failures' = [failures EXCEPT ![k] = None]
    /\ key' = [key EXCEPT ![p] = k]
    /\ pc' = [pc EXCEPT ![p] = "lock"]
    /\ call' = [call EXCEPT ![w] = Waiting(k, p, call[w].misses)]
    /\ UNCHANGED <<world, lock, records, child, watch, peer, chans, marks, stop>>

(* The port is handed out as soon as the process is known. *)
GotStarting(w) ==
    /\ call[w].pc = "wait" /\ call[w].p \notin done
    /\ Answer(w, call[w].p)
    /\ UNCHANGED <<world, table, records, key, child, watch, chans, marks, stop>>

(* ready is closed and done is not: the caller gets the port. *)
GotReady(w) ==
    LET p == call[w].p IN
    /\ call[w].pc = "wait" /\ p \in ready /\ p \notin done
    /\ Answer(w, p)
    /\ UNCHANGED <<world, table, records, key, child, watch, chans, marks, stop>>

(* EnsureRunning looks twice, never more; the variant never gives up. *)
AlwaysRetry(w) == TRUE
MayRetry(w)    == call[w].misses = 0

(* Healthy once but dead by now: clear the entry and look once more; the
   second such miss is an error. *)
GotDead(w) ==
    LET p == call[w].p  k == call[w].key IN
    /\ call[w].pc = "wait" /\ p \in ready /\ p \in done
    /\ procs' = Forget(k, p)
    /\ IF MayRetry(w)
       THEN /\ call' = [call EXCEPT ![w] = Looking(k, call[w].misses + 1)]
            /\ UNCHANGED <<pc, peer>>
       ELSE Answer(w, None)
    /\ UNCHANGED <<world, failures, lock, records, key, child, watch, chans, marks, stop>>

(* The start attempt failed. *)
GotFailed(w) ==
    LET p == call[w].p IN
    /\ call[w].pc = "wait" /\ p \in failed
    /\ procs' = Forget(call[w].key, p)
    /\ Answer(w, None)
    /\ UNCHANGED <<world, failures, lock, records, key, child, watch, chans, marks, stop>>

(* The request's context ends; the start goes on without it. *)
GiveUp(c) ==
    /\ call[c].pc = "wait"
    /\ Answer(c, None)
    /\ UNCHANGED <<world, table, records, key, child, watch, chans, marks, stop>>

-----------------------------------------------------------------------------
(* start(k, p) *)

(* A key lock that lets everybody in. *)
NoLock(k)   == TRUE
LockFree(k) == lock[k] = None

StartAcquire(p) ==
    /\ pc[p] = "lock" /\ LockFree(key[p])
    /\ lock' = [lock EXCEPT ![key[p]] = p]
    /\ pc' = [pc EXCEPT ![p] = "load"]
    /\ UNCHANGED <<world, procs, failures, records, key, child, watch, peer, chans,
                   marks, call, stop>>

(* Run spec, artifact files, log, init steps: any of them may fail the start.
   A key with a peer goes on to ensure that backend. *)
Load(p) ==
    /\ pc[p] = "load"
    /\ \/ /\ pc' = [pc EXCEPT ![p] = "fail"]
          /\ UNCHANGED call
       \/ /\ Peer[key[p]] = None
          /\ pc' = [pc EXCEPT ![p] = "launch"]
          /\ UNCHANGED call
       \/ /\ Peer[key[p]] # None
          /\ pc' = [pc EXCEPT ![p] = "peer"]
          /\ call' = [call EXCEPT ![p] = Looking(Peer[key[p]], 0)]
    /\ UNCHANGED <<world, table, records, key, child, watch, peer, chans, marks, stop>>

(* RemoveContainerByName: what an earlier life left under the container's name,
   which is the key's, goes.  If it cannot, the daemon refuses the creation. *)
NamesakeGone(p) ==
    [q \in Procs |-> IF child[q] = "orphan" /\ q \in boxed /\ key[q] = key[p]
                     THEN "exited" ELSE child[q]]

(* Starting the child fails, or it runs on the host, or in a container (whose
   labels are its crash record). *)
Launch(p) ==
    /\ pc[p] = "launch"
    /\ \/ /\ pc' = [pc EXCEPT ![p] = "fail"]
          /\ child' = child \/ (key[p] \in Containered /\ child' = NamesakeGone(p))
          /\ UNCHANGED <<watch, boxed>>
       \/ /\ pc' = [pc EXCEPT ![p] = "record"]
          /\ child' = [child EXCEPT ![p] = "alive"]
          /\ UNCHANGED <<watch, boxed>>
       \/ /\ key[p] \in Containered
          /\ pc' = [pc EXCEPT ![p] = "health"]
          /\ child' = [NamesakeGone(p) EXCEPT ![p] = "alive"]
          /\ watch' = [watch EXCEPT ![p] = "wait"]
          /\ boxed' = boxed \cup {p}
    /\ UNCHANGED <<world, table, records, key, peer, chans, clean, killed, intentional,
                   call, stop>>

(* A host child is written to process_records, then its watcher starts. *)
Record(p) ==
    /\ pc[p] = "record"
    /\ records' = [records EXCEPT ![Row[key[p]]] = p]
    /\ watch' = [watch EXCEPT ![p] = "wait"]
    /\ pc' = [pc EXCEPT ![p] = "health"]
    /\ UNCHANGED <<world, table, key, child, peer, chans, marks, call, stop>>

(* awaitHealthy: a 200 from a live child, or its exit or the deadline. *)
HealthOK(p) ==
    /\ pc[p] = "health" /\ child[p] = "alive"
    /\ pc' = [pc EXCEPT ![p] = "publish"]
    /\ UNCHANGED <<world, table, records, key, child, watch, peer, chans, marks, call, stop>>

HealthFail(p) ==
    /\ pc[p] = "health"
    /\ pc' = [pc EXCEPT ![p] = "drain"]
    /\ killed' = IF child[p] = "alive" THEN killed \cup {p} ELSE killed
    /\ UNCHANGED <<world, table, records, key, child, watch, peer, chans, boxed,
                   clean, intentional, call, stop>>

(* The start does not wait for the child it has just killed. *)
DrainedAtOnce(p) ==
    /\ pc[p] = "drain"
    /\ pc' = [pc EXCEPT ![p] = "fail"]
    /\ UNCHANGED <<world, table, records, key, child, watch, peer, chans, marks, call, stop>>

(* The child has been waited for. *)
Drained(p) ==
    /\ pc[p] = "drain" /\ p \in done
    /\ pc' = [pc EXCEPT ![p] = "fail"]
    /\ UNCHANGED <<world, table, records, key, child, watch, peer, chans, marks, call, stop>>

(* fail: note the failure, close failed, forget; the lock goes on return. *)
FailNote(p) ==
    /\ pc[p] = "fail"
    /\ failures' = [failures EXCEPT ![key[p]] = p]
    /\ pc' = [pc EXCEPT ![p] = "failclose"]
    /\ UNCHANGED <<world, procs, lock, records, key, child, watch, peer, chans, marks,
                   call, stop>>

FailClose(p) ==
    /\ pc[p] = "failclose"
    /\ failed' = failed \cup {p}
    /\ pc' = [pc EXCEPT ![p] = "failforget"]
    /\ UNCHANGED <<world, table, records, key, child, watch, peer, ready, done, marks,
                   call, stop>>

FailForget(p) ==
    /\ pc[p] = "failforget"
    /\ procs' = Forget(key[p], p)
    /\ lock' = [lock EXCEPT ![key[p]] = None]
    /\ pc' = [pc EXCEPT ![p] = "end"]
    /\ UNCHANGED <<world, failures, records, key, child, watch, peer, chans, marks,
                   call, stop>>

(* The start returns without closing ready. *)
PublishNothing(p) ==
    /\ pc[p] = "publish"
    /\ lock' = [lock EXCEPT ![key[p]] = None]
    /\ pc' = [pc EXCEPT ![p] = "end"]
    /\ UNCHANGED <<world, procs, failures, records, key, child, watch, peer, chans, marks,
                   call, stop>>

(* Success: close ready and release the key. *)
Publish(p) ==
    /\ pc[p] = "publish"
    /\ ready' = ready \cup {p}
    /\ lock' = [lock EXCEPT ![key[p]] = None]
    /\ pc' = [pc EXCEPT ![p] = "end"]
    /\ UNCHANGED <<world, procs, failures, records, key, child, watch, peer, failed,
                   done, marks, call, stop>>

-----------------------------------------------------------------------------
(* The child and its exit watcher *)

(* A child ends, by itself or because it was signalled, with any status. *)
ChildExit(p) ==
    /\ child[p] \in {"alive", "orphan"}
    /\ child' = [child EXCEPT ![p] = "exited"]
    /\ clean' \in {clean, clean \cup {p}}
    /\ UNCHANGED <<world, table, records, starts, watch, chans, boxed, killed,
                   intentional, call, stop>>

CloseDone(p) ==
    /\ watch[p] = "wait" /\ child[p] = "exited"
    /\ done' = done \cup {p}
    /\ watch' = [watch EXCEPT ![p] = "forget"]
    /\ UNCHANGED <<world, table, records, starts, child, ready, failed, marks, call, stop>>

(* Only a host child has a row to delete. *)
AfterForget(p) == IF p \in boxed THEN "note" ELSE "unrecord"

WatchForget(p) ==
    /\ watch[p] = "forget"
    /\ procs' = Forget(key[p], p)
    /\ watch' = [watch EXCEPT ![p] = AfterForget(p)]
    /\ UNCHANGED <<world, failures, lock, records, starts, child, chans, marks, call, stop>>

(* DeleteProcessRecord deletes the row of (repo, hash), whatever it names. *)
Unrecord(p) ==
    /\ watch[p] = "unrecord"
    /\ records' = [records EXCEPT ![Row[key[p]]] = None]
    /\ watch' = [watch EXCEPT ![p] = "note"]
    /\ UNCHANGED <<world, table, starts, child, chans, marks, call, stop>>

(* A crash: a healthy process that died badly and by itself.  The variant
   also counts the ones a Stop took down. *)
AnyBadExit(p) == p \notin clean /\ p \in ready
Crashed(p)    == p \notin intentional /\ p \notin clean /\ p \in ready

(* noteExit: a crash is on record unless another process has the key by now. *)
NoteExit(p) ==
    LET k == key[p] IN
    /\ watch[p] = "note"
    /\ watch' = [watch EXCEPT ![p] = "end"]
    /\ failures' = IF Crashed(p) /\ procs[k] \in {None, p}
                   THEN [failures EXCEPT ![k] = p]
                   ELSE failures
    /\ UNCHANGED <<world, procs, lock, records, starts, child, chans, marks, call, stop>>

-----------------------------------------------------------------------------
(* Stop, StopAll and the state fork *)

(* A Stop of k is called: a user, the reaper or a GC; or a build that wants
   k's state directory quiet while it copies it. *)
BeginStop(t) ==
    /\ life = "serving" /\ t[1] # "shutdown" /\ stop[t].pc = "idle"
    /\ t[1] = "fork" => Peer[t[2]] = None
    /\ stop' = [stop EXCEPT ![t].pc = "lock"]
    /\ UNCHANGED <<world, table, records, starts, child, watch, chans, marks, call>>

(* StopAll: refuse new starts, then stop every key now in the table. *)
StopAll ==
    /\ life = "serving" /\ ~stopping /\ {"shutdown"} \X Keys \subseteq Tasks
    /\ stopping' = TRUE
    /\ stop' = [t \in Tasks |-> IF t[1] = "shutdown" /\ procs[t[2]] # None
                                THEN [stop[t] EXCEPT !.pc = "lock"] ELSE stop[t]]
    /\ UNCHANGED <<life, unnamed, table, records, starts, child, watch, chans, marks, call>>

(* The key lock, and clearFailure. *)
StopAcquire(t) ==
    /\ stop[t].pc = "lock" /\ LockFree(t[2])
    /\ lock' = [lock EXCEPT ![t[2]] = t]
    /\ failures' = [failures EXCEPT ![t[2]] = None]
    /\ stop' = [stop EXCEPT ![t].pc = "look"]
    /\ UNCHANGED <<world, procs, records, starts, child, watch, chans, marks, call>>

(* stopLocked is over: a fork goes on to copy, anything else releases. *)
Stopped(t) ==
    IF t[1] = "fork"
    THEN /\ stop' = [stop EXCEPT ![t] = [pc |-> "copy", p |-> None]]
         /\ UNCHANGED lock
    ELSE /\ stop' = [stop EXCEPT ![t] = StopIdle]
         /\ lock' = [lock EXCEPT ![t[2]] = None]

(* A Stop that lets a start it came before launch first, key lock in hand. *)
StopWaitsForStart(t) ==
    /\ stop[t].pc = "look" /\ procs[t[2]] = None
    /\ Stopped(t)
    /\ UNCHANGED <<world, procs, failures, records, starts, child, watch, chans, marks, call>>

(* Nothing tracked, or nothing launched yet: there is nothing to stop. *)
NothingToStop(t) ==
    LET p == procs[t[2]] IN
    /\ stop[t].pc = "look"
    /\ p # None => child[p] = "none"
    /\ Stopped(t)
    /\ UNCHANGED <<world, procs, failures, records, starts, child, watch, chans, marks, call>>

(* Mark the process, signal its group (SIGKILL follows the grace). *)
Terminate(t) ==
    LET p == procs[t[2]] IN
    /\ stop[t].pc = "look" /\ p # None /\ child[p] # "none"
    /\ intentional' = intentional \cup {p}
    /\ killed' = IF child[p] = "alive" THEN killed \cup {p} ELSE killed
    /\ stop' = [stop EXCEPT ![t] = [pc |-> "drain", p |-> p]]
    /\ UNCHANGED <<world, table, records, starts, child, watch, chans, boxed, clean, call>>

(* Stop returns once the process is signalled. *)
StopAtOnce(t) ==
    /\ stop[t].pc = "drain"
    /\ procs' = Forget(t[2], stop[t].p)
    /\ Stopped(t)
    /\ UNCHANGED <<world, failures, records, starts, child, watch, chans, marks, call>>

(* The process is gone: forget it. *)
StopDrained(t) ==
    /\ stop[t].pc = "drain" /\ stop[t].p \in done
    /\ procs' = Forget(t[2], stop[t].p)
    /\ Stopped(t)
    /\ UNCHANGED <<world, failures, records, starts, child, watch, chans, marks, call>>

(* A copy that fails and returns with the key still locked. *)
CopyKeepsLock(t) ==
    /\ stop[t].pc = "copy"
    /\ stop' = [stop EXCEPT ![t] = StopIdle]
    /\ UNCHANGED <<world, table, records, starts, child, watch, chans, marks, call>>

(* ForkStateDir has copied the source, or failed; the lock is released. *)
CopyDone(t) ==
    /\ stop[t].pc = "copy"
    /\ stop' = [stop EXCEPT ![t] = StopIdle]
    /\ lock' = [lock EXCEPT ![t[2]] = None]
    /\ UNCHANGED <<world, procs, failures, records, starts, child, watch, chans, marks, call>>

-----------------------------------------------------------------------------
(* The orchestrator's own end and restart *)

(* All memory is gone; children still alive are nobody's. *)
LoseMemory ==
    /\ stopping' = FALSE
    /\ procs' = [k \in Keys |-> None]
    /\ failures' = [k \in Keys |-> None]
    /\ lock' = [k \in Keys |-> None]
    /\ pc' = [p \in Procs |-> IF pc[p] = "unused" THEN "unused" ELSE "end"]
    /\ watch' = [p \in Procs |-> IF pc[p] = "unused" THEN "none" ELSE "end"]
    /\ child' = [p \in Procs |-> IF child[p] = "alive" THEN "orphan" ELSE child[p]]
    /\ peer' = [p \in Procs |-> None]
    /\ ready' = {} /\ failed' = {} /\ done' = {}
    /\ boxed' = {p \in boxed : child[p] \in {"alive", "orphan"}}
    /\ unnamed' = unnamed \cup
         {p \in Procs \ boxed : child[p] = "alive" /\ records[Row[key[p]]] # p}
    /\ clean' = {} /\ killed' = {} /\ intentional' = {}
    /\ call' = [w \in Waiters |-> Idle]
    /\ stop' = [t \in Tasks |-> StopIdle]
    /\ UNCHANGED <<records, key>>

(* StopAll has returned: the program exits. *)
StopAllReturned ==
    stopping /\ \A t \in Tasks : t[1] = "shutdown" => stop[t].pc = "idle"

Exit ==
    /\ life = "serving" /\ StopAllReturned
    /\ life' = "exited"
    /\ LoseMemory

(* The program is killed. *)
Crash ==
    /\ life = "serving"
    /\ life' = "crashed"
    /\ LoseMemory

(* The row is deleted without a look at what it names. *)
ForgetRow(r) ==
    /\ life # "serving" /\ records[r] # None
    /\ records' = [records EXCEPT ![r] = None]
    /\ UNCHANGED <<world, table, starts, child, watch, chans, marks, call, stop>>

(* ReclaimOrphans, one record: kill the group it names, delete the row. *)
ReclaimRow(r) ==
    /\ life # "serving" /\ records[r] # None
    /\ child' = [child EXCEPT ![records[r]] = "exited"]
    /\ records' = [records EXCEPT ![r] = None]
    /\ UNCHANGED <<world, table, starts, watch, chans, marks, call, stop>>

(* ... then every managed container whose removal does not fail -- none when
   Docker is unreachable -- and the manager starts to serve. *)
Boot ==
    /\ life # "serving"
    /\ \A r \in Rows : records[r] = None
    /\ \E swept \in SUBSET {p \in boxed : child[p] = "orphan"} :
          child' = [p \in Procs |-> IF p \in swept THEN "exited" ELSE child[p]]
    /\ life' = "serving"
    /\ UNCHANGED <<stopping, unnamed, table, records, starts, watch, chans, marks, call, stop>>

-----------------------------------------------------------------------------

Caller(w)  == Refuse(w) \/ Join(w) \/ GotReady(w) \/ GotDead(w) \/ GotFailed(w)
                \/ \E p \in Procs : Register(w, p)
StartStep(p) == StartAcquire(p) \/ Load(p) \/ Launch(p) \/ Record(p) \/ HealthOK(p)
                \/ HealthFail(p) \/ Drained(p) \/ FailNote(p) \/ FailClose(p)
                \/ FailForget(p) \/ Publish(p)
Watcher(p) == CloseDone(p) \/ WatchForget(p) \/ Unrecord(p) \/ NoteExit(p)
StopStep(t) == StopAcquire(t) \/ NothingToStop(t) \/ Terminate(t) \/ StopDrained(t)
                \/ CopyDone(t)

Next ==
    \/ \E c \in Callers, k \in Keys : Ensure(c, k)
    \/ \E w \in Waiters : Caller(w)
    \/ \E c \in Callers : GiveUp(c)
    \/ \E p \in Procs : StartStep(p) \/ ChildExit(p) \/ Watcher(p)
    \/ \E t \in Tasks : BeginStop(t) \/ StopStep(t)
    \/ StopAll \/ Exit \/ Crash \/ Boot
    \/ \E r \in Rows : ReclaimRow(r)

Spec == Init /\ [][Next]_vars

-----------------------------------------------------------------------------
(* Safety *)

Alive(p)   == child[p] = "alive"
InCopy(k)  == \E t \in Tasks : t[2] = k /\ stop[t].pc = "copy"

(* Never two children for one key: two servers on one state directory, or a
   container name collision.  The table, the key lock and the order in which
   a start and a watcher forget each other all have to work for this. *)
OneChildPerKey ==
    \A p, q \in Procs : Alive(p) /\ Alive(q) /\ key[p] = key[q] => p = q

(* While a backend's state directory is copied for a fork, that backend has
   no running child and none can be launched (ForkOrInitStateDir). *)
QuiescedCopy ==
    \A p \in Procs : Alive(p) => ~InCopy(key[p])

(* A running child is always the tracked process of its key: Stop, StopRepo
   and the reaper only ever look in the table, so anything else is a leak. *)
LiveChildTracked ==
    \A p \in Procs : Alive(p) => procs[key[p]] = p

(* A key in the table is healthy, failed, or has a start that will still
   decide it: no entry reads "starting" for ever with nobody starting it. *)
TrackedHasOutcome ==
    \A k \in Keys : procs[k] # None =>
        \/ procs[k] \in ready \cup failed
        \/ pc[procs[k]] \in Holding \cup {"lock"}

(* A frontend child runs only with the port of a process of its own backend
   that had passed its health check. *)
FrontendAfterBackend ==
    \A p \in Procs : Alive(p) /\ Peer[key[p]] # None =>
        peer[p] \in ready /\ key[peer[p]] = Peer[key[p]]

(* A failure on record is about a process of that key which is really over,
   and neither a clean exit after serving nor one a Stop took down alive.  The
   crash of a process that served is never on record while a newer process has
   the key, however late its watcher reports it. *)
FailureSubject ==
    \A k \in Keys : failures[k] # None =>
        LET q == failures[k] IN
        /\ key[q] = k /\ ~Alive(q) /\ q \notin intentional \cap killed
        /\ ~(q \in ready /\ q \in clean)
        /\ q \in ready => procs[k] \in {None, q}

(* What outlived its own life of the program never runs beside the next child
   of its key, two servers on one state directory: rows and labels are enough
   to reclaim it (ReclaimOrphans, RemoveContainerByName).  But for two cases: a
   host child that no row named when the program ended, and a container that
   the sweep at the start could not remove, whose key now runs on the host. *)
NoRivalOfEarlierLife ==
    \A p, q \in Procs : Alive(p) /\ child[q] = "orphan" /\ key[p] = key[q] =>
        q \in unnamed \/ (q \in boxed /\ p \notin boxed)

(* When a Stop returns, or a fork starts to copy, no child of that key runs. *)
StopLeavesNothing ==
    [][\A t \in Tasks :
          stop[t].pc \in {"look", "drain"} /\ stop'[t].pc \in {"idle", "copy"}
             /\ life' = "serving"
          => \A p \in Procs : key[p] = t[2] => child'[p] # "alive"]_vars

-----------------------------------------------------------------------------
(* What comments of the code claim and the code does not do *)

(* "Children never outlive the orchestrator by design" (StopAll): none runs
   once StopAll has returned and the program is about to exit. *)
NoChildOutlivesShutdown ==
    StopAllReturned => \A p \in Procs : ~Alive(p)

(* process_records "exist only so an unclean exit can be reclaimed": every
   host child whose start has recorded it is named by its row. *)
RecordNamesLiveChild ==
    \A p \in Procs :
        Alive(p) /\ p \notin boxed /\ pc[p] # "record"
        => records[Row[key[p]]] = p

(* A failure "is cleared by the next start attempt": while a process is
   tracked, no failure of an earlier one is on record. *)
FailureIsCurrent ==
    \A k \in Keys : procs[k] # None => failures[k] \in {None, procs[k]}

(* "a dead service reads crashed": the only process its key ever had, dead
   by itself with a bad status after it was healthy, is on record.  Without
   Stops (Tasks = {}) nothing may have cleared the record. *)
DeadReadsCrashed ==
    \A p \in Procs :
        /\ p \in ready \ clean /\ pc[p] = "end" /\ watch[p] = "end"
        /\ \A q \in Procs : key[q] = key[p] => q = p
        => failures[key[p]] = p

-----------------------------------------------------------------------------
(* Refinement: what the manager promises about the children of each key *)

Served(k) == {p \in Procs : Alive(p) /\ key[p] = k}

KL == INSTANCE KeyLife WITH
        run     <- [k \in Keys |-> IF Served(k) = {} THEN None ELSE CHOOSE p \in Served(k) : TRUE],
        copying <- {k \in Keys : InCopy(k)},
        spent   <- {p \in Procs : child[p] # "none"}

ImplementsKeyLife == KL!Spec

-----------------------------------------------------------------------------
(* Liveness, without a crash of the program *)

NextUp ==
    \/ \E c \in Callers, k \in Keys : Ensure(c, k)
    \/ \E w \in Waiters : Caller(w)
    \/ \E c \in Callers : GiveUp(c)
    \/ \E p \in Procs : StartStep(p) \/ ChildExit(p) \/ Watcher(p)
    \/ \E t \in Tasks : BeginStop(t) \/ StopStep(t)
    \/ StopAll

(* Goroutines run; awaitHealthy has a deadline; a signalled child dies, if
   need be by SIGKILL; a key lock is never denied for ever (Go's mutex hands
   over to a waiter that starves).  Requests, stops and exits may never come. *)
Fairness ==
    /\ \A w \in Waiters : WF_vars(Caller(w))
    /\ \A p \in Procs :
         /\ WF_vars(StartStep(p))
         /\ SF_vars(StartAcquire(p))
         /\ WF_vars(Watcher(p))
         /\ WF_vars(p \in killed /\ ChildExit(p))
    /\ \A t \in Tasks : WF_vars(StopStep(t)) /\ SF_vars(StopAcquire(t))

UpSpec   == Init /\ [][NextUp]_vars
FairSpec == UpSpec /\ Fairness

(* Every request that enters EnsureRunning is answered, retries and all, and
   every Stop returns.  A request can wait on a frontend's start, which waits,
   key lock held, for its backend's start, which waits for that key's lock,
   which a Stop may hold: no such chain closes into a circle, and none ends at
   somebody who has nothing left to do. *)
CallAnswered == \A c \in Callers : call[c].pc # "idle" ~> call[c].pc = "idle"
StopReturns  == \A t \in Tasks : stop[t].pc # "idle" ~> stop[t].pc = "idle"

=============================================================================
