----------------------------- MODULE MCSupervise -----------------------------
(* Small instances of Supervise: one backend, or a backend and a frontend
   that needs its URL. *)
EXTENDS Supervise, TLC

CONSTANTS b, f, c1, p1, p2, p3

OneKey    == {b}
Pair      == {b, f}
AlonePeer == [k \in Keys |-> None]
PairPeer  == [k \in Keys |-> IF k = f THEN b ELSE None]
OwnRow    == [k \in Keys |-> k]

NoTasks   == {}
Fork      == {<<"fork", b>>}
Shutdown  == {"shutdown"} \X Keys
ForkAndShutdown == Fork \cup Shutdown

(* The pair while its backend is quiesced for forks, in a space small enough
   for liveness: objects are taken in order, requests ask for the frontend and
   do not give up, only the launch (not the load phase) fails a start before its
   child runs, a child that is not healthy yet ends when it is signalled, and
   exits are clean, since a status decides nothing but the failure on record. *)
PairStep ==
    /\ \A p \in Procs : pc[p] = "unused" /\ pc'[p] # "unused" =>
          p = CHOOSE q \in Procs : pc[q] = "unused"
    /\ \A c \in Callers :
          /\ call[c].pc = "idle" => call'[c].key \in {f, None}
          /\ call[c].pc = "wait" /\ call'[c].pc = "idle" =>
                call[c].p \in ready \cup failed
    /\ \A p \in Procs : pc[p] = "load" => pc'[p] # "fail"
    /\ \A p \in Procs : child[p] = "alive" /\ child'[p] = "exited" =>
          p \in (killed \cup ready) /\ p \in clean'
PairSpec == Init /\ [][NextUp /\ PairStep]_vars /\ Fairness

AnyProc == Permutations(Procs)
==============================================================================
