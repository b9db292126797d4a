------------------------------- MODULE KeyLife -------------------------------
(***************************************************************************)
(* What supervise.Manager promises about the operating-system children of  *)
(* its keys, whatever happens inside it: a key has at most one child at a  *)
(* time, a process object is launched at most once, and a key's state is   *)
(* copied only while the key has no child.                                 *)
(***************************************************************************)
CONSTANTS Keys, Procs, None

VARIABLES
    run,      \* the running child of each key, or None
    copying,  \* keys whose state directory is being copied
    spent     \* process objects that have been launched

vars == <<run, copying, spent>>

Init ==
    /\ run = [k \in Keys |-> None]
    /\ copying = {}
    /\ spent = {}

Launch(k, p) ==
    /\ run[k] = None /\ k \notin copying /\ p \notin spent
    /\ run' = [run EXCEPT ![k] = p]
    /\ spent' = spent \cup {p}
    /\ UNCHANGED copying

Die(k) ==
    /\ run' = [run EXCEPT ![k] = None]
    /\ UNCHANGED <<copying, spent>>

BeginCopy(k) ==
    /\ run[k] = None
    /\ copying' = copying \cup {k}
    /\ UNCHANGED <<run, spent>>

EndCopy(k) ==
    /\ copying' = copying \ {k}
    /\ UNCHANGED <<run, spent>>

(* The program ends: whatever still runs is no longer served. *)
Lose ==
    /\ run' = [k \in Keys |-> None]
    /\ copying' = {}
    /\ UNCHANGED spent

Next ==
    \/ \E k \in Keys : Die(k) \/ BeginCopy(k) \/ EndCopy(k)
    \/ \E k \in Keys, p \in Procs : Launch(k, p)
    \/ Lose

Spec == Init /\ [][Next]_vars
=============================================================================
