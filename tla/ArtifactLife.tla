---------------------------- MODULE ArtifactLife ----------------------------
(***************************************************************************)
(* What the local directories and the durable tier promise together to     *)
(* those who read an artifact, whoever builds, fetches, uploads, sweeps or *)
(* is killed: a directory or an object appears whole, a directory is never *)
(* changed in place, it is in part gone only while it is being removed,    *)
(* and a deploy turns ready only with its artifact in the tier or gone     *)
(* from the disk.  What a removal caught half done leaves is the exception.*)
(***************************************************************************)
CONSTANT Addr

VARIABLES
    local,   \* the directory: "none", "whole", "part", or "going"
    object,  \* the object in the tier: "none", "whole", "part"
    ready,   \* addresses a ready deploy names
    sound    \* no removal was caught half done

vars == <<local, object, ready, sound>>

Init ==
    /\ local \in [Addr -> {"none", "whole"}]
    /\ object \in [Addr -> {"none", "whole"}]
    /\ ready \in SUBSET {a \in Addr : local[a] = "whole" \/ object[a] = "whole"}
    /\ sound = TRUE

Copies == IF sound THEN {"whole"} ELSE {"whole", "part"}

(* Directories: only an absent one appears, only one that is there goes. *)

Appear(a) ==
    /\ local[a] = "none" /\ \E c \in Copies : local' = [local EXCEPT ![a] = c]
    /\ UNCHANGED <<object, ready, sound>>

\* By a rename at once, or by a removal that takes its time.
Displace(a) ==
    /\ local[a] \in Copies /\ local' = [local EXCEPT ![a] = "none"]
    /\ UNCHANGED <<object, ready, sound>>

Remove(a) ==
    /\ local[a] \in Copies /\ local' = [local EXCEPT ![a] = "going"]
    /\ UNCHANGED <<object, ready, sound>>

Removed(a) ==
    /\ local[a] = "going" /\ local' = [local EXCEPT ![a] = "none"]
    /\ UNCHANGED <<object, ready, sound>>

(* Objects, and the deploys that are to outlive the disk of their node. *)

Store(a) ==
    /\ \E c \in Copies : object' = [object EXCEPT ![a] = c]
    /\ ready' \in {ready, ready \cup {a}}
    /\ UNCHANGED <<local, sound>>

Discard(a) ==
    /\ object' = [object EXCEPT ![a] = "none"]
    /\ UNCHANGED <<local, ready, sound>>

Promise(a) ==
    /\ object[a] # "none" \/ local[a] \in {"none", "going"}
    /\ ready' = ready \cup {a}
    /\ UNCHANGED <<local, object, sound>>

Retract(a) == ready' = ready \ {a} /\ UNCHANGED <<local, object, sound>>

\* A removal is walked over, or ends with the program.
Tear ==
    /\ \E a \in Addr : local[a] = "going"
    /\ sound' = FALSE
    /\ local' \in {local, [a \in Addr |-> IF local[a] = "going" THEN "part" ELSE local[a]]}
    /\ UNCHANGED <<object, ready>>

Next ==
    \/ \E a \in Addr : \/ Appear(a) \/ Displace(a) \/ Remove(a) \/ Removed(a)
                       \/ Store(a) \/ Discard(a) \/ Promise(a) \/ Retract(a)
    \/ Tear

Spec == Init /\ [][Next]_vars
=============================================================================
