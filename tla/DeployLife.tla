----------------------------- MODULE DeployLife -----------------------------
(***************************************************************************)
(* What build.Queue promises to those who read the deploys table and the   *)
(* artifact directories, whatever happens inside it: a row says ready only *)
(* of an address that builds, that is provisioned and that is published or *)
(* just being replaced; it says failed only of one that does not build; an *)
(* address has at most one builder, which alone publishes it.  While there *)
(* are evictions the queue promises less of what is on disk and of what    *)
(* failed: one may take an address away from a build that is going on.     *)
(***************************************************************************)
CONSTANTS
    Deploys, Side, Workers,
    Addresses,   \* content addresses
    Evicts       \* somebody evicts deploys and collects what they leave

VARIABLES
    status,      \* what the row of each deploy says
    bad,         \* addresses whose build steps fail
    building,    \* the builders of each address
    published,   \* addresses with their files in place
    provisioned, \* addresses with a state directory and its row
    calm         \* the program has not been stopped yet

rows      == <<status>>
addresses == <<building, published, provisioned>>
vars      == <<rows, addresses, bad, calm>>

Init ==
    /\ status = [d \in Deploys |-> "none"]
    /\ bad \in SUBSET Addresses
    /\ building = [h \in Addresses |-> {}] /\ published = {} /\ provisioned = {}
    /\ calm = TRUE

Known(d)  == status[d] \notin {"none", "deleted"}
Says(d, s) == status' = [status EXCEPT ![d] = s] /\ UNCHANGED <<addresses, bad, calm>>

(* Rows.  Deletion is for good, and a row that was never requested is not worked on. *)

Request(d) == status[d] # "deleted" /\ Says(d, "queued")

Work(d) == Known(d) /\ Says(d, "building")

Succeed(d) ==
    /\ Known(d) /\ Side[d] \notin bad
    /\ ~Evicts => Side[d] \in provisioned
    /\ ~Evicts /\ calm => Side[d] \in published \/ building[Side[d]] # {}
    /\ Says(d, "ready")

Fail(d) ==
    /\ Known(d) /\ (~Evicts /\ calm => Side[d] \in bad)
    /\ Says(d, "failed")

Evict(d) ==
    /\ Evicts
    /\ \/ Known(d) /\ Says(d, "evicted")
       \/ status[d] # "none" /\ Says(d, "deleted")

(* Addresses. *)

Begin(h, w) ==
    /\ building[h] = {} /\ \A x \in Addresses : w \notin building[x]
    /\ building' = [building EXCEPT ![h] = {w}]
    /\ UNCHANGED <<rows, published, provisioned, bad, calm>>

Publish(h) ==
    /\ building[h] # {} /\ h \notin bad
    /\ building' = [building EXCEPT ![h] = {}] /\ published' = published \cup {h}
    /\ UNCHANGED <<rows, provisioned, bad, calm>>

\* A rebuild moves the old files out of the way of the new ones.
SetAside(h) ==
    /\ building[h] # {} /\ h \notin bad
    /\ published' = published \ {h}
    /\ UNCHANGED <<rows, building, provisioned, bad, calm>>

Abandon(h) ==
    /\ building[h] # {} /\ (calm => h \in bad)
    /\ building' = [building EXCEPT ![h] = {}]
    /\ UNCHANGED <<rows, published, provisioned, bad, calm>>

Provide(h) ==
    /\ h \notin bad
    /\ provisioned' = provisioned \cup {h}
    /\ UNCHANGED <<rows, building, published, bad, calm>>

Collect(hs) ==
    /\ Evicts
    /\ published' \in {published, published \ hs}
    /\ provisioned' \in {provisioned, provisioned \ hs}
    /\ UNCHANGED <<rows, building, bad, calm>>

\* The program is told to stop, or is killed; nobody builds then.
Stop ==
    /\ calm' = FALSE
    /\ building' \in {building, [h \in Addresses |-> {}]}
    /\ UNCHANGED <<rows, published, provisioned, bad>>

Next ==
    \/ \E d \in Deploys : Request(d) \/ Work(d) \/ Succeed(d) \/ Fail(d) \/ Evict(d)
    \/ \E h \in Addresses : Publish(h) \/ SetAside(h) \/ Abandon(h) \/ Provide(h)
    \/ \E h \in Addresses, w \in Workers : Begin(h, w)
    \/ \E hs \in SUBSET Addresses : Collect(hs)
    \/ Stop

Spec == Init /\ [][Next]_vars
=============================================================================
