----------------------------- MODULE MCBuildQueue -----------------------------
(* Small instances of BuildQueue: deploys that share a side, as commits that
   touch neither partition do; the first of them may have a download. *)
EXTENDS BuildQueue, TLC

CONSTANTS be1, dl1

Shared      == [d \in Deploys |-> be1]
OneDownload == [d \in Deploys |-> IF d = 1 THEN dl1 ELSE None]
NoDownload  == [d \in Deploys |-> None]

\* A program that has resumed what there was, which is nothing, before anything is
\* asked of it: for evictions, to which a late resume is one more request.
ListedFirst == Init /\ [][Next /\ listed']_vars

\* The workers of a pool are alike: for the safety of a queue one order will do.
Alike == Permutations(Workers)
==============================================================================
