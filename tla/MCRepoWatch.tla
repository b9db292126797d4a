----------------------------- MODULE MCRepoWatch -----------------------------
(* A small instance of RepoWatch: two commits in line, two branches, one of
   them watched. *)
EXTENDS RepoWatch

CONSTANTS c1, c2

\* c2 follows c1.
TwoCommits == [c \in Commits |-> IF c = c1 THEN {c1} ELSE {c1, c2}]
==============================================================================
