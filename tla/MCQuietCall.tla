----------------------------- MODULE MCQuietCall -----------------------------
(***************************************************************************)
(* Instances of the running system for TLC.  Each .cfg is a scenario:      *)
(* which requests users make, which call path is configured, which         *)
(* callbacks come and whether processes crash.                             *)
(***************************************************************************)
EXTENDS QuietCallProperties, TLC

\* Executions and requests are interchangeable.
Symmetry == Permutations(Runs) \cup Permutations(Requests)
=============================================================================
