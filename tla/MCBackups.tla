----------------------------- MODULE MCBackups -----------------------------
(* An instance of Backups for TLC.                                           *)
EXTENDS Backups

CONSTANTS s1, o1, o2, o3, a1, a2

\* The narrowest limits the settings allow: every request has to wait.
OneEach == [x \in Sems |-> 1]
=============================================================================
