------------------------- MODULE MCVersionCatalogue -------------------------
(* An instance of VersionCatalogue for TLC.                                  *)
EXTENDS VersionCatalogue, TLC

CONSTANTS v1, v2, sched, trigger, q1, q2

\* Overlapping updates of two versions; one update at a time of one version
\* and overlapping downloads of its JAR.
UpdatesAndDownloads == {{sched, trigger, v1, v2}, {trigger, v1, q1, q2}}

Symmetry == Permutations(JarRequests)
=============================================================================
