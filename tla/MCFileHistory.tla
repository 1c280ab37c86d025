-------------------------- MODULE MCFileHistory --------------------------
(* Instances of FileHistory for TLC.                                         *)
EXTENDS FileHistory, TLC

CONSTANTS o1, o2, o3, c1, c2

HistorySymmetry == Permutations(Requests) \cup Permutations(Contents)
=============================================================================
