--------------------------- MODULE MCServerStarts ---------------------------
(* An instance of ServerStarts for TLC: two servers whose searches may end  *)
(* in either way, or one server on a machine with a configured path, a      *)
(* directory of two JDKs, one of them the configured one, and the PATH: an  *)
(* executable changes or does not answer, or the directory cannot be read.  *)
EXTENDS ServerStarts, TLC

CONSTANTS s1, s2, ownPath, jdkPath, pathJava

Java8  == [form |-> "legacyOpen", major |-> 8, open |-> TRUE]
Java11 == [form |-> "modern", major |-> 11, open |-> TRUE]
Java21 == [form |-> "modern", major |-> 21, open |-> FALSE]

SomeOutputs == {Java8, Java11, Java21}

PortsOrJava ==
    [ports |->
      [servers |-> {s1, s2}, followed |-> FALSE, versions |-> {12005},
       configured |-> <<>>, jdks |-> <<>>, machines |-> {[p \in Paths |-> Java21]},
       troubles |-> 0],
     java |->
      [servers |-> {s1}, followed |-> TRUE, versions |-> {11605, 12110},
       configured |-> << <<8, ownPath>> >>, jdks |-> <<jdkPath, ownPath>>, machines |-> Machines,
       troubles |-> 1] ]

ServerSymmetry == Permutations(Servers)
=============================================================================
