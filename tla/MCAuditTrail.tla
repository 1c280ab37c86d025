---------------------------- MODULE MCAuditTrail ----------------------------
(* An instance of AuditTrail, and of the modules it extends, for TLC: four   *)
(* sockets, or a socket and two probes, or two requests, or two sockets and  *)
(* a request.                                                                *)
EXTENDS AuditTrail, TLC

CONSTANTS s1, s2, s3, s4, v1, v2, q1, q2, r1, r2

Parties == {Sockets, {s1} \cup Probes, Requests} \cup {{s1, s2, r} : r \in Requests}

\* s1 plays a part of its own.
ClientSymmetry ==
    Permutations({s2, s3, s4}) \cup Permutations(Servers)
      \cup Permutations(Probes) \cup Permutations(Requests)
=============================================================================
