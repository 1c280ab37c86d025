---------------------------- MODULE MCAccounts ----------------------------
(* Instances of Accounts for TLC.                                           *)
EXTENDS Accounts, TLC

CONSTANTS n1, n2, i1, i2, q1, q2, t1, t2

AccountSymmetry ==
    Permutations(Names) \cup Permutations(Ips) \cup Permutations(Requests)
        \cup Permutations(RefreshTokens)
============================================================================
