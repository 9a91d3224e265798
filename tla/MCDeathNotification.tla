------------------------ MODULE MCDeathNotification ------------------------
(* Instances of DeathNotification for TLC.                                 *)
EXTENDS DeathNotification, TLC

CONSTANTS t1, t2, h1, p1, r1, r2, d1, d2, d3

OneHandle == [p \in Cookie |-> h1]
OneProxy == [r \in Recipient |-> p1]
Symmetry == Permutations(Death) \cup Permutations(Recipient)
=============================================================================
