---------------------------- MODULE MCRemoteRefs ----------------------------
(* Instances of RemoteRefs for TLC.                                        *)
EXTENDS RemoteRefs

Symmetry ==
    Permutations(Thread) \cup Permutations(Proxy) \cup Permutations(Node)
=============================================================================
