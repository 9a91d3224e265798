---------------------------- MODULE MCJavaBinder ----------------------------
(* Instances of JavaBinder for TLC.                                        *)
EXTENDS JavaBinder

CONSTANTS o1, o2

SameObject == [r \in JDR |-> o1]
=============================================================================
