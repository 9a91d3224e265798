--------------------------- MODULE MCBinderAlloc ---------------------------
(* Instances of BinderAlloc for TLC.                                       *)
EXTENDS BinderAlloc
=============================================================================
