-------------------------- MODULE MCServiceManager --------------------------
(* Instances of ServiceManager for TLC.                                    *)
EXTENDS ServiceManager, TLC

CONSTANTS m, n, s1, s2, s3

\* Two services compete for one name, a third has the other.
OwnNames == {<<m, s1>>, <<m, s2>>, <<n, s3>>}

\* One service has both names, another one takes over the first.
TwoNames == {<<m, s1>>, <<n, s1>>, <<m, s2>>}
=============================================================================
