------------------------- MODULE MCDaemonLifecycle -------------------------
(* Three daemons started one after the other.                              *)
EXTENDS DaemonLifecycle

CONSTANTS d1, d2, d3, c1

ThreeDaemons == {d1, d2, d3}
OneForeground == {d1}
OneClient == {c1}
=============================================================================
