----------------------------- MODULE MCSession -----------------------------
(* A few calls on one session.                                             *)
EXTENDS Session

CONSTANTS s1, w1, d1, d2

Nobody == {}
OneStream == {s1}
OneWatch == {w1}
OneDiff == {d1}
TwoDiffs == {d1, d2}
=============================================================================
