-------------------------- MODULE MCDaemonSessions --------------------------
(* A few connections against a small session cache.                        *)
EXTENDS DaemonSessions, TLC

CONSTANTS c1, c2, c3, k1, k2, k3

TwoClients == {c1, c2}
ThreeClients == {c1, c2, c3}
TwoKeys == {k1, k2}
ThreeKeys == {k1, k2, k3}
AllOps == {"eval", "replay", "watch", "query", "diff"}

(* No property names a connection or a key. *)
Interchangeable == Permutations(Clients) \union Permutations(Keys)
==============================================================================
