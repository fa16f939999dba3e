--------------------------- MODULE MCRemoteWorker ---------------------------
(* Two clients of one service, one of which it refuses.                    *)
EXTENDS RemoteWorker

CONSTANTS c1, c2

TwoClients == {c1, c2}
Second == {c2}
=============================================================================
