----------------------------- MODULE MCScheduler -----------------------------
(* Small attribute trees and worker pools for the Scheduler.               *)
EXTENDS Scheduler

TwoSystems == {"linux", "darwin"}

(* root = { a = { c = ...; }; b = ...; } *)
DeepPaths == {"root", "a", "b", "c"}
DeepChildren ==
    [p \in DeepPaths |-> CASE p = "root" -> <<"a", "b">>
                           [] p = "a" -> <<"c">>
                           [] OTHER -> <<>>]
DeepSystemOf == [p \in DeepPaths |-> IF p = "b" THEN "darwin" ELSE "linux"]
DeepReplies ==
    [p \in DeepPaths |-> CASE p = "root" -> {"attrset"}
                           [] p = "a" -> {"attrset", "error"}
                           [] p = "b" -> {"derivation"}
                           [] OTHER -> {"fatal", "derivation"}]

(* root = { a = ...; b = ...; } *)
FlatPaths == {"root", "a", "b"}
FlatChildren == [p \in FlatPaths |-> IF p = "root" THEN <<"a", "b">> ELSE <<>>]
FlatSystemOf == [p \in FlatPaths |-> IF p = "b" THEN "darwin" ELSE "linux"]
FlatReplies ==
    [p \in FlatPaths |-> CASE p = "root" -> {"attrset"}
                           [] p = "a" -> {"derivation", "error", "fatal"}
                           [] OTHER -> {"derivation"}]

NoRemote == <<>>
OneLinuxRemote == <<{"linux"}>>
TwoLinuxRemotes == <<{"linux"}, {"linux"}>>
==============================================================================
