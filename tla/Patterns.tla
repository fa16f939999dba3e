----------------------------- MODULE Patterns -----------------------------
(***************************************************************************)
(* The wildcard matcher of crates/evix/src/state.rs against what a pattern *)
(* means, for every pattern and value up to a length.                      *)
(***************************************************************************)
EXTENDS Filters

CONSTANTS
    Characters,    \* what a value is made of
    MaxPattern,    \* bound: length of a pattern
    MaxValue       \* bound: length of a value

(* What is assumed of the constants; DataPath assumes it. *)
PatternsAssumption ==
    Characters \subseteq STRING /\ MaxPattern \in Nat /\ MaxValue \in Nat

VARIABLES pattern, value

vars == <<pattern, value>>

Init == pattern = <<>> /\ value = <<>>

GrowPattern(c) ==
    /\ Len(pattern) < MaxPattern
    /\ pattern' = Append(pattern, c)
    /\ UNCHANGED value

GrowValue(c) ==
    /\ Len(value) < MaxValue
    /\ value' = Append(value, c)
    /\ UNCHANGED pattern

Next ==
    \/ \E c \in Characters \union {"*", "?"} : GrowPattern(c)
    \/ \E c \in Characters : GrowValue(c)

Spec == Init /\ [][Next]_vars

(* A pattern matches when the value can be cut into one piece for each of its
   characters: any piece for *, one character for ?, itself for another one. *)
Means(p, v) ==
    \E cut \in [0..Len(p) -> 0..Len(v)] :
        /\ cut[0] = 0 /\ cut[Len(p)] = Len(v)
        /\ \A i \in 1..Len(p) :
             /\ cut[i - 1] <= cut[i]
             /\ p[i] # "*" => cut[i] = cut[i - 1] + 1
             /\ p[i] \notin {"*", "?"} => v[cut[i]] = p[i]

(* The table of wildcard_matches computes the meaning of the pattern: leading,
   trailing and repeated stars, empty patterns and empty values included. *)
WildcardMeaning == wildcard_matches(pattern, value) <=> Means(pattern, value)
=============================================================================
