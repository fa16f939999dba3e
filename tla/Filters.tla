------------------------------ MODULE Filters ------------------------------
(***************************************************************************)
(* Which derivations a query selects: matches_filter and its helpers in    *)
(* crates/evix/src/state.rs, and the filter the command line builds        *)
(* (crates/evix-cli/src/args.rs: filter).                                  *)
(*                                                                         *)
(* A string is the sequence of its characters, and an attribute name is    *)
(* one character.                                                          *)
(***************************************************************************)
EXTENDS Integers, Sequences, FiniteSets

(* wildcard_matches: matches[i, j] says that the first i characters of the
   pattern match the first j of the value. *)
wildcard_matches(pattern, value) ==
    LET matches[ij \in (0..Len(pattern)) \X (0..Len(value))] ==
          LET i == ij[1]  j == ij[2] IN
          CASE i = 0 -> j = 0
            [] i > 0 /\ j = 0 -> pattern[i] = "*" /\ matches[<<i - 1, 0>>]
            [] OTHER -> CASE pattern[i] = "*" -> matches[<<i - 1, j>>] \/ matches[<<i, j - 1>>]
                          [] pattern[i] = "?" -> matches[<<i - 1, j - 1>>]
                          [] OTHER -> pattern[i] = value[j] /\ matches[<<i - 1, j - 1>>]
    IN matches[<<Len(pattern), Len(value)>>]

(* Derivation.attr: the names of the path, joined with dots. *)
Attr(attr_path) ==
    [i \in 1..(2 * Len(attr_path) - 1) |-> IF i % 2 = 1 THEN attr_path[(i + 1) \div 2] ELSE "."]

attr_path_starts_with(attr_path, prefix) ==
    /\ Len(attr_path) >= Len(prefix)
    /\ \A i \in 1..Len(prefix) : attr_path[i] = prefix[i]

(* A field of Filter is an Option: the set of the set of its alternatives, or
   the empty set when it is absent. *)
AnyValue == {}
Allows(field, Test(_)) == \A alternatives \in field : \E x \in alternatives : Test(x)

(* matches_filter; the field attr_prefix is a set of one prefix here. *)
matches_filter(d, filter) ==
    /\ Allows(filter.systems, LAMBDA s : s = d.system)
    /\ Allows(filter.attr_prefix, LAMBDA p : attr_path_starts_with(d.attr_path, p))
    /\ Allows(filter.attr_prefixes, LAMBDA p : attr_path_starts_with(d.attr_path, p))
    /\ Allows(filter.attrs, LAMBDA a : a = d.attr_path)
    /\ Allows(filter.names, LAMBDA n : n = d.name)
    /\ Allows(filter.drv_paths, LAMBDA x : x = d.drv_path)
    /\ Allows(filter.include_patterns, LAMBDA p : wildcard_matches(p, Attr(d.attr_path)))
    /\ \A alternatives \in filter.exclude_patterns :
         ~\E p \in alternatives : wildcard_matches(p, Attr(d.attr_path))

(* Filter::default. *)
NoFilter ==
    [systems |-> AnyValue, attr_prefix |-> AnyValue, attr_prefixes |-> AnyValue,
     attrs |-> AnyValue, names |-> AnyValue, drv_paths |-> AnyValue,
     include_patterns |-> AnyValue, exclude_patterns |-> AnyValue]

is_empty(name) == name = ""

(* split_attr_prefix: a prefix is what is between its dots, without what is
   empty.  The k-th name is the one that has k names up to it. *)
split_attr_prefix(prefix) ==
    LET names == {i \in 1..Len(prefix) : ~is_empty(prefix[i])}
        nth(k) == CHOOSE i \in names : Cardinality({j \in names : j <= i}) = k
    IN [k \in 1..Cardinality(names) |-> prefix[nth(k)]]

(* filter of the command line: one --attr-prefix is attr_prefix, several are
   attr_prefixes, and none of an option is no restriction. *)
cli_filter(systems, prefixes) ==
    LET attr_prefixes == {split_attr_prefix(p) : p \in prefixes}
    IN [NoFilter EXCEPT
          !.systems       = IF systems = {} THEN AnyValue ELSE {systems},
          !.attr_prefix   = IF Cardinality(prefixes) = 1 THEN {attr_prefixes} ELSE AnyValue,
          !.attr_prefixes = IF Cardinality(prefixes) > 1 THEN {attr_prefixes} ELSE AnyValue]
=============================================================================
