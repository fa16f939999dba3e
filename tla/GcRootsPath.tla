---------------------------- MODULE GcRootsPath ----------------------------
(***************************************************************************)
(* The directory of --gc-roots-dir: normalize_absolute,                    *)
(* validate_gc_roots_dir_path and ensure_gc_roots_dir of crates/evix/src/  *)
(* eval.rs, for every path of a few components, in a file system without   *)
(* symbolic links.                                                         *)
(***************************************************************************)
EXTENDS Integers, Sequences, FiniteSets

CONSTANTS
    Names,     \* names of directories
    GcRoots,   \* NIX_GCROOTS_DIR, as a sequence of names
    MaxLen     \* bound: components of a path

(* What is assumed of the constants; DataPath assumes it. *)
GcRootsPathAssumption ==
    /\ GcRoots \in Seq(Names) /\ MaxLen \in Nat
    /\ {".", "..", "nowhere"} \intersect Names = {}

VARIABLES
    absolute,  \* the path begins with a slash
    path,      \* its components
    made       \* the directory that was created for it

vars == <<absolute, path, made>>

(* No directory. *)
Nowhere == <<"nowhere">>

Init ==
    /\ absolute \in BOOLEAN
    /\ path = <<>>
    /\ made = Nowhere

(* Component by component; stepping out of the root is an error. *)
Component(parts, c) ==
    CASE c = "." -> parts
      [] c = ".." -> IF parts = <<>> THEN Nowhere ELSE SubSeq(parts, 1, Len(parts) - 1)
      [] OTHER -> Append(parts, c)

normalize_absolute(abs, p) ==
    LET parts[i \in 0..Len(p)] ==
          IF i = 0 THEN <<>> ELSE IF parts[i - 1] = Nowhere THEN Nowhere ELSE Component(parts[i - 1], p[i])
    IN IF abs THEN parts[Len(p)] ELSE Nowhere

IsUnder(p) == Len(p) >= Len(GcRoots) /\ SubSeq(p, 1, Len(GcRoots)) = GcRoots

validate_gc_roots_dir_path(abs, p) ==
    LET normalized == normalize_absolute(abs, p)
    IN IF normalized # Nowhere /\ IsUnder(normalized) THEN normalized ELSE Nowhere

(* The user writes the path. *)
Write(c) ==
    /\ Len(path) < MaxLen /\ made = Nowhere
    /\ path' = Append(path, c)
    /\ UNCHANGED <<absolute, made>>

(* ensure_gc_roots_dir makes the directory of a path that is accepted. *)
Ensure ==
    /\ made = Nowhere
    /\ validate_gc_roots_dir_path(absolute, path) # Nowhere
    /\ made' = validate_gc_roots_dir_path(absolute, path)
    /\ UNCHANGED <<absolute, path>>

Next == Ensure \/ \E c \in Names \union {".", ".."} : Write(c)

Spec == Init /\ [][Next]_vars

(* Where the system finds the path: each ".." cancels the nearest name before
   it that is not cancelled, and "/.." is "/". *)
Depth(p, i, j) == Cardinality({k \in i..j : p[k] \in Names}) - Cardinality({k \in i..j : p[k] = ".."})
Kept(p) == {i \in 1..Len(p) : p[i] \in Names /\ \A j \in i..Len(p) : Depth(p, i, j) >= 1}
Resolved(p) ==
    LET kept == Kept(p)
        nth(k) == CHOOSE i \in kept : Cardinality({j \in kept : j <= i}) = k
    IN [k \in 1..Cardinality(kept) |-> p[nth(k)]]

(* The directory that is made is the one the path leads to, and it is among
   Nix's roots; every absolute path that leads there without leaving the file
   system's root on the way is accepted. *)
MadeWhereNamed ==
    /\ made # Nowhere => absolute /\ made = Resolved(path) /\ IsUnder(made)
    /\ absolute /\ IsUnder(Resolved(path)) /\ (\A j \in 1..Len(path) : Depth(path, 1, j) >= 0)
         => validate_gc_roots_dir_path(absolute, path) = Resolved(path)
=============================================================================
