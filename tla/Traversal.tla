------------------------------ MODULE Traversal ------------------------------
(***************************************************************************)
(* What one evaluation run promises, whatever the number of workers and    *)
(* the way work is handed out: an attribute tree is walked from its root,  *)
(* every attribute is reported at most once and after the attribute set    *)
(* that contains it, and the run ends in exactly one of three ways:        *)
(* completed with nothing left to visit, cancelled on request, or failed.  *)
(***************************************************************************)
EXTENDS Sequences, Functions

CONSTANTS
    Paths,      \* attribute paths
    Root,       \* the empty path
    Children    \* the child paths an attribute set at a path expands to

VARIABLES
    frontier,   \* paths known to exist and not yet reported
    visited,    \* paths reported to the event sink
    requested,  \* cancellation was requested
    status      \* "running", or how the run ended

vars == <<frontier, visited, requested, status>>

TypeOK ==
    /\ frontier \subseteq Paths
    /\ visited \subseteq Paths
    /\ requested \in BOOLEAN
    /\ status \in {"running", "completed", "cancelled", "failed"}

Init ==
    /\ frontier = {Root}
    /\ visited = {}
    /\ requested = FALSE
    /\ status = "running"

(* Report p; an attribute set adds its children to the frontier. *)
Visit(p) ==
    /\ status = "running"
    /\ p \in frontier
    /\ visited' = visited \union {p}
    /\ \E found \in {{}, Range(Children[p])} :
          frontier' = (frontier \ {p}) \union found
    /\ UNCHANGED <<requested, status>>

RequestCancel ==
    /\ requested' = TRUE
    /\ UNCHANGED <<frontier, visited, status>>

Finish(s) ==
    /\ status = "running"
    /\ s = "completed" => frontier = {}
    /\ s = "cancelled" => requested
    /\ status' = s
    /\ UNCHANGED <<frontier, visited, requested>>

Next ==
    \/ \E p \in Paths : Visit(p)
    \/ RequestCancel
    \/ \E s \in {"completed", "cancelled", "failed"} : Finish(s)

Spec == Init /\ [][Next]_vars
==============================================================================
