----------------------------- MODULE WarmGraph -----------------------------
(***************************************************************************)
(* The graph a session keeps warm, the diffs it sends and the queries it   *)
(* answers: crates/evix/src/state.rs, with the filter the command line     *)
(* builds (crates/evix-cli/src/args.rs: filter).                           *)
(*                                                                         *)
(* One evaluation after the other is accumulated; each completed one       *)
(* replaces the warm graph and sends the diff, which a client applies to a *)
(* copy of its own.  Attribute paths are sequences of names; a derivation  *)
(* is its path, its store path, its system and the rest of it ("meta").    *)
(***************************************************************************)
EXTENDS Filters

CONSTANTS
    Paths,        \* attribute paths, sequences of names
    DrvPaths,     \* store paths of derivations
    Systems,
    Metas,        \* what else a derivation says: its meta attributes
    AttrPrefixes, \* --attr-prefix arguments, what is between their dots
    Queries,      \* filters of other programs
    MaxEvents,    \* bound: events of one evaluation
    MaxEvals      \* bound: evaluations

(* What is assumed of the constants; DataPath assumes it. *)
WarmGraphAssumption ==
    /\ MaxEvents \in Nat /\ MaxEvals \in Nat
    /\ \A p \in Paths \union AttrPrefixes : p \in Seq(STRING)
    /\ \A q \in Queries :
         q = [systems |-> q.systems, attr_prefix |-> q.attr_prefix, attr_prefixes |-> q.attr_prefixes,
              attrs |-> q.attrs, names |-> q.names, drv_paths |-> q.drv_paths,
              include_patterns |-> q.include_patterns, exclude_patterns |-> q.exclude_patterns]

VARIABLES
    graph,     \* WarmState.graph
    acc,       \* EvalAccumulator.graph
    errors,    \* EvalAccumulator.errors, counted
    events,    \* the events of this evaluation so far
    evals,     \* completed evaluations
    mirror     \* a client's copy, kept up to date by the diffs alone

vars == <<graph, acc, errors, events, evals, mirror>>

Derivations == [attr_path : Paths, drv_path : DrvPaths, system : Systems,
                name : {"n"}, meta : Metas]

(* A graph is a set of derivations with at most one for a path. *)
Get(g, path) == {d \in g : d.attr_path = path}

Init ==
    /\ graph = {} /\ acc = {} /\ errors = 0 /\ events = <<>> /\ evals = 0 /\ mirror = {}

(* EvalAccumulator::record of a derivation: the last one for a path wins. *)
record(g, d) == (g \ Get(g, d.attr_path)) \union {d}

diff_removed_Fault(previous, current) ==
    {old \in previous : Get(current, old.attr_path) = {}}

diff_removed(previous, current) ==
    {old \in previous : \A new \in Get(current, old.attr_path) : new.drv_path # old.drv_path}

diff_added(previous, current) ==
    {new \in current : \A old \in Get(previous, new.attr_path) : old.drv_path # new.drv_path}

(* diff_graphs compares two graphs path by path, by store path only. *)
diff_graphs(previous, current, errs) ==
    [removed |-> diff_removed(previous, current), added |-> diff_added(previous, current),
     errors |-> errs]

(* What a client does with a diff: it forgets the attributes that were removed,
   whatever else it knows of them, and takes over the derivations added. *)
apply_diff(g, diff) ==
    {d \in g : \A old \in diff.removed : old.attr_path # d.attr_path} \union diff.added

query(filter) == {d \in graph : matches_filter(d, filter)}

---------------------------------------------------------------------------

(* An event of the running evaluation; attribute sets leave no trace. *)
Record(d) ==
    /\ Len(events) < MaxEvents
    /\ events' = Append(events, d)
    /\ acc' = record(acc, d)
    /\ UNCHANGED <<graph, errors, evals, mirror>>

RecordError ==
    /\ Len(events) + errors < MaxEvents
    /\ errors' = errors + 1
    /\ UNCHANGED <<graph, acc, events, evals, mirror>>

(* The evaluation completes: the client gets the diff, the session keeps the
   graph. *)
Complete ==
    /\ evals < MaxEvals
    /\ mirror' = apply_diff(mirror, diff_graphs(graph, acc, errors))
    /\ graph' = acc
    /\ acc' = {} /\ errors' = 0 /\ events' = <<>>
    /\ evals' = evals + 1

Next == RecordError \/ Complete \/ \E d \in Derivations : Record(d)

Spec == Init /\ [][Next]_vars

---------------------------------------------------------------------------
(* Properties.                                                              *)

(* Graphs are maps from attribute paths to derivations. *)
TypeOK ==
    /\ \A g \in {graph, acc} :
         g \subseteq Derivations /\ \A d \in g : Get(g, d.attr_path) = {d}
    /\ mirror \subseteq Derivations
    /\ errors \in 0..MaxEvents /\ evals \in 0..MaxEvals
    /\ events \in Seq(Derivations) /\ Len(events) <= MaxEvents

Builds(g) == {<<d.attr_path, d.drv_path>> : d \in g}

(* A client that applies every diff knows what to build: its copy has the
   attribute paths and the store paths of the warm graph, one for each path,
   even when a derivation moved, changed or was reported twice. *)
MirrorBuilds ==
    /\ Builds(mirror) = Builds(graph)
    /\ \A d \in mirror : Get(mirror, d.attr_path) = {d}

(* Every path that was reported is in the graph, and what was reported last for
   it is what the graph says of it. *)
LastReportWins ==
    /\ \A i \in 1..Len(events) : \E d \in acc : d.attr_path = events[i].attr_path
    /\ \A d \in acc : \E i \in 1..Len(events) :
         /\ events[i] = d
         /\ \A j \in i + 1..Len(events) : events[j].attr_path # d.attr_path

(* path begins with prefix. *)
Under(path, prefix) == Len(prefix) <= Len(path) /\ SubSeq(path, 1, Len(prefix)) = prefix

(* A query from the command line answers with the derivations of any of the
   systems and under any of the prefixes that were asked for. *)
QueryMeansUnion ==
    \A systems \in SUBSET Systems, prefixes \in {q \in SUBSET AttrPrefixes : IsFiniteSet(q)} :
        query(cli_filter(systems, prefixes)) =
            {d \in graph : /\ systems = {} \/ d.system \in systems
                           /\ prefixes = {} \/ \E p \in prefixes :
                                                Under(d.attr_path, split_attr_prefix(p))}

(* A prefix with nothing empty between its dots is taken as it is. *)
PrefixMeant ==
    \A p \in AttrPrefixes : (\A i \in 1..Len(p) : ~is_empty(p[i])) => split_attr_prefix(p) = p

(* The same filter with one of its fields. *)
Only(filter, field) == [NoFilter EXCEPT ![field] = filter[field]]

(* "Multiple populated filter fields are combined as intersections." *)
FieldsIntersect ==
    \A filter \in Queries :
        query(filter) = {d \in graph : \A field \in DOMAIN filter : d \in query(Only(filter, field))}
=============================================================================
