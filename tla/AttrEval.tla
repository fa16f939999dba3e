------------------------------ MODULE AttrEval ------------------------------
(***************************************************************************)
(* Evaluating attribute paths: crates/evix/src/eval.rs, process_attr and   *)
(* everything it calls, by workers that share the directory of GC roots.   *)
(*                                                                         *)
(* Nix values are the nodes of a graph, which may have cycles, and a node  *)
(* has a kind and, where the kind has them, children with names (the       *)
(* elements of a list are named by their index).  What Nix itself does is  *)
(* external: forcing and getting a child fail exactly for the kind throw,  *)
(* calling a function that needs no more arguments gives its result.       *)
(*                                                                         *)
(* The order of the paths is the coordinator's queue; Scheduler has the    *)
(* coordinator.  A definition Name_Fault is the definition Name with one   *)
(* plausible mistake; it is used by no behaviour.                          *)
(***************************************************************************)
EXTENDS Integers, Sequences, FiniteSets

CONSTANTS
    Node, Root,
    Kind,          \* what a node is
    Children,      \* its children, as a sequence of <<name, node>>
    Result,        \* what calling a function gives
    Drv,           \* the derivation a node of kind drv stands for
    Workers,
    ForceRecurse,                    \* values of EvalOptions.force_recurse
    Meta, ShowInputDrvs, GcRoots,    \* the other EvalOptions
    MaxAttrDepth,  \* MAX_ATTR_DEPTH
    MaxMetaDepth,  \* the depth read_meta allows
    RootErrors,    \* bound: no directory fails once this many roots failed
    None           \* no node, or nothing to report

Kinds == {"attrs", "drv", "baddrv", "function", "throw", "null", "true", "scalar", "nan", "path",
          "badpath", "list"}

(* What is assumed of the constants; DataPath assumes it. *)
AttrEvalAssumption ==
    /\ Root \in Node /\ None \notin Node
    /\ Kind \in [Node -> Kinds]
    /\ \A n \in Node :
         /\ Children[n] \in Seq(STRING \X Node)
         /\ \A i, j \in DOMAIN Children[n] : Children[n][i][1] = Children[n][j][1] => i = j
         /\ Kind[n] \notin {"attrs", "drv", "baddrv", "list"} => Children[n] = <<>>
         /\ Kind[n] = "function" => Result[n] \in Node
    /\ ForceRecurse \subseteq BOOLEAN /\ {Meta, ShowInputDrvs, GcRoots} \subseteq BOOLEAN
    /\ MaxAttrDepth \in Nat /\ MaxMetaDepth \in Nat /\ RootErrors \in Nat

VARIABLES
    force_recurse,
    queue,    \* paths nobody has taken
    at,       \* what each worker is doing
    item,     \* the path it is working on
    events,   \* the answers, by path
    links     \* derivations with a link in the directory of GC roots

vars == <<force_recurse, queue, at, item, events, links>>

---------------------------------------------------------------------------
(* Nix.                                                                     *)

has_attr(n, name) == \E i \in DOMAIN Children[n] : Children[n][i][1] = name

(* The child, or None if there is none or it cannot be forced. *)
get_attr(n, name) ==
    LET found == {Children[n][i][2] : i \in {j \in DOMAIN Children[n] : Children[n][j][1] = name}}
    IN IF Kind[n] \notin {"attrs", "drv", "baddrv"} \/ found = {} THEN None
       ELSE LET c == CHOOSE c \in found : TRUE IN IF Kind[c] = "throw" THEN None ELSE c

auto_call_function(n) == IF Kind[n] = "function" THEN Result[n] ELSE n

attr_keys(n) == [i \in DOMAIN Children[n] |-> Children[n][i][1]]

---------------------------------------------------------------------------
(* From a path to its value.                                                *)

Names == UNION {{Children[n][i][1] : i \in DOMAIN Children[n]} : n \in Node}

(* A path followed name by name. *)
Follow(step, start, path) ==
    LET to[i \in 0..Len(path)] == IF i = 0 THEN start ELSE step[to[i - 1]][path[i]]
    IN to[Len(path)]

(* The value of a name, called if it is a function. *)
Step ==
    [n \in Node \union {None} |-> [name \in Names |->
       IF n = None \/ get_attr(n, name) = None THEN None
       ELSE LET called == auto_call_function(get_attr(n, name))
            IN IF Kind[called] = "throw" THEN None ELSE called]]

(* The root is called for the empty path only. *)
navigate(path) ==
    IF path = <<>>
    THEN LET called == auto_call_function(Root) IN IF Kind[called] = "throw" THEN None ELSE called
    ELSE Follow(Step, Root, path)

(* The keys to look into. *)
filter_keys(keys) ==
    LET kept[i \in 0..Len(keys)] ==
          IF i = 0 THEN <<>>
          ELSE IF keys[i] = "recurseForDerivations" THEN kept[i - 1] ELSE Append(kept[i - 1], keys[i])
    IN kept[Len(keys)]

collect_recurse_Fault(n, path) ==
    LET flag == get_attr(n, "recurseForDerivations")
    IN IF force_recurse \/ (flag # None /\ Kind[flag] = "true") THEN filter_keys(attr_keys(n)) ELSE <<>>

collect_recurse(n, path) ==
    LET flag == get_attr(n, "recurseForDerivations")
        recurse == force_recurse \/ path = <<>> \/ (flag # None /\ Kind[flag] = "true")
    IN IF recurse THEN filter_keys(attr_keys(n)) ELSE <<>>

---------------------------------------------------------------------------
(* meta as JSON: <<"none">> where there is no JSON for a value, <<"fail">>  *)
(* where the whole derivation fails for it.                                 *)

JsonNone == <<"none">>
JsonFail == <<"fail">>

(* A list of which an element cannot be got has no JSON; an element without
   JSON is null; an attribute without JSON is left out. *)
value_to_json(root, limit) ==
    LET json[depth \in 0..limit] ==
          [n \in Node |->
             LET child(i) == json[depth - 1][Children[n][i][2]]
                 all == DOMAIN Children[n]
                 present == {i \in all : Kind[Children[n][i][2]] # "throw"}
                 element(i) == IF child(i) = JsonNone THEN <<"scalar", "null">> ELSE child(i)
                 fails(i) == i \in present /\ child(i) = JsonFail
             IN IF depth = 0 \/ Kind[n] \in {"throw", "function", "nan"} THEN JsonNone
                ELSE CASE Kind[n] \in {"null", "true", "scalar", "path"} -> <<"scalar", Kind[n]>>
                       [] Kind[n] = "badpath" -> JsonFail
                       [] Kind[n] = "list" ->
                            IF \E i \in all : fails(i) /\ 1..i \subseteq present THEN JsonFail
                            ELSE IF present # all THEN JsonNone
                            ELSE <<"array", {<<Children[n][i][1], element(i)>> : i \in all}>>
                       [] OTHER ->
                            IF \E i \in all : fails(i) THEN JsonFail
                            ELSE <<"object", {<<Children[n][i][1], child(i)>> :
                                                i \in {k \in present : child(k) # JsonNone}}>>]
    IN json[limit][root]

read_meta(n) ==
    IF ~has_attr(n, "meta") \/ get_attr(n, "meta") = None THEN JsonNone
    ELSE value_to_json(get_attr(n, "meta"), MaxMetaDepth)

---------------------------------------------------------------------------
(* The rest of a job.  A store path is absolute, or as the JSON of a        *)
(* derivation has it, relative to the store.                                *)

StorePath(of) == [dir |-> "store", of |-> of]
Placeholder(of) == [dir |-> "other", of |-> of]
absolute_store_path(p) == IF p.dir = "relative" THEN [p EXCEPT !.dir = "store"] ELSE p

(* An output is input-addressed, or fixed or floating content-addressed: the
   JSON has the path of the first only, the environment that of the second. *)
OutPath(d, o) == IF Drv[d].outputs[o] = "floating" THEN Placeholder(o) ELSE StorePath(o)
JsonPath(d, o) == IF Drv[d].outputs[o] = "input" THEN [dir |-> "relative", of |-> o] ELSE None

value_output_paths(d) ==
    [o \in DOMAIN Drv[d].outputs |-> IF OutPath(d, o).dir = "store" THEN OutPath(d, o) ELSE None]

output_paths(d) ==
    IF ~Drv[d].readable THEN <<>>
    ELSE [o \in DOMAIN Drv[d].outputs |->
            IF JsonPath(d, o) # None THEN absolute_store_path(JsonPath(d, o))
            ELSE IF OutPath(d, o).dir = "store" THEN OutPath(d, o) ELSE None]

(* Input derivations; one whose outputs are not a list of names is left out. *)
read_input_drvs(d) ==
    IF ~Drv[d].readable THEN {}
    ELSE {[drv |-> absolute_store_path(i.key), outputs |-> i.outputs] :
            i \in {j \in Drv[d].inputs : j.outputs # None}}

(* The names that are strings, if the attribute is there and is a list. *)
read_constituents(d) ==
    IF Drv[d].constituents = None THEN None
    ELSE SelectSeq(Drv[d].constituents, LAMBDA c : c # None)

(* What make_job reports, apart from the GC root. *)
make_job(n) ==
    [kind |-> "Derivation", node |-> n,
     outputs |-> IF Drv[n].throws THEN output_paths(n) ELSE value_output_paths(n),
     meta |-> IF Meta THEN read_meta(n) ELSE JsonNone,
     inputDrvs |-> IF ShowInputDrvs THEN read_input_drvs(n) ELSE {},
     constituents |-> read_constituents(n),
     gcRootError |-> FALSE]

Error(why) == [kind |-> "Error", why |-> why]

process_attr(path) ==
    LET n == navigate(path)
    IN IF n = None THEN Error("navigate")
       ELSE IF Kind[n] \notin {"attrs", "drv", "baddrv"} THEN [kind |-> "AttrSet", attrs |-> <<>>]
       ELSE IF Kind[n] = "baddrv" THEN Error("derivation")
       ELSE IF Kind[n] = "drv"
       THEN IF ~Drv[n].named \/ make_job(n).meta = JsonFail THEN Error("job") ELSE make_job(n)
       ELSE IF Len(path) >= MaxAttrDepth THEN Error("depth")
       ELSE [kind |-> "AttrSet", attrs |-> collect_recurse(n, path)]

---------------------------------------------------------------------------
(* Workers.                                                                 *)

Init ==
    /\ force_recurse \in ForceRecurse
    /\ queue = <<<<>>>>
    /\ at = [w \in Workers |-> "idle"]
    /\ item = [w \in Workers |-> <<>>]
    /\ events = <<>>
    /\ links = {}

(* An answer; the names in it become work. *)
Answer(w, event) ==
    /\ events' = [p \in DOMAIN events \union {item[w]} |-> IF p = item[w] THEN event ELSE events[p]]
    /\ queue' = IF event.kind = "AttrSet"
                THEN queue \o [i \in DOMAIN event.attrs |-> Append(item[w], event.attrs[i])]
                ELSE queue
    /\ at' = [at EXCEPT ![w] = "idle"]

(* A worker gets the next path. *)
Take(w) ==
    /\ at[w] = "idle" /\ queue # <<>>
    /\ item' = [item EXCEPT ![w] = Head(queue)]
    /\ queue' = Tail(queue)
    /\ at' = [at EXCEPT ![w] = "evaluate"]
    /\ UNCHANGED <<force_recurse, events, links>>

Evaluate(w) ==
    /\ at[w] = "evaluate"
    /\ LET event == process_attr(item[w])
       IN IF event.kind = "Derivation" /\ GcRoots
          THEN at' = [at EXCEPT ![w] = "root"] /\ UNCHANGED <<queue, events>>
          ELSE Answer(w, event)
    /\ UNCHANGED <<force_recurse, item, links>>

LinkOf(w) == Drv[navigate(item[w])].drvPath

CheckLink_Fault(w) ==
    /\ at[w] = "root"
    /\ Answer(w, process_attr(item[w]))
    /\ UNCHANGED <<force_recurse, item, links>>

(* register_gc_root: ensure_gc_roots_dir does not accept the directory or cannot
   make it or find where it leads, ... *)
EnsureFails(w) ==
    /\ at[w] = "root"
    /\ Cardinality({p \in DOMAIN events : events[p].kind = "Derivation" /\ events[p].gcRootError}) < RootErrors
    /\ Answer(w, [process_attr(item[w]) EXCEPT !.gcRootError = TRUE])
    /\ UNCHANGED <<force_recurse, item, links>>

(* ... create_gc_root_link looks whether the link is there, ... *)
CheckLink(w) ==
    /\ at[w] = "root"
    /\ IF LinkOf(w) \in links
       THEN Answer(w, process_attr(item[w]))
       ELSE at' = [at EXCEPT ![w] = "link"] /\ UNCHANGED <<queue, events>>
    /\ UNCHANGED <<force_recurse, item, links>>

(* ... and makes it, which fails if another worker was faster. *)
MakeLink(w) ==
    /\ at[w] = "link"
    /\ links' = links \union {LinkOf(w)}
    /\ Answer(w, [process_attr(item[w]) EXCEPT !.gcRootError = LinkOf(w) \in links])
    /\ UNCHANGED <<force_recurse, item>>

Next == \E w \in Workers : Take(w) \/ Evaluate(w) \/ EnsureFails(w) \/ CheckLink(w) \/ MakeLink(w)

Spec == Init /\ [][Next]_vars

Complete == queue = <<>> /\ \A w \in Workers : at[w] = "idle"

---------------------------------------------------------------------------
(* Properties.                                                              *)

(* Every variable has its type, and a path is worked on once. *)
TypeOK ==
    /\ \A w \in Workers : at[w] \in {"idle", "evaluate", "root", "link"}
    /\ \A p \in DOMAIN events : events[p].kind \in {"Derivation", "AttrSet", "Error"}
    /\ \A w \in Workers : at[w] # "idle" => item[w] \notin DOMAIN events \union {queue[i] : i \in DOMAIN queue}
    /\ links \subseteq {Drv[d].drvPath : d \in {n \in Node : Kind[n] = "drv"}}

(* What the properties compare with: walking the graph from the called root,
   without the evaluator's functions. *)
Child(n, name) ==
    LET found == {i \in DOMAIN Children[n] : Children[n][i][1] = name}
    IN IF found = {} THEN None ELSE Children[n][CHOOSE i \in found : TRUE][2]
Called(n) == IF n # None /\ Kind[n] = "function" THEN Result[n] ELSE n
Plain == [n \in Node \union {None} |-> [name \in Names |-> IF n = None THEN None ELSE Child(n, name)]]
Calling == [n \in Node \union {None} |-> [name \in Names |-> Called(Plain[n][name])]]
ValueAt(path) == Follow(Calling, Called(Root), path)
Walk(n, path) == Follow(Plain, n, path)

PathsOver(names, max) == UNION {[1..k -> names] : k \in 0..max}

(* Paths of which every proper prefix is an attribute set to look into. *)
Reachable(path) ==
    \A i \in 0..(Len(path) - 1) :
        LET n == ValueAt(SubSeq(path, 1, i))
        IN /\ n # None /\ Kind[n] = "attrs" /\ path[i + 1] # "recurseForDerivations"
           /\ Child(n, path[i + 1]) # None
           /\ i = 0 \/ force_recurse \/ (Child(n, "recurseForDerivations") # None
                                         /\ Kind[Child(n, "recurseForDerivations")] = "true")

AttrNames == UNION {{Children[n][i][1] : i \in DOMAIN Children[n]} : n \in {m \in Node : Kind[m] = "attrs"}}

(* When the work is done every path that can be reached, and no other, has one
   answer, and each derivation with a name, and with a meta that can be
   written, is reported: the recursion rules, functions, errors beside it and
   the depth limit lose nothing. *)
Exhaustive ==
    Complete =>
        /\ DOMAIN events = {p \in PathsOver(AttrNames, MaxAttrDepth) : Reachable(p)}
        /\ \A p \in DOMAIN events :
             LET n == ValueAt(p)
             IN (n # None /\ Kind[n] = "drv" /\ Drv[n].named /\ ~(Meta /\ read_meta(n) = JsonFail)) =>
                  events[p].kind = "Derivation" /\ events[p].node = n

(* Even for a value with cycles, in which every attribute set is looked into,
   no path is longer than the limit. *)
DepthBounded == \A i \in DOMAIN queue : Len(queue[i]) <= MaxAttrDepth

(* A derivation reported without gcRootError has its root, also when several
   workers register the same derivation at once. *)
RootsRegistered ==
    GcRoots => \A p \in DOMAIN events :
        events[p].kind = "Derivation" /\ ~events[p].gcRootError => Drv[events[p].node].drvPath \in links

(* Outputs are absolute and the same whether they were read from the value or
   from the .drv: only a floating output has no path. *)
OutputsAgree ==
    \A p \in DOMAIN events : events[p].kind = "Derivation" =>
        LET d == events[p].node
        IN Drv[d].readable =>
             events[p].outputs = [o \in DOMAIN Drv[d].outputs |->
                                    IF Drv[d].outputs[o] = "floating" THEN None ELSE StorePath(o)]

(* What is in the JSON at a path. *)
Entry(json, name) ==
    IF json[1] \in {"array", "object"} /\ \E e \in json[2] : e[1] = name
    THEN (CHOOSE e \in json[2] : e[1] = name)[2] ELSE JsonNone
Lookup(json, path) ==
    LET found[i \in 0..Len(path)] == IF i = 0 THEN json ELSE Entry(found[i - 1], path[i])
    IN found[Len(path)]

Convertible(n) ==
    /\ n # None /\ Kind[n] \notin {"throw", "function", "nan"}
    /\ Kind[n] = "list" => \A i \in DOMAIN Children[n] : Kind[Children[n][i][2]] # "throw"

Visible(meta, path) ==
    /\ Len(path) < MaxMetaDepth
    /\ \A i \in 0..Len(path) : Convertible(Walk(meta, SubSeq(path, 1, i)))

(* The path of the value that holds the one at path. *)
Parent(path) == SubSeq(path, 1, Len(path) - 1)

(* When the work is done, the meta of a derivation has exactly the parts of the
   attribute that can be forced and are not too deep, and null for the other
   elements of a list: one unreadable part takes nothing else with it but the
   list it is in. *)
MetaMeaning ==
    Complete =>
        LET Reported == {events[p] : p \in {q \in DOMAIN events : events[q].kind = "Derivation"}}
        IN \A d \in {[meta |-> e.meta, node |-> e.node] : e \in Reported} :
             LET meta == Child(d.node, "meta")
             IN Meta /\ meta # None =>
                \A q \in PathsOver(Names, MaxMetaDepth) :
                (Lookup(d.meta, q) # JsonNone) <=>
                  \/ Visible(meta, q)
                  \/ /\ q # <<>> /\ Visible(meta, Parent(q)) /\ Walk(meta, q) # None
                     /\ Kind[Walk(meta, Parent(q))] = "list"
=============================================================================
