---------------------------- MODULE FlakeInputs ----------------------------
(***************************************************************************)
(* What is evaluated, from the words of the user to the workers:           *)
(*   daemon_config and daemon_flake_ref (crates/evix-cli/src/main.rs),     *)
(*   worker_config (crates/evix/src/async_master.rs), eval_root, locking   *)
(*   and importing flakes (worker.rs), watched_paths (watch.rs).           *)
(*                                                                         *)
(* A reference is the form of its path, a prefix "path:" and a fragment.   *)
(* A place is where a path starts and what it adds, so that the same words *)
(* in another working directory are another place.  How Nix reads a        *)
(* reference and what it does in a lock mode is external.                  *)
(*                                                                         *)
(* A definition Name_Fault is the definition Name with one plausible       *)
(* mistake; it is used by no behaviour.                                    *)
(***************************************************************************)
EXTENDS Integers, FiniteSets

CONSTANTS
    Inputs,     \* what users ask for
    Overrides,  \* references they may give to --override-input
    Workers,
    Revisions,  \* bound: states of what is not local
    None        \* no reference, no answer

(* Forms of a path: nothing, ".", "..", "./x", "../x", "x/y", "x", an absolute
   path, a URL. *)
Forms == {"empty", "dot", "dotdot", "dotslash", "dotdotslash", "slashed", "bare", "absolute", "url"}
References ==
    [kind : {"flake"}, prefix : BOOLEAN, form : Forms, place : {None}, fragment : BOOLEAN]
FileInputs == [kind : {"file"}, form : {"bare", "absolute"}, place : {None}]
ExprInputs == [kind : {"expr"}, place : {None}]

(* A place: where a path starts, and what it adds. *)
Places == {"cwd", "root directory", "/"} \X {"", "..", "../x", "x", "locked input"}

(* What is assumed of the constants; DataPath assumes it. *)
FlakeInputsAssumption ==
    /\ Inputs \subseteq References \union FileInputs \union ExprInputs
    /\ Overrides \subseteq References \union {None}
    /\ Revisions \in Nat
    /\ None \notin Places /\ \A a, b, c \in Places : None # {a, b, c}

(* The references that the client, the workers and the watch loop read in the
   same way; README lists the others. *)
UsualPaths ==
    [kind : {"flake"}, prefix : BOOLEAN, form : {"empty", "dot", "dotslash", "absolute"},
     place : {None}, fragment : {TRUE}]
UsualNames ==
    [kind : {"flake"}, prefix : {FALSE}, form : {"bare", "url"}, place : {None}, fragment : BOOLEAN]
UsualInputs == UsualPaths \union UsualNames \union FileInputs \union ExprInputs

VARIABLES
    asked,     \* the input, and the override, of the user
    override,
    via,       \* evaluated by the client itself or by a daemon
    sent,      \* the input as the evaluating process gets it
    stale,     \* the flake.lock of the flake is out of date
    upstream,  \* revision of what the flake needs from elsewhere
    exists,    \* the path is there
    phase,
    graph,     \* the locked graph made by export_locked_flake
    used,      \* what each worker evaluates: the graph it imported, and how far into it
    allowed,   \* the store paths it may read
    watched    \* what the watch loop subscribed to

vars == <<asked, override, via, sent, stale, upstream, exists, phase, graph, used, allowed, watched>>
given == <<asked, override, via, stale, exists>>

(* Where a path leads from a working directory. *)
Resolve(r, base) ==
    IF r.place # None THEN r.place
    ELSE CASE r.form \in {"empty", "dot"} -> <<base, "">>
           [] r.form = "dotdot" -> <<base, "..">>
           [] r.form = "dotdotslash" -> <<base, "../x">>
           [] r.form = "absolute" -> <<"/", "x">>
           [] OTHER -> <<base, "x">>

(* Whether Nix takes a reference for a path; it looks the others up. *)
IsPath(r) == r.prefix \/ r.form \notin {"bare", "url"}
Place(r, base) == IF IsPath(r) THEN Resolve(r, base) ELSE <<"registry", r.form>>

(* The working directory of whoever evaluates: a daemon is in the root. *)
Base == IF via = "daemon" THEN "root directory" ELSE "cwd"

Absolute(r, base) == [r EXCEPT !.form = "absolute", !.place = Resolve(r, base)]

Init ==
    /\ asked \in Inputs /\ override \in Overrides
    /\ via \in {"local", "daemon"}
    /\ stale \in BOOLEAN /\ exists \in BOOLEAN
    /\ upstream = 0
    /\ sent = None /\ graph = None /\ watched = None
    /\ phase = "asked"
    /\ used = [w \in Workers |-> None]
    /\ allowed = [w \in Workers |-> {}]

is_relative_flake_path(form) == form \in {"empty", "dot", "dotslash", "dotdotslash", "slashed"}

daemon_flake_ref(r) ==
    IF r.prefix \/ is_relative_flake_path(r.form) \/ r.form = "absolute"
    THEN [Absolute(r, "cwd") EXCEPT !.prefix = TRUE]
    ELSE r

(* daemon_config: what the client makes absolute before it sends the request.
   A path that is not there is an error. *)
daemon_config(i) ==
    CASE i.kind = "file" -> Absolute(i, "cwd")
      [] i.kind = "flake" -> daemon_flake_ref(i)
      [] i.kind = "expr" -> i

Submit ==
    /\ phase = "asked"
    /\ IF via = "local" THEN sent' = asked /\ phase' = "prepare"
       ELSE IF daemon_config(asked) # asked /\ ~exists THEN phase' = "error" /\ UNCHANGED sent
       ELSE sent' = daemon_config(asked) /\ phase' = "prepare"
    /\ UNCHANGED <<given, upstream, graph, used, allowed, watched>>

---------------------------------------------------------------------------
(* Locking.                                                                 *)

(* Without a fragment the prefix is not taken off. *)
is_local_flake_reference(r) ==
    IF r.prefix /\ ~r.fragment THEN FALSE
    ELSE r.form \in {"empty", "dot", "dotdot", "dotslash", "dotdotslash", "absolute"}

flake_lock_mode(r) == IF is_local_flake_reference(r) THEN "Check" ELSE "Virtual"

(* Check refuses a lock file that is out of date; Virtual locks anew, with
   what is upstream now, as it is needed for a flake that has no lock file. *)
lock_flake(r) ==
    IF flake_lock_mode(r) = "Check" /\ stale THEN None
    ELSE [of |-> Place(r, Base),
          override |-> IF override = None THEN None ELSE Place(override, Base),
          revision |-> IF stale \/ ~IsPath(r) THEN upstream ELSE 0,
          mode |-> flake_lock_mode(r)]

(* worker_config in the process that evaluates, once for a run: a file becomes
   absolute, a flake is locked and its graph exported. *)
Prepare ==
    /\ phase = "prepare"
    /\ CASE sent.kind = "file" -> sent' = Absolute(sent, Base) /\ phase' = "run" /\ UNCHANGED graph
         [] sent.kind = "expr" -> phase' = "run" /\ UNCHANGED <<sent, graph>>
         [] sent.kind = "flake" ->
              /\ graph' = lock_flake(sent)
              /\ phase' = IF lock_flake(sent) = None \/ (IsPath(sent) /\ ~exists) THEN "error" ELSE "run"
              /\ UNCHANGED sent
    /\ UNCHANGED <<given, upstream, used, allowed, watched>>

(* The store paths of the nodes of a graph: the flake and its two inputs, of
   which one is a subdirectory of the flake. *)
nodePaths == {<<"source", "">>, <<"source", "sub">>, <<"input", "">>}

allow_imported_flake_paths(g) == {p[1] : p \in nodePaths}

(* A graph, and the value its fragment leads to or all outputs. *)
Outputs(g, fragment) == [graph |-> g, narrowed |-> fragment]

StartWorker_Fault(w) ==
    /\ phase = "run" /\ sent.kind = "flake"
    /\ allowed' = [allowed EXCEPT ![w] = allow_imported_flake_paths(graph)]
    /\ \/ phase' = "error" /\ UNCHANGED used
       \/ used' = [used EXCEPT ![w] = Outputs(lock_flake(sent), sent.fragment)] /\ UNCHANGED phase
    /\ UNCHANGED <<given, sent, upstream, graph, watched>>

(* eval_root of a worker, at its start or after any restart, for a flake: a
   reference that cannot be parsed or a node outside the store ends the run, ... *)
StartFails ==
    /\ phase = "run" /\ sent.kind = "flake"
    /\ phase' = "error"
    /\ UNCHANGED <<given, sent, upstream, graph, used, allowed, watched>>

(* ... and so does, once the paths are allowed, a graph that cannot be imported
   or a part of the fragment that is not there. *)
StartWorker(w) ==
    /\ phase = "run" /\ sent.kind = "flake"
    /\ allowed' = [allowed EXCEPT ![w] = allow_imported_flake_paths(graph)]
    /\ \/ phase' = "error" /\ UNCHANGED used
       \/ used' = [used EXCEPT ![w] = Outputs(graph, sent.fragment)] /\ UNCHANGED phase
    /\ UNCHANGED <<given, sent, upstream, graph, watched>>

(* eval_root for a file or an expression, which may not evaluate. *)
EvalRoot(w) ==
    /\ phase = "run" /\ sent.kind # "flake"
    /\ \/ phase' = "error" /\ UNCHANGED used
       \/ /\ used' = [used EXCEPT ![w] = [of |-> IF sent.kind = "file" THEN Resolve(sent, Base) ELSE <<"expression">>]]
          /\ UNCHANGED phase
    /\ UNCHANGED <<given, sent, upstream, graph, allowed, watched>>

(* build_auto_args: an argument that cannot be evaluated ends the worker, and
   with it the run. *)
ArgumentFails ==
    /\ phase = "run"
    /\ phase' = "error"
    /\ UNCHANGED <<given, sent, upstream, graph, used, allowed, watched>>

(* Something the flake refers to changes. *)
Upstream ==
    /\ upstream < Revisions
    /\ upstream' = upstream + 1
    /\ UNCHANGED <<given, sent, phase, graph, used, allowed, watched>>

---------------------------------------------------------------------------
(* Watching.                                                                *)

(* Where the flake is; "../x", and "x" after "path:", are not taken for one. *)
local_flake_root(r) ==
    IF r.form \in {"empty", "dot", "dotdot", "absolute", "dotslash"} THEN Resolve(r, Base) ELSE None

(* The flake and the path inputs of its lock file, of which one is relative to
   the flake; an expression cannot be watched. *)
watched_paths(i) ==
    CASE i.kind = "file" -> {Resolve(i, Base)}
      [] i.kind = "expr" -> None
      [] i.kind = "flake" ->
           IF local_flake_root(i) = None THEN None
           ELSE {local_flake_root(i), <<"/", "locked input">>, <<local_flake_root(i)[1], "locked input">>}

Watch ==
    /\ phase = "run" /\ watched = None
    /\ watched' = watched_paths(sent)
    /\ phase' = IF watched_paths(sent) = None THEN "not watchable" ELSE "run"
    /\ UNCHANGED <<given, sent, upstream, graph, used, allowed>>

---------------------------------------------------------------------------

Next ==
    \/ Submit \/ Prepare \/ Watch \/ Upstream \/ ArgumentFails \/ StartFails
    \/ \E w \in Workers : StartWorker(w) \/ EvalRoot(w)

Spec == Init /\ [][Next]_vars

Started == phase \in {"run", "not watchable"}

(* The place the user means, which is where the client runs. *)
Meant == IF asked.kind = "flake" THEN Place(asked, "cwd") ELSE Resolve(asked, "cwd")

(* An override that means the same wherever the evaluation runs.  daemon_config
   leaves the overrides of a request as they are, so that the daemon looks for a
   relative path in its own directory. *)
Portable(r) == r.form = "absolute" \/ ~IsPath(r)

(* The evaluation is of the file or flake the user means, of the part of it the
   fragment names, with the override the user means, whoever evaluates and
   wherever that one runs; but for a relative override through a daemon. *)
SameInput ==
    Started =>
        /\ sent.kind = "file" => \A w \in Workers : used[w] # None => used[w].of = Meant
        /\ sent.kind = "flake" =>
             /\ graph.of = Meant
             /\ \A w \in Workers : used[w] # None => used[w].narrowed = asked.fragment
             /\ override # None /\ (via = "local" \/ Portable(override)) =>
                  graph.override = Place(override, "cwd")

(* "Local/path flakes are checked against their `flake.lock`": none is
   evaluated with a lock file that is out of date. *)
LocalLockChecked ==
    Started /\ sent.kind = "flake" /\ IsPath(asked) => graph.mode = "Check" /\ ~stale

(* Every worker of a run, a restarted one too, evaluates the same graph,
   however upstream moves between their starts. *)
WorkersAgree == \A v, w \in Workers : used[v] # None /\ used[w] # None => used[v] = used[w]

(* A worker may read every node of the graph it imported. *)
NodesReadable ==
    \A w \in Workers : used[w] # None /\ sent.kind = "flake" => \A p \in nodePaths : p[1] \in allowed[w]

(* What is watched contains what is evaluated. *)
WatchesInput == watched # None => Meant \in watched

(* "Evix watches the local flake root": a local flake can be watched. *)
LocalIsWatchable ==
    phase = "not watchable" => asked.kind = "expr" \/ (asked.kind = "flake" /\ ~IsPath(asked))
=============================================================================
