------------------------------ MODULE DataPath ------------------------------
(***************************************************************************)
(* The data of an evaluation, from the words of the user to the answer:    *)
(*   - FlakeInputs: the reference becomes a locked flake in each worker,   *)
(*   - WireFormat: the configuration goes out and one answer comes back,   *)
(*   - AttrEval: workers turn attribute paths into answers,                *)
(*   - GcRootsPath: the directory the roots of the derivations are in,     *)
(*   - WarmGraph: answers become a graph, diffs and the results of queries,*)
(*   - Patterns: the wildcards of those queries.                           *)
(* They meet only in the values they hand on, never in shared state, so    *)
(* that nothing one of them does depends on when another one does it: a    *)
(* behaviour follows one part, chosen at the start, through all it can do. *)
(* The variables of the other parts are None.                              *)
(***************************************************************************)
EXTENDS Integers, Sequences

CONSTANTS
    None, Null,
    Workers,
    \* AttrEval
    Node, Root, Kind, Children, Result, Drv, ForceRecurse, Meta, ShowInputDrvs, GcRoots,
    MaxAttrDepth, MaxMetaDepth, RootErrors,
    \* GcRootsPath
    DirectoryNames, GcRootsDir, MaxLen,
    \* FlakeInputs
    Inputs, Overrides, Revisions,
    \* WireFormat
    Configs, Answers, Words, Versions, Rounds, BadPaths, Environments, Forbidden, KeyAs, ValueAs, RemoteOptions,
    DaemonVersion, WorkerVersion, DefaultTimeout, LocalLimit, RemoteLimit,
    \* WarmGraph
    Paths, DrvPaths, Systems, Metas, AttrPrefixes, Queries, MaxEvents, MaxEvals,
    \* Patterns
    Characters, MaxPattern, MaxValue

VARIABLES
    part,  \* the part this behaviour follows
    force_recurse, queue, at, item, events, links,
    absolute, path, made,
    asked, override, via, sent, stale, upstream, exists, phase, graph, used, allowed, watched,
    wireAt, carried, hops, route, wireAsked, client, answer, settings, sessions, wireUsed, round,
    warm, acc, errors, recorded, evals, mirror,
    pattern, value

AttributeVars == <<force_recurse, queue, at, item, events, links>>
DirectoryVars == <<absolute, path, made>>
FlakeVars == <<asked, override, via, sent, stale, upstream, exists, phase, graph, used, allowed, watched>>
WireVars == <<wireAt, carried, hops, route, wireAsked, client, answer, settings, sessions, wireUsed, round>>
WarmVars == <<warm, acc, errors, recorded, evals, mirror>>
PatternVars == <<pattern, value>>
vars == <<part, AttributeVars, DirectoryVars, FlakeVars,
          WireVars, WarmVars, PatternVars>>

AE == INSTANCE AttrEval
GC == INSTANCE GcRootsPath WITH Names <- DirectoryNames, GcRoots <- GcRootsDir
FI == INSTANCE FlakeInputs
WF == INSTANCE WireFormat WITH at <- wireAt, asked <- wireAsked, used <- wireUsed
WG == INSTANCE WarmGraph WITH graph <- warm, events <- recorded
PA == INSTANCE Patterns

ASSUME DataPathAssumption ==
    /\ AE!AttrEvalAssumption /\ GC!GcRootsPathAssumption /\ FI!FlakeInputsAssumption
    /\ WF!WireFormatAssumption /\ WG!WarmGraphAssumption /\ PA!PatternsAssumption

---------------------------------------------------------------------------
(* The variables of the parts that are not followed. *)
NoAttribute ==
    /\ force_recurse = None /\ queue = None /\ at = None /\ item = None /\ events = None /\ links = None
NoDirectory ==
    /\ absolute = None /\ path = None /\ made = None
NoFlake ==
    /\ asked = None /\ override = None /\ via = None /\ sent = None /\ stale = None /\ upstream = None
    /\ exists = None /\ phase = None /\ graph = None /\ used = None /\ allowed = None /\ watched = None
NoWire ==
    /\ wireAt = None /\ carried = None /\ hops = None /\ route = None /\ wireAsked = None /\ client = None
    /\ answer = None /\ settings = None /\ sessions = None /\ wireUsed = None /\ round = None
NoWarm ==
    /\ warm = None /\ acc = None /\ errors = None /\ recorded = None /\ evals = None /\ mirror = None
NoPattern ==
    /\ pattern = None /\ value = None

Init ==
    \/ part = "attributes" /\ AE!Init /\ NoDirectory /\ NoFlake /\ NoWire /\ NoWarm /\ NoPattern
    \/ part = "roots directory" /\ GC!Init /\ NoAttribute /\ NoFlake /\ NoWire /\ NoWarm /\ NoPattern
    \/ part = "flake" /\ FI!Init /\ NoAttribute /\ NoDirectory /\ NoWire /\ NoWarm /\ NoPattern
    \/ part = "wire" /\ WF!Init /\ NoAttribute /\ NoDirectory /\ NoFlake /\ NoWarm /\ NoPattern
    \/ part = "warm graph" /\ WG!Init /\ NoAttribute /\ NoDirectory /\ NoFlake /\ NoWire /\ NoPattern
    \/ part = "pattern" /\ PA!Init /\ NoAttribute /\ NoDirectory /\ NoFlake /\ NoWire /\ NoWarm

(* A step of one part. *)
EvaluateAttributes ==
    /\ part = "attributes" /\ AE!Next
    /\ UNCHANGED <<part, DirectoryVars, FlakeVars, WireVars, WarmVars, PatternVars>>

NameDirectory ==
    /\ part = "roots directory" /\ GC!Next
    /\ UNCHANGED <<part, AttributeVars, FlakeVars, WireVars, WarmVars, PatternVars>>

LockFlake ==
    /\ part = "flake" /\ FI!Next
    /\ UNCHANGED <<part, AttributeVars, DirectoryVars, WireVars, WarmVars, PatternVars>>

CarryMessages ==
    /\ part = "wire" /\ WF!Next
    /\ UNCHANGED <<part, AttributeVars, DirectoryVars, FlakeVars, WarmVars, PatternVars>>

KeepGraph ==
    /\ part = "warm graph" /\ WG!Next
    /\ UNCHANGED <<part, AttributeVars, DirectoryVars, FlakeVars, WireVars, PatternVars>>

MatchPattern ==
    /\ part = "pattern" /\ PA!Next
    /\ UNCHANGED <<part, AttributeVars, DirectoryVars, FlakeVars, WireVars, WarmVars>>

Next ==
    EvaluateAttributes \/ NameDirectory \/ LockFlake \/ CarryMessages \/ KeepGraph \/ MatchPattern

Spec == Init /\ [][Next]_vars

---------------------------------------------------------------------------
(* Properties.                                                              *)

(* When the work is done every path the recursion rules reach, and no other,
   has one answer: aliases, functions, errors, cycles and the depth limit of
   process_attr lose and repeat nothing.  The outputs make_job reports are the
   same whether they come from the value or from the .drv, and read_meta has
   kept every part of meta that can be forced and is not too deep. *)
AttributesRight ==
    part = "attributes" =>
        AE!TypeOK /\ AE!Exhaustive /\ AE!DepthBounded /\ AE!OutputsAgree /\ AE!MetaMeaning

(* A derivation reported without gcRootError has its root, also when two
   workers register the same derivation at once, and the directory is the one
   the path leads to, which is among Nix's roots: ensure_gc_roots_dir makes no
   other, and validate_gc_roots_dir_path accepts every such path. *)
RootsKept ==
    /\ part = "attributes" => AE!RootsRegistered
    /\ part = "roots directory" => GC!MadeWhereNamed

(* What is evaluated and watched is the file or flake the user means, in the
   client's process and in a daemon's, with the override the user means (a
   relative one through a daemon excepted), and a local flake can be watched.  No
   local flake is evaluated with a flake.lock that is out of date.  Every
   worker of a run, a restarted one too, imports the same locked graph,
   however upstream moves between their starts, and may read all of it. *)
InputAgrees ==
    part = "flake" =>
        /\ FI!SameInput /\ FI!WatchesInput /\ FI!LocalIsWatchable
        /\ FI!LocalLockChecked /\ FI!WorkersAgree /\ FI!NodesReadable

(* A worker evaluates the configuration the user wrote, however many processes
   relayed it, with the last Nix option of each setting in force (those excepted
   that Nix cuts), in a session that is of no other configuration; the printed
   line says what the evaluator found (a meta of null through the daemon
   excepted); and a request fails for a cause, and only then. *)
WireFaithful ==
    part = "wire" =>
        /\ WF!WorkerSeesConfig /\ WF!SettingsInForce /\ WF!SessionMatches
        /\ WF!LineSurvives /\ WF!RefusedForCause

(* A client that applies every diff has the attribute paths and store paths of
   the warm graph, which has every path that was reported, with the last report
   for it.  A query from the command line answers with the derivations of any of
   the systems and under any of the prefixes it names, any other filter with
   what all its fields select, and a wildcard means what it says. *)
GraphMeans ==
    /\ part = "warm graph" =>
         /\ WG!TypeOK /\ WG!MirrorBuilds /\ WG!LastReportWins
         /\ WG!QueryMeansUnion /\ WG!PrefixMeant /\ WG!FieldsIntersect
    /\ part = "pattern" => PA!WildcardMeaning
=============================================================================
