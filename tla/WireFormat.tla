----------------------------- MODULE WireFormat -----------------------------
(***************************************************************************)
(* What a configuration and an answer become on their way: the daemon      *)
(* protocol in JSON (crates/evix-protocol/src/lib.rs, serde_config.rs),    *)
(* the worker protocol in Cap'n Proto (crates/evix/src/remote_proto.rs),   *)
(* the configurations of each side (config.rs, worker_config.rs), the Nix  *)
(* options file (worker_process.rs) and the output lines (json.rs).        *)
(*                                                                         *)
(* A client asks for an evaluation, of the daemon or in its own process;   *)
(* the configuration goes to a worker, directly or through a remote        *)
(* server; one answer comes back and is printed.  Several rounds follow    *)
(* each other, and the daemon keeps its sessions between them.             *)
(*                                                                         *)
(* A JSON object is a function on its keys; the key of a field that is     *)
(* left out is not in its domain.  None is Option::None, Null is JSON's    *)
(* null.  Strings are opaque.  RemoteWorker and LocalPool have the order   *)
(* of the messages.                                                        *)
(***************************************************************************)
EXTENDS Integers, Sequences, FiniteSets, SequencesExt, Functions

CONSTANTS
    None, Null,
    Configs,               \* configurations a user may ask for
    Answers,               \* events an evaluation may give
    Words,                 \* the size of the message with an event or a configuration
    Versions,              \* protocol versions of the clients, and of the masters
    Rounds,                \* number of requests
    BadPaths,              \* paths that are not valid UTF-8
    Environments,          \* NIX_USER_CONF_FILES and the default nix.conf of the user of a
                           \* worker: [previous, default], a file being what Nix reads in it,
                           \* a sequence of <<key, value>>
    Forbidden,             \* texts with a newline or that start with an include
    KeyAs, ValueAs,        \* what Nix reads for the texts it does not take as they stand: None
                           \* for a key of several words, for which it refuses the file, and
                           \* for a value what is left without a comment and extra spaces
    RemoteOptions,         \* ALLOWED_REMOTE_NIX_OPTIONS
    DaemonVersion,         \* DAEMON_PROTOCOL_VERSION
    WorkerVersion,         \* WORKER_PROTOCOL_VERSION
    DefaultTimeout,        \* DEFAULT_ITEM_TIMEOUT_SECONDS
    LocalLimit, RemoteLimit   \* the traversal limits

utf8(p) == p = None \/ p \notin BadPaths

(* JSON inside a text. *)
to_string(json) == [text |-> json]
from_str(t) == t.text

(* The fields of a configuration that evix::Config and evix_protocol::Config
   share: all but the worker_exe of the process itself. *)
Fields == {"input", "auto_args", "force_recurse", "gc_roots_dir", "workers", "max_memory_size",
           "item_timeout_seconds", "meta", "show_input_drvs", "override_inputs", "nix_options", "remotes"}

(* What the types of Config and of the events say: the fields, and which of them
   are lists, options, flags and paths. *)
IsList(s) == s = [i \in DOMAIN s |-> s[i]]
IsPairs(s) == s = [i \in DOMAIN s |-> <<s[i][1], s[i][2]>>]
IsMap(f) == f = [k \in DOMAIN f |-> f[k]] /\ IsFiniteSet(DOMAIN f)

IsConfig(c) ==
    /\ c = [input |-> c.input, auto_args |-> c.auto_args, force_recurse |-> c.force_recurse,
            gc_roots_dir |-> c.gc_roots_dir, workers |-> c.workers,
            max_memory_size |-> c.max_memory_size, item_timeout_seconds |-> c.item_timeout_seconds,
            meta |-> c.meta, show_input_drvs |-> c.show_input_drvs,
            override_inputs |-> c.override_inputs, nix_options |-> c.nix_options,
            remotes |-> c.remotes]
    /\ c.input = [kind |-> c.input.kind, value |-> c.input.value]
    /\ c.input.kind # "file" => utf8(c.input.value)
    /\ c.auto_args = [i \in DOMAIN c.auto_args |->
                        <<c.auto_args[i][1], c.auto_args[i][2], c.auto_args[i][3]>>]
    /\ c.gc_roots_dir # Null
    /\ {c.force_recurse, c.meta, c.show_input_drvs} \subseteq BOOLEAN
    /\ IsPairs(c.override_inputs) /\ IsPairs(c.nix_options)
    /\ c.nix_options \in Seq(Range(c.nix_options))
    /\ c.remotes = [i \in DOMAIN c.remotes |->
                      [endpoint |-> c.remotes[i].endpoint, systems |-> c.remotes[i].systems,
                       workers |-> c.remotes[i].workers, token |-> c.remotes[i].token]]

IsDerivation(d) ==
    /\ d = [kind |-> "derivation", attr |-> d.attr, attr_path |-> d.attr_path, name |-> d.name,
            system |-> d.system, drv_path |-> d.drv_path, outputs |-> d.outputs, meta |-> d.meta,
            input_drvs |-> d.input_drvs, constituents |-> d.constituents,
            gc_root_error |-> d.gc_root_error]
    /\ IsList(d.attr_path) /\ IsMap(d.outputs) /\ IsMap(d.input_drvs)
    /\ Null \notin {d.outputs[n] : n \in DOMAIN d.outputs}
    /\ d.constituents # None => IsList(d.constituents)
    /\ d.constituents # Null /\ d.gc_root_error # Null
    /\ None # to_string(d.meta)

IsEvent(e) ==
    CASE e.kind = "derivation" -> IsDerivation(e)
      [] e.kind = "attr_set" ->
           /\ e = [kind |-> "attr_set", attr |-> e.attr, attr_path |-> e.attr_path, attrs |-> e.attrs]
           /\ IsList(e.attr_path) /\ IsList(e.attrs)
      [] e.kind = "error" ->
           /\ e = [kind |-> "error", attr |-> e.attr, attr_path |-> e.attr_path, error |-> e.error,
                   fatal |-> e.fatal]
           /\ IsList(e.attr_path) /\ e.fatal \in BOOLEAN
      [] OTHER -> FALSE

(* What is assumed of the constants; DataPath assumes it. *)
WireFormatAssumption ==
    /\ DaemonVersion \in Nat /\ WorkerVersion \in Nat /\ Versions \subseteq Nat
    /\ Rounds \in Nat \ {0} /\ DefaultTimeout \in Nat \ {0}
    /\ RemoteLimit \in Nat /\ LocalLimit \in Nat /\ RemoteLimit <= LocalLimit
    /\ None # Null
    /\ \A c \in Configs : IsConfig(c)
    /\ \A c \in Configs : Words[c] \in Nat
    /\ \A e \in Answers : IsEvent(e) /\ e # None /\ Words[e] \in Nat
    /\ \A env \in Environments : env.previous # None => env.previous \in Seq(Range(env.previous))

VARIABLES
    at,         \* where the request or its answer is
    carried,    \* its present form
    hops,       \* the Cap'n Proto connections still ahead of it
    route,      \* those between the master and the worker
    asked,      \* the configuration the user wrote, or None
    client,     \* how the user asks, and the versions of client and master
    answer,     \* what the evaluator found, or None
    settings,   \* the configuration files of the worker's Nix, and those of its environment
    sessions,   \* the daemon's sessions, by key: the configurations
    used,       \* the configuration of the session that serves this request
    round

vars == <<at, carried, hops, route, asked, client, answer, settings, sessions, used, round>>

(* An object with the fields of all, without those of omitted. *)
Object(all, omitted) == Restrict(all, DOMAIN all \ omitted)

---------------------------------------------------------------------------
(* The configuration in JSON.                                               *)

(* The input and the arguments are tagged. *)
input_serialize(i) ==
    IF i.kind = "file" THEN [type |-> i.kind, path |-> i.value]
    ELSE [type |-> i.kind, value |-> i.value]

input_deserialize(j) ==
    [kind |-> j.type, value |-> IF j.type = "file" THEN j.path ELSE j.value]

auto_args_serialize(args) ==
    [i \in DOMAIN args |-> [name |-> args[i][1], kind |-> args[i][2], value |-> args[i][3]]]

auto_args_deserialize(json) ==
    [i \in DOMAIN json |-> <<json[i].name, json[i].kind, json[i].value>>]

Nullable(v) == IF v = None THEN Null ELSE v
Optional(j) == IF j = Null THEN None ELSE j

remote_serialize(r) == Object(r, IF r.token = None THEN {"token"} ELSE {})

remote_deserialize(j) ==
    [endpoint |-> j["endpoint"], systems |-> j["systems"], workers |-> j["workers"],
     token |-> IF "token" \in DOMAIN j THEN j["token"] ELSE None]

(* Config as it is written: every field. *)
config_serialize(c) ==
    [input |-> input_serialize(c.input), autoArgs |-> auto_args_serialize(c.auto_args),
     forceRecurse |-> c.force_recurse, gcRootsDir |-> Nullable(c.gc_roots_dir),
     workers |-> c.workers, maxMemorySize |-> c.max_memory_size,
     itemTimeoutSeconds |-> c.item_timeout_seconds, meta |-> c.meta,
     showInputDrvs |-> c.show_input_drvs, overrideInputs |-> c.override_inputs,
     nixOptions |-> c.nix_options,
     remotes |-> [i \in DOMAIN c.remotes |-> remote_serialize(c.remotes[i])]]

(* The fields a request may leave out. *)
Defaulted == {"forceRecurse", "gcRootsDir", "itemTimeoutSeconds", "meta", "showInputDrvs",
              "overrideInputs", "nixOptions", "remotes"}

default_item_timeout_seconds == DefaultTimeout

(* Config as it is read. *)
config_deserialize(j) ==
    LET has(k) == k \in DOMAIN j
        flag(k) == has(k) /\ j[k]
        list(k) == IF has(k) THEN j[k] ELSE <<>>
    IN [input |-> input_deserialize(j["input"]), auto_args |-> auto_args_deserialize(j["autoArgs"]),
        force_recurse |-> flag("forceRecurse"),
        gc_roots_dir |-> IF has("gcRootsDir") THEN Optional(j["gcRootsDir"]) ELSE None,
        workers |-> j["workers"], max_memory_size |-> j["maxMemorySize"],
        item_timeout_seconds |->
            IF has("itemTimeoutSeconds") THEN j["itemTimeoutSeconds"]
            ELSE default_item_timeout_seconds,
        meta |-> flag("meta"), show_input_drvs |-> flag("showInputDrvs"),
        override_inputs |-> list("overrideInputs"), nix_options |-> list("nixOptions"),
        remotes |-> [i \in DOMAIN list("remotes") |-> remote_deserialize(list("remotes")[i])]]

(* From<&Config> for evix_protocol::Config, and back. *)
to_wire(c) == [field \in Fields |-> c[field]]
from_wire(c) == [field \in Fields |-> c[field]]

validate_protocol(version) == version = DaemonVersion

session_key_Fault(c) == Object(config_serialize(c), {"showInputDrvs"})

(* The key of a session is the text of the whole configuration. *)
session_key(c) == config_serialize(c)

---------------------------------------------------------------------------
(* The configuration in Cap'n Proto.                                        *)

set_text_opt(v) == IF v = None THEN [which |-> "none"] ELSE [which |-> "some", some |-> v]
read_text_opt(r) == IF r.which = "none" THEN None ELSE r.some
set_text_list(values) == [i \in DOMAIN values |-> values[i]]

set_pairs(pairs) == [i \in DOMAIN pairs |-> [key |-> pairs[i][1], value |-> pairs[i][2]]]
read_pairs(list) == [i \in DOMAIN list |-> <<list[i].key, list[i].value>>]

(* WorkerConfig from Config, with the lock file of a flake.  A file is
   absolute already; FlakeInputs has the paths. *)
worker_config(c) ==
    [input |-> c.input, auto_args |-> c.auto_args, force_recurse |-> c.force_recurse,
     gc_roots_dir |-> c.gc_roots_dir, max_memory_size |-> c.max_memory_size,
     item_timeout_seconds |-> c.item_timeout_seconds, meta |-> c.meta,
     show_input_drvs |-> c.show_input_drvs, override_inputs |-> c.override_inputs,
     nix_options |-> c.nix_options,
     locked_flake_json |-> IF c.input.kind = "flake" THEN <<"lock", c.input.value>> ELSE None]

set_input(i) == [which |-> i.kind, text |-> i.value]

set_auto_args(args) ==
    [i \in DOMAIN args |-> [name |-> args[i][1], which |-> args[i][2], text |-> args[i][3]]]

set_worker_config(w) ==
    [input |-> set_input(w.input), autoArgs |-> set_auto_args(w.auto_args),
     forceRecurse |-> w.force_recurse, gcRootsDir |-> set_text_opt(w.gc_roots_dir),
     maxMemorySize |-> w.max_memory_size, itemTimeoutSeconds |-> w.item_timeout_seconds,
     meta |-> w.meta, showInputDrvs |-> w.show_input_drvs,
     overrideInputs |-> set_pairs(w.override_inputs), nixOptions |-> set_pairs(w.nix_options),
     lockedFlakeJson |-> set_text_opt(w.locked_flake_json)]

read_item_timeout_seconds(n) == IF n = 0 THEN DefaultTimeout ELSE n

read_input(r) == [kind |-> r.which, value |-> r.text]
read_auto_args(list) == [i \in DOMAIN list |-> <<list[i].name, list[i].which, list[i].text>>]

read_worker_config(r) ==
    [input |-> read_input(r.input), auto_args |-> read_auto_args(r.autoArgs),
     force_recurse |-> r.forceRecurse, gc_roots_dir |-> read_text_opt(r.gcRootsDir),
     max_memory_size |-> r.maxMemorySize,
     item_timeout_seconds |-> read_item_timeout_seconds(r.itemTimeoutSeconds), meta |-> r.meta,
     show_input_drvs |-> r.showInputDrvs, override_inputs |-> read_pairs(r.overrideInputs),
     nix_options |-> read_pairs(r.nixOptions), locked_flake_json |-> read_text_opt(r.lockedFlakeJson)]

(* Setup carries the version of the master. *)
write_setup(w, version) == [config |-> set_worker_config(w), protocolVersion |-> version]
validate_worker_protocol(r) == r.protocolVersion = WorkerVersion

---------------------------------------------------------------------------
(* Events in Cap'n Proto.  A map becomes a list.                            *)

map_opt(v) == IF v = None THEN None ELSE to_string(v)

set_text_list_opt(v) ==
    IF v = None THEN [which |-> "none"] ELSE [which |-> "some", some |-> set_text_list(v)]

set_outputs(outputs) ==
    LET names == SetToSeq(DOMAIN outputs)
    IN [i \in DOMAIN names |->
          IF outputs[names[i]] = None THEN [name |-> names[i], which |-> "absent"]
          ELSE [name |-> names[i], which |-> "path", path |-> outputs[names[i]]]]

(* The last entry of a name wins. *)
read_outputs(list) ==
    [n \in {list[i].name : i \in DOMAIN list} |->
       LET last == list[CHOOSE i \in DOMAIN list :
                          list[i].name = n /\ \A j \in (i + 1)..Len(list) : list[j].name # n]
       IN IF last.which = "absent" THEN None ELSE last.path]

set_input_drvs(drvs) ==
    LET paths == SetToSeq(DOMAIN drvs)
    IN [i \in DOMAIN paths |-> [drvPath |-> paths[i], valueJson |-> to_string(drvs[paths[i]])]]

read_input_drvs(list) ==
    [p \in {list[i].drvPath : i \in DOMAIN list} |->
       from_str(list[CHOOSE i \in DOMAIN list : list[i].drvPath = p].valueJson)]

set_derivation(d) ==
    [attr |-> d.attr, attrPath |-> set_text_list(d.attr_path), name |-> d.name,
     system |-> d.system, drvPath |-> d.drv_path, outputs |-> set_outputs(d.outputs),
     metaJson |-> set_text_opt(map_opt(d.meta)), inputDrvs |-> set_input_drvs(d.input_drvs),
     constituents |-> set_text_list_opt(d.constituents),
     gcRootError |-> set_text_opt(d.gc_root_error)]

read_derivation(r) ==
    LET meta == read_text_opt(r.metaJson)
    IN [kind |-> "derivation", attr |-> r.attr, attr_path |-> set_text_list(r.attrPath),
        name |-> r.name, system |-> r.system, drv_path |-> r.drvPath,
        outputs |-> read_outputs(r.outputs), meta |-> IF meta = None THEN None ELSE from_str(meta),
        input_drvs |-> read_input_drvs(r.inputDrvs), constituents |-> read_text_opt(r.constituents),
        gc_root_error |-> read_text_opt(r.gcRootError)]

set_eval_error(e) ==
    [attr |-> e.attr, attrPath |-> set_text_list(e.attr_path), error |-> e.error, fatal |-> e.fatal]

read_eval_error(r) ==
    [kind |-> "error", attr |-> r.attr, attr_path |-> set_text_list(r.attrPath), error |-> r.error,
     fatal |-> r.fatal]

set_event(e) ==
    CASE e.kind = "derivation" -> [which |-> "derivation", body |-> set_derivation(e)]
      [] e.kind = "attr_set" ->
           [which |-> "attrSet",
            body |-> [attr |-> e.attr, attrPath |-> set_text_list(e.attr_path),
                      attrs |-> set_text_list(e.attrs)]]
      [] e.kind = "error" -> [which |-> "error", body |-> set_eval_error(e)]

read_event(r) ==
    CASE r.which = "derivation" -> read_derivation(r.body)
      [] r.which = "attrSet" ->
           [kind |-> "attr_set", attr |-> r.body.attr, attr_path |-> set_text_list(r.body.attrPath),
            attrs |-> set_text_list(r.body.attrs)]
      [] r.which = "error" -> read_eval_error(r.body)

(* A message larger than the limit of the reader is an error. *)
Readable(what, hop) == Words[what] <= (IF hop = "remote" THEN RemoteLimit ELSE LocalLimit)

---------------------------------------------------------------------------
(* Events in JSON: the enum of a response, and the flat line of the output. *)

(* Derivation and EvalError as serde derives them. *)
derivation_serialize(d) ==
    Object([attr |-> d.attr, attr_path |-> d.attr_path, name |-> d.name, system |-> d.system,
            drv_path |-> d.drv_path, outputs |-> [n \in DOMAIN d.outputs |-> Nullable(d.outputs[n])],
            meta |-> d.meta, input_drvs |-> d.input_drvs, constituents |-> d.constituents,
            gc_root_error |-> d.gc_root_error],
           {k \in {"meta", "constituents", "gc_root_error"} : d[k] = None}
             \union (IF DOMAIN d.input_drvs = {} THEN {"input_drvs"} ELSE {}))

(* A null where an option is expected is no value. *)
derivation_deserialize(j) ==
    LET opt(k) == IF k \in DOMAIN j THEN Optional(j[k]) ELSE None
    IN [kind |-> "derivation", attr |-> j["attr"], attr_path |-> j["attr_path"], name |-> j["name"],
        system |-> j["system"], drv_path |-> j["drv_path"],
        outputs |-> [n \in DOMAIN j["outputs"] |-> Optional(j["outputs"][n])],
        meta |-> opt("meta"),
        input_drvs |-> IF "input_drvs" \in DOMAIN j THEN j["input_drvs"] ELSE <<>>,
        constituents |-> opt("constituents"), gc_root_error |-> opt("gc_root_error")]

event_serialize(e) ==
    IF e.kind = "derivation" THEN [tag |-> e.kind, body |-> derivation_serialize(e)]
    ELSE [tag |-> e.kind, body |-> Object(e, {"kind"})]

event_deserialize(j) ==
    CASE j.tag = "derivation" -> derivation_deserialize(j.body)
      [] j.tag = "attr_set" -> [kind |-> "attr_set", attr |-> j.body["attr"],
                                attr_path |-> j.body["attr_path"], attrs |-> j.body["attrs"]]
      [] j.tag = "error" -> [kind |-> "error", attr |-> j.body["attr"],
                             attr_path |-> j.body["attr_path"], error |-> j.body["error"],
                             fatal |-> j.body["fatal"]]

derivation_value(d) ==
    Object([attr |-> d.attr, attrPath |-> d.attr_path, name |-> d.name, system |-> d.system,
            drvPath |-> d.drv_path, outputs |-> [n \in DOMAIN d.outputs |-> Nullable(d.outputs[n])],
            meta |-> d.meta, inputDrvs |-> d.input_drvs, constituents |-> d.constituents,
            gcRootError |-> d.gc_root_error],
           {k \in {"meta", "constituents"} : d[k] = None}
             \union (IF d.gc_root_error = None THEN {"gcRootError"} ELSE {})
             \union (IF DOMAIN d.input_drvs = {} THEN {"inputDrvs"} ELSE {}))

event_value(e) ==
    CASE e.kind = "derivation" -> derivation_value(e)
      [] e.kind = "attr_set" -> [attr |-> e.attr, attrPath |-> e.attr_path, attrs |-> e.attrs]
      [] e.kind = "error" -> [attr |-> e.attr, attrPath |-> e.attr_path, error |-> e.error,
                              fatal |-> e.fatal]

parse_derivation(v) ==
    LET field(k) == IF k \in DOMAIN v THEN v[k] ELSE None
    IN [kind |-> "derivation", attr |-> v["attr"], attr_path |-> v["attrPath"], name |-> v["name"],
        system |-> v["system"], drv_path |-> v["drvPath"],
        outputs |-> [n \in DOMAIN v["outputs"] |-> Optional(v["outputs"][n])],
        meta |-> field("meta"),
        input_drvs |-> IF "inputDrvs" \in DOMAIN v THEN v["inputDrvs"] ELSE <<>>,
        constituents |-> field("constituents"), gc_root_error |-> field("gcRootError")]

(* What an object is shows from the keys it has. *)
parse_event_value(v) ==
    IF "drvPath" \in DOMAIN v THEN parse_derivation(v)
    ELSE IF "error" \in DOMAIN v
    THEN [kind |-> "error", attr |-> v["attr"], attr_path |-> v["attrPath"], error |-> v["error"],
          fatal |-> "fatal" \in DOMAIN v /\ v["fatal"]]
    ELSE [kind |-> "attr_set", attr |-> v["attr"], attr_path |-> v["attrPath"],
          attrs |-> IF "attrs" \in DOMAIN v THEN v["attrs"] ELSE <<>>]

(* A diff has the derivations as lines have them, but the errors as serde does. *)
DiffOf(e) ==
    [added |-> IF e.kind = "derivation" THEN <<e>> ELSE <<>>, removed |-> <<>>,
     errors |-> IF e.kind = "error" THEN <<e>> ELSE <<>>]

diff_value(d) ==
    [added |-> [i \in DOMAIN d.added |-> derivation_value(d.added[i])],
     removed |-> [i \in DOMAIN d.removed |-> derivation_value(d.removed[i])],
     errors |-> [i \in DOMAIN d.errors |-> Object(d.errors[i], {"kind"})]]

(* Response, and what the client reads from it. *)
response_serialize(command, e) ==
    IF command = "eval" THEN [type |-> "event", event |-> event_serialize(e)]
    ELSE [type |-> "diff",
          added |-> [i \in DOMAIN DiffOf(e).added |-> derivation_serialize(DiffOf(e).added[i])],
          removed |-> <<>>, errors |-> DiffOf(e).errors]

response_line(r) ==
    IF r.type = "event" THEN event_value(event_deserialize(r.event))
    ELSE diff_value([added |-> [i \in DOMAIN r.added |-> derivation_deserialize(r.added[i])],
                     removed |-> r.removed, errors |-> r.errors])

---------------------------------------------------------------------------
(* The Nix options file of a worker process.                                *)

validate_nix_option_part(options) ==
    \A i \in DOMAIN options : options[i][1] \notin Forbidden /\ options[i][2] \notin Forbidden

(* The lines that are written, as Nix reads them. *)
NixKey(text) == IF text \in DOMAIN KeyAs THEN KeyAs[text] ELSE text
NixValue(text) == IF text \in DOMAIN ValueAs THEN ValueAs[text] ELSE text
options_file(options) == [i \in DOMAIN options |-> <<NixKey(options[i][1]), NixValue(options[i][2])>>]

NixRefuses(options) == \E i \in DOMAIN options : NixKey(options[i][1]) = None

default_nix_user_conf_file(env) == IF env.default = None THEN <<>> ELSE <<env.default>>

(* The generated file comes before the user's. *)
nix_user_conf_files(generated, env) ==
    <<generated>> \o (IF env.previous \notin {None, <<>>} THEN env.previous
                      ELSE default_nix_user_conf_file(env))

(* The files Nix finds by itself. *)
NixFinds(env) == IF env.previous = None THEN default_nix_user_conf_file(env) ELSE env.previous

prepare_nix_options_env(options, env) ==
    IF options = <<>> THEN NixFinds(env) ELSE nix_user_conf_files(options_file(options), env)

(* The value of a setting: the last line of the first file that has it. *)
Sets(file, key) == \E i \in DOMAIN file : file[i][1] = key
IsLast(i, file, key) == i \in DOMAIN file /\ file[i][1] = key /\ \A j \in (i + 1)..Len(file) : file[j][1] # key
InFile(file, key) == file[CHOOSE i \in DOMAIN file : IsLast(i, file, key)][2]
IsFirst(f, files, key) == f \in DOMAIN files /\ Sets(files[f], key) /\ \A g \in 1..(f - 1) : ~Sets(files[g], key)
Effective(files, key) == InFile(files[CHOOSE f \in DOMAIN files : IsFirst(f, files, key)], key)

---------------------------------------------------------------------------
(* The journey.                                                             *)

Init ==
    /\ at = "idle" /\ carried = None /\ hops = <<>> /\ route = <<>>
    /\ asked = None /\ client = None /\ answer = None /\ settings = None
    /\ sessions = <<>> /\ used = None /\ round = 0

Go(where, what) == at' = where /\ carried' = what
Fail == Go("failed", None)

(* The fields that have the value Config::default gives them. *)
Omittable(c) ==
    LET j == config_serialize(c)
        default == [forceRecurse |-> FALSE, gcRootsDir |-> Null, itemTimeoutSeconds |-> DefaultTimeout,
                    meta |-> FALSE, showInputDrvs |-> FALSE, overrideInputs |-> <<>>,
                    nixOptions |-> <<>>, remotes |-> <<>>]
    IN {k \in Defaulted : j[k] = default[k]}

(* A path that is not UTF-8 cannot be written. *)
Ask(c, command, daemon, version, lazy) ==
    /\ at = "idle" /\ round < Rounds
    /\ command = "diff" => daemon
    /\ ~daemon => ~lazy /\ version = DaemonVersion
    /\ asked' = c /\ round' = round + 1
    /\ client' = [command |-> command, daemon |-> daemon, version |-> version, master |-> WorkerVersion]
    /\ IF ~daemon THEN used' = c /\ Go("master", None)
       ELSE /\ used' = None
            /\ IF utf8(c.gc_roots_dir) /\ utf8(c.input.value)
               THEN Go("request", [protocolVersion |-> version,
                                   config |-> Object(config_serialize(to_wire(c)), IF lazy THEN Omittable(c) ELSE {})])
               ELSE Fail
    /\ UNCHANGED <<hops, route, answer, settings, sessions>>

(* The daemon: eval opens a session, diff needs one. *)
ReadRequest ==
    /\ at = "request"
    /\ LET c == from_wire(config_deserialize(carried.config))
           key == session_key(c)
       IN IF ~validate_protocol(carried.protocolVersion)
          THEN Fail /\ UNCHANGED <<used, sessions>>
          ELSE IF client.command = "eval"
          THEN /\ used' = c /\ Go("master", None)
               /\ sessions' = [k \in DOMAIN sessions \union {key} |-> IF k = key THEN c ELSE sessions[k]]
          ELSE /\ UNCHANGED sessions
               /\ IF key \in DOMAIN sessions THEN used' = sessions[key] /\ Go("master", None)
                  ELSE used' = None /\ Fail
    /\ UNCHANGED <<hops, route, asked, client, answer, settings, round>>

validate_config(c) ==
    /\ c.item_timeout_seconds # 0
    /\ c.input.kind = "file" => utf8(c.input.value)
    /\ utf8(c.gc_roots_dir)
    /\ \A i \in DOMAIN c.remotes : c.remotes[i].workers # 0

(* The pool has local workers unless there are none and there is a remote. *)
StartWorker(remote, version) ==
    /\ at = "master"
    /\ IF remote THEN used.remotes # <<>>
       ELSE version = WorkerVersion /\ (used.workers # 0 \/ used.remotes = <<>>)
    /\ IF validate_config(used)
       THEN /\ route' = IF remote THEN <<"remote", "local">> ELSE <<"local">>
            /\ hops' = route'
            /\ Go(IF remote THEN "setup" ELSE "spawn", write_setup(worker_config(used), version))
       ELSE Fail /\ UNCHANGED <<route, hops>>
    /\ client' = [client EXCEPT !.master = version]
    /\ UNCHANGED <<asked, answer, settings, sessions, used, round>>

validate_remote_config(w) == \A i \in DOMAIN w.nix_options : w.nix_options[i][1] \in RemoteOptions

(* The remote server starts its evaluator with what it was sent. *)
ServerSetup ==
    /\ at = "setup" /\ Head(hops) = "remote"
    /\ IF /\ Readable(used, "remote") /\ validate_worker_protocol(carried)
          /\ validate_remote_config(read_worker_config(carried.config))
       THEN hops' = Tail(hops) /\ Go("spawn", write_setup(read_worker_config(carried.config), WorkerVersion))
       ELSE Fail /\ UNCHANGED hops
    /\ UNCHANGED <<route, asked, client, answer, settings, sessions, used, round>>

(* The options are in a file before the worker process starts. *)
Spawn(env) ==
    /\ at = "spawn"
    /\ LET options == read_worker_config(carried.config).nix_options
       IN IF validate_nix_option_part(options)
          THEN /\ settings' = [before |-> NixFinds(env), files |-> prepare_nix_options_env(options, env)]
               /\ Go("setup", carried)
          ELSE Fail /\ UNCHANGED settings
    /\ UNCHANGED <<hops, route, asked, client, answer, sessions, used, round>>

(* The worker reads its configuration, then opens Nix, which reads the files. *)
WorkerSetup ==
    /\ at = "setup" /\ hops = <<"local">>
    /\ IF /\ Readable(used, "local") /\ validate_worker_protocol(carried)
          /\ ~NixRefuses(read_worker_config(carried.config).nix_options)
       THEN Go("worker", read_worker_config(carried.config))
       ELSE Fail
    /\ UNCHANGED <<hops, route, asked, client, answer, settings, sessions, used, round>>

(* An event has what the options ask for. *)
Evaluate(e) ==
    /\ at = "worker"
    /\ e.kind = "derivation" =>
         /\ e.meta # None => carried.meta
         /\ DOMAIN e.input_drvs # {} => carried.show_input_drvs
         /\ e.gc_root_error # None => carried.gc_roots_dir # None
    /\ answer' = e /\ hops' = Reverse(route) /\ Go("event", set_event(e))
    /\ UNCHANGED <<route, asked, client, settings, sessions, used, round>>

ReadEvent ==
    /\ at = "event" /\ hops # <<>>
    /\ IF ~Readable(answer, Head(hops)) THEN Fail
       ELSE IF Len(hops) > 1 THEN Go("event", set_event(read_event(carried)))
       ELSE Go("found", read_event(carried))
    /\ hops' = Tail(hops)
    /\ UNCHANGED <<route, asked, client, answer, settings, sessions, used, round>>

(* The daemon answers the client, which prints; a local evaluation prints. *)
Respond ==
    /\ at = "found"
    /\ IF client.daemon THEN Go("response", response_serialize(client.command, carried))
       ELSE Go("line", event_value(carried))
    /\ UNCHANGED <<hops, route, asked, client, answer, settings, sessions, used, round>>

PrintLine ==
    /\ at = "response"
    /\ Go("line", response_line(carried))
    /\ UNCHANGED <<hops, route, asked, client, answer, settings, sessions, used, round>>

Again ==
    /\ at \in {"line", "failed"}
    /\ Go("idle", None) /\ hops' = <<>> /\ route' = <<>> /\ asked' = None /\ client' = None
    /\ answer' = None /\ settings' = None /\ used' = None
    /\ UNCHANGED <<sessions, round>>

Next ==
    \/ \E c \in Configs, command \in {"eval", "diff"}, daemon, lazy \in BOOLEAN, version \in Versions :
         Ask(c, command, daemon, version, lazy)
    \/ ReadRequest
    \/ \E remote \in BOOLEAN, version \in Versions : StartWorker(remote, version)
    \/ \E env \in Environments : Spawn(env)
    \/ ServerSetup \/ WorkerSetup
    \/ \E e \in Answers : Evaluate(e)
    \/ ReadEvent \/ Respond \/ PrintLine \/ Again

Spec == Init /\ [][Next]_vars

---------------------------------------------------------------------------
(* Properties.                                                              *)

(* A session is never used for a request with another configuration, also
   when the client left fields out: session_key keeps apart whatever an
   evaluation depends on, and serde fills in what the client meant. *)
SessionMatches == used # None => used = asked

(* A worker evaluates what the user asked for, however many processes the
   configuration went through: no field is lost or changed by From, by
   set_worker_config and read_worker_config, or by a relay. *)
WorkerSeesConfig ==
    at = "worker" => \A field \in DOMAIN carried \ {"locked_flake_json"} : carried[field] = asked[field]

(* The last option the user gave for a setting is in force in the worker's
   Nix, whatever the environment says, and a setting the user gave no option
   for has the value it has in that environment.  Options whose text Nix does
   not take as it stands, which validate_nix_option_part lets through, are
   the exception: Nix cuts them. *)
SettingsInForce ==
    at = "worker" =>
       LET options == asked.nix_options
           lines == options_file(options)
       IN /\ \A i \in DOMAIN options :
               IsLast(i, lines, options[i][1]) /\ options[i][2] \notin DOMAIN ValueAs =>
                  Effective(settings.files, options[i][1]) = options[i][2]
          /\ \A f \in DOMAIN settings.before : \A i \in DOMAIN settings.before[f] :
               LET key == settings.before[f][i][1]
               IN ~Sets(lines, key) => Effective(settings.files, key) = Effective(settings.before, key)

(* The line that is printed says what the evaluator found: an event line
   read back by parse_event_value is that event, and a diff has it whole.
   A meta of null, which a response loses, is left out. *)
LineSurvives ==
    at = "line" =>
       LET lossless == answer.kind = "derivation" /\ client.daemon => answer.meta # Null
       IN lossless =>
            IF client.command = "eval" THEN parse_event_value(carried) = answer
            ELSE carried = diff_value(DiffOf(answer))

(* An eval of this configuration opened a session. *)
Evaluated(c) == \E key \in DOMAIN sessions : sessions[key] = c

(* Nothing is refused without a reason, and nothing that has one gets
   through: another protocol version, a path that is no text, a timeout of
   zero, a remote without workers, an option that a remote, evix or Nix does
   not take, a diff of a configuration that was never evaluated, or a message,
   the set-up or an event, above the limit of its reader. *)
RefusedForCause ==
    LET NotText == ~utf8(asked.gc_roots_dir) \/ ~utf8(asked.input.value)
        BadOption == ~validate_nix_option_part(asked.nix_options) \/ NixRefuses(asked.nix_options)
        NoWorkers == \E i \in DOMAIN asked.remotes : asked.remotes[i].workers = 0
        NotRemote == \E i \in DOMAIN asked.nix_options : asked.nix_options[i][1] \notin RemoteOptions
        Limit == IF Len(route) = 2 THEN RemoteLimit ELSE LocalLimit
        TooLarge == Words[asked] > Limit \/ (answer # None /\ Words[answer] > Limit)
        Stranger == client.version # DaemonVersion \/ client.master # WorkerVersion
        NoSession == client.command = "diff" /\ ~Evaluated(asked)
    IN /\ at = "failed" =>
            \/ NotText \/ NoWorkers \/ BadOption \/ NoSession \/ asked.item_timeout_seconds = 0
            \/ Stranger \/ (route # <<>> /\ TooLarge) \/ (Len(route) = 2 /\ NotRemote)
       /\ at = "line" =>
            /\ ~NotText /\ ~NoWorkers /\ ~BadOption /\ ~TooLarge /\ asked.item_timeout_seconds # 0
            /\ ~Stranger /\ ~NoSession
            /\ Len(route) = 2 => ~NotRemote
=============================================================================
