---------------------------- MODULE CommandLine ----------------------------
(***************************************************************************)
(* From the words of a command line to what will be done:                  *)
(* crates/evix-cli/src/args.rs.                                            *)
(*                                                                         *)
(* The user means a sequence of options, each a flag with its values, and  *)
(* writes each of them with spaces or with "=".  normalize_args packs the  *)
(* options that have several values into one word for the parser, which is *)
(* the library pound and external here.                                    *)
(*                                                                         *)
(* A word is its text and, after its first "=", the rest or None; so a     *)
(* value may look like a flag.                                             *)
(***************************************************************************)
EXTENDS Integers, Sequences, FiniteSets, SequencesExt

CONSTANTS
    None, Refused,
    Intents,          \* sequences of <<flag, values>>, the values being words
    Commands,         \* the commands that are tried
    Tokens,           \* values of EVIX_REMOTE_TOKEN, None if it is not set
    WithSeparator,    \* words that contain PACK_SEP
    Number,           \* the numbers that words stand for
    Systems,          \* the list of systems a word stands for
    DefaultTimeout    \* DEFAULT_ITEM_TIMEOUT_SECONDS

VARIABLES
    at,        \* where the command line is
    command,
    env,       \* EVIX_REMOTE_TOKEN
    meant,     \* what the user means
    words,     \* the command line, packed, and then parsed into options
    plan       \* the CommandPlan

argVars == <<at, command, env, meant, words, plan>>

Word(text) == [text |-> text, eq |-> None]
Empty == Word("")
DEFAULT_WORKERS == 1
DEFAULT_MAX_MEMORY_MB == 4096

---------------------------------------------------------------------------
(* The flags.                                                               *)

(* The number of values of the flags that have several. *)
packed_arity(flag) ==
    CASE flag \in {"--arg", "--argstr", "--override-input", "--option"} -> 2
      [] flag = "--remote" -> 3
      [] OTHER -> 0

(* Those of every command that evaluates. *)
OneValue == {"--flake", "--expr", "--file", "--remote-token", "--workers", "--max-memory",
             "--item-timeout-seconds", "--gc-roots-dir", "--socket"}
NoValue == {"--insecure-tokenless-remote", "--meta", "--show-input-drvs", "--force-recurse"}

Takes(c) ==
    CASE c = "eval" -> [one |-> OneValue, none |-> NoValue \union {"--no-daemon", "--replay"}]
      [] c = "watch" -> [one |-> OneValue, none |-> NoValue \union {"--no-daemon"}]
      [] c = "query" -> [one |-> OneValue \union {"--system", "--attr-prefix"},
                         none |-> NoValue \union {"--no-daemon"}]
      [] c = "diff" -> [one |-> OneValue, none |-> NoValue]

ServerTakes(c) ==
    IF c = "daemon" THEN [one |-> {"--socket"}, none |-> {"--foreground"}]
    ELSE [one |-> {"--listen", "--token"}, none |-> {"--insecure-tokenless-remote"}]

FlagsOf(c) == IF c \in {"daemon", "worker"} THEN ServerTakes(c) ELSE Takes(c)

---------------------------------------------------------------------------
(* What a user may mean.  An option has as many values as its flag takes, and
   a value that is not packed does not look like a flag that is: it would be
   packed.  An option that is no list of the parser's is given once. *)

Repeats(flag) == packed_arity(flag) # 0 \/ flag \in {"--system", "--attr-prefix"}

Arity(flag) ==
    IF packed_arity(flag) # 0 THEN packed_arity(flag)
    ELSE IF \E c \in Commands : flag \in FlagsOf(c).one THEN 1 ELSE 0

IsWord(w) ==
    w = [text |-> w.text, eq |-> w.eq] /\ w.text \notin {None, Refused} /\ w \notin {None, Refused}

IsOption(o) ==
    /\ o = <<o[1], o[2]>> /\ o[2] = [i \in 1..Arity(o[1]) |-> o[2][i]]
    /\ \A i \in 1..Arity(o[1]) :
         IsWord(o[2][i]) /\ (packed_arity(o[1]) = 0 => packed_arity(o[2][i].text) = 0)
    /\ o # Refused /\ o[2] # None /\ Word(o[1]) # Refused
    /\ [text |-> o[1], packed |-> o[2]] # Refused
    /\ Arity(o[1]) # 0 => [text |-> o[1], eq |-> o[2][1].text] # Refused

IsIntent(intent) ==
    /\ Len(intent) \in Nat /\ intent = [i \in 1..Len(intent) |-> intent[i]]
    /\ \A i \in 1..Len(intent) : IsOption(intent[i])
    /\ \A i, j \in 1..Len(intent) :
         ~Repeats(intent[i][1]) /\ intent[i][1] = intent[j][1] => i = j

ASSUME CommandLineAssumption ==
    /\ Commands \subseteq {"eval", "watch", "query", "diff", "daemon", "worker"}
    /\ DefaultTimeout \in Nat \ {0} /\ Refused \notin Tokens
    /\ \A w \in DOMAIN Number : Number[w] \in Nat
    /\ \A intent \in Intents : IsIntent(intent)

---------------------------------------------------------------------------
(* Packing.  A flag with several values becomes one word with all of them.  *)

(* The values of the flag at i: those after "=" and the words that follow. *)
collect_packed_values_Fault(args, i) ==
    LET first == IF args[i].eq = None THEN <<>> ELSE <<Word(args[i].eq)>>
    IN SubSeq(args, i + 1, i + packed_arity(args[i].text) - Len(first)) \o first

collect_packed_values(args, i) ==
    LET first == IF args[i].eq = None THEN <<>> ELSE <<Word(args[i].eq)>>
    IN first \o SubSeq(args, i + 1, i + packed_arity(args[i].text) - Len(first))

pack(values) == IF \E i \in DOMAIN values : values[i] \in WithSeparator THEN None ELSE values

normalize_args(args) ==
    LET norm[i \in 1..(Len(args) + 1)] ==
          IF i = Len(args) + 1 THEN <<>>
          ELSE LET arity == packed_arity(args[i].text)
                   more == arity - (IF args[i].eq = None THEN 0 ELSE 1)
               IN IF arity = 0 THEN <<args[i]>> \o norm[i + 1]
                  ELSE IF i + more > Len(args) \/ pack(collect_packed_values(args, i)) = None
                  THEN <<Refused>>
                  ELSE <<[text |-> args[i].text, packed |-> pack(collect_packed_values(args, i))]>>
                         \o norm[i + more + 1]
    IN norm[1]

(* The parser: options of the command in order.  A value that follows its
   flag as a word of its own may not look like a flag. *)
try_parse_from(c, ws) ==
    LET parse[i \in 1..(Len(ws) + 2)] ==
          IF i > Len(ws) THEN <<>>
          ELSE IF ws[i] = Refused THEN <<Refused>>
          ELSE IF "packed" \in DOMAIN ws[i]
          THEN IF c \in {"daemon", "worker"} THEN <<Refused>>
               ELSE <<<<ws[i].text, ws[i].packed>>>> \o parse[i + 1]
          ELSE CASE ws[i].text \in FlagsOf(c).none /\ ws[i].eq = None ->
                      <<<<ws[i].text, <<>>>>>> \o parse[i + 1]
                 [] ws[i].text \in FlagsOf(c).one /\ ws[i].eq # None ->
                      <<<<ws[i].text, <<Word(ws[i].eq)>>>>>> \o parse[i + 1]
                 [] ws[i].text \in FlagsOf(c).one /\ ws[i].eq = None ->
                      IF i = Len(ws) THEN <<Refused>>
                      ELSE IF "packed" \in DOMAIN ws[i + 1] THEN <<Refused>>
                      ELSE <<<<ws[i].text, <<ws[i + 1]>>>>>> \o parse[i + 2]
                 [] OTHER -> <<Refused>>
    IN parse[1]

---------------------------------------------------------------------------
(* The configuration.  opts is what the parser found.                       *)

Of(opts, flag) ==
    LET found[i \in 0..Len(opts)] ==
          IF i = 0 THEN <<>>
          ELSE IF opts[i][1] = flag THEN Append(found[i - 1], opts[i]) ELSE found[i - 1]
    IN found[Len(opts)]
Given(opts, flag) == Of(opts, flag) # <<>>
Value(opts, flag) == Of(opts, flag)[1][2][1]
ValueOr(opts, flag, default) == IF Given(opts, flag) THEN Value(opts, flag) ELSE default
NumberOr(opts, flag, default) == IF Given(opts, flag) THEN Number[Value(opts, flag)] ELSE default

pairs(opts, flag) == [i \in DOMAIN Of(opts, flag) |-> Of(opts, flag)[i][2]]

(* The flag before the environment; an empty one is refused. *)
remote_token(flag, fromEnv) ==
    LET token == IF flag # None THEN flag ELSE fromEnv
    IN IF token = Empty THEN Refused ELSE token

(* Whether the three values of --remote are a remote. *)
from_arg(values) == values[3] \in DOMAIN Number /\ Number[values[3]] # 0

auto_args(opts) ==
    [i \in DOMAIN Of(opts, "--arg") |-> <<"expr", Of(opts, "--arg")[i][2]>>]
      \o [i \in DOMAIN Of(opts, "--argstr") |-> <<"str", Of(opts, "--argstr")[i][2]>>]

remotes(opts, token) ==
    [i \in DOMAIN Of(opts, "--remote") |->
       LET v == Of(opts, "--remote")[i][2]
       IN [endpoint |-> v[1], systems |-> Systems[v[2]], workers |-> Number[v[3]], token |-> token]]

Inputs(opts) == {flag \in {"--flake", "--expr", "--file"} : Given(opts, flag)}

(* Where config refuses. *)
config_fails(opts, fromEnv) ==
    LET token == remote_token(ValueOr(opts, "--remote-token", None), fromEnv)
    IN \/ \E flag \in {"--workers", "--item-timeout-seconds", "--max-memory"} :
            Given(opts, flag) /\ Value(opts, flag) \notin DOMAIN Number
       \/ Cardinality(Inputs(opts)) # 1
       \/ \E i \in DOMAIN Of(opts, "--remote") : ~from_arg(Of(opts, "--remote")[i][2])
       \/ token = Refused
       \/ Given(opts, "--remote") /\ token = None /\ ~Given(opts, "--insecure-tokenless-remote")
       \/ NumberOr(opts, "--item-timeout-seconds", DefaultTimeout) = 0

config(opts, fromEnv) ==
    LET flag == CHOOSE f \in Inputs(opts) : TRUE
    IN [input |-> <<flag, Value(opts, flag)>>, auto_args |-> auto_args(opts),
        override_inputs |-> pairs(opts, "--override-input"), nix_options |-> pairs(opts, "--option"),
        remotes |-> remotes(opts, remote_token(ValueOr(opts, "--remote-token", None), fromEnv)),
        meta |-> Given(opts, "--meta"), show_input_drvs |-> Given(opts, "--show-input-drvs"),
        force_recurse |-> Given(opts, "--force-recurse"),
        gc_roots_dir |-> ValueOr(opts, "--gc-roots-dir", None),
        workers |-> NumberOr(opts, "--workers", DEFAULT_WORKERS),
        max_memory_size |-> NumberOr(opts, "--max-memory", DEFAULT_MAX_MEMORY_MB),
        item_timeout_seconds |-> NumberOr(opts, "--item-timeout-seconds", DefaultTimeout)]

---------------------------------------------------------------------------
(* The plan of each command, and where there is none.                       *)

Socket(opts) == ValueOr(opts, "--socket", None)

plan_eval(opts, fromEnv) ==
    [command |-> "eval", config |-> config(opts, fromEnv), socket |-> Socket(opts),
     use_daemon |-> ~Given(opts, "--no-daemon"), replay |-> Given(opts, "--replay")]

plan_watch(opts, fromEnv) ==
    [command |-> "watch", config |-> config(opts, fromEnv), socket |-> Socket(opts),
     use_daemon |-> ~Given(opts, "--no-daemon")]

(* --no-daemon means nothing here; Filters has the filter. *)
plan_query(opts, fromEnv) ==
    [command |-> "query", config |-> config(opts, fromEnv), socket |-> Socket(opts),
     systems |-> pairs(opts, "--system"), prefixes |-> pairs(opts, "--attr-prefix")]

plan_diff(opts, fromEnv) ==
    [command |-> "diff", config |-> config(opts, fromEnv), socket |-> Socket(opts)]

remote_worker_token(flag, fromEnv, tokenless) ==
    LET token == remote_token(flag, fromEnv)
    IN IF token = None /\ ~tokenless THEN Refused ELSE token

worker_token(opts, fromEnv) ==
    remote_worker_token(ValueOr(opts, "--token", None), fromEnv,
                        Given(opts, "--insecure-tokenless-remote"))

plan_server(c, opts, fromEnv) ==
    IF c = "daemon" THEN [command |-> c, socket |-> Socket(opts), foreground |-> Given(opts, "--foreground")]
    ELSE [command |-> c, listen |-> Value(opts, "--listen"), token |-> worker_token(opts, fromEnv)]

command_plan_fails(c, opts, fromEnv) ==
    CASE c = "eval" -> config_fails(opts, fromEnv) \/ (Given(opts, "--replay") /\ Given(opts, "--no-daemon"))
      [] c = "watch" -> config_fails(opts, fromEnv) \/ "--expr" \in Inputs(opts)
      [] c \in {"query", "diff"} -> config_fails(opts, fromEnv)
      [] c = "daemon" -> FALSE
      [] c = "worker" -> ~Given(opts, "--listen") \/ worker_token(opts, fromEnv) = Refused

command_plan(c, opts, fromEnv) ==
    CASE c = "eval" -> plan_eval(opts, fromEnv)
      [] c = "watch" -> plan_watch(opts, fromEnv)
      [] c = "query" -> plan_query(opts, fromEnv)
      [] c = "diff" -> plan_diff(opts, fromEnv)
      [] c \in {"daemon", "worker"} -> plan_server(c, opts, fromEnv)

---------------------------------------------------------------------------
CommandLineInit ==
    /\ at = "shell" /\ command = None /\ env = None /\ meant = <<>> /\ words = <<>> /\ plan = None

(* The words of an option, the first value after "=" if joined. *)
Written(option, joined) ==
    IF joined /\ option[2] # <<>> /\ option[2][1].eq = None
    THEN <<[text |-> option[1], eq |-> option[2][1].text]>> \o Tail(option[2])
    ELSE <<Word(option[1])>> \o option[2]

(* The user types a command line, in either form. *)
Type(c, intent, token, joined) ==
    /\ at' = "typed" /\ command' = c /\ env' = token /\ meant' = intent
    /\ words' = FlattenSeq([i \in DOMAIN intent |-> Written(intent[i], joined)])
    /\ UNCHANGED plan

Normalize ==
    /\ at = "typed"
    /\ words' = normalize_args(words)
    /\ at' = IF \E i \in DOMAIN words' : words'[i] = Refused THEN "refused" ELSE "packed"
    /\ UNCHANGED <<command, env, meant, plan>>

(* parse_plan_from: the parser, then the plan. *)
ParseWords ==
    /\ at = "packed"
    /\ words' = try_parse_from(command, words)
    /\ at' = IF \E i \in DOMAIN words' : words'[i] = Refused THEN "refused" ELSE "parsed"
    /\ UNCHANGED <<command, env, meant, plan>>

MakePlan ==
    /\ at = "parsed"
    /\ IF command_plan_fails(command, words, env) THEN at' = "refused" /\ UNCHANGED plan
       ELSE at' = "planned" /\ plan' = command_plan(command, words, env)
    /\ UNCHANGED <<command, env, meant, words>>

CommandLineNext ==
    \/ at = "shell" /\ \E c \in Commands, intent \in Intents, token \in Tokens, joined \in BOOLEAN :
                          Type(c, intent, token, joined)
    \/ Normalize \/ ParseWords \/ MakePlan

---------------------------------------------------------------------------
(* Properties.                                                              *)

Evaluates == at = "planned" /\ command \notin {"daemon", "worker"}

(* Where the user gives a flag, which of its options the one at i is, and the
   value of one that is given once. *)
Until(flag, i) == {j \in 1..i : meant[j][1] = flag}
Places(flag) == Until(flag, Len(meant))
Count(flag) == Cardinality(Places(flag))
Rank(flag, i) == Cardinality(Until(flag, i))
Says(flag) == Places(flag) # {}
Said(flag) == meant[CHOOSE i \in Places(flag) : TRUE][2][1]
SaidOr(flag, default) == IF Says(flag) THEN Said(flag) ELSE default
SaidNumber(flag, default) == IF Says(flag) THEN Number[Said(flag)] ELSE default

(* The values of all options of the flag, in order. *)
Lists(list, flag) ==
    /\ Len(list) = Count(flag)
    /\ \A i \in Places(flag) : list[Rank(flag, i)] = meant[i][2]

(* The options that may be repeated: none is lost, doubled, moved or given
   the values of another. *)
ListsMeant(c) ==
    /\ Lists(c.override_inputs, "--override-input") /\ Lists(c.nix_options, "--option")
    /\ Len(c.auto_args) = Count("--arg") + Count("--argstr")
    /\ \A i \in Places("--arg") : c.auto_args[Rank("--arg", i)] = <<"expr", meant[i][2]>>
    /\ \A i \in Places("--argstr") :
         c.auto_args[Count("--arg") + Rank("--argstr", i)] = <<"str", meant[i][2]>>
    /\ Len(c.remotes) = Count("--remote")
    /\ \A i \in Places("--remote") :
         LET r == c.remotes[Rank("--remote", i)]
             v == meant[i][2]
         IN r.endpoint = v[1] /\ r.systems = Systems[v[2]] /\ r.workers = Number[v[3]]

(* The options that are given once, or else have their default. *)
ScalarsMeant(c) ==
    /\ \A flag \in {"--flake", "--expr", "--file"} : Says(flag) => c.input = <<flag, Said(flag)>>
    /\ c.meta = Says("--meta") /\ c.show_input_drvs = Says("--show-input-drvs")
    /\ c.force_recurse = Says("--force-recurse")
    /\ c.gc_roots_dir = SaidOr("--gc-roots-dir", None)
    /\ c.workers = SaidNumber("--workers", DEFAULT_WORKERS)
    /\ c.max_memory_size = SaidNumber("--max-memory", DEFAULT_MAX_MEMORY_MB)
    /\ c.item_timeout_seconds = SaidNumber("--item-timeout-seconds", DefaultTimeout)

(* Every option the user means, and no other, is in the plan with all its
   values and in its place, whichever way it was written, whatever its values
   look like and whatever stands next to it.  (The token: TokenRequired.) *)
ParsedAsMeant ==
    /\ Evaluates =>
         /\ ListsMeant(plan.config) /\ ScalarsMeant(plan.config)
         /\ plan.socket = SaidOr("--socket", None)
         /\ command \in {"eval", "watch"} => plan.use_daemon = ~Says("--no-daemon")
         /\ command = "eval" => plan.replay = Says("--replay")
         /\ command = "query" => /\ Lists(plan.systems, "--system")
                                 /\ Lists(plan.prefixes, "--attr-prefix")
    /\ at = "planned" /\ command = "daemon" =>
         plan.socket = SaidOr("--socket", None) /\ plan.foreground = Says("--foreground")
    /\ at = "planned" /\ command = "worker" => plan.listen = Said("--listen")

(* Whatever the client accepts, the master accepts too (validate_config of
   async_master.rs): no evaluation is sent off that must fail at once. *)
AcceptedIsValid ==
    Evaluates =>
       /\ plan.config.item_timeout_seconds # 0
       /\ \A i \in DOMAIN plan.config.remotes : plan.config.remotes[i].workers # 0

(* No remote worker is used, and none is served, without a token that is not
   empty, unless the user says so; the flag wins over the environment. *)
TokenRequired ==
    LET Tokenless == Given(meant, "--insecure-tokenless-remote")
        Chosen(flag) == IF Given(meant, flag) THEN Value(meant, flag) ELSE env
    IN /\ Evaluates => \A i \in DOMAIN plan.config.remotes :
             /\ plan.config.remotes[i].token = Chosen("--remote-token")
             /\ plan.config.remotes[i].token # Empty
             /\ plan.config.remotes[i].token = None => Tokenless
       /\ at = "planned" /\ command = "worker" =>
             /\ plan.token = Chosen("--token") /\ plan.token # Empty
             /\ plan.token = None => Tokenless

(* A command line that means one input, only options of its command, numbers
   that are numbers and tokens where they are needed is not refused. *)
NeverRefusedWithoutCause ==
    LET Known(i) == meant[i][1] \in FlagsOf(command).none \union FlagsOf(command).one
                      \/ (packed_arity(meant[i][1]) # 0 /\ command \notin {"daemon", "worker"})
        Separator == \E i \in DOMAIN meant : /\ packed_arity(meant[i][1]) # 0
                                             /\ \E k \in DOMAIN meant[i][2] : meant[i][2][k] \in WithSeparator
        token == IF Given(meant, "--remote-token") THEN Value(meant, "--remote-token") ELSE env
        Conflict == \/ Cardinality(Inputs(meant)) # 1
                    \/ token = Empty \/ (token = None /\ Given(meant, "--remote")
                                       /\ ~Given(meant, "--insecure-tokenless-remote"))
                    \/ \E k \in DOMAIN Of(meant, "--remote") : ~from_arg(Of(meant, "--remote")[k][2])
                    \/ \E flag \in {"--workers", "--item-timeout-seconds", "--max-memory"} :
                         Given(meant, flag) /\ Value(meant, flag) \notin DOMAIN Number
                    \/ NumberOr(meant, "--item-timeout-seconds", 1) = 0
                    \/ command = "watch" /\ Given(meant, "--expr")
                    \/ Given(meant, "--replay") /\ Given(meant, "--no-daemon")
    IN at = "refused" /\ command \notin {"daemon", "worker"} =>
         Conflict \/ Separator \/ \E i \in DOMAIN meant : ~Known(i)

(* The plan is what the user means: nothing is lost or invented on the way
   through packing and parsing, nothing is accepted that must fail later, no
   remote goes without its token, and nothing is refused without a cause. *)
PlanIsMeant == ParsedAsMeant /\ AcceptedIsValid /\ TokenRequired /\ NeverRefusedWithoutCause
====
