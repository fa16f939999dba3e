---------------------------- MODULE MCDataPath ----------------------------
(* Instances of the parts of DataPath. *)
EXTENDS DataPath

CONSTANTS drv1, drv2, linux, darwin

TwoWorkers == {"w1", "w2"}

---------------------------------------------------------------------------
(* AttrEval: a value with a cycle, aliases of one derivation, functions and
   things that cannot be forced. *)

AllNodes == {"root", "A", "B", "D1", "D2", "D3", "D4", "F", "G", "T", "S", "X", "U", "M", "N", "L", "K", "Y", "P", "Q"}
KindOf ==
    [n \in AllNodes |->
       CASE n \in {"root", "A", "B", "M", "N"} -> "attrs"
         [] n \in {"D1", "D2", "D3", "D4", "U"} -> "drv"
         [] n \in {"F", "G"} -> "function"
         [] n \in {"L", "K"} -> "list"
         [] n = "T" -> "throw" [] n = "S" -> "scalar" [] n = "X" -> "baddrv"
         [] n = "Y" -> "true" [] n = "P" -> "path" [] n = "Q" -> "badpath"]
ChildrenOf ==
    [n \in AllNodes |->
       CASE n = "root" -> <<<<"a", "A">>, <<"b", "B">>, <<"f", "F">>, <<"t", "T">>, <<"u", "U">>, <<"x", "X">>>>
         [] n = "A" -> <<<<"c", "root">>, <<"d", "D1">>, <<"recurseForDerivations", "Y">>>>
         [] n = "B" -> <<<<"c", "D4">>, <<"d", "D3">>, <<"x", "S">>>>
         [] n = "D1" -> <<<<"meta", "M">>>>
         [] n = "D3" -> <<<<"meta", "N">>>>
         [] n = "D4" -> <<<<"meta", "Q">>>>
         [] n = "M" -> <<<<"a", "K">>, <<"b", "L">>, <<"c", "M">>, <<"t", "T">>, <<"x", "S">>>>
         [] n = "N" -> <<<<"a", "P">>, <<"b", "S">>>>
         [] n = "L" -> <<<<"0", "S">>, <<"1", "G">>>>
         [] n = "K" -> <<<<"0", "S">>, <<"1", "T">>>>
         [] OTHER -> <<>>]
ResultOf == [n \in AllNodes |-> IF n = "F" THEN "D2" ELSE "T"]
Derivation(p, throws) ==
    [named |-> TRUE, drvPath |-> p, throws |-> throws, readable |-> TRUE,
     outputs |-> [out |-> "input", dev |-> "fixed", lib |-> "floating"],
     inputs |-> {[key |-> [dir |-> "relative", of |-> "in"], outputs |-> {"out"}],
                 [key |-> [dir |-> "store", of |-> "bad"], outputs |-> None]},
     constituents |-> <<"job", None>>]
DrvOf ==
    [n \in {"D1", "D2", "D3", "D4", "U"} |->
       CASE n \in {"D1", "D2"} -> Derivation("one", n = "D2")
         [] n \in {"D3", "D4"} -> Derivation("two", TRUE)
         [] n = "U" -> [Derivation("three", FALSE) EXCEPT !.named = FALSE]]

---------------------------------------------------------------------------
(* GcRootsPath: Nix's directory is two levels deep here. *)

TwoNames == {"nix", "gcroots"}
NixGcRoots == <<"nix", "gcroots">>

---------------------------------------------------------------------------
(* FlakeInputs: the references that are read alike. *)

Forms == INSTANCE FlakeInputs WITH Inputs <- {}, Overrides <- {}
AllUsualInputs == Forms!UsualInputs
AnyOverride ==
    {None} \union {r \in Forms!References : ~r.prefix /\ ~r.fragment
                                            /\ r.form \in {"absolute", "dotslash", "dotdotslash", "url"}}

---------------------------------------------------------------------------
(* WireFormat: configurations that differ in every field, and answers of
   every kind and size. *)

PlainConfig ==
    [input |-> [kind |-> "expr", value |-> "e"], auto_args |-> <<>>, force_recurse |-> FALSE,
     gc_roots_dir |-> None, workers |-> 1, max_memory_size |-> 4096,
     item_timeout_seconds |-> DefaultTimeout, meta |-> FALSE, show_input_drvs |-> FALSE,
     override_inputs |-> <<>>, nix_options |-> <<>>, remotes |-> <<>>]

Remote(token) == [endpoint |-> "host", systems |-> <<"linux">>, workers |-> 1, token |-> token]

FullConfig ==
    [PlainConfig EXCEPT !.input = [kind |-> "flake", value |-> "f"],
                  !.auto_args = <<<<"a", "expr", "1">>, <<"b", "str", "1">>>>,
                  !.force_recurse = TRUE, !.gc_roots_dir = "/roots", !.item_timeout_seconds = 7,
                  !.meta = TRUE, !.show_input_drvs = TRUE, !.override_inputs = <<<<"i", "r">>>>,
                  !.nix_options = <<<<"restrict-eval", "true">>, <<"restrict-eval", "false">>>>,
                  !.remotes = <<Remote("secret")>>]

AllConfigs ==
    {PlainConfig, FullConfig,
     [PlainConfig EXCEPT !.meta = TRUE, !.input = [kind |-> "file", value |-> "/f"]],
     [PlainConfig EXCEPT !.show_input_drvs = TRUE],
     [FullConfig EXCEPT !.workers = 0, !.remotes = <<Remote(None)>>],
     [PlainConfig EXCEPT !.remotes = <<[Remote(None) EXCEPT !.workers = 0]>>],
     [FullConfig EXCEPT !.item_timeout_seconds = 0],
     [FullConfig EXCEPT !.gc_roots_dir = "bad"],
     [PlainConfig EXCEPT !.input = [kind |-> "file", value |-> "bad"]],
     [FullConfig EXCEPT !.nix_options = <<<<"builders", "x">>>>],
     [FullConfig EXCEPT !.nix_options = <<<<"restrict-eval", "newline">>>>],
     [PlainConfig EXCEPT !.nix_options = <<<<"restrict-eval", "true # x">>, <<"builders", "x">>>>],
     [PlainConfig EXCEPT !.nix_options = <<<<"two words", "x">>>>],
     [FullConfig EXCEPT !.input.value = "big"],
     [PlainConfig EXCEPT !.input.value = "huge"]}

PlainAnswer ==
    [kind |-> "derivation", attr |-> "a.b", attr_path |-> <<"a", "b">>, name |-> "n",
     system |-> "linux", drv_path |-> "/d", outputs |-> [out |-> "/o", doc |-> None],
     meta |-> None, input_drvs |-> <<>>, constituents |-> None, gc_root_error |-> None]

AllAnswers ==
    {PlainAnswer,
     [PlainAnswer EXCEPT !.meta = "json", !.input_drvs = [i |-> <<"out">>, j |-> <<>>], !.constituents = <<"c">>,
                         !.gc_root_error = "link"],
     [PlainAnswer EXCEPT !.meta = Null, !.constituents = <<>>],
     [PlainAnswer EXCEPT !.name = "big"],
     [PlainAnswer EXCEPT !.name = "huge"],
     [kind |-> "attr_set", attr |-> "", attr_path |-> <<>>, attrs |-> <<"a", "c">>],
     [kind |-> "error", attr |-> "c", attr_path |-> <<"c">>, error |-> "no", fatal |-> FALSE]}

SizeOf ==
    [e \in AllAnswers \union AllConfigs |->
       IF e \in AllConfigs
       THEN CASE e.input.value = "big" -> RemoteLimit + 1 [] e.input.value = "huge" -> LocalLimit + 1
              [] OTHER -> RemoteLimit
       ELSE IF e.kind # "derivation" THEN 1
       ELSE CASE e.name = "big" -> RemoteLimit + 1 [] e.name = "huge" -> LocalLimit + 1
              [] OTHER -> RemoteLimit]

TwoVersions == {DaemonVersion, WorkerVersion}
NixConf == <<<<"cores", "2">>, <<"restrict-eval", "user">>>>
OtherConf == <<<<"cores", "1">>, <<"cores", "4">>>>
FourEnvironments ==
    {[previous |-> None, default |-> None], [previous |-> None, default |-> NixConf],
     [previous |-> <<>>, default |-> NixConf],
     [previous |-> <<OtherConf, NixConf>>, default |-> OtherConf]}
NixKeys == [t \in {"two words"} |-> None]
NixValues == [t \in {"true # x"} |-> "true"]
NotText == {"bad"}
Newline == {"newline"}
RestrictEval == {"restrict-eval"}

---------------------------------------------------------------------------
(* WarmGraph: two attributes, one nested in the path of the other.  Patterns:
   values over two letters. *)

TwoPaths == {<<"a">>, <<"a", "b">>}
TwoDrvs == {drv1, drv2}
TwoSystems == {linux, darwin}
OneMeta == {"meta"}
FourPrefixes == {<<"">>, <<"a">>, <<"a", "", "b">>, <<"b">>}
FilterForms == INSTANCE Filters
ThreeQueries ==
    {[FilterForms!NoFilter EXCEPT !.systems = {{linux}}, !.drv_paths = {{drv1}}, !.attrs = {{<<"a">>, <<"b">>}}],
     [FilterForms!NoFilter EXCEPT !.names = {{"n"}}, !.attr_prefix = {{<<"a">>}}, !.attr_prefixes = {{<<"b">>, <<"a", "b">>}}],
     [FilterForms!NoFilter EXCEPT !.include_patterns = {{<<"a", "*">>}}, !.exclude_patterns = {{<<"?">>, <<"b">>}}]}
Letters == {"a", "b"}
=============================================================================
