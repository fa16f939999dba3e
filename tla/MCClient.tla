------------------------------ MODULE MCClient ------------------------------
(* Instances of Client. *)
EXTENDS Client

W(text) == [text |-> text, eq |-> None]
Assignment == [text |-> "a", eq |-> "b"]

Input == {<<"--expr", <<W("e")>>>>, <<"--flake", <<W("f")>>>>}

Options ==
    {<<"--argstr", <<W("x"), W("--meta")>>>>, <<"--arg", <<W("x"), Assignment>>>>,
     <<"--option", <<W("k"), W("--arg")>>>>, <<"--option", <<W("k"), W("sep")>>>>,
     <<"--override-input", <<W("i"), W("--option")>>>>,
     <<"--remote", <<W("h"), W("linux"), W("2")>>>>, <<"--remote", <<W("h"), W("linux"), W("0")>>>>,
     <<"--remote-token", <<W("secret")>>>>, <<"--remote-token", <<W("")>>>>,
     <<"--insecure-tokenless-remote", <<>>>>, <<"--item-timeout-seconds", <<W("0")>>>>,
     <<"--no-daemon", <<>>>>, <<"--replay", <<>>>>, <<"--listen", <<W("h")>>>>, <<"--token", <<W("t")>>>>,
     <<"--foreground", <<>>>>, <<"--system", <<W("linux")>>>>}

(* Options that are tried alone, and all together in Everything. *)
Scalars ==
    {<<"--meta", <<>>>>, <<"--show-input-drvs", <<>>>>, <<"--force-recurse", <<>>>>,
     <<"--workers", <<W("2")>>>>, <<"--max-memory", <<W("3")>>>>, <<"--item-timeout-seconds", <<W("5")>>>>,
     <<"--gc-roots-dir", <<Assignment>>>>, <<"--socket", <<W("s")>>>>, <<"--workers", <<W("many")>>>>,
     <<"--attr-prefix", <<W("p")>>>>}

Everything ==
    <<<<"--argstr", <<W("x"), W("--arg")>>>>, <<"--override-input", <<W("i"), W("--override-input")>>>>,
      <<"--remote", <<W("h"), W("linux"), W("2")>>>>, <<"--meta", <<>>>>, <<"--option", <<W("k"), W("1")>>>>,
      <<"--workers", <<W("2")>>>>, <<"--arg", <<W("y"), Assignment>>>>, <<"--file", <<Assignment>>>>,
      <<"--max-memory", <<W("3")>>>>, <<"--remote-token", <<W("secret")>>>>, <<"--force-recurse", <<>>>>,
      <<"--remote", <<Assignment, W("linux,darwin"), W("3")>>>>, <<"--option", <<W("k"), W("2")>>>>,
      <<"--item-timeout-seconds", <<W("5")>>>>, <<"--arg", <<W("x"), W("2")>>>>, <<"--gc-roots-dir", <<W("d")>>>>,
      <<"--override-input", <<W("j"), W("r")>>>>, <<"--show-input-drvs", <<>>>>, <<"--socket", <<W("s")>>>>>>

Filtered ==
    <<<<"--system", <<W("linux")>>>>, <<"--attr-prefix", <<W("p")>>>>, <<"--flake", <<W("f")>>>>,
      <<"--attr-prefix", <<W("q")>>>>, <<"--system", <<W("darwin")>>>>>>

(* An option that has one value is not given twice. *)
Pairs == {p \in Options \X Options : p[1] # p[2] /\ (p[1][1] = p[2][1] => packed_arity(p[1][1]) # 0)}

(* Up to two different options, with an input before, between or after. *)
AllIntents ==
    {<<>>, Everything, Filtered} \union {<<o>> : o \in Options \union Scalars}
      \union {<<i, o>> : i \in Input, o \in Scalars}
      \union {<<i, o>> : i \in Input, o \in Options} \union {<<o, i>> : i \in Input, o \in Options}
      \union {<<p[1], <<"--flake", <<W("f")>>>>, p[2]>> : p \in Pairs}
      \union Pairs
      \union {p \in Input \X Input : p[1] # p[2]}

AllCommands == {"eval", "watch", "query", "diff", "daemon", "worker"}
EnvTokens == {None, Empty, W("env")}
Separated == {W("sep")}
Numbers == [w \in {W("0"), W("2"), W("3"), W("5")} |->
              CASE w = W("0") -> 0 [] w = W("2") -> 2 [] w = W("3") -> 3 [] w = W("5") -> 5]
SystemLists == [w \in {W("linux"), W("linux,darwin")} |->
                  IF w = W("linux") THEN <<"linux">> ELSE <<"linux", "darwin">>]
=============================================================================
