------------------------ MODULE MCInterceptorChain ------------------------
(***************************************************************************)
(* InterceptorChain for TLC: every output text of at most 5 of 6           *)
(* characters, every category with every source, every stack of at most 3  *)
(* frames in two files of the same short name and one without a file, pairs *)
(* of variables with short and long values, configurations from the        *)
(* command line, the builder and a file with limits of 0 and 2, and the    *)
(* interceptors of the proxy with one of an embedder behind capping.       *)
(***************************************************************************)
EXTENDS InterceptorChain, Configuration

MCChain == <<"capping", "custom">> \o Tail(BuildInterceptorChain)

\* Limits of both sizes, of which 2 cuts; capping is off with 0.
Settings(format, max, off) ==
  [o \in Option |-> CASE o = "backend" -> "adapter"
                      [] o = "format" -> format
                      [] o \in {"frames", "variables", "output"} -> max
                      [] o \in {"evaluate", "value"} -> 2
                      [] o \in off -> FALSE
                      [] OTHER -> Unset]

\* The variables of an environment that an option of the same name on the command line, or
\* the lack of one, brings into force, or not.
SomeSwitchesOff == Settings(Bad, Bad, {"output_compressor", "stacktrace_compressor"})
OthersOff == Settings(Unset, Unset, {"variables_compressor", "evaluate_compressor", "scopes_compressor"})

MCConfigs ==
  {RunsWith(c, FALSE, FALSE) : c \in
     {FromCommandLine(Settings("json", 0, {}), NoSettings),
      FromCommandLine(Settings(Unset, Unset, {}), OthersOff),
      FromCommandLine(Settings(Unset, 2, {}), SomeSwitchesOff),
      FromFile(Settings("passthrough", 2, {})),
      FromFile([Settings("json", 2, {}) EXCEPT !["frames"] = Unset])} \ {Failure}}
  \cup {RunsWith(FromCommandLine(Settings("json", 2, {}), SomeSwitchesOff), TRUE, FALSE),
        RunsWith(Build(Settings(Unset, 2, {}), SomeSwitchesOff), FALSE, TRUE)}

MCToolLimits == [frames |-> 0, variables |-> 0, output |-> 0, evaluate |-> 2, value |-> 2, details |-> 2]

Message(kind, text, items, category, fields) ==
  [kind |-> kind, text |-> text, items |-> items, category |-> category, fields |-> fields]

Paths == {NoPath, <<"", "x", "src", "m">>, <<"", "y", "src", "m">>, <<"", "m">>}

Sources == {<<>>} \cup {<<[path |-> p, fields |-> {"name", "checksums"}]>> : p \in Paths}

Outputs == {Message("output", t, <<>>, "stdout", {"output", "data", "line"}) :
              t \in BoundedSeq({"a", "[", ".", "u", ESC, NL}, 5)}
           \cup {Message("output", <<"a", NL, "a">>, source, c, {"output", "column"}) :
              source \in Sources, c \in Categories}

Texts == {<<>>, <<"a">>, <<"u", "a">>, <<"u", "u">>, <<"a", "a", "u">>}

Results == {Message(kind, t, <<>>, "none", {"variablesReference", "memoryReference"}) :
              kind \in {"evaluate", "exceptionInfo"}, t \in Texts}

Frame(i, path_, hint, name) ==
  [id |-> i, path |-> path_, hint |-> hint, name |-> name, fields |-> {"moduleId", "line"}]

Names == {<<"f">>, <<"f", " ", "(", "x", ")">>, <<" ", "(", ")">>, <<>>}

Stack(frames) == Message("stackTrace", <<>>, frames, "none", {"totalFrames"})

Stacks == {Stack([i \in DOMAIN s |-> Frame(i, s[i][1], s[i][2], <<"f", "(", ")">>)]) :
             s \in BoundedSeq(Paths \X {"none", "label"}, 3)}
          \cup {Stack(<<Frame(1, <<"", "m">>, "none", name)>>) : name \in Names}

Variable == [ref : {1}, prefix : {"none"}, type : {"none", "", "int"}, indexed : {0, 3},
             value : {<<>>, <<"[", "a", "a">>, <<"u", "u">>}, fields : {{"memoryReference", "evaluateName"}}]
            \cup {[ref |-> 2, prefix |-> "int", type |-> "int", indexed |-> 0, value |-> <<"a", "a", "a">>,
                   fields |-> {"memoryReference", "evaluateName"}]}

Variables == {Message("variables", <<>>, s, "none", {}) : s \in BoundedSeq(Variable, 2)}

Scopes == {Message("scopes", <<>>, [i \in 1..n |-> [ref |-> i, fields |-> {"name", "source", "line"}]], "none", {}) :
             n \in 0..2}

MCMessages == Outputs \cup Results \cup Stacks \cup Variables \cup Scopes
              \cup {Message(kind, <<>>, <<>>, "none", {}) : kind \in {"other", "malformed"}}
=============================================================================
