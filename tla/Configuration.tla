--------------------------- MODULE Configuration ---------------------------
(***************************************************************************)
(* Where a Config comes from: the command line of `dapz proxy` (src/main.rs *)
(* through clap), the builder of an embedder or a TOML file                 *)
(* (src/config.rs), and what main.rs makes of it.                           *)
(*                                                                         *)
(* A source of settings is a function from options to values.  Unset says   *)
(* that it has none, Bad that there is a text which does not parse.         *)
(***************************************************************************)
EXTENDS Integers

CONSTANTS Unset, Bad,     \* no value, a text that does not parse
          Failure,        \* no Config
          DetailsLimit    \* the 800 characters main.rs keeps of an exception's details

Limit == {"frames", "variables", "output", "evaluate", "value"}
Switch == {"output_compressor", "variables_compressor", "stacktrace_compressor",
           "evaluate_compressor", "scopes_compressor"}
Option == Limit \cup Switch \cup {"backend", "format"}

NoSettings == [o \in Option |-> Unset]

Default ==
    [o \in Option |-> CASE o = "evaluate" -> 500
                        [] o = "value" -> 120
                        [] o \in Limit \ {"evaluate", "value"} -> 0
                        [] o \in Switch -> TRUE
                        [] o = "format" -> "toon"
                        [] o = "backend" -> Unset]

\* The first of two sources that has a value.
Or(first, second) == [o \in Option |-> IF first[o] # Unset THEN first[o] ELSE second[o]]

\* What is left of a source by .parse().ok().
Parsed(source) == [o \in Option |-> IF source[o] = Bad THEN Unset ELSE source[o]]

Config(settings) ==
    [backend |-> settings["backend"], format |-> settings["format"],
     off |-> {s \in Switch : settings[s] = FALSE},
     limits |-> [l \in Limit |-> settings[l]]]

\* ConfigBuilder::build.  Limits are given all together or not at all; a variable of the
\* environment that does not parse is as good as none.
Build(given, env) ==
    LET unlessCapped == [o \in Option |->
            IF o \in Limit /\ (\E l \in Limit : given[l] # Unset) THEN Unset ELSE Parsed(env)[o]]
        settings == Or(Or(given, unlessCapped), Default)
    IN IF settings["backend"] = Unset THEN Failure ELSE Config(settings)

\* clap takes an option from the command line, else from the environment; a value in use
\* that does not parse is an error, and so is the lack of a backend.  A switch of the
\* command line can only be on.
FromCommandLine(args, env) ==
    LET given == Or(args, env)
        settings == Or(given, Default)
    IN IF given["backend"] = Unset \/ \E o \in Option : settings[o] = Bad
       THEN Failure ELSE Build(settings, env)

\* Config::from_file: serde's defaults.  A table of limits has to name the first three; the
\* environment plays no part.
FromFile(file) ==
    LET table == {l \in Limit : file[l] # Unset}
    IN IF \/ file["backend"] = Unset \/ \E o \in Option : file[o] = Bad
          \/ table # {} /\ ~({"frames", "variables", "output"} \subseteq table)
       THEN Failure ELSE Config(Or(file, Default))

----------------------------------------------------------------------------
\* What run_proxy builds with it.

\* The interceptors in the order in which a message meets them.
BuildInterceptorChain ==
    <<"capping", "output_compressor", "evaluate_compressor", "variables_compressor",
      "stacktrace_compressor", "scopes_compressor", "exception_info_compressor">>

\* The limits the interceptors are made with.
ChainLimits(config) ==
    [l \in Limit \cup {"details"} |-> IF l = "details" THEN DetailsLimit ELSE config.limits[l]]

\* What a proxy runs with.  The metrics are no part of a Config: the flag --metrics asks for
\* them, or the variable DAPZ_METRICS.
RunsWith(config, flag, variable) ==
    [backend |-> config.backend, format |-> config.format, off |-> config.off,
     limits |-> ChainLimits(config), metrics |-> flag \/ variable]
=============================================================================
