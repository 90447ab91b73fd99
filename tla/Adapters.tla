------------------------------ MODULE Adapters ------------------------------
(***************************************************************************)
(* Which debug adapter a launch uses: src/src/adapters.rs and the          *)
(* resolve_backend of the MCP servers.                                     *)
(*                                                                         *)
(* A machine is a record: env, the environment variables that matter (PATH *)
(* a sequence of directories; HOME, XDG_DATA_HOME, CARGO_HOME and GOPATH a *)
(* directory or None), files, the executables as pairs of a directory and  *)
(* a name, and debugpy, those of them that are pythons and can import      *)
(* debugpy.  A directory is a sequence of path components, a backend an    *)
(* executable and whether it runs "-m debugpy.adapter".                    *)
(***************************************************************************)
EXTENDS Sequences, SequencesExt

CONSTANT None

Join(dir, rest) == IF dir = None THEN None ELSE dir \o rest

\* DiscoveryContext::from_env: what is not set lies under HOME.
FromEnv(env) ==
  LET Or(dir, rest) == IF dir # None THEN dir ELSE Join(env.HOME, rest)
  IN [path_dirs |-> env.PATH, home |-> env.HOME,
      data_home |-> Or(env.XDG_DATA_HOME, <<".local", "share">>),
      cargo_home |-> Or(env.CARGO_HOME, <<".cargo">>),
      go_path |-> Or(env.GOPATH, <<"go">>)]

\* if let Some(dir)
Some(dir) == IF dir = None THEN <<>> ELSE <<dir>>

\* Where the package managers install.
Managed(ctx) ==
  Some(Join(ctx.home, <<".local", "bin">>)) \o Some(Join(ctx.cargo_home, <<"bin">>))
    \o Some(Join(ctx.go_path, <<"bin">>)) \o Some(Join(ctx.data_home, <<"npm", "bin">>))
    \o Some(Join(ctx.home, <<".bun", "bin">>))

\* Mutant: what the package managers install comes before the PATH.
PlacesHomeFirst(ctx) == Managed(ctx) \o ctx.path_dirs

\* The directories resolve_tool_in searches, in its order.
Places(ctx) == ctx.path_dirs \o Managed(ctx)

Program(exe) == [exe |-> exe, module |-> FALSE]
Module(python) == [exe |-> python, module |-> TRUE]

\* The first place that has the tool.
ResolveTool(name, machine) ==
  LET places == Places(FromEnv(machine.env))
      first == SelectInSeq(places, LAMBDA dir : <<dir, name>> \in machine.files)
  IN IF first = 0 THEN None ELSE Program(<<places[first], name>>)

\* python3, wherever the PATH has it.
System == <<(<<>>), "python3">>

\* uv_tools_debugpy_adapter.
UvTools(machine) ==
  LET data == FromEnv(machine.env).data_home
      Bin(name) == <<data \o <<"uv", "tools", "debugpy", "bin">>, name>>
  IN CASE data = None -> None
       [] data # None /\ Bin("debugpy-adapter") \in machine.files -> Program(Bin("debugpy-adapter"))
       [] data # None /\ Bin("debugpy-adapter") \notin machine.files /\ Bin("python3") \in machine.debugpy ->
            Module(Bin("python3"))
       [] OTHER -> None

\* The first of several attempts that finds something.
FirstOf(found) ==
  LET n == SelectInSeq(found, LAMBDA f : f # None) IN IF n = 0 THEN None ELSE found[n]

ResolvePython(machine) ==
  FirstOf(<<ResolveTool("debugpy-adapter", machine), UvTools(machine),
            IF System \in machine.debugpy THEN Module(System) ELSE None>>)

ResolveLldb(machine) ==
  FirstOf(<<ResolveTool("lldb-dap", machine), ResolveTool("lldb-vscode", machine)>>)

\* unwrap_or: the command an adapter that is not installed would have.
AdapterOf(family, machine) ==
  IF family = "python" THEN FirstOf(<<ResolvePython(machine), Module(System)>>)
  ELSE FirstOf(<<ResolveLldb(machine), Program(<<(<<>>), "lldb-dap">>)>>)

\* The languages and the extensions, in lower case, by the adapter they need.
LanguageFamily(language) ==
  CASE language \in {"python", "py"} -> "python"
    [] language \in {"c", "cpp", "c++", "rust", "rs"} -> "lldb"
    [] OTHER -> None

ExtensionFamily(ext) ==
  CASE ext \in {"py", "pyw"} -> "python"
    [] ext \in {"c", "h", "cpp", "cc", "cxx", "hpp", "hxx", "rs"} -> "lldb"
    [] OTHER -> None

\* generate_adapter_table: the Status column of a row of DAPZ.md.
TableSaysOk(family, machine) ==
  IF family = "python" THEN ResolvePython(machine) # None ELSE ResolveLldb(machine) # None

\* resolve_backend: the backend as given, else by language, else by the program's extension.
ResolveBackend(ext, language, backend, machine) ==
  LET family == FirstOf(<<LanguageFamily(language), ExtensionFamily(ext)>>)
  IN IF backend # None THEN backend
     ELSE IF family = None THEN None ELSE AdapterOf(family, machine)

\* The backends that start an adapter on the machine.
Runnable(machine) ==
  {Program(exe) : exe \in machine.files} \cup {Module(python) : python \in machine.debugpy}
=============================================================================
