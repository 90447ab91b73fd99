---------------------------- MODULE MCFrontEnds ----------------------------
(* The scenarios of the front ends for TLC.                                 *)
EXTENDS FrontEndsProps

(* Machines, calls and plans. *)

Home == <<"home">>
Usr == <<"usr", "bin">>
Env(path, home, data, cargo) ==
  [PATH |-> path, HOME |-> home, XDG_DATA_HOME |-> data, CARGO_HOME |-> cargo, GOPATH |-> None]

InHome(rest, name) == <<Home \o rest, name>>
Uv == <<".local", "share", "uv", "tools", "debugpy", "bin">>
Local == InHome(<<".local", "bin">>, "debugpy-adapter")

Machine(env, files, debugpy) == [env |-> env, files |-> files, debugpy |-> debugpy, exits |-> 0]
Plain == Machine(Env(<<Usr>>, Home, None, None), {<<Usr, "debugpy-adapter">>}, {})

Flaky == [Plain EXCEPT !.exits = 1]

LldbDap == InHome(<<".cargo", "bin">>, "lldb-dap")
UvPython == InHome(Uv, "python3")

Machines ==
  {Plain,
   Machine(Env(<<Usr>>, Home, None, None), {<<Usr, "debugpy-adapter">>, Local, <<Usr, "lldb-vscode">>, LldbDap}, {System}),
   Machine(Env(<<Usr>>, Home, None, None), {Local}, {System}),
   Machine(Env(<<>>, None, Home \o <<".local", "share">>, Home \o <<".cargo">>), {UvPython, LldbDap}, {UvPython}),
   Machine(Env(<<Usr>>, Home, <<"data">>, None), {UvPython}, {UvPython, System}),
   Machine(Env(<<Usr>>, None, None, None), {}, {})}

Own == Program(<<<<"opt">>, "adapter">>)
Found == Program(<<Usr, "debugpy-adapter">>)

MakeCall(tool, given, backend, cwd, language, ext, after) ==
  [tool |-> tool, given |-> given, backend |-> backend, cwd |-> cwd, language |-> language,
   ext |-> ext, after |-> after]

CONSTANTS c1, c2

\* A call that comes after itself is never made.
Never(c) == MakeCall("get_threads", {}, None, None, None, None, c)
Launch == MakeCall("debug_launch", {"program"}, None, None, None, "py", None)
OnOwn(tool) == MakeCall(tool, {"program", "backend"}, Own, "", None, "sh", None)
Use(tool) == MakeCall(tool, {}, None, None, None, None, None)

\* All the arguments of a tool, the required ones, and all but a required one.
ArgSets(tool) == {Must(tool), All(tool)} \cup {All(tool) \ {x} : x \in Must(tool)}

Plan(via, compression, backends, ops) ==
  [via |-> via, compression |-> compression, backends |-> backends, ops |-> ops]
Idle == Plan(FALSE, FALSE, [n \in Names |-> None], <<>>)
Does(name, tool) == [name |-> name, tool |-> tool, given |-> All(tool)]
OnKey(n1, n2) == [n \in Names |-> IF n = "x" THEN n1 ELSE n2]
K1 == <<Found, None>>
K2 == <<Own, None>>

Scenario(m, mach, calls, plans) == [mode |-> m, machine |-> mach, script |-> calls, plan |-> plans]
NoPlans == [a \in Agents |-> Idle]
Modes == {"in_process", "daemon"}
\* Each tool with each choice of arguments, after a launch.
Catalog ==
  UNION {{Scenario(m, Plain,
            (c1 :> MakeCall("debug_launch", {"program", "backend", "cwd"}, Own, "w", None, "py", None)
               @@ c2 :> MakeCall(tool, given, IF "backend" \in given THEN Own ELSE None,
                                 IF "cwd" \in given THEN "w" ELSE None,
                                 IF "language" \in given THEN "python" ELSE None, "py", c1)), NoPlans) :
          m \in Modes, given \in ArgSets(tool)} : tool \in Tools}

\* A launch on each machine, by language or extension.
Discoveries ==
  {Scenario("in_process", mach,
            c1 :> MakeCall(by[1], {"program", "arguments", "language"}, None, None, by[2], by[3], None)
              @@ c2 :> Never(c2), NoPlans) :
     mach \in Machines,
     by \in {<<"debug_launch", None, "py">>, <<"debug_launch", None, "c">>, <<"debug_launch", "rs", "py">>,
             <<"debug_launch", "go", "py">>, <<"debug_launch", "go", "txt">>, <<"debug_launch", None, None>>,
             <<"debug_attach", "py", None>>, <<"debug_attach", None, "py">>}}

\* Two calls at once.
Races ==
  {Scenario(m, Flaky, c1 :> x @@ c2 :> y, NoPlans) :
     m \in Modes, x \in {Launch}, y \in {Launch, Use("disconnect"), OnOwn("debug_attach")}}
    \cup {Scenario(m, Flaky, c1 :> OnOwn("debug_launch") @@ c2 :> OnOwn(tool), NoPlans) :
     m \in Modes, tool \in {"continue", "disconnect"}}

\* An agent that uses each tool, in its own process or through a daemon.
Embedded ==
  {Scenario("daemon", Flaky, c1 :> Never(c1) @@ c2 :> Never(c2),
            [a \in Agents |-> Plan(via, ~via \/ tool = "get_stack", OnKey(K1, None), <<Does("x", tool)>>)]) :
     via \in BOOLEAN, tool \in DOMAIN AgentTools}
    \cup {Scenario("in_process", Flaky, c1 :> Launch @@ c2 :> Never(c2),
            [a \in Agents |-> Plan(FALSE, TRUE, OnKey(K1, None), <<Does("x", "disconnect"), Does("y", "pause"), Does("x", "pause")>>)])}

\* Two handles of an agent, or one and an MCP server, share a session of the daemon.
Sharing ==
  {Scenario("daemon", Flaky, c1 :> Never(c1) @@ c2 :> Never(c2),
            [a \in Agents |-> Plan(TRUE, TRUE, OnKey(K1, K1), <<Does("x", "continue"), Does("y", "disconnect")>>)])}
    \cup {Scenario("daemon", Plain, c1 :> Launch @@ c2 :> Never(c2),
            [a \in Agents |-> Plan(TRUE, TRUE, OnKey(K1, None), <<Does("x", "continue")>>)])}

\* The keys those lead to.
MCKeys ==
  ({Own, Found, Program(Local), Program(LldbDap), Program(<<(<<>>), "lldb-dap">>), Module(System), Module(UvPython)}
     \X {None}) \cup {<<Own, "w">>}

MCScenarios == Catalog \cup Discoveries \cup Races \cup Embedded \cup Sharing
=============================================================================
