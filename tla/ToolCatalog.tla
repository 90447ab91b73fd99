---------------------------- MODULE ToolCatalog ----------------------------
(***************************************************************************)
(* The 21 debug tools, as each front end carries them out: the in-process  *)
(* MCP server (src/src/mcp/server.rs), the daemon-backed one               *)
(* (src/src/mcp/daemon_server.rs) with the daemon's dap/invoke, and the    *)
(* Agent SDK (src/src/agent_sdk).  The same tool is spelt out once in each *)
(* of them: arguments it parses, session method it calls or op it invokes, *)
(* arguments it hands on, compressor of the answer.                        *)
(*                                                                         *)
(* An argument is its name; a call gives a set of them.  An optional       *)
(* argument that is not given reaches the daemon as null and the session   *)
(* as None, the same as not at all.                                        *)
(***************************************************************************)

Session == {"backend", "cwd"}
Thread == Session \cup {"thread_id"}

Fields(must, may) == [must |-> must, all |-> must \cup may]

\* What tools/list tells a client: the JSON schema of each input type, ...
StartSchema ==
  [DebugLaunchInput |-> Fields({"program"}, Session \cup {"args", "language", "breakpoints", "backend_args"}),
   DebugAttachInput |-> Fields({"arguments"}, Session \cup {"language", "backend_args"}),
   SetExceptionBreakpointsInput |-> Fields({"filters"}, Session),
   GetSourceInput |-> Fields({"source_reference"}, Session \cup {"path"})]

UseSchema ==
  [SessionRefInput |-> Fields({}, Session),
   ThreadInput |-> Fields({}, Thread),
   SetBreakpointsInput |-> Fields({"source", "lines"}, Session),
   GetStackInput |-> Fields({}, Thread \cup {"levels"}),
   GetScopesInput |-> Fields({"frame_id"}, Session),
   GetVariablesInput |-> Fields({"variables_reference"}, Session),
   EvaluateInput |-> Fields({"expression"}, Session \cup {"frame_id", "context"}),
   WaitStoppedInput |-> Fields({}, Session \cup {"timeout_ms"}),
   DisconnectInput |-> Fields({}, Session \cup {"terminate_debuggee"}),
   SendRawInput |-> Fields({"command"}, Session \cup {"arguments"})]

Schema ==
  [i \in DOMAIN StartSchema \cup DOMAIN UseSchema |->
     IF i \in DOMAIN StartSchema THEN StartSchema[i] ELSE UseSchema[i]]

\* ... and the schema of each tool.
ToolDefinitions ==
  [debug_launch |-> "DebugLaunchInput", debug_attach |-> "DebugAttachInput",
   set_breakpoints |-> "SetBreakpointsInput",
   set_exception_breakpoints |-> "SetExceptionBreakpointsInput",
   continue |-> "ThreadInput", step_over |-> "ThreadInput", step_into |-> "ThreadInput",
   step_out |-> "ThreadInput", pause |-> "ThreadInput",
   get_threads |-> "SessionRefInput", get_stack |-> "GetStackInput",
   get_scopes |-> "GetScopesInput", get_variables |-> "GetVariablesInput",
   evaluate |-> "EvaluateInput", get_exception |-> "ThreadInput",
   get_source |-> "GetSourceInput", get_output |-> "SessionRefInput",
   wait_stopped |-> "WaitStoppedInput", disconnect |-> "DisconnectInput",
   terminate |-> "SessionRefInput", send_raw |-> "SendRawInput"]

Tools == DOMAIN ToolDefinitions

\* The structs the arguments are deserialised into: a field that is no Option must be given.
Struct ==
  [DebugLaunchInput |-> Fields({"program"}, Session \cup {"args", "language", "breakpoints", "backend_args"}),
   DebugAttachInput |-> Fields({"arguments"}, Session \cup {"language", "backend_args"}),
   SetExceptionBreakpointsInput |-> Fields({"filters"}, Session),
   GetSourceInput |-> Fields({"source_reference"}, Session \cup {"path"}),
   SessionRefInput |-> Fields({}, Session),
   ThreadInput |-> Fields({}, Thread),
   SetBreakpointsInput |-> Fields({"source", "lines"}, Session),
   GetStackInput |-> Fields({}, Thread \cup {"levels"}),
   GetScopesInput |-> Fields({"frame_id"}, Session),
   GetVariablesInput |-> Fields({"variables_reference"}, Session),
   EvaluateInput |-> Fields({"expression"}, Session \cup {"frame_id", "context"}),
   WaitStoppedInput |-> Fields({}, Session \cup {"timeout_ms"}),
   DisconnectInput |-> Fields({}, Session \cup {"terminate_debuggee"}),
   SendRawInput |-> Fields({"command"}, Session \cup {"arguments"})]

\* serde takes the fields it knows and fails without one it needs.
ParseArgs(input, given) ==
  [ok |-> Struct[input].must \subseteq given, args |-> given \cap Struct[input].all]

----------------------------------------------------------------------------
(* The tools of a server or a handle: the type it parses, what it calls,    *)
(* with which of the arguments, and the compressor of the answer.           *)

Tool(input, calls, with, compressor) ==
  [input |-> input, calls |-> calls, with |-> with, compressor |-> compressor]

\* compress_response: the compressor of a DAP command's answer.
Compressor(command) ==
  CASE command = "stackTrace" -> "StackTraceCompressor"
    [] command = "scopes" -> "ScopesCompressor"
    [] command = "variables" -> "VariablesCompressor(120)"
    [] command = "evaluate" -> "EvaluateCompressor(500)"
    [] command = "exceptionInfo" -> "ExceptionInfoCompressor"
    [] OTHER -> "none"

\* compress_output_events.
OutputEvents == "OutputCompressor"

(* McpServer: methods of the session it has locked. *)

LocalStart ==
  [debug_launch |-> Tool("DebugLaunchInput", "launch_program", {"program", "cwd", "args", "breakpoints"}, "none"),
   debug_attach |-> Tool("DebugAttachInput", "attach", {"arguments"}, "none")]

LocalControl ==
  [set_breakpoints |-> Tool("SetBreakpointsInput", "set_breakpoints", {"source", "lines"}, "none"),
   continue |-> Tool("ThreadInput", "continue_", {"thread_id"}, "none"),
   step_over |-> Tool("ThreadInput", "step_over", {"thread_id"}, "none"),
   step_into |-> Tool("ThreadInput", "step_into", {"thread_id"}, "none"),
   step_out |-> Tool("ThreadInput", "step_out", {"thread_id"}, "none"),
   pause |-> Tool("ThreadInput", "pause", {"thread_id"}, "none")]

LocalInspect ==
  [get_threads |-> Tool("SessionRefInput", "get_threads", {}, "none"),
   get_stack |-> Tool("GetStackInput", "get_stack", {"thread_id", "levels"}, Compressor("stackTrace")),
   get_scopes |-> Tool("GetScopesInput", "get_scopes", {"frame_id"}, Compressor("scopes")),
   get_variables |-> Tool("GetVariablesInput", "get_variables", {"variables_reference"}, Compressor("variables")),
   evaluate |-> Tool("EvaluateInput", "evaluate", {"expression", "frame_id", "context"}, Compressor("evaluate")),
   get_exception |-> Tool("ThreadInput", "get_exception_info", {"thread_id"}, Compressor("exceptionInfo")),
   get_source |-> Tool("GetSourceInput", "get_source", {"source_reference", "path"}, "none")]

LocalRest ==
  [set_exception_breakpoints |-> Tool("SetExceptionBreakpointsInput", "set_exception_breakpoints", {"filters"}, "none"),
   get_output |-> Tool("SessionRefInput", "drain_output", {}, OutputEvents),
   wait_stopped |-> Tool("WaitStoppedInput", "wait_stopped", {"timeout_ms"}, "none"),
   disconnect |-> Tool("DisconnectInput", "disconnect", {"terminate_debuggee"}, "none"),
   terminate |-> Tool("SessionRefInput", "terminate", {}, "none"),
   send_raw |-> Tool("SendRawInput", "send_raw", {"command", "arguments"}, "none")]

LocalTools ==
  [t \in DOMAIN LocalStart \cup DOMAIN LocalControl \cup DOMAIN LocalInspect \cup DOMAIN LocalRest |->
     CASE t \in DOMAIN LocalStart -> LocalStart[t]
       [] t \in DOMAIN LocalControl -> LocalControl[t]
       [] t \in DOMAIN LocalInspect -> LocalInspect[t]
       [] OTHER -> LocalRest[t]]

(* DaemonMcpServer: ops of dap/invoke. *)

RemoteStart ==
  [debug_launch |-> Tool("DebugLaunchInput", "launch_program", {"program", "cwd", "args", "breakpoints"}, "none"),
   debug_attach |-> Tool("DebugAttachInput", "attach", {"arguments"}, "none")]

RemoteControl ==
  [set_breakpoints |-> Tool("SetBreakpointsInput", "set_breakpoints", {"source", "lines"}, "none"),
   set_exception_breakpoints |-> Tool("SetExceptionBreakpointsInput", "set_exception_breakpoints", {"filters"}, "none"),
   continue |-> Tool("ThreadInput", "continue", {"thread_id"}, "none"),
   step_over |-> Tool("ThreadInput", "step_over", {"thread_id"}, "none"),
   step_into |-> Tool("ThreadInput", "step_into", {"thread_id"}, "none"),
   step_out |-> Tool("ThreadInput", "step_out", {"thread_id"}, "none"),
   pause |-> Tool("ThreadInput", "pause", {"thread_id"}, "none")]

RemoteInspect ==
  [get_threads |-> Tool("SessionRefInput", "get_threads", {}, "none"),
   get_stack |-> Tool("GetStackInput", "get_stack", {"thread_id", "levels"}, Compressor("stackTrace")),
   get_scopes |-> Tool("GetScopesInput", "get_scopes", {"frame_id"}, Compressor("scopes")),
   get_variables |-> Tool("GetVariablesInput", "get_variables", {"variables_reference"}, Compressor("variables")),
   evaluate |-> Tool("EvaluateInput", "evaluate", {"expression", "frame_id", "context"}, Compressor("evaluate")),
   get_exception |-> Tool("ThreadInput", "get_exception", {"thread_id"}, Compressor("exceptionInfo")),
   get_source |-> Tool("GetSourceInput", "get_source", {"source_reference", "path"}, "none")]

RemoteRest ==
  [get_output |-> Tool("SessionRefInput", "drain_output", {}, OutputEvents),
   wait_stopped |-> Tool("WaitStoppedInput", "wait_stopped", {"timeout_ms"}, "none"),
   disconnect |-> Tool("DisconnectInput", "disconnect", {"terminate_debuggee"}, "none"),
   terminate |-> Tool("SessionRefInput", "terminate", {}, "none"),
   send_raw |-> Tool("SendRawInput", "send_raw", {"command", "arguments"}, "none")]

\* Mutant: get_exception invokes the op by the name of the session's method.
RemoteToolsException ==
  [t \in DOMAIN RemoteStart \cup DOMAIN RemoteControl \cup DOMAIN RemoteInspect \cup DOMAIN RemoteRest |->
     CASE t = "get_exception" -> [RemoteInspect[t] EXCEPT !.calls = "get_exception_info"]
       [] t \in DOMAIN RemoteStart -> RemoteStart[t]
       [] t \in DOMAIN RemoteControl -> RemoteControl[t]
       [] t \in DOMAIN RemoteInspect -> RemoteInspect[t]
       [] OTHER -> RemoteRest[t]]

RemoteTools ==
  [t \in DOMAIN RemoteStart \cup DOMAIN RemoteControl \cup DOMAIN RemoteInspect \cup DOMAIN RemoteRest |->
     CASE t \in DOMAIN RemoteStart -> RemoteStart[t]
       [] t \in DOMAIN RemoteControl -> RemoteControl[t]
       [] t \in DOMAIN RemoteInspect -> RemoteInspect[t]
       [] OTHER -> RemoteRest[t]]

----------------------------------------------------------------------------
(* invoke_session_op: the session method of each op, the arguments it needs *)
(* and those it takes if they are there.                                    *)

Invoked(method, must, may) == [method |-> method, must |-> must, all |-> must \cup may]

InvokeOps ==
  [launch_program |-> Invoked("launch_program", {"program"}, {"cwd", "args", "breakpoints"}),
   attach |-> Invoked("attach", {}, {"arguments"}),
   set_breakpoints |-> Invoked("set_breakpoints", {"source"}, {"lines"}),
   set_exception_breakpoints |-> Invoked("set_exception_breakpoints", {}, {"filters"}),
   continue |-> Invoked("continue_", {}, {"thread_id"}),
   step_over |-> Invoked("step_over", {}, {"thread_id"}),
   step_into |-> Invoked("step_into", {}, {"thread_id"}),
   step_out |-> Invoked("step_out", {}, {"thread_id"}),
   pause |-> Invoked("pause", {}, {"thread_id"}),
   get_threads |-> Invoked("get_threads", {}, {}),
   get_stack |-> Invoked("get_stack", {}, {"thread_id", "levels"}),
   get_scopes |-> Invoked("get_scopes", {"frame_id"}, {}),
   get_variables |-> Invoked("get_variables", {"variables_reference"}, {}),
   evaluate |-> Invoked("evaluate", {"expression"}, {"frame_id", "context"}),
   get_exception |-> Invoked("get_exception_info", {}, {"thread_id"}),
   get_source |-> Invoked("get_source", {"source_reference"}, {"path"}),
   drain_output |-> Invoked("drain_output", {}, {}),
   wait_stopped |-> Invoked("wait_stopped", {}, {"timeout_ms"}),
   disconnect |-> Invoked("disconnect", {}, {"terminate_debuggee"}),
   terminate |-> Invoked("terminate", {}, {}),
   send_raw |-> Invoked("send_raw", {"command"}, {"arguments"})]

\* An unknown op, or one without an argument it needs, is an error.
InvokeOk(op, sent) == op \in DOMAIN InvokeOps /\ InvokeOps[op].must \subseteq sent

----------------------------------------------------------------------------
(* AgentHandle, under the names of the tools: launch, attach, continue_ and *)
(* drain_output are debug_launch, debug_attach, continue and get_output.    *)
(* call_op gives the op to the daemon or calls the method of the session    *)
(* the handle owns, with the same arguments; they come typed.               *)

Agent(op, method, with, compressor) ==
  [op |-> op, method |-> method, with |-> with, compressor |-> compressor]

AgentControl ==
  [debug_launch |-> Agent("launch_program", "launch_program", {"program", "cwd", "args", "breakpoints"}, "none"),
   set_breakpoints |-> Agent("set_breakpoints", "set_breakpoints", {"source", "lines"}, "none"),
   continue |-> Agent("continue", "continue_", {"thread_id"}, "none"),
   step_over |-> Agent("step_over", "step_over", {"thread_id"}, "none"),
   step_into |-> Agent("step_into", "step_into", {"thread_id"}, "none"),
   step_out |-> Agent("step_out", "step_out", {"thread_id"}, "none"),
   pause |-> Agent("pause", "pause", {"thread_id"}, "none")]

AgentInspect ==
  [get_threads |-> Agent("get_threads", "get_threads", {}, "none"),
   get_stack |-> Agent("get_stack", "get_stack", {"thread_id", "levels"}, Compressor("stackTrace")),
   get_scopes |-> Agent("get_scopes", "get_scopes", {"frame_id"}, Compressor("scopes")),
   get_variables |-> Agent("get_variables", "get_variables", {"variables_reference"}, Compressor("variables")),
   evaluate |-> Agent("evaluate", "evaluate", {"expression", "frame_id", "context"}, Compressor("evaluate")),
   get_output |-> Agent("drain_output", "drain_output", {}, OutputEvents)]

AgentRest ==
  [wait_stopped |-> Agent("wait_stopped", "wait_stopped", {"timeout_ms"}, "none"),
   disconnect |-> Agent("disconnect", "disconnect", {"terminate_debuggee"}, "none"),
   terminate |-> Agent("terminate", "terminate", {}, "none"),
   send_raw |-> Agent("send_raw", "send_raw", {"command", "arguments"}, "none"),
   debug_attach |-> Agent("attach", "attach", {"arguments"}, "none"),
   get_source |-> Agent("get_source", "get_source", {"source_reference", "path"}, "none"),
   get_exception |-> Agent("get_exception", "get_exception_info", {"thread_id"}, Compressor("exceptionInfo")),
   set_exception_breakpoints |-> Agent("set_exception_breakpoints", "set_exception_breakpoints", {"filters"}, "none")]

AgentTools ==
  [t \in DOMAIN AgentControl \cup DOMAIN AgentInspect \cup DOMAIN AgentRest |->
     CASE t \in DOMAIN AgentControl -> AgentControl[t]
       [] t \in DOMAIN AgentInspect -> AgentInspect[t]
       [] OTHER -> AgentRest[t]]

----------------------------------------------------------------------------
(* AgentPool: the tool of the handle that each operation on a name stands   *)
(* for, and the arguments it passes on.                                     *)

Passes(tool, with) == [tool |-> tool, with |-> with]

PoolControl ==
  [debug_launch |-> Passes("debug_launch", {"program", "cwd", "args", "breakpoints"}),
   set_breakpoints |-> Passes("set_breakpoints", {"source", "lines"}),
   continue |-> Passes("continue", {"thread_id"}), step_over |-> Passes("step_over", {"thread_id"}),
   step_into |-> Passes("step_into", {"thread_id"}), step_out |-> Passes("step_out", {"thread_id"}),
   pause |-> Passes("pause", {"thread_id"})]

PoolInspect ==
  [get_threads |-> Passes("get_threads", {}),
   get_stack |-> Passes("get_stack", {"thread_id", "levels"}),
   get_scopes |-> Passes("get_scopes", {"frame_id"}),
   get_variables |-> Passes("get_variables", {"variables_reference"}),
   evaluate |-> Passes("evaluate", {"expression", "frame_id", "context"}),
   get_output |-> Passes("get_output", {})]

PoolRest ==
  [wait_stopped |-> Passes("wait_stopped", {"timeout_ms"}),
   disconnect |-> Passes("disconnect", {"terminate_debuggee"}), terminate |-> Passes("terminate", {}),
   send_raw |-> Passes("send_raw", {"command", "arguments"}), debug_attach |-> Passes("debug_attach", {"arguments"}),
   get_source |-> Passes("get_source", {"source_reference", "path"}),
   get_exception |-> Passes("get_exception", {"thread_id"}),
   set_exception_breakpoints |-> Passes("set_exception_breakpoints", {"filters"})]

PoolTools ==
  [t \in DOMAIN PoolControl \cup DOMAIN PoolInspect \cup DOMAIN PoolRest |->
     CASE t \in DOMAIN PoolControl -> PoolControl[t]
       [] t \in DOMAIN PoolInspect -> PoolInspect[t]
       [] OTHER -> PoolRest[t]]
=============================================================================
