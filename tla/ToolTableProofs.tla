--------------------------- MODULE ToolTableProofs ---------------------------
(***************************************************************************)
(* What the tables of ToolCatalog say of each tool: the arguments its       *)
(* schema offers are those that every front end hands on, to the method the *)
(* tool names.                                                              *)
(***************************************************************************)
EXTENDS FrontEndsProps, TLAPS

\* What a tool carries to the session, tool by tool.
Carried ==
  [debug_launch |-> {"program", "cwd", "args", "breakpoints"},
   debug_attach |-> {"arguments"}, set_breakpoints |-> {"source", "lines"},
   set_exception_breakpoints |-> {"filters"}, continue |-> {"thread_id"},
   step_over |-> {"thread_id"}, step_into |-> {"thread_id"}, step_out |-> {"thread_id"},
   pause |-> {"thread_id"}, get_threads |-> {}, get_stack |-> {"thread_id", "levels"},
   get_scopes |-> {"frame_id"}, get_variables |-> {"variables_reference"},
   evaluate |-> {"expression", "frame_id", "context"}, get_exception |-> {"thread_id"},
   get_source |-> {"source_reference", "path"}, get_output |-> {},
   wait_stopped |-> {"timeout_ms"}, disconnect |-> {"terminate_debuggee"}, terminate |-> {},
   send_raw |-> {"command", "arguments"}]

\* The compressor of its answer.
Shortener ==
  [debug_launch |-> "none", debug_attach |-> "none", set_breakpoints |-> "none",
   set_exception_breakpoints |-> "none", continue |-> "none", step_over |-> "none",
   step_into |-> "none", step_out |-> "none", pause |-> "none", get_threads |-> "none",
   get_stack |-> Compressor("stackTrace"), get_scopes |-> Compressor("scopes"),
   get_variables |-> Compressor("variables"), evaluate |-> Compressor("evaluate"),
   get_exception |-> Compressor("exceptionInfo"), get_source |-> "none",
   get_output |-> OutputEvents, wait_stopped |-> "none", disconnect |-> "none",
   terminate |-> "none", send_raw |-> "none"]

----------------------------------------------------------------------------
(* Tables. *)

\* The structs that serde fills are those the schemas describe.
LEMMA StructsMatch == DOMAIN Schema = DOMAIN Struct /\ \A i \in DOMAIN Struct : Schema[i] = Struct[i]
<1>1. DOMAIN StartSchema = {"DebugLaunchInput", "DebugAttachInput", "SetExceptionBreakpointsInput", "GetSourceInput"}
  BY DEF StartSchema
<1>2. /\ DOMAIN Schema = DOMAIN StartSchema \cup DOMAIN UseSchema
      /\ \A i \in DOMAIN StartSchema : Schema[i] = StartSchema[i]
      /\ \A i \in DOMAIN UseSchema \ DOMAIN StartSchema : Schema[i] = UseSchema[i]
  BY DEF Schema
<1>3. DOMAIN Struct = DOMAIN StartSchema \cup DOMAIN UseSchema
  BY DEF Struct, StartSchema, UseSchema
<1>4. \A i \in DOMAIN StartSchema : StartSchema[i] = Struct[i]
  BY DEF StartSchema, Struct
<1>5. \A i \in DOMAIN UseSchema : UseSchema[i] = Struct[i]
  BY DEF UseSchema, Struct
<1> QED
  BY <1>2, <1>3, <1>4, <1>5

\* What the schema of a tool offers, apart from the choice of the session, is what it carries.
LEMMA PayloadCarried ==
    ASSUME NEW t \in Tools
    PROVE  /\ ToolDefinitions[t] \in DOMAIN Struct
           /\ Must(t) = Struct[ToolDefinitions[t]].must
           /\ Payload(t) = Carried[t]
           /\ Carried[t] \subseteq Struct[ToolDefinitions[t]].all
<1>1. ToolDefinitions[t] \in DOMAIN Struct
  BY DEF Tools, ToolDefinitions, Struct
<1>2. Schema[ToolDefinitions[t]] = Struct[ToolDefinitions[t]]
  BY <1>1, StructsMatch
<1>3. Must(t) = Struct[ToolDefinitions[t]].must /\ All(t) = Struct[ToolDefinitions[t]].all
  BY <1>2 DEF Must, All
<1>4. t \in DOMAIN Carried
  BY DEF Tools, ToolDefinitions, Carried
<1> HIDE DEF Carried
<1>5. Payload(t) = Carried[t] /\ Carried[t] \subseteq Struct[ToolDefinitions[t]].all
  <2> USE <1>3 DEF Payload, Carried, ToolDefinitions, Struct, Fields, Session, Thread
  <2>1. CASE t = "debug_launch"
    BY <2>1
  <2>2. CASE t = "debug_attach"
    BY <2>2
  <2>3. CASE t = "set_breakpoints"
    BY <2>3
  <2>4. CASE t = "set_exception_breakpoints"
    BY <2>4
  <2>5. CASE t = "continue"
    BY <2>5
  <2>6. CASE t = "step_over"
    BY <2>6
  <2>7. CASE t = "step_into"
    BY <2>7
  <2>8. CASE t = "step_out"
    BY <2>8
  <2>9. CASE t = "pause"
    BY <2>9
  <2>10. CASE t = "get_threads"
    BY <2>10
  <2>11. CASE t = "get_stack"
    BY <2>11
  <2>12. CASE t = "get_scopes"
    BY <2>12
  <2>13. CASE t = "get_variables"
    BY <2>13
  <2>14. CASE t = "evaluate"
    BY <2>14
  <2>15. CASE t = "get_exception"
    BY <2>15
  <2>16. CASE t = "get_source"
    BY <2>16
  <2>17. CASE t = "get_output"
    BY <2>17
  <2>18. CASE t = "wait_stopped"
    BY <2>18
  <2>19. CASE t = "disconnect"
    BY <2>19
  <2>20. CASE t = "terminate"
    BY <2>20
  <2>21. CASE t = "send_raw"
    BY <2>21
  <2> HIDE <1>3 DEF Payload, Carried, ToolDefinitions, Struct, Fields, Session, Thread
  <2> QED
    BY <2>1, <2>2, <2>3, <2>4, <2>5, <2>6, <2>7, <2>8, <2>9, <2>10, <2>11, <2>12, <2>13, <2>14, <2>15, <2>16, <2>17, <2>18, <2>19, <2>20, <2>21 DEF Tools, ToolDefinitions
<1> QED
  BY <1>1, <1>3, <1>5


----------------------------------------------------------------------------
(* The rows of each table. *)

\* The rows of LocalStart, one by one.
LEMMA LocalStartRows ==
    ASSUME NEW t \in DOMAIN LocalStart
    PROVE  /\ t \in Tools
           /\ LocalStart[t].input = ToolDefinitions[t]
           /\ LocalStart[t].calls = Method(t)
           /\ LocalStart[t].with = Carried[t]
           /\ LocalStart[t].compressor = Shortener[t]
<1>0. t \in {"debug_launch", "debug_attach"}
  BY DEF LocalStart
<1>1. t \in Tools
  BY <1>0 DEF Tools, ToolDefinitions
<1>2. LocalStart[t].input = ToolDefinitions[t]
  BY DEF LocalStart, Tool, ToolDefinitions
<1>3. LocalStart[t].calls = Method(t)
  BY DEF LocalStart, Tool, Method
<1>4. /\ LocalStart.debug_launch.with = Carried.debug_launch
      /\ LocalStart.debug_attach.with = Carried.debug_attach
  BY DEF LocalStart, Tool, Carried
<1>5. /\ LocalStart.debug_launch.compressor = Shortener.debug_launch
      /\ LocalStart.debug_attach.compressor = Shortener.debug_attach
  BY DEF LocalStart, Tool, Shortener
<1> QED
  BY <1>0, <1>1, <1>2, <1>3, <1>4, <1>5

\* The rows of LocalControl, one by one.
LEMMA LocalControlRows ==
    ASSUME NEW t \in DOMAIN LocalControl
    PROVE  /\ t \in Tools
           /\ LocalControl[t].input = ToolDefinitions[t]
           /\ LocalControl[t].calls = Method(t)
           /\ LocalControl[t].with = Carried[t]
           /\ LocalControl[t].compressor = Shortener[t]
<1>0. t \in {"set_breakpoints", "continue", "step_over", "step_into", "step_out", "pause"}
  BY DEF LocalControl
<1>1. t \in Tools
  BY <1>0 DEF Tools, ToolDefinitions
<1>2. LocalControl[t].input = ToolDefinitions[t]
  BY DEF LocalControl, Tool, ToolDefinitions
<1>3. LocalControl[t].calls = Method(t)
  BY DEF LocalControl, Tool, Method
<1>4. /\ LocalControl.set_breakpoints.with = Carried.set_breakpoints
      /\ LocalControl.continue.with = Carried.continue
      /\ LocalControl.step_over.with = Carried.step_over
      /\ LocalControl.step_into.with = Carried.step_into
      /\ LocalControl.step_out.with = Carried.step_out
      /\ LocalControl.pause.with = Carried.pause
  BY DEF LocalControl, Tool, Carried
<1>5. /\ LocalControl.set_breakpoints.compressor = Shortener.set_breakpoints
      /\ LocalControl.continue.compressor = Shortener.continue
      /\ LocalControl.step_over.compressor = Shortener.step_over
      /\ LocalControl.step_into.compressor = Shortener.step_into
      /\ LocalControl.step_out.compressor = Shortener.step_out
      /\ LocalControl.pause.compressor = Shortener.pause
  BY DEF LocalControl, Tool, Shortener
<1> QED
  BY <1>0, <1>1, <1>2, <1>3, <1>4, <1>5

\* The rows of LocalInspect, one by one.
LEMMA LocalInspectRows ==
    ASSUME NEW t \in DOMAIN LocalInspect
    PROVE  /\ t \in Tools
           /\ LocalInspect[t].input = ToolDefinitions[t]
           /\ LocalInspect[t].calls = Method(t)
           /\ LocalInspect[t].with = Carried[t]
           /\ LocalInspect[t].compressor = Shortener[t]
<1>0. t \in {"get_threads", "get_stack", "get_scopes", "get_variables", "evaluate",
         "get_exception", "get_source"}
  BY DEF LocalInspect
<1>1. t \in Tools
  BY <1>0 DEF Tools, ToolDefinitions
<1>2. LocalInspect[t].input = ToolDefinitions[t]
  BY DEF LocalInspect, Tool, ToolDefinitions
<1>3. LocalInspect[t].calls = Method(t)
  BY DEF LocalInspect, Tool, Method
<1>4. /\ LocalInspect.get_threads.with = Carried.get_threads
      /\ LocalInspect.get_stack.with = Carried.get_stack
      /\ LocalInspect.get_scopes.with = Carried.get_scopes
      /\ LocalInspect.get_variables.with = Carried.get_variables
      /\ LocalInspect.evaluate.with = Carried.evaluate
      /\ LocalInspect.get_exception.with = Carried.get_exception
      /\ LocalInspect.get_source.with = Carried.get_source
  BY DEF LocalInspect, Tool, Carried
<1>5. /\ LocalInspect.get_threads.compressor = Shortener.get_threads
      /\ LocalInspect.get_stack.compressor = Shortener.get_stack
      /\ LocalInspect.get_scopes.compressor = Shortener.get_scopes
      /\ LocalInspect.get_variables.compressor = Shortener.get_variables
      /\ LocalInspect.evaluate.compressor = Shortener.evaluate
      /\ LocalInspect.get_exception.compressor = Shortener.get_exception
      /\ LocalInspect.get_source.compressor = Shortener.get_source
  BY DEF LocalInspect, Tool, Shortener
<1> QED
  BY <1>0, <1>1, <1>2, <1>3, <1>4, <1>5

\* The rows of LocalRest, one by one.
LEMMA LocalRestRows ==
    ASSUME NEW t \in DOMAIN LocalRest
    PROVE  /\ t \in Tools
           /\ LocalRest[t].input = ToolDefinitions[t]
           /\ LocalRest[t].calls = Method(t)
           /\ LocalRest[t].with = Carried[t]
           /\ LocalRest[t].compressor = Shortener[t]
<1>0. t \in {"set_exception_breakpoints", "get_output", "wait_stopped", "disconnect",
         "terminate", "send_raw"}
  BY DEF LocalRest
<1>1. t \in Tools
  BY <1>0 DEF Tools, ToolDefinitions
<1>2. LocalRest[t].input = ToolDefinitions[t]
  BY DEF LocalRest, Tool, ToolDefinitions
<1>3. LocalRest[t].calls = Method(t)
  BY DEF LocalRest, Tool, Method
<1>4. /\ LocalRest.set_exception_breakpoints.with = Carried.set_exception_breakpoints
      /\ LocalRest.get_output.with = Carried.get_output
      /\ LocalRest.wait_stopped.with = Carried.wait_stopped
      /\ LocalRest.disconnect.with = Carried.disconnect
      /\ LocalRest.terminate.with = Carried.terminate
      /\ LocalRest.send_raw.with = Carried.send_raw
  BY DEF LocalRest, Tool, Carried
<1>5. /\ LocalRest.set_exception_breakpoints.compressor = Shortener.set_exception_breakpoints
      /\ LocalRest.get_output.compressor = Shortener.get_output
      /\ LocalRest.wait_stopped.compressor = Shortener.wait_stopped
      /\ LocalRest.disconnect.compressor = Shortener.disconnect
      /\ LocalRest.terminate.compressor = Shortener.terminate
      /\ LocalRest.send_raw.compressor = Shortener.send_raw
  BY DEF LocalRest, Tool, Shortener
<1> QED
  BY <1>0, <1>1, <1>2, <1>3, <1>4, <1>5

\* The rows of RemoteStart, one by one.
LEMMA RemoteStartRows ==
    ASSUME NEW t \in DOMAIN RemoteStart
    PROVE  /\ t \in Tools
           /\ RemoteStart[t].input = ToolDefinitions[t]
           /\ RemoteStart[t].calls \in DOMAIN InvokeOps
           /\ InvokeOps[RemoteStart[t].calls].method = Method(t)
           /\ RemoteStart[t].with = Carried[t]
           /\ RemoteStart[t].compressor = Shortener[t]
           /\ InvokeOps[RemoteStart[t].calls].all = Carried[t]
           /\ InvokeOps[RemoteStart[t].calls].must \subseteq Struct[ToolDefinitions[t]].must
<1>0. t \in {"debug_launch", "debug_attach"}
  BY DEF RemoteStart
<1>1. t \in Tools
  BY <1>0 DEF Tools, ToolDefinitions
<1>2. RemoteStart[t].input = ToolDefinitions[t]
  BY DEF RemoteStart, Tool, ToolDefinitions
<1>3. RemoteStart[t].calls \in DOMAIN InvokeOps
  BY DEF RemoteStart, Tool, InvokeOps, Invoked
<1>4. InvokeOps[RemoteStart[t].calls].method = Method(t)
  BY DEF RemoteStart, Tool, Method, InvokeOps, Invoked
<1>5. /\ RemoteStart.debug_launch.with = Carried.debug_launch
      /\ RemoteStart.debug_attach.with = Carried.debug_attach
  BY DEF RemoteStart, Tool, Carried
<1>6. /\ RemoteStart.debug_launch.compressor = Shortener.debug_launch
      /\ RemoteStart.debug_attach.compressor = Shortener.debug_attach
  BY DEF RemoteStart, Tool, Shortener
<1>7. /\ InvokeOps[RemoteStart.debug_launch.calls].all = Carried.debug_launch
      /\ InvokeOps[RemoteStart.debug_attach.calls].all = Carried.debug_attach
  BY DEF RemoteStart, Tool, Carried, InvokeOps, Invoked
<1>8. /\ InvokeOps[RemoteStart.debug_launch.calls].must \subseteq Struct[ToolDefinitions.debug_launch].must
      /\ InvokeOps[RemoteStart.debug_attach.calls].must \subseteq Struct[ToolDefinitions.debug_attach].must
  <2>1. InvokeOps[RemoteStart.debug_launch.calls].must \subseteq Struct[ToolDefinitions.debug_launch].must
    BY DEF RemoteStart, Tool, InvokeOps, Invoked, Struct, Fields, ToolDefinitions
  <2>2. InvokeOps[RemoteStart.debug_attach.calls].must \subseteq Struct[ToolDefinitions.debug_attach].must
    BY DEF RemoteStart, Tool, InvokeOps, Invoked, Struct, Fields, ToolDefinitions
  <2> QED
    BY <2>1, <2>2
<1> QED
  BY <1>0, <1>1, <1>2, <1>3, <1>4, <1>5, <1>6, <1>7, <1>8

\* The rows of RemoteControl, one by one.
LEMMA RemoteControlRows ==
    ASSUME NEW t \in DOMAIN RemoteControl
    PROVE  /\ t \in Tools
           /\ RemoteControl[t].input = ToolDefinitions[t]
           /\ RemoteControl[t].calls \in DOMAIN InvokeOps
           /\ InvokeOps[RemoteControl[t].calls].method = Method(t)
           /\ RemoteControl[t].with = Carried[t]
           /\ RemoteControl[t].compressor = Shortener[t]
           /\ InvokeOps[RemoteControl[t].calls].all = Carried[t]
           /\ InvokeOps[RemoteControl[t].calls].must \subseteq Struct[ToolDefinitions[t]].must
<1>0. t \in {"set_breakpoints", "set_exception_breakpoints", "continue", "step_over",
         "step_into", "step_out", "pause"}
  BY DEF RemoteControl
<1>1. t \in Tools
  BY <1>0 DEF Tools, ToolDefinitions
<1>2. RemoteControl[t].input = ToolDefinitions[t]
  BY DEF RemoteControl, Tool, ToolDefinitions
<1>3. RemoteControl[t].calls \in DOMAIN InvokeOps
  BY DEF RemoteControl, Tool, InvokeOps, Invoked
<1>4. InvokeOps[RemoteControl[t].calls].method = Method(t)
  BY DEF RemoteControl, Tool, Method, InvokeOps, Invoked
<1>5. /\ RemoteControl.set_breakpoints.with = Carried.set_breakpoints
      /\ RemoteControl.set_exception_breakpoints.with = Carried.set_exception_breakpoints
      /\ RemoteControl.continue.with = Carried.continue
      /\ RemoteControl.step_over.with = Carried.step_over
      /\ RemoteControl.step_into.with = Carried.step_into
      /\ RemoteControl.step_out.with = Carried.step_out
      /\ RemoteControl.pause.with = Carried.pause
  BY DEF RemoteControl, Tool, Carried
<1>6. /\ RemoteControl.set_breakpoints.compressor = Shortener.set_breakpoints
      /\ RemoteControl.set_exception_breakpoints.compressor = Shortener.set_exception_breakpoints
      /\ RemoteControl.continue.compressor = Shortener.continue
      /\ RemoteControl.step_over.compressor = Shortener.step_over
      /\ RemoteControl.step_into.compressor = Shortener.step_into
      /\ RemoteControl.step_out.compressor = Shortener.step_out
      /\ RemoteControl.pause.compressor = Shortener.pause
  BY DEF RemoteControl, Tool, Shortener
<1>7. /\ InvokeOps[RemoteControl.set_breakpoints.calls].all = Carried.set_breakpoints
      /\ InvokeOps[RemoteControl.set_exception_breakpoints.calls].all = Carried.set_exception_breakpoints
      /\ InvokeOps[RemoteControl.continue.calls].all = Carried.continue
      /\ InvokeOps[RemoteControl.step_over.calls].all = Carried.step_over
      /\ InvokeOps[RemoteControl.step_into.calls].all = Carried.step_into
      /\ InvokeOps[RemoteControl.step_out.calls].all = Carried.step_out
      /\ InvokeOps[RemoteControl.pause.calls].all = Carried.pause
  BY DEF RemoteControl, Tool, Carried, InvokeOps, Invoked
<1>8. /\ InvokeOps[RemoteControl.set_breakpoints.calls].must \subseteq Struct[ToolDefinitions.set_breakpoints].must
      /\ InvokeOps[RemoteControl.set_exception_breakpoints.calls].must \subseteq Struct[ToolDefinitions.set_exception_breakpoints].must
      /\ InvokeOps[RemoteControl.continue.calls].must \subseteq Struct[ToolDefinitions.continue].must
      /\ InvokeOps[RemoteControl.step_over.calls].must \subseteq Struct[ToolDefinitions.step_over].must
      /\ InvokeOps[RemoteControl.step_into.calls].must \subseteq Struct[ToolDefinitions.step_into].must
      /\ InvokeOps[RemoteControl.step_out.calls].must \subseteq Struct[ToolDefinitions.step_out].must
      /\ InvokeOps[RemoteControl.pause.calls].must \subseteq Struct[ToolDefinitions.pause].must
  <2>1. InvokeOps[RemoteControl.set_breakpoints.calls].must \subseteq Struct[ToolDefinitions.set_breakpoints].must
    BY DEF RemoteControl, Tool, InvokeOps, Invoked, Struct, Fields, ToolDefinitions
  <2>2. InvokeOps[RemoteControl.set_exception_breakpoints.calls].must \subseteq Struct[ToolDefinitions.set_exception_breakpoints].must
    BY DEF RemoteControl, Tool, InvokeOps, Invoked, Struct, Fields, ToolDefinitions
  <2>3. InvokeOps[RemoteControl.continue.calls].must \subseteq Struct[ToolDefinitions.continue].must
    BY DEF RemoteControl, Tool, InvokeOps, Invoked, Struct, Fields, ToolDefinitions
  <2>4. InvokeOps[RemoteControl.step_over.calls].must \subseteq Struct[ToolDefinitions.step_over].must
    BY DEF RemoteControl, Tool, InvokeOps, Invoked, Struct, Fields, ToolDefinitions
  <2>5. InvokeOps[RemoteControl.step_into.calls].must \subseteq Struct[ToolDefinitions.step_into].must
    BY DEF RemoteControl, Tool, InvokeOps, Invoked, Struct, Fields, ToolDefinitions
  <2>6. InvokeOps[RemoteControl.step_out.calls].must \subseteq Struct[ToolDefinitions.step_out].must
    BY DEF RemoteControl, Tool, InvokeOps, Invoked, Struct, Fields, ToolDefinitions
  <2>7. InvokeOps[RemoteControl.pause.calls].must \subseteq Struct[ToolDefinitions.pause].must
    BY DEF RemoteControl, Tool, InvokeOps, Invoked, Struct, Fields, ToolDefinitions
  <2> QED
    BY <2>1, <2>2, <2>3, <2>4, <2>5, <2>6, <2>7
<1> QED
  BY <1>0, <1>1, <1>2, <1>3, <1>4, <1>5, <1>6, <1>7, <1>8

\* The rows of RemoteInspect, one by one.
LEMMA RemoteInspectRows ==
    ASSUME NEW t \in DOMAIN RemoteInspect
    PROVE  /\ t \in Tools
           /\ RemoteInspect[t].input = ToolDefinitions[t]
           /\ RemoteInspect[t].calls \in DOMAIN InvokeOps
           /\ InvokeOps[RemoteInspect[t].calls].method = Method(t)
           /\ RemoteInspect[t].with = Carried[t]
           /\ RemoteInspect[t].compressor = Shortener[t]
           /\ InvokeOps[RemoteInspect[t].calls].all = Carried[t]
           /\ InvokeOps[RemoteInspect[t].calls].must \subseteq Struct[ToolDefinitions[t]].must
<1>0. t \in {"get_threads", "get_stack", "get_scopes", "get_variables", "evaluate",
         "get_exception", "get_source"}
  BY DEF RemoteInspect
<1>1. t \in Tools
  BY <1>0 DEF Tools, ToolDefinitions
<1>2. RemoteInspect[t].input = ToolDefinitions[t]
  BY DEF RemoteInspect, Tool, ToolDefinitions
<1>3. RemoteInspect[t].calls \in DOMAIN InvokeOps
  BY DEF RemoteInspect, Tool, InvokeOps, Invoked
<1>4. InvokeOps[RemoteInspect[t].calls].method = Method(t)
  BY DEF RemoteInspect, Tool, Method, InvokeOps, Invoked
<1>5. /\ RemoteInspect.get_threads.with = Carried.get_threads
      /\ RemoteInspect.get_stack.with = Carried.get_stack
      /\ RemoteInspect.get_scopes.with = Carried.get_scopes
      /\ RemoteInspect.get_variables.with = Carried.get_variables
      /\ RemoteInspect.evaluate.with = Carried.evaluate
      /\ RemoteInspect.get_exception.with = Carried.get_exception
      /\ RemoteInspect.get_source.with = Carried.get_source
  BY DEF RemoteInspect, Tool, Carried
<1>6. /\ RemoteInspect.get_threads.compressor = Shortener.get_threads
      /\ RemoteInspect.get_stack.compressor = Shortener.get_stack
      /\ RemoteInspect.get_scopes.compressor = Shortener.get_scopes
      /\ RemoteInspect.get_variables.compressor = Shortener.get_variables
      /\ RemoteInspect.evaluate.compressor = Shortener.evaluate
      /\ RemoteInspect.get_exception.compressor = Shortener.get_exception
      /\ RemoteInspect.get_source.compressor = Shortener.get_source
  BY DEF RemoteInspect, Tool, Shortener
<1>7. /\ InvokeOps[RemoteInspect.get_threads.calls].all = Carried.get_threads
      /\ InvokeOps[RemoteInspect.get_stack.calls].all = Carried.get_stack
      /\ InvokeOps[RemoteInspect.get_scopes.calls].all = Carried.get_scopes
      /\ InvokeOps[RemoteInspect.get_variables.calls].all = Carried.get_variables
      /\ InvokeOps[RemoteInspect.evaluate.calls].all = Carried.evaluate
      /\ InvokeOps[RemoteInspect.get_exception.calls].all = Carried.get_exception
      /\ InvokeOps[RemoteInspect.get_source.calls].all = Carried.get_source
  BY DEF RemoteInspect, Tool, Carried, InvokeOps, Invoked
<1>8. /\ InvokeOps[RemoteInspect.get_threads.calls].must \subseteq Struct[ToolDefinitions.get_threads].must
      /\ InvokeOps[RemoteInspect.get_stack.calls].must \subseteq Struct[ToolDefinitions.get_stack].must
      /\ InvokeOps[RemoteInspect.get_scopes.calls].must \subseteq Struct[ToolDefinitions.get_scopes].must
      /\ InvokeOps[RemoteInspect.get_variables.calls].must \subseteq Struct[ToolDefinitions.get_variables].must
      /\ InvokeOps[RemoteInspect.evaluate.calls].must \subseteq Struct[ToolDefinitions.evaluate].must
      /\ InvokeOps[RemoteInspect.get_exception.calls].must \subseteq Struct[ToolDefinitions.get_exception].must
      /\ InvokeOps[RemoteInspect.get_source.calls].must \subseteq Struct[ToolDefinitions.get_source].must
  <2>1. InvokeOps[RemoteInspect.get_threads.calls].must \subseteq Struct[ToolDefinitions.get_threads].must
    BY DEF RemoteInspect, Tool, InvokeOps, Invoked, Struct, Fields, ToolDefinitions
  <2>2. InvokeOps[RemoteInspect.get_stack.calls].must \subseteq Struct[ToolDefinitions.get_stack].must
    BY DEF RemoteInspect, Tool, InvokeOps, Invoked, Struct, Fields, ToolDefinitions
  <2>3. InvokeOps[RemoteInspect.get_scopes.calls].must \subseteq Struct[ToolDefinitions.get_scopes].must
    BY DEF RemoteInspect, Tool, InvokeOps, Invoked, Struct, Fields, ToolDefinitions
  <2>4. InvokeOps[RemoteInspect.get_variables.calls].must \subseteq Struct[ToolDefinitions.get_variables].must
    BY DEF RemoteInspect, Tool, InvokeOps, Invoked, Struct, Fields, ToolDefinitions
  <2>5. InvokeOps[RemoteInspect.evaluate.calls].must \subseteq Struct[ToolDefinitions.evaluate].must
    BY DEF RemoteInspect, Tool, InvokeOps, Invoked, Struct, Fields, ToolDefinitions
  <2>6. InvokeOps[RemoteInspect.get_exception.calls].must \subseteq Struct[ToolDefinitions.get_exception].must
    BY DEF RemoteInspect, Tool, InvokeOps, Invoked, Struct, Fields, ToolDefinitions
  <2>7. InvokeOps[RemoteInspect.get_source.calls].must \subseteq Struct[ToolDefinitions.get_source].must
    BY DEF RemoteInspect, Tool, InvokeOps, Invoked, Struct, Fields, ToolDefinitions
  <2> QED
    BY <2>1, <2>2, <2>3, <2>4, <2>5, <2>6, <2>7
<1> QED
  BY <1>0, <1>1, <1>2, <1>3, <1>4, <1>5, <1>6, <1>7, <1>8

\* The rows of RemoteRest, one by one.
LEMMA RemoteRestRows ==
    ASSUME NEW t \in DOMAIN RemoteRest
    PROVE  /\ t \in Tools
           /\ RemoteRest[t].input = ToolDefinitions[t]
           /\ RemoteRest[t].calls \in DOMAIN InvokeOps
           /\ InvokeOps[RemoteRest[t].calls].method = Method(t)
           /\ RemoteRest[t].with = Carried[t]
           /\ RemoteRest[t].compressor = Shortener[t]
           /\ InvokeOps[RemoteRest[t].calls].all = Carried[t]
           /\ InvokeOps[RemoteRest[t].calls].must \subseteq Struct[ToolDefinitions[t]].must
<1>0. t \in {"get_output", "wait_stopped", "disconnect", "terminate", "send_raw"}
  BY DEF RemoteRest
<1>1. t \in Tools
  BY <1>0 DEF Tools, ToolDefinitions
<1>2. RemoteRest[t].input = ToolDefinitions[t]
  BY DEF RemoteRest, Tool, ToolDefinitions
<1>3. RemoteRest[t].calls \in DOMAIN InvokeOps
  BY DEF RemoteRest, Tool, InvokeOps, Invoked
<1>4. InvokeOps[RemoteRest[t].calls].method = Method(t)
  BY DEF RemoteRest, Tool, Method, InvokeOps, Invoked
<1>5. /\ RemoteRest.get_output.with = Carried.get_output
      /\ RemoteRest.wait_stopped.with = Carried.wait_stopped
      /\ RemoteRest.disconnect.with = Carried.disconnect
      /\ RemoteRest.terminate.with = Carried.terminate
      /\ RemoteRest.send_raw.with = Carried.send_raw
  BY DEF RemoteRest, Tool, Carried
<1>6. /\ RemoteRest.get_output.compressor = Shortener.get_output
      /\ RemoteRest.wait_stopped.compressor = Shortener.wait_stopped
      /\ RemoteRest.disconnect.compressor = Shortener.disconnect
      /\ RemoteRest.terminate.compressor = Shortener.terminate
      /\ RemoteRest.send_raw.compressor = Shortener.send_raw
  BY DEF RemoteRest, Tool, Shortener
<1>7. /\ InvokeOps[RemoteRest.get_output.calls].all = Carried.get_output
      /\ InvokeOps[RemoteRest.wait_stopped.calls].all = Carried.wait_stopped
      /\ InvokeOps[RemoteRest.disconnect.calls].all = Carried.disconnect
      /\ InvokeOps[RemoteRest.terminate.calls].all = Carried.terminate
      /\ InvokeOps[RemoteRest.send_raw.calls].all = Carried.send_raw
  BY DEF RemoteRest, Tool, Carried, InvokeOps, Invoked
<1>8. /\ InvokeOps[RemoteRest.get_output.calls].must \subseteq Struct[ToolDefinitions.get_output].must
      /\ InvokeOps[RemoteRest.wait_stopped.calls].must \subseteq Struct[ToolDefinitions.wait_stopped].must
      /\ InvokeOps[RemoteRest.disconnect.calls].must \subseteq Struct[ToolDefinitions.disconnect].must
      /\ InvokeOps[RemoteRest.terminate.calls].must \subseteq Struct[ToolDefinitions.terminate].must
      /\ InvokeOps[RemoteRest.send_raw.calls].must \subseteq Struct[ToolDefinitions.send_raw].must
  <2>1. InvokeOps[RemoteRest.get_output.calls].must \subseteq Struct[ToolDefinitions.get_output].must
    BY DEF RemoteRest, Tool, InvokeOps, Invoked, Struct, Fields, ToolDefinitions
  <2>2. InvokeOps[RemoteRest.wait_stopped.calls].must \subseteq Struct[ToolDefinitions.wait_stopped].must
    BY DEF RemoteRest, Tool, InvokeOps, Invoked, Struct, Fields, ToolDefinitions
  <2>3. InvokeOps[RemoteRest.disconnect.calls].must \subseteq Struct[ToolDefinitions.disconnect].must
    BY DEF RemoteRest, Tool, InvokeOps, Invoked, Struct, Fields, ToolDefinitions
  <2>4. InvokeOps[RemoteRest.terminate.calls].must \subseteq Struct[ToolDefinitions.terminate].must
    BY DEF RemoteRest, Tool, InvokeOps, Invoked, Struct, Fields, ToolDefinitions
  <2>5. InvokeOps[RemoteRest.send_raw.calls].must \subseteq Struct[ToolDefinitions.send_raw].must
    BY DEF RemoteRest, Tool, InvokeOps, Invoked, Struct, Fields, ToolDefinitions
  <2> QED
    BY <2>1, <2>2, <2>3, <2>4, <2>5
<1> QED
  BY <1>0, <1>1, <1>2, <1>3, <1>4, <1>5, <1>6, <1>7, <1>8

\* The rows of AgentControl, one by one.
LEMMA AgentControlRows ==
    ASSUME NEW t \in DOMAIN AgentControl
    PROVE  /\ t \in Tools
           /\ AgentControl[t].method = Method(t)
           /\ AgentControl[t].op \in DOMAIN InvokeOps
           /\ InvokeOps[AgentControl[t].op].method = Method(t)
           /\ AgentControl[t].with = Carried[t]
           /\ AgentControl[t].compressor = Shortener[t]
           /\ InvokeOps[AgentControl[t].op].all = Carried[t]
<1>0. t \in {"debug_launch", "set_breakpoints", "continue", "step_over", "step_into",
         "step_out", "pause"}
  BY DEF AgentControl
<1>1. t \in Tools
  BY <1>0 DEF Tools, ToolDefinitions
<1>2. AgentControl[t].method = Method(t)
  BY DEF AgentControl, Agent, Method
<1>3. AgentControl[t].op \in DOMAIN InvokeOps
  BY DEF AgentControl, Agent, InvokeOps, Invoked
<1>4. InvokeOps[AgentControl[t].op].method = Method(t)
  BY DEF AgentControl, Agent, Method, InvokeOps, Invoked
<1>5. /\ AgentControl.debug_launch.with = Carried.debug_launch
      /\ AgentControl.set_breakpoints.with = Carried.set_breakpoints
      /\ AgentControl.continue.with = Carried.continue
      /\ AgentControl.step_over.with = Carried.step_over
      /\ AgentControl.step_into.with = Carried.step_into
      /\ AgentControl.step_out.with = Carried.step_out
      /\ AgentControl.pause.with = Carried.pause
  BY DEF AgentControl, Agent, Carried
<1>6. /\ AgentControl.debug_launch.compressor = Shortener.debug_launch
      /\ AgentControl.set_breakpoints.compressor = Shortener.set_breakpoints
      /\ AgentControl.continue.compressor = Shortener.continue
      /\ AgentControl.step_over.compressor = Shortener.step_over
      /\ AgentControl.step_into.compressor = Shortener.step_into
      /\ AgentControl.step_out.compressor = Shortener.step_out
      /\ AgentControl.pause.compressor = Shortener.pause
  BY DEF AgentControl, Agent, Shortener
<1>7. /\ InvokeOps[AgentControl.debug_launch.op].all = Carried.debug_launch
      /\ InvokeOps[AgentControl.set_breakpoints.op].all = Carried.set_breakpoints
      /\ InvokeOps[AgentControl.continue.op].all = Carried.continue
      /\ InvokeOps[AgentControl.step_over.op].all = Carried.step_over
      /\ InvokeOps[AgentControl.step_into.op].all = Carried.step_into
      /\ InvokeOps[AgentControl.step_out.op].all = Carried.step_out
      /\ InvokeOps[AgentControl.pause.op].all = Carried.pause
  BY DEF AgentControl, Agent, Carried, InvokeOps, Invoked
<1> QED
  BY <1>0, <1>1, <1>2, <1>3, <1>4, <1>5, <1>6, <1>7

\* The rows of AgentInspect, one by one.
LEMMA AgentInspectRows ==
    ASSUME NEW t \in DOMAIN AgentInspect
    PROVE  /\ t \in Tools
           /\ AgentInspect[t].method = Method(t)
           /\ AgentInspect[t].op \in DOMAIN InvokeOps
           /\ InvokeOps[AgentInspect[t].op].method = Method(t)
           /\ AgentInspect[t].with = Carried[t]
           /\ AgentInspect[t].compressor = Shortener[t]
           /\ InvokeOps[AgentInspect[t].op].all = Carried[t]
<1>0. t \in {"get_threads", "get_stack", "get_scopes", "get_variables", "evaluate",
         "get_output"}
  BY DEF AgentInspect
<1>1. t \in Tools
  BY <1>0 DEF Tools, ToolDefinitions
<1>2. AgentInspect[t].method = Method(t)
  BY DEF AgentInspect, Agent, Method
<1>3. AgentInspect[t].op \in DOMAIN InvokeOps
  BY DEF AgentInspect, Agent, InvokeOps, Invoked
<1>4. InvokeOps[AgentInspect[t].op].method = Method(t)
  BY DEF AgentInspect, Agent, Method, InvokeOps, Invoked
<1>5. /\ AgentInspect.get_threads.with = Carried.get_threads
      /\ AgentInspect.get_stack.with = Carried.get_stack
      /\ AgentInspect.get_scopes.with = Carried.get_scopes
      /\ AgentInspect.get_variables.with = Carried.get_variables
      /\ AgentInspect.evaluate.with = Carried.evaluate
      /\ AgentInspect.get_output.with = Carried.get_output
  BY DEF AgentInspect, Agent, Carried
<1>6. /\ AgentInspect.get_threads.compressor = Shortener.get_threads
      /\ AgentInspect.get_stack.compressor = Shortener.get_stack
      /\ AgentInspect.get_scopes.compressor = Shortener.get_scopes
      /\ AgentInspect.get_variables.compressor = Shortener.get_variables
      /\ AgentInspect.evaluate.compressor = Shortener.evaluate
      /\ AgentInspect.get_output.compressor = Shortener.get_output
  BY DEF AgentInspect, Agent, Shortener
<1>7. /\ InvokeOps[AgentInspect.get_threads.op].all = Carried.get_threads
      /\ InvokeOps[AgentInspect.get_stack.op].all = Carried.get_stack
      /\ InvokeOps[AgentInspect.get_scopes.op].all = Carried.get_scopes
      /\ InvokeOps[AgentInspect.get_variables.op].all = Carried.get_variables
      /\ InvokeOps[AgentInspect.evaluate.op].all = Carried.evaluate
      /\ InvokeOps[AgentInspect.get_output.op].all = Carried.get_output
  BY DEF AgentInspect, Agent, Carried, InvokeOps, Invoked
<1> QED
  BY <1>0, <1>1, <1>2, <1>3, <1>4, <1>5, <1>6, <1>7

\* The rows of AgentRest, one by one.
LEMMA AgentRestRows ==
    ASSUME NEW t \in DOMAIN AgentRest
    PROVE  /\ t \in Tools
           /\ AgentRest[t].method = Method(t)
           /\ AgentRest[t].op \in DOMAIN InvokeOps
           /\ InvokeOps[AgentRest[t].op].method = Method(t)
           /\ AgentRest[t].with = Carried[t]
           /\ AgentRest[t].compressor = Shortener[t]
           /\ InvokeOps[AgentRest[t].op].all = Carried[t]
<1>0. t \in {"wait_stopped", "disconnect", "terminate", "send_raw", "debug_attach",
         "get_source", "get_exception", "set_exception_breakpoints"}
  BY DEF AgentRest
<1>1. t \in Tools
  BY <1>0 DEF Tools, ToolDefinitions
<1>2. AgentRest[t].method = Method(t)
  BY DEF AgentRest, Agent, Method
<1>3. AgentRest[t].op \in DOMAIN InvokeOps
  BY DEF AgentRest, Agent, InvokeOps, Invoked
<1>4. InvokeOps[AgentRest[t].op].method = Method(t)
  BY DEF AgentRest, Agent, Method, InvokeOps, Invoked
<1>5. /\ AgentRest.wait_stopped.with = Carried.wait_stopped
      /\ AgentRest.disconnect.with = Carried.disconnect
      /\ AgentRest.terminate.with = Carried.terminate
      /\ AgentRest.send_raw.with = Carried.send_raw
      /\ AgentRest.debug_attach.with = Carried.debug_attach
      /\ AgentRest.get_source.with = Carried.get_source
      /\ AgentRest.get_exception.with = Carried.get_exception
      /\ AgentRest.set_exception_breakpoints.with = Carried.set_exception_breakpoints
  BY DEF AgentRest, Agent, Carried
<1>6. /\ AgentRest.wait_stopped.compressor = Shortener.wait_stopped
      /\ AgentRest.disconnect.compressor = Shortener.disconnect
      /\ AgentRest.terminate.compressor = Shortener.terminate
      /\ AgentRest.send_raw.compressor = Shortener.send_raw
      /\ AgentRest.debug_attach.compressor = Shortener.debug_attach
      /\ AgentRest.get_source.compressor = Shortener.get_source
      /\ AgentRest.get_exception.compressor = Shortener.get_exception
      /\ AgentRest.set_exception_breakpoints.compressor = Shortener.set_exception_breakpoints
  BY DEF AgentRest, Agent, Shortener
<1>7. /\ InvokeOps[AgentRest.wait_stopped.op].all = Carried.wait_stopped
      /\ InvokeOps[AgentRest.disconnect.op].all = Carried.disconnect
      /\ InvokeOps[AgentRest.terminate.op].all = Carried.terminate
      /\ InvokeOps[AgentRest.send_raw.op].all = Carried.send_raw
      /\ InvokeOps[AgentRest.debug_attach.op].all = Carried.debug_attach
      /\ InvokeOps[AgentRest.get_source.op].all = Carried.get_source
      /\ InvokeOps[AgentRest.get_exception.op].all = Carried.get_exception
      /\ InvokeOps[AgentRest.set_exception_breakpoints.op].all = Carried.set_exception_breakpoints
  BY DEF AgentRest, Agent, Carried, InvokeOps, Invoked
<1> QED
  BY <1>0, <1>1, <1>2, <1>3, <1>4, <1>5, <1>6, <1>7

\* The rows of PoolControl, one by one.
LEMMA PoolControlRows ==
    ASSUME NEW t \in DOMAIN PoolControl
    PROVE  /\ t \in Tools
           /\ PoolControl[t].tool = t
           /\ PoolControl[t].with = Carried[t]
<1>0. t \in {"debug_launch", "set_breakpoints", "continue", "step_over", "step_into",
         "step_out", "pause"}
  BY DEF PoolControl
<1>1. t \in Tools
  BY <1>0 DEF Tools, ToolDefinitions
<1>2. PoolControl[t].tool = t
  BY DEF PoolControl, Passes
<1>3. /\ PoolControl.debug_launch.with = Carried.debug_launch
      /\ PoolControl.set_breakpoints.with = Carried.set_breakpoints
      /\ PoolControl.continue.with = Carried.continue
      /\ PoolControl.step_over.with = Carried.step_over
      /\ PoolControl.step_into.with = Carried.step_into
      /\ PoolControl.step_out.with = Carried.step_out
      /\ PoolControl.pause.with = Carried.pause
  BY DEF PoolControl, Passes, Carried
<1> QED
  BY <1>0, <1>1, <1>2, <1>3

\* The rows of PoolInspect, one by one.
LEMMA PoolInspectRows ==
    ASSUME NEW t \in DOMAIN PoolInspect
    PROVE  /\ t \in Tools
           /\ PoolInspect[t].tool = t
           /\ PoolInspect[t].with = Carried[t]
<1>0. t \in {"get_threads", "get_stack", "get_scopes", "get_variables", "evaluate",
         "get_output"}
  BY DEF PoolInspect
<1>1. t \in Tools
  BY <1>0 DEF Tools, ToolDefinitions
<1>2. PoolInspect[t].tool = t
  BY DEF PoolInspect, Passes
<1>3. /\ PoolInspect.get_threads.with = Carried.get_threads
      /\ PoolInspect.get_stack.with = Carried.get_stack
      /\ PoolInspect.get_scopes.with = Carried.get_scopes
      /\ PoolInspect.get_variables.with = Carried.get_variables
      /\ PoolInspect.evaluate.with = Carried.evaluate
      /\ PoolInspect.get_output.with = Carried.get_output
  BY DEF PoolInspect, Passes, Carried
<1> QED
  BY <1>0, <1>1, <1>2, <1>3

\* The rows of PoolRest, one by one.
LEMMA PoolRestRows ==
    ASSUME NEW t \in DOMAIN PoolRest
    PROVE  /\ t \in Tools
           /\ PoolRest[t].tool = t
           /\ PoolRest[t].with = Carried[t]
<1>0. t \in {"wait_stopped", "disconnect", "terminate", "send_raw", "debug_attach",
         "get_source", "get_exception", "set_exception_breakpoints"}
  BY DEF PoolRest
<1>1. t \in Tools
  BY <1>0 DEF Tools, ToolDefinitions
<1>2. PoolRest[t].tool = t
  BY DEF PoolRest, Passes
<1>3. /\ PoolRest.wait_stopped.with = Carried.wait_stopped
      /\ PoolRest.disconnect.with = Carried.disconnect
      /\ PoolRest.terminate.with = Carried.terminate
      /\ PoolRest.send_raw.with = Carried.send_raw
      /\ PoolRest.debug_attach.with = Carried.debug_attach
      /\ PoolRest.get_source.with = Carried.get_source
      /\ PoolRest.get_exception.with = Carried.get_exception
      /\ PoolRest.set_exception_breakpoints.with = Carried.set_exception_breakpoints
  BY DEF PoolRest, Passes, Carried
<1> QED
  BY <1>0, <1>1, <1>2, <1>3

----------------------------------------------------------------------------
(* Each front end has a row for each tool. *)

\* McpServer calls the method a tool names.
LEMMA LocalRows ==
    /\ DOMAIN LocalTools = Tools
    /\ \A t \in Tools :
         /\ LocalTools[t].input = ToolDefinitions[t]
         /\ LocalTools[t].calls = Method(t)
         /\ LocalTools[t].with = Carried[t]
         /\ LocalTools[t].compressor = Shortener[t]
<1>1. DOMAIN LocalStart = {"debug_launch", "debug_attach"}
  BY DEF LocalStart
<1>2. DOMAIN LocalControl = {"set_breakpoints", "continue", "step_over", "step_into", "step_out", "pause"}
  BY DEF LocalControl
<1>3. DOMAIN LocalInspect = {"get_threads", "get_stack", "get_scopes", "get_variables", "evaluate", "get_exception",
               "get_source"}
  BY DEF LocalInspect
<1>4. DOMAIN LocalRest = {"set_exception_breakpoints", "get_output", "wait_stopped", "disconnect", "terminate",
               "send_raw"}
  BY DEF LocalRest
<1>5. /\ DOMAIN LocalTools = DOMAIN LocalStart \cup DOMAIN LocalControl \cup DOMAIN LocalInspect \cup DOMAIN LocalRest
      /\ \A t \in DOMAIN LocalTools : \/ t \in DOMAIN LocalStart /\ LocalTools[t] = LocalStart[t]
                                      \/ t \in DOMAIN LocalControl /\ LocalTools[t] = LocalControl[t]
                                      \/ t \in DOMAIN LocalInspect /\ LocalTools[t] = LocalInspect[t]
                                      \/ t \in DOMAIN LocalRest /\ LocalTools[t] = LocalRest[t]
  BY DEF LocalTools
<1>6. DOMAIN LocalTools = Tools
  BY <1>1, <1>2, <1>3, <1>4, <1>5 DEF Tools, ToolDefinitions
<1>7. ASSUME NEW t \in Tools
      PROVE  /\ LocalTools[t].input = ToolDefinitions[t]
             /\ LocalTools[t].calls = Method(t)
             /\ LocalTools[t].with = Carried[t]
             /\ LocalTools[t].compressor = Shortener[t]
  <2>1. CASE t \in DOMAIN LocalStart /\ LocalTools[t] = LocalStart[t]
    BY <2>1, LocalStartRows
  <2>2. CASE t \in DOMAIN LocalControl /\ LocalTools[t] = LocalControl[t]
    BY <2>2, LocalControlRows
  <2>3. CASE t \in DOMAIN LocalInspect /\ LocalTools[t] = LocalInspect[t]
    BY <2>3, LocalInspectRows
  <2>4. CASE t \in DOMAIN LocalRest /\ LocalTools[t] = LocalRest[t]
    BY <2>4, LocalRestRows
  <2> QED
    BY <1>5, <1>6, <2>1, <2>2, <2>3, <2>4
<1> QED
  BY <1>6, <1>7

\* DaemonMcpServer gives dap/invoke an op that does, with arguments it has made sure of.
LEMMA RemoteRows ==
    /\ DOMAIN RemoteTools = Tools
    /\ \A t \in Tools :
         /\ RemoteTools[t].input = ToolDefinitions[t]
         /\ RemoteTools[t].calls \in DOMAIN InvokeOps
         /\ InvokeOps[RemoteTools[t].calls].method = Method(t)
         /\ InvokeOps[RemoteTools[t].calls].all = Carried[t]
         /\ InvokeOps[RemoteTools[t].calls].must \subseteq Struct[ToolDefinitions[t]].must
         /\ RemoteTools[t].with = Carried[t]
         /\ RemoteTools[t].compressor = Shortener[t]
<1>1. DOMAIN RemoteStart = {"debug_launch", "debug_attach"}
  BY DEF RemoteStart
<1>2. DOMAIN RemoteControl = {"set_breakpoints", "set_exception_breakpoints", "continue", "step_over", "step_into",
               "step_out", "pause"}
  BY DEF RemoteControl
<1>3. DOMAIN RemoteInspect = {"get_threads", "get_stack", "get_scopes", "get_variables", "evaluate", "get_exception",
               "get_source"}
  BY DEF RemoteInspect
<1>4. DOMAIN RemoteRest = {"get_output", "wait_stopped", "disconnect", "terminate", "send_raw"}
  BY DEF RemoteRest
<1>5. /\ DOMAIN RemoteTools = DOMAIN RemoteStart \cup DOMAIN RemoteControl \cup DOMAIN RemoteInspect \cup DOMAIN RemoteRest
      /\ \A t \in DOMAIN RemoteTools : \/ t \in DOMAIN RemoteStart /\ RemoteTools[t] = RemoteStart[t]
                                       \/ t \in DOMAIN RemoteControl /\ RemoteTools[t] = RemoteControl[t]
                                       \/ t \in DOMAIN RemoteInspect /\ RemoteTools[t] = RemoteInspect[t]
                                       \/ t \in DOMAIN RemoteRest /\ RemoteTools[t] = RemoteRest[t]
  BY DEF RemoteTools
<1>6. DOMAIN RemoteTools = Tools
  BY <1>1, <1>2, <1>3, <1>4, <1>5 DEF Tools, ToolDefinitions
<1>7. ASSUME NEW t \in Tools
      PROVE  /\ RemoteTools[t].input = ToolDefinitions[t]
             /\ RemoteTools[t].calls \in DOMAIN InvokeOps
             /\ InvokeOps[RemoteTools[t].calls].method = Method(t)
             /\ InvokeOps[RemoteTools[t].calls].all = Carried[t]
             /\ InvokeOps[RemoteTools[t].calls].must \subseteq Struct[ToolDefinitions[t]].must
             /\ RemoteTools[t].with = Carried[t]
             /\ RemoteTools[t].compressor = Shortener[t]
  <2>1. CASE t \in DOMAIN RemoteStart /\ RemoteTools[t] = RemoteStart[t]
    BY <2>1, RemoteStartRows
  <2>2. CASE t \in DOMAIN RemoteControl /\ RemoteTools[t] = RemoteControl[t]
    BY <2>2, RemoteControlRows
  <2>3. CASE t \in DOMAIN RemoteInspect /\ RemoteTools[t] = RemoteInspect[t]
    BY <2>3, RemoteInspectRows
  <2>4. CASE t \in DOMAIN RemoteRest /\ RemoteTools[t] = RemoteRest[t]
    BY <2>4, RemoteRestRows
  <2> QED
    BY <1>5, <1>6, <2>1, <2>2, <2>3, <2>4
<1> QED
  BY <1>6, <1>7

\* AgentHandle does either.
LEMMA AgentRows ==
    /\ DOMAIN AgentTools = Tools
    /\ \A t \in Tools :
         /\ AgentTools[t].method = Method(t)
         /\ AgentTools[t].op \in DOMAIN InvokeOps
         /\ InvokeOps[AgentTools[t].op].method = Method(t)
         /\ InvokeOps[AgentTools[t].op].all = Carried[t]
         /\ AgentTools[t].with = Carried[t]
         /\ AgentTools[t].compressor = Shortener[t]
<1>1. DOMAIN AgentControl = {"debug_launch", "set_breakpoints", "continue", "step_over", "step_into", "step_out",
               "pause"}
  BY DEF AgentControl
<1>2. DOMAIN AgentInspect = {"get_threads", "get_stack", "get_scopes", "get_variables", "evaluate", "get_output"}
  BY DEF AgentInspect
<1>3. DOMAIN AgentRest = {"wait_stopped", "disconnect", "terminate", "send_raw", "debug_attach", "get_source",
               "get_exception", "set_exception_breakpoints"}
  BY DEF AgentRest
<1>4. /\ DOMAIN AgentTools = DOMAIN AgentControl \cup DOMAIN AgentInspect \cup DOMAIN AgentRest
      /\ \A t \in DOMAIN AgentTools : \/ t \in DOMAIN AgentControl /\ AgentTools[t] = AgentControl[t]
                                      \/ t \in DOMAIN AgentInspect /\ AgentTools[t] = AgentInspect[t]
                                      \/ t \in DOMAIN AgentRest /\ AgentTools[t] = AgentRest[t]
  BY DEF AgentTools
<1>5. DOMAIN AgentTools = Tools
  BY <1>1, <1>2, <1>3, <1>4 DEF Tools, ToolDefinitions
<1>6. ASSUME NEW t \in Tools
      PROVE  /\ AgentTools[t].method = Method(t)
             /\ AgentTools[t].op \in DOMAIN InvokeOps
             /\ InvokeOps[AgentTools[t].op].method = Method(t)
             /\ InvokeOps[AgentTools[t].op].all = Carried[t]
             /\ AgentTools[t].with = Carried[t]
             /\ AgentTools[t].compressor = Shortener[t]
  <2>1. CASE t \in DOMAIN AgentControl /\ AgentTools[t] = AgentControl[t]
    BY <2>1, AgentControlRows
  <2>2. CASE t \in DOMAIN AgentInspect /\ AgentTools[t] = AgentInspect[t]
    BY <2>2, AgentInspectRows
  <2>3. CASE t \in DOMAIN AgentRest /\ AgentTools[t] = AgentRest[t]
    BY <2>3, AgentRestRows
  <2> QED
    BY <1>4, <1>5, <2>1, <2>2, <2>3
<1> QED
  BY <1>5, <1>6

\* AgentPool stands for the tool of its handle and leaves out no argument.
LEMMA PoolRows ==
    /\ DOMAIN PoolTools = Tools
    /\ \A t \in Tools :
         /\ PoolTools[t].tool = t
         /\ PoolTools[t].with = Carried[t]
<1>1. DOMAIN PoolControl = {"debug_launch", "set_breakpoints", "continue", "step_over", "step_into", "step_out",
               "pause"}
  BY DEF PoolControl
<1>2. DOMAIN PoolInspect = {"get_threads", "get_stack", "get_scopes", "get_variables", "evaluate", "get_output"}
  BY DEF PoolInspect
<1>3. DOMAIN PoolRest = {"wait_stopped", "disconnect", "terminate", "send_raw", "debug_attach", "get_source",
               "get_exception", "set_exception_breakpoints"}
  BY DEF PoolRest
<1>4. /\ DOMAIN PoolTools = DOMAIN PoolControl \cup DOMAIN PoolInspect \cup DOMAIN PoolRest
      /\ \A t \in DOMAIN PoolTools : \/ t \in DOMAIN PoolControl /\ PoolTools[t] = PoolControl[t]
                                     \/ t \in DOMAIN PoolInspect /\ PoolTools[t] = PoolInspect[t]
                                     \/ t \in DOMAIN PoolRest /\ PoolTools[t] = PoolRest[t]
  BY DEF PoolTools
<1>5. DOMAIN PoolTools = Tools
  BY <1>1, <1>2, <1>3, <1>4 DEF Tools, ToolDefinitions
<1>6. ASSUME NEW t \in Tools
      PROVE  /\ PoolTools[t].tool = t
             /\ PoolTools[t].with = Carried[t]
  <2>1. CASE t \in DOMAIN PoolControl /\ PoolTools[t] = PoolControl[t]
    BY <2>1, PoolControlRows
  <2>2. CASE t \in DOMAIN PoolInspect /\ PoolTools[t] = PoolInspect[t]
    BY <2>2, PoolInspectRows
  <2>3. CASE t \in DOMAIN PoolRest /\ PoolTools[t] = PoolRest[t]
    BY <2>3, PoolRestRows
  <2> QED
    BY <1>4, <1>5, <2>1, <2>2, <2>3
<1> QED
  BY <1>5, <1>6

=============================================================================
