----------------------------- MODULE McpServer -----------------------------
(***************************************************************************)
(* The tool calls of an MCP server: McpServer (src/src/mcp/server.rs),     *)
(* which keeps the adapters in its own process, or DaemonMcpServer         *)
(* (src/src/mcp/daemon_server.rs), which asks a daemon.  Tool calls run    *)
(* concurrently; they share the pool or the one daemon connection, and the *)
(* key of the last launch.                                                 *)
(*                                                                         *)
(* Each call makes the one request its script has for it, at once or after *)
(* another call has returned.  A request names the tool, the arguments     *)
(* given, and the values of those that choose the session: backend, cwd,   *)
(* language, and ext, the extension of the program.                        *)
(***************************************************************************)
EXTENDS SharedSessions

VARIABLES script,       \* what each call asks for
          pc,           \* where it is
          target,       \* the backend and cwd it has resolved, or None
          last,         \* last_key: those of the last launch, or None
          clientLock    \* the call that waits while holding the connection, or None

callVars == <<script, pc, target, last, clientLock>>

Starts == {"debug_launch", "debug_attach"}
Ended == {"done", "refused"}

Row(c) == IF mode = "in_process" THEN LocalTools[script[c].tool] ELSE RemoteTools[script[c].tool]
Args(c) == ParseArgs(Row(c).input, script[c].given).args

\* Mutant: the key is read from last_key again when the request is made.
RequestLast(c, kind) ==
  [kind |-> kind, key |-> PoolKey(IF last # None THEN last ELSE target'[c]), tool |-> script[c].tool,
   given |-> script[c].given, calls |-> Row(c).calls, with |-> Row(c).with \cap Args(c),
   compressor |-> Row(c).compressor, who |-> c, id |-> NextId(c)]

Request(c, kind) ==
  [kind |-> kind, key |-> PoolKey(target'[c]), tool |-> script[c].tool, given |-> script[c].given,
   calls |-> Row(c).calls, with |-> Row(c).with \cap Args(c), compressor |-> Row(c).compressor,
   who |-> c, id |-> NextId(c)]

Move(c, p) == pc' = [pc EXCEPT ![c] = p]
Stay == UNCHANGED <<mode, machine, daemon, sessionVars, link, phase, ref, ran, script>>

----------------------------------------------------------------------------
\* The MCP client makes the call.
Begins(c) == pc[c] = "idle" /\ (script[c].after # None => pc[script[c].after] \in Ended)

\* An attach has no program to go by.
BackendFor(call, m) ==
  ResolveBackend(IF call.tool = "debug_attach" THEN None ELSE call.ext, call.language, call.backend, m)
Backend(c) == BackendFor(script[c], machine)

\* Missing arguments, or a launch without a backend: invalid_request.
Rejected(c) ==
    \/ ~ParseArgs(Row(c).input, script[c].given).ok
    \/ script[c].tool \in Starts /\ Backend(c) = None

\* resolve_session_key: the backend and cwd given, else those of the last launch.
Target(c) ==
  IF script[c].tool \in Starts
  THEN <<Backend(c), script[c].cwd>>
  ELSE IF script[c].backend # None THEN <<script[c].backend, script[c].cwd>> ELSE last

Reject(c) ==
    /\ Begins(c) /\ Rejected(c)
    /\ Move(c, "refused")
    /\ UNCHANGED <<target, last, clientLock, inbox, asks, answer>> /\ Stay

\* "No active session."
NoSession(c) ==
    /\ Begins(c) /\ ~Rejected(c) /\ Target(c) = None
    /\ Move(c, "done")
    /\ UNCHANGED <<target, last, clientLock, inbox, asks, answer>> /\ Stay

\* The in-process server does the rest itself; the other needs its connection first.
Call(c) ==
    /\ Begins(c) /\ ~Rejected(c) /\ Target(c) # None
    /\ target' = [target EXCEPT ![c] = Target(c)]
    /\ IF mode = "in_process"
       THEN /\ Ask(c, c, Request(c, IF script[c].tool \in Starts THEN "launch" ELSE "op"))
            /\ Move(c, "wait")
       ELSE Move(c, "connect") /\ UNCHANGED <<inbox, asks, answer>>
    /\ UNCHANGED <<last, clientLock>> /\ Stay

----------------------------------------------------------------------------
(* The daemon's client, behind a mutex. *)

Reach(c) == IF script[c].tool \in Starts THEN "spawn" ELSE "invoke"

\* ensure_connected: a client there is taken to be connected.
Connected(c) ==
    /\ pc[c] = "connect" /\ clientLock = None /\ link[Conn] # 0
    /\ Move(c, Reach(c))
    /\ UNCHANGED <<target, last, clientLock, inbox, asks, answer>> /\ Stay

Connect(c) ==
    /\ pc[c] = "connect" /\ clientLock = None /\ link[Conn] = 0
    /\ ConnectOrStart(Conn)
    /\ Move(c, Reach(c))
    /\ UNCHANGED <<mode, machine, sessionVars, workVars, asks, replyVars, script, target, last, clientLock>>

ConnectFails(c) ==
    /\ pc[c] = "connect" /\ clientLock = None /\ link[Conn] = 0
    /\ Move(c, "done")
    /\ UNCHANGED <<target, last, clientLock, inbox, asks, answer>> /\ Stay

\* spawn_session and invoke: the client stays locked until it has the answer.
Send(c) ==
    /\ pc[c] \in {"spawn", "invoke"} /\ clientLock = None /\ Alive(Conn)
    /\ clientLock' = c
    /\ UNCHANGED target
    /\ Ask(c, Conn, Request(c, IF pc[c] = "spawn" THEN "replace" ELSE "op"))
    /\ Move(c, IF pc[c] = "spawn" THEN "spawning" ELSE "wait")
    /\ UNCHANGED last /\ Stay

\* Nobody reads the connection any more, and no call connects anew.
SendFails(c) ==
    /\ pc[c] \in {"spawn", "invoke"} /\ clientLock = None /\ ~Alive(Conn)
    /\ Move(c, "done")
    /\ UNCHANGED <<target, last, clientLock, inbox, asks, answer>> /\ Stay

----------------------------------------------------------------------------
Unlock(c) == clientLock' = IF clientLock = c THEN None ELSE clientLock
Taken(c) == answer' = [answer EXCEPT ![c] = None]

\* dap/spawn has answered: on to dap/invoke.
Spawned(c) ==
    /\ pc[c] = "spawning" /\ answer[c] = "ok"
    /\ Unlock(c) /\ Taken(c) /\ Move(c, "invoke")
    /\ UNCHANGED <<target, last, inbox, asks>> /\ Stay

\* remember, or forget: a disconnect clears last_key whatever session it names.
Return(c) ==
    /\ pc[c] = "wait" /\ answer[c] = "ok"
    /\ Unlock(c) /\ Taken(c) /\ Move(c, "done")
    /\ last' = CASE script[c].tool \in Starts -> target[c]
                 [] script[c].tool = "disconnect" -> None
                 [] OTHER -> last
    /\ UNCHANGED <<target, inbox, asks>> /\ Stay

ReturnError(c) ==
    /\ pc[c] \in {"spawning", "wait"} /\ answer[c] \in {"failed", "refused"}
    /\ Unlock(c) /\ Taken(c)
    /\ Move(c, IF answer[c] = "refused" THEN "refused" ELSE "done")
    /\ UNCHANGED <<target, last, inbox, asks>> /\ Stay

\* Thirty seconds without a line from the daemon, which works on.  At the end of the
\* stream there is no such silence: read_line returns at once, for ever.
GiveUp(c) ==
    /\ mode = "daemon" /\ pc[c] \in {"spawning", "wait"} /\ answer[c] = "waiting" /\ Alive(Conn)
    /\ Unlock(c) /\ Taken(c) /\ Move(c, "done")
    /\ UNCHANGED <<target, last, inbox, asks>> /\ Stay

CallInit ==
    /\ pc = [c \in Calls |-> "idle"]
    /\ target = [c \in Calls |-> None]
    /\ last = None /\ clientLock = None

CallWaits(c) == Connected(c) \/ Connect(c) \/ ConnectFails(c) \/ Send(c) \/ SendFails(c)
CallReturns(c) == Spawned(c) \/ Return(c) \/ ReturnError(c)
CallBegins(c) == Reject(c) \/ NoSession(c) \/ Call(c)
CallStep(c) == CallBegins(c) \/ CallWaits(c) \/ CallReturns(c) \/ GiveUp(c)
=============================================================================
