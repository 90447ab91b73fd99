----------------------------- MODULE AgentPool -----------------------------
(***************************************************************************)
(* The Agent SDK: an AgentPool (src/src/agent_sdk/pool.rs) and the         *)
(* AgentHandles it starts (src/src/agent_sdk/agent.rs).                    *)
(*                                                                         *)
(* An agent makes the operations of its plan one after the other, each on  *)
(* a session name of its choice.  The first on a name starts a handle:     *)
(* one that owns an adapter session, or one with a daemon connection of    *)
(* its own and a session there, which it joins if there is one.  At the    *)
(* end the agent shuts its pool down or drops it.                          *)
(***************************************************************************)
EXTENDS SharedSessions

CONSTANT Names   \* session names

\* plan[a] is a record: via, the via_daemon flag; backends, the pool key registered
\* under each name, or None; compression; and ops, a sequence of operations.
VARIABLES plan,
          step,     \* of each agent: the operation it is at
          doing,    \* "idle", "join", "op", "closing" or "done"
          made,     \* connections and sessions it has started
          handles   \* AgentPool.handles: the worker of each name, or None

agentVars == <<plan, step, doing, made, handles>>

Op(a) == plan[a].ops[step[a]]
Handle(a) == handles[a][Op(a).name]
Running(a) == doing[a] = "idle" /\ step[a] <= Len(plan[a].ops)
Newest(a) == <<a, made[a] + 1>>

Act(a, d) == doing' = [doing EXCEPT ![a] = d]
NextOp(a) == Act(a, "idle") /\ step' = [step EXCEPT ![a] = @ + 1]
Keep == UNCHANGED <<mode, machine, phase, plan>>

OpRequest(a, name, tool, given) ==
  LET pass == PoolTools[tool]
      row == AgentTools[pass.tool]
      w == handles[a][name]
      local == link[w.at] = 0
      compressor == IF plan[a].compression THEN row.compressor ELSE "none"
  IN [kind |-> IF local THEN "own" ELSE "op", key |-> plan[a].backends[name], on |-> w.on,
      tool |-> tool, given |-> given, calls |-> IF local THEN row.method ELSE row.op,
      with |-> row.with \cap pass.with \cap given, compressor |-> compressor,
      who |-> a, id |-> NextId(a)]

JoinRequest(a) ==
  [kind |-> "join", key |-> plan[a].backends[Op(a).name], who |-> a, id |-> NextId(a)]

----------------------------------------------------------------------------
(* handle_for: the handle of a name is started by its first operation. *)

NoHandle(a) == Running(a) /\ Handle(a) = None

\* "no backend registered", or start() fails: the operation does.
StartFails(a) ==
    /\ NoHandle(a)
    /\ NextOp(a)
    /\ UNCHANGED <<made, handles, daemon, sessionVars, link, inbox, ref, asks, replyVars>> /\ Keep

Store(a, at, on) ==
  handles' = [handles EXCEPT ![a][Op(a).name] = [at |-> at, on |-> on]]

\* DapSession::spawn_with_args: the handle owns the session.
StartLocal(a) ==
    /\ NoHandle(a) /\ plan[a].backends[Op(a).name] # None /\ ~plan[a].via
    /\ spawned < MaxSpawns /\ made[a] < MaxAsks
    /\ spawned' = spawned + 1
    /\ Originates(spawned + 1, plan[a].backends[Op(a).name], a)
    /\ Store(a, Newest(a), spawned')
    /\ made' = [made EXCEPT ![a] = @ + 1]
    /\ UNCHANGED <<step, doing, daemon, pool, poolLock, sessLock, exited, link, inbox, ref, asks, replyVars>>
    /\ Keep

\* connect_or_start, then dap/spawn with replace = false.
StartConnect(a) ==
    /\ NoHandle(a) /\ plan[a].backends[Op(a).name] # None /\ plan[a].via
    /\ made[a] < MaxAsks
    /\ ConnectOrStart(Newest(a))
    /\ Ask(a, Newest(a), JoinRequest(a))
    /\ made' = [made EXCEPT ![a] = @ + 1]
    /\ Act(a, "join")
    /\ UNCHANGED <<step, handles, sessionVars, ref, ran>> /\ Keep

Joined(a) ==
    /\ doing[a] = "join" /\ answer[a] = "ok"
    /\ Store(a, <<a, made[a]>>, None)
    /\ answer' = [answer EXCEPT ![a] = None]
    /\ Act(a, "idle")
    /\ UNCHANGED <<step, made, daemon, sessionVars, link, inbox, ref, asks, ran>> /\ Keep

----------------------------------------------------------------------------
\* call_op, on the session of the handle or through its connection.
Operate(a) ==
    /\ Running(a) /\ Handle(a) # None /\ Alive(Handle(a).at)
    /\ Ask(a, Handle(a).at, OpRequest(a, Op(a).name, Op(a).tool, Op(a).given))
    /\ Act(a, "op")
    /\ UNCHANGED <<step, made, handles, daemon, sessionVars, link, ref, ran>> /\ Keep

\* The handle stays in the pool, as it does after a disconnect.
OperateFails(a) ==
    /\ Running(a) /\ Handle(a) # None /\ ~Alive(Handle(a).at)
    /\ NextOp(a)
    /\ UNCHANGED <<made, handles, daemon, sessionVars, link, inbox, ref, asks, replyVars>> /\ Keep

\* The operation returns, or is a join that failed.
Returned(a) ==
    /\ \/ doing[a] = "op" /\ answer[a] \in {"ok", "failed", "refused"}
       \/ doing[a] = "join" /\ answer[a] = "failed"
    /\ answer' = [answer EXCEPT ![a] = None]
    /\ NextOp(a)
    /\ UNCHANGED <<made, handles, daemon, sessionVars, link, inbox, ref, asks, ran>> /\ Keep

\* Worker w has the agent's latest request.
AtWork(a, w) == \E n \in DOMAIN inbox[w] : inbox[w][n].who = a /\ inbox[w][n].id = asks[a]

\* The client's timeout; a session in the same process is waited for.
AgentGivesUp(a) ==
    /\ answer[a] = "waiting"
    /\ \E w \in Workers : AtWork(a, w) /\ link[w] # 0 /\ Alive(w)
    /\ answer' = [answer EXCEPT ![a] = None]
    /\ IF doing[a] = "closing" THEN Act(a, "idle") /\ UNCHANGED step ELSE NextOp(a)
    /\ UNCHANGED <<made, handles, daemon, sessionVars, link, inbox, ref, asks, ran>> /\ Keep

----------------------------------------------------------------------------
(* The end: shutdown_all disconnects every handle, whatever comes of it.    *)
(* Dropping the pool closes the connections and kills the adapters owned.   *)

Finished(a) == doing[a] = "idle" /\ step[a] > Len(plan[a].ops)
Held(a) == {n \in Names : handles[a][n] # None}

ShutDown(a) ==
    /\ Finished(a)
    /\ \E n \in Held(a) :
         /\ Alive(handles[a][n].at)
         /\ Ask(a, handles[a][n].at, OpRequest(a, n, "disconnect", {"terminate_debuggee"}))
         /\ handles' = [handles EXCEPT ![a][n] = None]
    /\ Act(a, "closing")
    /\ UNCHANGED <<step, made, daemon, sessionVars, link, ref, ran>> /\ Keep

\* The connection is gone already.
ShutDownFails(a) ==
    /\ Finished(a)
    /\ \E n \in Held(a) :
         /\ ~Alive(handles[a][n].at)
         /\ handles' = [handles EXCEPT ![a][n] = None]
    /\ UNCHANGED <<step, doing, made, daemon, sessionVars, link, inbox, ref, asks, replyVars>> /\ Keep

\* Disconnected, or an error: on to the next handle.
Closed(a) ==
    /\ doing[a] = "closing" /\ answer[a] \in {"ok", "failed", "refused"}
    /\ answer' = [answer EXCEPT ![a] = None]
    /\ Act(a, "idle")
    /\ UNCHANGED <<step, made, handles, daemon, sessionVars, link, inbox, ref, asks, ran>> /\ Keep

Drop(a) ==
    /\ Finished(a)
    /\ handles' = [handles EXCEPT ![a] = [n \in Names |-> None]]
    /\ Act(a, "done")
    /\ UNCHANGED <<step, made, daemon, sessionVars, link, inbox, ref, asks, replyVars>> /\ Keep

AgentInit ==
    /\ step = [a \in Agents |-> 1]
    /\ doing = [a \in Agents |-> "idle"]
    /\ made = [a \in Agents |-> 0]
    /\ handles = [a \in Agents |-> [n \in Names |-> None]]

AgentStep(a) ==
    \/ StartFails(a) \/ StartLocal(a) \/ StartConnect(a) \/ Joined(a)
    \/ Operate(a) \/ OperateFails(a) \/ Returned(a)
    \/ ShutDown(a) \/ ShutDownFails(a) \/ Closed(a) \/ Drop(a)
=============================================================================
