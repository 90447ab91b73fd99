----------------------------- MODULE FrontEnds -----------------------------
(***************************************************************************)
(* An MCP server and embedded agents side by side.  With an in-process     *)
(* server the pool of SharedSessions is the server's own, and every agent  *)
(* has its sessions in its own process too; with a daemon-backed one it is *)
(* the daemon's, which agents may join.                                    *)
(***************************************************************************)
EXTENDS McpServer, AgentPool

CONSTANT Scenarios   \* what the callers set out to do, and on which machine

\* Calls are of known tools and choose sessions whose keys are among Keys.
CallOk(call, m) ==
    /\ call.tool \in Tools
    /\ call.backend # None => PoolKey(<<call.backend, call.cwd>>) \in Keys
    /\ (call.tool \in Starts /\ BackendFor(call, m) # None)
         => PoolKey(<<BackendFor(call, m), call.cwd>>) \in Keys

\* So do plans; their operations name sessions of the pool.
PlanOk(p) ==
    /\ p.via \in BOOLEAN /\ p.compression \in BOOLEAN
    /\ p.backends \in [Names -> Keys \cup {None}]
    /\ Len(p.ops) \in Nat
    /\ \A n \in 1..Len(p.ops) : p.ops[n].name \in Names /\ p.ops[n].tool \in DOMAIN PoolTools

\* Beside an in-process server, agents use no daemon.
ASSUME ScenarioConstants ==
    \A s \in Scenarios :
       /\ s.mode \in {"in_process", "daemon"}
       /\ s.machine.env.PATH \in Seq(ToSet(s.machine.env.PATH))
       /\ None \notin Runnable(s.machine)
       /\ \A c \in Calls : CallOk(s.script[c], s.machine)
       /\ \A a \in Agents : PlanOk(s.plan[a]) /\ (s.mode = "in_process" => ~s.plan[a].via)

vars == <<sharedVars, callVars, agentVars>>

Init ==
    /\ \E s \in Scenarios : /\ mode = s.mode /\ machine = s.machine
                            /\ script = s.script /\ plan = s.plan
    /\ SharedInit /\ CallInit /\ AgentInit

Next ==
    \/ \E c \in Calls : CallStep(c) /\ UNCHANGED agentVars
    \/ \E a \in Agents : (AgentStep(a) \/ AgentGivesUp(a)) /\ UNCHANGED callVars
    \/ SharedStep /\ UNCHANGED <<callVars, agentVars>>

\* The server, the daemon and the agents go on as long as one of them can: a task
\* that is ready runs, a mutex that is free is taken (tokio queues whoever waits for
\* it), and an operation on a session ends (DapSession's OperationsEnd).  There are
\* finitely many calls, so fairness between the tasks is not needed.  No call needs
\* to be made, nor a timeout to pass.
Progress ==
    \/ \E c \in Calls : (CallWaits(c) \/ CallReturns(c)) /\ UNCHANGED agentVars
    \/ \E a \in Agents : AgentStep(a) /\ UNCHANGED callVars
    \/ \E w \in Workers : (Waits(w) \/ Works(w)) /\ UNCHANGED <<callVars, agentVars>>

Spec == Init /\ [][Next]_vars /\ WF_vars(Progress)
=============================================================================
