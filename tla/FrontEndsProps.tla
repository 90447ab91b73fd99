--------------------------- MODULE FrontEndsProps ---------------------------
(* What the front ends are checked for.                                     *)
EXTENDS FrontEnds

\* Types; a worker holds a session only for a request of its own.
TypeOK ==
    /\ mode \in {"in_process", "daemon"}
    /\ daemon \in [up : BOOLEAN, born : 0..MaxDaemons]
    /\ pool \in [Keys -> Sessions \cup {None}]
    /\ poolLock \in Workers \cup {None}
    /\ sessLock \in [Sessions -> Workers \cup {None}]
    /\ spawned \in 0..MaxSpawns /\ exited \subseteq 1..spawned
    /\ link \in [Workers -> 0..MaxDaemons]
    /\ \A w \in Workers : inbox[w] = <<>> => phase[w] = "idle" /\ ref[w] = None
    /\ ref \in [Workers -> Sessions \cup {None}]
    /\ answer \in [Callers -> {None, "waiting", "ok", "failed", "refused"}]
    /\ clientLock \in Calls \cup {None} /\ (mode = "in_process" => clientLock = None)
    /\ made \in [Agents -> 0..MaxAsks]

Must(tool) == Schema[ToolDefinitions[tool]].must
All(tool) == Schema[ToolDefinitions[tool]].all

\* The session method of each tool, where it has another name.
Method(tool) ==
  CASE tool = "debug_launch" -> "launch_program" [] tool = "debug_attach" -> "attach"
    [] tool = "continue" -> "continue_"          [] tool = "get_output" -> "drain_output"
    [] tool = "get_exception" -> "get_exception_info"
    [] OTHER -> tool

\* What a tool's schema offers beyond the choice of a session; a launch also runs in its cwd.
Payload(tool) ==
  (All(tool) \ {"backend", "cwd", "language", "backend_args"})
    \cup (IF tool = "debug_launch" THEN {"cwd"} ELSE {})

SameOperation(c) ==
  ran[c] # None =>
    /\ ran[c].method = Method(ran[c].tool)
    /\ ran[c].with = ran[c].given \cap Payload(ran[c].tool)
    /\ ran[c].compressor = LET compresses == c \in Calls \/ plan[c].compression
                           IN IF compresses THEN LocalTools[ran[c].tool].compressor ELSE "none"

RefusedForAReason(c) ==
  pc[c] = "refused" => \/ ~(Must(script[c].tool) \subseteq script[c].given)
                       \/ script[c].tool \in Starts /\ Backend(c) = None

Family(c) == FirstOf(<<LanguageFamily(script[c].language), ExtensionFamily(script[c].ext)>>)
FirstName == [python |-> "debugpy-adapter", lldb |-> "lldb-dap"]

AdapterFits(c) ==
  (script[c].tool = "debug_launch" /\ target[c] # None /\ script[c].backend = None) =>
    /\ TableSaysOk(Family(c), machine) => target[c][1] \in Runnable(machine)
    /\ (\E dir \in ToSet(machine.env.PATH) : <<dir, FirstName[Family(c)]>> \in machine.files)
         => target[c][1].exe[1] \in ToSet(machine.env.PATH)

\* A tool does the same through every front end: it calls the method it names with
\* all the arguments its schema offers, and its answer is compressed alike; it is
\* refused only for an argument the schema requires, or for want of an adapter.  A
\* launch that names no backend uses one that runs, if the table in DAPZ.md says there
\* is one, and the user's own PATH goes before the places that discovery knows of.
ToolsAgree ==
  /\ \A c \in Callers : SameOperation(c)
  /\ \A c \in Calls : RefusedForAReason(c) /\ AdapterFits(c)

\* A launch runs on the adapter that it had started for itself.  A launch of the daemon's
\* server is two requests, between which the session of its key may change: it may run on
\* one that took the place of its own, which another launch of that key may use too, but
\* never on one that was there before.
LaunchesFresh ==
    \A c \in Calls : (ran[c] # None /\ ran[c].tool \in Starts) =>
       \E i \in 1..ran[c].on : /\ origin[i].by = c
                               /\ mode = "in_process" => i = ran[c].on

\* A call runs on a session started for the backend and cwd that it has resolved, whoever
\* launches, disconnects or reaps meanwhile and whatever last_key names by then.
CallsReachTheirKey ==
    \A c \in Calls : ran[c] # None =>
       LET key == origin[ran[c].on].key
       IN /\ key[1] = target[c][1]
          /\ key[2] = target[c][2] \/ (key[2] = None /\ target[c][2] = "")

\* However it is reached, the pool is a registry of sessions: see SessionRegistry.
Registry == INSTANCE SessionRegistry
              WITH bound <- pool, user <- sessLock, Clients <- Workers, Insts <- Sessions
ImplementsRegistry == Registry!RegistrySpec

\* The caller's latest request went down with the daemon; nobody tells it.
Hung(c) == answer[c] = "waiting" /\ \A w \in Workers : AtWork(c, w) => ~Alive(w)

\* Every call returns and every agent finishes, whatever the others hold, whatever
\* fails and whoever gave up: unless a call waits for a daemon that has ended.
CallsReturn ==
    /\ \A c \in Calls : pc[c] # "idle" ~> (pc[c] \in Ended \/ \E d \in Calls : Hung(d))
    /\ \A a \in Agents : <>(doing[a] = "done" \/ Hung(a))
=============================================================================
