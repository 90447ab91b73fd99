--------------------------- MODULE SharedSessions ---------------------------
(***************************************************************************)
(* The debug sessions behind the front ends: the pool that the tool calls  *)
(* of an in-process MCP server share, the same pool in a daemon, and the   *)
(* sessions an embedded agent owns alone.                                  *)
(*                                                                         *)
(* A worker carries out requests one after the other: an in-process tool   *)
(* call (its own, without a connection), the daemon's task of one          *)
(* connection, or a handle that owns its session.  A request names who     *)
(* asked, so that an answer nobody waits for any more can be told.  A step *)
(* goes from one lock acquisition to the next await.                       *)
(*                                                                         *)
(* Of the daemon only what reaches a session is kept: its status record,   *)
(* idle clock and accept loop are DaemonServer's, its socket file is       *)
(* DaemonLifecycle's.  An operation on a session is one step that succeeds *)
(* or fails; what it says to the adapter is DapSession's.                  *)
(***************************************************************************)
EXTENDS Naturals, Sequences, FiniteSets, ToolCatalog, Adapters

CONSTANTS Calls,       \* MCP tool calls, each one task
          Agents,      \* programs that embed an AgentPool
          Conn,        \* the daemon connection of the MCP server
          Keys,        \* pool keys
          MaxAsks,     \* bound: connections an agent makes
          MaxSpawns,   \* bound: adapters started
          MaxDaemons   \* bound: daemons started

Callers == Calls \cup Agents
Workers == Calls \cup {Conn} \cup (Agents \X (1..MaxAsks))

Sessions == 1..MaxSpawns

\* The workers, the callers and the values that stand for nothing are told apart.
ASSUME WorkerConstants ==
    /\ MaxAsks \in Nat /\ MaxSpawns \in Nat /\ MaxDaemons \in Nat
    /\ Calls \cap Agents = {} /\ Conn \notin Calls
    /\ (Calls \cup {Conn}) \cap (Agents \X (1..MaxAsks)) = {}
    /\ None \notin Workers \cup Sessions \cup Keys
    /\ None \notin {"waiting", "ok", "failed", "refused"}

VARIABLES
    mode,      \* of the MCP server: "in_process" or "daemon"
    machine,   \* what adapters.rs discovers; exits bounds the adapters that exit by themselves
    daemon,    \* is one up, and how many have been started
    pool,      \* DapPool.sessions: the adapter of each key, or None
    poolLock,  \* the worker that waits while holding the pool mutex, or None
    sessLock,  \* the worker that holds the mutex of each session, or None
    spawned,   \* adapters started so far, numbered from 1
    origin,    \* history: the key each was started for and who had it started; no action reads it
    exited,    \* adapters that have exited
    link,      \* the daemon at the other end of a worker's connection, 0 without one
    inbox,     \* each worker's requests; it is at work on the first
    phase,     \* where it is with it
    ref,       \* the session it holds for it, or None
    asks,      \* requests each caller has made
    answer,    \* what it got: None, "waiting" for the latest, "ok", "failed" or "refused"
    ran        \* each caller's latest operation, as it was run

sessionVars == <<pool, poolLock, sessLock, spawned, origin, exited>>
workVars == <<inbox, phase, ref>>
replyVars == <<answer, ran>>
sharedVars == <<mode, machine, daemon, sessionVars, link, workVars, asks, replyVars>>

----------------------------------------------------------------------------
\* pool_key: an empty cwd is no cwd.
PoolKey(target) == <<target[1], IF target[2] = "" THEN None ELSE target[2]>>

\* The process at the other end is still there.
Alive(w) == link[w] = 0 \/ (daemon.up /\ link[w] = daemon.born)

Job(w) == Head(inbox[w])
At(w, p) == phase[w] = p /\ Alive(w)

\* DapPool::reap_if_dead.
ReapIfDead(k) ==
  IF pool[k] # None /\ pool[k] \in exited /\ sessLock[pool[k]] = None
  THEN [pool EXCEPT ![k] = None] ELSE pool

\* The number of c's next request.
NextId(c) == asks[c] + 1

\* c makes a request of worker w, which is on hand for it at once if it has no other.
Ask(c, w, request) ==
    /\ inbox' = [inbox EXCEPT ![w] = Append(@, request)]
    /\ asks' = [asks EXCEPT ![c] = NextId(c)]
    /\ answer' = [answer EXCEPT ![c] = "waiting"]

Goto(w, p) == phase' = [phase EXCEPT ![w] = p] /\ UNCHANGED <<inbox, answer>>

\* Mutant: the session a request was about is kept.
FinishHolding(w, result) ==
    /\ inbox' = [inbox EXCEPT ![w] = Tail(@)]
    /\ phase' = [phase EXCEPT ![w] = "idle"]
    /\ UNCHANGED ref
    /\ answer' = IF answer[Job(w).who] = "waiting" /\ asks[Job(w).who] = Job(w).id
                 THEN [answer EXCEPT ![Job(w).who] = result] ELSE answer

\* The request is answered; an answer that came too late is drained.
Finish(w, result) ==
    /\ inbox' = [inbox EXCEPT ![w] = Tail(@)]
    /\ phase' = [phase EXCEPT ![w] = "idle"]
    /\ ref' = [ref EXCEPT ![w] = None]
    /\ answer' = IF answer[Job(w).who] = "waiting" /\ asks[Job(w).who] = Job(w).id
                 THEN [answer EXCEPT ![Job(w).who] = result] ELSE answer

----------------------------------------------------------------------------
\* A launch replaces the session of its key, an agent of the daemon joins it,
\* every other request needs one.
TakeUp(w) ==
    /\ At(w, "idle") /\ inbox[w] # <<>>
    /\ Goto(w, CASE Job(w).kind \in {"launch", "replace"} -> "evict"
                 [] Job(w).kind = "join" -> "spawn"
                 [] Job(w).kind = "own" -> "run"
                 [] OTHER -> "lookup")
    /\ ref' = [ref EXCEPT ![w] = IF Job(w).kind = "own" THEN Job(w).on ELSE None]
    /\ UNCHANGED <<mode, machine, daemon, sessionVars, link, asks, ran>>

\* Mutant: a launch reuses the session it finds.
EvictNot(w) ==
    /\ At(w, "evict") /\ poolLock = None
    /\ poolLock' = w
    /\ Goto(w, "spawn")
    /\ UNCHANGED <<mode, machine, daemon, pool, sessLock, spawned, origin, exited, link, ref, asks, ran>>

\* pool.remove(&key), the pool mutex kept.
Evict(w) ==
    /\ At(w, "evict") /\ poolLock = None
    /\ poolLock' = w
    /\ pool' = [pool EXCEPT ![Job(w).key] = None]
    /\ Goto(w, "spawn")
    /\ UNCHANGED <<mode, machine, daemon, sessLock, spawned, origin, exited, link, ref, asks, ran>>

\* A launch of the in-process server goes on with the session it got; the daemon answers.
Got(w, i) ==
    IF Job(w).kind = "launch"
    THEN Goto(w, "lock") /\ ref' = [ref EXCEPT ![w] = i]
    ELSE Finish(w, "ok")

\* Adapter i is started for key k at the request of c.
Originates(i, k, c) == origin' = [origin EXCEPT ![i] = [key |-> k, by |-> c]]

\* get_or_spawn finds a session, or starts an adapter.
GetOrSpawn(w) ==
    /\ At(w, "spawn") /\ poolLock \in {None, w}
    /\ LET p == ReapIfDead(Job(w).key)
           found == p[Job(w).key]
       IN \/ /\ found # None
             /\ pool' = p /\ Got(w, found)
             /\ UNCHANGED <<spawned, origin>>
          \/ /\ found = None /\ spawned < MaxSpawns
             /\ spawned' = spawned + 1
             /\ Originates(spawned + 1, Job(w).key, Job(w).who)
             /\ pool' = [p EXCEPT ![Job(w).key] = spawned + 1]
             /\ Got(w, spawned + 1)
    /\ poolLock' = None
    /\ UNCHANGED <<mode, machine, daemon, sessLock, exited, link, asks, ran>>

\* The adapter does not start; an evicted session stays evicted.
SpawnFails(w) ==
    /\ At(w, "spawn") /\ poolLock \in {None, w}
    /\ LET p == ReapIfDead(Job(w).key)
       IN p[Job(w).key] = None /\ pool' = p
    /\ poolLock' = None
    /\ Finish(w, "failed")
    /\ UNCHANGED <<mode, machine, daemon, sessLock, spawned, origin, exited, link, asks, ran>>

\* get_by_key.
Lookup(w) ==
    /\ At(w, "lookup") /\ poolLock = None
    /\ pool' = ReapIfDead(Job(w).key)
    /\ LET i == pool'[Job(w).key]
       IN IF i = None THEN Finish(w, "failed")
          ELSE Goto(w, "lock") /\ ref' = [ref EXCEPT ![w] = i]
    /\ UNCHANGED <<mode, machine, daemon, poolLock, sessLock, spawned, origin, exited, link, asks, ran>>

\* Mutant: the session is used without its mutex.
LockNot(w) ==
    /\ At(w, "lock")
    /\ sessLock' = [sessLock EXCEPT ![ref[w]] = w]
    /\ Goto(w, "run")
    /\ UNCHANGED <<mode, machine, daemon, pool, poolLock, spawned, origin, exited, link, ref, asks, ran>>

LockSession(w) ==
    /\ At(w, "lock") /\ sessLock[ref[w]] = None
    /\ sessLock' = [sessLock EXCEPT ![ref[w]] = w]
    /\ Goto(w, "run")
    /\ UNCHANGED <<mode, machine, daemon, pool, poolLock, spawned, origin, exited, link, ref, asks, ran>>

\* The MutexGuard is dropped; a session that a handle owns has none.
Unlocked(w) == [i \in Sessions |-> IF sessLock[i] = w THEN None ELSE sessLock[i]]

\* Only the daemon's dap/invoke can refuse an operation: it reads its arguments anew.
Refused(w) == link[w] # 0 /\ ~InvokeOk(Job(w).calls, Job(w).with)

\* What is run on the session, for whom, and what becomes of its answer.
Operation(w) ==
  LET job == Job(w)
      op == InvokeOps[job.calls]
      local == link[w] = 0
  IN [method |-> IF local THEN job.calls ELSE op.method,
      with |-> IF local THEN job.with ELSE job.with \cap op.all,
      tool |-> job.tool, given |-> job.given, on |-> ref[w], compressor |-> job.compressor]

Refuse(w) ==
    /\ At(w, "run") /\ Refused(w)
    /\ sessLock' = Unlocked(w)
    /\ Finish(w, "refused")
    /\ UNCHANGED <<mode, machine, daemon, pool, poolLock, spawned, origin, exited, link, asks, ran>>

\* A session that disconnects then leaves its pool: in the daemon still locked, in
\* the in-process server after its mutex has been released.
Run(w) ==
    /\ At(w, "run") /\ ~Refused(w) /\ ref[w] \notin exited
    /\ ran' = [ran EXCEPT ![Job(w).who] = Operation(w)]
    /\ IF Job(w).kind = "own" \/ Operation(w).method # "disconnect"
       THEN sessLock' = Unlocked(w) /\ Finish(w, "ok")
       ELSE /\ sessLock' = IF link[w] = 0 THEN Unlocked(w) ELSE sessLock
            /\ Goto(w, "unpool") /\ UNCHANGED ref
    /\ UNCHANGED <<mode, machine, daemon, pool, poolLock, spawned, origin, exited, link, asks>>

\* Mutant: an operation that fails keeps the session's mutex.
RunFailsLocked(w) ==
    /\ At(w, "run") /\ ~Refused(w)
    /\ ran' = [ran EXCEPT ![Job(w).who] = Operation(w)]
    /\ Finish(w, "failed")
    /\ UNCHANGED <<mode, machine, daemon, sessionVars, link, asks>>

\* It fails, has nothing to say in TOON, or the adapter is gone.
RunFails(w) ==
    /\ At(w, "run") /\ ~Refused(w)
    /\ ran' = [ran EXCEPT ![Job(w).who] = Operation(w)]
    /\ sessLock' = Unlocked(w)
    /\ Finish(w, "failed")
    /\ UNCHANGED <<mode, machine, daemon, pool, poolLock, spawned, origin, exited, link, asks>>

\* By key: whatever session the key names by now.
Unpool(w) ==
    /\ At(w, "unpool") /\ poolLock = None
    /\ pool' = [pool EXCEPT ![Job(w).key] = None]
    /\ IF link[w] = 0 THEN Finish(w, "ok") ELSE Goto(w, "release") /\ UNCHANGED ref
    /\ UNCHANGED <<mode, machine, daemon, poolLock, sessLock, spawned, origin, exited, link, asks, ran>>

Release(w) ==
    /\ At(w, "release")
    /\ sessLock' = Unlocked(w)
    /\ Finish(w, "ok")
    /\ UNCHANGED <<mode, machine, daemon, pool, poolLock, spawned, origin, exited, link, asks, ran>>

\* The tasks of a daemon that ends go with it, and their answers.
Abort(w) ==
    /\ ~Alive(w) /\ inbox[w] # <<>>
    /\ inbox' = [inbox EXCEPT ![w] = <<>>]
    /\ phase' = [phase EXCEPT ![w] = "idle"]
    /\ ref' = [ref EXCEPT ![w] = None]
    /\ sessLock' = Unlocked(w)
    /\ UNCHANGED <<mode, machine, daemon, pool, poolLock, spawned, origin, exited, link, asks, replyVars>>

----------------------------------------------------------------------------
(* The environment. *)

\* An adapter somebody still refers to exits.
AdapterExits(i) ==
    /\ i \notin exited /\ Cardinality(exited) < machine.exits
    /\ \/ \E k \in Keys : pool[k] = i
       \/ \E w \in Workers : ref[w] = i
    /\ exited' = exited \cup {i}
    /\ UNCHANGED <<mode, machine, daemon, pool, poolLock, sessLock, spawned, origin, link, workVars, asks, replyVars>>

\* DapPool::reap_idle, in the daemon only: sessions last used long ago that nobody uses.
Reap ==
    /\ daemon.up /\ poolLock = None
    /\ \E quiet \in SUBSET {k \in Keys : pool[k] # None} \ {{}} :
         /\ \A k \in quiet : sessLock[pool[k]] = None
         /\ pool' = [k \in Keys |-> IF k \in quiet THEN None ELSE pool[k]]
    /\ UNCHANGED <<mode, machine, daemon, poolLock, sessLock, spawned, origin, exited, link, workVars, asks, replyVars>>

\* Shut down by another client, idle for too long, or killed; its adapters go with it.
DaemonEnds ==
    /\ daemon.up
    /\ daemon' = [daemon EXCEPT !.up = FALSE]
    /\ pool' = [k \in Keys |-> None]
    /\ poolLock' = None
    /\ UNCHANGED <<mode, machine, sessLock, spawned, origin, exited, link, workVars, asks, replyVars>>

\* DaemonClient::connect_or_start, for worker w.
ConnectOrStart(w) ==
    /\ daemon.up \/ daemon.born < MaxDaemons
    /\ daemon' = [up |-> TRUE, born |-> IF daemon.up THEN daemon.born ELSE daemon.born + 1]
    /\ link' = [link EXCEPT ![w] = daemon'.born]

SharedInit ==
    /\ daemon = [up |-> FALSE, born |-> 0]
    /\ pool = [k \in Keys |-> None] /\ poolLock = None
    /\ sessLock = [i \in Sessions |-> None]
    /\ spawned = 0 /\ exited = {}
    /\ origin = [i \in Sessions |-> [key |-> None, by |-> None]]
    /\ link = [w \in Workers |-> 0]
    /\ inbox = [w \in Workers |-> <<>>]
    /\ phase = [w \in Workers |-> "idle"]
    /\ ref = [w \in Workers |-> None]
    /\ asks = [c \in Callers |-> 0]
    /\ answer = [c \in Callers |-> None]
    /\ ran = [c \in Callers |-> None]

\* Steps that wait for a mutex, and the others.
Waits(w) == Evict(w) \/ GetOrSpawn(w) \/ SpawnFails(w) \/ Lookup(w) \/ LockSession(w) \/ Unpool(w)
Works(w) == TakeUp(w) \/ Refuse(w) \/ Run(w) \/ RunFails(w) \/ Release(w) \/ Abort(w)

SharedStep == \/ \E w \in Workers : Waits(w) \/ Works(w)
              \/ \E i \in Sessions : AdapterExits(i)
              \/ Reap \/ DaemonEnds
=============================================================================
