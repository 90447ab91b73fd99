---------------------------- MODULE DaemonServer ----------------------------
(***************************************************************************)
(* The dapz daemon: src/daemon/server.rs over src/mcp/pool.rs.              *)
(*                                                                         *)
(* One process runs an accept loop, an idle reaper and one task per client  *)
(* connection.  They share                                                  *)
(*   - the session pool, behind a tokio Mutex          (pool, poolLock),    *)
(*   - the status record, behind a second one      (sessions, statusLock),  *)
(*   - each adapter session, behind its own            (sessLock),          *)
(*   - the shutdown watch channel                      (shutdown).          *)
(* A step of a task is what it does from one lock acquisition to the next   *)
(* await; a guard the code drops before that await is taken and given back  *)
(* within the step, so the lock variables name only holders that wait.      *)
(*                                                                         *)
(* Left out: the payload of requests and replies, the two counters of the   *)
(* status record (the lock taken to bump them is kept), and what an         *)
(* operation says to its adapter.                                           *)
(***************************************************************************)
EXTENDS Naturals, FiniteSets

CONSTANTS Clients,    \* client connections
          Keys,       \* pool keys: backend command + cwd
          Insts,      \* adapter sessions, one child process each
          Methods,    \* the requests clients send, a subset of AllMethods
          IdleTicks,  \* DAEMON_IDLE_TTL / REAPER_CHECK_INTERVAL
          None        \* Option::None, a free mutex

\* "use" stands for every operation that only needs the session: dap/request,
\* dap/wait_event and each op of dap/invoke but disconnect.  "replace" is
\* dap/spawn with replace = true; "bad" an unknown method or bad params.
AllMethods == {"spawn", "replace", "remove", "use", "disconnect", "status",
               "shutdown", "bad"}

ASSUME DaemonConstants ==
    /\ Methods \subseteq AllMethods
    /\ IdleTicks \in Nat \ {0}
    /\ None \notin Clients \cup Keys \cup Insts \cup Nat \cup AllMethods

VARIABLES
    pool,        \* DapPool.sessions: the session of each key, or None
    ref,         \* the Arc<Mutex<DapSession>> each connection's request holds
    exited,      \* sessions whose adapter child has exited
    quiet,       \* unlocked sessions without I/O for SESSION_IDLE_TTL
    sessions,    \* DaemonStatus.sessions: keys reported as active
    poolLock,    \* the connection that waits while holding the pool mutex, or None
    statusLock,  \* the same for the status mutex
    sessLock,    \* the same for each session's mutex
    pc,          \* where each connection's task is
    meth, key,   \* the method and pool key of its current request, or None
    main,        \* where the accept loop is
    reaper,      \* where the reaper is
    liveKeys,    \* the reaper's copy of the pool's keys
    idleFor,     \* daemon_idle_since: None, or ticks since the daemon went idle
    shutdown     \* the value of the shutdown watch channel

refs == <<pool, ref, exited, quiet>>
locks == <<poolLock, statusLock, sessLock>>
conns == <<pc, meth, key>>
reaping == <<reaper, liveKeys, idleFor>>
vars == <<refs, sessions, locks, conns, main, reaping, shutdown>>

----------------------------------------------------------------------------
\* The process lives until start() returns.
Running == main # "stopped"

\* Connections active_connections counts: from accept() to the drop of the
\* task's ConnectionGuard.
Active == {c \in Clients : pc[c] \notin {"absent", "backlog"}}

BoundKeys == {k \in Keys : pool[k] # None}

\* DapPool::remove, clear and retain.
Without(ks) == [k \in Keys |-> IF k \in ks THEN None ELSE pool[k]]

Referred(p, r) == {i \in Insts : (\E k \in Keys : p[k] = i)
                                 \/ (\E c \in Clients : r[c] = i)}

\* The pool and the requests' references become p and r.  A session nothing
\* refers to any more is dropped, and its child killed with it.
Refer(p, r) == /\ pool' = p
               /\ ref' = r
               /\ exited' = exited \cap Referred(p, r)
               /\ quiet' = quiet \cap Referred(p, r)

\* Mutant: try_wait reaches the child without the session's mutex.
SeenDeadUnlocked(k) == pool[k] # None /\ pool[k] \in exited

\* The child of the session at k has exited and nobody holds its mutex, so
\* try_lock succeeds and try_wait reports the exit.
SeenDead(k) == /\ pool[k] # None
               /\ sessLock[pool[k]] = None
               /\ pool[k] \in exited

\* DapPool::reap_if_dead, the first thing get_by_key and get_or_spawn do.
ReapIfDead(k) == IF SeenDead(k) THEN Without({k}) ELSE pool

\* What DapPool::reap_idle drops: quiet sessions whose mutex try_lock gets.
Reapable == {k \in BoundKeys : pool[k] \in quiet /\ sessLock[pool[k]] = None}

Goto(c, l) == /\ pc' = [pc EXCEPT ![c] = l]
              /\ UNCHANGED <<meth, key>>

\* The request is answered and dropped; the task goes to l.
Reply(c, l) == /\ pc' = [pc EXCEPT ![c] = l]
               /\ meth' = [meth EXCEPT ![c] = None]
               /\ key' = [key EXCEPT ![c] = None]

----------------------------------------------------------------------------
Init ==
    /\ pool = [k \in Keys |-> None]
    /\ ref = [c \in Clients |-> None]
    /\ exited = {} /\ quiet = {}
    /\ sessions = {}
    /\ poolLock = None /\ statusLock = None
    /\ sessLock = [i \in Insts |-> None]
    /\ pc = [c \in Clients |-> "absent"]
    /\ meth = [c \in Clients |-> None]
    /\ key = [c \in Clients |-> None]
    /\ main = "select"
    /\ reaper = "sleep" /\ liveKeys = {} /\ idleFor = None
    /\ shutdown = FALSE

----------------------------------------------------------------------------
(* The environment: clients, adapters, signals, time. *)

\* The listener exists until start() returns; connecting only fills its backlog.
Connect(c) ==
    /\ Running /\ pc[c] = "absent"
    /\ Goto(c, "backlog")
    /\ UNCHANGED <<refs, sessions, locks, main, reaping, shutdown>>

\* A request line arrives at a task waiting in read_line.
Request(c, m, k) ==
    /\ Running /\ pc[c] = "idle"
    /\ pc' = [pc EXCEPT ![c] = "record"]
    /\ meth' = [meth EXCEPT ![c] = m]
    /\ key' = [key EXCEPT ![c] = k]
    /\ UNCHANGED <<refs, sessions, locks, main, reaping, shutdown>>

\* The client closes: read_line returns 0 and the task ends, dropping its guard.
HangUp(c) ==
    /\ Running /\ pc[c] = "idle"
    /\ Goto(c, "absent")
    /\ UNCHANGED <<refs, sessions, locks, main, reaping, shutdown>>

\* An adapter child exits by itself (crash, or its debuggee is done).
AdapterExits(i) ==
    /\ Running /\ i \in Referred(pool, ref) \ exited
    /\ exited' = exited \cup {i}
    /\ UNCHANGED <<pool, ref, quiet, sessions, locks, conns, main, reaping, shutdown>>

\* SESSION_IDLE_TTL passes with no I/O on a session.  The age of a session in
\* use is of no interest: reap_idle looks at it only when try_lock succeeds.
GoesQuiet(i) ==
    /\ Running /\ i \in Referred(pool, ref) \ quiet /\ sessLock[i] = None
    /\ quiet' = quiet \cup {i}
    /\ UNCHANGED <<pool, ref, exited, sessions, locks, conns, main, reaping, shutdown>>

\* SIGINT: the ctrl_c task sends on the shutdown channel.
Interrupt ==
    /\ Running /\ ~shutdown
    /\ shutdown' = TRUE
    /\ UNCHANGED <<refs, sessions, locks, conns, main, reaping>>

----------------------------------------------------------------------------
(* handle_client and dispatch, one step per await. *)

Arm(m) == CASE m \in {"spawn", "replace"} -> "spawn"
            [] m = "remove" -> "remove"
            [] m \in {"use", "disconnect"} -> "lookup"
            [] m = "status" -> "status"
            [] m = "shutdown" -> "shutdown"

\* status.lock().await.record_request(), then dispatch on the method.
RecordRequest(c) ==
    /\ Running /\ pc[c] = "record" /\ statusLock = None
    /\ IF meth[c] = "bad" THEN Reply(c, "idle") ELSE Goto(c, Arm(meth[c]))
    /\ UNCHANGED <<refs, sessions, locks, main, reaping, shutdown>>

\* Mutant: the pool guard is dropped before the status is locked.
SpawnLockDropped(c) ==
    /\ Running /\ pc[c] = "spawn" /\ poolLock = None
    /\ Refer(IF meth[c] = "replace" THEN Without({key[c]}) ELSE pool, ref)
    /\ Goto(c, IF meth[c] = "replace" THEN "spawnForget" ELSE "spawnGet")
    /\ UNCHANGED <<sessions, locks, main, reaping, shutdown>>

\* dap/spawn: the pool guard taken here is held to the end of the arm.
SpawnLock(c) ==
    /\ Running /\ pc[c] = "spawn" /\ poolLock = None
    /\ poolLock' = c
    /\ \/ /\ meth[c] = "replace"
          /\ Refer(Without({key[c]}), ref)
          /\ Goto(c, "spawnForget")
       \/ /\ meth[c] = "spawn"
          /\ Goto(c, "spawnGet")
          /\ UNCHANGED refs
    /\ UNCHANGED <<sessions, statusLock, sessLock, main, reaping, shutdown>>

SpawnForget(c) ==
    /\ Running /\ pc[c] = "spawnForget" /\ statusLock = None
    /\ sessions' = sessions \ {key[c]}
    /\ Goto(c, "spawnGet")
    /\ UNCHANGED <<refs, locks, main, reaping, shutdown>>

\* DapPool::get_or_spawn: the key's session is reused, ...
SpawnReuse(c) ==
    /\ Running /\ pc[c] = "spawnGet"
    /\ pool[key[c]] # None /\ ~SeenDead(key[c])
    /\ Goto(c, "spawnRecord")
    /\ UNCHANGED <<refs, sessions, locks, main, reaping, shutdown>>

\* ... or an adapter is started in the place of none or a dead one, ...
SpawnNew(c, i) ==
    /\ Running /\ pc[c] = "spawnGet"
    /\ pool[key[c]] = None \/ SeenDead(key[c])
    /\ i \notin Referred(pool, ref)
    /\ Refer([pool EXCEPT ![key[c]] = i], ref)
    /\ Goto(c, "spawnRecord")
    /\ UNCHANGED <<sessions, locks, main, reaping, shutdown>>

\* Mutant: the error arm of get_or_spawn leaves the pool locked.
SpawnFailsLocked(c) ==
    /\ Running /\ pc[c] = "spawnGet"
    /\ pool[key[c]] = None \/ SeenDead(key[c])
    /\ Refer(ReapIfDead(key[c]), ref)
    /\ Reply(c, "idle")
    /\ UNCHANGED <<sessions, locks, main, reaping, shutdown>>

\* ... or its command cannot be started, and the error is the reply.
SpawnFails(c) ==
    /\ Running /\ pc[c] = "spawnGet"
    /\ pool[key[c]] = None \/ SeenDead(key[c])
    /\ Refer(ReapIfDead(key[c]), ref)
    /\ poolLock' = None
    /\ Reply(c, "idle")
    /\ UNCHANGED <<sessions, statusLock, sessLock, main, reaping, shutdown>>

SpawnRecord(c) ==
    /\ Running /\ pc[c] = "spawnRecord" /\ statusLock = None
    /\ sessions' = sessions \cup {key[c]}
    /\ poolLock' = None
    /\ Reply(c, "idle")
    /\ UNCHANGED <<refs, statusLock, sessLock, main, reaping, shutdown>>

\* dap/remove: the two locks are taken one after the other.
RemovePool(c) ==
    /\ Running /\ pc[c] = "remove" /\ poolLock = None
    /\ Refer(Without({key[c]}), ref)
    /\ Goto(c, "removeForget")
    /\ UNCHANGED <<sessions, locks, main, reaping, shutdown>>

RemoveForget(c) ==
    /\ Running /\ pc[c] = "removeForget" /\ statusLock = None
    /\ sessions' = sessions \ {key[c]}
    /\ Reply(c, "idle")
    /\ UNCHANGED <<refs, locks, main, reaping, shutdown>>

\* dap/invoke, dap/request, dap/wait_event: clone the Arc of the session under
\* the pool lock (DapPool::get_by_key), release the pool, queue for the session.
LookupFails(c) ==
    /\ Running /\ pc[c] = "lookup" /\ poolLock = None
    /\ pool[key[c]] = None \/ SeenDead(key[c])
    /\ Refer(ReapIfDead(key[c]), ref)
    /\ Reply(c, "idle")
    /\ UNCHANGED <<sessions, locks, main, reaping, shutdown>>

\* Mutant: get_by_key without reap_if_dead.
LookupUnreaped(c) ==
    /\ Running /\ pc[c] = "lookup" /\ poolLock = None /\ pool[key[c]] # None
    /\ Refer(pool, [ref EXCEPT ![c] = pool[key[c]]])
    /\ Goto(c, "lockSession")
    /\ UNCHANGED <<sessions, locks, main, reaping, shutdown>>

Lookup(c) ==
    /\ Running /\ pc[c] = "lookup" /\ poolLock = None
    /\ pool[key[c]] # None /\ ~SeenDead(key[c])
    /\ Refer(pool, [ref EXCEPT ![c] = pool[key[c]]])
    /\ Goto(c, "lockSession")
    /\ UNCHANGED <<sessions, locks, main, reaping, shutdown>>

\* Mutant: a session is used without waiting for its mutex.
LockSessionAtOnce(c) ==
    /\ Running /\ pc[c] = "lockSession"
    /\ sessLock' = [sessLock EXCEPT ![ref[c]] = c]
    /\ quiet' = quiet \ {ref[c]}
    /\ Goto(c, "running")
    /\ UNCHANGED <<pool, ref, exited, sessions, poolLock, statusLock, main, reaping,
                   shutdown>>

LockSession(c) ==
    /\ Running /\ pc[c] = "lockSession" /\ sessLock[ref[c]] = None
    /\ sessLock' = [sessLock EXCEPT ![ref[c]] = c]
    /\ quiet' = quiet \ {ref[c]}
    /\ Goto(c, "running")
    /\ UNCHANGED <<pool, ref, exited, sessions, poolLock, statusLock, main, reaping,
                   shutdown>>

\* Mutant: the session guard is dropped at the reply, but not unlocked.
ReleaseNot(c) ==
    /\ Refer(pool, [ref EXCEPT ![c] = None])
    /\ Reply(c, "idle")
    /\ UNCHANGED sessLock

\* The session guard and the Arc are dropped, and the reply goes out.
Release(c) ==
    /\ sessLock' = [sessLock EXCEPT ![ref[c]] = None]
    /\ Refer(pool, [ref EXCEPT ![c] = None])
    /\ Reply(c, "idle")

\* The operation ends, well or badly; a disconnect comes here when it fails.
OpReturns(c) ==
    /\ Running /\ pc[c] = "running"
    /\ Release(c)
    /\ UNCHANGED <<sessions, poolLock, statusLock, main, reaping, shutdown>>

\* A disconnect that succeeded goes on, holding the session, to drop the key it
\* was sent with from the pool and then from the status.
DisconnectOk(c) ==
    /\ Running /\ pc[c] = "running" /\ meth[c] = "disconnect"
    /\ Goto(c, "dropPool")
    /\ UNCHANGED <<refs, sessions, locks, main, reaping, shutdown>>

DropPool(c) ==
    /\ Running /\ pc[c] = "dropPool" /\ poolLock = None
    /\ Refer(Without({key[c]}), ref)
    /\ Goto(c, "dropForget")
    /\ UNCHANGED <<sessions, locks, main, reaping, shutdown>>

DropForget(c) ==
    /\ Running /\ pc[c] = "dropForget" /\ statusLock = None
    /\ sessions' = sessions \ {key[c]}
    /\ Release(c)
    /\ UNCHANGED <<poolLock, statusLock, main, reaping, shutdown>>

\* daemon/status: the status guard is held while the pool is locked.
StatusLock(c) ==
    /\ Running /\ pc[c] = "status" /\ statusLock = None
    /\ statusLock' = c
    /\ Goto(c, "statusKeys")
    /\ UNCHANGED <<refs, sessions, poolLock, sessLock, main, reaping, shutdown>>

StatusKeys(c) ==
    /\ Running /\ pc[c] = "statusKeys" /\ poolLock = None
    /\ statusLock' = None
    /\ Reply(c, "idle")
    /\ UNCHANGED <<refs, sessions, poolLock, sessLock, main, reaping, shutdown>>

\* daemon/shutdown: after its reply the task ends.
Shutdown(c) ==
    /\ Running /\ pc[c] = "shutdown"
    /\ shutdown' = TRUE
    /\ Reply(c, "absent")
    /\ UNCHANGED <<refs, sessions, locks, main, reaping>>

HandlerStep(c) ==
    \/ RecordRequest(c)
    \/ SpawnLock(c) \/ SpawnForget(c) \/ SpawnReuse(c) \/ SpawnFails(c)
    \/ \E i \in Insts : SpawnNew(c, i)
    \/ SpawnRecord(c)
    \/ RemovePool(c) \/ RemoveForget(c)
    \/ LookupFails(c) \/ Lookup(c) \/ LockSession(c) \/ OpReturns(c)
    \/ DisconnectOk(c) \/ DropPool(c) \/ DropForget(c)
    \/ StatusLock(c) \/ StatusKeys(c)
    \/ Shutdown(c)

----------------------------------------------------------------------------
(* start(): the accept loop and the teardown after it. *)

\* accept() returns a stream: count it, then queue for the status lock.
Accept(c) ==
    /\ main = "select" /\ pc[c] = "backlog"
    /\ Goto(c, "accepted")
    /\ main' = "recordConnection"
    /\ UNCHANGED <<refs, sessions, locks, reaping, shutdown>>

\* record_connection(), spawn the task, back to select!.
RecordConnection ==
    /\ main = "recordConnection" /\ statusLock = None
    /\ pc' = [c \in Clients |-> IF pc[c] = "accepted" THEN "idle" ELSE pc[c]]
    /\ main' = "select"
    /\ UNCHANGED <<refs, sessions, locks, meth, key, reaping, shutdown>>

SeeShutdown ==
    /\ main = "select" /\ shutdown
    /\ main' = "clearPool"
    /\ UNCHANGED <<refs, sessions, locks, conns, reaping, shutdown>>

\* Mutant: teardown waits until every client has left.
ClearPoolLast ==
    /\ main = "clearPool" /\ poolLock = None /\ Active = {}
    /\ Refer(Without(Keys), ref)
    /\ main' = "clearStatus"
    /\ UNCHANGED <<sessions, locks, conns, reaping, shutdown>>

ClearPool ==
    /\ main = "clearPool" /\ poolLock = None
    /\ Refer(Without(Keys), ref)
    /\ main' = "clearStatus"
    /\ UNCHANGED <<sessions, locks, conns, reaping, shutdown>>

ClearStatus ==
    /\ main = "clearStatus" /\ statusLock = None
    /\ sessions' = {}
    /\ main' = "unlink"
    /\ UNCHANGED <<refs, locks, conns, reaping, shutdown>>

\* Remove the socket file and return: the process exits with all its tasks.
Unlink ==
    /\ main = "unlink"
    /\ main' = "stopped"
    /\ UNCHANGED <<refs, sessions, locks, conns, reaping, shutdown>>

MainStep == RecordConnection \/ SeeShutdown \/ ClearPool \/ ClearStatus \/ Unlink

----------------------------------------------------------------------------
(* spawn_idle_reaper *)

ReaperWakes ==
    /\ Running /\ reaper = "sleep"
    /\ reaper' = IF shutdown THEN "done" ELSE "reap"
    /\ UNCHANGED <<refs, sessions, locks, conns, main, liveKeys, idleFor, shutdown>>

\* Mutant: the reaper does not lock the pool.
ReapIdleUnlocked ==
    /\ Running /\ reaper = "reap"
    /\ Refer(Without(Reapable), ref)
    /\ reaper' = IF Reapable = {} THEN "check" ELSE "keys"
    /\ UNCHANGED <<sessions, locks, conns, main, liveKeys, idleFor, shutdown>>

\* Mutant: sessions are reaped only while no client is connected.
ReapIdleAlone ==
    /\ Running /\ reaper = "reap" /\ poolLock = None
    /\ Refer(IF Active = {} THEN Without(Reapable) ELSE pool, ref)
    /\ reaper' = "check"
    /\ UNCHANGED <<sessions, locks, conns, main, liveKeys, idleFor, shutdown>>

\* pool.lock().await.reap_idle(SESSION_IDLE_TTL)
ReapIdle ==
    /\ Running /\ reaper = "reap" /\ poolLock = None
    /\ Refer(Without(Reapable), ref)
    /\ reaper' = IF Reapable = {} THEN "check" ELSE "keys"
    /\ UNCHANGED <<sessions, locks, conns, main, liveKeys, idleFor, shutdown>>

\* A second acquisition of the pool copies its keys, ...
ReaperKeys ==
    /\ Running /\ reaper = "keys" /\ poolLock = None
    /\ liveKeys' = BoundKeys
    /\ reaper' = "retain"
    /\ UNCHANGED <<refs, sessions, locks, conns, main, idleFor, shutdown>>

\* ... and the status keeps only the keys of that copy.
ReaperRetain ==
    /\ Running /\ reaper = "retain" /\ statusLock = None
    /\ sessions' = sessions \cap liveKeys
    /\ liveKeys' = {}
    /\ reaper' = "check"
    /\ UNCHANGED <<refs, locks, conns, main, idleFor, shutdown>>

Busy == BoundKeys # {} \/ Active # {}

\* Mutant: the comparison with the TTL is strict.
CheckIdleStrict ==
    /\ Running /\ reaper = "check" /\ poolLock = None
    /\ idleFor' = IF Busy THEN None ELSE IF idleFor = None THEN 0
                  ELSE IF idleFor + 1 <= IdleTicks THEN idleFor + 1 ELSE idleFor
    /\ reaper' = IF ~Busy /\ idleFor # None /\ idleFor + 1 > IdleTicks
                 THEN "exit" ELSE "sleep"
    /\ UNCHANGED <<refs, sessions, locks, conns, main, liveKeys, shutdown>>

\* Mutant: every idle tick restarts the idle clock.
CheckIdleRestarts ==
    /\ Running /\ reaper = "check" /\ poolLock = None
    /\ idleFor' = IF Busy THEN None ELSE 0
    /\ reaper' = "sleep"
    /\ UNCHANGED <<refs, sessions, locks, conns, main, liveKeys, shutdown>>

\* One reading of "busy" a tick decides about the daemon's own exit.
CheckIdle ==
    /\ Running /\ reaper = "check" /\ poolLock = None
    /\ \/ /\ Busy
          /\ idleFor' = None
          /\ reaper' = "sleep"
       \/ /\ ~Busy /\ idleFor = None
          /\ idleFor' = 0
          /\ reaper' = "sleep"
       \/ /\ ~Busy /\ idleFor # None /\ idleFor + 1 < IdleTicks
          /\ idleFor' = idleFor + 1
          /\ reaper' = "sleep"
       \/ /\ ~Busy /\ idleFor # None /\ idleFor + 1 >= IdleTicks
          /\ reaper' = "exit"
          /\ UNCHANGED idleFor
    /\ UNCHANGED <<refs, sessions, locks, conns, main, liveKeys, shutdown>>

SelfExit ==
    /\ Running /\ reaper = "exit"
    /\ shutdown' = TRUE
    /\ reaper' = "done"
    /\ UNCHANGED <<refs, sessions, locks, conns, main, liveKeys, idleFor>>

ReaperStep == ReaperWakes \/ ReapIdle \/ ReaperKeys \/ ReaperRetain \/ CheckIdle
              \/ SelfExit

\* The process is gone.
Stopped == ~Running /\ UNCHANGED vars

----------------------------------------------------------------------------
ClientStep(c) == \/ Connect(c)
                 \/ HangUp(c)
                 \/ \E m \in Methods, k \in Keys : Request(c, m, k)

Next ==
    \/ \E c \in Clients : ClientStep(c) \/ HandlerStep(c) \/ Accept(c)
    \/ \E i \in Insts : AdapterExits(i) \/ GoesQuiet(i)
    \/ Interrupt
    \/ MainStep
    \/ ReaperStep
    \/ Stopped

Spec == Init /\ [][Next]_vars

\* Every task runs until it blocks, and tokio's mutexes serve waiters first
\* come, first served: a task that waits for a lock others take and release
\* forever gets it (strong fairness).  An operation on an adapter ends.  The
\* reaper's timer fires.  select! polls its branches in random order, so a
\* shutdown that stays signalled is seen however many clients connect.
\* Nothing obliges a client to connect, to ask or to leave.
Fairness == /\ \A c \in Clients : SF_vars(HandlerStep(c))
            /\ SF_vars(MainStep) /\ SF_vars(SeeShutdown)
            /\ SF_vars(ReaperStep)

FairSpec == Spec /\ Fairness
=============================================================================
