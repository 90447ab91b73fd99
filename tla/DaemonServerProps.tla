-------------------------- MODULE DaemonServerProps --------------------------
(* What DaemonServer is checked for, and proved of it in DaemonServerProofs. *)
EXTENDS DaemonServer

\* Where a task waits while it holds a lock, or keeps a session.
HoldsPool(c) == pc[c] \in {"spawnForget", "spawnGet", "spawnRecord"}
HoldsStatus(c) == pc[c] = "statusKeys"
HoldsSession(c) == pc[c] \in {"running", "dropPool", "dropForget"}
HasSession(c) == pc[c] = "lockSession" \/ HoldsSession(c)

\* A task that is between requests.
Unasked(c) == pc[c] \in {"absent", "backlog", "accepted", "idle"}

Places == {"absent", "backlog", "accepted", "idle", "record",
           "spawn", "spawnForget", "spawnGet", "spawnRecord",
           "remove", "removeForget", "lookup", "lockSession", "running",
           "dropPool", "dropForget", "status", "statusKeys", "shutdown"}

----------------------------------------------------------------------------
\* The type of every variable; a connection has a method and a key exactly while
\* a request of its is being served, and the idle clock stops at its TTL.
TypeOK ==
    /\ pool \in [Keys -> Insts \cup {None}]
    /\ ref \in [Clients -> Insts \cup {None}]
    /\ exited \subseteq Insts /\ quiet \subseteq Insts
    /\ sessions \subseteq Keys
    /\ poolLock \in Clients \cup {None}
    /\ statusLock \in Clients \cup {None}
    /\ sessLock \in [Insts -> Clients \cup {None}]
    /\ pc \in [Clients -> Places]
    /\ meth \in [Clients -> Methods \cup {None}]
    /\ key \in [Clients -> Keys \cup {None}]
    /\ \A c \in Clients : /\ meth[c] = None <=> Unasked(c)
                          /\ key[c] = None <=> Unasked(c)
    /\ main \in {"select", "recordConnection", "clearPool", "clearStatus",
                 "unlink", "stopped"}
    /\ reaper \in {"sleep", "reap", "keys", "retain", "check", "exit", "done"}
    /\ liveKeys \subseteq Keys
    /\ idleFor \in 0..(IdleTicks - 1) \cup {None}
    /\ shutdown \in BOOLEAN

\* Each mutex is held by exactly the task whose place in the code says so: no
\* guard outlives its arm of dispatch, none is dropped early, two tasks are
\* never in the pool's, the status's or one session's critical section, and a
\* task that keeps a session past its lookup keeps only that one.
LocksMatchPlaces ==
    \A c \in Clients :
        /\ poolLock = c <=> HoldsPool(c)
        /\ statusLock = c <=> HoldsStatus(c)
        /\ ref[c] # None <=> HasSession(c)
        /\ \A i \in Insts : sessLock[i] = c <=> (HoldsSession(c) /\ ref[c] = i)

\* dap/spawn with replace really replaces: from the removal of the old session
\* to the spawn nobody can bind the key, so the session the reply stands for is
\* new; and whatever the spawn, its key is bound when the status is told.
SpawnOwnsItsKey ==
    \A c \in Clients :
        /\ pc[c] = "spawnForget" => pool[key[c]] = None
        /\ pc[c] = "spawnGet" /\ meth[c] = "replace" => pool[key[c]] = None
        /\ pc[c] = "spawnRecord" => pool[key[c]] # None

----------------------------------------------------------------------------
\* While a task waits with the pool (the status) locked, nobody else changes
\* the pool (the status), be it handler, reaper or teardown.
GuardedByItsLock ==
    [][\A c \in Clients :
          /\ poolLock = c /\ pool' # pool => pc'[c] # pc[c]
          /\ statusLock = c /\ sessions' # sessions => pc'[c] # pc[c]]_vars

\* c, whose request names k, asks for k to be closed.
ClosesOnRequest(c, k) ==
    /\ key[c] = k /\ pc'[c] # pc[c]
    /\ \/ pc[c] = "spawn" /\ meth[c] = "replace"
       \/ pc[c] \in {"remove", "dropPool"}

\* A session with an operation running leaves the pool because a request says
\* so, or in the teardown: neither the reaper nor the dead-child check of a
\* lookup or of a spawn takes it, however long the operation lasts and whatever
\* became of the child.
BusySessionLeavesOnRequest ==
    [][\A k \in Keys :
          (pool[k] # None /\ sessLock[pool[k]] # None /\ pool'[k] # pool[k])
             => (main' # main \/ \E c \in Clients : ClosesOnRequest(c, k))]_vars

\* A lookup or a spawn never hands out a session whose child it could see had
\* exited: only one in use by somebody else, which it cannot inspect.
DeadSessionNotServed ==
    [][\A c \in Clients :
          (pc[c] \in {"lookup", "spawnGet"} /\ pc'[c] \in {"lockSession", "spawnRecord"})
             => LET i == pool'[key[c]]
                IN i \in exited' => sessLock[i] # None]_vars

\* With locks, status and connections forgotten, the daemon is a registry of
\* sessions: see SessionRegistry for what that promises.
Registry == INSTANCE SessionRegistry WITH bound <- pool, user <- sessLock
ImplementsRegistry == Registry!RegistrySpec

----------------------------------------------------------------------------
\* Every request is answered: no interleaving of handlers, reaper and teardown
\* leaves one of them waiting for a lock forever.
RequestsAnswered ==
    \A c \in Clients : pc[c] = "record" ~> (Unasked(c) \/ ~Running)

\* "Listen until SIGINT or daemon/shutdown": once asked, the daemon stops.
ShutdownCompletes == shutdown ~> ~Running

\* A daemon that from some point on has no session and no connection stops.
UnusedDaemonStops == (<>[]~Busy) => <>~Running

\* A session nobody uses does not stay in the pool.
QuietSessionsReaped == \A k \in Keys : []<>(k \notin Reapable \/ ~Running)

\* A disconnect drops from the pool the session it disconnected, if anything:
\* the session a later dap/spawn with replace has put in its place stays.
DisconnectDropsItsOwn ==
    [][\A c \in Clients : (pc[c] = "dropPool" /\ pc'[c] # pc[c])
                             => pool[key[c]] \in {None, ref[c]}]_vars
=============================================================================
