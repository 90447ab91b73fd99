--------------------------- MODULE DaemonLifecycle ---------------------------
(***************************************************************************)
(* Clients of the daemon of one project, and the daemon processes they      *)
(* start (src/daemon/client.rs, and start() of src/daemon/server.rs).       *)
(*                                                                         *)
(* What brings them together is one path in the file system: a client       *)
(* connects to the daemon whose socket is bound there, and starts a daemon  *)
(* if it reaches none; a daemon removes what it finds there before it binds *)
(* and once more when it stops.  Nothing keeps two daemons from doing so at *)
(* the same time.  A daemon is named after the client that started it.      *)
(*                                                                         *)
(* DaemonServer is the inside of one of these daemons; here its requests    *)
(* are answered in the order they came on a connection, or never.           *)
(***************************************************************************)
EXTENDS Naturals, SequencesExt

CONSTANTS Clients, None,
          MaxCalls,     \* bound: calls of a client
          MaxCrashes    \* bound: daemons that are killed

ASSUME LifecycleConstants ==
    None \notin Clients /\ MaxCalls \in Nat /\ MaxCrashes \in Nat

VARIABLES
    socket,     \* the daemon whose socket file is at the path, or None
    proc,       \* the daemon process a client has started: how far it is
    shutdown,   \* its shutdown channel
    killed,     \* the daemons that were killed
    client,     \* the client: how far it is
    owns,       \* owns_daemon
    conn,       \* the daemon its stream leads to, or None
    accepted,   \* that daemon has accepted it
    calls,      \* its calls so far: the id of the last one
    asked,      \* request ids the daemon has not answered yet
    replies     \* response ids the client has not read yet

daemonVars == <<socket, proc, shutdown, killed>>
clientVars == <<client, owns, conn, accepted, calls>>
vars == <<daemonVars, clientVars, asked, replies>>

Init ==
    /\ socket = None
    /\ proc = [d \in Clients |-> "none"]
    /\ shutdown = [d \in Clients |-> FALSE]
    /\ killed = {}
    /\ client = [c \in Clients |-> "new"]
    /\ owns = [c \in Clients |-> FALSE]
    /\ conn = [c \in Clients |-> None]
    /\ accepted = [c \in Clients |-> FALSE]
    /\ calls = [c \in Clients |-> 0]
    /\ asked = [c \in Clients |-> <<>>]
    /\ replies = [c \in Clients |-> <<>>]

\* A listener exists from bind to the end of start(): a connection made while the
\* daemon tears down succeeds, but is never accepted.
Reachable == socket # None /\ proc[socket] \in {"up", "leaving"}

----------------------------------------------------------------------------
(* The client. *)

Connected(c, owner) ==
    /\ client' = [client EXCEPT ![c] = "connected"]
    /\ owns' = [owns EXCEPT ![c] = owner]
    /\ conn' = [conn EXCEPT ![c] = socket]
    /\ UNCHANGED <<accepted, calls, asked, replies>>

\* connect_or_start: the daemon that is there ...
Connect(c) ==
    /\ client[c] = "new" /\ Reachable
    /\ Connected(c, FALSE)
    /\ UNCHANGED daemonVars

\* ... or a new one, ...
StartDaemon(c) ==
    /\ client[c] = "new" /\ ~Reachable
    /\ client' = [client EXCEPT ![c] = "waiting"]
    /\ proc' = [proc EXCEPT ![c] = "checking"]
    /\ UNCHANGED <<socket, shutdown, killed, owns, conn, accepted, calls, asked, replies>>

\* ... which, or whoever answers first, is then the client's own, ...
ConnectOwning(c) ==
    /\ client[c] = "waiting" /\ Reachable
    /\ Connected(c, TRUE)
    /\ UNCHANGED daemonVars

\* ... or after ten seconds none.
StartTimesOut(c) ==
    /\ client[c] = "waiting"
    /\ client' = [client EXCEPT ![c] = "done"]
    /\ UNCHANGED <<daemonVars, owns, conn, accepted, calls, asked, replies>>

Up(c) == proc[conn[c]] \in {"up", "leaving"}

\* call: to a stream whose other end is gone the request cannot be written.
Call(c) ==
    /\ client[c] = "connected" /\ calls[c] < MaxCalls
    /\ calls' = [calls EXCEPT ![c] = @ + 1]
    /\ IF Up(c) THEN /\ client' = [client EXCEPT ![c] = "calling"]
                     /\ asked' = [asked EXCEPT ![c] = Append(@, calls[c] + 1)]
                ELSE UNCHANGED <<client, asked>>
    /\ UNCHANGED <<daemonVars, owns, conn, accepted, replies>>

\* Mutant: the first response is taken for the call's own.
AnyReply(c) == replies[c] # <<>>

\* The response at hand is the call's own.
OwnReply(c) == replies[c] # <<>> /\ Head(replies[c]) = calls[c]

\* The receive loop of call returns its response, ...
Returns(c) ==
    /\ client[c] = "calling" /\ OwnReply(c)
    /\ client' = [client EXCEPT ![c] = "connected"]
    /\ replies' = [replies EXCEPT ![c] = Tail(@)]
    /\ UNCHANGED <<daemonVars, owns, conn, accepted, calls, asked>>

\* ... drops the response to an earlier call that gave up, ...
DrainsOrphan(c) ==
    /\ client[c] = "calling" /\ replies[c] # <<>> /\ ~OwnReply(c)
    /\ replies' = [replies EXCEPT ![c] = Tail(@)]
    /\ UNCHANGED <<daemonVars, clientVars, asked>>

\* Mutant: no timeout around read_line.
NeverTimesOut(c) == FALSE /\ UNCHANGED vars

\* ... and gives up after thirty seconds without a line.  At the end of the stream
\* there is always a line, an empty one, and the loop goes round for ever: no step.
TimesOut(c) ==
    /\ client[c] = "calling" /\ replies[c] = <<>> /\ Up(c)
    /\ client' = [client EXCEPT ![c] = "connected"]
    /\ UNCHANGED <<daemonVars, owns, conn, accepted, calls, asked, replies>>

Hangup(c) ==
    /\ conn' = [conn EXCEPT ![c] = None]
    /\ asked' = [asked EXCEPT ![c] = <<>>]
    /\ replies' = [replies EXCEPT ![c] = <<>>]

\* Mutant: the connection stays open and is not counted off when the client leaves.
DropUncounted(c) ==
    /\ client[c] = "connected"
    /\ client' = [client EXCEPT ![c] = IF owns[c] THEN "dropping" ELSE "done"]
    /\ asked' = [asked EXCEPT ![c] = <<>>]
    /\ replies' = [replies EXCEPT ![c] = <<>>]
    /\ UNCHANGED <<daemonVars, owns, conn, accepted, calls>>

\* Drop: the stream is closed; an owner leaves a thread behind, ...
Drop(c) ==
    /\ client[c] = "connected"
    /\ client' = [client EXCEPT ![c] = IF owns[c] THEN "dropping" ELSE "done"]
    /\ Hangup(c)
    /\ accepted' = [accepted EXCEPT ![c] = FALSE]
    /\ UNCHANGED <<daemonVars, owns, calls>>

\* ... which asks the daemon at the path, its own or not, to shut down, ...
DropShutsDown(c) ==
    /\ client[c] = "dropping"
    /\ Reachable /\ proc[socket] = "up"
    /\ client' = [client EXCEPT ![c] = "done"]
    /\ shutdown' = [shutdown EXCEPT ![socket] = TRUE]
    /\ UNCHANGED <<socket, proc, killed, owns, conn, accepted, calls, asked, replies>>

\* ... unless it reaches none in time, or dies with the client's process.
DropFails(c) ==
    /\ client[c] = "dropping"
    /\ client' = [client EXCEPT ![c] = "done"]
    /\ UNCHANGED <<daemonVars, owns, conn, accepted, calls, asked, replies>>

----------------------------------------------------------------------------
(* The daemon: start(). *)

Users(d) == {c \in Clients : conn[c] = d /\ accepted[c]}

At(d, from, to) == proc[d] = from /\ proc' = [proc EXCEPT ![d] = to]

\* A file is at the path, whoever it belongs to ...
FindsSocket(d) ==
    /\ socket # None
    /\ At(d, "checking", "removing")
    /\ UNCHANGED <<socket, shutdown, killed, clientVars, asked, replies>>

FindsNone(d) ==
    /\ socket = None
    /\ At(d, "checking", "binding")
    /\ UNCHANGED <<socket, shutdown, killed, clientVars, asked, replies>>

\* ... and is removed, if it is still there; without it start() fails.
Removes(d) ==
    /\ IF socket # None THEN At(d, "removing", "binding") ELSE At(d, "removing", "gone")
    /\ socket' = None
    /\ UNCHANGED <<shutdown, killed, clientVars, asked, replies>>

\* Bind fails if there is a file again.
Binds(d) ==
    /\ IF socket = None
       THEN At(d, "binding", "up") /\ socket' = d
       ELSE At(d, "binding", "gone") /\ UNCHANGED socket
    /\ UNCHANGED <<shutdown, killed, clientVars, asked, replies>>

Accept(d) ==
    /\ proc[d] = "up"
    /\ \E c \in Clients :
          /\ conn[c] = d /\ ~accepted[c]
          /\ accepted' = [accepted EXCEPT ![c] = TRUE]
    /\ UNCHANGED <<daemonVars, client, owns, conn, calls, asked, replies>>

\* A connection's requests are answered one by one, also during the teardown.
Serve(d) ==
    /\ proc[d] \in {"up", "leaving"}
    /\ \E c \in Users(d) :
          /\ asked[c] # <<>>
          /\ asked' = [asked EXCEPT ![c] = Tail(@)]
          /\ replies' = [replies EXCEPT ![c] = Append(@, Head(asked[c]))]
    /\ UNCHANGED <<daemonVars, clientVars>>

\* The reaper has seen no session and no accepted connection for long enough.
IdleExit(d) ==
    /\ proc[d] = "up" /\ ~shutdown[d] /\ Users(d) = {}
    /\ shutdown' = [shutdown EXCEPT ![d] = TRUE]
    /\ UNCHANGED <<socket, proc, killed, clientVars, asked, replies>>

SeesShutdown(d) ==
    /\ shutdown[d]
    /\ At(d, "up", "leaving")
    /\ UNCHANGED <<socket, shutdown, killed, clientVars, asked, replies>>

\* Mutant: the socket file is left where it is.
StopsOnly(d) ==
    /\ At(d, "leaving", "gone")
    /\ UNCHANGED <<socket, shutdown, killed, clientVars, asked, replies>>

\* The end of the teardown removes the file at the path, and the process ends.
Stops(d) ==
    /\ At(d, "leaving", "gone")
    /\ socket' = None
    /\ UNCHANGED <<shutdown, killed, clientVars, asked, replies>>

Killed(d) ==
    /\ Cardinality(killed) < MaxCrashes
    /\ proc[d] \in {"up", "leaving"}
    /\ proc' = [proc EXCEPT ![d] = "gone"]
    /\ killed' = killed \cup {d}
    /\ UNCHANGED <<socket, shutdown, clientVars, asked, replies>>

----------------------------------------------------------------------------
CallStep(c) == Returns(c) \/ DrainsOrphan(c) \/ TimesOut(c)
ClientStep(c) ==
    \/ Connect(c) \/ StartDaemon(c) \/ ConnectOwning(c) \/ StartTimesOut(c)
    \/ Call(c) \/ CallStep(c)
    \/ Drop(c) \/ DropShutsDown(c) \/ DropFails(c)

LifeStep(d) == \/ FindsSocket(d) \/ FindsNone(d) \/ Removes(d) \/ Binds(d)
               \/ IdleExit(d) \/ SeesShutdown(d) \/ Stops(d)
DaemonStep(d) == LifeStep(d) \/ Accept(d) \/ Serve(d) \/ Killed(d)

Next == \E c \in Clients : ClientStep(c) \/ DaemonStep(c)

Spec == Init /\ [][Next]_vars

\* A client that calls runs; a daemon process starts, ticks and stops.  Clients need
\* not start, call or leave, and an answer need not come.
FairSpec == Spec /\ \A c \in Clients : WF_vars(CallStep(c)) /\ WF_vars(LifeStep(c))
=============================================================================
