-------------------------- MODULE MCDaemonLifecycle --------------------------
(* What DaemonLifecycle is checked for.                                     *)
EXTENDS DaemonLifecycle

Ids == Seq(1..MaxCalls)

\* Types; only a daemon's user has a connection, and no response is ahead of its
\* request.
TypeOK ==
    /\ socket \in Clients \cup {None} /\ killed \subseteq Clients
    /\ proc \in [Clients -> {"none", "checking", "removing", "binding", "up", "leaving", "gone"}]
    /\ shutdown \in [Clients -> BOOLEAN] /\ owns \in [Clients -> BOOLEAN]
    /\ client \in [Clients -> {"new", "waiting", "connected", "calling", "dropping", "done"}]
    /\ conn \in [Clients -> Clients \cup {None}] /\ accepted \in [Clients -> BOOLEAN]
    /\ calls \in [Clients -> 0..MaxCalls]
    /\ asked \in [Clients -> Ids] /\ replies \in [Clients -> Ids]
    /\ \A c \in Clients :
          /\ conn[c] # None <=> client[c] \in {"connected", "calling"}
          /\ accepted[c] => conn[c] # None

\* A call returns the response to its own request, whatever earlier calls of the
\* connection gave up and were answered afterwards.
CallGetsItsResponse ==
    [][\A c \in Clients :
          client[c] = "calling" /\ client'[c] = "connected" /\ replies'[c] # replies[c]
          => Head(replies[c]) = calls[c] /\ calls[c] \notin ToSet(asked[c])]_vars

\* A file without a listener is left behind by a kill only: daemons that remove each
\* other's files, or fail to start, leave none.
StaleAfterKillOnly == socket # None => proc[socket] \in {"up", "leaving"} \/ socket \in killed

\* A call ends, unless its daemon ends before it.
CallsEnd ==
    \A c \in Clients :
        client[c] = "calling" ~> client[c] # "calling" \/ ~Up(c)

\* When every client has left, every daemon ends, also the one whose socket another
\* has removed and that nobody can connect to any more, and no file remains but a
\* killed daemon's.
NothingLeft ==
    (\A c \in Clients : client[c] = "done")
        ~> (\A d \in Clients : proc[d] \in {"none", "gone"}) /\ socket \in killed \cup {None}
=============================================================================
