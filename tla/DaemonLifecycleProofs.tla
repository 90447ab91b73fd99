------------------------ MODULE DaemonLifecycleProofs ------------------------
(***************************************************************************)
(* Proofs, for every set of clients and every bound on calls and kills, of  *)
(* the safety properties of MCDaemonLifecycle.                              *)
(*                                                                         *)
(* The types and the socket file are inductive by themselves.  That a call  *)
(* gets its own response rests on the order of the ids that are on their    *)
(* way: what a daemon has answered comes before what it has not.            *)
(***************************************************************************)
EXTENDS MCDaemonLifecycle, TLAPS

\* Ids go out in ascending order, none past the last call, and are answered in that
\* order: a response that is still unread is older than every open request.
InOrder(open, unread, last) ==
    /\ \A m, n \in DOMAIN open : m < n => open[m] < open[n]
    /\ \A n \in DOMAIN open : open[n] <= last
    /\ \A m \in DOMAIN unread : unread[m] <= last
    /\ \A m \in DOMAIN unread, n \in DOMAIN open : unread[m] < open[n]

InIdOrder == \A c \in Clients : InOrder(asked[c], replies[c], calls[c])

IInv == TypeOK /\ StaleAfterKillOnly /\ InIdOrder

----------------------------------------------------------------------------
\* A queue that is not empty: its head, and what is left.
LEMMA FirstAndRest ==
    ASSUME NEW S, NEW s \in Seq(S), s # <<>>
    PROVE  /\ Head(s) \in S /\ Head(s) = s[1] /\ 1 \in DOMAIN s
           /\ Tail(s) \in Seq(S)
           /\ \A n \in DOMAIN Tail(s) :
                 n \in Nat /\ 1 < n + 1 /\ n + 1 \in DOMAIN s /\ Tail(s)[n] = s[n + 1]
  OBVIOUS

\* A queue with one more at its end.
LEMMA OneMore ==
    ASSUME NEW S, NEW s \in Seq(S), NEW e \in S
    PROVE  /\ Append(s, e) \in Seq(S)
           /\ \A n \in DOMAIN Append(s, e) :
                 Append(s, e)[n] = IF n \in DOMAIN s THEN s[n] ELSE e
           /\ \A m, n \in DOMAIN Append(s, e) : m < n => m \in DOMAIN s
  OBVIOUS

\* A new request has the next id.
LEMMA Asking ==
    ASSUME NEW open \in Seq(Nat), NEW unread \in Seq(Nat), NEW last \in Nat,
           InOrder(open, unread, last)
    PROVE  InOrder(open, unread, last + 1) /\ InOrder(Append(open, last + 1), unread, last + 1)
<1>1. \A n \in DOMAIN open : open[n] \in Nat /\ open[n] < last + 1
  BY DEF InOrder
<1>2. \A n \in DOMAIN unread : unread[n] \in Nat /\ unread[n] < last + 1
  BY DEF InOrder
<1> DEFINE more == Append(open, last + 1)
<1>3. \A n \in DOMAIN more : more[n] = IF n \in DOMAIN open THEN open[n] ELSE last + 1
  BY OneMore
<1>4. \A m, n \in DOMAIN more : m < n => m \in DOMAIN open
  BY OneMore
<1>5. InOrder(open, unread, last + 1)
  BY <1>1, <1>2 DEF InOrder
<1> HIDE DEF more
<1>6. ASSUME NEW m \in DOMAIN more, NEW n \in DOMAIN more, m < n PROVE more[m] < more[n]
  BY <1>1, <1>3, <1>4, <1>6 DEF InOrder
<1>7. InOrder(open, unread, last + 1) /\ InOrder(more, unread, last + 1)
  BY <1>1, <1>2, <1>3, <1>5, <1>6 DEF InOrder
<1> QED
  BY <1>7 DEF more

\* The oldest request is the one that is answered.
LEMMA Answering ==
    ASSUME NEW open \in Seq(Nat), NEW unread \in Seq(Nat), NEW last \in Nat,
           InOrder(open, unread, last), open # <<>>
    PROVE  InOrder(Tail(open), Append(unread, Head(open)), last)
<1> DEFINE rest == Tail(open)
           more == Append(unread, Head(open))
<1>1. /\ 1 \in DOMAIN open /\ Head(open) = open[1] /\ open[1] \in Nat
      /\ \A n \in DOMAIN rest :
            n \in Nat /\ 1 < n + 1 /\ n + 1 \in DOMAIN open /\ rest[n] = open[n + 1]
  BY FirstAndRest
<1>2. \A n \in DOMAIN more : more[n] = IF n \in DOMAIN unread THEN unread[n] ELSE open[1]
  BY <1>1, OneMore
<1> HIDE DEF rest, more
<1>3. \A n \in DOMAIN rest : rest[n] <= last /\ open[1] < rest[n]
  BY <1>1 DEF InOrder
<1>4. ASSUME NEW m \in DOMAIN rest, NEW n \in DOMAIN rest, m < n PROVE rest[m] < rest[n]
  <2>1. m + 1 \in DOMAIN open /\ n + 1 \in DOMAIN open /\ m + 1 < n + 1
    BY <1>1, <1>4
  <2> QED
    BY <1>1, <2>1 DEF InOrder
<1>5. \A m \in DOMAIN more : more[m] <= last
  BY <1>1, <1>2 DEF InOrder
<1>6. ASSUME NEW m \in DOMAIN more, NEW n \in DOMAIN rest PROVE more[m] < rest[n]
  <2>1. m \in DOMAIN unread => unread[m] < rest[n]
    BY <1>1 DEF InOrder
  <2> QED
    BY <1>2, <1>3, <2>1
<1>7. InOrder(rest, more, last)
  BY <1>3, <1>4, <1>5, <1>6 DEF InOrder
<1> QED
  BY <1>7 DEF rest, more

\* The oldest response is the one that is read.
LEMMA Reading ==
    ASSUME NEW open \in Seq(Nat), NEW unread \in Seq(Nat), NEW last \in Nat,
           InOrder(open, unread, last), unread # <<>>
    PROVE  InOrder(open, Tail(unread), last)
  BY FirstAndRest DEF InOrder

\* Queues of messages with ids are closed under the two.
LEMMA IdsClosed ==
    /\ <<>> \in Ids
    /\ \A s \in Ids : s # <<>> => Tail(s) \in Ids /\ Head(s) \in 1..MaxCalls
    /\ \A s \in Ids, e \in 1..MaxCalls : Append(s, e) \in Ids
<1>1. <<>> \in Seq(1..MaxCalls)
  OBVIOUS
<1>2. ASSUME NEW s \in Seq(1..MaxCalls), s # <<>>
      PROVE  Tail(s) \in Seq(1..MaxCalls) /\ Head(s) \in 1..MaxCalls
  BY <1>2, FirstAndRest
<1>3. ASSUME NEW s \in Seq(1..MaxCalls), NEW e \in 1..MaxCalls
      PROVE  Append(s, e) \in Seq(1..MaxCalls)
  BY OneMore
<1> QED
  BY <1>1, <1>2, <1>3 DEF Ids

\* Every step of a client or a daemon keeps the types.
LEMMA TypeStep == TypeOK /\ [Next]_vars => TypeOK'
<1> SUFFICES ASSUME TypeOK, [Next]_vars PROVE TypeOK'
  OBVIOUS
<1> USE LifecycleConstants DEF TypeOK, daemonVars, clientVars
<1>1. ASSUME NEW c \in Clients, Connect(c) PROVE TypeOK'
  BY <1>1 DEF Connect, Connected, Reachable
<1>2. ASSUME NEW c \in Clients, StartDaemon(c) PROVE TypeOK'
  BY <1>2 DEF StartDaemon
<1>3. ASSUME NEW c \in Clients, ConnectOwning(c) PROVE TypeOK'
  BY <1>3 DEF ConnectOwning, Connected, Reachable
<1>4. ASSUME NEW c \in Clients, StartTimesOut(c) PROVE TypeOK'
  BY <1>4 DEF StartTimesOut
<1>5. ASSUME NEW c \in Clients, Call(c) PROVE TypeOK'
  <2>1. calls[c] + 1 \in 1..MaxCalls /\ Append(asked[c], calls[c] + 1) \in Ids
    BY <1>5, IdsClosed DEF Call
  <2>2. asked' \in [Clients -> Ids] /\ calls' \in [Clients -> 0..MaxCalls]
    <3>1. asked' = asked \/ asked' = [asked EXCEPT ![c] = Append(asked[c], calls[c] + 1)]
      BY <1>5 DEF Call
    <3>2. calls' = [calls EXCEPT ![c] = calls[c] + 1]
      BY <1>5 DEF Call
    <3>3. asked' \in [Clients -> Ids]
      BY <2>1, <3>1
    <3>4. calls[c] + 1 \in 0..MaxCalls
      BY <2>1
    <3> QED
      BY <3>2, <3>3, <3>4
  <2>3. /\ client' \in [Clients -> {"new", "waiting", "connected", "calling", "dropping", "done"}]
        /\ \A b \in Clients : client'[b] \in {"connected", "calling"}
                               <=> client[b] \in {"connected", "calling"}
    BY <1>5 DEF Call
  <2> QED
    BY <1>5, <2>2, <2>3 DEF Call
<1>6. ASSUME NEW c \in Clients, CallStep(c) PROVE TypeOK'
  <2>1. ASSUME replies[c] # <<>>
        PROVE [replies EXCEPT ![c] = Tail(replies[c])] \in [Clients -> Ids]
    BY <2>1, IdsClosed
  <2>2. CASE Returns(c)
    BY <2>1, <2>2 DEF Returns, OwnReply
  <2>3. CASE DrainsOrphan(c)
    BY <2>1, <2>3 DEF DrainsOrphan
  <2>4. CASE TimesOut(c)
    BY <2>4 DEF TimesOut
  <2> QED
    BY <1>6, <2>2, <2>3, <2>4 DEF CallStep
<1>7. ASSUME NEW c \in Clients, Drop(c) PROVE TypeOK'
  BY <1>7, IdsClosed DEF Drop, Hangup
<1>8. ASSUME NEW c \in Clients, DropShutsDown(c) \/ DropFails(c) PROVE TypeOK'
  BY <1>8 DEF DropShutsDown, DropFails, Reachable
<1>9. ASSUME NEW d \in Clients, LifeStep(d) PROVE TypeOK'
  BY <1>9 DEF LifeStep, FindsSocket, FindsNone, Removes, Binds, IdleExit, SeesShutdown,
              Stops, At
<1>10. ASSUME NEW d \in Clients, Accept(d) PROVE TypeOK'
  BY <1>10 DEF Accept
<1>11. ASSUME NEW d \in Clients, Serve(d) PROVE TypeOK'
  BY <1>11, IdsClosed DEF Serve, Users
<1>12. ASSUME NEW d \in Clients, Killed(d) PROVE TypeOK'
  BY <1>12 DEF Killed
<1>13. CASE UNCHANGED vars
  BY <1>13 DEF vars
<1> QED
  BY <1>1, <1>2, <1>3, <1>4, <1>5, <1>6, <1>7, <1>8, <1>9, <1>10, <1>11, <1>12, <1>13
     DEF Next, ClientStep, DaemonStep

\* A socket file outlives its listener in a kill only.
LEMMA SocketStep ==
    TypeOK /\ StaleAfterKillOnly /\ [Next]_vars => StaleAfterKillOnly'
<1> SUFFICES ASSUME TypeOK, StaleAfterKillOnly, [Next]_vars PROVE StaleAfterKillOnly'
  OBVIOUS
<1> USE LifecycleConstants DEF TypeOK, StaleAfterKillOnly, daemonVars
<1>1. ASSUME NEW c \in Clients, StartDaemon(c) PROVE StaleAfterKillOnly'
  BY <1>1 DEF StartDaemon, Reachable
<1>2. ASSUME NEW c \in Clients, ClientStep(c), ~StartDaemon(c) PROVE StaleAfterKillOnly'
  BY <1>2 DEF ClientStep, Connect, ConnectOwning, StartTimesOut, Call, CallStep, Returns,
              DrainsOrphan, TimesOut, Drop, DropShutsDown, DropFails
<1>3. ASSUME NEW d \in Clients, LifeStep(d) PROVE StaleAfterKillOnly'
  BY <1>3 DEF LifeStep, FindsSocket, FindsNone, Removes, Binds, IdleExit, SeesShutdown,
              Stops, At
<1>4. ASSUME NEW d \in Clients, Accept(d) \/ Serve(d) PROVE StaleAfterKillOnly'
  BY <1>4 DEF Accept, Serve
<1>5. ASSUME NEW d \in Clients, Killed(d) PROVE StaleAfterKillOnly'
  BY <1>5 DEF Killed
<1>6. CASE UNCHANGED vars
  BY <1>6 DEF vars
<1> QED
  BY <1>1, <1>2, <1>3, <1>4, <1>5, <1>6 DEF Next, DaemonStep

\* Requests and responses stay in the order of their ids.
LEMMA IdStep == TypeOK /\ InIdOrder /\ [Next]_vars => InIdOrder'
<1> SUFFICES ASSUME TypeOK, InIdOrder, [Next]_vars PROVE InIdOrder'
  OBVIOUS
<1> USE LifecycleConstants DEF TypeOK, InIdOrder, daemonVars, clientVars
<1>0. \A c \in Clients : asked[c] \in Seq(Nat) /\ replies[c] \in Seq(Nat) /\ calls[c] \in Nat
  <2>1. Seq(1..MaxCalls) \subseteq Seq(Nat)
    OBVIOUS
  <2> QED
    BY <2>1 DEF Ids
<1>1. ASSUME NEW c \in Clients, Call(c) PROVE InIdOrder'
  <2>1. /\ asked'[c] = asked[c] \/ asked'[c] = Append(asked[c], calls[c] + 1)
        /\ calls'[c] = calls[c] + 1 /\ replies'[c] = replies[c]
        /\ \A b \in Clients \ {c} : asked'[b] = asked[b] /\ calls'[b] = calls[b] /\ replies'[b] = replies[b]
    BY <1>1 DEF Call
  <2>2. /\ InOrder(asked[c], replies[c], calls[c] + 1)
        /\ InOrder(Append(asked[c], calls[c] + 1), replies[c], calls[c] + 1)
    BY <1>0, Asking
  <2> QED
    BY <2>1, <2>2
<1>2. ASSUME NEW c \in Clients, Returns(c) \/ DrainsOrphan(c) PROVE InIdOrder'
  <2>1. /\ replies[c] # <<>> /\ replies' = [replies EXCEPT ![c] = Tail(@)]
        /\ UNCHANGED <<calls, asked>>
    BY <1>2 DEF Returns, DrainsOrphan, OwnReply
  <2>2. InOrder(asked[c], Tail(replies[c]), calls[c])
    BY <1>0, <2>1, Reading
  <2> QED
    BY <2>1, <2>2
<1>3. ASSUME NEW c \in Clients, Drop(c) PROVE InIdOrder'
  <2>1. InOrder(<<>>, <<>>, calls[c])
    BY DEF InOrder
  <2> QED
    BY <1>3, <2>1 DEF Drop, Hangup
<1>4. ASSUME NEW d \in Clients, Serve(d) PROVE InIdOrder'
  <2>1. PICK c \in Clients : /\ asked[c] # <<>>
                             /\ asked' = [asked EXCEPT ![c] = Tail(@)]
                             /\ replies' = [replies EXCEPT ![c] = Append(@, Head(asked[c]))]
    BY <1>4 DEF Serve, Users
  <2>2. UNCHANGED calls
    BY <1>4 DEF Serve
  <2>3. InOrder(Tail(asked[c]), Append(replies[c], Head(asked[c])), calls[c])
    BY <1>0, <2>1, Answering
  <2> QED
    BY <2>1, <2>2, <2>3
<1>5. UNCHANGED <<calls, asked, replies>> => InIdOrder'
  OBVIOUS
<1> QED
  BY <1>1, <1>2, <1>3, <1>4, <1>5
     DEF Next, ClientStep, Connect, Connected, StartDaemon, ConnectOwning, StartTimesOut,
         CallStep, TimesOut, DropShutsDown, DropFails, DaemonStep, LifeStep, FindsSocket,
         FindsNone, Removes, Binds, IdleExit, SeesShutdown, Stops, Accept, Killed, vars

\* The inductive invariant holds in every state.
THEOREM Invariance == Spec => []IInv
<1>1. Init => IInv
  BY LifecycleConstants
     DEF Init, IInv, TypeOK, Ids, StaleAfterKillOnly, InIdOrder, InOrder
<1>2. IInv /\ [Next]_vars => IInv'
  BY TypeStep, SocketStep, IdStep DEF IInv
<1> QED
  BY <1>1, <1>2, PTL DEF Spec

----------------------------------------------------------------------------
\* Types; only a daemon's user has a connection.
THEOREM TypeCorrect == Spec => []TypeOK
<1>1. IInv => TypeOK
  BY DEF IInv
<1> QED
  BY <1>1, Invariance, PTL

\* A socket file without a listener is left behind by a kill only, whatever the daemons
\* of one path do to each other's files.
THEOREM NoStaleSocket == Spec => []StaleAfterKillOnly
<1>1. IInv => StaleAfterKillOnly
  BY DEF IInv
<1> QED
  BY <1>1, Invariance, PTL

\* A call returns the response to its own request and to no earlier one.
THEOREM ResponseOfTheCall == Spec => CallGetsItsResponse
<1> DEFINE Got(c) == client[c] = "calling" /\ client'[c] = "connected" /\ replies'[c] # replies[c]
           Own(c) == Head(replies[c]) = calls[c] /\ calls[c] \notin ToSet(asked[c])
<1>1. IInv /\ [Next]_vars => \A c \in Clients : Got(c) => Own(c)
  <2> SUFFICES ASSUME IInv, [Next]_vars, NEW c \in Clients, Got(c) PROVE Own(c)
    OBVIOUS
  <2> USE LifecycleConstants DEF IInv, TypeOK, daemonVars, clientVars
  <2>1. Returns(c)
    <3>1. ASSUME NEW b \in Clients, ClientStep(b) PROVE b = c /\ Returns(c)
      BY <3>1 DEF ClientStep, Connect, Connected, StartDaemon, ConnectOwning, StartTimesOut,
                  Call, CallStep, Returns, DrainsOrphan, TimesOut, Drop, DropShutsDown,
                  DropFails
    <3>2. ASSUME NEW d \in Clients, DaemonStep(d) PROVE FALSE
      BY <3>2 DEF DaemonStep, LifeStep, FindsSocket, FindsNone, Removes, Binds, IdleExit,
                  SeesShutdown, Stops, Accept, Serve, Killed
    <3> QED
      BY <3>1, <3>2 DEF Next, vars
  <2>2. replies[c] \in Seq(1..MaxCalls) /\ asked[c] \in Seq(1..MaxCalls)
    BY DEF Ids
  <2>3. replies[c] # <<>> /\ replies[c][1] = calls[c]
    BY <2>1, <2>2 DEF Returns, OwnReply
  <2>4. \A n \in DOMAIN asked[c] : replies[c][1] < asked[c][n]
    BY <2>2, <2>3 DEF InIdOrder, InOrder
  <2>5. calls[c] \notin ToSet(asked[c])
    BY <2>2, <2>3, <2>4 DEF ToSet
  <2> QED
    BY <2>2, <2>3, <2>5
<1>2. IInv /\ [Next]_vars => [\A c \in Clients : Got(c) => Own(c)]_vars
  BY <1>1
<1> QED
  BY <1>2, Invariance, PTL DEF Spec, CallGetsItsResponse
=============================================================================
