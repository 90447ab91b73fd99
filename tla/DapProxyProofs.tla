--------------------------- MODULE DapProxyProofs ---------------------------
(***************************************************************************)
(* Proofs, for any number of frames and messages, of the safety properties  *)
(* of MCDapProxy.                                                           *)
(*                                                                         *)
(* They rest on where the two byte streams stand.  What the proxy has read  *)
(* of an adapter's message and what is still in the pipe are consecutive    *)
(* pieces that follow the last message delivered: nothing is ever lost.     *)
(* Of the client's stream pieces are lost, but always the oldest, so that   *)
(* what is left is consecutive too and lies behind every frame forwarded.   *)
(***************************************************************************)
EXTENDS MCDapProxy, TLAPS

\* The number of a piece, counted from the beginning of its stream.
Pos(piece) == 3 * piece[1] + piece[2]

\* The pieces of s are the ones after the k-th.
Consecutive(s, k) == \A i \in DOMAIN s : Pos(s[i]) = k + i

Ends == /\ clientAt \in Pieces(Frames) \cup {<<0, 3>>}
        /\ serverAt \in Pieces(Messages) \cup {<<0, 3>>}
        /\ clientOpen \in BOOLEAN /\ serverUp \in BOOLEAN

\* The last piece of a delivered message.
Delivered == 3 * Len(toClient) + 3

AdapterStream ==
    /\ Len(serverFrame) <= 3
    /\ Consecutive(serverFrame, Delivered)
    /\ Consecutive(fromServer, Delivered + Len(serverFrame))
    /\ Pos(serverAt) = Delivered + Len(serverFrame) + Len(fromServer)

\* The last piece of the client that was used or lost.
Consumed == Pos(clientAt) - Len(fromClient) - Len(buffer) - Len(clientFrame)

ClientStream ==
    /\ Consumed \in Nat
    /\ Consecutive(clientFrame, Consumed)
    /\ Consecutive(buffer, Consumed + Len(clientFrame))
    /\ Consecutive(fromClient, Consumed + Len(clientFrame) + Len(buffer))
    /\ \A n \in DOMAIN toServer : 3 * toServer[n] + 3 <= Consumed

IInv == TypeOK /\ Ends /\ AdapterStream /\ ClientStream /\ InStep

----------------------------------------------------------------------------
(* Consecutive pieces. *)

\* A stream with one more piece at its end.
LEMMA OneMore ==
    ASSUME NEW S, NEW s \in Seq(S), NEW e \in S
    PROVE  /\ Append(s, e) \in Seq(S) /\ Len(Append(s, e)) = Len(s) + 1
           /\ \A n \in DOMAIN Append(s, e) : IF n \in DOMAIN s THEN Append(s, e)[n] = s[n]
                                             ELSE n = Len(s) + 1 /\ Append(s, e)[n] = e
           /\ \A m, n \in DOMAIN Append(s, e) : m < n => m \in DOMAIN s
  OBVIOUS

\* What stands where after an Append.
LEMMA Appended ==
    ASSUME NEW S, NEW s \in Seq(S), NEW e \in S
    PROVE  \A n \in DOMAIN Append(s, e) : Append(s, e)[n] = IF n \in DOMAIN s THEN s[n] ELSE e
  BY OneMore

\* A stream that is not empty: its head, and what is left.
LEMMA FirstAndRest ==
    ASSUME NEW S, NEW s \in Seq(S), s # <<>>
    PROVE  /\ Head(s) \in S /\ Head(s) = s[1] /\ 1 \in DOMAIN s /\ Len(s) \in Nat
           /\ Tail(s) \in Seq(S) /\ Len(Tail(s)) = Len(s) - 1
           /\ \A n \in DOMAIN Tail(s) : n \in Nat /\ n + 1 \in DOMAIN s /\ Tail(s)[n] = s[n + 1]
  OBVIOUS

\* One more piece, the next of the stream, keeps the pieces consecutive.
LEMMA Extend ==
    ASSUME NEW S, NEW s \in Seq(S), NEW e \in S, NEW k \in Int,
           Consecutive(s, k), Pos(e) = k + Len(s) + 1
    PROVE  Consecutive(Append(s, e), k)
<1> DEFINE more == Append(s, e)
<1>1. \A n \in DOMAIN more : IF n \in DOMAIN s THEN more[n] = s[n]
                             ELSE n = Len(s) + 1 /\ more[n] = e
  BY OneMore
<1> HIDE DEF more
<1>2. Len(s) \in Nat
  OBVIOUS
<1>3. Consecutive(more, k)
  BY <1>1, <1>2 DEF Consecutive
<1> QED
  BY <1>3 DEF more

\* The first piece behind s becomes its last.
LEMMA MoveOne ==
    ASSUME NEW S, NEW s \in Seq(S), NEW t \in Seq(S), NEW k \in Int, t # <<>>,
           Consecutive(s, k), Consecutive(t, k + Len(s))
    PROVE  /\ Consecutive(Append(s, Head(t)), k)
           /\ Consecutive(Tail(t), k + Len(Append(s, Head(t))))
<1>1. /\ Head(t) \in S /\ Head(t) = t[1] /\ 1 \in DOMAIN t
      /\ \A n \in DOMAIN Tail(t) : n \in Nat /\ n + 1 \in DOMAIN t /\ Tail(t)[n] = t[n + 1]
  BY FirstAndRest
<1>2. Len(Append(s, Head(t))) = Len(s) + 1 /\ Len(s) \in Nat
  BY <1>1, OneMore
<1>3. Pos(Head(t)) = k + Len(s) + 1
  BY <1>1 DEF Consecutive
<1>4. Consecutive(Append(s, Head(t)), k)
  BY <1>1, <1>3, Extend
<1>5. ASSUME NEW n \in DOMAIN Tail(t) PROVE Pos(Tail(t)[n]) = (k + (Len(s) + 1)) + n
  <2>1. Pos(t[n + 1]) = (k + Len(s)) + (n + 1)
    BY <1>1 DEF Consecutive
  <2> QED
    BY <1>1, <1>2, <2>1
<1> QED
  BY <1>2, <1>4, <1>5 DEF Consecutive

\* A complete frame begins where a frame begins.
LEMMA Whole ==
    ASSUME NEW N \in Nat, NEW frame \in Seq(Pieces(N)), NEW k \in Int,
           Consecutive(frame, k), Complete(frame)
    PROVE  frame[1][1] \in 1..N /\ k = 3 * frame[1][1] /\ Len(frame) = 3
<1>1. 1 \in DOMAIN frame /\ frame[1] \in Pieces(N) /\ frame[1][2] = 1 /\ Len(frame) = 3
  BY DEF Complete
<1>2. frame[1][1] \in 1..N
  BY <1>1 DEF Pieces
<1>3. 3 * frame[1][1] + 1 = k + 1
  BY <1>1 DEF Consecutive, Pos
<1> QED
  BY <1>1, <1>2, <1>3

\* Of three consecutive pieces the first begins a frame, or another one is a blank line
\* in the wrong place: no frame is read beyond its third piece.
LEMMA Room ==
    ASSUME NEW N \in Nat, NEW frame \in Seq(Pieces(N)), NEW k \in Int,
           Consecutive(frame, k), Len(frame) <= 3, Unfinished(frame)
    PROVE  Len(frame) <= 2
<1>0. Len(frame) \in Nat /\ \A n \in Nat : n <= 3 /\ n # 3 => n <= 2
  OBVIOUS
<1> SUFFICES ASSUME Len(frame) = 3 PROVE FALSE
  BY <1>0, Zenon
<1>1. /\ DOMAIN frame = {1, 2, 3}
      /\ frame[1] \in Pieces(N) /\ frame[2] \in Pieces(N) /\ frame[3] \in Pieces(N)
  OBVIOUS
<1>2. Pos(frame[1]) = k + 1 /\ Pos(frame[2]) = k + 2 /\ Pos(frame[3]) = k + 3
  BY <1>1 DEF Consecutive
<1>3. frame[1][2] # 1 /\ frame[1][2] # 2 /\ frame[3][2] # 2
  BY <1>1 DEF Unfinished, Complete, BadHeader
<1>4. frame[1][2] = 3
  BY <1>1, <1>3 DEF Pieces
<1>5. /\ frame[1][1] \in Nat /\ frame[3][1] \in Nat /\ frame[3][2] \in 1..3
      /\ 3 * frame[3][1] + frame[3][2] = 3 * frame[1][1] + 3 + 2
  BY <1>1, <1>2, <1>4 DEF Pos, Pieces
<1> QED
  BY <1>3, <1>5

\* A frame that is read from its beginning is in step.
LEMMA InFrame ==
    ASSUME NEW N \in Nat, NEW frame \in Seq(Pieces(N)), NEW m \in Nat,
           Consecutive(frame, 3 * m + 3), Len(frame) <= 3
    PROVE  ~BadHeader(frame)
<1> SUFFICES ASSUME NEW n \in DOMAIN frame, frame[n][2] = 2 PROVE n = 2
  BY DEF BadHeader
<1>1. n \in 1..3 /\ frame[n] \in Pieces(N)
  OBVIOUS
<1>2. 3 * frame[n][1] + 2 = 3 * m + 3 + n /\ frame[n][1] \in Nat
  BY <1>1 DEF Consecutive, Pos, Pieces
<1> QED
  BY <1>1, <1>2

\* The piece a writer writes next.
LEMMA NextPiece ==
    ASSUME NEW N \in Nat, NEW at \in Pieces(N) \cup {<<0, 3>>}, at # <<N, 3>>
    PROVE  Following(at) \in Pieces(N) /\ Pos(Following(at)) = Pos(at) + 1
<1>1. at[1] \in 0..N /\ at[2] \in 1..3 /\ at = <<at[1], at[2]>> /\ (at[1] = 0 => at[2] = 3)
  BY DEF Pieces
<1>2. CASE at[2] = 3
  <2>1. at[1] + 1 \in 1..N
    BY <1>1, <1>2
  <2>2. Following(at) = <<at[1] + 1, 1>>
    BY <1>2 DEF Following
  <2> QED
    BY <1>1, <1>2, <2>1, <2>2 DEF Pieces, Pos
<1>3. CASE at[2] # 3
  <2>1. at[1] \in 1..N /\ at[2] + 1 \in 1..3
    BY <1>1, <1>3
  <2>2. Following(at) = <<at[1], at[2] + 1>>
    BY <1>3 DEF Following
  <2> QED
    BY <1>1, <2>1, <2>2 DEF Pieces, Pos
<1> QED
  BY <1>2, <1>3

----------------------------------------------------------------------------
(* The inductive invariant. *)

\* Every step of the proxy and of both sides keeps the types.
LEMMA TypeStep ==
    TypeOK /\ Ends /\ AdapterStream /\ ClientStream /\ [Next]_vars => TypeOK' /\ Ends'
<1> SUFFICES ASSUME TypeOK, Ends, AdapterStream, ClientStream, [Next]_vars
             PROVE  TypeOK' /\ Ends'
  OBVIOUS
<1> USE ProxyConstants DEF TypeOK, Ends, ends, pipes
<1>1. CASE ReadClient
  <2> DEFINE bytes == IF buffer = <<>> THEN fromClient ELSE buffer
  <2>1. /\ clientFrame' = Append(clientFrame, Head(bytes)) /\ buffer' = Tail(bytes)
        /\ bytes # <<>> /\ bytes \in Seq(Pieces(Frames)) /\ Unfinished(clientFrame)
    BY <1>1 DEF ReadClient
  <2>2. Head(bytes) \in Pieces(Frames) /\ Tail(bytes) \in Seq(Pieces(Frames))
    BY <2>1, FirstAndRest
  <2>3. clientFrame' \in Seq(Pieces(Frames)) /\ Len(clientFrame') = Len(clientFrame) + 1
    BY <2>1, <2>2, OneMore
  <2>4. Len(clientFrame) <= 2
    BY <2>1, Room DEF ClientStream
  <2>5. fromClient' \in Seq(Pieces(Frames))
    BY <1>1 DEF ReadClient
  <2>6. Len(clientFrame') <= 3
    BY <2>3, <2>4
  <2> HIDE DEF bytes
  <2> QED
    BY <1>1, <2>1, <2>2, <2>3, <2>5, <2>6 DEF ReadClient
<1>2. CASE ReadServer
  <2>1. serverFrame' \in Seq(Pieces(Messages)) /\ fromServer' \in Seq(Pieces(Messages))
    BY <1>2, FirstAndRest, OneMore DEF ReadServer
  <2> QED
    BY <1>2, <2>1 DEF ReadServer
<1>3. CASE ClientArm
  <2>1. clientFrame[1][1] \in 1..Frames
    BY <1>3, Whole DEF ClientArm, Forward, ClientStream
  <2>2. /\ Append(toServer, clientFrame[1][1]) \in Seq(1..Frames)
        /\ Len(Append(toServer, clientFrame[1][1])) = Len(toServer) + 1
    BY <2>1, OneMore
  <2>3. CASE state = "Initializing" /\ serverUp
    <3>1. /\ step \in {0, 2, 4} /\ step' = step + 1 /\ state' = state
          /\ toServer' = Append(toServer, clientFrame[1][1])
      BY <1>3, <2>3 DEF ClientArm, Forward, ClientTurn
    <3>2. (step' + 1) \div 2 = (step + 1) \div 2 + 1 /\ step' \div 2 = step \div 2 /\ step' \in 0..5
      BY <3>1
    <3> QED
      BY <1>3, <2>2, <3>1, <3>2 DEF ClientArm, Forward
  <2>4. CASE state = "Ready" /\ serverUp
    <3>1. /\ step' = step /\ state' \in {"Ready", "ShuttingDown"}
          /\ toServer' = Append(toServer, clientFrame[1][1])
      BY <1>3, <2>4 DEF ClientArm, Forward
    <3> QED
      BY <1>3, <2>2, <3>1 DEF ClientArm, Forward
  <2>5. CASE ~serverUp
    BY <1>3, <2>5 DEF ClientArm, Forward, Fail
  <2> QED
    BY <1>3, <2>3, <2>4, <2>5 DEF ClientArm, Forward, ClientTurn
<1>4. CASE ServerArm
  <2>1. serverFrame[1][1] \in 1..Messages
    BY <1>4, Whole DEF ServerArm, Deliver, AdapterStream, Delivered
  <2>1a. Len(toClient) \in Nat /\ step \div 2 \in Nat /\ Len(toClient) >= step \div 2
    OBVIOUS
  <2>2. /\ toClient' \in Seq(1..Messages) /\ Len(toClient') = Len(toClient) + 1
    BY <1>4, <2>1, OneMore DEF ServerArm, Deliver
  <2>0. /\ buffer' \in Seq(Pieces(Frames)) /\ fromClient' \in Seq(Pieces(Frames))
        /\ clientFrame' \in Seq(Pieces(Frames)) /\ Len(clientFrame') <= 3
        /\ serverFrame' \in Seq(Pieces(Messages)) /\ fromServer' \in Seq(Pieces(Messages))
        /\ toServer' = toServer /\ UNCHANGED ends
    BY <1>4 DEF ServerArm, Deliver
  <2>3. CASE state = "Initializing"
    <3>1. /\ step \in {1, 3, 5} /\ step' = step + 1 /\ state' \in {"Initializing", "Ready"}
          /\ step = 5 <=> state' = "Ready"
      BY <1>4, <2>3 DEF ServerArm, Deliver, ServerTurn
    <3>2. /\ (step' + 1) \div 2 = (step + 1) \div 2 /\ step' \div 2 = step \div 2 + 1
          /\ step' \in 0..6 /\ (step # 5 => step' < 6)
      BY <3>1
    <3>3. Len(toClient') >= step' \div 2
      BY <2>1a, <2>2, <3>1, <3>2
    <3>4. Len(toServer') = (step' + 1) \div 2
      BY <2>0, <2>3, <3>2
    <3> QED
      BY <2>0, <2>2, <3>1, <3>2, <3>3, <3>4
  <2>4. CASE state \in {"Ready", "ShuttingDown"}
    <3>1. step' = step /\ state' \in {"Ready", "Exited"}
      BY <1>4, <2>4 DEF ServerArm, Deliver
    <3>2. Len(toClient') >= step' \div 2
      BY <2>1a, <2>2, <3>1
    <3> QED
      BY <2>0, <2>2, <3>1, <3>2
  <2> QED
    BY <1>4, <2>3, <2>4 DEF ServerArm, Deliver, ServerTurn
<1>5. CASE WriteFails \/ OutOfStep \/ ServerEnds
  BY <1>5 DEF WriteFails, OutOfStep, ServerEnds, Fail
<1>6. CASE ClientEnds
  BY <1>6 DEF ClientEnds, Fail
<1>7. CASE ClientWrites
  <2>1. /\ Following(clientAt) \in Pieces(Frames)
        /\ Append(fromClient, Following(clientAt)) \in Seq(Pieces(Frames))
    BY <1>7, NextPiece, OneMore DEF ClientWrites
  <2> QED
    BY <1>7, <2>1 DEF ClientWrites
<1>8. CASE ServerWrites
  <2>1. /\ Following(serverAt) \in Pieces(Messages)
        /\ Append(fromServer, Following(serverAt)) \in Seq(Pieces(Messages))
    BY <1>8, NextPiece, OneMore DEF ServerWrites
  <2> QED
    BY <1>8, <2>1 DEF ServerWrites
<1>9. CASE ClientCloses \/ ServerExits
  BY <1>9 DEF ClientCloses, ServerExits
<1>10. CASE UNCHANGED vars
  BY <1>10 DEF vars
<1> QED
  BY <1>1, <1>2, <1>3, <1>4, <1>5, <1>6, <1>7, <1>8, <1>9, <1>10
     DEF Next, ClientSide, ServerSide

\* Every piece of the adapter's stream stays where AdapterStream places it.
LEMMA AdapterStep ==
    TypeOK /\ Ends /\ AdapterStream /\ [Next]_vars => AdapterStream'
<1> SUFFICES ASSUME TypeOK, Ends, AdapterStream, [Next]_vars PROVE AdapterStream'
  OBVIOUS
<1> USE ProxyConstants DEF AdapterStream, Delivered
<1>0. /\ serverFrame \in Seq(Pieces(Messages)) /\ fromServer \in Seq(Pieces(Messages))
      /\ Len(toClient) \in Nat /\ Len(serverFrame) \in Nat /\ Len(fromServer) \in Nat
      /\ serverAt \in Pieces(Messages) \cup {<<0, 3>>} /\ Pos(serverAt) \in Nat
  BY DEF TypeOK, Ends, Pos, Pieces
<1>1. CASE ReadServer
  <2>1. /\ fromServer # <<>> /\ Unfinished(serverFrame)
        /\ serverFrame' = Append(serverFrame, Head(fromServer)) /\ fromServer' = Tail(fromServer)
        /\ UNCHANGED <<toClient, serverAt>>
    BY <1>1 DEF ReadServer, ends
  <2>2. /\ Consecutive(serverFrame', Delivered)
        /\ Consecutive(fromServer', Delivered + Len(serverFrame'))
    BY <1>0, <2>1, MoveOne
  <2>3. Len(serverFrame') = Len(serverFrame) + 1 /\ Len(fromServer') = Len(fromServer) - 1
    BY <1>0, <2>1, FirstAndRest, OneMore
  <2>4. Len(serverFrame) <= 2
    BY <1>0, <2>1, Room
  <2> QED
    BY <1>0, <2>1, <2>2, <2>3, <2>4
<1>2. CASE ServerArm
  <2>1. /\ serverFrame' = <<>> /\ Complete(serverFrame) /\ UNCHANGED <<fromServer, serverAt>>
        /\ Len(toClient') = Len(toClient) + 1
    BY <1>2 DEF ServerArm, Deliver, pipes, ends, TypeOK
  <2>2. Len(serverFrame) = 3 /\ Len(serverFrame') = 0
    BY <2>1 DEF Complete
  <2>3. Consecutive(serverFrame', Delivered')
    BY <2>1 DEF Consecutive
  <2>4. Delivered' + Len(serverFrame') = Delivered + Len(serverFrame)
    BY <1>0, <2>1, <2>2
  <2> QED
    BY <1>0, <2>1, <2>2, <2>3, <2>4
<1>3. CASE ServerWrites
  <2>1. /\ serverAt # <<Messages, 3>> /\ serverAt' = Following(serverAt)
        /\ fromServer' = Append(fromServer, Following(serverAt))
        /\ UNCHANGED <<serverFrame, toClient>>
    BY <1>3 DEF ServerWrites
  <2>2. Following(serverAt) \in Pieces(Messages) /\ Pos(serverAt') = Pos(serverAt) + 1
    BY <1>0, <2>1, NextPiece
  <2>3. /\ Consecutive(fromServer', Delivered + Len(serverFrame))
        /\ Len(fromServer') = Len(fromServer) + 1
    BY <1>0, <2>1, <2>2, Extend, OneMore
  <2> QED
    BY <1>0, <2>1, <2>2, <2>3
<1>4. UNCHANGED <<serverFrame, fromServer, toClient, serverAt>> => AdapterStream'
  BY DEF Consecutive, Pos
<1> QED
  BY <1>1, <1>2, <1>3, <1>4
     DEF Next, ClientSide, ServerSide, ReadClient, ClientArm, Forward, WriteFails, OutOfStep,
         ClientEnds, ServerEnds, ClientWrites, ClientCloses, ServerExits, pipes, ends, vars

\* Every piece of the client's stream stays where ClientStream places it, but for cancelled reads.
LEMMA ClientStep ==
    TypeOK /\ Ends /\ ClientStream /\ [Next]_vars => ClientStream'
<1> SUFFICES ASSUME TypeOK, Ends, ClientStream, [Next]_vars PROVE ClientStream'
  OBVIOUS
<1> USE ProxyConstants DEF ClientStream
<1>0. /\ clientFrame \in Seq(Pieces(Frames)) /\ buffer \in Seq(Pieces(Frames))
      /\ fromClient \in Seq(Pieces(Frames)) /\ toServer \in Seq(1..Frames)
      /\ Len(clientFrame) \in Nat /\ Len(buffer) \in Nat /\ Len(fromClient) \in Nat
      /\ clientAt \in Pieces(Frames) \cup {<<0, 3>>} /\ Pos(clientAt) \in Nat
  <2>1. clientAt[1] \in Nat /\ clientAt[2] \in Nat
    BY ProxyConstants DEF Ends, Pieces
  <2>2. Pos(clientAt) \in Nat
    BY <2>1 DEF Pos
  <2>3. /\ clientFrame \in Seq(Pieces(Frames)) /\ buffer \in Seq(Pieces(Frames))
        /\ fromClient \in Seq(Pieces(Frames)) /\ toServer \in Seq(1..Frames)
    BY DEF TypeOK
  <2> HIDE DEF ClientStream
  <2> QED
    BY <2>2, <2>3 DEF Ends
<1>lengths. /\ Len(clientFrame) \in Nat /\ Len(buffer) \in Nat /\ Len(fromClient) \in Nat
            /\ Pos(clientAt) \in Nat /\ Consumed \in Nat
            /\ Consumed = Pos(clientAt) - Len(fromClient) - Len(buffer) - Len(clientFrame)
  <2>1. Consumed \in Nat
    OBVIOUS
  <2>2. Consumed = Pos(clientAt) - Len(fromClient) - Len(buffer) - Len(clientFrame)
    BY DEF Consumed
  <2> QED
    BY <1>0, <2>1, <2>2
<1>1. CASE ReadClient
  <2> DEFINE bytes == IF buffer = <<>> THEN fromClient ELSE buffer
  <2>1. /\ bytes # <<>> /\ bytes \in Seq(Pieces(Frames)) /\ Len(bytes) \in Nat
        /\ clientFrame' = Append(clientFrame, Head(bytes)) /\ buffer' = Tail(bytes)
        /\ UNCHANGED <<toServer, clientAt>>
    BY <1>0, <1>1 DEF ReadClient, ends
  <2>2. /\ Consecutive(bytes, Consumed + Len(clientFrame))
        /\ Len(bytes) + Len(fromClient') = Len(buffer) + Len(fromClient)
        /\ fromClient' = <<>> \/ (fromClient' = fromClient /\ bytes = buffer)
    <3>1. CASE buffer = <<>>
      <4>1. Len(buffer) = 0 /\ bytes = fromClient /\ fromClient' = <<>> /\ Len(fromClient') = 0
        BY <1>1, <3>1 DEF ReadClient
      <4>2. Consumed + Len(clientFrame) + Len(buffer) = Consumed + Len(clientFrame)
        BY <1>0, <4>1
      <4> QED
        BY <1>0, <4>1, <4>2
    <3>2. CASE buffer # <<>>
      BY <1>0, <1>1, <3>2 DEF ReadClient
    <3> QED
      BY <3>1, <3>2
  <2> HIDE DEF bytes
  <2>3. Len(clientFrame') = Len(clientFrame) + 1 /\ Len(buffer') = Len(bytes) - 1
    BY <1>0, <2>1, FirstAndRest, OneMore
  <2>4. /\ Consecutive(clientFrame', Consumed)
        /\ Consecutive(buffer', Consumed + Len(clientFrame'))
    BY <1>0, <2>1, <2>2, MoveOne
  <2>5. Len(fromClient') \in Nat /\ Consumed' = Consumed
    <3>1. Len(fromClient') \in Nat
      BY <1>0, <2>2
    <3>2. Consumed' = Pos(clientAt) - Len(fromClient') - Len(buffer') - Len(clientFrame')
      BY <2>1 DEF Consumed, Pos
    <3>3. Len(bytes) \in Nat /\ Len(bytes) + Len(fromClient') = Len(buffer) + Len(fromClient)
      BY <2>1, <2>2
    <3> HIDE DEF ClientStream
    <3> QED
      <4>1. \A p, c, b, f, fnew, bs \in Nat :
               bs + fnew = b + f => p - fnew - (bs - 1) - (c + 1) = p - f - b - c
        OBVIOUS
      <4>2. Pos(clientAt) - Len(fromClient') - (Len(bytes) - 1) - (Len(clientFrame) + 1) = Pos(clientAt) - Len(fromClient) - Len(buffer) - Len(clientFrame)
        BY <4>1, <1>lengths, <3>1, <3>3, SMTT(30)
      <4> QED
        BY <1>lengths, <2>3, <3>1, <3>2, <4>2
  <2>6. Consecutive(fromClient', Consumed' + Len(clientFrame') + Len(buffer'))
    <3>1. CASE fromClient' = <<>>
      BY <3>1 DEF Consecutive
    <3>2. CASE fromClient' = fromClient /\ bytes = buffer
      <4>1. Consumed' + Len(clientFrame') + Len(buffer') = Consumed + Len(clientFrame) + Len(buffer)
        BY <1>0, <2>1, <2>3, <2>5, <3>2
      <4> QED
        BY <3>2, <4>1
    <3> QED
      BY <2>2, <3>1, <3>2
  <2> QED
    BY <2>1, <2>4, <2>5, <2>6
<1>2. CASE ClientArm
  <2>1. /\ clientFrame' = <<>> /\ Complete(clientFrame)
        /\ UNCHANGED <<buffer, fromClient, clientAt>>
        /\ toServer' = toServer \/ toServer' = Append(toServer, clientFrame[1][1])
    BY <1>2 DEF ClientArm, Forward, pipes, ends
  <2>2. /\ clientFrame[1][1] \in 1..Frames /\ Consumed = 3 * clientFrame[1][1]
        /\ Len(clientFrame) = 3
    BY <1>0, <2>1, Whole
  <2>3. Consumed' = Consumed + 3 /\ Len(clientFrame') = 0 /\ Len(buffer') = Len(buffer)
    BY <1>0, <2>1, <2>2 DEF Consumed
  <2>4. Consecutive(clientFrame', Consumed')
    BY <2>1 DEF Consecutive
  <2>5. Consumed' + Len(clientFrame') = Consumed + Len(clientFrame)
    BY <2>2, <2>3
  <2>6. \A n \in DOMAIN toServer' : 3 * toServer'[n] + 3 <= Consumed'
    <3>1. \A n \in DOMAIN toServer : toServer[n] \in 1..Frames
      BY <1>0
    <3>2. \A n \in DOMAIN Append(toServer, clientFrame[1][1]) :
             Append(toServer, clientFrame[1][1])[n] = IF n \in DOMAIN toServer THEN toServer[n] ELSE clientFrame[1][1]
      <4>1. toServer \in Seq(1..Frames) /\ clientFrame[1][1] \in 1..Frames
        BY <1>0, <2>2
      <4> QED
        BY <4>1, Appended, SMTT(30)
    <3>3. \A n \in DOMAIN toServer : 3 * toServer[n] + 3 <= Consumed + 3
      BY <3>1
    <3>4. 3 * clientFrame[1][1] + 3 <= Consumed + 3
      BY <2>2
    <3>5. CASE toServer' = toServer
      BY <2>3, <3>3, <3>5
    <3>6. CASE toServer' = Append(toServer, clientFrame[1][1])
      BY <2>3, <3>2, <3>3, <3>4, <3>6
    <3> QED
      BY <2>1, <3>5, <3>6
  <2> QED
    BY <2>1, <2>3, <2>4, <2>5, <2>6
<1>3. CASE ServerArm
  <2>1. /\ clientFrame' = <<>> /\ buffer' \in {buffer, <<>>}
        /\ UNCHANGED <<fromClient, clientAt, toServer>>
    BY <1>3 DEF ServerArm, Deliver, pipes, ends
  <2>2. /\ Len(clientFrame') = 0 /\ Len(buffer') \in Nat /\ Len(buffer') <= Len(buffer)
    BY <1>0, <2>1
  <2>3. /\ Consumed' = Consumed + Len(clientFrame) + Len(buffer) - Len(buffer')
        /\ Consumed' \in Nat /\ Consumed <= Consumed'
    <3>1. Consumed' = Pos(clientAt) - Len(fromClient) - Len(buffer')
      BY <1>0, <2>1, <2>2 DEF Consumed, Pos
    <3> HIDE DEF ClientStream
    <3> QED
      BY <1>lengths, <2>2, <3>1
  <2>4. Consecutive(clientFrame', Consumed')
    BY <2>1 DEF Consecutive
  <2>5. Consecutive(buffer', Consumed' + Len(clientFrame'))
    <3>1. CASE buffer' = <<>>
      BY <3>1 DEF Consecutive
    <3>2. CASE buffer' = buffer
      <4>1. Consumed' + Len(clientFrame') = Consumed + Len(clientFrame)
        BY <1>0, <2>2, <2>3, <3>2
      <4> QED
        BY <3>2, <4>1
    <3> QED
      BY <2>1, <3>1, <3>2
  <2>6. Consumed' + Len(clientFrame') + Len(buffer') = Consumed + Len(clientFrame) + Len(buffer)
    BY <1>0, <2>2, <2>3
  <2>7. \A n \in DOMAIN toServer' : 3 * toServer'[n] + 3 <= Consumed'
    <3>1. \A n \in DOMAIN toServer : toServer[n] \in 1..Frames
      BY <1>0
    <3> QED
      BY <2>1, <2>3, <3>1
  <2> QED
    BY <2>1, <2>3, <2>4, <2>5, <2>6, <2>7
<1>4. CASE ClientWrites
  <2>1. /\ clientAt # <<Frames, 3>> /\ clientAt' = Following(clientAt)
        /\ fromClient' = Append(fromClient, Following(clientAt))
        /\ UNCHANGED <<clientFrame, buffer, toServer>>
    BY <1>4 DEF ClientWrites
  <2>2. Following(clientAt) \in Pieces(Frames) /\ Pos(clientAt') = Pos(clientAt) + 1
    BY <1>0, <2>1, NextPiece
  <2>3. Len(fromClient') = Len(fromClient) + 1
    BY <1>0, <2>1, <2>2, OneMore
  <2>4. Consumed' = Consumed
    BY <1>0, <2>1, <2>2, <2>3 DEF Consumed
  <2>5. Pos(Following(clientAt)) = Consumed + Len(clientFrame) + Len(buffer) + Len(fromClient) + 1
    BY <1>0, <2>1, <2>2 DEF Consumed
  <2>6. Consecutive(fromClient', Consumed + Len(clientFrame) + Len(buffer))
    BY <1>0, <2>1, <2>2, <2>5, Extend
  <2> QED
    BY <2>1, <2>4, <2>6
<1>5. UNCHANGED <<clientFrame, buffer, fromClient, toServer, clientAt>> => ClientStream'
  BY DEF Consecutive, Pos, Consumed
<1> QED
  BY <1>1, <1>2, <1>3, <1>4, <1>5
     DEF Next, ClientSide, ServerSide, ReadServer, WriteFails, OutOfStep, ClientEnds,
         ServerEnds, ServerWrites, ClientCloses, ServerExits, pipes, ends, vars

\* No step brings a reader out of step with the stream, but the one exception.
LEMMA InStepStep == IInv /\ [Next]_vars => InStep'
<1> SUFFICES ASSUME IInv, [Next]_vars PROVE InStep'
  OBVIOUS
<1> USE ProxyConstants DEF IInv
<1>1. MessagesInOrder'
  <2>1. CASE ServerArm
    <3>0. /\ toClient \in Seq(1..Messages) /\ Delivered \in Int /\ Complete(serverFrame) /\ Consecutive(serverFrame, Delivered)
          /\ serverFrame \in Seq(Pieces(Messages))
      BY <2>1 DEF ServerArm, Deliver, AdapterStream, TypeOK, Delivered
    <3>1. serverFrame[1][1] \in 1..Messages /\ Delivered = 3 * serverFrame[1][1]
      BY <3>0, Whole
    <3>2. serverFrame[1][1] = Len(toClient) + 1
      <4>1. Len(toClient) \in Nat
        BY <3>0
      <4>2. serverFrame[1][1] \in Nat /\ 3 * Len(toClient) + 3 = 3 * serverFrame[1][1]
        BY <3>1 DEF Delivered
      <4> HIDE DEF IInv
      <4> QED
        BY <4>1, <4>2
    <3>3. toClient' = Append(toClient, serverFrame[1][1])
      BY <2>1 DEF ServerArm, Deliver
    <3>4. \A n \in DOMAIN toClient' : IF n \in DOMAIN toClient THEN toClient'[n] = toClient[n]
                                      ELSE n = Len(toClient) + 1 /\ toClient'[n] = serverFrame[1][1]
      BY <3>0, <3>1, <3>3, OneMore
    <3> QED
      BY <3>2, <3>4 DEF MessagesInOrder, InStep
  <2>2. UNCHANGED toClient => MessagesInOrder'
    BY DEF MessagesInOrder, InStep
  <2> QED
    BY <2>1, <2>2
       DEF Next, ClientSide, ServerSide, ReadClient, ReadServer, ClientArm, Forward, WriteFails,
           OutOfStep, ClientEnds, ServerEnds, ClientWrites, ServerWrites, ClientCloses,
           ServerExits, vars
<1>2. FramesOnceInOrder'
  <2>1. CASE ClientArm
    <3>1. clientFrame[1][1] \in 1..Frames /\ Consumed = 3 * clientFrame[1][1]
      BY <2>1, Whole DEF ClientArm, Forward, ClientStream, TypeOK
    <3>2. \A n \in DOMAIN toServer : toServer[n] < clientFrame[1][1]
      <4>1. \A n \in DOMAIN toServer : toServer[n] \in 1..Frames
        BY DEF TypeOK
      <4>2. \A n \in DOMAIN toServer : 3 * toServer[n] + 3 <= 3 * clientFrame[1][1]
        BY <3>1 DEF ClientStream
      <4> QED
        BY <3>1, <4>1, <4>2
    <3>3. toServer' = toServer \/ toServer' = Append(toServer, clientFrame[1][1])
      BY <2>1 DEF ClientArm, Forward
    <3>4. CASE toServer' = Append(toServer, clientFrame[1][1])
      <4>1. /\ \A n \in DOMAIN toServer' : IF n \in DOMAIN toServer THEN toServer'[n] = toServer[n]
                                           ELSE n = Len(toServer) + 1 /\ toServer'[n] = clientFrame[1][1]
            /\ \A m, n \in DOMAIN toServer' : m < n => m \in DOMAIN toServer
        <5>1. toServer \in Seq(1..Frames)
          BY DEF TypeOK
        <5> QED
          BY <3>1, <3>4, <5>1, OneMore
      <4> QED
        BY <3>2, <4>1 DEF FramesOnceInOrder, InStep
    <3> QED
      BY <3>3, <3>4 DEF FramesOnceInOrder, InStep
  <2>2. UNCHANGED toServer => FramesOnceInOrder'
    BY DEF FramesOnceInOrder, InStep
  <2> QED
    BY <2>1, <2>2
       DEF Next, ClientSide, ServerSide, ReadClient, ReadServer, ServerArm, Deliver, WriteFails,
           OutOfStep, ClientEnds, ServerEnds, ClientWrites, ServerWrites, ClientCloses,
           ServerExits, vars
<1>3. FailsForAReason'
  <2> USE DEF FailsForAReason, InStep, TypeOK, Ends, ends, pipes
  <2>1. ~BadHeader(serverFrame)
    BY InFrame DEF AdapterStream, Delivered
  <2>2. CASE ReadClient \/ ReadServer
    BY <2>2 DEF ReadClient, ReadServer, ClientTurn, ServerTurn
  <2>3. CASE ClientArm
    BY <2>3 DEF ClientArm, Forward, ClientTurn, Fail
  <2>4. CASE ServerArm
    BY <2>4 DEF ServerArm, Deliver, ServerTurn
  <2>5. CASE WriteFails
    BY <2>5 DEF WriteFails
  <2>6. CASE OutOfStep
    BY <2>1, <2>6 DEF OutOfStep
  <2>7. CASE ClientEnds \/ ServerEnds
    BY <2>7 DEF ClientEnds, ServerEnds
  <2>8. CASE ClientWrites \/ ClientCloses \/ ServerWrites \/ ServerExits
    BY <2>8 DEF ClientWrites, ClientCloses, ServerWrites, ServerExits, Running
  <2>9. CASE UNCHANGED vars
    BY <2>9 DEF vars
  <2> QED
    BY <2>2, <2>3, <2>4, <2>5, <2>6, <2>7, <2>8, <2>9 DEF Next, ClientSide, ServerSide
<1> QED
  BY <1>1, <1>2, <1>3 DEF InStep

\* The inductive invariant holds in every state.
THEOREM Invariance == Spec => []IInv
<1>1. Init => IInv
  <2> SUFFICES ASSUME Init PROVE IInv
    OBVIOUS
  <2>1. TypeOK /\ Ends
    BY ProxyConstants DEF Init, TypeOK, Ends
  <2>2. AdapterStream /\ ClientStream
    BY DEF Init, AdapterStream, ClientStream, Delivered, Consumed, Consecutive, Pos
  <2>3. InStep
    BY DEF Init, InStep, MessagesInOrder, FramesOnceInOrder, FailsForAReason
  <2> QED
    BY <2>1, <2>2, <2>3 DEF IInv
<1>2. IInv /\ [Next]_vars => IInv'
  BY TypeStep, AdapterStep, ClientStep, InStepStep DEF IInv
<1> QED
  BY <1>1, <1>2, PTL DEF Spec

----------------------------------------------------------------------------
\* Types; how far the handshake is tells what has been exchanged.
THEOREM TypeCorrect == Spec => []TypeOK
<1>1. IInv => TypeOK
  BY DEF IInv
<1> QED
  BY <1>1, Invariance, PTL

\* Both directions stay in step, however many reads are cancelled and whoever leaves.
THEOREM StaysInStep == Spec => []InStep
<1>1. IInv => InStep
  BY DEF IInv
<1> QED
  BY <1>1, Invariance, PTL
=============================================================================
