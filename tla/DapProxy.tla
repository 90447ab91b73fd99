------------------------------ MODULE DapProxy ------------------------------
(***************************************************************************)
(* The proxy between a DAP client and a debug adapter (src/proxy.rs) with   *)
(* its frame reader (src/transport/framing.rs) and the transport to the     *)
(* adapter's process (src/transport/stdio.rs).                              *)
(*                                                                         *)
(* Bytes are seen as pieces <<frame, p>>: a frame's header arrives as piece *)
(* 1 and piece 2, which holds the blank line, and its body as piece 3.  A   *)
(* reader that starts a frame at a piece other than 1 takes whatever comes  *)
(* up to the next blank line for a header, and finds no length in it.       *)
(*                                                                         *)
(* The client and the adapter are external: either writes frames a piece    *)
(* at a time, when it likes, and may close or exit between any two pieces.  *)
(* What the interceptors do to a message is left out: it goes out, changed  *)
(* or raw.                                                                  *)
(***************************************************************************)
EXTENDS Naturals, SequencesExt

CONSTANTS Frames,     \* bound: frames the client writes
          Messages,   \* bound: frames the adapter writes
          Pipelines   \* the client may write a request of the handshake before
                      \* the previous one was answered

ASSUME ProxyConstants == Frames \in Nat /\ Messages \in Nat /\ Pipelines \in BOOLEAN

VARIABLES
    state,        \* the proxy's State, or, once start() has returned, "Failed"
    step,         \* awaits of perform_handshake that are over, 0..6
    buffer,       \* the client BufReader: read from stdin, not yet consumed
    clientFrame,  \* the FrameState on the stack of read_stdin_frame
    serverFrame,  \* the FrameState of the transport
    fromClient, fromServer,  \* the two pipes, as pieces
    toServer,     \* frames sent to the adapter
    toClient,     \* frames written to the client
    clientAt, serverAt,      \* the last piece each has written
    disconnectAt, \* which frame after the handshake is a disconnect, or 0
    clientOpen, serverUp

pipes == <<fromClient, fromServer>>
ends == <<clientAt, serverAt, disconnectAt, clientOpen, serverUp>>
vars == <<state, step, buffer, clientFrame, serverFrame, pipes, toServer, toClient, ends>>

Init ==
    /\ state = "Initializing" /\ step = 0
    /\ buffer = <<>> /\ clientFrame = <<>> /\ serverFrame = <<>>
    /\ fromClient = <<>> /\ fromServer = <<>> /\ toServer = <<>> /\ toClient = <<>>
    /\ clientAt = <<0, 3>> /\ serverAt = <<0, 3>> /\ disconnectAt \in {0} \cup 4..Frames
    /\ clientOpen = TRUE /\ serverUp = TRUE

----------------------------------------------------------------------------
(* The frame reader: what a FrameState has accumulated. *)

\* A header that ends at its blank line without having begun at piece 1.
BadHeader(frame) == \E n \in DOMAIN frame : frame[n][2] = 2 /\ n # 2

Complete(frame) == Len(frame) = 3 /\ frame[1][2] = 1

Unfinished(frame) == ~Complete(frame) /\ ~BadHeader(frame)

\* The proxy awaits a client's frame, an adapter's frame; in the loop both.
ClientTurn == state = "Ready" \/ (state = "Initializing" /\ step \in {0, 2, 4})
\* Mutant: one read after the other, without select!.
ServerTurnAfterClient ==
    \/ state = "Ready" /\ clientFrame = <<>>
    \/ state = "ShuttingDown"
    \/ state = "Initializing" /\ step \in {1, 3, 5}

ServerTurn == \/ state \in {"Ready", "ShuttingDown"}
              \/ state = "Initializing" /\ step \in {1, 3, 5}

\* An empty buffer is filled with all there is, a full one is used up first.
ReadClient ==
    /\ ClientTurn /\ Unfinished(clientFrame)
    /\ LET bytes == IF buffer = <<>> THEN fromClient ELSE buffer
       IN /\ bytes # <<>>
          /\ clientFrame' = Append(clientFrame, Head(bytes))
          /\ buffer' = Tail(bytes)
    /\ fromClient' = IF buffer = <<>> THEN <<>> ELSE fromClient
    /\ UNCHANGED <<state, step, serverFrame, fromServer, toServer, toClient, ends>>

ReadServer ==
    /\ ServerTurn /\ Unfinished(serverFrame)
    /\ fromServer # <<>>
    /\ serverFrame' = Append(serverFrame, Head(fromServer))
    /\ fromServer' = Tail(fromServer)
    /\ UNCHANGED <<state, step, buffer, clientFrame, fromClient, toServer, toClient, ends>>

----------------------------------------------------------------------------
(* The proxy. *)

Fail == state' = "Failed" /\ UNCHANGED step

IsDisconnect == clientFrame[1][1] = disconnectAt

\* Mutant: the handshake does not wait for the answer.
ForwardOnly ==
    /\ ClientTurn /\ Complete(clientFrame)
    /\ clientFrame' = <<>>
    /\ IF serverUp
       THEN /\ toServer' = Append(toServer, clientFrame[1][1])
            /\ step' = IF state = "Ready" THEN step ELSE step + 2
            /\ state' = IF state = "Ready" /\ IsDisconnect THEN "ShuttingDown"
                        ELSE IF state # "Ready" /\ step = 4 THEN "Ready" ELSE state
       ELSE Fail /\ UNCHANGED toServer
    /\ UNCHANGED <<buffer, pipes, toClient, ends>>

\* A client's frame has come: it goes to the adapter, if that is still there.
Forward ==
    /\ ClientTurn /\ Complete(clientFrame)
    /\ clientFrame' = <<>>
    /\ IF serverUp
       THEN /\ toServer' = Append(toServer, clientFrame[1][1])
            /\ step' = IF state = "Ready" THEN step ELSE step + 1
            /\ state' = IF state = "Ready" /\ IsDisconnect THEN "ShuttingDown" ELSE state
       ELSE Fail /\ UNCHANGED toServer
    /\ UNCHANGED <<buffer, pipes, toClient, ends>>

\* The select! arm of the client, or the handshake's read: what the transport has
\* read of an adapter's frame stays in the transport.
ClientArm == Forward /\ UNCHANGED serverFrame

\* An adapter's message is written to the client: in the handshake as the answer
\* to the request just sent, after a disconnect as its answer.  The handshake's
\* reader is dropped with it, buffer and all.
Deliver ==
    /\ ServerTurn /\ Complete(serverFrame)
    /\ serverFrame' = <<>>
    /\ toClient' = Append(toClient, serverFrame[1][1])
    /\ step' = IF state = "Initializing" THEN step + 1 ELSE step
    /\ state' = CASE state = "Initializing" /\ step = 5 -> "Ready"
                  [] state = "ShuttingDown" -> "Exited"
                  [] OTHER -> state
    /\ buffer' = IF state = "Initializing" /\ step = 5 THEN <<>> ELSE buffer
    /\ UNCHANGED <<pipes, toServer, ends>>

\* Mutant: what has been read of the message is not cleared once it is delivered.
ServerArmTwice ==
    /\ ServerTurn /\ Complete(serverFrame)
    /\ toClient' = Append(toClient, serverFrame[1][1])
    /\ clientFrame' = <<>>
    /\ UNCHANGED <<state, step, buffer, serverFrame, pipes, toServer, ends>>

\* The select! arm of the adapter drops the read of the client, and with it the
\* state of the frame it is in.
ServerArm == Deliver /\ clientFrame' = <<>>

\* The client is gone and cannot be written to.
WriteFails ==
    /\ ServerTurn /\ Complete(serverFrame)
    /\ ~clientOpen
    /\ Fail
    /\ UNCHANGED <<buffer, clientFrame, serverFrame, pipes, toServer, toClient, ends>>

\* "missing Content-Length header"
OutOfStep ==
    /\ \/ ClientTurn /\ BadHeader(clientFrame)
       \/ ServerTurn /\ BadHeader(serverFrame)
    /\ Fail
    /\ UNCHANGED <<buffer, clientFrame, serverFrame, pipes, toServer, toClient, ends>>

\* Mutant: the end of the client's stream is no end of the loop.
ClientEndsQuietly ==
    /\ step < 6 /\ ClientTurn /\ Unfinished(clientFrame)
    /\ buffer = <<>> /\ fromClient = <<>> /\ ~clientOpen
    /\ Fail
    /\ UNCHANGED <<buffer, clientFrame, serverFrame, pipes, toServer, toClient, ends>>

\* The end of the client's stream: in the loop the proxy exits.
ClientEnds ==
    /\ ClientTurn /\ Unfinished(clientFrame)
    /\ buffer = <<>> /\ fromClient = <<>> /\ ~clientOpen
    /\ IF state = "Ready" THEN state' = "Exited" /\ UNCHANGED step ELSE Fail
    /\ UNCHANGED <<buffer, clientFrame, serverFrame, pipes, toServer, toClient, ends>>

\* The end of the adapter's stream is an error everywhere.
ServerEnds ==
    /\ ServerTurn /\ Unfinished(serverFrame)
    /\ fromServer = <<>> /\ ~serverUp
    /\ Fail
    /\ UNCHANGED <<buffer, clientFrame, serverFrame, pipes, toServer, toClient, ends>>

ClientSide == ReadClient \/ ClientArm \/ ClientEnds
ServerSide == ReadServer \/ ServerArm \/ WriteFails \/ ServerEnds

----------------------------------------------------------------------------
(* The client and the adapter. *)

Following(at) == IF at[2] = 3 THEN <<at[1] + 1, 1>> ELSE <<at[1], at[2] + 1>>

\* The proxy still reads: before, what is written matters, afterwards it does not.
Running == state \notin {"Exited", "Failed"}

\* The first three requests are those of the handshake.
Answered == Len(toClient) >= clientAt[1]

ClientWrites ==
    /\ Running /\ clientOpen
    /\ clientAt # <<Frames, 3>>
    /\ clientAt[2] = 3 => Pipelines \/ Answered \/ state = "Ready"
    /\ clientAt' = Following(clientAt)
    /\ fromClient' = Append(fromClient, Following(clientAt))
    /\ UNCHANGED <<state, step, buffer, clientFrame, serverFrame, fromServer, toServer,
                   toClient, serverAt, disconnectAt, clientOpen, serverUp>>

ClientCloses ==
    /\ Running /\ clientOpen
    /\ clientOpen' = FALSE
    /\ UNCHANGED <<state, step, buffer, clientFrame, serverFrame, pipes, toServer,
                   toClient, clientAt, serverAt, disconnectAt, serverUp>>

ServerWrites ==
    /\ Running /\ serverUp
    /\ serverAt # <<Messages, 3>>
    /\ serverAt' = Following(serverAt)
    /\ fromServer' = Append(fromServer, Following(serverAt))
    /\ UNCHANGED <<state, step, buffer, clientFrame, serverFrame, fromClient, toServer,
                   toClient, clientAt, disconnectAt, clientOpen, serverUp>>

ServerExits ==
    /\ Running /\ serverUp
    /\ serverUp' = FALSE
    /\ UNCHANGED <<state, step, buffer, clientFrame, serverFrame, pipes, toServer,
                   toClient, clientAt, serverAt, disconnectAt, clientOpen>>

----------------------------------------------------------------------------
Next == \/ ClientSide \/ ServerSide \/ OutOfStep
        \/ ClientWrites \/ ClientCloses \/ ServerWrites \/ ServerExits

Spec == Init /\ [][Next]_vars

\* select! polls both its branches, in random order.
FairSpec == Spec /\ WF_vars(ClientSide) /\ WF_vars(ServerSide) /\ WF_vars(OutOfStep)
=============================================================================
