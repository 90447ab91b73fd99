----------------------------- MODULE MCDapProxy -----------------------------
(* What DapProxy is checked for.                                            *)
EXTENDS DapProxy

Pieces(n) == (1..n) \X (1..3)

\* Types; how far the handshake is tells what has been exchanged.
TypeOK ==
    /\ state \in {"Initializing", "Ready", "ShuttingDown", "Exited", "Failed"}
    /\ step \in 0..6 /\ (state = "Initializing" => step < 6)
    /\ buffer \in Seq(Pieces(Frames)) /\ fromClient \in Seq(Pieces(Frames))
    /\ clientFrame \in Seq(Pieces(Frames)) /\ Len(clientFrame) <= 3
    /\ serverFrame \in Seq(Pieces(Messages)) /\ fromServer \in Seq(Pieces(Messages))
    /\ toServer \in Seq(1..Frames) /\ toClient \in Seq(1..Messages)
    /\ Len(toClient) >= step \div 2 /\ (state = "Initializing" => Len(toServer) = (step + 1) \div 2)

\* The client gets the adapter's messages as they were written, each once, in order and
\* without a gap, however many reads were cancelled half-way.
MessagesInOrder == \A n \in DOMAIN toClient : toClient[n] = n

\* The adapter gets the client's frames in order and none twice.
FramesOnceInOrder == \A m, n \in DOMAIN toServer : m < n => toServer[m] < toServer[n]

\* The proxy gives up only when the client or the adapter has left, or the client's
\* frames are out of step because a part of them was lost.
FailsForAReason == state = "Failed" => ~clientOpen \/ ~serverUp \/ BadHeader(clientFrame)

\* What passes in either direction stays in step, whatever the other does meanwhile,
\* and nothing but a loss of the client's own bytes breaks it off.
InStep == MessagesInOrder /\ FramesOnceInOrder /\ FailsForAReason

\* Once in the loop, every message the adapter has written reaches the client,
\* unless the proxy comes to its end.
MessagesDelivered ==
    \A n \in 1..Messages :
        state = "Ready" /\ (serverAt[1] > n \/ serverAt = <<n, 3>>)
            ~> n \in ToSet(toClient) \/ ~Running

\* A client that closes the loop's input ends the proxy, unless a disconnect of its
\* own is still to be answered.
CloseEndsProxy == state = "Ready" /\ ~clientOpen ~> state \in {"Exited", "Failed", "ShuttingDown"}

\* "we do not cancel this future mid-header across calls": a read of the client begins
\* where a frame begins.
ReadsWholeFrames == clientFrame # <<>> => clientFrame[1][2] = 1
=============================================================================
