---------------------------- MODULE MCDapSession ----------------------------
(* What DapSession is checked for.                                          *)
EXTENDS DapSession

Cmds == {"initialize", "launch", "attach", "setBreakpoints", "configurationDone", "continue",
         "threads", "pause", "query"}
Events == {"initialized", "output", "runInTerminal", "stopped", "terminated"}

Messages == [kind : {"response"}, what : Cmds, seq : 1..MaxSeq, ok : BOOLEAN]
            \cup [kind : {"event"}, what : Events \ {"runInTerminal"}, seq : 1..MaxSent, ok : {TRUE}]
            \cup [kind : {"request"}, what : {"runInTerminal"}, seq : 1..MaxSent, ok : {TRUE}]

\* Event ids of a sequence of messages.
Ids(s) == {m.seq : m \in {x \in ToSet(s) : x.kind # "response"}}

\* Types; the event buffer stays within its cap, a response is awaited only by
\* an ask, and an operation is under way exactly while steps remain.
TypeOK ==
    /\ nextSeq \in 1..(MaxSeq + 1)
    /\ pending \in Seq(Messages) /\ Len(pending) <= MaxPending
    /\ fromAdapter \in Seq(Messages)
    /\ toAdapter \in Seq([cmd : Cmds, seq : 1..MaxSeq])
    /\ output \in Seq(1..MaxSent) /\ taken \in Seq(1..MaxSent) /\ drained \in Seq(1..MaxSent)
    /\ call \in Ops \cup {"none"} /\ (call = "none" <=> todo = <<>>)
    /\ waiting \in 0..MaxSeq /\ (waiting # 0 => Doing("ask"))
    /\ launchSeq \in 0..MaxSeq /\ owed \in 0..MaxSeq /\ handled \in 0..MaxSeq
    /\ stop \in 0..MaxSent
    /\ gotLaunch \in BOOLEAN /\ alive \in BOOLEAN
    /\ greeted \in {"no", "due", "yes"}
    /\ debuggee \in {"none", "starting", "running", "stopped", "ended"}

\* A request is answered by the adapter's response to it: not by the response to
\* an earlier one, which gave up waiting, nor by that to a posted launch.
ResponseIsForItsRequest ==
    [][Doing("ask") /\ waiting # 0 /\ todo' # <<>> /\ todo' = Tail(todo)
          => fromAdapter[1].kind = "response" /\ fromAdapter[1].what = What]_vars

\* What the debuggee printed, and the session has received.
Printed == {id \in DOMAIN sent : sent[id].what = "output"} \ Ids(fromAdapter)

\* Whatever the buffer of events evicts, output is kept until get_output drains
\* it, each piece once and in order; the one exception is a piece that a wait for
\* "output" took straight from the adapter.
OutputKept ==
    /\ Printed \subseteq ToSet(drained) \cup ToSet(output) \cup ToSet(taken)
    /\ \A m, n \in DOMAIN (drained \o output) :
          m < n => (drained \o output)[m] < (drained \o output)[n]

\* The event that the step consumes has not been consumed before, and no older one of its
\* name is left on the way or, but for a launch, in the buffer.
TakesOldest ==
    LET id == Last(taken')
        same(s) == {m \in ToSet(s) : m.kind = "event" /\ m.what = sent[id].what}
    IN /\ id \notin ToSet(taken)
       /\ \A m \in same(fromAdapter') : id < m.seq
       /\ Doing("collect") \/ \A m \in same(pending') : id < m.seq

\* A wait consumes an event once, and the oldest of its name, whether it finds it in
\* the buffer or receives it; only the last loop of a launch prefers a stop it
\* receives to those in the buffer.
OldestOnce == [][taken' # taken => TakesOldest]_vars

\* Stops on their way to a caller.
StopsHeld == LET stops(s) == {m \in ToSet(s) : m.what = "stopped"}
             IN {m.seq : m \in stops(fromAdapter) \cup stops(pending)}
                \cup (IF Doing("collect") /\ stop # 0 THEN {stop} ELSE {})

\* The oldest of a full buffer, all newer.
Overdue(id) == /\ Len(pending) = MaxPending /\ pending[1].seq = id
               /\ \A n \in 2..MaxPending : pending[n].seq > id

\* In the hands of a launch that fails now or receives a newer one.
Superseded(id) == /\ Doing("collect") /\ id = stop
                  /\ ~alive \/ stop' > id \/ (fromAdapter # <<>> /\ ~fromAdapter[1].ok)

\* A stop reaches a caller unless MaxPending later events pushed it out of the
\* buffer, or the launch that collected it failed or received a newer one.
StopsReachCallers ==
    [][\A id \in StopsHeld :
          id \in StopsHeld' \cup ToSet(taken') \/ Overdue(id) \/ Superseded(id)]_vars

\* Every operation returns: the adapter answers, or talks of something else, or
\* is silent, or exits.
OperationsEnd == call # "none" ~> call = "none"

\* "Continue execution; waits for next stopped/terminated": what a resumption
\* returns was sent after the adapter had resumed.
NextStopIsNew ==
    [][(call \in {"resume", "resumeAny"} /\ Doing("await") /\ taken' # taken)
          => sent[taken'[Len(taken')]].after >= nextSeq - 1]_vars

\* "Launch response may arrive interleaved with stopped; collect both": a launch
\* response the session has received counts.
LaunchResponseCollected ==
    Doing("collect") /\ handled >= launchSeq /\ owed = 0
      /\ (\A n \in DOMAIN fromAdapter : fromAdapter[n].what # "launch")
      => gotLaunch
=============================================================================
