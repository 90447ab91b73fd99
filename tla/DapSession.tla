----------------------------- MODULE DapSession -----------------------------
(***************************************************************************)
(* A DapSession (src/mcp/session.rs) and the debug adapter it drives.       *)
(*                                                                         *)
(* The session runs one operation at a time.  An operation is a script of   *)
(* steps: ask (send a request, wait for its response), post (send a request *)
(* and go on), await (wait for an event) and collect (the last loop of      *)
(* launch_program).  Whatever else arrives during a step is sorted by the   *)
(* loop of that step: events into a bounded buffer, the rest is dropped.    *)
(*                                                                         *)
(* The adapter is any DAP adapter: it answers in its own time, sends        *)
(* "initialized" early or late, answers a launch before or after            *)
(* configurationDone, talks at will and may exit.  Time is abstract: a      *)
(* deadline may pass at any moment, a receive timeout when nothing is there *)
(* to receive.                                                              *)
(***************************************************************************)
EXTENDS Naturals, SequencesExt

CONSTANTS Ops,         \* operations callers use, a subset of DOMAIN Script
          MaxPending,  \* MAX_PENDING_EVENTS
          Noise,       \* what a running debuggee may send besides its stops
          MaxSeq,      \* bound: requests the session sends
          MaxSent      \* bound: messages the adapter sends that answer nothing

\* launch_program without breakpoints and, "launchAt", with them.
\* "resume" stands for continue_ and the three steps with a given thread,
\* "resumeAny" for them without one; "request" for every single-request operation:
\* set_breakpoints, the get_ family, evaluate, disconnect, terminate, send_raw.
Script ==
    [launch |-> <<<<"ask", "initialize">>, <<"post", "launch">>,
                  <<"await", "initialized">>, <<"ask", "configurationDone">>,
                  <<"collect", "launch">>>>,
     launchAt |-> <<<<"ask", "initialize">>, <<"post", "launch">>,
                    <<"await", "initialized">>, <<"ask", "setBreakpoints">>,
                    <<"ask", "configurationDone">>, <<"collect", "launch">>>>,
     attach |-> <<<<"ask", "initialize">>, <<"ask", "attach">>,
                  <<"ask", "configurationDone">>>>,
     resume |-> <<<<"ask", "continue">>, <<"await", "stopOrEnd">>>>,
     resumeAny |-> <<<<"ask", "threads">>, <<"ask", "continue">>,
                     <<"await", "stopOrEnd">>>>,
     pause |-> <<<<"ask", "threads">>, <<"ask", "pause">>, <<"await", "stopped">>>>,
     request |-> <<<<"ask", "query">>>>,
     waitStopped |-> <<<<"await", "stopped">>>>,
     waitOutput |-> <<<<"await", "output">>>>]

\* The events an await is after; "terminated" stands for "exited" too.
Wanted(w) == IF w = "stopOrEnd" THEN {"stopped", "terminated"} ELSE {w}

ASSUME SessionConstants ==
    /\ Ops \subseteq DOMAIN Script
    /\ MaxPending \in Nat \ {0}
    /\ Noise \subseteq {"output", "runInTerminal"}
    /\ MaxSeq \in Nat /\ MaxSent \in Nat

VARIABLES
    nextSeq,     \* the next request's seq
    pending,     \* pending_events, oldest first
    output,      \* output_buffer: the ids of the buffered output events
    call,        \* the operation under way, or "none"
    todo,        \* the steps of its script that remain
    waiting,     \* the seq send_request waits for, or 0
    launchSeq,   \* launch_seq
    gotLaunch,   \* got_launch
    stop,        \* stopped_body: the id of that event, or 0
    toAdapter, fromAdapter,  \* the child's stdin and stdout
    alive,       \* the child runs
    debuggee,    \* "none", "starting", "running", "stopped" or "ended"
    greeted,     \* "no", "due" (initialize came), "yes" (initialized sent)
    owed,        \* the seq of an accepted launch not yet answered, or 0
    handled,     \* the seq of the last request the adapter has handled
    sent,        \* what the adapter sent unasked: the event's name, and handled then
    taken,       \* ids of the events waits have consumed, in that order
    drained      \* ids of the output events get_output has returned

session == <<nextSeq, pending, output, call, todo, waiting, launchSeq, gotLaunch, stop,
             taken, drained>>
adapter == <<alive, debuggee, greeted, owed, handled, sent>>
vars == <<session, toAdapter, fromAdapter, adapter>>

Response(cmd, s, ok) == [kind |-> "response", what |-> cmd, seq |-> s, ok |-> ok]
Event(name) == [kind |-> IF name = "runInTerminal" THEN "request" ELSE "event",
                what |-> name, seq |-> Len(sent) + 1, ok |-> TRUE]

Init ==
    /\ nextSeq = 1 /\ pending = <<>> /\ output = <<>>
    /\ call = "none" /\ todo = <<>> /\ waiting = 0
    /\ launchSeq = 0 /\ gotLaunch = FALSE /\ stop = 0
    /\ toAdapter = <<>> /\ fromAdapter = <<>>
    /\ alive = TRUE /\ debuggee = "none" /\ greeted = "no" /\ owed = 0
    /\ handled = 0 /\ sent = <<>>
    /\ taken = <<>> /\ drained = <<>>

----------------------------------------------------------------------------
(* The session. *)

Doing(step) == todo # <<>> /\ todo[1][1] = step
What == todo[1][2]

Asks(op) == Cardinality({n \in DOMAIN Script[op] : Script[op][n][1] \in {"ask", "post"}})

\* A caller with the session's mutex starts an operation.
Call(op) ==
    /\ call = "none" /\ nextSeq + Asks(op) <= MaxSeq + 1
    /\ call' = op
    /\ todo' = Script[op]
    /\ gotLaunch' = FALSE /\ stop' = 0
    /\ UNCHANGED <<nextSeq, pending, output, waiting, launchSeq, taken, drained,
                   toAdapter, fromAdapter, adapter>>

\* drain_output
Drain ==
    /\ call = "none" /\ output # <<>>
    /\ drained' = drained \o output
    /\ output' = <<>>
    /\ UNCHANGED <<nextSeq, pending, call, todo, waiting, launchSeq, gotLaunch, stop,
                   taken, toAdapter, fromAdapter, adapter>>

\* The operation returns, with an error or not.
Return == /\ todo' = <<>> /\ call' = "none" /\ waiting' = 0

\* The current step is done; after the last one the operation returns.
Advance == /\ todo' = Tail(todo)
           /\ call' = IF Len(todo) = 1 THEN "none" ELSE call
           /\ waiting' = 0

Send == /\ alive
        /\ toAdapter' = Append(toAdapter, [cmd |-> What, seq |-> nextSeq])
        /\ nextSeq' = nextSeq + 1

\* Mutant: output events only go into the event buffer.
BufferNoOutput(e) ==
    /\ pending' = IF Len(pending) >= MaxPending THEN Append(Tail(pending), e)
                  ELSE Append(pending, e)
    /\ UNCHANGED output

\* Mutant: a full buffer drops the newest event, not the oldest.
BufferDropsNewest(e) ==
    /\ pending' = IF Len(pending) >= MaxPending THEN pending ELSE Append(pending, e)
    /\ output' = IF e.what = "output" THEN Append(output, e.seq) ELSE output

\* Mutant: off by one at the cap.
BufferOneMore(e) ==
    /\ pending' = IF Len(pending) > MaxPending THEN Append(Tail(pending), e)
                  ELSE Append(pending, e)
    /\ output' = IF e.what = "output" THEN Append(output, e.seq) ELSE output

\* buffer_event: at the cap the oldest event goes.
Buffer(e) ==
    /\ pending' = IF Len(pending) >= MaxPending THEN Append(Tail(pending), e)
                  ELSE Append(pending, e)
    /\ output' = IF e.what = "output" THEN Append(output, e.seq) ELSE output

\* The n-th buffered event is the oldest among the names.
FirstBuffered(n, names) == /\ pending[n].what \in names
                           /\ \A m \in 1..(n - 1) : pending[m].what \notin names

NoneBuffered(names) == \A n \in DOMAIN pending : pending[n].what \notin names

Receive(m) == /\ fromAdapter # <<>>
              /\ m = fromAdapter[1]
              /\ fromAdapter' = Tail(fromAdapter)

\* A message of no use to the current step: an event is buffered, a stale
\* response or a reverse request dropped.
PutAside(m) == IF m.kind = "event" THEN Buffer(m) ELSE UNCHANGED <<pending, output>>

\* send_request and send_request_no_wait: a new seq, one frame written.
Ask ==
    /\ Doing("ask") /\ waiting = 0
    /\ Send
    /\ waiting' = nextSeq
    /\ UNCHANGED <<pending, output, call, todo, launchSeq, gotLaunch, stop, taken,
                   drained, fromAdapter, adapter>>

Post ==
    /\ Doing("post")
    /\ Send
    /\ launchSeq' = nextSeq
    /\ Advance
    /\ UNCHANGED <<pending, output, gotLaunch, stop, taken, drained, fromAdapter, adapter>>

\* The pipe is broken.
SendFails ==
    /\ Doing("post") \/ (Doing("ask") /\ waiting = 0)
    /\ ~alive
    /\ nextSeq' = nextSeq + 1
    /\ Return
    /\ UNCHANGED <<pending, output, launchSeq, gotLaunch, stop, taken, drained,
                   toAdapter, fromAdapter, adapter>>

\* Mutant: any response ends the wait, whatever its request_seq.
AnyAnswers(m) == m.kind = "response"

Answers(m) == m.kind = "response" /\ m.seq = waiting

\* The receive loop of send_request, for the response it waits for ...
Answered(m) ==
    /\ Doing("ask") /\ waiting # 0
    /\ Receive(m) /\ Answers(m)
    /\ IF m.ok THEN Advance ELSE Return
    /\ UNCHANGED <<nextSeq, pending, output, launchSeq, gotLaunch, stop, taken, drained,
                   toAdapter, adapter>>

\* ... and for anything else.
NotAnswered(m) ==
    /\ Doing("ask") /\ waiting # 0
    /\ Receive(m) /\ ~Answers(m)
    /\ PutAside(m)
    /\ UNCHANGED <<nextSeq, call, todo, waiting, launchSeq, gotLaunch, stop, taken,
                   drained, toAdapter, adapter>>

\* Mutant: the buffered event is returned but stays in the buffer.
TakeBufferedKept ==
    \E n \in DOMAIN pending :
        /\ Doing("await") /\ FirstBuffered(n, Wanted(What))
        /\ taken' = Append(taken, pending[n].seq)
        /\ Advance
        /\ UNCHANGED <<nextSeq, pending, output, launchSeq, gotLaunch, stop, drained,
                       toAdapter, fromAdapter, adapter>>

\* wait_for_event_where and wait_stopped_or_terminated look into the buffer first, ...
TakeBuffered ==
    \E n \in DOMAIN pending :
        /\ Doing("await") /\ FirstBuffered(n, Wanted(What))
        /\ pending' = RemoveAt(pending, n)
        /\ taken' = Append(taken, pending[n].seq)
        /\ Advance
        /\ UNCHANGED <<nextSeq, output, launchSeq, gotLaunch, stop, drained,
                       toAdapter, fromAdapter, adapter>>

\* ... and then receive until the event comes; that one is not buffered, ...
TakeReceived(m) ==
    /\ Doing("await") /\ NoneBuffered(Wanted(What))
    /\ Receive(m) /\ m.kind = "event" /\ m.what \in Wanted(What)
    /\ taken' = Append(taken, m.seq)
    /\ Advance
    /\ UNCHANGED <<nextSeq, pending, output, launchSeq, gotLaunch, stop, drained,
                   toAdapter, adapter>>

\* ... and responses are not looked at.
NotAwaited(m) ==
    /\ Doing("await") /\ NoneBuffered(Wanted(What))
    /\ Receive(m) /\ (m.kind = "event" => m.what \notin Wanted(What))
    /\ PutAside(m)
    /\ UNCHANGED <<nextSeq, call, todo, waiting, launchSeq, gotLaunch, stop, taken,
                   drained, toAdapter, adapter>>

\* The last loop of launch_program: a buffered stopped is preferred, ...
CollectBuffered ==
    \E n \in DOMAIN pending :
        /\ Doing("collect") /\ stop = 0 /\ FirstBuffered(n, {"stopped"})
        /\ stop' = pending[n].seq
        /\ pending' = RemoveAt(pending, n)
        /\ UNCHANGED <<nextSeq, output, call, todo, waiting, launchSeq, gotLaunch, taken,
                       drained, toAdapter, fromAdapter, adapter>>

Collecting == /\ Doing("collect") /\ ~(gotLaunch /\ stop # 0)
              /\ stop # 0 \/ NoneBuffered({"stopped"})

\* ... a refused launch ends it, ...
CollectRefusal(m) ==
    /\ Collecting
    /\ Receive(m) /\ m.kind = "response" /\ m.seq = launchSeq /\ ~m.ok
    /\ Return
    /\ UNCHANGED <<nextSeq, pending, output, launchSeq, gotLaunch, stop, taken, drained,
                   toAdapter, adapter>>

\* ... and every other message is sorted.
Collect(m) ==
    /\ Collecting
    /\ Receive(m)
    /\ \/ /\ m.kind = "response" /\ m.seq = launchSeq /\ m.ok
          /\ gotLaunch' = TRUE
          /\ UNCHANGED <<pending, output, stop>>
       \/ /\ m.kind = "event" /\ m.what = "stopped"
          /\ stop' = m.seq
          /\ UNCHANGED <<pending, output, gotLaunch>>
       \/ /\ ~(m.kind = "response" /\ m.seq = launchSeq)
          /\ ~(m.kind = "event" /\ m.what = "stopped")
          /\ PutAside(m)
          /\ UNCHANGED <<gotLaunch, stop>>
    /\ UNCHANGED <<nextSeq, call, todo, waiting, launchSeq, taken, drained, toAdapter,
                   adapter>>

\* Both have come.
Collected ==
    /\ Doing("collect") /\ gotLaunch /\ stop # 0
    /\ taken' = Append(taken, stop)
    /\ Return
    /\ UNCHANGED <<nextSeq, pending, output, launchSeq, gotLaunch, stop, drained,
                   toAdapter, fromAdapter, adapter>>

\* The deadline: a stopped without the launch response is a success too.
CollectDeadline ==
    /\ Collecting
    /\ taken' = IF stop # 0 THEN Append(taken, stop) ELSE taken
    /\ Return
    /\ UNCHANGED <<nextSeq, pending, output, launchSeq, gotLaunch, stop, drained,
                   toAdapter, fromAdapter, adapter>>

\* Mutant: waiting for a response has no timeout.
GivesUpOnEventsOnly ==
    /\ Doing("await") /\ NoneBuffered(Wanted(What))
    /\ Return
    /\ UNCHANGED <<nextSeq, pending, output, launchSeq, gotLaunch, stop, taken, drained,
                   toAdapter, fromAdapter, adapter>>

\* The deadline of an await; the receive timeout of an ask, which every message
\* starts anew.
GivesUp ==
    /\ \/ Doing("await") /\ NoneBuffered(Wanted(What))
       \/ Doing("ask") /\ waiting # 0 /\ fromAdapter = <<>>
    /\ Return
    /\ UNCHANGED <<nextSeq, pending, output, launchSeq, gotLaunch, stop, taken, drained,
                   toAdapter, fromAdapter, adapter>>

\* The adapter's stdout is at its end.
ReceiveFails ==
    /\ ~alive /\ fromAdapter = <<>>
    /\ \/ Doing("ask") /\ waiting # 0
       \/ Doing("await") /\ NoneBuffered(Wanted(What))
       \/ Collecting
    /\ Return
    /\ UNCHANGED <<nextSeq, pending, output, launchSeq, gotLaunch, stop, taken, drained,
                   toAdapter, fromAdapter, adapter>>

SessionStep ==
    \/ Ask \/ Post \/ SendFails
    \/ \E m \in ToSet(fromAdapter) :
          \/ Answered(m) \/ NotAnswered(m) \/ TakeReceived(m) \/ NotAwaited(m)
          \/ CollectRefusal(m) \/ Collect(m)
    \/ TakeBuffered \/ CollectBuffered \/ Collected
    \/ CollectDeadline \/ GivesUp \/ ReceiveFails

----------------------------------------------------------------------------
(* The adapter, as DAP lets it behave. *)

Emit(name) == /\ Len(sent) < MaxSent
              /\ fromAdapter' = Append(fromAdapter, Event(name))
              /\ sent' = Append(sent, [what |-> name, after |-> handled])

\* A request is handled: launch may stay unanswered for a while.
Handle ==
    /\ alive /\ toAdapter # <<>>
    /\ LET r == toAdapter[1]
       IN /\ toAdapter' = Tail(toAdapter)
          /\ handled' = r.seq
          /\ greeted' = IF r.cmd = "initialize" /\ greeted = "no" THEN "due" ELSE greeted
          /\ \/ /\ r.cmd = "launch" /\ debuggee = "none"
                /\ owed' = r.seq
                /\ debuggee' = "starting"
                /\ UNCHANGED fromAdapter
             \/ \E ok \in BOOLEAN :
                /\ fromAdapter' = Append(fromAdapter, Response(r.cmd, r.seq, ok))
                /\ ok => (r.cmd = "continue" => debuggee = "stopped") /\ r.cmd # "launch"
                /\ ~ok => r.cmd \notin {"initialize", "setBreakpoints"}
                /\ debuggee' = CASE ok /\ r.cmd = "attach" -> "starting"
                                 [] ok /\ r.cmd = "continue" -> "running"
                                 [] ok /\ r.cmd = "configurationDone"
                                       /\ debuggee = "starting" -> "running"
                                 [] OTHER -> debuggee
                /\ UNCHANGED owed
    /\ UNCHANGED <<session, alive, sent>>

\* A launch is answered late; it may still fail while the debuggee gets under way.
AnswerLaunch ==
    /\ alive /\ owed # 0
    /\ \E ok \in BOOLEAN :
          /\ ok \/ debuggee \in {"starting", "running"}
          /\ fromAdapter' = Append(fromAdapter, Response("launch", owed, ok))
          /\ debuggee' = IF ok THEN debuggee ELSE "none"
    /\ owed' = 0
    /\ UNCHANGED <<session, toAdapter, alive, greeted, handled, sent>>

\* An adapter that answers the launch late may also let the debuggee run before it
\* answers configurationDone.
StartsEarly ==
    /\ alive /\ owed # 0 /\ debuggee = "starting"
    /\ toAdapter # <<>> /\ toAdapter[1].cmd = "configurationDone"
    /\ debuggee' = "running"
    /\ UNCHANGED <<session, toAdapter, fromAdapter, alive, greeted, owed, handled, sent>>

Greet ==
    /\ alive /\ greeted = "due"
    /\ Emit("initialized")
    /\ greeted' = "yes"
    /\ UNCHANGED <<session, toAdapter, alive, debuggee, owed, handled>>

\* What was printed before a stop may come after it.
Chatter(name) ==
    /\ alive /\ debuggee \in {"running", "stopped"}
    /\ Emit(name)
    /\ UNCHANGED <<session, toAdapter, alive, debuggee, greeted, owed, handled>>

Stops ==
    /\ alive /\ debuggee = "running"
    /\ Emit("stopped")
    /\ debuggee' = "stopped"
    /\ UNCHANGED <<session, toAdapter, alive, greeted, owed, handled>>

Terminates ==
    /\ alive /\ debuggee \in {"running", "stopped"}
    /\ Emit("terminated")
    /\ debuggee' = "ended"
    /\ UNCHANGED <<session, toAdapter, alive, greeted, owed, handled>>

Exits ==
    /\ alive
    /\ alive' = FALSE
    /\ UNCHANGED <<session, toAdapter, fromAdapter, debuggee, greeted, owed, handled, sent>>

AdapterStep == \/ Handle \/ AnswerLaunch \/ StartsEarly \/ Greet
               \/ \E name \in Noise : Chatter(name)
               \/ Stops \/ Terminates \/ Exits

----------------------------------------------------------------------------
Next == \/ \E op \in Ops : Call(op)
        \/ Drain
        \/ SessionStep
        \/ AdapterStep

Spec == Init /\ [][Next]_vars

\* The session's task runs and its timers fire; the adapter owes nothing.
FairSpec == Spec /\ WF_vars(SessionStep)
=============================================================================
