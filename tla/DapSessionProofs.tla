-------------------------- MODULE DapSessionProofs --------------------------
(***************************************************************************)
(* Proofs, for any buffer size, any operations and any number of requests  *)
(* and events, of the safety properties of MCDapSession.                   *)
(*                                                                         *)
(* Sending: what is under way for the request a caller waits for is of its *)
(* kind.  Order: what the session has of the adapter's events - buffered,  *)
(* collected by a launch, taken or printed - is older than what is on      *)
(* its way, and both are in the order they were sent.  Unique: what is     *)
(* buffered or collected has not been taken.                               *)
(* Budget: there are numbers enough for the requests that the running      *)
(* operation has still to send, so that everything keeps to its bounds.    *)
(***************************************************************************)
EXTENDS MCDapSession, SequenceTheorems, FiniteSetTheorems, TLAPS

Steps == ({"ask", "post"} \X Cmds)
         \cup ({"await"} \X {"initialized", "stopOrEnd", "stopped", "output"})
         \cup ({"collect"} \X {"launch"})
Reqs == [cmd : Cmds, seq : Nat]
Msg == {m \in [kind : {"response", "event", "request"}, what : Cmds \cup Events, seq : Nat, ok : BOOLEAN] :
          /\ m.kind = "response" <=> m.what \in Cmds
          /\ m.kind = "request" <=> m.what = "runInTerminal"}

Types ==
    /\ nextSeq \in Nat \ {0} /\ waiting \in Nat /\ launchSeq \in Nat /\ owed \in Nat
    /\ handled \in Nat /\ stop \in Nat
    /\ todo \in Seq(Steps) /\ (call = "none" <=> todo = <<>>)
    /\ pending \in Seq(Msg) /\ fromAdapter \in Seq(Msg)
    /\ toAdapter \in Seq(Reqs)
    /\ output \in Seq(Nat) /\ taken \in Seq(Nat) /\ drained \in Seq(Nat)
    /\ sent \in Seq([what : Events, after : Nat])

----------------------------------------------------------------------------
(* Sequences. *)

\* A sequence with one more at its end.
LEMMA OneMore ==
    ASSUME NEW S, NEW s \in Seq(S), NEW e \in S
    PROVE  /\ Append(s, e) \in Seq(S) /\ Len(Append(s, e)) = Len(s) + 1
           /\ ToSet(Append(s, e)) = ToSet(s) \cup {e}
           /\ Append(s, e)[Len(s) + 1] = e
           /\ \A n \in DOMAIN s : n \in DOMAIN Append(s, e) /\ Append(s, e)[n] = s[n]
           /\ \A n \in DOMAIN Append(s, e) : n \in DOMAIN s \/ n = Len(s) + 1
<1> DEFINE more == Append(s, e)
<1>1. /\ more \in Seq(S) /\ Len(more) = Len(s) + 1 /\ more[Len(s) + 1] = e
      /\ \A n \in DOMAIN s : n \in DOMAIN more /\ more[n] = s[n]
      /\ \A n \in DOMAIN more : n \in DOMAIN s \/ n = Len(s) + 1
  OBVIOUS
<1>2. Len(s) + 1 \in DOMAIN more
  BY <1>1
<1> HIDE DEF more
<1>3. ToSet(more) = ToSet(s) \cup {e}
  BY <1>1, <1>2 DEF ToSet
<1> QED
  BY <1>1, <1>3 DEF more

\* What a sequence holds.
LEMMA Members ==
    ASSUME NEW S, NEW s \in Seq(S)
    PROVE  ToSet(s) \subseteq S
  BY DEF ToSet

\* A sequence that is not empty: its head, and what is left.
LEMMA FirstAndRest ==
    ASSUME NEW S, NEW s \in Seq(S), s # <<>>
    PROVE  /\ s[1] \in S /\ 1 \in DOMAIN s /\ s[1] \in ToSet(s) /\ Len(s) \in Nat \ {0}
           /\ Tail(s) \in Seq(S) /\ Len(Tail(s)) = Len(s) - 1 /\ (Len(s) = 1 <=> Tail(s) = <<>>)
           /\ \A n \in DOMAIN Tail(s) : n \in Nat /\ n + 1 \in DOMAIN s /\ Tail(s)[n] = s[n + 1]
           /\ ToSet(s) = ToSet(Tail(s)) \cup {s[1]}
<1> DEFINE rest == Tail(s)
<1>1. /\ s[1] \in S /\ 1 \in DOMAIN s /\ Len(s) \in Nat \ {0}
      /\ rest \in Seq(S) /\ Len(rest) = Len(s) - 1
      /\ \A n \in DOMAIN rest : n \in Nat /\ n + 1 \in DOMAIN s /\ rest[n] = s[n + 1]
      /\ \A n \in DOMAIN s : n = 1 \/ (n - 1 \in DOMAIN rest /\ rest[n - 1] = s[n])
  OBVIOUS
<1>3. Len(s) = 1 <=> rest = <<>>
  BY <1>1, EmptySeq
<1> HIDE DEF rest
<1>2. ToSet(s) = ToSet(rest) \cup {s[1]}
  BY <1>1 DEF ToSet
<1> QED
  BY <1>1, <1>2, <1>3 DEF rest, ToSet

\* A sequence without its n-th element: the others, in their order.
LEMMA OneLess ==
    ASSUME NEW S, NEW s \in Seq(S), NEW n \in DOMAIN s
    PROVE  /\ RemoveAt(s, n) \in Seq(S) /\ Len(RemoveAt(s, n)) = Len(s) - 1
           /\ \A k \in DOMAIN RemoveAt(s, n) :
                 \/ k \in DOMAIN s /\ k < n /\ RemoveAt(s, n)[k] = s[k]
                 \/ k + 1 \in DOMAIN s /\ k >= n /\ RemoveAt(s, n)[k] = s[k + 1]
           /\ \A k \in DOMAIN s \ {n} : s[k] \in ToSet(RemoveAt(s, n))
<1> DEFINE less == RemoveAt(s, n)
           before == SubSeq(s, 1, n - 1)
           after == SubSeq(s, n + 1, Len(s))
<1>0. n \in 1..Len(s) /\ Len(s) \in Nat /\ DOMAIN s = 1..Len(s) /\ \A k \in 1..Len(s) : s[k] \in S
  OBVIOUS
<1>1. before \in Seq(S) /\ Len(before) = n - 1 /\ \A k \in 1..(n - 1) : before[k] = s[k]
  BY <1>0, SubSeqProperties
<1>2. after \in Seq(S) /\ Len(after) = Len(s) - n /\ \A k \in 1..(Len(s) - n) : after[k] = s[n + k]
  <2>1. \A k \in (n + 1)..Len(s) : s[k] \in S
    BY <1>0
  <2> QED
    BY <1>0, <2>1, SubSeqProperties
<1>3. less = before \o after
  BY DEF RemoveAt
<1> HIDE DEF before, after, less
<1>4. /\ less \in Seq(S) /\ Len(less) = Len(s) - 1 /\ DOMAIN less = 1..(Len(s) - 1)
      /\ \A k \in 1..(Len(s) - 1) : less[k] = IF k < n THEN s[k] ELSE s[k + 1]
  <2>1. /\ less \in Seq(S) /\ Len(less) = (n - 1) + (Len(s) - n)
        /\ \A k \in 1..((n - 1) + (Len(s) - n)) :
             less[k] = IF k <= n - 1 THEN before[k] ELSE after[k - (n - 1)]
    <3>1. /\ before \o after \in Seq(S) /\ Len(before \o after) = Len(before) + Len(after)
          /\ \A k \in 1..(Len(before) + Len(after)) :
               (before \o after)[k] = IF k <= Len(before) THEN before[k] ELSE after[k - Len(before)]
      BY <1>1, <1>2, ConcatProperties
    <3> QED
      BY <1>1, <1>2, <1>3, <3>1
  <2>2. \A k \in 1..(Len(s) - 1) : less[k] = IF k < n THEN s[k] ELSE s[k + 1]
    <3> TAKE k \in 1..(Len(s) - 1)
    <3>1. CASE k < n
      BY <1>0, <1>1, <2>1, <3>1
    <3>2. CASE k >= n
      <4>1. less[k] = after[k - (n - 1)] /\ k - (n - 1) \in 1..(Len(s) - n)
        BY <1>0, <2>1, <3>2
      <4>2. after[k - (n - 1)] = s[n + (k - (n - 1))] /\ n + (k - (n - 1)) = k + 1
        BY <1>0, <1>2, <4>1
      <4> QED
        BY <1>0, <3>2, <4>1, <4>2
    <3> QED
      BY <1>0, <3>1, <3>2
  <2> QED
    BY <1>0, <2>1, <2>2
<1>5. \A k \in DOMAIN s \ {n} : s[k] \in ToSet(less)
  <2> TAKE k \in DOMAIN s \ {n}
  <2>1. CASE k < n
    <3>1. k \in DOMAIN less /\ less[k] = s[k]
      BY <1>0, <1>4, <2>1
    <3> QED
      BY <3>1 DEF ToSet
  <2>2. CASE k > n
    <3>1. k - 1 \in DOMAIN less /\ less[k - 1] = s[k]
      BY <1>0, <1>4, <2>2
    <3> QED
      BY <3>1 DEF ToSet
  <2> QED
    BY <1>0, <2>1, <2>2
<1>6. \A k \in DOMAIN less : \/ k \in DOMAIN s /\ k < n /\ less[k] = s[k]
                             \/ k + 1 \in DOMAIN s /\ k >= n /\ less[k] = s[k + 1]
  <2> TAKE k \in DOMAIN less
  <2>1. k \in 1..(Len(s) - 1) /\ k \in Int
    BY <1>0, <1>4
  <2>2. CASE k < n
    BY <1>0, <1>4, <2>1, <2>2
  <2>3. CASE k >= n
    BY <1>0, <1>4, <2>1, <2>3
  <2> QED
    BY <1>0, <2>1, <2>2, <2>3
<1>7. less = RemoveAt(s, n)
  BY DEF less
<1> QED
  BY <1>4, <1>5, <1>6, <1>7

----------------------------------------------------------------------------
(* Types. *)

\* What the adapter says unasked is a message.
LEMMA EventMsg ==
    ASSUME sent \in Seq([what : Events, after : Nat]), NEW name \in Events
    PROVE  Event(name) \in Msg /\ Event(name).kind # "response"
<1>1. Event(name).kind = IF name = "runInTerminal" THEN "request" ELSE "event"
  BY DEF Event
<1>2. name \notin Cmds /\ Len(sent) + 1 \in Nat
  BY DEF Cmds, Events
<1> QED
  BY <1>1, <1>2 DEF Event, Msg

\* So is what it answers.
LEMMA ResponseMsg ==
    ASSUME NEW cmd \in Cmds, NEW s \in Nat, NEW ok \in BOOLEAN
    PROVE  Response(cmd, s, ok) \in Msg
<1>1. cmd # "runInTerminal"
  BY DEF Cmds
<1> QED
  BY <1>1 DEF Response, Msg

\* An operation has steps.
LEMMA Scripts ==
    ASSUME NEW op \in DOMAIN Script
    PROVE  Script[op] \in Seq(Steps) /\ Script[op] # <<>> /\ op # "none"
<1>1. /\ \A c \in {"initialize", "configurationDone", "setBreakpoints", "attach", "continue",
                   "threads", "pause", "query"} : <<"ask", c>> \in Steps
      /\ <<"post", "launch">> \in Steps
      /\ \A c \in {"initialized", "stopOrEnd", "stopped", "output"} : <<"await", c>> \in Steps
      /\ <<"collect", "launch">> \in Steps
  BY DEF Steps, Cmds
<1>2. DOMAIN Script = {"launch", "launchAt", "attach", "resume", "resumeAny", "pause", "request",
                       "waitStopped", "waitOutput"}
  BY DEF Script
<1>3. op # "none"
  BY <1>2
<1>4. CASE op = "launch"
  BY <1>1, <1>3, <1>4 DEF Script
<1>5. CASE op = "launchAt"
  BY <1>1, <1>3, <1>5 DEF Script
<1>6. CASE op = "attach"
  BY <1>1, <1>3, <1>6 DEF Script
<1>7. CASE op = "resume"
  BY <1>1, <1>3, <1>7 DEF Script
<1>8. CASE op = "resumeAny"
  BY <1>1, <1>3, <1>8 DEF Script
<1>9. CASE op = "pause"
  BY <1>1, <1>3, <1>9 DEF Script
<1>10. CASE op = "request"
  BY <1>1, <1>3, <1>10 DEF Script
<1>11. CASE op = "waitStopped"
  BY <1>1, <1>3, <1>11 DEF Script
<1>12. CASE op = "waitOutput"
  BY <1>1, <1>3, <1>12 DEF Script
<1> QED
  BY <1>2, <1>4, <1>5, <1>6, <1>7, <1>8, <1>9, <1>10, <1>11, <1>12

\* buffer_event keeps messages, and ids of output.
LEMMA Buffered ==
    ASSUME NEW m \in Msg, pending \in Seq(Msg), output \in Seq(Nat), MaxPending \in Nat \ {0}, Buffer(m)
    PROVE  pending' \in Seq(Msg) /\ output' \in Seq(Nat)
<1>1. m.seq \in Nat
  BY DEF Msg
<1>2. output' \in Seq(Nat)
  BY <1>1 DEF Buffer
<1>3. Len(pending) >= MaxPending => Tail(pending) \in Seq(Msg)
  BY FirstAndRest
<1> QED
  BY <1>2, <1>3 DEF Buffer

\* Every step of the session and of the adapter keeps these types.
LEMMA TypesStep ==
    ASSUME Types, [Next]_vars
    PROVE  Types'
<1> USE SessionConstants DEF Types
<1>1. ASSUME NEW op \in Ops, Call(op) PROVE Types'
  BY <1>1, Scripts DEF Call, adapter
<1>2. ASSUME Drain PROVE Types'
  BY <1>2 DEF Drain, adapter
<1>3. ASSUME todo # <<>> PROVE todo[1] \in Steps /\ Tail(todo) \in Seq(Steps) /\ (Len(todo) = 1 <=> Tail(todo) = <<>>)
  BY <1>3, FirstAndRest
<1>4. ASSUME Send, Doing("ask") \/ Doing("post") PROVE toAdapter' \in Seq(Reqs) /\ nextSeq' \in Nat \ {0}
  <2>1. What \in Cmds
    BY <1>3, <1>4 DEF Doing, What, Steps
  <2> QED
    BY <1>4, <2>1 DEF Send, Reqs
<1>5. ASSUME Advance, todo # <<>> PROVE todo' \in Seq(Steps) /\ (call' = "none" <=> todo' = <<>>) /\ waiting' \in Nat
  BY <1>3, <1>5 DEF Advance
<1>6. ASSUME Return PROVE todo' \in Seq(Steps) /\ (call' = "none" <=> todo' = <<>>) /\ waiting' \in Nat
  BY <1>6 DEF Return
<1>7. ASSUME NEW m, Receive(m) PROVE m \in Msg /\ fromAdapter' \in Seq(Msg)
  BY <1>7, FirstAndRest DEF Receive
<1>8. ASSUME NEW m \in Msg, PutAside(m) PROVE pending' \in Seq(Msg) /\ output' \in Seq(Nat)
  BY <1>8, Buffered DEF PutAside
<1>9. CASE Ask
  BY <1>4, <1>9 DEF Ask, adapter
<1>10. CASE Post
  BY <1>4, <1>5, <1>10 DEF Post, adapter, Doing
<1>11. CASE SendFails
  BY <1>6, <1>11 DEF SendFails, adapter
<1>12. ASSUME NEW m \in ToSet(fromAdapter), Answered(m) PROVE Types'
  BY <1>5, <1>6, <1>7, <1>12 DEF Answered, adapter, Doing
<1>13. ASSUME NEW m \in ToSet(fromAdapter), NotAnswered(m) PROVE Types'
  BY <1>7, <1>8, <1>13 DEF NotAnswered, adapter
<1>14. ASSUME NEW m \in ToSet(fromAdapter), TakeReceived(m) PROVE Types'
  <2>1. m.seq \in Nat /\ taken' = Append(taken, m.seq)
    BY <1>7, <1>14 DEF TakeReceived, Msg
  <2>2. taken' \in Seq(Nat)
    BY <2>1
  <2> QED
    BY <1>5, <1>7, <1>14, <2>2 DEF TakeReceived, adapter, Doing
<1>15. ASSUME NEW m \in ToSet(fromAdapter), NotAwaited(m) PROVE Types'
  BY <1>7, <1>8, <1>15 DEF NotAwaited, adapter
<1>16. ASSUME NEW m \in ToSet(fromAdapter), CollectRefusal(m) PROVE Types'
  BY <1>6, <1>7, <1>16 DEF CollectRefusal, adapter
<1>17. ASSUME NEW m \in ToSet(fromAdapter), Collect(m) PROVE Types'
  <2>1. m \in Msg /\ m.seq \in Nat /\ fromAdapter' \in Seq(Msg)
    <3>1. m \in Msg /\ fromAdapter' \in Seq(Msg)
      BY <1>7, <1>17 DEF Collect
    <3> QED
      BY <3>1 DEF Msg
  <2>2. pending' \in Seq(Msg) /\ output' \in Seq(Nat) /\ stop' \in Nat
    BY <1>8, <1>17, <2>1 DEF Collect
  <2> QED
    BY <1>17, <2>1, <2>2 DEF Collect, adapter
<1>18. ASSUME NEW n \in DOMAIN pending PROVE pending[n].seq \in Nat /\ RemoveAt(pending, n) \in Seq(Msg)
  <2>1. pending[n] \in Msg
    OBVIOUS
  <2> QED
    BY <2>1, OneLess DEF Msg
<1>19. CASE TakeBuffered
  <2>1. PICK n \in DOMAIN pending :
          /\ Doing("await") /\ pending' = RemoveAt(pending, n) /\ taken' = Append(taken, pending[n].seq) /\ Advance
          /\ UNCHANGED <<nextSeq, output, launchSeq, gotLaunch, stop, drained, toAdapter, fromAdapter, adapter>>
    BY <1>19 DEF TakeBuffered
  <2>2. pending' \in Seq(Msg) /\ taken' \in Seq(Nat)
    BY <1>18, <2>1
  <2> QED
    BY <1>5, <2>1, <2>2 DEF adapter, Doing
<1>20. CASE CollectBuffered
  BY <1>18, <1>20 DEF CollectBuffered, adapter
<1>21. CASE Collected
  BY <1>6, <1>21 DEF Collected, adapter
<1>22. CASE CollectDeadline
  BY <1>6, <1>22 DEF CollectDeadline, adapter
<1>23. CASE GivesUp
  BY <1>6, <1>23 DEF GivesUp, adapter
<1>24. CASE ReceiveFails
  BY <1>6, <1>24 DEF ReceiveFails, adapter
<1>25. ASSUME NEW name \in Events, Emit(name)
       PROVE  fromAdapter' \in Seq(Msg) /\ sent' \in Seq([what : Events, after : Nat])
  <2>1. Event(name) \in Msg /\ [what |-> name, after |-> handled] \in [what : Events, after : Nat]
    BY EventMsg
  <2> QED
    BY <1>25, <2>1 DEF Emit
<1>26. CASE Handle
  <2> DEFINE r == toAdapter[1]
  <2>1. toAdapter # <<>> /\ toAdapter' = Tail(toAdapter) /\ handled' = r.seq
    BY <1>26 DEF Handle
  <2>2. r.cmd \in Cmds /\ r.seq \in Nat /\ toAdapter' \in Seq(Reqs)
    <3>1. toAdapter[1] \in Reqs /\ Tail(toAdapter) \in Seq(Reqs)
      BY <2>1, FirstAndRest
    <3> QED
      BY <2>1, <3>1 DEF Reqs
  <2>3. \A ok \in BOOLEAN : Response(r.cmd, r.seq, ok) \in Msg
    BY <2>2, ResponseMsg
  <2>4. /\ fromAdapter' = fromAdapter \/ \E ok \in BOOLEAN : fromAdapter' = Append(fromAdapter, Response(r.cmd, r.seq, ok))
        /\ owed' = owed \/ owed' = r.seq
        /\ UNCHANGED <<session, sent>>
    BY <1>26 DEF Handle
  <2> HIDE DEF r
  <2>5. fromAdapter' \in Seq(Msg)
    <3>1. CASE fromAdapter' = fromAdapter
      BY <3>1
    <3>2. ASSUME NEW ok \in BOOLEAN, fromAdapter' = Append(fromAdapter, Response(r.cmd, r.seq, ok))
          PROVE  fromAdapter' \in Seq(Msg)
      BY <2>3, <3>2
    <3> QED
      BY <2>4, <3>1, <3>2
  <2> QED
    BY <2>1, <2>2, <2>4, <2>5 DEF session
<1>27. CASE AnswerLaunch
  <2>1. \A ok \in BOOLEAN : Response("launch", owed, ok) \in Msg
    BY ResponseMsg DEF Cmds
  <2> QED
    <3>1. PICK ok \in BOOLEAN :
             /\ fromAdapter' = Append(fromAdapter, Response("launch", owed, ok)) /\ owed' = 0
             /\ UNCHANGED <<session, toAdapter, handled, sent>>
      BY <1>27 DEF AnswerLaunch
    <3>2. fromAdapter' \in Seq(Msg)
      BY <2>1, <3>1, OneMore
    <3> QED
      BY <3>1, <3>2 DEF session
<1>28. CASE StartsEarly \/ Exits
  BY <1>28 DEF StartsEarly, Exits, session
<1>29. CASE Greet
  BY <1>25, <1>29 DEF Greet, session, Events
<1>30. ASSUME NEW name \in Noise, Chatter(name) PROVE Types'
  BY <1>25, <1>30 DEF Chatter, session, Events
<1>31. CASE Stops \/ Terminates
  BY <1>25, <1>31 DEF Stops, Terminates, session, Events
<1>32. CASE UNCHANGED vars
  BY <1>32 DEF vars, session, adapter
<1> QED
  BY <1>1, <1>2, <1>9, <1>10, <1>11, <1>12, <1>13, <1>14, <1>15, <1>16, <1>17, <1>19, <1>20, <1>21, <1>22,
     <1>23, <1>24, <1>26, <1>27, <1>28, <1>29, <1>30, <1>31, <1>32 DEF Next, SessionStep, AdapterStep
----------------------------------------------------------------------------
(* Requests and their responses. *)

\* What is under way for the request a caller waits for is of its kind.
Sending ==
    /\ \A r \in ToSet(toAdapter) : r.seq < nextSeq
    /\ \A m \in ToSet(fromAdapter) : m.kind = "response" => m.seq < nextSeq
    /\ owed < nextSeq /\ waiting < nextSeq
    /\ waiting # 0 =>
         /\ Doing("ask")
         /\ \A r \in ToSet(toAdapter) : r.seq = waiting => r.cmd = What
         /\ \A m \in ToSet(fromAdapter) : m.kind = "response" /\ m.seq = waiting => m.what = What
         /\ owed = waiting => What = "launch"

\* What is under way with the number that a caller waits for stays of its kind.
LEMMA SendingStep ==
    ASSUME Types, Sending, [Next]_vars
    PROVE  Sending'
<1> USE DEF Types
<1>1. ASSUME UNCHANGED <<nextSeq, waiting, todo, toAdapter, owed>>, ToSet(fromAdapter') \subseteq ToSet(fromAdapter)
      PROVE  Sending'
  BY <1>1 DEF Sending, Doing, What
<1>2. ASSUME nextSeq' \in Nat, nextSeq' >= nextSeq, waiting' = 0, owed' = owed,
             \A r \in ToSet(toAdapter') : r.seq < nextSeq',
             ToSet(fromAdapter') \subseteq ToSet(fromAdapter)
      PROVE  Sending'
  <2>1. \A m \in ToSet(fromAdapter) : m.kind = "response" => m.seq \in Nat
    BY DEF ToSet, Msg
  <2> QED
    BY <1>2, <2>1 DEF Sending
<1>3. \A r \in ToSet(toAdapter) : r.cmd \in Cmds /\ r.seq \in Nat /\ r.seq < nextSeq
  <2>1. ToSet(toAdapter) \subseteq Reqs
    BY Members
  <2> QED
    BY <2>1 DEF Sending, Reqs
<1>4. ASSUME NEW m, Receive(m) PROVE ToSet(fromAdapter') \subseteq ToSet(fromAdapter) /\ m \in ToSet(fromAdapter)
  BY <1>4, FirstAndRest DEF Receive
<1>5. ASSUME Send, Doing("ask") \/ Doing("post")
      PROVE  /\ nextSeq' = nextSeq + 1
             /\ ToSet(toAdapter') = ToSet(toAdapter) \cup {[cmd |-> What, seq |-> nextSeq]}
  <2> DEFINE r == [cmd |-> What, seq |-> nextSeq]
  <2>1. r \in Reqs
    <3>1. todo[1] \in Steps /\ todo[1][1] \in {"ask", "post"}
      BY <1>5, FirstAndRest DEF Doing
    <3>2. What \in Cmds
      BY <3>1 DEF What, Steps
    <3> QED
      BY <3>2 DEF Reqs
  <2> HIDE DEF r
  <2>2. ToSet(Append(toAdapter, r)) = ToSet(toAdapter) \cup {r}
    BY <2>1, OneMore
  <2> QED
    BY <1>5, <2>2 DEF Send, r
<1>6. ASSUME NEW op \in Ops, Call(op) PROVE Sending'
  <2>1. waiting = 0
    BY <1>6 DEF Call, Sending, Doing
  <2> QED
    BY <1>2, <1>3, <1>6, <2>1 DEF Call, adapter
<1>7. CASE Drain \/ CollectBuffered
  BY <1>1, <1>7 DEF Drain, CollectBuffered, adapter
<1>8. CASE Ask
  <2> DEFINE r == [cmd |-> What, seq |-> nextSeq]
  <2>1. /\ nextSeq' = nextSeq + 1 /\ waiting' = nextSeq /\ Doing("ask")
        /\ UNCHANGED <<todo, fromAdapter, owed>>
        /\ ToSet(toAdapter') = ToSet(toAdapter) \cup {r}
    BY <1>5, <1>8 DEF Ask, adapter
  <2>2. \A m \in ToSet(fromAdapter) : m.kind = "response" => m.seq \in Nat /\ m.seq < nextSeq
    BY DEF Sending, ToSet, Msg
  <2>3. owed < nextSeq
    BY DEF Sending
  <2>4. Doing("ask")' /\ What' = What
    BY <2>1 DEF Doing, What
  <2> QED
    BY <1>3, <2>1, <2>2, <2>3, <2>4 DEF Sending
<1>9. CASE Post
  <2>1. /\ nextSeq' = nextSeq + 1 /\ waiting' = 0 /\ UNCHANGED <<fromAdapter, owed>>
        /\ ToSet(toAdapter') = ToSet(toAdapter) \cup {[cmd |-> What, seq |-> nextSeq]}
    BY <1>5, <1>9 DEF Post, adapter, Advance
  <2>2. \A r \in ToSet(toAdapter') : r.seq < nextSeq'
    BY <1>3, <2>1
  <2> QED
    BY <1>2, <2>1, <2>2
<1>10. CASE SendFails
  BY <1>2, <1>3, <1>10 DEF SendFails, Return, adapter
<1>11. ASSUME NEW m \in ToSet(fromAdapter), Answered(m) \/ TakeReceived(m) \/ CollectRefusal(m) PROVE Sending'
  BY <1>2, <1>3, <1>4, <1>11 DEF Answered, TakeReceived, CollectRefusal, Return, Advance, adapter
<1>12. ASSUME NEW m \in ToSet(fromAdapter), NotAnswered(m) \/ NotAwaited(m) \/ Collect(m) PROVE Sending'
  BY <1>1, <1>4, <1>12 DEF NotAnswered, NotAwaited, Collect, adapter
<1>13. CASE TakeBuffered
  BY <1>2, <1>3, <1>13 DEF TakeBuffered, Advance, adapter
<1>14. CASE Collected \/ CollectDeadline \/ GivesUp \/ ReceiveFails
  <2>1. waiting' = 0 /\ UNCHANGED <<nextSeq, owed, toAdapter, fromAdapter>>
    BY <1>14 DEF Collected, CollectDeadline, GivesUp, ReceiveFails, Return, adapter
  <2> QED
    BY <1>2, <1>3, <2>1
<1>15. CASE Handle
  <2> DEFINE r == toAdapter[1]
  <2>1. /\ toAdapter # <<>> /\ toAdapter' = Tail(toAdapter)
        /\ owed' = owed \/ (owed' = r.seq /\ r.cmd = "launch")
        /\ \/ fromAdapter' = fromAdapter
           \/ \E ok \in BOOLEAN : fromAdapter' = Append(fromAdapter, Response(r.cmd, r.seq, ok))
        /\ UNCHANGED <<nextSeq, waiting, todo>>
    BY <1>15 DEF Handle, session
  <2>2. r \in ToSet(toAdapter) /\ ToSet(toAdapter') \subseteq ToSet(toAdapter)
    BY <2>1, FirstAndRest
  <2>3. r.cmd \in Cmds /\ r.seq \in Nat /\ r.seq < nextSeq
    BY <1>3, <2>2
  <2>4. \A ok \in BOOLEAN : Response(r.cmd, r.seq, ok) \in Msg
    BY <2>3, ResponseMsg
  <2> HIDE DEF r
  <2>5. \A m \in ToSet(fromAdapter') :
           m \in ToSet(fromAdapter) \/ (m.what = r.cmd /\ m.seq = r.seq)
    <3>1. CASE fromAdapter' = fromAdapter
      BY <3>1
    <3>2. ASSUME NEW ok \in BOOLEAN, fromAdapter' = Append(fromAdapter, Response(r.cmd, r.seq, ok))
          PROVE  \A m \in ToSet(fromAdapter') : m \in ToSet(fromAdapter) \/ (m.what = r.cmd /\ m.seq = r.seq)
      <4>1. ToSet(fromAdapter') = ToSet(fromAdapter) \cup {Response(r.cmd, r.seq, ok)}
        BY <2>4, <3>2, OneMore
      <4> QED
        BY <4>1 DEF Response
    <3> QED
      BY <2>1, <3>1, <3>2
  <2> QED
    BY <2>1, <2>2, <2>3, <2>5 DEF Sending, Doing, What
<1>16. CASE AnswerLaunch
  <2>0. PICK ok \in BOOLEAN : fromAdapter' = Append(fromAdapter, Response("launch", owed, ok))
    BY <1>16 DEF AnswerLaunch
  <2>1. Response("launch", owed, ok) \in Msg
    BY ResponseMsg DEF Cmds
  <2>2. \A m \in ToSet(fromAdapter') :
           m \in ToSet(fromAdapter) \/ (m.what = "launch" /\ m.seq = owed)
    BY <2>0, <2>1, OneMore DEF Response
  <2>3. owed' = 0 /\ UNCHANGED <<nextSeq, waiting, todo, toAdapter>>
    BY <1>16 DEF AnswerLaunch, session
  <2> QED
    BY <2>2, <2>3 DEF Sending, Doing, What
<1>17. CASE StartsEarly \/ Exits \/ UNCHANGED vars
  BY <1>1, <1>17 DEF StartsEarly, Exits, session, vars, adapter
<1>18. ASSUME NEW name \in Events, Emit(name), UNCHANGED <<session, toAdapter, owed>> PROVE Sending'
  <2>1. Event(name) \in Msg /\ Event(name).kind # "response"
    BY EventMsg
  <2> DEFINE e == Event(name)
  <2> HIDE DEF e
  <2>2. ToSet(fromAdapter') = ToSet(fromAdapter) \cup {e} /\ e.kind # "response"
    BY <1>18, <2>1, OneMore DEF Emit, e
  <2> QED
    BY <1>18, <2>2 DEF session, Sending, Doing, What
<1>19. CASE Greet \/ Stops \/ Terminates \/ \E name \in Noise : Chatter(name)
  <2>1. Noise \subseteq Events /\ {"initialized", "stopped", "terminated"} \subseteq Events
    BY SessionConstants DEF Events
  <2> QED
    BY <1>18, <1>19, <2>1 DEF Greet, Stops, Terminates, Chatter
<1> QED
  BY <1>6, <1>7, <1>8, <1>9, <1>10, <1>11, <1>12, <1>13, <1>14, <1>15, <1>16, <1>17, <1>19 DEF Next, SessionStep, AdapterStep
\* A request is answered by the adapter's response to it, however many earlier ones gave
\* up waiting: whatever has its seq has its command.
THEOREM AnswersItsRequest == Spec => ResponseIsForItsRequest
<1>1. Init => Types /\ Sending
  BY EmptySeq DEF Init, Types, Sending, ToSet
<1>2. Types /\ Sending /\ [Next]_vars => Types' /\ Sending'
  BY TypesStep, SendingStep
<1>3. Types /\ Sending /\ [Next]_vars
      => [Doing("ask") /\ waiting # 0 /\ todo' # <<>> /\ todo' = Tail(todo)
            => fromAdapter[1].kind = "response" /\ fromAdapter[1].what = What]_vars
  <2> SUFFICES ASSUME Types, Sending, Next, Doing("ask"), waiting # 0, todo' # <<>>, todo' = Tail(todo)
               PROVE  fromAdapter[1].kind = "response" /\ fromAdapter[1].what = What
    OBVIOUS
  <2>1. todo' # todo
    <3> SUFFICES ASSUME todo' = todo PROVE FALSE
      OBVIOUS
    <3>1. Len(Tail(todo)) = Len(todo) - 1 /\ Len(todo) \in Nat
      BY FirstAndRest DEF Doing, Types
    <3>2. Tail(todo) = todo
      OBVIOUS
    <3>3. \A k \in Nat : k # k - 1
      OBVIOUS
    <3> QED
      BY <3>1, <3>2, <3>3
  <2>2. ~\E op \in Ops : Call(op)
    BY DEF Call, Types, Doing
  <2>3. \E m \in ToSet(fromAdapter) : Answered(m)
    BY <2>1, <2>2 DEF Next, SessionStep, AdapterStep, Drain, Ask, Post, SendFails, NotAnswered, TakeReceived,
          NotAwaited, CollectRefusal, Collect, TakeBuffered, CollectBuffered, Collected, CollectDeadline, GivesUp,
          ReceiveFails, Return, Collecting, Doing, Handle, AnswerLaunch, StartsEarly, Greet, Chatter, Stops,
          Terminates, Exits, session
  <2>4. PICK m \in ToSet(fromAdapter) : m = fromAdapter[1] /\ Answers(m)
    BY <2>3 DEF Answered, Receive
  <2> QED
    BY <2>4 DEF Sending, Answers
<1> QED
  BY <1>1, <1>2, <1>3, PTL DEF Spec, ResponseIsForItsRequest
----------------------------------------------------------------------------
(* The order of events. *)

Unasked(s) == {m \in ToSet(s) : m.kind # "response"}

\* The messages of s are what the adapter has sent ...
Known(s) == \A m \in Unasked(s) : m.seq \in DOMAIN sent /\ m.what = sent[m.seq].what

\* ... in the order it sent them.
Ascending(s) == \A j, k \in DOMAIN s :
    j < k /\ s[j].kind # "response" /\ s[k].kind # "response" => s[j].seq < s[k].seq

\* Ids of what the session has, or has had, of them.
Got == ToSet(taken) \cup ToSet(output) \cup ToSet(drained) \cup ({stop} \ {0})
         \cup {m.seq : m \in ToSet(pending)}

\* All of that is older than what is still on its way.
Order ==
    /\ Known(fromAdapter) /\ Ascending(fromAdapter)
    /\ Known(pending) /\ Ascending(pending) /\ \A m \in ToSet(pending) : m.kind = "event"
    /\ Got \subseteq DOMAIN sent
    /\ \A id \in Got : \A m \in Unasked(fromAdapter) : id < m.seq

\* What is buffered or collected has not been taken, nor is it both.
Unique ==
    /\ \A m \in ToSet(pending) : m.seq \notin ToSet(taken)
    /\ Doing("collect") /\ stop # 0 => stop \notin ToSet(taken) /\ \A m \in ToSet(pending) : m.seq # stop
    /\ todo # <<>> /\ ~Doing("collect") => stop = 0

\* Without one of them, events are as ordered as before.
LEMMA AscendingLess ==
    ASSUME NEW s \in Seq(Msg), Ascending(s), NEW n \in DOMAIN s
    PROVE  /\ Ascending(RemoveAt(s, n)) /\ ToSet(RemoveAt(s, n)) \subseteq ToSet(s)
           /\ \A m \in Unasked(RemoveAt(s, n)) : s[n].kind # "response" => m.seq # s[n].seq
           /\ \A m \in Unasked(RemoveAt(s, n)) :
                 \/ \E k \in 1..(n - 1) : m = s[k]
                 \/ s[n].kind # "response" => m.seq > s[n].seq
<1> DEFINE less == RemoveAt(s, n)
<1>1. /\ less \in Seq(Msg)
      /\ \A k \in DOMAIN less : \/ k \in DOMAIN s /\ k < n /\ less[k] = s[k]
                                \/ k + 1 \in DOMAIN s /\ k >= n /\ less[k] = s[k + 1]
  BY OneLess
<1>2. DOMAIN s \subseteq Nat /\ DOMAIN less \subseteq Nat /\ \A k \in DOMAIN s : s[k].seq \in Nat
  <2>1. DOMAIN s \subseteq Nat /\ DOMAIN less \subseteq Nat /\ \A k \in DOMAIN s : s[k] \in Msg
    BY <1>1
  <2> QED
    BY <2>1 DEF Msg
<1> HIDE DEF less
<1>3. Ascending(less)
  <2> SUFFICES ASSUME NEW j \in DOMAIN less, NEW k \in DOMAIN less, j < k,
                      less[j].kind # "response", less[k].kind # "response"
               PROVE  less[j].seq < less[k].seq
    BY DEF Ascending
  <2>1. \E a, b \in DOMAIN s : a < b /\ less[j] = s[a] /\ less[k] = s[b]
    <3>1. CASE k < n
      BY <1>1, <1>2, <3>1
    <3>2. CASE j >= n
      BY <1>1, <1>2, <3>2
    <3>3. CASE j < n /\ k >= n
      BY <1>1, <1>2, <3>3
    <3> QED
      BY <1>2, <3>1, <3>2, <3>3
  <2> QED
    BY <2>1 DEF Ascending
<1>4. ToSet(less) \subseteq ToSet(s)
  BY <1>1 DEF ToSet
<1>5. ASSUME NEW m \in Unasked(less)
      PROVE  /\ s[n].kind # "response" => m.seq # s[n].seq
             /\ (\E k \in 1..(n - 1) : m = s[k]) \/ (s[n].kind # "response" => m.seq > s[n].seq)
  <2>1. PICK k \in DOMAIN less : m = less[k]
    BY <1>5 DEF Unasked, ToSet
  <2>2. m.kind # "response"
    BY <1>5 DEF Unasked
  <2>3. CASE k \in DOMAIN s /\ k < n /\ m = s[k]
    <3>1. s[n].kind # "response" => s[k].seq < s[n].seq
      BY <2>2, <2>3 DEF Ascending
    <3>2. k \in 1..(n - 1)
      BY <2>3
    <3> QED
      BY <1>2, <2>3, <3>1, <3>2
  <2>4. CASE k + 1 \in DOMAIN s /\ k >= n /\ m = s[k + 1]
    <3>1. s[n].kind # "response" => s[n].seq < s[k + 1].seq
      BY <1>2, <2>2, <2>4 DEF Ascending
    <3> QED
      BY <1>2, <2>4, <3>1
  <2> QED
    BY <1>1, <2>1, <2>3, <2>4
<1> QED
  BY <1>3, <1>4, <1>5 DEF less

\* So are those behind the first, ...
LEMMA AscendingRest ==
    ASSUME NEW s \in Seq(Msg), Ascending(s), s # <<>>
    PROVE  /\ Ascending(Tail(s)) /\ ToSet(Tail(s)) \subseteq ToSet(s)
           /\ s[1].kind # "response" => \A m \in Unasked(Tail(s)) : s[1].seq < m.seq
<1> DEFINE rest == Tail(s)
<1>1. /\ rest \in Seq(Msg) /\ 1 \in DOMAIN s /\ ToSet(rest) \subseteq ToSet(s)
      /\ \A n \in DOMAIN rest : n \in Nat \ {0} /\ n + 1 \in DOMAIN s /\ rest[n] = s[n + 1]
  BY FirstAndRest
<1> HIDE DEF rest
<1>2. Ascending(rest)
  <2> SUFFICES ASSUME NEW j \in DOMAIN rest, NEW k \in DOMAIN rest, j < k,
                      rest[j].kind # "response", rest[k].kind # "response"
               PROVE  rest[j].seq < rest[k].seq
    BY DEF Ascending
  <2>1. j + 1 < k + 1
    BY <1>1
  <2> QED
    BY <1>1, <2>1 DEF Ascending
<1>3. ASSUME s[1].kind # "response", NEW m \in Unasked(rest) PROVE s[1].seq < m.seq
  <2>1. PICK n \in DOMAIN rest : m = rest[n]
    BY <1>3 DEF Unasked, ToSet
  <2>2. 1 < n + 1 /\ m = s[n + 1] /\ n + 1 \in DOMAIN s
    BY <1>1, <2>1
  <2> QED
    BY <1>1, <1>3, <2>2 DEF Unasked, Ascending
<1> QED
  BY <1>1, <1>2, <1>3 DEF rest

\* ... and those with a newer one at the end.
LEMMA AscendingMore ==
    ASSUME NEW s \in Seq(Msg), Ascending(s), NEW e \in Msg,
           e.kind = "response" \/ \A m \in Unasked(s) : m.seq < e.seq
    PROVE  Ascending(Append(s, e)) /\ Unasked(Append(s, e)) = Unasked(s) \cup {m \in {e} : m.kind # "response"}
<1> DEFINE more == Append(s, e)
<1>1. /\ ToSet(more) = ToSet(s) \cup {e} /\ more[Len(s) + 1] = e
      /\ \A n \in DOMAIN s : n \in DOMAIN more /\ more[n] = s[n]
      /\ \A n \in DOMAIN more : n \in DOMAIN s \/ n = Len(s) + 1
  BY OneMore
<1>2. Len(s) \in Nat /\ \A n \in DOMAIN s : n \in Nat /\ n < Len(s) + 1 /\ s[n] \in ToSet(s)
  BY DEF ToSet
<1> HIDE DEF more
<1>3. Unasked(more) = Unasked(s) \cup {m \in {e} : m.kind # "response"}
  BY <1>1 DEF Unasked
<1>4. Ascending(more)
  <2> SUFFICES ASSUME NEW j \in DOMAIN more, NEW k \in DOMAIN more, j < k,
                      more[j].kind # "response", more[k].kind # "response"
               PROVE  more[j].seq < more[k].seq
    BY DEF Ascending
  <2>1. j \in DOMAIN s
    BY <1>1, <1>2
  <2>2. CASE k \in DOMAIN s
    BY <1>1, <2>1, <2>2 DEF Ascending
  <2>3. CASE k = Len(s) + 1
    <3>1. more[k] = e /\ more[j] \in Unasked(s)
      BY <1>1, <1>2, <2>1, <2>3 DEF Unasked
    <3> QED
      BY <3>1
  <2> QED
    BY <1>1, <2>2, <2>3
<1> QED
  BY <1>3, <1>4 DEF more

\* What a step does with events: nothing, ...
Rests == UNCHANGED <<sent, fromAdapter, pending, taken, output, drained>>

\* ... receive a message that is none, ...
Drops == /\ fromAdapter # <<>> /\ fromAdapter[1].kind # "event"
         /\ fromAdapter' = Tail(fromAdapter)
         /\ UNCHANGED <<sent, pending, taken, output, drained, stop>>

Receives == /\ fromAdapter # <<>> /\ fromAdapter[1].kind = "event"
            /\ fromAdapter' = Tail(fromAdapter)

\* ... buffer the next one, or give it to a wait or to the launch that collects it, ...
Stores == Receives /\ Buffer(fromAdapter[1]) /\ UNCHANGED <<sent, taken, drained, stop>>

Takes == /\ Receives /\ Doing("await")
         /\ fromAdapter[1].what \in Wanted(What) /\ NoneBuffered(Wanted(What))
         /\ taken' = Append(taken, fromAdapter[1].seq)
         /\ UNCHANGED <<sent, pending, output, drained, stop>>

Collects == /\ Receives /\ Doing("collect") /\ fromAdapter[1].what = "stopped"
            /\ stop' = fromAdapter[1].seq
            /\ UNCHANGED <<todo, sent, pending, taken, output, drained>>

\* ... do so with the n-th buffered one, ...
TakesBuffered(n) == /\ Doing("await") /\ FirstBuffered(n, Wanted(What))
                    /\ pending' = RemoveAt(pending, n)
                    /\ taken' = Append(taken, pending[n].seq)
                    /\ UNCHANGED <<sent, fromAdapter, output, drained, stop>>

CollectsBuffered(n) == /\ Doing("collect") /\ stop = 0
                       /\ pending' = RemoveAt(pending, n)
                       /\ stop' = pending[n].seq
                       /\ UNCHANGED <<todo, sent, fromAdapter, taken, output, drained>>

\* ... or return what was collected; or the adapter sends something.
Delivers == /\ Doing("collect") /\ stop # 0 /\ todo' = <<>>
            /\ taken' = Append(taken, stop)
            /\ UNCHANGED <<sent, fromAdapter, pending, output, drained, stop>>

Sends == \/ \E e \in Msg : /\ e.kind = "response" /\ fromAdapter' = Append(fromAdapter, e)
                           /\ UNCHANGED <<session, sent>>
         \/ \E name \in Events : Emit(name) /\ UNCHANGED session

\* The steps of the script.
Stages == \/ todo' = <<>> /\ stop' = stop
          \/ stop' = 0
          \/ todo' = todo /\ (stop' = stop \/ Doing("collect"))
          \/ todo # <<>> /\ ~Doing("collect") /\ todo' = Tail(todo) /\ stop' = stop

\* What a step may do with events.
LEMMA Moves ==
    ASSUME Types, [Next]_vars
    PROVE  /\ Stages
           /\ \/ Rests /\ stop' \in {stop, 0}
              \/ Drops \/ Stores \/ Takes \/ Collects
              \/ \E n \in DOMAIN pending : TakesBuffered(n) \/ CollectsBuffered(n)
              \/ Delivers \/ Drain \/ Sends
<1> USE DEF Stages
<1>0. todo # <<>> => Len(todo) # 0
  BY EmptySeq DEF Types
<1>1. ASSUME NEW m, Receive(m)
      PROVE  m \in Msg /\ m = fromAdapter[1] /\ fromAdapter # <<>> /\ fromAdapter' = Tail(fromAdapter)
  BY <1>1, FirstAndRest DEF Receive, Types
<1>2. ASSUME NEW m, Receive(m), PutAside(m), UNCHANGED <<sent, taken, drained, stop>> PROVE Drops \/ Stores
  BY <1>1, <1>2 DEF PutAside, Drops, Stores, Receives
<1>3. ASSUME NEW m, Receive(m), m.kind = "response", UNCHANGED <<sent, pending, taken, output, drained, stop>> PROVE Drops
  BY <1>1, <1>3 DEF Drops
<1>4. CASE \E op \in Ops : Call(op)
  BY <1>4 DEF Call, adapter, Rests
<1>5. CASE Drain
  BY <1>5 DEF Drain
<1>6. CASE Ask \/ Post \/ SendFails \/ GivesUp \/ ReceiveFails
  BY <1>6 DEF Ask, Post, SendFails, GivesUp, ReceiveFails, Advance, Return, adapter, Rests, Doing
<1>7. ASSUME NEW m, Answered(m) PROVE Stages /\ Drops
  <2>1. Receive(m) /\ m.kind = "response" /\ UNCHANGED <<sent, pending, taken, output, drained, stop>>
    BY <1>7 DEF Answered, Answers, adapter
  <2>2. Stages
    BY <1>7 DEF Answered, Advance, Return, Doing
  <2> QED
    BY <1>3, <2>1, <2>2
<1>8. ASSUME NEW m, NotAnswered(m) \/ NotAwaited(m) PROVE Stages /\ (Drops \/ Stores)
  BY <1>2, <1>8 DEF NotAnswered, NotAwaited, adapter
<1>9. ASSUME NEW m, TakeReceived(m) PROVE Stages /\ Takes
  BY <1>1, <1>9 DEF TakeReceived, Advance, adapter, Doing, Takes, Receives
<1>10. ASSUME NEW m, CollectRefusal(m) PROVE Stages /\ Drops
  BY <1>3, <1>10 DEF CollectRefusal, Return, adapter
<1>11. ASSUME NEW m, Collect(m) PROVE Stages /\ (Drops \/ Stores \/ Collects)
  <2>1. Receive(m) /\ Doing("collect") /\ todo' = todo /\ UNCHANGED <<sent, taken, drained>>
    BY <1>11 DEF Collect, Collecting, adapter
  <2>2. CASE m.kind = "response" /\ UNCHANGED <<pending, output, stop>>
    BY <1>3, <2>1, <2>2
  <2>3. CASE m.kind = "event" /\ m.what = "stopped" /\ stop' = m.seq /\ UNCHANGED <<pending, output>>
    BY <1>1, <2>1, <2>3 DEF Collects, Receives
  <2>4. CASE PutAside(m) /\ UNCHANGED stop
    BY <1>2, <2>1, <2>4
  <2> QED
    BY <1>11, <2>2, <2>3, <2>4 DEF Collect
<1>12. CASE TakeBuffered
  <2>1. PICK n \in DOMAIN pending :
          /\ Doing("await") /\ FirstBuffered(n, Wanted(What)) /\ pending' = RemoveAt(pending, n)
          /\ taken' = Append(taken, pending[n].seq) /\ Advance
          /\ UNCHANGED <<output, stop, drained, fromAdapter, sent>>
    BY <1>12 DEF TakeBuffered, adapter
  <2> QED
    BY <2>1 DEF TakesBuffered, Advance, Doing
<1>13. CASE CollectBuffered
  <2>1. PICK n \in DOMAIN pending :
          /\ Doing("collect") /\ stop = 0 /\ pending' = RemoveAt(pending, n) /\ stop' = pending[n].seq
          /\ UNCHANGED <<output, todo, taken, drained, fromAdapter, sent>>
    BY <1>13 DEF CollectBuffered, adapter
  <2> QED
    BY <2>1 DEF CollectsBuffered
<1>14. CASE Collected \/ CollectDeadline
  BY <1>14 DEF Collected, CollectDeadline, Collecting, Return, adapter, Rests, Delivers
<1>15. CASE Handle
  <2>1. toAdapter[1] \in Reqs /\ toAdapter # <<>>
    BY <1>15, FirstAndRest DEF Handle, Types
  <2> DEFINE r == toAdapter[1]
  <2>2. \A ok \in BOOLEAN : Response(r.cmd, r.seq, ok) \in Msg /\ Response(r.cmd, r.seq, ok).kind = "response"
    BY <2>1, ResponseMsg DEF Reqs, Response
  <2>3. /\ UNCHANGED <<session, sent>>
        /\ \/ fromAdapter' = fromAdapter
           \/ \E ok \in BOOLEAN : fromAdapter' = Append(fromAdapter, Response(r.cmd, r.seq, ok))
    BY <1>15 DEF Handle
  <2> HIDE DEF r
  <2> QED
    BY <2>2, <2>3 DEF session, Rests, Sends
<1>16. CASE AnswerLaunch
  <2>1. \A ok \in BOOLEAN : Response("launch", owed, ok) \in Msg /\ Response("launch", owed, ok).kind = "response"
    BY ResponseMsg DEF Types, Cmds, Response
  <2> QED
    BY <1>16, <2>1 DEF AnswerLaunch, session, Sends
<1>17. CASE StartsEarly \/ Exits \/ UNCHANGED vars
  BY <1>17 DEF StartsEarly, Exits, vars, session, adapter, Rests
<1>18. CASE Greet \/ Stops \/ Terminates \/ \E name \in Noise : Chatter(name)
  <2>1. Noise \subseteq Events /\ {"initialized", "stopped", "terminated"} \subseteq Events
    BY SessionConstants DEF Events
  <2>2. (\E name \in Events : Emit(name)) /\ UNCHANGED session
    BY <1>18, <2>1 DEF Greet, Stops, Terminates, Chatter
  <2> QED
    BY <2>2 DEF Sends, session
<1> QED
  BY <1>4, <1>5, <1>6, <1>7, <1>8, <1>9, <1>10, <1>11, <1>12, <1>13, <1>14, <1>15, <1>16, <1>17, <1>18
  DEF Next, SessionStep, AdapterStep

\* Sequences one behind the other: the members of both.
LEMMA Concatenation ==
    ASSUME NEW S, NEW s \in Seq(S), NEW t \in Seq(S)
    PROVE  /\ s \o t \in Seq(S) /\ Len(s \o t) = Len(s) + Len(t)
           /\ \A n \in DOMAIN (s \o t) :
                 \/ n \in DOMAIN s /\ (s \o t)[n] = s[n]
                 \/ n > Len(s) /\ n - Len(s) \in DOMAIN t /\ (s \o t)[n] = t[n - Len(s)]
           /\ ToSet(s \o t) = ToSet(s) \cup ToSet(t)
<1> DEFINE both == s \o t
<1>1. /\ both \in Seq(S) /\ Len(both) = Len(s) + Len(t)
      /\ \A n \in 1..(Len(s) + Len(t)) : both[n] = IF n <= Len(s) THEN s[n] ELSE t[n - Len(s)]
  BY ConcatProperties
<1>2. Len(s) \in Nat /\ Len(t) \in Nat /\ DOMAIN s = 1..Len(s) /\ DOMAIN t = 1..Len(t)
  OBVIOUS
<1> HIDE DEF both
<1>3. DOMAIN both = 1..(Len(s) + Len(t))
  BY <1>1
<1>4. \A n \in DOMAIN both : \/ n \in DOMAIN s /\ both[n] = s[n]
                             \/ n > Len(s) /\ n - Len(s) \in DOMAIN t /\ both[n] = t[n - Len(s)]
  BY <1>1, <1>2, <1>3
<1>5. ToSet(s) \subseteq ToSet(both)
  BY <1>1, <1>2, <1>3 DEF ToSet
<1>6. ASSUME NEW n \in DOMAIN t PROVE t[n] \in ToSet(both)
  <2>1. Len(s) + n \in DOMAIN both /\ both[Len(s) + n] = t[n]
    BY <1>1, <1>2, <1>3
  <2> QED
    BY <2>1 DEF ToSet
<1>7. ToSet(both) = ToSet(s) \cup ToSet(t)
  BY <1>4, <1>5, <1>6 DEF ToSet
<1> QED
  BY <1>1, <1>4, <1>7 DEF both

\* A newer event in the buffer: what it evicts was the oldest.
LEMMA Storing ==
    ASSUME Types, Order, Stores
    PROVE  LET e == fromAdapter[1]
           IN /\ Ascending(pending)'
              /\ ToSet(pending') \subseteq ToSet(pending) \cup {e}
              /\ ToSet(output') = ToSet(output) \cup (IF e.what = "output" THEN {e.seq} ELSE {})
              /\ output' = IF e.what = "output" THEN Append(output, e.seq) ELSE output
<1> DEFINE e == fromAdapter[1]
<1>1. e \in Msg /\ e.kind = "event" /\ Buffer(e) /\ e \in Unasked(fromAdapter) /\ e.seq \in Nat
  <2>1. e \in Msg /\ e.kind = "event" /\ Buffer(e) /\ e \in ToSet(fromAdapter)
    BY FirstAndRest DEF Stores, Receives, Types
  <2> QED
    BY <2>1 DEF Unasked, Msg
<1> HIDE DEF e
<1>2. \A m \in Unasked(pending) : m.seq < e.seq
  BY <1>1 DEF Order, Unasked, Got
<1>3. ASSUME Len(pending) >= MaxPending
      PROVE  /\ Tail(pending) \in Seq(Msg) /\ Ascending(Tail(pending)) /\ ToSet(Tail(pending)) \subseteq ToSet(pending)
  <2>1. pending # <<>>
    BY <1>3, SessionConstants DEF Types
  <2> QED
    BY <2>1, FirstAndRest, AscendingRest DEF Types, Order
<1>4. PICK kept \in Seq(Msg) :
         pending' = Append(kept, e) /\ Ascending(kept) /\ ToSet(kept) \subseteq ToSet(pending)
  BY <1>1, <1>3 DEF Buffer, Types, Order
<1>5. Ascending(pending)' /\ ToSet(pending') = ToSet(kept) \cup {e}
  <2>1. \A m \in Unasked(kept) : m.seq < e.seq
    BY <1>2, <1>4 DEF Unasked
  <2>2. Ascending(Append(kept, e))
    BY <1>1, <1>4, <2>1, AscendingMore
  <2>3. ToSet(Append(kept, e)) = ToSet(kept) \cup {e}
    BY <1>1, <1>4, OneMore
  <2> QED
    BY <1>4, <2>2, <2>3 DEF Ascending
<1>6. output' = IF e.what = "output" THEN Append(output, e.seq) ELSE output
  BY <1>1 DEF Buffer
<1>7. ToSet(output') = ToSet(output) \cup (IF e.what = "output" THEN {e.seq} ELSE {})
  <2>1. output \in Seq(Nat)
    BY DEF Types
  <2>2. ToSet(Append(output, e.seq)) = ToSet(output) \cup {e.seq}
    BY <1>1, <2>1, OneMore
  <2> QED
    BY <1>6, <2>2
<1> QED
  BY <1>4, <1>5, <1>6, <1>7 DEF e

\* What the session has stays older than what is on its way, and both in order.
LEMMA OrderStep ==
    ASSUME Types, Types', Order, [Next]_vars
    PROVE  Order'
<1> DEFINE e == fromAdapter[1]
<1>0. /\ pending \in Seq(Msg) /\ fromAdapter \in Seq(Msg) /\ stop \in Nat
      /\ taken \in Seq(Nat) /\ drained \in Seq(Nat) /\ output \in Seq(Nat)
      /\ \A m \in Msg : m.seq \in Nat
      /\ sent \in Seq([what : Events, after : Nat])
  BY DEF Types, Msg
<1>1. ASSUME fromAdapter' = fromAdapter, sent' = sent, Got' \subseteq Got,
             pending' = pending \/ \E n \in DOMAIN pending : pending' = RemoveAt(pending, n)
      PROVE  Order'
  <2>1. Ascending(pending)' /\ ToSet(pending') \subseteq ToSet(pending)
    <3>1. CASE pending' = pending
      BY <3>1 DEF Order, Ascending
    <3>2. ASSUME NEW n \in DOMAIN pending, pending' = RemoveAt(pending, n)
          PROVE  Ascending(pending)' /\ ToSet(pending') \subseteq ToSet(pending)
      BY <3>2, AscendingLess DEF Order, Types, Ascending
    <3> QED
      BY <1>1, <3>1, <3>2
  <2> QED
    BY <1>1, <2>1 DEF Order, Known, Unasked, Ascending
<1>2. ASSUME fromAdapter # <<>>, fromAdapter' = Tail(fromAdapter), sent' = sent,
             Got' \subseteq Got \cup {id \in {e.seq} : e.kind = "event"},
             Ascending(pending)', ToSet(pending') \subseteq ToSet(pending) \cup {m \in {e} : e.kind = "event"}
      PROVE  Order'
  <2>1. e \in Unasked(fromAdapter) \/ e.kind = "response"
    BY <1>2, FirstAndRest DEF Types, Unasked
  <2>2. Ascending(fromAdapter)' /\ Unasked(fromAdapter') \subseteq Unasked(fromAdapter)
    BY <1>2, AscendingRest DEF Types, Order, Ascending, Unasked
  <2>3. e.kind = "event" => \A m \in Unasked(fromAdapter') : e.seq < m.seq
    BY <1>2, AscendingRest DEF Types, Order
  <2> HIDE DEF e
  <2>4. e.kind = "event" => e.seq \in DOMAIN sent /\ e.what = sent[e.seq].what
    BY <2>1 DEF Order, Known
  <2>5. Known(fromAdapter)' /\ Known(pending)' /\ \A m \in ToSet(pending') : m.kind = "event"
    BY <1>2, <2>2, <2>4 DEF Order, Known, Unasked
  <2>6. (Got \subseteq DOMAIN sent)' /\ \A id \in Got' : \A m \in Unasked(fromAdapter') : id < m.seq
    BY <1>2, <2>2, <2>3, <2>4 DEF Order
  <2> QED
    BY <1>2, <2>2, <2>5, <2>6 DEF Order, Unasked
<1>3. CASE Rests /\ (stop' = stop \/ stop' = 0)
  <2>1. Got' \subseteq Got
    BY <1>3 DEF Rests, Got
  <2> QED
    BY <1>1, <1>3, <2>1 DEF Rests
<1>4. CASE Drops
  <2>1. Got' = Got /\ Ascending(pending)'
    BY <1>4 DEF Drops, Got, Order, Ascending
  <2> QED
    BY <1>2, <1>4, <2>1 DEF Drops
<1>5. CASE Stores
  <2>1. /\ Ascending(pending)' /\ ToSet(pending') \subseteq ToSet(pending) \cup {e}
        /\ ToSet(output') = ToSet(output) \cup (IF e.what = "output" THEN {e.seq} ELSE {})
    BY <1>5, Storing
  <2>2. Got' \subseteq Got \cup {e.seq}
    BY <1>5, <2>1 DEF Got, Stores
  <2>3. e.kind = "event" /\ fromAdapter # <<>> /\ fromAdapter' = Tail(fromAdapter) /\ sent' = sent
    BY <1>5 DEF Stores, Receives
  <2> HIDE DEF e
  <2> QED
    BY <1>2, <2>1, <2>2, <2>3
<1>6. CASE Takes \/ Collects
  <2>1. e \in Msg /\ e.kind = "event" /\ fromAdapter # <<>> /\ fromAdapter' = Tail(fromAdapter) /\ sent' = sent
    BY <1>6, FirstAndRest DEF Takes, Collects, Receives, Types
  <2>2. ToSet(Append(taken, e.seq)) = ToSet(taken) \cup {e.seq}
    <3>1. e.seq \in Nat
      BY <1>0, <2>1
    <3> HIDE DEF e
    <3>2. \A id \in Nat : ToSet(Append(taken, id)) = ToSet(taken) \cup {id}
      BY <1>0, OneMore
    <3> QED
      BY <3>1, <3>2
  <2>3. Got' \subseteq Got \cup {e.seq}
    BY <1>6, <2>2 DEF Got, Takes, Collects
  <2>4. Ascending(pending)' /\ ToSet(pending') = ToSet(pending)
    BY <1>6 DEF Takes, Collects, Order, Ascending
  <2> HIDE DEF e
  <2> QED
    BY <1>2, <2>1, <2>3, <2>4
<1>7. ASSUME NEW n \in DOMAIN pending, TakesBuffered(n) \/ CollectsBuffered(n) PROVE Order'
  <2>1. pending[n] \in Msg /\ pending[n] \in ToSet(pending)
    BY <1>0 DEF ToSet
  <2>2. ToSet(Append(taken, pending[n].seq)) = ToSet(taken) \cup {pending[n].seq}
    <3>1. pending[n].seq \in Nat
      BY <1>0, <2>1
    <3>2. \A id \in Nat : ToSet(Append(taken, id)) = ToSet(taken) \cup {id}
      BY <1>0, OneMore
    <3> QED
      BY <3>1, <3>2
  <2>3. ToSet(RemoveAt(pending, n)) \subseteq ToSet(pending)
    BY AscendingLess DEF Types, Order
  <2>4. Got' \subseteq Got
    BY <1>7, <2>1, <2>2, <2>3 DEF Got, TakesBuffered, CollectsBuffered
  <2> QED
    BY <1>1, <1>7, <2>4 DEF TakesBuffered, CollectsBuffered
<1>8. CASE Delivers
  <2>1. ToSet(Append(taken, stop)) = ToSet(taken) \cup {stop}
    BY <1>0, OneMore
  <2>2. Got' \subseteq Got
    BY <1>8, <2>1 DEF Delivers, Got
  <2> QED
    BY <1>1, <1>8, <2>2 DEF Delivers
<1>9. CASE Drain
  <2>1. ToSet(drained \o output) = ToSet(drained) \cup ToSet(output)
    BY <1>0, Concatenation
  <2>2. Got' \subseteq Got
    BY <1>9, <2>1 DEF Drain, Got, ToSet
  <2> QED
    BY <1>1, <1>9, <2>2 DEF Drain, adapter
<1>10. ASSUME NEW m \in Msg, m.kind = "response", fromAdapter' = Append(fromAdapter, m), UNCHANGED <<session, sent>>
       PROVE  Order'
  <2>1. Ascending(fromAdapter)' /\ Unasked(fromAdapter') = Unasked(fromAdapter)
    <3>1. Ascending(fromAdapter)
      BY DEF Order
    <3>2. /\ Ascending(Append(fromAdapter, m))
          /\ Unasked(Append(fromAdapter, m)) = Unasked(fromAdapter) \cup {x \in {m} : x.kind # "response"}
      BY <1>0, <1>10, <3>1, AscendingMore
    <3> QED
      BY <1>10, <3>2 DEF Ascending
  <2>2. Got' = Got /\ pending' = pending
    BY <1>10 DEF session, Got
  <2> QED
    BY <1>10, <2>1, <2>2 DEF Order, Known, Ascending, Unasked
<1>11. ASSUME NEW name \in Events, Emit(name), UNCHANGED session PROVE Order'
  <2> DEFINE m == Event(name)
  <2>1. m \in Msg /\ m.kind # "response" /\ m.seq = Len(sent) + 1 /\ m.what = name
    BY EventMsg DEF Types, Event
  <2>2. fromAdapter' = Append(fromAdapter, m) /\ sent' = Append(sent, [what |-> name, after |-> handled])
    BY <1>11 DEF Emit
  <2> HIDE DEF m
  <2>3. /\ DOMAIN sent \subseteq Nat /\ \A id \in DOMAIN sent : id < m.seq /\ id \in DOMAIN sent' /\ sent'[id] = sent[id]
        /\ m.seq \in DOMAIN sent' /\ sent'[m.seq].what = name
    BY <1>0, <2>1, <2>2
  <2>4. Ascending(fromAdapter)' /\ Unasked(fromAdapter') = Unasked(fromAdapter) \cup {m}
    <3>1. \A x \in Unasked(fromAdapter) : x.seq < m.seq
      BY <2>3 DEF Order, Known
    <3>2. Ascending(Append(fromAdapter, m)) /\ Unasked(Append(fromAdapter, m)) = Unasked(fromAdapter) \cup {m}
      BY <1>0, <2>1, <3>1, AscendingMore DEF Order
    <3> QED
      BY <2>2, <3>2 DEF Ascending
  <2>5. Got' = Got /\ pending' = pending
    BY <1>11 DEF session, Got
  <2>6. Known(fromAdapter)' /\ Known(pending)'
    BY <2>1, <2>3, <2>4, <2>5 DEF Order, Known, Unasked
  <2>7. (Got \subseteq DOMAIN sent)' /\ \A id \in Got' : \A x \in Unasked(fromAdapter') : id < x.seq
    BY <2>3, <2>4, <2>5 DEF Order
  <2> QED
    BY <2>4, <2>5, <2>6, <2>7 DEF Order, Ascending, Unasked
<1> QED
  BY Moves, <1>3, <1>4, <1>5, <1>6, <1>7, <1>8, <1>9, <1>10, <1>11 DEF Sends

\* What arrives next is newer than all the session has, what comes after it still newer.
LEMMA Newest ==
    ASSUME Types, Order, Receives
    PROVE  LET e == fromAdapter[1]
           IN /\ e.seq \in Nat /\ e.seq \in DOMAIN sent /\ e.what = sent[e.seq].what
              /\ \A id \in Got : id \in Nat /\ id < e.seq
              /\ \A m \in Unasked(Tail(fromAdapter)) : e.seq < m.seq
<1> DEFINE e == fromAdapter[1]
<1>1. e \in Msg /\ e \in Unasked(fromAdapter) /\ e.kind # "response"
  <2>1. e \in Msg /\ e.kind = "event" /\ e \in ToSet(fromAdapter)
    BY FirstAndRest DEF Receives, Types
  <2> QED
    BY <2>1 DEF Unasked
<1>2. \A m \in Unasked(Tail(fromAdapter)) : e.seq < m.seq
  BY <1>1, AscendingRest DEF Receives, Types, Order
<1> HIDE DEF e
<1>3. e.seq \in Nat /\ e.seq \in DOMAIN sent /\ e.what = sent[e.seq].what
  BY <1>1 DEF Order, Known, Msg
<1>4. DOMAIN sent \subseteq Nat
  BY DEF Types
<1>5. \A id \in Got : id \in Nat /\ id < e.seq
  BY <1>1, <1>4 DEF Order
<1> QED
  BY <1>2, <1>3, <1>5 DEF e

\* What is buffered or collected stays untaken.
LEMMA UniqueStep ==
    ASSUME Types, Order, Unique, [Next]_vars
    PROVE  Unique'
<1> DEFINE e == fromAdapter[1]
           Apart(s, id) == \A m \in ToSet(s) : m.seq # id
<1>0. /\ pending \in Seq(Msg) /\ stop \in Nat /\ taken \in Seq(Nat)
      /\ \A id \in Nat : ToSet(Append(taken, id)) = ToSet(taken) \cup {id}
  <2>1. pending \in Seq(Msg) /\ stop \in Nat /\ taken \in Seq(Nat)
    BY DEF Types
  <2> QED
    BY <2>1, OneMore
<1>1. ASSUME Receives
      PROVE  e.seq \in Nat /\ e.seq \notin ToSet(taken) /\ Apart(pending, e.seq) /\ (stop # 0 => stop # e.seq)
  <2>1. e.seq \in Nat /\ \A id \in Got : id \in Nat /\ id < e.seq
    BY <1>1, Newest
  <2> HIDE DEF e
  <2> QED
    BY <1>0, <2>1 DEF Got
<1>2. ASSUME NEW n \in DOMAIN pending
      PROVE  /\ pending[n].seq \in Nat /\ pending[n].seq \notin ToSet(taken)
             /\ ToSet(RemoveAt(pending, n)) \subseteq ToSet(pending) /\ Apart(RemoveAt(pending, n), pending[n].seq)
  <2>1. pending[n] \in Msg /\ pending[n] \in ToSet(pending) /\ pending[n].kind # "response"
    <3>1. pending[n] \in Msg /\ pending[n] \in ToSet(pending)
      BY <1>0 DEF ToSet
    <3> QED
      BY <3>1 DEF Order
  <2>2. /\ ToSet(RemoveAt(pending, n)) \subseteq ToSet(pending)
        /\ \A m \in Unasked(RemoveAt(pending, n)) : m.seq # pending[n].seq
    BY <1>0, <2>1, AscendingLess DEF Order
  <2>3. \A m \in ToSet(RemoveAt(pending, n)) : m \in Unasked(RemoveAt(pending, n))
    BY <2>2 DEF Order, Unasked
  <2>4. pending[n].seq \in Nat
    BY <2>1 DEF Msg
  <2> QED
    BY <2>1, <2>2, <2>3, <2>4 DEF Unique
<1>3. ASSUME Stores PROVE ToSet(pending') \subseteq ToSet(pending) \cup {e}
  BY <1>3, Storing
<1>4. Receives \/ ~(Stores \/ Takes \/ Collects)
  BY DEF Stores, Takes, Collects
<1>5. Doing("await") => ~Doing("collect")
  BY DEF Doing
<1>6. (todo # <<>> /\ ~Doing("collect") => stop = 0)'
  BY Moves DEF Stages, Unique, Doing
<1>7. (Doing("collect") /\ stop # 0)' => Doing("collect") /\ todo' # <<>>
  BY Moves DEF Stages, Unique, Doing
<1> HIDE DEF e
<1>8. \A m \in ToSet(pending') : m.seq \notin ToSet(taken')
  <2>1. CASE pending' = pending /\ taken' = taken
    BY <2>1 DEF Unique
  <2>2. CASE Stores
    BY <1>1, <1>3, <1>4, <2>2 DEF Unique, Stores
  <2>3. CASE Takes
    <3>1. pending' = pending /\ ToSet(taken') = ToSet(taken) \cup {e.seq}
      BY <1>0, <1>1, <1>4, <2>3 DEF Takes, e
    <3> QED
      BY <1>1, <1>4, <2>3, <3>1 DEF Unique
  <2>4. ASSUME NEW n \in DOMAIN pending, TakesBuffered(n) \/ CollectsBuffered(n)
        PROVE  \A m \in ToSet(pending') : m.seq \notin ToSet(taken')
    <3>1. CASE TakesBuffered(n)
      <4>1. pending' = RemoveAt(pending, n) /\ ToSet(taken') = ToSet(taken) \cup {pending[n].seq}
        BY <1>0, <1>2, <3>1 DEF TakesBuffered
      <4> QED
        BY <1>2, <4>1 DEF Unique
    <3>2. CASE CollectsBuffered(n)
      BY <1>2, <3>2 DEF Unique, CollectsBuffered
    <3> QED
      BY <2>4, <3>1, <3>2
  <2>5. CASE Delivers
    BY <1>0, <2>5 DEF Unique, Delivers
  <2> QED
    BY Moves, <2>1, <2>2, <2>3, <2>4, <2>5 DEF Rests, Drops, Collects, Drain, Sends, session
<1>9. ASSUME Doing("collect"), stop' # 0, todo' # <<>> PROVE stop' \notin ToSet(taken') /\ Apart(pending', stop')
  <2>1. CASE pending' = pending /\ taken' = taken /\ stop' = stop
    BY <1>9, <2>1 DEF Unique
  <2>2. CASE Stores
    BY <1>1, <1>3, <1>4, <1>9, <2>2 DEF Unique, Stores
  <2>3. CASE Collects
    <3>1. stop' = e.seq /\ taken' = taken /\ pending' = pending
      BY <2>3 DEF Collects, e
    <3> QED
      BY <1>1, <1>4, <2>3, <3>1
  <2>4. ASSUME NEW n \in DOMAIN pending, CollectsBuffered(n)
        PROVE  stop' \notin ToSet(taken') /\ Apart(pending', stop')
    BY <1>2, <2>4 DEF CollectsBuffered
  <2> QED
    BY Moves, <1>5, <1>9, <2>1, <2>2, <2>3, <2>4 DEF Rests, Drops, Takes, TakesBuffered, Delivers, Drain, Sends, session
<1> QED
  BY <1>6, <1>7, <1>8, <1>9 DEF Unique

IInv == Types /\ Order /\ Unique

\* Events reach the session in the order they were sent, stay so in its buffer,
\* and are there or taken, never both.
THEOREM Ordered == Spec => []IInv
<1>1. Init => IInv
  <2> SUFFICES ASSUME Init PROVE IInv
    OBVIOUS
  <2>1. /\ Types /\ todo = <<>> /\ stop = 0
        /\ \A s \in {<<>>} : ToSet(s) = {} /\ DOMAIN s = {}
        /\ taken = <<>> /\ output = <<>> /\ drained = <<>> /\ pending = <<>> /\ fromAdapter = <<>>
    BY EmptySeq DEF Init, Types, ToSet
  <2> QED
    BY <2>1 DEF IInv, Order, Unique, Known, Unasked, Ascending, Got
<1>2. IInv /\ [Next]_vars => IInv'
  BY TypesStep, OrderStep, UniqueStep DEF IInv
<1> QED
  BY <1>1, <1>2, PTL DEF Spec

\* Every wait consumes the oldest event of its name, and none is consumed twice: whether
\* it was buffered, collected by a launch or received.
THEOREM TakesOldestOnce == Spec => OldestOnce
<1>1. IInv /\ [Next]_vars => [taken' # taken => TakesOldest]_vars
  <2> DEFINE same(s, id) == {m \in ToSet(s) : m.kind = "event" /\ m.what = sent[id].what}
  <2> SUFFICES ASSUME Types, Order, Unique, [Next]_vars, taken' # taken
               PROVE  LET id == Last(taken')
                      IN /\ id \notin ToSet(taken)
                         /\ \A m \in same(fromAdapter', id) : id < m.seq
                         /\ Doing("collect") \/ \A m \in same(pending', id) : id < m.seq
    BY DEF IInv, TakesOldest
  <2>1. /\ pending \in Seq(Msg) /\ taken \in Seq(Nat) /\ stop \in Nat
        /\ \A id \in Nat : Last(Append(taken, id)) = id
    <3>1. pending \in Seq(Msg) /\ taken \in Seq(Nat) /\ stop \in Nat
      BY DEF Types
    <3> QED
      BY <3>1, OneMore DEF Last
  <2>2. CASE Takes
    <3> DEFINE e == fromAdapter[1]
    <3>1. /\ e.seq \in Nat /\ e.what = sent[e.seq].what
          /\ \A id \in Got : id \in Nat /\ id < e.seq
          /\ \A m \in Unasked(Tail(fromAdapter)) : e.seq < m.seq
      BY <2>2, Newest DEF Takes
    <3>2. /\ taken' = Append(taken, e.seq) /\ fromAdapter' = Tail(fromAdapter) /\ pending' = pending
          /\ e.what \in Wanted(What) /\ NoneBuffered(Wanted(What))
      BY <2>2 DEF Takes, Receives
    <3> HIDE DEF e
    <3>3. Last(taken') = e.seq /\ e.seq \notin ToSet(taken)
      BY <2>1, <3>1, <3>2 DEF Got
    <3>4. \A m \in same(fromAdapter', e.seq) : e.seq < m.seq
      BY <3>1, <3>2 DEF Unasked
    <3>5. same(pending', e.seq) = {}
      BY <2>1, <3>1, <3>2 DEF NoneBuffered, ToSet
    <3> QED
      BY <3>3, <3>4, <3>5
  <2>3. ASSUME NEW n \in DOMAIN pending, TakesBuffered(n)
        PROVE  LET id == Last(taken')
               IN /\ id \notin ToSet(taken)
                  /\ \A m \in same(fromAdapter', id) : id < m.seq
                  /\ \A m \in same(pending', id) : id < m.seq
    <3> DEFINE e == pending[n]
    <3>1. e \in Msg /\ e \in ToSet(pending) /\ e.kind = "event" /\ e.what = sent[e.seq].what /\ e.seq \in Nat
      <4>1. e \in Msg /\ e \in ToSet(pending)
        BY <2>1 DEF ToSet
      <4>2. e.kind = "event"
        BY <4>1 DEF Order
      <4> HIDE DEF e
      <4> QED
        BY <4>1, <4>2 DEF Order, Known, Unasked, Msg
    <3>2. /\ e.what \in Wanted(What) /\ \A k \in 1..(n - 1) : pending[k].what \notin Wanted(What)
          /\ pending' = RemoveAt(pending, n) /\ taken' = Append(taken, e.seq) /\ fromAdapter' = fromAdapter
      BY <2>3 DEF TakesBuffered, FirstBuffered
    <3>3. \A m \in Unasked(RemoveAt(pending, n)) : (\E k \in 1..(n - 1) : m = pending[k]) \/ m.seq > e.seq
      BY <2>1, <3>1, AscendingLess DEF Order
    <3> HIDE DEF e
    <3>4. Last(taken') = e.seq /\ e.seq \notin ToSet(taken)
      BY <2>1, <3>1, <3>2 DEF Unique
    <3>5. \A m \in same(fromAdapter', e.seq) : e.seq < m.seq
      BY <3>1, <3>2 DEF Order, Got, Unasked
    <3>6. ASSUME NEW m \in same(pending', e.seq) PROVE e.seq < m.seq
      <4>1. m \in Unasked(RemoveAt(pending, n)) /\ m.what = e.what /\ m \in ToSet(pending')
        BY <3>1, <3>2, <3>6 DEF Unasked
      <4>2. ~\E k \in 1..(n - 1) : m = pending[k]
        BY <3>2, <4>1
      <4>3. m.seq \in Nat
        <5>1. ToSet(RemoveAt(pending, n)) \subseteq ToSet(pending) /\ ToSet(pending) \subseteq Msg
          BY <2>1, AscendingLess, Members DEF Order
        <5> QED
          BY <3>2, <4>1, <5>1 DEF Msg
      <4> QED
        BY <3>1, <3>3, <4>1, <4>2, <4>3
    <3> QED
      BY <3>4, <3>5, <3>6
  <2>4. CASE Delivers
    <3>1. taken' = Append(taken, stop) /\ fromAdapter' = fromAdapter /\ Doing("collect") /\ stop # 0
      BY <2>4 DEF Delivers
    <3>2. Last(taken') = stop /\ stop \notin ToSet(taken)
      BY <2>1, <3>1 DEF Unique
    <3>3. \A m \in same(fromAdapter', stop) : stop < m.seq
      BY <3>1 DEF Order, Got, Unasked
    <3> QED
      BY <3>1, <3>2, <3>3
  <2> QED
    BY Moves, <2>2, <2>3, <2>4 DEF Rests, Drops, Stores, Collects, CollectsBuffered, Drain, Sends, session
<1> QED
  BY Ordered, <1>1, PTL DEF Spec, OldestOnce

----------------------------------------------------------------------------
(* Output. *)

\* What has been printed and received stays buffered or handed over.
LEMMA PrintedStep ==
    ASSUME Types, Types', Order, OutputKept, [Next]_vars
    PROVE  (Printed \subseteq ToSet(drained) \cup ToSet(output) \cup ToSet(taken))'
<1> DEFINE e == fromAdapter[1]
           kept == ToSet(drained) \cup ToSet(output) \cup ToSet(taken)
<1>0. /\ fromAdapter \in Seq(Msg) /\ stop \in Nat /\ pending \in Seq(Msg)
      /\ drained \in Seq(Nat) /\ output \in Seq(Nat)
      /\ \A id \in Nat : ToSet(Append(taken, id)) = ToSet(taken) \cup {id}
      /\ Printed \subseteq kept
  <2>1. fromAdapter \in Seq(Msg) /\ drained \in Seq(Nat) /\ output \in Seq(Nat) /\ taken \in Seq(Nat)
        /\ stop \in Nat /\ pending \in Seq(Msg)
    BY DEF Types
  <2> QED
    BY <2>1, OneMore DEF OutputKept
<1> HIDE DEF kept
<1>1. ASSUME fromAdapter' = fromAdapter, sent' = sent, kept \subseteq kept' PROVE (Printed \subseteq kept)'
  BY <1>0, <1>1 DEF Printed
<1>2. ASSUME fromAdapter # <<>>, fromAdapter' = Tail(fromAdapter), sent' = sent, kept \subseteq kept',
             e.kind = "event" /\ e.what = "output" => e.seq \in kept'
      PROVE  (Printed \subseteq kept)'
  <2>1. e \in Msg /\ ToSet(fromAdapter) = ToSet(fromAdapter') \cup {e}
    BY <1>0, <1>2, FirstAndRest
  <2> HIDE DEF e
  <2>2. ASSUME NEW id \in Printed', id \notin Printed PROVE e.kind = "event" /\ e.what = "output" /\ e.seq = id
    <3>1. id \in DOMAIN sent /\ sent[id].what = "output" /\ id \notin Ids(fromAdapter') /\ id \in Ids(fromAdapter)
      BY <1>2, <2>2 DEF Printed
    <3>2. e.kind # "response" /\ e.seq = id
      BY <2>1, <3>1 DEF Ids
    <3>3. e.what = "output"
      BY <2>1, <3>1, <3>2 DEF Order, Known, Unasked
    <3> QED
      BY <2>1, <3>2, <3>3 DEF Msg
  <2> QED
    BY <1>0, <1>2, <2>2
<1>3. CASE Rests
  BY <1>1, <1>3 DEF Rests, kept
<1>4. CASE Drops \/ Collects
  BY <1>2, <1>4 DEF Drops, Collects, Receives, kept
<1>5. CASE Stores
  <2>1. ToSet(output') = ToSet(output) \cup (IF e.what = "output" THEN {e.seq} ELSE {})
    BY <1>5, Storing
  <2>2. fromAdapter # <<>> /\ fromAdapter' = Tail(fromAdapter) /\ UNCHANGED <<sent, taken, drained>>
    BY <1>5 DEF Stores, Receives
  <2> HIDE DEF e
  <2> QED
    BY <1>2, <2>1, <2>2 DEF kept
<1>6. CASE Takes
  <2>1. fromAdapter # <<>> /\ fromAdapter' = Tail(fromAdapter) /\ UNCHANGED <<sent, output, drained>> /\ e.seq \in Nat
    BY <1>6, Newest DEF Takes, Receives
  <2>2. taken' = Append(taken, e.seq)
    BY <1>6 DEF Takes
  <2> HIDE DEF e
  <2> QED
    BY <1>0, <1>2, <2>1, <2>2 DEF kept
<1>7. ASSUME NEW n \in DOMAIN pending, TakesBuffered(n) \/ CollectsBuffered(n) PROVE (Printed \subseteq kept)'
  <2>1. pending[n].seq \in Nat
    <3>1. pending[n] \in Msg
      BY <1>0
    <3> QED
      BY <3>1 DEF Msg
  <2>2. ToSet(Append(taken, pending[n].seq)) = ToSet(taken) \cup {pending[n].seq}
    BY <1>0, <2>1
  <2>3. kept \subseteq kept'
    BY <1>7, <2>2 DEF kept, TakesBuffered, CollectsBuffered
  <2> QED
    BY <1>1, <1>7, <2>3 DEF TakesBuffered, CollectsBuffered
<1>8. CASE Delivers
  <2>1. kept \subseteq kept'
    BY <1>0, <1>8 DEF Delivers, kept
  <2> QED
    BY <1>1, <1>8, <2>1 DEF Delivers, kept
<1>9. CASE Drain
  <2>1. ToSet(drained \o output) = ToSet(drained) \cup ToSet(output)
    BY <1>0, Concatenation
  <2>2. kept \subseteq kept'
    BY <1>9, <2>1 DEF Drain, kept, ToSet
  <2> QED
    BY <1>1, <1>9, <2>2 DEF Drain, adapter, kept
<1>10. ASSUME NEW m \in Msg, m.kind = "response", fromAdapter' = Append(fromAdapter, m), UNCHANGED <<session, sent>>
       PROVE  (Printed \subseteq kept)'
  <2>1. ToSet(fromAdapter') = ToSet(fromAdapter) \cup {m}
    BY <1>0, <1>10, OneMore
  <2>2. Ids(fromAdapter) \subseteq Ids(fromAdapter') /\ kept' = kept
    BY <1>10, <2>1 DEF Ids, session, kept
  <2> QED
    BY <1>0, <1>10, <2>2 DEF Printed
<1>11. ASSUME NEW name \in Events, Emit(name), UNCHANGED session PROVE (Printed \subseteq kept)'
  <2> DEFINE m == Event(name)
  <2>1. m \in Msg /\ m.kind # "response" /\ m.seq = Len(sent) + 1
    BY EventMsg DEF Types, Event
  <2>2. fromAdapter' = Append(fromAdapter, m) /\ sent' = Append(sent, [what |-> name, after |-> handled])
    BY <1>11 DEF Emit
  <2> HIDE DEF m
  <2>3. \A id \in DOMAIN sent' : id = m.seq \/ (id \in DOMAIN sent /\ sent'[id] = sent[id])
    <3>1. sent \in Seq([what : Events, after : Nat]) /\ [what |-> name, after |-> handled] \in [what : Events, after : Nat]
      BY DEF Types
    <3> QED
      BY <2>1, <2>2, <3>1, OneMore
  <2>4. ToSet(fromAdapter') = ToSet(fromAdapter) \cup {m}
    BY <1>0, <2>1, <2>2, OneMore
  <2>5. Ids(fromAdapter) \cup {m.seq} \subseteq Ids(fromAdapter') /\ kept' = kept
    BY <1>11, <2>1, <2>4 DEF Ids, session, kept
  <2> QED
    BY <1>0, <2>3, <2>5 DEF Printed
<1> QED
  BY Moves, <1>3, <1>4, <1>5, <1>6, <1>7, <1>8, <1>9, <1>10, <1>11 DEF Sends, kept

\* Output is handed over in the order it was printed.
LEMMA RisingStep ==
    ASSUME Types, Order, OutputKept, [Next]_vars
    PROVE  (\A m, n \in DOMAIN (drained \o output) : m < n => (drained \o output)[m] < (drained \o output)[n])'
<1> DEFINE Rising(s) == \A m, n \in DOMAIN s : m < n => s[m] < s[n]
           all == drained \o output
<1>1. drained \in Seq(Nat) /\ output \in Seq(Nat) /\ all \in Seq(Nat) /\ Rising(all)
  <2>1. drained \in Seq(Nat) /\ output \in Seq(Nat)
    BY DEF Types
  <2> QED
    BY <2>1, ConcatProperties DEF OutputKept
<1>2. CASE UNCHANGED <<drained, output>>
  BY <1>1, <1>2
<1>3. CASE Drain
  <2>1. all \o <<>> = all
    BY <1>1, ConcatEmptySeq
  <2>2. all' = all
    BY <1>3, <2>1 DEF Drain
  <2> HIDE DEF all
  <2>3. Rising(all')
    BY <1>1, <2>2
  <2> QED
    BY <2>3 DEF all
<1>4. CASE Stores
  <2> DEFINE e == fromAdapter[1]
  <2>1. e.seq \in Nat /\ \A id \in Got : id < e.seq
    BY <1>4, Newest DEF Stores
  <2>2. output' = (IF e.what = "output" THEN Append(output, e.seq) ELSE output) /\ drained' = drained
    BY <1>4, Storing DEF Stores
  <2> HIDE DEF e
  <2>3. CASE e.what = "output"
    <3>1. Append(output, e.seq) = output \o <<e.seq>> /\ Append(all, e.seq) = all \o <<e.seq>>
      BY <1>1, <2>1, AppendIsConcat
    <3>2. all' = Append(all, e.seq)
      <4>1. <<e.seq>> \in Seq(Nat)
        BY <2>1
      <4> QED
        BY <1>1, <2>2, <2>3, <3>1, <4>1, ConcatAssociative
    <3>3. \A n \in DOMAIN all : all[n] < e.seq
      <4>1. ToSet(all) = ToSet(drained) \cup ToSet(output)
        BY <1>1, Concatenation
      <4> QED
        BY <2>1, <4>1 DEF Got, ToSet
    <3> HIDE DEF all
    <3>4. Rising(all')
      BY <1>1, <2>1, <3>2, <3>3
    <3> QED
      BY <3>4 DEF all
  <2>4. CASE e.what # "output"
    BY <1>2, <2>2, <2>4
  <2> QED
    BY <2>3, <2>4
<1> QED
  BY Moves, <1>2, <1>3, <1>4 DEF Rests, Drops, Takes, Collects, TakesBuffered, CollectsBuffered, Delivers, Sends, session

\* What the debuggee printed is kept until it is drained, whatever the event buffer
\* evicts, and handed over once and in order.
THEOREM KeepsOutput == Spec => []OutputKept
<1>1. Init => OutputKept
  <2> SUFFICES ASSUME Init PROVE OutputKept
    OBVIOUS
  <2>1. sent = <<>> /\ drained = <<>> /\ output = <<>> /\ DOMAIN sent = {}
    BY EmptySeq DEF Init
  <2>2. drained \o output = <<>>
    BY <2>1
  <2> QED
    BY <2>1, <2>2 DEF OutputKept, Printed
<1>2. IInv /\ OutputKept /\ [Next]_vars => OutputKept'
  <2> SUFFICES ASSUME IInv, OutputKept, [Next]_vars PROVE OutputKept'
    OBVIOUS
  <2>1. Types /\ Types' /\ Order
    BY TypesStep DEF IInv
  <2> QED
    BY <2>1, PrintedStep, RisingStep DEF OutputKept
<1> QED
  BY Ordered, <1>1, <1>2, PTL DEF Spec

----------------------------------------------------------------------------
(* Stops. *)

Capped == Len(pending) <= MaxPending

\* buffer_event keeps the buffer within its cap.
LEMMA CappedStep ==
    ASSUME Types, Capped, [Next]_vars
    PROVE  Capped'
<1>0. pending \in Seq(Msg) /\ Len(pending) \in Nat /\ MaxPending \in Nat \ {0}
  BY SessionConstants DEF Types
<1>1. CASE pending' = pending
  BY <1>1 DEF Capped
<1>2. ASSUME NEW n \in DOMAIN pending, pending' = RemoveAt(pending, n) PROVE Capped'
  BY <1>0, <1>2, OneLess DEF Capped
<1>3. CASE Stores
  <2> DEFINE e == fromAdapter[1]
  <2>1. e \in Msg
    BY <1>3, FirstAndRest DEF Stores, Receives, Types
  <2>2. pending' = IF Len(pending) >= MaxPending THEN Append(Tail(pending), e) ELSE Append(pending, e)
    BY <1>3 DEF Stores, Buffer
  <2> HIDE DEF e
  <2>3. CASE Len(pending) >= MaxPending
    <3>1. Tail(pending) \in Seq(Msg) /\ Len(Tail(pending)) = Len(pending) - 1
      BY <1>0, <2>3, FirstAndRest
    <3> QED
      BY <1>0, <2>1, <2>2, <2>3, <3>1, OneMore DEF Capped
  <2>4. CASE ~(Len(pending) >= MaxPending)
    BY <1>0, <2>1, <2>2, <2>4, OneMore DEF Capped
  <2> QED
    BY <2>3, <2>4
<1> QED
  BY Moves, <1>1, <1>2, <1>3
  DEF Rests, Drops, Takes, Collects, TakesBuffered, CollectsBuffered, Delivers, Drain, Sends, session

\* How a launch that has a stop goes on.
LEMMA Collection ==
    ASSUME Types, [Next]_vars, Doing("collect"), stop # 0
    PROVE  \/ todo' = todo /\ (stop' = stop \/ Collects)
           \/ Delivers
           \/ ~alive
           \/ fromAdapter # <<>> /\ ~fromAdapter[1].ok
<1>1. call # "none"
  BY DEF Types, Doing
<1>2. ~Doing("ask") /\ ~Doing("post") /\ ~Doing("await")
  BY DEF Doing
<1>3. CASE UNCHANGED session
  BY <1>3 DEF session
<1>4. ASSUME NEW m, CollectRefusal(m) PROVE fromAdapter # <<>> /\ ~fromAdapter[1].ok
  BY <1>4 DEF CollectRefusal, Receive
<1>5. ASSUME NEW m, Collect(m) PROVE todo' = todo /\ (stop' = stop \/ Collects)
  <2>1. Receive(m) /\ todo' = todo /\ UNCHANGED <<sent, taken, drained>>
    BY <1>5 DEF Collect, adapter
  <2>2. CASE m.kind = "event" /\ m.what = "stopped" /\ stop' = m.seq /\ UNCHANGED <<pending, output>>
    BY <2>1, <2>2 DEF Collects, Receives, Receive
  <2> QED
    BY <1>5, <2>1, <2>2 DEF Collect
<1>6. CASE Collected \/ CollectDeadline
  BY <1>6 DEF Collected, CollectDeadline, Return, adapter, Delivers
<1>7. CASE ReceiveFails
  BY <1>7 DEF ReceiveFails
<1>8. ~\E op \in Ops : Call(op)
  BY <1>1 DEF Call
<1>9. ~(Drain \/ Ask \/ Post \/ SendFails \/ TakeBuffered \/ CollectBuffered \/ GivesUp)
  BY <1>1, <1>2 DEF Drain, Ask, Post, SendFails, TakeBuffered, CollectBuffered, GivesUp
<1>10. ~\E m \in ToSet(fromAdapter) : Answered(m) \/ NotAnswered(m) \/ TakeReceived(m) \/ NotAwaited(m)
  BY <1>2 DEF Answered, NotAnswered, TakeReceived, NotAwaited
<1>11. AdapterStep \/ UNCHANGED vars => UNCHANGED session
  BY DEF AdapterStep, Handle, AnswerLaunch, StartsEarly, Greet, Chatter, Stops, Terminates, Exits, vars, session
<1> QED
  BY <1>3, <1>4, <1>5, <1>6, <1>7, <1>8, <1>9, <1>10, <1>11 DEF Next, SessionStep

\* A buffered event stays, unless it is the oldest of a full buffer.
LEMMA Evicting ==
    ASSUME Types, Order, Capped, Stores, NEW m \in ToSet(pending)
    PROVE  /\ m \in ToSet(pending') \/ Overdue(m.seq)
           /\ fromAdapter[1] \in ToSet(pending')
<1> DEFINE e == fromAdapter[1]
<1>0. pending \in Seq(Msg) /\ Len(pending) \in Nat /\ MaxPending \in Nat \ {0} /\ DOMAIN pending = 1..Len(pending)
  BY SessionConstants DEF Types
<1>1. e \in Msg
  BY FirstAndRest DEF Stores, Receives, Types
<1>2. pending' = IF Len(pending) >= MaxPending THEN Append(Tail(pending), e) ELSE Append(pending, e)
  BY DEF Stores, Buffer
<1> HIDE DEF e
<1>3. CASE Len(pending) >= MaxPending
  <2>1. pending # <<>>
    BY <1>0, <1>3
  <2>2. Tail(pending) \in Seq(Msg) /\ ToSet(pending) = ToSet(Tail(pending)) \cup {pending[1]}
    BY <1>0, <2>1, FirstAndRest
  <2>3. ToSet(pending') = ToSet(Tail(pending)) \cup {e}
    <3>1. \A s \in Seq(Msg) : ToSet(Append(s, e)) = ToSet(s) \cup {e}
      BY <1>1, OneMore
    <3> QED
      BY <1>2, <1>3, <2>2, <3>1
  <2>4. ASSUME m = pending[1] PROVE Overdue(m.seq)
    <3>1. Len(pending) = MaxPending
      <4>1. Len(pending) \in Nat /\ MaxPending \in Nat /\ Len(pending) <= MaxPending
        BY <1>0 DEF Capped
      <4> QED
        BY <1>3, <4>1
    <3>2. ASSUME NEW n \in 2..MaxPending PROVE pending[n].seq > m.seq
      <4>1. n \in DOMAIN pending /\ 1 \in DOMAIN pending /\ 1 < n
        BY <1>0, <3>1
      <4>2. pending[n] \in ToSet(pending) /\ pending[1] \in ToSet(pending) /\ pending[n] \in Msg /\ pending[1] \in Msg
        BY <1>0, <4>1 DEF ToSet
      <4>3. pending[n].kind # "response" /\ pending[1].kind # "response"
        BY <4>2 DEF Order
      <4>4. pending[1].seq < pending[n].seq
        BY <4>1, <4>3 DEF Order, Ascending
      <4>5. pending[1].seq \in Nat /\ pending[n].seq \in Nat
        BY <4>2 DEF Msg
      <4> QED
        BY <2>4, <4>4, <4>5
    <3> QED
      BY <2>4, <3>1, <3>2 DEF Overdue
  <2> QED
    BY <2>2, <2>3, <2>4 DEF e
<1>4. CASE ~(Len(pending) >= MaxPending)
  <2>1. ToSet(pending') = ToSet(pending) \cup {e}
    BY <1>0, <1>1, <1>2, <1>4, OneMore
  <2> QED
    BY <2>1 DEF e
<1> QED
  BY <1>3, <1>4

\* What a launch has collected is delivered or kept, unless the launch fails or gets a newer one.
LEMMA CollectedStop ==
    ASSUME Types, Order, [Next]_vars, Doing("collect"), stop # 0
    PROVE  stop \in StopsHeld' \cup ToSet(taken') \/ Superseded(stop)
<1>1. CASE todo' = todo /\ stop' = stop
  BY <1>1 DEF StopsHeld, Doing
<1>2. CASE Collects
  <2> DEFINE e == fromAdapter[1]
  <2>1. e.seq \in Nat /\ \A id \in Got : id \in Nat /\ id < e.seq
    BY <1>2, Newest DEF Collects
  <2>2. stop' = e.seq
    BY <1>2 DEF Collects
  <2> HIDE DEF e
  <2>3. stop' > stop
    BY <2>1, <2>2 DEF Got, Types
  <2> QED
    BY <2>3 DEF Superseded
<1>3. CASE Delivers
  <2>1. taken \in Seq(Nat) /\ stop \in Nat
    BY DEF Types
  <2> QED
    BY <1>3, <2>1, OneMore DEF Delivers
<1>4. CASE ~alive \/ (fromAdapter # <<>> /\ ~fromAdapter[1].ok)
  BY <1>4 DEF Superseded
<1> QED
  BY Collection, <1>1, <1>2, <1>3, <1>4

\* A stop that is on its way to a caller stays so or reaches it, but for the two exceptions.
LEMMA StopsStep ==
    ASSUME Types, Order, Capped, [Next]_vars, NEW id \in StopsHeld
    PROVE  id \in StopsHeld' \cup ToSet(taken') \/ Overdue(id) \/ Superseded(id)
<1> DEFINE e == fromAdapter[1]
           held(s) == \E m \in ToSet(s) : m.what = "stopped" /\ m.seq = id
           delivered == id \in ToSet(taken')
<1>0. /\ pending \in Seq(Msg) /\ fromAdapter \in Seq(Msg) /\ sent \in Seq([what : Events, after : Nat])
      /\ \A x \in Nat : ToSet(Append(taken, x)) = ToSet(taken) \cup {x}
  <2>1. /\ pending \in Seq(Msg) /\ fromAdapter \in Seq(Msg) /\ taken \in Seq(Nat)
        /\ sent \in Seq([what : Events, after : Nat])
    BY DEF Types
  <2> QED
    BY <2>1, OneMore
<1>1. held(fromAdapter') \/ held(pending') \/ delivered => id \in StopsHeld' \cup ToSet(taken')
  BY DEF StopsHeld
<1>2. held(fromAdapter) \/ held(pending) \/ (Doing("collect") /\ stop # 0 /\ id = stop)
  BY DEF StopsHeld
<1>3. CASE Doing("collect") /\ stop # 0 /\ id = stop
  BY <1>3, CollectedStop
<1>4. CASE held(fromAdapter)
  <2>1. CASE fromAdapter' = fromAdapter
    BY <1>1, <1>4, <2>1
  <2>2. CASE Sends
    <3>1. ToSet(fromAdapter) \subseteq ToSet(fromAdapter')
      <4>1. \A x \in Msg : ToSet(Append(fromAdapter, x)) = ToSet(fromAdapter) \cup {x}
        BY <1>0, OneMore
      <4>2. \A name \in Events : Event(name) \in Msg
        BY <1>0, EventMsg
      <4> QED
        BY <2>2, <4>1, <4>2 DEF Sends, Emit
    <3> QED
      BY <1>1, <1>4, <3>1
  <2>3. ASSUME fromAdapter # <<>>, fromAdapter' = Tail(fromAdapter), e.what # "stopped"
        PROVE  held(fromAdapter')
    <3>1. ToSet(fromAdapter) = ToSet(fromAdapter') \cup {e}
      BY <1>0, <2>3, FirstAndRest
    <3> HIDE DEF e
    <3> QED
      BY <1>4, <2>3, <3>1
  <2>4. CASE Drops
    <3>1. e \in Msg /\ e.kind # "event"
      BY <1>0, <2>4, FirstAndRest DEF Drops
    <3>2. e.what # "stopped"
      BY <3>1 DEF Msg, Cmds
    <3> QED
      BY <1>1, <2>3, <2>4, <3>2 DEF Drops
  <2>5. CASE Receives
    <3>1. ToSet(fromAdapter) = ToSet(fromAdapter') \cup {e} /\ e \in Msg
      BY <1>0, <2>5, FirstAndRest DEF Receives
    <3>2. held(fromAdapter') \/ (e.what = "stopped" /\ e.seq = id)
      BY <1>4, <3>1
    <3>3. e.seq \in Nat /\ e.seq \in DOMAIN sent
      BY <2>5, Newest
    <3>4. ASSUME e.what = "stopped", e.seq = id PROVE id \in StopsHeld' \cup ToSet(taken')
      <4>1. CASE Stores
        <5>1. e \in ToSet(pending')
          <6>1. pending' = IF Len(pending) >= MaxPending THEN Append(Tail(pending), e) ELSE Append(pending, e)
            BY <4>1 DEF Stores, Buffer
          <6>2. Len(pending) >= MaxPending => Tail(pending) \in Seq(Msg)
            BY <1>0, SessionConstants, FirstAndRest
          <6>3. \A s \in Seq(Msg) : e \in ToSet(Append(s, e))
            BY <3>1, OneMore
          <6> QED
            BY <1>0, <6>1, <6>2, <6>3
        <5> QED
          BY <1>1, <3>4, <5>1
      <4>2. CASE Takes
        <5>1. delivered
          BY <1>0, <3>3, <3>4, <4>2 DEF Takes
        <5> QED
          BY <1>1, <5>1
      <4>3. CASE Collects
        <5>1. stop' = id /\ stop' # 0 /\ todo' = todo /\ Doing("collect")
          BY <1>0, <3>3, <3>4, <4>3 DEF Collects
        <5> QED
          BY <5>1 DEF StopsHeld, Doing
      <4>4. Stores \/ Takes \/ Collects
        <5>1. ~Drops /\ fromAdapter' # fromAdapter
          <6>1. Len(fromAdapter') = Len(fromAdapter) - 1 /\ Len(fromAdapter) \in Nat
            BY <1>0, <2>5, FirstAndRest DEF Receives
          <6> SUFFICES ASSUME fromAdapter' = fromAdapter PROVE FALSE
            BY <2>5 DEF Drops, Receives
          <6>2. \A k \in Nat : k # k - 1
            OBVIOUS
          <6> QED
            BY <6>1, <6>2
        <5>2. ~Sends
          <6>1. /\ \A x \in Msg : Len(Append(fromAdapter, x)) = Len(fromAdapter) + 1
                /\ Len(fromAdapter') = Len(fromAdapter) - 1 /\ Len(fromAdapter) \in Nat
            BY <1>0, <2>5, FirstAndRest, OneMore DEF Receives
          <6>2. \A name \in Events : Event(name) \in Msg
            BY <1>0, EventMsg
          <6>3. ASSUME NEW x \in Msg, fromAdapter' = Append(fromAdapter, x) PROVE FALSE
            <7>1. Len(fromAdapter) + 1 = Len(fromAdapter) - 1
              BY <6>1, <6>3
            <7>2. \A k \in Nat : k + 1 # k - 1
              OBVIOUS
            <7> QED
              BY <6>1, <7>1, <7>2
          <6> QED
            BY <6>2, <6>3 DEF Sends, Emit
        <5> QED
          BY Moves, <5>1, <5>2 DEF Rests, TakesBuffered, CollectsBuffered, Delivers, Drain
      <4> QED
        BY <4>1, <4>2, <4>3, <4>4
    <3> QED
      BY <1>1, <3>2, <3>4
  <2> QED
    BY Moves, <2>1, <2>2, <2>4, <2>5
    DEF Rests, Stores, Takes, Collects, TakesBuffered, CollectsBuffered, Delivers, Drain
<1>5. ASSUME NEW m \in ToSet(pending), m.what = "stopped", m.seq = id
      PROVE  id \in StopsHeld' \cup ToSet(taken') \/ Overdue(id)
  <2>1. CASE pending' = pending
    BY <1>1, <1>5, <2>1
  <2>2. CASE Stores
    BY <1>1, <1>5, <2>2, Evicting
  <2>3. ASSUME NEW n \in DOMAIN pending, TakesBuffered(n) \/ CollectsBuffered(n)
        PROVE  id \in StopsHeld' \cup ToSet(taken')
    <3>1. m \in ToSet(RemoveAt(pending, n)) \/ m = pending[n]
      <4>1. PICK k \in DOMAIN pending : m = pending[k]
        BY DEF ToSet
      <4>2. \A j \in DOMAIN pending \ {n} : pending[j] \in ToSet(RemoveAt(pending, n))
        BY <1>0, OneLess
      <4> QED
        BY <4>1, <4>2
    <3>2. CASE m \in ToSet(RemoveAt(pending, n))
      BY <1>1, <1>5, <2>3, <3>2 DEF TakesBuffered, CollectsBuffered
    <3>3. CASE m = pending[n] /\ TakesBuffered(n)
      <4>1. id \in Nat
        BY <1>0, <1>5, Members DEF Msg
      <4>2. taken' = Append(taken, id)
        BY <1>5, <3>3 DEF TakesBuffered
      <4> QED
        BY <1>0, <1>1, <4>1, <4>2
    <3>4. CASE m = pending[n] /\ CollectsBuffered(n)
      <4>1. id \in DOMAIN sent
        BY <1>5 DEF Order, Got
      <4>2. id # 0
        BY <1>0, <4>1
      <4>3. stop' = id /\ todo' = todo /\ Doing("collect")
        BY <1>5, <3>4 DEF CollectsBuffered
      <4> QED
        BY <4>2, <4>3 DEF StopsHeld, Doing
    <3> QED
      BY <2>3, <3>1, <3>2, <3>3, <3>4
  <2> QED
    BY Moves, <2>1, <2>2, <2>3 DEF Rests, Drops, Takes, Collects, Delivers, Drain, Sends, session
<1> QED
  BY <1>2, <1>3, <1>4, <1>5

\* A stop the adapter has sent reaches a caller, unless newer events pushed it out of a
\* full buffer or the launch that collected it failed or received a newer one.
THEOREM StopsDelivered == Spec => StopsReachCallers
<1>1. Init => Capped
  BY SessionConstants, EmptySeq DEF Init, Capped
<1>2. IInv /\ Capped /\ [Next]_vars => Capped'
  BY CappedStep DEF IInv
<1>3. IInv /\ Capped /\ [Next]_vars
      => [\A id \in StopsHeld :
            id \in StopsHeld' \cup ToSet(taken') \/ Overdue(id) \/ Superseded(id)]_vars
  BY StopsStep DEF IInv
<1> QED
  BY Ordered, <1>1, <1>2, <1>3, PTL DEF Spec, StopsReachCallers

----------------------------------------------------------------------------
(* Bounds. *)

\* The steps of an operation after the first k that send a request, and those that remain.
Requesting(op, k) == {n \in DOMAIN Script[op] : n > k /\ Script[op][n][1] \in {"ask", "post"}}
Done == Len(Script[call]) - Len(todo)

\* What remains of an operation is the rest of its script, and there are numbers enough
\* for the requests it has still to send.
Budget ==
    /\ Len(sent) <= MaxSent
    /\ call # "none" =>
         /\ call \in Ops /\ Done \in Nat
         /\ \A n \in DOMAIN todo : Done + n \in DOMAIN Script[call] /\ todo[n] = Script[call][Done + n]
         /\ nextSeq + Cardinality(Requesting(call, Done)) <= MaxSeq + 1 + (IF waiting # 0 THEN 1 ELSE 0)

\* A step that sends is one of those that remain, until it is done.
LEMMA OneStepLess ==
    ASSUME NEW op \in DOMAIN Script, NEW k \in Nat, k + 1 \in DOMAIN Script[op]
    PROVE  /\ Cardinality(Requesting(op, k)) \in Nat /\ Cardinality(Requesting(op, k + 1)) \in Nat
           /\ Cardinality(Requesting(op, k)) = Cardinality(Requesting(op, k + 1))
                + (IF Script[op][k + 1][1] \in {"ask", "post"} THEN 1 ELSE 0)
<1>1. Script[op] \in Seq(Steps)
  BY Scripts
<1>2. DOMAIN Script[op] = 1..Len(Script[op]) /\ Len(Script[op]) \in Nat
  BY <1>1
<1>3. \A j \in Nat : IsFiniteSet(Requesting(op, j))
  <2> SUFFICES ASSUME NEW j \in Nat PROVE IsFiniteSet(Requesting(op, j))
    OBVIOUS
  <2>1. IsFiniteSet(1..Len(Script[op]))
    BY <1>2, FS_Interval
  <2>2. Requesting(op, j) \in SUBSET (1..Len(Script[op]))
    BY <1>2 DEF Requesting
  <2> QED
    BY <2>1, <2>2, FS_Subset
<1>4. \A j \in Nat : Cardinality(Requesting(op, j)) \in Nat
  BY <1>3, FS_CardinalityType
<1>5. \A n \in DOMAIN Script[op] : n > k <=> n = k + 1 \/ n > k + 1
  BY <1>2
<1>6. k + 1 \notin Requesting(op, k + 1) /\ k + 1 \in Nat
  BY DEF Requesting
<1>7. CASE Script[op][k + 1][1] \in {"ask", "post"}
  <2>1. Requesting(op, k) = Requesting(op, k + 1) \cup {k + 1}
    BY <1>5, <1>7 DEF Requesting
  <2>2. Cardinality(Requesting(op, k + 1) \cup {k + 1}) = Cardinality(Requesting(op, k + 1)) + 1
    BY <1>3, <1>6, FS_AddElement
  <2> QED
    BY <1>4, <1>6, <1>7, <2>1, <2>2
<1>8. CASE Script[op][k + 1][1] \notin {"ask", "post"}
  <2>1. Requesting(op, k) = Requesting(op, k + 1)
    BY <1>5, <1>8 DEF Requesting
  <2> QED
    BY <1>4, <1>6, <1>8, <2>1
<1> QED
  BY <1>7, <1>8

\* Where an operation is.
LEMMA AtStep ==
    ASSUME Types, TypeOK, Budget, todo # <<>>
    PROVE  /\ call \in Ops /\ call \in DOMAIN Script /\ Done \in Nat /\ Done + 1 \in DOMAIN Script[call]
           /\ todo[1] = Script[call][Done + 1] /\ Len(todo) \in Nat \ {0} /\ Len(Script[call]) \in Nat
           /\ (Doing("ask") \/ Doing("post")) <=> Script[call][Done + 1][1] \in {"ask", "post"}
<1>1. 1 \in DOMAIN todo /\ Len(todo) \in Nat \ {0}
  BY FirstAndRest DEF Types
<1>2. call \in Ops /\ call \in DOMAIN Script
  BY SessionConstants DEF Types, TypeOK, Budget
<1>3. Len(Script[call]) \in Nat
  BY <1>2, Scripts
<1>4. Done \in Nat /\ Done + 1 \in DOMAIN Script[call] /\ todo[1] = Script[call][Done + 1]
  BY <1>1, <1>2 DEF Budget, Types
<1> QED
  BY <1>1, <1>2, <1>3, <1>4 DEF Doing

\* There is a number for the next request.
LEMMA NumberLeft ==
    ASSUME Types, TypeOK, Budget, Doing("post") \/ (Doing("ask") /\ waiting = 0)
    PROVE  nextSeq \in 1..MaxSeq /\ waiting = 0
<1>1. todo # <<>> /\ waiting = 0
  BY DEF Doing, TypeOK
<1>2. Cardinality(Requesting(call, Done)) \in Nat \ {0}
  <2>1. /\ call \in DOMAIN Script /\ Done \in Nat /\ Done + 1 \in DOMAIN Script[call]
        /\ Script[call][Done + 1][1] \in {"ask", "post"}
    BY <1>1, AtStep
  <2>2. PICK k \in Nat : k = Done
    BY <2>1
  <2>3. /\ Cardinality(Requesting(call, k)) \in Nat /\ Cardinality(Requesting(call, k + 1)) \in Nat
        /\ Cardinality(Requesting(call, k)) = Cardinality(Requesting(call, k + 1)) + 1
    BY <2>1, <2>2, OneStepLess
  <2> QED
    BY <2>2, <2>3
<1>3. nextSeq + Cardinality(Requesting(call, Done)) <= MaxSeq + 1
  <2>1. call # "none"
    BY <1>1 DEF TypeOK
  <2>2. nextSeq + Cardinality(Requesting(call, Done)) <= MaxSeq + 1 + 0
    BY <1>1, <2>1 DEF Budget
  <2> QED
    BY <2>2, SessionConstants
<1> QED
  BY <1>1, <1>2, <1>3, SessionConstants DEF TypeOK

\* An operation goes on to its next step, or is at its end.
LEMMA AdvanceBudget ==
    ASSUME Types, TypeOK, Budget, todo # <<>>, Advance, Len(sent') <= MaxSent,
           \/ nextSeq' = nextSeq /\ ~Doing("post") /\ (Doing("ask") => waiting # 0)
           \/ nextSeq' = nextSeq + 1 /\ Doing("post")
    PROVE  Budget' /\ call' \in Ops \cup {"none"}
<1>1. /\ call \in Ops /\ call \in DOMAIN Script /\ Done \in Nat /\ Done + 1 \in DOMAIN Script[call]
      /\ Len(todo) \in Nat \ {0} /\ Len(Script[call]) \in Nat
      /\ (Doing("ask") \/ Doing("post")) <=> Script[call][Done + 1][1] \in {"ask", "post"}
  BY AtStep
<1>2. call' \in Ops \cup {"none"} /\ waiting' = 0 /\ todo' = Tail(todo)
  BY <1>1 DEF Advance
<1>3. CASE Len(todo) = 1
  BY <1>2, <1>3 DEF Advance, Budget
<1>4. CASE Len(todo) # 1
  <2>1. call' = call
    BY <1>4 DEF Advance
  <2>2. /\ Len(Tail(todo)) = Len(todo) - 1
        /\ \A n \in DOMAIN Tail(todo) : n \in Nat /\ n + 1 \in DOMAIN todo /\ Tail(todo)[n] = todo[n + 1]
    BY FirstAndRest DEF Types
  <2>3. Done' = Done + 1
    BY <1>1, <1>2, <2>1, <2>2 DEF Done
  <2>4. ASSUME NEW n \in DOMAIN todo'
        PROVE  Done' + n \in DOMAIN Script[call] /\ todo'[n] = Script[call][Done' + n]
    <3>1. n \in Nat /\ n + 1 \in DOMAIN todo /\ todo'[n] = todo[n + 1]
      BY <1>2, <2>2, <2>4
    <3>2. Done + (n + 1) \in DOMAIN Script[call] /\ todo[n + 1] = Script[call][Done + (n + 1)]
      BY <1>1, <3>1, SessionConstants, Scripts DEF Budget, Types
    <3>3. Done + (n + 1) = Done' + n
      BY <1>1, <2>3, <3>1
    <3> QED
      BY <3>1, <3>2, <3>3
  <2>5. nextSeq' + Cardinality(Requesting(call, Done + 1)) <= MaxSeq + 1
    <3>1. PICK k \in Nat : k = Done
      BY <1>1
    <3>2. /\ Cardinality(Requesting(call, k)) \in Nat /\ Cardinality(Requesting(call, k + 1)) \in Nat
          /\ Cardinality(Requesting(call, k)) = Cardinality(Requesting(call, k + 1))
               + (IF Script[call][k + 1][1] \in {"ask", "post"} THEN 1 ELSE 0)
      BY <1>1, <3>1, OneStepLess
    <3>3. nextSeq + Cardinality(Requesting(call, k)) <= MaxSeq + 1 + (IF waiting # 0 THEN 1 ELSE 0)
      BY <1>1, <3>1 DEF Budget, Types
    <3>4. nextSeq \in Nat /\ MaxSeq \in Nat /\ (waiting # 0 => Doing("ask"))
      BY SessionConstants DEF Types, TypeOK
    <3>5. ~(Doing("ask") /\ Doing("post"))
      BY DEF Doing
    <3> QED
      BY <1>1, <3>1, <3>2, <3>3, <3>4, <3>5
  <2>6. Requesting(call, Done)' = Requesting(call, Done + 1)
    BY <2>1, <2>3 DEF Requesting
  <2>7. nextSeq' + Cardinality(Requesting(call, Done))' <= MaxSeq + 1 + 0
    BY <2>5, <2>6, SessionConstants
  <2>8. Done' \in Nat
    BY <1>1, <2>3
  <2>9. \A n \in DOMAIN todo' : Done' + n \in DOMAIN Script[call'] /\ todo'[n] = Script[call'][Done' + n]
    BY <2>1, <2>4
  <2> QED
    BY <1>1, <1>2, <2>1, <2>7, <2>8, <2>9 DEF Budget
<1> QED
  BY <1>2, <1>3, <1>4

\* What a message tells of its number.
LEMMA MessageKinds ==
    ASSUME NEW m \in Messages
    PROVE  /\ m.kind = "response" => m.what \in Cmds /\ m.seq \in 1..MaxSeq
           /\ m.kind # "response" => m.what \in Events /\ m.seq \in 1..MaxSent
           /\ m.what \in Events => m.seq \in 1..MaxSent
<1>1. \A w \in Cmds : w \notin Events
  BY DEF Cmds, Events
<1>2. "runInTerminal" \in Events
  BY DEF Events
<1> QED
  BY <1>1, <1>2 DEF Messages

\* What the adapter says unasked, as long as it may.
LEMMA EventMessage ==
    ASSUME sent \in Seq([what : Events, after : Nat]), Len(sent) < MaxSent, NEW name \in Events
    PROVE  Event(name) \in Messages
<1>1. Len(sent) + 1 \in 1..MaxSent
  BY SessionConstants
<1> QED
  BY <1>1 DEF Event, Messages

\* What it answers, as long as requests are numbered within the bound.
LEMMA ResponseMessage ==
    ASSUME NEW cmd \in Cmds, NEW s \in 1..MaxSeq, NEW ok \in BOOLEAN
    PROVE  Response(cmd, s, ok) \in Messages
  BY DEF Response, Messages

\* The buffers hold what they held, and the message.
LEMMA BufferedMessage ==
    ASSUME NEW m \in Messages, m.kind # "response", pending \in Seq(Messages), output \in Seq(1..MaxSent), Buffer(m)
    PROVE  pending' \in Seq(Messages) /\ output' \in Seq(1..MaxSent)
<1>1. m.seq \in 1..MaxSent
  BY MessageKinds
<1>2. output' \in Seq(1..MaxSent)
  BY <1>1, OneMore DEF Buffer
<1>3. Len(pending) >= MaxPending => Tail(pending) \in Seq(Messages)
  BY FirstAndRest, SessionConstants
<1>4. pending' \in Seq(Messages)
  <2>1. pending' = IF Len(pending) >= MaxPending THEN Append(Tail(pending), m) ELSE Append(pending, m)
    BY DEF Buffer
  <2>2. \A s \in Seq(Messages) : Append(s, m) \in Seq(Messages)
    BY OneMore
  <2> QED
    BY <1>3, <2>1, <2>2
<1> QED
  BY <1>2, <1>4

\* The counters of the session, and what it does.
Stations ==
    /\ nextSeq \in 1..(MaxSeq + 1)
    /\ call \in Ops \cup {"none"}
    /\ waiting \in 0..MaxSeq /\ (waiting # 0 => Doing("ask"))
    /\ launchSeq \in 0..MaxSeq /\ gotLaunch \in BOOLEAN

\* What it holds.
Holdings ==
    /\ pending \in Seq(Messages) /\ fromAdapter \in Seq(Messages)
    /\ output \in Seq(1..MaxSent) /\ taken \in Seq(1..MaxSent) /\ drained \in Seq(1..MaxSent)
    /\ stop \in 0..MaxSent

\* The adapter.
Adapted ==
    /\ toAdapter \in Seq([cmd : Cmds, seq : 1..MaxSeq])
    /\ owed \in 0..MaxSeq /\ handled \in 0..MaxSeq
    /\ alive \in BOOLEAN /\ greeted \in {"no", "due", "yes"}
    /\ debuggee \in {"none", "starting", "running", "stopped", "ended"}

\* The counters stay within the bounds, and the rest of the script with them.
LEMMA StationsStep ==
    ASSUME Types, TypeOK, Budget, [Next]_vars
    PROVE  Stations' /\ Budget'
<1> USE SessionConstants
<1>1. /\ Len(sent) <= MaxSent /\ nextSeq \in 1..(MaxSeq + 1) /\ call \in Ops \cup {"none"}
      /\ waiting \in 0..MaxSeq /\ (waiting # 0 => Doing("ask"))
      /\ launchSeq \in 0..MaxSeq /\ gotLaunch \in BOOLEAN
  BY DEF TypeOK, Budget
<1>2. ASSUME UNCHANGED <<nextSeq, call, todo, waiting, launchSeq>>, gotLaunch' \in BOOLEAN, Len(sent') <= MaxSent
      PROVE  Stations' /\ Budget'
  <2>1. Stations'
    BY <1>1, <1>2 DEF Stations, Doing
  <2>2. Requesting(call, Done)' = Requesting(call, Done) /\ Done' = Done
    BY <1>2 DEF Requesting, Done
  <2> QED
    BY <1>2, <2>1, <2>2 DEF Budget
<1>3. ASSUME Return, launchSeq' = launchSeq, gotLaunch' = gotLaunch, nextSeq' \in 1..(MaxSeq + 1), sent' = sent
      PROVE  Stations' /\ Budget'
  BY <1>1, <1>3 DEF Return, Stations, Budget
<1>4. ASSUME todo # <<>>, Advance, sent' = sent, gotLaunch' = gotLaunch, launchSeq' \in 0..MaxSeq,
             nextSeq' \in 1..(MaxSeq + 1),
             \/ nextSeq' = nextSeq /\ ~Doing("post") /\ (Doing("ask") => waiting # 0)
             \/ nextSeq' = nextSeq + 1 /\ Doing("post")
      PROVE  Stations' /\ Budget'
  <2>1. Budget' /\ call' \in Ops \cup {"none"}
    BY <1>1, <1>4, AdvanceBudget
  <2> QED
    BY <1>1, <1>4, <2>1 DEF Stations, Advance
<1>5. ASSUME NEW op \in Ops, Call(op) PROVE Stations' /\ Budget'
  <2>1. /\ nextSeq + Asks(op) <= MaxSeq + 1 /\ call' = op /\ todo' = Script[op] /\ gotLaunch' = FALSE
        /\ UNCHANGED <<nextSeq, waiting, launchSeq, sent>> /\ todo = <<>>
    BY <1>5 DEF Call, adapter, TypeOK
  <2>2. waiting = 0 /\ waiting' = 0
    BY <1>1, <2>1 DEF Doing
  <2>3. op \in DOMAIN Script /\ Script[op] \in Seq(Steps)
    BY Scripts
  <2>4. Done' = 0
    BY <2>1, <2>3 DEF Done
  <2>5. Requesting(call, Done)' = {n \in DOMAIN Script[op] : Script[op][n][1] \in {"ask", "post"}}
    <3>1. \A n \in DOMAIN Script[op] : n > 0
      BY <2>3
    <3> QED
      BY <2>1, <2>4, <3>1 DEF Requesting
  <2>6. nextSeq' + Cardinality(Requesting(call, Done))' <= MaxSeq + 1 + 0
    BY <2>1, <2>5 DEF Asks
  <2>7. \A n \in DOMAIN todo' : Done' + n \in DOMAIN Script[call'] /\ todo'[n] = Script[call'][Done' + n]
    BY <2>1, <2>3, <2>4
  <2>8. Budget'
    BY <1>1, <2>1, <2>2, <2>4, <2>6, <2>7 DEF Budget
  <2> QED
    BY <1>1, <2>1, <2>2, <2>8 DEF Stations
<1>6. CASE Drain
  BY <1>1, <1>2, <1>6 DEF Drain, adapter
<1>7. CASE Ask
  <2>1. /\ Doing("ask") /\ waiting = 0 /\ nextSeq' = nextSeq + 1 /\ waiting' = nextSeq
        /\ UNCHANGED <<call, todo, launchSeq, gotLaunch, sent>>
    BY <1>7 DEF Ask, Send, adapter
  <2>2. nextSeq \in 1..MaxSeq
    BY <2>1, NumberLeft
  <2>3. Stations'
    BY <1>1, <2>1, <2>2 DEF Stations, Doing
  <2>4. Requesting(call, Done)' = Requesting(call, Done) /\ Done' = Done
    BY <2>1 DEF Requesting, Done
  <2>5. call # "none" => /\ Cardinality(Requesting(call, Done)) \in Nat
                         /\ nextSeq + Cardinality(Requesting(call, Done)) <= MaxSeq + 1 + 0
    <3>1. todo # <<>>
      BY <2>1 DEF Doing
    <3>2. call \in DOMAIN Script /\ Done \in Nat /\ Done + 1 \in DOMAIN Script[call]
      BY <3>1, AtStep
    <3>3. PICK k \in Nat : k = Done
      BY <3>2
    <3> QED
      BY <2>1, <3>2, <3>3, OneStepLess DEF Budget
  <2>6. call # "none" => nextSeq' + Cardinality(Requesting(call, Done))' <= MaxSeq + 1 + 1
    BY <2>1, <2>2, <2>4, <2>5
  <2>7. waiting' # 0
    BY <2>1, <2>2
  <2> QED
    BY <2>1, <2>3, <2>4, <2>6, <2>7 DEF Budget
<1>8. CASE Post
  <2>1. Doing("post") /\ nextSeq' = nextSeq + 1 /\ launchSeq' = nextSeq /\ Advance /\ UNCHANGED <<gotLaunch, sent>>
        /\ todo # <<>>
    BY <1>8 DEF Post, Send, adapter, Doing
  <2>2. nextSeq \in 1..MaxSeq
    BY <2>1, NumberLeft
  <2>3. nextSeq' \in 1..(MaxSeq + 1) /\ launchSeq' \in 0..MaxSeq
    BY <2>1, <2>2
  <2> QED
    BY <1>4, <2>1, <2>3
<1>9. CASE SendFails
  <2>1. Return /\ UNCHANGED <<launchSeq, gotLaunch, sent>> /\ nextSeq' = nextSeq + 1
        /\ (Doing("post") \/ (Doing("ask") /\ waiting = 0))
    BY <1>9 DEF SendFails, adapter
  <2>2. nextSeq \in 1..MaxSeq
    BY <2>1, NumberLeft
  <2>3. nextSeq' \in 1..(MaxSeq + 1)
    BY <2>1, <2>2
  <2> QED
    BY <1>3, <2>1, <2>3
<1>10. ASSUME UNCHANGED <<nextSeq, launchSeq, gotLaunch, sent>>, Return
       PROVE  Stations' /\ Budget'
  BY <1>1, <1>3, <1>10
<1>11. ASSUME UNCHANGED <<nextSeq, launchSeq, gotLaunch, sent>>, Advance,
              Doing("await") \/ (Doing("ask") /\ waiting # 0)
       PROVE  Stations' /\ Budget'
  <2>1. todo # <<>> /\ ~Doing("post") /\ (Doing("ask") => waiting # 0)
    BY <1>11 DEF Doing
  <2>2. launchSeq' \in 0..MaxSeq /\ nextSeq' \in 1..(MaxSeq + 1)
    BY <1>1, <1>11
  <2> QED
    BY <1>4, <1>11, <2>1, <2>2
<1>12. ASSUME NEW m, Answered(m) PROVE Stations' /\ Budget'
  BY <1>10, <1>11, <1>12 DEF Answered, adapter
<1>13. ASSUME NEW m, NotAnswered(m) \/ NotAwaited(m) PROVE Stations' /\ Budget'
  BY <1>1, <1>2, <1>13 DEF NotAnswered, NotAwaited, adapter
<1>14. ASSUME NEW m, TakeReceived(m) PROVE Stations' /\ Budget'
  BY <1>11, <1>14 DEF TakeReceived, adapter
<1>15. ASSUME NEW m, CollectRefusal(m) PROVE Stations' /\ Budget'
  BY <1>10, <1>15 DEF CollectRefusal, adapter
<1>16. ASSUME NEW m, Collect(m) PROVE Stations' /\ Budget'
  <2>1. UNCHANGED <<nextSeq, call, todo, waiting, launchSeq, sent>> /\ gotLaunch' \in BOOLEAN
    BY <1>1, <1>16 DEF Collect, adapter
  <2> QED
    BY <1>1, <1>2, <2>1
<1>17. CASE TakeBuffered
  BY <1>11, <1>17 DEF TakeBuffered, adapter
<1>18. CASE CollectBuffered
  BY <1>1, <1>2, <1>18 DEF CollectBuffered, adapter
<1>19. CASE Collected \/ CollectDeadline \/ GivesUp \/ ReceiveFails
  BY <1>10, <1>19 DEF Collected, CollectDeadline, GivesUp, ReceiveFails, adapter
<1>20. CASE AdapterStep
  <2>1. UNCHANGED session
    BY <1>20 DEF AdapterStep, Handle, AnswerLaunch, StartsEarly, Greet, Chatter, Stops, Terminates, Exits
  <2>2. ASSUME NEW name, Emit(name) PROVE Len(sent') <= MaxSent
    BY <2>2 DEF Emit, Types
  <2>3. Len(sent') <= MaxSent
    BY <1>1, <1>20, <2>2 DEF AdapterStep, Handle, AnswerLaunch, StartsEarly, Greet, Chatter, Stops, Terminates, Exits
  <2> QED
    BY <1>1, <1>2, <2>1, <2>3 DEF session
<1>21. CASE UNCHANGED vars
  BY <1>1, <1>2, <1>21 DEF vars, session, adapter
<1> QED
  BY <1>5, <1>6, <1>7, <1>8, <1>9, <1>12, <1>13, <1>14, <1>15, <1>16, <1>17, <1>18, <1>19, <1>20, <1>21
  DEF Next, SessionStep

\* What the session holds, and what is on its way to it, stays of its kind.
LEMMA HoldingsStep ==
    ASSUME Types, TypeOK, Budget, Budget', [Next]_vars
    PROVE  Holdings'
<1> USE SessionConstants
<1>0. /\ pending \in Seq(Messages) /\ fromAdapter \in Seq(Messages)
      /\ output \in Seq(1..MaxSent) /\ taken \in Seq(1..MaxSent) /\ drained \in Seq(1..MaxSent)
      /\ stop \in 0..MaxSent
  BY DEF TypeOK
<1>1. ASSUME NEW m, Receive(m) PROVE m \in Messages /\ fromAdapter' \in Seq(Messages)
  BY <1>0, <1>1, FirstAndRest DEF Receive
<1>2. ASSUME NEW m \in Messages, PutAside(m) PROVE pending' \in Seq(Messages) /\ output' \in Seq(1..MaxSent)
  BY <1>0, <1>2, BufferedMessage DEF PutAside
<1>3. ASSUME Doing("await") PROVE Wanted(What) \subseteq Events
  <2>1. todo[1] \in Steps
    BY <1>3, FirstAndRest DEF Doing, Types
  <2>2. What \in {"initialized", "stopOrEnd", "stopped", "output"}
    BY <1>3, <2>1 DEF Doing, What, Steps
  <2> QED
    BY <2>2 DEF Wanted, Events
<1>4. ASSUME NEW n \in DOMAIN pending, pending[n].what \in Events
      PROVE  RemoveAt(pending, n) \in Seq(Messages) /\ pending[n].seq \in 1..MaxSent
  <2>1. pending[n] \in Messages
    BY <1>0
  <2> QED
    BY <1>0, <1>4, <2>1, OneLess, MessageKinds
<1>5. \A id \in 1..MaxSent : Append(taken, id) \in Seq(1..MaxSent)
  BY <1>0, OneMore
<1>6. ASSUME UNCHANGED <<pending, fromAdapter, output, taken, drained, stop>> PROVE Holdings'
  BY <1>0, <1>6 DEF Holdings
<1>7. ASSUME NEW m, Answered(m) \/ CollectRefusal(m) PROVE Holdings'
  BY <1>0, <1>1, <1>7 DEF Answered, CollectRefusal, Holdings
<1>8. ASSUME NEW m, NotAnswered(m) \/ NotAwaited(m) PROVE Holdings'
  BY <1>0, <1>1, <1>2, <1>8 DEF NotAnswered, NotAwaited, Holdings
<1>9. ASSUME NEW m, TakeReceived(m) PROVE Holdings'
  <2>1. m \in Messages /\ fromAdapter' \in Seq(Messages) /\ taken' = Append(taken, m.seq) /\ m.kind = "event"
        /\ UNCHANGED <<pending, output, drained, stop>>
    BY <1>1, <1>9 DEF TakeReceived
  <2>2. m.seq \in 1..MaxSent
    BY <2>1, MessageKinds
  <2> QED
    BY <1>0, <1>5, <2>1, <2>2 DEF Holdings
<1>10. ASSUME NEW m, Collect(m) PROVE Holdings'
  <2>1. m \in Messages /\ fromAdapter' \in Seq(Messages) /\ UNCHANGED <<taken, drained>>
    BY <1>1, <1>10 DEF Collect
  <2>2. \/ UNCHANGED <<pending, output, stop>>
        \/ m.kind = "event" /\ stop' = m.seq /\ UNCHANGED <<pending, output>>
        \/ PutAside(m) /\ stop' = stop
    BY <1>10 DEF Collect
  <2>3. m.kind = "event" => m.seq \in 0..MaxSent
    BY <2>1, MessageKinds
  <2> QED
    BY <1>0, <1>2, <2>1, <2>2, <2>3 DEF Holdings
<1>11. CASE TakeBuffered
  <2>1. PICK n \in DOMAIN pending :
          /\ Doing("await") /\ pending[n].what \in Wanted(What) /\ pending' = RemoveAt(pending, n)
          /\ taken' = Append(taken, pending[n].seq) /\ UNCHANGED <<output, drained, stop, fromAdapter>>
    BY <1>11 DEF TakeBuffered, FirstBuffered
  <2>2. pending' \in Seq(Messages) /\ pending[n].seq \in 1..MaxSent
    BY <1>3, <1>4, <2>1
  <2> QED
    BY <1>0, <1>5, <2>1, <2>2 DEF Holdings
<1>12. CASE CollectBuffered
  <2>1. PICK n \in DOMAIN pending :
          /\ pending[n].what = "stopped" /\ pending' = RemoveAt(pending, n)
          /\ stop' = pending[n].seq /\ UNCHANGED <<output, drained, taken, fromAdapter>>
    BY <1>12 DEF CollectBuffered, FirstBuffered
  <2>2. pending' \in Seq(Messages) /\ stop' \in 0..MaxSent
    BY <1>4, <2>1 DEF Events
  <2> QED
    BY <1>0, <2>1, <2>2 DEF Holdings
<1>13. CASE Collected \/ CollectDeadline
  <2>1. taken' = taken \/ (stop \in 1..MaxSent /\ taken' = Append(taken, stop))
    BY <1>0, <1>13 DEF Collected, CollectDeadline
  <2> QED
    BY <1>0, <1>5, <1>13, <2>1 DEF Collected, CollectDeadline, Holdings
<1>14. CASE Drain
  <2>1. drained \o output \in Seq(1..MaxSent) /\ <<>> \in Seq(1..MaxSent)
    BY <1>0
  <2> QED
    BY <1>0, <1>14, <2>1 DEF Drain, Holdings
<1>15. CASE \E op \in Ops : Call(op)
  BY <1>0, <1>15 DEF Call, Holdings
<1>16. ASSUME NEW m \in Messages, fromAdapter' = Append(fromAdapter, m), UNCHANGED session PROVE Holdings'
  BY <1>0, <1>16, OneMore DEF Holdings, session
<1>17. ASSUME NEW name \in Events, Emit(name), UNCHANGED session PROVE Holdings'
  <2>1. Event(name) \in Messages
    BY <1>17, EventMessage DEF Emit, Types
  <2> QED
    BY <1>16, <1>17, <2>1 DEF Emit
<1>18. CASE Handle
  <2>1. toAdapter[1].cmd \in Cmds /\ toAdapter[1].seq \in 1..MaxSeq
    <3>1. toAdapter \in Seq([cmd : Cmds, seq : 1..MaxSeq]) /\ toAdapter # <<>>
      BY <1>18 DEF TypeOK, Handle
    <3>2. toAdapter[1] \in [cmd : Cmds, seq : 1..MaxSeq]
      BY <3>1, FirstAndRest
    <3> QED
      BY <3>2
  <2>2. \A ok \in BOOLEAN : Response(toAdapter[1].cmd, toAdapter[1].seq, ok) \in Messages
    BY <2>1, ResponseMessage
  <2>3. /\ \/ fromAdapter' = fromAdapter
           \/ \E ok \in BOOLEAN : fromAdapter' = Append(fromAdapter, Response(toAdapter[1].cmd, toAdapter[1].seq, ok))
        /\ UNCHANGED session
    BY <1>18 DEF Handle
  <2> QED
    BY <1>6, <1>16, <2>2, <2>3 DEF session
<1>19. CASE AnswerLaunch
  <2>1. \A ok \in BOOLEAN : Response("launch", owed, ok) \in Messages
    <3>1. "launch" \in Cmds /\ owed \in 1..MaxSeq
      BY <1>19 DEF Cmds, AnswerLaunch, TypeOK
    <3> QED
      BY <3>1, ResponseMessage
  <2> QED
    BY <1>16, <1>19, <2>1 DEF AnswerLaunch
<1>20. CASE Greet \/ Stops \/ Terminates \/ \E name \in Noise : Chatter(name)
  <2>1. Noise \cup {"initialized", "stopped", "terminated"} \subseteq Events
    BY DEF Events
  <2> QED
    BY <1>17, <1>20, <2>1 DEF Greet, Stops, Terminates, Chatter
<1>21. CASE StartsEarly \/ Exits
  BY <1>6, <1>21 DEF StartsEarly, Exits, session
<1>22. CASE Ask \/ Post \/ SendFails \/ GivesUp \/ ReceiveFails
  BY <1>6, <1>22 DEF Ask, Post, SendFails, GivesUp, ReceiveFails
<1>23. CASE UNCHANGED vars
  BY <1>6, <1>23 DEF vars, session
<1> QED
  BY <1>7, <1>8, <1>9, <1>10, <1>11, <1>12, <1>13, <1>14, <1>15, <1>18, <1>19, <1>20, <1>21, <1>22, <1>23
  DEF Next, SessionStep, AdapterStep

\* So does the adapter, with what it has been asked.
LEMMA AdaptedStep ==
    ASSUME Types, TypeOK, Budget, [Next]_vars
    PROVE  Adapted'
<1> DEFINE Requests == [cmd : Cmds, seq : 1..MaxSeq]
<1> USE SessionConstants
<1>0. /\ toAdapter \in Seq(Requests) /\ owed \in 0..MaxSeq /\ handled \in 0..MaxSeq
      /\ alive \in BOOLEAN /\ greeted \in {"no", "due", "yes"}
      /\ debuggee \in {"none", "starting", "running", "stopped", "ended"}
  BY DEF TypeOK
<1>1. ASSUME toAdapter' \in Seq(Requests), UNCHANGED adapter PROVE Adapted'
  BY <1>0, <1>1 DEF Adapted, adapter
<1>2. CASE Ask \/ Post
  <2>1. /\ toAdapter' = Append(toAdapter, [cmd |-> What, seq |-> nextSeq]) /\ UNCHANGED adapter
        /\ Doing("post") \/ (Doing("ask") /\ waiting = 0)
    BY <1>2 DEF Ask, Post, Send
  <2>2. nextSeq \in 1..MaxSeq
    BY <2>1, NumberLeft
  <2>3. What \in Cmds
    <3>1. todo[1] \in Steps
      BY <2>1, FirstAndRest DEF Doing, Types
    <3> QED
      BY <2>1, <3>1 DEF Doing, What, Steps
  <2>4. [cmd |-> What, seq |-> nextSeq] \in Requests
    BY <2>2, <2>3
  <2>5. toAdapter' \in Seq(Requests)
    BY <1>0, <2>1, <2>4, OneMore
  <2> QED
    BY <1>1, <2>1, <2>5
<1>3. CASE Handle
  <2> DEFINE r == toAdapter[1]
  <2>1. toAdapter # <<>> /\ toAdapter' = Tail(toAdapter) /\ handled' = r.seq /\ alive' = alive
        /\ owed' \in {owed, r.seq} /\ greeted' \in {"due", greeted}
    BY <1>3 DEF Handle
  <2>2. debuggee' \in {"starting", "running", debuggee}
    <3>1. \/ debuggee' = "starting"
          \/ \E ok \in BOOLEAN :
               debuggee' = CASE ok /\ r.cmd = "attach" -> "starting"
                             [] ok /\ r.cmd = "continue" -> "running"
                             [] ok /\ r.cmd = "configurationDone" /\ debuggee = "starting" -> "running"
                             [] OTHER -> debuggee
      BY <1>3 DEF Handle
    <3> HIDE DEF r
    <3> QED
      BY <3>1
  <2>3. r \in Requests /\ toAdapter' \in Seq(Requests)
    BY <1>0, <2>1, FirstAndRest
  <2>4. r.seq \in 0..MaxSeq
    BY <2>3
  <2> HIDE DEF r
  <2> QED
    BY <1>0, <2>1, <2>2, <2>3, <2>4 DEF Adapted
<1>4. CASE AnswerLaunch
  BY <1>0, <1>4 DEF AnswerLaunch, Adapted
<1>5. CASE StartsEarly \/ Greet \/ Stops \/ Terminates \/ Exits \/ \E name \in Noise : Chatter(name)
  BY <1>0, <1>5 DEF StartsEarly, Greet, Stops, Terminates, Exits, Chatter, Adapted
<1>6. CASE UNCHANGED <<toAdapter, adapter>>
  BY <1>0, <1>1, <1>6
<1>7. CASE \/ \E op \in Ops : Call(op)
           \/ \E m \in ToSet(fromAdapter) :
                 \/ Answered(m) \/ NotAnswered(m) \/ TakeReceived(m) \/ NotAwaited(m)
                 \/ CollectRefusal(m) \/ Collect(m)
  BY <1>6, <1>7
  DEF Call, Answered, NotAnswered, TakeReceived, NotAwaited, CollectRefusal, Collect
<1>8. CASE \/ Drain \/ SendFails \/ TakeBuffered \/ CollectBuffered
           \/ Collected \/ CollectDeadline \/ GivesUp \/ ReceiveFails
  BY <1>6, <1>8
  DEF Drain, SendFails, TakeBuffered, CollectBuffered, Collected, CollectDeadline, GivesUp, ReceiveFails
<1>9. CASE UNCHANGED vars
  BY <1>6, <1>9 DEF vars
<1> QED
  BY <1>2, <1>3, <1>4, <1>5, <1>7, <1>8, <1>9 DEF Next, SessionStep, AdapterStep

\* The session and the adapter stay what they are: the buffer of events within its cap,
\* the numbers of requests and events within what the session may still send, a response
\* awaited only by a request that was sent.
THEOREM TypeCorrect == Spec => []TypeOK
<1> DEFINE Kept == Types /\ Capped /\ Budget /\ TypeOK
<1> USE SessionConstants
<1>1. Init => Kept
  <2> SUFFICES ASSUME Init PROVE Kept
    OBVIOUS
  <2>1. \A S : <<>> \in Seq(S) /\ Len(<<>>) = 0
    BY EmptySeq
  <2>2. Types /\ Capped
    BY <2>1 DEF Init, Types, Capped
  <2>3. Budget
    BY <2>1 DEF Init, Budget
  <2>4. /\ nextSeq \in 1..(MaxSeq + 1) /\ 0 \in 0..MaxSeq /\ 0 \in 0..MaxSent
        /\ Len(pending) <= MaxPending
    BY <2>1 DEF Init
  <2>5. TypeOK
    BY <2>1, <2>4 DEF Init, TypeOK
  <2> QED
    BY <2>2, <2>3, <2>5
<1>2. Kept /\ [Next]_vars => Kept'
  <2> SUFFICES ASSUME Kept, [Next]_vars PROVE Kept'
    OBVIOUS
  <2>1. Types' /\ Capped' /\ Stations' /\ Budget'
    BY TypesStep, CappedStep, StationsStep
  <2>2. Holdings' /\ Adapted'
    BY <2>1, HoldingsStep, AdaptedStep
  <2>3. TypeOK'
    <3>1. (call' = "none" <=> todo' = <<>>) /\ Len(pending') <= MaxPending
      BY <2>1 DEF Types, Capped
    <3> QED
      BY <2>1, <2>2, <3>1 DEF TypeOK, Stations, Holdings, Adapted
  <2> QED
    BY <2>1, <2>3
<1> QED
  BY <1>1, <1>2, PTL DEF Spec
=============================================================================
