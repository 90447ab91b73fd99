------------------------- MODULE InterceptorChainProofs -------------------------
(***************************************************************************)
(* What the compression of a message leaves of it, for every chain that      *)
(* begins with capping, every configuration and every message.  First where  *)
(* a message is; then what the algorithms, folds over sequences, compute, by *)
(* induction over their input; at last that no failure loses a message, that *)
(* whoever reads a written one gets from it what was sent, and that the      *)
(* assumptions on configurations and chain are met by Configuration.         *)
(***************************************************************************)
EXTENDS InterceptorChain, Configuration, FiniteSetTheorems, SequenceTheorems, WellFoundedInduction, TLAPS

Parts == {"kind", "text", "items", "category", "fields"}

\* The interceptors among the first n that have worked, or failed, on the message.
Ran(n) == {k \in 1..n : RunsOn(Chain[k])}
Reached == IF verdict = "ok" THEN next - 1 ELSE next

Types ==
  /\ config \in Configs
  /\ input \in Messages \cup {NoMessage} /\ DOMAIN msg = Parts /\ msg.kind = input.kind
  /\ next \in 1..(Len(Chain) + 1)
  /\ path \in {"none", "proxy", "tool", "off"}
  /\ verdict \in {"ok", "failed", "none"}
  /\ sent \in {"idle", "pending", "nothing", "raw", "json", "toon"}
  /\ counts.processed \in Nat /\ counts.failures \in {0, 1} /\ DOMAIN counts = {"processed", "failures"}

\* How far the message is.
Course ==
  /\ sent = "idle" <=> path = "none"
  /\ sent = "idle" => input = NoMessage /\ counts = NoCounts
  /\ input.kind = "malformed" => path = "proxy" /\ sent \in {"pending", "raw"}
  /\ verdict # "ok" => path = "proxy" /\ ~Unprocessed /\ next <= Len(Chain) /\ Chain[next] = "custom"
  /\ sent = "nothing" => verdict = "none" \/ path # "proxy"
  /\ sent = "raw" => verdict # "none"
  /\ Written /\ path = "proxy" => next > 1

Counted ==
  /\ counts.failures = 1 <=> config.metrics /\ verdict = "failed"
  /\ config.metrics /\ path = "proxy" /\ ~Unprocessed =>
       counts.failures + counts.processed = Cardinality(Ran(Reached))

IInv == Types /\ Course /\ Counted

----------------------------------------------------------------------------

\* The chain begins with capping, and a message is one of the kinds.
LEMMA ChainFacts ==
  /\ Len(Chain) \in Nat \ {0} /\ Chain[1] = "capping"
  /\ \A k \in 1..Len(Chain) : Chain[k] \in {"capping", "custom"} \cup Compressors /\ (Chain[k] = "capping" <=> k = 1)
  /\ \A m \in Messages \cup {NoMessage} : DOMAIN m = Parts /\ m.kind \in Kinds
<1>1. DOMAIN NoMessage = Parts /\ NoMessage.kind \in Kinds
  BY DEF NoMessage, Parts, Kinds
<1> QED
  BY <1>1, ChainConstants DEF Parts, IsMessage

\* An interceptor that has its turn is counted with those before it, if it runs.
LEMMA OneMore ==
  ASSUME NEW n \in Nat
  PROVE  /\ Cardinality(Ran(n)) \in Nat
         /\ Cardinality(Ran(0)) = 0
         /\ Cardinality(Ran(n + 1)) = Cardinality(Ran(n)) + (IF RunsOn(Chain[n + 1]) THEN 1 ELSE 0)
<1>1. IsFiniteSet(Ran(n)) /\ n + 1 \notin Ran(n)
  <2>1. IsFiniteSet(1..n)
    BY FS_Interval
  <2>2. Ran(n) \in SUBSET (1..n)
    BY DEF Ran
  <2> QED
    BY <2>1, <2>2, FS_Subset DEF Ran
<1>2. Cardinality(Ran(n)) \in Nat
  BY <1>1, FS_CardinalityType
<1>3. Ran(0) = {}
  BY DEF Ran
<1>4. CASE RunsOn(Chain[n + 1])
  <2>1. Ran(n + 1) = Ran(n) \cup {n + 1}
    BY <1>4 DEF Ran
  <2>2. Cardinality(Ran(n) \cup {n + 1}) = Cardinality(Ran(n)) + 1
    BY <1>1, FS_AddElement
  <2>3. Cardinality(Ran(n + 1)) = Cardinality(Ran(n)) + 1
    BY <2>1, <2>2
  <2> QED
    BY <1>2, <1>3, <1>4, <2>3, FS_EmptySet
<1>5. CASE ~RunsOn(Chain[n + 1])
  <2>1. Ran(n + 1) = Ran(n)
    <3>1. \A k \in 1..(n + 1) : k \in 1..n \/ k = n + 1
      OBVIOUS
    <3> QED
      BY <1>5, <3>1 DEF Ran
  <2> QED
    BY <1>2, <1>3, <1>5, <2>1, FS_EmptySet
<1> QED
  BY <1>4, <1>5

\* What the chain makes of a message is of its kind.
LEMMA KindKept ==
  ASSUME NEW m, DOMAIN m = Parts, NEW limits
  PROVE  /\ DOMAIN Cap(m, limits) = Parts /\ Cap(m, limits).kind = m.kind
         /\ Cap(m, limits).fields = m.fields
         /\ m.kind # "output" => Cap(m, limits).text = m.text
         /\ \A name \in Compressors : m.kind \in AppliesTo(name) =>
              DOMAIN Compress(m, limits) = Parts /\ Compress(m, limits).kind = m.kind
<1>1. /\ DOMAIN Cap(m, limits) = Parts /\ Cap(m, limits).kind = m.kind
      /\ Cap(m, limits).fields = m.fields
      /\ m.kind # "output" => Cap(m, limits).text = m.text
  BY DEF Cap, Parts
<1>2. ASSUME NEW name \in Compressors, m.kind \in AppliesTo(name)
      PROVE  m.kind \in {"output", "evaluate", "exceptionInfo", "variables", "stackTrace", "scopes"}
  BY <1>2 DEF Compressors, AppliesTo
<1>3. ASSUME m.kind \in {"output", "evaluate", "exceptionInfo", "variables", "stackTrace", "scopes"}
      PROVE  DOMAIN Compress(m, limits) = Parts /\ Compress(m, limits).kind = m.kind
  BY <1>3 DEF Compress, Parts
<1> QED
  BY <1>1, <1>2, <1>3

\* The invariant holds before the first message, ...
LEMMA InitInv == Init => IInv
<1> SUFFICES ASSUME Init PROVE IInv
  OBVIOUS
<1>1. Types
  BY ChainFacts DEF Init, Types, NoCounts, NoMessage, Parts
<1>2. Course
  BY DEF Init, Course, Written, NoMessage
<1>3. Counted
  BY DEF Init, Counted, NoCounts
<1> QED
  BY <1>1, <1>2, <1>3 DEF IInv

\* Whatever a step in the chain does, it leaves these alone.
LEMMA SameRuns ==
  ASSUME config' = config, msg'.kind = msg.kind
  PROVE  /\ Unprocessed' = Unprocessed
         /\ \A name : RunsOn(name)' = RunsOn(name)
         /\ \A n : Ran(n)' = Ran(n)
  BY DEF Unprocessed, Passthrough, RunsOn, IsInterceptorEnabled, Ran

\* The message goes on to the next interceptor, which has worked on it or not.
LEMMA GoesOn ==
  ASSUME IInv, Skip \/ Intercept
  PROVE  IInv'
<1> USE ChainFacts
<1>1. /\ Types /\ Course /\ Counted
      /\ UNCHANGED <<config, input, path, verdict, sent>>
      /\ sent = "pending" /\ path = "proxy" /\ verdict = "ok" /\ ~Unprocessed
      /\ next \in 1..Len(Chain) /\ next' = next + 1
  BY DEF IInv, Types, Skip, Intercept, InChain
<1>2. Chain[next] \in {"capping", "custom"} \cup Compressors /\ (Chain[next] = "capping" <=> next = 1)
  BY <1>1
<1>3. DOMAIN msg = Parts /\ msg.kind = input.kind
  BY <1>1 DEF Types
<1>4. /\ DOMAIN msg' = Parts /\ msg'.kind = msg.kind
      /\ counts'.processed \in Nat /\ counts'.failures = counts.failures /\ DOMAIN counts' = DOMAIN counts
      /\ config.metrics => counts'.processed = counts.processed + (IF RunsOn(Chain[next]) THEN 1 ELSE 0)
  <2>1. counts.processed \in Nat /\ DOMAIN counts = {"processed", "failures"}
    BY <1>1 DEF Types
  <2>2. CASE Skip
    BY <1>3, <2>1, <2>2 DEF Skip, Applies
  <2>3. CASE Intercept
    <3>1. RunsOn(Chain[next]) /\ counts' = (IF config.metrics THEN [counts EXCEPT !.processed = @ + 1] ELSE counts)
      BY <2>3 DEF Intercept, Applies, Measure
    <3>2. msg.kind \in AppliesTo(Chain[next])
      BY <3>1 DEF RunsOn
    <3>3. DOMAIN msg' = Parts /\ msg'.kind = msg.kind
      BY <1>2, <1>3, <2>3, <3>2, KindKept DEF Intercept
    <3> QED
      BY <2>1, <3>1, <3>3
  <2> QED
    BY <2>2, <2>3, <1>1 DEF Skip, Intercept
<1>5. Types'
  BY <1>1, <1>3, <1>4 DEF Types
<1>6. Unprocessed' = Unprocessed /\ \A n : Ran(n)' = Ran(n)
  BY <1>1, <1>4, SameRuns
<1>7. Course'
  BY <1>1, <1>6 DEF Course, Written
<1>8. Counted'
  <2>1. Reached = next - 1 /\ Reached' = next
    BY <1>1 DEF Reached
  <2>2. Cardinality(Ran(next)) = Cardinality(Ran(next - 1)) + (IF RunsOn(Chain[next]) THEN 1 ELSE 0)
        /\ Cardinality(Ran(next - 1)) \in Nat
    <3>1. next - 1 \in Nat /\ next = (next - 1) + 1
      BY <1>1
    <3>2. PICK n \in Nat : n = next - 1
      BY <3>1
    <3>3. n + 1 = next
      BY <3>1, <3>2
    <3>4. /\ Cardinality(Ran(n)) \in Nat
          /\ Cardinality(Ran(n + 1)) = Cardinality(Ran(n)) + (IF RunsOn(Chain[n + 1]) THEN 1 ELSE 0)
      BY OneMore
    <3> QED
      BY <3>2, <3>3, <3>4
  <2>3. counts.processed \in Nat /\ counts.failures \in {0, 1}
    BY <1>1 DEF Types
  <2>4. config.metrics => counts'.failures + counts'.processed = Cardinality(Ran(next))
    BY <1>1, <1>4, <2>1, <2>2, <2>3 DEF Counted
  <2> QED
    BY <1>1, <1>4, <1>6, <2>1, <2>4 DEF Counted
<1> QED
  BY <1>5, <1>7, <1>8 DEF IInv

\* A custom interceptor ends the chain.
LEMMA ChainBreaks ==
  ASSUME IInv, InterceptorFails \/ InterceptorDrops
  PROVE  IInv'
<1> USE ChainFacts
<1>1. /\ Types /\ Course /\ Counted
      /\ UNCHANGED <<config, input, path, msg, next, sent>>
      /\ sent = "pending" /\ path = "proxy" /\ verdict = "ok" /\ ~Unprocessed
      /\ next \in 1..Len(Chain) /\ Chain[next] = "custom" /\ RunsOn(Chain[next])
  BY DEF IInv, Types, InterceptorFails, InterceptorDrops, InChain, Applies
<1>2. counts.processed \in Nat /\ counts.failures \in {0, 1} /\ DOMAIN counts = {"processed", "failures"}
  BY <1>1 DEF Types
<1>3. counts.failures = 0
  BY <1>1, <1>2 DEF Counted
<1>4. /\ verdict' \in {"failed", "none"}
      /\ counts'.processed \in Nat /\ counts'.failures \in {0, 1} /\ DOMAIN counts' = {"processed", "failures"}
      /\ counts'.failures = 1 <=> config.metrics /\ verdict' = "failed"
      /\ config.metrics => counts'.failures + counts'.processed = counts.processed + 1
  <2>1. CASE InterceptorFails
    <3>1. verdict' = "failed" /\ counts' = (IF config.metrics THEN [counts EXCEPT !.failures = @ + 1] ELSE counts)
      BY <2>1 DEF InterceptorFails, Measure
    <3> QED
      BY <1>2, <1>3, <3>1
  <2>2. CASE InterceptorDrops
    <3>1. verdict' = "none" /\ counts' = (IF config.metrics THEN [counts EXCEPT !.processed = @ + 1] ELSE counts)
      BY <2>2 DEF InterceptorDrops, Measure
    <3> QED
      BY <1>2, <1>3, <3>1
  <2> QED
    BY <2>1, <2>2, <1>1
<1>5. Unprocessed' = Unprocessed /\ \A n : Ran(n)' = Ran(n)
  BY <1>1, SameRuns
<1>6. Types'
  BY <1>1, <1>4 DEF Types
<1>7. Course'
  BY <1>1, <1>4, <1>5 DEF Course, Written
<1>8. Counted'
  <2>1. Reached = next - 1 /\ Reached' = next
    BY <1>1, <1>4 DEF Reached
  <2>2. Cardinality(Ran(next)) = Cardinality(Ran(next - 1)) + 1 /\ Cardinality(Ran(next - 1)) \in Nat
    <3>1. PICK n \in Nat : n = next - 1
      BY <1>1
    <3>2. n + 1 = next
      BY <1>1, <3>1
    <3>3. Cardinality(Ran(n)) \in Nat /\ Cardinality(Ran(n + 1)) = Cardinality(Ran(n)) + 1
      BY <1>1, <3>2, OneMore
    <3> QED
      BY <3>1, <3>2, <3>3
  <2>3. config.metrics => counts'.failures + counts'.processed = Cardinality(Ran(next))
    BY <1>1, <1>2, <1>3, <1>4, <2>1, <2>2 DEF Counted
  <2> QED
    BY <1>1, <1>4, <1>5, <2>1, <2>3 DEF Counted
<1> QED
  BY <1>6, <1>7, <1>8 DEF IInv

\* The message is written, raw or as the format says.
LEMMA Writes ==
  ASSUME IInv, Deliver \/ EncodeFails
  PROVE  IInv'
<1> USE ChainFacts
<1>1. /\ Types /\ Course /\ Counted
      /\ UNCHANGED <<config, input, path, msg, next, verdict, counts>>
      /\ sent = "pending" /\ path = "proxy" /\ msg.kind = input.kind
      /\ Unprocessed \/ verdict # "ok" \/ next > Len(Chain)
  BY DEF IInv, Types, Deliver, EncodeFails, ChainDone
<1>2. config.format \in {"json", "toon", "passthrough"} /\ (config.format = "passthrough" => Unprocessed)
      /\ (input.kind = "malformed" => Unprocessed)
  BY <1>1, ChainConstants DEF Types, Unprocessed, Passthrough
<1>3. sent' = (IF Unprocessed THEN "raw" ELSE IF verdict = "none" THEN "nothing" ELSE config.format)
      \/ (sent' = "raw" /\ verdict # "none")
  BY DEF Deliver, EncodeFails, Raw
<1>4. ~Unprocessed => next > 1
  <2>1. next \in 1..(Len(Chain) + 1) /\ (verdict # "ok" => Chain[next] = "custom")
    BY <1>1 DEF Types, Course
  <2> QED
    BY <1>1, <2>1
<1>5. Types'
  BY <1>1, <1>2, <1>3 DEF Types
<1>6. Unprocessed' = Unprocessed /\ Reached' = Reached /\ \A n : Ran(n)' = Ran(n)
  BY <1>1, SameRuns DEF Reached
<1>7. Course'
  BY <1>1, <1>2, <1>3, <1>4, <1>6 DEF Course, Written
<1>8. Counted'
  BY <1>1, <1>6 DEF Counted
<1> QED
  BY <1>5, <1>7, <1>8 DEF IInv

\* A message comes in, or a call has returned.
LEMMA StartsAnew ==
  ASSUME IInv, Receive \/ Return
  PROVE  IInv'
<1> USE ChainFacts
<1>1. /\ Types /\ Course /\ Counted /\ config' = config
      /\ next' = 1 /\ verdict' = "ok" /\ msg' = input' /\ input' \in Messages \cup {NoMessage}
      /\ path' \in {"none", "proxy", "tool", "off"}
      /\ \/ sent' = "pending" /\ path' # "none" /\ (input'.kind = "malformed" => path' = "proxy")
         \/ sent' = "idle" /\ path' = "none" /\ input' = NoMessage
  BY DEF IInv, Receive, Return
<1>2. counts' = NoCounts
  BY <1>1 DEF Receive, Return, Course
<1>3. DOMAIN msg' = Parts /\ Reached' = 0 /\ NoMessage.kind # "malformed"
  BY <1>1 DEF Reached, NoMessage
<1>4. Types'
  BY <1>1, <1>2, <1>3 DEF Types, NoCounts
<1>5. Course'
  BY <1>1, <1>2, <1>3 DEF Course, Written
<1>6. Counted'
  <2>1. Ran(0)' = {}
    BY DEF Ran
  <2>2. Cardinality(Ran(Reached))' = 0
    BY <1>3, <2>1, FS_EmptySet
  <2> QED
    BY <1>1, <1>2, <2>2 DEF Counted, NoCounts
<1> QED
  BY <1>4, <1>5, <1>6 DEF IInv

\* A tool or an agent gets an answer, from one compressor or none.
LEMMA Answers ==
  ASSUME IInv, CompressForTool \/ KeepForAgent \/ CallFails
  PROVE  IInv'
<1> USE ChainFacts
<1>1. /\ Types /\ Course /\ Counted
      /\ UNCHANGED <<config, input, path, next, verdict, counts>>
      /\ path \in {"tool", "off"} /\ sent = "pending" /\ sent' \in {"toon", "nothing"}
      /\ path = "off" => msg' = msg
  BY DEF IInv, CompressForTool, KeepForAgent, CallFails
<1>2. verdict = "ok" /\ input.kind # "malformed" /\ input.kind \in Kinds
  BY <1>1 DEF Course, Types
<1>3. DOMAIN msg' = Parts /\ msg'.kind = input.kind
  <2>1. DOMAIN msg = Parts /\ msg.kind = input.kind
    BY <1>1 DEF Types
  <2>2. ASSUME msg.kind \in {"output", "evaluate", "exceptionInfo", "variables", "stackTrace", "scopes"}
        PROVE  DOMAIN Compress(msg, ToolLimits) = Parts /\ Compress(msg, ToolLimits).kind = msg.kind
    <3>1. \E name \in Compressors : msg.kind \in AppliesTo(name)
      BY <2>2 DEF Compressors, AppliesTo
    <3> QED
      BY <2>1, <3>1, KindKept
  <2>3. CASE CompressForTool
    BY <1>2, <2>1, <2>2, <2>3 DEF CompressForTool, Kinds
  <2>4. CASE KeepForAgent \/ CallFails
    BY <2>1, <2>4 DEF KeepForAgent, CallFails
  <2> QED
    BY <2>3, <2>4
<1>4. Types'
  BY <1>1, <1>3 DEF Types
<1>5. Course'
  BY <1>1, <1>2 DEF Course, Written
<1>6. Counted'
  BY <1>1 DEF Counted
<1> QED
  BY <1>4, <1>5, <1>6 DEF IInv

\* ... and every step keeps it.
LEMMA NextInv == IInv /\ [Next]_vars => IInv'
<1> SUFFICES ASSUME IInv, [Next]_vars PROVE IInv'
  OBVIOUS
<1>1. CASE UNCHANGED vars
  <2>1. UNCHANGED <<config, input, path, msg, next, verdict, counts, sent>>
    BY <1>1 DEF vars
  <2>2. Unprocessed' = Unprocessed /\ Reached' = Reached /\ \A n : Ran(n)' = Ran(n)
    BY <2>1, SameRuns DEF Reached
  <2>3. Types' /\ Course'
    BY <2>1, <2>2 DEF IInv, Types, Course, Written
  <2>4. Counted'
    BY <2>1, <2>2 DEF IInv, Counted
  <2> QED
    BY <2>3, <2>4 DEF IInv
<1> QED
  BY <1>1, GoesOn, ChainBreaks, Writes, StartsAnew, Answers DEF Next

\* Where a message is and what has been counted of it fit together in every state of Proxy::process_server_message.
THEOREM Invariance == Spec => []IInv
  BY InitInv, NextInv, PTL DEF Spec

----------------------------------------------------------------------------
(* Induction over the numbers and over sequences, by least counterexample, and what it gives
   for folds: FoldLeft and FoldLeftDomain are defined by CHOOSE of a recursive function. *)

\* Induction: a set that has 0 and with a number the next one has them all.
LEMMA UpTo ==
  ASSUME NEW N \in Nat, NEW A, 0 \in A, \A n \in 0..(N - 1) : n \in A => n + 1 \in A
  PROVE  0..N \subseteq A
<1> DEFINE R == {ss \in Nat \X Nat : ss[1] < ss[2]}
           B == {n \in 0..N : n \notin A}
<1>1. IsWellFoundedOn(R, Nat)
  BY NatLessThanWellFounded DEF OpToRel
<1>2. \A x, y \in Nat : <<y, x>> \in R <=> y < x
  OBVIOUS
<1> HIDE DEF R
<1>3. SUFFICES ASSUME B # {} PROVE FALSE
  OBVIOUS
<1>4. B \subseteq Nat
  OBVIOUS
<1>5. PICK x \in B : \A y \in B : ~(<<y, x>> \in R)
  BY <1>1, <1>3, <1>4, WFMin
<1>6. x \in 0..N /\ x \notin A /\ x # 0
  BY <1>5
<1>7. x - 1 \in 0..(N - 1) /\ x - 1 \notin A
  BY <1>6
<1>8. x - 1 \in B
  BY <1>7
<1>9. x - 1 \in Nat /\ x \in Nat
  BY <1>6, <1>7
<1>10. ~(<<x - 1, x>> \in R)
  BY <1>5, <1>8
<1>11. ~(x - 1 < x)
  BY <1>2, <1>9, <1>10
<1> QED
  BY <1>9, <1>11

\* The largest of some numbers.
LEMMA Greatest ==
  ASSUME NEW N \in Nat, NEW S, S \subseteq 1..N, S # {}
  PROVE  Max(S) \in S /\ \A y \in S : y <= Max(S)
<1> DEFINE A == {n \in 0..N : \A T \in SUBSET (1..n) : T # {} => \E x \in T : \A y \in T : x >= y}
<1>1. 0 \in A
  <2>1. 1..0 = {}
    OBVIOUS
  <2>2. \A T \in SUBSET (1..0) : T # {} => \E x \in T : \A y \in T : x >= y
    BY <2>1
  <2> QED
    BY <2>2
<1>2. ASSUME NEW n \in 0..(N - 1), n \in A PROVE n + 1 \in A
  <2> SUFFICES ASSUME NEW T \in SUBSET (1..(n + 1)), T # {} PROVE \E x \in T : \A y \in T : x >= y
    OBVIOUS
  <2>1. CASE n + 1 \in T
    BY <2>1
  <2>2. CASE n + 1 \notin T
    <3>1. T \in SUBSET (1..n)
      BY <2>2
    <3> QED
      BY <1>2, <3>1
  <2> QED
    BY <2>1, <2>2
<1> HIDE DEF A
<1>3. N \in A
  BY <1>1, <1>2, UpTo
<1>4. PICK x \in S : \A y \in S : x >= y
  BY <1>3 DEF A
<1>5. Max(S) \in S /\ \A y \in S : Max(S) >= y
  BY <1>4 DEF Max
<1> QED
  BY <1>5

\* The largest number up to n is n.
LEMMA GreatestUpTo ==
  ASSUME NEW n \in Nat, n > 0
  PROVE  Max(1..n) = n
<1>1. Max(1..n) \in 1..n /\ \A y \in 1..n : y <= Max(1..n)
  <2>1. 1..n \subseteq 1..n /\ 1..n # {}
    OBVIOUS
  <2> QED
    BY <2>1, Greatest
<1>2. n \in 1..n
  OBVIOUS
<1>3. Max(1..n) \in Int /\ Max(1..n) <= n /\ n <= Max(1..n)
  BY <1>1, <1>2
<1> QED
  BY <1>3

\* The step function of a fold from b, with values in V for elements in E.
Steps(G, b, V, E) == G \in [V \X E -> V] /\ b \in V

\* The equation of a fold over the positions of s, the last of them taken off first.
FoldEquation(h, G, b, s) ==
  h = [S \in SUBSET DOMAIN s |-> IF S = {} THEN b ELSE G[<<h[S \ {Max(S)}], s[Max(S)]>>]]

\* There is a fold.
LEMMA FoldExists ==
  ASSUME NEW V, NEW E, NEW G, NEW b, Steps(G, b, V, E), NEW s \in Seq(E)
  PROVE  \E h \in [SUBSET DOMAIN s -> V] : FoldEquation(h, G, b, s)
<1> USE DEF Steps
<1> DEFINE N == Len(s)
           Eq(h, n) == \A S \in SUBSET (1..n) : h[S] = IF S = {} THEN b ELSE G[<<h[S \ {Max(S)}], s[Max(S)]>>]
           A == {n \in 0..N : \E h \in [SUBSET (1..n) -> V] : Eq(h, n)}
<1>0. N \in Nat /\ DOMAIN s = 1..N /\ \A i \in 1..N : s[i] \in E
  BY LenProperties
<1>1. 0 \in A
  <2> DEFINE h == [S \in SUBSET (1..0) |-> b]
  <2>1. h \in [SUBSET (1..0) -> V] /\ 1..0 = {}
    OBVIOUS
  <2>2. Eq(h, 0)
    BY <2>1
  <2> HIDE DEF h
  <2>3. \E f \in [SUBSET (1..0) -> V] : Eq(f, 0)
    BY <2>1, <2>2
  <2> HIDE DEF Eq
  <2>4. 0 \in 0..N
    BY <1>0
  <2> QED
    BY <2>3, <2>4, Zenon
<1>2. ASSUME NEW n \in 0..(N - 1), n \in A PROVE n + 1 \in A
  <2>1. PICK g \in [SUBSET (1..n) -> V] : Eq(g, n)
    BY <1>2
  <2> DEFINE h == [S \in SUBSET (1..(n + 1)) |-> IF n + 1 \in S THEN G[<<g[S \ {n + 1}], s[n + 1]>>] ELSE g[S]]
  <2>2. ASSUME NEW S \in SUBSET (1..(n + 1))
        PROVE  /\ h[S] \in V
               /\ h[S] = IF S = {} THEN b ELSE G[<<h[S \ {Max(S)}], s[Max(S)]>>]
    <3>0. s[n + 1] \in E /\ n \in Nat /\ n + 1 \in Nat
      BY <1>0
    <3>1. CASE n + 1 \in S
      <4>1. Max(S) \in S /\ \A y \in S : y <= Max(S)
        <5>1. S \subseteq 1..(n + 1) /\ S # {}
          BY <3>1
        <5> HIDE DEF h
        <5> QED
          BY <3>0, <5>1, Greatest
      <4>2. Max(S) = n + 1
        <5>1. Max(S) \in 1..(n + 1) /\ n + 1 <= Max(S)
          BY <3>1, <4>1
        <5> QED
          BY <3>0, <5>1
      <4>3. S \ {n + 1} \in SUBSET (1..n) /\ S \ {n + 1} \in SUBSET (1..(n + 1)) /\ n + 1 \notin S \ {n + 1}
        BY <3>0
      <4>4. h[S \ {n + 1}] = g[S \ {n + 1}] /\ g[S \ {n + 1}] \in V
        BY <4>3
      <4>5. h[S] = G[<<g[S \ {n + 1}], s[n + 1]>>]
        BY <3>1
      <4> QED
        BY <3>0, <3>1, <4>2, <4>4, <4>5
    <3>2. CASE n + 1 \notin S
      <4>1. S \in SUBSET (1..n)
        BY <3>0, <3>2
      <4>2. h[S] = g[S] /\ g[S] \in V
        BY <3>2, <4>1
      <4>3. ASSUME S # {} PROVE h[S \ {Max(S)}] = g[S \ {Max(S)}]
        <5>1. S \ {Max(S)} \in SUBSET (1..(n + 1)) /\ n + 1 \notin S \ {Max(S)}
          BY <3>2
        <5> QED
          BY <5>1
      <4>4. g[S] = IF S = {} THEN b ELSE G[<<g[S \ {Max(S)}], s[Max(S)]>>]
        BY <2>1, <4>1
      <4> QED
        BY <4>2, <4>3, <4>4
    <3> QED
      BY <3>1, <3>2
  <2>3. h \in [SUBSET (1..(n + 1)) -> V]
    <3>1. h = [S \in SUBSET (1..(n + 1)) |-> h[S]]
      OBVIOUS
    <3> HIDE DEF h
    <3> QED
      BY <2>2, <3>1
  <2>4. Eq(h, n + 1)
    BY <2>2
  <2> HIDE DEF h
  <2>5. n + 1 \in 0..N
    BY <1>0
  <2> QED
    BY <2>3, <2>4, <2>5
<1> HIDE DEF A
<1>3. N \in A
  <2>1. \A n \in 0..(N - 1) : n \in A => n + 1 \in A
    BY <1>2
  <2> HIDE DEF N
  <2>2. 0..N \subseteq A
    BY <1>0, <1>1, <2>1, UpTo
  <2> QED
    BY <1>0, <2>2
<1>4. PICK h \in [SUBSET (1..N) -> V] : Eq(h, N)
  BY <1>3 DEF A
<1>5. h = [S \in SUBSET DOMAIN s |-> h[S]]
  BY <1>0
<1>6. FoldEquation(h, G, b, s)
  BY <1>0, <1>4, <1>5 DEF FoldEquation
<1> QED
  BY <1>0, <1>6

\* The fold of s by G from b.
Folded(G, b, s) == (CHOOSE h : FoldEquation(h, G, b, s))[DOMAIN s]

\* it satisfies the equation of a fold, as long as it stays within V; O is what it is built with.
FoldsTo(it, O, V, G, b, s) ==
  /\ it = [S \in SUBSET DOMAIN s |-> IF S = {} THEN b ELSE O[S]]
  /\ \A S \in SUBSET DOMAIN s :
       S # {} /\ it[S \ {Max(S)}] \in V => O[S] = G[<<it[S \ {Max(S)}], s[Max(S)]>>]

\* What satisfies the equation of a fold, as long as it stays within V, is it.
LEMMA FoldIs ==
  ASSUME NEW V, NEW E, NEW G, NEW b, Steps(G, b, V, E), NEW s \in Seq(E), NEW it, NEW O,
         FoldsTo(it, O, V, G, b, s)
  PROVE  it[DOMAIN s] = Folded(G, b, s) /\ Folded(G, b, s) \in V
<1> DEFINE N == Len(s)
           h == CHOOSE f : FoldEquation(f, G, b, s)
           Agree(n) == \A S \in SUBSET (1..n) : it[S] = h[S] /\ h[S] \in V
           A == {n \in 0..N : Agree(n)}
<1>0. /\ N \in Nat /\ DOMAIN s = 1..N /\ \A i \in 1..N : s[i] \in E
      /\ b \in V /\ \A p \in V, e \in E : G[<<p, e>>] \in V
  BY LenProperties DEF Steps
<1>1. FoldEquation(h, G, b, s)
  <2>1. \E f : FoldEquation(f, G, b, s)
    BY FoldExists
  <2> QED
    BY <2>1
<1> HIDE DEF h, N
<1>2. \A S \in SUBSET (1..N) : h[S] = IF S = {} THEN b ELSE G[<<h[S \ {Max(S)}], s[Max(S)]>>]
  BY <1>0, <1>1 DEF FoldEquation
<1>3. \A S \in SUBSET (1..N) : it[S] = IF S = {} THEN b ELSE O[S]
  BY <1>0 DEF FoldsTo
<1>4. Agree(0)
  <2>1. 1..0 = {} /\ {} \in SUBSET (1..N)
    OBVIOUS
  <2>2. \A S \in SUBSET (1..0) : S = {}
    BY <2>1
  <2> QED
    BY <1>0, <1>2, <1>3, <2>1, <2>2
<1>5. ASSUME NEW n \in 0..(N - 1), Agree(n) PROVE Agree(n + 1)
  <2> SUFFICES ASSUME NEW S \in SUBSET (1..(n + 1)) PROVE it[S] = h[S] /\ h[S] \in V
    OBVIOUS
  <2>1. n \in Nat /\ n + 1 \in Nat /\ n + 1 <= N
    BY <1>0
  <2>2. S \in SUBSET (1..N)
    BY <1>0, <2>1
  <2>3. CASE S = {}
    BY <1>0, <1>2, <1>3, <2>2, <2>3
  <2>4. CASE S # {}
    <3> DEFINE m == Max(S)
               T == S \ {m}
    <3>1. m \in S /\ \A y \in S : y <= m
      BY <2>1, <2>4, Greatest
    <3> HIDE DEF m
    <3>2. m \in 1..(n + 1) /\ m \in 1..N
      BY <2>2, <3>1
    <3>3. T \in SUBSET (1..n)
      <4> SUFFICES ASSUME NEW y \in T PROVE y \in 1..n
        OBVIOUS
      <4>1. y \in 1..(n + 1) /\ y <= m /\ y # m
        BY <3>1
      <4> QED
        BY <2>1, <3>2, <4>1
    <3>4. it[T] = h[T] /\ h[T] \in V
      BY <1>5, <3>3
    <3>5. s[m] \in E
      BY <1>0, <3>2
    <3>6. O[S] = G[<<it[T], s[m]>>]
      BY <1>0, <2>2, <2>4, <3>4 DEF m, FoldsTo
    <3>7. h[S] = G[<<h[T], s[m]>>]
      BY <1>2, <2>2, <2>4 DEF m
    <3>8. it[S] = O[S]
      BY <1>3, <2>2, <2>4
    <3> HIDE DEF T
    <3>9. G[<<h[T], s[m]>>] \in V
      BY <1>0, <3>4, <3>5
    <3> QED
      BY <3>4, <3>6, <3>7, <3>8, <3>9
  <2> QED
    BY <2>3, <2>4
<1> HIDE DEF Agree
<1>6. 0 \in A
  BY <1>0, <1>4
<1>7. \A n \in 0..(N - 1) : n \in A => n + 1 \in A
  BY <1>0, <1>5
<1> HIDE DEF A
<1>8. 0..N \subseteq A
  BY <1>0, <1>6, <1>7, UpTo
<1>9. Agree(N)
  BY <1>0, <1>8 DEF A
<1> QED
  BY <1>0, <1>9 DEF Agree, Folded, h

\* Sequences: what holds of the empty one, and of one with one more at its end, holds of all.
LEMMA BySnoc ==
  ASSUME NEW E, NEW A, <<>> \in A, \A s \in Seq(E), e \in E : s \in A => Append(s, e) \in A
  PROVE  Seq(E) \subseteq A
<1> SUFFICES ASSUME NEW s \in Seq(E) PROVE s \in A
  OBVIOUS
<1> DEFINE N == Len(s)
           P(n) == SubSeq(s, 1, n) \in A
           B == {n \in 0..N : P(n)}
<1>0. N \in Nat /\ SubSeq(s, 1, N) = s /\ \A i \in 1..N : s[i] \in E
  BY LenProperties, SubSeqFull
<1> HIDE DEF N
<1>1. P(0)
  <2>1. SubSeq(s, 1, 0) = <<>>
    BY SubSeqEmpty
  <2> QED
    BY <2>1
<1>2. ASSUME NEW n \in 0..(N - 1), P(n) PROVE P(n + 1)
  <2>1. n \in Nat /\ n + 1 <= N /\ n <= N
    BY <1>0
  <2>2. SubSeq(s, 1, n) \in Seq(E) /\ s[n + 1] \in E
    <3>1. \A i \in 1..n : s[i] \in E
      BY <1>0, <2>1
    <3> QED
      BY <1>0, <2>1, <3>1, SubSeqProperties
  <2>3. SubSeq(s, 1, n + 1) = Append(SubSeq(s, 1, n), s[n + 1])
    BY <1>0, <2>1, <2>2 DEF N
  <2>4. Append(SubSeq(s, 1, n), s[n + 1]) \in A
    BY <1>2, <2>2
  <2> QED
    BY <2>3, <2>4
<1> HIDE DEF P
<1>3. 0 \in B
  BY <1>0, <1>1
<1>4. \A n \in 0..(N - 1) : n \in B => n + 1 \in B
  BY <1>0, <1>2
<1> HIDE DEF B
<1>5. 0..N \subseteq B
  BY <1>0, <1>3, <1>4, UpTo
<1>6. P(N)
  BY <1>0, <1>5 DEF B
<1> QED
  BY <1>0, <1>6 DEF P

\* A fold over nothing gives what it starts with, ...
LEMMA FoldedEmpty ==
  ASSUME NEW V, NEW E, NEW G, NEW b, Steps(G, b, V, E)
  PROVE  Folded(G, b, <<>>) = b
<1> DEFINE h == CHOOSE f : FoldEquation(f, G, b, <<>>)
<1>1. <<>> \in Seq(E)
  OBVIOUS
<1>2. FoldEquation(h, G, b, <<>>)
  <2>1. \E f : FoldEquation(f, G, b, <<>>)
    BY <1>1, FoldExists
  <2> QED
    BY <2>1
<1> HIDE DEF h
<1>3. DOMAIN <<>> = {}
  OBVIOUS
<1>4. h = [S \in SUBSET {} |-> IF S = {} THEN b ELSE G[<<h[S \ {Max(S)}], <<>>[Max(S)]>>]]
  BY <1>2, <1>3 DEF FoldEquation
<1>5. h[{}] = b
  <2>1. {} \in SUBSET {}
    OBVIOUS
  <2> QED
    BY <1>4, <2>1
<1> QED
  BY <1>3, <1>5 DEF Folded, h

\* ... and over one element more it makes one step more.
LEMMA FoldedAppend ==
  ASSUME NEW V, NEW E, NEW G, NEW b, Steps(G, b, V, E), NEW s \in Seq(E), NEW e \in E
  PROVE  /\ Folded(G, b, s) \in V
         /\ Folded(G, b, Append(s, e)) = G[<<Folded(G, b, s), e>>]
<1> DEFINE N == Len(s)
           r == Append(s, e)
           h == CHOOSE f : FoldEquation(f, G, b, r)
           it == [S \in SUBSET DOMAIN s |-> h[S]]
<1>0. /\ N \in Nat /\ DOMAIN s = 1..N /\ r \in Seq(E) /\ DOMAIN r = 1..(N + 1)
      /\ r[N + 1] = e /\ \A i \in 1..N : r[i] = s[i]
  BY LenProperties
<1> HIDE DEF r, N
<1>1. FoldEquation(h, G, b, r)
  <2>1. \A q \in Seq(E) : \E f : FoldEquation(f, G, b, q)
    BY FoldExists
  <2> QED
    BY <1>0, <2>1
<1> HIDE DEF h
<1>2. \A S \in SUBSET (1..(N + 1)) : h[S] = IF S = {} THEN b ELSE G[<<h[S \ {Max(S)}], r[Max(S)]>>]
  BY <1>0, <1>1 DEF FoldEquation
<1>3. \A S \in SUBSET (1..N) : S \in SUBSET (1..(N + 1)) /\ it[S] = h[S]
  BY <1>0
<1>4. it = [S \in SUBSET DOMAIN s |-> IF S = {} THEN b ELSE h[S]]
  <2>1. {} \in SUBSET (1..(N + 1)) /\ h[{}] = b
    BY <1>2
  <2> QED
    BY <2>1
<1>5. ASSUME NEW S \in SUBSET DOMAIN s, S # {}
      PROVE  h[S] = G[<<it[S \ {Max(S)}], s[Max(S)]>>]
  <2>1. Max(S) \in S
    BY <1>0, <1>5, Greatest
  <2>2. S \in SUBSET (1..N) /\ S \ {Max(S)} \in SUBSET (1..N) /\ r[Max(S)] = s[Max(S)]
    BY <1>0, <2>1
  <2> HIDE DEF it
  <2> QED
    BY <1>2, <1>3, <1>5, <2>2
<1> HIDE DEF it
<1>6. it[DOMAIN s] = Folded(G, b, s) /\ Folded(G, b, s) \in V
  <2>1. \A S \in SUBSET DOMAIN s :
          S # {} /\ it[S \ {Max(S)}] \in V => h[S] = G[<<it[S \ {Max(S)}], s[Max(S)]>>]
    BY <1>5
  <2>2. FoldsTo(it, h, V, G, b, s)
    BY <1>4, <2>1 DEF FoldsTo
  <2> QED
    BY <2>2, FoldIs
<1>7. h[1..(N + 1)] = G[<<h[1..N], e>>]
  <2>1. Max(1..(N + 1)) = N + 1
    <3>1. N + 1 \in Nat /\ N + 1 > 0
      BY <1>0
    <3> QED
      BY <3>1, GreatestUpTo
  <2>2. 1..(N + 1) # {} /\ 1..(N + 1) \in SUBSET (1..(N + 1))
    <3>1. 1 \in 1..(N + 1)
      BY <1>0
    <3> QED
      BY <3>1
  <2>3. (1..(N + 1)) \ {N + 1} = 1..N
    BY <1>0
  <2> QED
    BY <1>0, <1>2, <2>1, <2>2, <2>3
<1>8. h[1..N] = Folded(G, b, s)
  <2>1. 1..N \in SUBSET (1..N)
    OBVIOUS
  <2> QED
    BY <1>0, <1>3, <1>6, <2>1
<1>9. Folded(G, b, r) = h[1..(N + 1)]
  BY <1>0 DEF Folded, h
<1> QED
  BY <1>6, <1>7, <1>8, <1>9 DEF r

\* The largest index of a part of a sequence is one of the sequence.
LEMMA MaxIn ==
  ASSUME NEW E, NEW s \in Seq(E), NEW S \in SUBSET DOMAIN s, S # {}
  PROVE  Max(S) \in DOMAIN s /\ s[Max(S)] \in E
<1>1. Len(s) \in Nat /\ DOMAIN s = 1..Len(s) /\ \A i \in 1..Len(s) : s[i] \in E
  BY LenProperties
<1>2. Max(S) \in S
  BY <1>1, Greatest
<1> QED
  BY <1>1, <1>2

\* The fold of a sequence is in V.
LEMMA FoldedIn ==
  ASSUME NEW V, NEW E, NEW G, NEW b, Steps(G, b, V, E), NEW s \in Seq(E)
  PROVE  Folded(G, b, s) \in V
<1>1. \A q \in Seq(E), e \in E : Folded(G, b, q) \in V
  BY FoldedAppend
<1>2. CASE s = <<>>
  BY <1>2, FoldedEmpty DEF Steps
<1>3. CASE s # <<>>
  <2>1. s[1] \in E
    BY <1>3
  <2> QED
    BY <1>1, <2>1
<1> QED
  BY <1>2, <1>3

\* The three facts about a fold that a proof by induction needs.
LEMMA FoldFacts ==
  ASSUME NEW V, NEW E, NEW G, NEW b, Steps(G, b, V, E)
  PROVE  /\ Folded(G, b, <<>>) = b /\ <<>> \in Seq(E)
         /\ \A s \in Seq(E) : Folded(G, b, s) \in V
         /\ \A s \in Seq(E), e \in E :
              Append(s, e) \in Seq(E) /\ Folded(G, b, Append(s, e)) = G[<<Folded(G, b, s), e>>]
<1>1. \A s \in Seq(E), e \in E : Append(s, e) \in Seq(E)
  OBVIOUS
<1> QED
  BY <1>1, FoldedEmpty, FoldedIn, FoldedAppend, EmptySeq

----------------------------------------------------------------------------
(* The folds of the model, one step at a time. *)

\* The bytes of a text are the sum of its characters' bytes.
LEMMA BytesOf ==
  ASSUME NEW E
  PROVE  /\ Bytes(<<>>) = 0
         /\ \A s \in Seq(E) : Bytes(s) \in Nat
         /\ \A s \in Seq(E), e \in E : Bytes(Append(s, e)) = Bytes(s) + (IF e = "u" THEN 2 ELSE 1)
<1> DEFINE V == Nat
           G == [p \in V \X E |-> p[1] + (IF p[2] = "u" THEN 2 ELSE 1)]
<1>1. /\ Steps(G, 0, V, E)
      /\ \A n \in V, e \in E : G[<<n, e>>] = n + (IF e = "u" THEN 2 ELSE 1)
  BY DEF Steps
<1> HIDE DEF G, V
<1>2. ASSUME NEW s \in Seq(E) PROVE Bytes(s) = Folded(G, 0, s)
  <2> DEFINE O(f) == [S \in SUBSET DOMAIN s |-> f[S \ {Max(S)}] + (IF s[Max(S)] = "u" THEN 2 ELSE 1)]
             Eqn(f) == f = [S \in SUBSET DOMAIN s |-> IF S = {} THEN 0 ELSE O(f)[S]]
             it == CHOOSE f : Eqn(f)
  <2>1. ASSUME NEW f, NEW S \in SUBSET DOMAIN s, S # {}, f[S \ {Max(S)}] \in V
        PROVE  O(f)[S] = G[<<f[S \ {Max(S)}], s[Max(S)]>>]
    <3>1. s[Max(S)] \in E
      BY <2>1, MaxIn
    <3> QED
      BY <1>1, <2>1, <3>1
  <2>2. PICK h \in [SUBSET DOMAIN s -> V] : FoldEquation(h, G, 0, s)
    BY <1>1, FoldExists
  <2>3. Eqn(h)
    <3>1. \A S \in SUBSET DOMAIN s : h[S \ {Max(S)}] \in V
      OBVIOUS
    <3>2. \A S \in SUBSET DOMAIN s : S # {} => O(h)[S] = G[<<h[S \ {Max(S)}], s[Max(S)]>>]
      BY <2>1, <3>1
    <3> HIDE DEF O
    <3> QED
      BY <2>2, <3>2 DEF FoldEquation
  <2>4. Eqn(it)
    BY <2>3, Zenon
  <2>5. Bytes(s) = it[DOMAIN s]
    BY DEF Bytes, FoldLeft, FoldLeftDomain, MapThenFoldSet
  <2> HIDE DEF it
  <2>6. FoldsTo(it, O(it), V, G, 0, s)
    BY <2>1, <2>4 DEF FoldsTo
  <2> HIDE DEF O
  <2> QED
    BY <1>1, <2>5, <2>6, FoldIs
<1>3. /\ Folded(G, 0, <<>>) = 0
      /\ \A s \in Seq(E), e \in E :
           Folded(G, 0, s) \in V /\ Folded(G, 0, Append(s, e)) = G[<<Folded(G, 0, s), e>>]
  BY <1>1, FoldedEmpty, FoldedAppend
<1>4. <<>> \in Seq(E) /\ \A s \in Seq(E), e \in E : Append(s, e) \in Seq(E)
  OBVIOUS
<1>5. \A s \in Seq(E) : Bytes(s) \in V
  <2>1. SUFFICES ASSUME NEW s \in Seq(E) PROVE Folded(G, 0, s) \in V
    BY <1>2
  <2> QED
    BY <1>1, FoldedIn
<1>6. Bytes(<<>>) = 0
  BY <1>2, <1>3, <1>4
<1>7. ASSUME NEW s \in Seq(E), NEW e \in E
      PROVE  Bytes(Append(s, e)) = Bytes(s) + (IF e = "u" THEN 2 ELSE 1)
  <2>1. Bytes(Append(s, e)) = G[<<Folded(G, 0, s), e>>] /\ Folded(G, 0, s) \in V
    BY <1>2, <1>3, <1>4
  <2> QED
    BY <1>1, <1>2, <2>1
<1> QED
  BY <1>5, <1>6, <1>7 DEF V

\* A sequence with its positions.
Numbered(s) == [i \in DOMAIN s |-> <<i, s[i]>>]

\* A numbered sequence has the elements with their positions.
LEMMA NumberedFacts ==
  ASSUME NEW E, NEW s \in Seq(E)
  PROVE  /\ Numbered(<<>>) = <<>>
         /\ Numbered(s) \in Seq(Nat \X E) /\ DOMAIN Numbered(s) = DOMAIN s
         /\ \A e \in E : Numbered(Append(s, e)) = Append(Numbered(s), <<Len(s) + 1, e>>)
<1>1. Numbered(<<>>) = <<>>
  BY DEF Numbered
<1>2. ASSUME NEW q \in Seq(E)
      PROVE  Numbered(q) \in Seq(Nat \X E) /\ DOMAIN Numbered(q) = DOMAIN q /\ Len(Numbered(q)) = Len(q)
  <2>1. Len(q) \in Nat /\ DOMAIN q = 1..Len(q) /\ \A i \in 1..Len(q) : q[i] \in E
    BY LenProperties
  <2>2. Numbered(q) = [i \in 1..Len(q) |-> <<i, q[i]>>]
    BY <2>1 DEF Numbered
  <2> QED
    BY <2>1, <2>2
<1>3. ASSUME NEW e \in E
      PROVE  Numbered(Append(s, e)) = Append(Numbered(s), <<Len(s) + 1, e>>)
  <2> DEFINE r == Append(s, e)
             t == Append(Numbered(s), <<Len(s) + 1, e>>)
  <2>1. Len(s) \in Nat /\ r \in Seq(E) /\ Len(r) = Len(s) + 1
    OBVIOUS
  <2>2. Numbered(r) \in Seq(Nat \X E) /\ Len(Numbered(r)) = Len(s) + 1
    BY <1>2, <2>1
  <2>3. t \in Seq(Nat \X E) /\ Len(t) = Len(s) + 1
    BY <1>2, <2>1
  <2>4. ASSUME NEW i \in 1..(Len(s) + 1) PROVE Numbered(r)[i] = t[i]
    <3>1. Numbered(r)[i] = <<i, r[i]>> /\ (i <= Len(s) => Numbered(s)[i] = <<i, s[i]>>)
      BY <2>1 DEF Numbered
    <3> QED
      BY <1>2, <2>1, <3>1
  <2> QED
    BY <2>2, <2>3, <2>4, SeqEqual
<1> QED
  BY <1>1, <1>2, <1>3

\* The picked elements of a longer sequence are those of the shorter one, and the last if it is picked.
LEMMA PickedOf ==
  ASSUME NEW E, NEW P, NEW s \in Seq(E)
  PROVE  /\ Picked(<<>>, P) = <<>>
         /\ Picked(s, P) \in Seq(E)
         /\ \A e \in E : Picked(Append(s, e), P) = IF Len(s) + 1 \in P THEN Append(Picked(s, P), e) ELSE Picked(s, P)
<1> DEFINE V == Seq(E)
           F == Nat \X E
           G == [p \in V \X F |-> IF p[2][1] \in P THEN Append(p[1], p[2][2]) ELSE p[1]]
<1>1. /\ Steps(G, <<>>, V, F)
      /\ \A t \in V, p \in F : G[<<t, p>>] = IF p[1] \in P THEN Append(t, p[2]) ELSE t
  BY DEF Steps
<1>a. \A z \in Seq(E), e \in E : <<Len(z) + 1, e>> \in F
  OBVIOUS
<1>2. ASSUME NEW z \in Seq(E) PROVE Picked(z, P) = Folded(G, <<>>, Numbered(z))
  <2> DEFINE n == Numbered(z)
             ids == [i \in DOMAIN z |-> i]
             O(f) == [S \in SUBSET DOMAIN ids |->
                       IF ids[Max(S)] \in P THEN Append(f[S \ {Max(S)}], z[ids[Max(S)]]) ELSE f[S \ {Max(S)}]]
             Eqn(f) == f = [S \in SUBSET DOMAIN ids |-> IF S = {} THEN <<>> ELSE O(f)[S]]
             it == CHOOSE f : Eqn(f)
  <2>0. n \in Seq(F) /\ DOMAIN n = DOMAIN z /\ DOMAIN ids = DOMAIN z
    BY NumberedFacts
  <2> HIDE DEF V, F, G
  <2>1. ASSUME NEW f, NEW S \in SUBSET DOMAIN n, S # {}, f[S \ {Max(S)}] \in V
        PROVE  O(f)[S] = G[<<f[S \ {Max(S)}], n[Max(S)]>>]
    <3>1. Max(S) \in DOMAIN z /\ n[Max(S)] \in F
      BY <2>0, <2>1, MaxIn
    <3>2. n[Max(S)] = <<Max(S), z[Max(S)]>> /\ ids[Max(S)] = Max(S)
      BY <3>1 DEF Numbered
    <3> DEFINE m == Max(S)
               k == ids[m]
               q == f[S \ {m}]
    <3>3. O(f)[S] = IF k \in P THEN Append(q, z[k]) ELSE q
      BY <2>0
    <3>4. q \in V /\ n[m] \in F /\ n[m][1] = m /\ n[m][2] = z[m] /\ k = m
      BY <2>1, <3>1, <3>2
    <3> HIDE DEF n, q, k, m
    <3>5. G[<<q, n[m]>>] = IF m \in P THEN Append(q, z[m]) ELSE q
      BY <1>1, <3>4
    <3> QED
      BY <3>3, <3>4, <3>5 DEF q, m
  <2> HIDE DEF n
  <2>2. PICK h \in [SUBSET DOMAIN n -> V] : FoldEquation(h, G, <<>>, n)
    BY <1>1, <2>0, FoldExists
  <2>3. Eqn(h)
    <3>1. \A S \in SUBSET DOMAIN n : S # {} => O(h)[S] = G[<<h[S \ {Max(S)}], n[Max(S)]>>]
      BY <2>1
    <3> HIDE DEF O, ids
    <3> QED
      BY <2>0, <2>2, <3>1 DEF FoldEquation
  <2>4. Eqn(it)
    BY <2>3, Zenon
  <2>5. Picked(z, P) = it[DOMAIN ids]
    BY DEF Picked, FoldLeftDomain, FoldLeft, MapThenFoldSet
  <2> HIDE DEF it, ids
  <2>6. FoldsTo(it, O(it), V, G, <<>>, n)
    BY <2>0, <2>1, <2>4 DEF FoldsTo
  <2> HIDE DEF O
  <2> QED
    BY <1>1, <2>0, <2>5, <2>6, FoldIs DEF n
<1> HIDE DEF G, F
<1>3. /\ Folded(G, <<>>, <<>>) = <<>>
      /\ \A z \in Seq(F) : Folded(G, <<>>, z) \in V
      /\ \A z \in Seq(F), e \in F : Folded(G, <<>>, Append(z, e)) = G[<<Folded(G, <<>>, z), e>>]
  <2> HIDE DEF V
  <2> QED
    BY <1>1, FoldFacts
<1>4. /\ Numbered(<<>>) = <<>> /\ <<>> \in Seq(E)
      /\ \A z \in Seq(E) : Numbered(z) \in Seq(F)
      /\ \A z \in Seq(E), e \in E : Numbered(Append(z, e)) = Append(Numbered(z), <<Len(z) + 1, e>>)
  <2>1. \A z \in Seq(E) : /\ Numbered(z) \in Seq(F)
                           /\ \A e \in E : Numbered(Append(z, e)) = Append(Numbered(z), <<Len(z) + 1, e>>)
    BY NumberedFacts DEF F
  <2>2. Numbered(<<>>) = <<>> /\ <<>> \in Seq(E)
    BY EmptySeq DEF Numbered
  <2> QED
    BY <2>1, <2>2
<1>5. \A z \in Seq(E) : Picked(z, P) \in V
  BY <1>2, <1>3, <1>4
<1>6. Picked(<<>>, P) = <<>>
  BY <1>2, <1>3, <1>4
<1>7. ASSUME NEW e \in E
      PROVE  Picked(Append(s, e), P) = IF Len(s) + 1 \in P THEN Append(Picked(s, P), e) ELSE Picked(s, P)
  <2> DEFINE p == <<Len(s) + 1, e>>
  <2>1. Append(s, e) \in Seq(E) /\ Numbered(Append(s, e)) = Append(Numbered(s), p)
    BY <1>4
  <2>2. Numbered(s) \in Seq(F) /\ p \in F
    BY <1>a, <1>4 DEF F
  <2>3. Folded(G, <<>>, Append(Numbered(s), p)) = G[<<Folded(G, <<>>, Numbered(s)), p>>]
        /\ Folded(G, <<>>, Numbered(s)) \in V
    BY <1>3, <2>2
  <2> QED
    BY <1>1, <1>2, <2>1, <2>2, <2>3
<1> QED
  BY <1>5, <1>6, <1>7

\* A line end begins a line; any other character goes to the last one.
LEMMA LinesOf ==
  ASSUME NEW E
  PROVE  /\ Lines(<<>>) = <<(<<>>)>>
         /\ \A s \in Seq(E) : Lines(s) \in Seq(Seq(E \ {NL})) \ {<<>>}
         /\ \A s \in Seq(E), e \in E :
              Lines(Append(s, e)) = IF e = NL THEN Append(Lines(s), <<>>)
                                    ELSE [Lines(s) EXCEPT ![Len(Lines(s))] = Append(@, e)]
<1> DEFINE V == Seq(Seq(E \ {NL})) \ {<<>>}
           b == <<(<<>>)>>
           G == [p \in V \X E |-> IF p[2] = NL THEN Append(p[1], <<>>)
                                  ELSE [p[1] EXCEPT ![Len(p[1])] = Append(@, p[2])]]
<1>1. ASSUME NEW v \in V, NEW e \in E
      PROVE  (IF e = NL THEN Append(v, <<>>) ELSE [v EXCEPT ![Len(v)] = Append(@, e)]) \in V
  <2>1. Append(v, <<>>) \in V
    OBVIOUS
  <2>2. ASSUME e # NL PROVE [v EXCEPT ![Len(v)] = Append(@, e)] \in V
    <3>1. Len(v) \in 1..Len(v) /\ v[Len(v)] \in Seq(E \ {NL})
      OBVIOUS
    <3>2. Append(v[Len(v)], e) \in Seq(E \ {NL})
      BY <2>2, <3>1
    <3>3. [v EXCEPT ![Len(v)] = Append(@, e)] \in Seq(Seq(E \ {NL}))
      BY <3>1, <3>2, ExceptSeq
    <3> QED
      BY <3>1, <3>3, ExceptSeq, EmptySeq
  <2> QED
    BY <2>1, <2>2
<1>2. /\ Steps(G, b, V, E)
      /\ \A v \in V, e \in E :
           G[<<v, e>>] = IF e = NL THEN Append(v, <<>>) ELSE [v EXCEPT ![Len(v)] = Append(@, e)]
  <2>1. b \in V
    OBVIOUS
  <2> QED
    BY <1>1, <2>1 DEF Steps
<1> HIDE DEF G, V, b
<1>3. ASSUME NEW s \in Seq(E) PROVE Lines(s) = Folded(G, b, s)
  <2> DEFINE O(f) == [S \in SUBSET DOMAIN s |->
                       IF s[Max(S)] = NL THEN Append(f[S \ {Max(S)}], <<>>)
                       ELSE [f[S \ {Max(S)}] EXCEPT ![Len(f[S \ {Max(S)}])] = Append(@, s[Max(S)])]]
             Eqn(f) == f = [S \in SUBSET DOMAIN s |-> IF S = {} THEN b ELSE O(f)[S]]
             it == CHOOSE f : Eqn(f)
  <2>1. ASSUME NEW f, NEW S \in SUBSET DOMAIN s, S # {}, f[S \ {Max(S)}] \in V
        PROVE  O(f)[S] = G[<<f[S \ {Max(S)}], s[Max(S)]>>]
    <3>1. s[Max(S)] \in E
      BY <2>1, MaxIn
    <3> QED
      BY <1>2, <2>1, <3>1
  <2>2. PICK h \in [SUBSET DOMAIN s -> V] : FoldEquation(h, G, b, s)
    BY <1>2, FoldExists
  <2>3. Eqn(h)
    <3>1. \A S \in SUBSET DOMAIN s : S # {} => O(h)[S] = G[<<h[S \ {Max(S)}], s[Max(S)]>>]
      BY <2>1
    <3> HIDE DEF O
    <3> QED
      BY <2>2, <3>1 DEF FoldEquation
  <2>4. Eqn(it)
    BY <2>3, Zenon
  <2>5. Lines(s) = it[DOMAIN s]
    BY DEF Lines, FoldLeft, MapThenFoldSet, b
  <2> HIDE DEF it
  <2>6. FoldsTo(it, O(it), V, G, b, s)
    BY <2>1, <2>4 DEF FoldsTo
  <2> HIDE DEF O
  <2> QED
    BY <1>2, <2>5, <2>6, FoldIs
<1>4. /\ Folded(G, b, <<>>) = b /\ <<>> \in Seq(E)
      /\ \A s \in Seq(E) : Folded(G, b, s) \in V
      /\ \A s \in Seq(E), e \in E :
           Append(s, e) \in Seq(E) /\ Folded(G, b, Append(s, e)) = G[<<Folded(G, b, s), e>>]
  BY <1>2, FoldFacts
<1>5. Lines(<<>>) = b /\ \A s \in Seq(E) : Lines(s) \in V
  BY <1>3, <1>4
<1>6. \A s \in Seq(E), e \in E : Lines(Append(s, e)) = G[<<Lines(s), e>>]
  BY <1>3, <1>4
<1> QED
  BY <1>2, <1>5, <1>6 DEF V, b

\* A text is its first line, and each further one after a line end.
LEMMA JoinedOf ==
  ASSUME NEW E, NL \in E, NEW ls \in Seq(Seq(E)), ls # <<>>
  PROVE  /\ Joined(ls) \in Seq(E)
         /\ Len(ls) = 1 => Joined(ls) = ls[1]
         /\ \A line \in Seq(E) : Joined(Append(ls, line)) = Joined(ls) \o <<NL>> \o line
<1> DEFINE V == Seq(E)
           F == Seq(E)
           G == [p \in V \X F |-> p[1] \o <<NL>> \o p[2]]
<1>1. /\ \A b \in V : Steps(G, b, V, F)
      /\ \A t \in V, line \in F : G[<<t, line>>] = t \o <<NL>> \o line
  <2>1. \A t \in V, line \in F : t \o <<NL>> \o line \in V
    OBVIOUS
  <2> HIDE DEF V, F
  <2>2. G \in [V \X F -> V]
    BY <2>1
  <2> QED
    BY <2>2 DEF Steps
<1> HIDE DEF G
<1>2. ASSUME NEW r \in Seq(F), r # <<>>
      PROVE  Joined(r) = Folded(G, r[1], Tail(r)) /\ r[1] \in V /\ Tail(r) \in Seq(F)
  <2> DEFINE s == Tail(r)
             b == r[1]
             O(f) == [S \in SUBSET DOMAIN s |-> f[S \ {Max(S)}] \o <<NL>> \o s[Max(S)]]
             Eqn(f) == f = [S \in SUBSET DOMAIN s |-> IF S = {} THEN b ELSE O(f)[S]]
             it == CHOOSE f : Eqn(f)
  <2>0. s \in Seq(F) /\ b \in V
    BY <1>2
  <2>1. ASSUME NEW f, NEW S \in SUBSET DOMAIN s, S # {}, f[S \ {Max(S)}] \in V
        PROVE  O(f)[S] = G[<<f[S \ {Max(S)}], s[Max(S)]>>]
    <3> HIDE DEF V, F, s
    <3>1. s[Max(S)] \in F
      BY <2>0, <2>1, MaxIn
    <3> QED
      BY <1>1, <2>1, <3>1
  <2> HIDE DEF V, F
  <2>2. PICK h \in [SUBSET DOMAIN s -> V] : FoldEquation(h, G, b, s)
    <3> HIDE DEF s, b
    <3> QED
      BY <1>1, <2>0, FoldExists
  <2>3. Eqn(h)
    <3>1. \A S \in SUBSET DOMAIN s : S # {} => O(h)[S] = G[<<h[S \ {Max(S)}], s[Max(S)]>>]
      <4> HIDE DEF O
      <4> QED
        BY <2>1
    <3> HIDE DEF O, s, b
    <3> QED
      BY <2>2, <3>1 DEF FoldEquation
  <2>4. Eqn(it)
    BY <2>3, Zenon
  <2>5. Joined(r) = it[DOMAIN s]
    BY DEF Joined, FoldLeft, MapThenFoldSet
  <2> HIDE DEF it
  <2>6. FoldsTo(it, O(it), V, G, b, s)
    <3> HIDE DEF s, b
    <3> QED
      BY <2>1, <2>4 DEF FoldsTo
  <2> HIDE DEF O, s, b
  <2>7. Joined(r) = Folded(G, b, s)
    BY <1>1, <2>0, <2>5, <2>6, FoldIs
  <2> QED
    BY <2>0, <2>7 DEF b, s
<1>3. /\ \A b \in V : Folded(G, b, <<>>) = b
      /\ \A b \in V, s \in Seq(F) : Folded(G, b, s) \in V
      /\ \A b \in V, s \in Seq(F), e \in F : Folded(G, b, Append(s, e)) = G[<<Folded(G, b, s), e>>]
  <2> HIDE DEF V, F
  <2> QED
    BY <1>1, FoldFacts
<1>4. Joined(ls) = Folded(G, ls[1], Tail(ls)) /\ ls[1] \in V /\ Tail(ls) \in Seq(F)
  BY <1>2
<1>5. Len(ls) = 1 => Tail(ls) = <<>>
  <2>1. Tail(ls) \in Seq(F) /\ Len(Tail(ls)) = Len(ls) - 1
    OBVIOUS
  <2>2. Tail(ls) # <<>> => Len(Tail(ls)) \in Nat \ {0}
    BY <2>1, EmptySeq
  <2> QED
    BY <2>1, <2>2
<1>6. ASSUME NEW line \in Seq(E)
      PROVE  Joined(Append(ls, line)) = Joined(ls) \o <<NL>> \o line
  <2>1. /\ Append(ls, line) \in Seq(F) /\ Append(ls, line) # <<>>
        /\ Append(ls, line)[1] = ls[1] /\ Tail(Append(ls, line)) = Append(Tail(ls), line)
    <3>1. Append(ls, line) \in Seq(F) /\ Append(ls, line) # <<>> /\ Append(ls, line)[1] = ls[1]
      OBVIOUS
    <3>2. Tail(Append(ls, line)) = Append(Tail(ls), line)
      OBVIOUS
    <3> QED
      BY <3>1, <3>2
  <2>2. Joined(Append(ls, line)) = Folded(G, ls[1], Append(Tail(ls), line))
    BY <1>2, <2>1
  <2>3. Joined(Append(ls, line)) = G[<<Joined(ls), line>>]
    <3>1. line \in F
      OBVIOUS
    <3> HIDE DEF V, F
    <3> QED
      BY <1>3, <1>4, <2>2, <3>1, ZenonT(60)
  <2>4. Joined(ls) \in V
    BY <1>3, <1>4
  <2> QED
    BY <1>1, <2>3, <2>4
<1> QED
  BY <1>3, <1>4, <1>5, <1>6

\* The lines a reader makes of marked ones.
Expand(ls) == FoldLeft(LAMBDA lines, line : lines \o Spread(line), <<>>, ls)

\* A line that is spread is a sequence of lines.
LEMMA SpreadIn ==
  ASSUME NEW E, NEW line \in Seq(E)
  PROVE  Spread(line) \in Seq(Seq(E))
<1>1. CASE Copies(line) = {}
  BY <1>1 DEF Spread
<1>2. CASE Copies(line) # {}
  <2> DEFINE n == CHOOSE n \in Copies(line) : TRUE
  <2>1. n \in 2..(Len(input.text) + 4) /\ line # <<>>
    BY <1>2 DEF Copies, Repetitions
  <2>2. n \in Nat
    BY <2>1
  <2>3. Front(line) \in Seq(E)
    BY <2>1 DEF Front
  <2>4. Spread(line) = [i \in 1..n |-> Front(line)]
    BY <1>2 DEF Spread
  <2> HIDE DEF n
  <2> QED
    BY <2>2, <2>3, <2>4
<1> QED
  BY <1>1, <1>2

\* The last line is spread after those before it.
LEMMA ExpandOf ==
  ASSUME NEW E, NEW ls \in Seq(Seq(E))
  PROVE  /\ Expand(<<>>) = <<>>
         /\ Expand(ls) \in Seq(Seq(E))
         /\ \A line \in Seq(E) : Expand(Append(ls, line)) = Expand(ls) \o Spread(line)
<1> DEFINE F == Seq(E)
           V == Seq(F)
           b == <<>>
           G == [p \in V \X F |-> p[1] \o Spread(p[2])]
<1>1. Steps(G, b, V, F) /\ \A v \in V, line \in F : G[<<v, line>>] = v \o Spread(line)
  <2>1. \A v \in V, line \in F : Spread(line) \in V
    BY SpreadIn
  <2>2. \A v, w \in V : v \o w \in V
    OBVIOUS
  <2>3. b \in V
    OBVIOUS
  <2> HIDE DEF V, F, b
  <2>4. G \in [V \X F -> V]
    BY <2>1, <2>2
  <2> QED
    BY <2>3, <2>4 DEF Steps
<1> HIDE DEF G, V, F, b
<1>2. ASSUME NEW s \in Seq(F) PROVE Expand(s) = Folded(G, b, s)
  <2> DEFINE O(f) == [S \in SUBSET DOMAIN s |-> f[S \ {Max(S)}] \o Spread(s[Max(S)])]
             Eqn(f) == f = [S \in SUBSET DOMAIN s |-> IF S = {} THEN b ELSE O(f)[S]]
             it == CHOOSE f : Eqn(f)
  <2>1. ASSUME NEW f, NEW S \in SUBSET DOMAIN s, S # {}, f[S \ {Max(S)}] \in V
        PROVE  O(f)[S] = G[<<f[S \ {Max(S)}], s[Max(S)]>>]
    <3>1. s[Max(S)] \in F
      BY <2>1, MaxIn
    <3> QED
      BY <1>1, <2>1, <3>1
  <2>2. PICK h \in [SUBSET DOMAIN s -> V] : FoldEquation(h, G, b, s)
    BY <1>1, FoldExists
  <2>3. Eqn(h)
    <3>1. \A S \in SUBSET DOMAIN s : S # {} => O(h)[S] = G[<<h[S \ {Max(S)}], s[Max(S)]>>]
      BY <2>1
    <3> HIDE DEF O
    <3> QED
      BY <2>2, <3>1 DEF FoldEquation
  <2>4. Eqn(it)
    BY <2>3, Zenon
  <2>5. Expand(s) = it[DOMAIN s]
    BY DEF Expand, FoldLeft, MapThenFoldSet, b
  <2> HIDE DEF it
  <2>6. FoldsTo(it, O(it), V, G, b, s)
    BY <2>1, <2>4 DEF FoldsTo
  <2> HIDE DEF O
  <2> QED
    BY <1>1, <2>5, <2>6, FoldIs
<1>3. /\ Folded(G, b, <<>>) = b /\ <<>> \in Seq(F)
      /\ \A s \in Seq(F) : Folded(G, b, s) \in V
      /\ \A s \in Seq(F), e \in F :
           Append(s, e) \in Seq(F) /\ Folded(G, b, Append(s, e)) = G[<<Folded(G, b, s), e>>]
  BY <1>1, FoldFacts
<1>4. ls \in Seq(F) /\ Expand(<<>>) = b /\ Expand(ls) \in V
  BY <1>2, <1>3 DEF F
<1>5. ASSUME NEW line \in F PROVE Expand(Append(ls, line)) = Expand(ls) \o Spread(line)
  <2>1. Append(ls, line) \in Seq(F) /\ Folded(G, b, Append(ls, line)) = G[<<Folded(G, b, ls), line>>]
    BY <1>3, <1>4
  <2>2. Expand(Append(ls, line)) = G[<<Expand(ls), line>>]
    BY <1>2, <1>4, <2>1
  <2> QED
    BY <1>1, <1>4, <2>2
<1> QED
  BY <1>4, <1>5 DEF V, F, b

\* The lines so far: those that are out, and the last one with its number.
Symbols == Characters \cup {"?"} \cup {Times(n) : n \in Nat}
Texts == Seq(Symbols)
Groups == [result : Texts, prev : Texts, count : Nat]
FirstGroup(line) == [result |-> <<>>, prev |-> line, count |-> 1]
NextGroup(acc, line) ==
  IF line = acc.prev THEN [acc EXCEPT !.count = @ + 1]
  ELSE [result |-> AppendLine(acc.result, acc.prev, acc.count), prev |-> line, count |-> 1]
Grouping == [p \in Groups \X Texts |-> NextGroup(p[1], p[2])]
Grouped(ls) == Folded(Grouping, FirstGroup(ls[1]), Tail(ls))

\* A text with another line is a text.
LEMMA AppendLineIn ==
  ASSUME NEW t \in Texts, NEW line \in Texts, NEW n \in Nat
  PROVE  AppendLine(t, line, n) \in Texts
<1>1. NL \in Symbols /\ Times(n) \in Symbols
  BY DEF Symbols, Characters
<1> QED
  BY <1>1 DEF Texts, AppendLine

\* The lines are folded group by group.
LEMMA GroupingSteps ==
  ASSUME NEW line \in Texts
  PROVE  Steps(Grouping, FirstGroup(line), Groups, Texts)
<1>1. ASSUME NEW acc \in Groups, NEW l \in Texts PROVE NextGroup(acc, l) \in Groups
  <2>1. AppendLine(acc.result, acc.prev, acc.count) \in Texts
    BY AppendLineIn DEF Groups
  <2> QED
    BY <2>1 DEF Groups, NextGroup
<1>2. <<>> \in Texts
  BY DEF Texts
<1>3. FirstGroup(line) \in Groups
  BY <1>2 DEF FirstGroup, Groups
<1> QED
  BY <1>1, <1>3 DEF Steps, Grouping

\* One more line goes to the last group or begins another.
LEMMA GroupedOf ==
  ASSUME NEW ls \in Seq(Texts), ls # <<>>
  PROVE  /\ Grouped(ls) \in Groups
         /\ Len(ls) = 1 => Grouped(ls) = FirstGroup(ls[1])
         /\ \A line \in Texts : Grouped(Append(ls, line)) = NextGroup(Grouped(ls), line)
<1>1. /\ ls[1] \in Texts /\ Tail(ls) \in Seq(Texts)
      /\ \A line \in Texts : Append(ls, line)[1] = ls[1] /\ Tail(Append(ls, line)) = Append(Tail(ls), line)
  <2> DEFINE T == Texts
  <2> HIDE DEF T
  <2>0. ls \in Seq(T)
    BY DEF T
  <2>1. ls[1] \in T /\ Tail(ls) \in Seq(T)
    BY <2>0
  <2>2. \A line \in T : Append(ls, line)[1] = ls[1] /\ Tail(Append(ls, line)) = Append(Tail(ls), line)
    BY <2>0
  <2> QED
    BY <2>1, <2>2 DEF T
<1>2. Len(ls) = 1 => Tail(ls) = <<>>
  <2>1. Tail(ls) \in Seq(Texts) /\ Len(Tail(ls)) = Len(ls) - 1
    BY HeadTailProperties
  <2>2. Tail(ls) # <<>> => Len(Tail(ls)) \in Nat \ {0}
    BY <2>1, EmptySeq
  <2> QED
    BY <2>1, <2>2
<1> DEFINE b == FirstGroup(ls[1])
<1>3. /\ Folded(Grouping, b, <<>>) = b
      /\ \A s \in Seq(Texts) : Folded(Grouping, b, s) \in Groups
      /\ \A s \in Seq(Texts), e \in Texts : Folded(Grouping, b, Append(s, e)) = Grouping[<<Folded(Grouping, b, s), e>>]
  BY <1>1, GroupingSteps, FoldFacts
<1> HIDE DEF b
<1>4. Grouped(ls) = Folded(Grouping, b, Tail(ls)) /\ Grouped(ls) \in Groups
  BY <1>1, <1>3 DEF Grouped, b
<1>5. ASSUME NEW line \in Texts PROVE Grouped(Append(ls, line)) = NextGroup(Grouped(ls), line)
  <2>1. Grouped(Append(ls, line)) = Folded(Grouping, b, Append(Tail(ls), line))
    BY <1>1 DEF Grouped, b
  <2>2. Grouped(Append(ls, line)) = Grouping[<<Grouped(ls), line>>]
    BY <1>1, <1>3, <1>4, <2>1
  <2> QED
    BY <1>4, <2>2 DEF Grouping
<1> QED
  BY <1>2, <1>3, <1>4, <1>5 DEF b

\* compress_output_text writes the last group after those before it.
LEMMA CompressedOf ==
  ASSUME NEW text, NEW ls \in Seq(Texts), ls = Lines(text), ls # <<>>
  PROVE  CompressOutputText(text) = AppendLine(Grouped(ls).result, Grouped(ls).prev, Grouped(ls).count)
<1> DEFINE s == Tail(ls)
           b == [result |-> <<>>, prev |-> ls[1], count |-> 1]
           O(f) == [S \in SUBSET DOMAIN s |->
                      IF s[Max(S)] = f[S \ {Max(S)}].prev
                      THEN [f[S \ {Max(S)}] EXCEPT !.count = @ + 1]
                      ELSE [result |-> AppendLine(f[S \ {Max(S)}].result, f[S \ {Max(S)}].prev, f[S \ {Max(S)}].count),
                            prev |-> s[Max(S)], count |-> 1]]
           Eqn(f) == f = [S \in SUBSET DOMAIN s |-> IF S = {} THEN b ELSE O(f)[S]]
           it == CHOOSE f : Eqn(f)
<1>0. s \in Seq(Texts) /\ ls[1] \in Texts
  <2> DEFINE T == Texts
  <2> HIDE DEF T
  <2>0. ls \in Seq(T)
    BY DEF T
  <2>1. ls[1] \in T /\ Tail(ls) \in Seq(T)
    BY <2>0
  <2> QED
    BY <2>1 DEF T
<1>1. Steps(Grouping, b, Groups, Texts)
  BY <1>0, GroupingSteps DEF FirstGroup
<1>2. ASSUME NEW f, NEW S \in SUBSET DOMAIN s, S # {}, f[S \ {Max(S)}] \in Groups
      PROVE  O(f)[S] = Grouping[<<f[S \ {Max(S)}], s[Max(S)]>>]
  <2> DEFINE q == f[S \ {Max(S)}]
             c == s[Max(S)]
  <2>1. O(f)[S] = NextGroup(q, c)
    BY DEF NextGroup
  <2>2. c \in Texts
    <3> HIDE DEF s
    <3> QED
      BY <1>0, <1>2, MaxIn
  <2> HIDE DEF O, q, c
  <2>3. Grouping[<<q, c>>] = NextGroup(q, c)
    BY <1>2, <2>2 DEF Grouping, q
  <2> QED
    BY <2>1, <2>3 DEF q, c
<1>3. PICK h \in [SUBSET DOMAIN s -> Groups] : FoldEquation(h, Grouping, b, s)
  <2> HIDE DEF s, b
  <2> QED
    BY <1>0, <1>1, FoldExists
<1>4. Eqn(h)
  <2>1. \A S \in SUBSET DOMAIN s : S # {} => O(h)[S] = Grouping[<<h[S \ {Max(S)}], s[Max(S)]>>]
    <3> HIDE DEF O
    <3> QED
      BY <1>2
  <2> HIDE DEF O, s, b
  <2> QED
    BY <1>3, <2>1 DEF FoldEquation
<1>5. Eqn(it)
  <2> HIDE DEF O, s, b
  <2> QED
    BY <1>4, Zenon
<1>6. CompressOutputText(text) = AppendLine(it[DOMAIN s].result, it[DOMAIN s].prev, it[DOMAIN s].count)
  BY ZenonT(60) DEF CompressOutputText, FoldLeft, MapThenFoldSet
<1> HIDE DEF it
<1>7. FoldsTo(it, O(it), Groups, Grouping, b, s)
  <2> HIDE DEF s, b
  <2> QED
    BY <1>2, <1>5, ZenonT(60) DEF FoldsTo
<1>8. it[DOMAIN s] = Folded(Grouping, b, s)
  <2> HIDE DEF O, s, b
  <2> QED
    BY <1>0, <1>1, <1>7, FoldIs
<1>9. Grouped(ls) = it[DOMAIN s]
  BY <1>8 DEF Grouped, FirstGroup
<1> QED
  BY <1>6, <1>9

\* The frames so far and the last path among them.
NextFrame(acc, f) == [out |-> Append(acc.out, Abbreviate(f, acc.prev)),
                      prev |-> IF f.path = NoPath THEN acc.prev ELSE f.path]
NoFrames == [out |-> <<>>, prev |-> NoPath]
Abbreviations(E) == [out : Seq({Abbreviate(f, g.path) : f \in E, g \in E \cup {[path |-> NoPath]}}),
                     prev : {g.path : g \in E} \cup {NoPath}]
Abbreviating(E) == [p \in Abbreviations(E) \X E |-> NextFrame(p[1], p[2])]
AbbreviatedTo(E, frames) == Folded(Abbreviating(E), NoFrames, frames)

\* The frames are folded one by one.
LEMMA AbbreviatingSteps ==
  ASSUME NEW E
  PROVE  Steps(Abbreviating(E), NoFrames, Abbreviations(E), E)
<1> DEFINE X == {Abbreviate(f, g.path) : f \in E, g \in E \cup {[path |-> NoPath]}}
           Y == {g.path : g \in E} \cup {NoPath}
<1>1. ASSUME NEW p \in Y, NEW f \in E PROVE Abbreviate(f, p) \in X
  <2>1. \E g \in E \cup {[path |-> NoPath]} : g.path = p
    <3>1. CASE p = NoPath
      <4>1. [path |-> NoPath].path = p
        BY <3>1
      <4> QED
        BY <4>1
    <3>2. CASE p \in {g.path : g \in E}
      BY <3>2
    <3> QED
      BY <3>1, <3>2
  <2> QED
    BY <2>1
<1>2. ASSUME NEW p \in Y, NEW f \in E PROVE (IF f.path = NoPath THEN p ELSE f.path) \in Y
  OBVIOUS
<1>3. NoPath \in Y
  OBVIOUS
<1> HIDE DEF X, Y
<1>4. ASSUME NEW acc \in [out : Seq(X), prev : Y], NEW f \in E
      PROVE  NextFrame(acc, f) \in [out : Seq(X), prev : Y]
  <2>1. Abbreviate(f, acc.prev) \in X
    BY <1>1
  <2>2. Append(acc.out, Abbreviate(f, acc.prev)) \in Seq(X)
    BY <2>1
  <2> QED
    BY <1>2, <2>2 DEF NextFrame
<1>5. NoFrames \in [out : Seq(X), prev : Y]
  BY <1>3 DEF NoFrames
<1>6. Abbreviations(E) = [out : Seq(X), prev : Y]
  BY DEF Abbreviations, X, Y
<1> QED
  BY <1>4, <1>5, <1>6 DEF Steps, Abbreviating

\* One more frame is abbreviated against the last path before it.
LEMMA AbbreviatedOf ==
  ASSUME NEW E, NEW frames \in Seq(E)
  PROVE  /\ Abbreviated(frames) = AbbreviatedTo(E, frames).out
         /\ AbbreviatedTo(E, <<>>) = NoFrames
         /\ AbbreviatedTo(E, frames) \in Abbreviations(E)
         /\ \A f \in E : AbbreviatedTo(E, Append(frames, f)) = NextFrame(AbbreviatedTo(E, frames), f)
<1> DEFINE G == Abbreviating(E)
           V == Abbreviations(E)
           b == NoFrames
           O(f) == [S \in SUBSET DOMAIN frames |->
                      [out |-> Append(f[S \ {Max(S)}].out, Abbreviate(frames[Max(S)], f[S \ {Max(S)}].prev)),
                       prev |-> IF frames[Max(S)].path = NoPath THEN f[S \ {Max(S)}].prev ELSE frames[Max(S)].path]]
           Eqn(f) == f = [S \in SUBSET DOMAIN frames |-> IF S = {} THEN b ELSE O(f)[S]]
           it == CHOOSE f : Eqn(f)
<1>1. /\ Steps(G, b, V, E)
      /\ \A acc \in V, f \in E : G[<<acc, f>>] = NextFrame(acc, f)
  BY AbbreviatingSteps DEF Abbreviating
<1> HIDE DEF G, V
<1>2. ASSUME NEW f, NEW S \in SUBSET DOMAIN frames, S # {}, f[S \ {Max(S)}] \in V
      PROVE  O(f)[S] = G[<<f[S \ {Max(S)}], frames[Max(S)]>>]
  <2> DEFINE q == f[S \ {Max(S)}]
             c == frames[Max(S)]
  <2>1. O(f)[S] = NextFrame(q, c)
    BY DEF NextFrame
  <2>2. c \in E
    BY <1>2, MaxIn
  <2> HIDE DEF O, q, c
  <2>3. G[<<q, c>>] = NextFrame(q, c)
    BY <1>1, <1>2, <2>2 DEF q
  <2> QED
    BY <2>1, <2>3 DEF q, c
<1>3. PICK h \in [SUBSET DOMAIN frames -> V] : FoldEquation(h, G, b, frames)
  BY <1>1, FoldExists
<1>4. Eqn(h)
  <2>1. \A S \in SUBSET DOMAIN frames : S # {} => O(h)[S] = G[<<h[S \ {Max(S)}], frames[Max(S)]>>]
    <3> HIDE DEF O
    <3> QED
      BY <1>2
  <2> HIDE DEF O
  <2> QED
    BY <1>3, <2>1 DEF FoldEquation
<1>5. Eqn(it)
  <2> HIDE DEF O
  <2> QED
    BY <1>4, Zenon
<1>6. Abbreviated(frames) = it[DOMAIN frames].out
  BY DEF Abbreviated, FoldLeft, MapThenFoldSet, NoFrames
<1> HIDE DEF it
<1>7. FoldsTo(it, O(it), V, G, b, frames)
  BY <1>2, <1>5 DEF FoldsTo
<1> HIDE DEF O
<1>8. it[DOMAIN frames] = Folded(G, b, frames)
  BY <1>1, <1>7, FoldIs
<1>9. /\ Folded(G, b, <<>>) = b
      /\ \A s \in Seq(E) : Folded(G, b, s) \in V
      /\ \A s \in Seq(E), e \in E : Folded(G, b, Append(s, e)) = G[<<Folded(G, b, s), e>>]
  BY <1>1, FoldFacts
<1>a. AbbreviatedTo(E, <<>>) = b /\ \A s : AbbreviatedTo(E, s) = Folded(G, b, s)
  BY <1>9 DEF AbbreviatedTo, G
<1>b. ASSUME NEW f \in E PROVE AbbreviatedTo(E, Append(frames, f)) = NextFrame(AbbreviatedTo(E, frames), f)
  BY <1>1, <1>9, <1>a
<1> QED
  BY <1>6, <1>8, <1>9, <1>a, <1>b DEF V

\* strip_ansi, one character after the other.
Strippings == [out : Seq(Characters \cup {"?"}), mode : {"plain", "intro", "csi"}]
StripPlain(text, acc, i) ==
  IF text[i] = ESC /\ i < Len(text) /\ text[i + 1] = "["
  THEN [acc EXCEPT !.mode = "intro"]
  ELSE [out |-> acc.out \o (IF text[i] = "u" THEN <<"?", "?">> ELSE <<text[i]>>), mode |-> "plain"]
StripNext(text, acc, i) ==
  CASE acc.mode = "intro" -> [acc EXCEPT !.mode = "csi"]
    [] acc.mode = "csi" /\ text[i] = "." -> acc
    [] acc.mode = "csi" /\ text[i] \in {"a", "["} -> [acc EXCEPT !.mode = "plain"]
    [] OTHER -> StripPlain(text, acc, i)
Stripping(text) == [p \in Strippings \X (1..Len(text)) |-> StripNext(text, p[1], p[2])]
Unstripped == [out |-> <<>>, mode |-> "plain"]
UpToIds(k) == [i \in 1..k |-> i]
Stripped(text, k) == Folded(Stripping(text), Unstripped, UpToIds(k))

\* strip_ansi reads one more character.
LEMMA StrippedOf ==
  ASSUME NEW text \in Seq(Characters)
  PROVE  /\ StripAnsi(text) = Stripped(text, Len(text)).out
         /\ Stripped(text, 0) = Unstripped
         /\ \A k \in 0..Len(text) : Stripped(text, k) \in Strippings
         /\ \A k \in 0..(Len(text) - 1) : Stripped(text, k + 1) = StripNext(text, Stripped(text, k), k + 1)
<1> DEFINE N == Len(text)
           C == Characters \cup {"?"}
           I == 1..N
           V == Strippings
           G == Stripping(text)
           b == Unstripped
           s == [i \in DOMAIN text |-> i]
           L(f, S) == LET q == f[S \ {Max(S)}]
                          i == s[Max(S)]
                          P == IF text[i] = ESC /\ i < Len(text) /\ text[i + 1] = "["
                               THEN [q EXCEPT !.mode = "intro"]
                               ELSE [out |-> q.out \o (IF text[i] = "u" THEN <<"?", "?">> ELSE <<text[i]>>), mode |-> "plain"]
                      IN CASE q.mode = "intro" -> [q EXCEPT !.mode = "csi"]
                           [] q.mode = "csi" /\ text[i] = "." -> q
                           [] q.mode = "csi" /\ text[i] \in {"a", "["} -> [q EXCEPT !.mode = "plain"]
                           [] OTHER -> P
           O(f) == [S \in SUBSET DOMAIN s |-> L(f, S)]
           Eqn(f) == f = [S \in SUBSET DOMAIN s |-> IF S = {} THEN b ELSE L(f, S)]
           it == CHOOSE f : Eqn(f)
<1>0. /\ N \in Nat /\ DOMAIN text = I /\ \A i \in I : text[i] \in Characters
      /\ DOMAIN s = I /\ s = UpToIds(N)
  BY LenProperties DEF UpToIds
<1>1. ASSUME NEW acc \in V, NEW i \in I PROVE StripNext(text, acc, i) \in V
  <2>1. \A m \in {"plain", "intro", "csi"} : [acc EXCEPT !.mode = m] \in V
    BY DEF Strippings
  <2>2. [out |-> acc.out \o (IF text[i] = "u" THEN <<"?", "?">> ELSE <<text[i]>>), mode |-> "plain"] \in V
    <3>1. text[i] \in C /\ "?" \in C
      BY <1>0
    <3> HIDE DEF C
    <3>2. acc.out \in Seq(C) /\ V = [out : Seq(C), mode : {"plain", "intro", "csi"}]
      BY DEF C, Strippings
    <3>3. (IF text[i] = "u" THEN <<"?", "?">> ELSE <<text[i]>>) \in Seq(C)
      BY <3>1
    <3>4. acc.out \o (IF text[i] = "u" THEN <<"?", "?">> ELSE <<text[i]>>) \in Seq(C)
      BY <3>2, <3>3
    <3> HIDE DEF V
    <3> QED
      BY <3>2, <3>4
  <2> HIDE DEF V
  <2> QED
    BY <2>1, <2>2 DEF StripNext, StripPlain
<1>2. /\ Steps(G, b, V, I)
      /\ \A acc \in V, i \in I : G[<<acc, i>>] = StripNext(text, acc, i)
  <2>1. b \in V
    BY DEF Unstripped, Strippings
  <2> HIDE DEF V
  <2> QED
    BY <1>1, <2>1 DEF Steps, Stripping, V
<1>3. \A k \in 0..N : UpToIds(k) \in Seq(I)
  BY <1>0 DEF UpToIds
<1>4. UpToIds(0) = <<>>
  BY DEF UpToIds
<1>5. ASSUME NEW k \in 0..(N - 1) PROVE UpToIds(k + 1) = Append(UpToIds(k), k + 1)
  <2>1. k \in Nat /\ k + 1 \in I
    BY <1>0
  <2>2. UpToIds(k + 1) \in Seq(Nat) /\ Len(UpToIds(k + 1)) = k + 1 /\ UpToIds(k) \in Seq(Nat) /\ Len(UpToIds(k)) = k
    BY <2>1 DEF UpToIds
  <2>3. ASSUME NEW i \in 1..(k + 1) PROVE UpToIds(k + 1)[i] = Append(UpToIds(k), k + 1)[i]
    BY <2>1, <2>2 DEF UpToIds
  <2>4. Append(UpToIds(k), k + 1) \in Seq(Nat) /\ Len(Append(UpToIds(k), k + 1)) = k + 1
    BY <2>1, <2>2
  <2> QED
    BY <2>2, <2>3, <2>4, SeqEqual
<1> HIDE DEF G, V, b, I
<1>6. ASSUME NEW f, NEW S \in SUBSET DOMAIN s, S # {}, f[S \ {Max(S)}] \in V
      PROVE  O(f)[S] = G[<<f[S \ {Max(S)}], s[Max(S)]>>]
  <2> DEFINE q == f[S \ {Max(S)}]
             c == s[Max(S)]
  <2>1. O(f)[S] = StripNext(text, q, c)
    BY DEF StripNext, StripPlain
  <2>2. c \in I
    <3>1. s \in Seq(I)
      BY <1>0, <1>3
    <3> HIDE DEF s
    <3> QED
      BY <1>6, <3>1, MaxIn
  <2> HIDE DEF O, q, c
  <2>3. G[<<q, c>>] = StripNext(text, q, c)
    BY <1>2, <1>6, <2>2 DEF q
  <2> QED
    BY <2>1, <2>3 DEF q, c
<1>7. s \in Seq(I)
  BY <1>0, <1>3
<1>8. PICK h \in [SUBSET DOMAIN s -> V] : FoldEquation(h, G, b, s)
  <2> HIDE DEF s
  <2> QED
    BY <1>2, <1>7, FoldExists
<1>9. Eqn(h)
  <2>1. \A S \in SUBSET DOMAIN s : S # {} => O(h)[S] = G[<<h[S \ {Max(S)}], s[Max(S)]>>]
    <3> HIDE DEF O, s
    <3> QED
      BY <1>6
  <2>2. \A S \in SUBSET DOMAIN s : O(h)[S] = L(h, S)
    OBVIOUS
  <2> HIDE DEF O, L, s
  <2> QED
    BY <1>8, <2>1, <2>2 DEF FoldEquation
<1>a. Eqn(it)
  <2> HIDE DEF L, s
  <2> QED
    BY <1>9, Zenon
<1>b. StripAnsi(text) = it[DOMAIN s].out
  BY DEF StripAnsi, FoldLeftDomain, FoldLeft, MapThenFoldSet, b, Unstripped
<1> HIDE DEF it
<1>c. FoldsTo(it, O(it), V, G, b, s)
  <2>1. \A S \in SUBSET DOMAIN s : O(it)[S] = L(it, S)
    OBVIOUS
  <2>2. it = [S \in SUBSET DOMAIN s |-> IF S = {} THEN b ELSE O(it)[S]]
    <3> HIDE DEF L, s
    <3> QED
      BY <1>a, <2>1
  <2>3. \A S \in SUBSET DOMAIN s : S # {} /\ it[S \ {Max(S)}] \in V => O(it)[S] = G[<<it[S \ {Max(S)}], s[Max(S)]>>]
    <3> HIDE DEF O
    <3> QED
      BY <1>6
  <2> HIDE DEF O, s
  <2> QED
    BY <2>2, <2>3 DEF FoldsTo
<1>d. it[DOMAIN s] = Folded(G, b, s)
  <2> HIDE DEF O, s
  <2> QED
    BY <1>2, <1>7, <1>c, FoldIs
<1>e. /\ Folded(G, b, <<>>) = b
      /\ \A q \in Seq(I) : Folded(G, b, q) \in V
      /\ \A q \in Seq(I), e \in I : Folded(G, b, Append(q, e)) = G[<<Folded(G, b, q), e>>]
  BY <1>2, FoldFacts
<1>f. \A k : Stripped(text, k) = Folded(G, b, UpToIds(k))
  BY DEF Stripped, G, b
<1>g. ASSUME NEW k \in 0..(N - 1) PROVE Stripped(text, k + 1) = StripNext(text, Stripped(text, k), k + 1)
  <2>1. k \in 0..N /\ k + 1 \in I
    BY <1>0 DEF I
  <2>2. Stripped(text, k + 1) = G[<<Stripped(text, k), k + 1>>] /\ Stripped(text, k) \in V
    <3>1. UpToIds(k) \in Seq(I) /\ UpToIds(k + 1) = Append(UpToIds(k), k + 1)
      BY <1>3, <1>5, <2>1
    <3> QED
      BY <1>e, <1>f, <2>1, <3>1
  <2> QED
    BY <1>2, <2>1, <2>2
<1>h. StripAnsi(text) = Stripped(text, N).out
  BY <1>0, <1>b, <1>d, <1>f
<1>i. Stripped(text, 0) = b
  BY <1>4, <1>e, <1>f
<1>j. \A k \in 0..N : Stripped(text, k) \in V
  BY <1>3, <1>e, <1>f
<1> QED
  BY <1>g, <1>h, <1>i, <1>j DEF V, b

----------------------------------------------------------------------------
(* Cutting texts and picking items. *)

\* A character takes a byte or more.
LEMMA BytesOfText ==
  ASSUME NEW E, NEW text \in Seq(E)
  PROVE  Bytes(text) \in Nat /\ Bytes(text) >= Len(text)
<1> DEFINE A == {s \in Seq(E) : Bytes(s) >= Len(s)}
<1>1. <<>> \in A
  BY BytesOf
<1>2. ASSUME NEW s \in Seq(E), NEW e \in E, s \in A PROVE Append(s, e) \in A
  <2>1. Bytes(s) \in Nat /\ Bytes(Append(s, e)) = Bytes(s) + (IF e = "u" THEN 2 ELSE 1)
    BY BytesOf
  <2>2. Append(s, e) \in Seq(E) /\ Len(Append(s, e)) = Len(s) + 1 /\ Len(s) \in Nat
    OBVIOUS
  <2> QED
    BY <1>2, <2>1, <2>2
<1> HIDE DEF A
<1>3. Seq(E) \subseteq A
  BY <1>1, <1>2, BySnoc
<1>4. text \in A
  BY <1>3
<1> QED
  BY <1>4, BytesOf DEF A

\* What is taken of a sequence.
LEMMA TakeOf ==
  ASSUME NEW E, NEW s \in Seq(E), NEW n \in Nat
  PROVE  /\ Take(s, n) \in Seq(E)
         /\ Len(Take(s, n)) = IF n < Len(s) THEN n ELSE Len(s)
         /\ \A i \in 1..Len(Take(s, n)) : Take(s, n)[i] = s[i]
<1> DEFINE m == IF n < Len(s) THEN n ELSE Len(s)
<1>1. m \in 0..Len(s) /\ m \in Nat
  OBVIOUS
<1> HIDE DEF m
<1>2. \A i \in 1..m : s[i] \in E
  BY <1>1
<1>3. /\ SubSeq(s, 1, m) \in Seq(E)
      /\ Len(SubSeq(s, 1, m)) = m
      /\ \A i \in 1..m : SubSeq(s, 1, m)[i] = s[i]
  BY <1>1
<1>4. Take(s, n) = SubSeq(s, 1, m)
  BY DEF Take, m
<1> QED
  BY <1>3, <1>4 DEF m

\* A prefix and a suffix, element by element.
LEMMA PrefixOf ==
  ASSUME NEW E, NEW s \in Seq(E), NEW t \in Seq(E), Len(s) <= Len(t), \A i \in 1..Len(s) : s[i] = t[i]
  PROVE  IsPrefix(s, t)
<1> DEFINE m == Len(s)
<1>1. m \in Nat /\ m <= Len(t) /\ SubSeq(s, 1, m) = s
  BY SubSeqFull
<1> HIDE DEF m
<1>2. SubSeq(t, 1, m) \in Seq(E) /\ Len(SubSeq(t, 1, m)) = m /\ \A i \in 1..m : SubSeq(t, 1, m)[i] = t[i]
  BY <1>1
<1>3. SubSeq(t, 1, m) = s
  BY <1>2, SeqEqual DEF m
<1> QED
  BY <1>1, <1>3 DEF IsPrefix, m

\* What agrees with the end of a sequence is a suffix of it.
LEMMA SuffixOf ==
  ASSUME NEW E, NEW s \in Seq(E), NEW t \in Seq(E), Len(s) <= Len(t),
         \A i \in 1..Len(s) : s[i] = t[Len(t) - Len(s) + i]
  PROVE  IsSuffix(s, t)
<1> DEFINE a == Reverse(s)
           b == Reverse(t)
<1>1. a \in Seq(E) /\ Len(a) = Len(s) /\ \A i \in 1..Len(s) : a[i] = s[Len(s) - i + 1]
  BY DEF Reverse
<1>2. b \in Seq(E) /\ Len(b) = Len(t) /\ \A i \in 1..Len(t) : b[i] = t[Len(t) - i + 1]
  BY DEF Reverse
<1>3. ASSUME NEW i \in 1..Len(s) PROVE a[i] = b[i]
  <2> DEFINE j == Len(s) - i + 1
  <2>1. j \in 1..Len(s) /\ Len(t) - Len(s) + j = Len(t) - i + 1 /\ i \in 1..Len(t)
    OBVIOUS
  <2>2. s[j] = t[Len(t) - Len(s) + j]
    BY <2>1
  <2> HIDE DEF j
  <2> QED
    BY <1>1, <1>2, <2>1, <2>2 DEF j
<1> HIDE DEF a, b
<1>4. IsPrefix(a, b)
  BY <1>1, <1>2, <1>3, PrefixOf
<1> QED
  BY <1>4 DEF IsSuffix, a, b

\* A text that is cut ends with the mark, and what is before it begins the text.
LEMMA CutText ==
  ASSUME NEW E, "." \in E, NEW text \in Seq(E), NEW max \in Nat \ {0}, Bytes(text) > max
  PROVE  IsCutOf(Take(text, max) \o Ellipsis, text, max) /\ Take(text, max) \o Ellipsis \in Seq(E)
<1> DEFINE t == Take(text, max)
           m == IF max < Len(text) THEN max ELSE Len(text)
           r == t \o Ellipsis
<1>1. t \in Seq(E) /\ Len(t) = m /\ \A i \in 1..m : t[i] = text[i]
  BY TakeOf
<1>2. Ellipsis \in Seq(E) /\ Len(Ellipsis) = 3
  BY DEF Ellipsis
<1>3. m \in Nat /\ m <= Len(text) /\ Len(text) \in Nat
  OBVIOUS
<1> HIDE DEF t, m
<1>4. r \in Seq(E) /\ Len(r) = m + 3 /\ \A i \in 1..(m + 3) : r[i] = IF i <= m THEN t[i] ELSE Ellipsis[i - m]
  <2> HIDE DEF r
  <2>1. r = t \o Ellipsis
    BY DEF r
  <2>2. /\ r \in Seq(E) /\ Len(r) = Len(t) + Len(Ellipsis)
        /\ \A i \in 1..(Len(t) + Len(Ellipsis)) : r[i] = IF i <= Len(t) THEN t[i] ELSE Ellipsis[i - Len(t)]
    BY <1>1, <1>2, <2>1, ConcatProperties
  <2> QED
    BY <1>1, <1>2, <1>3, <2>2
<1>5. SubSeq(r, 1, Len(r) - 3) = t
  <2>1. Len(r) - 3 = m
    BY <1>3, <1>4
  <2>2. SubSeq(r, 1, m) \in Seq(E) /\ Len(SubSeq(r, 1, m)) = m /\ \A i \in 1..m : SubSeq(r, 1, m)[i] = t[i]
    <3> HIDE DEF r
    <3> QED
      BY <1>3, <1>4
  <2> HIDE DEF r
  <2>3. SubSeq(r, 1, m) = t
    BY <1>1, <2>2, SeqEqual
  <2> QED
    BY <2>1, <2>3
<1> HIDE DEF r
<1>6. IsPrefix(t, text)
  BY <1>1, <1>3, PrefixOf
<1>7. IsSuffix(Ellipsis, r)
  <2>1. \A i \in 1..3 : Ellipsis[i] = r[Len(r) - 3 + i]
    <3>1. ASSUME NEW i \in 1..3 PROVE Ellipsis[i] = r[Len(r) - 3 + i]
      <4>1. Len(r) - 3 + i \in 1..(m + 3) /\ ~(Len(r) - 3 + i <= m) /\ (Len(r) - 3 + i) - m = i
        BY <1>3, <1>4
      <4> QED
        BY <1>4, <4>1
    <3> QED
      BY <3>1
  <2>2. Len(Ellipsis) <= Len(r)
    BY <1>2, <1>3, <1>4
  <2> QED
    BY <1>2, <1>4, <2>1, <2>2, SuffixOf
<1>8. Len(r) - 3 = m
  BY <1>3, <1>4
<1>9. IsCutOf(r, text, max)
  <2>1. IsPrefix(SubSeq(r, 1, Len(r) - 3), text)
    BY <1>5, <1>6
  <2>2. Len(r) - 3 = IF max < Len(text) THEN max ELSE Len(text)
    BY <1>8 DEF m
  <2> QED
    BY <1>7, <2>1, <2>2 DEF IsCutOf
<1> QED
  BY <1>4, <1>9 DEF t, r

\* A text that is cut by its bytes, and one that is cut by its characters.
LEMMA TruncatedIs ==
  ASSUME NEW E, "." \in E, NEW text \in Seq(E), NEW max \in Nat
  PROVE  /\ Truncated(text, max) \in Seq(E) /\ IsCutOf(Truncated(text, max), text, max)
         /\ Truncated(text, max) \in {text, Take(text, max) \o Ellipsis}
         /\ TruncatedChars(text, max) \in Seq(E) /\ IsCutOf(TruncatedChars(text, max), text, max)
<1>1. Bytes(text) \in Nat /\ Bytes(text) >= Len(text) /\ Len(text) \in Nat
  BY BytesOfText
<1>2. max = 0 \/ Len(text) <= max => IsCutOf(text, text, max)
  BY DEF IsCutOf
<1>3. max # 0 /\ Bytes(text) > max =>
        IsCutOf(Take(text, max) \o Ellipsis, text, max) /\ Take(text, max) \o Ellipsis \in Seq(E)
  BY CutText
<1>4. CASE max = 0 \/ Bytes(text) <= max
  BY <1>1, <1>2, <1>4 DEF Truncated, TruncatedChars
<1>5. CASE max # 0 /\ Bytes(text) > max
  BY <1>1, <1>2, <1>3, <1>5 DEF Truncated, TruncatedChars
<1> QED
  BY <1>1, <1>4, <1>5

\* The smallest of some numbers.
LEMMA Least ==
  ASSUME NEW N \in Nat, NEW S, S \subseteq 1..N, S # {}
  PROVE  Min(S) \in S /\ \A y \in S : Min(S) <= y
<1> DEFINE A == {n \in 0..N : \A T \in SUBSET (1..n) : T # {} => \E x \in T : \A y \in T : x <= y}
<1>1. 0 \in A
  <2>1. 1..0 = {}
    OBVIOUS
  <2>2. \A T \in SUBSET (1..0) : T # {} => \E x \in T : \A y \in T : x <= y
    BY <2>1
  <2> QED
    BY <2>2
<1>2. ASSUME NEW n \in 0..(N - 1), n \in A PROVE n + 1 \in A
  <2> SUFFICES ASSUME NEW T \in SUBSET (1..(n + 1)), T # {} PROVE \E x \in T : \A y \in T : x <= y
    OBVIOUS
  <2> DEFINE U == T \ {n + 1}
  <2>1. U \in SUBSET (1..n)
    OBVIOUS
  <2>2. CASE U # {}
    <3>1. PICK x \in U : \A y \in U : x <= y
      BY <1>2, <2>1, <2>2
    <3>2. x \in 1..n /\ x \in T
      BY <2>1
    <3> QED
      BY <3>1, <3>2
  <2>3. CASE U = {}
    <3>1. T = {n + 1}
      BY <2>3
    <3> QED
      BY <3>1
  <2> QED
    BY <2>2, <2>3
<1> HIDE DEF A
<1>3. N \in A
  BY <1>1, <1>2, UpTo
<1>4. PICK x \in S : \A y \in S : x <= y
  BY <1>3 DEF A
<1> QED
  BY <1>4 DEF Min

\* The same positions pick the same; none pick nothing; there are not more than before.
LEMMA PickedSame ==
  ASSUME NEW E, NEW s \in Seq(E), NEW P, NEW Q, \A i \in 1..Len(s) : i \in P <=> i \in Q
  PROVE  Picked(s, P) = Picked(s, Q)
<1> DEFINE A == {r \in Seq(E) : (\A i \in 1..Len(r) : i \in P <=> i \in Q) => Picked(r, P) = Picked(r, Q)}
<1>1. <<>> \in A
  BY PickedOf, EmptySeq
<1>2. ASSUME NEW r \in Seq(E), NEW e \in E, r \in A PROVE Append(r, e) \in A
  <2> DEFINE w == Append(r, e)
  <2>1. w \in Seq(E) /\ Len(w) = Len(r) + 1 /\ Len(r) \in Nat
    OBVIOUS
  <2>2. /\ Picked(w, P) = IF Len(r) + 1 \in P THEN Append(Picked(r, P), e) ELSE Picked(r, P)
        /\ Picked(w, Q) = IF Len(r) + 1 \in Q THEN Append(Picked(r, Q), e) ELSE Picked(r, Q)
    BY PickedOf
  <2> HIDE DEF w
  <2>3. (\A i \in 1..Len(w) : i \in P <=> i \in Q) => Picked(w, P) = Picked(w, Q)
    BY <1>2, <2>1, <2>2
  <2> QED
    BY <2>1, <2>3 DEF w
<1> HIDE DEF A
<1>3. s \in A
  BY <1>1, <1>2, BySnoc
<1> QED
  BY <1>3 DEF A

\* Picking adds nothing, and from positions that are not picked nothing is taken.
LEMMA PickedBounds ==
  ASSUME NEW E, NEW s \in Seq(E), NEW P
  PROVE  /\ Len(Picked(s, P)) <= Len(s)
         /\ (\A i \in 1..Len(s) : i \notin P) => Picked(s, P) = <<>>
<1> DEFINE B(r) == /\ Len(Picked(r, P)) <= Len(r)
                   /\ (\A i \in 1..Len(r) : i \notin P) => Picked(r, P) = <<>>
           A == {r \in Seq(E) : B(r)}
<1>1. <<>> \in A
  <2>1. <<>> \in Seq(E) /\ Len(<<>>) = 0
    OBVIOUS
  <2>2. Picked(<<>>, P) = <<>>
    BY <2>1, PickedOf
  <2> QED
    BY <2>1, <2>2
<1>2. ASSUME NEW r \in Seq(E), NEW e \in E, r \in A PROVE Append(r, e) \in A
  <2> DEFINE w == Append(r, e)
  <2>1. w \in Seq(E) /\ Len(w) = Len(r) + 1 /\ Len(r) \in Nat
    OBVIOUS
  <2>2. /\ Picked(w, P) = IF Len(r) + 1 \in P THEN Append(Picked(r, P), e) ELSE Picked(r, P)
        /\ Picked(r, P) \in Seq(E)
    BY PickedOf
  <2> HIDE DEF w
  <2>3. B(w)
    BY <1>2, <2>1, <2>2
  <2> QED
    BY <2>1, <2>3 DEF w
<1> HIDE DEF A
<1>3. s \in A
  BY <1>1, <1>2, BySnoc
<1> QED
  BY <1>3 DEF A

\* Q is P as seen from the m-th position on.
Shifted(P, Q, m, n) == \A i \in 1..n : i \in Q <=> m + i \in P

\* Of two parts one after the other, what is picked of the first comes first.
LEMMA PickedConcat ==
  ASSUME NEW E, NEW s \in Seq(E), NEW t \in Seq(E), NEW P, NEW Q, Shifted(P, Q, Len(s), Len(t))
  PROVE  Picked(s \o t, P) = Picked(s, P) \o Picked(t, Q)
<1> DEFINE Holds(r) == Shifted(P, Q, Len(s), Len(r)) => Picked(s \o r, P) = Picked(s, P) \o Picked(r, Q)
           A == {r \in Seq(E) : Holds(r)}
<1>1. Picked(s, P) \in Seq(E)
  BY PickedOf
<1>2. <<>> \in A
  <2>1. <<>> \in Seq(E) /\ s \o <<>> = s /\ Picked(s, P) \o <<>> = Picked(s, P)
    BY <1>1
  <2>2. Picked(<<>>, Q) = <<>>
    BY <2>1, PickedOf
  <2> QED
    BY <2>1, <2>2
<1>3. ASSUME NEW r \in Seq(E), NEW e \in E, r \in A PROVE Append(r, e) \in A
  <2> DEFINE x == Picked(s, P)
             y == Picked(r, Q)
             z == s \o r
             w == Append(r, e)
  <2>1. /\ s \o w = Append(z, e) /\ z \in Seq(E) /\ Len(z) = Len(s) + Len(r)
        /\ w \in Seq(E) /\ Len(w) = Len(r) + 1 /\ Len(r) \in Nat /\ Len(s) \in Nat
    OBVIOUS
  <2> SUFFICES ASSUME Shifted(P, Q, Len(s), Len(w)) PROVE Picked(s \o w, P) = x \o Picked(w, Q)
    BY <2>1
  <2>2. (Len(r) + 1 \in Q <=> Len(z) + 1 \in P) /\ Shifted(P, Q, Len(s), Len(r))
    <3>1. Len(r) + 1 \in 1..Len(w) /\ Len(z) + 1 = Len(s) + (Len(r) + 1)
      BY <2>1
    <3>2. \A i \in 1..Len(r) : i \in 1..Len(w)
      BY <2>1
    <3> QED
      BY <3>1, <3>2 DEF Shifted
  <2>3. Picked(z, P) = x \o y
    BY <1>3, <2>2
  <2> HIDE DEF z, A, Holds
  <2>4. y \in Seq(E) /\ Picked(w, Q) = IF Len(r) + 1 \in Q THEN Append(y, e) ELSE y
    BY PickedOf
  <2>5. Picked(Append(z, e), P) = IF Len(z) + 1 \in P THEN Append(Picked(z, P), e) ELSE Picked(z, P)
    BY <2>1, PickedOf
  <2>6. Append(x \o y, e) = x \o Append(y, e)
    <3> HIDE DEF x, y
    <3>1. x \in Seq(E)
      BY <1>1 DEF x
    <3>2. x \o y \in Seq(E)
      BY <2>4, <3>1, ConcatProperties
    <3>3. Append(x \o y, e) = (x \o y) \o <<e>> /\ Append(y, e) = y \o <<e>> /\ <<e>> \in Seq(E)
      BY <2>4, <3>2, AppendIsConcat
    <3>4. \A u \in Seq(E) : (x \o y) \o u = x \o (y \o u)
      <4>1. y \in Seq(E)
        BY <2>4
      <4> QED
        BY <3>1, <4>1, ConcatAssociative, SMTT(60)
    <3> QED
      BY <3>3, <3>4
  <2> HIDE DEF x, y, w
  <2> QED
    BY <2>1, <2>2, <2>3, <2>4, <2>5, <2>6
<1> HIDE DEF A, Holds
<1>4. t \in A
  BY <1>2, <1>3, BySnoc
<1> QED
  BY <1>4 DEF A, Holds

\* The positions that are not blank.
Solid(s) == {i \in DOMAIN s : s[i] # " "}

\* What comes before the first parenthesis makes the function, without its blanks.
LEMMA HeadIsFunction ==
  ASSUME NEW E, NEW head \in Seq(E), NEW rest \in Seq(E),
         \A i \in 1..Len(head) : head[i] # "(", rest # <<>>, rest[1] = "("
  PROVE  FunctionOf(head \o rest) = Picked(head, Solid(head))
<1> DEFINE s == head \o rest
           P == {i \in DOMAIN s : s[i] # " " /\ \A j \in 1..i : s[j] # "("}
           m == Len(head)
           n == Len(rest)
<1>1. /\ m \in Nat /\ n \in Nat /\ n > 0
      /\ s \in Seq(E) /\ Len(s) = m + n /\ DOMAIN s = 1..(m + n) /\ DOMAIN head = 1..m
      /\ \A i \in 1..m : s[i] = head[i]
      /\ s[m + 1] = "("
  OBVIOUS
<1>2. FunctionOf(s) = Picked(s, P)
  BY DEF FunctionOf
<1>3. \A i \in 1..m : head[i] # "("
  OBVIOUS
<1> HIDE DEF s, m, n
<1>4. ASSUME NEW i \in 1..m PROVE i \in P <=> i \in Solid(head)
  <2>1. i \in 1..(m + n) /\ \A j \in 1..i : j \in 1..m
    BY <1>1
  <2>2. \A j \in 1..i : s[j] # "("
    BY <1>1, <1>3, <2>1
  <2> QED
    BY <1>1, <2>1, <2>2 DEF Solid
<1>5. ASSUME NEW i \in 1..n, m + i \in P PROVE FALSE
  <2>1. m + 1 \in 1..(m + i)
    BY <1>1
  <2> QED
    BY <1>1, <1>5, <2>1
<1> HIDE DEF P
<1>6. Shifted(P, {}, m, n)
  BY <1>5 DEF Shifted
<1>7. Picked(s, P) = Picked(head, P) \o Picked(rest, {})
  BY <1>6, PickedConcat DEF s, m, n
<1>8. Picked(rest, {}) = <<>>
  BY PickedBounds
<1>9. Picked(head, P) = Picked(head, Solid(head)) /\ Picked(head, P) \in Seq(E)
  <2>1. Picked(head, P) = Picked(head, Solid(head))
    BY <1>4, PickedSame DEF m
  <2> QED
    BY <2>1, PickedOf
<1> QED
  BY <1>2, <1>7, <1>8, <1>9, ConcatEmptySeq DEF s

\* Trimming takes away blanks only.
LEMMA TrimmedOf ==
  ASSUME NEW E, NEW text \in Seq(E)
  PROVE  /\ Trimmed(text) \in Seq(E)
         /\ \A i \in 1..Len(Trimmed(text)) : \E j \in 1..Len(text) : Trimmed(text)[i] = text[j]
         /\ Picked(Trimmed(text), Solid(Trimmed(text))) = Picked(text, Solid(text))
<1> DEFINE S == Solid(text)
           n == Len(text)
<1>1. n \in Nat /\ DOMAIN text = 1..n /\ S \subseteq 1..n /\ \A i \in 1..n : text[i] \in E
  BY LenProperties DEF Solid
<1>2. Trimmed(text) = IF S = {} THEN <<>> ELSE SubSeq(text, Min(S), Max(S))
  BY DEF Trimmed, Solid
<1>3. Picked(<<>>, Solid(<<>>)) = <<>>
  <2>1. <<>> \in Seq(E)
    OBVIOUS
  <2> QED
    BY <2>1, PickedOf
<1> HIDE DEF n
<1>4. CASE S = {}
  <2>1. \A i \in 1..n : i \notin S
    BY <1>4
  <2>2. Picked(text, S) = <<>>
    <3> HIDE DEF S
    <3> QED
      BY <2>1, PickedBounds DEF n
  <2>3. Trimmed(text) = <<>> /\ <<>> \in Seq(E) /\ Len(<<>>) = 0
    BY <1>2, <1>4
  <2> QED
    BY <1>3, <2>2, <2>3
<1>5. CASE S # {}
  <2> DEFINE a == Min(S)
             b == Max(S)
             x == SubSeq(text, 1, a - 1)
             y == SubSeq(text, a, b)
             z == SubSeq(text, b + 1, n)
  <2>1. a \in S /\ b \in S /\ \A i \in S : a <= i /\ i <= b
    <3> HIDE DEF S
    <3> QED
      BY <1>1, <1>5, Least, Greatest
  <2> HIDE DEF a, b
  <2>2. a \in 1..n /\ b \in a..n /\ a - 1 \in Int /\ b + 1 \in Int
    BY <1>1, <2>1
  <2>3. /\ x \in Seq(E) /\ Len(x) = a - 1 /\ \A i \in 1..(a - 1) : x[i] = text[i]
        /\ y \in Seq(E) /\ Len(y) = b - a + 1 /\ \A i \in 1..(b - a + 1) : y[i] = text[a + i - 1]
        /\ z \in Seq(E) /\ Len(z) = n - b
    <3> HIDE DEF n
    <3>1. /\ \A i \in 1..(a - 1) : text[i] \in E
          /\ \A i \in a..b : text[i] \in E
          /\ \A i \in (b + 1)..n : text[i] \in E
      BY <1>1, <2>2
    <3>2. x \in Seq(E) /\ Len(x) = a - 1 /\ \A i \in 1..(a - 1) : x[i] = text[i]
      BY <1>1, <2>2, <3>1
    <3>3. y \in Seq(E) /\ Len(y) = b - a + 1 /\ \A i \in 1..(b - a + 1) : y[i] = text[a + i - 1]
      BY <1>1, <2>2, <3>1
    <3>4. z \in Seq(E) /\ Len(z) = n - b
      BY <1>1, <2>2, <3>1
    <3> QED
      BY <3>2, <3>3, <3>4
  <2>4. text = (x \o y) \o z
    <3>1. SubSeq(text, 1, a - 1) \o SubSeq(text, (a - 1) + 1, b) = SubSeq(text, 1, b)
      <4>1. 1 \in 1..(Len(text) + 1) /\ a - 1 \in (1 - 1)..Len(text) /\ b \in (a - 1)..Len(text)
        BY <1>1, <2>2 DEF n
      <4> QED
        BY <4>1, ConcatAdjacentSubSeq
    <3>2. SubSeq(text, 1, b) \o SubSeq(text, b + 1, n) = SubSeq(text, 1, n)
      <4>1. 1 \in 1..(Len(text) + 1) /\ b \in (1 - 1)..Len(text) /\ n \in b..Len(text)
        BY <1>1, <2>2 DEF n
      <4> QED
        BY <4>1, ConcatAdjacentSubSeq
    <3>3. (a - 1) + 1 = a
      BY <2>2
    <3>4. SubSeq(text, 1, n) = text
      BY SubSeqFull DEF n
    <3> QED
      BY <3>1, <3>2, <3>3, <3>4
  <2> HIDE DEF x, y, z
  <2> DEFINE U == {i \in Nat : (a - 1) + i \in S}
  <2>5. x \o y \in Seq(E) /\ Len(x \o y) = b
    <3>1. x \o y \in Seq(E) /\ Len(x \o y) = Len(x) + Len(y)
      BY <2>3, ConcatProperties
    <3> QED
      BY <2>2, <2>3, <3>1
  <2>6. Picked(text, S) = (Picked(x, S) \o Picked(y, U)) \o Picked(z, {})
    <3>1. Shifted(S, {}, Len(x \o y), Len(z))
      BY <2>1, <2>2, <2>3, <2>5 DEF Shifted
    <3>2. Shifted(S, U, Len(x), Len(y))
      BY <2>3 DEF Shifted
    <3> HIDE DEF S, U
    <3>3. Picked((x \o y) \o z, S) = Picked(x \o y, S) \o Picked(z, {})
      <4> DEFINE v == x \o y
      <4>1. v \in Seq(E) /\ z \in Seq(E) /\ Shifted(S, {}, Len(v), Len(z))
        BY <2>3, <2>5, <3>1
      <4> HIDE DEF v
      <4>2. Picked(v \o z, S) = Picked(v, S) \o Picked(z, {})
        BY <4>1, PickedConcat
      <4> QED
        BY <4>2 DEF v
    <3>4. Picked(x \o y, S) = Picked(x, S) \o Picked(y, U)
      BY <2>3, <3>2, PickedConcat
    <3> QED
      BY <2>4, <3>3, <3>4
  <2>7. Picked(z, {}) = <<>>
    BY <2>3, PickedBounds
  <2>8. Picked(x, S) = <<>>
    <3>1. \A i \in 1..Len(x) : i \notin S
      BY <2>1, <2>2, <2>3
    <3> HIDE DEF S
    <3> QED
      BY <2>3, <3>1, PickedBounds
  <2>9. Picked(y, U) = Picked(y, Solid(y)) /\ Picked(y, U) \in Seq(E)
    <3>1. ASSUME NEW i \in 1..Len(y) PROVE i \in U <=> i \in Solid(y)
      <4>1. /\ i \in Nat /\ (a - 1) + i = a + i - 1 /\ a + i - 1 \in 1..n /\ y[i] = text[a + i - 1]
            /\ i \in DOMAIN y
        <5>1. DOMAIN y = 1..Len(y)
          BY <2>3, LenProperties
        <5>2. i \in 1..(b - a + 1)
          BY <2>3
        <5>3. a + i - 1 \in 1..n /\ (a - 1) + i = a + i - 1
          BY <1>1, <2>2, <5>2
        <5> QED
          BY <2>3, <5>1, <5>2, <5>3
      <4>2. i \in U <=> text[a + i - 1] # " "
        BY <1>1, <4>1 DEF Solid
      <4>3. i \in Solid(y) <=> y[i] # " "
        BY <4>1 DEF Solid
      <4> QED
        BY <4>1, <4>2, <4>3
    <3> HIDE DEF U
    <3>2. Picked(y, U) = Picked(y, Solid(y))
      BY <2>3, <3>1, PickedSame
    <3> QED
      BY <2>3, <3>2, PickedOf
  <2>a. Picked(text, S) = Picked(y, Solid(y))
    <3> DEFINE w == Picked(y, U)
    <3>1. w \in Seq(E)
      BY <2>9
    <3> HIDE DEF w
    <3>2. (<<>> \o w) \o <<>> = w
      BY <3>1
    <3> QED
      BY <2>6, <2>7, <2>8, <2>9, <3>2 DEF w
  <2>b. Trimmed(text) = y
    BY <1>2, <1>5 DEF a, b, y
  <2>c. \A i \in 1..Len(y) : \E j \in 1..Len(text) : y[i] = text[j]
    <3> SUFFICES ASSUME NEW i \in 1..Len(y) PROVE \E j \in 1..Len(text) : y[i] = text[j]
      OBVIOUS
    <3>1. a + i - 1 \in 1..Len(text) /\ y[i] = text[a + i - 1]
      BY <2>2, <2>3 DEF n
    <3> QED
      BY <3>1
  <2> HIDE DEF S
  <2> QED
    BY <2>3, <2>a, <2>b, <2>c DEF S
<1> QED
  BY <1>4, <1>5

----------------------------------------------------------------------------
(* Stack frames: their functions and their files. *)

\* Cutting off the parameters leaves the function.
LEMMA FunctionKept ==
  ASSUME NEW F, NEW name \in Seq(F)
  PROVE  FunctionOf(TrimFunctionName(name)) = FunctionOf(name)
<1> DEFINE E == F \cup {"(", "...", ")"}
           n == Len(name)
           I == {i \in 1..n : name[i] = "("}
           k == SelectInSeq(name, LAMBDA c : c = "(")
           head == SubSeq(name, 1, k - 1)
           rest == SubSeq(name, k, n)
           base == Trimmed(head)
           tail == <<"(", "...", ")">>
<1>1. name \in Seq(E) /\ n \in Nat /\ DOMAIN name = 1..n /\ \A i \in 1..n : name[i] \in E
  OBVIOUS
<1>2. TrimFunctionName(name) = IF "(" \in ToSet(name) /\ base # <<>> THEN base \o tail ELSE name
  BY DEF TrimFunctionName
<1>3. CASE ~("(" \in ToSet(name) /\ base # <<>>)
  <2> HIDE DEF base
  <2> QED
    BY <1>2, <1>3
<1>4. CASE "(" \in ToSet(name) /\ base # <<>>
  <2>1. I # {}
    BY <1>1, <1>4 DEF ToSet
  <2>2. k = Min(I)
    BY <2>1 DEF SelectInSeq
  <2>3. k \in I /\ \A i \in I : k <= i
    <3>1. I \subseteq 1..n
      OBVIOUS
    <3> HIDE DEF I, k
    <3> QED
      BY <1>1, <2>1, <2>2, <3>1, Least
  <2> HIDE DEF k
  <2>4. k \in 1..n /\ name[k] = "(" /\ \A i \in 1..(k - 1) : name[i] # "("
    <3>1. k \in 1..n /\ name[k] = "("
      BY <2>3
    <3>2. ASSUME NEW i \in 1..(k - 1) PROVE name[i] # "("
      <4>1. i \in 1..n /\ ~(k <= i)
        BY <3>1
      <4> QED
        BY <2>3, <4>1
    <3> QED
      BY <3>1, <3>2
  <2> HIDE DEF I, E
  <2>5. /\ head \in Seq(E) /\ Len(head) = k - 1 /\ \A i \in 1..(k - 1) : head[i] = name[i]
        /\ rest \in Seq(E) /\ rest # <<>> /\ rest[1] = name[k]
    <3> HIDE DEF n
    <3>1. (\A i \in 1..(k - 1) : name[i] \in E) /\ (\A i \in k..n : name[i] \in E) /\ k \in Int /\ k - 1 \in Nat /\ n \in Int
      BY <1>1, <2>4
    <3>2. head \in Seq(E) /\ Len(head) = k - 1 /\ \A i \in 1..(k - 1) : head[i] = name[i]
      BY <3>1
    <3>3. rest \in Seq(E) /\ Len(rest) = n - k + 1 /\ \A i \in 1..(n - k + 1) : rest[i] = name[k + i - 1]
      BY <1>1, <2>4, <3>1
    <3> HIDE DEF rest
    <3>4. 1 \in 1..(n - k + 1) /\ k + 1 - 1 = k /\ Len(rest) > 0
      BY <1>1, <2>4, <3>3
    <3>5. rest[1] = name[k] /\ rest # <<>>
      BY <3>3, <3>4
    <3> QED
      BY <3>2, <3>3, <3>5
  <2>6. name = head \o rest
    <3>1. 1 \in 1..(Len(name) + 1) /\ k - 1 \in (1 - 1)..Len(name) /\ n \in (k - 1)..Len(name) /\ (k - 1) + 1 = k
      BY <1>1, <2>4
    <3>2. SubSeq(name, 1, k - 1) \o SubSeq(name, (k - 1) + 1, n) = SubSeq(name, 1, n)
      BY <1>1, <3>1, ConcatAdjacentSubSeq
    <3>3. SubSeq(name, 1, n) = name
      BY <1>1, SubSeqFull
    <3> QED
      BY <3>1, <3>2, <3>3
  <2> HIDE DEF head, rest, n, base
  <2>7. FunctionOf(name) = Picked(head, Solid(head))
    <3>1. \A i \in 1..Len(head) : head[i] # "("
      BY <2>4, <2>5
    <3> QED
      BY <2>4, <2>5, <2>6, <3>1, HeadIsFunction
  <2>8. /\ base \in Seq(E) /\ \A i \in 1..Len(base) : base[i] # "("
        /\ Picked(base, Solid(base)) = Picked(head, Solid(head))
    <3>1. /\ base \in Seq(E)
          /\ \A i \in 1..Len(base) : \E j \in 1..Len(head) : base[i] = head[j]
          /\ Picked(base, Solid(base)) = Picked(head, Solid(head))
      BY <2>5, TrimmedOf DEF base
    <3>2. \A j \in 1..Len(head) : head[j] # "("
      BY <2>4, <2>5
    <3> QED
      BY <3>1, <3>2
  <2>9. tail \in Seq(E) /\ tail # <<>> /\ tail[1] = "("
    BY DEF E
  <2> HIDE DEF tail
  <2>a. FunctionOf(base \o tail) = Picked(base, Solid(base))
    BY <2>8, <2>9, HeadIsFunction
  <2> QED
    BY <1>2, <1>4, <2>7, <2>8, <2>a
<1> QED
  BY <1>3, <1>4

\* The stack frames, and the paths that are written out.
Frame == ItemsOf("stackTrace")
Shown(p) == p \notin {NoPath, EmptyPath}

\* The end of a path, of one component or two.
LEMMA OneOrTwo ==
  ASSUME NEW E, NEW p \in Seq(E), NEW n, n = Len(p), n > 0, NEW q,
         \/ q = <<p[n]>>
         \/ n > 1 /\ q = <<p[n - 1], p[n]>>
  PROVE  q \in Seq(E) /\ q # <<>> /\ q[Len(q)] = p[n] /\ IsSuffix(q, p)
<1>1. n \in Nat /\ \A i \in 1..n : p[i] \in E
  OBVIOUS
<1>3. CASE q = <<p[n]>>
  <2>1. q \in Seq(E) /\ Len(q) = 1 /\ q[1] = p[n]
    BY <1>1, <1>3
  <2>2. \A i \in 1..Len(q) : q[i] = p[Len(p) - Len(q) + i]
    BY <1>1, <2>1
  <2>3. IsSuffix(q, p)
    <3>1. Len(q) <= Len(p)
      BY <1>1, <2>1
    <3> QED
      BY <2>1, <2>2, <3>1, SuffixOf
  <2>4. q # <<>>
    BY <2>1, EmptySeq
  <2> QED
    BY <2>1, <2>3, <2>4
<1>4. CASE n > 1 /\ q = <<p[n - 1], p[n]>>
  <2>0. n - 1 \in 1..n /\ n \in 1..n
    BY <1>1, <1>4
  <2>1. q \in Seq(E) /\ Len(q) = 2 /\ q[1] = p[n - 1] /\ q[2] = p[n]
    BY <1>1, <1>4, <2>0
  <2>2. \A i \in 1..Len(q) : q[i] = p[Len(p) - Len(q) + i]
    <3>1. n - 2 + 1 = n - 1 /\ n - 2 + 2 = n
      BY <1>1
    <3>2. \A i \in 1..2 : i = 1 \/ i = 2
      OBVIOUS
    <3> QED
      BY <2>1, <3>1, <3>2
  <2>3. IsSuffix(q, p)
    <3>1. Len(q) <= Len(p)
      BY <1>1, <1>4, <2>1
    <3> QED
      BY <2>1, <2>2, <3>1, SuffixOf
  <2>4. q # <<>>
    BY <2>1, EmptySeq
  <2> QED
    BY <2>1, <2>3, <2>4
<1> QED
  BY <1>3, <1>4

\* A shortened path is the end of the path, and no sign.
LEMMA ShortenedPath ==
  ASSUME NEW p \in SourcePaths, p # NoPath
  PROVE  Shown(ShortenPath(p)) /\ IsSuffix(ShortenPath(p), p)
<1> DEFINE E == STRING
           n == Len(p)
           q == ShortenPath(p)
<1>1. p \in Seq(E) /\ p # <<>> /\ p[n] # ""
  BY DEF SourcePaths, NoPath
<1>2. q = IF n = 1 \/ p[n - 1] = "" THEN <<p[n]>> ELSE <<p[n - 1], p[n]>>
  BY DEF ShortenPath
<1> HIDE DEF E, q
<1>3. n \in Nat /\ n > 0
  <2>1. p \in Seq(E) /\ p # <<>>
    BY <1>1
  <2> QED
    BY <2>1, EmptySeq
<1> HIDE DEF n
<1>4. \/ q = <<p[n]>>
      \/ n > 1 /\ q = <<p[n - 1], p[n]>>
  <2> DEFINE root == p[n - 1] = ""
  <2>1. \/ q = <<p[n]>>
        \/ n # 1 /\ q = <<p[n - 1], p[n]>>
    BY <1>2
  <2> HIDE DEF root
  <2> QED
    BY <1>3, <2>1
<1>5. q \in Seq(E) /\ q # <<>> /\ q[Len(q)] = p[n] /\ IsSuffix(q, p)
  BY <1>1, <1>3, <1>4, OneOrTwo DEF n
<1>6. q # EmptyPath
  <2>1. Len(EmptyPath) = 1 /\ EmptyPath[1] = ""
    BY DEF EmptyPath
  <2> QED
    BY <1>1, <1>5, <2>1
<1> QED
  BY <1>5, <1>6 DEF Shown, NoPath, q

\* What abbreviating does to a frame.
LEMMA AbbreviatedFrame ==
  ASSUME NEW f \in Frame, NEW prev
  PROVE  LET a == Abbreviate(f, prev)
         IN /\ a.id = f.id
            /\ FunctionOf(a.name) = FunctionOf(f.name)
            /\ f.path = NoPath => a.path = NoPath
            /\ f.path # NoPath /\ f.path = prev => a.path = EmptyPath
            /\ f.path # NoPath /\ f.path # prev => Shown(a.path) /\ IsSuffix(a.path, f.path)
<1> DEFINE a == Abbreviate(f, prev)
<1>1. f \in [id : Nat, path : SourcePaths, hint : {"none", "label", "subtle"}, name : Seq(STRING), fields : SUBSET STRING]
  BY DEF Frame, ItemsOf
<1>2. /\ a.id = f.id /\ a.name = TrimFunctionName(f.name)
      /\ a.path = CASE f.path = NoPath -> NoPath
                    [] f.path # NoPath /\ f.path = prev -> EmptyPath
                    [] OTHER -> ShortenPath(f.path)
  BY <1>1 DEF Abbreviate
<1>3. f.path \in SourcePaths /\ f.name \in Seq(STRING)
  BY <1>1
<1>4. FunctionOf(a.name) = FunctionOf(f.name)
  BY <1>2, <1>3, FunctionKept
<1>5. f.path # NoPath => Shown(ShortenPath(f.path)) /\ IsSuffix(ShortenPath(f.path), f.path)
  BY <1>3, ShortenedPath
<1> HIDE DEF a
<1> QED
  BY <1>2, <1>4, <1>5 DEF a

\* The last path that is written among the first i frames is the end of this one.
Traced(out, i, p) ==
  \E r \in 1..i : /\ Shown(out[r].path) /\ IsSuffix(out[r].path, p)
                  /\ \A q \in (r + 1)..i : ~Shown(out[q].path)

\* A frame stands for the one it was made of, and so does each of the frames so far.
TracedFrame(out, i, f) ==
  /\ out[i].id = f.id
  /\ FunctionOf(out[i].name) = FunctionOf(f.name)
  /\ IF f.path = NoPath THEN out[i].path = NoPath ELSE Traced(out, i, f.path)

TracedFrames(st, frames) ==
  /\ Len(st.out) = Len(frames)
  /\ \A i \in 1..Len(frames) : TracedFrame(st.out, i, frames[i])
  /\ st.prev = NoPath \/ Traced(st.out, Len(frames), st.prev)

\* One more frame can be traced, and the others still.
LEMMA OneMoreFrame ==
  ASSUME NEW frames \in Seq(Frame), NEW f \in Frame, NEW X, NEW st, st.out \in Seq(X), Abbreviate(f, st.prev) \in X,
         TracedFrames(st, frames)
  PROVE  TracedFrames(NextFrame(st, f), Append(frames, f))
<1> DEFINE n == Len(frames)
           w == Append(frames, f)
           a == Abbreviate(f, st.prev)
           out == Append(st.out, a)
           new == NextFrame(st, f)
<1>1. /\ n \in Nat /\ Len(w) = n + 1 /\ w[n + 1] = f /\ \A i \in 1..n : w[i] = frames[i]
  OBVIOUS
<1> HIDE DEF w
<1>2. /\ Len(st.out) = n
      /\ \A i \in 1..n : TracedFrame(st.out, i, frames[i])
      /\ st.prev = NoPath \/ Traced(st.out, n, st.prev)
  BY DEF TracedFrames
<1>3. new.out = out /\ new.prev = IF f.path = NoPath THEN st.prev ELSE f.path
  BY DEF NextFrame
<1>4. /\ a.id = f.id
      /\ FunctionOf(a.name) = FunctionOf(f.name)
      /\ f.path = NoPath => a.path = NoPath
      /\ f.path # NoPath /\ f.path = st.prev => a.path = EmptyPath
      /\ f.path # NoPath /\ f.path # st.prev => Shown(a.path) /\ IsSuffix(a.path, f.path)
  BY AbbreviatedFrame
<1> HIDE DEF n, a, new
<1>5. Len(out) = n + 1 /\ out[n + 1] = a /\ \A i \in 1..n : out[i] = st.out[i]
  BY <1>1, <1>2 DEF a
<1> HIDE DEF out
<1>6. ASSUME NEW i \in 1..n, NEW p, Traced(st.out, i, p) PROVE Traced(out, i, p)
  <2>1. PICK r \in 1..i : /\ Shown(st.out[r].path) /\ IsSuffix(st.out[r].path, p)
                          /\ \A q \in (r + 1)..i : ~Shown(st.out[q].path)
    BY <1>6 DEF Traced
  <2>2. r \in 1..n /\ \A q \in (r + 1)..i : q \in 1..n
    BY <1>1
  <2> QED
    BY <1>5, <2>1, <2>2 DEF Traced
<1>7. ASSUME NEW p, Traced(out, n, p), ~Shown(a.path) PROVE Traced(out, n + 1, p)
  <2>1. PICK r \in 1..n : /\ Shown(out[r].path) /\ IsSuffix(out[r].path, p)
                          /\ \A q \in (r + 1)..n : ~Shown(out[q].path)
    BY <1>7 DEF Traced
  <2>2. r \in 1..(n + 1) /\ \A q \in (r + 1)..(n + 1) : q \in (r + 1)..n \/ q = n + 1
    BY <1>1
  <2>3. \A q \in (r + 1)..(n + 1) : ~Shown(out[q].path)
    BY <1>5, <1>7, <2>1, <2>2
  <2> QED
    BY <2>1, <2>2, <2>3 DEF Traced
<1>8. ASSUME NEW p, Shown(a.path), IsSuffix(a.path, p) PROVE Traced(out, n + 1, p)
  <2>1. n + 1 \in 1..(n + 1) /\ \A q \in ((n + 1) + 1)..(n + 1) : FALSE
    BY <1>1
  <2> QED
    BY <1>5, <1>8, <2>1 DEF Traced
<1>9. st.prev = NoPath \/ Traced(out, n, st.prev)
  <2>1. CASE Traced(st.out, n, st.prev)
    <3>1. n \in 1..n
      <4>1. \E r \in 1..n : TRUE
        BY <2>1 DEF Traced
      <4> QED
        BY <1>1, <4>1
    <3> QED
      BY <1>6, <2>1, <3>1
  <2> QED
    BY <1>2, <2>1
<1>a. \A i \in 1..n : TracedFrame(out, i, frames[i])
  BY <1>2, <1>5, <1>6 DEF TracedFrame
<1>b. ~Shown(NoPath) /\ ~Shown(EmptyPath)
  BY DEF Shown
<1>c. TracedFrame(out, n + 1, f)
  BY <1>4, <1>5, <1>7, <1>8, <1>9, <1>b DEF TracedFrame
<1>d. new.prev = NoPath \/ Traced(out, n + 1, new.prev)
  BY <1>3, <1>4, <1>7, <1>8, <1>9, <1>b
<1>e. \A i \in 1..(n + 1) : TracedFrame(out, i, w[i])
  <2>1. \A i \in 1..(n + 1) : i \in 1..n \/ i = n + 1
    BY <1>1
  <2> QED
    BY <1>1, <1>a, <1>c, <2>1
<1> QED
  BY <1>1, <1>3, <1>5, <1>d, <1>e DEF TracedFrames, w, new

\* Every frame can be told from the ones that are written.
LEMMA FramesTold ==
  ASSUME NEW frames \in Seq(Frame)
  PROVE  /\ Len(Abbreviated(frames)) = Len(frames)
         /\ \A i \in 1..Len(frames) : TracedFrame(Abbreviated(frames), i, frames[i])
<1> DEFINE A == {s \in Seq(Frame) : TracedFrames(AbbreviatedTo(Frame, s), s)}
<1>1. <<>> \in A
  <2>1. <<>> \in Seq(Frame) /\ Len(<<>>) = 0
    OBVIOUS
  <2>2. AbbreviatedTo(Frame, <<>>) = NoFrames
    BY <2>1, AbbreviatedOf
  <2> QED
    BY <2>1, <2>2 DEF TracedFrames, NoFrames
<1>2. ASSUME NEW s \in Seq(Frame), NEW f \in Frame, s \in A PROVE Append(s, f) \in A
  <2> DEFINE st == AbbreviatedTo(Frame, s)
             X == {Abbreviate(g, h.path) : g \in Frame, h \in Frame \cup {[path |-> NoPath]}}
  <2>1. AbbreviatedTo(Frame, Append(s, f)) = NextFrame(st, f) /\ st \in Abbreviations(Frame)
    BY AbbreviatedOf
  <2>2. st.out \in Seq(X) /\ st.prev \in {g.path : g \in Frame} \cup {NoPath}
    BY <2>1 DEF Abbreviations
  <2>3. Abbreviate(f, st.prev) \in X
    <3> HIDE DEF st
    <3>1. ASSUME st.prev = NoPath PROVE \E h \in Frame \cup {[path |-> NoPath]} : h.path = st.prev
      <4>1. [path |-> NoPath].path = st.prev
        BY <3>1
      <4> QED
        BY <4>1
    <3>2. ASSUME st.prev \in {g.path : g \in Frame} PROVE \E h \in Frame \cup {[path |-> NoPath]} : h.path = st.prev
      BY <3>2
    <3>3. PICK h \in Frame \cup {[path |-> NoPath]} : h.path = st.prev
      BY <2>2, <3>1, <3>2
    <3> QED
      BY <3>3
  <2> HIDE DEF st, X
  <2>4. TracedFrames(st, s)
    BY <1>2 DEF st
  <2>5. TracedFrames(NextFrame(st, f), Append(s, f))
    BY <2>2, <2>3, <2>4, OneMoreFrame
  <2> QED
    BY <2>1, <2>5 DEF st
<1> HIDE DEF A
<1>3. frames \in A
  BY <1>1, <1>2, BySnoc
<1>4. TracedFrames(AbbreviatedTo(Frame, frames), frames) /\ Abbreviated(frames) = AbbreviatedTo(Frame, frames).out
  BY <1>3, AbbreviatedOf DEF A
<1> QED
  BY <1>4 DEF TracedFrames

\* What the reader of a compressed stack trace has to find in it.
LEMMA FramesRead ==
  ASSUME NEW items \in Seq(Frame)
  PROVE  LET kept == Picked(items, {i \in DOMAIN items : items[i].hint = "none"})
             out == CompressFrames(items)
             Real(i) == SelectLastInSubSeq(out, 1, i, LAMBDA f : f.path \notin {NoPath, EmptyPath})
         IN /\ Len(out) = Len(kept) /\ Len(out) <= Len(items)
            /\ \A i \in DOMAIN kept :
                 /\ out[i].id = kept[i].id
                 /\ FunctionOf(out[i].name) = FunctionOf(kept[i].name)
                 /\ IF kept[i].path = NoPath THEN out[i].path = NoPath
                    ELSE Real(i) # 0 /\ IsSuffix(out[Real(i)].path, kept[i].path)
<1> DEFINE P == {i \in DOMAIN items : items[i].hint = "none"}
           Q == {i \in DOMAIN items : ~Synthetic(items[i])}
           kept == Picked(items, P)
           out == CompressFrames(items)
           Real(i) == SelectLastInSubSeq(out, 1, i, LAMBDA f : f.path \notin {NoPath, EmptyPath})
<1>1. \A i \in 1..Len(items) : i \in P <=> i \in Q
  <2>1. \A i \in 1..Len(items) : items[i].hint \in {"none", "label", "subtle"}
    <3>1. \A f \in Frame : f.hint \in {"none", "label", "subtle"}
      BY DEF Frame, ItemsOf
    <3> QED
      BY <3>1
  <2> QED
    BY <2>1 DEF Synthetic
<1>2. kept = WithoutSynthetic(items)
  <2> HIDE DEF P, Q
  <2>1. Picked(items, P) = Picked(items, Q)
    BY <1>1, PickedSame
  <2> QED
    BY <2>1 DEF WithoutSynthetic, Q
<1>3. kept \in Seq(Frame) /\ Len(kept) <= Len(items)
  <2> HIDE DEF P
  <2> QED
    BY PickedOf, PickedBounds
<1>4. out = Abbreviated(kept)
  BY <1>2 DEF CompressFrames
<1> HIDE DEF kept, out
<1>5. /\ Len(out) = Len(kept)
      /\ \A i \in 1..Len(kept) : TracedFrame(out, i, kept[i])
  BY <1>3, <1>4, FramesTold
<1>6. DOMAIN kept = 1..Len(kept) /\ Len(kept) \in Nat
  BY <1>3
<1>7. ASSUME NEW i \in 1..Len(kept), kept[i].path # NoPath
      PROVE  Real(i) # 0 /\ IsSuffix(out[Real(i)].path, kept[i].path)
  <2> DEFINE I == {j \in 1..i : Shown(out[j].path)}
  <2>1. Traced(out, i, kept[i].path)
    BY <1>5, <1>7 DEF TracedFrame
  <2>2. PICK r \in 1..i : /\ Shown(out[r].path) /\ IsSuffix(out[r].path, kept[i].path)
                          /\ \A q \in (r + 1)..i : ~Shown(out[q].path)
    BY <2>1 DEF Traced
  <2>3. r \in I /\ I \subseteq 1..i /\ i \in Nat
    BY <1>6, <2>2
  <2>4. Max(I) \in I /\ \A y \in I : y <= Max(I)
    <3> HIDE DEF I
    <3> QED
      BY <2>3, Greatest
  <2>5. Max(I) = r
    <3>1. Max(I) \in 1..i /\ r <= Max(I) /\ ~(Max(I) \in (r + 1)..i)
      BY <2>2, <2>3, <2>4
    <3> HIDE DEF I
    <3> QED
      BY <1>6, <2>3, <3>1
  <2>6. Real(i) = Max(I)
    <3>1. I = {j \in 1..i : out[j].path \notin {NoPath, EmptyPath}}
      BY DEF Shown
    <3>2. I # {}
      BY <2>3
    <3> HIDE DEF I
    <3> QED
      BY <3>1, <3>2 DEF SelectLastInSubSeq
  <2> HIDE DEF Real, I
  <2> QED
    BY <2>2, <2>3, <2>5, <2>6
<1>8. \A i \in 1..Len(kept) :
         /\ out[i].id = kept[i].id
         /\ FunctionOf(out[i].name) = FunctionOf(kept[i].name)
         /\ kept[i].path = NoPath => out[i].path = NoPath
  BY <1>5 DEF TracedFrame
<1> HIDE DEF Real
<1>9. /\ Len(out) = Len(kept) /\ Len(out) <= Len(items)
      /\ \A i \in DOMAIN kept :
           /\ out[i].id = kept[i].id
           /\ FunctionOf(out[i].name) = FunctionOf(kept[i].name)
           /\ IF kept[i].path = NoPath THEN out[i].path = NoPath
              ELSE Real(i) # 0 /\ IsSuffix(out[Real(i)].path, kept[i].path)
  BY <1>3, <1>5, <1>6, <1>7, <1>8
<1> QED
  BY <1>9 DEF kept, out, Real

----------------------------------------------------------------------------
(* Output text: lines that are folded can be unfolded. *)

\* A sequence that is not empty is what comes before its last element, and that.
LEMMA LastOf ==
  ASSUME NEW E, NEW s \in Seq(E), s # <<>>
  PROVE  /\ Len(s) \in Nat \ {0} /\ s[Len(s)] \in E
         /\ SubSeq(s, 1, Len(s) - 1) \in Seq(E) /\ Len(SubSeq(s, 1, Len(s) - 1)) = Len(s) - 1
         /\ \A i \in 1..(Len(s) - 1) : SubSeq(s, 1, Len(s) - 1)[i] = s[i]
         /\ \A e \in E : [s EXCEPT ![Len(s)] = e] = Append(SubSeq(s, 1, Len(s) - 1), e)
         /\ s = Append(SubSeq(s, 1, Len(s) - 1), s[Len(s)])
<1> DEFINE n == Len(s)
           r == SubSeq(s, 1, n - 1)
<1>1. n \in Nat \ {0} /\ s[n] \in E
  BY EmptySeq
<1>2. r \in Seq(E) /\ Len(r) = n - 1 /\ \A i \in 1..(n - 1) : r[i] = s[i]
  <2> DEFINE m == n - 1
  <2>1. \A i \in 1..m : 1 + i - 1 = i
    BY <1>1
  <2>2. \A i \in 1..m : s[i] \in E
    <3>1. \A i \in 1..m : i \in 1..Len(s)
      BY <1>1
    <3> QED
      BY <3>1
  <2>3. m \in Int /\ m - 1 + 1 = m /\ (1 <= m \/ m = 0)
    <3> HIDE DEF r
    <3>1. n \in Int /\ n >= 1
      BY <1>1
    <3> HIDE DEF n
    <3> QED
      BY <3>1
  <2> HIDE DEF r, m
  <2>4. /\ SubSeq(s, 1, m) \in Seq(E) /\ Len(SubSeq(s, 1, m)) = m
        /\ \A i \in 1..m : SubSeq(s, 1, m)[i] = s[i]
    BY <2>1, <2>2, <2>3, SubSeqProperties
  <2> QED
    BY <2>4 DEF m, r
<1> HIDE DEF r
<1>3. ASSUME NEW e \in E PROVE [s EXCEPT ![n] = e] = Append(r, e)
  <2> DEFINE x == [s EXCEPT ![n] = e]
             y == Append(r, e)
  <2>1. x \in Seq(E) /\ Len(x) = n /\ x[n] = e /\ \A i \in 1..(n - 1) : x[i] = s[i]
    BY <1>1
  <2>2. y \in Seq(E) /\ Len(y) = n /\ y[n] = e /\ \A i \in 1..(n - 1) : y[i] = s[i]
    BY <1>1, <1>2
  <2> HIDE DEF x, y
  <2>3. \A i \in 1..n : x[i] = y[i]
    BY <1>1, <2>1, <2>2
  <2>4. x = y
    BY <2>1, <2>2, <2>3, SeqEqual
  <2> QED
    BY <2>4 DEF x, y
<1>4. s = Append(r, s[n])
  <2>1. [s EXCEPT ![n] = s[n]] = s
    BY <1>1
  <2> QED
    BY <1>1, <1>3, <2>1
<1> QED
  BY <1>1, <1>2, <1>3, <1>4 DEF r

\* The last element of a sequence can be put in when it is appended.
LEMMA LastReplaced ==
  ASSUME NEW E, NEW s \in Seq(E), NEW e \in E, NEW w \in E
  PROVE  [Append(s, e) EXCEPT ![Len(s) + 1] = w] = Append(s, w)
<1> DEFINE t == Append(s, e)
           x == [t EXCEPT ![Len(s) + 1] = w]
           y == Append(s, w)
<1>1. t \in Seq(E) /\ Len(t) = Len(s) + 1 /\ Len(s) \in Nat /\ \A i \in 1..Len(s) : t[i] = s[i]
  OBVIOUS
<1>2. y \in Seq(E) /\ Len(y) = Len(s) + 1 /\ y[Len(s) + 1] = w /\ \A i \in 1..Len(s) : y[i] = s[i]
  OBVIOUS
<1> HIDE DEF t, y
<1>3. x \in Seq(E) /\ Len(x) = Len(s) + 1 /\ \A i \in 1..(Len(s) + 1) : x[i] = IF i = Len(s) + 1 THEN w ELSE t[i]
  <2>1. Len(s) + 1 \in 1..Len(t)
    BY <1>1
  <2> QED
    BY <1>1, <2>1, ExceptSeq
<1> HIDE DEF x
<1>4. \A i \in 1..(Len(s) + 1) : i \in 1..Len(s) \/ i = Len(s) + 1
  BY <1>1
<1>5. \A i \in 1..Len(x) : x[i] = y[i]
  BY <1>1, <1>2, <1>3, <1>4
<1>6. x = y
  BY <1>2, <1>3, <1>5, SeqEqual
<1> QED
  BY <1>6 DEF x, y, t

\* A sequence with one element more, put after another.
LEMMA ConcatAppend ==
  ASSUME NEW E, NEW s \in Seq(E), NEW r \in Seq(E), NEW e \in E
  PROVE  /\ s \o r \in Seq(E) /\ Append(r, e) \in Seq(E) /\ s \o Append(r, e) \in Seq(E)
         /\ s \o Append(r, e) = Append(s \o r, e)
  OBVIOUS

\* A text, a line end and a line.
After(t, line) == t \o <<NL>> \o line

\* A sequence and another.
Both(s, t) == s \o t

\* A line after two texts is a line after the second.
LEMMA AfterBoth ==
  ASSUME NEW E, NL \in E, NEW p \in Seq(E), NEW q \in Seq(E), NEW w \in Seq(E)
  PROVE  After(Both(p, q), w) = Both(p, After(q, w))
<1> DEFINE d == <<NL>>
           z == q \o d
<1>0. d \in Seq(E)
  OBVIOUS
<1> HIDE DEF d
<1>1. (p \o q) \o d = p \o z
  BY <1>0, ConcatAssociative
<1>2. z \in Seq(E)
  BY <1>0
<1> HIDE DEF z
<1>3. (p \o z) \o w = p \o (z \o w)
  BY <1>2, ConcatAssociative
<1>4. After(Both(p, q), w) = ((p \o q) \o d) \o w /\ Both(p, After(q, w)) = p \o (z \o w)
  BY DEF After, Both, z, d
<1> QED
  BY <1>1, <1>3, <1>4

\* Characters that are no line ends go to the last line.
Longer(ls, w) == [ls EXCEPT ![Len(ls)] = @ \o w]

\* Text without a line end only makes the last line longer.
LEMMA LinesLonger ==
  ASSUME NEW E, NEW s \in Seq(E), NEW w \in Seq(E \ {NL})
  PROVE  Lines(s \o w) = Longer(Lines(s), w)
<1> USE DEF Longer
<1> DEFINE F == E \ {NL}
           V == Seq(F)
           ls == Lines(s)
           n == Len(ls)
           B(r) == Lines(s \o r) = [ls EXCEPT ![n] = ls[n] \o r]
           A == {r \in Seq(F) : B(r)}
<1>1. ls \in Seq(V) /\ ls # <<>> /\ n \in Nat \ {0} /\ ls[n] \in V
  <2>1. ls \in Seq(V) /\ ls # <<>>
    BY LinesOf
  <2> HIDE DEF ls, V
  <2> QED
    BY <2>1, LastOf
<1> HIDE DEF ls
<1>2. <<>> \in A
  <2>1. <<>> \in Seq(F) /\ s \o <<>> = s /\ ls[n] \o <<>> = ls[n]
    BY <1>1
  <2>2. [ls EXCEPT ![n] = ls[n]] = ls
    <3> HIDE DEF V
    <3>1. [ls EXCEPT ![n] = ls[n]] = Append(SubSeq(ls, 1, Len(ls) - 1), ls[n])
      BY <1>1, LastOf
    <3>2. ls = Append(SubSeq(ls, 1, Len(ls) - 1), ls[n])
      BY <1>1, LastOf
    <3> QED
      BY <3>1, <3>2
  <2> QED
    BY <2>1, <2>2 DEF ls
<1>3. ASSUME NEW r \in Seq(F), NEW e \in F, r \in A PROVE Append(r, e) \in A
  <2> DEFINE z == s \o r
             x == ls[n] \o r
             y == ls[n] \o Append(r, e)
             ms == [ls EXCEPT ![n] = x]
  <2>1. z \in Seq(E) /\ e \in E /\ e # NL /\ s \o Append(r, e) = Append(z, e)
    <3>1. r \in Seq(E)
      OBVIOUS
    <3> QED
      BY <3>1
  <2>2. x \in V /\ y \in V /\ y = Append(x, e)
    <3> DEFINE c == ls[n]
    <3>1. c \in Seq(F)
      BY <1>1
    <3> HIDE DEF F, c, n
    <3>2. c \o r \in Seq(F) /\ c \o Append(r, e) \in Seq(F) /\ c \o Append(r, e) = Append(c \o r, e)
      BY <3>1, ConcatAppend
    <3> QED
      BY <3>2 DEF c
  <2>3. Lines(z) = ms
    BY <1>3
  <2> HIDE DEF z, x, y, V
  <2>4. ms \in Seq(V) /\ Len(ms) = n /\ ms[n] = x /\ [ms EXCEPT ![n] = y] = [ls EXCEPT ![n] = y]
    BY <1>1, <2>2
  <2> HIDE DEF ms
  <2>5. Lines(Append(z, e)) = [Lines(z) EXCEPT ![Len(Lines(z))] = Append(@, e)]
    BY <2>1, LinesOf, ZenonT(60)
  <2>6. Lines(Append(z, e)) = [ms EXCEPT ![n] = Append(x, e)]
    BY <2>3, <2>4, <2>5
  <2>7. Lines(s \o Append(r, e)) = [ls EXCEPT ![n] = y]
    BY <2>1, <2>2, <2>4, <2>6
  <2>8. Append(r, e) \in Seq(F)
    OBVIOUS
  <2> QED
    BY <2>7, <2>8 DEF y
<1> HIDE DEF A
<1>4. w \in A
  BY <1>2, <1>3, BySnoc
<1> QED
  BY <1>4 DEF A, ls

\* A line end begins a new line.
LEMMA LinesNext ==
  ASSUME NEW E, NL \in E, NEW s \in Seq(E), NEW w \in Seq(E \ {NL})
  PROVE  Lines(s \o <<NL>> \o w) = Append(Lines(s), w)
<1> DEFINE V == Seq(E \ {NL})
           ls == Lines(s)
           t == Append(s, NL)
           ms == Append(ls, <<>>)
<1>1. ls \in Seq(V) /\ t \in Seq(E) /\ w \in V /\ <<>> \in V /\ <<>> \o w = w /\ s \o <<NL>> = t
  BY LinesOf
<1>2. Lines(t) = ms
  BY LinesOf
<1>3. Lines(t \o w) = Longer(ms, w)
  <2> HIDE DEF t, ls
  <2> QED
    BY <1>1, <1>2, LinesLonger
<1> HIDE DEF ls, t, V
<1>4. Len(ms) = Len(ls) + 1 /\ ms[Len(ls) + 1] = <<>> /\ [ms EXCEPT ![Len(ls) + 1] = w] = Append(ls, w)
  BY <1>1, LastReplaced
<1>5. Lines(t \o w) = Append(ls, w)
  <2> HIDE DEF ms
  <2>1. Lines(t \o w) = [ms EXCEPT ![Len(ls) + 1] = <<>> \o w]
    BY <1>2, <1>3, <1>4 DEF Longer
  <2> QED
    BY <1>1, <1>4, <2>1
<1> QED
  BY <1>1, <1>5 DEF ls

\* A text is what its lines are joined to, and joined lines are the lines again.
LEMMA LinesJoined ==
  ASSUME NEW E, NL \in E, NEW ls \in Seq(Seq(E \ {NL})), ls # <<>>
  PROVE  Lines(Joined(ls)) = ls
<1> DEFINE F == Seq(E \ {NL})
           A == {r \in Seq(F) : r # <<>> => Lines(Joined(r)) = r}
<1>1. <<>> \in A
  OBVIOUS
<1>2. ASSUME NEW r \in Seq(F), NEW w \in F, r \in A PROVE Append(r, w) \in A
  <2> DEFINE v == Append(r, w)
  <2>0. v \in Seq(F) /\ v # <<>> /\ r \in Seq(Seq(E)) /\ v \in Seq(Seq(E)) /\ w \in Seq(E)
    <3> DEFINE U == Seq(E)
    <3>1. w \in U /\ F \subseteq U
      OBVIOUS
    <3> HIDE DEF U, F
    <3>2. r \in Seq(U) /\ v \in Seq(F) /\ v # <<>>
      BY <3>1, AppendProperties
    <3>3. v \in Seq(U)
      BY <3>1, <3>2, AppendProperties
    <3> QED
      BY <3>1, <3>2, <3>3 DEF U
  <2>1. CASE r = <<>>
    <3>1. Len(v) = 1 /\ v[1] = w /\ v = <<w>>
      BY <2>1
    <3>2. Joined(v) = w
      BY <2>0, <3>1, JoinedOf
    <3> DEFINE e == <<>>
    <3>3. e \in Seq(E) /\ e \o w = w /\ Lines(e) = <<e>>
      BY LinesOf
    <3> HIDE DEF e
    <3>4. Lines(e \o w) = Longer(Lines(e), w)
      BY <3>3, LinesLonger
    <3>5. Lines(w) = [<<e>> EXCEPT ![1] = w]
      <4>1. Len(<<e>>) = 1 /\ <<e>>[1] = e
        OBVIOUS
      <4> QED
        BY <3>3, <3>4, <4>1 DEF Longer
    <3>6. [<<e>> EXCEPT ![1] = w] = <<w>>
      OBVIOUS
    <3> QED
      BY <2>0, <3>1, <3>2, <3>5, <3>6
  <2>2. CASE r # <<>>
    <3>1. Joined(r) \in Seq(E) /\ Joined(v) = Joined(r) \o <<NL>> \o w
      BY <2>0, <2>2, JoinedOf
    <3>2. Lines(Joined(v)) = Append(Lines(Joined(r)), w)
      BY <3>1, LinesNext
    <3> QED
      BY <1>2, <2>0, <2>2, <3>2
  <2> QED
    BY <2>1, <2>2
<1> HIDE DEF A
<1>3. ls \in A
  BY <1>1, <1>2, BySnoc
<1> QED
  BY <1>3 DEF A

\* The lines of a text, joined, are the text.
LEMMA JoinedLines ==
  ASSUME NEW E, NL \in E, NEW text \in Seq(E)
  PROVE  Joined(Lines(text)) = text
<1> DEFINE F == Seq(E)
           A == {t \in Seq(E) : Joined(Lines(t)) = t}
<1>0. \A t \in Seq(E) : Lines(t) \in Seq(F) /\ Lines(t) # <<>>
  <2> DEFINE U == Seq(E \ {NL})
  <2>1. \A t \in Seq(E) : Lines(t) \in Seq(U) /\ Lines(t) # <<>>
    BY LinesOf
  <2>2. U \subseteq F
    OBVIOUS
  <2> HIDE DEF U, F
  <2>3. \A ls \in Seq(U) : ls \in Seq(F)
    BY <2>2
  <2> QED
    BY <2>1, <2>3
<1>1. <<>> \in A
  <2>1. <<>> \in Seq(E) /\ Lines(<<>>) = <<(<<>>)>>
    BY EmptySeq, LinesOf
  <2>2. <<(<<>>)>> \in Seq(F) /\ <<(<<>>)>> # <<>> /\ Len(<<(<<>>)>>) = 1 /\ <<(<<>>)>>[1] = <<>>
    OBVIOUS
  <2>3. Joined(<<(<<>>)>>) = <<>>
    BY <2>2, JoinedOf
  <2> QED
    BY <2>1, <2>3
<1>2. ASSUME NEW t \in Seq(E), NEW e \in E, t \in A PROVE Append(t, e) \in A
  <2> DEFINE ls == Lines(t)
             n == Len(ls)
  <2>0. ls \in Seq(F) /\ ls # <<>> /\ Joined(ls) = t /\ Append(t, e) \in Seq(E)
    BY <1>0, <1>2
  <2>1. Lines(Append(t, e)) = IF e = NL THEN Append(ls, <<>>) ELSE [ls EXCEPT ![n] = Append(ls[n], e)]
    BY LinesOf
  <2> HIDE DEF ls
  <2>2. CASE e = NL
    <3>1. <<>> \in Seq(E) /\ t \o <<NL>> \o <<>> = Append(t, NL)
      OBVIOUS
    <3>2. Joined(Append(ls, <<>>)) = t \o <<NL>> \o <<>>
      BY <2>0, <3>1, JoinedOf
    <3> QED
      BY <2>0, <2>1, <2>2, <3>1, <3>2
  <2>3. CASE e # NL
    <3> DEFINE r == SubSeq(ls, 1, n - 1)
               x == ls[n]
               y == Append(x, e)
    <3>1. /\ n \in Nat \ {0} /\ x \in F
          /\ r \in Seq(F) /\ Len(r) = n - 1
          /\ \A z \in F : [ls EXCEPT ![n] = z] = Append(r, z)
          /\ ls = Append(r, x)
      <4> HIDE DEF F
      <4> QED
        BY <2>0, LastOf
    <3>2. y \in F
      BY <3>1
    <3>3. Lines(Append(t, e)) = Append(r, y)
      <4> HIDE DEF F
      <4> QED
        BY <2>1, <2>3, <3>1, <3>2
    <3> HIDE DEF r, x
    <3>4. CASE r = <<>>
      <4>1. Len(Append(r, y)) = 1 /\ Append(r, y)[1] = y /\ Len(Append(r, x)) = 1 /\ Append(r, x)[1] = x
        BY <3>4
      <4>2. Joined(Append(r, y)) = y /\ Joined(Append(r, x)) = x
        <5>1. Append(r, y) \in Seq(F) /\ Append(r, x) \in Seq(F) /\ Append(r, y) # <<>> /\ Append(r, x) # <<>>
          <6> HIDE DEF F
          <6> QED
            BY <3>1, <3>2
        <5> QED
          BY <4>1, <5>1, JoinedOf
      <4> QED
        BY <2>0, <3>1, <3>3, <4>2
    <3>5. CASE r # <<>>
      <4>1. /\ Joined(r) \in Seq(E)
            /\ Joined(Append(r, x)) = Joined(r) \o <<NL>> \o x /\ Joined(Append(r, y)) = Joined(r) \o <<NL>> \o y
        BY <3>1, <3>2, <3>5, JoinedOf
      <4> DEFINE q == Joined(r) \o <<NL>>
      <4>2. q \in Seq(E)
        BY <4>1
      <4> HIDE DEF q
      <4>3. q \o y = Append(q \o x, e)
        BY <3>1, <4>2, SMTT(60)
      <4>4. t = q \o x /\ Joined(Append(r, y)) = q \o y
        BY <2>0, <3>1, <4>1 DEF q
      <4> QED
        BY <2>0, <3>3, <4>3, <4>4
    <3> QED
      BY <3>4, <3>5
  <2> QED
    BY <2>2, <2>3
<1> HIDE DEF A
<1>3. text \in A
  BY <1>1, <1>2, BySnoc
<1> QED
  BY <1>3 DEF A

\* The first line comes before the first line end.
LEMMA JoinedFirst ==
  ASSUME NEW E, NL \in E, NEW first \in Seq(E), NEW ls \in Seq(Seq(E)), ls # <<>>
  PROVE  Joined(<<first>> \o ls) = first \o <<NL>> \o Joined(ls)
<1> DEFINE F == Seq(E)
           B(r) == r # <<>> => Joined(<<first>> \o r) = first \o <<NL>> \o Joined(r)
           A == {r \in Seq(F) : B(r)}
<1>1. <<>> \in A
  OBVIOUS
<1>2. ASSUME NEW r \in Seq(F), NEW w \in F, r \in A PROVE Append(r, w) \in A
  <2> DEFINE v == Append(r, w)
             u == <<first>> \o r
  <2>0. v \in Seq(F) /\ v # <<>> /\ u \in Seq(F) /\ u # <<>> /\ <<first>> \o v = Append(u, w)
    <3>1. <<first>> \in Seq(F) /\ <<first>> # <<>>
      OBVIOUS
    <3> DEFINE x == <<first>>
    <3> HIDE DEF F, x
    <3>2. x \in Seq(F) /\ x # <<>>
      BY <3>1 DEF x
    <3>3. v \in Seq(F) /\ v # <<>> /\ x \o r \in Seq(F)
      BY <3>2, AppendProperties, ConcatProperties
    <3>4. x \o r # <<>>
      BY <3>2, ConcatEqualIffEmpty
    <3>5. x \o Append(r, w) = Append(x \o r, w)
      BY <3>2, SMTT(60)
    <3> QED
      BY <3>3, <3>4, <3>5 DEF x
  <2>1. Joined(Append(u, w)) = Joined(u) \o <<NL>> \o w
    <3> HIDE DEF u
    <3> QED
      BY <2>0, JoinedOf
  <2>2. CASE r = <<>>
    <3>1. u = <<first>> /\ Len(u) = 1 /\ u[1] = first /\ Len(v) = 1 /\ v[1] = w
      BY <2>2
    <3>2. Joined(u) = first /\ Joined(v) = w
      <4> HIDE DEF u, v
      <4> QED
        BY <2>0, <3>1, JoinedOf
    <3> HIDE DEF u, v
    <3>3. B(v)
      BY <2>0, <2>1, <3>2
    <3> QED
      BY <2>0, <3>3 DEF v
  <2>3. CASE r # <<>>
    <3>1. Joined(r) \in F /\ Joined(v) = Joined(r) \o <<NL>> \o w
      BY <2>3, JoinedOf
    <3>2. Joined(u) = first \o <<NL>> \o Joined(r)
      BY <1>2, <2>3
    <3> DEFINE p == first \o <<NL>>
               q == Joined(r)
    <3>3. p \in F
      OBVIOUS
    <3> HIDE DEF p, q, u, v
    <3>4. After(Both(p, q), w) = Both(p, After(q, w))
      <4>1. p \in Seq(E) /\ q \in Seq(E) /\ w \in Seq(E)
        BY <3>1, <3>3 DEF q
      <4> QED
        BY <4>1, AfterBoth
    <3>5. Joined(<<first>> \o v) = After(Both(p, q), w) /\ Joined(v) = After(q, w)
      BY <2>0, <2>1, <3>1, <3>2 DEF p, q, After, Both
    <3>6. B(v)
      BY <3>1, <3>4, <3>5 DEF p, q, Both
    <3> QED
      BY <2>0, <3>6 DEF v
  <2> QED
    BY <2>2, <2>3
<1> HIDE DEF A
<1>3. ls \in A
  BY <1>1, <1>2, BySnoc
<1> QED
  BY <1>3 DEF A

\* The symbols of a folded text, its lines, and those that are folded.
Most == Len(input.text) + 4
Marks == {Times(n) : n \in Repetitions(input.text)}
Folding == Characters \cup {"?"} \cup Marks
Line == Seq((Characters \cup {"?"}) \ {NL})
MarkedLine == Seq(Folding \ {NL})

\* A line a number of times, and with the mark that says so.
Rep(p, c) == [i \in 1..c |-> p]
Marked(p, c) == p \o (IF c > 1 THEN <<Times(c)>> ELSE <<>>)

\* Marks are no characters, nor line ends, and each of them stands for one number.
LEMMA LinesFolded ==
  ASSUME MarksTold(input.text), input.text \in Seq(Characters)
  PROVE  /\ NL \in Folding /\ NL \notin Marks
         /\ Line \subseteq MarkedLine /\ MarkedLine \subseteq Seq(Folding) /\ MarkedLine \subseteq Texts
         /\ Most \in Nat /\ Most > 3 /\ Repetitions(input.text) = 2..Most
         /\ \A n \in 2..Most : Times(n) \in Folding \ {NL} /\ Times(n) \notin Characters \cup {"?"}
         /\ \A i, j \in 2..Most : Times(i) = Times(j) => i = j
<1> DEFINE N == Len(input.text)
<1>1. N \in Nat /\ Most = N + 4 /\ Repetitions(input.text) = 2..(N + 4)
  BY DEF Most, Repetitions
<1> HIDE DEF N
<1>2. Most \in Nat /\ Most > 3 /\ Repetitions(input.text) = 2..Most
  BY <1>1
<1>3. /\ \A n \in 2..Most : Times(n) \notin Characters \cup {"?"}
      /\ \A i, j \in 2..Most : Times(i) = Times(j) => i = j
  BY <1>2 DEF MarksTold
<1>4. Marks = {Times(n) : n \in 2..Most}
  BY <1>2 DEF Marks
<1>5. NL \in Characters
  BY DEF Characters
<1> DEFINE C == Characters \cup {"?"}
<1> HIDE DEF C
<1>6. NL \in C /\ \A n \in 2..Most : Times(n) \notin C
  BY <1>3, <1>5 DEF C
<1>7. Folding = C \cup Marks /\ Line = Seq(C \ {NL}) /\ MarkedLine = Seq(Folding \ {NL})
  BY DEF Folding, Line, MarkedLine, C
<1>8. NL \in Folding /\ NL \notin Marks /\ \A n \in 2..Most : Times(n) \in Folding \ {NL}
  BY <1>4, <1>6, <1>7
<1>9. 2..Most \subseteq Nat
  BY <1>2
<1>10. Symbols = C \cup {Times(n) : n \in Nat}
  BY DEF Symbols, C
<1>11. Folding \subseteq Symbols
  BY <1>4, <1>7, <1>9, <1>10
<1>12. Line \subseteq MarkedLine
  <2> DEFINE a == C \ {NL}
             b == Folding \ {NL}
  <2>1. a \subseteq b
    BY <1>7
  <2> HIDE DEF a, b
  <2>2. Seq(a) \subseteq Seq(b)
    BY <2>1
  <2> QED
    BY <1>7, <2>2 DEF a, b
<1>13. MarkedLine \subseteq Seq(Folding) /\ MarkedLine \subseteq Texts
  <2> DEFINE b == Folding \ {NL}
  <2>1. b \subseteq Folding /\ b \subseteq Symbols
    BY <1>11
  <2> HIDE DEF b
  <2>2. Seq(b) \subseteq Seq(Folding) /\ Seq(b) \subseteq Seq(Symbols)
    BY <2>1
  <2> QED
    BY <1>7, <2>2 DEF b, Texts
<1> QED
  BY <1>2, <1>3, <1>8, <1>12, <1>13 DEF C

\* A line once more.
LEMMA RepMore ==
  ASSUME NEW U, NEW p \in U, NEW c \in Nat
  PROVE  /\ Rep(p, c) \in Seq(U) /\ Len(Rep(p, c)) = c
         /\ Rep(p, 1) = <<p>>
         /\ Rep(p, c + 1) = Append(Rep(p, c), p)
<1>1. Rep(p, c) \in Seq(U) /\ Len(Rep(p, c)) = c /\ \A i \in 1..c : Rep(p, c)[i] = p
  BY DEF Rep
<1>2. Rep(p, 1) = <<p>>
  BY DEF Rep
<1>3. Rep(p, c + 1) \in Seq(U) /\ Len(Rep(p, c + 1)) = c + 1 /\ \A i \in 1..(c + 1) : Rep(p, c + 1)[i] = p
  BY DEF Rep
<1> DEFINE x == Rep(p, c)
           y == Rep(p, c + 1)
           z == Append(x, p)
<1> HIDE DEF x, y
<1>4. z \in Seq(U) /\ Len(z) = c + 1 /\ \A i \in 1..(c + 1) : z[i] = p
  <2>1. \A i \in 1..(c + 1) : i \in 1..c \/ i = c + 1
    OBVIOUS
  <2> QED
    BY <1>1, <2>1 DEF x
<1> HIDE DEF z
<1>5. y = z
  BY <1>3, <1>4, SeqEqual DEF y
<1> QED
  BY <1>1, <1>2, <1>5 DEF x, y, z

\* A mark tells how often its line was there.
LEMMA SpreadMarked ==
  ASSUME MarksTold(input.text), input.text \in Seq(Characters), NEW p \in Line, NEW c \in 1..Most
  PROVE  /\ Marked(p, c) \in MarkedLine
         /\ Spread(Marked(p, c)) = Rep(p, c)
         /\ Marked(p, c) = <<>> => p = <<>> /\ c = 1
<1> DEFINE U == Folding \ {NL}
           C == Characters \cup {"?"}
<1>1. /\ p \in Seq(U) /\ p \in Seq(C) /\ Most \in Nat /\ Repetitions(input.text) = 2..Most
      /\ \A n \in 2..Most : Times(n) \in U /\ Times(n) \notin C
      /\ \A i, j \in 2..Most : Times(i) = Times(j) => i = j
  <2>1. p \in Seq(U)
    BY LinesFolded DEF MarkedLine
  <2>2. p \in Seq(C)
    <3> DEFINE a == C \ {NL}
    <3>1. a \subseteq C /\ p \in Seq(a)
      BY DEF Line
    <3> HIDE DEF a, C
    <3> QED
      BY <3>1
  <2> QED
    BY <2>1, <2>2, LinesFolded
<1> HIDE DEF U, C
<1>2. CASE c = 1
  <2>1. Marked(p, c) = p
    BY <1>1, <1>2 DEF Marked
  <2>2. Copies(p) = {}
    <3>1. ASSUME p # <<>> PROVE p[Len(p)] \in C
      BY <1>1, <3>1, LastOf
    <3> QED
      BY <1>1, <3>1 DEF Copies
  <2>3. Spread(p) = <<p>>
    BY <2>2 DEF Spread
  <2>4. Rep(p, 1) = <<p>>
    BY DEF Rep
  <2> QED
    BY <1>1, <1>2, <2>1, <2>3, <2>4 DEF MarkedLine, U
<1>3. CASE c > 1
  <2> DEFINE t == Times(c)
             w == Append(p, t)
  <2>1. c \in 2..Most
    BY <1>1, <1>3
  <2>2. t \in U
    BY <1>1, <2>1
  <2>3. Marked(p, c) = p \o <<t>>
    BY <1>3 DEF Marked
  <2>4. \A n \in 2..Most : t = Times(n) => n = c
    BY <1>1, <2>1
  <2> HIDE DEF t
  <2>5. w \in Seq(U) /\ w # <<>> /\ w[Len(w)] = t /\ Len(w) - 1 = Len(p) /\ Marked(p, c) = w
    BY <1>1, <2>2, <2>3
  <2> DEFINE f == SubSeq(w, 1, Len(w) - 1)
  <2>6. f = p
    <3>1. f \in Seq(U) /\ Len(f) = Len(p) /\ \A i \in 1..Len(p) : f[i] = w[i]
      <4> HIDE DEF w, f
      <4> QED
        BY <2>5, LastOf DEF f
    <3>2. \A i \in 1..Len(p) : w[i] = p[i]
      BY <1>1, <2>2
    <3> HIDE DEF f, w
    <3>3. \A i \in 1..Len(f) : f[i] = p[i]
      BY <3>1, <3>2
    <3> QED
      BY <1>1, <3>1, <3>3, SeqEqual
  <2> HIDE DEF w, f
  <2>7. Front(w) = p
    BY <2>6 DEF Front, f
  <2>8. Copies(w) = {c}
    BY <1>1, <2>1, <2>4, <2>5 DEF Copies, t
  <2>9. (CHOOSE n \in Copies(w) : TRUE) = c
    BY <2>8
  <2>10. Spread(w) = [i \in 1..c |-> p]
    BY <2>7, <2>8, <2>9 DEF Spread
  <2> QED
    BY <2>5, <2>10 DEF MarkedLine, U, Rep
<1> QED
  BY <1>1, <1>2, <1>3

\* What grouping has made of the first lines: the groups D it has written and the one it is
\* in are those lines, but for an empty first one.
Told(g, D, ls) ==
  /\ D \in Seq(MarkedLine)
  /\ g.result = IF D = <<>> THEN <<>> ELSE Joined(D)
  /\ g.result = <<>> => D = <<>>
  /\ g.prev = ls[Len(ls)] /\ g.count \in 1..Len(ls)
  /\ \/ Both(Expand(D), Rep(g.prev, g.count)) = ls
     \/ /\ ls[1] = <<>> /\ Len(ls) >= 2
        /\ Both(Expand(D), Rep(g.prev, g.count)) = Tail(ls)
        /\ D = <<>> => g.prev # <<>>

\* One more line of a group, and the first of the next one.
LEMMA BothMore ==
  ASSUME NEW U, NEW X \in Seq(U), NEW p \in U, NEW c \in Nat
  PROVE  /\ Both(X, Rep(p, c)) \in Seq(U)
         /\ Both(X, Rep(p, 1)) = Append(X, p)
         /\ Both(<<>>, Rep(p, c)) = Rep(p, c)
<1> DEFINE R == Rep(p, c)
<1>1. R \in Seq(U) /\ Rep(p, 1) = <<p>>
  BY RepMore
<1> HIDE DEF R
<1>2. X \o R \in Seq(U)
  BY <1>1, ConcatAppend
<1>3. X \o <<p>> = Append(X, p) /\ <<>> \o R = R
  BY <1>1
<1> QED
  BY <1>1, <1>2, <1>3 DEF Both, R

\* One more line of the same.
LEMMA BothNext ==
  ASSUME NEW U, NEW X \in Seq(U), NEW p \in U, NEW c \in Nat, NEW Y, Y = Both(X, Rep(p, c))
  PROVE  Both(X, Rep(p, c + 1)) = Append(Y, p)
<1> DEFINE R == Rep(p, c)
<1>1. R \in Seq(U) /\ Rep(p, c + 1) = Append(R, p)
  BY RepMore
<1> HIDE DEF R
<1>2. X \o Append(R, p) = Append(X \o R, p)
  BY <1>1, ConcatAppend
<1> QED
  BY <1>1, <1>2 DEF Both, R

\* Three sequences one after the other.
LEMMA BothAssociative ==
  ASSUME NEW E, NEW p \in Seq(E), NEW q \in Seq(E), NEW d \in Seq(E)
  PROVE  Both(Both(p, q), d) = Both(p, Both(q, d))
<1>1. (p \o q) \o d = p \o (q \o d)
  BY ConcatAssociative
<1> QED
  BY <1>1 DEF Both

\* append_line marks the line and joins it to the result, if there is one.
LEMMA AppendLineIs ==
  ASSUME NEW E, NL \in E, NEW result \in Seq(E), NEW p \in Seq(E), NEW c \in Nat, Marked(p, c) \in Seq(E)
  PROVE  AppendLine(result, p, c) = IF result = <<>> THEN Marked(p, c) ELSE After(result, Marked(p, c))
<1> DEFINE d == IF c > 1 THEN <<Times(c)>> ELSE <<>>
           r == IF result = <<>> THEN <<>> ELSE Append(result, NL)
           D == E \cup {Times(c)}
<1>1. AppendLine(result, p, c) = (r \o p) \o d /\ Marked(p, c) = p \o d
  BY DEF AppendLine, Marked
<1>2. d \in Seq(D)
  <2>1. <<Times(c)>> \in Seq(D) /\ <<>> \in Seq(D)
    <3> DEFINE x == Times(c)
    <3>1. x \in D
      OBVIOUS
    <3> HIDE DEF x, D
    <3>2. <<x>> \in Seq(D) /\ <<>> \in Seq(D)
      BY <3>1
    <3> QED
      BY <3>2 DEF x
  <2> HIDE DEF D
  <2> QED
    BY <2>1
<1>3. result \in Seq(D) /\ p \in Seq(D) /\ NL \in D
  <2>1. E \subseteq D
    OBVIOUS
  <2> HIDE DEF D
  <2> QED
    BY <2>1
<1> HIDE DEF d, D
<1>4. r \in Seq(D) /\ (result # <<>> => r = result \o <<NL>>) /\ (result = <<>> => r = <<>>)
  BY <1>3
<1> HIDE DEF r
<1>5. (r \o p) \o d = r \o (p \o d)
  <2>1. Both(Both(r, p), d) = Both(r, Both(p, d))
    BY <1>2, <1>3, <1>4, BothAssociative
  <2> QED
    BY <2>1 DEF Both
<1>6. p \o d \in Seq(D) /\ <<>> \o (p \o d) = p \o d
  BY <1>2, <1>3
<1> QED
  BY <1>1, <1>4, <1>5, <1>6 DEF After

\* A group is written as one line.
LEMMA GroupWritten ==
  ASSUME MarksTold(input.text), input.text \in Seq(Characters),
         NEW D \in Seq(MarkedLine), NEW result, NEW p \in Line, NEW c \in 1..Most,
         result = IF D = <<>> THEN <<>> ELSE Joined(D), result = <<>> => D = <<>>
  PROVE  LET m == Marked(p, c)
         IN /\ Append(D, m) \in Seq(MarkedLine) /\ Append(D, m) # <<>>
            /\ AppendLine(result, p, c) = Joined(Append(D, m))
            /\ Expand(Append(D, m)) = Both(Expand(D), Rep(p, c))
            /\ Expand(D) \in Seq(MarkedLine)
            /\ AppendLine(result, p, c) = <<>> => D = <<>> /\ p = <<>> /\ c = 1
<1> DEFINE m == Marked(p, c)
           D2 == Append(D, m)
           E == Folding
           U == MarkedLine
<1>1. m \in U /\ Spread(m) = Rep(p, c) /\ (m = <<>> => p = <<>> /\ c = 1)
  BY SpreadMarked
<1>2. /\ NL \in E /\ U \subseteq Seq(E) /\ p \in U /\ c \in Nat
  <2>1. c \in Nat
    BY LinesFolded
  <2> QED
    BY <2>1, LinesFolded
<1> HIDE DEF m, E
<1>3. D2 \in Seq(U) /\ D2 # <<>> /\ D \in Seq(Seq(E)) /\ D2 \in Seq(Seq(E)) /\ m \in Seq(E) /\ p \in Seq(E)
  <2> DEFINE W == Seq(E)
  <2>1. U \subseteq W
    BY <1>2
  <2> HIDE DEF W, U
  <2>2. D2 \in Seq(U) /\ D2 # <<>> /\ D \in Seq(W) /\ D2 \in Seq(W) /\ m \in W /\ p \in W
    <3>1. D \in Seq(W) /\ m \in W /\ p \in W
      BY <1>1, <1>2, <2>1 DEF U
    <3>2. D2 \in Seq(U) /\ D2 # <<>>
      BY <1>1, AppendProperties DEF U
    <3>3. D2 \in Seq(W)
      BY <3>1, AppendProperties
    <3> QED
      BY <3>1, <3>2, <3>3
  <2> QED
    BY <2>2 DEF W
<1> HIDE DEF D2
<1>4. result \in Seq(E)
  <2>1. D # <<>> => Joined(D) \in Seq(E)
    BY <1>2, <1>3, JoinedOf
  <2> QED
    BY <2>1
<1>5. AppendLine(result, p, c) = IF result = <<>> THEN m ELSE After(result, m)
  BY <1>2, <1>3, <1>4, AppendLineIs DEF m
<1>6. AppendLine(result, p, c) = Joined(D2) /\ (AppendLine(result, p, c) = <<>> => D = <<>> /\ m = <<>>)
  <2>1. CASE D = <<>>
    <3>1. Len(D2) = 1 /\ D2[1] = m
      <4>1. \A x : Len(<<x>>) = 1 /\ <<x>>[1] = x
        OBVIOUS
      <4>2. D2 = <<m>>
        BY <2>1 DEF D2
      <4> QED
        BY <4>1, <4>2
    <3>2. Joined(D2) = m
      BY <1>2, <1>3, <3>1, JoinedOf
    <3> QED
      BY <1>5, <2>1, <3>2
  <2>2. CASE D # <<>>
    <3>1. Joined(D2) = After(Joined(D), m)
      BY <1>2, <1>3, <2>2, JoinedOf DEF D2, After
    <3>2. result = Joined(D) /\ result # <<>>
      BY <2>2
    <3>3. After(result, m) # <<>>
      <4> DEFINE z == result \o <<NL>>
      <4>1. z \in Seq(E) /\ z # <<>>
        BY <1>2, <1>4
      <4> HIDE DEF z
      <4>2. z \o m # <<>>
        BY <1>3, <4>1, ConcatEqualIffEmpty
      <4> QED
        BY <4>2 DEF z, After
    <3> QED
      BY <1>5, <3>1, <3>2, <3>3
  <2> QED
    BY <2>1, <2>2
<1>7. Expand(D2) = Both(Expand(D), Rep(p, c)) /\ Expand(D) \in Seq(U)
  <2> DEFINE B == Folding \ {NL}
  <2>1. D \in Seq(Seq(B)) /\ m \in Seq(B)
    BY <1>1 DEF MarkedLine
  <2> HIDE DEF B
  <2>2. Expand(D) \in Seq(Seq(B)) /\ Expand(Append(D, m)) = Expand(D) \o Spread(m)
    BY <2>1, ExpandOf
  <2> QED
    BY <1>1, <2>2 DEF MarkedLine, B, Both, D2
<1> HIDE DEF U
<1> QED
  BY <1>1, <1>3, <1>6, <1>7 DEF m, D2, U

\* One more line leaves the lines so far told.
LEMMA OneMoreLine ==
  ASSUME MarksTold(input.text), input.text \in Seq(Characters),
         NEW ls \in Seq(Line), ls # <<>>, Len(ls) < Most, NEW line \in Line,
         NEW g \in Groups, NEW D, Told(g, D, ls)
  PROVE  \E D2 : Told(NextGroup(g, line), D2, Append(ls, line))
<1> DEFINE n == Len(ls)
           w == Append(ls, line)
           X == Expand(D)
           p == g.prev
           c == g.count
           h == NextGroup(g, line)
           U == MarkedLine
<1>1. n \in Nat \ {0} /\ ls[n] \in Line
  BY LastOf
<1>2. /\ w \in Seq(Line) /\ Len(w) = n + 1 /\ w[n + 1] = line /\ w[1] = ls[1]
      /\ Tail(w) = Append(Tail(ls), line)
  <2> HIDE DEF U
  <2>1. w \in Seq(Line) /\ Len(w) = n + 1 /\ w[n + 1] = line /\ w[1] = ls[1]
    BY <1>1, AppendProperties
  <2>2. Tail(w) = Append(Tail(ls), line)
    OBVIOUS
  <2> QED
    BY <2>1, <2>2
<1>3. /\ D \in Seq(U)
      /\ g.result = IF D = <<>> THEN <<>> ELSE Joined(D)
      /\ g.result = <<>> => D = <<>>
      /\ p = ls[n] /\ c \in 1..n
      /\ \/ Both(X, Rep(p, c)) = ls
         \/ /\ ls[1] = <<>> /\ n >= 2
            /\ Both(X, Rep(p, c)) = Tail(ls)
            /\ D = <<>> => p # <<>>
  BY DEF Told
<1>4. p \in Line /\ c \in 1..Most /\ c \in Nat /\ p \in U /\ line \in U
  <2>1. c \in 1..Most /\ c \in Nat
    BY <1>1, <1>3, LinesFolded, SMTT(60)
  <2> QED
    BY <1>1, <1>3, <2>1, LinesFolded
<1> HIDE DEF w, U
<1>5. LET m == Marked(p, c)
      IN /\ Append(D, m) \in Seq(U) /\ Append(D, m) # <<>>
         /\ AppendLine(g.result, p, c) = Joined(Append(D, m))
         /\ Expand(Append(D, m)) = Both(X, Rep(p, c))
         /\ X \in Seq(U)
         /\ AppendLine(g.result, p, c) = <<>> => D = <<>> /\ p = <<>> /\ c = 1
  <2> DEFINE r == g.result
  <2>1. r = (IF D = <<>> THEN <<>> ELSE Joined(D)) /\ (r = <<>> => D = <<>>)
    BY <1>3
  <2> HIDE DEF p, c, r
  <2>4. r = IF D = <<>> THEN <<>> ELSE Joined(D)
    BY <2>1
  <2>5. r = <<>> => D = <<>>
    BY <2>1
  <2>6. p \in Line
    BY <1>4
  <2>7. c \in 1..Most
    BY <1>4
  <2>2. D \in Seq(MarkedLine)
    BY <1>3 DEF U
  <2>3. LET m == Marked(p, c)
        IN /\ Append(D, m) \in Seq(MarkedLine) /\ Append(D, m) # <<>>
           /\ AppendLine(r, p, c) = Joined(Append(D, m))
           /\ Expand(Append(D, m)) = Both(Expand(D), Rep(p, c))
           /\ Expand(D) \in Seq(MarkedLine)
           /\ AppendLine(r, p, c) = <<>> => D = <<>> /\ p = <<>> /\ c = 1
    BY <2>2, <2>4, <2>5, <2>6, <2>7, GroupWritten, SMTT(60)
  <2> QED
    BY <2>3 DEF r, U
<1>6. CASE line = p
  <2>1. h.result = g.result /\ h.prev = p /\ h.count = c + 1
    BY <1>6 DEF NextGroup, Groups
  <2> DEFINE Y == Both(X, Rep(p, c))
  <2>2. Both(X, Rep(p, c + 1)) = Append(Y, p)
    <3>1. X \in Seq(U)
      BY <1>5
    <3>2. Y = Both(X, Rep(p, c))
      OBVIOUS
    <3> HIDE DEF X, p, c, Y
    <3> QED
      <4>1. p \in U /\ c \in Nat
        BY <1>4
      <4> QED
        BY <3>1, <3>2, <4>1, BothNext
  <2> HIDE DEF X, p, c, h, Y
  <2>3. c + 1 \in 1..(n + 1) /\ (n >= 2 => n + 1 >= 2)
    BY <1>1, <1>3
  <2>4. \/ Both(X, Rep(p, c + 1)) = w
        \/ /\ w[1] = <<>> /\ n + 1 >= 2
           /\ Both(X, Rep(p, c + 1)) = Tail(w)
           /\ D = <<>> => p # <<>>
    <3>1. Y = ls \/ (ls[1] = <<>> /\ n >= 2 /\ Y = Tail(ls) /\ (D = <<>> => p # <<>>))
      BY <1>3 DEF Y
    <3> QED
      BY <1>2, <1>6, <2>2, <2>3, <3>1 DEF w
  <2>5. Told(h, D, w)
    BY <1>2, <1>3, <1>6, <2>1, <2>3, <2>4 DEF Told, U, X
  <2> QED
    BY <2>5 DEF h, w
<1>7. CASE line # p
  <2> DEFINE m == Marked(p, c)
             r == AppendLine(g.result, p, c)
             Y == Both(X, Rep(p, c))
  <2>1. h.result = r /\ h.prev = line /\ h.count = 1
    BY <1>7 DEF NextGroup
  <2>2. 1 \in 1..(n + 1) /\ (n >= 2 => n + 1 >= 2)
    BY <1>1
  <2>3. CASE r = <<>>
    <3>1. D = <<>> /\ p = <<>> /\ c = 1
      BY <1>5, <2>3
    <3>2. X = <<>> /\ Y = Rep(p, 1) /\ Rep(p, 1) = <<p>> /\ Rep(line, 1) = <<line>>
      <4>1. X = <<>>
        <5>1. <<>> \in Seq(Seq({}))
          BY EmptySeq
        <5>2. Expand(<<>>) = <<>>
          BY <5>1, ExpandOf
        <5> QED
          BY <3>1, <5>2
      <4>2. <<>> \in Seq(U)
        BY EmptySeq
      <4>3. \A q \in U : Both(<<>>, Rep(q, 1)) = Rep(q, 1) /\ Rep(q, 1) = <<q>>
        BY <4>2, BothMore, RepMore
      <4> QED
        BY <1>4, <3>1, <4>1, <4>3
    <3>3. ls = <<p>>
      BY <1>3, <3>1, <3>2
    <3>4. ls[1] = <<>> /\ Tail(w) = <<line>> /\ n = 1 /\ D \in Seq(MarkedLine)
      <4>1. \A x : <<x>>[1] = x /\ Len(<<x>>) = 1 /\ Tail(<<x>>) = <<>>
        OBVIOUS
      <4>2. Append(<<>>, line) = <<line>>
        OBVIOUS
      <4> QED
        BY <1>2, <1>3, <3>1, <3>3, <4>1, <4>2 DEF U
    <3>5. Both(X, Rep(line, 1)) = <<line>>
      <4>1. <<>> \in Seq(U)
        BY EmptySeq
      <4>2. Both(<<>>, Rep(line, 1)) = Rep(line, 1)
        BY <1>4, <4>1, BothMore
      <4> QED
        BY <3>2, <4>2
    <3> HIDE DEF h, r
    <3>6. Told(h, D, w)
      <4>1. h.result = <<>> /\ h.prev = line /\ h.count = 1 /\ line # <<>> /\ D = <<>>
        BY <1>7, <2>1, <2>3, <3>1
      <4>2. w[1] = <<>> /\ Len(w) = 2 /\ w[Len(w)] = line /\ Tail(w) = <<line>>
        BY <1>2, <3>4
      <4>3. 1 \in 1..2 /\ 2 >= 2
        OBVIOUS
      <4>4. Both(Expand(D), Rep(line, 1)) = Tail(w)
        BY <3>5, <4>2 DEF X
      <4> HIDE DEF p, c
      <4> QED
        BY <3>4, <4>1, <4>2, <4>3, <4>4 DEF Told
    <3> QED
      BY <3>6 DEF h, w
  <2>4. CASE r # <<>>
    <3> DEFINE D2 == Append(D, m)
               X2 == Expand(D2)
    <3>1. D2 \in Seq(U) /\ D2 # <<>> /\ r = Joined(D2) /\ X2 = Y /\ X \in Seq(U)
      BY <1>5
    <3>2. Y \in Seq(U)
      <4> HIDE DEF X, p, c
      <4> QED
        BY <1>4, <3>1, BothMore
    <3> HIDE DEF X, p, c, h, r, D2, X2, Y, m
    <3>3. Both(X2, Rep(line, 1)) = Append(Y, line)
      BY <1>4, <3>1, <3>2, BothMore
    <3>4. \/ Y = ls
          \/ ls[1] = <<>> /\ n >= 2 /\ Y = Tail(ls)
      BY <1>3 DEF Y
    <3>5. \/ Both(X2, Rep(line, 1)) = w
          \/ w[1] = <<>> /\ n + 1 >= 2 /\ Both(X2, Rep(line, 1)) = Tail(w)
      BY <1>2, <2>2, <3>3, <3>4 DEF w
    <3>6. Told(h, D2, w)
      BY <1>2, <2>1, <2>2, <2>4, <3>1, <3>5 DEF Told, U, X2
    <3> QED
      BY <3>6 DEF h, w
  <2> QED
    BY <2>3, <2>4
<1> QED
  BY <1>6, <1>7

\* However many lines there are, their groups tell them.
LEMMA GroupsTold ==
  ASSUME MarksTold(input.text), input.text \in Seq(Characters),
         NEW ls \in Seq(Line), ls # <<>>, Len(ls) <= Most
  PROVE  \E D : Told(Grouped(ls), D, ls)
<1> DEFINE B(s) == s # <<>> /\ Len(s) <= Most => \E D : Told(Grouped(s), D, s)
           A == {s \in Seq(Line) : B(s)}
<1>0. Line \subseteq Texts
  BY LinesFolded
<1>1. <<>> \in A
  BY EmptySeq
<1>2. ASSUME NEW s \in Seq(Line), NEW line \in Line, s \in A PROVE Append(s, line) \in A
  <2> DEFINE w == Append(s, line)
  <2>1. B(s)
    BY <1>2
  <2>2. w \in Seq(Line) /\ w # <<>> /\ Len(w) = Len(s) + 1 /\ Len(s) \in Nat /\ w \in Seq(Texts) /\ s \in Seq(Texts)
    BY <1>0, AppendProperties
  <2>3. Most \in Nat
    BY LinesFolded
  <2>4. CASE s = <<>>
    <3>1. w = <<line>> /\ Len(w) = 1 /\ w[1] = line
      BY <2>4
    <3>2. Grouped(w) = FirstGroup(line)
      <4> HIDE DEF w
      <4> QED
        BY <2>2, <3>1, GroupedOf
    <3>3. <<>> \in Seq(MarkedLine) /\ line \in MarkedLine
      BY LinesFolded
    <3>4. Expand(<<>>) = <<>>
      <4>1. <<>> \in Seq(Seq({}))
        BY EmptySeq
      <4> QED
        BY <4>1, ExpandOf
    <3>5. Both(<<>>, Rep(line, 1)) = <<line>>
      <4>1. Both(<<>>, Rep(line, 1)) = Rep(line, 1) /\ Rep(line, 1) = <<line>>
        BY <3>3, BothMore, RepMore
      <4> QED
        BY <4>1
    <3>6. LET g == FirstGroup(line) IN g.result = <<>> /\ g.prev = line /\ g.count = 1
      BY DEF FirstGroup
    <3> HIDE DEF w
    <3>7. Told(FirstGroup(line), <<>>, w)
      BY <3>1, <3>3, <3>4, <3>5, <3>6 DEF Told
    <3>8. B(w)
      BY <3>2, <3>7
    <3> QED
      BY <2>2, <3>8 DEF w
  <2>5. CASE s # <<>>
    <3>1. SUFFICES ASSUME Len(w) <= Most PROVE \E D : Told(Grouped(w), D, w)
      <4> HIDE DEF w
      <4>1. (Len(w) <= Most => \E D : Told(Grouped(w), D, w)) => B(w)
        OBVIOUS
      <4> QED
        BY <2>2, <4>1 DEF w
    <3>2. Len(s) < Most
      BY <2>2, <2>3, <3>1
    <3>3. PICK D : Told(Grouped(s), D, s)
      BY <2>1, <2>2, <2>3, <2>5, <3>2
    <3>4. Grouped(s) \in Groups /\ Grouped(w) = NextGroup(Grouped(s), line)
      BY <1>0, <2>2, <2>5, GroupedOf
    <3> DEFINE g == Grouped(s)
    <3>5. g \in Groups /\ Told(g, D, s)
      BY <3>3, <3>4
    <3> HIDE DEF g
    <3>6. \E D2 : Told(NextGroup(g, line), D2, Append(s, line))
      BY <2>5, <3>2, <3>5, OneMoreLine
    <3> QED
      BY <3>4, <3>6 DEF g
  <2> QED
    BY <2>4, <2>5
<1> HIDE DEF A
<1>3. ls \in A
  BY <1>1, <1>2, BySnoc
<1> QED
  BY <1>3 DEF A

\* The lines of a text without an empty first one are the text without its first line end.
LEMMA TailJoined ==
  ASSUME NEW E, NL \in E, NEW ls \in Seq(Seq(E)), Len(ls) >= 2, ls[1] = <<>>
  PROVE  Joined(ls) # <<>> /\ Joined(ls)[1] = NL /\ Joined(Tail(ls)) = Tail(Joined(ls))
<1> DEFINE U == Seq(E)
           r == Tail(ls)
           t == Joined(r)
<1>1. ls # <<>> /\ <<>> \in U
  BY EmptySeq
<1> HIDE DEF U
<1>2. r \in Seq(U) /\ Len(r) = Len(ls) - 1 /\ Len(ls) \in Nat
  BY <1>1, HeadTailProperties DEF U
<1>3. r # <<>>
  <2>1. Len(r) >= 1
    BY <1>2
  <2>2. Len(<<>>) = 0
    BY EmptySeq
  <2> HIDE DEF r
  <2> QED
    BY <2>1, <2>2
<1>4. ls = <<(<<>>)>> \o r
  <2> DEFINE e == <<>>
  <2>1. e \in U /\ ls[1] = e /\ ls \in Seq(U)
    BY <1>1 DEF U
  <2> HIDE DEF e
  <2>2. ls = <<e>> \o Tail(ls)
    BY <1>2, <2>1
  <2> QED
    BY <2>2 DEF e
<1> HIDE DEF r
<1>5. Joined(<<(<<>>)>> \o r) = <<>> \o <<NL>> \o t
  <2> DEFINE e == <<>>
  <2>1. e \in Seq(E) /\ r \in Seq(Seq(E))
    BY <1>1, <1>2 DEF U
  <2> HIDE DEF e
  <2>2. Joined(<<e>> \o r) = e \o <<NL>> \o Joined(r)
    BY <1>3, <2>1, JoinedFirst
  <2> QED
    BY <2>2 DEF e
<1>6. t \in Seq(E)
  BY <1>2, <1>3, JoinedOf DEF U
<1> HIDE DEF t
<1>7. <<>> \o <<NL>> \o t = <<NL>> \o t
  OBVIOUS
<1>8. <<NL>> \o t # <<>> /\ (<<NL>> \o t)[1] = NL /\ Tail(<<NL>> \o t) = t
  <2> DEFINE x == NL
  <2>1. x \in E
    OBVIOUS
  <2> HIDE DEF x
  <2>2. <<x>> \o t # <<>> /\ (<<x>> \o t)[1] = x
    BY <1>6, <2>1, SMTT(60)
  <2>3. Tail(<<x>> \o t) = t
    BY <1>6, <2>1, SMTT(60)
  <2> QED
    BY <2>2, <2>3 DEF x
<1> QED
  BY <1>4, <1>5, <1>7, <1>8 DEF t, r

\* Folding the repeated lines of a text loses nothing of it but an empty first line.
LEMMA FoldedRead ==
  ASSUME MarksTold(input.text), input.text \in Seq(Characters),
         NEW text \in Seq(Characters \cup {"?"}), Len(Lines(text)) <= Most
  PROVE  LET c == CompressOutputText(text)
         IN /\ c \in Seq(Folding)
            /\ \/ Unfolded(c) = text
               \/ text # <<>> /\ text[1] = NL /\ Unfolded(c) = Tail(text)
<1> DEFINE C == Characters \cup {"?"}
           E == Folding
           ls == Lines(text)
           r == CompressOutputText(text)
<1>1. ls \in Seq(Line) /\ ls # <<>> /\ Joined(ls) = text /\ NL \in C
  <2>1. NL \in C
    BY DEF Characters
  <2> HIDE DEF C
  <2>2. text \in Seq(C)
    BY DEF C
  <2>3. Lines(text) \in Seq(Seq(C \ {NL})) /\ Lines(text) # <<>>
    BY <2>2, LinesOf
  <2>4. Joined(Lines(text)) = text
    BY <2>1, <2>2, JoinedLines
  <2> QED
    BY <2>1, <2>3, <2>4 DEF Line, C
<1>2. NL \in E /\ Line \subseteq Texts /\ Line \subseteq Seq(E) /\ MarkedLine \subseteq Seq(E) /\ Most \in Nat
  BY LinesFolded
<1> HIDE DEF C, E, ls
<1>3. PICK D : Told(Grouped(ls), D, ls)
  <2>1. Len(ls) <= Most
    BY DEF ls
  <2> QED
    BY <1>1, <2>1, GroupsTold
<1> DEFINE g == Grouped(ls)
           p == g.prev
           c == g.count
           n == Len(ls)
<1>4. r = AppendLine(g.result, p, c)
  <2>1. ls \in Seq(Texts)
    BY <1>1, <1>2
  <2> QED
    BY <1>1, <2>1, CompressedOf DEF ls
<1>5. /\ D \in Seq(MarkedLine)
      /\ g.result = IF D = <<>> THEN <<>> ELSE Joined(D)
      /\ g.result = <<>> => D = <<>>
      /\ p = ls[n] /\ c \in 1..n
      /\ \/ Both(Expand(D), Rep(p, c)) = ls
         \/ /\ ls[1] = <<>> /\ n >= 2
            /\ Both(Expand(D), Rep(p, c)) = Tail(ls)
  BY <1>3 DEF Told
<1>6. p \in Line /\ c \in 1..Most
  <2>1. n \in Nat \ {0} /\ ls[n] \in Line
    BY <1>1, LastOf
  <2>2. n <= Most
    BY DEF ls
  <2> HIDE DEF p, c, n
  <2> QED
    BY <1>2, <1>5, <2>1, <2>2
<1> DEFINE m == Marked(p, c)
           D2 == Append(D, m)
           res == g.result
<1>7. /\ D2 \in Seq(MarkedLine) /\ D2 # <<>>
      /\ AppendLine(res, p, c) = Joined(D2)
      /\ Expand(D2) = Both(Expand(D), Rep(p, c))
  <2>1. res = (IF D = <<>> THEN <<>> ELSE Joined(D)) /\ (res = <<>> => D = <<>>)
    BY <1>5
  <2> HIDE DEF p, c, res
  <2>2. LET k == Marked(p, c)
        IN /\ Append(D, k) \in Seq(MarkedLine) /\ Append(D, k) # <<>>
           /\ AppendLine(res, p, c) = Joined(Append(D, k))
           /\ Expand(Append(D, k)) = Both(Expand(D), Rep(p, c))
    <3>1. D \in Seq(MarkedLine) /\ p \in Line /\ c \in 1..Most
      BY <1>5, <1>6
    <3> QED
      BY <2>1, <3>1, GroupWritten
  <2> QED
    BY <2>2
<1> HIDE DEF D2, m
<1>8. r = Joined(D2)
  BY <1>4, <1>7
<1> HIDE DEF r, g
<1>9. Lines(r) = D2 /\ r \in Seq(E)
  <2>1. D2 \in Seq(Seq(E \ {NL}))
    BY <1>7 DEF MarkedLine, E
  <2>2. D2 \in Seq(Seq(E))
    <3> DEFINE U == Seq(E)
    <3>1. MarkedLine \subseteq U
      BY <1>2
    <3> HIDE DEF U
    <3>2. D2 \in Seq(U)
      BY <1>7, <3>1
    <3> QED
      BY <3>2 DEF U
  <2>3. Lines(Joined(D2)) = D2
    BY <1>2, <1>7, <2>1, LinesJoined
  <2>4. Joined(D2) \in Seq(E)
    BY <1>2, <1>7, <2>2, JoinedOf
  <2> QED
    BY <1>8, <2>3, <2>4
<1>10. Unfolded(r) = Joined(Expand(D2))
  BY <1>9 DEF Unfolded, Expand
<1>11. Expand(D2) = ls \/ (ls[1] = <<>> /\ n >= 2 /\ Expand(D2) = Tail(ls))
  BY <1>5, <1>7
<1>12. CASE Expand(D2) = ls
  BY <1>1, <1>9, <1>10, <1>12 DEF r, E
<1>13. CASE ls[1] = <<>> /\ n >= 2 /\ Expand(D2) = Tail(ls)
  <2>1. ls \in Seq(Seq(E))
    <3> DEFINE U == Seq(E)
    <3>1. Line \subseteq U
      BY <1>2
    <3> HIDE DEF U
    <3>2. ls \in Seq(U)
      BY <1>1, <3>1
    <3> QED
      BY <3>2 DEF U
  <2>2. Joined(ls) # <<>> /\ Joined(ls)[1] = NL /\ Joined(Tail(ls)) = Tail(Joined(ls))
    BY <1>2, <1>13, <2>1, TailJoined
  <2> QED
    BY <1>1, <1>9, <1>10, <1>13, <2>2 DEF r, E
<1> QED
  BY <1>11, <1>12, <1>13

----------------------------------------------------------------------------
(* Output text: what stripping leaves is what is visible. *)

\* Stripping puts out at most one line end for a character.
LEMMA StrippedLines ==
  ASSUME NEW text \in Seq(Characters)
  PROVE  /\ StripAnsi(text) \in Seq(Characters \cup {"?"})
         /\ Len(Lines(StripAnsi(text))) <= Len(text) + 1
<1> DEFINE N == Len(text)
           C == Characters \cup {"?"}
           st(k) == Stripped(text, k)
           count(s) == Len(Lines(s))
           A == {k \in 0..N : count(st(k).out) <= k + 1}
<1>1. N \in Nat /\ DOMAIN text = 1..N /\ \A i \in 1..N : text[i] \in Characters
  OBVIOUS
<1>2. "?" \in C /\ "?" # NL /\ Characters \subseteq C
  BY DEF NL, Characters
<1>3. /\ StripAnsi(text) = st(N).out
      /\ st(0) = Unstripped
      /\ \A k \in 0..N : st(k) \in [out : Seq(C), mode : {"plain", "intro", "csi"}]
      /\ \A k \in 0..(N - 1) : st(k + 1) = StripNext(text, st(k), k + 1)
  BY StrippedOf DEF Strippings
<1> HIDE DEF C, st
<1>4. \A k \in 0..N : st(k).out \in Seq(C)
  BY <1>3
<1>5. ASSUME NEW s \in Seq(C), NEW e \in C
      PROVE  /\ count(s) \in Nat
             /\ count(Append(s, e)) <= count(s) + 1
             /\ e # NL => count(Append(s, e)) = count(s)
  <2> DEFINE V == Seq(C \ {NL})
             ls == Lines(s)
  <2>1. ls \in Seq(V) /\ ls # <<>>
    BY LinesOf
  <2>2. Lines(Append(s, e)) = IF e = NL THEN Append(ls, <<>>) ELSE [ls EXCEPT ![Len(ls)] = Append(@, e)]
    BY LinesOf
  <2>3. Len(ls) \in Nat \ {0} /\ <<>> \in V
    BY <2>1, LastOf
  <2> HIDE DEF ls, V
  <2>4. Len(Append(ls, <<>>)) = Len(ls) + 1
    BY <2>1, <2>3, AppendProperties
  <2>5. Len([ls EXCEPT ![Len(ls)] = Append(ls[Len(ls)], e)]) = Len(ls)
    BY <2>1
  <2> QED
    <3> DEFINE x == Append(ls, <<>>)
               y == [ls EXCEPT ![Len(ls)] = Append(@, e)]
               n == Len(ls)
    <3>1. n \in Nat /\ Len(x) = n + 1 /\ Len(y) = n
      BY <2>3, <2>4, <2>5
    <3>2. Lines(Append(s, e)) = IF e = NL THEN x ELSE y
      BY <2>2
    <3>3. n = count(s)
      BY DEF ls
    <3> HIDE DEF x, y, n
    <3>4. count(Append(s, e)) = IF e = NL THEN n + 1 ELSE n
      BY <3>1, <3>2
    <3> HIDE DEF count
    <3> QED
      BY <3>1, <3>3, <3>4
<1> HIDE DEF count
<1>6. 0 \in A
  <2>1. st(0).out = <<>>
    BY <1>3 DEF Unstripped
  <2>2. count(<<>>) = 1
    <3>1. Lines(<<>>) = <<(<<>>)>>
      BY LinesOf
    <3>2. \A x : Len(<<x>>) = 1
      OBVIOUS
    <3> QED
      BY <3>1, <3>2 DEF count
  <2> QED
    BY <1>1, <2>1, <2>2
<1>7. ASSUME NEW k \in 0..(N - 1), k \in A PROVE k + 1 \in A
  <2> DEFINE a == st(k).out
             b == st(k + 1).out
             e == text[k + 1]
  <2>1. k \in 0..N /\ k + 1 \in 0..N /\ k + 1 \in 1..N /\ k \in Nat
    BY <1>1
  <2>2. a \in Seq(C) /\ e \in C /\ count(a) <= k + 1
    <3>1. count(st(k).out) <= k + 1
      BY <1>7
    <3> QED
      BY <1>1, <1>2, <1>4, <2>1, <3>1
  <2>3. b = a \/ b = a \o <<"?", "?">> \/ b = a \o <<e>>
    <3>1. st(k + 1) = StripNext(text, st(k), k + 1) /\ st(k) \in [out : Seq(C), mode : {"plain", "intro", "csi"}]
      BY <1>3, <2>1
    <3> DEFINE x == st(k)
    <3>2. StripNext(text, x, k + 1).out = a \/ StripNext(text, x, k + 1).out = a \o <<"?", "?">>
          \/ StripNext(text, x, k + 1).out = a \o <<e>>
      <4>1. x = [out |-> x.out, mode |-> x.mode] /\ x.out = a
        BY <3>1
      <4> HIDE DEF x, a
      <4>2. StripPlain(text, x, k + 1).out \in {a, a \o <<"?", "?">>, a \o <<e>>}
        BY <4>1 DEF StripPlain
      <4>3. [x EXCEPT !.mode = "csi"].out = a /\ [x EXCEPT !.mode = "plain"].out = a
        BY <4>1
      <4> QED
        BY <4>1, <4>2, <4>3 DEF StripNext
    <3> QED
      BY <3>1, <3>2
  <2> HIDE DEF a, b, e
  <2>4. b = a \/ b = Append(Append(a, "?"), "?") \/ b = Append(a, e)
    BY <1>2, <2>2, <2>3
  <2>5. count(a) \in Nat /\ count(Append(a, e)) <= count(a) + 1
    BY <1>5, <2>2
  <2>6. count(Append(Append(a, "?"), "?")) = count(a)
    <3> DEFINE q == "?"
               z == Append(a, q)
    <3>1. q \in C /\ q # NL
      BY <1>2
    <3> HIDE DEF q
    <3>2. z \in Seq(C) /\ count(z) = count(a)
      BY <1>5, <2>2, <3>1
    <3> HIDE DEF z
    <3>3. count(Append(z, q)) = count(z)
      BY <1>5, <3>1, <3>2
    <3> QED
      BY <3>2, <3>3 DEF z, q
  <2>7. count(b) <= k + 1 + 1
    <3>1. count(b) = count(a) \/ count(b) = count(Append(a, e))
      BY <2>4, <2>6
    <3>2. count(Append(a, e)) \in Int
      <4> DEFINE z == Append(a, e)
      <4>1. z \in Seq(C)
        BY <2>2
      <4> HIDE DEF z
      <4>2. count(z) \in Nat
        BY <1>5, <2>2, <4>1
      <4> QED
        BY <4>2 DEF z
    <3> QED
      BY <2>1, <2>2, <2>5, <3>1, <3>2
  <2> QED
    BY <2>1, <2>7 DEF b
<1> HIDE DEF A
<1>8. N \in A
  <2>1. N \in Nat
    BY <1>1
  <2> HIDE DEF N
  <2>2. 0..N \subseteq A
    BY <1>6, <1>7, <2>1, UpTo
  <2> QED
    BY <2>1, <2>2
<1>9. StripAnsi(text) \in Seq(C) /\ count(StripAnsi(text)) <= N + 1
  <2>1. N \in 0..N
    BY <1>1
  <2>2. count(st(N).out) <= N + 1
    BY <1>8 DEF A
  <2> QED
    BY <1>3, <1>4, <2>1, <2>2
<1> QED
  BY <1>9 DEF count, C

\* A truncated text has three characters more at most.
LEMMA TruncatedLength ==
  ASSUME NEW E, "." \in E, NEW text \in Seq(E), NEW max \in Nat
  PROVE  Len(Truncated(text, max)) \in Nat /\ Len(Truncated(text, max)) <= Len(text) + 3
<1>1. Take(text, max) \in Seq(E) /\ Len(Take(text, max)) <= Len(text)
  BY TakeOf
<1> DEFINE t == Take(text, max)
           l == Ellipsis
<1>2. l \in Seq(E) /\ Len(l) = 3
  BY DEF Ellipsis
<1> HIDE DEF t, l
<1>3. Len(t \o l) = Len(t) + 3 /\ Len(t) \in Nat /\ Len(text) \in Nat /\ Len(t) <= Len(text)
  <2>1. t \in Seq(E) /\ Len(t) <= Len(text)
    BY <1>1 DEF t
  <2>2. Len(t) \in Nat /\ Len(text) \in Nat
    BY <2>1, LenProperties
  <2>3. Len(t \o l) = Len(t) + Len(l)
    BY <1>2, <2>1, ConcatProperties, ZenonT(60)
  <2> QED
    BY <1>2, <2>1, <2>2, <2>3
<1>4. Truncated(text, max) = text \/ Truncated(text, max) = t \o l
  BY DEF Truncated, t, l
<1> QED
  BY <1>3, <1>4

\* An escape sequence begins at k; the parameters of one go on to k.
Begins(text, k) == text[k] = ESC /\ k < Len(text) /\ text[k + 1] = "["
SequenceGoesOn(text, k) ==
  \E s \in 1..k : s + 1 <= k /\ Begins(text, s) /\ \A i \in (s + 2)..k : text[i] = "."
\* The characters an escape sequence can end with or have after its introducer.
Final == {".", "a", "["}

\* What is hidden at k + 1 can be told from what there is at k.
LEMMA HiddenNext ==
  ASSUME NEW text \in Seq(Characters), NEW k \in 0..(Len(text) - 1)
  PROVE  /\ Hidden(text, k + 1) <=> \/ Begins(text, k + 1)
                                    \/ k # 0 /\ Begins(text, k)
                                    \/ SequenceGoesOn(text, k) /\ text[k + 1] \in Final
         /\ SequenceGoesOn(text, k + 1) <=> \/ k # 0 /\ Begins(text, k)
                                            \/ SequenceGoesOn(text, k) /\ text[k + 1] = "."
         /\ k # 0 /\ Begins(text, k) => text[k + 1] = "["
         /\ Begins(text, k + 1) => text[k + 1] = ESC
<1> DEFINE N == Len(text)
           c == text[k + 1]
           B(j) == Begins(text, j)
           D(j) == text[j] = "."
<1>1. N \in Nat /\ k \in Nat /\ k + 1 <= N
  OBVIOUS
<1>2. \A j : B(j) => j < N
  BY DEF Begins
<1>3. Hidden(text, k + 1) <=> \E s \in 1..(k + 1) :
         B(s) /\ (k + 1 <= s + 1 \/ (c \in Final /\ \A i \in (s + 2)..k : D(i)))
  <2>1. (k + 1) - 1 = k
    BY <1>1
  <2> QED
    BY <2>1 DEF Hidden, Begins, Final
<1>4. SequenceGoesOn(text, k) <=> \E s \in 1..k : s + 1 <= k /\ B(s) /\ \A i \in (s + 2)..k : D(i)
  BY DEF SequenceGoesOn
<1>5. SequenceGoesOn(text, k + 1) <=> \E s \in 1..(k + 1) : s + 1 <= k + 1 /\ B(s) /\ \A i \in (s + 2)..(k + 1) : D(i)
  BY DEF SequenceGoesOn
<1>6. (k # 0 /\ B(k) => c = "[") /\ (B(k + 1) => c = ESC) /\ (D(k + 1) <=> c = ".")
  BY DEF Begins
<1> DEFINE F == c \in Final
           G(m) == SequenceGoesOn(text, m)
           H == Hidden(text, k + 1)
<1> HIDE DEF N, B, D, F, G, H
<1>7. H <=> B(k + 1) \/ (k # 0 /\ B(k)) \/ (G(k) /\ F)
  <2>1. H <=> \E s \in 1..(k + 1) : B(s) /\ (k + 1 <= s + 1 \/ (F /\ \A i \in (s + 2)..k : D(i)))
    BY <1>3 DEF H, F
  <2>2. G(k) <=> \E s \in 1..k : s + 1 <= k /\ B(s) /\ \A i \in (s + 2)..k : D(i)
    BY <1>4 DEF G
  <2>3. ASSUME H PROVE B(k + 1) \/ (k # 0 /\ B(k)) \/ (G(k) /\ F)
    <3>1. PICK s \in 1..(k + 1) : B(s) /\ (k + 1 <= s + 1 \/ (F /\ \A i \in (s + 2)..k : D(i)))
      BY <2>1, <2>3
    <3>2. \/ s = k + 1
          \/ s = k /\ k # 0
          \/ s \in 1..k /\ s + 1 <= k
      BY <1>1
    <3>3. s + 1 <= k => ~(k + 1 <= s + 1)
      BY <1>1
    <3> QED
      BY <2>2, <3>1, <3>2, <3>3
  <2>4. ASSUME B(k + 1) PROVE H
    <3>1. k + 1 \in 1..(k + 1) /\ k + 1 <= (k + 1) + 1
      BY <1>1
    <3> QED
      BY <2>1, <2>4, <3>1
  <2>5. ASSUME k # 0, B(k) PROVE H
    <3>1. k \in 1..(k + 1) /\ k + 1 <= k + 1
      BY <1>1, <2>5
    <3> QED
      BY <2>1, <2>5, <3>1
  <2>6. ASSUME G(k), F PROVE H
    <3>1. PICK s \in 1..k : s + 1 <= k /\ B(s) /\ \A i \in (s + 2)..k : D(i)
      BY <2>2, <2>6
    <3>2. s \in 1..(k + 1)
      BY <1>1
    <3> QED
      BY <2>1, <2>6, <3>1, <3>2
  <2> QED
    BY <2>3, <2>4, <2>5, <2>6
<1>8. G(k + 1) <=> (k # 0 /\ B(k)) \/ (G(k) /\ D(k + 1))
  <2>1. G(k + 1) <=> \E s \in 1..(k + 1) : s + 1 <= k + 1 /\ B(s) /\ \A i \in (s + 2)..(k + 1) : D(i)
    BY <1>5 DEF G
  <2>2. G(k) <=> \E s \in 1..k : s + 1 <= k /\ B(s) /\ \A i \in (s + 2)..k : D(i)
    BY <1>4 DEF G
  <2>3. ASSUME G(k + 1) PROVE (k # 0 /\ B(k)) \/ (G(k) /\ D(k + 1))
    <3>1. PICK s \in 1..(k + 1) : s + 1 <= k + 1 /\ B(s) /\ \A i \in (s + 2)..(k + 1) : D(i)
      BY <2>1, <2>3
    <3>2. \/ s = k /\ k # 0
          \/ /\ s \in 1..k /\ s + 1 <= k /\ k + 1 \in (s + 2)..(k + 1)
             /\ \A i \in (s + 2)..k : i \in (s + 2)..(k + 1)
      BY <1>1, <3>1
    <3> QED
      BY <2>2, <3>1, <3>2
  <2>4. ASSUME k # 0, B(k) PROVE G(k + 1)
    <3>1. k \in 1..(k + 1) /\ k + 1 <= k + 1 /\ \A i \in (k + 2)..(k + 1) : FALSE
      BY <1>1, <2>4
    <3> QED
      BY <2>1, <2>4, <3>1
  <2>5. ASSUME G(k), D(k + 1) PROVE G(k + 1)
    <3>1. PICK s \in 1..k : s + 1 <= k /\ B(s) /\ \A i \in (s + 2)..k : D(i)
      BY <2>2, <2>5
    <3>2. s \in 1..(k + 1) /\ s + 1 <= k + 1 /\ \A i \in (s + 2)..(k + 1) : i \in (s + 2)..k \/ i = k + 1
      BY <1>1, <3>1
    <3> QED
      BY <2>1, <2>5, <3>1, <3>2
  <2> QED
    BY <2>3, <2>4, <2>5
<1> QED
  BY <1>6, <1>7, <1>8 DEF B, F, G, H

\* How far an escape sequence has been read, and the visible text up to there.
Agrees(text, k, st) ==
  /\ st.mode = "intro" <=> k # 0 /\ Begins(text, k)
  /\ st.mode = "csi" <=> SequenceGoesOn(text, k)
  /\ st.out = Picked(SubSeq(text, 1, k), {j \in DOMAIN text : ~Hidden(text, j)})

\* After one more character strip_ansi still agrees with what is visible.
LEMMA StripAgrees ==
  ASSUME NEW text \in Seq(Characters \ {"u"}), NEW k \in 0..(Len(text) - 1),
         NEW st \in Strippings, Agrees(text, k, st)
  PROVE  Agrees(text, k + 1, StripNext(text, st, k + 1))
<1> DEFINE c == text[k + 1]
           P == {j \in DOMAIN text : ~Hidden(text, j)}
           t == SubSeq(text, 1, k)
           b == Begins(text, k + 1)
           b0 == k # 0 /\ Begins(text, k)
           o0 == SequenceGoesOn(text, k)
           h == Hidden(text, k + 1)
           new == StripNext(text, st, k + 1)
           plain == StripPlain(text, st, k + 1)
<1>1. /\ text \in Seq(Characters) /\ k + 1 \in DOMAIN text /\ c # "u" /\ k + 1 # 0 /\ k \in Nat
      /\ c \in Characters
  <2> DEFINE E == Characters \ {"u"}
  <2>1. c \in E /\ k + 1 \in DOMAIN text /\ k + 1 # 0 /\ k \in Nat
    OBVIOUS
  <2>2. E \subseteq Characters
    OBVIOUS
  <2> HIDE DEF E
  <2>3. text \in Seq(Characters)
    <3>1. text \in Seq(E)
      BY DEF E
    <3> QED
      BY <2>2, <3>1
  <2> QED
    BY <2>1, <2>3 DEF E
<1>2. /\ h <=> b \/ b0 \/ (o0 /\ c \in Final)
      /\ SequenceGoesOn(text, k + 1) <=> b0 \/ (o0 /\ c = ".")
      /\ b0 => c = "["
      /\ b => c = ESC
  BY <1>1, HiddenNext
<1>3. Picked(SubSeq(text, 1, k + 1), P) = IF h THEN Picked(t, P) ELSE Append(Picked(t, P), c)
  <2> DEFINE E == Characters
             u == SubSeq(text, 1, k + 1)
  <2>1. text \in Seq(E) /\ k \in Nat /\ k + 1 <= Len(text) /\ Len(text) \in Nat
    BY <1>1
  <2> HIDE DEF E
  <2>2. t \in Seq(E) /\ Len(t) = k /\ c \in E /\ u = Append(t, c)
    BY <2>1
  <2>3. h <=> k + 1 \notin P
    BY <1>1
  <2> HIDE DEF t, u, P, c
  <2>4. Picked(Append(t, c), P) = IF Len(t) + 1 \in P THEN Append(Picked(t, P), c) ELSE Picked(t, P)
    BY <2>2, PickedOf
  <2> QED
    BY <2>2, <2>3, <2>4 DEF u
<1>4. /\ st.mode = "intro" <=> b0
      /\ st.mode = "csi" <=> o0
      /\ st.out = Picked(t, P)
  BY DEF Agrees
<1>5. Picked(t, P) \o <<c>> = Append(Picked(t, P), c)
  <2>1. st.out \in Seq(Characters \cup {"?"})
    BY DEF Strippings
  <2> DEFINE E == Characters \cup {"?"}
             x == Picked(t, P)
  <2>2. x \in Seq(E) /\ c \in E
    BY <1>1, <1>4, <2>1
  <2> HIDE DEF E, x, c
  <2>3. x \o <<c>> = Append(x, c)
    BY <2>2
  <2> QED
    BY <2>3 DEF x
<1>6. /\ b => plain.mode = "intro" /\ plain.out = st.out
      /\ ~b => plain.mode = "plain" /\ plain.out = st.out \o <<c>>
  <2>1. st.mode \in {"plain", "intro", "csi"} /\ st = [out |-> st.out, mode |-> st.mode]
    BY DEF Strippings
  <2> QED
    BY <1>1, <2>1 DEF StripPlain, Begins
<1>7. new = CASE st.mode = "intro" -> [st EXCEPT !.mode = "csi"]
              [] st.mode = "csi" /\ c = "." -> st
              [] st.mode = "csi" /\ c \in {"a", "["} -> [st EXCEPT !.mode = "plain"]
              [] OTHER -> plain
  BY DEF StripNext
<1>8. st = [out |-> st.out, mode |-> st.mode]
  BY DEF Strippings
<1> DEFINE a == Picked(t, P)
           g == SequenceGoesOn(text, k + 1)
           y == Picked(SubSeq(text, 1, k + 1), P)
<1> HIDE DEF c, b, b0, o0, h, new, plain, a, g, y
<1>9. (new.mode = "intro" <=> b) /\ (new.mode = "csi" <=> g) /\ new.out = y
  <2>0. /\ y = IF h THEN a ELSE Append(a, c)
        /\ g <=> b0 \/ (o0 /\ c = ".")
        /\ h <=> b \/ b0 \/ (o0 /\ c \in Final)
        /\ b0 => c = "["
        /\ b => c = ESC
        /\ st.out = a /\ a \o <<c>> = Append(a, c)
    BY <1>2, <1>3, <1>4, <1>5 DEF a, g, y
  <2>1. CASE st.mode = "intro"
    <3>1. new.mode = "csi" /\ new.out = a
      BY <1>7, <1>8, <2>0, <2>1
    <3>2. b0 /\ h /\ ~b
      BY <1>4, <2>0, <2>1 DEF ESC
    <3> QED
      BY <2>0, <3>1, <3>2
  <2>2. CASE st.mode = "csi" /\ c = "."
    <3>1. new.mode = "csi" /\ new.out = a
      BY <1>7, <1>8, <2>0, <2>2
    <3>2. o0 /\ h /\ ~b
      BY <1>4, <2>0, <2>2 DEF ESC, Final
    <3> QED
      BY <2>0, <2>2, <3>1, <3>2
  <2>3. CASE st.mode = "csi" /\ c \in {"a", "["}
    <3>1. new.mode = "plain" /\ new.out = a
      BY <1>7, <1>8, <2>0, <2>3
    <3>2. o0 /\ ~b0 /\ h /\ ~b /\ c # "."
      BY <1>4, <2>0, <2>3 DEF ESC, Final
    <3> QED
      BY <2>0, <3>1, <3>2
  <2>4. CASE st.mode # "intro" /\ ~(st.mode = "csi" /\ c \in Final)
    <3>1. new = plain
      BY <1>7, <2>4 DEF Final
    <3>2. ~b0 /\ ~(o0 /\ c \in Final) /\ ~(o0 /\ c = ".") /\ (h <=> b)
      BY <1>4, <2>0, <2>4 DEF Final
    <3>3. ~g
      BY <2>0, <3>2
    <3>4. CASE b
      BY <1>6, <2>0, <3>1, <3>2, <3>3, <3>4
    <3>5. CASE ~b
      BY <1>6, <2>0, <3>1, <3>2, <3>3, <3>5
    <3> QED
      BY <3>4, <3>5
  <2> QED
    BY <2>1, <2>2, <2>3, <2>4 DEF Final
<1> QED
  BY <1>1, <1>9 DEF Agrees, new, b, g, y

\* Stripping a text without characters of two bytes leaves what is visible of it.
LEMMA StripIsVisible ==
  ASSUME NEW text \in Seq(Characters \ {"u"})
  PROVE  StripAnsi(text) = Visible(text)
<1> DEFINE N == Len(text)
           A == {k \in 0..N : Agrees(text, k, Stripped(text, k))}
<1>1. N \in Nat /\ text \in Seq(Characters)
  <2> DEFINE E == Characters \ {"u"}
  <2>1. text \in Seq(E) /\ E \subseteq Characters
    OBVIOUS
  <2> HIDE DEF E
  <2> QED
    BY <2>1
<1>2. /\ StripAnsi(text) = Stripped(text, N).out
      /\ Stripped(text, 0) = Unstripped
      /\ \A k \in 0..N : Stripped(text, k) \in Strippings
      /\ \A k \in 0..(N - 1) : Stripped(text, k + 1) = StripNext(text, Stripped(text, k), k + 1)
  BY <1>1, StrippedOf
<1>3. 0 \in A
  <2>1. ~SequenceGoesOn(text, 0)
    BY DEF SequenceGoesOn
  <2>2. SubSeq(text, 1, 0) = <<>>
    BY SubSeqEmpty
  <2>3. Picked(<<>>, {j \in DOMAIN text : ~Hidden(text, j)}) = <<>>
    <3> DEFINE P == {j \in DOMAIN text : ~Hidden(text, j)}
    <3>1. <<>> \in Seq({})
      BY EmptySeq
    <3> HIDE DEF P
    <3>2. Picked(<<>>, P) = <<>>
      BY <3>1, PickedOf
    <3> QED
      BY <3>2 DEF P
  <2>4. Unstripped.mode = "plain" /\ Unstripped.out = <<>>
    BY DEF Unstripped
  <2>5. Agrees(text, 0, Unstripped)
    BY <2>1, <2>2, <2>3, <2>4 DEF Agrees
  <2> QED
    BY <1>1, <1>2, <2>5
<1>4. ASSUME NEW k \in 0..(N - 1), k \in A PROVE k + 1 \in A
  <2>1. k \in 0..N /\ k + 1 \in 0..N
    BY <1>1
  <2>2. Stripped(text, k) \in Strippings /\ Stripped(text, k + 1) = StripNext(text, Stripped(text, k), k + 1)
    BY <1>2, <2>1
  <2>3. Agrees(text, k, Stripped(text, k))
    BY <1>4
  <2> DEFINE st == Stripped(text, k)
  <2> HIDE DEF st
  <2>4. Agrees(text, k + 1, StripNext(text, st, k + 1))
    BY <2>2, <2>3, StripAgrees DEF st
  <2> QED
    BY <2>1, <2>2, <2>4 DEF st
<1>5. N \in A
  <2> HIDE DEF N, A
  <2>1. 0..N \subseteq A
    BY <1>1, <1>3, <1>4, UpTo
  <2> QED
    BY <1>1, <2>1
<1>6. SubSeq(text, 1, N) = text
  BY SubSeqFull
<1> QED
  BY <1>2, <1>5, <1>6 DEF Agrees, Visible

----------------------------------------------------------------------------
(* What the reader gets of each kind of message. *)

\* What the reader of an output event gets of its text.
LEMMA OutputText ==
  ASSUME MarksTold(input.text), input.text \in Seq(Characters), NEW max \in Nat
  PROVE  LET given == Truncated(input.text, max)
             c == CompressOutputText(StripAnsi(given))
             visible == Visible(given)
         IN /\ given \in {input.text, Take(input.text, max) \o Ellipsis}
            /\ given \in Seq(Characters) /\ IsCutOf(given, input.text, max)
            /\ c \in Seq(Folding)
            /\ "u" \notin ToSet(input.text) =>
                 \/ Unfolded(c) = visible
                 \/ visible # <<>> /\ visible[1] = NL /\ Unfolded(c) = Tail(visible)
<1> DEFINE given == Truncated(input.text, max)
           bare == StripAnsi(given)
           c == CompressOutputText(bare)
           visible == Visible(given)
           N == Len(input.text)
<1>1. given \in {input.text, Take(input.text, max) \o Ellipsis}
  BY DEF Truncated
<1>2. given \in Seq(Characters) /\ IsCutOf(given, input.text, max) /\ Len(given) \in Nat /\ Len(given) <= N + 3
  <2>1. "." \in Characters
    BY DEF Characters
  <2> QED
    BY <2>1, TruncatedIs, TruncatedLength
<1> HIDE DEF given
<1>3. bare \in Seq(Characters \cup {"?"}) /\ Len(Lines(bare)) <= Len(given) + 1
  BY <1>2, StrippedLines
<1>4. Len(Lines(bare)) \in Nat
  <2> DEFINE E == Characters \cup {"?"}
  <2>1. Lines(bare) \in Seq(Seq(E \ {NL}))
    BY <1>3, LinesOf
  <2> HIDE DEF E, bare
  <2> QED
    BY <2>1, LenProperties
<1> HIDE DEF bare
<1>5. Len(Lines(bare)) <= Most
  <2>1. N \in Nat
    OBVIOUS
  <2> DEFINE n == Len(Lines(bare))
  <2> HIDE DEF N, n
  <2>2. Most = N + 4
    BY DEF Most, N
  <2>3. n <= N + 4
    BY <1>2, <1>3, <1>4, <2>1 DEF n
  <2> QED
    BY <2>2, <2>3 DEF n
<1>6. /\ c \in Seq(Folding)
      /\ \/ Unfolded(c) = bare
         \/ bare # <<>> /\ bare[1] = NL /\ Unfolded(c) = Tail(bare)
  BY <1>3, <1>5, FoldedRead
<1> HIDE DEF c
<1>7. ASSUME "u" \notin ToSet(input.text) PROVE bare = visible
  <2> DEFINE E == Characters \ {"u"}
             t == input.text
  <2>1. t \in Seq(E)
    <3>1. \A i \in 1..Len(t) : t[i] \in Characters /\ t[i] \in ToSet(t)
      BY DEF ToSet
    <3>2. \A i \in 1..Len(t) : t[i] \in E
      BY <1>7, <3>1
    <3>3. Len(t) \in Nat /\ t = [i \in 1..Len(t) |-> t[i]]
      OBVIOUS
    <3> HIDE DEF E, t
    <3> QED
      BY <3>2, <3>3
  <2>2. "." \in E
    BY DEF Characters
  <2> HIDE DEF E, t
  <2>3. Truncated(t, max) \in Seq(E)
    BY <2>1, <2>2, TruncatedIs
  <2>4. given \in Seq(Characters \ {"u"})
    BY <2>3 DEF given, t, E
  <2> QED
    BY <2>4, StripIsVisible DEF bare
<1> QED
  BY <1>1, <1>2, <1>6, <1>7 DEF given, c, bare

\* A variable can be read after its compression.
LEMMA VariableRead ==
  ASSUME NEW v \in ItemsOf("variables"), NEW max \in Nat
  PROVE  LET w == CompressVariable(v, max)
         IN /\ w.ref = v.ref /\ w.indexed = v.indexed
            /\ v.type \in {w.type, w.prefix}
            /\ \/ IsCutOf(w.value, v.value, max)
               \/ v.indexed > 0 /\ v.value[1] = "[" /\ w.value[2] = ToString(v.indexed)
            /\ {"memoryReference"} \cap w.fields # {} => w.value # v.value
<1> DEFINE w == CompressVariable(v, max)
           typed == IF v.type \notin {"none", ""} /\ v.prefix # v.type
                    THEN [v EXCEPT !.prefix = v.type, !.type = "none"] ELSE v
           cut == Truncated(v.value, max)
           array == <<"Array[0..", ToString(v.indexed), ")">>
<1>1. v \in [ref : Nat, prefix : STRING, type : STRING, indexed : Nat, value : Seq(STRING), fields : SUBSET STRING]
  BY DEF ItemsOf
<1>2. IsCutOf(cut, v.value, max)
  <2> DEFINE E == STRING \cup {"."}
  <2>1. v.value \in Seq(STRING)
    BY <1>1
  <2> DEFINE S == STRING
  <2>2. S \subseteq E /\ "." \in E
    OBVIOUS
  <2> HIDE DEF S, E
  <2>3. v.value \in Seq(S)
    BY <2>1 DEF S
  <2>4. v.value \in Seq(E)
    BY <2>2, <2>3
  <2> QED
    BY <2>2, <2>4, TruncatedIs
<1>3. /\ DOMAIN v = {"ref", "prefix", "type", "indexed", "value", "fields"}
      /\ typed.ref = v.ref /\ typed.indexed = v.indexed /\ v.type \in {typed.type, typed.prefix}
      /\ DOMAIN typed = DOMAIN v /\ typed.fields = v.fields
  BY <1>1
<1>4. w = IF v.indexed > 0 /\ v.value # <<>> /\ v.value[1] = "[" THEN [typed EXCEPT !.value = array]
          ELSE [typed EXCEPT !.value = cut, !.fields = @ \ VariableNoise]
  BY DEF CompressVariable
<1> HIDE DEF w, typed, cut
<1>5. CASE v.indexed > 0 /\ v.value # <<>> /\ v.value[1] = "["
  <2>1. w.value = array /\ w.ref = v.ref /\ w.indexed = v.indexed /\ w.type = typed.type /\ w.prefix = typed.prefix
    BY <1>3, <1>4, <1>5
  <2>2. array[1] = "Array[0.." /\ array[2] = ToString(v.indexed)
    OBVIOUS
  <2>3. w.value # v.value
    BY <1>5, <2>1, <2>2
  <2> HIDE DEF array
  <2> QED
    BY <1>3, <1>5, <2>1, <2>2, <2>3 DEF w
<1>6. CASE ~(v.indexed > 0 /\ v.value # <<>> /\ v.value[1] = "[")
  <2>1. /\ w.value = cut /\ w.ref = v.ref /\ w.indexed = v.indexed /\ w.type = typed.type /\ w.prefix = typed.prefix
        /\ w.fields = v.fields \ VariableNoise
    BY <1>3, <1>4, <1>6
  <2>2. {"memoryReference"} \cap w.fields = {}
    BY <2>1 DEF VariableNoise
  <2> QED
    BY <1>2, <1>3, <2>1, <2>2 DEF w
<1> QED
  BY <1>5, <1>6

\* A scope keeps its reference and its name.
LEMMA ScopeRead ==
  ASSUME NEW s \in ItemsOf("scopes")
  PROVE  LET w == [s EXCEPT !.fields = @ \ ScopeNoise] IN w.ref = s.ref /\ "name" \in w.fields
<1>1. s \in [ref : Nat, fields : {f \in SUBSET STRING : "name" \in f}]
  BY DEF ItemsOf
<1>2. DOMAIN s = {"ref", "fields"} /\ "name" \in s.fields
  BY <1>1
<1> QED
  BY <1>2 DEF ScopeNoise

\* The source of an output event keeps its file.
LEMMA SourceRead ==
  ASSUME NEW s \in ItemsOf("output")
  PROVE  LET w == AbbreviateSource(s)
         IN IF s.path = NoPath THEN w.path = NoPath ELSE w.path # NoPath /\ IsSuffix(w.path, s.path)
<1>1. s \in [path : SourcePaths, fields : SUBSET STRING]
  BY DEF ItemsOf
<1>2. DOMAIN s = {"path", "fields"} /\ s.path \in SourcePaths
  BY <1>1
<1>3. AbbreviateSource(s).path = IF s.path = NoPath THEN NoPath ELSE ShortenPath(s.path)
  BY <1>2 DEF AbbreviateSource
<1>4. s.path # NoPath => Shown(ShortenPath(s.path)) /\ IsSuffix(ShortenPath(s.path), s.path)
  BY <1>2, ShortenedPath
<1> QED
  BY <1>3, <1>4 DEF Shown

\* The categories are told apart whether they have been abbreviated or not.
LEMMA CategoryTold ==
  ASSUME NEW c \in Categories
  PROVE  TellsCategory(c, c) /\ TellsCategory(AbbreviateCategory(c), c)
BY DEF Categories, TellsCategory, AbbreviateCategory

\* The kinds that have a compressor.
Compressible == {"output", "evaluate", "exceptionInfo", "variables", "stackTrace", "scopes"}

\* What capping leaves of a message.
LEMMA CapIs ==
  ASSUME NEW m, IsMessage(m), NEW L \in [LimitFields -> Nat]
  PROVE  /\ DOMAIN Cap(m, L) = Parts
         /\ Cap(m, L).kind = m.kind /\ Cap(m, L).category = m.category /\ Cap(m, L).fields = m.fields
         /\ Cap(m, L).text = IF m.kind = "output" THEN Truncated(m.text, L.output) ELSE m.text
         /\ Cap(m, L).items = IF m.kind = "stackTrace" /\ L.frames > 0 THEN Take(m.items, L.frames)
                              ELSE IF m.kind = "variables" /\ L.variables > 0 THEN Take(m.items, L.variables)
                              ELSE m.items
<1>1. DOMAIN m = Parts
  BY DEF IsMessage, Parts
<1> DEFINE t == Truncated(m.text, L.output)
           f == Take(m.items, L.frames)
           v == Take(m.items, L.variables)
<1>2. Cap(m, L) = CASE m.kind = "stackTrace" /\ L.frames > 0 -> [m EXCEPT !.items = f]
                    [] m.kind = "variables" /\ L.variables > 0 -> [m EXCEPT !.items = v]
                    [] m.kind = "output" -> [m EXCEPT !.text = t]
                    [] OTHER -> m
  BY DEF Cap
<1> HIDE DEF t, f, v
<1>3. CASE m.kind = "stackTrace"
  BY <1>1, <1>2, <1>3 DEF Parts, f
<1>4. CASE m.kind = "variables"
  BY <1>1, <1>2, <1>4 DEF Parts, v
<1>5. CASE m.kind = "output"
  BY <1>1, <1>2, <1>5 DEF Parts, t
<1>6. CASE m.kind \notin {"stackTrace", "variables", "output"}
  BY <1>1, <1>2, <1>6 DEF Parts
<1> QED
  BY <1>3, <1>4, <1>5, <1>6

\* Capping whose limits are all zero leaves a message as it is.
LEMMA CapsNothing ==
  ASSUME NEW m, IsMessage(m), NEW L \in [LimitFields -> Nat],
         \/ L.frames = 0 /\ L.variables = 0 /\ L.output = 0
         \/ m.kind \notin {"stackTrace", "variables", "output"}
  PROVE  Cap(m, L) = m
<1>1. DOMAIN m = Parts /\ m = [x \in Parts |-> m[x]]
  BY DEF IsMessage, Parts
<1>2. CASE m.kind = "output"
  <2>1. Truncated(m.text, L.output) = m.text
    BY <1>2 DEF Truncated
  <2>2. Cap(m, L) = [m EXCEPT !.text = Truncated(m.text, L.output)]
    BY <1>2 DEF Cap
  <2>3. Cap(m, L) = [m EXCEPT !.text = m.text]
    BY <2>1, <2>2
  <2>4. [m EXCEPT !.text = m.text] = m
    BY <1>1
  <2> QED
    BY <2>3, <2>4
<1>3. CASE m.kind # "output"
  <2>1. ~(0 > 0)
    OBVIOUS
  <2> QED
    BY <1>3, <2>1 DEF Cap
<1> QED
  BY <1>2, <1>3

\* What the compressor of its kind makes of a message's text, items, category and fields.
LEMMA CompressIs ==
  ASSUME NEW m, DOMAIN m = Parts, m.kind \in Compressible, NEW L
  PROVE  LET c == Compress(m, L)
         IN /\ DOMAIN c = Parts /\ c.kind = m.kind /\ c.fields \subseteq m.fields
            /\ c.category = IF m.kind = "output" THEN AbbreviateCategory(m.category) ELSE m.category
            /\ c.text = CASE m.kind = "output" -> CompressOutputText(StripAnsi(m.text))
                          [] m.kind = "evaluate" -> Truncated(m.text, L.evaluate)
                          [] m.kind = "exceptionInfo" -> TruncatedChars(m.text, L.details)
                          [] OTHER -> m.text
            /\ c.items = CASE m.kind = "output" -> [i \in DOMAIN m.items |-> AbbreviateSource(m.items[i])]
                           [] m.kind = "variables" -> [i \in DOMAIN m.items |-> CompressVariable(m.items[i], L.value)]
                           [] m.kind = "stackTrace" -> CompressFrames(m.items)
                           [] m.kind = "scopes" -> [i \in DOMAIN m.items |-> [m.items[i] EXCEPT !.fields = @ \ ScopeNoise]]
                           [] OTHER -> m.items
<1> USE DEF Parts
<1>1. CASE m.kind = "output"
  <2> DEFINE t == CompressOutputText(StripAnsi(m.text))
             s == [i \in DOMAIN m.items |-> AbbreviateSource(m.items[i])]
             g == AbbreviateCategory(m.category)
  <2>1. Compress(m, L) = [m EXCEPT !.text = t, !.items = s, !.category = g, !.fields = @ \ OutputNoise]
    BY <1>1 DEF Compress, Map
  <2> HIDE DEF t, s, g
  <2>2. LET c == Compress(m, L) IN
        DOMAIN c = Parts /\ c.kind = m.kind /\ c.fields \subseteq m.fields /\ c.text = t /\ c.items = s /\ c.category = g
    BY <2>1
  <2> QED
    BY <1>1, <2>2 DEF t, s, g
<1>2. CASE m.kind = "evaluate"
  <2> DEFINE t == Truncated(m.text, L.evaluate)
  <2>1. Compress(m, L) = [m EXCEPT !.text = t, !.fields = @ \ {"memoryReference"}]
    BY <1>2 DEF Compress
  <2> HIDE DEF t
  <2>2. LET c == Compress(m, L) IN
        DOMAIN c = Parts /\ c.kind = m.kind /\ c.fields \subseteq m.fields /\ c.text = t /\ c.items = m.items
          /\ c.category = m.category
    BY <2>1
  <2> QED
    BY <1>2, <2>2 DEF t
<1>3. CASE m.kind = "exceptionInfo"
  <2> DEFINE t == TruncatedChars(m.text, L.details)
  <2>1. Compress(m, L) = [m EXCEPT !.text = t]
    BY <1>3 DEF Compress
  <2> HIDE DEF t
  <2>2. LET c == Compress(m, L) IN
        DOMAIN c = Parts /\ c.kind = m.kind /\ c.fields \subseteq m.fields /\ c.text = t /\ c.items = m.items
          /\ c.category = m.category
    BY <2>1
  <2> QED
    BY <1>3, <2>2 DEF t
<1>4. CASE m.kind = "variables"
  <2> DEFINE s == [i \in DOMAIN m.items |-> CompressVariable(m.items[i], L.value)]
  <2>1. Compress(m, L) = [m EXCEPT !.items = s]
    BY <1>4 DEF Compress, Map
  <2> HIDE DEF s
  <2>2. LET c == Compress(m, L) IN
        DOMAIN c = Parts /\ c.kind = m.kind /\ c.fields \subseteq m.fields /\ c.text = m.text /\ c.items = s
          /\ c.category = m.category
    BY <2>1
  <2> QED
    BY <1>4, <2>2 DEF s
<1>5. CASE m.kind = "stackTrace"
  <2> DEFINE s == CompressFrames(m.items)
  <2>1. Compress(m, L) = [m EXCEPT !.items = s]
    BY <1>5 DEF Compress
  <2> HIDE DEF s
  <2>2. LET c == Compress(m, L) IN
        DOMAIN c = Parts /\ c.kind = m.kind /\ c.fields \subseteq m.fields /\ c.text = m.text /\ c.items = s
          /\ c.category = m.category
    BY <2>1
  <2> QED
    BY <1>5, <2>2 DEF s
<1>6. CASE m.kind = "scopes"
  <2> DEFINE s == [i \in DOMAIN m.items |-> [m.items[i] EXCEPT !.fields = @ \ ScopeNoise]]
  <2>1. Compress(m, L) = [m EXCEPT !.items = s]
    BY <1>6 DEF Compress, Map
  <2> HIDE DEF s
  <2>2. LET c == Compress(m, L) IN
        DOMAIN c = Parts /\ c.kind = m.kind /\ c.fields \subseteq m.fields /\ c.text = m.text /\ c.items = s
          /\ c.category = m.category
    BY <2>1
  <2> QED
    BY <1>6, <2>2 DEF s
<1> QED
  BY <1>1, <1>2, <1>3, <1>4, <1>5, <1>6 DEF Compressible

\* The message is one of its kind still.
IsOf(m, text) ==
  /\ m.text \in Seq(Folding)
  /\ m.fields \subseteq input.fields
  /\ Len(m.items) <= Len(input.items)

\* The items that capping leaves.
LEMMA CappedItems ==
  ASSUME NEW m, IsMessage(m), NEW L \in [LimitFields -> Nat]
  PROVE  /\ Cap(m, L).items \in Seq(ItemsOf(m.kind))
         /\ Len(Cap(m, L).items) \in Nat /\ Len(Cap(m, L).items) <= Len(m.items)
<1> DEFINE E == ItemsOf(m.kind)
           s == m.items
<1>1. s \in Seq(E)
  BY DEF IsMessage
<1>2. L.frames \in Nat /\ L.variables \in Nat
  BY DEF LimitFields
<1>3. Cap(m, L).items \in {s, Take(s, L.frames), Take(s, L.variables)}
  BY CapIs
<1> HIDE DEF E, s
<1>4. \A n \in Nat : Take(s, n) \in Seq(E) /\ Len(Take(s, n)) <= Len(s)
  <2> TAKE n \in Nat
  <2>1. Take(s, n) \in Seq(E) /\ Len(Take(s, n)) = IF n < Len(s) THEN n ELSE Len(s)
    BY <1>1, TakeOf
  <2> QED
    BY <1>1, <2>1
<1>5. Len(s) <= Len(s)
  BY <1>1
<1>6. Cap(m, L).items \in Seq(E) /\ Len(Cap(m, L).items) <= Len(s)
  BY <1>1, <1>2, <1>3, <1>4, <1>5
<1> QED
  BY <1>6 DEF E, s

\* Capping and compression leave a message of its kind.
LEMMA StaysItsKind ==
  ASSUME IsMessage(input), MarksTold(input.text), NEW L \in [LimitFields -> Nat]
  PROVE  LET m == Cap(input, L)
             c == Compress(m, L)
         IN /\ input.text \in Seq(Folding) /\ Len(input.items) <= Len(input.items)
            /\ m.kind = input.kind /\ m.text \in Seq(Folding) /\ m.fields \subseteq input.fields
            /\ Len(m.items) <= Len(input.items)
            /\ input.kind \in Compressible =>
                 /\ c.kind = input.kind /\ c.text \in Seq(Folding) /\ c.fields \subseteq input.fields
                 /\ Len(c.items) <= Len(input.items)
<1> DEFINE m == Cap(input, L)
           c == Compress(m, L)
           t == input.text
<1>1. t \in Seq(Characters) /\ input.items \in Seq(ItemsOf(input.kind))
  BY DEF IsMessage
<1>2. Characters \subseteq Folding /\ "." \in Characters
  BY DEF Folding, Characters
<1>3. L.output \in Nat /\ L.evaluate \in Nat /\ L.details \in Nat /\ L.value \in Nat
  BY DEF LimitFields
<1>4. \A n \in Nat : Truncated(t, n) \in Seq(Characters) /\ TruncatedChars(t, n) \in Seq(Characters)
  <2> DEFINE E == Characters
  <2>1. t \in Seq(E) /\ "." \in E
    BY <1>1, <1>2
  <2> HIDE DEF E, t
  <2>2. \A n \in Nat : Truncated(t, n) \in Seq(E) /\ TruncatedChars(t, n) \in Seq(E)
    BY <2>1, TruncatedIs
  <2> QED
    BY <2>2 DEF E
<1>5. \A s \in Seq(Characters) : s \in Seq(Folding)
  <2> DEFINE E == Characters
             F == Folding
  <2>1. E \subseteq F
    BY <1>2
  <2> HIDE DEF E, F
  <2>2. \A s \in Seq(E) : s \in Seq(F)
    BY <2>1
  <2> QED
    BY <2>2 DEF E, F
<1>6. /\ DOMAIN m = Parts /\ m.kind = input.kind /\ m.fields = input.fields
      /\ m.text = IF input.kind = "output" THEN Truncated(t, L.output) ELSE t
      /\ m.items \in Seq(ItemsOf(input.kind)) /\ Len(m.items) \in Nat /\ Len(m.items) <= Len(input.items)
  BY CapIs, CappedItems
<1>7. m.text \in Seq(Folding)
  BY <1>1, <1>3, <1>4, <1>5, <1>6
<1> HIDE DEF m
<1>8. ASSUME input.kind \in Compressible
      PROVE  /\ c.kind = input.kind /\ c.text \in Seq(Folding) /\ c.fields \subseteq input.fields
             /\ Len(c.items) <= Len(input.items)
  <2>1. /\ c.kind = input.kind /\ c.fields \subseteq input.fields
        /\ c.text = CASE m.kind = "output" -> CompressOutputText(StripAnsi(m.text))
                      [] m.kind = "evaluate" -> Truncated(m.text, L.evaluate)
                      [] m.kind = "exceptionInfo" -> TruncatedChars(m.text, L.details)
                      [] OTHER -> m.text
        /\ c.items = CASE m.kind = "output" -> [i \in DOMAIN m.items |-> AbbreviateSource(m.items[i])]
                       [] m.kind = "variables" -> [i \in DOMAIN m.items |-> CompressVariable(m.items[i], L.value)]
                       [] m.kind = "stackTrace" -> CompressFrames(m.items)
                       [] m.kind = "scopes" -> [i \in DOMAIN m.items |-> [m.items[i] EXCEPT !.fields = @ \ ScopeNoise]]
                       [] OTHER -> m.items
    BY <1>6, <1>8, CompressIs
  <2> HIDE DEF c
  <2>2. c.text \in Seq(Folding)
    <3>1. CASE input.kind = "output"
      <4>1. CompressOutputText(StripAnsi(Truncated(t, L.output))) \in Seq(Folding)
        BY <1>1, <1>3, OutputText
      <4> QED
        BY <1>6, <2>1, <3>1, <4>1
    <3>2. CASE input.kind = "evaluate"
      BY <1>3, <1>4, <1>5, <1>6, <2>1, <3>2
    <3>3. CASE input.kind = "exceptionInfo"
      BY <1>3, <1>4, <1>5, <1>6, <2>1, <3>3
    <3>4. CASE input.kind \notin {"output", "evaluate", "exceptionInfo"}
      BY <1>6, <1>7, <2>1, <3>4
    <3> QED
      BY <3>1, <3>2, <3>3, <3>4
  <2>3. Len(c.items) <= Len(input.items)
    <3>1. DOMAIN m.items = 1..Len(m.items)
      BY <1>6
    <3>2. CASE input.kind = "stackTrace"
      <4>1. m.items \in Seq(Frame)
        BY <1>6, <3>2 DEF Frame
      <4>2. Len(CompressFrames(m.items)) = Len(Picked(m.items, {i \in DOMAIN m.items : m.items[i].hint = "none"}))
            /\ Len(CompressFrames(m.items)) <= Len(m.items)
        BY <4>1, FramesRead
      <4>3. Len(CompressFrames(m.items)) \in Nat
        <5> DEFINE P == {i \in DOMAIN m.items : m.items[i].hint = "none"}
                   s == m.items
        <5>1. s \in Seq(Frame)
          BY <4>1
        <5> HIDE DEF P, s
        <5>2. Picked(s, P) \in Seq(Frame)
          BY <5>1, PickedOf
        <5>3. Len(Picked(s, P)) \in Nat
          BY <5>2
        <5> QED
          BY <4>2, <5>3 DEF P, s
      <4>4. Len(input.items) \in Nat
        BY <1>1
      <4> QED
        BY <1>6, <2>1, <3>2, <4>2, <4>3, <4>4
    <3>3. CASE input.kind # "stackTrace"
      <4>1. DOMAIN c.items = 1..Len(m.items) \/ c.items = m.items
        <5>1. CASE m.kind = "output"
          BY <2>1, <3>1, <5>1
        <5>2. CASE m.kind = "variables"
          BY <2>1, <3>1, <5>2
        <5>3. CASE m.kind = "scopes"
          BY <2>1, <3>1, <5>3
        <5>4. CASE m.kind \notin {"output", "variables", "scopes"}
          BY <1>6, <2>1, <3>3, <5>4
        <5> QED
          BY <5>1, <5>2, <5>3, <5>4
      <4>2. Len(c.items) = Len(m.items)
        BY <1>6, <4>1
      <4> QED
        BY <1>6, <4>2
    <3> QED
      BY <3>2, <3>3
  <2> QED
    BY <2>1, <2>2, <2>3
<1>9. input.text \in Seq(Folding) /\ Len(input.items) <= Len(input.items)
  <2>1. Len(input.items) \in Nat
    BY <1>1
  <2> QED
    BY <1>1, <1>5, <2>1
<1> QED
  BY <1>6, <1>7, <1>8, <1>9 DEF m

\* The message is what capping and the compressor of its kind, if it has worked, make of the input.
Finished ==
  msg = IF Compressed THEN Compress(Cap(input, Limits), Limits) ELSE Cap(input, Limits)

\* An output event that is finished can be read, ...
LEMMA FinishedOutput ==
  ASSUME IsMessage(input), MarksTold(input.text), Limits \in [LimitFields -> Nat],
         input.kind = "output", Finished
  PROVE  /\ "u" \notin ToSet(input.text) => TextReadable
         /\ TellsCategory(msg.category, input.category)
         /\ Len(msg.items) = Len(input.items)
         /\ \A i \in DOMAIN input.items :
              IF input.items[i].path = NoPath THEN msg.items[i].path = NoPath
              ELSE msg.items[i].path # NoPath /\ IsSuffix(msg.items[i].path, input.items[i].path)
<1> DEFINE L == Limits
           m == Cap(input, L)
           given == Truncated(input.text, L.output)
           c == CompressOutputText(StripAnsi(given))
           sources == [i \in DOMAIN input.items |-> AbbreviateSource(input.items[i])]
<1>1. input.text \in Seq(Characters) /\ input.items \in Seq(ItemsOf("output")) /\ input.category \in Categories
  BY DEF IsMessage
<1>2. L.output \in Nat
  BY DEF LimitFields
<1>3. /\ DOMAIN m = Parts /\ m.kind = "output" /\ m.text = given
      /\ m.items = input.items /\ m.category = input.category
  BY CapIs
<1>4. /\ given \in {input.text, Take(input.text, L.output) \o Ellipsis}
      /\ IsCutOf(given, input.text, L.output)
      /\ "u" \notin ToSet(input.text) =>
           \/ Unfolded(c) = Visible(given)
           \/ Visible(given) # <<>> /\ Visible(given)[1] = NL /\ Unfolded(c) = Tail(Visible(given))
  BY <1>1, <1>2, OutputText
<1>5. Compressed => msg.text = c /\ msg.items = sources /\ msg.category = AbbreviateCategory(input.category)
  <2>1. "output" \in Compressible
    BY DEF Compressible
  <2>2. LET d == Compress(m, L)
        IN d.text = CompressOutputText(StripAnsi(m.text)) /\ d.category = AbbreviateCategory(m.category)
           /\ d.items = [i \in DOMAIN m.items |-> AbbreviateSource(m.items[i])]
    BY <1>3, <2>1, CompressIs, ZenonT(60)
  <2> QED
    BY <1>3, <2>2 DEF Finished
<1>6. ~Compressed => msg.text = given /\ msg.items = input.items /\ msg.category = input.category
  BY <1>3 DEF Finished
<1> HIDE DEF given, c, m
<1>7. "u" \notin ToSet(input.text) => TextReadable
  BY <1>4, <1>5, <1>6 DEF TextReadable
<1>8. TellsCategory(msg.category, input.category)
  BY <1>1, <1>5, <1>6, CategoryTold
<1>9. /\ Len(msg.items) = Len(input.items)
      /\ \A i \in DOMAIN input.items :
           IF input.items[i].path = NoPath THEN msg.items[i].path = NoPath
           ELSE msg.items[i].path # NoPath /\ IsSuffix(msg.items[i].path, input.items[i].path)
  <2>1. DOMAIN input.items = 1..Len(input.items) /\ Len(input.items) \in Nat
    BY <1>1
  <2>2. \A i \in DOMAIN input.items : input.items[i] \in ItemsOf("output")
    BY <1>1
  <2>3. CASE Compressed
    <3>1. Len(sources) = Len(input.items)
      BY <2>1
    <3>2. \A i \in DOMAIN input.items : sources[i] = AbbreviateSource(input.items[i])
      OBVIOUS
    <3>3. msg.items = sources
      BY <1>5, <2>3
    <3> HIDE DEF sources
    <3> QED
      BY <2>2, <3>1, <3>2, <3>3, SourceRead
  <2>4. CASE ~Compressed
    <3>1. \A i \in DOMAIN input.items : input.items[i].path # NoPath =>
            IsSuffix(input.items[i].path, input.items[i].path)
      <4>1. ASSUME NEW i \in DOMAIN input.items PROVE IsSuffix(input.items[i].path, input.items[i].path)
        <5>1. input.items[i].path \in Seq(STRING)
          BY <2>2 DEF ItemsOf, SourcePaths
        <5> DEFINE p == input.items[i].path
                   S == STRING
        <5>2. p \in Seq(S)
          BY <5>1
        <5> HIDE DEF p, S
        <5>3. IsSuffix(p, p)
          <6>1. Len(p) \in Nat /\ \A k \in 1..Len(p) : p[k] = p[Len(p) - Len(p) + k]
            BY <5>2
          <6> QED
            BY <5>2, <6>1, SuffixOf
        <5> QED
          BY <5>3 DEF p
      <4> QED
        BY <4>1
    <3> QED
      BY <1>6, <2>4, <3>1
  <2> QED
    BY <2>3, <2>4
<1> QED
  BY <1>7, <1>8, <1>9

\* ... and so can a response.
LEMMA FinishedResponse ==
  ASSUME IsMessage(input), MarksTold(input.text), Limits \in [LimitFields -> Nat],
         input.kind \in Compressible, Finished
  PROVE  /\ input.kind = "stackTrace" => FramesTraceable
         /\ input.kind = "variables" => VariablesReadable
         /\ input.kind = "scopes" => \A i \in DOMAIN input.items :
              /\ msg.items[i].ref = input.items[i].ref
              /\ "name" \in msg.items[i].fields
         /\ input.kind \in {"evaluate", "exceptionInfo"} =>
              LET max == IF input.kind = "evaluate" THEN Limits.evaluate ELSE Limits.details
              IN IF Compressed THEN IsCutOf(msg.text, input.text, max) ELSE msg.text = input.text
<1> DEFINE L == Limits
           m == Cap(input, L)
           d == Compress(m, L)
<1>1. input.text \in Seq(Characters) /\ input.items \in Seq(ItemsOf(input.kind))
  BY DEF IsMessage
<1>2. L.evaluate \in Nat /\ L.details \in Nat /\ L.value \in Nat /\ L.frames \in Nat /\ L.variables \in Nat
  BY DEF LimitFields
<1>3. /\ DOMAIN m = Parts /\ m.kind = input.kind
      /\ input.kind # "output" => m.text = input.text
      /\ m.items = IF input.kind = "stackTrace" /\ L.frames > 0 THEN Take(input.items, L.frames)
                   ELSE IF input.kind = "variables" /\ L.variables > 0 THEN Take(input.items, L.variables)
                   ELSE input.items
  BY CapIs
<1>4. m.items \in Seq(ItemsOf(input.kind))
  BY CappedItems
<1>5. m.items = GivenItems
  BY <1>2, <1>3 DEF GivenItems
<1>6. /\ d.text = CASE input.kind = "output" -> CompressOutputText(StripAnsi(m.text))
                    [] input.kind = "evaluate" -> Truncated(m.text, L.evaluate)
                    [] input.kind = "exceptionInfo" -> TruncatedChars(m.text, L.details)
                    [] OTHER -> m.text
      /\ d.items = CASE input.kind = "output" -> [i \in DOMAIN m.items |-> AbbreviateSource(m.items[i])]
                     [] input.kind = "variables" -> [i \in DOMAIN m.items |-> CompressVariable(m.items[i], L.value)]
                     [] input.kind = "stackTrace" -> CompressFrames(m.items)
                     [] input.kind = "scopes" -> [i \in DOMAIN m.items |-> [m.items[i] EXCEPT !.fields = @ \ ScopeNoise]]
                     [] OTHER -> m.items
  BY <1>3, CompressIs, ZenonT(60)
<1>7. (Compressed => msg = d) /\ (~Compressed => msg = m)
  BY DEF Finished
<1> HIDE DEF m, d
<1>8. ASSUME input.kind = "stackTrace" PROVE FramesTraceable
  <2>1. GivenItems \in Seq(Frame)
    BY <1>4, <1>5, <1>8 DEF Frame
  <2>2. CASE Compressed
    <3>1. msg.items = CompressFrames(GivenItems)
      BY <1>5, <1>6, <1>7, <1>8, <2>2
    <3> HIDE DEF L
    <3> QED
      BY <2>1, <2>2, <3>1, FramesRead DEF FramesTraceable
  <2>3. CASE ~Compressed
    BY <1>5, <1>7, <2>3 DEF FramesTraceable
  <2> QED
    BY <2>2, <2>3
<1>9. ASSUME input.kind = "variables" PROVE VariablesReadable
  <2> DEFINE g == GivenItems
  <2>1. g \in Seq(ItemsOf("variables"))
    BY <1>4, <1>5, <1>9
  <2>2. DOMAIN g = 1..Len(g) /\ Len(g) \in Nat
    BY <2>1
  <2>3. CASE Compressed
    <3> DEFINE w == [i \in DOMAIN g |-> CompressVariable(g[i], L.value)]
    <3>1. msg.items = w
      BY <1>5, <1>6, <1>7, <1>9, <2>3
    <3>2. Len(w) = Len(g) /\ DOMAIN w = DOMAIN g /\ \A i \in DOMAIN g : w[i] = CompressVariable(g[i], L.value)
      BY <2>2
    <3>3. \A i \in DOMAIN g : g[i] \in ItemsOf("variables")
      BY <2>1
    <3> HIDE DEF g, w
    <3>4. ASSUME NEW i \in DOMAIN g
          PROVE  /\ w[i].ref = g[i].ref /\ w[i].indexed = g[i].indexed
                 /\ g[i].type \in {w[i].type, w[i].prefix}
                 /\ \/ IsCutOf(w[i].value, g[i].value, L.value)
                    \/ g[i].indexed > 0 /\ g[i].value[1] = "[" /\ w[i].value[2] = ToString(g[i].indexed)
                 /\ {"memoryReference"} \cap w[i].fields # {} => w[i].value # g[i].value
      <4>1. g[i] \in ItemsOf("variables") /\ w[i] = CompressVariable(g[i], L.value)
        BY <3>2, <3>3
      <4> QED
        BY <1>2, <4>1, VariableRead
    <3> QED
      BY <2>3, <3>1, <3>2, <3>4 DEF VariablesReadable, g
  <2>4. CASE ~Compressed
    BY <1>5, <1>7, <2>4 DEF VariablesReadable
  <2> QED
    BY <2>3, <2>4
<1>10. ASSUME input.kind = "scopes", NEW i \in DOMAIN input.items
       PROVE  msg.items[i].ref = input.items[i].ref /\ "name" \in msg.items[i].fields
  <2> DEFINE s == input.items[i]
  <2>1. m.items = input.items
    BY <1>3, <1>10
  <2>2. s \in ItemsOf("scopes")
    BY <1>1, <1>10
  <2>3. CASE Compressed
    <3>1. msg.items[i] = [s EXCEPT !.fields = @ \ ScopeNoise]
      BY <1>6, <1>7, <1>10, <2>1, <2>3
    <3> HIDE DEF s
    <3> QED
      BY <2>2, <3>1, ScopeRead DEF s
  <2>4. CASE ~Compressed
    <3>1. msg.items[i] = s
      BY <1>7, <2>1, <2>4
    <3>2. "name" \in s.fields
      BY <2>2 DEF ItemsOf
    <3> QED
      BY <3>1, <3>2
  <2> QED
    BY <2>3, <2>4
<1>11. ASSUME input.kind \in {"evaluate", "exceptionInfo"}
       PROVE  LET max == IF input.kind = "evaluate" THEN Limits.evaluate ELSE Limits.details
              IN IF Compressed THEN IsCutOf(msg.text, input.text, max) ELSE msg.text = input.text
  <2>1. \A n \in Nat : IsCutOf(Truncated(input.text, n), input.text, n)
                       /\ IsCutOf(TruncatedChars(input.text, n), input.text, n)
    <3>1. "." \in Characters
      BY DEF Characters
    <3> QED
      BY <1>1, <3>1, TruncatedIs
  <2>2. Compressed => msg.text = IF input.kind = "evaluate" THEN Truncated(input.text, L.evaluate)
                                 ELSE TruncatedChars(input.text, L.details)
    BY <1>3, <1>6, <1>7, <1>11
  <2>3. ~Compressed => msg.text = input.text
    BY <1>3, <1>7, <1>11
  <2> QED
    BY <1>2, <1>11, <2>1, <2>2, <2>3
<1> QED
  BY <1>8, <1>9, <1>10, <1>11

----------------------------------------------------------------------------
(* What becomes of a message on its way. *)

\* Where the message is in the making: as it came in, capped, or capped and compressed.
Made ==
  /\ path # "none" => input \in Messages
  /\ path # "proxy" => next = 1
  /\ path \in {"none", "off"} => msg = input
  /\ path = "tool" => msg = IF Written /\ input.kind # "other" THEN Compress(input, ToolLimits) ELSE input
  /\ path = "proxy" => msg = IF next = 1 THEN input
                             ELSE IF Compressed THEN Compress(Cap(input, config.limits), config.limits)
                             ELSE Cap(input, config.limits)

\* No interceptor is counted before its turn.
Few ==
  /\ counts \in [processed : Nat, failures : {0, 1}]
  /\ counts.processed <= IF verdict = "none" THEN next ELSE next - 1

WInv == IInv /\ Made /\ Few

\* What the messages and the configurations are.
LEMMA MessagesAre ==
  /\ \A m \in Messages : IsMessage(m) /\ MarksTold(m.text)
  /\ \A c \in Configs : /\ c.limits \in [LimitFields -> Nat]
                        /\ c.format \in {"json", "toon", "passthrough"} /\ c.metrics \in BOOLEAN
  /\ ToolLimits \in [LimitFields -> Nat]
  /\ [ToolLimits EXCEPT !.output = 0, !.frames = 0, !.variables = 0] \in [LimitFields -> Nat]
<1>1. ToolLimits \in [LimitFields -> Nat]
  BY ChainConstants
<1>2. [ToolLimits EXCEPT !.output = 0, !.frames = 0, !.variables = 0] \in [LimitFields -> Nat]
  BY <1>1
<1>3. \A m \in Messages : IsMessage(m) /\ MarksTold(m.text)
  BY ChainConstants
<1>4. \A c \in Configs : /\ c.limits \in [LimitFields -> Nat]
                         /\ c.format \in {"json", "toon", "passthrough"} /\ c.metrics \in BOOLEAN
  BY ChainConstants
<1> QED
  BY <1>1, <1>2, <1>3, <1>4

\* A message has one compressor at most in the chain.
LEMMA OneCompressor ==
  ASSUME NEW kind, NEW j \in 1..Len(Chain), NEW k \in 1..Len(Chain),
         Chain[j] \in Compressors, Chain[k] \in Compressors,
         kind \in AppliesTo(Chain[j]), kind \in AppliesTo(Chain[k])
  PROVE  j = k
<1>1. ASSUME NEW a \in Compressors, NEW b \in Compressors, kind \in AppliesTo(a), kind \in AppliesTo(b)
      PROVE  a = b
  BY <1>1 DEF Compressors, AppliesTo
<1>2. Chain[j] = Chain[k]
  BY <1>1
<1> QED
  BY <1>2, ChainConstants

\* Capping that does not run has nothing to cut.
LEMMA NotCapped ==
  ASSUME config \in Configs, IsMessage(input), msg.kind = input.kind, ~RunsOn("capping")
  PROVE  Cap(input, config.limits) = input
<1>1. config.limits \in [LimitFields -> Nat]
  BY MessagesAre
<1>2. config.limits.frames \in Nat /\ config.limits.variables \in Nat /\ config.limits.output \in Nat
  BY <1>1 DEF LimitFields
<1>3. \/ config.limits.frames = 0 /\ config.limits.variables = 0 /\ config.limits.output = 0
      \/ input.kind \notin {"stackTrace", "variables", "output"}
  BY <1>2 DEF RunsOn, AppliesTo, IsInterceptorEnabled, AnyEnabled
<1> QED
  BY <1>1, <1>3, CapsNothing

\* A step of the chain leaves the message capped, and compressed once.
LEMMA MadeOn ==
  ASSUME WInv, Skip \/ Intercept
  PROVE  Made' /\ Few'
<1> USE ChainFacts
<1>1. /\ Types /\ Course /\ Made /\ Few
      /\ UNCHANGED <<config, input, path, verdict, sent>>
      /\ sent = "pending" /\ path = "proxy" /\ verdict = "ok"
      /\ next \in 1..Len(Chain) /\ next' = next + 1
  BY DEF WInv, IInv, Types, Skip, Intercept, InChain
<1>2. Chain[next] \in {"capping", "custom"} \cup Compressors /\ (Chain[next] = "capping" <=> next = 1)
  BY <1>1
<1>3. config \in Configs /\ msg.kind = input.kind /\ input \in Messages /\ IsMessage(input)
  BY <1>1, MessagesAre DEF Types, Made
<1> DEFINE L == config.limits
           m == Cap(input, L)
           c == Compress(m, L)
           new == Chain[next] \in Compressors \ config.off /\ input.kind \in AppliesTo(Chain[next])
<1>4. Compressed' <=> Compressed \/ new
  <2>1. \A k \in 1..(next' - 1) : k \in 1..(next - 1) \/ k = next
    BY <1>1
  <2>2. \A k \in 1..(next - 1) : k \in 1..(next' - 1)
    BY <1>1
  <2>3. next \in 1..(next' - 1)
    BY <1>1
  <2> QED
    BY <1>1, <2>1, <2>2, <2>3 DEF Compressed
<1>5. Chain[next] \in Compressors => (new <=> RunsOn(Chain[next]))
  BY <1>3 DEF RunsOn, IsInterceptorEnabled, Compressors
<1>6. msg = IF next = 1 THEN input ELSE IF Compressed THEN c ELSE m
  BY <1>1 DEF Made
<1>7. msg' = IF Compressed' THEN c ELSE m
  <2>1. CASE next = 1
    <3>1. Chain[next] = "capping" /\ Chain[next] \notin Compressors
      BY <1>2, <2>1 DEF Compressors
    <3>2. ~Compressed
      BY <1>1, <2>1 DEF Compressed
    <3>3. ~Compressed'
      BY <1>4, <3>1, <3>2
    <3>4. CASE Skip
      <4>1. ~RunsOn("capping") /\ msg' = msg
        BY <3>1, <3>4 DEF Skip, Applies
      <4>2. m = input
        BY <1>3, <4>1, NotCapped
      <4> QED
        BY <1>6, <2>1, <3>3, <4>1, <4>2
    <3>5. CASE Intercept
      <4>1. msg' = Cap(msg, config.limits)
        BY <3>1, <3>5 DEF Intercept
      <4> QED
        BY <1>6, <2>1, <3>3, <4>1
    <3> QED
      BY <3>4, <3>5
  <2>2. CASE next # 1
    <3>1. Chain[next] = "custom" \/ Chain[next] \in Compressors
      BY <1>2, <2>2
    <3> HIDE DEF m, c, new
    <3>2. CASE Skip
      <4>1. msg' = msg /\ ~RunsOn(Chain[next])
        BY <3>2 DEF Skip, Applies
      <4>2. ~new
        BY <1>5, <4>1 DEF new
      <4> QED
        BY <1>4, <1>6, <2>2, <4>1, <4>2
    <3>3. CASE Intercept /\ Chain[next] = "custom"
      <4>1. msg' = msg
        BY <3>3 DEF Intercept
      <4>2. ~new
        BY <3>3 DEF new, Compressors
      <4> QED
        BY <1>4, <1>6, <2>2, <4>1, <4>2
    <3>4. CASE Intercept /\ Chain[next] \in Compressors
      <4>1. RunsOn(Chain[next]) /\ msg' = Compress(msg, config.limits)
        <5>1. Chain[next] # "capping" /\ Chain[next] # "custom"
          BY <3>4 DEF Compressors
        <5> QED
          BY <3>4, <5>1 DEF Intercept, Applies
      <4>2. new
        BY <1>5, <3>4, <4>1
      <4>3. ~Compressed
        <5> SUFFICES ASSUME Compressed PROVE FALSE
          OBVIOUS
        <5>1. PICK k \in 1..(next - 1) : Chain[k] \in Compressors \ config.off /\ input.kind \in AppliesTo(Chain[k])
          BY <1>1 DEF Compressed
        <5>2. k \in 1..Len(Chain) /\ k # next
          BY <1>1, <5>1
        <5>3. k = next
          BY <1>1, <3>4, <4>2, <5>1, <5>2, OneCompressor DEF new
        <5> QED
          BY <5>2, <5>3
      <4>4. msg' = c
        BY <1>6, <2>2, <4>1, <4>3 DEF c
      <4> QED
        BY <1>4, <4>2, <4>4
    <3> QED
      BY <3>1, <3>2, <3>3, <3>4
  <2> QED
    BY <2>1, <2>2
<1>8. Made'
  <2>1. next' # 1
    BY <1>1
  <2> HIDE DEF m, c
  <2>2. msg' = IF Compressed' THEN Compress(Cap(input, config.limits), config.limits) ELSE Cap(input, config.limits)
    BY <1>7 DEF m, c
  <2> QED
    BY <1>1, <1>3, <2>1, <2>2 DEF Made
<1>9. Few'
  <2>1. counts \in [processed : Nat, failures : {0, 1}] /\ counts.processed <= next - 1
    BY <1>1 DEF Few
  <2>2. counts' = counts \/ counts' = [counts EXCEPT !.processed = @ + 1]
    BY DEF Skip, Intercept, Measure
  <2> QED
    BY <1>1, <2>1, <2>2 DEF Few
<1> QED
  BY <1>8, <1>9

\* No other step of a message's way touches it, but for the one compressor of a tool.
LEMMA MadeElsewhere ==
  ASSUME WInv,
         InterceptorFails \/ InterceptorDrops \/ Deliver \/ EncodeFails \/ CompressForTool \/ KeepForAgent \/ CallFails
  PROVE  Made' /\ Few'
<1>1. /\ Types /\ Course /\ Made /\ Few
      /\ UNCHANGED <<config, input, path, next>>
  BY DEF WInv, IInv, InterceptorFails, InterceptorDrops, Deliver, EncodeFails, CompressForTool, KeepForAgent, CallFails
<1>2. CASE InterceptorFails \/ InterceptorDrops \/ Deliver \/ EncodeFails
  <2>1. path = "proxy" /\ msg' = msg
    BY <1>2 DEF InterceptorFails, InterceptorDrops, InChain, Deliver, EncodeFails, ChainDone
  <2>2. Compressed' = Compressed
    BY <1>1 DEF Compressed
  <2>3. Made'
    BY <1>1, <2>1, <2>2 DEF Made
  <2>4. next \in Nat /\ counts \in [processed : Nat, failures : {0, 1}]
        /\ counts.processed <= IF verdict = "none" THEN next ELSE next - 1
    BY <1>1, ChainFacts DEF Types, Few
  <2>5. CASE InterceptorFails
    <3>1. verdict = "ok" /\ verdict' = "failed"
          /\ (counts' = counts \/ counts' = [counts EXCEPT !.failures = @ + 1]) /\ config' = config
      BY <2>5 DEF InterceptorFails, InChain, Measure
    <3>2. counts.failures = 0
      BY <3>1, <2>4 DEF WInv, IInv, Counted
    <3> QED
      BY <1>1, <2>3, <2>4, <3>1, <3>2 DEF Few
  <2>6. CASE InterceptorDrops
    <3>1. verdict = "ok" /\ verdict' = "none" /\ (counts' = counts \/ counts' = [counts EXCEPT !.processed = @ + 1])
      BY <2>6 DEF InterceptorDrops, InChain, Measure
    <3> QED
      BY <1>1, <2>3, <2>4, <3>1 DEF Few
  <2>7. CASE Deliver \/ EncodeFails
    <3>1. verdict' = verdict /\ counts' = counts
      BY <2>7 DEF Deliver, EncodeFails
    <3> QED
      BY <1>1, <2>3, <2>4, <3>1 DEF Few
  <2> QED
    BY <1>2, <2>5, <2>6, <2>7
<1>3. CASE CompressForTool \/ KeepForAgent \/ CallFails
  <2>1. sent = "pending" /\ counts' = counts /\ verdict' = verdict
    BY <1>3 DEF CompressForTool, KeepForAgent, CallFails
  <2>2. ~Written
    BY <2>1 DEF Written
  <2>3. Few'
    BY <1>1, <2>1 DEF Few
  <2>4. msg.kind = input.kind
    BY <1>1 DEF Types
  <2>5. CASE CompressForTool
    <3>1. path = "tool" /\ sent' = "toon" /\ msg = input
      BY <1>1, <2>2, <2>5 DEF CompressForTool, Made
    <3>2. msg' = IF input.kind = "other" THEN input ELSE Compress(input, ToolLimits)
      BY <2>5, <3>1 DEF CompressForTool
    <3>3. Written'
      BY <3>1 DEF Written
    <3> QED
      BY <1>1, <2>3, <3>1, <3>2, <3>3 DEF Made
  <2>6. CASE KeepForAgent
    <3>1. path = "off" /\ msg' = msg
      BY <2>6 DEF KeepForAgent
    <3> QED
      BY <1>1, <2>3, <3>1 DEF Made
  <2>7. CASE CallFails
    <3>1. path \in {"tool", "off"} /\ msg' = msg /\ sent' = "nothing"
      BY <2>7 DEF CallFails
    <3>2. ~Written'
      BY <3>1 DEF Written
    <3> QED
      BY <1>1, <2>2, <2>3, <3>1, <3>2 DEF Made
  <2> QED
    BY <1>3, <2>5, <2>6, <2>7
<1> QED
  BY <1>2, <1>3

\* The invariant of the message holds with the one of its course.
LEMMA WorkInv == Spec => []WInv
<1>1. Init => Made /\ Few
  BY DEF Init, Made, Few, NoCounts
<1>2. ASSUME IInv, Made, Few, [Next]_vars PROVE Made' /\ Few'
  <2>1. WInv
    BY <1>2 DEF WInv
  <2>2. CASE Receive \/ Return
    <3>1. /\ next' = 1 /\ verdict' = "ok" /\ msg' = input' /\ (input' \in Messages \/ path' = "none")
          /\ path' \in {"none", "proxy", "tool", "off"} /\ sent' \in {"pending", "idle"}
      BY <2>2 DEF Receive, Return
    <3>2. counts' = NoCounts
      BY <1>2, <2>2 DEF Receive, Return, IInv, Course
    <3>3. Few'
      BY <3>1, <3>2 DEF Few, NoCounts
    <3>4. ~Written'
      BY <3>1 DEF Written
    <3> QED
      BY <3>1, <3>3, <3>4 DEF Made
  <2>3. CASE UNCHANGED vars
    <3>1. UNCHANGED <<config, input, path, msg, next, verdict, counts, sent>>
      BY <2>3 DEF vars
    <3>2. Compressed' = Compressed /\ Written' = Written
      BY <3>1 DEF Compressed, Written
    <3> QED
      BY <1>2, <3>1, <3>2 DEF Made, Few
  <2> QED
    BY <1>2, <2>1, <2>2, <2>3, MadeOn, MadeElsewhere DEF Next
<1>3. IInv /\ Made /\ Few => WInv
  BY DEF WInv
<1> QED
  BY <1>1, <1>2, <1>3, Invariance, PTL DEF Spec

\* What stands written is finished.
LEMMA WrittenIsFinished ==
  ASSUME WInv, Written
  PROVE  /\ IsMessage(input) /\ MarksTold(input.text) /\ Limits \in [LimitFields -> Nat]
         /\ input.kind \in Compressible => Finished
<1>1. Types /\ Course /\ Made
  BY DEF WInv, IInv
<1>2. path # "none"
  BY <1>1 DEF Course, Written
<1>3. input \in Messages /\ IsMessage(input) /\ MarksTold(input.text)
  BY <1>1, <1>2, MessagesAre DEF Made
<1>4. Limits \in [LimitFields -> Nat] /\ config.limits \in [LimitFields -> Nat]
  BY <1>1, MessagesAre DEF Types, Limits
<1>5. ASSUME input.kind \in Compressible PROVE Finished
  <2>1. CASE path = "proxy"
    <3>1. next # 1 /\ Limits = config.limits
      BY <1>1, <2>1, ChainFacts DEF Course, Types, Limits
    <3> QED
      BY <1>1, <2>1, <3>1 DEF Made, Finished
  <2>2. CASE path # "proxy"
    <3> DEFINE L == [ToolLimits EXCEPT !.output = 0, !.frames = 0, !.variables = 0]
    <3>1. Limits = L
      BY <2>2 DEF Limits
    <3>2. DOMAIN ToolLimits = LimitFields
      BY MessagesAre
    <3>3. /\ L.output = 0 /\ L.frames = 0 /\ L.variables = 0
          /\ L.evaluate = ToolLimits.evaluate /\ L.value = ToolLimits.value /\ L.details = ToolLimits.details
      BY <3>2 DEF LimitFields
    <3> HIDE DEF L
    <3>4. Cap(input, L) = input
      BY <1>3, <1>4, <3>1, <3>3, CapsNothing
    <3>5. Compress(input, L) = Compress(input, ToolLimits)
      BY <3>3 DEF Compress
    <3>6. CASE path = "tool"
      <4>1. Compressed
        BY <3>6 DEF Compressed
      <4>2. input.kind # "other"
        BY <1>5 DEF Compressible
      <4> QED
        BY <1>1, <3>1, <3>4, <3>5, <3>6, <4>1, <4>2 DEF Made, Finished
    <3>7. CASE path = "off"
      <4>1. ~Compressed /\ msg = input
        BY <1>1, <3>7 DEF Made, Compressed
      <4> QED
        BY <3>1, <3>4, <4>1 DEF Finished
    <3> QED
      BY <1>1, <1>2, <2>2, <3>6, <3>7 DEF Types
  <2> QED
    BY <2>1, <2>2
<1> QED
  BY <1>3, <1>4, <1>5

\* Whichever interceptor drops the message or fails, and whatever the encoding does: the
\* proxy writes something unless it was told to drop the message, and a failure is counted.
\* What it writes, or a tool returns, is the raw bytes or exactly what capping and the one
\* compressor that has had its turn make of the message.
THEOREM NothingLost == Spec => []FailsOpen
<1>1. ASSUME WInv PROVE FailsOpen
  <2>1. Types /\ Course /\ Counted /\ Made
    BY <1>1 DEF WInv, IInv
  <2>2. ASSUME Written PROVE msg = LastGood
    <3>1. IsMessage(input) /\ Limits \in [LimitFields -> Nat] /\ path # "none"
      BY <1>1, <2>1, <2>2, WrittenIsFinished DEF Course, Written
    <3>2. CASE input.kind \in Compressible
      <4>1. input.kind # "other"
        BY <3>2 DEF Compressible
      <4> QED
        BY <1>1, <2>2, <3>2, <4>1, WrittenIsFinished DEF Finished, LastGood
    <3>3. CASE input.kind \notin Compressible
      <4>1. input.kind = "other"
        BY <2>1, <2>2, <3>1, <3>3 DEF Course, Written, IsMessage, Kinds, Compressible
      <4>2. Cap(input, Limits) = input
        BY <3>1, <4>1, CapsNothing
      <4>3. path = "proxy" => ~Compressed /\ next # 1 /\ Limits = config.limits
        BY <2>1, <2>2, <4>1, ChainFacts DEF Compressed, Compressors, AppliesTo, Course, Types, Limits
      <4>4. msg = input
        BY <2>1, <3>1, <4>1, <4>2, <4>3 DEF Made, Types
      <4> QED
        BY <4>1, <4>2, <4>4 DEF LastGood
    <3> QED
      BY <3>2, <3>3
  <2> QED
    BY <2>1, <2>2 DEF FailsOpen, Course, Counted, Ran, Reached
<1> QED
  BY <1>1, WorkInv, PTL

\* Whatever becomes of a message, it stays one of its kind: no interceptor adds an item or
\* a field, nor to its text any symbol but the marks of repeated lines, and none is counted
\* that is not there.
THEOREM MessageStays == Spec => []TypeOK
<1>1. ASSUME WInv PROVE TypeOK
  <2>1. Types /\ Course /\ Made /\ Few
    BY <1>1 DEF WInv, IInv
  <2>2. /\ config.format \in {"json", "toon", "passthrough"} /\ config.metrics \in BOOLEAN
        /\ config.limits \in [LimitFields -> Nat]
    BY <2>1, MessagesAre DEF Types
  <2>3. /\ msg.text \in Seq(Folding) /\ Len(msg.items) <= Len(input.items)
        /\ msg.fields \subseteq input.fields
    <3>1. CASE path = "none"
      <4>1. msg = input /\ input = NoMessage
        BY <2>1, <3>1 DEF Made, Course
      <4> DEFINE F == Folding
      <4>2. <<>> \in Seq(F) /\ Len(<<>>) <= Len(<<>>)
        <5> HIDE DEF F
        <5> QED
          BY EmptySeq
      <4> QED
        BY <4>1, <4>2 DEF NoMessage
    <3>2. CASE path # "none"
      <4>1. IsMessage(input) /\ MarksTold(input.text)
        BY <2>1, <3>2, MessagesAre DEF Made
      <4> DEFINE M(L) == Cap(input, L)
                 C(L) == Compress(Cap(input, L), L)
                 T0 == [ToolLimits EXCEPT !.output = 0, !.frames = 0, !.variables = 0]
      <4>2. \A L \in [LimitFields -> Nat] :
              /\ input.text \in Seq(Folding) /\ Len(input.items) <= Len(input.items)
              /\ M(L).text \in Seq(Folding) /\ M(L).fields \subseteq input.fields
              /\ Len(M(L).items) <= Len(input.items)
              /\ input.kind \in Compressible =>
                   /\ C(L).text \in Seq(Folding) /\ C(L).fields \subseteq input.fields
                   /\ Len(C(L).items) <= Len(input.items)
        BY <4>1, StaysItsKind
      <4>3. T0 \in [LimitFields -> Nat]
        BY MessagesAre
      <4>4. C(T0) = Compress(input, ToolLimits)
        <5>1. DOMAIN ToolLimits = LimitFields
          BY MessagesAre
        <5>2. /\ T0.output = 0 /\ T0.frames = 0 /\ T0.variables = 0
              /\ T0.evaluate = ToolLimits.evaluate /\ T0.value = ToolLimits.value /\ T0.details = ToolLimits.details
          BY <5>1 DEF LimitFields
        <5> HIDE DEF T0
        <5>3. Cap(input, T0) = input
          BY <4>1, <4>3, <5>2, CapsNothing
        <5>4. Compress(input, T0) = Compress(input, ToolLimits)
          BY <5>2 DEF Compress
        <5> QED
          BY <5>3, <5>4
      <4>5. CASE path = "proxy"
        <5>1. Compressed => input.kind \in Compressible
          <6>1. ASSUME NEW k \in 1..(next - 1), Chain[k] \in Compressors, input.kind \in AppliesTo(Chain[k])
                PROVE  input.kind \in Compressible
            BY <6>1 DEF Compressors, AppliesTo, Compressible
          <6> QED
            BY <4>5, <6>1 DEF Compressed
        <5>2. msg \in {input, M(config.limits)} \/ (msg = C(config.limits) /\ Compressed)
          BY <2>1, <4>5 DEF Made
        <5> HIDE DEF M, C
        <5> QED
          BY <2>2, <4>2, <5>1, <5>2
      <4>6. CASE path = "tool"
        <5>1. msg = input \/ (msg = C(T0) /\ input.kind # "other")
          BY <2>1, <4>4, <4>6 DEF Made
        <5>2. input.kind \in Kinds /\ input.kind # "malformed"
          BY <2>1, <4>1, <4>6 DEF Course, IsMessage
        <5>3. input.kind # "other" => input.kind \in Compressible
          BY <5>2 DEF Kinds, Compressible
        <5> HIDE DEF M, C, T0
        <5> QED
          BY <2>2, <4>2, <4>3, <5>1, <5>3
      <4>7. CASE path = "off"
        <5>1. msg = input
          BY <2>1, <4>7 DEF Made
        <5> HIDE DEF M, C, T0
        <5> QED
          BY <2>2, <4>2, <5>1
      <4> QED
        BY <2>1, <3>2, <4>5, <4>6, <4>7 DEF Types
    <3> QED
      BY <3>1, <3>2
  <2>4. counts \in [processed : 0..Len(Chain), failures : 0..1]
    <3>1. counts \in [processed : Nat, failures : {0, 1}]
          /\ counts.processed <= IF verdict = "none" THEN next ELSE next - 1
      BY <2>1 DEF Few
    <3>2. next \in 1..(Len(Chain) + 1) /\ (verdict = "none" => next <= Len(Chain)) /\ Len(Chain) \in Nat
      BY <2>1, ChainFacts DEF Types, Course
    <3> QED
      BY <3>1, <3>2
  <2>5. input.kind \in Kinds
    BY <2>1, ChainFacts DEF Types
  <2> QED
    BY <2>1, <2>2, <2>3, <2>4, <2>5 DEF TypeOK, Types, Folding, Marks
<1> QED
  BY <1>1, WorkInv, PTL

\* Whoever reads a written output event gets its visible text back line for line, its
\* category and the end of its source's path, whatever the limits and the chain.
THEOREM EventsReadable == Spec => []OutputReadable
<1>1. ASSUME WInv PROVE OutputReadable
  <2> SUFFICES ASSUME Written, input.kind = "output"
               PROVE  /\ "u" \notin ToSet(input.text) => TextReadable
                      /\ TellsCategory(msg.category, input.category)
                      /\ Len(msg.items) = Len(input.items)
                      /\ \A i \in DOMAIN input.items :
                           IF input.items[i].path = NoPath THEN msg.items[i].path = NoPath
                           ELSE msg.items[i].path # NoPath /\ IsSuffix(msg.items[i].path, input.items[i].path)
    BY DEF OutputReadable
  <2>1. input.kind \in Compressible
    BY DEF Compressible
  <2> QED
    BY <1>1, <2>1, WrittenIsFinished, FinishedOutput
<1> QED
  BY <1>1, WorkInv, PTL

\* The answer to a request reads the same after compression: the frames with their
\* functions and files, the variables with their types and values, the scopes, the
\* result of evaluate and the text of an exception.
THEOREM AnswersReadable == Spec => []ResponsesReadable
<1>1. ASSUME WInv PROVE ResponsesReadable
  <2>1. ASSUME Written, input.kind \in Compressible
        PROVE  /\ input.kind = "stackTrace" => FramesTraceable
               /\ input.kind = "variables" => VariablesReadable
               /\ input.kind = "scopes" => \A i \in DOMAIN input.items :
                    /\ msg.items[i].ref = input.items[i].ref
                    /\ "name" \in msg.items[i].fields
               /\ input.kind \in {"evaluate", "exceptionInfo"} =>
                    LET max == IF input.kind = "evaluate" THEN Limits.evaluate ELSE Limits.details
                    IN IF Compressed THEN IsCutOf(msg.text, input.text, max) ELSE msg.text = input.text
    BY <1>1, <2>1, WrittenIsFinished, FinishedResponse
  <2>2. {"stackTrace", "variables", "scopes", "evaluate", "exceptionInfo"} \subseteq Compressible
    BY DEF Compressible
  <2> QED
    BY <2>1, <2>2 DEF ResponsesReadable
<1> QED
  BY <1>1, WorkInv, PTL

----------------------------------------------------------------------------
(* What Configuration makes is what the assumptions ask for. *)

\* The values an option can have, where there is one.
Values(o) ==
  CASE o \in Limit -> Nat
    [] o \in Switch -> BOOLEAN
    [] o = "format" -> {"json", "toon", "passthrough"}
    [] o = "backend" -> STRING

\* A source of settings, and one in which everything parses.
IsSource(s) == s = [o \in Option |-> s[o]] /\ \A o \in Option : s[o] \in Values(o) \cup {Unset, Bad}
Parses(s) == IsSource(s) /\ \A o \in Option : s[o] \in Values(o) \cup {Unset}

\* An option that is set in one of two sources, or has a default, has a value.
LEMMA Settled ==
  /\ \A o \in Option \ {"backend"} : Default[o] \in Values(o)
  /\ \A s, t : Parses(s) /\ Parses(t) => Parses(Or(s, t))
  /\ \A s : IsSource(s) => Parses(Parsed(s))
  /\ \A s : Parses(s) => \A o \in Option \ {"backend"} : Or(s, Default)[o] \in Values(o)
  /\ Parses(NoSettings)
<1>1. ASSUME NEW o \in Option \ {"backend"} PROVE Default[o] \in Values(o)
  <2>1. CASE o \in Limit
    <3>1. o \notin Switch /\ o \notin {"format", "backend"}
      BY <2>1 DEF Limit, Switch
    <3> DEFINE n5 == 500
               n1 == 120
               n0 == 0
               yes == TRUE
    <3>2. Default[o] \in {n5, n1, n0}
      <4>1. Default = [q \in Option |-> CASE q = "evaluate" -> n5 [] q = "value" -> n1
                                         [] q \in Limit \ {"evaluate", "value"} -> n0
                                         [] q \in Switch -> yes [] q = "format" -> "toon"
                                         [] q = "backend" -> Unset]
        BY Zenon DEF Default
      <4> HIDE DEF n5, n1, n0, yes
      <4> QED
        BY <2>1, <3>1, <4>1
    <3>6. Default[o] \in Nat
      BY <3>2 DEF n5, n1, n0
    <3>7. Values(o) = Nat
      BY <2>1, <3>1 DEF Values
    <3> QED
      BY <3>6, <3>7
  <2>2. CASE o \in Switch
    <3>1. o \notin Limit /\ o \notin {"format", "backend", "evaluate", "value"}
      BY <2>2 DEF Limit, Switch
    <3> QED
      BY <2>2, <3>1 DEF Default, Values
  <2>3. CASE o = "format"
    BY <2>3 DEF Default, Values, Limit, Switch
  <2> QED
    BY <2>1, <2>2, <2>3 DEF Option
<1>2. ASSUME NEW s, NEW t, Parses(s), Parses(t) PROVE Parses(Or(s, t))
  BY <1>2 DEF Parses, IsSource, Or
<1>3. ASSUME NEW s, IsSource(s) PROVE Parses(Parsed(s))
  BY <1>3 DEF Parses, IsSource, Parsed
<1>4. ASSUME NEW s, Parses(s), NEW o \in Option \ {"backend"} PROVE Or(s, Default)[o] \in Values(o)
  BY <1>1, <1>4 DEF Parses, Or
<1>5. Parses(NoSettings)
  BY DEF Parses, IsSource, NoSettings
<1> QED
  BY <1>1, <1>2, <1>3, <1>4, <1>5

\* What comes of settings that are settled is what ChainConstants asks of a configuration.
LEMMA ConfigFits ==
  ASSUME DetailsLimit \in Nat, NEW s, \A o \in Option \ {"backend"} : s[o] \in Values(o),
         NEW flag \in BOOLEAN, NEW variable \in BOOLEAN
  PROVE  LET c == RunsWith(Config(s), flag, variable)
         IN /\ c.format \in {"json", "toon", "passthrough"} /\ c.metrics \in BOOLEAN
            /\ c.limits \in [LimitFields -> Nat]
<1> DEFINE d == Config(s)
           L == ChainLimits(d)
<1>1. d.limits = [l \in Limit |-> s[l]] /\ d.format = s["format"]
  BY DEF Config
<1>2. s["format"] \in {"json", "toon", "passthrough"}
  <2>1. "format" \in Option \ {"backend"}
    BY DEF Option
  <2>2. Values("format") = {"json", "toon", "passthrough"}
    BY DEF Values, Limit, Switch
  <2> QED
    BY <2>1, <2>2
<1>3. \A l \in Limit : s[l] \in Nat
  <2> TAKE l \in Limit
  <2>1. l \in Option \ {"backend"} /\ l \notin Switch \cup {"format", "backend"}
    BY DEF Option, Limit, Switch
  <2>2. Values(l) = Nat
    BY <2>1 DEF Values
  <2> QED
    BY <2>1, <2>2
<1> HIDE DEF d
<1>4. L = [l \in Limit \cup {"details"} |-> IF l \in Limit THEN s[l] ELSE DetailsLimit]
  <2>1. "details" \notin Limit
    BY DEF Limit
  <2> QED
    BY <1>1, <2>1 DEF ChainLimits
<1>5. L \in [LimitFields -> Nat]
  <2>1. Limit \cup {"details"} = LimitFields
    BY DEF Limit, LimitFields
  <2> HIDE DEF L
  <2> QED
    BY <1>3, <1>4, <2>1
<1> HIDE DEF L
<1>6. LET c == RunsWith(d, flag, variable)
      IN c.limits = L /\ c.format = d.format /\ c.metrics \in BOOLEAN
  BY DEF RunsWith, L
<1> QED
  BY <1>1, <1>2, <1>5, <1>6 DEF d

\* What becomes of the settings of run_proxy, of an embedder or of a file, if anything, and the
\* chain of build_interceptor_chain, is as ChainConstants has it.
THEOREM ConfigurationsFit ==
  ASSUME DetailsLimit \in Nat, NEW given, Parses(given), NEW args, IsSource(args), NEW env, IsSource(env),
         NEW file, IsSource(file), NEW flag \in BOOLEAN, NEW variable \in BOOLEAN
  PROVE  /\ \A c \in {Build(given, env), FromCommandLine(args, env), FromFile(file)} \ {Failure} :
              LET d == RunsWith(c, flag, variable)
              IN /\ d.format \in {"json", "toon", "passthrough"} /\ d.metrics \in BOOLEAN
                 /\ d.limits \in [LimitFields -> Nat]
         /\ BuildInterceptorChain \in Seq({"capping", "custom"} \cup Compressors)
         /\ \A k \in 1..Len(BuildInterceptorChain) : BuildInterceptorChain[k] = "capping" <=> k = 1
         /\ \A j, k \in 1..Len(BuildInterceptorChain) :
              BuildInterceptorChain[j] = BuildInterceptorChain[k] => j = k
<1> DEFINE Fits(c) == LET d == RunsWith(c, flag, variable)
                      IN /\ d.format \in {"json", "toon", "passthrough"} /\ d.metrics \in BOOLEAN
                         /\ d.limits \in [LimitFields -> Nat]
<1>1. ASSUME NEW s, \A o \in Option \ {"backend"} : s[o] \in Values(o) PROVE Fits(Config(s))
  BY <1>1, ConfigFits
<1> HIDE DEF Fits
<1>2. ASSUME NEW s, Parses(s) PROVE Build(s, env) = Failure \/ Fits(Build(s, env))
  <2> DEFINE u == [o \in Option |-> IF o \in Limit /\ (\E l \in Limit : s[l] # Unset) THEN Unset ELSE Parsed(env)[o]]
             t == Or(Or(s, u), Default)
  <2>1. Parses(u)
    <3>1. Parses(Parsed(env))
      BY Settled
    <3> QED
      BY <3>1 DEF Parses, IsSource
  <2>2. Build(s, env) \in {Failure, Config(t)}
    BY DEF Build
  <2> HIDE DEF u
  <2>3. Parses(Or(s, u))
    BY <1>2, <2>1, Settled
  <2>4. \A o \in Option \ {"backend"} : t[o] \in Values(o)
    BY <2>3, Settled
  <2> HIDE DEF t
  <2> QED
    BY <1>1, <2>2, <2>4
<1>3. FromCommandLine(args, env) = Failure \/ Fits(FromCommandLine(args, env))
  <2> DEFINE g == Or(args, env)
             t == Or(g, Default)
  <2>1. FromCommandLine(args, env) = IF g["backend"] = Unset \/ \E o \in Option : t[o] = Bad
                                     THEN Failure ELSE Build(t, env)
    BY DEF FromCommandLine
  <2>2. \A o \in Option : g[o] \in Values(o) \cup {Unset, Bad}
    BY DEF IsSource, Or
  <2> HIDE DEF g
  <2>3. ASSUME g["backend"] # Unset, \A o \in Option : t[o] # Bad PROVE Parses(t)
    <3>1. \A o \in Option : t[o] \in Values(o) \cup {Unset, Bad}
      <4>1. \A o \in Option \ {"backend"} : t[o] \in Values(o) \cup {Unset, Bad}
        BY <2>2, Settled DEF Or
      <4>2. t["backend"] \in Values("backend") \cup {Unset, Bad}
        <5>1. "backend" \in Option
          BY DEF Option
        <5> QED
          BY <2>2, <2>3, <5>1 DEF Or
      <4> QED
        BY <4>1, <4>2
    <3>2. \A o \in Option : t[o] \in Values(o) \cup {Unset}
      BY <2>3, <3>1
    <3>3. t = [o \in Option |-> t[o]]
      BY DEF Or
    <3> HIDE DEF t
    <3> QED
      BY <3>2, <3>3 DEF Parses, IsSource
  <2> HIDE DEF t
  <2> QED
    BY <1>2, <2>1, <2>3
<1>4. FromFile(file) = Failure \/ Fits(FromFile(file))
  <2> SUFFICES ASSUME FromFile(file) # Failure PROVE Fits(FromFile(file))
    OBVIOUS
  <2>1. \A o \in Option : file[o] # Bad
    BY DEF FromFile
  <2>2. Parses(file)
    BY <2>1 DEF Parses, IsSource
  <2>3. FromFile(file) = Config(Or(file, Default))
    BY DEF FromFile
  <2>4. \A o \in Option \ {"backend"} : Or(file, Default)[o] \in Values(o)
    BY <2>2, Settled
  <2> QED
    BY <1>1, <2>3, <2>4
<1>5. /\ BuildInterceptorChain \in Seq({"capping", "custom"} \cup Compressors)
      /\ \A k \in 1..Len(BuildInterceptorChain) : BuildInterceptorChain[k] = "capping" <=> k = 1
      /\ \A j, k \in 1..Len(BuildInterceptorChain) :
           BuildInterceptorChain[j] = BuildInterceptorChain[k] => j = k
  BY DEF BuildInterceptorChain, Compressors
<1> QED
  BY <1>2, <1>3, <1>4, <1>5 DEF Fits

\* A command line, an embedder's builder and a file that say the same give the same Config, if
\* nothing is in the environment: where all of it parses, a backend is named, and of the
\* limits none or at least the three that a file's table must name are given.
THEOREM SameSettings ==
  ASSUME NEW s, Parses(s), s["backend"] # Unset,
         \A o \in Option : s[o] # Bad /\ Default[o] # Bad,
         (\E l \in Limit : s[l] # Unset) => {"frames", "variables", "output"} \subseteq {l \in Limit : s[l] # Unset}
  PROVE  /\ Build(s, NoSettings) = Config(Or(s, Default))
         /\ FromFile(s) = Config(Or(s, Default))
         /\ FromCommandLine(s, NoSettings) = Config(Or(s, Default))
<1> DEFINE t == Or(s, Default)
<1>1. s = [o \in Option |-> s[o]] /\ "backend" \in Option /\ Limit \subseteq Option
  BY DEF Option, Parses, IsSource
<1>2. /\ t = [o \in Option |-> t[o]] /\ \A o \in Option : t[o] = IF s[o] # Unset THEN s[o] ELSE Default[o]
      /\ t["backend"] # Unset
  BY <1>1 DEF Or
<1>3. ASSUME NEW r, r = [o \in Option |-> r[o]], r["backend"] # Unset, Or(r, Default) = t
      PROVE  Build(r, NoSettings) = Config(t)
  <2> DEFINE u == [o \in Option |-> IF o \in Limit /\ (\E l \in Limit : r[l] # Unset) THEN Unset
                                    ELSE Parsed(NoSettings)[o]]
  <2>1. u = [o \in Option |-> Unset]
    BY DEF Parsed, NoSettings
  <2>2. Build(r, NoSettings) = IF Or(Or(r, u), Default)["backend"] = Unset THEN Failure ELSE Config(Or(Or(r, u), Default))
    BY DEF Build
  <2> HIDE DEF u
  <2>3. Or(r, u) = r
    BY <1>3, <2>1 DEF Or
  <2> HIDE DEF t
  <2> QED
    BY <1>2, <1>3, <2>2, <2>3
<1>4. Build(s, NoSettings) = Config(t)
  BY <1>1, <1>3
<1>5. FromFile(s) = Config(t)
  <2> DEFINE table == {l \in Limit : s[l] # Unset}
  <2>1. table = {} \/ {"frames", "variables", "output"} \subseteq table
    OBVIOUS
  <2>2. FromFile(s) = IF \/ s["backend"] = Unset \/ \E o \in Option : s[o] = Bad
                         \/ table # {} /\ ~({"frames", "variables", "output"} \subseteq table)
                      THEN Failure ELSE Config(t)
    BY DEF FromFile
  <2> HIDE DEF table, t
  <2> QED
    BY <2>1, <2>2
<1>6. FromCommandLine(s, NoSettings) = Config(t)
  <2>1. Or(s, NoSettings) = s
    <3>1. \A o \in Option : NoSettings[o] = Unset
      BY DEF NoSettings
    <3> QED
      BY <1>1, <3>1 DEF Or
  <2>2. FromCommandLine(s, NoSettings) = IF s["backend"] = Unset \/ \E o \in Option : t[o] = Bad
                                         THEN Failure ELSE Build(t, NoSettings)
    BY <2>1 DEF FromCommandLine
  <2>3. \A o \in Option : t[o] # Bad
    BY <1>2
  <2>4. Or(t, Default) = t
    <3>1. \A o \in Option : t[o] = Unset => Default[o] = Unset
      BY <1>2
    <3> HIDE DEF t
    <3> QED
      BY <1>2, <3>1 DEF Or
  <2> HIDE DEF t
  <2>5. Build(t, NoSettings) = Config(t)
    BY <1>2, <1>3, <2>4
  <2> QED
    BY <2>2, <2>3, <2>5
<1> QED
  BY <1>4, <1>5, <1>6
=============================================================================
