------------------------- MODULE InterceptorChain -------------------------
(***************************************************************************)
(* The compression of one debug adapter message: the interceptor chain of  *)
(* the proxy (src/src/interceptors, Proxy::process_server_message) and the *)
(* single compressors the MCP servers and the Agent SDK call.              *)
(*                                                                         *)
(* A message is a record of its kind, one text (the output of an event,    *)
(* the result of evaluate, any one text of exceptionInfo), a sequence of   *)
(* items (stack frames, variables, scopes or the source of an output       *)
(* event), the category of an output event and the names of the optional   *)
(* fields of its body.  Texts are sequences of the characters that the     *)
(* algorithms tell apart: "u" takes two bytes, "." stands for the          *)
(* parameter bytes of an escape sequence, "a" and "[" can end one, NL, ESC *)
(* and "u" cannot be part of one.                                          *)
(***************************************************************************)
EXTENDS Integers, Sequences, SequencesExt, TLC

CONSTANTS
  Messages,    \* the messages the adapter may send
  Configs,     \* the configurations of the proxy: what RunsWith makes of what Configuration does
  Chain,       \* the names of the interceptors, in the chain's order
  ToolLimits   \* the limits the MCP servers and the Agent SDK hard-code

ESC == "esc"
NL == "nl"
Ellipsis == <<".", ".", ".">>
Raw == "raw"

VARIABLES
  config,    \* Config, never written after the start
  input,     \* the adapter's message
  path,      \* who gets it: the proxy's client, a "tool", or an agent with compression "off"
  msg,       \* the message as the interceptors so far have made it
  next,      \* index of the next interceptor
  verdict,   \* how the chain went: "ok", "failed" or "none" (dropped)
  counts,    \* what the MeteredInterceptors of the chain have added up for this message
  sent       \* what the client got: "nothing", the raw bytes, msg in "json" or "toon"; or "pending"; "idle" between messages

vars == <<config, input, path, msg, next, verdict, counts, sent>>

-----------------------------------------------------------------------------
(* Texts. *)

Characters == {"a", "[", ".", "u", ESC, NL}

\* The elements of s at the positions in P, in their order.
Picked(s, P) == FoldLeftDomain(LAMBDA t, i : IF i \in P THEN Append(t, s[i]) ELSE t, <<>>, s)

Bytes(text) == FoldLeft(LAMBDA n, c : n + (IF c = "u" THEN 2 ELSE 1), 0, text)

Take(s, n) == SubSeq(s, 1, IF n < Len(s) THEN n ELSE Len(s))

\* Compares bytes and takes characters; 0 is no limit.
Truncated(text, max) ==
  IF max = 0 \/ Bytes(text) <= max THEN text ELSE Take(text, max) \o Ellipsis

\* The one truncation that counts characters.
TruncatedChars(text, max) ==
  IF max = 0 \/ Len(text) <= max THEN text ELSE Take(text, max) \o Ellipsis

\* One byte at a time; the bytes of "u" come out as two characters "?".
StripAnsi(text) ==
  LET InSequence(c) == c = "."
      Ends(c) == c \in {"a", "["}
      Plain(acc, i) ==
        IF text[i] = ESC /\ i < Len(text) /\ text[i + 1] = "["
        THEN [acc EXCEPT !.mode = "intro"]
        ELSE [out |-> acc.out \o (IF text[i] = "u" THEN <<"?", "?">> ELSE <<text[i]>>), mode |-> "plain"]
      Step(acc, i) ==
        CASE acc.mode = "intro" -> [acc EXCEPT !.mode = "csi"]
          [] acc.mode = "csi" /\ InSequence(text[i]) -> acc
          [] acc.mode = "csi" /\ Ends(text[i]) -> [acc EXCEPT !.mode = "plain"]
          [] OTHER -> Plain(acc, i)
  IN FoldLeftDomain(Step, [out |-> <<>>, mode |-> "plain"], text).out

\* The lines of a text: as many as it has line ends, and one.
Lines(text) ==
  FoldLeft(LAMBDA ls, c : IF c = NL THEN Append(ls, <<>>) ELSE [ls EXCEPT ![Len(ls)] = Append(@, c)],
           <<(<<>>)>>, text)

\* " (xN)", one symbol.
Times(n) == " (x" \o ToString(n) \o ")"

\* Mutant: a line repeated once loses its repetition.
AppendLineTwice(result, line, count) ==
  (IF result = <<>> THEN <<>> ELSE Append(result, NL)) \o line
    \o (IF count > 2 THEN <<Times(count)>> ELSE <<>>)

AppendLine(result, line, count) ==
  (IF result = <<>> THEN <<>> ELSE Append(result, NL)) \o line
    \o (IF count > 1 THEN <<Times(count)>> ELSE <<>>)

CompressOutputText(text) ==
  LET Step(acc, line) ==
        IF line = acc.prev THEN [acc EXCEPT !.count = @ + 1]
        ELSE [result |-> AppendLine(acc.result, acc.prev, acc.count), prev |-> line, count |-> 1]
      ls == Lines(text)
      end == FoldLeft(Step, [result |-> <<>>, prev |-> ls[1], count |-> 1], Tail(ls))
  IN AppendLine(end.result, end.prev, end.count)

-----------------------------------------------------------------------------
(* The interceptors. *)

\* A path is the sequence of its components; it begins with "" if absolute.
ShortenPath(p) ==
  LET n == Len(p)
  IN IF n = 1 \/ p[n - 1] = "" THEN <<p[n]>> ELSE <<p[n - 1], p[n]>>

NoPath == <<>>
EmptyPath == <<"">>

Trimmed(text) ==
  LET solid == {i \in DOMAIN text : text[i] # " "}
  IN IF solid = {} THEN <<>> ELSE SubSeq(text, Min(solid), Max(solid))

\* A function's parameters are cut off, unless there is nothing before them.
TrimFunctionName(name) ==
  LET base == Trimmed(SubSeq(name, 1, SelectInSeq(name, LAMBDA c : c = "(") - 1))
  IN IF "(" \in ToSet(name) /\ base # <<>> THEN base \o <<"(", "...", ")">> ELSE name

FrameNoise == {"instructionPointerReference", "moduleId"}

Abbreviate(f, prev) ==
  [f EXCEPT !.path = CASE f.path = NoPath -> NoPath
                       [] f.path # NoPath /\ f.path = prev -> EmptyPath
                       [] OTHER -> ShortenPath(f.path),
            !.name = TrimFunctionName(@),
            !.fields = @ \ FrameNoise]

Synthetic(f) == f.hint \in {"label", "subtle"}

\* Frames without a path leave prev alone.
Abbreviated(frames) ==
  LET Step(acc, f) == [out |-> Append(acc.out, Abbreviate(f, acc.prev)),
                       prev |-> IF f.path = NoPath THEN acc.prev ELSE f.path]
  IN FoldLeft(Step, [out |-> <<>>, prev |-> NoPath], frames).out

WithoutSynthetic(frames) == Picked(frames, {i \in DOMAIN frames : ~Synthetic(frames[i])})

\* Mutant: the synthetic frames are filtered out after the paths have been compared.
CompressFramesFirst(frames) == WithoutSynthetic(Abbreviated(frames))

CompressFrames(frames) == Abbreviated(WithoutSynthetic(frames))

\* abbreviate_source
AbbreviateSource(source) ==
  [source EXCEPT !.path = IF @ = NoPath THEN NoPath ELSE ShortenPath(@),
                 !.fields = @ \ {"checksums", "adapterData"}]

AbbreviateCategory(category) ==
  CASE category = "stdout" -> "O"
    [] category = "stderr" -> "E"
    [] category = "console" -> "C"
    [] category = "stdin" -> "I"
    [] category = "telemetry" -> "T"
    [] OTHER -> category

VariableNoise == {"memoryReference", "declarationLocationReference", "valueLocationReference"}

\* A summarised array keeps its noise fields: the loop continues with the next variable.
CompressVariable(v, max) ==
  LET typed == IF v.type \notin {"none", ""} /\ v.prefix # v.type
               THEN [v EXCEPT !.prefix = v.type, !.type = "none"] ELSE v
  IN IF v.indexed > 0 /\ v.value # <<>> /\ v.value[1] = "["
     THEN [typed EXCEPT !.value = <<"Array[0..", ToString(v.indexed), ")">>]
     ELSE [typed EXCEPT !.value = Truncated(v.value, max), !.fields = @ \ VariableNoise]

Map(s, Op(_)) == [i \in DOMAIN s |-> Op(s[i])]

OutputNoise == {"data", "line", "column"}
ScopeNoise == {"source", "line", "column", "endLine", "endColumn"}

\* The capping interceptor.
Cap(m, limits) ==
  CASE m.kind = "stackTrace" /\ limits.frames > 0 -> [m EXCEPT !.items = Take(@, limits.frames)]
    [] m.kind = "variables" /\ limits.variables > 0 -> [m EXCEPT !.items = Take(@, limits.variables)]
    [] m.kind = "output" -> [m EXCEPT !.text = Truncated(@, limits.output)]
    [] OTHER -> m

\* The compressor of each kind.
Compress(m, limits) ==
  CASE m.kind = "output" -> [m EXCEPT !.text = CompressOutputText(StripAnsi(@)), !.items = Map(@, AbbreviateSource),
                                      !.category = AbbreviateCategory(@), !.fields = @ \ OutputNoise]
    [] m.kind = "evaluate" -> [m EXCEPT !.text = Truncated(@, limits.evaluate), !.fields = @ \ {"memoryReference"}]
    [] m.kind = "exceptionInfo" -> [m EXCEPT !.text = TruncatedChars(@, limits.details)]
    [] m.kind = "variables" -> [m EXCEPT !.items = Map(@, LAMBDA v : CompressVariable(v, limits.value))]
    [] m.kind = "stackTrace" -> [m EXCEPT !.items = CompressFrames(@)]
    [] m.kind = "scopes" -> [m EXCEPT !.items = Map(@, LAMBDA s : [s EXCEPT !.fields = @ \ ScopeNoise])]

Kinds == {"stackTrace", "variables", "output", "evaluate", "scopes", "exceptionInfo", "other", "malformed"}

\* The kinds each interceptor applies to; "custom" is an embedder's own.
AppliesTo(name) ==
  CASE name = "capping" -> {"stackTrace", "variables", "output"}
    [] name = "output_compressor" -> {"output"}
    [] name = "evaluate_compressor" -> {"evaluate"}
    [] name = "variables_compressor" -> {"variables"}
    [] name = "stacktrace_compressor" -> {"stackTrace"}
    [] name = "scopes_compressor" -> {"scopes"}
    [] name = "exception_info_compressor" -> {"exceptionInfo"}
    [] name = "custom" -> Kinds

Compressors == {"output_compressor", "evaluate_compressor", "variables_compressor",
                "stacktrace_compressor", "scopes_compressor", "exception_info_compressor"}

-----------------------------------------------------------------------------
(* What there is to compress. *)

LimitFields == {"frames", "variables", "output", "evaluate", "value", "details"}

\* The categories DAP lists; an event without one is "none".
Categories == {"none", "stdout", "stderr", "console", "important", "telemetry"}

\* A source's path names a file: its last component is not empty.
SourcePaths == {p \in Seq(STRING) : p # NoPath => p[Len(p)] # ""}

ItemsOf(kind) ==
  CASE kind = "stackTrace" -> [id : Nat, path : SourcePaths, hint : {"none", "label", "subtle"},
                               name : Seq(STRING), fields : SUBSET STRING]
    [] kind = "variables" -> [ref : Nat, prefix : STRING, type : STRING, indexed : Nat,
                              value : Seq(STRING), fields : SUBSET STRING]
    [] kind = "scopes" -> [ref : Nat, fields : {f \in SUBSET STRING : "name" \in f}]
    [] kind = "output" -> [path : SourcePaths, fields : SUBSET STRING]
    [] OTHER -> {}

IsMessage(m) ==
  m \in [kind : Kinds, text : Seq(Characters), items : Seq(ItemsOf(m.kind)),
         category : Categories, fields : SUBSET STRING]

\* How often a line can be there: a text has a line more than line ends, and one that is cut
\* gets three characters.  A mark is no character and tells how often its line was there.
Repetitions(text) == 2..(Len(text) + 4)
MarksTold(text) ==
  \A i \in Repetitions(text) : /\ Times(i) \notin Characters \cup {"?"}
                               /\ \A j \in Repetitions(text) : Times(i) = Times(j) => i = j

\* What Configuration makes, what a DAP message has, and the chain of build_interceptor_chain,
\* in which no compressor is there twice, with an embedder's own interceptors behind capping.
ASSUME ChainConstants ==
  /\ Chain \in Seq({"capping", "custom"} \cup Compressors)
  /\ \A k \in 1..Len(Chain) : Chain[k] = "capping" <=> k = 1
  /\ \A j, k \in 1..Len(Chain) : Chain[j] = Chain[k] /\ Chain[j] \in Compressors => j = k
  /\ Len(Chain) > 0
  /\ ToolLimits \in [LimitFields -> Nat]
  /\ \A c \in Configs : /\ c.format \in {"json", "toon", "passthrough"} /\ c.metrics \in BOOLEAN
                        /\ c.limits \in [LimitFields -> Nat]
  /\ \A m \in Messages : IsMessage(m) /\ MarksTold(m.text)

AnyEnabled(limits) == limits.frames > 0 \/ limits.variables > 0 \/ limits.output > 0

\* An interceptor the configuration has no switch for is always enabled.
IsInterceptorEnabled(name) ==
  IF name = "capping" THEN AnyEnabled(config.limits) ELSE name \notin config.off

-----------------------------------------------------------------------------
(* Processing a message. *)

NoMessage == [kind |-> "other", text |-> <<>>, items |-> <<>>, category |-> "none", fields |-> {}]
NoCounts == [processed |-> 0, failures |-> 0]

Init ==
  /\ config \in Configs
  /\ input = NoMessage
  /\ path = "none"
  /\ msg = NoMessage
  /\ next = 1
  /\ verdict = "ok"
  /\ counts = NoCounts
  /\ sent = "idle"

Receive ==
  /\ sent = "idle"
  /\ input' \in Messages
  /\ path' \in IF input'.kind = "malformed" THEN {"proxy"} ELSE {"proxy", "tool", "off"}
  /\ msg' = input'
  /\ next' = 1
  /\ verdict' = "ok"
  /\ sent' = "pending"
  /\ UNCHANGED <<config, counts>>

\* No interceptor sees these: every frame in this format, and a frame that is no DAP message.
Passthrough == config.format = "passthrough"
Unprocessed == Passthrough \/ msg.kind = "malformed"

InChain == sent = "pending" /\ path = "proxy" /\ ~Unprocessed /\ verdict = "ok" /\ next <= Len(Chain)

RunsOn(name) == msg.kind \in AppliesTo(name) /\ IsInterceptorEnabled(name)

Applies == RunsOn(Chain[next])

Skip ==
  /\ InChain
  /\ ~Applies
  /\ next' = next + 1
  /\ UNCHANGED <<config, input, path, msg, verdict, counts, sent>>

\* MeteredInterceptor: the wrapped interceptor's answer goes on as it is.
Measure(what) == counts' = IF config.metrics THEN [counts EXCEPT ![what] = @ + 1] ELSE counts

\* Ok(Some(new_msg)): the only answer of the interceptors of the code.
Intercept ==
  /\ InChain
  /\ Applies
  /\ msg' = CASE Chain[next] = "capping" -> Cap(msg, config.limits)
              [] Chain[next] = "custom" -> msg
              [] OTHER -> Compress(msg, config.limits)
  /\ Measure("processed")
  /\ next' = next + 1
  /\ UNCHANGED <<config, input, path, verdict, sent>>

\* Err: the chain ends with the message this interceptor was given.
InterceptorFails ==
  /\ InChain
  /\ Applies
  /\ Chain[next] = "custom"
  /\ verdict' = "failed"
  /\ Measure("failures")
  /\ UNCHANGED <<config, input, path, msg, next, sent>>

\* Ok(None): nothing is written.
InterceptorDrops ==
  /\ InChain
  /\ Applies
  /\ Chain[next] = "custom"
  /\ verdict' = "none"
  /\ Measure("processed")
  /\ UNCHANGED <<config, input, path, msg, next, sent>>

ChainDone == sent = "pending" /\ path = "proxy" /\ (Unprocessed \/ verdict # "ok" \/ next > Len(Chain))

\* Mutant: a message whose interceptor failed is not written.
DeliverGood ==
  /\ ChainDone
  /\ sent' = CASE Unprocessed -> Raw
               [] ~Unprocessed /\ verdict # "ok" -> "nothing"
               [] OTHER -> config.format
  /\ UNCHANGED <<config, input, path, msg, next, verdict, counts>>

\* Mutant: passthrough is a format like the others.
DeliverFormatted ==
  /\ ChainDone
  /\ sent' = IF verdict = "none" THEN "nothing" ELSE config.format
  /\ UNCHANGED <<config, input, path, msg, next, verdict, counts>>

\* The frame is written as the format says, unless nothing is left of it.
Deliver ==
  /\ ChainDone
  /\ sent' = CASE Unprocessed -> Raw
               [] ~Unprocessed /\ verdict = "none" -> "nothing"
               [] OTHER -> config.format
  /\ UNCHANGED <<config, input, path, msg, next, verdict, counts>>

\* The message cannot be encoded: the raw bytes are written.
EncodeFails ==
  /\ ChainDone
  /\ verdict # "none"
  /\ sent' = Raw
  /\ UNCHANGED <<config, input, path, msg, next, verdict, counts>>

\* compress_response and compress_output_events: one compressor, whatever the configuration says.
CompressForTool ==
  /\ sent = "pending"
  /\ path = "tool"
  /\ msg' = IF msg.kind = "other" THEN msg ELSE Compress(msg, ToolLimits)
  /\ sent' = "toon"
  /\ UNCHANGED <<config, input, path, next, verdict, counts>>

\* An agent whose builder has turned compression off.
KeepForAgent ==
  /\ sent = "pending"
  /\ path = "off"
  /\ sent' = "toon"
  /\ UNCHANGED <<config, input, path, msg, next, verdict, counts>>

\* to_toon, to_out: a result that cannot be encoded is an error of the call.
CallFails ==
  /\ sent = "pending"
  /\ path \in {"tool", "off"}
  /\ sent' = "nothing"
  /\ UNCHANGED <<config, input, path, msg, next, verdict, counts>>

\* The call returns; nothing of the message is kept.
Return ==
  /\ sent \notin {"idle", "pending"}
  /\ input' = NoMessage
  /\ path' = "none"
  /\ msg' = NoMessage
  /\ next' = 1
  /\ verdict' = "ok"
  /\ counts' = NoCounts
  /\ sent' = "idle"
  /\ UNCHANGED config

Next ==
  \/ Receive
  \/ Skip
  \/ Intercept
  \/ InterceptorFails
  \/ InterceptorDrops
  \/ Deliver
  \/ EncodeFails
  \/ CompressForTool
  \/ KeepForAgent
  \/ CallFails
  \/ Return

Spec == Init /\ [][Next]_vars

-----------------------------------------------------------------------------
(* What the reader of a compressed message can rely on. *)

\* The message is out and the compressor of its kind has worked on it, or has not.
Written == sent \in {"json", "toon"}
Compressed ==
  \/ path = "tool"
  \/ \E k \in 1..(next - 1) :
       Chain[k] \in Compressors \ config.off /\ input.kind \in AppliesTo(Chain[k])

\* The limits in force: the capping interceptor belongs to the proxy.
Limits == IF path # "proxy" THEN [ToolLimits EXCEPT !.output = 0, !.frames = 0, !.variables = 0]
          ELSE config.limits

\* What capping leaves of the items and of an output text.
GivenItems == LET max == CASE input.kind = "stackTrace" -> Limits.frames
                           [] input.kind = "variables" -> Limits.variables
                           [] OTHER -> 0
              IN IF max = 0 THEN input.items ELSE Take(input.items, max)

\* result is text, or its first max characters and a mark; longer ones are never let through.
IsCutOf(result, text, max) ==
  \/ result = text /\ (max = 0 \/ Len(text) <= max)
  \/ /\ max > 0 /\ Bytes(text) > max
     /\ IsPrefix(SubSeq(result, 1, Len(result) - 3), text)
     /\ Len(result) - 3 = (IF max < Len(text) THEN max ELSE Len(text))
     /\ IsSuffix(Ellipsis, result)

\* An escape sequence begins at k and goes on to j.
Hidden(text, j) ==
  \E k \in 1..j :
    /\ text[k] = ESC /\ k < Len(text) /\ text[k + 1] = "["
    /\ \/ j <= k + 1
       \/ text[j] \in {".", "a", "["} /\ \A i \in (k + 2)..(j - 1) : text[i] = "."

\* The characters of a text outside every escape sequence, by position.
Visible(text) == Picked(text, {j \in DOMAIN text : ~Hidden(text, j)})

\* A line as often as its mark says, without the mark.
Copies(line) == {n \in Repetitions(input.text) : line # <<>> /\ line[Len(line)] = Times(n)}
Spread(line) == IF Copies(line) = {} THEN <<line>>
                ELSE [i \in 1..(CHOOSE n \in Copies(line) : TRUE) |-> Front(line)]

Joined(lines) == FoldLeft(LAMBDA t, line : t \o <<NL>> \o line, lines[1], Tail(lines))

\* The text a reader makes of a folded one.
Unfolded(text) == Joined(FoldLeft(LAMBDA lines, line : lines \o Spread(line), <<>>, Lines(text)))

\* The message stays one of its kind: no interceptor adds an item, a field or, but for the
\* marks of repeated lines, a symbol.
TypeOK ==
  /\ config.format \in {"json", "toon", "passthrough"} /\ config.metrics \in BOOLEAN
  /\ input.kind \in Kinds
  /\ msg.kind = input.kind
  /\ msg.text \in Seq(Characters \cup {"?"} \cup {Times(n) : n \in Repetitions(input.text)})
  /\ Len(msg.items) <= Len(input.items)
  /\ msg.fields \subseteq input.fields
  /\ counts \in [processed : 0..Len(Chain), failures : 0..1]
  /\ path \in {"none", "proxy", "tool", "off"}
  /\ next \in 1..(Len(Chain) + 1)
  /\ verdict \in {"ok", "failed", "none"}
  /\ sent \in {"idle", "pending", "nothing", "raw", "json", "toon"}

\* No two of DAP's categories get the same name.
TellsCategory(shown, category) == \A c \in Categories \ {category} : AbbreviateCategory(c) # shown

\* From a compressed output event its reader gets back the visible text of what capping
\* let through, line for line: stripping, folding and joining lose nothing else.  Two
\* things the code does lose are left out: an empty first line (append_line sees an empty
\* result and takes it for the first line) and characters of more than one byte.
TextReadable ==
  \E given \in {input.text, Take(input.text, Limits.output) \o Ellipsis} :
    /\ IsCutOf(given, input.text, Limits.output)
    /\ LET visible == Visible(given)
           read == Unfolded(msg.text)
       IN IF ~Compressed THEN msg.text = given
          ELSE \/ read = visible
               \/ visible # <<>> /\ visible[1] = NL /\ read = Tail(visible)

\* The text, the category and the source of an output event can be told.
OutputReadable ==
  Written /\ input.kind = "output" =>
    /\ "u" \notin ToSet(input.text) => TextReadable
    /\ TellsCategory(msg.category, input.category)
    /\ Len(msg.items) = Len(input.items)
    /\ \A i \in DOMAIN input.items :
         IF input.items[i].path = NoPath THEN msg.items[i].path = NoPath
         ELSE msg.items[i].path # NoPath /\ IsSuffix(msg.items[i].path, input.items[i].path)

\* What of a name comes before its first parenthesis, blanks aside.
FunctionOf(name) == Picked(name, {i \in DOMAIN name : name[i] # " " /\ \A j \in 1..i : name[j] # "("})

\* Every frame but the synthetic ones is there, in order, with its function, and its file
\* can be told: an empty path stands for the last path before it, any other is the end of
\* the real one.
FramesTraceable ==
  LET kept == Picked(GivenItems, {i \in DOMAIN GivenItems : GivenItems[i].hint = "none"})
      Real(i) == SelectLastInSubSeq(msg.items, 1, i, LAMBDA f : f.path \notin {NoPath, EmptyPath})
  IN IF ~Compressed THEN msg.items = GivenItems
     ELSE /\ Len(msg.items) = Len(kept)
          /\ \A i \in DOMAIN kept :
               /\ msg.items[i].id = kept[i].id
               /\ FunctionOf(msg.items[i].name) = FunctionOf(kept[i].name)
               /\ IF kept[i].path = NoPath THEN msg.items[i].path = NoPath
                  ELSE Real(i) # 0 /\ IsSuffix(msg.items[Real(i)].path, kept[i].path)

\* Every variable is there with its reference, its type in its name or its own field, and
\* its value whole, cut with a mark, or replaced by the length of an array.
VariablesReadable ==
  /\ Len(msg.items) = Len(GivenItems)
  /\ \A i \in DOMAIN msg.items :
       LET v == GivenItems[i]
           w == msg.items[i]
       IN IF ~Compressed THEN w = v
          ELSE /\ w.ref = v.ref /\ w.indexed = v.indexed
               /\ v.type \in {w.type, w.prefix}
               /\ \/ IsCutOf(w.value, v.value, Limits.value)
                  \/ v.indexed > 0 /\ v.value[1] = "[" /\ w.value[2] = ToString(v.indexed)
               /\ {"memoryReference"} \cap w.fields # {} => w.value # v.value

\* The answer to a request reads the same after compression, item by item and text by text.
ResponsesReadable ==
  Written =>
    /\ input.kind = "stackTrace" => FramesTraceable
    /\ input.kind = "variables" => VariablesReadable
    /\ input.kind = "scopes" => \A i \in DOMAIN input.items :
         /\ msg.items[i].ref = input.items[i].ref
         /\ "name" \in msg.items[i].fields
    /\ input.kind \in {"evaluate", "exceptionInfo"} =>
         LET max == IF input.kind = "evaluate" THEN Limits.evaluate ELSE Limits.details
         IN IF Compressed THEN IsCutOf(msg.text, input.text, max) ELSE msg.text = input.text

\* The last good version of a message: capped, and compressed once if its compressor has
\* had its turn.
LastGood == LET capped == Cap(input, Limits)
            IN IF Compressed /\ input.kind # "other" THEN Compress(capped, Limits) ELSE capped

\* The proxy loses a message only when an interceptor asks for it, and then writes no raw
\* bytes in its place either.  What it writes, after a failure too, is the raw bytes or the
\* message as the interceptors before had left it, never half changed and never changed
\* twice.  The wrappers that measure, if there are any, count the failure, and each
\* interceptor once.
FailsOpen ==
  /\ sent = "nothing" => verdict = "none" \/ path # "proxy"
  /\ sent = "raw" => verdict # "none"
  /\ input.kind = "malformed" => sent \in {"pending", "raw"}
  /\ counts.failures = 1 <=> config.metrics /\ verdict = "failed"
  /\ config.metrics /\ path = "proxy" /\ ~Unprocessed =>
       counts.failures + counts.processed =
         Cardinality({k \in 1..(IF verdict = "ok" THEN next - 1 ELSE next) : RunsOn(Chain[k])})
  /\ Written => msg = LastGood

=============================================================================
