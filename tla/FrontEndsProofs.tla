--------------------------- MODULE FrontEndsProofs ---------------------------
(***************************************************************************)
(* Theorems about the front ends, for every choice of scenarios.            *)
(***************************************************************************)
EXTENDS ToolTableProofs, WellFoundedInduction

----------------------------------------------------------------------------
(* The inductive invariant. *)

AgentWorkers == Agents \X (1..MaxAsks)

\* The arguments that some call or plan gives, and those of an agent that shuts down.
CallsGive == {s.script[c].given : s \in Scenarios, c \in Calls}
PlanGives(p) == {p.ops[n].given : n \in 1..Len(p.ops)}
PlansGive == UNION {PlanGives(s.plan[a]) : s \in Scenarios, a \in Agents}
Given == CallsGive \cup PlansGive \cup {{"terminate_debuggee"}}

Callees == DOMAIN InvokeOps \cup {Method(t) : t \in Tools}
Loads == {Carried[t] \cap g : t \in Tools, g \in Given}
Shorteners == {Shortener[t] : t \in Tools} \cup {"none"}

JoinRequests == [kind : {"join"}, key : Keys, who : Agents, id : Nat]
CallRequests ==
  [kind : {"launch", "replace", "op"}, key : Keys, tool : Tools, given : Given, calls : Callees,
   with : Loads, compressor : Shorteners, who : Calls, id : Nat]
AgentRequests ==
  [kind : {"own", "op"}, key : Keys, on : Sessions \cup {None}, tool : Tools, given : Given,
   calls : Callees, with : Loads, compressor : Shorteners, who : Agents, id : Nat]
Requests == JoinRequests \cup CallRequests \cup AgentRequests

\* The requests a worker has before it.
Queued(w) == {inbox[w][n] : n \in 1..Len(inbox[w])}

\* A scenario is being played.
Chosen ==
    /\ mode \in {"in_process", "daemon"}
    /\ machine.env.PATH \in Seq(ToSet(machine.env.PATH)) /\ None \notin Runnable(machine)
    /\ \A c \in Calls : CallOk(script[c], machine) /\ script[c].given \in Given
    /\ \A a \in Agents :
         /\ PlanOk(plan[a]) /\ (mode = "in_process" => ~plan[a].via)
         /\ \A n \in 1..Len(plan[a].ops) : plan[a].ops[n].given \in Given

SessionTypes ==
    /\ daemon \in [up : BOOLEAN, born : 0..MaxDaemons]
    /\ pool \in [Keys -> Sessions \cup {None}]
    /\ poolLock \in Workers \cup {None}
    /\ sessLock \in [Sessions -> Workers \cup {None}]
    /\ spawned \in 0..MaxSpawns /\ exited \subseteq 1..spawned
    /\ \A k \in Keys : pool[k] # None => pool[k] \in 1..spawned
    /\ origin \in [Sessions -> [key : Keys \cup {None}, by : Callers \cup {None}]]
    /\ link \in [Workers -> 0..MaxDaemons]

Phases == {"idle", "evict", "spawn", "lookup", "lock", "run", "unpool", "release"}

WorkTypes ==
    /\ inbox \in [Workers -> Seq(Requests)]
    /\ phase \in [Workers -> Phases]
    /\ ref \in [Workers -> Sessions \cup {None}]
    /\ asks \in [Callers -> Nat]
    /\ answer \in [Callers -> {None, "waiting", "ok", "failed", "refused"}]
    /\ DOMAIN ran = Callers

CallTypes ==
    /\ pc \in [Calls -> {"idle", "connect", "spawn", "invoke", "spawning", "wait", "done", "refused"}]
    /\ DOMAIN target = Calls /\ clientLock \in Calls \cup {None}
    /\ last # None => PoolKey(last) \in Keys
    /\ \A c \in Calls : IF target[c] # None THEN PoolKey(target[c]) \in Keys
                         ELSE pc[c] \in {"idle", "done", "refused"}

Handles == [at : AgentWorkers, on : Sessions \cup {None}]

AgentTypes ==
    /\ step \in [Agents -> Nat \ {0}]
    /\ doing \in [Agents -> {"idle", "join", "op", "closing", "done"}]
    /\ made \in [Agents -> 0..MaxAsks]
    /\ handles \in [Agents -> [Names -> Handles \cup {None}]]

\* Which connections there are: none of a call's own, none beside an in-process
\* server, and none before it is made.
Linked ==
    /\ daemon.up => daemon.born > 0
    /\ \A w \in Workers : link[w] <= daemon.born
    /\ \A c \in Calls : link[c] = 0
    /\ mode = "in_process" => ~daemon.up /\ \A w \in Workers : link[w] = 0
    /\ mode = "in_process" => clientLock = None /\ \A c \in Calls : pc[c] \in {"idle", "wait", "done", "refused"}
    /\ mode = "daemon" => \A c \in Calls : /\ inbox[c] = <<>>
                                           /\ pc[c] \in {"spawn", "invoke", "spawning", "wait"} => link[Conn] # 0
    /\ link[Conn] = 0 => inbox[Conn] = <<>>
    /\ \A w \in AgentWorkers : w[2] > made[w[1]] => link[w] = 0 /\ inbox[w] = <<>>

\* A handle goes with its session or its connection.
HandleOk(a, n) ==
  handles[a][n] # None =>
    /\ handles[a][n].at[1] = a /\ handles[a][n].at[2] <= made[a]
    /\ plan[a].backends[n] # None
    /\ link[handles[a][n].at] = 0 => handles[a][n].on \in 1..spawned

Handled ==
    /\ \A a \in Agents, n \in Names : HandleOk(a, n)
    /\ \A a \in Agents : doing[a] = "join" =>
         /\ step[a] <= Len(plan[a].ops) /\ plan[a].backends[Op(a).name] # None
         /\ made[a] >= 1 /\ link[<<a, made[a]>>] # 0

\* What a call asks for is what its script says of the session it has resolved.
OfCall(r) ==
    /\ r \in CallRequests
    /\ target[r.who] # None /\ r.key = PoolKey(target[r.who])
    /\ r.tool = script[r.who].tool /\ r.given = script[r.who].given
    /\ pc[r.who] \in (IF r.kind = "replace" THEN {"spawning", "invoke", "wait", "done", "refused"}
                      ELSE {"wait", "done", "refused"})

\* Each worker is asked by the callers it serves, for what it can do.
Belongs(r, w) ==
    /\ w \in Calls => /\ OfCall(r) /\ r.who = w
                      /\ r.kind = (IF r.tool \in Starts THEN "launch" ELSE "op")
    /\ w = Conn => OfCall(r) /\ r.kind \in {"replace", "op"}
    /\ w \in AgentWorkers => /\ r \in JoinRequests \cup AgentRequests /\ r.who = w[1]
                             /\ (r.kind = "own") = (link[w] = 0)
                             /\ r.kind = "own" => r.on \in 1..spawned

Asked == \A w \in Workers : \A r \in Queued(w) : Belongs(r, w)

\* Where a worker is with the first of them.
AtWorkOk(w) ==
    /\ inbox[w] = <<>> => phase[w] = "idle"
    /\ phase[w] = "evict" => Job(w).kind \in {"launch", "replace"}
    /\ phase[w] = "spawn" => Job(w).kind \in {"launch", "replace", "join"}
    /\ phase[w] = "lookup" => Job(w).kind = "op"
    /\ phase[w] \in {"lock", "run", "unpool", "release"} => Job(w).kind \in {"launch", "op", "own"}
    /\ IF phase[w] \in {"lock", "run", "unpool", "release"} THEN ref[w] \in 1..spawned ELSE ref[w] = None

Working == \A w \in Workers : AtWorkOk(w)

\* A mutex is held by a worker that is at work on that session.
Locked ==
    \A i \in Sessions, w \in Workers : sessLock[i] = w =>
       /\ ref[w] = i /\ phase[w] \in {"run", "unpool", "release"}
       /\ phase[w] = "unpool" => link[w] # 0

\* One of the first i adapters was started for c.
Own(c, i) == \E j \in 1..i : origin[j].by = c

\* One was, and the key of its session names that one, a later one or none.
FreshKey(c) ==
    /\ Own(c, spawned)
    /\ LET k == PoolKey(target[c]) IN pool[k] # None => Own(c, pool[k])

Launching(c) == script[c].tool \in Starts

Fresh ==
    /\ \A w \in Workers : (phase[w] = "spawn" /\ Alive(w) /\ Job(w).kind # "join") =>
         poolLock = w /\ pool[Job(w).key] = None
    /\ \A c \in Calls : Launching(c) =>
         /\ (pc[c] = "invoke" \/ (pc[c] = "spawning" /\ answer[c] = "ok")) => FreshKey(c)
         /\ \A w \in Workers : \A r \in Queued(w) : (r.who = c /\ r.kind = "op") => FreshKey(c)
         /\ \A w \in Workers : (inbox[w] # <<>> /\ Job(w).who = c /\ ref[w] # None) => Own(c, ref[w])
         /\ ran[c] # None => Own(c, ran[c].on)
    /\ \A c \in Calls : ran[c] # None =>
         pc[c] # "idle" /\ ran[c].tool = script[c].tool /\ ran[c].on \in 1..spawned

\* A launch of the in-process server works, or has worked, on the adapter started for it.
Apart ==
    mode = "in_process" => \A c \in Calls : Launching(c) =>
       /\ ref[c] # None => origin[ref[c]].by = c
       /\ ran[c] # None => origin[ran[c].on].by = c

\* A key names an adapter started for it; so does a request, and a call has run on one.
Keyed ==
    /\ \A k \in Keys : pool[k] # None => origin[pool[k]].key = k
    /\ \A w \in Workers : (ref[w] # None /\ Job(w).kind # "own") => origin[ref[w]].key = Job(w).key
    /\ \A c \in Calls : ran[c] # None => origin[ran[c].on].key = PoolKey(target[c])

\* A request carries what its tool offers, to the method it names.
Carries(r, w) ==
    /\ r.with = Carried[r.tool] \cap r.given
    /\ IF link[w] = 0 THEN r.calls = Method(r.tool)
       ELSE /\ r.calls \in DOMAIN InvokeOps
            /\ InvokeOps[r.calls].method = Method(r.tool) /\ InvokeOps[r.calls].all = Carried[r.tool]
            /\ r.who \in Calls => InvokeOps[r.calls].must \subseteq r.with
    /\ r.compressor = IF r.who \in Calls \/ plan[r.who].compression THEN Shortener[r.tool] ELSE "none"

Faithful ==
    /\ \A w \in Workers : \A r \in Queued(w) : r.kind # "join" => Carries(r, w)
    /\ \A c \in Callers : ran[c] # None =>
         /\ ran[c].tool \in Tools /\ ran[c].method = Method(ran[c].tool)
         /\ ran[c].with = ran[c].given \cap Carried[ran[c].tool]
         /\ ran[c].compressor = IF c \in Calls \/ plan[c].compression THEN Shortener[ran[c].tool] ELSE "none"
    /\ \A c \in Calls :
         /\ answer[c] # "refused"
         /\ pc[c] \in {"connect", "spawn", "invoke", "spawning", "wait"} => Must(script[c].tool) \subseteq script[c].given
         /\ RefusedForAReason(c)
         /\ (Launching(c) /\ target[c] # None) => target[c] = <<Backend(c), script[c].cwd>> /\ Backend(c) # None

IInv ==
    /\ Chosen /\ SessionTypes /\ WorkTypes /\ CallTypes /\ AgentTypes
    /\ Linked /\ Handled /\ Asked /\ Working /\ Locked
    /\ Fresh /\ Apart /\ Keyed /\ Faithful
----------------------------------------------------------------------------
(* Workers and their queues. *)

\* A worker is a call, the connection of the MCP server, or one of an agent.
LEMMA WorkersApart ==
    /\ Workers = Calls \cup {Conn} \cup AgentWorkers
    /\ Conn \notin Calls /\ Conn \notin AgentWorkers /\ Calls \cap AgentWorkers = {}
    /\ Calls \cap Agents = {} /\ None \notin Workers /\ None \notin Sessions /\ None \notin Keys
    /\ MaxAsks \in Nat /\ MaxSpawns \in Nat /\ MaxDaemons \in Nat
    /\ \A w \in AgentWorkers : w[1] \in Agents /\ w[2] \in 1..MaxAsks /\ w = <<w[1], w[2]>>
  BY WorkerConstants DEF Workers, AgentWorkers

\* The first request is one of those queued.
LEMMA JobQueued ==
    ASSUME WorkTypes, NEW w \in Workers
    PROVE  /\ Queued(w) \subseteq Requests
           /\ inbox[w] # <<>> => Job(w) \in Queued(w)
<1>1. inbox[w] \in Seq(Requests)
  BY DEF WorkTypes
<1>2. inbox[w] # <<>> => Len(inbox[w]) \in Nat \ {0}
  BY <1>1
<1> QED
  BY <1>1, <1>2 DEF Queued, Job

\* An answer takes a request off the queue.
LEMMA Answered ==
    ASSUME WorkTypes, NEW w \in Workers, inbox[w] # <<>>, inbox' = [inbox EXCEPT ![w] = Tail(@)]
    PROVE  /\ inbox' \in [Workers -> Seq(Requests)]
           /\ \A v \in Workers : Queued(v)' \subseteq Queued(v)
           /\ \A v \in Workers : v # w => inbox'[v] = inbox[v]
<1>1. inbox \in [Workers -> Seq(Requests)] /\ inbox[w] \in Seq(Requests)
  BY DEF WorkTypes
<1>2. Tail(inbox[w]) \in Seq(Requests) /\ Len(Tail(inbox[w])) = Len(inbox[w]) - 1
      /\ \A n \in 1..Len(Tail(inbox[w])) : Tail(inbox[w])[n] = inbox[w][n + 1]
  BY <1>1
<1>3. Len(inbox[w]) \in Nat \ {0}
  BY <1>1
<1>4. Queued(w)' \subseteq Queued(w)
  <2>1. inbox'[w] = Tail(inbox[w])
    BY <1>1
  <2>2. ASSUME NEW n \in 1..Len(inbox'[w])
        PROVE  inbox'[w][n] \in Queued(w)
    <3>1. n \in 1..Len(Tail(inbox[w]))
      BY <2>1
    <3>2. inbox'[w][n] = inbox[w][n + 1]
      BY <1>2, <2>1, <3>1
    <3>3. n + 1 \in 1..Len(inbox[w])
      BY <1>2, <1>3, <3>1
    <3> QED
      BY <3>2, <3>3 DEF Queued
  <2> QED
    BY <2>2 DEF Queued
<1>5. \A v \in Workers : v # w => inbox'[v] = inbox[v]
  BY <1>1
<1> QED
  BY <1>1, <1>2, <1>4, <1>5 DEF Queued

\* A new request is the last of its queue.
LEMMA Appended ==
    ASSUME WorkTypes, NEW w \in Workers, NEW r \in Requests, inbox' = [inbox EXCEPT ![w] = Append(@, r)]
    PROVE  /\ inbox' \in [Workers -> Seq(Requests)]
           /\ \A v \in Workers : v # w => inbox'[v] = inbox[v] /\ Queued(v)' = Queued(v)
           /\ Queued(w)' = Queued(w) \cup {r}
           /\ inbox'[w] # <<>>
           /\ Job(w)' = IF inbox[w] = <<>> THEN r ELSE Job(w)
<1>1. inbox \in [Workers -> Seq(Requests)] /\ inbox[w] \in Seq(Requests)
  BY DEF WorkTypes
<1>2. inbox'[w] = Append(inbox[w], r) /\ \A v \in Workers : v # w => inbox'[v] = inbox[v]
  BY <1>1
<1>3. /\ Append(inbox[w], r) \in Seq(Requests) /\ Len(Append(inbox[w], r)) = Len(inbox[w]) + 1
      /\ Append(inbox[w], r)[Len(inbox[w]) + 1] = r
      /\ \A n \in 1..Len(inbox[w]) : Append(inbox[w], r)[n] = inbox[w][n]
      /\ Len(inbox[w]) \in Nat
  BY <1>1
<1>4. Queued(w)' = Queued(w) \cup {r}
  <2>1. ASSUME NEW n \in 1..Len(inbox'[w])
        PROVE  inbox'[w][n] \in Queued(w) \cup {r}
    BY <1>2, <1>3 DEF Queued
  <2>2. r \in Queued(w)'
    BY <1>2, <1>3 DEF Queued
  <2>3. ASSUME NEW n \in 1..Len(inbox[w])
        PROVE  inbox[w][n] \in Queued(w)'
    <3>1. n \in 1..Len(inbox'[w]) /\ inbox'[w][n] = inbox[w][n]
      BY <1>2, <1>3
    <3> QED
      BY <3>1 DEF Queued
  <2> QED
    BY <2>1, <2>2, <2>3 DEF Queued
<1>5. inbox'[w] # <<>> /\ Job(w)' = IF inbox[w] = <<>> THEN r ELSE Job(w)
  BY <1>1, <1>2, <1>3 DEF Job
<1> QED
  BY <1>1, <1>2, <1>3, <1>4, <1>5 DEF Queued

\* What every request has.
LEMMA JobOk ==
    ASSUME WorkTypes, Asked, NEW w \in Workers, inbox[w] # <<>>
    PROVE  /\ Job(w) \in Requests /\ Job(w).key \in Keys /\ Job(w).who \in Callers
           /\ Job(w).kind \in {"launch", "replace", "op", "own", "join"}
           /\ Belongs(Job(w), w)
  BY JobQueued DEF Asked, Requests, JoinRequests, CallRequests, AgentRequests, Callers

WorkerStep(w) == (Waits(w) \/ Works(w)) /\ UNCHANGED <<callVars, agentVars>>

\* What a worker's step leaves alone.
Frame(w) ==
    /\ UNCHANGED <<mode, machine, daemon, link, asks, callVars, agentVars>>
    /\ spawned' \in 0..MaxSpawns /\ spawned <= spawned'
    /\ inbox' \in [Workers -> Seq(Requests)]
    /\ \A v \in Workers : Queued(v)' \subseteq Queued(v)
    /\ \A v \in Workers : v # w => inbox'[v] = inbox[v] /\ phase'[v] = phase[v] /\ ref'[v] = ref[v]
    /\ DOMAIN ran' = Callers

\* A session is unlocked, and nothing else.
LEMMA UnlockedTypes ==
    ASSUME SessionTypes, NEW w
    PROVE  Unlocked(w) \in [Sessions -> Workers \cup {None}]
  BY DEF SessionTypes, Unlocked

\* A lookup may reap a dead session.
LEMMA ReapTypes ==
    ASSUME SessionTypes, NEW k \in Keys
    PROVE  /\ ReapIfDead(k) \in [Keys -> Sessions \cup {None}]
           /\ \A j \in Keys : ReapIfDead(k)[j] # None => ReapIfDead(k)[j] = pool[j]
           /\ \A j \in Keys : j # k => ReapIfDead(k)[j] = pool[j]
           /\ ReapIfDead(k)[k] # None => ReapIfDead(k) = pool
           /\ ReapIfDead(k)[k] = None => pool[k] = None \/ sessLock[pool[k]] = None
  BY DEF SessionTypes, ReapIfDead

\* Whatever a worker does, its variables and those of the sessions keep their types.
LEMMA WorkerTypes ==
    ASSUME SessionTypes, WorkTypes, Asked, Working, NEW w \in Workers, WorkerStep(w)
    PROVE  SessionTypes' /\ WorkTypes' /\ Frame(w)
<1> USE WorkersApart
<1>1. phase[w] # "idle" => inbox[w] # <<>>
  BY DEF Working, AtWorkOk
<1>2. inbox[w] # <<>> => /\ Job(w) \in Requests /\ Job(w).key \in Keys /\ Job(w).who \in Callers
                         /\ Job(w).kind \in {"launch", "replace", "op", "own", "join"} /\ Belongs(Job(w), w)
  BY JobOk
<1>3. /\ Unlocked(w) \in [Sessions -> Workers \cup {None}]
      /\ sessLock' = Unlocked(w) => sessLock' \in [Sessions -> Workers \cup {None}]
  BY UnlockedTypes
<1>4. UNCHANGED <<callVars, agentVars>>
  BY DEF WorkerStep
<1>5. ASSUME UNCHANGED <<daemon, pool, poolLock, spawned, origin, exited, link>>,
             sessLock' \in [Sessions -> Workers \cup {None}]
      PROVE  SessionTypes'
  BY <1>5 DEF SessionTypes
<1>6. ASSUME UNCHANGED <<mode, machine, daemon, link, asks>>, spawned' \in 0..MaxSpawns, spawned <= spawned',
             DOMAIN ran' = Callers, inbox[w] # <<>>, NEW result \in {"ok", "failed", "refused"}, Finish(w, result)
      PROVE  WorkTypes' /\ Frame(w)
  <2>1. /\ inbox' \in [Workers -> Seq(Requests)]
        /\ \A v \in Workers : Queued(v)' \subseteq Queued(v)
        /\ \A v \in Workers : v # w => inbox'[v] = inbox[v]
    <3>1. inbox' = [inbox EXCEPT ![w] = Tail(@)]
      BY <1>6 DEF Finish
    <3> QED
      BY <1>6, <3>1, Answered
  <2>2. WorkTypes'
    BY <1>2, <1>6, <2>1 DEF WorkTypes, Finish, Phases
  <2>3. \A v \in Workers : v # w => phase'[v] = phase[v] /\ ref'[v] = ref[v]
    BY <1>6 DEF WorkTypes, Finish
  <2> QED
    BY <1>4, <1>6, <2>1, <2>2, <2>3 DEF Frame
<1>7. ASSUME UNCHANGED <<mode, machine, daemon, link, asks, ran>>, spawned' \in 0..MaxSpawns, spawned <= spawned',
             NEW p \in Phases, Goto(w, p), NEW i \in Sessions \cup {None}, ref' = [ref EXCEPT ![w] = i]
      PROVE  WorkTypes' /\ Frame(w)
  <2>1. inbox' = inbox /\ answer' = answer /\ phase' = [phase EXCEPT ![w] = p]
    BY <1>7 DEF Goto
  <2>2. \A v \in Workers : Queued(v)' = Queued(v)
    BY <2>1 DEF Queued
  <2> QED
    BY <1>4, <1>7, <2>1, <2>2 DEF WorkTypes, Frame
<1>8. ASSUME UNCHANGED <<mode, machine, daemon, link, asks>>, spawned' \in 0..MaxSpawns, spawned <= spawned',
             NEW p \in Phases, Goto(w, p), ref' = ref, DOMAIN ran' = Callers
      PROVE  WorkTypes' /\ Frame(w)
  <2>1. inbox' = inbox /\ answer' = answer /\ phase' = [phase EXCEPT ![w] = p]
    BY <1>8 DEF Goto
  <2>2. \A v \in Workers : Queued(v)' = Queued(v)
    BY <2>1 DEF Queued
  <2> QED
    BY <1>4, <1>8, <2>1, <2>2 DEF WorkTypes, Frame
<1>9. spawned \in 0..MaxSpawns /\ DOMAIN ran = Callers
  BY DEF SessionTypes, WorkTypes
<1>10. CASE TakeUp(w)
  <2>1. UNCHANGED <<mode, machine, daemon, pool, poolLock, sessLock, spawned, origin, exited, link, asks, ran>>
    BY <1>10 DEF TakeUp, sessionVars
  <2>2. SessionTypes'
    BY <1>5, <2>1 DEF SessionTypes
  <2>3. inbox[w] # <<>>
    BY <1>10 DEF TakeUp
  <2>4. PICK p \in Phases : Goto(w, p)
    BY <1>10 DEF TakeUp, Phases
  <2>5. PICK i \in Sessions \cup {None} : ref' = [ref EXCEPT ![w] = i]
    <3>1. CASE Job(w).kind = "own"
      <4>1. Job(w).on \in Sessions
        BY <1>2, <1>9, <2>3, <3>1 DEF Belongs, OfCall, CallRequests, Sessions
      <4> QED
        BY <1>10, <3>1, <4>1 DEF TakeUp
    <3>2. CASE Job(w).kind # "own"
      BY <1>10, <3>2 DEF TakeUp
    <3> QED
      BY <3>1, <3>2
  <2>6. spawned' \in 0..MaxSpawns /\ spawned <= spawned'
    BY <1>9, <2>1
  <2>7. UNCHANGED <<mode, machine, daemon, link, asks, ran>>
    BY <2>1
  <2> QED
    BY <1>7, <2>2, <2>4, <2>5, <2>6, <2>7
<1>11. CASE Evict(w)
  <2>1. UNCHANGED <<mode, machine, daemon, sessLock, spawned, origin, exited, link, asks, ran, ref>> /\ Goto(w, "spawn")
    BY <1>11 DEF Evict
  <2>2. inbox[w] # <<>> /\ poolLock' = w /\ pool' = [pool EXCEPT ![Job(w).key] = None]
    BY <1>1, <1>11 DEF Evict, At
  <2>3. SessionTypes'
    BY <1>2, <2>1, <2>2 DEF SessionTypes
  <2> QED
    BY <1>8, <1>9, <2>1, <2>3 DEF Phases
<1>12. CASE GetOrSpawn(w)
  <2>1. UNCHANGED <<mode, machine, daemon, sessLock, exited, link, asks, ran>> /\ poolLock' = None
    BY <1>12 DEF GetOrSpawn
  <2>2. inbox[w] # <<>>
    BY <1>1, <1>12 DEF GetOrSpawn, At
  <2> DEFINE q == ReapIfDead(Job(w).key)
             k == Job(w).key
  <2>3. k \in Keys /\ q \in [Keys -> Sessions \cup {None}]
        /\ \A j \in Keys : q[j] # None => q[j] = pool[j]
    BY <1>2, <2>2, ReapTypes
  <2> DEFINE Origins == [Sessions -> [key : Keys \cup {None}, by : Callers \cup {None}]]
  <2>4. PICK i \in Sessions : /\ Got(w, i) /\ spawned' \in 0..MaxSpawns /\ spawned <= spawned' /\ i <= spawned'
                              /\ pool' = [q EXCEPT ![k] = i] \/ pool' = q
                              /\ origin' \in Origins
    <3>1. CASE q[k] # None /\ pool' = q /\ Got(w, q[k]) /\ UNCHANGED <<spawned, origin>>
      <4>1. q[k] \in Sessions /\ q[k] <= spawned
        BY <2>3, <3>1, <1>9 DEF SessionTypes
      <4> QED
        BY <1>9, <3>1, <4>1 DEF SessionTypes
    <3>2. CASE /\ spawned < MaxSpawns /\ spawned' = spawned + 1 /\ pool' = [q EXCEPT ![k] = spawned + 1]
               /\ Got(w, spawned + 1) /\ Originates(spawned + 1, k, Job(w).who)
      <4>1. origin' \in Origins
        BY <1>2, <2>2, <3>2 DEF Originates, SessionTypes
      <4>2. spawned + 1 \in Sessions /\ spawned' \in 0..MaxSpawns /\ spawned <= spawned' /\ spawned + 1 <= spawned'
        BY <1>9, <3>2 DEF Sessions
      <4>3. pool' = [q EXCEPT ![k] = spawned + 1] /\ Got(w, spawned + 1)
        BY <3>2
      <4> HIDE DEF q, k, Origins
      <4> QED
        BY <4>1, <4>2, <4>3
    <3> QED
      BY <1>12, <3>1, <3>2 DEF GetOrSpawn
  <2>5. SessionTypes'
    <3>1. pool' \in [Keys -> Sessions \cup {None}] /\ \A j \in Keys : pool'[j] # None => pool'[j] \in 1..spawned'
      <4> HIDE DEF q, k
      <4>1. \A j \in Keys : q[j] # None => q[j] \in 1..spawned'
        BY <1>9, <2>3, <2>4 DEF SessionTypes
      <4>2. spawned' \in Nat /\ i \in 1..spawned'
        BY <2>4 DEF Sessions
      <4>3. CASE pool' = q
        BY <2>3, <4>1, <4>3
      <4>4. CASE pool' = [q EXCEPT ![k] = i]
        BY <2>3, <2>4, <4>1, <4>2, <4>4
      <4> QED
        BY <2>4, <4>3, <4>4
    <3>2. exited' \subseteq 1..spawned'
      BY <1>9, <2>1, <2>4 DEF SessionTypes
    <3> QED
      BY <2>1, <2>4, <3>1, <3>2 DEF SessionTypes
  <2>6. WorkTypes' /\ Frame(w)
    <3>1. CASE Goto(w, "lock") /\ ref' = [ref EXCEPT ![w] = i]
      <4>1. UNCHANGED <<mode, machine, daemon, link, asks, ran>> /\ "lock" \in Phases /\ i \in Sessions \cup {None}
        BY <2>1 DEF Phases
      <4> QED
        BY <1>7, <2>4, <3>1, <4>1
    <3>2. CASE Finish(w, "ok")
      <4>1. DOMAIN ran' = Callers
        BY <1>9, <2>1
      <4> QED
        BY <1>6, <2>1, <2>2, <2>4, <3>2, <4>1
    <3> QED
      BY <2>4, <3>1, <3>2 DEF Got
  <2> QED
    BY <2>5, <2>6
<1>13. CASE SpawnFails(w)
  <2>1. UNCHANGED <<mode, machine, daemon, sessLock, spawned, origin, exited, link, asks, ran>> /\ Finish(w, "failed")
        /\ poolLock' = None /\ pool' = ReapIfDead(Job(w).key) /\ inbox[w] # <<>>
    BY <1>1, <1>13 DEF SpawnFails, At
  <2>2. SessionTypes'
    BY <1>2, <2>1, ReapTypes DEF SessionTypes
  <2> QED
    BY <1>6, <1>9, <2>1, <2>2
<1>14. CASE Lookup(w)
  <2>1. UNCHANGED <<mode, machine, daemon, poolLock, sessLock, spawned, origin, exited, link, asks, ran>>
        /\ pool' = ReapIfDead(Job(w).key) /\ inbox[w] # <<>>
    BY <1>1, <1>14 DEF Lookup, At
  <2>2. SessionTypes'
    BY <1>2, <2>1, ReapTypes DEF SessionTypes
  <2>3. CASE Finish(w, "failed")
    BY <1>6, <1>9, <2>1, <2>2, <2>3
  <2>4. CASE pool'[Job(w).key] # None /\ Goto(w, "lock") /\ ref' = [ref EXCEPT ![w] = pool'[Job(w).key]]
    <3>1. PICK i \in Sessions \cup {None} : Goto(w, "lock") /\ ref' = [ref EXCEPT ![w] = i]
      BY <1>2, <2>1, <2>2, <2>4 DEF SessionTypes
    <3>2. UNCHANGED <<mode, machine, daemon, link, asks, ran>> /\ "lock" \in Phases
          /\ spawned' \in 0..MaxSpawns /\ spawned <= spawned'
      BY <1>9, <2>1 DEF Phases
    <3> QED
      BY <1>7, <2>2, <3>1, <3>2
  <2> QED
    BY <1>14, <2>3, <2>4 DEF Lookup
<1>15. CASE LockSession(w)
  <2>1. UNCHANGED <<mode, machine, daemon, pool, poolLock, spawned, origin, exited, link, ref, asks, ran>> /\ Goto(w, "run")
        /\ sessLock' = [sessLock EXCEPT ![ref[w]] = w]
    BY <1>15 DEF LockSession
  <2>2. SessionTypes'
    BY <1>5, <2>1 DEF SessionTypes
  <2> QED
    BY <1>8, <1>9, <2>1, <2>2 DEF Phases
<1>16. CASE Refuse(w)
  <2>1. UNCHANGED <<mode, machine, daemon, pool, poolLock, spawned, origin, exited, link, asks, ran>> /\ Finish(w, "refused")
        /\ sessLock' = Unlocked(w) /\ inbox[w] # <<>>
    BY <1>1, <1>16 DEF Refuse, At
  <2> QED
    BY <1>3, <1>5, <1>6, <1>9, <2>1
<1>17. CASE Run(w)
  <2>1. UNCHANGED <<mode, machine, daemon, pool, poolLock, spawned, origin, exited, link, asks>>
        /\ ran' = [ran EXCEPT ![Job(w).who] = Operation(w)] /\ inbox[w] # <<>>
    BY <1>1, <1>17 DEF Run, At
  <2>2. DOMAIN ran' = Callers
    BY <1>9, <2>1
  <2>3. CASE sessLock' = Unlocked(w) /\ Finish(w, "ok")
    BY <1>3, <1>5, <1>6, <1>9, <2>1, <2>2, <2>3
  <2>4. CASE sessLock' = (IF link[w] = 0 THEN Unlocked(w) ELSE sessLock) /\ Goto(w, "unpool") /\ UNCHANGED ref
    <3>1. sessLock' \in [Sessions -> Workers \cup {None}]
      BY <1>3, <2>4 DEF SessionTypes
    <3> QED
      BY <1>5, <1>8, <1>9, <2>1, <2>2, <2>4, <3>1 DEF Phases
  <2> QED
    BY <1>17, <2>3, <2>4 DEF Run
<1>18. CASE RunFails(w)
  <2>1. UNCHANGED <<mode, machine, daemon, pool, poolLock, spawned, origin, exited, link, asks>>
        /\ ran' = [ran EXCEPT ![Job(w).who] = Operation(w)] /\ sessLock' = Unlocked(w) /\ Finish(w, "failed")
        /\ inbox[w] # <<>>
    BY <1>1, <1>18 DEF RunFails, At
  <2>2. DOMAIN ran' = Callers
    BY <1>9, <2>1
  <2> QED
    BY <1>3, <1>5, <1>6, <1>9, <2>1, <2>2
<1>19. CASE Unpool(w)
  <2>1. UNCHANGED <<mode, machine, daemon, poolLock, sessLock, spawned, origin, exited, link, asks, ran>>
        /\ pool' = [pool EXCEPT ![Job(w).key] = None] /\ inbox[w] # <<>>
    BY <1>1, <1>19 DEF Unpool, At
  <2>2. SessionTypes'
    BY <1>2, <2>1 DEF SessionTypes
  <2>3. CASE Finish(w, "ok")
    BY <1>6, <1>9, <2>1, <2>2, <2>3
  <2>4. CASE Goto(w, "release") /\ UNCHANGED ref
    BY <1>8, <1>9, <2>1, <2>2, <2>4 DEF Phases
  <2> QED
    BY <1>19, <2>3, <2>4 DEF Unpool
<1>20. CASE Release(w)
  <2>1. UNCHANGED <<mode, machine, daemon, pool, poolLock, spawned, origin, exited, link, asks, ran>> /\ Finish(w, "ok")
        /\ sessLock' = Unlocked(w) /\ inbox[w] # <<>>
    BY <1>1, <1>20 DEF Release, At
  <2> QED
    BY <1>3, <1>5, <1>6, <1>9, <2>1
<1>21. CASE Abort(w)
  <2>1. UNCHANGED <<mode, machine, daemon, pool, poolLock, spawned, origin, exited, link, asks, ran, answer>>
        /\ sessLock' = Unlocked(w) /\ inbox' = [inbox EXCEPT ![w] = <<>>]
        /\ phase' = [phase EXCEPT ![w] = "idle"] /\ ref' = [ref EXCEPT ![w] = None]
    BY <1>21 DEF Abort, replyVars
  <2>2. inbox' \in [Workers -> Seq(Requests)]
    BY <2>1 DEF WorkTypes
  <2>3. \A v \in Workers : Queued(v)' \subseteq Queued(v)
    <3>1. Queued(w)' = {}
      BY <2>1 DEF WorkTypes, Queued
    <3>2. \A v \in Workers : v # w => Queued(v)' = Queued(v)
      BY <2>1 DEF WorkTypes, Queued
    <3> QED
      BY <3>1, <3>2
  <2>4. SessionTypes'
    BY <1>3, <1>5, <2>1
  <2> QED
    BY <1>4, <1>9, <2>1, <2>2, <2>3, <2>4 DEF WorkTypes, Frame, Phases
<1> QED
  BY <1>10, <1>11, <1>12, <1>13, <1>14, <1>15, <1>16, <1>17, <1>18, <1>19, <1>20, <1>21 DEF WorkerStep, Waits, Works

\* No request is queued where there is none.
LEMMA Emptied ==
    ASSUME WorkTypes, NEW w \in Workers
    PROVE  inbox[w] = <<>> <=> Queued(w) = {}
<1>1. inbox[w] \in Seq(Requests)
  BY DEF WorkTypes
<1>2. CASE inbox[w] = <<>>
  BY <1>2 DEF Queued
<1>3. CASE inbox[w] # <<>>
  <2>1. 1 \in 1..Len(inbox[w])
    BY <1>1, <1>3
  <2> QED
    BY <1>3, <2>1 DEF Queued
<1> QED
  BY <1>2, <1>3

\* The callers go by what a worker leaves alone.
LEMMA WorkerRest ==
    ASSUME Chosen, SessionTypes, WorkTypes, CallTypes, AgentTypes, Linked, Handled, Asked,
           NEW w \in Workers, Frame(w), WorkTypes'
    PROVE  Chosen' /\ CallTypes' /\ AgentTypes' /\ Linked' /\ Handled' /\ Asked'
<1> USE WorkersApart
<1>1. UNCHANGED <<mode, machine, daemon, link, script, pc, target, last, clientLock>>
      /\ UNCHANGED <<plan, step, doing, made, handles>>
  BY DEF Frame, callVars, agentVars
<1>2. \A v \in Workers : inbox[v] = <<>> => inbox'[v] = <<>>
  <2> SUFFICES ASSUME NEW v \in Workers, inbox[v] = <<>>
               PROVE  inbox'[v] = <<>>
    OBVIOUS
  <2>1. Queued(v)' = {}
    BY Emptied DEF Frame
  <2>2. inbox'[v] \in Seq(Requests)
    BY DEF WorkTypes
  <2>3. inbox'[v] # <<>> => 1 \in 1..Len(inbox'[v])
    BY <2>2
  <2>4. inbox'[v] # <<>> => inbox'[v][1] \in Queued(v)'
    BY <2>3 DEF Queued
  <2> QED
    BY <2>1, <2>4
<1>3. Chosen'
  BY <1>1 DEF Chosen
<1>4. CallTypes' /\ AgentTypes'
  BY <1>1 DEF CallTypes, AgentTypes
<1>5. Linked'
  BY <1>1, <1>2 DEF Linked
<1>6. Handled'
  <2>1. spawned \in Nat /\ spawned' \in Nat /\ spawned <= spawned'
    BY DEF SessionTypes, Frame
  <2>2. ASSUME NEW a \in Agents, NEW n \in Names
        PROVE  HandleOk(a, n)'
    BY <1>1, <2>1 DEF Handled, HandleOk
  <2> QED
    BY <1>1, <2>2 DEF Handled, Op
<1>7. Asked'
  <2> SUFFICES ASSUME NEW v \in Workers, NEW r \in Queued(v)'
               PROVE  Belongs(r, v)'
    BY DEF Asked
  <2>1. Belongs(r, v)
    BY DEF Asked, Frame
  <2>2. spawned \in Nat /\ spawned' \in Nat /\ spawned <= spawned'
    BY DEF SessionTypes, Frame
  <2>3. OfCall(r) => OfCall(r)'
    BY <1>1 DEF OfCall
  <2> QED
    BY <1>1, <2>1, <2>2, <2>3 DEF Belongs
<1> QED
  BY <1>3, <1>4, <1>5, <1>6, <1>7

\* A worker that is done with a request, or goes on with it.
LEMMA WorkerPlaces ==
    ASSUME SessionTypes, WorkTypes, Asked, Working, Locked, NEW w \in Workers, WorkerStep(w),
           SessionTypes', WorkTypes', Frame(w)
    PROVE  Working' /\ Locked'
<1> USE WorkersApart
<1>1. phase[w] # "idle" => inbox[w] # <<>>
  BY DEF Working, AtWorkOk
<1>2. inbox[w] # <<>> => /\ Job(w).key \in Keys /\ Job(w).who \in Callers
                         /\ Job(w).kind \in {"launch", "replace", "op", "own", "join"} /\ Belongs(Job(w), w)
  BY JobOk
<1>3. spawned \in Nat /\ spawned' \in Nat /\ spawned <= spawned' /\ link' = link
  BY DEF SessionTypes, Frame
<1>4. ASSUME AtWorkOk(w)',
             \A i \in Sessions : sessLock'[i] # sessLock[i] => sessLock'[i] \in {None, w},
             \A i \in Sessions : sessLock'[i] = w => /\ ref'[w] = i /\ phase'[w] \in {"run", "unpool", "release"}
                                                     /\ phase'[w] = "unpool" => link[w] # 0
      PROVE  Working' /\ Locked'
  <2>1. ASSUME NEW v \in Workers, v # w
        PROVE  AtWorkOk(v)'
    <3>1. inbox'[v] = inbox[v] /\ phase'[v] = phase[v] /\ ref'[v] = ref[v]
      BY <2>1 DEF Frame
    <3> QED
      BY <1>3, <3>1, <2>1 DEF Working, AtWorkOk, Job
  <2>2. ASSUME NEW i \in Sessions, NEW v \in Workers, sessLock'[i] = v, v # w
        PROVE  ref'[v] = i /\ phase'[v] \in {"run", "unpool", "release"} /\ (phase'[v] = "unpool" => link'[v] # 0)
    <3>1. sessLock[i] = v
      BY <1>4, <2>2
    <3> QED
      BY <1>3, <2>2, <3>1 DEF Frame, Locked
  <2> QED
    BY <1>3, <1>4, <2>1, <2>2 DEF Working, Locked
<1>5. ASSUME NEW result, Finish(w, result), \A i \in Sessions : sessLock'[i] # sessLock[i] => sessLock'[i] = None,
             \A i \in Sessions : sessLock'[i] # w
      PROVE  Working' /\ Locked'
  <2>1. phase'[w] = "idle" /\ ref'[w] = None
    BY <1>5 DEF Finish, WorkTypes
  <2>2. AtWorkOk(w)'
    BY <2>1 DEF AtWorkOk
  <2> QED
    BY <1>4, <1>5, <2>2
<1>6. \A i \in Sessions : Unlocked(w)[i] # w /\ (Unlocked(w)[i] # sessLock[i] => Unlocked(w)[i] = None)
  BY DEF Unlocked
<1>7. ASSUME phase[w] \notin {"run", "unpool", "release"} \/ (phase[w] = "unpool" /\ link[w] = 0)
      PROVE  \A i \in Sessions : sessLock[i] # w
  BY <1>7 DEF Locked
<1>8. ASSUME NEW p, Goto(w, p)
      PROVE  inbox' = inbox /\ Job(w)' = Job(w) /\ phase'[w] = p
  BY <1>8 DEF Goto, Job, WorkTypes
<1>9. AtWorkOk(w)
  BY DEF Working
<1>10. CASE TakeUp(w)
  <2>1. sessLock' = sessLock /\ \A i \in Sessions : sessLock[i] # w
    BY <1>7, <1>10 DEF TakeUp, At, sessionVars
  <2>2. inbox[w] # <<>> /\ ref'[w] = (IF Job(w).kind = "own" THEN Job(w).on ELSE None)
    BY <1>10 DEF TakeUp, WorkTypes
  <2>3. CASE Job(w).kind \in {"launch", "replace"}
    <3>1. Goto(w, "evict")
      BY <1>10, <2>3 DEF TakeUp
    <3> QED
      BY <1>4, <1>8, <2>1, <2>2, <2>3, <3>1 DEF AtWorkOk
  <2>4. CASE Job(w).kind = "join"
    <3>1. Goto(w, "spawn")
      BY <1>10, <2>4 DEF TakeUp
    <3> QED
      BY <1>4, <1>8, <2>1, <2>2, <2>4, <3>1 DEF AtWorkOk
  <2>5. CASE Job(w).kind = "own"
    <3>1. Goto(w, "run")
      BY <1>10, <2>5 DEF TakeUp
    <3>2. Job(w).on \in 1..spawned'
      <4>1. Job(w).on \in 1..spawned
        BY <1>2, <2>2, <2>5 DEF Belongs, OfCall
      <4> QED
        BY <1>3, <4>1
    <3> QED
      BY <1>4, <1>8, <2>1, <2>2, <2>5, <3>1, <3>2 DEF AtWorkOk
  <2>6. CASE Job(w).kind = "op"
    <3>1. Goto(w, "lookup")
      BY <1>10, <2>6 DEF TakeUp
    <3> QED
      BY <1>4, <1>8, <2>1, <2>2, <2>6, <3>1 DEF AtWorkOk
  <2> QED
    BY <1>2, <2>2, <2>3, <2>4, <2>5, <2>6
<1>11. CASE Evict(w)
  <2>1. sessLock' = sessLock /\ phase[w] = "evict" /\ Goto(w, "spawn") /\ ref' = ref
    BY <1>11 DEF Evict, At
  <2>2. AtWorkOk(w)'
    BY <1>8, <1>9, <2>1 DEF AtWorkOk
  <2> QED
    BY <1>4, <1>7, <2>1, <2>2
<1>12. CASE GetOrSpawn(w)
  <2>1. sessLock' = sessLock /\ phase[w] = "spawn" /\ \A i \in Sessions : sessLock'[i] # w
    BY <1>7, <1>12 DEF GetOrSpawn, At
  <2>2. CASE Finish(w, "ok")
    BY <1>5, <2>1, <2>2
  <2>3. CASE \E i \in 1..spawned' : Job(w).kind = "launch" /\ Goto(w, "lock") /\ ref' = [ref EXCEPT ![w] = i]
    <3>1. ref'[w] \in 1..spawned'
      BY <2>3 DEF WorkTypes
    <3>2. AtWorkOk(w)'
      BY <1>1, <1>8, <2>1, <2>3, <3>1 DEF AtWorkOk
    <3> QED
      BY <1>4, <2>1, <3>2
  <2>4. \E i \in 1..spawned' : Got(w, i)
    <3> DEFINE q == ReapIfDead(Job(w).key)
               k == Job(w).key
    <3>1. k \in Keys
      BY <1>1, <1>2, <2>1
    <3>2. CASE q[k] # None /\ Got(w, q[k])
      <4>1. q[k] = pool[k] /\ pool[k] \in 1..spawned
        BY <3>1, <3>2, ReapTypes DEF SessionTypes
      <4> QED
        BY <1>3, <3>2, <4>1
    <3>3. CASE spawned' = spawned + 1 /\ Got(w, spawned + 1)
      BY <1>3, <3>3
    <3> QED
      BY <1>12, <3>2, <3>3 DEF GetOrSpawn
  <2> QED
    BY <2>2, <2>3, <2>4 DEF Got
<1>13. CASE SpawnFails(w)
  BY <1>5, <1>7, <1>13 DEF SpawnFails, At
<1>14. CASE Lookup(w)
  <2>1. sessLock' = sessLock /\ phase[w] = "lookup" /\ \A i \in Sessions : sessLock'[i] # w
    BY <1>7, <1>14 DEF Lookup, At
  <2>2. CASE Finish(w, "failed")
    BY <1>5, <2>1, <2>2
  <2>3. CASE pool'[Job(w).key] # None /\ Goto(w, "lock") /\ ref' = [ref EXCEPT ![w] = pool'[Job(w).key]]
    <3>1. pool'[Job(w).key] \in 1..spawned'
      BY <1>1, <1>2, <2>1, <2>3 DEF SessionTypes
    <3>2. ref'[w] \in 1..spawned'
      BY <2>3, <3>1 DEF WorkTypes
    <3>3. AtWorkOk(w)'
      BY <1>1, <1>8, <1>9, <2>1, <2>3, <3>2 DEF AtWorkOk
    <3> QED
      BY <1>4, <2>1, <3>3
  <2> QED
    BY <1>14, <2>2, <2>3 DEF Lookup
<1>15. CASE LockSession(w)
  <2>1. sessLock' = [sessLock EXCEPT ![ref[w]] = w] /\ phase[w] = "lock" /\ Goto(w, "run") /\ ref' = ref
    BY <1>15 DEF LockSession, At
  <2>2. \A i \in Sessions : sessLock[i] # w
    BY <1>7, <2>1
  <2>3. \A i \in Sessions : sessLock'[i] = (IF i = ref[w] THEN w ELSE sessLock[i])
    BY <2>1 DEF SessionTypes
  <2>4. phase'[w] = "run"
    BY <1>8, <2>1
  <2>5. AtWorkOk(w)'
    BY <1>3, <1>8, <1>9, <2>1 DEF AtWorkOk
  <2> QED
    BY <1>4, <2>1, <2>2, <2>3, <2>4, <2>5
<1>16. CASE Refuse(w)
  BY <1>5, <1>6, <1>16 DEF Refuse
<1>17. CASE Run(w)
  <2>1. CASE sessLock' = Unlocked(w) /\ Finish(w, "ok")
    BY <1>5, <1>6, <2>1
  <2>2. CASE sessLock' = (IF link[w] = 0 THEN Unlocked(w) ELSE sessLock) /\ Goto(w, "unpool") /\ UNCHANGED ref
    <3>1. phase[w] = "run"
      BY <1>17 DEF Run, At
    <3>2. AtWorkOk(w)'
      BY <1>1, <1>3, <1>8, <1>9, <2>2, <3>1 DEF AtWorkOk
    <3>3. \A i \in Sessions : sessLock'[i] # sessLock[i] => sessLock'[i] \in {None, w}
      BY <1>6, <2>2
    <3>4. ASSUME NEW i \in Sessions, sessLock'[i] = w
          PROVE  ref'[w] = i /\ phase'[w] \in {"run", "unpool", "release"} /\ (phase'[w] = "unpool" => link[w] # 0)
      <4>1. link[w] # 0 /\ sessLock' = sessLock
        BY <1>6, <2>2, <3>4
      <4> QED
        BY <1>8, <2>2, <3>4, <4>1 DEF Locked
    <3> QED
      BY <1>4, <3>2, <3>3, <3>4
  <2> QED
    BY <1>17, <2>1, <2>2 DEF Run
<1>18. CASE RunFails(w)
  BY <1>5, <1>6, <1>18 DEF RunFails
<1>19. CASE Unpool(w)
  <2>1. sessLock' = sessLock /\ phase[w] = "unpool"
    BY <1>19 DEF Unpool, At
  <2>2. CASE link[w] = 0 /\ Finish(w, "ok")
    BY <1>5, <1>7, <2>1, <2>2
  <2>3. CASE link[w] # 0 /\ Goto(w, "release") /\ UNCHANGED ref
    <3>1. AtWorkOk(w)'
      BY <1>1, <1>3, <1>8, <1>9, <2>1, <2>3 DEF AtWorkOk
    <3>2. \A i \in Sessions : sessLock'[i] = w => ref'[w] = i /\ phase'[w] = "release"
      BY <1>8, <2>1, <2>3 DEF Locked
    <3> QED
      BY <1>4, <2>1, <3>1, <3>2
  <2> QED
    BY <1>19, <2>2, <2>3 DEF Unpool
<1>20. CASE Release(w)
  BY <1>5, <1>6, <1>20 DEF Release
<1>21. CASE Abort(w)
  <2>1. sessLock' = Unlocked(w) /\ phase'[w] = "idle" /\ ref'[w] = None
    BY <1>21 DEF Abort, WorkTypes
  <2>2. AtWorkOk(w)'
    BY <2>1 DEF AtWorkOk
  <2> QED
    BY <1>4, <1>6, <2>1, <2>2
<1> QED
  BY <1>10, <1>11, <1>12, <1>13, <1>14, <1>15, <1>16, <1>17, <1>18, <1>19, <1>20, <1>21 DEF WorkerStep, Waits, Works

\* What a worker's step changes in the pool, in the answers and in what it holds.
Effects(w) ==
    /\ \A v \in Workers : (v # w /\ poolLock = v) => pool' = pool /\ poolLock' = poolLock
    /\ \A k \in Keys : pool'[k] \in {None, pool[k], spawned + 1}
    /\ phase'[w] = "spawn" =>
         inbox' = inbox /\ (Job(w).kind = "join" \/ (poolLock' = w /\ pool'[Job(w).key] = None))
    /\ \A c \in Callers : \/ ran'[c] = ran[c]
                          \/ phase[w] = "run" /\ Job(w).who = c /\ ran'[c] = Operation(w)
    /\ \A c \in Callers : answer'[c] # answer[c] =>
         /\ Job(w).who = c /\ inbox[w] # <<>>
         /\ answer'[c] = "ok" => \/ phase[w] \in {"run", "unpool", "release"}
                                 \/ /\ phase[w] = "spawn" /\ Alive(w)
                                    /\ pool[Job(w).key] = None =>
                                         pool'[Job(w).key] = spawned + 1 /\ spawned' = spawned + 1
         /\ answer'[c] = "refused" => phase[w] = "run" /\ Refused(w)
    /\ \/ ref'[w] = None
       \/ inbox' = inbox /\ ref'[w] = ref[w]
       \/ /\ inbox' = inbox
          /\ \/ Job(w).kind = "own"
             \/ phase[w] = "lookup" /\ ref'[w] = pool[Job(w).key]
             \/ /\ phase[w] = "spawn" /\ Alive(w) /\ Job(w).kind = "launch"
                /\ pool[Job(w).key] = None => ref'[w] = spawned + 1 /\ spawned' = spawned + 1

\* What a step of a worker does to what others see.
LEMMA WorkerEffects ==
    ASSUME SessionTypes, WorkTypes, Asked, Working, NEW w \in Workers, WorkerStep(w)
    PROVE  Effects(w)
<1> USE WorkersApart
<1>1. phase[w] # "idle" => inbox[w] # <<>>
  BY DEF Working, AtWorkOk
<1>2. inbox[w] # <<>> => Job(w).key \in Keys /\ Job(w).who \in Callers
  BY JobOk
<1>3. ASSUME inbox[w] # <<>>, NEW result, Finish(w, result), UNCHANGED ran,
             \A v \in Workers : (v # w /\ poolLock = v) => pool' = pool /\ poolLock' = poolLock,
             \A k \in Keys : pool'[k] \in {None, pool[k], spawned + 1},
             result = "ok" => \/ phase[w] \in {"run", "unpool", "release"}
                              \/ /\ phase[w] = "spawn" /\ Alive(w)
                                 /\ pool[Job(w).key] = None =>
                                      pool'[Job(w).key] = spawned + 1 /\ spawned' = spawned + 1,
             result = "refused" => phase[w] = "run" /\ Refused(w)
      PROVE  Effects(w)
  <2>1. phase'[w] = "idle" /\ ref'[w] = None
    BY <1>3 DEF Finish, WorkTypes
  <2>2. \A c \in Callers : answer'[c] # answer[c] => Job(w).who = c /\ answer'[c] = result
    BY <1>2, <1>3 DEF Finish, WorkTypes
  <2> QED
    BY <1>3, <2>1, <2>2 DEF Effects
<1>4. ASSUME inbox[w] # <<>>, NEW result \in {"ok", "failed"}, Finish(w, result), UNCHANGED <<pool, poolLock>>,
             phase[w] = "run", ran' = [ran EXCEPT ![Job(w).who] = Operation(w)]
      PROVE  Effects(w)
  <2>1. phase'[w] = "idle" /\ ref'[w] = None
    BY <1>4 DEF Finish, WorkTypes
  <2>2. \A c \in Callers : answer'[c] # answer[c] => Job(w).who = c /\ answer'[c] = result
    BY <1>2, <1>4 DEF Finish, WorkTypes
  <2>3. \A c \in Callers : ran'[c] = ran[c] \/ (Job(w).who = c /\ ran'[c] = Operation(w))
    BY <1>2, <1>4 DEF WorkTypes
  <2> QED
    BY <1>4, <2>1, <2>2, <2>3 DEF Effects
<1>5. ASSUME NEW p, Goto(w, p), UNCHANGED ran,
             \A v \in Workers : (v # w /\ poolLock = v) => pool' = pool /\ poolLock' = poolLock,
             \A k \in Keys : pool'[k] \in {None, pool[k], spawned + 1},
             p = "spawn" => Job(w).kind = "join" \/ (poolLock' = w /\ pool'[Job(w).key] = None),
             \/ ref'[w] \in {None, ref[w]}
             \/ Job(w).kind = "own"
             \/ phase[w] = "lookup" /\ ref'[w] = pool[Job(w).key]
             \/ /\ phase[w] = "spawn" /\ Alive(w) /\ Job(w).kind = "launch"
                /\ pool[Job(w).key] = None => ref'[w] = spawned + 1 /\ spawned' = spawned + 1
      PROVE  Effects(w)
  <2>1. phase'[w] = p /\ inbox' = inbox /\ answer' = answer
    BY <1>5 DEF Goto, WorkTypes
  <2> QED
    BY <1>5, <2>1 DEF Effects
<1>6. \A k \in Keys : pool[k] \in {None, pool[k], spawned + 1}
  OBVIOUS
<1>10. CASE TakeUp(w)
  <2>1. UNCHANGED <<pool, poolLock, ran>> /\ ref'[w] = (IF Job(w).kind = "own" THEN Job(w).on ELSE None)
    BY <1>10 DEF TakeUp, sessionVars, WorkTypes
  <2>2. PICK p : Goto(w, p) /\ (p = "spawn" => Job(w).kind = "join")
    BY <1>10 DEF TakeUp
  <2> QED
    BY <1>5, <1>6, <2>1, <2>2
<1>11. CASE Evict(w)
  <2>1. UNCHANGED <<ran, ref>> /\ Goto(w, "spawn") /\ poolLock = None /\ poolLock' = w /\ inbox[w] # <<>>
        /\ pool' = [pool EXCEPT ![Job(w).key] = None]
    BY <1>1, <1>11 DEF Evict, At
  <2>2. pool'[Job(w).key] = None /\ \A k \in Keys : pool'[k] \in {None, pool[k], spawned + 1}
    BY <1>2, <2>1 DEF SessionTypes
  <2> QED
    BY <1>5, <2>1, <2>2
<1>12. CASE GetOrSpawn(w)
  <2> DEFINE q == ReapIfDead(Job(w).key)
             k == Job(w).key
  <2>1. /\ UNCHANGED ran /\ phase[w] = "spawn" /\ Alive(w) /\ poolLock \in {None, w} /\ inbox[w] # <<>>
    BY <1>1, <1>12 DEF GetOrSpawn, At
  <2>2. k \in Keys
    BY <1>2, <2>1
  <2>3. q \in [Keys -> Sessions \cup {None}] /\ q[k] \in {None, pool[k]} /\ \A j \in Keys : q[j] \in {None, pool[j]}
    BY <2>2, ReapTypes
  <2>4. PICK i : /\ Got(w, i) /\ \A j \in Keys : pool'[j] \in {None, pool[j], spawned + 1}
                 /\ pool[k] = None => i = spawned + 1 /\ spawned' = spawned + 1 /\ pool'[k] = spawned + 1
    <3>1. CASE q[k] # None /\ pool' = q /\ Got(w, q[k])
      BY <2>3, <3>1
    <3>2. CASE spawned' = spawned + 1 /\ pool' = [q EXCEPT ![k] = spawned + 1] /\ Got(w, spawned + 1)
      <4> HIDE DEF q, k
      <4> QED
        BY <2>2, <2>3, <3>2
    <3> QED
      BY <1>12, <3>1, <3>2 DEF GetOrSpawn
  <2>5. \A v \in Workers : (v # w /\ poolLock = v) => pool' = pool /\ poolLock' = poolLock
    BY <2>1
  <2>6. CASE Finish(w, "ok")
    BY <1>3, <2>1, <2>4, <2>5, <2>6
  <2>7. CASE Job(w).kind = "launch" /\ Goto(w, "lock") /\ ref' = [ref EXCEPT ![w] = i]
    <3>1. ref'[w] = i
      BY <2>7 DEF WorkTypes
    <3> QED
      BY <1>5, <2>1, <2>4, <2>5, <2>7, <3>1
  <2> QED
    BY <2>4, <2>6, <2>7 DEF Got
<1>13. CASE SpawnFails(w)
  <2>1. /\ UNCHANGED ran /\ poolLock \in {None, w} /\ inbox[w] # <<>> /\ Finish(w, "failed")
        /\ pool' = ReapIfDead(Job(w).key)
    BY <1>1, <1>13 DEF SpawnFails, At
  <2>2. \A j \in Keys : pool'[j] \in {None, pool[j], spawned + 1}
    BY <1>2, <2>1, ReapTypes
  <2> QED
    BY <1>3, <2>1, <2>2
<1>14. CASE Lookup(w)
  <2>1. /\ UNCHANGED ran /\ phase[w] = "lookup" /\ poolLock = None /\ inbox[w] # <<>>
        /\ pool' = ReapIfDead(Job(w).key)
    BY <1>1, <1>14 DEF Lookup, At
  <2>2. \A j \in Keys : pool'[j] \in {None, pool[j]}
    BY <1>2, <2>1, ReapTypes
  <2>3. CASE Finish(w, "failed")
    BY <1>3, <2>1, <2>2, <2>3
  <2>4. CASE pool'[Job(w).key] # None /\ Goto(w, "lock") /\ ref' = [ref EXCEPT ![w] = pool'[Job(w).key]]
    <3>1. ref'[w] = pool[Job(w).key]
      BY <1>2, <2>1, <2>2, <2>4 DEF WorkTypes
    <3> QED
      BY <1>5, <2>1, <2>2, <2>4, <3>1
  <2> QED
    BY <1>14, <2>3, <2>4 DEF Lookup
<1>15. CASE LockSession(w)
  BY <1>5, <1>6, <1>15 DEF LockSession
<1>16. CASE Refuse(w)
  BY <1>1, <1>3, <1>6, <1>16 DEF Refuse, At
<1>17. CASE Run(w)
  <2>1. UNCHANGED <<pool, poolLock>> /\ ran' = [ran EXCEPT ![Job(w).who] = Operation(w)] /\ phase[w] = "run"
        /\ inbox[w] # <<>>
    BY <1>1, <1>17 DEF Run, At
  <2>2. CASE Finish(w, "ok")
    BY <1>4, <2>1, <2>2
  <2>3. CASE Goto(w, "unpool") /\ UNCHANGED ref
    <3>1. phase'[w] = "unpool" /\ inbox' = inbox /\ answer' = answer
      BY <2>3 DEF Goto, WorkTypes
    <3>2. \A c \in Callers : ran'[c] = ran[c] \/ (Job(w).who = c /\ ran'[c] = Operation(w))
      BY <1>2, <2>1 DEF WorkTypes
    <3> QED
      BY <1>6, <2>1, <2>3, <3>1, <3>2 DEF Effects
  <2> QED
    BY <1>17, <2>2, <2>3 DEF Run
<1>18. CASE RunFails(w)
  BY <1>1, <1>4, <1>18 DEF RunFails, At
<1>19. CASE Unpool(w)
  <2>1. /\ UNCHANGED ran /\ phase[w] = "unpool" /\ poolLock = None /\ inbox[w] # <<>>
        /\ pool' = [pool EXCEPT ![Job(w).key] = None]
    BY <1>1, <1>19 DEF Unpool, At
  <2>2. \A j \in Keys : pool'[j] \in {None, pool[j], spawned + 1}
    BY <1>2, <2>1 DEF SessionTypes
  <2>3. CASE Finish(w, "ok")
    BY <1>3, <2>1, <2>2, <2>3
  <2>4. CASE Goto(w, "release") /\ UNCHANGED ref
    BY <1>5, <2>1, <2>2, <2>4
  <2> QED
    BY <1>19, <2>3, <2>4 DEF Unpool
<1>20. CASE Release(w)
  BY <1>1, <1>3, <1>6, <1>20 DEF Release, At
<1>21. CASE Abort(w)
  <2>1. UNCHANGED <<pool, poolLock, ran, answer>> /\ phase'[w] = "idle" /\ ref'[w] = None
    BY <1>21 DEF Abort, replyVars, WorkTypes
  <2> QED
    BY <1>6, <2>1 DEF Effects
<1> QED
  BY <1>10, <1>11, <1>12, <1>13, <1>14, <1>15, <1>16, <1>17, <1>18, <1>19, <1>20, <1>21 DEF WorkerStep, Waits, Works

\* The adapters that a worker's step starts: none, or the one its request is for.
Spawns(w) ==
    \/ spawned' = spawned /\ origin' = origin /\ \A k \in Keys : pool'[k] \in {None, pool[k]}
    \/ /\ phase[w] = "spawn" /\ spawned' = spawned + 1
       /\ \A i \in 1..spawned : origin'[i] = origin[i]
       /\ origin'[spawned + 1] = [key |-> Job(w).key, by |-> Job(w).who]
       /\ \A k \in Keys : k # Job(w).key => pool'[k] \in {None, pool[k]}

\* Only get_or_spawn starts one.
LEMMA WorkerSpawns ==
    ASSUME SessionTypes, WorkTypes, Asked, Working, NEW w \in Workers, WorkerStep(w)
    PROVE  Spawns(w)
<1> USE WorkersApart
<1>1. phase[w] # "idle" => inbox[w] # <<>>
  BY DEF Working, AtWorkOk
<1>2. inbox[w] # <<>> => Job(w).key \in Keys /\ Job(w).who \in Callers
  BY JobOk
<1>3. \A k \in Keys : pool[k] \in {None, pool[k]}
  OBVIOUS
<1>4. CASE TakeUp(w) \/ LockSession(w) \/ Refuse(w) \/ Run(w) \/ RunFails(w) \/ Release(w) \/ Abort(w)
  <2>1. UNCHANGED <<pool, spawned, origin>>
    BY <1>4 DEF TakeUp, LockSession, Refuse, Run, RunFails, Release, Abort, sessionVars
  <2> QED
    BY <1>3, <2>1 DEF Spawns
<1>5. CASE Evict(w) \/ Unpool(w)
  <2>1. UNCHANGED <<spawned, origin>> /\ pool' = [pool EXCEPT ![Job(w).key] = None]
    BY <1>5 DEF Evict, Unpool
  <2>2. \A k \in Keys : pool'[k] \in {None, pool[k]}
    BY <2>1 DEF SessionTypes
  <2> QED
    BY <2>1, <2>2 DEF Spawns
<1>6. CASE SpawnFails(w) \/ Lookup(w)
  <2>1. UNCHANGED <<spawned, origin>> /\ pool' = ReapIfDead(Job(w).key) /\ inbox[w] # <<>>
    BY <1>1, <1>6 DEF SpawnFails, Lookup, At
  <2>2. \A k \in Keys : pool'[k] \in {None, pool[k]}
    BY <1>2, <2>1, ReapTypes
  <2> QED
    BY <2>1, <2>2 DEF Spawns
<1>7. CASE GetOrSpawn(w)
  <2> DEFINE q == ReapIfDead(Job(w).key)
             k == Job(w).key
  <2>1. phase[w] = "spawn" /\ inbox[w] # <<>>
    BY <1>1, <1>7 DEF GetOrSpawn, At
  <2>2. k \in Keys /\ q \in [Keys -> Sessions \cup {None}] /\ \A j \in Keys : q[j] \in {None, pool[j]}
    BY <1>2, <2>1, ReapTypes
  <2>3. CASE pool' = q /\ UNCHANGED <<spawned, origin>>
    BY <2>2, <2>3 DEF Spawns
  <2>4. CASE /\ spawned < MaxSpawns /\ spawned' = spawned + 1 /\ pool' = [q EXCEPT ![k] = spawned + 1]
             /\ Originates(spawned + 1, k, Job(w).who)
    <3>1. spawned + 1 \in Sessions /\ \A i \in 1..spawned : i # spawned + 1
      BY <2>4 DEF SessionTypes, Sessions
    <3>2. /\ origin'[spawned + 1] = [key |-> Job(w).key, by |-> Job(w).who]
          /\ \A i \in 1..spawned : origin'[i] = origin[i]
      <4>1. 1..spawned \subseteq Sessions
        BY DEF SessionTypes, Sessions
      <4> QED
        BY <2>4, <3>1, <4>1 DEF Originates, SessionTypes
    <3>3. \A j \in Keys : j # k => pool'[j] \in {None, pool[j]}
      <4> HIDE DEF q, k
      <4> QED
        BY <2>2, <2>4
    <3> QED
      BY <2>1, <2>4, <3>2, <3>3 DEF Spawns
  <2> QED
    BY <1>7, <2>3, <2>4 DEF GetOrSpawn
<1> QED
  BY <1>4, <1>5, <1>6, <1>7 DEF WorkerStep, Waits, Works

\* Sessions are numbered in the order they are started.
LEMMA SpawnedNumbers ==
    ASSUME SessionTypes
    PROVE  spawned \in Nat /\ \A k \in Keys : pool[k] # None => pool[k] \in Nat /\ pool[k] \in 1..spawned
  BY WorkersApart DEF SessionTypes

\* What was started for a caller stays so.
LEMMA OwnKept ==
    ASSUME spawned \in Nat, \A n \in 1..spawned : origin'[n] = origin[n],
           NEW c, NEW i \in Nat, NEW j \in Nat, i <= spawned, i <= j, \E n \in 1..i : origin[n].by = c
    PROVE  \E n \in 1..j : origin'[n].by = c
<1>1. PICK n \in 1..i : origin[n].by = c
  OBVIOUS
<1>2. n \in 1..spawned /\ n \in 1..j
  BY <1>1
<1>3. origin'[n].by = c
  BY <1>1, <1>2
<1> QED
  BY <1>2, <1>3

\* Requests of a call are with itself or with the connection.
LEMMA CallJob ==
    ASSUME Asked, NEW w \in Workers, NEW r \in Queued(w), r.who \in Calls
    PROVE  /\ OfCall(r) /\ r.kind \in {"launch", "replace", "op"} /\ w \notin AgentWorkers
           /\ w \in Calls => r.who = w /\ r.kind = (IF r.tool \in Starts THEN "launch" ELSE "op")
<1>1. Belongs(r, w)
  BY DEF Asked
<1>2. w \notin AgentWorkers
  BY <1>1, WorkersApart DEF Belongs
<1> QED
  BY <1>1, <1>2, WorkersApart DEF Belongs, OfCall, CallRequests

\* A worker gives a launch an adapter that was started for it, or a later one.
LEMMA WorkerFresh ==
    ASSUME SessionTypes, WorkTypes, CallTypes, Linked, Asked, Working, Fresh,
           NEW w \in Workers, Frame(w), Effects(w), Spawns(w), SessionTypes', WorkTypes', Working'
    PROVE  Fresh'
<1> USE WorkersApart
<1>1. /\ UNCHANGED <<mode, script, pc, target, daemon, link>>
      /\ spawned \in Nat /\ spawned' \in Nat /\ spawned <= spawned'
      /\ \A i \in 1..spawned : origin'[i] = origin[i]
  BY DEF SessionTypes, Frame, callVars, Spawns
<1>2. \A v \in Workers : inbox[v] # <<>> => Job(v) \in Queued(v)
  BY JobQueued
<1>3. phase[w] # "idle" => inbox[w] # <<>>
  BY DEF Working, AtWorkOk
<1>4. ASSUME NEW c, NEW i \in Nat, NEW j \in Nat, i <= spawned, i <= j, \E n \in 1..i : origin[n].by = c
      PROVE  \E n \in 1..j : origin'[n].by = c
  BY <1>1, <1>4, OwnKept
<1>5. \A v \in Workers : Alive(v)' = Alive(v)
  BY <1>1 DEF Alive
<1>6. ASSUME NEW v \in Workers, phase'[v] = "spawn", Alive(v)', Job(v)'.kind # "join"
      PROVE  poolLock' = v /\ pool'[Job(v)'.key] = None
  <2>1. CASE v # w
    <3>1. Job(v)' = Job(v) /\ phase[v] = "spawn" /\ Alive(v)
      BY <1>5, <1>6, <2>1 DEF Frame, Job
    <3>2. poolLock = v /\ pool[Job(v).key] = None
      BY <1>6, <3>1 DEF Fresh
    <3> QED
      BY <2>1, <3>1, <3>2 DEF Effects
  <2>2. CASE v = w
    <3>1. inbox' = inbox /\ Job(w)' = Job(w)
      BY <1>6, <2>2 DEF Effects, Job
    <3> QED
      BY <1>6, <2>2, <3>1 DEF Effects
  <2> QED
    BY <2>1, <2>2
<1>7. ASSUME NEW c \in Calls, PoolKey(target[c]) \in Keys, FreshKey(c)
      PROVE  FreshKey(c)'
  <2> DEFINE k == PoolKey(target[c])
  <2>1. \E n \in 1..spawned : origin[n].by = c
    BY <1>7 DEF FreshKey, Own
  <2>2. \E n \in 1..spawned' : origin'[n].by = c
    BY <1>1, <1>4, <2>1
  <2>3. ASSUME pool'[k] # None
        PROVE  \E n \in 1..pool'[k] : origin'[n].by = c
    <3>1. CASE pool'[k] = spawned + 1
      BY <1>1, <1>4, <2>1, <3>1
    <3>2. CASE pool'[k] = pool[k]
      <4>1. pool[k] \in Nat /\ pool[k] <= spawned
        BY <1>7, <2>3, <3>2, SpawnedNumbers
      <4>2. \E n \in 1..pool[k] : origin[n].by = c
        BY <1>7, <2>3, <3>2 DEF FreshKey, Own
      <4> QED
        BY <1>4, <3>2, <4>1, <4>2
    <3> QED
      BY <1>7, <2>3, <3>1, <3>2 DEF Effects
  <2> QED
    BY <1>1, <2>2, <2>3 DEF FreshKey, Own
<1>8. ASSUME NEW c \in Calls, inbox[w] # <<>>, Job(w).who = c, phase[w] = "spawn", NEW k \in Keys, Job(w).key = k,
             pool[k] = None, spawned' = spawned + 1
      PROVE  \E n \in 1..(spawned + 1) : origin'[n].by = c
  <2>1. origin'[spawned + 1] = [key |-> Job(w).key, by |-> Job(w).who]
    BY <1>1, <1>8 DEF Spawns
  <2>2. origin'[spawned + 1].by = c /\ spawned + 1 \in 1..(spawned + 1)
    BY <1>1, <1>8, <2>1
  <2> QED
    BY <2>1, <2>2
<1>9. ASSUME NEW c \in Calls, Launching(c), pc[c] = "spawning", answer'[c] = "ok"
      PROVE  FreshKey(c)'
  <2>1. PoolKey(target[c]) \in Keys
    BY <1>9 DEF CallTypes
  <2>2. CASE answer[c] = "ok"
    BY <1>7, <1>9, <2>1, <2>2 DEF Fresh
  <2>3. CASE answer[c] # "ok"
    <3>1. /\ Job(w).who = c /\ inbox[w] # <<>>
          /\ \/ phase[w] \in {"run", "unpool", "release"}
             \/ /\ phase[w] = "spawn" /\ Alive(w)
                /\ pool[Job(w).key] = None => pool'[Job(w).key] = spawned + 1 /\ spawned' = spawned + 1
      BY <1>9, <2>3 DEF Effects, Callers
    <3>2. OfCall(Job(w)) /\ Job(w).kind \in {"launch", "replace", "op"}
      BY <1>2, <3>1, CallJob
    <3>3. Job(w).kind = "replace" /\ Job(w).key = PoolKey(target[c])
      BY <1>9, <3>1, <3>2 DEF OfCall
    <3>4. phase[w] = "spawn"
      BY <3>1, <3>3 DEF Working, AtWorkOk
    <3>5. pool[Job(w).key] = None
      BY <3>1, <3>3, <3>4 DEF Fresh
    <3>6. pool'[PoolKey(target[c])] = spawned + 1 /\ spawned' = spawned + 1
      BY <3>1, <3>3, <3>4, <3>5
    <3>7. \E n \in 1..(spawned + 1) : origin'[n].by = c
      BY <1>8, <2>1, <3>1, <3>3, <3>4, <3>5, <3>6
    <3> QED
      BY <1>1, <3>6, <3>7 DEF FreshKey, Own
  <2> QED
    BY <2>2, <2>3
<1>10. ASSUME NEW c \in Calls, Launching(c), pc[c] = "invoke"
       PROVE  FreshKey(c)'
  <2>1. PoolKey(target[c]) \in Keys
    BY <1>10 DEF CallTypes
  <2> QED
    BY <1>7, <1>10, <2>1 DEF Fresh
<1>11. ASSUME NEW c \in Calls, Launching(c), NEW v \in Workers, NEW r \in Queued(v), r.who = c, r.kind = "op"
       PROVE  FreshKey(c) /\ FreshKey(c)'
  <2>1. FreshKey(c)
    BY <1>11 DEF Fresh
  <2>2. target[c] # None
    BY <1>11, CallJob DEF OfCall
  <2> QED
    BY <1>7, <2>1, <2>2 DEF CallTypes
<1>12. \A v \in Workers : ref[v] # None => ref[v] \in Nat /\ ref[v] <= spawned
  BY <1>1 DEF Working, AtWorkOk
<1>13. ASSUME NEW c \in Calls, Launching(c), NEW v \in Workers, inbox[v] # <<>>, Job(v).who = c, ref[v] # None
       PROVE  \E n \in 1..ref[v] : origin'[n].by = c
  <2>1. PICK n \in 1..ref[v] : origin[n].by = c
    BY <1>13 DEF Fresh, Own
  <2>2. origin'[n] = origin[n]
    BY <1>1, <1>12, <1>13
  <2> QED
    BY <2>1, <2>2
<1>14. ASSUME NEW c \in Calls, Launching(c), inbox[w] # <<>>, Job(w).who = c, inbox' = inbox, ref'[w] # None
       PROVE  \E n \in 1..ref'[w] : origin'[n].by = c
  <2>1. OfCall(Job(w)) /\ Job(w).kind \in {"launch", "replace", "op"} /\ Job(w).key = PoolKey(target[c])
        /\ Job(w).key \in Keys
    BY <1>2, <1>14, CallJob, JobOk DEF OfCall
  <2>2. CASE ref'[w] = ref[w]
    BY <1>13, <1>14, <2>2
  <2>3. CASE phase[w] = "lookup" /\ ref'[w] = pool[Job(w).key]
    <3>1. Job(w).kind = "op"
      BY <2>3 DEF Working, AtWorkOk
    <3>2. FreshKey(c)
      BY <1>2, <1>11, <1>14, <3>1
    <3>3. PICK n \in 1..pool[Job(w).key] : origin[n].by = c
      BY <1>14, <2>1, <2>3, <3>2 DEF FreshKey, Own
    <3>4. pool[Job(w).key] \in Nat /\ pool[Job(w).key] <= spawned
      BY <1>14, <2>1, <2>3, SpawnedNumbers
    <3>5. origin'[n] = origin[n]
      BY <1>1, <3>3, <3>4
    <3> QED
      BY <2>3, <3>3, <3>5
  <2>4. CASE /\ phase[w] = "spawn" /\ Alive(w) /\ Job(w).kind = "launch"
             /\ pool[Job(w).key] = None => ref'[w] = spawned + 1 /\ spawned' = spawned + 1
    <3>1. pool[Job(w).key] = None
      BY <2>4 DEF Fresh
    <3>2. ref'[w] = spawned + 1 /\ spawned' = spawned + 1
      BY <2>4, <3>1
    <3>3. \E n \in 1..(spawned + 1) : origin'[n].by = c
      BY <1>8, <1>14, <2>1, <2>4, <3>1, <3>2
    <3> QED
      BY <3>2, <3>3
  <2> QED
    BY <1>14, <2>1, <2>2, <2>3, <2>4 DEF Effects
<1>15. ASSUME NEW c \in Calls, Launching(c), NEW v \in Workers, inbox'[v] # <<>>, Job(v)'.who = c, ref'[v] # None
       PROVE  \E n \in 1..ref'[v] : origin'[n].by = c
  <2>1. CASE v # w
    <3>1. inbox'[v] = inbox[v] /\ Job(v)' = Job(v) /\ ref'[v] = ref[v]
      BY <2>1 DEF Frame, Job
    <3> QED
      BY <1>13, <1>15, <3>1
  <2>2. CASE v = w
    <3>1. inbox' = inbox
      BY <1>15, <2>2 DEF Effects
    <3> QED
      BY <1>14, <1>15, <2>2, <3>1 DEF Job
  <2> QED
    BY <2>1, <2>2
<1>16. ASSUME NEW c \in Calls, ran'[c] # None
       PROVE  /\ pc[c] # "idle" /\ ran'[c].tool = script[c].tool /\ ran'[c].on \in 1..spawned'
              /\ Launching(c) => \E n \in 1..ran'[c].on : origin'[n].by = c
  <2>1. CASE ran'[c] = ran[c]
    <3>1. pc[c] # "idle" /\ ran[c].tool = script[c].tool /\ ran[c].on \in 1..spawned
      BY <1>16, <2>1 DEF Fresh
    <3>2. Launching(c) => \E n \in 1..ran[c].on : origin[n].by = c
      BY <1>16, <2>1 DEF Fresh, Own
    <3>3. Launching(c) => \E n \in 1..ran[c].on : origin'[n].by = c
      BY <1>1, <1>4, <3>1, <3>2
    <3> QED
      BY <1>1, <2>1, <3>1, <3>3
  <2>2. CASE phase[w] = "run" /\ Job(w).who = c /\ ran'[c] = Operation(w)
    <3>1. inbox[w] # <<>> /\ OfCall(Job(w))
      BY <1>2, <1>3, <2>2, CallJob
    <3>2. ran'[c].tool = Job(w).tool /\ ran'[c].on = ref[w]
      BY <2>2 DEF Operation
    <3>3. ref[w] \in 1..spawned /\ ref[w] # None
      BY <1>1, <2>2 DEF Working, AtWorkOk, Sessions, SessionTypes
    <3>4. Launching(c) => \E n \in 1..ref[w] : origin'[n].by = c
      BY <1>13, <2>2, <3>1, <3>3
    <3> QED
      BY <1>1, <2>2, <3>1, <3>2, <3>3, <3>4 DEF OfCall
  <2> QED
    BY <2>1, <2>2 DEF Effects, Callers
<1>17. \A c \in Calls : Launching(c)' = Launching(c)
  BY <1>1 DEF Launching
<1>18. \A v \in Workers : Queued(v)' \subseteq Queued(v)
  BY DEF Frame
<1> QED
  BY <1>1, <1>6, <1>9, <1>10, <1>11, <1>15, <1>16, <1>17, <1>18 DEF Fresh, Own

\* A launch of the in-process server is given the adapter it starts.
LEMMA WorkerApart ==
    ASSUME SessionTypes, WorkTypes, Linked, Asked, Working, Fresh, Apart,
           NEW w \in Workers, Frame(w), Effects(w), Spawns(w), Working'
    PROVE  Apart'
<1> USE WorkersApart
<1>1. /\ UNCHANGED <<mode, script>> /\ spawned \in Nat /\ \A i \in 1..spawned : origin'[i] = origin[i]
  BY DEF SessionTypes, Frame, callVars, Spawns
<1>2. \A v \in Workers : ref[v] # None => ref[v] \in 1..spawned /\ inbox[v] # <<>>
  BY DEF Working, AtWorkOk
<1> SUFFICES ASSUME mode = "in_process", NEW c \in Calls, Launching(c)
             PROVE  /\ ref'[c] # None => origin'[ref'[c]].by = c
                    /\ ran'[c] # None => origin'[ran'[c].on].by = c
  BY <1>1 DEF Apart, Launching
<1>3. c \in Workers /\ (ref[c] # None => origin'[ref[c]].by = c)
  BY <1>1, <1>2 DEF Apart
<1>4. ASSUME ref'[c] # None, ref'[c] # ref[c]
      PROVE  origin'[ref'[c]].by = c
  <2>1. c = w
    BY <1>3, <1>4 DEF Frame
  <2>2. /\ inbox' = inbox
        /\ \/ Job(w).kind = "own"
           \/ phase[w] = "lookup" /\ ref'[w] = pool[Job(w).key]
           \/ /\ phase[w] = "spawn" /\ Alive(w) /\ Job(w).kind = "launch"
              /\ pool[Job(w).key] = None => ref'[w] = spawned + 1 /\ spawned' = spawned + 1
    BY <1>4, <2>1 DEF Effects
  <2>3. inbox[w] # <<>>
    BY <1>4, <2>1, <2>2 DEF Working, AtWorkOk
  <2>4. Job(w).kind = "launch" /\ Job(w).who = c
    <3>1. Belongs(Job(w), w)
      BY <2>3, JobOk
    <3>2. Job(w).who = c /\ OfCall(Job(w)) /\ Job(w).kind = (IF Job(w).tool \in Starts THEN "launch" ELSE "op")
      BY <2>1, <3>1 DEF Belongs
    <3>3. Job(w).tool \in Starts
      BY <3>2 DEF OfCall, Launching
    <3> QED
      BY <3>2, <3>3
  <2>5. phase[w] # "lookup"
    BY <2>4 DEF Working, AtWorkOk
  <2>6. pool[Job(w).key] = None
    BY <2>2, <2>4, <2>5 DEF Fresh
  <2>7. ref'[w] = spawned + 1 /\ origin'[spawned + 1] = [key |-> Job(w).key, by |-> Job(w).who]
    BY <1>1, <2>2, <2>4, <2>5, <2>6 DEF Spawns
  <2> QED
    BY <2>1, <2>4, <2>7
<1>5. ASSUME ran'[c] # None
      PROVE  origin'[ran'[c].on].by = c
  <2>1. CASE ran'[c] = ran[c]
    <3>1. ran[c].on \in 1..spawned
      BY <1>5, <2>1 DEF Fresh
    <3> QED
      BY <1>1, <1>5, <2>1, <3>1 DEF Apart
  <2>2. CASE phase[w] = "run" /\ Job(w).who = c /\ ran'[c] = Operation(w)
    <3>1. inbox[w] # <<>> /\ ref[w] \in 1..spawned /\ ref[w] # None
      BY <2>2 DEF Working, AtWorkOk, Sessions, SessionTypes
    <3>2. Job(w) \in Queued(w)
      BY <3>1, JobQueued
    <3>3. w \notin AgentWorkers /\ (w \in Calls => w = c)
      BY <2>2, <3>2, CallJob
    <3>4. w # Conn
      BY <3>1 DEF Linked
    <3>5. w = c /\ ran'[c].on = ref[c]
      BY <2>2, <3>3, <3>4 DEF Operation
    <3> QED
      BY <1>3, <3>1, <3>5
  <2> QED
    BY <2>1, <2>2 DEF Effects, Callers
<1> QED
  BY <1>3, <1>4, <1>5

\* A worker finds its key's session, and starts one for no other key.
LEMMA WorkerKeyed ==
    ASSUME SessionTypes, WorkTypes, Asked, Working, Fresh, Keyed,
           NEW w \in Workers, Frame(w), Effects(w), Spawns(w), Working'
    PROVE  Keyed'
<1> USE WorkersApart
<1>1. /\ UNCHANGED target /\ spawned \in Nat /\ \A i \in 1..spawned : origin'[i] = origin[i]
  BY DEF SessionTypes, Frame, callVars, Spawns
<1>2. \A v \in Workers : ref[v] # None => ref[v] \in 1..spawned /\ inbox[v] # <<>>
  BY DEF Working, AtWorkOk
<1>3. \A k \in Keys : pool[k] # None => pool[k] \in 1..spawned /\ origin'[pool[k]].key = k
  BY <1>1, SpawnedNumbers DEF Keyed
<1>4. ASSUME NEW k \in Keys, pool'[k] # None
      PROVE  origin'[pool'[k]].key = k
  <2>1. CASE pool'[k] = pool[k]
    BY <1>3, <1>4, <2>1
  <2>2. CASE pool'[k] # pool[k]
    <3>1. pool'[k] = spawned + 1
      BY <1>4, <2>2 DEF Effects
    <3>2. k = Job(w).key /\ origin'[spawned + 1] = [key |-> Job(w).key, by |-> Job(w).who]
      BY <1>4, <2>2 DEF Spawns
    <3> QED
      BY <3>1, <3>2
  <2> QED
    BY <2>1, <2>2
<1>5. ASSUME NEW v \in Workers, ref[v] # None, Job(v).kind # "own"
      PROVE  origin'[ref[v]].key = Job(v).key
  BY <1>1, <1>2, <1>5 DEF Keyed
<1>6. ASSUME NEW v \in Workers, ref'[v] # None, Job(v)'.kind # "own"
      PROVE  origin'[ref'[v]].key = Job(v)'.key
  <2>1. CASE v # w
    <3>1. Job(v)' = Job(v) /\ ref'[v] = ref[v]
      BY <2>1 DEF Frame, Job
    <3> QED
      BY <1>5, <1>6, <3>1
  <2>2. CASE v = w
    <3>1. inbox' = inbox /\ Job(w)' = Job(w)
      BY <1>6, <2>2 DEF Effects, Job
    <3>2. CASE ref'[w] = ref[w]
      BY <1>5, <1>6, <2>2, <3>1, <3>2
    <3>3. CASE phase[w] = "lookup" /\ ref'[w] = pool[Job(w).key]
      <4>1. inbox[w] # <<>>
        BY <3>3 DEF Working, AtWorkOk
      <4>2. Job(w).key \in Keys
        BY <4>1, JobOk
      <4> QED
        BY <1>3, <1>6, <2>2, <3>1, <3>3, <4>2
    <3>4. CASE /\ phase[w] = "spawn" /\ Alive(w) /\ Job(w).kind = "launch"
               /\ pool[Job(w).key] = None => ref'[w] = spawned + 1 /\ spawned' = spawned + 1
      <4>1. pool[Job(w).key] = None
        BY <3>4 DEF Fresh
      <4>2. ref'[w] = spawned + 1 /\ origin'[spawned + 1] = [key |-> Job(w).key, by |-> Job(w).who]
        BY <1>1, <3>4, <4>1 DEF Spawns
      <4> QED
        BY <2>2, <3>1, <4>2
    <3> QED
      BY <1>6, <2>2, <3>1, <3>2, <3>3, <3>4 DEF Effects
  <2> QED
    BY <2>1, <2>2
<1>7. ASSUME NEW c \in Calls, ran'[c] # None
      PROVE  origin'[ran'[c].on].key = PoolKey(target[c])
  <2>1. CASE ran'[c] = ran[c]
    <3>1. ran[c].on \in 1..spawned
      BY <1>7, <2>1 DEF Fresh
    <3> QED
      BY <1>1, <1>7, <2>1, <3>1 DEF Keyed
  <2>2. CASE phase[w] = "run" /\ Job(w).who = c /\ ran'[c] = Operation(w)
    <3>1. inbox[w] # <<>> /\ ref[w] \in 1..spawned /\ ref[w] # None
      BY <2>2 DEF Working, AtWorkOk, Sessions, SessionTypes
    <3>2. Job(w) \in Queued(w)
      BY <3>1, JobQueued
    <3>3. OfCall(Job(w)) /\ Job(w).kind # "own"
      BY <2>2, <3>2, CallJob
    <3>4. Job(w).key = PoolKey(target[c]) /\ ran'[c].on = ref[w]
      BY <2>2, <3>3 DEF OfCall, Operation
    <3> QED
      BY <1>5, <3>1, <3>3, <3>4
  <2> QED
    BY <2>1, <2>2 DEF Effects, Callers
<1> QED
  BY <1>1, <1>4, <1>6, <1>7 DEF Keyed

\* A worker runs what it was asked to run.
LEMMA WorkerFaithful ==
    ASSUME SessionTypes, WorkTypes, Linked, Asked, Working, Fresh, Faithful,
           NEW w \in Workers, Frame(w), Effects(w)
    PROVE  Faithful'
<1> USE WorkersApart
<1>1. UNCHANGED <<mode, machine, script, pc, target, link, plan>>
  BY DEF Frame, callVars, agentVars
<1>2. phase[w] = "run" => inbox[w] # <<>> /\ Job(w) \in Queued(w) /\ Job(w).kind # "join"
  BY JobQueued DEF Working, AtWorkOk
<1>3. phase[w] = "run" => Job(w) \in Requests /\ Carries(Job(w), w)
  BY <1>2, JobOk DEF Faithful
<1>4. ASSUME NEW v \in Workers, NEW r \in Queued(v)', r.kind # "join"
      PROVE  Carries(r, v)'
  <2>1. Carries(r, v)
    BY <1>4 DEF Frame, Faithful
  <2> QED
    BY <1>1, <2>1 DEF Carries
<1>5. ASSUME NEW c \in Callers, ran'[c] # None
      PROVE  /\ ran'[c].tool \in Tools /\ ran'[c].method = Method(ran'[c].tool)
             /\ ran'[c].with = ran'[c].given \cap Carried[ran'[c].tool]
             /\ ran'[c].compressor =
                  IF c \in Calls \/ plan[c].compression THEN Shortener[ran'[c].tool] ELSE "none"
  <2>1. CASE ran'[c] = ran[c]
    BY <1>5, <2>1 DEF Faithful
  <2>2. CASE phase[w] = "run" /\ Job(w).who = c /\ ran'[c] = Operation(w)
    <3>1. /\ ran'[c].tool = Job(w).tool /\ ran'[c].given = Job(w).given
          /\ ran'[c].compressor = Job(w).compressor
          /\ ran'[c].method = (IF link[w] = 0 THEN Job(w).calls ELSE InvokeOps[Job(w).calls].method)
          /\ ran'[c].with = (IF link[w] = 0 THEN Job(w).with
                             ELSE Job(w).with \cap InvokeOps[Job(w).calls].all)
      BY <2>2 DEF Operation
    <3>2. Job(w).tool \in Tools
      BY <1>2, <1>3, <2>2 DEF Requests, JoinRequests, CallRequests, AgentRequests
    <3>3. Carries(Job(w), w)
      BY <1>3, <2>2
    <3>4. ran'[c].method = Method(Job(w).tool)
      BY <3>1, <3>3 DEF Carries
    <3>5. ran'[c].with = Carried[Job(w).tool] \cap Job(w).given
      BY <3>1, <3>3 DEF Carries
    <3>6. ran'[c].compressor = IF c \in Calls \/ plan[c].compression THEN Shortener[Job(w).tool] ELSE "none"
      BY <2>2, <3>1, <3>3 DEF Carries
    <3> QED
      BY <3>1, <3>2, <3>4, <3>5, <3>6
  <2> QED
    BY <2>1, <2>2 DEF Effects
<1>6. ASSUME NEW c \in Calls
      PROVE  answer'[c] # "refused"
  <2>1. CASE answer'[c] = answer[c]
    BY <2>1 DEF Faithful
  <2>2. CASE answer'[c] # answer[c] /\ answer'[c] = "refused"
    <3>1. Job(w).who = c /\ phase[w] = "run" /\ Refused(w)
      BY <2>2 DEF Effects, Callers
    <3>2. link[w] # 0 => Job(w).calls \in DOMAIN InvokeOps /\ InvokeOps[Job(w).calls].must \subseteq Job(w).with
      BY <1>3, <3>1 DEF Carries
    <3> QED
      BY <3>1, <3>2 DEF Refused, InvokeOk
  <2> QED
    BY <2>1, <2>2
<1>7. \A c \in Calls : RefusedForAReason(c)' = RefusedForAReason(c) /\ Backend(c)' = Backend(c)
                       /\ Launching(c)' = Launching(c)
  BY <1>1 DEF RefusedForAReason, Backend, Launching
<1>8. Faithful'
  BY <1>1, <1>4, <1>5, <1>6, <1>7 DEF Faithful
<1> QED
  BY <1>8

\* All of the invariant.
LEMMA WorkerInv ==
    ASSUME IInv, NEW w \in Workers, WorkerStep(w)
    PROVE  IInv'
<1>1. SessionTypes' /\ WorkTypes' /\ Frame(w)
  BY WorkerTypes DEF IInv
<1>2. Chosen' /\ CallTypes' /\ AgentTypes' /\ Linked' /\ Handled' /\ Asked'
  BY <1>1, WorkerRest DEF IInv
<1>3. Working' /\ Locked'
  BY <1>1, WorkerPlaces DEF IInv
<1>4. Effects(w) /\ Spawns(w)
  BY WorkerEffects, WorkerSpawns DEF IInv
<1>5. Fresh' /\ Apart' /\ Keyed'
  BY <1>1, <1>3, <1>4, WorkerFresh, WorkerApart, WorkerKeyed DEF IInv
<1>6. Faithful'
  BY <1>1, <1>4, WorkerFaithful DEF IInv
<1> QED
  BY <1>1, <1>2, <1>3, <1>5, <1>6 DEF IInv

----------------------------------------------------------------------------
(* The environment. *)

\* What changes nothing but exits of adapters keeps the invariant.
LEMMA Unmoved ==
    ASSUME IInv, exited' \subseteq 1..spawned,
           UNCHANGED <<mode, machine, daemon, pool, poolLock, sessLock, spawned, origin, link>>,
           UNCHANGED <<workVars, asks, replyVars, callVars, agentVars>>
    PROVE  IInv'
<1>1. UNCHANGED <<inbox, phase, ref, answer, ran, script, pc, target, last, clientLock>>
      /\ UNCHANGED <<plan, step, doing, made, handles>>
  BY DEF workVars, replyVars, callVars, agentVars
<1>2. Chosen' /\ SessionTypes' /\ WorkTypes' /\ CallTypes' /\ AgentTypes'
  BY <1>1 DEF IInv, Chosen, SessionTypes, WorkTypes, CallTypes, AgentTypes
<1>3. Linked'
  BY <1>1 DEF IInv, Linked
<1>4. Handled'
  BY <1>1 DEF IInv, Handled, HandleOk, Op
<1>5. \A w \in Workers : Queued(w)' = Queued(w) /\ Job(w)' = Job(w) /\ Alive(w)' = Alive(w)
  BY <1>1 DEF Queued, Job, Alive
<1>6. Asked'
  BY <1>1, <1>5 DEF IInv, Asked, Belongs, OfCall
<1>7. Working' /\ Locked'
  BY <1>1, <1>5 DEF IInv, Working, Locked, AtWorkOk
<1>8. \A c \in Calls : FreshKey(c)' = FreshKey(c) /\ Launching(c)' = Launching(c)
                       /\ Backend(c)' = Backend(c) /\ RefusedForAReason(c)' = RefusedForAReason(c)
  BY <1>1 DEF FreshKey, Own, Launching, Backend, RefusedForAReason
<1>9. Fresh'
  BY <1>1, <1>5, <1>8 DEF IInv, Fresh, Own
<1>10. Apart' /\ Keyed'
  BY <1>1, <1>5, <1>8 DEF IInv, Apart, Keyed
<1>11. Faithful'
  <2>1. \A w \in Workers : \A r \in Queued(w) : Carries(r, w)' = Carries(r, w)
    BY <1>1 DEF Carries
  <2> QED
    BY <1>1, <1>5, <1>8, <2>1 DEF IInv, Faithful
<1> QED
  BY <1>2, <1>3, <1>4, <1>6, <1>7, <1>9, <1>10, <1>11 DEF IInv

\* An adapter may exit at any time.
LEMMA AdapterExitsInv ==
    ASSUME IInv, NEW i \in Sessions, AdapterExits(i), UNCHANGED <<callVars, agentVars>>
    PROVE  IInv'
<1>1. i \in 1..spawned
  <2>1. ASSUME NEW k \in Keys, pool[k] = i
        PROVE  i \in 1..spawned
    BY <2>1, WorkersApart DEF IInv, SessionTypes
  <2>2. ASSUME NEW w \in Workers, ref[w] = i
        PROVE  i \in 1..spawned
    BY <2>2, WorkersApart DEF IInv, Working, AtWorkOk
  <2> QED
    BY <2>1, <2>2 DEF AdapterExits
<1>2. exited' \subseteq 1..spawned
  BY <1>1 DEF AdapterExits, IInv, SessionTypes
<1> QED
  BY <1>2, Unmoved DEF AdapterExits

\* What leaves keys without their sessions, when nobody is about to start one, keeps it.
LEMMA KeysClose ==
    ASSUME IInv,
           UNCHANGED <<mode, machine, sessLock, spawned, origin, exited, link>>,
           UNCHANGED <<workVars, asks, replyVars, callVars, agentVars>>,
           daemon' \in [up : BOOLEAN, born : 0..MaxDaemons], daemon'.born = daemon.born, daemon'.up => daemon.up,
           poolLock' = None, pool' \in [Keys -> Sessions \cup {None}], \A k \in Keys : pool'[k] \in {None, pool[k]},
           \A w \in Workers : ~(phase[w] = "spawn" /\ Alive(w)' /\ Job(w).kind # "join")
    PROVE  IInv'
<1> USE WorkersApart
<1>1. /\ UNCHANGED <<inbox, phase, ref, answer, ran>>
      /\ UNCHANGED <<script, pc, target, last, clientLock, plan, step, doing, made, handles>>
  BY DEF workVars, replyVars, callVars, agentVars
<1>2. Chosen' /\ SessionTypes' /\ WorkTypes' /\ CallTypes' /\ AgentTypes'
  BY <1>1 DEF IInv, Chosen, SessionTypes, WorkTypes, CallTypes, AgentTypes
<1>3. Linked'
  BY <1>1 DEF IInv, Linked
<1>4. Handled'
  BY <1>1 DEF IInv, Handled, HandleOk, Op
<1>5. \A w \in Workers : Queued(w)' = Queued(w) /\ Job(w)' = Job(w)
  BY <1>1 DEF Queued, Job
<1>6. Asked'
  BY <1>1, <1>5 DEF IInv, Asked, Belongs, OfCall
<1>7. Working' /\ Locked'
  BY <1>1, <1>5 DEF IInv, Working, Locked, AtWorkOk
<1>8. \A c \in Calls : /\ Launching(c)' = Launching(c)
                       /\ Backend(c)' = Backend(c) /\ RefusedForAReason(c)' = RefusedForAReason(c)
  BY <1>1 DEF Launching, Backend, RefusedForAReason
<1>9. \A c \in Calls : PoolKey(target[c]) \in Keys /\ FreshKey(c) => FreshKey(c)'
  BY <1>1 DEF FreshKey, Own
<1>10. ASSUME NEW c \in Calls, Launching(c), pc[c] = "invoke" \/ (pc[c] = "spawning" /\ answer[c] = "ok")
       PROVE  FreshKey(c)'
  <2>1. PoolKey(target[c]) \in Keys
    BY <1>10 DEF IInv, CallTypes
  <2> QED
    BY <1>9, <1>10, <2>1 DEF IInv, Fresh
<1>11. ASSUME NEW c \in Calls, Launching(c), NEW w \in Workers, NEW r \in Queued(w), r.who = c, r.kind = "op"
       PROVE  FreshKey(c)'
  <2>1. OfCall(r)
    BY <1>11, CallJob DEF IInv
  <2>2. PoolKey(target[c]) \in Keys
    BY <1>11, <2>1 DEF OfCall, IInv, CallTypes
  <2> QED
    BY <1>9, <1>11, <2>2 DEF IInv, Fresh
<1>12. Fresh'
  BY <1>1, <1>5, <1>8, <1>10, <1>11 DEF IInv, Fresh, Own
<1>13. Apart' /\ Keyed'
  BY <1>1, <1>5, <1>8 DEF IInv, Apart, Keyed
<1>14. Faithful'
  <2>1. \A w \in Workers : \A r \in Queued(w) : Carries(r, w)' = Carries(r, w)
    BY <1>1 DEF Carries
  <2> QED
    BY <1>1, <1>5, <1>8, <2>1 DEF IInv, Faithful
<1> QED
  BY <1>2, <1>3, <1>4, <1>6, <1>7, <1>12, <1>13, <1>14 DEF IInv

\* The daemon reaps while nobody holds the mutex of its pool, so nobody is replacing a session.
LEMMA ReapInv ==
    ASSUME IInv, Reap, UNCHANGED <<callVars, agentVars>>
    PROVE  IInv'
<1> USE WorkersApart
<1>1. /\ UNCHANGED <<mode, machine, daemon, sessLock, spawned, origin, exited, link, workVars, asks, replyVars>>
      /\ poolLock = None /\ poolLock' = None
  BY DEF Reap
<1>2. pool' \in [Keys -> Sessions \cup {None}] /\ \A k \in Keys : pool'[k] \in {None, pool[k]}
  <2>1. PICK quiet : pool' = [k \in Keys |-> IF k \in quiet THEN None ELSE pool[k]]
    BY DEF Reap
  <2> QED
    BY <2>1 DEF IInv, SessionTypes
<1>3. \A w \in Workers : ~(phase[w] = "spawn" /\ Alive(w)' /\ Job(w).kind # "join")
  <2>1. \A w \in Workers : Alive(w)' = Alive(w)
    BY <1>1 DEF Alive
  <2> QED
    BY <1>1, <2>1 DEF IInv, Fresh
<1>4. daemon' \in [up : BOOLEAN, born : 0..MaxDaemons] /\ daemon'.born = daemon.born /\ (daemon'.up => daemon.up)
  BY <1>1 DEF IInv, SessionTypes
<1> QED
  BY <1>1, <1>2, <1>3, <1>4, KeysClose

\* What goes with a daemon are keys, and the task that held their mutex.
LEMMA DaemonEndsInv ==
    ASSUME IInv, DaemonEnds, UNCHANGED <<callVars, agentVars>>
    PROVE  IInv'
<1> USE WorkersApart
<1>1. /\ UNCHANGED <<mode, machine, sessLock, spawned, origin, exited, link, workVars, asks, replyVars>>
      /\ daemon.up /\ daemon' = [daemon EXCEPT !.up = FALSE] /\ pool' = [k \in Keys |-> None] /\ poolLock' = None
  BY DEF DaemonEnds
<1>2. daemon' \in [up : BOOLEAN, born : 0..MaxDaemons] /\ ~daemon'.up /\ daemon'.born = daemon.born
  BY <1>1 DEF IInv, SessionTypes
<1>3. ASSUME NEW w \in Workers, phase[w] = "spawn", Alive(w)', Job(w).kind # "join"
      PROVE  FALSE
  <2>1. link[w] = 0
    BY <1>1, <1>2, <1>3 DEF Alive
  <2>2. inbox[w] # <<>> /\ Job(w).kind \in {"launch", "replace"}
    BY <1>3 DEF IInv, Working, AtWorkOk
  <2>3. mode = "daemon" /\ w \notin Calls /\ w # Conn
    BY <1>1, <2>1, <2>2 DEF IInv, Chosen, Linked
  <2>4. Belongs(Job(w), w)
    BY <2>2, JobOk DEF IInv
  <2> QED
    BY <2>1, <2>2, <2>3, <2>4 DEF Belongs
<1>4. pool' \in [Keys -> Sessions \cup {None}] /\ \A k \in Keys : pool'[k] \in {None, pool[k]}
  BY <1>1
<1> QED
  BY <1>1, <1>2, <1>3, <1>4, KeysClose

----------------------------------------------------------------------------
(* What the callers' steps have in common. *)

\* A connection is to a daemon that is up; one that has ended stays gone.
LEMMA Connecting ==
    ASSUME SessionTypes, Linked, NEW w \in Workers, ConnectOrStart(w)
    PROVE  /\ daemon' \in [up : BOOLEAN, born : 0..MaxDaemons] /\ daemon'.up /\ daemon'.born > 0
           /\ link' \in [Workers -> 0..MaxDaemons] /\ link'[w] # 0 /\ link'[w] = daemon'.born
           /\ \A v \in Workers : v # w => link'[v] = link[v] /\ (Alive(v)' => Alive(v))
           /\ \A v \in Workers : link'[v] <= daemon'.born
<1> USE WorkersApart
<1>1. daemon \in [up : BOOLEAN, born : 0..MaxDaemons] /\ link \in [Workers -> 0..MaxDaemons]
  BY DEF SessionTypes
<1>2. /\ daemon' = [up |-> TRUE, born |-> IF daemon.up THEN daemon.born ELSE daemon.born + 1]
      /\ daemon.up \/ daemon.born < MaxDaemons
      /\ link' = [link EXCEPT ![w] = daemon'.born]
  BY DEF ConnectOrStart
<1>3. /\ daemon'.up /\ daemon'.born = (IF daemon.up THEN daemon.born ELSE daemon.born + 1)
      /\ daemon'.born \in 0..MaxDaemons /\ daemon'.born > 0 /\ daemon.born <= daemon'.born
  BY <1>1, <1>2 DEF Linked
<1>4. daemon' \in [up : BOOLEAN, born : 0..MaxDaemons]
  BY <1>2, <1>3
<1>5. link' \in [Workers -> 0..MaxDaemons] /\ link'[w] = daemon'.born /\ \A v \in Workers : v # w => link'[v] = link[v]
  BY <1>1, <1>2, <1>3
<1>6. \A v \in Workers : link'[v] <= daemon'.born
  BY <1>1, <1>3, <1>5 DEF Linked
<1>7. ASSUME NEW v \in Workers, v # w, Alive(v)'
      PROVE  Alive(v)
  <2>1. link[v] = 0 \/ link[v] = daemon'.born
    BY <1>5, <1>7 DEF Alive
  <2>2. link[v] <= daemon.born
    BY DEF Linked
  <2> QED
    BY <1>1, <1>3, <2>1, <2>2 DEF Alive
<1> QED
  BY <1>3, <1>4, <1>5, <1>6, <1>7

\* A request that joins a queue finds the worker where it was.
LEMMA AskWorking ==
    ASSUME WorkTypes, Working, NEW w \in Workers, NEW r \in Requests,
           inbox' = [inbox EXCEPT ![w] = Append(@, r)], UNCHANGED <<phase, ref>>,
           spawned \in Nat, spawned' \in Nat, spawned <= spawned'
    PROVE  Working' /\ \A v \in Workers : phase[v] # "idle" => inbox[v] # <<>> /\ Job(v)' = Job(v)
<1>1. /\ \A v \in Workers : v # w => inbox'[v] = inbox[v]
      /\ inbox'[w] # <<>> /\ Job(w)' = IF inbox[w] = <<>> THEN r ELSE Job(w)
  BY Appended
<1>2. \A v \in Workers : v # w => Job(v)' = Job(v)
  BY <1>1 DEF Job
<1>3. \A v \in Workers : phase[v] # "idle" => inbox[v] # <<>> /\ Job(v)' = Job(v)
  BY <1>1, <1>2 DEF Working, AtWorkOk
<1>4. ASSUME NEW v \in Workers
      PROVE  AtWorkOk(v)'
  <2>1. AtWorkOk(v) /\ phase'[v] = phase[v] /\ ref'[v] = ref[v]
    BY DEF Working
  <2>2. CASE phase[v] = "idle"
    BY <2>1, <2>2 DEF AtWorkOk
  <2>3. CASE phase[v] # "idle"
    <3>1. Job(v)' = Job(v) /\ inbox'[v] # <<>>
      BY <1>1, <1>3, <2>3
    <3> QED
      BY <2>1, <2>3, <3>1 DEF AtWorkOk
  <2> QED
    BY <2>2, <2>3
<1> QED
  BY <1>3, <1>4 DEF Working

----------------------------------------------------------------------------
(* Tool calls. *)

CallMove(c) == CallStep(c) /\ UNCHANGED agentVars

Busy == {"connect", "spawn", "invoke", "spawning", "wait"}

\* How a call goes on, apart from its requests and its connection.
Onward(c) ==
    /\ UNCHANGED <<mode, machine, pool, poolLock, sessLock, spawned, origin, exited, phase, ref, ran>>
    /\ UNCHANGED <<script, plan, step, doing, made, handles>>
    /\ pc' \in [Calls -> {"idle", "connect", "spawn", "invoke", "spawning", "wait", "done", "refused"}]
    /\ \A d \in Calls : d # c => pc'[d] = pc[d]
    /\ answer' \in [Callers -> {None, "waiting", "ok", "failed", "refused"}]
    /\ \A d \in Callers : d # c => answer'[d] = answer[d]
    /\ answer'[c] \in {answer[c], None, "waiting"}
    /\ clientLock' \in Calls \cup {None} /\ (clientLock' \in {clientLock, None} \/ pc[c] \in {"spawn", "invoke"})
    /\ last' \in {last, None} \/ (last' = target[c] /\ pc[c] = "wait")
    /\ \/ target' = target
       \/ /\ pc[c] = "idle" /\ ~Rejected(c) /\ Target(c) # None
          /\ target' = [target EXCEPT ![c] = Target(c)]
    /\ pc'[c] # "idle"
    /\ pc[c] \in {"wait", "done", "refused"} => pc'[c] \in {"done", "refused"}
    /\ pc[c] \in {"spawning", "invoke"} => pc'[c] \in {"invoke", "wait", "done", "refused"}
    /\ pc'[c] = "refused" => Rejected(c) \/ answer[c] = "refused"
    /\ pc'[c] \in Busy =>
         \/ pc[c] \in Busy /\ target' = target
         \/ ~Rejected(c) /\ target'[c] = Target(c) /\ Target(c) # None
    /\ (pc'[c] = "invoke" /\ Launching(c)) => pc[c] = "spawning" /\ answer[c] = "ok"
    /\ pc'[c] = "spawning" => answer'[c] = "waiting"
    /\ IF mode = "in_process" THEN pc'[c] \in {"wait", "done", "refused"}
       ELSE pc'[c] \in {"spawn", "invoke", "spawning", "wait"} => link'[Conn] # 0

\* A call that moves on without a request leaves the others alone.
LEMMA CallOnward ==
    ASSUME Chosen, SessionTypes, WorkTypes, CallTypes, Linked, NEW c \in Calls, CallMove(c)
    PROVE  Onward(c)
<1> USE WorkersApart DEF Callers
<1>1. /\ UNCHANGED <<plan, step, doing, made, handles>>
      /\ mode \in {"in_process", "daemon"} /\ (mode = "in_process" => pc[c] \in {"idle", "wait", "done", "refused"})
      /\ mode = "daemon" /\ pc[c] \in {"spawn", "invoke", "spawning", "wait"} => link[Conn] # 0
      /\ pc \in [Calls -> {"idle", "connect", "spawn", "invoke", "spawning", "wait", "done", "refused"}]
      /\ answer \in [Callers -> {None, "waiting", "ok", "failed", "refused"}]
      /\ DOMAIN target = Calls /\ clientLock \in Calls \cup {None}
  BY DEF CallMove, agentVars, Chosen, Linked, CallTypes, WorkTypes
<1>2. ASSUME Stay
      PROVE  /\ UNCHANGED <<mode, machine, pool, poolLock, sessLock, spawned, origin, exited, phase, ref, ran, script>>
             /\ UNCHANGED <<daemon, link>>
  BY <1>2 DEF Stay, sessionVars
<1>3. ASSUME NEW p, Move(c, p)
      PROVE  pc'[c] = p /\ \A d \in Calls : d # c => pc'[d] = pc[d]
  BY <1>1, <1>3 DEF Move
<1>4. ASSUME Taken(c)
      PROVE  /\ answer' \in [Callers -> {None, "waiting", "ok", "failed", "refused"}] /\ answer'[c] = None
             /\ \A d \in Callers : d # c => answer'[d] = answer[d]
  BY <1>1, <1>4 DEF Taken
<1>5. ASSUME NEW w, NEW r, Ask(c, w, r)
      PROVE  /\ answer' \in [Callers -> {None, "waiting", "ok", "failed", "refused"}] /\ answer'[c] = "waiting"
             /\ \A d \in Callers : d # c => answer'[d] = answer[d]
  BY <1>1, <1>5 DEF Ask
<1>6. ASSUME UNCHANGED <<target, last, clientLock, answer>>, Stay, pc[c] \in {"idle", "connect", "spawn", "invoke"},
             Move(c, "done") \/ (Move(c, "refused") /\ Rejected(c))
      PROVE  Onward(c)
  BY <1>1, <1>2, <1>3, <1>6 DEF Onward, Busy, Move
<1>7. CASE Reject(c)
  BY <1>6, <1>7 DEF Reject, Begins
<1>8. CASE NoSession(c)
  BY <1>6, <1>8 DEF NoSession, Begins
<1>9. CASE Call(c)
  <2>1. /\ pc[c] = "idle" /\ ~Rejected(c) /\ Target(c) # None /\ Stay /\ UNCHANGED <<last, clientLock>>
        /\ target' = [target EXCEPT ![c] = Target(c)] 
    BY <1>9 DEF Call, Begins
  <2>2. target'[c] = Target(c)
    BY <1>1, <2>1
  <2>3. CASE mode = "in_process" /\ Move(c, "wait") /\ \E r : Ask(c, c, r)
    BY <1>1, <1>2, <1>3, <1>5, <2>1, <2>2, <2>3 DEF Onward, Busy, Move
  <2>4. CASE mode = "daemon" /\ Move(c, "connect") /\ UNCHANGED answer
    BY <1>1, <1>2, <1>3, <2>1, <2>2, <2>4 DEF Onward, Busy, Move
  <2> QED
    BY <1>1, <1>9, <2>3, <2>4 DEF Call
<1>10. Launching(c) => Reach(c) = "spawn"
  BY DEF Launching, Reach
<1>11. Reach(c) \in {"spawn", "invoke"}
  BY DEF Reach
<1>12. CASE Connected(c)
  BY <1>1, <1>2, <1>3, <1>10, <1>11, <1>12 DEF Connected, Onward, Busy, Move
<1>13. CASE Connect(c)
  <2>1. link'[Conn] # 0
    BY <1>13, Connecting DEF Connect, Workers
  <2>2. /\ UNCHANGED <<mode, machine, pool, poolLock, sessLock, spawned, origin, exited, phase, ref, ran, answer>>
        /\ UNCHANGED <<script, target, last, clientLock>> /\ Move(c, Reach(c)) /\ pc[c] = "connect"
    BY <1>13 DEF Connect, sessionVars, workVars, replyVars
  <2> QED
    BY <1>1, <1>3, <1>10, <1>11, <2>1, <2>2 DEF Onward, Busy, Move
<1>14. CASE ConnectFails(c)
  BY <1>6, <1>14 DEF ConnectFails
<1>15. CASE Send(c)
  <2>1. /\ pc[c] \in {"spawn", "invoke"} /\ clientLock' = c /\ Stay /\ UNCHANGED <<target, last>>
        /\ \E r : Ask(c, Conn, r) /\ Move(c, IF pc[c] = "spawn" THEN "spawning" ELSE "wait")
    BY <1>15 DEF Send
  <2>2. UNCHANGED <<mode, machine, pool, poolLock, sessLock, spawned, origin, exited, phase, ref, ran, script, link>>
    BY <1>2, <2>1
  <2>3. pc'[c] = (IF pc[c] = "spawn" THEN "spawning" ELSE "wait") /\ \A d \in Calls : d # c => pc'[d] = pc[d]
    BY <1>3, <2>1
  <2>4. /\ answer' \in [Callers -> {None, "waiting", "ok", "failed", "refused"}] /\ answer'[c] = "waiting"
        /\ \A d \in Callers : d # c => answer'[d] = answer[d]
    BY <1>5, <2>1
  <2>5. pc' \in [Calls -> {"idle", "connect", "spawn", "invoke", "spawning", "wait", "done", "refused"}]
    BY <1>1, <2>1 DEF Move
  <2> QED
    BY <1>1, <2>1, <2>2, <2>3, <2>4, <2>5 DEF Onward, Busy
<1>16. CASE SendFails(c)
  BY <1>6, <1>16 DEF SendFails
<1>17. CASE Spawned(c)
  <2>1. /\ pc[c] = "spawning" /\ answer[c] = "ok" /\ Unlock(c) /\ Taken(c) /\ Move(c, "invoke") /\ Stay
        /\ UNCHANGED <<target, last>>
    BY <1>17 DEF Spawned
  <2> QED
    BY <1>1, <1>2, <1>3, <1>4, <2>1 DEF Unlock, Onward, Busy, Move
<1>18. ASSUME Unlock(c), Taken(c), NEW p \in {"done", "refused"}, Move(c, p), p = "refused" => answer[c] = "refused",
              last' \in {last, None} \/ (last' = target[c] /\ pc[c] = "wait"), UNCHANGED target, Stay
       PROVE  Onward(c)
  BY <1>1, <1>2, <1>3, <1>4, <1>18 DEF Unlock, Onward, Busy, Move
<1>19. CASE Return(c)
  <2>1. last' \in {last, None} \/ (last' = target[c] /\ pc[c] = "wait")
    BY <1>19 DEF Return
  <2> QED
    BY <1>18, <1>19, <2>1 DEF Return
<1>20. CASE ReturnError(c)
  BY <1>18, <1>20 DEF ReturnError
<1>21. CASE GiveUp(c)
  BY <1>18, <1>21 DEF GiveUp
<1> QED
  BY <1>7, <1>8, <1>9, <1>12, <1>13, <1>14, <1>15, <1>16, <1>17, <1>19, <1>20, <1>21
     DEF CallMove, CallStep, CallBegins, CallWaits, CallReturns

\* A call is rejected for want of an argument its schema requires, or of an adapter.
LEMMA RejectedMeans ==
    ASSUME Chosen, NEW c \in Calls
    PROVE  /\ script[c].tool \in Tools
           /\ Rejected(c) = (\/ ~(Must(script[c].tool) \subseteq script[c].given)
                             \/ Launching(c) /\ Backend(c) = None)
<1>1. script[c].tool \in Tools
  BY DEF Chosen, CallOk
<1>2. Row(c).input = ToolDefinitions[script[c].tool]
  BY <1>1, LocalRows, RemoteRows DEF Row
<1>3. Must(script[c].tool) = Struct[Row(c).input].must
  BY <1>1, <1>2, PayloadCarried
<1> QED
  BY <1>1, <1>3 DEF Rejected, Launching, ParseArgs

\* An operation of dap/invoke takes the arguments it needs.
LEMMA InvokeTakes ==
    ASSUME NEW o \in DOMAIN InvokeOps
    PROVE  InvokeOps[o].must \subseteq InvokeOps[o].all
<1>1. \E m, must, may : InvokeOps[o] = Invoked(m, must, may)
  BY DEF InvokeOps
<1> QED
  BY <1>1 DEF Invoked

\* What a call asks a worker for.
LEMMA RequestOk ==
    ASSUME Chosen, WorkTypes, NEW c \in Calls, NEW kind \in {"launch", "replace", "op"},
           Must(script[c].tool) \subseteq script[c].given, PoolKey(target'[c]) \in Keys
    PROVE  LET r == Request(c, kind)
           IN /\ r \in CallRequests
              /\ r.kind = kind /\ r.key = PoolKey(target'[c]) /\ r.who = c /\ r.id = asks[c] + 1
              /\ r.tool = script[c].tool /\ r.given = script[c].given
              /\ r.with = Carried[r.tool] \cap r.given /\ r.compressor = Shortener[r.tool]
              /\ mode = "in_process" => r.calls = Method(r.tool)
              /\ mode = "daemon" => /\ r.calls \in DOMAIN InvokeOps
                                    /\ InvokeOps[r.calls].method = Method(r.tool)
                                    /\ InvokeOps[r.calls].all = Carried[r.tool]
                                    /\ InvokeOps[r.calls].must \subseteq r.with
<1> DEFINE t == script[c].tool
           g == script[c].given
<1>1. t \in Tools /\ g \in Given
  BY DEF Chosen, CallOk
<1>2. /\ Row(c).input = ToolDefinitions[t] /\ Row(c).with = Carried[t] /\ Row(c).compressor = Shortener[t]
      /\ mode = "in_process" => Row(c).calls = Method(t)
      /\ mode # "in_process" => /\ Row(c).calls \in DOMAIN InvokeOps
                                /\ InvokeOps[Row(c).calls].method = Method(t)
                                /\ InvokeOps[Row(c).calls].all = Carried[t]
                                /\ InvokeOps[Row(c).calls].must \subseteq Struct[ToolDefinitions[t]].must
  BY <1>1, LocalRows, RemoteRows DEF Row
<1>3. Carried[t] \subseteq Struct[ToolDefinitions[t]].all /\ Struct[ToolDefinitions[t]].must \subseteq g
  BY <1>1, PayloadCarried
<1>4. Row(c).with \cap Args(c) = Carried[t] \cap g
  BY <1>2, <1>3 DEF Args, ParseArgs
<1>5. Row(c).calls \in Callees
  BY <1>1, <1>2 DEF Callees
<1>6. Carried[t] \cap g \in Loads /\ Shortener[t] \in Shorteners
  BY <1>1 DEF Loads, Shorteners
<1>7. NextId(c) \in Nat /\ NextId(c) = asks[c] + 1
  BY DEF WorkTypes, NextId, Callers
<1>8. mode = "daemon" => InvokeOps[Row(c).calls].must \subseteq Carried[t] \cap g
  BY <1>2, <1>3, InvokeTakes
<1> HIDE DEF t, g
<1>9. Request(c, kind) = [kind |-> kind, key |-> PoolKey(target'[c]), tool |-> t, given |-> g,
                          calls |-> Row(c).calls, with |-> Carried[t] \cap g, compressor |-> Shortener[t],
                          who |-> c, id |-> NextId(c)]
  BY <1>2, <1>4 DEF Request, t, g
<1>10. Request(c, kind) \in CallRequests
  BY <1>1, <1>5, <1>6, <1>7, <1>9 DEF CallRequests
<1> QED
  BY <1>2, <1>7, <1>8, <1>9, <1>10 DEF t, g

\* The one request a call may make in a step, of itself or of the daemon.
Posts(c, w, kind) ==
    /\ Ask(c, w, Request(c, kind)) /\ link' = link
    /\ Must(script[c].tool) \subseteq script[c].given
    /\ target'[c] # None /\ pc'[c] \in {"wait", "spawning"}
    /\ \/ /\ w = c /\ mode = "in_process" /\ pc'[c] = "wait"
          /\ kind = (IF script[c].tool \in Starts THEN "launch" ELSE "op")
       \/ /\ w = Conn /\ mode = "daemon" /\ link[Conn] # 0
          /\ \/ kind = "replace" /\ pc'[c] = "spawning"
             \/ kind = "op" /\ pc[c] = "invoke" /\ pc'[c] = "wait"

Quiet == inbox' = inbox /\ asks' = asks

\* A call that makes a request makes one that is its own.
LEMMA CallPosts ==
    ASSUME Chosen, CallTypes, Linked, Faithful, NEW c \in Calls, CallMove(c)
    PROVE  /\ Quiet \/ \E w \in {c, Conn}, kind \in {"launch", "replace", "op"} : Posts(c, w, kind)
           /\ \/ daemon' = daemon /\ link' = link
              \/ ConnectOrStart(Conn) /\ link[Conn] = 0 /\ mode = "daemon" /\ Quiet
<1> USE WorkersApart
<1>1. /\ mode \in {"in_process", "daemon"} /\ (mode = "in_process" => pc[c] \in {"idle", "wait", "done", "refused"})
      /\ mode = "daemon" /\ pc[c] \in {"spawn", "invoke", "spawning", "wait"} => link[Conn] # 0
      /\ pc \in [Calls -> {"idle", "connect", "spawn", "invoke", "spawning", "wait", "done", "refused"}]
      /\ DOMAIN target = Calls
  BY DEF Chosen, Linked, CallTypes
<1>2. Stay => daemon' = daemon /\ link' = link
  BY DEF Stay
<1>3. CASE Quiet /\ daemon' = daemon /\ link' = link
  BY <1>3
<1>4. CASE Call(c) /\ mode = "in_process"
  <2> DEFINE kind == IF script[c].tool \in Starts THEN "launch" ELSE "op"
  <2>1. /\ Ask(c, c, Request(c, kind)) /\ Move(c, "wait") /\ ~Rejected(c) /\ Target(c) # None
        /\ target' = [target EXCEPT ![c] = Target(c)] /\ Stay
    BY <1>4 DEF Call
  <2>2. target'[c] # None /\ pc'[c] = "wait" /\ daemon' = daemon /\ link' = link
    BY <1>1, <2>1 DEF Move, Stay
  <2>3. Must(script[c].tool) \subseteq script[c].given
    BY <2>1, RejectedMeans
  <2>4. Posts(c, c, kind)
    BY <1>4, <2>1, <2>2, <2>3 DEF Posts
  <2>5. kind \in {"launch", "replace", "op"}
    OBVIOUS
  <2> HIDE DEF kind
  <2> QED
    BY <2>2, <2>4, <2>5
<1>5. CASE Call(c) /\ mode = "daemon"
  BY <1>3, <1>5 DEF Call, Quiet, Stay
<1>6. CASE Send(c)
  <2> DEFINE kind == IF pc[c] = "spawn" THEN "replace" ELSE "op"
  <2>1. /\ Ask(c, Conn, Request(c, kind)) /\ Stay /\ target' = target /\ pc[c] \in {"spawn", "invoke"}
        /\ Move(c, IF pc[c] = "spawn" THEN "spawning" ELSE "wait")
    BY <1>6 DEF Send
  <2>2. /\ pc'[c] = (IF pc[c] = "spawn" THEN "spawning" ELSE "wait") /\ mode = "daemon"
        /\ target'[c] # None /\ link' = link /\ daemon' = daemon /\ link[Conn] # 0
    BY <1>1, <1>2, <2>1 DEF Move, CallTypes
  <2>3. Must(script[c].tool) \subseteq script[c].given
    BY <2>1 DEF Faithful
  <2>4. Posts(c, Conn, kind)
    BY <2>1, <2>2, <2>3 DEF Posts
  <2>5. kind \in {"launch", "replace", "op"}
    OBVIOUS
  <2> HIDE DEF kind
  <2> QED
    BY <2>2, <2>4, <2>5
<1>7. CASE Connect(c)
  <2>1. ConnectOrStart(Conn) /\ link[Conn] = 0 /\ Quiet
    BY <1>7 DEF Connect, Quiet, workVars
  <2> QED
    BY <1>1, <1>7, <2>1 DEF Connect
<1>8. CASE Reject(c) \/ NoSession(c) \/ Connected(c) \/ ConnectFails(c) \/ SendFails(c)
  BY <1>2, <1>3, <1>8 DEF Reject, NoSession, Connected, ConnectFails, SendFails, Quiet
<1>9. CASE CallReturns(c) \/ GiveUp(c)
  BY <1>2, <1>3, <1>9 DEF CallReturns, Spawned, Return, ReturnError, GiveUp, Quiet
<1> QED
  BY <1>1, <1>4, <1>5, <1>6, <1>7, <1>8, <1>9 DEF CallMove, CallStep, CallBegins, CallWaits

\* A call chooses a session whose key the pool may have.
LEMMA TargetKey ==
    ASSUME Chosen, CallTypes, NEW c \in Calls, ~Rejected(c), Target(c) # None
    PROVE  /\ PoolKey(Target(c)) \in Keys
           /\ Launching(c) => Target(c) = <<Backend(c), script[c].cwd>> /\ Backend(c) # None
<1>1. CallOk(script[c], machine)
  BY DEF Chosen
<1>2. Launching(c) => Backend(c) # None /\ Target(c) = <<Backend(c), script[c].cwd>>
  BY RejectedMeans DEF Target, Launching
<1>3. CASE Launching(c)
  BY <1>1, <1>2, <1>3 DEF CallOk, Launching, Backend
<1>4. CASE ~Launching(c)
  BY <1>1, <1>4 DEF CallOk, Target, Launching, CallTypes
<1> QED
  BY <1>2, <1>3, <1>4

\* What a call's step does to the queues.
QueueStep(c) ==
    /\ inbox' \in [Workers -> Seq(Requests)] /\ asks' \in [Callers -> Nat]
    /\ \A v \in Workers : \A r \in Queued(v)' : r \in Queued(v) \/
         \E kind \in {"launch", "replace", "op"} : Posts(c, v, kind) /\ r = Request(c, kind)
    /\ \A v \in Workers : inbox'[v] = inbox[v] \/ \E kind \in {"launch", "replace", "op"} : Posts(c, v, kind)
    /\ \A v \in Workers : phase[v] # "idle" => inbox[v] # <<>> /\ Job(v)' = Job(v)
    /\ Working'

\* Whatever a call does, requests queue up as before.
LEMMA CallQueues ==
    ASSUME Chosen, SessionTypes, WorkTypes, CallTypes, Linked, Working, Faithful, NEW c \in Calls, CallMove(c),
           Onward(c)
    PROVE  QueueStep(c)
<1> USE WorkersApart
<1>1. UNCHANGED <<phase, ref, spawned>> /\ spawned \in Nat
  BY DEF Onward, SessionTypes
<1>2. CASE Quiet
  <2>1. \A v \in Workers : Queued(v)' = Queued(v) /\ Job(v)' = Job(v)
    BY <1>2 DEF Quiet, Queued, Job
  <2>2. Working'
    BY <1>1, <1>2, <2>1 DEF Working, AtWorkOk, Quiet
  <2>3. \A v \in Workers : phase[v] # "idle" => inbox[v] # <<>>
    BY DEF Working, AtWorkOk
  <2> QED
    BY <1>2, <2>1, <2>2, <2>3 DEF Quiet, QueueStep, WorkTypes
<1>3. ASSUME NEW w \in {c, Conn}, NEW kind \in {"launch", "replace", "op"}, Posts(c, w, kind)
      PROVE  QueueStep(c)
  <2>1. PoolKey(target'[c]) \in Keys
    <3>1. pc'[c] \in Busy
      BY <1>3 DEF Posts, Busy
    <3>2. CASE pc[c] \in Busy /\ target' = target
      BY <1>3, <3>2 DEF Posts, CallTypes
    <3>3. CASE ~Rejected(c) /\ target'[c] = Target(c) /\ Target(c) # None
      BY <3>3, TargetKey
    <3> QED
      BY <3>1, <3>2, <3>3 DEF Onward
  <2>2. Request(c, kind) \in Requests
    BY <1>3, <2>1, RequestOk DEF Posts, Requests
  <2>3. /\ inbox' = [inbox EXCEPT ![w] = Append(@, Request(c, kind))] /\ asks' = [asks EXCEPT ![c] = asks[c] + 1]
        /\ w \in Workers
    BY <1>3 DEF Posts, Ask, NextId
  <2>4. /\ inbox' \in [Workers -> Seq(Requests)]
        /\ \A v \in Workers : v # w => inbox'[v] = inbox[v] /\ Queued(v)' = Queued(v)
        /\ Queued(w)' = Queued(w) \cup {Request(c, kind)}
    BY <2>2, <2>3, Appended
  <2>5. Working' /\ \A v \in Workers : phase[v] # "idle" => inbox[v] # <<>> /\ Job(v)' = Job(v)
    <3> DEFINE r == Request(c, kind)
    <3>1. w \in Workers /\ r \in Requests /\ inbox' = [inbox EXCEPT ![w] = Append(@, r)]
      BY <2>2, <2>3
    <3>2. UNCHANGED <<phase, ref>> /\ spawned \in Nat /\ spawned' \in Nat /\ spawned <= spawned'
      BY <1>1
    <3> HIDE DEF r
    <3> QED
      BY <3>1, <3>2, AskWorking
  <2>6. asks' \in [Callers -> Nat]
    BY <2>3 DEF WorkTypes, Callers
  <2> QED
    BY <1>3, <2>4, <2>5, <2>6 DEF QueueStep
<1> QED
  BY <1>2, <1>3, CallPosts

\* How its connection stands.
LinkStep(c) ==
    /\ daemon' \in [up : BOOLEAN, born : 0..MaxDaemons] /\ link' \in [Workers -> 0..MaxDaemons]
    /\ daemon'.up => daemon'.born > 0
    /\ \A w \in Workers : link'[w] <= daemon'.born
    /\ \A w \in Workers : w # Conn => link'[w] = link[w]
    /\ link[Conn] # 0 => link' = link
    /\ mode = "in_process" => daemon' = daemon /\ link' = link
    /\ \A w \in Workers : phase[w] # "idle" /\ Alive(w)' => Alive(w)
    /\ \A w \in Workers : \A r \in Queued(w)' : (link'[w] = 0) = (link[w] = 0)

\* A call connects the shared client only.
LEMMA CallLinks ==
    ASSUME Chosen, SessionTypes, WorkTypes, CallTypes, Linked, Working, Faithful, NEW c \in Calls, CallMove(c)
    PROVE  LinkStep(c)
<1> USE WorkersApart
<1>1. CASE daemon' = daemon /\ link' = link
  BY <1>1 DEF LinkStep, SessionTypes, Linked, Alive
<1>2. CASE ConnectOrStart(Conn) /\ link[Conn] = 0 /\ mode = "daemon" /\ Quiet
  <2>1. inbox[Conn] = <<>> /\ inbox'[Conn] = <<>>
    BY <1>2 DEF Linked, Quiet
  <2>2. phase[Conn] = "idle" /\ Queued(Conn)' = {}
    BY <2>1 DEF Working, AtWorkOk, Queued
  <2>3. /\ daemon' \in [up : BOOLEAN, born : 0..MaxDaemons] /\ daemon'.up /\ daemon'.born > 0
        /\ link' \in [Workers -> 0..MaxDaemons] /\ link'[Conn] # 0
        /\ \A v \in Workers : v # Conn => link'[v] = link[v] /\ (Alive(v)' => Alive(v))
        /\ \A v \in Workers : link'[v] <= daemon'.born
    BY <1>2, Connecting
  <2> QED
    BY <1>2, <2>2, <2>3 DEF LinkStep
<1> QED
  BY <1>1, <1>2, CallPosts

\* Every step of a call keeps the types.
LEMMA CallTyped ==
    ASSUME Chosen, SessionTypes, WorkTypes, CallTypes, AgentTypes, Linked, Handled, NEW c \in Calls,
           Onward(c), QueueStep(c), LinkStep(c)
    PROVE  Chosen' /\ SessionTypes' /\ WorkTypes' /\ CallTypes' /\ AgentTypes' /\ Handled'
<1> USE WorkersApart
<1>1. /\ UNCHANGED <<mode, machine, pool, poolLock, sessLock, spawned, origin, exited, phase, ref, ran>>
      /\ UNCHANGED <<script, plan, step, doing, made, handles>>
  BY DEF Onward
<1>2. Chosen'
  BY <1>1 DEF Chosen
<1>3. SessionTypes'
  BY <1>1 DEF SessionTypes, LinkStep
<1>4. WorkTypes'
  BY <1>1 DEF WorkTypes, QueueStep, Onward
<1>5. AgentTypes'
  BY <1>1 DEF AgentTypes
<1>6. Handled'
  <2>1. \A w \in AgentWorkers : link'[w] = link[w]
    BY DEF LinkStep
  <2>2. ASSUME NEW a \in Agents, NEW n \in Names
        PROVE  HandleOk(a, n)'
    <3>1. handles[a][n] # None => handles[a][n].at \in AgentWorkers
      BY DEF AgentTypes, Handles
    <3> QED
      BY <1>1, <2>1, <3>1 DEF Handled, HandleOk
  <2>3. ASSUME NEW a \in Agents, doing[a] = "join"
        PROVE  <<a, made[a]>> \in AgentWorkers
    BY <2>3 DEF Handled, AgentTypes, AgentWorkers
  <2>4. \A a \in Agents : Op(a)' = Op(a)
    BY <1>1 DEF Op
  <2> QED
    BY <1>1, <2>1, <2>2, <2>3, <2>4 DEF Handled
<1>7. CallTypes'
  <2>1. DOMAIN target' = Calls
    BY DEF CallTypes, Onward
  <2>2. last' # None => PoolKey(last') \in Keys
    BY DEF CallTypes, Onward
  <2>3. ASSUME NEW d \in Calls
        PROVE  IF target'[d] # None THEN PoolKey(target'[d]) \in Keys ELSE pc'[d] \in {"idle", "done", "refused"}
    <3>1. CASE target'[d] = target[d]
      <4>1. CASE target[d] # None
        BY <3>1, <4>1 DEF CallTypes
      <4>2. CASE target[d] = None /\ d # c
        BY <3>1, <4>2 DEF CallTypes, Onward
      <4>3. CASE target[d] = None /\ d = c
        <5>1. pc[c] \notin Busy
          BY <4>3 DEF CallTypes, Busy
        <5>2. pc'[c] \notin Busy
          BY <3>1, <4>3, <5>1 DEF Onward
        <5> QED
          BY <3>1, <4>3, <5>2 DEF Onward, Busy
      <4> QED
        BY <4>1, <4>2, <4>3
    <3>2. CASE target'[d] # target[d]
      <4>1. d = c /\ ~Rejected(c) /\ Target(c) # None /\ target'[c] = Target(c)
        BY <3>2 DEF Onward, CallTypes
      <4> QED
        BY <4>1, TargetKey
    <3> QED
      BY <3>1, <3>2
  <2> QED
    BY <2>1, <2>2, <2>3 DEF CallTypes, Onward
<1> QED
  BY <1>2, <1>3, <1>4, <1>5, <1>6, <1>7

\* Who is asked for what, and by which connection.
LEMMA CallAsks ==
    ASSUME Chosen, SessionTypes, WorkTypes, CallTypes, Linked, Asked, Faithful, NEW c \in Calls,
           Onward(c), QueueStep(c), LinkStep(c), CallTypes', WorkTypes'
    PROVE  Linked' /\ Asked'
<1> USE WorkersApart
<1>1. UNCHANGED <<mode, script, spawned, made>>
  BY DEF Onward
<1>2. Linked'
  <2>1. mode = "in_process" => clientLock' = None /\ \A d \in Calls : pc'[d] \in {"idle", "wait", "done", "refused"}
    BY DEF Linked, Onward
  <2>2. ASSUME mode = "daemon", NEW d \in Calls
        PROVE  /\ inbox'[d] = <<>>
               /\ pc'[d] \in {"spawn", "invoke", "spawning", "wait"} => link'[Conn] # 0
    <3>1. inbox'[d] = inbox[d]
      BY <2>2 DEF QueueStep, Posts, Chosen
    <3>2. link[Conn] # 0 => link'[Conn] # 0
      BY DEF LinkStep
    <3> QED
      BY <2>2, <3>1, <3>2 DEF Linked, Onward
  <2>3. link'[Conn] = 0 => inbox'[Conn] = <<>>
    <3>1. CASE inbox'[Conn] = inbox[Conn]
      BY <3>1 DEF Linked, LinkStep
    <3>2. CASE \E kind \in {"launch", "replace", "op"} : Posts(c, Conn, kind)
      BY <3>2 DEF Posts
    <3> QED
      BY <3>1, <3>2 DEF QueueStep
  <2>4. ASSUME NEW w \in AgentWorkers
        PROVE  inbox'[w] = inbox[w] /\ link'[w] = link[w]
    BY DEF QueueStep, Posts, LinkStep
  <2>5. mode = "in_process" => ~daemon'.up /\ \A w \in Workers : link'[w] = 0
    BY DEF Linked, LinkStep
  <2>6. \A d \in Calls : link'[d] = 0
    BY DEF Linked, LinkStep
  <2> QED
    BY <1>1, <2>1, <2>2, <2>3, <2>4, <2>5, <2>6 DEF Linked, LinkStep
<1>3. ASSUME NEW w \in Workers, NEW r \in Queued(w)'
      PROVE  Belongs(r, w)'
  <2>1. CASE r \in Queued(w)
    <3>1. Belongs(r, w)
      BY <2>1 DEF Asked
    <3>2. w # Conn => link'[w] = link[w]
      BY DEF LinkStep
    <3>3. OfCall(r) => OfCall(r)'
      <4>1. SUFFICES ASSUME OfCall(r) PROVE OfCall(r)'
        OBVIOUS
      <4>2. r.who \in Calls
        BY <4>1 DEF OfCall, CallRequests
      <4>3. target'[r.who] = target[r.who]
        BY <4>1, <4>2 DEF OfCall, Onward, CallTypes
      <4>4. pc'[r.who] \in (IF r.kind = "replace" THEN {"spawning", "invoke", "wait", "done", "refused"}
                            ELSE {"wait", "done", "refused"})
        BY <4>1, <4>2 DEF OfCall, Onward
      <4> QED
        BY <1>1, <4>1, <4>3, <4>4 DEF OfCall
    <3> QED
      BY <1>1, <3>1, <3>2, <3>3 DEF Belongs
  <2>2. ASSUME NEW kind \in {"launch", "replace", "op"}, Posts(c, w, kind), r = Request(c, kind)
        PROVE  Belongs(r, w)'
    <3>1. PoolKey(target'[c]) \in Keys /\ Must(script[c].tool) \subseteq script[c].given
      BY <2>2 DEF Posts, CallTypes
    <3>2. /\ r \in CallRequests /\ r.kind = kind /\ r.key = PoolKey(target'[c]) /\ r.who = c
          /\ r.tool = script[c].tool /\ r.given = script[c].given
      BY <2>2, <3>1, RequestOk
    <3>3. OfCall(r)'
      BY <1>1, <2>2, <3>2 DEF OfCall, Posts
    <3>4. w \in {c, Conn}
      BY <2>2 DEF Posts
    <3> QED
      BY <1>1, <2>2, <3>2, <3>3, <3>4 DEF Belongs, Posts
  <2> QED
    BY <2>1, <2>2 DEF QueueStep
<1> QED
  BY <1>2, <1>3 DEF Asked

\* A request in a queue is of a call that has chosen its session.
LEMMA CallSettled ==
    ASSUME CallTypes, Asked, NEW c \in Calls, Onward(c), NEW w \in Workers, NEW r \in Queued(w), r.who \in Calls
    PROVE  target'[r.who] = target[r.who]
<1>1. pc[r.who] # "idle"
  BY CallJob DEF OfCall
<1> QED
  BY <1>1 DEF Onward, CallTypes

\* Every step of a call keeps launches fresh.
LEMMA CallFresh ==
    ASSUME Chosen, SessionTypes, WorkTypes, CallTypes, Linked, Asked, Working, Locked, Fresh, Apart, Keyed,
           NEW c \in Calls, Onward(c), QueueStep(c), LinkStep(c), CallTypes'
    PROVE  Locked' /\ Fresh' /\ Apart' /\ Keyed'
<1> USE WorkersApart
<1>1. UNCHANGED <<mode, machine, script, pool, poolLock, sessLock, spawned, origin, phase, ref, ran>> /\ spawned \in Nat
  BY DEF Onward, SessionTypes
<1>2. Locked'
  BY <1>1 DEF Locked, LinkStep
<1>3. \A d \in Calls : Launching(d)' = Launching(d)
  BY <1>1 DEF Launching
<1>4. Apart'
  BY <1>1, <1>3 DEF Apart
<1>5. \A d \in Calls : target'[d] = target[d] \/ (d = c /\ pc[c] = "idle")
  BY DEF Onward, CallTypes
<1>6. \A d \in Calls : target'[d] = target[d] => FreshKey(d)' = FreshKey(d)
  BY <1>1 DEF FreshKey, Own
<1>7. Keyed'
  <2>1. ASSUME NEW w \in Workers, ref'[w] # None, Job(w)'.kind # "own"
        PROVE  origin'[ref'[w]].key = Job(w)'.key
    <3>1. phase[w] # "idle"
      BY <1>1, <2>1 DEF Working, AtWorkOk
    <3>2. Job(w)' = Job(w)
      BY <3>1 DEF QueueStep
    <3> QED
      BY <1>1, <2>1, <3>2 DEF Keyed
  <2>2. \A d \in Calls : ran[d] # None => target'[d] = target[d]
    BY <1>5 DEF Fresh
  <2> QED
    BY <1>1, <2>1, <2>2 DEF Keyed
<1>8. ASSUME NEW w \in Workers, phase'[w] = "spawn", Alive(w)', Job(w)'.kind # "join"
      PROVE  poolLock' = w /\ pool'[Job(w)'.key] = None
  <2>1. Job(w)' = Job(w) /\ phase[w] = "spawn" /\ Alive(w)
    BY <1>1, <1>8 DEF QueueStep, LinkStep
  <2> QED
    BY <1>1, <1>8, <2>1 DEF Fresh
<1>9. ASSUME NEW d \in Calls, Launching(d), pc'[d] = "invoke" \/ (pc'[d] = "spawning" /\ answer'[d] = "ok")
      PROVE  FreshKey(d)'
  <2>1. CASE d # c
    <3>1. pc'[d] = pc[d] /\ answer'[d] = answer[d] /\ target'[d] = target[d]
      BY <2>1 DEF Onward, Callers, CallTypes
    <3> QED
      BY <1>6, <1>9, <3>1 DEF Fresh
  <2>2. CASE d = c
    <3>1. pc'[c] = "invoke"
      BY <1>9, <2>2 DEF Onward
    <3>2. pc[c] = "spawning" /\ answer[c] = "ok"
      BY <1>9, <2>2, <3>1 DEF Onward
    <3>3. target'[c] = target[c]
      BY <3>2 DEF Onward
    <3> QED
      BY <1>6, <1>9, <2>2, <3>2, <3>3 DEF Fresh
  <2> QED
    BY <2>1, <2>2
<1>10. ASSUME NEW d \in Calls, Launching(d), NEW w \in Workers, NEW r \in Queued(w)', r.who = d, r.kind = "op"
       PROVE  FreshKey(d)'
  <2>1. CASE r \in Queued(w)
    BY <1>6, <1>10, <2>1, CallSettled DEF Fresh
  <2>2. ASSUME NEW kind \in {"launch", "replace", "op"}, Posts(c, w, kind), r = Request(c, kind)
        PROVE  FreshKey(d)'
    <3>1. r.kind = kind /\ r.who = c
      BY <2>2 DEF Request
    <3>2. d = c /\ pc[c] = "invoke"
      BY <1>10, <2>2, <3>1 DEF Posts, Launching
    <3>3. target'[c] = target[c]
      BY <3>2 DEF Onward
    <3> QED
      BY <1>6, <1>10, <3>2, <3>3 DEF Fresh
  <2> QED
    BY <2>1, <2>2 DEF QueueStep
<1>11. ASSUME NEW d \in Calls, Launching(d), NEW w \in Workers, inbox'[w] # <<>>, Job(w)'.who = d, ref'[w] # None
       PROVE  Own(d, ref[w])
  <2>1. phase[w] # "idle"
    BY <1>1, <1>11 DEF Working, AtWorkOk
  <2>2. inbox[w] # <<>> /\ Job(w)' = Job(w)
    BY <2>1 DEF QueueStep
  <2> QED
    BY <1>1, <1>11, <2>2 DEF Fresh
<1>12. ASSUME NEW d \in Calls, ran'[d] # None
       PROVE  /\ pc'[d] # "idle" /\ ran'[d].tool = script'[d].tool /\ ran'[d].on \in 1..spawned'
              /\ Launching(d) => Own(d, ran[d].on)
  <2>1. pc[d] # "idle" /\ ran[d].tool = script[d].tool /\ ran[d].on \in 1..spawned
    BY <1>1, <1>12 DEF Fresh
  <2>2. pc'[d] # "idle"
    BY <2>1 DEF Onward
  <2> QED
    BY <1>1, <1>12, <2>1, <2>2 DEF Fresh
<1>13. Fresh'
  BY <1>1, <1>3, <1>8, <1>9, <1>10, <1>11, <1>12 DEF Fresh, Own
<1> QED
  BY <1>2, <1>4, <1>7, <1>13

\* Every step of a call keeps what tools mean.
LEMMA CallFaithful ==
    ASSUME Chosen, WorkTypes, CallTypes, Linked, Faithful, NEW c \in Calls,
           Onward(c), QueueStep(c), LinkStep(c), CallTypes', Linked'
    PROVE  Faithful'
<1> USE WorkersApart DEF Callers
<1>1. UNCHANGED <<mode, machine, script, ran, plan>>
  BY DEF Onward
<1>2. ASSUME NEW w \in Workers, NEW r \in Queued(w)', r.kind # "join"
      PROVE  Carries(r, w)'
  <2>1. CASE r \in Queued(w)
    <3>1. Carries(r, w)
      BY <1>2, <2>1 DEF Faithful
    <3>2. (link'[w] = 0) = (link[w] = 0)
      BY DEF LinkStep
    <3> QED
      BY <1>1, <3>1, <3>2 DEF Carries
  <2>2. ASSUME NEW kind \in {"launch", "replace", "op"}, Posts(c, w, kind), r = Request(c, kind)
        PROVE  Carries(r, w)'
    <3>1. PoolKey(target'[c]) \in Keys /\ Must(script[c].tool) \subseteq script[c].given
      BY <2>2 DEF Posts, CallTypes
    <3>2. /\ r.who = c /\ r.with = Carried[r.tool] \cap r.given /\ r.compressor = Shortener[r.tool]
          /\ mode = "in_process" => r.calls = Method(r.tool)
          /\ mode = "daemon" => /\ r.calls \in DOMAIN InvokeOps
                                /\ InvokeOps[r.calls].method = Method(r.tool)
                                /\ InvokeOps[r.calls].all = Carried[r.tool]
                                /\ InvokeOps[r.calls].must \subseteq r.with
      BY <2>2, <3>1, RequestOk
    <3>3. IF mode = "in_process" THEN link'[w] = 0 ELSE link'[w] # 0 /\ mode = "daemon"
      BY <1>1, <2>2 DEF Posts, Linked
    <3> QED
      BY <3>2, <3>3 DEF Carries
  <2> QED
    BY <2>1, <2>2 DEF QueueStep
<1>3. \A d \in Calls : Backend(d)' = Backend(d) /\ Launching(d)' = Launching(d)
  BY <1>1 DEF Backend, Launching
<1>4. ASSUME NEW d \in Calls, d # c
      PROVE  /\ answer'[d] # "refused" /\ RefusedForAReason(d)'
             /\ pc'[d] \in Busy => Must(script[d].tool) \subseteq script[d].given
             /\ (Launching(d) /\ target'[d] # None) => target'[d] = <<Backend(d), script[d].cwd>> /\ Backend(d) # None
  <2>1. pc'[d] = pc[d] /\ answer'[d] = answer[d] /\ target'[d] = target[d]
    BY <1>4 DEF Onward, CallTypes
  <2> QED
    BY <1>1, <1>3, <2>1 DEF Faithful, RefusedForAReason, Busy
<1>5. answer'[c] # "refused"
  BY WorkerConstants DEF Onward, Faithful
<1>6. pc'[c] \in Busy => Must(script[c].tool) \subseteq script[c].given
  BY RejectedMeans DEF Onward, Faithful, Busy
<1>7. RefusedForAReason(c)'
  <2>1. pc'[c] = "refused" => Rejected(c)
    BY DEF Onward, Faithful
  <2> QED
    BY <1>1, <1>3, <2>1, RejectedMeans DEF RefusedForAReason, Launching
<1>8. (Launching(c) /\ target'[c] # None) => target'[c] = <<Backend(c), script[c].cwd>> /\ Backend(c) # None
  <2>1. CASE target'[c] = target[c]
    BY <2>1 DEF Faithful
  <2>2. CASE target'[c] # target[c]
    <3>1. ~Rejected(c) /\ Target(c) # None /\ target'[c] = Target(c)
      BY <2>2 DEF Onward, CallTypes
    <3> QED
      BY <3>1, TargetKey
  <2> QED
    BY <2>1, <2>2
<1>9. \A d \in Calls :
        /\ answer'[d] # "refused" /\ RefusedForAReason(d)'
        /\ pc'[d] \in Busy => Must(script'[d].tool) \subseteq script'[d].given
        /\ (Launching(d)' /\ target'[d] # None) => target'[d] = <<Backend(d)', script'[d].cwd>> /\ Backend(d)' # None
  BY <1>1, <1>3, <1>4, <1>5, <1>6, <1>7, <1>8
<1> QED
  BY <1>1, <1>2, <1>9 DEF Faithful, Busy

\* Every step of a call keeps the invariant.
LEMMA CallInv ==
    ASSUME IInv, NEW c \in Calls, CallMove(c)
    PROVE  IInv'
<1>1. Onward(c)
  BY CallOnward DEF IInv
<1>2. QueueStep(c) /\ LinkStep(c)
  BY <1>1, CallQueues, CallLinks DEF IInv
<1>3. Chosen' /\ SessionTypes' /\ WorkTypes' /\ CallTypes' /\ AgentTypes' /\ Handled'
  BY <1>1, <1>2, CallTyped DEF IInv
<1>4. Linked' /\ Asked'
  BY <1>1, <1>2, <1>3, CallAsks DEF IInv
<1>5. Working' /\ Locked' /\ Fresh' /\ Apart' /\ Keyed'
  BY <1>1, <1>2, <1>3, CallFresh DEF IInv, QueueStep
<1>6. Faithful'
  BY <1>1, <1>2, <1>3, <1>4, CallFaithful DEF IInv
<1> QED
  BY <1>3, <1>4, <1>5, <1>6 DEF IInv

----------------------------------------------------------------------------
(* Agents. *)

AgentMove(a) == (AgentStep(a) \/ AgentGivesUp(a)) /\ UNCHANGED callVars

\* What an agent has queued or started in a step.
AgentPosts(a) ==
    \/ /\ Quiet /\ UNCHANGED <<daemon, link>> /\ spawned' \in {spawned, spawned + 1} /\ spawned' <= MaxSpawns
    \/ /\ Ask(a, Newest(a), JoinRequest(a)) /\ ConnectOrStart(Newest(a))
       /\ made[a] < MaxAsks /\ made'[a] = made[a] + 1
       /\ mode = "daemon" /\ spawned' = spawned
       /\ Running(a) /\ plan[a].backends[Op(a).name] # None
    \/ \E n \in Names, t \in Tools, g \in Given :
       /\ handles[a][n] # None /\ Ask(a, handles[a][n].at, OpRequest(a, n, t, g))
       /\ UNCHANGED <<daemon, link, spawned>>

\* How it goes on.
AgentOnward(a) ==
    /\ UNCHANGED <<mode, machine, pool, poolLock, sessLock, exited, phase, ref, ran>>
    /\ UNCHANGED <<script, pc, target, last, clientLock, plan>>
    /\ origin' \in [Sessions -> [key : Keys \cup {None}, by : Callers \cup {None}]]
    /\ \A i \in 1..spawned : origin'[i] = origin[i]
    /\ answer' \in [Callers -> {None, "waiting", "ok", "failed", "refused"}]
    /\ \A d \in Callers : d # a => answer'[d] = answer[d]
    /\ AgentTypes'
    /\ \A b \in Agents : made[b] <= made'[b]
    /\ \A b \in Agents : b # a => doing'[b] = doing[b] /\ step'[b] = step[b] /\ made'[b] = made[b]
    /\ AgentPosts(a)

\* A plan names sessions and tools there are.
LEMMA PlannedOp ==
    ASSUME Chosen, AgentTypes, NEW a \in Agents, step[a] <= Len(plan[a].ops)
    PROVE  /\ Op(a).name \in Names /\ Op(a).tool \in Tools /\ Op(a).given \in Given
           /\ plan[a].backends[Op(a).name] \in Keys \cup {None}
<1>1. step[a] \in 1..Len(plan[a].ops)
  BY DEF Chosen, PlanOk, AgentTypes
<1> QED
  BY <1>1, PoolRows DEF Chosen, PlanOk, Op

\* Where an agent is after a step.
LEMMA AgentProgress ==
    ASSUME Chosen, SessionTypes, WorkTypes, AgentTypes, Handled, NEW a \in Agents, AgentMove(a)
    PROVE  AgentOnward(a)
<1> USE WorkersApart DEF Callers
<1>1. /\ step \in [Agents -> Nat \ {0}] /\ made \in [Agents -> 0..MaxAsks]
      /\ doing \in [Agents -> {"idle", "join", "op", "closing", "done"}]
      /\ handles \in [Agents -> [Names -> Handles \cup {None}]]
      /\ answer \in [Callers -> {None, "waiting", "ok", "failed", "refused"}]
  BY DEF AgentTypes, WorkTypes
<1>2. UNCHANGED <<script, pc, target, last, clientLock>>
  BY DEF AgentMove, callVars
<1>3. ASSUME UNCHANGED sessionVars
      PROVE  UNCHANGED <<pool, poolLock, sessLock, spawned, origin, exited>>
  BY <1>3 DEF sessionVars
<1>4. ASSUME NEW d \in {"idle", "join", "op", "closing", "done"}, Act(a, d)
      PROVE  /\ doing' \in [Agents -> {"idle", "join", "op", "closing", "done"}]
             /\ \A b \in Agents : b # a => doing'[b] = doing[b]
  BY <1>1, <1>4 DEF Act
<1>5. ASSUME NextOp(a)
      PROVE  /\ step' \in [Agents -> Nat \ {0}] /\ \A b \in Agents : b # a => step'[b] = step[b]
             /\ doing' \in [Agents -> {"idle", "join", "op", "closing", "done"}]
             /\ \A b \in Agents : b # a => doing'[b] = doing[b]
  BY <1>1, <1>5 DEF NextOp, Act
<1>6. ASSUME NEW x \in {None, "waiting"}, answer' = [answer EXCEPT ![a] = x]
      PROVE  /\ answer' \in [Callers -> {None, "waiting", "ok", "failed", "refused"}]
             /\ \A d \in Callers : d # a => answer'[d] = answer[d]
  BY <1>1, <1>6
<1>7. ASSUME NEW n \in Names, NEW x \in Handles \cup {None}, handles' = [handles EXCEPT ![a][n] = x]
      PROVE  handles' \in [Agents -> [Names -> Handles \cup {None}]]
  BY <1>1, <1>7
<1>8. ASSUME UNCHANGED <<daemon, sessionVars, link, inbox, ref, asks, ran, made>>, Keep,
             answer' = answer \/ answer' = [answer EXCEPT ![a] = None],
             \/ NextOp(a)
             \/ step' = step /\ (doing' = doing \/ \E d \in {"idle", "join", "op", "closing", "done"} : Act(a, d)),
             handles' \in [Agents -> [Names -> Handles \cup {None}]]
      PROVE  AgentOnward(a)
  <2>1. UNCHANGED <<mode, machine, phase, plan, ref, ran, made>> /\ UNCHANGED <<pool, poolLock, sessLock, spawned, origin, exited>>
    BY <1>3, <1>8 DEF Keep
  <2>2. Quiet /\ UNCHANGED <<daemon, link>> /\ spawned <= MaxSpawns
    BY <1>8 DEF Quiet, SessionTypes
  <2>3. AgentPosts(a)
    BY <2>1, <2>2 DEF AgentPosts
  <2>4. /\ answer' \in [Callers -> {None, "waiting", "ok", "failed", "refused"}]
        /\ \A d \in Callers : d # a => answer'[d] = answer[d]
    BY <1>1, <1>6, <1>8
  <2>5. /\ step' \in [Agents -> Nat \ {0}] /\ \A b \in Agents : b # a => step'[b] = step[b]
        /\ doing' \in [Agents -> {"idle", "join", "op", "closing", "done"}]
        /\ \A b \in Agents : b # a => doing'[b] = doing[b]
    BY <1>1, <1>4, <1>5, <1>8
  <2>6. AgentTypes' /\ \A b \in Agents : made[b] <= made'[b] /\ made'[b] = made[b]
    BY <1>1, <1>8, <2>1, <2>5 DEF AgentTypes
  <2> QED
    BY <1>2, <2>1, <2>3, <2>4, <2>5, <2>6 DEF AgentOnward, SessionTypes
<1>9. ASSUME NEW w, NEW r, Ask(a, w, r), AgentPosts(a), AgentTypes', UNCHANGED <<spawned, origin, exited>>,
             UNCHANGED <<ref, ran, pool, poolLock, sessLock>>, Keep,
             \A b \in Agents : /\ made[b] <= made'[b]
                               /\ b # a => doing'[b] = doing[b] /\ step'[b] = step[b] /\ made'[b] = made[b]
      PROVE  AgentOnward(a)
  BY <1>2, <1>6, <1>9 DEF Ask, AgentOnward, Keep, SessionTypes
<1>10. CASE StartFails(a)
  BY <1>1, <1>8, <1>10 DEF StartFails, replyVars
<1>11. CASE OperateFails(a)
  BY <1>1, <1>8, <1>11 DEF OperateFails, replyVars
<1>12. CASE Returned(a)
  BY <1>1, <1>8, <1>12 DEF Returned
<1>13. CASE AgentGivesUp(a)
  BY <1>1, <1>8, <1>13 DEF AgentGivesUp
<1>14. CASE Closed(a)
  BY <1>1, <1>8, <1>14 DEF Closed
<1>15. CASE Drop(a)
  <2>1. handles' \in [Agents -> [Names -> Handles \cup {None}]]
    BY <1>1, <1>15 DEF Drop
  <2> QED
    BY <1>8, <1>15, <2>1 DEF Drop, replyVars
<1>16. CASE ShutDownFails(a)
  <2>1. handles' \in [Agents -> [Names -> Handles \cup {None}]]
    BY <1>7, <1>16 DEF ShutDownFails, Held
  <2> QED
    BY <1>8, <1>16, <2>1 DEF ShutDownFails, replyVars
<1>17. CASE Joined(a)
  <2>1. handles' \in [Agents -> [Names -> Handles \cup {None}]]
    <3>1. doing[a] = "join" /\ handles' = [handles EXCEPT ![a][Op(a).name] = [at |-> <<a, made[a]>>, on |-> None]]
      BY <1>17 DEF Joined, Store
    <3>2. made[a] >= 1 /\ Op(a).name \in Names
      BY <3>1, PlannedOp DEF Handled
    <3>3. [at |-> <<a, made[a]>>, on |-> None] \in Handles
      BY <1>1, <3>2 DEF Handles, AgentWorkers
    <3> QED
      BY <1>7, <3>1, <3>2, <3>3
  <2> QED
    BY <1>8, <1>17, <2>1 DEF Joined
<1>18. CASE StartLocal(a)
  <2>1. /\ Running(a) /\ spawned < MaxSpawns /\ made[a] < MaxAsks /\ spawned' = spawned + 1
        /\ handles' = [handles EXCEPT ![a][Op(a).name] = [at |-> Newest(a), on |-> spawned']]
        /\ made' = [made EXCEPT ![a] = @ + 1] /\ Keep
        /\ UNCHANGED <<step, doing, daemon, pool, poolLock, sessLock, exited, link, inbox, ref, asks, answer, ran>>
    BY <1>18 DEF StartLocal, NoHandle, Store, replyVars
  <2>2. Op(a).name \in Names /\ spawned \in Nat /\ spawned' \in Sessions /\ spawned' <= MaxSpawns
    BY <2>1, PlannedOp DEF Running, SessionTypes, Sessions
  <2>3. Newest(a) \in AgentWorkers
    BY <1>1, <2>1 DEF Newest, AgentWorkers
  <2>4. handles' \in [Agents -> [Names -> Handles \cup {None}]]
    BY <1>7, <2>1, <2>2, <2>3 DEF Handles
  <2>5. /\ made' \in [Agents -> 0..MaxAsks] /\ \A b \in Agents : made[b] <= made'[b]
        /\ \A b \in Agents : b # a => made'[b] = made[b]
    BY <1>1, <2>1
  <2>6. AgentTypes'
    BY <1>1, <2>1, <2>4, <2>5 DEF AgentTypes
  <2>7. AgentPosts(a)
    BY <2>1, <2>2 DEF AgentPosts, Quiet
  <2>8. /\ origin' \in [Sessions -> [key : Keys \cup {None}, by : Callers \cup {None}]]
        /\ \A i \in 1..spawned : origin'[i] = origin[i]
    <3>1. Originates(spawned + 1, plan[a].backends[Op(a).name], a) /\ plan[a].backends[Op(a).name] \in Keys \cup {None}
      BY <1>18, <2>1, PlannedOp DEF StartLocal, Running
    <3>2. \A i \in 1..spawned : i \in Sessions /\ i # spawned + 1
      BY DEF SessionTypes, Sessions
    <3> QED
      BY <3>1, <3>2 DEF Originates, SessionTypes
  <2> QED
    BY <1>1, <1>2, <2>1, <2>5, <2>6, <2>7, <2>8 DEF AgentOnward, Keep
<1>19. CASE StartConnect(a)
  <2>1. /\ Running(a) /\ plan[a].backends[Op(a).name] # None /\ plan[a].via /\ made[a] < MaxAsks
        /\ ConnectOrStart(Newest(a)) /\ Ask(a, Newest(a), JoinRequest(a))
        /\ made' = [made EXCEPT ![a] = @ + 1] /\ Act(a, "join")
        /\ UNCHANGED <<step, handles, pool, poolLock, sessLock, spawned, origin, exited, ref, ran>> /\ Keep
    BY <1>3, <1>19 DEF StartConnect, NoHandle
  <2>2. mode = "daemon"
    BY <2>1 DEF Chosen
  <2>3. /\ made' \in [Agents -> 0..MaxAsks] /\ made'[a] = made[a] + 1
        /\ \A b \in Agents : made[b] <= made'[b] /\ (b # a => made'[b] = made[b])
    BY <1>1, <2>1
  <2>4. AgentPosts(a)
    BY <2>1, <2>2, <2>3 DEF AgentPosts
  <2>5. /\ doing' \in [Agents -> {"idle", "join", "op", "closing", "done"}]
        /\ \A b \in Agents : b # a => doing'[b] = doing[b]
    BY <1>4, <2>1
  <2>6. AgentTypes'
    BY <1>1, <2>1, <2>3, <2>5 DEF AgentTypes
  <2> QED
    BY <1>1, <1>9, <2>1, <2>3, <2>4, <2>5, <2>6
<1>20. CASE Operate(a)
  <2>1. /\ Running(a) /\ Handle(a) # None /\ Act(a, "op")
        /\ Ask(a, Handle(a).at, OpRequest(a, Op(a).name, Op(a).tool, Op(a).given))
        /\ UNCHANGED <<step, made, handles, daemon, pool, poolLock, sessLock, spawned, origin, exited, link, ref, ran>> /\ Keep
    BY <1>3, <1>20 DEF Operate
  <2>2. Op(a).name \in Names /\ Op(a).tool \in Tools /\ Op(a).given \in Given
    BY <2>1, PlannedOp DEF Running
  <2>3. AgentPosts(a)
    BY <2>1, <2>2 DEF AgentPosts, Handle
  <2>4. /\ doing' \in [Agents -> {"idle", "join", "op", "closing", "done"}]
        /\ \A b \in Agents : b # a => doing'[b] = doing[b]
    BY <1>4, <2>1
  <2>5. AgentTypes' /\ \A b \in Agents : made[b] <= made'[b]
    BY <1>1, <2>1, <2>4 DEF AgentTypes
  <2> QED
    BY <1>1, <1>9, <2>1, <2>3, <2>4, <2>5
<1>21. CASE ShutDown(a)
  <2>1. PICK n \in Names :
          /\ handles[a][n] # None
          /\ Ask(a, handles[a][n].at, OpRequest(a, n, "disconnect", {"terminate_debuggee"}))
          /\ handles' = [handles EXCEPT ![a][n] = None]
    BY <1>21 DEF ShutDown, Held
  <2>2. UNCHANGED <<step, made, daemon, pool, poolLock, sessLock, spawned, origin, exited, link, ref, ran>> /\ Keep
        /\ Act(a, "closing")
    BY <1>3, <1>21 DEF ShutDown
  <2>3. "disconnect" \in Tools /\ {"terminate_debuggee"} \in Given
    <3>1. "disconnect" \in Tools
      BY DEF Tools, ToolDefinitions
    <3>2. {"terminate_debuggee"} \in Given
      BY Zenon DEF Given
    <3> QED
      BY <3>1, <3>2
  <2>4. AgentPosts(a)
    BY <2>1, <2>2, <2>3 DEF AgentPosts
  <2>5. handles' \in [Agents -> [Names -> Handles \cup {None}]]
    BY <1>7, <2>1
  <2>6. /\ doing' \in [Agents -> {"idle", "join", "op", "closing", "done"}]
        /\ \A b \in Agents : b # a => doing'[b] = doing[b]
    BY <1>4, <2>2
  <2>7. AgentTypes' /\ \A b \in Agents : made[b] <= made'[b]
    BY <1>1, <2>2, <2>5, <2>6 DEF AgentTypes
  <2> QED
    BY <1>1, <1>9, <2>1, <2>2, <2>4, <2>6, <2>7
<1> QED
  BY <1>10, <1>11, <1>12, <1>13, <1>14, <1>15, <1>16, <1>17, <1>18, <1>19, <1>20, <1>21 DEF AgentMove, AgentStep

\* What an agent asks for: to join a session, or an operation on one.
AgentAsk(a, w, r) ==
    /\ Ask(a, w, r) /\ w \in AgentWorkers /\ w[1] = a /\ r \in JoinRequests \cup AgentRequests /\ r.who = a
    /\ spawned' = spawned
    /\ (r.kind = "own") = (link'[w] = 0)
    /\ r.kind = "own" => r.on \in 1..spawned
    /\ r.kind # "join" => Carries(r, w)'
    /\ \/ link' = link /\ daemon' = daemon /\ w[2] <= made[a]
       \/ w = Newest(a) /\ ConnectOrStart(w) /\ mode = "daemon" /\ made'[a] = made[a] + 1

\* An agent's request is its own, and says what the tool means.
LEMMA AgentAsksFor ==
    ASSUME Chosen, SessionTypes, WorkTypes, AgentTypes, Linked, Handled, NEW a \in Agents, AgentOnward(a)
    PROVE  \/ /\ Quiet /\ UNCHANGED <<daemon, link>> /\ spawned' \in {spawned, spawned + 1} /\ spawned' <= MaxSpawns
           \/ \E w \in AgentWorkers, r \in Requests : AgentAsk(a, w, r)
<1> USE WorkersApart
<1>1. /\ made \in [Agents -> 0..MaxAsks] /\ asks \in [Callers -> Nat] /\ NextId(a) \in Nat
      /\ handles \in [Agents -> [Names -> Handles \cup {None}]]
      /\ plan' = plan
  BY DEF AgentTypes, WorkTypes, AgentOnward, Callers, NextId
<1>2. ASSUME Ask(a, Newest(a), JoinRequest(a)), ConnectOrStart(Newest(a)),
             made[a] < MaxAsks, made'[a] = made[a] + 1, mode = "daemon", spawned' = spawned,
             Running(a), plan[a].backends[Op(a).name] # None
      PROVE  \E w \in AgentWorkers, r \in Requests : AgentAsk(a, w, r)
  <2>1. Newest(a) \in AgentWorkers /\ Newest(a)[1] = a /\ Newest(a)[2] = made[a] + 1
    BY <1>1, <1>2 DEF Newest, AgentWorkers
  <2>2. plan[a].backends[Op(a).name] \in Keys
    BY <1>2, PlannedOp DEF Running
  <2>3. JoinRequest(a) \in JoinRequests /\ JoinRequest(a).who = a /\ JoinRequest(a).kind = "join"
    BY <1>1, <2>2 DEF JoinRequest, JoinRequests
  <2>4. link'[Newest(a)] # 0
    BY <1>2, <2>1, Connecting
  <2>5. PICK w, r : w = Newest(a) /\ r = JoinRequest(a)
    OBVIOUS
  <2>6. AgentAsk(a, w, r)
    BY <1>2, <2>1, <2>3, <2>4, <2>5 DEF AgentAsk
  <2> QED
    BY <2>1, <2>3, <2>5, <2>6 DEF Requests
<1>3. ASSUME NEW n \in Names, NEW t \in Tools, NEW g \in Given, handles[a][n] # None,
             Ask(a, handles[a][n].at, OpRequest(a, n, t, g)), UNCHANGED <<daemon, link, spawned>>
      PROVE  \E w \in AgentWorkers, r \in Requests : AgentAsk(a, w, r)
  <2>0. PICK w, r : w = handles[a][n].at /\ r = OpRequest(a, n, t, g)
    OBVIOUS
  <2>1. /\ handles[a][n] \in Handles /\ w \in AgentWorkers /\ handles[a][n].on \in Sessions \cup {None}
        /\ w[1] = a /\ w[2] <= made[a] /\ plan[a].backends[n] # None
        /\ link[w] = 0 => handles[a][n].on \in 1..spawned
    <3>1. handles[a][n] \in Handles /\ HandleOk(a, n)
      BY <1>1, <1>3 DEF Handled
    <3> QED
      BY <1>3, <2>0, <3>1 DEF Handles, HandleOk
  <2>2. plan[a].backends[n] \in Keys
    <3>1. PlanOk(plan[a])
      BY DEF Chosen
    <3> QED
      BY <2>1, <3>1 DEF PlanOk
  <2>3. PoolTools[t].tool = t /\ PoolTools[t].with = Carried[t]
    BY PoolRows
  <2>4. /\ AgentTools[t].method = Method(t) /\ AgentTools[t].op \in DOMAIN InvokeOps
        /\ InvokeOps[AgentTools[t].op].method = Method(t) /\ InvokeOps[AgentTools[t].op].all = Carried[t]
        /\ AgentTools[t].with = Carried[t] /\ AgentTools[t].compressor = Shortener[t]
    BY AgentRows
  <2> DEFINE comp == IF plan[a].compression THEN Shortener[t] ELSE "none"
             called == IF link[w] = 0 THEN Method(t) ELSE AgentTools[t].op
  <2>5. called \in Callees /\ comp \in Shorteners /\ Carried[t] \cap g \in Loads
    BY <2>4 DEF Callees, Shorteners, Loads
  <2>6. r = [kind |-> IF link[w] = 0 THEN "own" ELSE "op", key |-> plan[a].backends[n], on |-> handles[a][n].on,
             tool |-> t, given |-> g, calls |-> called, with |-> Carried[t] \cap g, compressor |-> comp,
             who |-> a, id |-> NextId(a)]
    BY <2>0, <2>3, <2>4 DEF OpRequest
  <2> HIDE DEF called, comp
  <2>7. r \in AgentRequests
    BY <1>1, <2>1, <2>2, <2>5, <2>6 DEF AgentRequests
  <2>8. Carries(r, w)'
    <3>1. link'[w] = link[w] /\ a \notin Calls
      BY <1>3, <2>0
    <3>2. r.with = Carried[r.tool] \cap r.given /\ r.tool = t /\ r.who = a /\ r.calls = called /\ r.compressor = comp
      BY <2>6
    <3> QED
      BY <1>1, <2>4, <3>1, <3>2 DEF Carries, called, comp
  <2>9. AgentAsk(a, w, r)
    <3>1. Ask(a, w, r)
      BY <1>3, <2>0
    <3>2. r.who = a /\ (r.kind = "own") = (link[w] = 0) /\ r.on = handles[a][n].on /\ r.kind # "join"
      BY <2>0, <2>6
    <3> QED
      BY <1>3, <2>0, <2>1, <2>7, <2>8, <3>1, <3>2 DEF AgentAsk
  <2> QED
    BY <2>1, <2>7, <2>9 DEF Requests
<1>4. AgentPosts(a)
  BY DEF AgentOnward
<1> QED
  BY <1>2, <1>3, <1>4 DEF AgentPosts

\* What an agent's step does to the queues and the connections.
AgentQueues(a) ==
    /\ spawned' \in 0..MaxSpawns /\ spawned' \in {spawned, spawned + 1} /\ spawned \in Nat
    /\ inbox' \in [Workers -> Seq(Requests)] /\ asks' \in [Callers -> Nat]
    /\ \A v \in Workers : \A r \in Queued(v)' : r \in Queued(v) \/ AgentAsk(a, v, r)
    /\ \A v \in Workers : inbox'[v] = inbox[v] \/
         (v \in AgentWorkers /\ v[1] = a /\ (v[2] <= made[a] \/ (v = Newest(a) /\ made'[a] = made[a] + 1)))
    /\ \A v \in Workers : phase[v] # "idle" => inbox[v] # <<>> /\ Job(v)' = Job(v)
    /\ Working'
    /\ daemon' \in [up : BOOLEAN, born : 0..MaxDaemons] /\ link' \in [Workers -> 0..MaxDaemons]
    /\ daemon'.up => daemon'.born > 0
    /\ \A v \in Workers : link'[v] <= daemon'.born
    /\ \A v \in Workers : link'[v] = link[v] \/
         (v = Newest(a) /\ made'[a] = made[a] + 1 /\ mode = "daemon" /\ inbox[v] = <<>> /\ link'[v] # 0)
    /\ mode = "in_process" => daemon' = daemon
    /\ \A v \in Workers : phase[v] # "idle" /\ Alive(v)' => Alive(v)

\* Whatever an agent does, requests queue up as before.
LEMMA AgentQueueStep ==
    ASSUME Chosen, SessionTypes, WorkTypes, AgentTypes, Linked, Handled, Working, NEW a \in Agents, AgentOnward(a)
    PROVE  AgentQueues(a)
<1> USE WorkersApart
<1>1. UNCHANGED <<phase, ref>> /\ spawned \in Nat /\ spawned <= MaxSpawns
      /\ daemon \in [up : BOOLEAN, born : 0..MaxDaemons] /\ link \in [Workers -> 0..MaxDaemons]
  BY DEF AgentOnward, SessionTypes
<1>2. \A v \in Workers : phase[v] # "idle" => inbox[v] # <<>>
  BY DEF Working, AtWorkOk
<1>3. CASE Quiet /\ UNCHANGED <<daemon, link>> /\ spawned' \in {spawned, spawned + 1} /\ spawned' <= MaxSpawns
  <2>1. \A v \in Workers : Queued(v)' = Queued(v) /\ Job(v)' = Job(v) /\ Alive(v)' = Alive(v)
    BY <1>3 DEF Quiet, Queued, Job, Alive
  <2>2. spawned' \in 0..MaxSpawns /\ spawned <= spawned'
    BY <1>1, <1>3
  <2>3. Working'
    BY <1>1, <1>3, <2>1, <2>2 DEF Working, AtWorkOk, Quiet
  <2> QED
    BY <1>1, <1>2, <1>3, <2>1, <2>2, <2>3 DEF AgentQueues, Quiet, WorkTypes, Linked
<1>4. ASSUME NEW w \in AgentWorkers, NEW r \in Requests, AgentAsk(a, w, r)
      PROVE  AgentQueues(a)
  <2>1. /\ inbox' = [inbox EXCEPT ![w] = Append(@, r)] /\ asks' = [asks EXCEPT ![a] = NextId(a)]
        /\ w \in Workers /\ w[1] = a
    BY <1>4 DEF AgentAsk, Ask
  <2>2. /\ inbox' \in [Workers -> Seq(Requests)]
        /\ \A v \in Workers : v # w => inbox'[v] = inbox[v] /\ Queued(v)' = Queued(v)
        /\ Queued(w)' = Queued(w) \cup {r}
    BY <2>1, Appended
  <2>3. spawned' = spawned
    BY <1>4 DEF AgentAsk
  <2>4. Working' /\ \A v \in Workers : phase[v] # "idle" => inbox[v] # <<>> /\ Job(v)' = Job(v)
    <3>1. w \in Workers /\ r \in Requests /\ inbox' = [inbox EXCEPT ![w] = Append(@, r)]
      BY <1>4, <2>1
    <3>2. UNCHANGED <<phase, ref>> /\ spawned \in Nat /\ spawned' \in Nat /\ spawned <= spawned'
      BY <1>1, <2>3
    <3> QED
      BY <3>1, <3>2, AskWorking
  <2>5. asks' \in [Callers -> Nat]
    BY <2>1 DEF WorkTypes, NextId, Callers
  <2>6. CASE link' = link /\ daemon' = daemon /\ w[2] <= made[a]
    <3>1. \A v \in Workers : Alive(v)' = Alive(v)
      BY <2>6 DEF Alive
    <3> QED
      <4>1. /\ daemon' \in [up : BOOLEAN, born : 0..MaxDaemons] /\ link' \in [Workers -> 0..MaxDaemons]
            /\ daemon'.up => daemon'.born > 0
            /\ \A v \in Workers : link'[v] <= daemon'.born
        BY <1>1, <2>6 DEF Linked
      <4> QED
        BY <1>1, <1>4, <2>1, <2>2, <2>3, <2>4, <2>5, <2>6, <3>1, <4>1 DEF AgentQueues
  <2>7. CASE w = Newest(a) /\ ConnectOrStart(w) /\ mode = "daemon" /\ made'[a] = made[a] + 1
    <3>1. /\ daemon' \in [up : BOOLEAN, born : 0..MaxDaemons] /\ daemon'.up /\ daemon'.born > 0
          /\ link' \in [Workers -> 0..MaxDaemons] /\ link'[w] # 0
          /\ \A v \in Workers : v # w => link'[v] = link[v] /\ (Alive(v)' => Alive(v))
          /\ \A v \in Workers : link'[v] <= daemon'.born
      BY <2>1, <2>7, Connecting
    <3>2. made[a] \in Nat /\ w[2] > made[w[1]]
      BY <2>1, <2>7 DEF AgentTypes, Newest
    <3>3. inbox[w] = <<>>
      BY <3>2 DEF Linked
    <3>4. phase[w] = "idle"
      BY <2>1, <3>3 DEF Working, AtWorkOk
    <3> QED
      BY <1>1, <1>4, <2>1, <2>2, <2>3, <2>4, <2>5, <2>7, <3>1, <3>3, <3>4 DEF AgentQueues
  <2> QED
    BY <1>4, <2>6, <2>7 DEF AgentAsk
<1> QED
  BY <1>3, <1>4, AgentAsksFor

\* Every step of an agent keeps the types.
LEMMA AgentTyped ==
    ASSUME Chosen, SessionTypes, WorkTypes, CallTypes, AgentTypes, Linked, Asked, NEW a \in Agents,
           AgentOnward(a), AgentQueues(a)
    PROVE  Chosen' /\ SessionTypes' /\ WorkTypes' /\ CallTypes' /\ AgentTypes' /\ Linked' /\ Asked'
<1> USE WorkersApart
<1>1. /\ UNCHANGED <<mode, machine, pool, poolLock, sessLock, exited, phase, ref, ran>>
      /\ UNCHANGED <<script, pc, target, last, clientLock, plan>>
      /\ AgentTypes'
  BY DEF AgentOnward
<1>2. Chosen' /\ CallTypes'
  BY <1>1 DEF Chosen, CallTypes
<1>3. SessionTypes'
  BY <1>1 DEF SessionTypes, AgentQueues, AgentOnward
<1>4. WorkTypes'
  BY <1>1 DEF WorkTypes, AgentQueues, AgentOnward
<1>5. \A w \in Calls \cup {Conn} : inbox'[w] = inbox[w]
  BY DEF AgentQueues
<1>6. Linked'
  <2>1. \A w \in Calls \cup {Conn} : link'[w] = link[w]
    <3>1. ASSUME NEW w \in Calls \cup {Conn}, w = Newest(a), made'[a] = made[a] + 1
          PROVE  FALSE
      <4>1. Newest(a) \in AgentWorkers
        BY <1>1, <3>1 DEF AgentTypes, Newest, AgentWorkers
      <4> QED
        BY <3>1, <4>1
    <3> QED
      BY <3>1 DEF AgentQueues
  <2>2. ASSUME NEW w \in AgentWorkers, w[2] > made'[w[1]]
        PROVE  link'[w] = 0 /\ inbox'[w] = <<>>
    <3>1. w[2] > made[w[1]] /\ made[w[1]] \in Nat
      BY <1>1, <2>2 DEF AgentOnward, AgentTypes
    <3>2. link[w] = 0 /\ inbox[w] = <<>>
      BY <3>1 DEF Linked
    <3>3. w = Newest(a) => made'[w[1]] # made[a] + 1
      BY <2>2, <3>1 DEF Newest
    <3>4. link'[w] = link[w]
      BY <3>3 DEF AgentQueues, Newest
    <3>5. inbox'[w] = inbox[w]
      BY <3>1, <3>3 DEF AgentQueues, Newest
    <3> QED
      BY <3>2, <3>4, <3>5
  <2> QED
    BY <1>1, <1>5, <2>1, <2>2 DEF Linked, AgentQueues
<1>7. ASSUME NEW w \in Workers, NEW r \in Queued(w)'
      PROVE  Belongs(r, w)'
  <2>1. CASE r \in Queued(w)
    <3>1. Belongs(r, w) /\ inbox[w] # <<>>
      BY <2>1, JobQueued DEF Asked, Queued
    <3>2. link'[w] = link[w]
      BY <3>1 DEF AgentQueues
    <3>3. OfCall(r) => OfCall(r)'
      BY <1>1 DEF OfCall
    <3>4. r.on \in 1..spawned => r.on \in 1..spawned'
      BY DEF AgentQueues
    <3> QED
      BY <3>1, <3>2, <3>3, <3>4 DEF Belongs
  <2>2. CASE AgentAsk(a, w, r)
    BY <2>2 DEF AgentAsk, Belongs
  <2> QED
    BY <2>1, <2>2 DEF AgentQueues
<1>8. Asked'
  BY <1>7 DEF Asked
<1> QED
  BY <1>1, <1>2, <1>3, <1>4, <1>6, <1>8

\* A handle has its session or its connection.
LEMMA AgentHandled ==
    ASSUME Chosen, SessionTypes, AgentTypes, Linked, Handled, NEW a \in Agents, AgentMove(a),
           AgentOnward(a), AgentQueues(a)
    PROVE  Handled'
<1> USE WorkersApart
<1>1. /\ step \in [Agents -> Nat \ {0}] /\ made \in [Agents -> 0..MaxAsks]
      /\ doing \in [Agents -> {"idle", "join", "op", "closing", "done"}]
      /\ handles \in [Agents -> [Names -> Handles \cup {None}]]
      /\ plan' = plan
  BY DEF AgentTypes, AgentOnward
<1>2. ASSUME NEW w \in AgentWorkers, w[2] <= made[w[1]]
      PROVE  link'[w] = link[w]
  BY <1>1, <1>2 DEF AgentQueues, Newest
<1>3. ASSUME NEW b \in Agents, NEW n \in Names, handles'[b][n] = handles[b][n] \/ handles'[b][n] = None
      PROVE  HandleOk(b, n)'
  <2>1. CASE handles'[b][n] = None
    BY <2>1 DEF HandleOk
  <2>2. CASE handles'[b][n] = handles[b][n] /\ handles[b][n] # None
    <3> DEFINE h == handles[b][n]
    <3>1. h \in Handles /\ HandleOk(b, n)
      BY <1>1, <2>2 DEF Handled
    <3>2. h.at \in AgentWorkers /\ h.at[1] = b /\ h.at[2] <= made[b]
      BY <2>2, <3>1 DEF Handles, HandleOk
    <3>3. link'[h.at] = link[h.at] /\ made[b] <= made'[b]
      BY <1>2, <3>2 DEF AgentOnward
    <3>4. h.on \in 1..spawned => h.on \in 1..spawned'
      BY DEF AgentQueues
    <3>5. h.at[2] <= made'[b]
      BY <1>1, <3>2, <3>3 DEF AgentWorkers, AgentOnward, AgentTypes
    <3> QED
      BY <1>1, <2>2, <3>1, <3>2, <3>3, <3>4, <3>5 DEF HandleOk
  <2> QED
    BY <1>3, <2>1, <2>2
<1>4. ASSUME NEW b \in Agents, doing'[b] = "join", b # a \/ doing'[a] # "join"
      PROVE  /\ step'[b] <= Len(plan'[b].ops) /\ plan'[b].backends[Op(b)'.name] # None
             /\ made'[b] >= 1 /\ link'[<<b, made'[b]>>] # 0
  <2>1. b # a /\ doing[b] = "join" /\ step'[b] = step[b] /\ made'[b] = made[b]
    BY <1>4 DEF AgentOnward
  <2>2. /\ step[b] <= Len(plan[b].ops) /\ plan[b].backends[Op(b).name] # None
        /\ made[b] >= 1 /\ link[<<b, made[b]>>] # 0
    BY <2>1 DEF Handled
  <2>3. <<b, made[b]>> \in AgentWorkers
    BY <1>1, <2>2 DEF AgentWorkers
  <2>4. link'[<<b, made[b]>>] = link[<<b, made[b]>>]
    BY <1>1, <1>2, <2>3
  <2>5. Op(b)' = Op(b)
    BY <1>1, <2>1 DEF Op
  <2> QED
    BY <1>1, <2>1, <2>2, <2>4, <2>5
<1>5. ASSUME \A b \in Agents, n \in Names : HandleOk(b, n)',
             doing'[a] = "join" => /\ step'[a] <= Len(plan'[a].ops) /\ plan'[a].backends[Op(a)'.name] # None
                                   /\ made'[a] >= 1 /\ link'[<<a, made'[a]>>] # 0
      PROVE  Handled'
  BY <1>4, <1>5 DEF Handled
<1>6. ASSUME \A b \in Agents, n \in Names : handles'[b][n] = handles[b][n] \/ handles'[b][n] = None,
             doing'[a] # "join"
      PROVE  Handled'
  BY <1>3, <1>5, <1>6
<1>7. ASSUME NEW n \in Names, NEW h, handles' = [handles EXCEPT ![a][n] = h], doing'[a] # "join", HandleOk(a, n)'
      PROVE  Handled'
  <2>1. ASSUME NEW b \in Agents, NEW m \in Names
        PROVE  HandleOk(b, m)'
    BY <1>1, <1>3, <1>7, <2>1
  <2> QED
    BY <1>5, <1>7, <2>1
<1>8. ASSUME NEW d, Act(a, d)
      PROVE  doing'[a] = d
  BY <1>1, <1>8 DEF Act
<1>9. CASE StartFails(a) \/ OperateFails(a) \/ Operate(a) \/ Returned(a) \/ Closed(a)
  <2>1. doing'[a] # "join" /\ handles' = handles
    BY <1>8, <1>9 DEF StartFails, OperateFails, Operate, Returned, Closed, NextOp
  <2> QED
    BY <1>6, <2>1
<1>10. CASE AgentGivesUp(a)
  <2>1. doing'[a] # "join" /\ handles' = handles
    BY <1>8, <1>10 DEF AgentGivesUp, NextOp
  <2> QED
    BY <1>6, <2>1
<1>11. CASE Drop(a)
  <2>1. doing'[a] # "join" /\ \A b \in Agents, n \in Names : handles'[b][n] = handles[b][n] \/ handles'[b][n] = None
    BY <1>1, <1>8, <1>11 DEF Drop
  <2> QED
    BY <1>6, <2>1
<1>12. CASE ShutDown(a) \/ ShutDownFails(a)
  <2>1. PICK n \in Names : handles' = [handles EXCEPT ![a][n] = None]
    BY <1>12 DEF ShutDown, ShutDownFails, Held
  <2>2. doing'[a] # "join"
    BY <1>8, <1>12 DEF ShutDown, ShutDownFails, Finished
  <2>3. \A b \in Agents, m \in Names : handles'[b][m] = handles[b][m] \/ handles'[b][m] = None
    BY <1>1, <2>1
  <2> QED
    BY <1>6, <2>2, <2>3
<1>13. CASE StartLocal(a)
  <2>0. PICK n : n = Op(a).name
    OBVIOUS
  <2>1. /\ Running(a) /\ plan[a].backends[n] # None /\ doing'[a] # "join"
        /\ spawned' = spawned + 1 /\ made[a] < MaxAsks /\ made' = [made EXCEPT ![a] = @ + 1]
        /\ handles' = [handles EXCEPT ![a][n] = [at |-> Newest(a), on |-> spawned']]
    BY <1>13, <2>0 DEF StartLocal, NoHandle, Store, Running
  <2>2. n \in Names
    BY <2>0, <2>1, PlannedOp DEF Running
  <2>3. handles'[a][n] = [at |-> Newest(a), on |-> spawned'] /\ made'[a] = made[a] + 1
    BY <1>1, <2>1, <2>2
  <2>4. spawned' \in 1..spawned'
    BY <2>1 DEF SessionTypes, AgentQueues
  <2>5. HandleOk(a, n)'
    BY <1>1, <2>1, <2>3, <2>4 DEF HandleOk, Newest
  <2> QED
    BY <1>7, <2>1, <2>2, <2>5
<1>14. CASE StartConnect(a)
  <2>1. /\ Running(a) /\ plan[a].backends[Op(a).name] # None /\ handles' = handles /\ step' = step
        /\ ConnectOrStart(Newest(a)) /\ made[a] < MaxAsks /\ made' = [made EXCEPT ![a] = @ + 1]
    BY <1>14 DEF StartConnect, NoHandle
  <2>2. Newest(a) \in Workers /\ made'[a] = made[a] + 1 /\ made'[a] >= 1 /\ Newest(a) = <<a, made'[a]>>
    BY <1>1, <2>1 DEF Newest, AgentWorkers
  <2>3. link'[Newest(a)] # 0
    BY <2>1, <2>2, Connecting
  <2>4. Op(a)' = Op(a)
    BY <1>1, <2>1 DEF Op
  <2>5. \A b \in Agents, n \in Names : HandleOk(b, n)'
    BY <1>3, <2>1
  <2> QED
    BY <1>1, <1>5, <2>1, <2>2, <2>3, <2>4, <2>5 DEF Running
<1>15. CASE Joined(a)
  <2>0. PICK n : n = Op(a).name
    OBVIOUS
  <2>1. /\ doing[a] = "join" /\ doing'[a] # "join" /\ made' = made
        /\ handles' = [handles EXCEPT ![a][n] = [at |-> <<a, made[a]>>, on |-> None]]
    BY <1>8, <1>15, <2>0 DEF Joined, Store
  <2>2. /\ step[a] <= Len(plan[a].ops) /\ plan[a].backends[n] # None
        /\ made[a] >= 1 /\ link[<<a, made[a]>>] # 0
    BY <2>0, <2>1 DEF Handled
  <2>3. n \in Names
    BY <2>0, <2>2, PlannedOp
  <2>4. handles'[a][n] = [at |-> <<a, made[a]>>, on |-> None]
    BY <1>1, <2>1, <2>3
  <2>5. <<a, made[a]>> \in AgentWorkers
    BY <1>1, <2>2 DEF AgentWorkers
  <2>6. link'[<<a, made[a]>>] # 0
    <3>1. link'[<<a, made[a]>>] = link[<<a, made[a]>>]
      BY <1>1, <1>2, <2>5
    <3> QED
      BY <2>2, <3>1
  <2>7. HandleOk(a, n)'
    BY <1>1, <2>1, <2>2, <2>4, <2>6 DEF HandleOk
  <2> QED
    BY <1>7, <2>1, <2>3, <2>7
<1> QED
  BY <1>9, <1>10, <1>11, <1>12, <1>13, <1>14, <1>15 DEF AgentMove, AgentStep

\* Every step of an agent keeps launches fresh.
LEMMA AgentFresh ==
    ASSUME SessionTypes, WorkTypes, CallTypes, Linked, Asked, Working, Locked, Fresh, Apart, Keyed,
           NEW a \in Agents, AgentOnward(a), AgentQueues(a)
    PROVE  Locked' /\ Fresh' /\ Apart' /\ Keyed'
<1> USE WorkersApart
<1>1. /\ UNCHANGED <<mode, script, pool, poolLock, sessLock, phase, ref, ran, pc, target>>
      /\ \A c \in Calls : answer'[c] = answer[c]
      /\ \A i \in 1..spawned : origin'[i] = origin[i]
  BY DEF AgentOnward, Callers
<1>2. spawned \in Nat /\ spawned' \in Nat /\ spawned <= spawned' /\ spawned' <= MaxSpawns
  BY DEF AgentQueues
<1>3. Locked'
  <2>1. UNCHANGED <<pool, poolLock, sessLock, phase, ref>> /\ (\A w \in Workers : phase[w] # "idle" => Job(w)' = Job(w))
    BY <1>1 DEF AgentQueues
  <2> QED
    BY <2>1 DEF Locked, AgentQueues
<1>4. \A c \in Calls : Launching(c)' = Launching(c)
  BY <1>1 DEF Launching
<1>5. ASSUME NEW c, NEW i \in Nat, NEW j \in Nat, i <= spawned, i <= j, \E n \in 1..i : origin[n].by = c
      PROVE  \E n \in 1..j : origin'[n].by = c
  BY <1>1, <1>2, <1>5, OwnKept
<1>6. \A w \in Workers : ref[w] # None => ref[w] \in 1..spawned /\ phase[w] # "idle"
  BY DEF Working, AtWorkOk
<1>7. \A w \in Workers : phase[w] # "idle" => inbox[w] # <<>> /\ Job(w)' = Job(w)
  BY DEF AgentQueues
<1>8. \A c \in Calls : ran[c] # None => ran[c].on \in 1..spawned
  BY DEF Fresh
<1>9. Apart'
  BY <1>1, <1>4, <1>6, <1>8 DEF Apart
<1>10. Keyed'
  <2>1. \A k \in Keys : pool[k] # None => pool[k] \in 1..spawned
    BY SpawnedNumbers
  <2> QED
    BY <1>1, <1>6, <1>7, <1>8, <2>1 DEF Keyed
<1>11. ASSUME NEW c \in Calls, PoolKey(target[c]) \in Keys, FreshKey(c)
       PROVE  FreshKey(c)'
  <2>1. \E n \in 1..spawned' : origin'[n].by = c
    <3>1. PICK n \in 1..spawned : origin[n].by = c
      BY <1>11 DEF FreshKey, Own
    <3> QED
      BY <1>1, <1>2, <3>1
  <2>2. ASSUME pool[PoolKey(target[c])] # None
        PROVE  \E n \in 1..pool[PoolKey(target[c])] : origin'[n].by = c
    <3>1. pool[PoolKey(target[c])] \in Nat /\ pool[PoolKey(target[c])] <= spawned
      BY <1>11, <2>2, SpawnedNumbers
    <3>2. PICK n \in 1..pool[PoolKey(target[c])] : origin[n].by = c
      BY <1>11, <2>2 DEF FreshKey, Own
    <3>3. origin'[n] = origin[n]
      BY <1>1, <1>2, <3>1, <3>2
    <3> QED
      BY <3>2, <3>3
  <2> QED
    BY <1>1, <2>1, <2>2 DEF FreshKey, Own
<1>12. ASSUME NEW c \in Calls, Launching(c), pc[c] = "invoke" \/ (pc[c] = "spawning" /\ answer[c] = "ok")
       PROVE  FreshKey(c)'
  <2>1. PoolKey(target[c]) \in Keys
    BY <1>12 DEF CallTypes
  <2> QED
    BY <1>11, <1>12, <2>1 DEF Fresh
<1>13. ASSUME NEW w \in Workers, phase'[w] = "spawn", Alive(w)', Job(w)'.kind # "join"
       PROVE  poolLock' = w /\ pool'[Job(w)'.key] = None
  <2>1. Job(w)' = Job(w) /\ phase[w] = "spawn" /\ Alive(w)
    BY <1>1, <1>13 DEF AgentQueues
  <2> QED
    BY <1>1, <1>13, <2>1 DEF Fresh
<1>14. ASSUME NEW c \in Calls, Launching(c), NEW w \in Workers, NEW r \in Queued(w)', r.who = c, r.kind = "op"
       PROVE  FreshKey(c)'
  <2>1. r \in Queued(w)
    BY <1>14 DEF AgentQueues, AgentAsk
  <2>2. FreshKey(c)
    BY <1>14, <2>1 DEF Fresh
  <2>3. target[c] # None
    BY <1>14, <2>1, CallJob DEF OfCall
  <2> QED
    BY <1>11, <2>2, <2>3 DEF CallTypes
<1>15. ASSUME NEW c \in Calls, Launching(c), NEW w \in Workers, inbox'[w] # <<>>, Job(w)'.who = c, ref'[w] # None
       PROVE  \E n \in 1..ref'[w] : origin'[n].by = c
  <2>1. inbox[w] # <<>> /\ Job(w)' = Job(w) /\ ref[w] \in 1..spawned
    BY <1>1, <1>6, <1>7, <1>15
  <2>2. \E n \in 1..ref[w] : origin[n].by = c
    BY <1>1, <1>15, <2>1 DEF Fresh, Own
  <2> QED
    BY <1>1, <1>2, <1>5, <2>1, <2>2
<1>16. ASSUME NEW c \in Calls, ran'[c] # None
       PROVE  /\ pc'[c] # "idle" /\ ran'[c].tool = script'[c].tool /\ ran'[c].on \in 1..spawned'
              /\ Launching(c) => \E n \in 1..ran'[c].on : origin'[n].by = c
  <2>1. Launching(c) => \E n \in 1..ran[c].on : origin[n].by = c
    BY <1>1, <1>16 DEF Fresh, Own
  <2>2. Launching(c) => \E n \in 1..ran[c].on : origin'[n].by = c
    BY <1>1, <1>2, <1>5, <1>8, <1>16, <2>1
  <2> QED
    BY <1>1, <1>2, <1>16, <2>2 DEF Fresh
<1>17. Fresh'
  BY <1>1, <1>4, <1>12, <1>13, <1>14, <1>15, <1>16 DEF Fresh, Own
<1> QED
  BY <1>3, <1>9, <1>10, <1>17

\* Every step of an agent keeps what tools mean.
LEMMA AgentFaithful ==
    ASSUME WorkTypes, Asked, Faithful, NEW a \in Agents, AgentOnward(a), AgentQueues(a)
    PROVE  Faithful'
<1> USE WorkersApart
<1>1. /\ UNCHANGED <<mode, machine, script, plan, ran, pc, target>>
      /\ \A c \in Calls : answer'[c] = answer[c]
  BY DEF AgentOnward, Callers
<1>2. ASSUME NEW w \in Workers, NEW r \in Queued(w)', r.kind # "join"
      PROVE  Carries(r, w)'
  <2>1. CASE r \in Queued(w)
    <3>1. Carries(r, w) /\ inbox[w] # <<>>
      BY <1>2, <2>1 DEF Faithful, Queued
    <3>2. link'[w] = link[w]
      BY <3>1 DEF AgentQueues
    <3> QED
      BY <1>1, <3>1, <3>2 DEF Carries
  <2>2. CASE AgentAsk(a, w, r)
    BY <1>2, <2>2 DEF AgentAsk
  <2> QED
    BY <2>1, <2>2 DEF AgentQueues
<1>3. \A c \in Calls : /\ Launching(c)' = Launching(c) /\ Backend(c)' = Backend(c)
                       /\ RefusedForAReason(c)' = RefusedForAReason(c)
  BY <1>1 DEF Launching, Backend, RefusedForAReason
<1> QED
  BY <1>1, <1>2, <1>3 DEF Faithful

\* Every step of an agent keeps the invariant.
LEMMA AgentInv ==
    ASSUME IInv, NEW a \in Agents, AgentMove(a)
    PROVE  IInv'
<1>1. AgentOnward(a)
  BY AgentProgress DEF IInv
<1>2. AgentQueues(a)
  BY <1>1, AgentQueueStep DEF IInv
<1>3. Chosen' /\ SessionTypes' /\ WorkTypes' /\ CallTypes' /\ AgentTypes' /\ Linked' /\ Asked'
  BY <1>1, <1>2, AgentTyped DEF IInv
<1>4. Handled'
  BY <1>1, <1>2, AgentHandled DEF IInv
<1>5. Working' /\ Locked' /\ Fresh' /\ Apart' /\ Keyed'
  BY <1>1, <1>2, AgentFresh DEF IInv, AgentQueues
<1>6. Faithful'
  BY <1>1, <1>2, AgentFaithful DEF IInv
<1> QED
  BY <1>3, <1>4, <1>5, <1>6 DEF IInv

----------------------------------------------------------------------------
(* The theorems. *)

\* The invariant holds at the start of every scenario, ...
LEMMA InitInv == Init => IInv
<1> SUFFICES ASSUME Init PROVE IInv
  OBVIOUS
<1> USE WorkersApart
<1>1. PICK s \in Scenarios : mode = s.mode /\ machine = s.machine /\ script = s.script /\ plan = s.plan
  BY DEF Init
<1>2. /\ daemon = [up |-> FALSE, born |-> 0] /\ pool = [k \in Keys |-> None] /\ poolLock = None
      /\ sessLock = [i \in Sessions |-> None] /\ spawned = 0 /\ exited = {} /\ link = [w \in Workers |-> 0]
      /\ inbox = [w \in Workers |-> <<>>] /\ phase = [w \in Workers |-> "idle"] /\ ref = [w \in Workers |-> None]
      /\ asks = [c \in Callers |-> 0] /\ answer = [c \in Callers |-> None] /\ ran = [c \in Callers |-> None]
      /\ pc = [c \in Calls |-> "idle"] /\ target = [c \in Calls |-> None] /\ last = None /\ clientLock = None
      /\ origin = [i \in Sessions |-> [key |-> None, by |-> None]] /\ step = [a \in Agents |-> 1] /\ doing = [a \in Agents |-> "idle"]
      /\ made = [a \in Agents |-> 0] /\ handles = [a \in Agents |-> [n \in Names |-> None]]
  BY DEF Init, SharedInit, CallInit, AgentInit
<1>3. Chosen
  <2>1. \A c \in Calls : s.script[c].given \in CallsGive
    BY DEF CallsGive
  <2>2. \A a \in Agents : \A n \in 1..Len(s.plan[a].ops) : s.plan[a].ops[n].given \in PlansGive
    <3>1. \A a \in Agents : PlanGives(s.plan[a]) \subseteq PlansGive
      BY DEF PlansGive
    <3>2. \A a \in Agents : \A n \in 1..Len(s.plan[a].ops) : s.plan[a].ops[n].given \in PlanGives(s.plan[a])
      BY DEF PlanGives
    <3> QED
      BY <3>1, <3>2
  <2>3. \A c \in Calls : CallOk(script[c], machine) /\ script[c].given \in Given
    BY <1>1, <2>1, ScenarioConstants DEF Given
  <2>4. \A a \in Agents : /\ PlanOk(plan[a]) /\ (mode = "in_process" => ~plan[a].via)
                          /\ \A n \in 1..Len(plan[a].ops) : plan[a].ops[n].given \in Given
    BY <1>1, <2>2, ScenarioConstants DEF Given
  <2>5. /\ mode \in {"in_process", "daemon"}
        /\ machine.env.PATH \in Seq(ToSet(machine.env.PATH)) /\ None \notin Runnable(machine)
    BY <1>1, ScenarioConstants
  <2> QED
    BY <2>3, <2>4, <2>5 DEF Chosen
<1>4. SessionTypes
  BY <1>2 DEF SessionTypes
<1>5. WorkTypes
  BY <1>2 DEF WorkTypes, Phases
<1>6. CallTypes
  BY <1>2 DEF CallTypes
<1>7. AgentTypes
  BY <1>2 DEF AgentTypes
<1>8. \A w \in Workers : Queued(w) = {}
  BY <1>2 DEF Queued
<1>9. Linked
  BY <1>2 DEF Linked
<1>10. Handled
  BY <1>2 DEF Handled, HandleOk
<1>11. Asked /\ Working /\ Locked
  BY <1>2, <1>8 DEF Asked, Working, AtWorkOk, Locked
<1>12. Fresh
  <2>1. \A c \in Calls : pc[c] = "idle" /\ ran[c] = None
    BY <1>2 DEF Callers
  <2>2. \A w \in Workers : phase[w] = "idle" /\ inbox[w] = <<>>
    BY <1>2
  <2> QED
    BY <1>2, <1>8, <2>1, <2>2 DEF Fresh
<1>13. Apart /\ Keyed
  BY <1>2 DEF Apart, Keyed, Callers
<1>14. Faithful
  BY <1>2, <1>8, WorkerConstants DEF Faithful, RefusedForAReason, Callers
<1> QED
  BY <1>3, <1>4, <1>5, <1>6, <1>7, <1>9, <1>10, <1>11, <1>12, <1>13, <1>14 DEF IInv

\* ... and every step keeps it.
LEMMA NextInv == IInv /\ [Next]_vars => IInv'
<1> SUFFICES ASSUME IInv, [Next]_vars PROVE IInv'
  OBVIOUS
<1>1. ASSUME NEW c \in Calls, CallStep(c), UNCHANGED agentVars
      PROVE  IInv'
  BY <1>1, CallInv DEF CallMove
<1>2. ASSUME NEW a \in Agents, AgentStep(a) \/ AgentGivesUp(a), UNCHANGED callVars
      PROVE  IInv'
  BY <1>2, AgentInv DEF AgentMove
<1>3. CASE SharedStep /\ UNCHANGED <<callVars, agentVars>>
  <2>1. ASSUME NEW w \in Workers, Waits(w) \/ Works(w)
        PROVE  IInv'
    BY <1>3, <2>1, WorkerInv DEF WorkerStep
  <2>2. ASSUME NEW i \in Sessions, AdapterExits(i)
        PROVE  IInv'
    BY <1>3, <2>2, AdapterExitsInv
  <2>3. CASE Reap
    BY <1>3, <2>3, ReapInv
  <2>4. CASE DaemonEnds
    BY <1>3, <2>4, DaemonEndsInv
  <2> QED
    BY <1>3, <2>1, <2>2, <2>3, <2>4 DEF SharedStep
<1>4. CASE UNCHANGED vars
  <2>1. /\ UNCHANGED <<mode, machine, daemon, pool, poolLock, sessLock, spawned, origin, exited, link>>
        /\ UNCHANGED <<workVars, asks, replyVars, callVars, agentVars>>
    BY <1>4 DEF vars, sharedVars, sessionVars
  <2> QED
    BY <2>1, Unmoved DEF IInv, SessionTypes
<1> QED
  BY <1>1, <1>2, <1>3, <1>4 DEF Next

\* Whatever the calls, the agents, the daemon and the adapters do, the invariant holds.
THEOREM Invariance == Spec => []IInv
  BY InitInv, NextInv, PTL DEF Spec

----------------------------------------------------------------------------
(* Which adapter a launch finds. *)

\* A non-empty set of numbers has a least one.
LEMMA LeastOf ==
    ASSUME NEW S, S \subseteq Nat, S # {}
    PROVE  Min(S) \in S /\ \A y \in S : Min(S) <= y
<1> DEFINE R == {ss \in Nat \X Nat : ss[1] < ss[2]}
<1>1. IsWellFoundedOn(R, Nat)
  BY NatLessThanWellFounded DEF OpToRel
<1>2. \A x, y \in Nat : <<y, x>> \in R <=> y < x
  OBVIOUS
<1> HIDE DEF R
<1>3. PICK x \in S : \A y \in S : ~(<<y, x>> \in R)
  BY <1>1, WFMin
<1>4. ASSUME NEW y \in S
      PROVE  x <= y
  <2>1. x \in Nat /\ y \in Nat
    OBVIOUS
  <2>2. ~(y < x)
    BY <1>2, <1>3, <2>1
  <2> QED
    BY <2>1, <2>2
<1> QED
  BY <1>4 DEF Min

\* What an attempt finds comes before the attempts after it.
LEMMA FirstOfTwo ==
    ASSUME NEW a, NEW b
    PROVE  FirstOf(<<a, b>>) = IF a # None THEN a ELSE b
<1> DEFINE I == {i \in 1..Len(<<a, b>>) : <<a, b>>[i] # None}
           n == IF I # {} THEN Min(I) ELSE 0
<1>1. FirstOf(<<a, b>>) = IF n = 0 THEN None ELSE <<a, b>>[n]
  BY DEF FirstOf, SelectInSeq
<1>2. I \subseteq {1, 2} /\ (1 \in I <=> a # None) /\ (2 \in I <=> b # None)
  OBVIOUS
<1>3. I # {} => \E x \in I : x = Min(I) /\ \A y \in I : x <= y
  BY <1>2, LeastOf
<1> HIDE DEF I
<1>4. CASE a # None
  <2>1. PICK x \in I : x = Min(I) /\ \A y \in I : x <= y
    BY <1>2, <1>3, <1>4
  <2>2. x = 1
    BY <1>2, <1>4, <2>1
  <2>3. n = 1
    BY <2>1, <2>2
  <2> QED
    BY <1>1, <1>4, <2>3
<1>5. CASE a = None /\ b # None
  <2>1. PICK x \in I : x = Min(I) /\ \A y \in I : x <= y
    BY <1>2, <1>3, <1>5
  <2>2. x = 2
    BY <1>2, <1>5, <2>1
  <2>3. n = 2
    BY <2>1, <2>2
  <2> QED
    BY <1>1, <1>5, <2>3
<1>6. CASE a = None /\ b = None
  <2>1. n = 0
    BY <1>2, <1>6
  <2> QED
    BY <1>1, <1>6, <2>1
<1> QED
  BY <1>4, <1>5, <1>6

\* So it is with three.
LEMMA FirstOfThree ==
    ASSUME NEW a, NEW b, NEW c
    PROVE  FirstOf(<<a, b, c>>) = IF a # None THEN a ELSE IF b # None THEN b ELSE c
<1> DEFINE I == {i \in 1..Len(<<a, b, c>>) : <<a, b, c>>[i] # None}
           n == IF I # {} THEN Min(I) ELSE 0
<1>1. FirstOf(<<a, b, c>>) = IF n = 0 THEN None ELSE <<a, b, c>>[n]
  BY DEF FirstOf, SelectInSeq
<1>2. I \subseteq {1, 2, 3} /\ (1 \in I <=> a # None) /\ (2 \in I <=> b # None) /\ (3 \in I <=> c # None)
  OBVIOUS
<1>3. I # {} => \E x \in I : x = Min(I) /\ \A y \in I : x <= y
  BY <1>2, LeastOf
<1> HIDE DEF I
<1>4. CASE a # None
  <2>1. PICK x \in I : x = Min(I) /\ \A y \in I : x <= y
    BY <1>2, <1>3, <1>4
  <2>2. x = 1
    BY <1>2, <1>4, <2>1
  <2>3. n = 1
    BY <2>1, <2>2
  <2> QED
    BY <1>1, <1>4, <2>3
<1>5. CASE a = None /\ b # None
  <2>1. PICK x \in I : x = Min(I) /\ \A y \in I : x <= y
    BY <1>2, <1>3, <1>5
  <2>2. x = 2
    BY <1>2, <1>5, <2>1
  <2>3. n = 2
    BY <2>1, <2>2
  <2> QED
    BY <1>1, <1>5, <2>3
<1>6. CASE a = None /\ b = None /\ c # None
  <2>1. PICK x \in I : x = Min(I) /\ \A y \in I : x <= y
    BY <1>2, <1>3, <1>6
  <2>2. x = 3
    BY <1>2, <1>6, <2>1
  <2>3. n = 3
    BY <2>1, <2>2
  <2> QED
    BY <1>1, <1>6, <2>3
<1>7. CASE a = None /\ b = None /\ c = None
  <2>1. n = 0
    BY <1>2, <1>7
  <2> QED
    BY <1>1, <1>7, <2>1
<1> QED
  BY <1>4, <1>5, <1>6, <1>7

\* A tool that is found is there; one that is on the PATH is found on the PATH.
LEMMA ToolFound ==
    ASSUME NEW name, NEW m, m.env.PATH \in Seq(ToSet(m.env.PATH)), None \notin Runnable(m)
    PROVE  LET tool == ResolveTool(name, m)
           IN /\ tool = None \/ tool \in Runnable(m)
              /\ (\E dir \in ToSet(m.env.PATH) : <<dir, name>> \in m.files)
                   => tool # None /\ tool.exe[1] \in ToSet(m.env.PATH)
<1> DEFINE path == m.env.PATH
           rest == Managed(FromEnv(m.env))
           places == Places(FromEnv(m.env))
           I == {i \in 1..Len(places) : <<places[i], name>> \in m.files}
           n == IF I # {} THEN Min(I) ELSE 0
<1>0. path \in Seq(ToSet(path))
  OBVIOUS
<1>1. ResolveTool(name, m) = IF n = 0 THEN None ELSE Program(<<places[n], name>>)
  BY DEF ResolveTool, SelectInSeq
<1>2. \E T : rest \in Seq(T)
  <2>1. ASSUME NEW d1, NEW d2, NEW d3, NEW d4, NEW d5
        PROVE  Some(d1) \o Some(d2) \o Some(d3) \o Some(d4) \o Some(d5) \in Seq({d1, d2, d3, d4, d5})
    <3> DEFINE T == {d1, d2, d3, d4, d5}
    <3>0. ASSUME NEW d \in T
          PROVE  Some(d) \in Seq(T)
      <4> HIDE DEF T
      <4> QED
        BY DEF Some
    <3>1. /\ Some(d1) \in Seq(T) /\ Some(d2) \in Seq(T) /\ Some(d3) \in Seq(T)
          /\ Some(d4) \in Seq(T) /\ Some(d5) \in Seq(T)
      BY <3>0
    <3> HIDE DEF T
    <3> QED
      BY <3>1 DEF T
  <2> QED
    BY <2>1 DEF Managed
<1>3. /\ Len(path) \in Nat /\ Len(places) \in Nat /\ Len(path) <= Len(places)
      /\ \A i \in 1..Len(path) : places[i] = path[i]
  <2>1. FromEnv(m.env).path_dirs = path
    BY DEF FromEnv
  <2>2. places = path \o rest
    BY <2>1 DEF Places
  <2>3. PICK T : rest \in Seq(T)
    BY <1>2
  <2> DEFINE U == ToSet(path) \cup T
  <2>4. path \in Seq(U) /\ rest \in Seq(U)
    BY <2>3
  <2> HIDE DEF U, path, rest, places
  <2> QED
    BY <2>2, <2>4
<1> HIDE DEF path, rest, places
<1>4. I \subseteq Nat /\ 0 \notin I
  BY <1>3
<1>5. I # {} => Min(I) \in I /\ \A y \in I : Min(I) <= y
  BY <1>4, LeastOf
<1>6. \A i \in I : i \in 1..Len(places) /\ <<places[i], name>> \in m.files
  OBVIOUS
<1>7. \A dir \in ToSet(path) : \E i \in 1..Len(path) : path[i] = dir
  BY <1>0 DEF ToSet
<1>8. \A i \in 1..Len(path) : path[i] \in ToSet(path)
  BY <1>0 DEF ToSet
<1>9. \A i \in 1..Len(path) : <<path[i], name>> \in m.files => i \in I
  BY <1>3
<1> HIDE DEF I
<1>10. CASE I = {}
  BY <1>1, <1>7, <1>9, <1>10 DEF path
<1>11. CASE I # {}
  <2>1. n \in I /\ \A y \in I : n <= y
    BY <1>5, <1>11
  <2>2. n # 0 /\ <<places[n], name>> \in m.files /\ n \in 1..Len(places)
    BY <1>4, <1>6, <2>1
  <2> HIDE DEF n
  <2>3. ResolveTool(name, m) = Program(<<places[n], name>>)
    BY <1>1, <2>2
  <2>4. Program(<<places[n], name>>) \in Runnable(m)
    BY <2>2 DEF Runnable
  <2>5. ASSUME NEW dir \in ToSet(path), <<dir, name>> \in m.files
        PROVE  places[n] \in ToSet(path)
    <3>1. PICK i \in 1..Len(path) : path[i] = dir
      BY <1>7
    <3>2. i \in I
      BY <1>9, <2>5, <3>1
    <3>3. n \in 1..Len(path)
      BY <1>3, <2>1, <2>2, <3>1, <3>2
    <3> QED
      BY <1>3, <1>8, <3>3
  <2>6. ResolveTool(name, m).exe[1] = places[n]
    <3>1. Program(<<places[n], name>>).exe = <<places[n], name>>
      BY DEF Program
    <3>2. <<places[n], name>>[1] = places[n]
      OBVIOUS
    <3> QED
      BY <2>3, <3>1, <3>2
  <2>7. ResolveTool(name, m) \in Runnable(m) /\ ResolveTool(name, m) # None
    BY <2>3, <2>4
  <2>8. (\E dir \in ToSet(path) : <<dir, name>> \in m.files) => ResolveTool(name, m).exe[1] \in ToSet(path)
    BY <2>5, <2>6
  <2> QED
    BY <2>7, <2>8 DEF path
<1> QED
  BY <1>10, <1>11

\* What discovery finds for a family can run; the first tool of a family, if it is on
\* the PATH, is what it finds.
LEMMA FamilyFound ==
    ASSUME NEW m, m.env.PATH \in Seq(ToSet(m.env.PATH)), None \notin Runnable(m), NEW family \in {"python", "lldb"},
           NEW first, first = (IF family = "python" THEN "debugpy-adapter" ELSE "lldb-dap")
    PROVE  /\ TableSaysOk(family, m) => AdapterOf(family, m) \in Runnable(m)
           /\ (\E dir \in ToSet(m.env.PATH) : <<dir, first>> \in m.files)
                => AdapterOf(family, m).exe[1] \in ToSet(m.env.PATH)
<1> DEFINE tool == ResolveTool(first, m)
           onPath == \E dir \in ToSet(m.env.PATH) : <<dir, first>> \in m.files
<1>1. /\ tool = None \/ tool \in Runnable(m)
      /\ onPath => tool # None /\ tool.exe[1] \in ToSet(m.env.PATH)
  BY ToolFound
<1>2. CASE family = "python"
  <2> DEFINE sys == IF System \in m.debugpy THEN Module(System) ELSE None
  <2>1. ResolvePython(m) = IF tool # None THEN tool ELSE IF UvTools(m) # None THEN UvTools(m) ELSE sys
    BY <1>2, FirstOfThree DEF ResolvePython
  <2>2. UvTools(m) = None \/ UvTools(m) \in Runnable(m)
    BY DEF UvTools, Runnable
  <2>3. sys = None \/ sys \in Runnable(m)
    BY DEF Runnable
  <2>4. AdapterOf(family, m) = IF ResolvePython(m) # None THEN ResolvePython(m) ELSE Module(System)
    BY <1>2, FirstOfTwo DEF AdapterOf
  <2>5. TableSaysOk(family, m) = (ResolvePython(m) # None)
    BY <1>2 DEF TableSaysOk
  <2> HIDE DEF tool, sys, onPath
  <2>6. TableSaysOk(family, m) => AdapterOf(family, m) \in Runnable(m)
    BY <1>1, <2>1, <2>2, <2>3, <2>4, <2>5
  <2>7. onPath => AdapterOf(family, m) = tool
    BY <1>1, <2>1, <2>4
  <2> QED
    BY <1>1, <2>6, <2>7 DEF onPath
<1>3. CASE family = "lldb"
  <2> DEFINE second == ResolveTool("lldb-vscode", m)
  <2>1. ResolveLldb(m) = IF tool # None THEN tool ELSE second
    BY <1>3, FirstOfTwo DEF ResolveLldb
  <2>2. second = None \/ second \in Runnable(m)
    BY ToolFound
  <2>3. AdapterOf(family, m) = IF ResolveLldb(m) # None THEN ResolveLldb(m) ELSE Program(<<(<<>>), "lldb-dap">>)
    BY <1>3, FirstOfTwo DEF AdapterOf
  <2>4. TableSaysOk(family, m) = (ResolveLldb(m) # None)
    BY <1>3 DEF TableSaysOk
  <2> HIDE DEF tool, second, onPath
  <2>5. TableSaysOk(family, m) => AdapterOf(family, m) \in Runnable(m)
    BY <1>1, <2>1, <2>2, <2>3, <2>4
  <2>6. onPath => AdapterOf(family, m) = tool
    BY <1>1, <2>1, <2>3
  <2> QED
    BY <1>1, <2>5, <2>6 DEF onPath
<1> QED
  BY <1>2, <1>3

----------------------------------------------------------------------------
(* The invariants that the runs check. *)

\* Every variable keeps its type, and a worker without a request holds no session.
THEOREM TypeCorrect == Spec => []TypeOK
<1>1. ASSUME IInv PROVE TypeOK
  <2>1. Chosen /\ SessionTypes /\ WorkTypes /\ CallTypes /\ AgentTypes /\ Linked /\ Working
    BY <1>1 DEF IInv
  <2>2. \A w \in Workers : inbox[w] = <<>> => phase[w] = "idle" /\ ref[w] = None
    BY <2>1 DEF Working, AtWorkOk
  <2> QED
    BY <2>1, <2>2 DEF TypeOK, Chosen, SessionTypes, WorkTypes, CallTypes, AgentTypes, Linked
<1> QED
  BY <1>1, Invariance, PTL

\* A launch of the in-process server runs on the adapter that was started for it; one of
\* the daemon's server on that one or on one started later, never on an older one.
THEOREM LaunchFresh == Spec => []LaunchesFresh
<1>1. ASSUME IInv PROVE LaunchesFresh
  <2> SUFFICES ASSUME NEW c \in Calls, ran[c] # None, ran[c].tool \in Starts
               PROVE  \E i \in 1..ran[c].on : origin[i].by = c /\ (mode = "in_process" => i = ran[c].on)
    BY DEF LaunchesFresh
  <2>1. Fresh /\ Apart /\ SessionTypes
    BY <1>1 DEF IInv
  <2>2. Launching(c) /\ ran[c].on \in 1..spawned
    BY <2>1 DEF Fresh, Launching
  <2>3. CASE mode = "in_process"
    <3>1. origin[ran[c].on].by = c
      BY <2>1, <2>2, <2>3 DEF Apart
    <3>2. ran[c].on \in 1..ran[c].on
      BY <2>1, <2>2 DEF SessionTypes
    <3> QED
      BY <3>1, <3>2
  <2>4. CASE mode # "in_process"
    BY <2>1, <2>2, <2>4 DEF Fresh, Own
  <2> QED
    BY <2>3, <2>4
<1> QED
  BY <1>1, Invariance, PTL

\* Whatever happens between the choice of a session and its use, a call runs on one that
\* was started for the backend and cwd it has resolved.
THEOREM KeysReached == Spec => []CallsReachTheirKey
<1>1. ASSUME IInv PROVE CallsReachTheirKey
  <2> SUFFICES ASSUME NEW c \in Calls, ran[c] # None
               PROVE  LET key == origin[ran[c].on].key
                      IN /\ key[1] = target[c][1]
                         /\ key[2] = target[c][2] \/ (key[2] = None /\ target[c][2] = "")
    BY DEF CallsReachTheirKey
  <2>1. origin[ran[c].on].key = PoolKey(target[c])
    BY <1>1 DEF IInv, Keyed
  <2>2. CASE target[c][2] = ""
    <3>1. PoolKey(target[c])[1] = target[c][1] /\ PoolKey(target[c])[2] = None
      BY <2>2 DEF PoolKey
    <3> QED
      BY <2>1, <2>2, <3>1
  <2>3. CASE target[c][2] # ""
    <3>1. PoolKey(target[c])[1] = target[c][1] /\ PoolKey(target[c])[2] = target[c][2]
      BY <2>3 DEF PoolKey
    <3> QED
      BY <2>1, <3>1
  <2> QED
    BY <2>2, <2>3
<1> QED
  BY <1>1, Invariance, PTL

\* An adapter that discovery has chosen runs, and comes from the PATH if its first choice is there.
LEMMA BackendFits ==
    ASSUME IInv, NEW c \in Calls
    PROVE  AdapterFits(c)
<1> SUFFICES ASSUME script[c].tool = "debug_launch", target[c] # None, script[c].backend = None
             PROVE  /\ TableSaysOk(Family(c), machine) => target[c][1] \in Runnable(machine)
                    /\ (\E dir \in ToSet(machine.env.PATH) : <<dir, FirstName[Family(c)]>> \in machine.files)
                         => target[c][1].exe[1] \in ToSet(machine.env.PATH)
  BY DEF AdapterFits
<1>1. Chosen /\ Faithful
  BY DEF IInv
<1>2. Launching(c)
  BY DEF Launching, Starts
<1>3. target[c][1] = Backend(c) /\ Backend(c) # None
  BY <1>1, <1>2 DEF Faithful
<1> DEFINE family == Family(c)
<1>4. Backend(c) = IF family = None THEN None ELSE AdapterOf(family, machine)
  BY DEF Backend, BackendFor, ResolveBackend, Family
<1>5. family # None
  BY <1>3, <1>4
<1>6. family \in {"python", "lldb"}
  <2>1. LanguageFamily(script[c].language) \in {"python", "lldb", None}
    BY DEF LanguageFamily
  <2>2. ExtensionFamily(script[c].ext) \in {"python", "lldb", None}
    BY DEF ExtensionFamily
  <2>3. family = IF LanguageFamily(script[c].language) # None THEN LanguageFamily(script[c].language)
                 ELSE ExtensionFamily(script[c].ext)
    BY FirstOfTwo DEF Family
  <2> QED
    BY <1>5, <2>1, <2>2, <2>3
<1>7. FirstName[family] = IF family = "python" THEN "debugpy-adapter" ELSE "lldb-dap"
  BY <1>6 DEF FirstName
<1>8. machine.env.PATH \in Seq(ToSet(machine.env.PATH)) /\ None \notin Runnable(machine)
  BY <1>1 DEF Chosen
<1>9. /\ TableSaysOk(family, machine) => AdapterOf(family, machine) \in Runnable(machine)
      /\ (\E dir \in ToSet(machine.env.PATH) : <<dir, FirstName[family]>> \in machine.files)
           => AdapterOf(family, machine).exe[1] \in ToSet(machine.env.PATH)
  BY <1>6, <1>7, <1>8, FamilyFound
<1> QED
  BY <1>3, <1>4, <1>5, <1>9

\* Whoever asks, and however it gets there, a tool runs the method it names with what
\* its schema offers; it is refused for a reason only; and a launch finds an adapter.
THEOREM ToolsAgreeEverywhere == Spec => []ToolsAgree
<1>1. ASSUME IInv PROVE ToolsAgree
  <2>1. Faithful
    BY <1>1 DEF IInv
  <2>2. ASSUME NEW c \in Callers
        PROVE  SameOperation(c)
    <3> SUFFICES ASSUME ran[c] # None
                 PROVE  /\ ran[c].method = Method(ran[c].tool)
                        /\ ran[c].with = ran[c].given \cap Payload(ran[c].tool)
                        /\ ran[c].compressor = LET compresses == c \in Calls \/ plan[c].compression
                                               IN IF compresses THEN LocalTools[ran[c].tool].compressor ELSE "none"
      BY DEF SameOperation
    <3>1. /\ ran[c].tool \in Tools /\ ran[c].method = Method(ran[c].tool)
          /\ ran[c].with = ran[c].given \cap Carried[ran[c].tool]
          /\ ran[c].compressor = IF c \in Calls \/ plan[c].compression THEN Shortener[ran[c].tool] ELSE "none"
      BY <2>1 DEF Faithful
    <3>2. Payload(ran[c].tool) = Carried[ran[c].tool]
      BY <3>1, PayloadCarried
    <3>3. LocalTools[ran[c].tool].compressor = Shortener[ran[c].tool]
      BY <3>1, LocalRows
    <3> QED
      BY <3>1, <3>2, <3>3
  <2>3. ASSUME NEW c \in Calls
        PROVE  RefusedForAReason(c) /\ AdapterFits(c)
    BY <1>1, <2>1, BackendFits DEF Faithful
  <2> QED
    BY <2>2, <2>3 DEF ToolsAgree
<1> QED
  BY <1>1, Invariance, PTL

----------------------------------------------------------------------------
(* The pool is a registry of sessions. *)

RegistryStep == [Registry!RegistryNext]_(Registry!registryVars)

\* A step that leaves the pool and the locks alone is none of the registry's.
LEMMA RegistryStutters ==
    ASSUME pool' = pool, sessLock' = sessLock
    PROVE  RegistryStep
  BY DEF RegistryStep, Registry!registryVars

\* A key that is emptied, or was empty, is closed.
LEMMA KeyCloses ==
    ASSUME SessionTypes, NEW k \in Keys, pool' = [pool EXCEPT ![k] = None], sessLock' = sessLock
    PROVE  RegistryStep
<1>1. CASE pool[k] = None
  <2>1. pool' = pool
    BY <1>1 DEF SessionTypes
  <2> QED
    BY <2>1, RegistryStutters
<1>2. CASE pool[k] # None
  <2>1. Registry!Close(k)
    BY <1>2 DEF Registry!Close
  <2> QED
    BY <2>1 DEF RegistryStep, Registry!RegistryNext
<1> QED
  BY <1>1, <1>2

\* reap_if_dead closes its key or leaves the pool as it is.
LEMMA ReapCloses ==
    ASSUME SessionTypes, NEW k \in Keys, pool' = ReapIfDead(k), sessLock' = sessLock
    PROVE  RegistryStep
<1>1. CASE pool' = pool
  BY <1>1, RegistryStutters
<1>2. CASE pool' = [pool EXCEPT ![k] = None]
  BY <1>2, KeyCloses
<1> QED
  BY <1>1, <1>2 DEF ReapIfDead

\* A worker lets go of the one session it holds, if it holds one.
LEMMA WorkerEnds ==
    ASSUME SessionTypes, Locked, NEW w \in Workers, pool' = pool, sessLock' = Unlocked(w)
    PROVE  RegistryStep
<1>1. sessLock \in [Sessions -> Workers \cup {None}]
  BY DEF SessionTypes
<1>2. CASE \A i \in Sessions : sessLock[i] # w
  <2>1. sessLock' = sessLock
    BY <1>1, <1>2 DEF Unlocked
  <2> QED
    BY <2>1, RegistryStutters
<1>3. ASSUME NEW i \in Sessions, sessLock[i] = w
      PROVE  RegistryStep
  <2>1. \A j \in Sessions : sessLock[j] = w => j = i
    BY <1>3 DEF Locked
  <2>2. sessLock' = [sessLock EXCEPT ![i] = None]
    BY <1>1, <1>3, <2>1 DEF Unlocked
  <2>3. Registry!End(w, i)
    BY <1>3, <2>2 DEF Registry!End
  <2> QED
    BY <2>3 DEF RegistryStep, Registry!RegistryNext
<1> QED
  BY <1>2, <1>3

\* get_or_spawn leaves the pool alone, or binds the key to a session nobody has ever held.
LEMMA SpawnOpens ==
    ASSUME SessionTypes, Locked, Working, NEW k \in Keys, ReapIfDead(k)[k] = None, spawned < MaxSpawns,
           pool' = [ReapIfDead(k) EXCEPT ![k] = spawned + 1], sessLock' = sessLock
    PROVE  RegistryStep
<1> USE WorkersApart
<1> DEFINE i == spawned + 1
<1>1. spawned \in 0..MaxSpawns
  BY DEF SessionTypes
<1>2. i \in Sessions /\ i \notin 1..spawned
  BY <1>1 DEF Sessions
<1>3. \A j \in Keys : pool[j] # i
  <2> SUFFICES ASSUME NEW j \in Keys, pool[j] = i
               PROVE  FALSE
    OBVIOUS
  <2>1. pool[j] # None
    BY <1>2
  <2> QED
    BY <1>2, <2>1 DEF SessionTypes
<1>4. sessLock[i] = None
  <2> SUFFICES ASSUME sessLock[i] # None
               PROVE  FALSE
    OBVIOUS
  <2>1. PICK v \in Workers : sessLock[i] = v
    BY <1>2 DEF SessionTypes
  <2>2. ref[v] = i /\ phase[v] \in {"run", "unpool", "release"}
    BY <1>2, <2>1 DEF Locked
  <2>3. ref[v] \in 1..spawned
    BY <2>2 DEF Working, AtWorkOk
  <2> QED
    BY <1>2, <2>2, <2>3
<1>5. Registry!Unheld(i)
  BY <1>3, <1>4 DEF Registry!Unheld
<1>6. pool' = [pool EXCEPT ![k] = i]
  BY DEF SessionTypes, ReapIfDead
<1> HIDE DEF i
<1>7. CASE pool[k] = None
  <2>1. Registry!Open(k, i)
    BY <1>5, <1>6, <1>7 DEF Registry!Open
  <2> QED
    BY <1>2, <2>1 DEF RegistryStep, Registry!RegistryNext
<1>8. CASE pool[k] # None
  <2>1. sessLock[pool[k]] = None
    BY <1>8 DEF ReapIfDead, SessionTypes
  <2>2. Registry!Reopen(k, i)
    BY <1>5, <1>6, <1>8, <2>1 DEF Registry!Reopen
  <2> QED
    BY <1>2, <2>2 DEF RegistryStep, Registry!RegistryNext
<1> QED
  BY <1>7, <1>8

\* Each step of a worker is at most one of the registry's.
LEMMA WorkerRefines ==
    ASSUME SessionTypes, WorkTypes, Asked, Working, Locked, NEW w \in Workers, Waits(w) \/ Works(w)
    PROVE  RegistryStep
<1>1. phase[w] # "idle" => inbox[w] # <<>>
  BY DEF Working, AtWorkOk
<1>2. inbox[w] # <<>> => Job(w).key \in Keys
  BY JobOk
<1>3. CASE TakeUp(w)
  <2>1. pool' = pool /\ sessLock' = sessLock
    BY <1>3 DEF TakeUp, sessionVars
  <2> QED
    BY <2>1, RegistryStutters
<1>4. CASE Evict(w)
  <2>1. Job(w).key \in Keys /\ pool' = [pool EXCEPT ![Job(w).key] = None] /\ sessLock' = sessLock
    BY <1>1, <1>2, <1>4 DEF Evict, At
  <2> QED
    BY <2>1, KeyCloses
<1>5. CASE GetOrSpawn(w)
  <2>1. Job(w).key \in Keys /\ sessLock' = sessLock
    BY <1>1, <1>2, <1>5 DEF GetOrSpawn, At
  <2>2. CASE ReapIfDead(Job(w).key)[Job(w).key] # None /\ pool' = ReapIfDead(Job(w).key)
    BY <2>1, <2>2, ReapCloses
  <2>3. CASE /\ ReapIfDead(Job(w).key)[Job(w).key] = None /\ spawned < MaxSpawns
             /\ pool' = [ReapIfDead(Job(w).key) EXCEPT ![Job(w).key] = spawned + 1]
    BY <2>1, <2>3, SpawnOpens
  <2> QED
    BY <1>5, <2>2, <2>3 DEF GetOrSpawn
<1>6. CASE SpawnFails(w)
  <2>1. Job(w).key \in Keys /\ pool' = ReapIfDead(Job(w).key) /\ sessLock' = sessLock
    BY <1>1, <1>2, <1>6 DEF SpawnFails, At
  <2> QED
    BY <2>1, ReapCloses
<1>7. CASE Lookup(w)
  <2>1. Job(w).key \in Keys /\ pool' = ReapIfDead(Job(w).key) /\ sessLock' = sessLock
    BY <1>1, <1>2, <1>7 DEF Lookup, At
  <2> QED
    BY <2>1, ReapCloses
<1>8. CASE LockSession(w)
  <2>1. /\ phase[w] = "lock" /\ sessLock[ref[w]] = None
        /\ sessLock' = [sessLock EXCEPT ![ref[w]] = w] /\ pool' = pool
    BY <1>8 DEF LockSession, At
  <2>2. ref[w] \in Sessions
    BY <2>1, WorkersApart DEF Working, AtWorkOk, SessionTypes, Sessions
  <2>3. \A j \in Sessions : sessLock[j] # w
    BY <2>1 DEF Locked
  <2>4. Registry!Begin(w, ref[w])
    BY <2>1, <2>3 DEF Registry!Begin
  <2> QED
    BY <2>2, <2>4 DEF RegistryStep, Registry!RegistryNext
<1>9. CASE Refuse(w)
  BY <1>9, WorkerEnds DEF Refuse
<1>10. CASE Run(w)
  <2>1. pool' = pool /\ sessLock' \in {Unlocked(w), sessLock}
    BY <1>10 DEF Run
  <2> QED
    BY <2>1, WorkerEnds, RegistryStutters
<1>11. CASE RunFails(w)
  BY <1>11, WorkerEnds DEF RunFails
<1>12. CASE Unpool(w)
  <2>1. Job(w).key \in Keys /\ pool' = [pool EXCEPT ![Job(w).key] = None] /\ sessLock' = sessLock
    BY <1>1, <1>2, <1>12 DEF Unpool, At
  <2> QED
    BY <2>1, KeyCloses
<1>13. CASE Release(w)
  BY <1>13, WorkerEnds DEF Release
<1>14. CASE Abort(w)
  BY <1>14, WorkerEnds DEF Abort
<1> QED
  BY <1>3, <1>4, <1>5, <1>6, <1>7, <1>8, <1>9, <1>10, <1>11, <1>12, <1>13, <1>14 DEF Waits, Works

\* However it is reached, in the server's process or through a daemon that may end at
\* any time, the pool is a registry: a key names one session, a new one is nobody's,
\* and a session runs one operation at a time.
THEOREM Refinement == Spec => ImplementsRegistry
<1>1. Init => Registry!RegistryInit
  BY DEF Init, SharedInit, Registry!RegistryInit
<1>2. IInv /\ [Next]_vars => [Registry!RegistryNext]_(Registry!registryVars)
  <2> SUFFICES ASSUME IInv, [Next]_vars PROVE RegistryStep
    BY DEF RegistryStep
  <2>0. Chosen /\ SessionTypes /\ WorkTypes /\ CallTypes /\ AgentTypes /\ Linked /\ Handled /\ Asked /\ Working /\ Locked
    BY DEF IInv
  <2>1. ASSUME NEW c \in Calls, CallStep(c), UNCHANGED agentVars
        PROVE  RegistryStep
    <3>1. pool' = pool /\ sessLock' = sessLock
      BY <2>0, <2>1, CallOnward DEF CallMove, Onward
    <3> QED
      BY <3>1, RegistryStutters
  <2>2. ASSUME NEW a \in Agents, AgentStep(a) \/ AgentGivesUp(a), UNCHANGED callVars
        PROVE  RegistryStep
    <3>1. pool' = pool /\ sessLock' = sessLock
      BY <2>0, <2>2, AgentProgress DEF AgentMove, AgentOnward
    <3> QED
      BY <3>1, RegistryStutters
  <2>3. CASE SharedStep
    <3>1. ASSUME NEW w \in Workers, Waits(w) \/ Works(w)
          PROVE  RegistryStep
      BY <2>0, <3>1, WorkerRefines
    <3>2. ASSUME NEW i \in Sessions, AdapterExits(i)
          PROVE  RegistryStep
      BY <3>2, RegistryStutters DEF AdapterExits
    <3>3. CASE DaemonEnds
      <4>1. Registry!CloseAll
        BY <3>3 DEF DaemonEnds, Registry!CloseAll
      <4> QED
        BY <4>1 DEF RegistryStep, Registry!RegistryNext
    <3>4. CASE Reap
      <4>1. PICK quiet \in SUBSET {k \in Keys : pool[k] # None} :
              /\ \A k \in quiet : sessLock[pool[k]] = None
              /\ pool' = [k \in Keys |-> IF k \in quiet THEN None ELSE pool[k]]
        BY <3>4 DEF Reap
      <4>2. pool' \in [Keys -> Sessions \cup {None}]
        BY <2>0, <4>1 DEF SessionTypes
      <4>3. Registry!Reap
        BY <3>4, <4>1, <4>2 DEF Reap, Registry!Reap
      <4> QED
        BY <4>3 DEF RegistryStep, Registry!RegistryNext
    <3> QED
      BY <2>3, <3>1, <3>2, <3>3, <3>4 DEF SharedStep
  <2>4. CASE UNCHANGED vars
    BY <2>4, RegistryStutters DEF vars, sharedVars, sessionVars
  <2> QED
    BY <2>1, <2>2, <2>3, <2>4 DEF Next
<1> QED
  BY <1>1, <1>2, Invariance, PTL DEF Spec, ImplementsRegistry, Registry!RegistrySpec
=============================================================================
