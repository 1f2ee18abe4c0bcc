----------------------------- MODULE GatewayProofs -----------------------------
(***************************************************************************)
(* Proofs about Gateway, for every set of chats and every bound on         *)
(* messages, subagents and turns.                                          *)
(***************************************************************************)
EXTENDS Gateway, FiniteSets, TLAPS, SequenceTheorems, FiniteSetTheorems

-----------------------------------------------------------------------------
(* The inductive invariant *)

Address == Chat \cup {NoChat}
Messages == [id : Nat, chat : Address, from : {"nobody", "user", "subagent"}]
Tasks == [pc : {"none", "running", "cancelled", "over"}, chat : Address]
Counters == [received : Nat, accepted : Nat, asides : Nat]

Places == Starting \cup {"run", "ending", "heartbeat.stop", "cron.stop", "heartbeat.aclose", "cron.aclose",
                        "agent.aclose", "channels.stop_all", "application", "leaving",
                        "server.close", "server.wait_closed", "over"}

Types ==
    /\ pc \in Places
    /\ server \in BOOLEAN /\ client \in BOOLEAN /\ kept \in BOOLEAN
    /\ loop \in {"none", "running", "cancelled", "over"}
    /\ startAll \in {"none", "created", "starting", "polling", "cancelled", "over"}
    /\ inbound \in Seq(Messages) /\ outbound \in Seq(Address) /\ turn \in Messages
    /\ worker \in [Worker -> {"off", "waiting", "turn", "cancelled"}]
    /\ subagent \in [Subagent -> Tasks] /\ closed \in BOOLEAN
    /\ app \in BOOLEAN /\ polling \in BOOLEAN /\ typing \in [Chat -> {"off", "allowed", "denied"}]
    /\ dispatcher \in {"none", "live", "cancelled", "over"} /\ sending \in BOOLEAN
    /\ count \in Counters /\ answered \in Seq(Nat)

\* The clean-up steps, each with those that follow it.
Last == {"leaving", "server.close", "server.wait_closed", "over"}
FromApplication == {"application"} \cup Last
FromChannels == {"channels.stop_all"} \cup FromApplication
FromAgent == {"agent.aclose"} \cup FromChannels
FromCronClose == {"cron.aclose"} \cup FromAgent
FromHeartbeatClose == {"heartbeat.aclose"} \cup FromCronClose
FromCronStop == {"cron.stop"} \cup FromHeartbeatClose

\* The tasks of the task group live in it; before it nothing has happened.
TaskGroup ==
    /\ loop = "running" <=> pc = "run"
    /\ loop = "cancelled" => pc = "ending"
    /\ startAll \in {"created", "starting", "polling"} => pc = "run"
    /\ startAll = "cancelled" => pc = "ending"
    /\ turn # NoMessage => loop \in {"running", "cancelled"}
    /\ pc \in Starting => /\ startAll = "none" /\ dispatcher = "none"
                          /\ ~app /\ ~polling /\ \A c \in Chat : typing[c] = "off"

\* The workers are told to end, then awaited.
Workers ==
    /\ pc = "entering" => \A w \in Worker : worker[w] = "off"
    /\ pc \in FromCronStop => worker["heartbeat"] \in {"off", "cancelled"}
    /\ pc \in FromHeartbeatClose => worker["cron"] \in {"off", "cancelled"}
    /\ pc \in FromCronClose => worker["heartbeat"] = "off"
    /\ pc \in FromAgent => worker["cron"] = "off"

Subagents ==
    /\ closed => \A s \in Subagent : subagent[s].pc # "running"
    /\ pc \in {"entering"} \cup FromChannels => \A s \in Subagent : subagent[s].pc \in {"none", "over"}

Client ==
    /\ pc \in {"entering", "health", "server.wait_closed", "over"} => ~server
    /\ client => server \/ pc = "server.wait_closed"
    /\ pc \in FromApplication => dispatcher \in {"none", "over"}
    /\ polling => app
    /\ pc \in Last => (app => kept)

\* A typing indicator of an allowed sender waits for a message of a user, not
\* for the announcement of a subagent: that one may fail without an answer to
\* the chat.
Typing ==
    pc = "run" => \A c \in Chat :
        /\ typing[c] # "off" => app
        /\ typing[c] = "allowed" =>
              \/ turn.from = "user" /\ turn.chat = c
              \/ \E m \in Range(inbound) : m.chat = c /\ m.from = "user"
              \/ c \in Range(outbound)

\* Messages are numbered as they are accepted; the numbers do not run out.
Announced == {s \in Subagent : subagent[s].pc = "over"}
Numbered ==
    /\ \A m \in Range(inbound) : m.id \in 1..count.accepted
    /\ turn.id <= count.accepted
    /\ \A n \in Range(answered) : n <= count.accepted
    /\ count.received <= MaxMessages
    /\ count.accepted <= count.received + Cardinality(Announced)

Inv == Types /\ TaskGroup /\ Workers /\ Subagents /\ Client /\ Typing /\ Numbered

-----------------------------------------------------------------------------
(* Types *)

USE DEF gateway, bus, agent, telegram, dispatch, ghosts

LEMMA Bounds == MaxMessages \in Nat /\ MaxSpawns \in Nat /\ MaxAsides \in Nat /\ NoChat \notin Chat
BY ConstantsAssumption

LEMMA NoMessageTyped == NoMessage \in Messages /\ NoMessage.id = 0
BY DEF NoMessage, Messages, Address

LEMMA PlacesMean ==
    /\ Starting \subseteq Places
    /\ {"entering", "health", "cron", "heartbeat"} \subseteq Places
    /\ {"run", "ending", "heartbeat.stop", "cron.stop", "heartbeat.aclose", "cron.aclose", "agent.aclose",
        "channels.stop_all", "application", "leaving", "server.close", "server.wait_closed", "over"} \subseteq Places
BY DEF Places, Starting

\* What is counted goes up by one.
LEMMA CountsTyped ==
    ASSUME Types, NEW what \in {"received", "accepted", "asides"}, Counts(what)
    PROVE  /\ count' \in Counters /\ count'[what] = count[what] + 1
           /\ \A f \in {"received", "accepted", "asides"} \ {what} : count'[f] = count[f]
<1>1. count \in Counters
  BY DEF Types
<1>2. CASE what = "received"
  BY <1>1, <1>2 DEF Counts, Counters
<1>3. CASE what = "accepted"
  BY <1>1, <1>3 DEF Counts, Counters
<1>4. CASE what = "asides"
  BY <1>1, <1>4 DEF Counts, Counters
<1> QED BY <1>2, <1>3, <1>4

LEMMA EnqueueTyped ==
    ASSUME Types, NEW c \in Address, NEW from \in {"user", "subagent"}, Enqueue(c, from)
    PROVE  /\ inbound' = Append(inbound, [id |-> count.accepted + 1, chat |-> c, from |-> from])
           /\ inbound' \in Seq(Messages)
           /\ [id |-> count.accepted + 1, chat |-> c, from |-> from] \in Messages
<1>1. [id |-> count.accepted + 1, chat |-> c, from |-> from] \in Messages
  BY DEF Types, Counters, Messages
<1>2. inbound' = Append(inbound, [id |-> count.accepted + 1, chat |-> c, from |-> from]) /\ inbound \in Seq(Messages)
  BY DEF Types, Enqueue
<1> QED BY <1>1, <1>2, AppendProperties

LEMMA PublishTyped ==
    ASSUME Types, NEW c \in Address, Publish(c)
    PROVE  outbound' = Append(outbound, c) /\ outbound' \in Seq(Address)
BY AppendProperties DEF Types, Publish

LEMMA TakenTyped ==
    ASSUME Types, Take
    PROVE  turn' \in Messages /\ inbound' \in Seq(Messages)
BY HeadTailProperties DEF Types, Take

\* One step of a worker or of a subagent is about that one.
WorkerGoes(w, to) == worker'[w] = to /\ \A x \in Worker \ {w} : worker'[x] = worker[x]
SubagentGoes(s, to) == subagent'[s].pc = to /\ \A x \in Subagent \ {s} : subagent'[x] = subagent[x]

LEMMA WorkerTyped ==
    ASSUME Types, NEW w \in Worker, NEW to \in {"off", "waiting", "turn", "cancelled"},
           worker' = [worker EXCEPT ![w] = to]
    PROVE  worker' \in [Worker -> {"off", "waiting", "turn", "cancelled"}] /\ WorkerGoes(w, to)
BY DEF Types, WorkerGoes

LEMMA SubagentTyped ==
    ASSUME Types, NEW s \in Subagent, NEW r \in Tasks, subagent' = [subagent EXCEPT ![s] = r]
    PROVE  subagent' \in [Subagent -> Tasks] /\ SubagentGoes(s, r.pc)
BY DEF Types, SubagentGoes

LEMMA SubagentMoves ==
    ASSUME Types, NEW s \in Subagent, NEW to \in {"none", "running", "cancelled", "over"},
           subagent' = [subagent EXCEPT ![s].pc = to]
    PROVE  subagent' \in [Subagent -> Tasks] /\ SubagentGoes(s, to)
<1> DEFINE r == [subagent[s] EXCEPT !.pc = to]
<1>1. r \in Tasks /\ r.pc = to /\ subagent' = [subagent EXCEPT ![s] = r]
  BY DEF Types, Tasks
<1> QED BY <1>1, SubagentTyped

\* aclose cancels the subagents that run and leaves the others.
LEMMA CloseAgentTyped ==
    ASSUME Types, CloseAgent
    PROVE  /\ subagent' \in [Subagent -> Tasks]
           /\ \A s \in Subagent : subagent'[s].pc = IF subagent[s].pc = "running" THEN "cancelled" ELSE subagent[s].pc
<1> DEFINE r(s) == [subagent[s] EXCEPT !.pc = "cancelled"]
<1>1. \A s \in Subagent : subagent[s] \in Tasks /\ r(s) \in Tasks /\ r(s).pc = "cancelled"
  BY DEF Types, Tasks
<1>2. subagent' = [s \in Subagent |-> IF subagent[s].pc = "running" THEN r(s) ELSE subagent[s]]
  BY DEF CloseAgent
<1> HIDE DEF r
<1> QED BY <1>1, <1>2

\* The steps that begin or end a task, or are taken by one that has only its
\* place to change.
TaskStep ==
    \/ LoopEnds \/ StartChannels \/ Connected \/ SendEnds \/ DispatcherEnds
    \/ Enter \/ OpenServer \/ ClientConnects \/ ClientServed \/ StartFails
    \/ TaskFails \/ Cancel \/ TaskGroupEnds \/ StopDispatcher
    \/ \E built \in BOOLEAN : StartAllEnds(built)

LEMMA TaskStepTyped ==
    ASSUME Types, TaskStep
    PROVE  Types'
<1> USE DEF Types
<1>1. CASE LoopEnds
  BY <1>1, NoMessageTyped DEF LoopEnds
<1>2. CASE StartChannels
  BY <1>2 DEF StartChannels
<1>3. CASE Connected
  BY <1>3 DEF Connected
<1>4. CASE SendEnds \/ DispatcherEnds
  <2>1. dispatcher' \in {"none", "live", "cancelled", "over"} /\ sending' \in BOOLEAN
    BY <1>4 DEF SendEnds, DispatcherEnds
  <2>2. UNCHANGED <<gateway, bus, agent, telegram, ghosts>>
    BY <1>4 DEF SendEnds, DispatcherEnds
  <2> QED BY <2>1, <2>2
<1>5. CASE Enter \/ OpenServer \/ TaskGroupEnds
  <2>1. pc' \in Places
    BY <1>5, PlacesMean DEF Enter, OpenServer, TaskGroupEnds
  <2>2. CASE Enter
    BY <2>1, <2>2 DEF Enter
  <2>3. CASE OpenServer
    BY <2>1, <2>3 DEF OpenServer
  <2>4. CASE TaskGroupEnds
    BY <2>1, <2>4 DEF TaskGroupEnds
  <2> QED BY <1>5, <2>2, <2>3, <2>4
<1>6. CASE StartFails
  <2>1. pc' \in Places
    BY <1>6, PlacesMean DEF StartFails
  <2> QED BY <1>6, <2>1 DEF StartFails
<1>7. CASE TaskFails \/ Cancel
  <2>1. pc' \in Places
    BY <1>7, PlacesMean DEF TaskFails, Cancel
  <2>2. loop' \in {"cancelled", loop} /\ startAll' \in {"over", "cancelled", startAll}
    BY <1>7 DEF TaskFails, Cancel, CancelTasks
  <2>3. UNCHANGED <<server, client, kept, bus, turn, worker, subagent, closed, telegram, dispatch, ghosts>>
    BY <1>7 DEF TaskFails, Cancel
  <2> QED BY <2>1, <2>2, <2>3
<1>8. CASE StopDispatcher
  BY <1>8 DEF StopDispatcher
<1>9. ASSUME NEW built \in BOOLEAN, StartAllEnds(built) PROVE Types'
  BY <1>9 DEF StartAllEnds
<1>10. CASE ClientConnects \/ ClientServed
  <2>1. client' \in BOOLEAN
    BY <1>10 DEF ClientConnects, ClientServed
  <2>2. UNCHANGED <<pc, server, kept, startAll, bus, agent, telegram, dispatch, ghosts>>
    BY <1>10 DEF ClientConnects, ClientServed
  <2> QED BY <2>1, <2>2
<1> QED BY <1>1, <1>2, <1>3, <1>4, <1>5, <1>6, <1>7, <1>8, <1>9, <1>10 DEF TaskStep

\* The steps of the clean-up.
CleaningStep ==
    \/ CloseAgent \/ AgentCloses \/ StopTyping
    \/ \E ok \in BOOLEAN : StopApplication(ok)
    \/ Leave \/ CloseServer \/ ServerClosed
    \/ \E w \in Worker : StopWorker(w) \/ CloseWorker(w)

StopsWorker(w) ==
    worker'[w] = CASE worker[w] = "waiting" -> "off" [] worker[w] = "turn" -> "cancelled" [] OTHER -> worker[w]

LEMMA StopWorkerTyped ==
    ASSUME Types, NEW w \in Worker, StopWorker(w)
    PROVE  /\ worker' \in [Worker -> {"off", "waiting", "turn", "cancelled"}]
           /\ StopsWorker(w) /\ \A x \in Worker \ {w} : worker'[x] = worker[x]
<1> DEFINE to == CASE worker[w] = "waiting" -> "off" [] worker[w] = "turn" -> "cancelled" [] OTHER -> worker[w]
<1>1. to \in {"off", "waiting", "turn", "cancelled"}
  BY DEF Types
<1>2. worker' = [worker EXCEPT ![w] = to]
  BY DEF StopWorker, Types
<1> HIDE DEF to
<1>3. worker' \in [Worker -> {"off", "waiting", "turn", "cancelled"}] /\ WorkerGoes(w, to)
  BY <1>1, <1>2, WorkerTyped
<1> QED BY <1>3 DEF WorkerGoes, StopsWorker, to

LEMMA CleaningStepTyped ==
    ASSUME Types, CleaningStep
    PROVE  Types'
<1>1. CASE CloseAgent
  BY <1>1, CloseAgentTyped DEF CloseAgent, Types
<1>2. CASE StopTyping
  BY <1>2, PlacesMean DEF StopTyping, StepEnds, Types
<1>3. CASE AgentCloses
  BY <1>3, PlacesMean DEF AgentCloses, StepEnds, Types
<1>4. ASSUME NEW ok \in BOOLEAN, StopApplication(ok) PROVE Types'
  <2>1. kept' \in BOOLEAN /\ app' \in BOOLEAN /\ polling' \in BOOLEAN
    BY <1>4 DEF StopApplication, Types
  <2>2. pc' = "leaving" /\ UNCHANGED <<server, client, startAll, bus, agent, typing, dispatch, ghosts>>
    BY <1>4 DEF StopApplication, StepEnds
  <2> QED BY <2>1, <2>2, PlacesMean DEF Types
<1>5. CASE Leave \/ ServerClosed
  <2>1. pc' \in Places
    BY <1>5, PlacesMean DEF Leave, ServerClosed, StepEnds
  <2> QED BY <1>5, <2>1 DEF Leave, ServerClosed, StepEnds, Types
<1>6. CASE CloseServer
  <2>1. server' \in BOOLEAN /\ pc' \in Places
    BY <1>6, PlacesMean DEF CloseServer
  <2>2. UNCHANGED <<client, kept, startAll, bus, agent, telegram, dispatch, ghosts>>
    BY <1>6 DEF CloseServer
  <2> QED BY <2>1, <2>2 DEF Types
<1>7. ASSUME NEW w \in Worker, StopWorker(w) PROVE Types'
  <2>1. pc' \in {"cron.stop", "heartbeat.aclose"}
        /\ UNCHANGED <<server, client, kept, startAll, bus, loop, turn, subagent, closed, telegram, dispatch, ghosts>>
    BY <1>7 DEF StopWorker, StepEnds
  <2> QED BY <1>7, <2>1, StopWorkerTyped, PlacesMean DEF Types
<1>8. ASSUME NEW w \in Worker, CloseWorker(w) PROVE Types'
  <2>1. pc' \in {"cron.aclose", "agent.aclose"}
        /\ UNCHANGED <<server, client, kept, startAll, bus, agent, telegram, dispatch, ghosts>>
    BY <1>8 DEF CloseWorker, StepEnds
  <2> QED BY <2>1, PlacesMean DEF Types
<1> QED BY <1>1, <1>2, <1>3, <1>4, <1>5, <1>6, <1>7, <1>8 DEF CleaningStep

\* The steps that move messages, and those of the workers and the subagents.
MessageStep ==
    \/ \E c \in Chat, allowed \in BOOLEAN : Receive(c, allowed)
    \/ \E c \in Chat : TypingEnds(c) \/ SendExtra(c)
    \/ Take \/ TurnAnswers \/ TurnFails \/ TakeOutbound

LEMMA ReceiveTyped ==
    ASSUME Types, NEW c \in Chat, NEW allowed \in BOOLEAN, Receive(c, allowed)
    PROVE  /\ polling /\ count.received < MaxMessages
           /\ typing' \in [Chat -> {"off", "allowed", "denied"}]
           /\ typing'[c] = (IF allowed THEN "allowed" ELSE "denied") /\ \A x \in Chat \ {c} : typing'[x] = typing[x]
           /\ count' \in Counters /\ count'.received = count.received + 1
           /\ count'.accepted = (IF allowed THEN count.accepted + 1 ELSE count.accepted)
           /\ IF allowed THEN Enqueue(c, "user") ELSE inbound' = inbound
           /\ inbound' \in Seq(Messages)
           /\ UNCHANGED <<gateway, outbound, agent, app, polling, dispatch, answered>>
<1>1. /\ polling /\ count.received < MaxMessages
      /\ typing' = [typing EXCEPT ![c] = IF allowed THEN "allowed" ELSE "denied"]
      /\ count' = [count EXCEPT !.received = @ + 1, !.accepted = IF allowed THEN @ + 1 ELSE @]
      /\ IF allowed THEN Enqueue(c, "user") ELSE UNCHANGED inbound
      /\ UNCHANGED <<gateway, outbound, agent, app, polling, dispatch, answered>>
  BY DEF Receive
<1>2. count \in Counters /\ typing \in [Chat -> {"off", "allowed", "denied"}] /\ inbound \in Seq(Messages)
  BY DEF Types
<1>3. /\ count' \in Counters /\ count'.received = count.received + 1
      /\ count'.accepted = (IF allowed THEN count.accepted + 1 ELSE count.accepted)
  <2> DEFINE r == count.received + 1
             a == IF allowed THEN count.accepted + 1 ELSE count.accepted
  <2>1. r \in Nat /\ a \in Nat
    BY <1>2 DEF Counters
  <2>2. count' = [count EXCEPT !.received = r, !.accepted = a]
    BY <1>1
  <2> HIDE DEF r, a
  <2>3. count' \in Counters /\ count'.received = r /\ count'.accepted = a
    BY <1>2, <2>1, <2>2 DEF Counters
  <2> QED BY <2>3 DEF r, a
<1>4. /\ typing' \in [Chat -> {"off", "allowed", "denied"}]
      /\ typing'[c] = (IF allowed THEN "allowed" ELSE "denied") /\ \A x \in Chat \ {c} : typing'[x] = typing[x]
  BY <1>1, <1>2
<1>5. inbound' \in Seq(Messages)
  BY <1>1, <1>2, EnqueueTyped DEF Address
<1> QED BY <1>1, <1>3, <1>4, <1>5

\* The end of a turn: what is published, and where; and whether it is an answer.
LEMMA TurnOverTyped ==
    ASSUME Types, TurnAnswers \/ TurnFails
    PROVE  /\ TurnOver /\ turn' = NoMessage /\ answered' \in Seq(Nat)
           /\ answered' = Append(answered, turn.id) \/ (turn.from = "subagent" /\ answered' = answered)
           /\ outbound' \in Seq(Address)
           /\ \E c \in Address : /\ outbound' = Append(outbound, c)
                                 /\ turn.from = "user" => c = turn.chat
<1>1. turn \in Messages /\ turn.id \in Nat /\ turn.chat \in Address /\ NoChat \in Address /\ answered \in Seq(Nat)
  BY DEF Types, Messages, Address
<1>2. TurnOver /\ turn' = NoMessage
  BY DEF TurnAnswers, TurnFails, TurnOver
<1>3. answered' = Append(answered, turn.id) \/ (turn.from = "subagent" /\ answered' = answered)
  BY DEF TurnAnswers, TurnFails, Answered
<1>4. answered' \in Seq(Nat)
  BY <1>1, <1>3, AppendProperties
<1>5. PICK c \in Address : Publish(c) /\ (turn.from = "user" => c = turn.chat)
  <2>1. CASE TurnAnswers
    BY <1>1, <2>1 DEF TurnAnswers
  <2>2. CASE TurnFails
    BY <1>1, <2>2 DEF TurnFails
  <2> QED BY <2>1, <2>2
<1> QED BY <1>2, <1>3, <1>4, <1>5, PublishTyped

\* What the dispatcher takes, and the indicator it stops.
LEMMA TakeOutboundTyped ==
    ASSUME Types, TakeOutbound
    PROVE  /\ outbound # <<>> /\ outbound' = Tail(outbound) /\ outbound' \in Seq(Address)
           /\ sending' \in BOOLEAN /\ typing' \in [Chat -> {"off", "allowed", "denied"}]
           /\ \A c \in Chat : \/ typing'[c] = "off" 
                              \/ typing'[c] = typing[c] /\ ~(app /\ Head(outbound) = c)
           /\ UNCHANGED <<gateway, inbound, agent, app, polling, dispatcher, ghosts>>
<1>1. /\ outbound # <<>> /\ outbound' = Tail(outbound) /\ sending' = (app /\ Head(outbound) \in Chat)
      /\ typing' = IF sending' THEN [typing EXCEPT ![Head(outbound)] = "off"] ELSE typing
      /\ UNCHANGED <<gateway, inbound, agent, app, polling, dispatcher, ghosts>>
  BY DEF TakeOutbound
<1>2. outbound \in Seq(Address) /\ typing \in [Chat -> {"off", "allowed", "denied"}] /\ app \in BOOLEAN
  BY DEF Types
<1>3. Tail(outbound) \in Seq(Address)
  BY <1>1, <1>2, HeadTailProperties
<1>4. CASE app /\ Head(outbound) \in Chat
  BY <1>1, <1>2, <1>3, <1>4
<1>5. CASE ~(app /\ Head(outbound) \in Chat)
  BY <1>1, <1>2, <1>3, <1>5
<1> QED BY <1>4, <1>5

LEMMA MessageStepTyped ==
    ASSUME Types, MessageStep
    PROVE  Types'
<1>1. ASSUME NEW c \in Chat, NEW allowed \in BOOLEAN, Receive(c, allowed) PROVE Types'
  <2>1. /\ typing' \in [Chat -> {"off", "allowed", "denied"}] /\ count' \in Counters /\ inbound' \in Seq(Messages)
        /\ UNCHANGED <<gateway, outbound, agent, app, polling, dispatch, answered>>
    BY <1>1, ReceiveTyped
  <2> QED BY <2>1 DEF Types
<1>2. ASSUME NEW c \in Chat, TypingEnds(c) PROVE Types'
  BY <1>2 DEF TypingEnds, Types
<1>3. ASSUME NEW c \in Chat, SendExtra(c) PROVE Types'
  <2>1. outbound' \in Seq(Address) /\ count' \in Counters
    BY <1>3, PublishTyped, CountsTyped DEF SendExtra, Address
  <2> QED BY <1>3, <2>1 DEF SendExtra, Types
<1>4. CASE Take
  <2>1. turn' \in Messages /\ inbound' \in Seq(Messages)
        /\ UNCHANGED <<gateway, outbound, loop, worker, subagent, closed, telegram, dispatch, ghosts>>
    BY <1>4, TakenTyped DEF Take
  <2> QED BY <2>1 DEF Types
<1>5. CASE TurnAnswers \/ TurnFails
  <2>1. turn' \in Messages /\ outbound' \in Seq(Address) /\ answered' \in Seq(Nat)
        /\ UNCHANGED <<gateway, inbound, loop, worker, subagent, closed, telegram, dispatch, count>>
    BY <1>5, TurnOverTyped, NoMessageTyped DEF TurnOver
  <2> QED BY <2>1 DEF Types
<1>6. CASE TakeOutbound
  <2>1. /\ outbound' \in Seq(Address) /\ sending' \in BOOLEAN /\ typing' \in [Chat -> {"off", "allowed", "denied"}]
        /\ UNCHANGED <<gateway, inbound, agent, app, polling, dispatcher, ghosts>>
    BY <1>6, TakeOutboundTyped
  <2> QED BY <2>1 DEF Types
<1> QED BY <1>1, <1>2, <1>3, <1>4, <1>5, <1>6 DEF MessageStep

WorkStep ==
    \/ \E s \in Subagent : Announce(s) \/ SubagentCancelled(s) \/ \E c \in Chat \cup {NoChat} : Spawn(s, c)
    \/ \E w \in Worker : WorkBegins(w) \/ WorkEnds(w) \/ WorkCancelled(w) \/ StartWorker(w)

LEMMA SpawnTyped ==
    ASSUME Types, NEW s \in Subagent, NEW c \in Chat \cup {NoChat}, Spawn(s, c)
    PROVE  subagent' \in [Subagent -> Tasks] /\ SubagentGoes(s, "running") /\ count' \in Counters
           /\ count'.accepted = count.accepted /\ count'.received = count.received
<1>1. [pc |-> "running", chat |-> c] \in Tasks
  BY DEF Tasks, Address
<1>2. subagent' \in [Subagent -> Tasks] /\ SubagentGoes(s, "running")
  BY <1>1, SubagentTyped DEF Spawn
<1> QED BY <1>2, CountsTyped DEF Spawn

LEMMA AnnounceTyped ==
    ASSUME Types, NEW s \in Subagent, Announce(s)
    PROVE  /\ subagent[s].pc = "running" /\ subagent' \in [Subagent -> Tasks] /\ SubagentGoes(s, "over")
           /\ subagent[s].chat \in Address /\ Enqueue(subagent[s].chat, "subagent") /\ inbound' \in Seq(Messages)
           /\ count' \in Counters /\ count'.accepted = count.accepted + 1 /\ count'.received = count.received
<1>1. subagent[s].chat \in Address
  BY DEF Types, Tasks
<1>2. subagent' \in [Subagent -> Tasks] /\ SubagentGoes(s, "over")
  BY SubagentMoves DEF Announce
<1> QED BY <1>1, <1>2, CountsTyped, EnqueueTyped DEF Announce

LEMMA WorkStepTyped ==
    ASSUME Types, WorkStep
    PROVE  Types'
<1>1. ASSUME NEW s \in Subagent, Announce(s) PROVE Types'
  <2>1. subagent' \in [Subagent -> Tasks] /\ inbound' \in Seq(Messages) /\ count' \in Counters
    BY <1>1, AnnounceTyped
  <2>2. UNCHANGED <<gateway, outbound, loop, turn, worker, closed, telegram, dispatch, answered>>
    BY <1>1 DEF Announce
  <2> QED BY <2>1, <2>2 DEF Types
<1>2. ASSUME NEW s \in Subagent, SubagentCancelled(s) PROVE Types'
  <2>1. subagent' \in [Subagent -> Tasks]
    BY <1>2, SubagentMoves DEF SubagentCancelled
  <2>2. UNCHANGED <<gateway, bus, loop, turn, worker, closed, telegram, dispatch, ghosts>>
    BY <1>2 DEF SubagentCancelled
  <2> QED BY <2>1, <2>2 DEF Types
<1>3. ASSUME NEW s \in Subagent, NEW c \in Chat \cup {NoChat}, Spawn(s, c) PROVE Types'
  <2>1. subagent' \in [Subagent -> Tasks] /\ count' \in Counters
    BY <1>3, SpawnTyped
  <2>2. UNCHANGED <<gateway, bus, loop, turn, worker, closed, telegram, dispatch, answered>>
    BY <1>3 DEF Spawn
  <2> QED BY <2>1, <2>2 DEF Types
<1>4. ASSUME NEW w \in Worker, WorkBegins(w) PROVE Types'
  <2>1. worker' \in [Worker -> {"off", "waiting", "turn", "cancelled"}] /\ count' \in Counters
    BY <1>4, WorkerTyped, CountsTyped DEF WorkBegins
  <2>2. UNCHANGED <<gateway, bus, loop, turn, subagent, closed, telegram, dispatch, answered>>
    BY <1>4 DEF WorkBegins
  <2> QED BY <2>1, <2>2 DEF Types
<1>5. ASSUME NEW w \in Worker, WorkEnds(w) PROVE Types'
  <2>1. outbound' \in Seq(Address)
    BY <1>5, PublishTyped DEF WorkEnds, Address, Types
  <2>2. worker' \in [Worker -> {"off", "waiting", "turn", "cancelled"}]
    BY <1>5, WorkerTyped DEF WorkEnds
  <2>3. UNCHANGED <<gateway, inbound, loop, turn, subagent, closed, telegram, dispatch, ghosts>>
    BY <1>5 DEF WorkEnds
  <2> QED BY <2>1, <2>2, <2>3 DEF Types
<1>6. ASSUME NEW w \in Worker, WorkCancelled(w) PROVE Types'
  BY <1>6, WorkerTyped DEF WorkCancelled, Types
<1>7. ASSUME NEW w \in Worker, StartWorker(w) PROVE Types'
  <2>1. pc' \in Places
    BY <1>7, PlacesMean DEF StartWorker
  <2>2. loop' \in {"running", loop} /\ startAll' \in {"created", startAll}
    BY <1>7 DEF StartWorker
  <2>3. worker' \in [Worker -> {"off", "waiting", "turn", "cancelled"}]
    BY <1>7, WorkerTyped DEF StartWorker
  <2> QED BY <1>7, <2>1, <2>2, <2>3 DEF StartWorker, Types
<1> QED BY <1>1, <1>2, <1>3, <1>4, <1>5, <1>6, <1>7 DEF WorkStep

LEMMA NextCases ==
    ASSUME Next
    PROVE  TaskStep \/ CleaningStep \/ MessageStep \/ WorkStep
BY DEF Next, CleanupStep, TaskStep, CleaningStep, MessageStep, WorkStep

-----------------------------------------------------------------------------
(* What each kind of step leaves alone *)

LEMMA CleaningFrame ==
    ASSUME Types, CleaningStep
    PROVE  /\ pc \in {"heartbeat.stop"} \cup FromCronStop /\ pc' \in FromCronStop
           /\ UNCHANGED <<startAll, loop, turn, bus, dispatcher, ghosts>>
<1> USE DEF FromCronStop, FromHeartbeatClose, FromCronClose, FromAgent, FromChannels, FromApplication, Last
<1>1. CASE CloseAgent
  BY <1>1 DEF CloseAgent
<1>2. CASE StopTyping
  BY <1>2 DEF StopTyping, StepEnds
<1>3. CASE AgentCloses \/ Leave \/ CloseServer \/ ServerClosed
  BY <1>3 DEF AgentCloses, Leave, CloseServer, ServerClosed, StepEnds
<1>4. ASSUME NEW ok \in BOOLEAN, StopApplication(ok)
      PROVE  /\ pc \in FromCronStop /\ pc' \in FromCronStop
             /\ UNCHANGED <<startAll, loop, turn, bus, dispatcher, ghosts>>
  BY <1>4 DEF StopApplication, StepEnds
<1>5. ASSUME NEW w \in Worker, StopWorker(w) \/ CloseWorker(w)
      PROVE  /\ pc \in {"heartbeat.stop"} \cup FromCronStop /\ pc' \in FromCronStop
             /\ UNCHANGED <<startAll, loop, turn, bus, dispatcher, ghosts>>
  BY <1>5 DEF StopWorker, CloseWorker, StepEnds, Stopping, Closing, Worker
<1> QED BY <1>1, <1>2, <1>3, <1>4, <1>5 DEF CleaningStep

LEMMA MessageFrame ==
    ASSUME Types, MessageStep
    PROVE  /\ UNCHANGED <<gateway, loop, worker, subagent, closed, app, polling, dispatcher>>
           /\ turn' # NoMessage => turn # NoMessage \/ loop = "running"
           /\ polling \/ \A c \in Chat : typing'[c] = "off" \/ typing'[c] = typing[c]
<1>1. ASSUME NEW c \in Chat, NEW allowed \in BOOLEAN, Receive(c, allowed)
      PROVE  polling /\ UNCHANGED <<gateway, turn, loop, worker, subagent, closed, app, polling, dispatcher>>
  BY <1>1, ReceiveTyped
<1>2. ASSUME NEW c \in Chat, TypingEnds(c)
      PROVE  /\ UNCHANGED <<gateway, turn, loop, worker, subagent, closed, app, polling, dispatcher>>
             /\ \A x \in Chat : typing'[x] = "off" \/ typing'[x] = typing[x]
  BY <1>2 DEF TypingEnds, Types
<1>3. ASSUME NEW c \in Chat, SendExtra(c)
      PROVE  UNCHANGED <<gateway, turn, loop, worker, subagent, closed, app, polling, dispatcher, typing>>
  BY <1>3 DEF SendExtra
<1>4. CASE Take
  BY <1>4 DEF Take
<1>5. CASE TurnAnswers \/ TurnFails
  BY <1>5, TurnOverTyped DEF TurnOver
<1>6. CASE TakeOutbound
  BY <1>6, TakeOutboundTyped
<1> QED BY <1>1, <1>2, <1>3, <1>4, <1>5, <1>6 DEF MessageStep

LEMMA WorkFrame ==
    ASSUME Types, WorkStep
    PROVE  \/ UNCHANGED <<gateway, loop, turn, closed, telegram, dispatch>>
           \/ \E w \in Worker : StartWorker(w)
<1>1. ASSUME NEW s \in Subagent, Announce(s) PROVE UNCHANGED <<gateway, loop, turn, closed, telegram, dispatch>>
  BY <1>1 DEF Announce
<1>2. ASSUME NEW s \in Subagent, SubagentCancelled(s) PROVE UNCHANGED <<gateway, loop, turn, closed, telegram, dispatch>>
  BY <1>2 DEF SubagentCancelled
<1>3. ASSUME NEW s \in Subagent, NEW c \in Chat \cup {NoChat}, Spawn(s, c)
      PROVE  UNCHANGED <<gateway, loop, turn, closed, telegram, dispatch>>
  BY <1>3 DEF Spawn
<1>4. ASSUME NEW w \in Worker, WorkBegins(w) PROVE UNCHANGED <<gateway, loop, turn, closed, telegram, dispatch>>
  BY <1>4 DEF WorkBegins
<1>5. ASSUME NEW w \in Worker, WorkEnds(w) PROVE UNCHANGED <<gateway, loop, turn, closed, telegram, dispatch>>
  BY <1>5 DEF WorkEnds
<1>6. ASSUME NEW w \in Worker, WorkCancelled(w) PROVE UNCHANGED <<gateway, loop, turn, closed, telegram, dispatch>>
  BY <1>6 DEF WorkCancelled
<1> QED BY <1>1, <1>2, <1>3, <1>4, <1>5, <1>6 DEF WorkStep

LEMMA TaskFrame ==
    ASSUME Types, TaskStep
    PROVE  /\ UNCHANGED <<bus, worker, subagent, closed, typing, ghosts>>
           /\ turn' \in {turn, NoMessage}
           /\ pc' = "run" => pc = "run"
           /\ pc' \in FromCronStop => pc' = pc \/ (pc = "entering" /\ pc' = "over")
           /\ pc' # "entering" \/ pc = "entering"
<1> USE DEF FromCronStop, FromHeartbeatClose, FromCronClose, FromAgent, FromChannels, FromApplication, Last
<1>1. CASE LoopEnds
  BY <1>1 DEF LoopEnds
<1>2. CASE StartChannels \/ Connected \/ SendEnds \/ DispatcherEnds \/ StopDispatcher
  BY <1>2 DEF StartChannels, Connected, SendEnds, DispatcherEnds, StopDispatcher
<1>3. CASE Enter \/ OpenServer \/ TaskGroupEnds
  BY <1>3 DEF Enter, OpenServer, TaskGroupEnds
<1>4. CASE StartFails
  BY <1>4 DEF StartFails, Starting
<1>5. CASE TaskFails \/ Cancel
  <2>1. UNCHANGED <<bus, turn, worker, subagent, closed, telegram, dispatch, ghosts>>
    BY <1>5 DEF TaskFails, Cancel
  <2>2. \/ pc = "entering" /\ pc' = "over"
        \/ pc \in {"health", "cron", "heartbeat"} /\ pc' = "heartbeat.stop"
        \/ pc = "run" /\ pc' = "ending"
    BY <1>5 DEF TaskFails, Cancel, Starting
  <2> QED BY <2>1, <2>2 DEF Starting
<1>6. ASSUME NEW built \in BOOLEAN, StartAllEnds(built)
      PROVE  UNCHANGED <<bus, worker, subagent, closed, typing, ghosts, turn, pc>>
  BY <1>6 DEF StartAllEnds
<1>7. CASE ClientConnects \/ ClientServed
  BY <1>7 DEF ClientConnects, ClientServed
<1> QED BY <1>1, <1>2, <1>3, <1>4, <1>5, <1>6, <1>7 DEF TaskStep

-----------------------------------------------------------------------------
(* The task group *)

LEMMA TaskGroupTaskStep ==
    ASSUME Types, TaskGroup, TaskStep
    PROVE  TaskGroup'
<1> USE DEF Starting, TaskGroup
<1>1. CASE LoopEnds
  BY <1>1 DEF LoopEnds
<1>2. CASE StartChannels
  BY <1>2 DEF StartChannels
<1>3. CASE Connected
  BY <1>3 DEF Connected
<1>4. CASE SendEnds
  BY <1>4 DEF SendEnds
<1>5. CASE DispatcherEnds
  BY <1>5 DEF DispatcherEnds
<1>6. CASE Enter
  BY <1>6 DEF Enter
<1>7. CASE OpenServer
  BY <1>7 DEF OpenServer
<1>8. CASE StartFails
  BY <1>8 DEF StartFails
<1>9. CASE TaskFails \/ Cancel
  <2>1. UNCHANGED <<bus, turn, worker, subagent, closed, telegram, dispatch, ghosts>>
    BY <1>9 DEF TaskFails, Cancel
  <2>2. CASE pc = "run"
    <3>1. pc' = "ending" /\ loop' = "cancelled" /\ startAll' \in {"over", "cancelled"}
      BY <1>9, <2>2 DEF TaskFails, Cancel, CancelTasks
    <3> QED BY <2>1, <2>2, <3>1
  <2>3. CASE pc # "run"
    <3>1. UNCHANGED <<loop, startAll>> /\ pc' \in {"over", "heartbeat.stop"} /\ pc \in Starting
      BY <1>9, <2>3 DEF TaskFails, Cancel
    <3> QED BY <2>1, <2>3, <3>1
  <2> QED BY <2>2, <2>3
<1>10. CASE TaskGroupEnds
  BY <1>10 DEF TaskGroupEnds
<1>11. CASE StopDispatcher
  BY <1>11 DEF StopDispatcher
<1>12. ASSUME NEW built \in BOOLEAN, StartAllEnds(built) PROVE TaskGroup'
  BY <1>12 DEF StartAllEnds
<1>13. CASE ClientConnects \/ ClientServed
  BY <1>13 DEF ClientConnects, ClientServed
<1> QED BY <1>1, <1>2, <1>3, <1>4, <1>5, <1>6, <1>7, <1>8, <1>9, <1>10, <1>11, <1>12, <1>13 DEF TaskStep

LEMMA TaskGroupKept ==
    ASSUME Types, TaskGroup, Next
    PROVE  TaskGroup'
<1>1. CASE TaskStep
  BY <1>1, TaskGroupTaskStep
<1>2. CASE CleaningStep
  <2>1. /\ pc \in {"heartbeat.stop"} \cup FromCronStop /\ pc' \in FromCronStop
        /\ UNCHANGED <<startAll, loop, turn>>
    BY <1>2, CleaningFrame
  <2>2. /\ pc \notin Starting \cup {"run", "ending"} /\ pc' \notin Starting \cup {"run", "ending"}
    BY <2>1 DEF Starting, FromCronStop, FromHeartbeatClose, FromCronClose, FromAgent, FromChannels, FromApplication, Last
  <2> QED BY <2>1, <2>2 DEF TaskGroup
<1>3. CASE MessageStep
  BY <1>3, MessageFrame DEF TaskGroup
<1>4. CASE WorkStep
  <2>1. CASE UNCHANGED <<gateway, loop, turn, closed, telegram, dispatch>>
    BY <2>1 DEF TaskGroup
  <2>2. ASSUME NEW w \in Worker, StartWorker(w) PROVE TaskGroup'
    <3>1. UNCHANGED <<turn, telegram, dispatch>> /\ pc = w
      BY <2>2 DEF StartWorker
    <3>2. CASE w = "cron"
      <4>1. pc' = "heartbeat" /\ UNCHANGED <<loop, startAll>>
        BY <2>2, <3>2 DEF StartWorker
      <4> QED BY <3>1, <3>2, <4>1 DEF TaskGroup, Starting
    <3>3. CASE w # "cron"
      <4>1. pc' = "run" /\ loop' = "running" /\ startAll' = "created"
        BY <2>2, <3>3 DEF StartWorker
      <4> QED BY <3>1, <4>1 DEF TaskGroup, Starting
    <3> QED BY <3>2, <3>3
  <2> QED BY <1>4, <2>1, <2>2, WorkFrame
<1> QED BY <1>1, <1>2, <1>3, <1>4, NextCases

-----------------------------------------------------------------------------
(* Workers and subagents *)

LEMMA WorkersKept ==
    ASSUME Types, Workers, Next
    PROVE  Workers'
<1> USE DEF FromCronStop, FromHeartbeatClose, FromCronClose, FromAgent, FromChannels, FromApplication, Last, Worker
<1>1. CASE TaskStep
  BY <1>1, TaskFrame DEF Workers
<1>2. CASE CleaningStep
  <2>1. CASE CloseAgent
    BY <2>1 DEF CloseAgent, Workers
  <2>2. CASE StopTyping
    BY <2>2 DEF StopTyping, StepEnds, Workers
  <2>3. CASE AgentCloses \/ Leave \/ CloseServer \/ ServerClosed
    BY <2>3 DEF AgentCloses, Leave, CloseServer, ServerClosed, StepEnds, Workers
  <2>4. ASSUME NEW ok \in BOOLEAN, StopApplication(ok) PROVE Workers'
    BY <2>4 DEF StopApplication, StepEnds, Workers
  <2>5. ASSUME NEW w \in Worker, StopWorker(w) PROVE Workers'
    <3>1. /\ pc = Stopping(w) /\ pc' = IF w = "heartbeat" THEN "cron.stop" ELSE "heartbeat.aclose"
          /\ worker'[w] \in {"off", "cancelled"} /\ \A x \in Worker \ {w} : worker'[x] = worker[x]
      <4>1. worker[w] \in {"off", "waiting", "turn", "cancelled"}
        BY DEF Types
      <4>2. StopsWorker(w) /\ \A x \in Worker \ {w} : worker'[x] = worker[x]
        BY <2>5, StopWorkerTyped
      <4>3. worker'[w] \in {"off", "cancelled"}
        BY <4>1, <4>2 DEF StopsWorker
      <4> QED BY <2>5, <4>2, <4>3 DEF StopWorker, StepEnds
    <3>2. CASE w = "heartbeat"
      BY <3>1, <3>2 DEF Workers, Stopping
    <3>3. CASE w = "cron"
      BY <3>1, <3>3 DEF Workers, Stopping
    <3> QED BY <3>2, <3>3
  <2>6. ASSUME NEW w \in Worker, CloseWorker(w) PROVE Workers'
    <3>1. /\ pc = Closing(w) /\ worker[w] = "off" /\ worker' = worker
          /\ pc' = IF w = "heartbeat" THEN "cron.aclose" ELSE "agent.aclose"
      BY <2>6 DEF CloseWorker, StepEnds
    <3>2. CASE w = "heartbeat"
      BY <3>1, <3>2 DEF Workers, Closing
    <3>3. CASE w = "cron"
      BY <3>1, <3>3 DEF Workers, Closing
    <3> QED BY <3>2, <3>3
  <2> QED BY <1>2, <2>1, <2>2, <2>3, <2>4, <2>5, <2>6 DEF CleaningStep
<1>3. CASE MessageStep
  BY <1>3, MessageFrame DEF Workers
<1>4. CASE WorkStep
  <2>1. ASSUME NEW s \in Subagent, Announce(s) \/ SubagentCancelled(s) PROVE Workers'
    BY <2>1 DEF Announce, SubagentCancelled, Workers
  <2>2. ASSUME NEW s \in Subagent, NEW c \in Chat \cup {NoChat}, Spawn(s, c) PROVE Workers'
    BY <2>2 DEF Spawn, Workers
  <2>3. ASSUME NEW w \in Worker, WorkBegins(w) PROVE Workers'
    <3>1. worker[w] = "waiting" /\ WorkerGoes(w, "turn") /\ UNCHANGED gateway
      BY <2>3, WorkerTyped DEF WorkBegins
    <3> QED BY <3>1 DEF WorkerGoes, Workers
  <2>4. ASSUME NEW w \in Worker, WorkEnds(w) PROVE Workers'
    <3>1. worker[w] = "turn" /\ WorkerGoes(w, "waiting") /\ UNCHANGED gateway
      BY <2>4, WorkerTyped DEF WorkEnds
    <3> QED BY <3>1 DEF WorkerGoes, Workers
  <2>5. ASSUME NEW w \in Worker, WorkCancelled(w) PROVE Workers'
    <3>1. worker[w] = "cancelled" /\ WorkerGoes(w, "off") /\ UNCHANGED gateway
      BY <2>5, WorkerTyped DEF WorkCancelled
    <3> QED BY <3>1 DEF WorkerGoes, Workers
  <2>6. ASSUME NEW w \in Worker, StartWorker(w) PROVE Workers'
    BY <2>6 DEF StartWorker, Workers
  <2> QED BY <1>4, <2>1, <2>2, <2>3, <2>4, <2>5, <2>6 DEF WorkStep
<1> QED BY <1>1, <1>2, <1>3, <1>4, NextCases

\* Once the workers and the run loop have ended no turn is left to spawn.
LEMMA NoTurnLate ==
    ASSUME TaskGroup, Workers, pc \in {"entering"} \cup FromAgent
    PROVE  ~UnderWay
<1>1. loop # "running"
  BY DEF TaskGroup, FromAgent, FromChannels, FromApplication, Last
<1>2. \A w \in Worker : worker[w] # "turn"
  BY DEF Workers, Worker, FromCronStop, FromHeartbeatClose, FromCronClose
<1> QED BY <1>1, <1>2 DEF UnderWay

LEMMA SubagentsKept ==
    ASSUME Types, TaskGroup, Workers, Subagents, Next
    PROVE  Subagents'
<1> USE DEF FromCronStop, FromHeartbeatClose, FromCronClose, FromAgent, FromChannels, FromApplication, Last
<1>1. CASE TaskStep
  BY <1>1, TaskFrame DEF Subagents
<1>2. CASE CleaningStep
  <2>1. CASE CloseAgent
    <3>1. pc = "agent.aclose" /\ pc' = pc
      BY <2>1 DEF CloseAgent
    <3> QED BY <2>1, <3>1, CloseAgentTyped DEF Subagents
  <2>2. CASE StopTyping
    BY <2>2 DEF StopTyping, StepEnds, Subagents
  <2>3. CASE AgentCloses
    BY <2>3 DEF AgentCloses, StepEnds, Subagents
  <2>4. CASE Leave \/ CloseServer \/ ServerClosed
    BY <2>4 DEF Leave, CloseServer, ServerClosed, StepEnds, Subagents
  <2>5. ASSUME NEW ok \in BOOLEAN, StopApplication(ok) PROVE Subagents'
    BY <2>5 DEF StopApplication, StepEnds, Subagents
  <2>6. ASSUME NEW w \in Worker, StopWorker(w) \/ CloseWorker(w) PROVE Subagents'
    BY <2>6 DEF StopWorker, CloseWorker, StepEnds, Stopping, Closing, Subagents
  <2> QED BY <1>2, <2>1, <2>2, <2>3, <2>4, <2>5, <2>6 DEF CleaningStep
<1>3. CASE MessageStep
  BY <1>3, MessageFrame DEF Subagents
<1>4. CASE WorkStep
  <2>1. ASSUME NEW s \in Subagent, Announce(s) PROVE Subagents'
    <3>1. SubagentGoes(s, "over") /\ UNCHANGED <<pc, closed>>
      BY <2>1, AnnounceTyped DEF Announce
    <3> QED BY <3>1 DEF SubagentGoes, Subagents
  <2>2. ASSUME NEW s \in Subagent, SubagentCancelled(s) PROVE Subagents'
    <3>1. SubagentGoes(s, "over") /\ UNCHANGED <<pc, closed>>
      BY <2>2, SubagentMoves DEF SubagentCancelled
    <3> QED BY <3>1 DEF SubagentGoes, Subagents
  <2>3. ASSUME NEW s \in Subagent, NEW c \in Chat \cup {NoChat}, Spawn(s, c) PROVE Subagents'
    <3>1. UnderWay /\ ~closed /\ UNCHANGED <<pc, closed>>
      BY <2>3 DEF Spawn
    <3> QED BY <3>1, NoTurnLate DEF Subagents
  <2>4. ASSUME NEW w \in Worker, WorkBegins(w) \/ WorkEnds(w) \/ WorkCancelled(w) PROVE Subagents'
    BY <2>4 DEF WorkBegins, WorkEnds, WorkCancelled, Subagents
  <2>5. ASSUME NEW w \in Worker, StartWorker(w) PROVE Subagents'
    BY <2>5 DEF StartWorker, Worker, Subagents
  <2> QED BY <1>4, <2>1, <2>2, <2>3, <2>4, <2>5 DEF WorkStep
<1> QED BY <1>1, <1>2, <1>3, <1>4, NextCases

-----------------------------------------------------------------------------
(* The Telegram client and the health server *)

LEMMA ClientTaskStep ==
    ASSUME Types, TaskGroup, Client, TaskStep
    PROVE  Client'
<1> USE DEF FromApplication, Last
<1>1. CASE LoopEnds
  BY <1>1 DEF LoopEnds, Client
<1>2. CASE StartChannels
  <2>1. pc = "run" /\ pc' = pc
    BY <1>2 DEF StartChannels, TaskGroup
  <2> QED BY <1>2, <2>1 DEF StartChannels, Client
<1>3. CASE Connected
  <2>1. pc = "run" /\ pc' = pc
    BY <1>3 DEF Connected, TaskGroup
  <2> QED BY <1>3, <2>1 DEF Connected, Client
<1>4. CASE SendEnds
  BY <1>4 DEF SendEnds, Client
<1>5. CASE DispatcherEnds
  BY <1>5 DEF DispatcherEnds, Client
<1>6. CASE Enter
  BY <1>6 DEF Enter, Client
<1>7. CASE OpenServer
  BY <1>7 DEF OpenServer, Client
<1>8. CASE StartFails
  BY <1>8 DEF StartFails, Client, TaskGroup, Starting
<1>9. CASE TaskFails \/ Cancel
  <2>1. UNCHANGED <<server, client, kept, bus, turn, worker, subagent, closed, telegram, dispatch, ghosts>>
    BY <1>9 DEF TaskFails, Cancel
  <2>2. \/ pc = "entering" /\ pc' = "over"
        \/ pc \in Starting \cup {"run"} /\ pc' \in {"heartbeat.stop", "ending"}
    BY <1>9 DEF TaskFails, Cancel, Starting
  <2> QED BY <2>1, <2>2 DEF Client, TaskGroup, Starting
<1>10. CASE TaskGroupEnds
  BY <1>10 DEF TaskGroupEnds, Client
<1>11. CASE StopDispatcher
  BY <1>11 DEF StopDispatcher, Client
<1>12. ASSUME NEW built \in BOOLEAN, StartAllEnds(built) PROVE Client'
  <2>1. pc \in {"run", "ending"} /\ pc' = pc
    BY <1>12 DEF StartAllEnds, TaskGroup
  <2>2. app \in BOOLEAN /\ app' = (app \/ built) /\ UNCHANGED <<server, client, kept, polling, dispatcher>>
    BY <1>12 DEF StartAllEnds, Types
  <2> QED BY <2>1, <2>2 DEF Client
<1>13. CASE ClientConnects \/ ClientServed
  BY <1>13 DEF ClientConnects, ClientServed, Client
<1> QED BY <1>1, <1>2, <1>3, <1>4, <1>5, <1>6, <1>7, <1>8, <1>9, <1>10, <1>11, <1>12, <1>13 DEF TaskStep

LEMMA ClientCleaning ==
    ASSUME Types, Client, CleaningStep
    PROVE  Client'
<1> USE DEF FromApplication, Last
<1>1. CASE CloseAgent
  BY <1>1 DEF CloseAgent, Client
<1>2. CASE StopTyping
  BY <1>2 DEF StopTyping, StepEnds, Client
<1>3. CASE AgentCloses
  BY <1>3 DEF AgentCloses, StepEnds, Client
<1>4. ASSUME NEW ok \in BOOLEAN, StopApplication(ok) PROVE Client'
  <2>1. /\ pc = "application" /\ pc' = "leaving" /\ UNCHANGED <<server, client, dispatcher>>
        /\ kept' \in BOOLEAN /\ app' = kept' /\ (polling' => kept')
    <3>1. kept' = (app /\ ~ok) /\ app' = kept' /\ IF kept' THEN polling' \in {FALSE, polling} ELSE polling' = FALSE
      BY <1>4 DEF StopApplication
    <3>2. kept' \in BOOLEAN /\ (polling' => kept')
      BY <3>1 DEF Types
    <3> QED BY <1>4, <3>1, <3>2 DEF StopApplication, StepEnds
  <2> QED BY <2>1 DEF Client
<1>5. CASE Leave
  <2>1. /\ pc = "leaving" /\ pc' = (IF server THEN "server.close" ELSE "over")
        /\ UNCHANGED <<server, client, kept, app, polling, dispatcher>>
    BY <1>5 DEF Leave, StepEnds
  <2> QED BY <2>1 DEF Client
<1>6. CASE CloseServer \/ ServerClosed
  BY <1>6 DEF CloseServer, ServerClosed, StepEnds, Client
<1>7. ASSUME NEW w \in Worker, StopWorker(w) \/ CloseWorker(w) PROVE Client'
  <2>1. /\ pc' \in {"cron.stop", "heartbeat.aclose", "cron.aclose", "agent.aclose"}
        /\ UNCHANGED <<server, client, kept, app, polling, dispatcher>>
    BY <1>7 DEF StopWorker, CloseWorker, StepEnds
  <2>2. pc # "server.wait_closed"
    BY <1>7 DEF StopWorker, CloseWorker, Stopping, Closing
  <2> QED BY <2>1, <2>2 DEF Client
<1> QED BY <1>1, <1>2, <1>3, <1>4, <1>5, <1>6, <1>7 DEF CleaningStep

LEMMA ClientKept ==
    ASSUME Types, TaskGroup, Client, Next
    PROVE  Client'
<1>1. CASE TaskStep
  BY <1>1, ClientTaskStep
<1>2. CASE CleaningStep
  BY <1>2, ClientCleaning
<1>3. CASE MessageStep
  BY <1>3, MessageFrame DEF Client
<1>4. CASE WorkStep
  <2>1. CASE UNCHANGED <<gateway, loop, turn, closed, telegram, dispatch>>
    BY <2>1 DEF Client
  <2>2. ASSUME NEW w \in Worker, StartWorker(w) PROVE Client'
    <3>1. pc \in {"cron", "heartbeat"} /\ pc' \in {"heartbeat", "run"}
          /\ UNCHANGED <<server, client, kept, app, polling, dispatcher>>
      BY <2>2 DEF StartWorker, Worker
    <3> QED BY <3>1 DEF Client, FromApplication, Last
  <2> QED BY <1>4, <2>1, <2>2, WorkFrame
<1> QED BY <1>1, <1>2, <1>3, <1>4, NextCases

-----------------------------------------------------------------------------
(* The typing indicators *)

LEMMA AppendRange ==
    ASSUME NEW S, NEW q \in Seq(S), NEW x
    PROVE  Range(Append(q, x)) = Range(q) \cup {x}
<1>1. /\ DOMAIN q = 1..Len(q) /\ DOMAIN Append(q, x) = 1..(Len(q) + 1) /\ Len(q) \in Nat
      /\ Append(q, x)[Len(q) + 1] = x /\ \A i \in 1..Len(q) : Append(q, x)[i] = q[i]
  OBVIOUS
<1> QED BY <1>1 DEF Range

LEMMA TailRange ==
    ASSUME NEW S, NEW q \in Seq(S), q # <<>>
    PROVE  Range(q) = {Head(q)} \cup Range(Tail(q)) /\ Head(q) \in S
<1>1. /\ DOMAIN q = 1..Len(q) /\ Len(q) \in Nat \ {0} /\ DOMAIN Tail(q) = 1..(Len(q) - 1) /\ Head(q) = q[1]
      /\ \A i \in 1..(Len(q) - 1) : Tail(q)[i] = q[i + 1]
  OBVIOUS
<1>2. ASSUME NEW i \in DOMAIN q PROVE q[i] \in {Head(q)} \cup Range(Tail(q))
  <2>1. CASE i = 1
    BY <1>1, <2>1
  <2>2. CASE i # 1
    <3>1. i - 1 \in DOMAIN Tail(q) /\ Tail(q)[i - 1] = q[i]
      BY <1>1, <2>2
    <3> QED BY <3>1 DEF Range
  <2> QED BY <2>1, <2>2
<1>3. ASSUME NEW i \in DOMAIN Tail(q) PROVE Tail(q)[i] \in Range(q)
  BY <1>1 DEF Range
<1>4. Head(q) \in Range(q)
  BY <1>1 DEF Range
<1> QED BY <1>1, <1>2, <1>3, <1>4 DEF Range

\* What an indicator for c stands for.
Awaited(c) ==
    \/ turn.from = "user" /\ turn.chat = c
    \/ \E m \in Range(inbound) : m.chat = c /\ m.from = "user"
    \/ c \in Range(outbound)

\* The indicators that go on, and what they stand for.
TypingGoesOn ==
    \A c \in Chat :
        \/ typing'[c] = "off"
        \/ typing'[c] = typing[c] /\ (Awaited(c) => Awaited(c)')
        \/ polling /\ (typing'[c] = "allowed" => Awaited(c)')

LEMMA MessageTyping ==
    ASSUME Types, MessageStep, pc = "run", Typing
    PROVE  TypingGoesOn
<1>0. inbound \in Seq(Messages) /\ outbound \in Seq(Address) /\ turn \in Messages
  BY DEF Types
<1>1. ASSUME NEW c \in Chat, NEW allowed \in BOOLEAN, Receive(c, allowed) PROVE TypingGoesOn
  <2>1. /\ polling /\ typing'[c] = (IF allowed THEN "allowed" ELSE "denied")
        /\ \A x \in Chat \ {c} : typing'[x] = typing[x]
        /\ IF allowed THEN Enqueue(c, "user") ELSE inbound' = inbound
        /\ UNCHANGED <<outbound, turn>>
    BY <1>1, ReceiveTyped
  <2>2. CASE allowed
    <3> DEFINE m == [id |-> count.accepted + 1, chat |-> c, from |-> "user"]
    <3>1. inbound' = Append(inbound, m)
      BY <2>1, <2>2 DEF Enqueue
    <3>2. m.chat = c /\ m.from = "user"
      OBVIOUS
    <3> HIDE DEF m
    <3>3. Range(inbound') = Range(inbound) \cup {m}
      BY <1>0, <3>1, AppendRange
    <3> QED BY <2>1, <3>2, <3>3 DEF TypingGoesOn, Awaited
  <2>3. CASE ~allowed
    BY <2>1, <2>3 DEF TypingGoesOn, Awaited
  <2> QED BY <2>2, <2>3
<1>2. ASSUME NEW c \in Chat, TypingEnds(c) PROVE TypingGoesOn
  BY <1>2 DEF TypingEnds, TypingGoesOn, Awaited, Types
<1>3. ASSUME NEW c \in Chat, SendExtra(c) PROVE TypingGoesOn
  <2>1. outbound' = Append(outbound, c) /\ UNCHANGED <<inbound, turn, typing>>
    BY <1>3 DEF SendExtra, Publish
  <2>2. Range(outbound') = Range(outbound) \cup {c}
    BY <1>0, <2>1, AppendRange
  <2> QED BY <2>1, <2>2 DEF TypingGoesOn, Awaited
<1>4. CASE Take
  <2>1. turn.from = "nobody" /\ turn' = Head(inbound) /\ inbound' = Tail(inbound) /\ inbound # <<>>
        /\ UNCHANGED <<outbound, typing>>
    BY <1>4 DEF Take, NoMessage
  <2>2. Range(inbound) = {turn'} \cup Range(inbound')
    BY <1>0, <2>1, TailRange
  <2> QED BY <2>1, <2>2 DEF TypingGoesOn, Awaited
<1>5. CASE TurnAnswers \/ TurnFails
  <2>1. PICK a \in Address : /\ outbound' = Append(outbound, a)
                             /\ turn.from = "user" => a = turn.chat
    BY <1>5, TurnOverTyped
  <2>2. UNCHANGED <<inbound, typing>>
    BY <1>5, TurnOverTyped DEF TurnOver
  <2>3. Range(outbound') = Range(outbound) \cup {a}
    BY <1>0, <2>1, AppendRange
  <2> QED BY <2>1, <2>2, <2>3 DEF TypingGoesOn, Awaited
<1>6. CASE TakeOutbound
  <2>1. /\ outbound # <<>> /\ outbound' = Tail(outbound)
        /\ \A c \in Chat : \/ typing'[c] = "off"
                           \/ typing'[c] = typing[c] /\ ~(app /\ Head(outbound) = c)
        /\ UNCHANGED <<inbound, turn>>
    BY <1>6, TakeOutboundTyped
  <2>2. Range(outbound) = {Head(outbound)} \cup Range(outbound')
    BY <1>0, <2>1, TailRange
  <2>3. \A c \in Chat : typing[c] # "off" => app
    BY DEF Typing
  <2> QED BY <2>1, <2>2, <2>3 DEF TypingGoesOn, Awaited
<1> QED BY <1>1, <1>2, <1>3, <1>4, <1>5, <1>6 DEF MessageStep

LEMMA TypingKept ==
    ASSUME Types, TaskGroup, Client, Typing, Next
    PROVE  Typing'
<1>0. /\ polling \in BOOLEAN /\ app \in BOOLEAN /\ (polling => app)
      /\ inbound \in Seq(Messages) /\ outbound \in Seq(Address)
  BY DEF Types, Client
<1>1. CASE TaskStep
  <2>1. UNCHANGED <<inbound, outbound, typing>> /\ (pc' = "run" => pc = "run")
    BY <1>1, TaskFrame
  <2>2. CASE LoopEnds
    BY <2>2 DEF LoopEnds, TaskGroup, Typing
  <2>3. CASE ~LoopEnds
    <3>1. turn' = turn
      BY <1>1, <2>3 DEF TaskStep, StartChannels, Connected, SendEnds, DispatcherEnds, Enter, OpenServer, ClientConnects,
                        ClientServed, StartFails, TaskFails, Cancel, TaskGroupEnds, StopDispatcher, StartAllEnds
    <3>2. app => app'
      BY <1>1, <2>3 DEF TaskStep, StartChannels, Connected, SendEnds, DispatcherEnds, Enter, OpenServer, ClientConnects,
                        ClientServed, StartFails, TaskFails, Cancel, TaskGroupEnds, StopDispatcher, StartAllEnds
    <3> QED BY <2>1, <3>1, <3>2 DEF Typing
  <2> QED BY <2>2, <2>3
<1>2. CASE CleaningStep
  <2>1. pc' # "run"
    BY <1>2, CleaningFrame
       DEF FromCronStop, FromHeartbeatClose, FromCronClose, FromAgent, FromChannels, FromApplication, Last
  <2> QED BY <2>1 DEF Typing
<1>3. CASE MessageStep
  <2>1. UNCHANGED <<pc, app>>
    BY <1>3, MessageFrame
  <2>2. CASE pc = "run"
    <3>1. TypingGoesOn
      BY <1>3, <2>2, MessageTyping
    <3> QED BY <1>0, <2>1, <3>1 DEF TypingGoesOn, Typing, Awaited
  <2> QED BY <2>1, <2>2 DEF Typing
<1>4. CASE WorkStep
  <2>1. ASSUME NEW s \in Subagent, Announce(s) PROVE Typing'
    <3>1. PICK m : inbound' = Append(inbound, m)
      BY <2>1 DEF Announce, Enqueue
    <3>2. Range(inbound') = Range(inbound) \cup {m}
      BY <1>0, <3>1, AppendRange
    <3>3. UNCHANGED <<pc, app, typing, turn, outbound>>
      BY <2>1 DEF Announce
    <3> QED BY <3>2, <3>3 DEF Typing
  <2>2. ASSUME NEW w \in Worker, WorkEnds(w) PROVE Typing'
    <3>1. UNCHANGED <<pc, app, typing, turn, inbound>> /\ (outbound' = outbound \/ \E c \in Chat : outbound' = Append(outbound, c))
      BY <2>2 DEF WorkEnds, Publish
    <3>2. Range(outbound) \subseteq Range(outbound')
      BY <1>0, <3>1, AppendRange
    <3> QED BY <3>1, <3>2 DEF Typing
  <2>3. ASSUME NEW w \in Worker, StartWorker(w) PROVE Typing'
    <3>1. pc = w /\ typing' = typing
      BY <2>3 DEF StartWorker
    <3>2. \A c \in Chat : typing[c] = "off"
      BY <3>1 DEF TaskGroup, Worker, Starting
    <3> QED BY <3>1, <3>2 DEF Typing
  <2>4. ASSUME NEW w \in Worker, WorkBegins(w) \/ WorkCancelled(w) PROVE Typing'
    BY <2>4 DEF WorkBegins, WorkCancelled, Typing
  <2>5. ASSUME NEW s \in Subagent, SubagentCancelled(s) \/ \E c \in Chat \cup {NoChat} : Spawn(s, c) PROVE Typing'
    BY <2>5 DEF SubagentCancelled, Spawn, Typing
  <2> QED BY <1>4, <2>1, <2>2, <2>3, <2>4, <2>5 DEF WorkStep
<1> QED BY <1>1, <1>2, <1>3, <1>4, NextCases

-----------------------------------------------------------------------------
(* The numbers of the messages *)

LEMMA AnnouncedFinite ==
    ASSUME NEW S \in SUBSET Subagent
    PROVE  IsFiniteSet(S) /\ Cardinality(S) \in Nat /\ Cardinality(S) <= MaxSpawns
<1>1. IsFiniteSet(1..MaxSpawns) /\ Cardinality(1..MaxSpawns) = MaxSpawns
  BY Bounds, FS_Interval
<1> QED BY <1>1, FS_Subset, FS_CardinalityType DEF Subagent

\* The same subagents are over, or one more.
LEMMA OneMoreAnnounced ==
    ASSUME Types, NEW s \in Subagent, SubagentGoes(s, "over"), subagent[s].pc # "over"
    PROVE  Cardinality(Announced') = Cardinality(Announced) + 1
<1>1. Announced' = Announced \cup {s} /\ s \notin Announced
  BY DEF Announced, SubagentGoes
<1>2. IsFiniteSet(Announced)
  BY AnnouncedFinite DEF Announced
<1> QED BY <1>1, <1>2, FS_AddElement

LEMMA SameAnnounced ==
    ASSUME \A s \in Subagent : subagent'[s].pc = "over" <=> subagent[s].pc = "over"
    PROVE  Announced' = Announced
BY DEF Announced

LEMMA NumberedMessage ==
    ASSUME Types, Numbered, MessageStep
    PROVE  Numbered'
<1>0. /\ inbound \in Seq(Messages) /\ answered \in Seq(Nat) /\ turn \in Messages /\ turn.id \in Nat
      /\ count \in Counters /\ count.accepted \in Nat /\ count.received \in Nat
  BY DEF Types, Messages, Counters
<1>1. Announced' = Announced /\ Cardinality(Announced) \in Nat
  BY MessageFrame, AnnouncedFinite DEF Announced
<1>2. ASSUME NEW c \in Chat, NEW allowed \in BOOLEAN, Receive(c, allowed) PROVE Numbered'
  <2>1. /\ count.received < MaxMessages /\ count'.received = count.received + 1
        /\ count'.accepted = (IF allowed THEN count.accepted + 1 ELSE count.accepted)
        /\ IF allowed THEN Enqueue(c, "user") ELSE inbound' = inbound
        /\ UNCHANGED <<turn, answered>>
    BY <1>2, ReceiveTyped
  <2>2. \A m \in Range(inbound') : m.id \in 1..count'.accepted
    <3>1. CASE allowed
      <4> DEFINE m == [id |-> count.accepted + 1, chat |-> c, from |-> "user"]
      <4>1. inbound' = Append(inbound, m) /\ m.id = count.accepted + 1
        BY <2>1, <3>1 DEF Enqueue
      <4> HIDE DEF m
      <4>2. Range(inbound') = Range(inbound) \cup {m}
        BY <1>0, <4>1, AppendRange
      <4> QED BY <1>0, <2>1, <3>1, <4>1, <4>2 DEF Numbered
    <3>2. CASE ~allowed
      BY <2>1, <3>2 DEF Numbered
    <3> QED BY <3>1, <3>2
  <2>3. \A n \in Range(answered) : n \in Nat
    BY <1>0, RangeOfSeq
  <2>4. count'.accepted >= count.accepted /\ count'.received <= MaxMessages
        /\ count'.accepted <= count'.received + Cardinality(Announced)
    <3>1. count.accepted <= count.received + Cardinality(Announced)
      BY DEF Numbered
    <3> QED BY <1>0, <1>1, <2>1, <3>1, Bounds, SMTT(60)
  <2> QED BY <1>0, <1>1, <2>1, <2>2, <2>3, <2>4 DEF Numbered
<1>3. ASSUME NEW c \in Chat, TypingEnds(c) PROVE Numbered'
  BY <1>1, <1>3 DEF TypingEnds, Numbered
<1>4. ASSUME NEW c \in Chat, SendExtra(c) PROVE Numbered'
  <2>1. count'.accepted = count.accepted /\ count'.received = count.received
    BY <1>4, CountsTyped DEF SendExtra
  <2>2. UNCHANGED <<inbound, turn, answered>>
    BY <1>4 DEF SendExtra
  <2> QED BY <1>1, <2>1, <2>2 DEF Numbered
<1>5. CASE Take
  <2>1. turn' = Head(inbound) /\ inbound' = Tail(inbound) /\ inbound # <<>> /\ UNCHANGED <<count, answered>>
    BY <1>5 DEF Take
  <2>2. Range(inbound) = {turn'} \cup Range(inbound')
    BY <1>0, <2>1, TailRange
  <2> QED BY <1>0, <1>1, <2>1, <2>2 DEF Numbered
<1>6. CASE TurnAnswers \/ TurnFails
  <2>1. turn' = NoMessage /\ UNCHANGED <<inbound, count>> /\ answered' \in {answered, Append(answered, turn.id)}
    BY <1>6, TurnOverTyped DEF TurnOver
  <2>2. Range(answered') \subseteq Range(answered) \cup {turn.id}
    BY <1>0, <2>1, AppendRange
  <2> QED BY <1>0, <1>1, <2>1, <2>2, NoMessageTyped DEF Numbered
<1>7. CASE TakeOutbound
  BY <1>1, <1>7 DEF TakeOutbound, Numbered
<1> QED BY <1>2, <1>3, <1>4, <1>5, <1>6, <1>7 DEF MessageStep

LEMMA NumberedWork ==
    ASSUME Types, Numbered, WorkStep
    PROVE  Numbered'
<1>0. /\ inbound \in Seq(Messages) /\ answered \in Seq(Nat) /\ turn \in Messages /\ turn.id \in Nat
      /\ count \in Counters /\ count.accepted \in Nat /\ count.received \in Nat
  BY DEF Types, Messages, Counters
<1>1. Cardinality(Announced) \in Nat
  BY AnnouncedFinite DEF Announced
<1>2. ASSUME NEW s \in Subagent, Announce(s) PROVE Numbered'
  <2> DEFINE m == [id |-> count.accepted + 1, chat |-> subagent[s].chat, from |-> "subagent"]
  <2>1. /\ subagent[s].pc = "running" /\ SubagentGoes(s, "over")
        /\ count'.accepted = count.accepted + 1 /\ count'.received = count.received
        /\ inbound' = Append(inbound, m) /\ m.id = count.accepted + 1
    BY <1>2, AnnounceTyped DEF Enqueue
  <2> HIDE DEF m
  <2>2. UNCHANGED <<turn, answered>>
    BY <1>2 DEF Announce
  <2>3. Cardinality(Announced') = Cardinality(Announced) + 1
    BY <2>1, OneMoreAnnounced
  <2>4. Range(inbound') = Range(inbound) \cup {m}
    BY <1>0, <2>1, AppendRange
  <2>5. \A n \in Range(answered) : n \in Nat
    BY <1>0, RangeOfSeq
  <2> QED BY <1>0, <1>1, <2>1, <2>2, <2>3, <2>4, <2>5, SMTT(60) DEF Numbered
<1>3. ASSUME NEW s \in Subagent, SubagentCancelled(s) PROVE Numbered'
  <2>1. subagent[s].pc # "over" /\ SubagentGoes(s, "over") /\ UNCHANGED <<inbound, turn, count, answered>>
    BY <1>3, SubagentMoves DEF SubagentCancelled
  <2>2. Cardinality(Announced') = Cardinality(Announced) + 1
    BY <2>1, OneMoreAnnounced
  <2> QED BY <1>0, <1>1, <2>1, <2>2 DEF Numbered
<1>4. ASSUME NEW s \in Subagent, NEW c \in Chat \cup {NoChat}, Spawn(s, c) PROVE Numbered'
  <2>1. /\ subagent[s].pc = "none" /\ SubagentGoes(s, "running")
        /\ count'.accepted = count.accepted /\ count'.received = count.received
        /\ UNCHANGED <<inbound, turn, answered>>
    BY <1>4, SpawnTyped DEF Spawn
  <2>2. Announced' = Announced
    BY <2>1 DEF Announced, SubagentGoes
  <2> QED BY <2>1, <2>2 DEF Numbered
<1>5. ASSUME NEW w \in Worker, WorkBegins(w) PROVE Numbered'
  <2>1. count'.accepted = count.accepted /\ count'.received = count.received
    BY <1>5, CountsTyped DEF WorkBegins
  <2>2. UNCHANGED <<inbound, turn, answered, subagent>>
    BY <1>5 DEF WorkBegins
  <2> QED BY <2>1, <2>2 DEF Numbered, Announced
<1>6. ASSUME NEW w \in Worker, WorkEnds(w) \/ WorkCancelled(w) \/ StartWorker(w) PROVE Numbered'
  <2>1. UNCHANGED <<inbound, turn, answered, subagent, count>>
    BY <1>6 DEF WorkEnds, WorkCancelled, StartWorker
  <2> QED BY <2>1 DEF Numbered, Announced
<1> QED BY <1>2, <1>3, <1>4, <1>5, <1>6 DEF WorkStep

LEMMA NumberedKept ==
    ASSUME Types, Numbered, Next
    PROVE  Numbered'
<1>1. CASE TaskStep
  <2>1. UNCHANGED <<inbound, answered, count, subagent>> /\ turn' \in {turn, NoMessage}
    BY <1>1, TaskFrame
  <2>2. count.accepted \in Nat
    BY DEF Types, Counters
  <2> QED BY <2>1, <2>2, NoMessageTyped DEF Numbered, Announced
<1>2. CASE CleaningStep
  <2>1. UNCHANGED <<inbound, answered, count, turn>>
    BY <1>2, CleaningFrame
  <2>2. CASE CloseAgent
    <3>1. Announced' = Announced
      BY <2>2, CloseAgentTyped, SameAnnounced
    <3> QED BY <2>1, <3>1 DEF Numbered
  <2>3. CASE ~CloseAgent
    <3>1. subagent' = subagent
      BY <1>2, <2>3 DEF CleaningStep, StopTyping, AgentCloses, StopApplication, Leave, CloseServer, ServerClosed,
                        StopWorker, CloseWorker
    <3> QED BY <2>1, <3>1 DEF Numbered, Announced
  <2> QED BY <2>2, <2>3
<1>3. CASE MessageStep
  BY <1>3, NumberedMessage
<1>4. CASE WorkStep
  BY <1>4, NumberedWork
<1> QED BY <1>1, <1>2, <1>3, <1>4, NextCases

-----------------------------------------------------------------------------
(* The invariant, and the properties that follow from it *)

LEMMA InvInit ==
    ASSUME Init
    PROVE  Inv
<1>1. Types
  <2>1. NoSubagent \in Tasks
    BY DEF NoSubagent, Tasks, Address
  <2>2. pc \in Places /\ turn \in Messages
    BY PlacesMean, NoMessageTyped DEF Init
  <2>3. /\ inbound \in Seq(Messages) /\ outbound \in Seq(Address) /\ answered \in Seq(Nat)
        /\ count \in Counters
    BY DEF Init, Counters
  <2>4. /\ subagent \in [Subagent -> Tasks] /\ worker \in [Worker -> {"off", "waiting", "turn", "cancelled"}]
        /\ typing \in [Chat -> {"off", "allowed", "denied"}]
    BY <2>1 DEF Init
  <2>5. /\ server \in BOOLEAN /\ client \in BOOLEAN /\ kept \in BOOLEAN /\ loop = "none" /\ startAll = "none" /\ closed \in BOOLEAN
        /\ app \in BOOLEAN /\ polling \in BOOLEAN /\ dispatcher = "none" /\ sending \in BOOLEAN
    BY DEF Init
  <2> QED BY <2>2, <2>3, <2>4, <2>5 DEF Types
<1>2. TaskGroup /\ Workers /\ Client /\ Typing
  BY DEF Init, TaskGroup, Starting, Workers, Client, Typing,
         FromCronStop, FromHeartbeatClose, FromCronClose, FromAgent, FromChannels, FromApplication, Last
<1>3. Subagents
  BY DEF Init, Subagents, NoSubagent
<1>4. Numbered
  <2>1. Range(inbound) = {} /\ Range(answered) = {}
    BY DEF Init, Range
  <2>2. Cardinality(Announced) \in Nat
    BY AnnouncedFinite DEF Announced
  <2> QED BY <2>1, <2>2, NoMessageTyped, Bounds DEF Init, Numbered
<1> QED BY <1>1, <1>2, <1>3, <1>4 DEF Inv

LEMMA InvStep ==
    ASSUME Inv, [Next]_vars
    PROVE  Inv'
<1>1. CASE Next
  <2>1. Types'
    BY <1>1, NextCases, TaskStepTyped, CleaningStepTyped, MessageStepTyped, WorkStepTyped DEF Inv
  <2>2. TaskGroup' /\ Workers' /\ Subagents' /\ Client' /\ Typing' /\ Numbered'
    BY <1>1, TaskGroupKept, WorkersKept, SubagentsKept, ClientKept, TypingKept, NumberedKept DEF Inv
  <2> QED BY <2>1, <2>2 DEF Inv
<1>2. CASE UNCHANGED vars
  <2> USE <1>2 DEF vars
  <2>1. Types'
    BY DEF Inv, Types
  <2>2. TaskGroup' /\ Workers' /\ Subagents' /\ Client'
    BY DEF Inv, TaskGroup, Workers, Subagents, Client
  <2>3. Typing' /\ Numbered'
    BY DEF Inv, Typing, Numbered, Announced
  <2> QED BY <2>1, <2>2, <2>3 DEF Inv
<1> QED BY <1>1, <1>2

\* In every run of the gateway the invariant holds: its parts say which tasks
\* can be there at each step of the start-up and of the clean-up.
THEOREM InductiveInvariant == Spec => []Inv
BY InvInit, InvStep, PTL DEF Spec

\* While the gateway runs, a typing indicator that an allowed sender started
\* stands for a message of that chat in the queue or in a turn, or for an
\* answer on its way: the failure of a turn takes none of them away.
THEOREM TypingStandsForWork == Spec => []TypingMeansWork
<1>1. Inv => TypingMeansWork
  <2> SUFFICES ASSUME Inv, pc = "run", NEW c \in Chat, typing[c] = "allowed"
               PROVE  \/ turn # NoMessage /\ turn.chat = c
                      \/ \E i \in DOMAIN inbound : inbound[i].chat = c
                      \/ \E i \in DOMAIN outbound : outbound[i] = c
    BY DEF TypingMeansWork
  <2>1. \/ turn.from = "user" /\ turn.chat = c
        \/ \E m \in Range(inbound) : m.chat = c /\ m.from = "user"
        \/ c \in Range(outbound)
    BY DEF Inv, Typing
  <2> QED BY <2>1 DEF Range, NoMessage
<1> QED BY <1>1, InductiveInvariant, PTL

\* The gateway leaves the scope that keeps the MCP servers alive only when no
\* turn is left that may call one: neither the run loop's, nor a worker's.
THEOREM NoTurnOutsideTheScope == Spec => []ScopeOutlivesTurns
<1>1. Inv => ScopeOutlivesTurns
  <2> SUFFICES ASSUME Inv, pc \in {"leaving", "server.close", "server.wait_closed", "over"}
               PROVE  turn = NoMessage /\ \A w \in Worker : worker[w] = "off"
    BY DEF ScopeOutlivesTurns
  <2>1. pc \in FromAgent /\ pc \in FromCronClose
    BY DEF FromCronClose, FromAgent, FromChannels, FromApplication, Last
  <2>2. \A w \in Worker : worker[w] = "off"
    BY <2>1 DEF Inv, Workers, Worker
  <2>3. turn = NoMessage
    BY DEF Inv, TaskGroup
  <2> QED BY <2>2, <2>3
<1> QED BY <1>1, InductiveInvariant, PTL

\* Whatever steps of the start-up and of the clean-up failed, and whichever task
\* took the gateway down: at its end no task of its parts is left, the health
\* server and its connections are closed, and a Telegram client is left only if
\* its own clean-up failed.
THEOREM NothingIsLeftBehind == Spec => []CleanupComplete
<1>1. Inv => CleanupComplete
  <2> SUFFICES ASSUME Inv, pc = "over"
               PROVE  CleanupComplete
    BY DEF CleanupComplete
  <2>1. pc \in FromAgent /\ pc \in FromCronClose /\ pc \in FromChannels /\ pc \in FromApplication /\ pc \in Last
    BY DEF FromCronClose, FromAgent, FromChannels, FromApplication, Last
  <2>2. /\ loop \in {"none", "over"} /\ startAll \in {"none", "over"}
    BY DEF Inv, Types, TaskGroup
  <2>3. dispatcher \in {"none", "over"} /\ ~server /\ ~client /\ (app \/ polling => kept)
    BY <2>1 DEF Inv, Client
  <2>4. \A w \in Worker : worker[w] = "off"
    BY <2>1 DEF Inv, Workers, Worker
  <2>5. \A s \in Subagent : subagent[s].pc \in {"none", "over"}
    BY <2>1 DEF Inv, Subagents
  <2> QED BY <2>2, <2>3, <2>4, <2>5 DEF CleanupComplete
<1> QED BY <1>1, InductiveInvariant, PTL

-----------------------------------------------------------------------------
(* What users are promised: Gateway implements ChatService, as far as safety
   goes.  What is owed is the message in the turn and those in the queue. *)

Claims == [id : Nat, from : {"nobody", "user", "subagent"}]
Owing(q) == [i \in DOMAIN q |-> Owes(q[i])]
Owed == (IF turn = NoMessage THEN <<>> ELSE <<Owes(turn)>>) \o Owing(inbound)
Open == pc \in Starting \cup {"run"}

LEMMA OwesTyped ==
    ASSUME NEW m \in Messages
    PROVE  Owes(m) \in Claims /\ Owes(m).id = m.id /\ Owes(m).from = m.from
BY DEF Messages, Owes, Claims

LEMMA OwingTyped ==
    ASSUME NEW q \in Seq(Messages)
    PROVE  /\ Len(q) \in Nat /\ \A i \in 1..Len(q) : q[i] \in Messages
           /\ Owing(q) \in Seq(Claims) /\ Len(Owing(q)) = Len(q) /\ \A i \in 1..Len(q) : Owing(q)[i] = Owes(q[i])
<1>1. DOMAIN q = 1..Len(q) /\ Len(q) \in Nat /\ \A i \in 1..Len(q) : q[i] \in Messages
  OBVIOUS
<1>2. \A i \in 1..Len(q) : Owes(q[i]) \in Claims
  BY <1>1, OwesTyped
<1>3. Owing(q) \in [1..Len(q) -> Claims]
  BY <1>1, <1>2 DEF Owing
<1>4. Owing(q) \in Seq(Claims)
  BY <1>1, <1>3, SeqDef
<1> QED BY <1>1, <1>3, <1>4 DEF Owing

LEMMA OwingAppend ==
    ASSUME NEW q \in Seq(Messages), NEW m \in Messages
    PROVE  Owing(Append(q, m)) = Append(Owing(q), Owes(m))
<1> DEFINE a == Owing(Append(q, m))
           b == Append(Owing(q), Owes(m))
           n == Len(q)
<1>1. Append(q, m) \in Seq(Messages) /\ Len(Append(q, m)) = n + 1 /\ n \in Nat
      /\ Append(q, m)[n + 1] = m /\ \A i \in 1..n : Append(q, m)[i] = q[i]
  BY AppendProperties
<1>2. Owes(m) \in Claims
  BY OwesTyped
<1>3. Owing(q) \in Seq(Claims) /\ Len(Owing(q)) = n /\ \A i \in 1..n : Owing(q)[i] = Owes(q[i])
  BY OwingTyped
<1>4. a \in Seq(Claims) /\ Len(a) = n + 1 /\ \A i \in 1..(n + 1) : a[i] = Owes(Append(q, m)[i])
  BY <1>1, OwingTyped
<1>5. b \in Seq(Claims) /\ Len(b) = n + 1 /\ b[n + 1] = Owes(m) /\ \A i \in 1..n : b[i] = Owing(q)[i]
  BY <1>2, <1>3, AppendProperties
<1> HIDE DEF a, b, n
<1>6. \A i \in 1..(n + 1) : a[i] = b[i]
  <2> SUFFICES ASSUME NEW i \in 1..(n + 1) PROVE a[i] = b[i]
    OBVIOUS
  <2>1. CASE i = n + 1
    BY <1>1, <1>4, <1>5, <2>1
  <2>2. CASE i # n + 1
    <3>1. i \in 1..n
      BY <1>1, <2>2
    <3> QED BY <1>1, <1>3, <1>4, <1>5, <3>1
  <2> QED BY <2>1, <2>2
<1>7. a = b
  BY <1>4, <1>5, <1>6, SeqEqual
<1> QED BY <1>7 DEF a, b

LEMMA OwingTail ==
    ASSUME NEW q \in Seq(Messages), q # <<>>
    PROVE  Owing(q) = <<Owes(Head(q))>> \o Owing(Tail(q))
<1> DEFINE a == Owing(q)
           t == Owing(Tail(q))
           b == <<Owes(Head(q))>> \o t
           n == Len(q)
<1>1. /\ n \in Nat \ {0} /\ Head(q) = q[1] /\ Head(q) \in Messages
      /\ Tail(q) \in Seq(Messages) /\ Len(Tail(q)) = n - 1 /\ \A i \in 1..(n - 1) : Tail(q)[i] = q[i + 1]
  OBVIOUS
<1>2. Owes(Head(q)) \in Claims
  BY <1>1, OwesTyped
<1>3. a \in Seq(Claims) /\ Len(a) = n /\ \A i \in 1..n : a[i] = Owes(q[i])
  BY OwingTyped
<1>4. t \in Seq(Claims) /\ Len(t) = n - 1 /\ \A i \in 1..(n - 1) : t[i] = Owes(Tail(q)[i])
  BY <1>1, OwingTyped
<1> HIDE DEF a, t
<1>5. b \in Seq(Claims) /\ Len(b) = n /\ b[1] = Owes(Head(q)) /\ \A i \in 2..n : b[i] = t[i - 1]
  <2> DEFINE h == Owes(Head(q))
  <2>1. h \in Claims
    BY <1>2
  <2> HIDE DEF h, n
  <2>2. <<h>> \in Seq(Claims) /\ Len(<<h>>) = 1 /\ <<h>>[1] = h
    BY <2>1
  <2>3. /\ <<h>> \o t \in Seq(Claims) /\ Len(<<h>> \o t) = 1 + Len(t)
        /\ \A i \in 1..(1 + Len(t)) : (<<h>> \o t)[i] = IF i <= 1 THEN <<h>>[i] ELSE t[i - 1]
    BY <1>4, <2>2, ConcatProperties
  <2>4. (<<h>> \o t)[1] = h /\ \A i \in 2..n : (<<h>> \o t)[i] = t[i - 1]
    BY <1>1, <1>4, <2>2, <2>3
  <2> QED BY <1>1, <1>4, <2>3, <2>4 DEF h
<1> HIDE DEF b, n
<1>6. \A i \in 1..n : a[i] = b[i]
  <2> SUFFICES ASSUME NEW i \in 1..n PROVE a[i] = b[i]
    OBVIOUS
  <2>1. CASE i = 1
    BY <1>1, <1>3, <1>5, <2>1
  <2>2. CASE i # 1
    <3>1. i \in 2..n /\ i - 1 \in 1..(n - 1) /\ (i - 1) + 1 = i
      BY <1>1, <2>2
    <3>2. b[i] = t[i - 1] /\ t[i - 1] = Owes(Tail(q)[i - 1]) /\ Tail(q)[i - 1] = q[(i - 1) + 1]
      BY <1>1, <1>4, <1>5, <3>1
    <3> QED BY <1>3, <3>1, <3>2
  <2> QED BY <2>1, <2>2
<1>7. a = b
  BY <1>3, <1>5, <1>6, SeqEqual
<1> QED BY <1>7 DEF a, b, t

\* A message that is accepted is owed after all others.
LEMMA OwedMore ==
    ASSUME Types, NEW m \in Messages, inbound' = Append(inbound, m), turn' = turn
    PROVE  Owed' = Append(Owed, Owes(m))
<1>1. inbound \in Seq(Messages) /\ Owes(turn) \in Claims /\ Owes(m) \in Claims /\ inbound' \in Seq(Messages)
  BY AppendProperties, OwesTyped DEF Types
<1> DEFINE t == IF turn = NoMessage THEN <<>> ELSE <<Owes(turn)>>
<1>2. t \in Seq(Claims) /\ t' = t
  BY <1>1 DEF Owes
<1>3. Owing(inbound') = Append(Owing(inbound), Owes(m))
  BY <1>1, OwingAppend
<1>4. Owing(inbound) \in Seq(Claims)
  BY <1>1, OwingTyped
<1>5. t \o Append(Owing(inbound), Owes(m)) = Append(t \o Owing(inbound), Owes(m))
  <2> HIDE DEF t
  <2> QED BY <1>1, <1>2, <1>4, SMTT(60)
<1>6. Owed = t \o Owing(inbound) /\ Owed' = t' \o Owing(inbound')
  BY DEF Owed
<1> QED BY <1>2, <1>3, <1>5, <1>6

\* Taking the message from the queue changes nothing about what is owed.
LEMMA OwedTaken ==
    ASSUME Types, Numbered, Take
    PROVE  Owed' = Owed
<1>1. /\ turn = NoMessage /\ inbound # <<>> /\ turn' = Head(inbound) /\ inbound' = Tail(inbound)
      /\ inbound \in Seq(Messages) /\ inbound' \in Seq(Messages)
  BY TakenTyped DEF Take, Types
<1>2. Range(inbound) = {Head(inbound)} \cup Range(Tail(inbound))
  BY <1>1, TailRange
<1>3. turn' # NoMessage
  <2>1. Head(inbound).id \in 1..count.accepted
    BY <1>2 DEF Numbered
  <2> QED BY <1>1, <2>1, NoMessageTyped
<1>4. Owing(inbound) = <<Owes(turn')>> \o Owing(inbound')
  BY <1>1, OwingTail
<1>5. Owed = <<>> \o Owing(inbound) /\ Owed' = <<Owes(turn')>> \o Owing(inbound')
  BY <1>1, <1>3 DEF Owed
<1>6. Owing(inbound) \in Seq(Claims)
  BY <1>1, OwingTyped
<1> QED BY <1>4, <1>5, <1>6

\* With the turn goes what is owed first.
LEMMA OwedEnds ==
    ASSUME Types, turn # NoMessage, turn' = NoMessage, inbound' = inbound
    PROVE  Owed # <<>> /\ Head(Owed) = Owes(turn) /\ Owed' = Tail(Owed)
<1>1. inbound \in Seq(Messages) /\ Owes(turn) \in Claims
  BY OwesTyped DEF Types
<1>2. Owing(inbound) \in Seq(Claims)
  BY <1>1, OwingTyped
<1>3. Owed = <<Owes(turn)>> \o Owing(inbound) /\ Owed' = <<>> \o Owing(inbound)
  BY DEF Owed
<1> QED BY <1>1, <1>2, <1>3

\* The steps of ChatService, as they look here.
Accepts ==
    \E m \in 1..(MaxMessages + MaxSpawns), from \in {"user", "subagent"} :
        /\ (\A c \in Range(Owed) : c.id < m) /\ \A n \in Range(answered) : n < m
        /\ Owed' = Append(Owed, [id |-> m, from |-> from]) /\ Open' = Open /\ answered' = answered
Answers == /\ Open /\ Owed # <<>> /\ Owed' = Tail(Owed)
           /\ answered' = Append(answered, Head(Owed).id) /\ Open' = Open
GivesUp == /\ Open /\ Owed # <<>> /\ Head(Owed).from = "subagent" /\ Owed' = Tail(Owed)
           /\ answered' = answered /\ Open' = Open
Loses == ~Open /\ Owed # <<>> /\ Owed' = Tail(Owed) /\ Open' = Open /\ answered' = answered
ClosesOrStays == (Open' => Open) /\ Owed' = Owed /\ answered' = answered

LEMMA OwedRange ==
    ASSUME Types
    PROVE  \A c \in Range(Owed) : (turn # NoMessage /\ c.id = turn.id) \/ \E m \in Range(inbound) : c.id = m.id
<1>1. inbound \in Seq(Messages) /\ Owes(turn) \in Claims /\ Owing(inbound) \in Seq(Claims) /\ Owes(turn).id = turn.id
  BY OwingTyped, OwesTyped DEF Types
<1> DEFINE t == IF turn = NoMessage THEN <<>> ELSE <<Owes(turn)>>
<1>2. t \in Seq(Claims) /\ \A c \in Range(t) : turn # NoMessage /\ c.id = turn.id
  BY <1>1 DEF Range
<1>3. Owed = t \o Owing(inbound)
  BY DEF Owed
<1>4. \A c \in Range(Owing(inbound)) : \E m \in Range(inbound) : c.id = m.id
  BY DEF Range, Owing, Owes
<1> HIDE DEF t
<1>5. Range(t \o Owing(inbound)) = Range(t) \cup Range(Owing(inbound))
  BY <1>1, <1>2, RangeConcatenation
<1> QED BY <1>2, <1>3, <1>4, <1>5

\* The next number is greater than those of the messages there are, and it is
\* one of the numbers there are to give.
LEMMA AcceptedNext ==
    ASSUME Inv, Inv', NEW m \in Messages, inbound' = Append(inbound, m), turn' = turn, answered' = answered,
           m.id = count.accepted + 1, m.from \in {"user", "subagent"},
           count'.accepted = count.accepted + 1, pc' = pc
    PROVE  Accepts
<1>1. count.accepted \in Nat /\ count'.accepted \in Nat /\ count'.received \in Nat /\ turn.id \in Nat
      /\ answered \in Seq(Nat)
  BY DEF Inv, Types, Counters, Messages
<1>2. /\ \A c \in Range(Owed) : c.id < m.id
      /\ \A n \in Range(answered) : n < m.id
  <2>1. \A c \in Range(Owed) : c.id \in Nat /\ c.id <= count.accepted
    <3>1. \A x \in Range(inbound) : x.id \in Nat /\ x.id <= count.accepted
      BY <1>1 DEF Inv, Numbered
    <3>2. turn.id <= count.accepted
      BY DEF Inv, Numbered
    <3>3. Types
      BY DEF Inv
    <3> QED BY <1>1, <3>1, <3>2, <3>3, OwedRange
  <2>2. \A n \in Range(answered) : n \in Nat /\ n <= count.accepted
    BY <1>1, RangeOfSeq DEF Inv, Numbered
  <2> QED BY <1>1, <2>1, <2>2
<1>3. m.id \in 1..(MaxMessages + MaxSpawns)
  <2>1. Cardinality(Announced') \in Nat /\ Cardinality(Announced') <= MaxSpawns
    BY AnnouncedFinite DEF Announced
  <2>2. count'.accepted <= count'.received + Cardinality(Announced') /\ count'.received <= MaxMessages
    BY DEF Inv, Numbered
  <2> QED BY <1>1, <2>1, <2>2, Bounds
<1>4. Owed' = Append(Owed, [id |-> m.id, from |-> m.from])
  BY OwedMore DEF Inv, Owes
<1>5. Open' = Open
  BY DEF Open
<1> QED BY <1>2, <1>3, <1>4, <1>5 DEF Accepts

\* Every step of the gateway is one of these.
LEMMA StepServes ==
    ASSUME Inv, Inv', [Next]_vars
    PROVE  Accepts \/ Answers \/ GivesUp \/ Loses \/ ClosesOrStays
<1>0. Types /\ Numbered
  BY DEF Inv
<1>1. CASE UNCHANGED vars
  BY <1>1 DEF vars, ClosesOrStays, Open, Owed
<1>2. CASE TaskStep
  <2>1. UNCHANGED <<inbound, answered>> /\ (pc' = "run" => pc = "run")
    BY <1>0, <1>2, TaskFrame
  <2>2. CASE LoopEnds
    <3>1. loop = "cancelled" /\ turn' = NoMessage /\ pc' = pc
      BY <2>2 DEF LoopEnds
    <3>2. ~Open /\ Open' = Open
      BY <3>1 DEF Inv, TaskGroup, Open, Starting
    <3>3. CASE turn = NoMessage
      BY <2>1, <3>1, <3>2, <3>3 DEF ClosesOrStays, Owed
    <3>4. CASE turn # NoMessage
      BY <1>0, <2>1, <3>1, <3>2, <3>4, OwedEnds DEF Loses
    <3> QED BY <3>3, <3>4
  <2>3. CASE ~LoopEnds
    <3>1. turn' = turn
      BY <1>2, <2>3 DEF TaskStep, StartChannels, Connected, SendEnds, DispatcherEnds, Enter, OpenServer, ClientConnects,
                        ClientServed, StartFails, TaskFails, Cancel, TaskGroupEnds, StopDispatcher, StartAllEnds
    <3>2. ~Open => ~Open'
      <4>1. pc' \in Starting => pc \in Starting
        <5>1. CASE TaskFails \/ Cancel
          BY <5>1 DEF TaskFails, Cancel, Starting
        <5>2. CASE ~(TaskFails \/ Cancel)
          BY <1>2, <5>2 DEF TaskStep, LoopEnds, StartChannels, Connected, SendEnds, DispatcherEnds, Enter, OpenServer,
                            ClientConnects, ClientServed, StartFails, TaskGroupEnds, StopDispatcher, StartAllEnds, Starting
        <5> QED BY <5>1, <5>2
      <4> QED BY <2>1, <4>1 DEF Open
    <3> QED BY <2>1, <3>1, <3>2 DEF ClosesOrStays, Owed
  <2> QED BY <2>2, <2>3
<1>3. CASE CleaningStep
  <2>1. /\ pc \in {"heartbeat.stop"} \cup FromCronStop /\ pc' \in FromCronStop
        /\ UNCHANGED <<turn, inbound, answered>>
    BY <1>0, <1>3, CleaningFrame
  <2>2. ~Open /\ ~Open'
    BY <2>1 DEF Open, Starting, FromCronStop, FromHeartbeatClose, FromCronClose, FromAgent, FromChannels, FromApplication, Last
  <2> QED BY <2>1, <2>2 DEF ClosesOrStays, Owed, Open
<1>4. CASE MessageStep
  <2>0. Open' = Open
    BY <1>0, <1>4, MessageFrame DEF Open
  <2>1. ASSUME NEW c \in Chat, NEW allowed \in BOOLEAN, Receive(c, allowed) PROVE Accepts \/ ClosesOrStays
    <3>1. /\ UNCHANGED <<turn, answered, pc>>
          /\ count'.accepted = (IF allowed THEN count.accepted + 1 ELSE count.accepted)
          /\ IF allowed THEN Enqueue(c, "user") ELSE inbound' = inbound
      BY <1>0, <2>1, ReceiveTyped
    <3>2. CASE allowed
      <4> DEFINE m == [id |-> count.accepted + 1, chat |-> c, from |-> "user"]
      <4>1. m \in Messages /\ inbound' = Append(inbound, m) /\ m.id = count.accepted + 1 /\ m.from = "user"
        BY <1>0, <3>1, <3>2, EnqueueTyped DEF Address
      <4> HIDE DEF m
      <4> QED BY <3>1, <3>2, <4>1, AcceptedNext
    <3>3. CASE ~allowed
      BY <2>0, <3>1, <3>3 DEF ClosesOrStays, Owed
    <3> QED BY <3>2, <3>3
  <2>2. ASSUME NEW c \in Chat, TypingEnds(c) \/ SendExtra(c) PROVE ClosesOrStays
    BY <2>0, <2>2 DEF TypingEnds, SendExtra, ClosesOrStays, Owed
  <2>3. CASE Take
    BY <1>0, <2>0, <2>3, OwedTaken DEF Take, ClosesOrStays
  <2>4. CASE TurnAnswers \/ TurnFails
    <3>1. /\ loop = "running" /\ turn # NoMessage /\ turn' = NoMessage /\ inbound' = inbound
          /\ answered' = Append(answered, turn.id) \/ (turn.from = "subagent" /\ answered' = answered)
      BY <1>0, <2>4, TurnOverTyped DEF TurnOver
    <3>2. Open
      BY <3>1 DEF Inv, TaskGroup, Open
    <3>3. Owed # <<>> /\ Head(Owed).id = turn.id /\ Head(Owed).from = turn.from /\ Owed' = Tail(Owed)
      BY <1>0, <3>1, OwedEnds DEF Owes
    <3> QED BY <2>0, <3>1, <3>2, <3>3 DEF Answers, GivesUp
  <2>5. CASE TakeOutbound
    BY <2>0, <2>5 DEF TakeOutbound, ClosesOrStays, Owed
  <2> QED BY <1>4, <2>1, <2>2, <2>3, <2>4, <2>5 DEF MessageStep
<1>5. CASE WorkStep
  <2>1. ASSUME NEW s \in Subagent, Announce(s) PROVE Accepts
    <3> DEFINE m == [id |-> count.accepted + 1, chat |-> subagent[s].chat, from |-> "subagent"]
    <3>1. /\ m \in Messages /\ inbound' = Append(inbound, m) /\ m.id = count.accepted + 1 /\ m.from = "subagent"
          /\ count'.accepted = count.accepted + 1
      BY <1>0, <2>1, AnnounceTyped, EnqueueTyped
    <3>2. UNCHANGED <<turn, answered, pc>>
      BY <2>1 DEF Announce
    <3> HIDE DEF m
    <3> QED BY <3>1, <3>2, AcceptedNext
  <2>2. ASSUME NEW s \in Subagent, SubagentCancelled(s) \/ \E c \in Chat \cup {NoChat} : Spawn(s, c) PROVE ClosesOrStays
    <3>1. UNCHANGED <<turn, answered, pc, inbound>>
      BY <2>2 DEF SubagentCancelled, Spawn
    <3> QED BY <3>1 DEF ClosesOrStays, Owed, Open
  <2>3. ASSUME NEW w \in Worker, WorkBegins(w) \/ WorkEnds(w) \/ WorkCancelled(w) PROVE ClosesOrStays
    <3>1. UNCHANGED <<turn, answered, pc, inbound>>
      BY <2>3 DEF WorkBegins, WorkEnds, WorkCancelled
    <3> QED BY <3>1 DEF ClosesOrStays, Owed, Open
  <2>4. ASSUME NEW w \in Worker, StartWorker(w) PROVE ClosesOrStays
    <3>1. UNCHANGED <<turn, answered, inbound>> /\ pc = w /\ pc' \in {"heartbeat", "run"}
      BY <2>4 DEF StartWorker
    <3>2. Open /\ Open'
      BY <3>1 DEF Open, Worker, Starting
    <3> QED BY <3>1, <3>2 DEF ClosesOrStays, Owed, Open
  <2> QED BY <1>5, <2>1, <2>2, <2>3, <2>4 DEF WorkStep
<1> QED BY <1>1, <1>2, <1>3, <1>4, <1>5, NextCases

\* The gateway implements the safety of ChatService: what the bus accepts is
\* answered at most once and in the order in which it was accepted, and until
\* the gateway begins to close no message of a user is passed over.  (The
\* announcement of a subagent is, when its turn fails.)
THEOREM ServesItsUsers == Spec => Served!Safety
<1>1. Init => Served!Init
  <2> SUFFICES ASSUME Init PROVE Served!Init
    OBVIOUS
  <2>1. turn = NoMessage /\ inbound = <<>> /\ answered = <<>> /\ pc \in Starting
    BY DEF Init, Starting
  <2>2. Owed = <<>>
    BY <2>1 DEF Owed, Owing
  <2> QED BY <2>1, <2>2 DEF Served!Init, Owed, Owing
<1>2. ASSUME Inv, Inv', [Next]_vars PROVE [Served!Next]_(Served!vars)
  <2>1. CASE Accepts
    <3>1. PICK m \in 1..(MaxMessages + MaxSpawns), from \in {"user", "subagent"} :
             /\ (\A c \in Range(Owed) : c.id < m) /\ \A n \in Range(answered) : n < m
             /\ Owed' = Append(Owed, [id |-> m, from |-> from]) /\ Open' = Open /\ answered' = answered
      BY <2>1 DEF Accepts
    <3>2. (\A i \in DOMAIN Owed : Owed[i].id < m) /\ \A i \in DOMAIN answered : answered[i] < m
      BY <3>1 DEF Range
    <3>3. Served!Accept
      BY <3>1, <3>2, Zenon DEF Served!Accept, Owed, Open, Owing
    <3> QED BY <3>3 DEF Served!Next
  <2>2. CASE Answers
    BY <2>2 DEF Answers, Served!Next, Served!Answer, Owed, Open, Owing, Owes
  <2>3. CASE GivesUp
    BY <2>3 DEF GivesUp, Served!Next, Served!GiveUp, Owed, Open, Owing, Owes
  <2>5. CASE Loses
    BY <2>5 DEF Loses, Served!Next, Served!Lose, Owed, Open, Owing, Owes
  <2>4. CASE ClosesOrStays
    <3>1. (Open' => Open) /\ Owed' = Owed /\ answered' = answered
      BY <2>4 DEF ClosesOrStays
    <3>2. CASE Open'
      <4>1. Open' = Open
        BY <3>1, <3>2 DEF Open
      <4>2. UNCHANGED Served!vars
        BY <3>1, <4>1, Zenon DEF Served!vars, Owed, Open, Owing
      <4> QED BY <4>2
    <3>3. CASE ~Open'
      <4>1. Open' = FALSE
        BY <3>3 DEF Open
      <4>2. Served!Close
        BY <3>1, <4>1, Zenon DEF Served!Close, Owed, Open, Owing
      <4> QED BY <4>2 DEF Served!Next
    <3> QED BY <3>2, <3>3
  <2> QED BY <1>2, <2>1, <2>2, <2>3, <2>4, <2>5, StepServes
<1> QED BY <1>1, <1>2, InductiveInvariant, PTL DEF Spec, Served!Safety

=============================================================================
