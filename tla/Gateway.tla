------------------------------ MODULE Gateway ------------------------------
(***************************************************************************)
(* The gateway (k2do/cli/commands.py) with what it composes: the Telegram  *)
(* channel and its typing indicator, the message bus, the agent's run      *)
(* loop, the dispatcher of answers, the cron and heartbeat turns, the      *)
(* subagents, and the clean-up that ends them all in order.                *)
(*                                                                         *)
(* A turn is what a message makes the agent do (module AgentTurn): it may  *)
(* send messages of its own, spawn subagents, and ends with an answer or   *)
(* an apology.  Workers are the cron timer and the heartbeat (modules      *)
(* CronService and HeartbeatService): here they only run turns.  How often *)
(* the channels may be started and stopped is the matter of Channels.      *)
(***************************************************************************)
EXTENDS Integers, Sequences

CONSTANTS
    Chat,           \* the chats of the Telegram channel
    NoChat,         \* an address that no channel serves ("cli", "system")
    MaxMessages,    \* bound on messages written by users
    MaxSpawns,      \* bound on subagents
    MaxAsides       \* bound on turns of the workers, spawns, and messages sent with the message tool

ASSUME ConstantsAssumption ==
    NoChat \notin Chat /\ {MaxMessages, MaxSpawns, MaxAsides} \subseteq Nat

Worker == {"cron", "heartbeat"}
Subagent == 1..MaxSpawns

VARIABLES
    pc,                     \* the gateway: where its task is
    server, client,         \* its health server accepts connections; one is open
    kept,                   \* the clean-up of the Telegram client failed
    loop, startAll,         \* the tasks of agent.run() and channels.start_all()
    inbound, outbound,      \* MessageBus
    turn,                   \* the message the run loop works on
    worker,                 \* per worker: its task
    subagent, closed,       \* SubagentManager: the tasks, _closed
    app, polling,           \* TelegramChannel: _app is set; the library receives messages
    typing,                 \* per chat: for whom a typing task runs
    dispatcher, sending,    \* the task of _dispatch_outbound; it awaits a send
    count, answered         \* what happened so far: counters, and the messages answered

gateway == <<pc, server, client, kept, startAll>>
bus == <<inbound, outbound>>
agent == <<loop, turn, worker, subagent, closed>>
telegram == <<app, polling, typing>>
dispatch == <<dispatcher, sending>>
ghosts == <<count, answered>>
vars == <<gateway, bus, agent, telegram, dispatch, ghosts>>

NoMessage == [id |-> 0, chat |-> NoChat, from |-> "nobody"]
NoSubagent == [pc |-> "none", chat |-> NoChat]

Init ==
    /\ pc = "entering" /\ server = FALSE /\ client = FALSE /\ kept = FALSE
    /\ loop = "none" /\ startAll = "none" /\ turn = NoMessage
    /\ inbound = <<>> /\ outbound = <<>>
    /\ worker = [w \in Worker |-> "off"]
    /\ subagent = [s \in Subagent |-> NoSubagent] /\ closed = FALSE
    /\ app = FALSE /\ polling = FALSE /\ typing = [c \in Chat |-> "off"]
    /\ dispatcher = "none" /\ sending = FALSE
    /\ count = [received |-> 0, accepted |-> 0, asides |-> 0] /\ answered = <<>>

Counts(what) == count' = [count EXCEPT ![what] = @ + 1]
Enqueue(c, from) == inbound' = Append(inbound, [id |-> count.accepted + 1, chat |-> c, from |-> from])
Publish(c) == outbound' = Append(outbound, c)
-----------------------------------------------------------------------------
(* TelegramChannel: a message arrives *)

\* The typing indicator starts before the sender is checked.  (The library
\* hands over one update after the other.)
Receive(c, allowed) ==
    /\ polling /\ count.received < MaxMessages
    /\ typing' = [typing EXCEPT ![c] = IF allowed THEN "allowed" ELSE "denied"]
    /\ count' = [count EXCEPT !.received = @ + 1, !.accepted = IF allowed THEN @ + 1 ELSE @]
    /\ IF allowed THEN Enqueue(c, "user") ELSE UNCHANGED inbound
    /\ UNCHANGED <<gateway, outbound, agent, app, polling, dispatch, answered>>

\* The typing task sees that the Application is gone, or its call fails.
TypingEnds(c) ==
    /\ typing[c] # "off"
    /\ typing' = [typing EXCEPT ![c] = "off"]
    /\ UNCHANGED <<gateway, bus, agent, app, polling, dispatch, ghosts>>
-----------------------------------------------------------------------------
(* AgentLoop: the run loop and the turns *)

Take ==
    /\ loop = "running" /\ turn = NoMessage /\ inbound # <<>>
    /\ turn' = Head(inbound) /\ inbound' = Tail(inbound)
    /\ UNCHANGED <<gateway, outbound, loop, worker, subagent, closed, telegram, dispatch, ghosts>>

TurnOver ==
    /\ loop = "running" /\ turn # NoMessage
    /\ turn' = NoMessage
    /\ UNCHANGED <<gateway, inbound, loop, worker, subagent, closed, telegram, dispatch, count>>

Answered == answered' = Append(answered, turn.id)

TurnAnswers == TurnOver /\ Publish(turn.chat) /\ Answered

\* Mutant: a failed turn is only logged.
TurnFailsSilently == TurnOver /\ UNCHANGED <<outbound, answered>>

\* The apology for a failed turn goes to where the message came from: for the
\* announcement of a subagent that is the channel "system", which nobody reads.
TurnFails ==
    /\ TurnOver
    /\ IF turn.from = "subagent" THEN Publish(NoChat) /\ UNCHANGED answered
       ELSE Publish(turn.chat) /\ Answered

UnderWay == (loop = "running" /\ turn # NoMessage) \/ \E w \in Worker : worker[w] = "turn"

\* The message tool takes any chat, and sends at once.
SendExtra(c) ==
    /\ UnderWay /\ count.asides < MaxAsides
    /\ Publish(c) /\ Counts("asides")
    /\ UNCHANGED <<gateway, inbound, agent, telegram, dispatch, answered>>

\* The spawn tool; the chat is that of the tool's context (module AgentTurn).
Spawn(s, c) ==
    /\ UnderWay /\ ~closed /\ count.asides < MaxAsides /\ Counts("asides")
    /\ subagent[s].pc = "none" /\ \A r \in Subagent : r < s => subagent[r].pc # "none"
    /\ subagent' = [subagent EXCEPT ![s] = [pc |-> "running", chat |-> c]]
    /\ UNCHANGED <<gateway, bus, loop, turn, worker, closed, telegram, dispatch, answered>>

\* A subagent announces its result, or its failure.
Announce(s) ==
    /\ subagent[s].pc = "running"
    /\ Enqueue(subagent[s].chat, "subagent") /\ Counts("accepted")
    /\ subagent' = [subagent EXCEPT ![s].pc = "over"]
    /\ UNCHANGED <<gateway, outbound, loop, turn, worker, closed, telegram, dispatch, answered>>

SubagentCancelled(s) ==
    /\ subagent[s].pc = "cancelled"
    /\ subagent' = [subagent EXCEPT ![s].pc = "over"]
    /\ UNCHANGED <<gateway, bus, loop, turn, worker, closed, telegram, dispatch, ghosts>>

WorkBegins(w) ==
    /\ worker[w] = "waiting" /\ count.asides < MaxAsides
    /\ worker' = [worker EXCEPT ![w] = "turn"] /\ Counts("asides")
    /\ UNCHANGED <<gateway, bus, loop, turn, subagent, closed, telegram, dispatch, answered>>

\* What the turn of a job returns may be delivered to a chat.
WorkEnds(w) ==
    /\ worker[w] = "turn"
    /\ worker' = [worker EXCEPT ![w] = "waiting"]
    /\ UNCHANGED outbound \/ (w = "cron" /\ \E c \in Chat : Publish(c))
    /\ UNCHANGED <<gateway, inbound, loop, turn, subagent, closed, telegram, dispatch, ghosts>>

WorkCancelled(w) ==
    /\ worker[w] = "cancelled"
    /\ worker' = [worker EXCEPT ![w] = "off"]
    /\ UNCHANGED <<gateway, bus, loop, turn, subagent, closed, telegram, dispatch, ghosts>>

\* The cancelled loop ends, with the turn it was about.
LoopEnds ==
    /\ loop = "cancelled"
    /\ loop' = "over" /\ turn' = NoMessage
    /\ UNCHANGED <<gateway, bus, worker, subagent, closed, telegram, dispatch, ghosts>>
-----------------------------------------------------------------------------
(* ChannelManager: the dispatcher; TelegramChannel: start, send *)

StartChannels ==
    /\ startAll = "created"
    /\ startAll' = "starting" /\ dispatcher' = "live"
    /\ UNCHANGED <<pc, server, client, kept, bus, agent, telegram, sending, ghosts>>

Connected ==
    /\ startAll = "starting"
    /\ startAll' = "polling" /\ app' = TRUE /\ polling' = TRUE
    /\ UNCHANGED <<pc, server, client, kept, bus, agent, typing, dispatch, ghosts>>

\* The start fails, which is logged, or is cancelled: the Application stays.
StartAllEnds(built) ==
    /\ startAll \in {"starting", "cancelled"} /\ (built => dispatcher # "none")
    /\ startAll' = "over" /\ app' = (app \/ built)
    /\ UNCHANGED <<pc, server, client, kept, bus, agent, polling, typing, dispatch, ghosts>>

\* Mutant: the typing indicator of the chat is not stopped by its answer.
TakeOutboundTyping ==
    /\ dispatcher = "live" /\ ~sending /\ outbound # <<>>
    /\ outbound' = Tail(outbound)
    /\ sending' = (app /\ Head(outbound) \in Chat)
    /\ UNCHANGED <<gateway, inbound, agent, telegram, dispatcher, ghosts>>

\* An answer for a channel that does not exist, or is not started, is dropped.
TakeOutbound ==
    /\ dispatcher = "live" /\ ~sending /\ outbound # <<>>
    /\ outbound' = Tail(outbound)
    /\ sending' = (app /\ Head(outbound) \in Chat)
    /\ typing' = IF sending' THEN [typing EXCEPT ![Head(outbound)] = "off"] ELSE typing
    /\ UNCHANGED <<gateway, inbound, agent, app, polling, dispatcher, ghosts>>

\* Sent, or failed and logged.
SendEnds ==
    /\ sending /\ dispatcher = "live"
    /\ sending' = FALSE
    /\ UNCHANGED <<gateway, bus, agent, telegram, dispatcher, ghosts>>

\* The cancelled dispatcher ends, also in the middle of a send.
DispatcherEnds ==
    /\ dispatcher = "cancelled"
    /\ dispatcher' = "over" /\ sending' = FALSE
    /\ UNCHANGED <<gateway, bus, agent, telegram, ghosts>>
-----------------------------------------------------------------------------
(* The gateway: start-up, health server, task group *)

Starting == {"entering", "health", "cron", "heartbeat"}

\* The MCP scope is entered.
Enter ==
    /\ pc = "entering" /\ pc' = "health"
    /\ UNCHANGED <<server, client, kept, startAll, bus, agent, telegram, dispatch, ghosts>>

OpenServer ==
    /\ pc = "health" /\ pc' = "cron" /\ server' = TRUE
    /\ UNCHANGED <<client, kept, startAll, bus, agent, telegram, dispatch, ghosts>>

\* Somebody connects to the health endpoint, and is awaited without a limit:
\* the connection lasts until he sends something or leaves.
ClientConnects ==
    /\ server /\ ~client /\ client' = TRUE
    /\ UNCHANGED <<pc, server, kept, startAll, bus, agent, telegram, dispatch, ghosts>>

ClientServed ==
    /\ client /\ client' = FALSE
    /\ UNCHANGED <<pc, server, kept, startAll, bus, agent, telegram, dispatch, ghosts>>

StartWorker(w) ==
    /\ pc = w
    /\ worker' = [worker EXCEPT ![w] = "waiting"]
    /\ IF w = "cron" THEN pc' = "heartbeat" /\ UNCHANGED <<loop, startAll>>
       ELSE pc' = "run" /\ loop' = "running" /\ startAll' = "created"
    /\ UNCHANGED <<server, client, kept, bus, turn, subagent, closed, telegram, dispatch, ghosts>>

\* A step of the start-up fails.
StartFails ==
    /\ pc \in Starting
    /\ pc' = IF pc = "entering" THEN "over" ELSE "heartbeat.stop"
    /\ UNCHANGED <<server, client, kept, startAll, bus, agent, telegram, dispatch, ghosts>>

\* The task group cancels what is left of its two tasks.
CancelTasks ==
    /\ loop' = "cancelled"
    /\ startAll' = IF startAll = "over" THEN "over" ELSE "cancelled"

\* The run loop or the start of the channels ends with an error, and takes the
\* other one along.  (The one that failed ends with those that are cancelled.)
TaskFails ==
    /\ pc = "run" /\ pc' = "ending"
    /\ CancelTasks
    /\ UNCHANGED <<server, client, kept, bus, turn, worker, subagent, closed, telegram, dispatch, ghosts>>

\* The gateway's task is cancelled, by the first Ctrl-C or by whoever runs it:
\* that ends the start-up or the task group.  In the clean-up it is noted for
\* the end, and changes nothing: each step runs in a task of its own, and the
\* gateway goes back to waiting for it.  (A second Ctrl-C ends the event loop
\* instead, with every task in it: not modelled.)
Cancel ==
    /\ pc \in Starting \cup {"run"}
    /\ pc' = CASE pc = "entering" -> "over" [] pc = "run" -> "ending" [] OTHER -> "heartbeat.stop"
    /\ IF pc = "run" THEN CancelTasks ELSE UNCHANGED <<loop, startAll>>
    /\ UNCHANGED <<server, client, kept, bus, turn, worker, subagent, closed, telegram, dispatch, ghosts>>

TaskGroupEnds ==
    /\ pc = "ending" /\ loop = "over" /\ startAll = "over"
    /\ pc' = "heartbeat.stop"
    /\ UNCHANGED <<server, client, kept, startAll, bus, agent, telegram, dispatch, ghosts>>
-----------------------------------------------------------------------------
(* The clean-up: _run_gateway_cleanup with its steps *)

\* A step is over, with an error or without: the next one follows.
StepEnds(next) == pc' = next /\ UNCHANGED <<server, client, startAll>>

Stopping(w) == IF w = "heartbeat" THEN "heartbeat.stop" ELSE "cron.stop"
Closing(w) == IF w = "heartbeat" THEN "heartbeat.aclose" ELSE "cron.aclose"

\* heartbeat.stop, cron.stop: the worker is told to end.
StopWorker(w) ==
    /\ pc = Stopping(w)
    /\ worker' = [worker EXCEPT ![w] = CASE @ = "waiting" -> "off" [] @ = "turn" -> "cancelled" [] OTHER -> @]
    /\ StepEnds(IF w = "heartbeat" THEN "cron.stop" ELSE "heartbeat.aclose")
    /\ UNCHANGED <<kept, bus, loop, turn, subagent, closed, telegram, dispatch, ghosts>>

\* Mutant: aclose only asks the worker to end.
CloseWorkerAtOnce(w) ==
    /\ pc = Closing(w)
    /\ StepEnds(IF w = "heartbeat" THEN "cron.aclose" ELSE "agent.aclose")
    /\ UNCHANGED <<kept, bus, agent, telegram, dispatch, ghosts>>

\* heartbeat.aclose, cron.aclose: the worker is awaited.
CloseWorker(w) ==
    /\ pc = Closing(w) /\ worker[w] = "off"
    /\ StepEnds(IF w = "heartbeat" THEN "cron.aclose" ELSE "agent.aclose")
    /\ UNCHANGED <<kept, bus, agent, telegram, dispatch, ghosts>>

\* Mutant: the subagents are awaited without being told to end.
CloseAgentPatiently ==
    /\ pc = "agent.aclose" /\ ~closed
    /\ closed' = TRUE
    /\ UNCHANGED <<gateway, bus, loop, turn, worker, subagent, telegram, dispatch, ghosts>>

\* agent.aclose: no turn is left to end; the subagents are cancelled ...
CloseAgent ==
    /\ pc = "agent.aclose" /\ ~closed
    /\ closed' = TRUE
    /\ subagent' = [s \in Subagent |-> IF subagent[s].pc = "running" THEN [subagent[s] EXCEPT !.pc = "cancelled"]
                                       ELSE subagent[s]]
    /\ UNCHANGED <<gateway, bus, loop, turn, worker, telegram, dispatch, ghosts>>

\* Mutant: the cancelled subagents are not awaited.
AgentClosesAtOnce ==
    /\ pc = "agent.aclose" /\ closed
    /\ StepEnds("channels.stop_all")
    /\ UNCHANGED <<kept, bus, agent, telegram, dispatch, ghosts>>

\* ... and awaited.
AgentCloses ==
    /\ pc = "agent.aclose" /\ closed
    /\ \A s \in Subagent : subagent[s].pc \in {"none", "over"}
    /\ StepEnds("channels.stop_all")
    /\ UNCHANGED <<kept, bus, agent, telegram, dispatch, ghosts>>

\* channels.stop_all: the dispatcher first ...
StopDispatcher ==
    /\ pc = "channels.stop_all" /\ dispatcher = "live"
    /\ dispatcher' = "cancelled"
    /\ UNCHANGED <<gateway, bus, agent, telegram, sending, ghosts>>

\* ... then the typing tasks there are ...
StopTyping ==
    /\ pc = "channels.stop_all" /\ dispatcher \in {"none", "over"}
    /\ typing' = [c \in Chat |-> "off"]
    /\ StepEnds("application")
    /\ UNCHANGED <<kept, bus, agent, app, polling, dispatch, ghosts>>

\* ... then the Application, which is kept if that fails.
StopApplication(ok) ==
    /\ pc = "application"
    /\ kept' = (app /\ ~ok)
    /\ app' = kept'
    /\ IF kept' THEN polling' \in {FALSE, polling} ELSE polling' = FALSE
    /\ StepEnds("leaving")
    /\ UNCHANGED <<bus, agent, typing, dispatch, ghosts>>

\* The MCP scope is left.
Leave ==
    /\ pc = "leaving"
    /\ StepEnds(IF server THEN "server.close" ELSE "over")
    /\ UNCHANGED <<kept, bus, agent, telegram, dispatch, ghosts>>

\* health_server.close: nobody connects any more ...
CloseServer ==
    /\ pc = "server.close" /\ pc' = "server.wait_closed" /\ server' = FALSE
    /\ UNCHANGED <<client, kept, startAll, bus, agent, telegram, dispatch, ghosts>>

\* ... and wait_closed: the open connections are awaited (CPython 3.12).
ServerClosed ==
    /\ pc = "server.wait_closed" /\ ~client
    /\ StepEnds("over")
    /\ UNCHANGED <<kept, bus, agent, telegram, dispatch, ghosts>>
-----------------------------------------------------------------------------
CleanupStep ==
    \/ TaskGroupEnds \/ CloseAgent \/ AgentCloses \/ StopDispatcher \/ StopTyping
    \/ \E ok \in BOOLEAN : StopApplication(ok)
    \/ Leave \/ CloseServer \/ ServerClosed
    \/ \E w \in Worker : StopWorker(w) \/ CloseWorker(w)

Next ==
    \/ \E c \in Chat, allowed \in BOOLEAN : Receive(c, allowed)
    \/ \E c \in Chat : TypingEnds(c) \/ SendExtra(c)
    \/ Take \/ TurnAnswers \/ TurnFails \/ LoopEnds
    \/ \E s \in Subagent : Announce(s) \/ SubagentCancelled(s) \/ \E c \in Chat \cup {NoChat} : Spawn(s, c)
    \/ \E w \in Worker : WorkBegins(w) \/ WorkEnds(w) \/ WorkCancelled(w) \/ StartWorker(w)
    \/ StartChannels \/ Connected \/ TakeOutbound \/ SendEnds \/ DispatcherEnds
    \/ \E built \in BOOLEAN : StartAllEnds(built)
    \/ Enter \/ OpenServer \/ ClientConnects \/ ClientServed \/ StartFails \/ TaskFails \/ Cancel
    \/ CleanupStep

\* Turns end: every model call, tool call and send has a time limit or fails.
\* The steps of the start-up end as well, and a cancelled task does; the
\* clean-up goes on when it can.  Nothing is assumed of a subagent that nobody
\* cancels, of the Telegram client, nor of who connects to the health endpoint.
Fairness ==
    /\ WF_vars(Take) /\ WF_vars(TurnAnswers \/ TurnFails)
    /\ WF_vars(LoopEnds) /\ WF_vars(DispatcherEnds) /\ WF_vars(startAll = "cancelled" /\ \E b \in BOOLEAN : StartAllEnds(b))
    /\ \A w \in Worker : WF_vars(WorkCancelled(w))
    /\ \A s \in Subagent : WF_vars(SubagentCancelled(s))
    /\ WF_vars(Enter \/ OpenServer \/ StartFails \/ \E w \in Worker : StartWorker(w))
    /\ WF_vars(CleanupStep)

Spec == Init /\ [][Next]_vars /\ Fairness
-----------------------------------------------------------------------------
(* Properties *)

\* What users are promised (module ChatService): as long as the gateway runs,
\* every message of a user that the bus accepted is answered once, in order,
\* whatever fails in its turn; and so is the announcement of a subagent, unless
\* its turn fails: then the spawn tool's "I'll notify you when it completes" is
\* not kept.
Owes(m) == [id |-> m.id, from |-> m.from]
Served ==
    INSTANCE ChatService WITH
        Message <- 1..(MaxMessages + MaxSpawns),
        open <- pc \in Starting \cup {"run"},
        owed <- (IF turn = NoMessage THEN <<>> ELSE <<Owes(turn)>>) \o [i \in DOMAIN inbound |-> Owes(inbound[i])]
AnswersInOrder == Served!Spec

\* "Typing ..." means that there is something to wait for: a message of the
\* chat in the queue or in a turn, or an answer on its way.  (For a sender who
\* is not on the allow list it means nothing: it goes on until an answer to
\* somebody else in the chat, or the end.)
TypingMeansWork ==
    pc = "run" => \A c \in Chat : typing[c] = "allowed" =>
        \/ turn # NoMessage /\ turn.chat = c
        \/ \E i \in DOMAIN inbound : inbound[i].chat = c
        \/ \E i \in DOMAIN outbound : outbound[i] = c

\* The MCP scope is left only when no turn is under way that may use it.
ScopeOutlivesTurns ==
    pc \in {"leaving", "server.close", "server.wait_closed", "over"} => turn = NoMessage /\ \A w \in Worker : worker[w] = "off"

\* When the gateway is over, whatever steps of its start-up and
\* its clean-up failed: no task of its parts is left, no health connection, and a
\* Telegram client only if its own clean-up failed.
CleanupComplete ==
    pc = "over" =>
        /\ loop \in {"none", "over"} /\ startAll \in {"none", "over"} /\ dispatcher \in {"none", "over"}
        /\ \A w \in Worker : worker[w] = "off"
        /\ \A s \in Subagent : subagent[s].pc \in {"none", "over"}
        /\ ~server /\ ~client
        /\ app \/ polling => kept

\* Once a step of its start-up or one of its tasks has failed, or it was
\* cancelled, the gateway ends, whatever steps of the clean-up fail - unless
\* somebody holds a connection to its health endpoint: the handler reads
\* without a limit, and all else done, the gateway waits for him.
GatewayEnds ==
    pc \notin Starting \cup {"run"} ~> pc = "over" \/ (pc = "server.wait_closed" /\ client)
=============================================================================
