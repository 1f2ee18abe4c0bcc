# A verification project for K2DO

K2DO is a personal assistant: one Python process (`k2do gateway`, or a chat in
the terminal) in which an agent answers messages with the help of language
models and tools. Everything runs in **one asyncio event loop**. There are no
threads to speak of, so a piece of code between two awaits that really suspend
is atomic; all that is difficult happens at the awaits: other tasks run, the
task itself is cancelled, what was read before is no longer true after.

The modules in this directory translate that code into TLA+. An action is the
code between two such awaits, a cancellation is a flag on a task that its next
await turns into an exception, and an answer of a model, a server or a file is
a free choice among the outcomes the code tells apart.

Contents: 1 inventory, 2 what is modelled and how it corresponds to the code,
3 the runs, 4 the proofs, 5 disagreements found, 6 what is not modelled,
7 the plan.

## 1. Inventory

Paths are below `src/k2do/`.

| Component | State it keeps | Operations | Talks to |
|---|---|---|---|
| MCP transport lifecycle (`agent/loop.py` 251-810, 1590-1850; `agent/tools/mcp.py` 1086-1483) | scope lock, scope token, borrowers, the transport owner task with its `started` future and shutdown event, the catalog, `_agent_closing`, the shared close task | `mcp_lifespan`, `process_direct`, `_connect_mcp`, `close_mcp`, `aclose` | MCP servers, the tool registry, every public operation of the agent |
| Sessions and memory consolidation (`session/manager.py`, `agent/memory.py`, `agent/loop.py` 1719-1808, 1913-2010, 2211-2291) | session objects, their cache and JSONL files, `last_consolidated`, MEMORY.md, HISTORY.md, consolidation tasks and one lock per session | a turn, `/new`, `_schedule_consolidation`, `_consolidate_memory`, `stop`, `aclose` | the model, the file system |
| Cron service (`cron/service.py`, `cron/types.py`, `agent/tools/cron.py`) | jobs and their next runs (also `jobs.json`), the timer task, the stop generation, the shared drain | `start`, `stop`, `aclose`, `add_job`, `remove_job`, `enable_job`, `run_job`, `_on_timer` | the agent: a job is a turn, and that turn may use the cron tool |
| Heartbeat service (`heartbeat/service.py`) | the worker task, the stop generation, the shared drain | `start`, `stop`, `aclose`, the worker's loop | the agent: a tick is a turn |
| Agent turn (`agent/loop.py` 809-1589, 1913-2210; `agent/router.py`, `agent/refine.py`) | messages of the turn, counters of the tool loop, the chat the message, spawn and cron tools act for | route, loop over tool calls, retry and fall back to another model, explicit `/mcp`, `/refine` | session, tools, providers, DeepThink |
| Run loop and bus (`agent/loop.py` 1590-1637, `bus/`) | inbound and outbound queue | consume, process, publish | channels, subagents |
| DeepThink (`agent/deepthink.py`, `agent/tools/deepthink.py`) and its trace lab (`labs/deepthink_trace.py`) | the thinkers' results; the lab's script and log | parallel thinkers, judge, fallbacks, time limits; the lab's scenarios and assertions | providers |
| Subagents (`agent/subagent.py`) | running tasks, `_closed`, close task | `spawn`, run, announce, `aclose` | bus, providers, tools |
| Channels (`channels/`) | generations, dispatch task, shared stop task; Telegram's Application, start and stop tasks, typing tasks | `start_all`, dispatch, `stop_all`, handle a message | bus, Telegram |
| Gateway (`cli/commands.py` 93-168, 443-855) | health server, the order of the clean-up | start everything, run, clean everything up | all services |
| Evidence recorders (`labs/*_evidence_recorder.py`) | a hidden stage, snapshot and backup directory per run; the published bundles | `record`, `check`, `check --fresh`, for MCP `--replace` | git, the labs, the developer's worktree |
| MCP schemas and proxies (`agent/tools/mcp.py` 1-1085), tools, providers, configuration, skills, dashboard, labs | no state that lives across awaits | data handling | |

How they interact: the channels put messages on the inbound queue, the run loop
takes them one by one and makes each a turn; the turn awaits the model and the
tools, reads and writes its session, and may schedule a consolidation, a cron
job or a subagent; cron, heartbeat and subagents come back to the agent as
further turns. A turn runs inside an MCP scope, whose owner opens and closes
the connection. At the end the gateway stops heartbeat and cron, awaits their
drains, closes the agent (operations, consolidations, subagents, transport) and
the channels, in that order.

What is hard, and therefore what the properties are for:

- *Cancellation at every await.* Four components let several callers share one
  clean-up and replay each caller's own cancellation at the end.
- *State read before an await and used after it*: a consolidation, a cron
  execution, a start that waits for an old worker.
- *Start, stop and close in any order*, also from inside the work that is to be
  stopped (a turn closes the agent, a job changes the jobs).
- *Partial failure*: servers that do not start, clean-ups that fail, files of
  which only the first is written.
- *Order between components*: a turn under way while its MCP scope closes, an
  answer on its way while the channel stops, a subagent announced to a closing bus.
- *Restart, kill, and several processes*: sessions live in files; recorders and a
  developer share one repository, and any of them may stop half-way.

What makes each component correct, in one sentence each: nobody ever uses a
connection that is not his or that is closing, and every connection is closed;
a conversation is append-only and every message is summarised once; a job runs
when it is due, once for each time; the heartbeat never has two workers and
stopping wins over starting; a thought ends with one answer or with its caller's
cancellation; a turn runs no tool it may not run and accounts for those it ran; a
client of Telegram is never lost; every accepted message of a user is answered once,
in order, and the gateway ends with nothing left; a published bundle was produced by
the commit it names. `PROJECT.json` lists the hazards at their lines.

## 2. The modules

| Module | Lines | Models |
|---|---|---|
| `McpLifecycle` | the core | scopes, borrowers, the transport owner, closing the agent |
| `McpLifecycleProofs` | proofs | its types, and its safety where everybody uses scopes |
| `SessionMemory` | | sessions, turns, `/new`, consolidations, stop, aclose, restarts |
| `ConversationLog` | abstract | what the session store promises: an append-only conversation |
| `SessionMemoryProofs` | proofs | its safety properties, and when it implements `ConversationLog` |
| `CronService` | | jobs, timers, executions, start, stop, aclose |
| `CronServiceProofs` | proofs | its safety properties |
| `HeartbeatService` | | the worker, start, stop, aclose |
| `HeartbeatServiceProofs` | proofs | the inductive invariant and all safety properties |
| `DeepThink` | | thinkers, judge, their limits, what tool and chat show of the result |
| `AnswerService` | abstract | what an asker may rely on; `DeepThink` implements it |
| `TraceLab` | composed | `DeepThink` under the trace lab's scripted provider, and the lab's assertions |
| `AgentTurn` | | routes, the tool loop, retries, `/mcp`, `/refine`, the tools' shared context |
| `AgentTurnProofs` | proofs | its safety properties, those of `DeepThink`, and the safety of the refinement |
| `Channels` | | starting and stopping the channel manager and the Telegram channel |
| `ChannelsProofs` | proofs | its safety properties |
| `Gateway` | composed | channel, bus, run loop, dispatcher, workers, subagents and the clean-up |
| `ChatService` | abstract | what users are promised; `Gateway` implements it |
| `GatewayProofs` | proofs | its safety properties, and the safety of the refinement |
| `EvidenceRepository` | | the git repository, the developer, the bundles |
| `EvidenceRecorders` | composed | recorder and checker runs in that repository |
| `EvidenceRecordersProofs` | proofs | its safety and action properties |
| `MC*` | | model values and symmetry for TLC |

### McpLifecycle

`Task` is the set of asyncio tasks that use the agent. `Root` tasks exist from
the start, the others are spawned inside a scope (and inherit its context).
`Bare` ones use `mcp_lifespan()` directly, as the gateway and the chat do;
`Manual` ones use `_connect_mcp`/`close_mcp`, as the fault lab does; the rest
make public calls (`process_direct`). `pc[t]` says at which await a task is
suspended:

| `pc` | the await |
|---|---|
| `waitScope` | `_mcp_scope_lock` in `mcp_lifespan` |
| `connecting` | the `started` future, `_connect_mcp` |
| `reap` | the owner's exit, `_await_mcp_transport_owner` |
| `body`, `lease` | the body of a scope it owns, or of one it borrowed |
| `drain` | `_drain_mcp_borrowers` |
| `closing` | the owner's exit in `_close_mcp_internal` |
| `aclose` | the shared close task |

A transport owner task is a `Gen`, with its `phase`, its published start error,
its shutdown event and its report per server. `TokenMatches`, `ReuseKind` and
`NestedCall` are the decision of `_reuse_mcp_scope`; `Activate`, `BodyExit`,
`DrainPass`, `DrainResume`, `CloseOwned` and `CloseReturns` are `mcp_lifespan`
in the order of its code; `CancelConnect` and `Reap` the three cases in which
the initiator of a connection is cancelled; `ConnectServer`/`ConnectFailed` are
`connect_mcp_servers` server by server: connected, failed, or `swallowed`, when the
server's stack, unwound by the owner's cancellation, raises an ordinary exception that
replaces it and passes for a failure of that server. Errors are the set of kinds that
`_combine_mcp_errors` groups.

Abstractions, on purpose: `_mcp_lifecycle_lock` is never held over an await and
therefore not a lock of the model; tokens and transports are identities, their
number bounds the connects and scopes of a behaviour; the drain waits for
the borrowing *tasks*, as the code does; in `aclose` the drain covers public
operations (consolidations are in `SessionMemory`, subagents are planned) and
its own failure is left out; `_agent_close_task` is not reset after a failure.
A joiner of a start-up that is already over suspends once more in the model
than in the code, which only a `Manual` task can meet. The set of servers is
not empty; without servers nothing of this runs.

### SessionMemory

`objs` are the Session objects, since the code can hold one over an await while
the cache moves on to another: `cache[k]` is an index into `objs`, `file[k]` what
is on disk. A turn is `TurnStart` and what follows the await of the model; a
consolidation has an identity (`Runner`), waits for its session's lock, chooses
its batch, awaits the model and then writes HISTORY.md, MEMORY.md and the
session. A Python slice is `Slice`, with negative and out-of-range bounds, as the
position of a consolidation can be negative. A restart forgets everything but
the files. `ConversationLog` is the abstract specification; `AppendOnly` says
that `SessionMemory` implements it under the mapping `conv[k] <- Current(k)`.

Abstractions: a missing file is an empty one (the code loads both alike);
writing a file does not suspend and is one step, so a process killed in the
middle of a write is not covered; of the several writes of a consolidation the
one that fails is the second (MEMORY.md after HISTORY.md), never the session; a message
is its turn and role, a fact the message it came from, and `writer` says who put it into
MEMORY.md. A reply has an entry for HISTORY.md or has none (`Noted`), and an update of
MEMORY.md or none; the messages count as consolidated either way. `summaries` counts the
consolidations that wrote an entry for a message; `failed`, `unnoted` and `dropped` are
the ways in which an archive is lost.

### CronService

`jobs[j]` has what the code decides on: present, enabled, the next run (0 is
None). A timer is an identity with its wake-up time, the due jobs it has taken
and the one it executes. `Arm`, `_recompute`, `NextSlot` and `AfterRun` are the
code's arithmetic; `Executing` and `Overlap` say who changes the jobs while one
executes: another task, the job's own turn, a `run_job` by hand. Every
`_save_store` is part of the action that changes the jobs, so the file and the
store agree. One assumption about time is in a guard: callers whose drain is over
(`Woken`) are resumed within the next passes of the event loop, and a timer that a
start has armed meanwhile sleeps longer than that (`TimerNext`). So a caller finds it
pending. A cancelled callback ends with its cancellation (`TimerUnwound`), or with another
exception that replaces it: that counts as a failure of the job, and the timer goes on
(`JobEnds`). Not modelled: cron expressions (like a repeating job whose interval
varies), a failing read or write of `jobs.json`, a second process that edits it.
`run_job` and `enable_job` are public methods that the gateway itself does not
call.

### HeartbeatService

A worker is an identity with its place (`created`, `sleeping`, `ticking`, `unwinding`,
over), a cancellation on its way, and `cancelling()`. Start, stop, aclose, the
drain task and the wait that callers share are one action each per await. One
assumption is in a guard: the interval (minutes) is longer than a turn of the
event loop, so a worker does not wake up while a caller whose drain is over is
still to be resumed (`WorkerWakes`). Without it a start could find the worker
of another start in a tick that has just failed. `enabled = False` makes `start` do
nothing and is left out. `trigger_now` only calls the agent.

### DeepThink, AnswerService, TraceLab

An agent (a thinker or the judge) has a place (`created`, asking the `primary` or the
`fallback` model, `done`), the flag of its time limit and its outcome. `Expires` and
`WithdrawCaller` set flags; `Unwinds` is what the next await makes of both, in the order of
the code's `except` clauses. `Gather` waits for all; `Best` and `Verdict` are the judge's
fallback and the parsing of its markers, on sequences of sections. A thinker's answer
is its length and whether there is more to it than white space. `AnswerService` is the
promise (one answer, or the caller's own cancellation, and in the end one of them);
`OneReply` is the refinement, liveness included.

`TraceLab` extends the engine by the lab's provider: `Failing`, `Blocking`, `Succeeding`
and `Barrier` are the three scripts, `events` its log, and the scenario `production` the
engine alone. The assertions the lab makes about its log are `AssertionsHold`. Prompts
and progress calls are left out.

### AgentTurn

`turn[w]` holds the local variables of `_process_message` and `_run_agent_loop` for one of
the tasks that run turns (run loop, cron job, heartbeat); a model's reply is a
sequence of tool names, one name written into the text, or a text. `Blocked`, `Runs`
and `MustAct` are the loop's rules in the loop's order; `Continues` and `LoopEnds` its
end, with the second pass of a DeepThink turn that did not act. `/mcp` is `Snapshot`,
`AskReturns`, `Recheck`, `CallReturns`, `SynthesisReturns`, with the catalog published
and withdrawn by actions that stand for `McpLifecycle`. DeepThink is its abstract
service: it answers, fails or is cancelled. The route a message takes (a heuristic
over its text) is a free choice.

### Channels

One action per await of `start_all`, `stop_all`, the manager's stop task, the dispatcher's
end, `TelegramChannel.start`, `stop` and its clean-up. Applications are numbered by the
generation that built them; `live` are those built and not shut down. Each of the clean-up's
calls may fail, and then `_app` is kept. A guard of `DispatchEnds` has one consequence of
the event loop's order: before the dispatcher that a stop task has cancelled ends, that
task has run, and those who waited for the stop before it have gone on.

### Gateway, ChatService

The gateway's own task is `pc`: entering the MCP scope, the start-up steps, `run`, then
the clean-up steps of `run()` and `_run_gateway_cleanup` in order (heartbeat, cron, agent,
channels), `leaving` the scope, closing the `server` and waiting for its connections
(`ServerClosed`; the repository's workflows run CPython 3.12, whose `wait_closed` waits
for them, 3.11 does not). `client` is a connection to the health endpoint, whose handler reads without a
limit. The gateway ends because a step of its start-up fails, a task of its group fails
(`TaskFails`, which cancels the other) or it is cancelled (`Cancel`). In the clean-up a
cancellation is only noted: each step runs in a task of its own, and the gateway goes
back to waiting for it. A second Ctrl-C, with which `asyncio.run` gives up and cancels
every task, is not modelled, nor is SIGTERM, for which there is no handler. `kept` says
that the Telegram client's own clean-up failed. The run loop works on `turn`, the
dispatcher sends, workers run their own turns, subagents announce on the inbound
queue, and a `typing` task runs per chat. `Served` maps this to `ChatService`: what is
owed is the turn under way and the inbound queue, and the service is open until the
gateway begins to clean up. The apology for a turn that failed is an answer to a user; to
the announcement of a subagent it goes to a channel nobody reads, and is none: the service
may give an announcement up (`GiveUp`). The components' own shutdown protocols are single steps
here (`StopWorker`, `CloseWorker`, `CloseAgent`, `StopApplication`): the other modules have
them in detail.

### EvidenceRepository, EvidenceRecorders

A run is a process that executes a `Script` of steps, one git command, one source
file, one capture or one change of a directory each; the scripts are the recorders'
and checkers' own order. Between any two steps the developer edits, commits, checks
out another commit, deletes or edits a bundle or prunes commits, and other runs go on. `Breaks`
is any command that fails, `CleanUp` the `finally` clauses, `Kill` a run that never gets
to them. A file's content is a version, and a receipt the versions of the sources it
ran from: the labs are deterministic, so this is what a hash can tell apart.

Abstractions: what the renderers draw is the receipt; the capture reads its files at
one moment (the snapshot of the trace and handoff recorders is private; for the MCP
recorder, which runs in the worktree, this makes the model more regular than the
code); the handoff recorder's script is the trace recorder's; an error of the
operating system during a clean-up is left out.

## 3. The runs

Each property has a mutant: the operator next to the code's operator that
makes a plausible mistake, with which TLC finds the property violated.

| Run | Instance | Asks |
|---|---|---|
| `mcp_scopes` | a lifespan, a public call, a spawned task; 2 scopes, 2 transports, 1 server, nesting 2, 1 cancellation | nobody uses a connection that is not open or not his (`LeaseSafety`); one connection at a time, with somebody there who will close it (`TransportOwned`); the registry follows it (`CatalogExact`); cancellations are neither lost nor invented (`CancellationReported`); a closed agent is closed (`AgentCloseTerminal`) |
| `mcp_liveness` | a lifespan next to a task that connects and closes by hand, one scope, one transport, fair event loop | a cancelled scope holder gets out, `aclose` returns, unless an owner has swallowed its cancellation (`NobodyStuck`, `Deaf`; section 5) |
| `session_turns` | 2 workers, 4 turns, window 2, 1 restart, turns that edit MEMORY.md | the store implements `ConversationLog` (`AppendOnly`), nothing is summarised twice (`SummarisedOnce`), closing leaves nothing (`DrainComplete`) |
| `session_commands` | 1 worker, 2 tasks, 3 turns that edit MEMORY.md, two `/new`, fair event loop | an archive is lost in three ways only (`ArchiveKept`), a consolidation overwrites only what others wrote while it awaited the model (`FactsKept`), every consolidation ends |
| `session_new_intact` | one `/new` | finding: `HistoryIntact` does not survive `/new` |
| `cron` | one repeating and one one-time job, 3 timers, 2 callers, 3 calls, 1 cancellation, clock to 5; changes by other tasks, by the job's own turn and runs by hand; fair event loop | a closed service is quiet (`ClosedQuiet`), the timer covers every job (`Covered`), a new next run is in the future and in its slot (`NoDrift`), due jobs run (`DueRuns`) |
| `heartbeat` | 3 workers, 2 callers, 5 calls, 2 cancellations, fair event loop | `OneWorker`, `StopWins`, `ClosedQuiet`, `CancellationReplayed`, and calls return (`CallsReturn`) |
| `trace_lab` | 1 to 4 thinkers, three choices of fallback models, answers of four lengths, six of the judge; the three scripted scenarios; limits expire, models may stay silent | there is an answer whenever the longest response says anything (`AnswerWhenever`); one reply or the caller's cancellation, and in the end one of them (`OneReply`, refinement); the lab's assertions hold on every schedule (`AssertionsHold`) |
| `agent_turn` | 2 workers, 2 chats, 2 turns, 2 iterations, 2 attempts, 2 catalogs; native calls mix reasoning, message and MCP tools in one reply | reasoning tools are paced (`ReasoningPaced`); MCP tools run only for `/mcp` and only on the live catalog (`McpIsolated`); the history names what ran, and who was to act and did not was told (`WorkAccounted`) |
| `channels` | 2 callers, 3 generations, 4 stops, any clean-up fails, any caller is cancelled | no Application or dispatcher is lost (`NoneAbandoned`), stopped means down (`DownWhenStopped`), a caller of `stop_all` returns |
| `gateway` | 1 chat, 3 messages, 1 subagent, 2 other turns, spawns or extra messages, any step or task fails, the gateway is cancelled anywhere, a health client that may never leave | `ChatService` is implemented (`AnswersInOrder`), typing means work (`TypingMeansWork`), the MCP scope outlives the turns (`ScopeOutlivesTurns`), nothing is left (`CleanupComplete`), a gateway that begins to end ends, unless a health client holds it (`GatewayEnds`) |
| `evidence` | 2 source files, 2 runs of `record` (trace, MCP), `check --fresh` (handoff, MCP) and `record --replace` (MCP), 2 moves of the developer, 1 kill | a bundle was produced by its commit (`CommitProducedBundle`), is published only in the state it was verified in (`PublishedAsCommitted`), a trace or handoff bundle stays, and of the MCP bundles the last one (`BundleSurvives`), "verified" is true (`VerifiedMeansSo`) |

*Bounds.* One server is enough for the lifecycle, where a report per server
matters only in `ConnectServer`; two transports and two scopes let an old and a
new one coexist, which is what the invariants exclude; nesting 2 distinguishes
"first" from "further" entries. A window of 2 keeps one message, so 4 turns
allow two consolidations after each other and one that begins with a position
left by the first. Jobs due at 2 and 3 with a clock to 5 allow executions
over a slot and a second slot; three calls (add, start, change, or start, close,
close) are as many as three timer identities can serve without a call having to
wait for one, which the liveness of the run could not bear. Three workers or timers
are one that goes, one that comes and one that comes after it; the same for three
generations of channels. Two `/new` are one whose archive is at work and one whose
messages are dropped for it; who else may write MEMORY.md is there as a turn, other
sessions are in the theorem only. Two iterations let a reasoning call be followed by another in the same
reply and in the next one; two turns are one and another beside it; two
catalogs are one withdrawn and another published. Three messages are one in a turn, one
queued and one that arrives. Two source files let an inventory see one before and
one after a commit; two moves are a change and its undoing, or a change and its
commit; the started tasks are one of each script that publishes, and the two kinds
of check that read most (`check` without `--fresh` is a part of them, and the
handoff recorder's `record` the trace recorder's script). With two runs every pair
of them is interleaved, also two recorders of one kind.

*Symmetry* is used in the safety runs only, over identities that are only
compared.

*Stopping.* The systems may stop (bounds used up, everything closed), hence
`CHECK_DEADLOCK FALSE`; that nobody waits forever is what the liveness
properties say.

*Fairness.* Weak fairness of the steps that the event loop owes: a task whose
await is over runs again (asyncio's ready queue is first in, first out), a
timeout expires, a model or server answers or fails (every call has a time
limit), a cancelled body unwinds. It is never assumed that somebody calls,
cancels, or stops the service, nor that a scope's body that nobody cancelled
returns. For the transport owner it is assumed that closing the stack of
server connections ends, for which the code has no limit; not that a cancellation ends it, which
another exception may replace. Of models nothing is
assumed in `TraceLab` but that the limits expire (in a scripted scenario the
provider plays its script). In `Gateway` a turn of the run loop ends because every
call of a model or a tool in it has a limit; start-up steps end, and cancelled
tasks unwind. Nothing is assumed of a subagent or a worker's turn that nobody
cancelled, nor of the Telegram client while it connects or sends, nor of a health client.
The Telegram client's clean-up
calls end, with or without an error, in `Gateway` as in `Channels`. `Evidence` has no liveness: a recorder may be killed anywhere.

## 4. What is proved

TLAPS proves every safety invariant and action property that the passing runs check,
but `TraceLab`'s, for every value of the constants: every set of tasks, keys, workers, chats,
thinkers and callers and every bound. What is assumed of the constants is each module's
`ConstantsAssumption` (`ThinkAssumption` in `DeepThink`; `None` is not an identity, bounds are
naturals, the kinds of tasks are disjoint where they must be); a theorem that needs
more says so in its statement. Hardly any property is inductive as it stands. Each
proof module begins with its invariant, in named parts; TLC checked the properties and the
invariants before they were proved. There is one lemma for each action, and one for each
part of the invariant where an action disturbs several.

**`McpLifecycleProofs`.** `TypeCorrect` holds without a hypothesis; its invariant is
`TypeOK /\ AwaitsOwner`, since what a step does to a transport depends on the waiting task's
reference to it. The rest has the hypothesis `Manual = {}`, that everybody uses scopes: the
fault lab alone connects and closes by hand, and with such a task `LeaseSafety` is false
(section 5). An owner that swallowed its cancellation is in these theorems as it is in the
code: it serves, and its initiator, waiting in `reap`, is still the one to close it. From
`SafeInv` follow `LeasesAreSafe`, `TransportIsOwned`, `CatalogIsExact`,
`CancellationIsReported` and `CloseIsTerminal`:
  - `Scopes`: whoever is in a scope holds the lock or has a lease counted in `borrowers` of
    the active token; only the published transport is not over, and what its phase can be
    depends on where its holder is;
  - `Catalogued`: registry and catalog at each phase of the published transport;
  - `Reporting`: what a call remembers of its cancellation at each await, and that only a
    cancelled task cancels its transport;
  - `Entries`: who counts as being inside the agent, and for whom `aclose` waits.

**`SessionMemoryProofs`.** Without a hypothesis, for any number of sessions: `NothingOutlivesTheDrain`;
`SummarisedOnceOnly`, whose statement speaks of the time until the first `/new`, since an archive
holds all messages of the session, those already summarised too; `ArchivesAreKept`: an
archive is lost only if it failed or was cancelled, if the reply had no entry, or if the
archive before it was still at work; `OnlyOthersAreOverwritten`: what a consolidation takes out
of MEMORY.md was put there, while it awaited the model, by a turn or by another session.
Section 5 says where the documents promise more. The invariant:
  - `References`, `Tabled`, `Locked`: whoever has a session object at hand has one of his key;
    a task at work is in `_consolidation_tasks` under its own key and nowhere else; who
    awaits the model for a session has its lock;
  - `Draining`: a drain under way knows everyone who is still at work;
  - `Remembered`: a consolidation that awaits the model has read every fact of its own
    session, since the one before it wrote under the same lock;
  - `Archived`: what a `/new` took out is summarised, excused or with a live archive;
  - `Conversations`: before the first `/new` a session has one object and its file is a copy,
    no message is in two places, and turns have numbers of their own;
  - `Counted`: behind `last_consolidated` nothing is summarised but by consolidations
    that failed half-way, and a batch that is with the model begins there.

What a session is worth after any number of `/new` is proved apart, of the behaviours in which
each `/new` comes at a good moment. Their hypotheses are action formulas, `[][..]_vars`, so every
other step stays as it is in the code:
  - `ClearsAtRest`: `/new` finds no turn of its session under way and no consolidation of it
    awaiting the model. Then `HistoryStaysIntact` (what `session_new_intact` refutes without the
    hypothesis) and `StoreClearedAtRest`: the store implements `ConversationLog`, with `/new` as
    its `Clear`. The invariant `Settled` says that whoever works on a session has the cached
    object, whose file is its copy, or is a task that has not begun and has an emptied one.
    `StoreIsAppendOnly` is the case without `/new`.
  - No hypothesis at all: `SessionsAreIsolated`. No message of one session gets into the file, an
    object or a batch of another. `Carries(k, n)`: something of session `k` holds turn `n`'s
    messages or is that turn. `Isolated` says that no two sessions carry the same turn, `Begun` that
    every turn carried has begun, so a new one is carried by nobody; every slice, concatenation and
    hand-over of a batch takes messages from one session only.

TLC checked these conditional statements, before they were proved, on two sessions with two
`/new` and a restart. They are not among the properties of a run.

**`CronServiceProofs`.** `ClosedIsQuiet`, `EveryRunIsCovered`, `SlotsAreKept`. `Drained`, `Joined`
and `Overtaken` relate the shared drain to the timer and to those who wait for it: once
its drain is no longer the one to join, a caller whom no stop has overtaken finds no timer,
or one that another caller has just armed. This is where `Woken` is needed. `OneTimer` says that
only the current timer is at work unless a job was changed under one that
executes; `Down`, `Listed` and `Slotted` say what a closed service, an executing timer and an
enabled job have. `SlotsAreKept` is a statement about steps: only `AfterRun`, `NextSlot` and
`_recompute` give a job another next run, and each ends behind the clock, the loop over missed slots
included. `EveryRunIsCovered` rests on `ArmArms`: the timer that `_arm_timer`
puts in place wakes up no later than the next run of any job.

**`HeartbeatServiceProofs`.** `NeverTwoWorkers`, `StopIsNotUndone`, `CloseLeavesNothing`,
`CancellationsReplayed`, `CleanUpUndisturbed`:
  - `OneDrain`: a drain under way is the current one and drains the current worker;
  - `Generations`: a call under way whose generation is the current one has not
    been overtaken by a stop, so `asked` still holds, and when its drain is over
    it finds no worker, or one that another start has put there and that has not
    begun a tick. This is why `start` may go on without looking at the drain again;
  - `Cancellations`: a worker that is created and cancelled, or ended so, was
    cancelled by the service, so its drain expects it and has no error to raise;
  - `Hits`, `Quiet`: what is known of a cancelled caller and after an aclose.

  The assumption that the worker's interval is longer than a turn of the event loop is
  used in `WorkerWakesStep`: it keeps `Generations`.

**`AgentTurnProofs`.** `ReasoningIsPaced`, `McpIsIsolated`, `WorkIsAccounted`, for every set of
replies. `Paced` says that the counter of reasoning tools is the number of those in `used`
and the flag that a concrete one came after the last; `Accounted` relates what ran to the
lists of both passes; `Routed` which routes reach which await.

**`DeepThink`, also in `AgentTurnProofs`.** `JudgeIsGated`, `AnsweredWhenever`, `WithdrawnIsSilent`, and
`RepliesOnce`: for any number of thinkers and any set of replies the engine implements the
safety of `AnswerService`. `ThinkInvariant`: `AtWork` says who
can be where at each step of the request (the judge has not begun before every thinker has
ended, nobody is at work when it is over); `Ended` that a reply of size 0 is blank and that
the judge's call, when it has ended without a verdict, failed or was cancelled with the
caller; `Returned` what the result may be: a cancellation exactly if the caller was
cancelled, a thinker's reply only if it is the best one and says something, the notice only
if the best one does not. `AnsweredWhenever`
needs that `Best` is defined and is the longest: the set of sizes of a finite sequence of
thinkers has a greatest element. Induction being out of reach, that is shown by taking the
shortest prefix of the thinkers without one (`LargestSize`, `BestIsLongest`).

**`ChannelsProofs`.** `NothingIsAbandoned`, `ChannelDownWhenStopped`. `Managed`: at most one stop
task is under way, and meanwhile no generation is opened; `Called`: a caller who has
not yet gone on after a stop finds its generation stopped or the next one at work;
`Owned`: one start owns the channel; `Cleaned`: one clean-up at a time, of the Application
the channel holds, and after a successful one there is none until the next start
builds one; `Stopped`: what is down before a start claims the channel.

**`GatewayProofs`.** `TypingStandsForWork`, `NoTurnOutsideTheScope`, `NothingIsLeftBehind`, and
`ServesItsUsers`: the gateway implements the safety of `ChatService`. `TaskGroup`, `Workers`,
`Subagents` and `Client` say which tasks there can be at each step of the start-up and of
the clean-up; `Typing` is stronger than its property, since an announcement of a
subagent may fail without an answer to the chat; `Client` says when there can be a health
connection and a Telegram client; `Numbered` gives every accepted message a number of its
own, which the refinement needs. In the refinement a turn that fails is an `Answer` if a user
wrote and a `GiveUp` if a subagent announced.

**`EvidenceRecordersProofs`.** `ProducedByCommit`, `NoBundleLost`, `PublicationAsserted`,
`VerificationSound`, for any number of files, runs, moves and kills. What is known of a run
depends on how far it is in its script: `OnScript` and `SeenSoFar` (its position, and how far
its inventory is), `Recorded` (head, snapshot, receipt and stage are of one commit), `Watched`
(after its stage is complete it notices what the developer does), `Replaced` (the MCP
recorder's stage is whole when it is renamed), `Checked` (what a check has found is still so
if nobody moved), `SetAside` (only the MCP recorder sets a bundle aside, between its renames). `Kept`
and `Holds` give `NoBundleLost`: what was published last is in place or, for MCP and only where
none is in place, with a run between its two renames.

*Only model-checked.* Every liveness property, and with them the liveness of `ChatService` and
`AnswerService`: fairness and `ENABLED` are outside the prover's reach. `AssertionsHold` of
`TraceLab`: it is about three fixed scripts with at most three thinkers, of which TLC goes
through every schedule, so a proof would add nothing to the run. Its first conjunct,
`GatedAndDrained`, is about the engine and is the theorem `JudgeIsGated`.
`TypeOK` and `UnwindingUndisturbed` are theorems and not among the properties of a run.

## 5. Where the code and its documentation disagree

One run is expected to find a violation (`findings` in `PROJECT.json`): a
consolidation that awaits the model while `/new` empties the session writes the
emptied object back over the new session (`agent/loop.py` 2289).

Met while modelling, without a run of their own. The properties of the passing runs
are stated, or instanced, around each of them.

Scopes, sessions, cron:

- A start-up that is cancelled is to leave its connect and clean its stack ("Deliver exactly one
  cancellation so the owner can leave connect, publish the failure phase, and clean its stack
  in the same task", `agent/loop.py` 513-515). But a server's stack that raises an ordinary exception while the
  cancellation unwinds it replaces the cancellation, and `connect_mcp_servers` takes it for the
  failure of that server (`agent/tools/mcp.py` 1453): the owner goes on, publishes the connection and
  waits for a shutdown. Its initiator (`agent/loop.py` 512-528) waits for it to end, holding the scope
  lock, and no one else may tell it to. TLC refutes
  `\A t \in Task : (pc[t] = "reap" /\ initiator[t]) ~> pc[t] # "reap"` with `McpLiveness.cfg` in
  eight states. `NobodyStuck` names this owner (`Deaf`) as its one exception.
- `close_mcp` outside a scope shuts a connection down that a lifespan entering
  meanwhile takes over (`agent/loop.py` 1676): `LeaseSafety` fails with `Manual = {r1}`.
  Only the fault lab closes so; `mcp_scopes` has `Manual = {}`.
- The batch of a consolidation is chosen before the await and the new position
  computed from the length after it, so what arrived meanwhile is counted
  and never summarised (`agent/loop.py` 2288), against the comment at
  `session/manager.py` 32.
- A one-time job whose own turn changes the jobs is executed again
  (`cron/service.py` 299); `skills/cron/SKILL.md` says it runs once.
- "New session started. Memory saved." (`/new`) is not always so. A second `/new` while the archive of
  the first is running drops what it took out: there is one archive per session at a
  time (`_schedule_consolidation` returns). And a model's reply without a `history_entry` writes
  nothing and still counts (`agent/loop.py` 2274-2288), so an archive of it is gone, as are the
  messages a window consolidation has counted. `ArchiveKept` names both (`dropped`, `unnoted`), next to
  an archive that fails or is cancelled.
- `skills/memory/SKILL.md`: "Write important facts immediately using `edit_file` or `write_file`". A fact that
  a turn writes so while a consolidation awaits the model is overwritten by the MEMORY.md the
  model computed from the old text. The same goes for another session: MEMORY.md is one for the
  workspace, the lock of a consolidation one for each session (`agent/loop.py` 2213). `FactsKept` says
  that these are the only facts that are lost; the run has the turn that edits, the theorem
  the other sessions too.
- A job change by another task while a job executes cancels the executing timer
  and replaces it; a later `aclose` drains only the replacement. `ClosedQuiet`
  of the cron service leaves that case out (`overlapped`).
- A bare `mcp_lifespan` that is still connecting when `aclose` runs is not looked
  at again when the connection is there: it is not one of the operations that
  `AgentCloseTerminal` speaks of.

Turns, channels, gateway:

- The chat that the message, spawn and cron tools act for is one field per tool,
  set when a turn begins (`agent/loop.py` 809): a turn that was awaiting its model while
  another turn (a cron job, the heartbeat) began acts for the other's chat. The model has
  it, as `context`: TLC refutes `last.kind = "act" => last.to = last.chat` with `AgentTurn.cfg`. No
  property of a run is about it: what is left of it after that exception says nothing.
- The text a turn gives in its last iteration is dropped when the loop then
  still asks it to act: the user gets the sentence for "no response".
- A stop of the Telegram channel that comes while a start still waits for the
  clean-up of the one before finds nothing to stop; that start then goes on and the
  channel is up although it counts as stopped. `DownWhenStopped` excludes it (`missed`).
- The typing indicator starts before the sender is checked (`channels/telegram.py`
  493): for a sender who is not allowed it goes on until somebody else in the chat is
  answered, or the end. A typing task that starts between the snapshot `stop` takes and
  the end of polling survives until the client is gone. `TypingMeansWork` is about
  allowed senders while the gateway runs.
- "I'll notify you when it completes" (`agent/subagent.py` 102-104): when the turn that is to
  tell the user of a subagent's result fails, its apology goes to the channel the
  announcement came from, "system" (`agent/loop.py` 1609), and nobody gets it. `ChatService` promises
  an answer to users, and may give an announcement up.
- A client that connects to the health endpoint and sends nothing keeps a gateway that has closed
  all else from ending: the handler reads without a limit (`cli/commands.py` 543), and
  `wait_closed` (604) waits for it on CPython 3.12. `GatewayEnds` names this as its exception.
- A sending that fails is logged; the turn is in the history as if delivered.

Evidence recorders (`docs/evidence.md`):

- "The source commit in each manifest produced its bundle" holds for the trace and
  handoff recorders only. The MCP recorder captures in the worktree and verifies
  nothing between its second inventory and the renames: an edit undone before
  that inventory, or a commit after it, gives a bundle its commit did not produce.
  `CommitProducedBundle` and `PublishedAsCommitted` leave "mcp" out. For the other two
  `PublishedAsCommitted` excuses what the developer does from the moment the stage is
  complete, a little before the last verification reads it.
- The "atomic backup-and-replace boundary" of the MCP recorder (`docs/evidence.md` 229) consists of
  two renames: a run killed between them leaves the old bundle under a hidden name
  and none in its place. And it retires whatever is in place, also without `--replace`: a
  bundle that another run published after this one had looked is set aside and deleted
  (`mcp_evidence_recorder.py` 521-527). Of two that race the loser leaves its backup directory
  behind. So `BundleSurvives` promises of MCP bundles only that the one published last is not
  lost; of the others, that they stay as they are until the developer acts.
- A publication whose last `fsync` fails is reported as failed although it is done.
- A killed recorder's stage makes every later `record` refuse until it is removed by
  hand (`trace_evidence_recorder.py` 197).

## 6. What is not modelled

See `components` in `PROJECT.json` for each part and its reason. In short:
providers, file, shell and web tools, configuration, skills, prompts and the dashboard
have no state across awaits; the validation and canonicalisation of MCP schemas
and results (`agent/tools/mcp.py` 1-1085) is sequential data handling; the handoff trace,
the fault lab and its server play one fixed schedule of what the other modules have
in general. Of modelled parts: the router's heuristics, `/reflect` and `/help`, message
splitting and the HTML conversion of Telegram, the chat command (its clean-up is the
gateway's with two steps), cron expressions, failing writes of `jobs.json` and of sessions,
the end of the event loop by a second Ctrl-C, strict parsing and rendering in the recorders. Outside the models: time other than the cron
clock, sizes and texts, a process killed in the middle of a file write (a session may
then be unreadable and load as an empty one, `session/manager.py` 150), and a second
process on `jobs.json` (it overwrites, `cron/service.py` 68).

Modules are composed where they share state (`TraceLab`, `Gateway`,
`EvidenceRecorders`); elsewhere one module is a single step or an abstract service
in the other: a scope's body in `McpLifecycle`, the connection in `AgentTurn`, the
services' drains in `Gateway`. That these abstractions fit is argued here, not
checked.

## 7. The plan

Done: the models of sections 2 and 3 and the proofs of section 4. What is worth doing next:

1. A hypothesis less in `McpLifecycleProofs`: with manual tasks that never close while a
   lifespan enters, `Scopes` should hold as it is.
2. `AssertionsHold` for a lab with any number of thinkers, should the lab get such scenarios.
3. The compositions that section 6 argues for: a consolidation as an operation that
   `McpLifecycle` drains, the transport under `AgentTurn`.
