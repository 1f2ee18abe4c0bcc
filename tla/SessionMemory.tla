---------------------------- MODULE SessionMemory ----------------------------
(***************************************************************************)
(* Sessions and their consolidation: SessionManager with its cache and its *)
(* files (k2do/session/manager.py), the turns and the /new command that    *)
(* use it, and the background tasks that summarise old messages into       *)
(* MEMORY.md and HISTORY.md (k2do/agent/loop.py: _schedule_consolidation,  *)
(* _consolidate_memory, stop, _drain_agent_owned_work).                    *)
(*                                                                         *)
(* Everything runs in one event loop.  A turn and a consolidation are      *)
(* suspended only while they await the model; what they read before that   *)
(* await and write after it is what this module is about.  File accesses   *)
(* do not suspend.  A message is <<number of its turn, role>>; a fact in   *)
(* MEMORY.md is the message it came from.                                  *)
(***************************************************************************)
EXTENDS Integers, Sequences, FiniteSets

CONSTANTS
    Key,         \* session keys
    Worker,      \* the tasks that process messages: the agent loop, callers
                 \* of process_direct
    Runner,      \* identities of consolidation tasks
    Window,      \* memory_window
    Edits,       \* whether a turn may write MEMORY.md itself (edit_file)
    MaxTurns,    \* bound on turns
    MaxNews,     \* bound on /new commands
    MaxRestarts, \* bound on restarts of the process
    None         \* Python's None

ASSUME ConstantsAssumption ==
    /\ Window \in Nat
    /\ Edits \in BOOLEAN
    /\ MaxTurns \in Nat /\ MaxNews \in Nat /\ MaxRestarts \in Nat
    /\ None \notin Runner \cup Key

VARIABLES
    objs,      \* the Session objects created so far: key, messages, last_consolidated
    cache,     \* SessionManager._cache: an index into objs, 0 if absent
    file,      \* the session files (an absent one loads like an empty one)
    memory,    \* MEMORY.md
    turn,      \* per worker: the turn it awaits the model for
    runner,    \* per consolidation task: its frame
    table,     \* _consolidation_tasks
    requested, \* cancel() was called on the task, not yet delivered
    lock,      \* _consolidation_locks: holder and queue per key
    closing,   \* _agent_closing
    drain,     \* the shared drain of aclose: the tasks it waits for
    \* history
    turns, news, restarts,  \* counters
    log,       \* per key: what was said since the last /new
    summaries, \* how often a message was in an accepted consolidation
    partial,   \* messages whose consolidation failed between the two files
    failed,    \* messages whose archiving failed or was cancelled
    unnoted,   \* messages of an accepted reply without an entry for HISTORY.md
    dropped,   \* messages a /new took out beside an archive: no task has them
    cleared,   \* messages a /new took out of a session
    writer     \* whose consolidation put a fact into MEMORY.md, None for a turn

stores == <<objs, cache, file>>
tasks == <<runner, table, requested, lock>>
ghosts == <<summaries, partial, failed, unnoted, dropped>>
vars == <<stores, memory, turn, tasks, closing, drain, turns, news, restarts, log, ghosts,
          cleared, writer>>

Message == (1..MaxTurns) \X {"user", "assistant"}
Pair(n) == <<<<n, "user">>, <<n, "assistant">>>>
Keep == Window \div 2
Kinds == {"window", "archive"}
Elements(s) == {s[i] : i \in 1..Len(s)}

Empty == [msgs |-> <<>>, lc |-> 0]
NoTurn == [busy |-> FALSE, key |-> None, obj |-> 0, n |-> 0, edited |-> FALSE, cancel |-> FALSE]
Idle == [pc |-> "idle", kind |-> None, key |-> None, obj |-> 0, batch |-> <<>>, mem |-> {}]

Init ==
    /\ objs = <<>> /\ cache = [k \in Key |-> 0] /\ file = [k \in Key |-> Empty]
    /\ memory = {}
    /\ turn = [w \in Worker |-> NoTurn]
    /\ runner = [r \in Runner |-> Idle]
    /\ table = [e \in Key \X Kinds |-> None]
    /\ requested = {}
    /\ lock = [k \in Key |-> [holder |-> None, queue |-> <<>>]]
    /\ closing = FALSE /\ drain = None
    /\ turns = 0 /\ news = 0 /\ restarts = 0
    /\ log = [k \in Key |-> <<>>]
    /\ summaries = [m \in Message |-> 0]
    /\ partial = {} /\ failed = {} /\ unnoted = {} /\ dropped = {} /\ cleared = {}
    /\ writer = [m \in Message |-> None]
-----------------------------------------------------------------------------
(* SessionManager *)

\* A Python slice s[a:b]: negative bounds count from the end, and bounds
\* beyond either end are cut off.
Bound(s, i) == IF i < 0 THEN (IF Len(s) + i < 0 THEN 0 ELSE Len(s) + i)
                        ELSE (IF i > Len(s) THEN Len(s) ELSE i)
Slice(s, a, b) == SubSeq(s, Bound(s, a) + 1, Bound(s, b))

\* get_or_create: the cached object, or a new one with what the file holds.
Opened(k) == IF cache[k] # 0 THEN objs
             ELSE Append(objs, [key |-> k, msgs |-> file[k].msgs, lc |-> file[k].lc])
Handle(k) == IF cache[k] # 0 THEN cache[k] ELSE Len(objs) + 1

\* Mutant: saving drops what was consolidated.
SaveTrimmed(os, o) ==
    LET s == os[o]
        kept == SubSeq(s.msgs, (IF s.lc > 0 THEN s.lc ELSE 0) + 1, Len(s.msgs))
    IN  /\ objs' = [os EXCEPT ![o].msgs = kept, ![o].lc = 0]
        /\ file' = [file EXCEPT ![s.key] = [msgs |-> kept, lc |-> 0]]
        /\ cache' = [cache EXCEPT ![s.key] = o]

\* save: the file is rewritten and the object becomes the cached one.
Save(os, o) ==
    LET s == os[o]
    IN  /\ objs' = os
        /\ file' = [file EXCEPT ![s.key] = [msgs |-> s.msgs, lc |-> s.lc]]
        /\ cache' = [cache EXCEPT ![s.key] = o]
-----------------------------------------------------------------------------
(* _schedule_consolidation *)

\* A task that is not done(); one cancelled before its first step is "dead"
\* and stays in the table.
Live(r) == r # None /\ runner[r].pc \notin {"idle", "dead"}

Free(r) == runner[r].pc \in {"idle", "dead"} /\ \A e \in Key \X Kinds : table[e] # r

\* Nothing is scheduled while the agent closes, nor next to a live task with
\* the same task key.
Schedule(k, kind, frame) ==
    IF closing \/ Live(table[<<k, kind>>])
    THEN UNCHANGED <<runner, table, requested>>
    ELSE \E r \in Runner :
            /\ Free(r)
            /\ runner' = [runner EXCEPT ![r] = frame]
            /\ table' = [table EXCEPT ![<<k, kind>>] = r]
            /\ requested' = requested \ {r}
-----------------------------------------------------------------------------
(* Turns and commands: _process_message *)

\* Mutant: a closing agent still takes messages.
ReadyAlways(w) == ~turn[w].busy

\* A free worker takes a message, unless the agent is closing.
Ready(w) == ~turn[w].busy /\ ~closing

\* A turn opens its session, has it consolidated when it is long, and awaits
\* the model.  (/deepthink, /refine and system messages do not consolidate.)
TurnStart(w, k, special) ==
    /\ Ready(w) /\ turns < MaxTurns
    /\ turns' = turns + 1
    /\ turn' = [turn EXCEPT ![w] = [busy |-> TRUE, key |-> k, obj |-> Handle(k), n |-> turns + 1,
                                    edited |-> FALSE, cancel |-> FALSE]]
    /\ objs' = Opened(k)
    /\ cache' = [cache EXCEPT ![k] = Handle(k)]
    /\ IF ~special /\ Len(Opened(k)[Handle(k)].msgs) > Window
       THEN Schedule(k, "window", [Idle EXCEPT !.pc = "created", !.kind = "window", !.key = k,
                                               !.obj = Handle(k)])
       ELSE UNCHANGED <<runner, table, requested>>
    /\ UNCHANGED <<file, memory, lock, closing, drain, news, restarts, log, ghosts, cleared, writer>>

\* MEMORY.md is rewritten; of every fact it did not have, somebody is the writer.
WriteMemory(new, who) ==
    /\ memory' = new
    /\ writer' = [m \in Message |-> IF m \in new \ memory THEN who ELSE writer[m]]

\* While it runs, a turn may write a fact to MEMORY.md with a file tool.
TurnEdits(w) ==
    /\ Edits /\ turn[w].busy /\ ~turn[w].edited
    /\ turn' = [turn EXCEPT ![w].edited = TRUE]
    /\ WriteMemory(memory \cup {<<turn[w].n, "user">>}, None)
    /\ UNCHANGED <<stores, tasks, closing, drain, turns, news, restarts, log, ghosts, cleared>>

\* The model has answered: question and answer are added and saved.
TurnEnd(w) ==
    LET k == turn[w].key
        o == turn[w].obj
    IN  /\ turn[w].busy /\ ~turn[w].cancel
        /\ Save([objs EXCEPT ![o].msgs = @ \o Pair(turn[w].n)], o)
        /\ log' = [log EXCEPT ![k] = @ \o Pair(turn[w].n)]
        /\ turn' = [turn EXCEPT ![w] = NoTurn]
        /\ UNCHANGED <<memory, tasks, closing, drain, turns, news, restarts, ghosts, cleared, writer>>

\* The turn fails or is cancelled: it leaves nothing in the session.
TurnFails(w) ==
    /\ turn[w].busy
    /\ turn' = [turn EXCEPT ![w] = NoTurn]
    /\ UNCHANGED <<stores, memory, tasks, closing, drain, turns, news, restarts, log, ghosts,
                   cleared, writer>>

\* /new, without any await: the session is emptied, saved and forgotten, and
\* its messages are handed to an archive task.
NewSession(w, k) ==
    LET o == Handle(k)
        old == Opened(k)[o].msgs
    IN  /\ Ready(w) /\ news < MaxNews
        /\ news' = news + 1
        /\ objs' = [Opened(k) EXCEPT ![o].msgs = <<>>, ![o].lc = 0]
        /\ file' = [file EXCEPT ![k] = Empty]
        /\ cache' = [cache EXCEPT ![k] = 0]
        /\ Schedule(k, "archive", [Idle EXCEPT !.pc = "created", !.kind = "archive", !.key = k,
                                               !.batch = old])
        /\ log' = [log EXCEPT ![k] = <<>>]
        /\ cleared' = cleared \cup Elements(old)
        /\ dropped' = IF Live(table[<<k, "archive">>]) THEN dropped \cup Elements(old) ELSE dropped
        /\ UNCHANGED <<memory, turn, lock, closing, drain, turns, restarts, summaries, partial, failed,
                       unnoted, writer>>
-----------------------------------------------------------------------------
(* _consolidate_memory, run by a task of its own *)

\* The task is over: its finally clause takes it out of the table.
Retire(r) ==
    /\ runner' = [runner EXCEPT ![r] = Idle]
    /\ table' = [e \in Key \X Kinds |-> IF table[e] = r THEN None ELSE table[e]]
    /\ requested' = requested \ {r}

\* With the lock: choose the messages, read MEMORY.md and await the model,
\* or return at once if there is nothing to consolidate.
Begin(r, queue) ==
    LET f == runner[r]
        k == f.key
        msgs == objs[f.obj].msgs
        lc == objs[f.obj].lc
        batch == IF f.kind = "archive" THEN f.batch
                 ELSE Slice(msgs, lc, IF Keep = 0 THEN 0 ELSE -Keep)
        nothing == f.kind = "window" /\ (Len(msgs) <= Keep \/ Len(msgs) - lc <= 0 \/ batch = <<>>)
    IN  IF nothing
        THEN /\ Retire(r)
             /\ lock' = [lock EXCEPT ![k] = [holder |-> None, queue |-> queue]]
        ELSE /\ runner' = [runner EXCEPT ![r].pc = "chat", ![r].batch = batch, ![r].mem = memory]
             /\ lock' = [lock EXCEPT ![k] = [holder |-> r, queue |-> queue]]
             /\ UNCHANGED <<table, requested>>

\* Mutant: nobody looks at the lock.
RunnerStartUnlocked(r) ==
    /\ runner[r].pc = "created" /\ r \notin requested
    /\ Begin(r, lock[runner[r].key].queue)
    /\ UNCHANGED <<stores, memory, turn, closing, drain, turns, news, restarts, log, ghosts,
                   cleared, writer>>

\* Mutant: an archive gives way like a consolidation of the window.
RunnerStartGivesWay(r) ==
    LET k == runner[r].key
        l == lock[k]
    IN  /\ runner[r].pc = "created" /\ r \notin requested
        /\ IF l.holder # None THEN Retire(r) /\ UNCHANGED lock ELSE Begin(r, <<>>)
        /\ UNCHANGED <<stores, memory, turn, closing, drain, turns, news, restarts, log, ghosts,
                       cleared, writer>>

\* The first step of the task: a consolidation of the window gives way to one
\* that is under way, an archive waits for it.
RunnerStart(r) ==
    LET k == runner[r].key
        l == lock[k]
    IN  /\ runner[r].pc = "created" /\ r \notin requested
        /\ CASE l.holder # None /\ runner[r].kind = "window" -> Retire(r) /\ UNCHANGED lock
             [] l.holder = None /\ l.queue = <<>> -> Begin(r, <<>>)
             [] OTHER -> /\ runner' = [runner EXCEPT ![r].pc = "waiting"]
                         /\ lock' = [lock EXCEPT ![k].queue = Append(@, r)]
                         /\ UNCHANGED <<table, requested>>
        /\ UNCHANGED <<stores, memory, turn, closing, drain, turns, news, restarts, log, ghosts,
                       cleared, writer>>

RunnerAcquires(r) ==
    LET l == lock[runner[r].key]
    IN  /\ runner[r].pc = "waiting" /\ r \notin requested
        /\ l.holder = None /\ Head(l.queue) = r
        /\ Begin(r, Tail(l.queue))
        /\ UNCHANGED <<stores, memory, turn, closing, drain, turns, news, restarts, log, ghosts,
                       cleared, writer>>

Released(k) == [lock EXCEPT ![k].holder = None]

\* Archived messages that will not be summarised any more.
GivenUp(r) == IF runner[r].kind = "archive" THEN Elements(runner[r].batch) ELSE {}

\* Mutant: an error while awaiting the model leaves the lock taken.
ChatFailsLocked(r) ==
    /\ runner[r].pc = "chat" /\ r \notin requested
    /\ Retire(r)
    /\ failed' = failed \cup GivenUp(r)
    /\ UNCHANGED <<stores, memory, turn, lock, closing, drain, turns, news, restarts, log,
                   summaries, partial, unnoted, dropped, cleared, writer>>

\* The model fails or its reply is of no use: nothing is written.
ChatFails(r) ==
    /\ runner[r].pc = "chat" /\ r \notin requested
    /\ Retire(r)
    /\ lock' = Released(runner[r].key)
    /\ failed' = failed \cup GivenUp(r)
    /\ UNCHANGED <<stores, memory, turn, closing, drain, turns, news, restarts, log,
                   summaries, partial, unnoted, dropped, cleared, writer>>

Summarise(batch) ==
    summaries' = [m \in Message |-> IF m \in Elements(batch) THEN summaries[m] + 1 ELSE summaries[m]]

\* HISTORY.md was written, then writing MEMORY.md fails.
ChatHalfWritten(r) ==
    /\ runner[r].pc = "chat" /\ r \notin requested
    /\ Retire(r)
    /\ lock' = Released(runner[r].key)
    /\ Summarise(runner[r].batch)
    /\ partial' = partial \cup Elements(runner[r].batch)
    /\ failed' = failed \cup GivenUp(r)
    /\ UNCHANGED <<stores, memory, turn, closing, drain, turns, news, restarts, log, unnoted, dropped,
                   cleared, writer>>

\* The reply has an entry for HISTORY.md, or none.
Noted(batch) ==
    \/ Summarise(batch) /\ UNCHANGED unnoted
    \/ unnoted' = unnoted \cup Elements(batch) /\ UNCHANGED summaries

\* Mutant: the position is not advanced.
ChatSucceedsUncounted(r) ==
    LET f == runner[r]
    IN  /\ f.pc = "chat" /\ r \notin requested
        /\ Retire(r)
        /\ lock' = Released(f.key)
        /\ Noted(f.batch)
        /\ \/ UNCHANGED <<memory, writer>>
           \/ WriteMemory(f.mem \cup Elements(f.batch), f.key)
        /\ IF f.kind = "archive" THEN UNCHANGED stores ELSE Save(objs, f.obj)
        /\ UNCHANGED <<turn, closing, drain, turns, news, restarts, log, partial, failed, dropped, cleared>>

\* The reply is accepted, even one with neither an entry nor an update.
\* MEMORY.md, if there is an update for it, is written from what it held
\* before the await; the position is counted from the end of the messages as
\* they are now, and the session is saved.
ChatSucceeds(r) ==
    LET f == runner[r]
    IN  /\ f.pc = "chat" /\ r \notin requested
        /\ Retire(r)
        /\ lock' = Released(f.key)
        /\ Noted(f.batch)
        /\ \/ UNCHANGED <<memory, writer>>
           \/ WriteMemory(f.mem \cup Elements(f.batch), f.key)
        /\ IF f.kind = "archive" THEN UNCHANGED stores
           ELSE Save([objs EXCEPT ![f.obj].lc = Len(objs[f.obj].msgs) - Keep], f.obj)
        /\ UNCHANGED <<turn, closing, drain, turns, news, restarts, log, partial, failed, dropped, cleared>>

\* A cancellation is delivered: before its first step the task ends without
\* running its finally clause, later it releases the lock or leaves its queue.
RunnerCancelled(r) ==
    LET k == runner[r].key
    IN  /\ r \in requested /\ Live(r)
        /\ IF runner[r].pc = "created"
           THEN /\ runner' = [runner EXCEPT ![r] = [Idle EXCEPT !.pc = "dead"]]
                /\ UNCHANGED <<table, requested>>
           ELSE Retire(r)
        /\ lock' = CASE runner[r].pc = "chat" -> Released(k)
                     [] runner[r].pc = "waiting" ->
                          [lock EXCEPT ![k].queue = SelectSeq(@, LAMBDA x : x # r)]
                     [] OTHER -> lock
        /\ failed' = failed \cup GivenUp(r)
        /\ UNCHANGED <<stores, memory, turn, closing, drain, turns, news, restarts, log, summaries,
                       partial, unnoted, dropped, cleared, writer>>
-----------------------------------------------------------------------------
(* stop, aclose and the end of the process *)

Listed == {r \in Runner : \E e \in Key \X Kinds : table[e] = r}

\* stop() cancels every listed consolidation, each at most once.
Stop ==
    /\ \E r \in Listed : Live(r) /\ r \notin requested
    /\ requested' = requested \cup {r \in Listed : Live(r)}
    /\ UNCHANGED <<stores, memory, turn, runner, table, lock, closing, drain, turns, news, restarts,
                   log, ghosts, cleared, writer>>

AClose ==
    /\ ~closing
    /\ closing' = TRUE
    /\ UNCHANGED <<stores, memory, turn, tasks, drain, turns, news, restarts, log, ghosts, cleared,
                   writer>>

\* The first step of the shared drain: snapshot and cancel.
DrainStart ==
    /\ closing /\ drain = None
    /\ drain' = [runners |-> {r \in Listed : Live(r)},
                 workers |-> {w \in Worker : turn[w].busy}]
    /\ requested' = requested \cup {r \in Listed : Live(r)}
    /\ turn' = [w \in Worker |-> [turn[w] EXCEPT !.cancel = turn[w].busy]]
    /\ UNCHANGED <<stores, memory, runner, table, lock, closing, turns, news, restarts, log, ghosts,
                   cleared, writer>>

Drained ==
    /\ drain # None
    /\ \A r \in drain.runners : ~Live(r)
    /\ \A w \in drain.workers : ~turn[w].busy

\* The process ends, in an orderly way or not, and starts again: only the
\* files are left.
Restart ==
    /\ restarts < MaxRestarts
    /\ restarts' = restarts + 1
    /\ objs' = <<>> /\ cache' = [k \in Key |-> 0]
    /\ turn' = [w \in Worker |-> NoTurn]
    /\ runner' = [r \in Runner |-> Idle]
    /\ table' = [e \in Key \X Kinds |-> None]
    /\ requested' = {}
    /\ lock' = [k \in Key |-> [holder |-> None, queue |-> <<>>]]
    /\ closing' = FALSE /\ drain' = None
    /\ failed' = failed \cup UNION {GivenUp(r) : r \in Runner}
    /\ UNCHANGED <<file, memory, turns, news, log, summaries, partial, unnoted, dropped, cleared, writer>>

RunnerNext(r) ==
    \/ RunnerStart(r) \/ RunnerAcquires(r)
    \/ ChatFails(r) \/ ChatHalfWritten(r) \/ ChatSucceeds(r)
    \/ RunnerCancelled(r)

TurnNext(w) == TurnEnd(w) \/ TurnFails(w)

Next ==
    \/ \E w \in Worker, k \in Key : NewSession(w, k) \/ \E special \in BOOLEAN : TurnStart(w, k, special)
    \/ \E w \in Worker : TurnEdits(w) \/ TurnNext(w)
    \/ \E r \in Runner : RunnerNext(r)
    \/ Stop \/ AClose \/ DrainStart \/ Restart

Spec == Init /\ [][Next]_vars

\* Every call of the model ends (the provider has a timeout), and the event
\* loop runs every task that can go on.
Fairness ==
    /\ \A r \in Runner : WF_vars(RunnerNext(r))
    /\ \A w \in Worker : WF_vars(TurnNext(w))
    /\ WF_vars(DrainStart)

FairSpec == Spec /\ Fairness
-----------------------------------------------------------------------------
(* Properties *)

Record(key, pc) == [pc : pc, kind : Kinds \cup {None}, key : key, obj : 0..Len(objs),
                    batch : Seq(Message), mem : SUBSET Message]

TypeOK ==
    /\ \A o \in 1..Len(objs) : objs[o].key \in Key /\ objs[o].msgs \in Seq(Message) /\ objs[o].lc \in Int
    /\ cache \in [Key -> 0..Len(objs)]
    /\ \A k \in Key : file[k].msgs \in Seq(Message) /\ file[k].lc \in Int
    /\ memory \subseteq Message /\ writer \in [Message -> Key \cup {None}]
    /\ \A w \in Worker : turn[w].busy =>
          turn[w].key \in Key /\ turn[w].obj \in 1..Len(objs) /\ turn[w].n \in 1..turns
    /\ \A r \in Runner : runner[r] \in
          Record(Key \cup {None}, {"idle", "created", "waiting", "chat", "dead"})
    /\ table \in [Key \X Kinds -> Runner \cup {None}]
    /\ requested \subseteq Runner
    /\ \A k \in Key : lock[k].holder \in Runner \cup {None} /\ lock[k].queue \in Seq(Runner)
    /\ closing \in BOOLEAN
    /\ turns \in 0..MaxTurns /\ news \in 0..MaxNews /\ restarts \in 0..MaxRestarts
    /\ summaries \in [Message -> Nat]
    /\ partial \cup failed \cup unnoted \cup dropped \cup cleared \subseteq Message

Current(k) == IF cache[k] # 0 THEN objs[cache[k]].msgs ELSE file[k].msgs

\* The session under a key, in memory and on disk, holds exactly what was
\* said since the last /new, whatever consolidations do meanwhile
\* (manager.py: consolidation "does NOT modify the messages list or
\* get_history() output").
HistoryIntact == \A k \in Key : Current(k) = log[k] /\ file[k].msgs = log[k]

\* The store is the append-only conversation its docstring promises: every
\* step of turns, consolidations, stops and restarts is a step of
\* ConversationLog or invisible to it.
Conversation == INSTANCE ConversationLog WITH Turn <- 1..MaxTurns, conv <- [k \in Key |-> Current(k)]
AppendOnly == Conversation!Spec

\* No message is summarised a second time, unless a consolidation failed
\* after it had written HISTORY.md (_consolidate_memory: the lock, the slice
\* and last_consolidated together).
SummarisedOnce == \A m \in Message : summaries[m] > 1 => m \in partial

\* When the drain of aclose is over, no turn and no consolidation is left to
\* touch a file (_drain_agent_owned_work, _schedule_consolidation).
DrainComplete == Drained => /\ \A r \in Runner : ~Live(r)
                            /\ \A w \in Worker : ~turn[w].busy

\* "New session started. Memory saved." (loop.py): what a /new took out of a
\* session is summarised or with a task that will, unless its archiving failed
\* or was cancelled, the model's reply had no entry for it, or the archive of
\* an earlier /new was still at work.  Nothing is lost in another way.
ArchiveKept ==
    \A m \in cleared : \/ summaries[m] > 0
                       \/ m \in failed \cup unnoted \cup dropped
                       \/ \E r \in Runner : Live(r) /\ m \in Elements(runner[r].batch)

\* A fact leaves MEMORY.md only when somebody else, a turn or a consolidation of
\* another session, put it there while the consolidation that overwrites it
\* awaited the model; consolidations of one session lose nothing to each other
\* (_consolidate_memory: MEMORY.md is read and written under the session's lock).
FactsKept ==
    [][\A m \in memory \ memory' : \E r \in Runner :
           /\ runner[r].pc = "chat" /\ runner'[r].pc = "idle"
           /\ m \notin runner[r].mem /\ writer[m] # runner[r].key]_vars

\* Every consolidation comes to its end and frees the lock of its session.
ConsolidationEnds == \A r \in Runner : Live(r) ~> ~Live(r)
=============================================================================
