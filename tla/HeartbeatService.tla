-------------------------- MODULE HeartbeatService --------------------------
(***************************************************************************)
(* The heartbeat service (k2do/heartbeat/service.py): one worker task that *)
(* wakes up periodically and lets the agent look at its tasks, and start,  *)
(* stop and aclose, whose callers share one drain of the worker that is    *)
(* going away.                                                             *)
(*                                                                         *)
(* Everything runs in one event loop: an action is the code between two    *)
(* awaits.  Worker identities stand for task objects; one may be used      *)
(* again when nothing refers to it.                                        *)
(***************************************************************************)
EXTENDS Naturals

CONSTANTS
    Worker,     \* identities of worker tasks
    Caller,     \* the tasks that call start and aclose
    MaxCalls,   \* bound on calls of the service
    MaxCancels, \* bound on cancellations of its callers and, from outside, of a worker
    None        \* Python's None

ASSUME ConstantsAssumption ==
    /\ None \notin Worker
    /\ MaxCalls \in Nat /\ MaxCancels \in Nat

VARIABLES
    running,    \* _running
    generation, \* _stop_generation
    task,       \* _task
    requested,  \* _cancel_requested_task
    closer,     \* _close_task, named by the worker it drains
    workers,    \* every worker: where it is, a cancellation on its way, task.cancelling()
    drains,     \* the drain tasks, by worker
    callers,    \* the calls of start and aclose under way
    \* history
    calls, cancels, \* counters
    asked,      \* start has been called since the last stop or aclose
    closed      \* an aclose has returned and start has not been called since

vars == <<running, generation, task, requested, closer, workers, drains, callers,
          calls, cancels, asked, closed>>

NoWorker == [pc |-> "absent", cancel |-> FALSE, cancelling |-> FALSE]
NoDrain == [pc |-> "none", expected |-> FALSE, error |-> FALSE]
NoCall == [pc |-> "idle", drain |-> None, gen |-> 0, cancel |-> FALSE,
           absorbed |-> FALSE, hit |-> FALSE, own |-> FALSE, foreign |-> FALSE]

Init ==
    /\ running = FALSE /\ generation = 0
    /\ task = None /\ requested = None /\ closer = None
    /\ workers = [w \in Worker |-> NoWorker]
    /\ drains = [w \in Worker |-> NoDrain]
    /\ callers = [c \in Caller |-> NoCall]
    /\ calls = 0 /\ cancels = 0
    /\ asked = FALSE /\ closed = FALSE
-----------------------------------------------------------------------------
(* The worker *)

Ended == {"done", "cancelled"}
Alive(w) == workers[w].pc \notin Ended \cup {"absent"}
AlreadyRunning == running /\ task # None /\ Alive(task)

Awaiting(c) == callers[c].pc # "idle"

\* Mutant: only a caller that finds its drain current goes on.
ReadyCurrent(c) ==
    Awaiting(c) /\ closer = callers[c].drain /\ drains[callers[c].drain].pc = "done"

\* The drain a caller waits for is over.
Ready(c) == Awaiting(c) /\ drains[callers[c].drain].pc = "done"

\* task.cancel()
Cancelled(r) == [r EXCEPT !.cancel = TRUE, !.cancelling = TRUE]

Goes(w, pc) == workers' = [workers EXCEPT ![w].pc = pc]
OnlyWorkers == UNCHANGED <<running, generation, task, requested, closer, drains, callers,
                           calls, cancels, asked, closed>>

\* The first step of the task; cancelled before, it never takes one.
WorkerBegins(w) ==
    /\ workers[w].pc = "created"
    /\ Goes(w, IF workers[w].cancel THEN "cancelled" ELSE IF running THEN "sleeping" ELSE "done")
    /\ OnlyWorkers

\* The interval is over.  It is far longer than a turn of the event loop:
\* callers whose drain has ended go on first.  An empty HEARTBEAT.md leaves
\* the worker asleep.
WorkerWakes(w) ==
    /\ workers[w].pc = "sleeping" /\ ~workers[w].cancel
    /\ \A c \in Caller : ~Ready(c)
    /\ Goes(w, IF running THEN "ticking" ELSE "done")
    /\ OnlyWorkers

\* The agent has answered, or failed: the loop goes on.
TickEnds(w) ==
    /\ workers[w].pc = "ticking" /\ ~workers[w].cancel
    /\ Goes(w, IF running THEN "sleeping" ELSE "done")
    /\ OnlyWorkers

\* A cancellation reaches the worker: asleep it ends, in a tick the agent
\* cleans up first.
WorkerHit(w) ==
    /\ workers[w].pc \in {"sleeping", "ticking"} /\ workers[w].cancel
    /\ workers' = [workers EXCEPT ![w] =
                     [@ EXCEPT !.pc = IF workers[w].pc = "sleeping" THEN "done" ELSE "unwinding",
                               !.cancel = FALSE]]
    /\ OnlyWorkers

\* The clean-up is over.  When it fails with an error of its own, that error
\* replaces the cancellation and the loop goes on.
WorkerUnwound(w, failed) ==
    /\ workers[w].pc = "unwinding"
    /\ Goes(w, IF failed /\ running THEN "sleeping" ELSE "done")
    /\ OnlyWorkers

\* The agent that is being closed cancels the tasks it is working for.
AgentCancels(w) ==
    /\ workers[w].pc = "ticking" /\ ~workers[w].cancel
    /\ cancels < MaxCancels /\ cancels' = cancels + 1
    /\ workers' = [workers EXCEPT ![w] = Cancelled(@)]
    /\ UNCHANGED <<running, generation, task, requested, closer, drains, callers,
                   calls, asked, closed>>
-----------------------------------------------------------------------------
(* start, stop and aclose *)

\* _request_task_cancel
RequestCancel(w) ==
    IF w # None /\ Alive(w) /\ ~workers[w].cancelling /\ requested # w
    THEN /\ workers' = [workers EXCEPT ![w] = Cancelled(@)]
         /\ requested' = w
    ELSE UNCHANGED <<workers, requested>>

\* A task object that did not exist before.
Reusable(w) ==
    /\ ~Alive(w)
    /\ w \notin {task, requested, closer}
    /\ drains[w].pc = "none"

\* The end of start: a new worker.
StartWorker ==
    \E w \in Worker :
        /\ Reusable(w)
        /\ running' = TRUE
        /\ task' = w
        /\ workers' = [workers EXCEPT ![w] = [NoWorker EXCEPT !.pc = "created"]]
        /\ requested' = None

Call(c, frame) == callers' = [callers EXCEPT ![c] = frame]

\* _ensure_close_task: join the drain that is there, or begin one.
JoinDrain(c, frame) ==
    IF closer # None
    THEN /\ Call(c, [frame EXCEPT !.drain = closer])
         /\ UNCHANGED <<closer, drains>>
    ELSE /\ closer' = task
         /\ drains' = [drains EXCEPT ![task] = [NoDrain EXCEPT !.pc = "created"]]
         /\ Call(c, [frame EXCEPT !.drain = task])

NothingToDrain == closer = None /\ task = None

CallStarts == calls < MaxCalls /\ calls' = calls + 1

Start(c) ==
    /\ ~Awaiting(c) /\ CallStarts /\ ~AlreadyRunning
    /\ asked' = TRUE /\ closed' = FALSE
    /\ IF NothingToDrain
       THEN /\ StartWorker
            /\ Call(c, NoCall)
            /\ UNCHANGED <<closer, drains>>
       ELSE /\ JoinDrain(c, [NoCall EXCEPT !.pc = "start", !.gen = generation])
            /\ running' = (running /\ closer # None)
            /\ UNCHANGED <<task, requested, workers>>
    /\ UNCHANGED <<generation, cancels>>

Stop ==
    /\ CallStarts
    /\ generation' = generation + 1
    /\ running' = FALSE
    /\ RequestCancel(task)
    /\ asked' = FALSE
    /\ UNCHANGED <<task, closer, drains, callers, cancels, closed>>

AClose(c) ==
    /\ ~Awaiting(c) /\ CallStarts
    /\ generation' = generation + 1
    /\ running' = FALSE
    /\ RequestCancel(task)
    /\ asked' = FALSE
    /\ IF NothingToDrain
       THEN /\ closed' = TRUE
            /\ Call(c, NoCall)
            /\ UNCHANGED <<closer, drains>>
       ELSE /\ JoinDrain(c, [NoCall EXCEPT !.pc = "aclose", !.gen = generation + 1])
            /\ UNCHANGED closed
    /\ UNCHANGED <<task, cancels>>

\* The first step of the drain task.
DrainStart(w) ==
    /\ drains[w].pc = "created"
    /\ RequestCancel(w)
    /\ drains' = [drains EXCEPT ![w] = [@ EXCEPT !.pc = "waiting", !.expected = (requested' = w)]]
    /\ UNCHANGED <<running, generation, task, closer, callers, calls, cancels, asked, closed>>

\* Mutant: the drain does not wait for the worker.
DrainEndsEarly(w) ==
    /\ drains[w].pc = "waiting"
    /\ drains' = [drains EXCEPT ![w].pc = "done"]
    /\ task' = IF task = w THEN None ELSE task
    /\ requested' = IF requested = w THEN None ELSE requested
    /\ UNCHANGED <<running, generation, closer, workers, callers, calls, cancels, asked, closed>>

\* The worker has ended: a cancellation nobody here requested is an error.
DrainEnds(w) ==
    /\ drains[w].pc = "waiting" /\ ~Alive(w)
    /\ drains' = [drains EXCEPT ![w] =
                    [@ EXCEPT !.pc = "done", !.error = (workers[w].pc = "cancelled" /\ ~drains[w].expected)]]
    /\ task' = IF task = w THEN None ELSE task
    /\ requested' = IF requested = w THEN None ELSE requested
    /\ UNCHANGED <<running, generation, closer, workers, callers, calls, cancels, asked, closed>>

\* Mutant: a cancelled caller does not wait any longer, and the drain goes
\* with it (no shield).
AbsorbsWithDrain(c) ==
    LET w == callers[c].drain
    IN  /\ Awaiting(c) /\ callers[c].cancel
        /\ Call(c, [callers[c] EXCEPT !.cancel = FALSE, !.absorbed = TRUE])
        /\ drains' = [drains EXCEPT ![w].pc = "done"]
        /\ task' = IF task = w THEN None ELSE task
        /\ UNCHANGED <<running, generation, requested, closer, workers, calls, cancels, asked, closed>>

\* Mutant: the wait swallows the cancellation.
CallerSwallows(c) ==
    /\ Awaiting(c) /\ callers[c].cancel
    /\ callers' = [callers EXCEPT ![c].cancel = FALSE]
    /\ UNCHANGED <<running, generation, task, requested, closer, workers, drains,
                   calls, cancels, asked, closed>>

\* A cancellation reaches a caller in its wait: it goes on waiting.
CallerAbsorbs(c) ==
    /\ Awaiting(c) /\ callers[c].cancel
    /\ Call(c, [callers[c] EXCEPT !.cancel = FALSE, !.absorbed = TRUE])
    /\ UNCHANGED <<running, generation, task, requested, closer, workers, drains,
                   calls, cancels, asked, closed>>

\* Mutant: start does not look whether it was stopped meanwhile.
GoesOnAnyway(c) ==
    /\ callers[c].pc = "start" /\ ~callers[c].absorbed /\ ~drains[callers[c].drain].error
    /\ ~AlreadyRunning

\* After the drain: start goes on unless it was cancelled or stopped or
\* another start came first.
GoesOn(c) ==
    /\ callers[c].pc = "start" /\ ~callers[c].absorbed /\ ~drains[callers[c].drain].error
    /\ callers[c].gen = generation
    /\ ~AlreadyRunning

Forget(w) == closer' = IF closer = w THEN None ELSE closer

\* The drain is over: its outcome and the caller's own cancellation are raised.
CallerResumes(c) ==
    LET f == callers[c]
    IN  /\ Ready(c) /\ ~f.cancel
        /\ Forget(f.drain)
        /\ drains' = IF \E x \in Caller \ {c} : callers[x].drain = f.drain
                     THEN drains ELSE [drains EXCEPT ![f.drain] = NoDrain]
        /\ Call(c, [NoCall EXCEPT !.hit = f.hit, !.own = f.absorbed, !.foreign = drains[f.drain].error])
        /\ IF GoesOn(c)
           THEN StartWorker /\ UNCHANGED closed
           ELSE /\ closed' = (closed \/ (f.pc = "aclose" /\ f.gen = generation /\ ~asked))
                /\ UNCHANGED <<running, task, requested, workers>>
        /\ UNCHANGED <<generation, calls, cancels, asked>>

\* Somebody cancels a caller.
CancelCaller(c) ==
    /\ Awaiting(c) /\ ~callers[c].cancel
    /\ cancels < MaxCancels /\ cancels' = cancels + 1
    /\ Call(c, [callers[c] EXCEPT !.cancel = TRUE, !.hit = TRUE])
    /\ UNCHANGED <<running, generation, task, requested, closer, workers, drains,
                   calls, asked, closed>>

WorkerNext(w) ==
    \/ WorkerBegins(w) \/ WorkerWakes(w) \/ TickEnds(w) \/ WorkerHit(w)
    \/ \E failed \in BOOLEAN : WorkerUnwound(w, failed)
DrainNext(w) == DrainStart(w) \/ DrainEnds(w)
CallerNext(c) == CallerAbsorbs(c) \/ CallerResumes(c)

Next ==
    \/ \E w \in Worker : WorkerNext(w) \/ AgentCancels(w) \/ DrainNext(w)
    \/ \E c \in Caller : CallerNext(c) \/ Start(c) \/ AClose(c) \/ CancelCaller(c)
    \/ Stop

Spec == Init /\ [][Next]_vars

\* The event loop runs what can go on, the agent answers, intervals end.
Fairness ==
    /\ \A w \in Worker : WF_vars(WorkerNext(w)) /\ WF_vars(DrainNext(w))
    /\ \A c \in Caller : WF_vars(CallerNext(c))

FairSpec == Spec /\ Fairness
-----------------------------------------------------------------------------
(* Properties *)

WorkerRecord == [pc : {"absent", "created", "sleeping", "ticking", "unwinding"} \cup Ended,
                 cancel : BOOLEAN, cancelling : BOOLEAN]
DrainRecord == [pc : {"none", "created", "waiting", "done"}, expected : BOOLEAN, error : BOOLEAN]
CallRecord == [pc : {"idle", "start", "aclose"}, drain : Worker \cup {None}, gen : Nat,
               cancel : BOOLEAN, absorbed : BOOLEAN, hit : BOOLEAN, own : BOOLEAN, foreign : BOOLEAN]

\* Types; a call under way has a drain, and the current drain exists
\* (_await_close_task is only called with a task, and drops only what is over).
TypeOK ==
    /\ running \in BOOLEAN /\ generation \in Nat
    /\ task \in Worker \cup {None} /\ requested \in Worker \cup {None}
    /\ closer \in Worker \cup {None}
    /\ workers \in [Worker -> WorkerRecord]
    /\ drains \in [Worker -> DrainRecord]
    /\ callers \in [Caller -> CallRecord]
    /\ calls \in 0..MaxCalls /\ cancels \in 0..MaxCancels
    /\ asked \in BOOLEAN /\ closed \in BOOLEAN
    /\ \A c \in Caller : Awaiting(c) => callers[c].drain \in Worker
    /\ closer # None => drains[closer].pc # "none"

\* The service never has two workers: one that is cleaning up is drained
\* before another starts (_drain_worker, start).
OneWorker == \A w \in Worker : Alive(w) => w = task

\* A start that waits for the drain does not undo a stop or aclose that was
\* called later (start compares _stop_generation).
StopWins == running => asked

\* When an aclose has returned and nobody has called start since, no worker
\* is left ("Cancel and await the heartbeat worker before returning").
ClosedQuiet == closed => \A w \in Worker : ~Alive(w)

\* A caller that was cancelled while it shared the drain ends with its own
\* cancellation, and no caller with one that was not its own ("replay this
\* caller's cancellation last").
CancellationReplayed ==
    \A c \in Caller : ~Awaiting(c) => callers[c].own = callers[c].hit /\ ~callers[c].foreign

\* Cleaning up is not interrupted: a worker that the agent or the service has
\* cancelled is not cancelled again by the service (the cancelling() test).
UnwindingUndisturbed == \A w \in Worker : workers[w].pc = "unwinding" => ~workers[w].cancel

\* start and aclose return, whoever shares their drain (_await_close_task).
CallsReturn == \A c \in Caller : Awaiting(c) ~> ~Awaiting(c)
=============================================================================
