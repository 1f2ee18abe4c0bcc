------------------------------ MODULE Channels ------------------------------
(***************************************************************************)
(* Starting and stopping the channels: ChannelManager                      *)
(* (k2do/channels/manager.py) with the Telegram channel it owns            *)
(* (k2do/channels/telegram.py).                                            *)
(*                                                                         *)
(* Any task may call start_all and stop_all at any time.  Each start_all   *)
(* that gets through opens a generation: a dispatcher of outbound messages *)
(* and a task that runs the channel's start(), which polls until it is     *)
(* told to stop.  A stop is done by one task that all callers wait for;    *)
(* the channel has such a task of its own.  A stop that fails keeps the    *)
(* Application, the channel's client, for the next attempt.  Messages and  *)
(* the typing indicator are the matter of module Gateway.                  *)
(*                                                                         *)
(* Applications are numbered by the generation that built them.            *)
(***************************************************************************)
EXTENDS Integers, FiniteSets

CONSTANTS
    Caller,         \* the tasks that call start_all and stop_all
    MaxGenerations, \* bound on generations
    MaxStops        \* bound on stop tasks of the manager

ASSUME ConstantsAssumption == MaxGenerations \in Nat \ {0} /\ MaxStops \in Nat \ {0}

Gen == 1..MaxGenerations
Stop == 1..MaxStops
Cleanup == 1..(MaxStops + MaxGenerations)   \* at most one per stop task and per start

VARIABLES
    caller,     \* per caller: its call, see NoCall
    generation, stopped, dispatch, stopTask,    \* ChannelManager: _generation, _stopped_generation,
                                                \* _dispatch_task, _stop_task (0 for None)
    dispatcher, \* per generation: its dispatch task
    owner,      \* per stop task of the manager: its frame
    app, running, startTask, tgStopTask,        \* TelegramChannel: _app, _running, _start_task, _stop_task
    starter,    \* per generation: the task of the channel's start()
    cleanup,    \* per stop task of the channel: its frame
    live,       \* Applications built and not shut down
    missed      \* a stop was done while a start still waited for its predecessor

manager == <<generation, stopped, dispatch, stopTask, dispatcher, owner>>
telegram == <<app, running, startTask, tgStopTask, starter, cleanup, live>>
vars == <<caller, manager, telegram, missed>>

\* stop: the stop task, or the generation, a caller waits for; cancelled: what it will replay.
NoCall == [pc |-> "idle", stop |-> 0, cancelled |-> FALSE]
NoOwner == [pc |-> "none", generation |-> 0, dispatch |-> 0, cleanup |-> 0, error |-> FALSE]
NoStarter == [pc |-> "none", waits |-> 0, cancelled |-> FALSE, fails |-> FALSE]
NoCleanup == [pc |-> "none", app |-> 0, error |-> FALSE]

Init ==
    /\ caller = [c \in Caller |-> NoCall]
    /\ generation = 0 /\ stopped = -1
    /\ dispatch = 0 /\ stopTask = 0
    /\ dispatcher = [g \in Gen |-> "none"] /\ owner = [s \in Stop |-> NoOwner]
    /\ app = 0 /\ running = FALSE /\ startTask = 0 /\ tgStopTask = 0
    /\ starter = [g \in Gen |-> NoStarter] /\ cleanup = [r \in Cleanup |-> NoCleanup]
    /\ live = {} /\ missed = FALSE

Returns(c) == caller' = [caller EXCEPT ![c] = NoCall]
Waits(c, pc, s) == caller' = [caller EXCEPT ![c] = [pc |-> pc, stop |-> s, cancelled |-> FALSE]]

Dispatching == dispatch # 0 /\ dispatcher[dispatch] # "done"
Done(s) == owner[s].pc = "done"
-----------------------------------------------------------------------------
(* ChannelManager: start_all and stop_all *)

\* Waits for the stop task st, or for a new one if there is none.
JoinStop(c, pc, st) ==
    \E s \in Stop :
        /\ IF st # 0 THEN s = st /\ UNCHANGED owner
           ELSE /\ owner[s] = NoOwner /\ \A r \in Stop : r < s => owner[r] # NoOwner
                /\ owner' = [owner EXCEPT ![s] = [NoOwner EXCEPT !.pc = "begin", !.generation = generation,
                                                                 !.dispatch = dispatch]]
        /\ stopTask' = s
        /\ Waits(c, pc, s)

ReturnsWith(c, st) == Returns(c) /\ stopTask' = st /\ UNCHANGED owner

\* A new generation, its dispatcher and the task of the channel's start(),
\* unless another start_all was faster.
Reopens(c, st) ==
    IF Dispatching
    THEN ReturnsWith(c, st) /\ UNCHANGED <<generation, dispatch, dispatcher, starter>>
    ELSE /\ generation < MaxGenerations
         /\ generation' = generation + 1 /\ dispatch' = generation + 1
         /\ dispatcher' = [dispatcher EXCEPT ![generation + 1] = "live"]
         /\ starter' = [starter EXCEPT ![generation + 1].pc = "claim"]
         /\ stopTask' = st
         /\ Waits(c, "gather", generation + 1) /\ UNCHANGED owner

\* start_all once no stop is under way; st is the stop task it sees.  A
\* generation that was not stopped is stopped first.
Starts(c, st) ==
    /\ CASE Dispatching ->
              ReturnsWith(c, st) /\ UNCHANGED <<generation, dispatch, dispatcher, starter>>
         [] ~Dispatching /\ generation > 0 /\ stopped < generation /\ (st = 0 \/ ~Done(st)) ->
              JoinStop(c, "retry", st) /\ UNCHANGED <<generation, dispatch, dispatcher, starter>>
         [] ~Dispatching /\ generation > 0 /\ stopped < generation /\ st # 0 /\ Done(st) /\ owner[st].error ->
              ReturnsWith(c, 0) /\ UNCHANGED <<generation, dispatch, dispatcher, starter>>
         [] OTHER -> Reopens(c, IF st # 0 /\ Done(st) THEN 0 ELSE st)
    /\ UNCHANGED <<stopped, app, running, startTask, tgStopTask, cleanup, live, missed>>

StartAll(c) ==
    /\ caller[c].pc = "idle"
    /\ CASE stopTask # 0 /\ ~Done(stopTask) ->
              JoinStop(c, "start", stopTask) /\ UNCHANGED <<generation, stopped, dispatch, dispatcher, telegram, missed>>
         [] stopTask # 0 /\ Done(stopTask) /\ owner[stopTask].error ->
              ReturnsWith(c, 0) /\ UNCHANGED <<generation, stopped, dispatch, dispatcher, telegram, missed>>
         [] OTHER -> Starts(c, 0)

\* A generation that is already stopped is not stopped again.
StopAll(c) ==
    /\ caller[c].pc = "idle"
    /\ stopTask # 0 \/ stopped # generation
    /\ IF stopTask # 0 /\ Done(stopTask) THEN ReturnsWith(c, 0)
       ELSE JoinStop(c, "stop", stopTask)
    /\ UNCHANGED <<generation, stopped, dispatch, dispatcher, telegram, missed>>

\* _await_stop_task ends; the first of the waiting callers forgets the task.
\* An error or a cancellation is raised, else start_all goes on.
StopAwaited(c) ==
    LET s == caller[c].stop
        st == IF stopTask = s THEN 0 ELSE stopTask
    IN  /\ caller[c].pc \in {"start", "stop", "retry"} /\ Done(s)
        /\ IF caller[c].pc = "stop" \/ owner[s].error \/ caller[c].cancelled
           THEN ReturnsWith(c, st) /\ UNCHANGED <<generation, stopped, dispatch, dispatcher, telegram, missed>>
           ELSE IF caller[c].pc = "start" THEN Starts(c, st)
           ELSE /\ Reopens(c, st)
                /\ UNCHANGED <<stopped, app, running, startTask, tgStopTask, cleanup, live, missed>>

\* start_all ends with the start of its channel.
StartEnds(c) ==
    /\ caller[c].pc = "gather" /\ starter[caller[c].stop].pc = "over"
    /\ Returns(c)
    /\ UNCHANGED <<manager, telegram, missed>>

\* The caller's task is cancelled: noted while it waits for a stop, passed on
\* to the start of the channel while it waits for that.
CancelCaller(c) ==
    /\ caller[c].pc # "idle" /\ ~caller[c].cancelled
    /\ caller' = [caller EXCEPT ![c].cancelled = TRUE]
    /\ starter' = IF caller[c].pc = "gather" /\ starter[caller[c].stop].pc # "over"
                  THEN [starter EXCEPT ![caller[c].stop].cancelled = TRUE] ELSE starter
    /\ UNCHANGED <<manager, app, running, startTask, tgStopTask, cleanup, live, missed>>
-----------------------------------------------------------------------------
(* ChannelManager: the stop task, and the dispatcher it ends *)

\* Mutant: a generation counts as stopped although its clean-up failed.
EndsStopped(s, error) ==
    /\ owner' = [owner EXCEPT ![s].pc = "done", ![s].error = error]
    /\ stopped' = IF owner[s].generation > stopped THEN owner[s].generation ELSE stopped
    /\ missed' = (missed \/ (~error /\ \E g \in Gen : starter[g].pc = "wait"))

OwnerEnds(s, error) ==
    /\ owner' = [owner EXCEPT ![s].pc = "done", ![s].error = error]
    /\ stopped' = IF ~error /\ owner[s].generation > stopped THEN owner[s].generation ELSE stopped
    /\ missed' = (missed \/ (~error /\ \E g \in Gen : starter[g].pc = "wait"))

\* TelegramChannel.stop() for a caller that goes on at once or waits.
NothingToStop == tgStopTask = 0 /\ app = 0
StopIsDone == tgStopTask # 0 /\ cleanup[tgStopTask].pc = "done"

\* The clean-up that is under way, or a new one.
JoinCleanup(r) ==
    /\ ~NothingToStop /\ ~StopIsDone
    /\ IF tgStopTask # 0 THEN r = tgStopTask /\ UNCHANGED cleanup
       ELSE /\ cleanup[r] = NoCleanup /\ \A q \in Cleanup : q < r => cleanup[q] # NoCleanup
            /\ cleanup' = [cleanup EXCEPT ![r] = [pc |-> "cleaning", app |-> app, error |-> FALSE]]
    /\ tgStopTask' = r

StopsChannel(s) ==
    /\ running' = FALSE
    /\ \/ NothingToStop /\ OwnerEnds(s, FALSE) /\ UNCHANGED <<tgStopTask, cleanup>>
       \/ StopIsDone /\ OwnerEnds(s, cleanup[tgStopTask].error) /\ tgStopTask' = 0 /\ UNCHANGED cleanup
       \/ \E r \in Cleanup :
             /\ JoinCleanup(r)
             /\ owner' = [owner EXCEPT ![s].pc = "channel", ![s].cleanup = r]
             /\ UNCHANGED <<stopped, missed>>

\* The stop task ends the dispatcher first.  (It was created after the start
\* of the channel, so that one has taken its first step.)
OwnerBegins(s) ==
    /\ owner[s].pc = "begin" /\ \A g \in Gen : starter[g].pc # "claim"
    /\ IF owner[s].dispatch = 0 THEN StopsChannel(s) /\ UNCHANGED dispatcher
       ELSE /\ owner' = [owner EXCEPT ![s].pc = "dispatch"]
            /\ dispatcher' = [dispatcher EXCEPT ![owner[s].dispatch] = "cancelled"]
            /\ UNCHANGED <<stopped, running, tgStopTask, cleanup, missed>>
    /\ UNCHANGED <<caller, generation, dispatch, stopTask, app, startTask, starter, live>>

\* Mutant: the dispatcher takes its cancellation for a failed send.
SwallowsCancellation(g) ==
    /\ dispatcher[g] = "cancelled"
    /\ dispatcher' = [dispatcher EXCEPT ![g] = "live"]
    /\ UNCHANGED <<caller, generation, stopped, dispatch, stopTask, owner, telegram, missed>>

\* The dispatcher ends, after the message it was about to send or without it.
\* By then the stop task that cancelled it has run, and that was created when
\* an earlier one was over: those who waited for the earlier one have gone on.
DispatchEnds(g) ==
    /\ dispatcher[g] = "cancelled" /\ \A c \in Caller : caller[c].pc \in {"start", "stop", "retry"} => ~Done(caller[c].stop)
    /\ dispatcher' = [dispatcher EXCEPT ![g] = "done"]
    /\ UNCHANGED <<caller, generation, stopped, dispatch, stopTask, owner, telegram, missed>>

OwnerGoesOn(s) ==
    /\ owner[s].pc = "dispatch" /\ dispatcher[owner[s].dispatch] = "done"
    /\ dispatch' = IF dispatch = owner[s].dispatch THEN 0 ELSE dispatch
    /\ StopsChannel(s)
    /\ UNCHANGED <<caller, generation, stopTask, dispatcher, app, startTask, starter, live>>

\* The clean-up of the channel is over.
OwnerFinishes(s) ==
    LET r == owner[s].cleanup
    IN  /\ owner[s].pc = "channel" /\ cleanup[r].pc = "done"
        /\ tgStopTask' = IF tgStopTask = r THEN 0 ELSE tgStopTask
        /\ OwnerEnds(s, cleanup[r].error)
        /\ UNCHANGED <<caller, generation, dispatch, stopTask, dispatcher, app, running, startTask, starter,
                       cleanup, live>>
-----------------------------------------------------------------------------
(* TelegramChannel: start() *)

\* Mutant: a failed clean-up forgets the Application all the same.
CleansForgetting(r, ok) ==
    /\ cleanup[r].pc = "cleaning"
    /\ cleanup' = [cleanup EXCEPT ![r].pc = "done", ![r].error = ~ok]
    /\ app' = IF app = cleanup[r].app THEN 0 ELSE app
    /\ live' = IF ok THEN live \ {cleanup[r].app} ELSE live
    /\ UNCHANGED <<caller, manager, running, startTask, tgStopTask, starter, missed>>

\* The clean-up: updater.stop, application.stop, application.shutdown are all
\* tried; if one fails the Application is kept.
Cleans(r, ok) ==
    /\ cleanup[r].pc = "cleaning"
    /\ cleanup' = [cleanup EXCEPT ![r].pc = "done", ![r].error = ~ok]
    /\ app' = IF ok /\ app = cleanup[r].app THEN 0 ELSE app
    /\ live' = IF ok THEN live \ {cleanup[r].app} ELSE live
    /\ UNCHANGED <<caller, manager, running, startTask, tgStopTask, starter, missed>>

\* The start that owns the channel is over.  Its task fails only if it was
\* cancelled: other errors are logged by _start_channel.
StarterEnds(g, fails) ==
    /\ starter' = [starter EXCEPT ![g].pc = "over", ![g].fails = fails]
    /\ running' = FALSE
    /\ startTask' = IF startTask = g THEN 0 ELSE startTask

\* A new Application, and the calls that bring it to polling.
Builds(g) ==
    /\ running' = TRUE /\ app' = g /\ live' = live \cup {g}
    /\ startTask' = g
    /\ starter' = [starter EXCEPT ![g].pc = "starting"]

\* The start owns the channel: it waits for the clean-up that is under way, or
\* for one of its own if an Application was left over, and only then builds.
Prepares(g) ==
    \/ NothingToStop /\ Builds(g) /\ UNCHANGED <<tgStopTask, cleanup>>
    \/ /\ StopIsDone /\ tgStopTask' = 0 /\ UNCHANGED cleanup
       /\ IF cleanup[tgStopTask].error THEN StarterEnds(g, FALSE) /\ UNCHANGED <<app, live>> ELSE Builds(g)
    \/ \E r \in Cleanup :
          /\ JoinCleanup(r)
          /\ startTask' = g
          /\ running' = (running /\ tgStopTask # 0)
          /\ starter' = [starter EXCEPT ![g].pc = "await", ![g].waits = r]
          /\ UNCHANGED <<app, live>>

\* Claims the channel; else there is one that runs, or waits for the start
\* that has not noticed yet that it was stopped.
Claims(g) ==
    \/ startTask = 0 /\ Prepares(g)
    \/ /\ startTask # 0
       /\ starter' = IF app # 0 THEN [starter EXCEPT ![g].pc = "over"]
                     ELSE [starter EXCEPT ![g].pc = "wait", ![g].waits = startTask]
       /\ UNCHANGED <<app, running, startTask, tgStopTask, cleanup, live>>

StarterBegins(g) ==
    /\ starter[g].pc = "claim" /\ ~starter[g].cancelled
    /\ Claims(g)
    /\ UNCHANGED <<caller, manager, missed>>

\* The awaited start is over; if it was cancelled, so is this one.
WaitEnds(g) ==
    /\ starter[g].pc = "wait" /\ ~starter[g].cancelled /\ starter[starter[g].waits].pc = "over"
    /\ IF starter[starter[g].waits].fails
       THEN /\ starter' = [starter EXCEPT ![g].pc = "over", ![g].fails = TRUE]
            /\ UNCHANGED <<app, running, startTask, tgStopTask, cleanup, live>>
       ELSE Claims(g)
    /\ UNCHANGED <<caller, manager, missed>>

\* The awaited clean-up is over; a cancellation is replayed only now.
CleanupAwaited(g) ==
    LET r == starter[g].waits
    IN  /\ starter[g].pc = "await" /\ cleanup[r].pc = "done"
        /\ tgStopTask' = IF tgStopTask = r THEN 0 ELSE tgStopTask
        /\ IF cleanup[r].error \/ starter[g].cancelled
           THEN StarterEnds(g, starter[g].cancelled) /\ UNCHANGED <<app, live>>
           ELSE Builds(g)
        /\ UNCHANGED <<caller, manager, cleanup, missed>>

\* Connected: polls, unless it was stopped meanwhile.
Connects(g) ==
    /\ starter[g].pc = "starting" /\ ~starter[g].cancelled
    /\ IF running THEN starter' = [starter EXCEPT ![g].pc = "polling"] /\ UNCHANGED <<running, startTask>>
       ELSE StarterEnds(g, FALSE)
    /\ UNCHANGED <<caller, manager, app, tgStopTask, cleanup, live, missed>>

ConnectFails(g) ==
    /\ starter[g].pc = "starting" /\ ~starter[g].cancelled
    /\ StarterEnds(g, FALSE)
    /\ UNCHANGED <<caller, manager, app, tgStopTask, cleanup, live, missed>>

\* Once a second the start looks whether it has been stopped.
PollingEnds(g) ==
    /\ starter[g].pc = "polling" /\ ~running /\ ~starter[g].cancelled
    /\ StarterEnds(g, FALSE)
    /\ UNCHANGED <<caller, manager, app, tgStopTask, cleanup, live, missed>>

StarterCancelled(g) ==
    /\ starter[g].cancelled /\ starter[g].pc \notin {"await", "over"}
    /\ IF startTask = g THEN StarterEnds(g, TRUE)
       ELSE /\ starter' = [starter EXCEPT ![g].pc = "over", ![g].fails = TRUE]
            /\ UNCHANGED <<running, startTask>>
    /\ UNCHANGED <<caller, manager, app, tgStopTask, cleanup, live, missed>>

Next ==
    \/ \E c \in Caller : StartAll(c) \/ StopAll(c) \/ StopAwaited(c) \/ StartEnds(c) \/ CancelCaller(c)
    \/ \E s \in Stop : OwnerBegins(s) \/ OwnerGoesOn(s) \/ OwnerFinishes(s)
    \/ \E r \in Cleanup, ok \in BOOLEAN : Cleans(r, ok)
    \/ \E g \in Gen :
          \/ DispatchEnds(g) \/ StarterBegins(g) \/ WaitEnds(g) \/ CleanupAwaited(g) \/ Connects(g) \/ ConnectFails(g)
          \/ PollingEnds(g) \/ StarterCancelled(g)

\* Tasks that can go on do, and the library's clean-up ends.
Fairness ==
    /\ \A c \in Caller : WF_vars(StopAwaited(c))
    /\ \A s \in Stop : WF_vars(OwnerBegins(s)) /\ WF_vars(OwnerGoesOn(s)) /\ WF_vars(OwnerFinishes(s))
    /\ \A r \in Cleanup : WF_vars(\E ok \in BOOLEAN : Cleans(r, ok))
    /\ \A g \in Gen : /\ WF_vars(DispatchEnds(g)) /\ WF_vars(StarterBegins(g)) /\ WF_vars(WaitEnds(g)) /\ WF_vars(CleanupAwaited(g))
                      /\ WF_vars(PollingEnds(g)) /\ WF_vars(StarterCancelled(g))

Spec == Init /\ [][Next]_vars /\ Fairness
-----------------------------------------------------------------------------
(* Properties *)

\* Nothing runs that its owner has lost: an Application that was built and not
\* shut down is the one the channel holds, however starts, failed starts,
\* failed stops and cancellations follow one another (TelegramChannel.start:
\* "never overwrite that handle"), and only the dispatcher the manager knows
\* takes messages from the bus, also when two callers start at once (start_all).
NoneAbandoned ==
    /\ live \subseteq {app}
    /\ {g \in Gen : dispatcher[g] \in {"live", "cancelled"}} \subseteq {dispatch}

\* Once its generation counts as stopped, the channel is down - unless a start
\* was still waiting for the one before it when the stop was done.
DownWhenStopped ==
    stopped = generation /\ ~missed =>
        /\ app = 0 /\ ~running
        /\ \A g \in Gen : starter[g].pc \notin {"claim", "wait"}

\* A caller of stop_all is not kept for ever, whatever fails or is cancelled.
StopReturns == \A c \in Caller : caller[c].pc = "stop" ~> caller[c].pc = "idle"
=============================================================================
