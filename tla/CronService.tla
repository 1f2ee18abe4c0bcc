----------------------------- MODULE CronService -----------------------------
(***************************************************************************)
(* The cron service (k2do/cron/service.py): the job store, the timer task  *)
(* that sleeps until the next due job and runs what is due, the calls that *)
(* change the jobs and re-arm the timer, and start, stop and aclose with   *)
(* their shared drain of the timer.                                        *)
(*                                                                         *)
(* Everything runs in one event loop: an action is the code between two    *)
(* awaits.  Times are natural numbers, 0 is Python's None (next_run_at_ms  *)
(* is only ever tested for truth).  A job's callback is suspended while    *)
(* the agent works on it; cancelled there, the timer task first unwinds    *)
(* (the callback cleans up) and then ends, or goes on if the callback      *)
(* turns its cancellation into an error or an answer.                      *)
(***************************************************************************)
EXTENDS Naturals, Sequences, FiniteSets, FiniteSetsExt, SequencesExt

CONSTANTS
    Job,        \* job ids
    OneTime,    \* the jobs with an "at" schedule, the others repeat
    Delete,     \* the one-time jobs with delete_after_run
    At,         \* the time of the one-time jobs
    Interval,   \* the interval of the repeating jobs
    Timer,      \* identities of timer tasks
    Caller,     \* the tasks that call start, aclose and run_job
    Overlap,    \* who uses the service while a job executes: another task,
                \* the job's own agent turn, a run_job
    MaxTime,    \* bound on the clock
    MaxCalls,   \* bound on calls of the service
    MaxCancels, \* bound on cancellations of its callers
    None        \* Python's None

ASSUME ConstantsAssumption ==
    /\ Delete \subseteq OneTime /\ OneTime \subseteq Job
    /\ At \in Nat \ {0} /\ Interval \in Nat \ {0}
    /\ None \notin Timer \cup Job /\ Timer \cap Caller = {}
    /\ Overlap \subseteq {"task", "turn", "manual"}
    /\ IsFiniteSet(Job)
    /\ MaxTime \in Nat \ {0} /\ MaxCalls \in Nat /\ MaxCancels \in Nat

VARIABLES
    now,        \* the clock
    jobs,       \* the store, also on disk: whether a job is there, enabled, its next run
    running,    \* _running
    generation, \* _stop_generation
    timer,      \* _timer_task
    timers,     \* every timer task: where it is and what it was asked
    requested,  \* _cancel_requested_task
    closer,     \* _close_task, named by the timer it drains
    drains,     \* the drain tasks, by timer
    callers,    \* the calls of start, aclose and run_job under way
    \* history
    calls, cancels, \* counters
    base,       \* the time a repeating job counts its intervals from
    closed,     \* an aclose has returned and nobody called start since
    overlapped  \* jobs were changed, or one run by hand, while one executed

service == <<running, generation, timer, timers, requested, closer, drains>>
history == <<calls, cancels, base, closed, overlapped>>
vars == <<now, jobs, service, callers, history>>

Finished == {"done", "cancelled"}
NoTimer == [pc |-> "absent", wake |-> 0, due |-> <<>>, start |-> 0, cancel |-> FALSE,
            cancelling |-> FALSE]
NoDrain == [pc |-> "none", expected |-> FALSE, error |-> FALSE]
NoCall == [pc |-> "idle", drain |-> None, gen |-> 0, job |-> None, start |-> 0, cancel |-> FALSE,
           absorbed |-> FALSE, result |-> {}]
Fresh == [here |-> FALSE, used |-> FALSE, enabled |-> FALSE, next |-> 0]

Init ==
    /\ now = 1
    /\ jobs = [j \in Job |-> Fresh]
    /\ running = FALSE /\ generation = 0
    /\ timer = None /\ timers = [t \in Timer |-> NoTimer]
    /\ requested = None
    /\ closer = None /\ drains = [t \in Timer |-> NoDrain]
    /\ callers = [c \in Caller |-> NoCall]
    /\ calls = 0 /\ cancels = 0
    /\ base = [j \in Job |-> 0]
    /\ closed = FALSE /\ overlapped = FALSE
-----------------------------------------------------------------------------
(* Schedules *)

\* _compute_next_run
NextRun(j, t) == IF j \in OneTime THEN (IF At > t THEN At ELSE 0) ELSE t + Interval

\* Mutant: a slot that is just due counts as a future one.
NextSlotDue(anchor, t) ==
    IF anchor > t THEN anchor + Interval
    ELSE anchor + Interval * Max({1, (t - anchor + Interval - 1) \div Interval})

\* The first multiple of the interval after the anchor that is in the future
\* and at least one interval away from the anchor.
NextSlot(anchor, t) ==
    IF anchor > t THEN anchor + Interval
    ELSE anchor + Interval * ((t - anchor) \div Interval + 1)

\* The jobs that have a next run.
Wanted(js) == {j \in Job : js[j].here /\ js[j].enabled /\ js[j].next # 0}

\* The jobs to run now; _on_timer takes them in the order of the store.
Due(js) == {j \in Wanted(js) : js[j].next <= now}

\* What _execute_job does to its job when the callback has ended.
AfterRun(js, j, start) ==
    CASE j \in Delete -> [js EXCEPT ![j].here = FALSE]
      [] j \in OneTime \ Delete -> [js EXCEPT ![j].enabled = FALSE, ![j].next = 0]
      [] OTHER -> [js EXCEPT ![j].next = NextSlot(IF @ = 0 THEN start ELSE @, now)]
-----------------------------------------------------------------------------
(* Timer tasks *)

Cancelled(tms, t) ==
    IF t = None \/ tms[t].pc \in Finished THEN tms
    ELSE [tms EXCEPT ![t].cancel = TRUE, ![t].cancelling = TRUE]

\* An identity nobody refers to any more may be used for a new task.
Reusable(tms, t) ==
    \/ tms[t].pc = "absent"
    \/ /\ tms[t].pc \in Finished
       /\ t \notin {timer, requested, closer}
       /\ drains[t].pc = "none"

\* Mutant: the timer sleeps until the last job is due.
ArmLate(run, js, tms, cur) ==
    LET kept == IF timer = cur THEN tms ELSE Cancelled(tms, timer)
        times == {js[j].next : j \in Wanted(js)}
    IN  IF run /\ times # {}
        THEN \E t \in Timer :
                /\ Reusable(kept, t) /\ t # cur
                /\ timers' = [kept EXCEPT ![t] = [NoTimer EXCEPT !.pc = "armed",
                                                                 !.wake = Max({now, Max(times)})]]
                /\ timer' = t
        ELSE timers' = kept /\ UNCHANGED timer

\* _arm_timer, called in task cur with the jobs js: the timer is cancelled
\* unless it is the calling task, and replaced if there is a next run.
Arm(run, js, tms, cur) ==
    LET kept == IF timer = cur THEN tms ELSE Cancelled(tms, timer)
        times == {js[j].next : j \in Wanted(js)}
    IN  IF run /\ times # {}
        THEN \E t \in Timer :
                /\ Reusable(kept, t) /\ t # cur
                /\ timers' = [kept EXCEPT ![t] = [NoTimer EXCEPT !.pc = "armed",
                                                                 !.wake = Max({now, Min(times)})]]
                /\ timer' = t
        ELSE timers' = kept /\ UNCHANGED timer

\* The sleep is over: _on_timer collects the due jobs and starts the first.
TimerFires(t) ==
    /\ timers[t].pc = "armed" /\ ~timers[t].cancel /\ now >= timers[t].wake
    /\ CASE ~running ->
              timers' = [timers EXCEPT ![t].pc = "done"] /\ UNCHANGED timer
         [] running /\ Due(jobs) = {} ->
              Arm(running, jobs, [timers EXCEPT ![t].pc = "done"], t)
         [] running /\ Due(jobs) # {} ->
              /\ \E order \in SetToSeqs(Due(jobs)) :
                    timers' = [timers EXCEPT ![t].pc = "job", ![t].due = order, ![t].start = now]
              /\ UNCHANGED timer
    /\ UNCHANGED <<now, jobs, running, generation, requested, closer, drains, callers, history>>

\* Mutant: the timer is not armed again.
NextDueUnarmed(t, js) ==
    /\ timers' = [timers EXCEPT ![t].pc = IF Len(timers[t].due) > 1 THEN "job" ELSE "done",
                                ![t].due = Tail(@)]
    /\ UNCHANGED timer

\* On to the next due job; after the last one the timer is armed again.
NextDue(t, js) ==
    LET rest == Tail(timers[t].due)
    IN  IF rest # <<>>
        THEN /\ timers' = [timers EXCEPT ![t].pc = "job", ![t].due = rest, ![t].start = now]
             /\ UNCHANGED timer
        ELSE Arm(running, js, [timers EXCEPT ![t].pc = "done", ![t].due = <<>>], t)

\* The callback returns or fails: the job is rescheduled; then the next due
\* job follows, or the end of the timer.  A callback that was cancelled may end
\* this way too, if its clean-up fails: the error replaces the cancellation.
JobEnds(t) ==
    LET j == Head(timers[t].due)
        js == IF jobs[j].here THEN AfterRun(jobs, j, timers[t].start) ELSE jobs
    IN  /\ timers[t].pc \in {"job", "unwinding"} /\ ~timers[t].cancel
        /\ jobs' = js
        /\ NextDue(t, js)
        /\ UNCHANGED <<now, running, generation, requested, closer, drains, callers, calls, cancels,
                       base, closed, overlapped>>

\* A cancellation reaches the sleeping timer, the running callback or its
\* clean-up.
TimerCancelled(t) ==
    /\ timers[t].pc \in {"armed", "job", "unwinding"} /\ timers[t].cancel
    /\ timers' = [timers EXCEPT ![t].pc = IF @ = "armed" THEN "cancelled" ELSE "unwinding",
                                ![t].cancel = FALSE]
    /\ UNCHANGED <<now, jobs, running, generation, timer, requested, closer, drains, callers, history>>

TimerUnwound(t) ==
    /\ timers[t].pc = "unwinding"
    /\ timers' = [timers EXCEPT ![t].pc = "cancelled", ![t].due = <<>>]
    /\ UNCHANGED <<now, jobs, running, generation, timer, requested, closer, drains, callers, history>>
-----------------------------------------------------------------------------
(* Changing jobs *)

Executing == {t \in Timer : timers[t].pc \in {"job", "unwinding"}}
             \cup {c \in Caller : callers[c].pc = "manual"}

\* Who may call now: another task, or the agent turn of the job that the
\* timer task t is executing (the cron tool).
From(cur) ==
    /\ calls < MaxCalls
    /\ calls' = calls + 1
    /\ overlapped' = (overlapped \/ Executing # {})
    /\ \/ cur = None /\ ("task" \in Overlap \/ Executing = {})
       \/ cur # None /\ "turn" \in Overlap /\ timers[cur].pc = "job" /\ ~timers[cur].cancel

Change(js, cur) ==
    /\ From(cur)
    /\ jobs' = js
    /\ Arm(running, js, timers, cur)
    /\ UNCHANGED <<now, running, generation, requested, closer, drains, callers, cancels, closed>>

AddJob(cur, j) ==
    /\ ~jobs[j].used
    /\ Change([jobs EXCEPT ![j] = [here |-> TRUE, used |-> TRUE, enabled |-> TRUE,
                                   next |-> NextRun(j, now)]], cur)
    /\ base' = [base EXCEPT ![j] = now]

RemoveJob(cur, j) ==
    /\ jobs[j].here
    /\ Change([jobs EXCEPT ![j].here = FALSE], cur)
    /\ UNCHANGED base

EnableJob(cur, j, enabled) ==
    /\ jobs[j].here
    /\ Change([jobs EXCEPT ![j].enabled = enabled, ![j].next = IF enabled THEN NextRun(j, now) ELSE 0],
              cur)
    /\ base' = [base EXCEPT ![j] = now]

Call(c, frame) == callers' = [callers EXCEPT ![c] = frame]

\* run_job: the callback runs in the caller's task.
RunJob(c, j) ==
    /\ "manual" \in Overlap /\ callers[c].pc = "idle" /\ jobs[j].here
    /\ From(None)
    /\ Call(c, [NoCall EXCEPT !.pc = "manual", !.job = j, !.start = now])
    /\ UNCHANGED <<now, jobs, service, cancels, base, closed>>

\* The callback ends, also with an error in place of a cancellation.
RunJobEnds(c) ==
    LET j == callers[c].job
        js == IF jobs[j].here THEN AfterRun(jobs, j, callers[c].start) ELSE jobs
    IN  /\ callers[c].pc = "manual"
        /\ jobs' = js
        /\ Arm(running, js, timers, None)
        /\ overlapped' = (overlapped \/ Executing # {c})
        /\ Call(c, NoCall)
        /\ UNCHANGED <<now, running, generation, requested, closer, drains, calls, cancels, base, closed>>

\* The caller of run_job is cancelled: the job stays as it is.
RunJobCancelled(c) ==
    /\ callers[c].pc = "manual" /\ callers[c].cancel
    /\ Call(c, [NoCall EXCEPT !.result = {"own"}])
    /\ UNCHANGED <<now, jobs, service, history>>
-----------------------------------------------------------------------------
(* start, stop and aclose *)

TimerDone == timer # None /\ timers[timer].pc \in Finished
AlreadyRunning == running /\ ~TimerDone

\* _request_task_cancel
RequestCancel(t) ==
    IF t # None /\ timers[t].pc \notin Finished /\ ~timers[t].cancelling /\ requested # t
    THEN timers' = Cancelled(timers, t) /\ requested' = t
    ELSE UNCHANGED <<timers, requested>>

\* start once nothing is left to drain: the next runs are computed afresh.
StartBody ==
    LET js == [j \in Job |-> IF jobs[j].here /\ jobs[j].enabled
                             THEN [jobs[j] EXCEPT !.next = NextRun(j, now)] ELSE jobs[j]]
    IN  /\ running' = TRUE
        /\ closed' = FALSE
        /\ jobs' = js
        /\ base' = [j \in Job |-> IF jobs[j].here /\ jobs[j].enabled THEN now ELSE base[j]]
        /\ Arm(TRUE, js, timers, None)

\* _ensure_close_task: join the drain of the timer, or begin one.
JoinDrain(c, frame) ==
    IF closer # None
    THEN /\ Call(c, [frame EXCEPT !.drain = closer])
         /\ UNCHANGED <<closer, drains>>
    ELSE /\ closer' = timer
         /\ drains' = [drains EXCEPT ![timer] = [NoDrain EXCEPT !.pc = "created"]]
         /\ Call(c, [frame EXCEPT !.drain = timer])

CallStarts(c) ==
    /\ callers[c].pc = "idle"
    /\ calls < MaxCalls
    /\ calls' = calls + 1

Start(c) ==
    /\ CallStarts(c) /\ ~AlreadyRunning
    /\ IF closer = None /\ timer = None
       THEN /\ StartBody
            /\ Call(c, NoCall)
            /\ UNCHANGED <<closer, drains>>
       ELSE /\ JoinDrain(c, [NoCall EXCEPT !.pc = "start", !.gen = generation])
            /\ running' = (running /\ closer # None)
            /\ UNCHANGED <<jobs, timer, timers, base, closed>>
    /\ UNCHANGED <<now, generation, requested, cancels, overlapped>>

Stop ==
    /\ calls < MaxCalls /\ calls' = calls + 1
    /\ generation' = generation + 1
    /\ running' = FALSE
    /\ RequestCancel(timer)
    /\ UNCHANGED <<now, jobs, timer, closer, drains, callers, cancels, base, closed, overlapped>>

AClose(c) ==
    /\ CallStarts(c)
    /\ generation' = generation + 1
    /\ running' = FALSE
    /\ RequestCancel(timer)
    /\ IF closer = None /\ timer = None
       THEN /\ closed' = TRUE
            /\ Call(c, NoCall)
            /\ UNCHANGED <<closer, drains>>
       ELSE /\ JoinDrain(c, [NoCall EXCEPT !.pc = "aclose", !.gen = generation + 1])
            /\ UNCHANGED closed
    /\ UNCHANGED <<now, jobs, timer, cancels, base, overlapped>>

\* The drain task's first step.
DrainStart(t) ==
    /\ drains[t].pc = "created"
    /\ RequestCancel(t)
    /\ drains' = [drains EXCEPT ![t].pc = "waiting", ![t].expected = (requested' = t)]
    /\ UNCHANGED <<now, jobs, running, generation, timer, closer, callers, history>>

\* Mutant: the drain does not wait for the timer.
DrainEndsEarly(t) ==
    /\ drains[t].pc = "waiting"
    /\ drains' = [drains EXCEPT ![t].pc = "done"]
    /\ timer' = IF timer = t THEN None ELSE timer
    /\ requested' = IF requested = t THEN None ELSE requested
    /\ UNCHANGED <<now, jobs, running, generation, timers, closer, callers, history>>

\* The timer has ended: a cancellation nobody here requested is an error.
DrainEnds(t) ==
    /\ drains[t].pc = "waiting" /\ timers[t].pc \in Finished
    /\ drains' = [drains EXCEPT ![t].pc = "done",
                               ![t].error = (timers[t].pc = "cancelled" /\ ~drains[t].expected)]
    /\ timer' = IF timer = t THEN None ELSE timer
    /\ requested' = IF requested = t THEN None ELSE requested
    /\ UNCHANGED <<now, jobs, running, generation, timers, closer, callers, history>>

Awaiting(c) == callers[c].pc \in {"start", "aclose"}

\* A caller is cancelled while it waits for the drain: it goes on waiting.
CallerAbsorbs(c) ==
    /\ Awaiting(c) /\ callers[c].cancel
    /\ callers' = [callers EXCEPT ![c].cancel = FALSE, ![c].absorbed = TRUE]
    /\ UNCHANGED <<now, jobs, service, history>>

\* The error the drain ended with is a CancelledError, also for its callers.
Raised(c) == (IF callers[c].absorbed THEN {"own"} ELSE {})
             \cup (IF drains[callers[c].drain].error THEN {"timer"} ELSE {})

Over(c) == drains[callers[c].drain].pc = "done"

Forget(t) == closer' = IF closer = t THEN None ELSE closer

\* The drain is over; a start that nothing disturbed goes on.
CallerResumes(c) ==
    LET f == callers[c]
        goesOn == f.pc = "start" /\ Raised(c) = {} /\ generation = f.gen /\ ~AlreadyRunning
    IN  /\ Awaiting(c) /\ ~f.cancel /\ Over(c)
        /\ Forget(f.drain)
        /\ drains' = IF \E x \in Caller \ {c} : callers[x].drain = f.drain
                     THEN drains ELSE [drains EXCEPT ![f.drain] = NoDrain]
        /\ Call(c, [NoCall EXCEPT !.result = Raised(c)])
        /\ IF goesOn THEN StartBody
           ELSE /\ closed' = (closed \/ (f.pc = "aclose" /\ generation = f.gen /\ ~running))
                /\ UNCHANGED <<running, jobs, base, timer, timers>>
        /\ UNCHANGED <<now, generation, requested, calls, cancels, overlapped>>

\* Somebody cancels a caller.
CancelCaller(c) ==
    /\ callers[c].pc # "idle" /\ ~callers[c].cancel
    /\ cancels < MaxCancels /\ cancels' = cancels + 1
    /\ callers' = [callers EXCEPT ![c].cancel = TRUE]
    /\ UNCHANGED <<now, jobs, service, calls, base, closed, overlapped>>

Tick ==
    /\ now < MaxTime
    /\ now' = now + 1
    /\ UNCHANGED <<jobs, service, callers, history>>

\* The callers whose drain is over are resumed within the next passes of the
\* event loop, one after the other; a timer armed meanwhile needs longer than
\* that to end its sleep, so that they find it pending.
Woken == {c \in Caller : Awaiting(c) /\ Over(c)}

TimerNext(t) ==
    /\ t = timer => Woken = {}
    /\ TimerFires(t) \/ JobEnds(t) \/ TimerCancelled(t) \/ TimerUnwound(t)
DrainNext(t) == DrainStart(t) \/ DrainEnds(t)
CallerNext(c) == RunJobEnds(c) \/ RunJobCancelled(c) \/ CallerAbsorbs(c) \/ CallerResumes(c)

\* The calls that change jobs, from another task or from an executing job.
Changes ==
    \E cur \in Timer \cup {None}, j \in Job :
        AddJob(cur, j) \/ RemoveJob(cur, j) \/ \E enabled \in BOOLEAN : EnableJob(cur, j, enabled)

Next ==
    \/ \E t \in Timer : TimerNext(t) \/ DrainNext(t)
    \/ \E c \in Caller : CallerNext(c) \/ Start(c) \/ AClose(c) \/ CancelCaller(c)
                           \/ \E j \in Job : RunJob(c, j)
    \/ Changes \/ Stop \/ Tick

Spec == Init /\ [][Next]_vars

\* The event loop runs what can go on, callbacks end, and time passes.
Fairness ==
    /\ \A t \in Timer : WF_vars(TimerNext(t)) /\ WF_vars(DrainNext(t))
    /\ \A c \in Caller : WF_vars(CallerNext(c))
    /\ WF_vars(Tick)

FairSpec == Spec /\ Fairness
-----------------------------------------------------------------------------
(* Properties *)

Types ==
    /\ now \in 1..MaxTime
    /\ jobs \in [Job -> [here : BOOLEAN, used : BOOLEAN, enabled : BOOLEAN, next : Nat]]
    /\ running \in BOOLEAN /\ generation \in Nat
    /\ timer \in Timer \cup {None} /\ requested \in Timer \cup {None}
    /\ closer \in Timer \cup {None}
    /\ timers \in [Timer -> [pc : {"absent", "armed", "job", "unwinding"} \cup Finished, wake : Nat,
                             due : Seq(Job), start : Nat, cancel : BOOLEAN, cancelling : BOOLEAN]]
    /\ drains \in [Timer -> [pc : {"none", "created", "waiting", "done"}, expected : BOOLEAN,
                             error : BOOLEAN]]
    /\ callers \in [Caller -> [pc : {"idle", "start", "aclose", "manual"}, drain : Timer \cup {None},
                               gen : Nat, job : Job \cup {None}, start : Nat, cancel : BOOLEAN,
                               absorbed : BOOLEAN, result : SUBSET {"own", "timer"}]]
    /\ calls \in 0..MaxCalls /\ cancels \in 0..MaxCancels
    /\ base \in [Job -> Nat]
    /\ closed \in BOOLEAN /\ overlapped \in BOOLEAN

\* A drain that somebody waits for, or may join, is there.
TypeOK ==
    /\ Types
    /\ \A t \in {closer} \cup {callers[c].drain : c \in Caller} : t # None => drains[t].pc # "none"

\* When aclose has returned and nobody has started the service since, no
\* timer executes a job, cleans up after one or will execute one (service.py:
\* "Cancel and await the active timer before returning").  A job change while
\* a job executes takes its timer out of reach: that case is left out.
ClosedQuiet ==
    closed /\ ~overlapped =>
        \A t \in Timer : /\ timers[t].pc \notin {"job", "unwinding"}
                         /\ timers[t].pc = "armed" => timers[t].cancel

\* A running service never sleeps past the next run of a job: some timer
\* wakes up for it in time, or is executing and will look again
\* (_arm_timer, _on_timer).
Covered ==
    running => \A j \in Wanted(jobs) : \E t \in Timer :
        /\ ~timers[t].cancel
        /\ \/ timers[t].pc = "armed" /\ timers[t].wake <= Max({now, jobs[j].next})
           \/ timers[t].pc = "job"

\* Whenever a job gets another next run it lies in the future, even if the
\* execution took longer than an interval or ended just when the next slot was
\* due; and that of a repeating job is a whole number of intervals after the
\* time it counts from, whoever runs it (_execute_job: "to avoid drift").
NoDrift ==
    [][\A j \in Wanted(jobs') : jobs'[j].next # jobs[j].next =>
           /\ jobs'[j].next > now
           /\ j \notin OneTime => /\ jobs'[j].next > base'[j]
                                 /\ (jobs'[j].next - base'[j]) % Interval = 0]_vars

\* A job that is due is carried out, or disabled, removed or rescheduled,
\* unless the service is stopped.
DueRuns ==
    \A j \in Job : (running /\ j \in Due(jobs)) ~> (~running \/ j \notin Due(jobs))

=============================================================================
