------------------------------ MODULE TraceLab ------------------------------
(***************************************************************************)
(* The DeepThink trace lab (k2do/labs/deepthink_trace.py): the engine runs *)
(* against a scripted provider that plays a model's success, error or      *)
(* silence per call, holds calls at a barrier until all have arrived and   *)
(* logs what happens; then the lab asserts what the log must look like.    *)
(* The scenario "production" is the engine without the lab.                *)
(*                                                                         *)
(* A call is <<agent, "primary" or "fallback">>.                           *)
(***************************************************************************)
EXTENDS DeepThink

CONSTANTS Analyst, Creative, Pragmatist, Observer

ASSUME LabAssumption ==
    /\ Thinkers = <<Analyst, Creative, Pragmatist, Observer>>
    /\ Agent \in Retriers

VARIABLES
    scenario,   \* the lab's scenario
    events      \* the provider's log: <<kind, call>>

labVars == <<thinkVars, scenario, events>>

Primary(actors) == {<<a, "primary">> : a \in actors}

\* What the provider plays: calls that fail, that never answer, that succeed,
\* and those that meet at the barrier.
Failing == CASE scenario = "synthesis" -> Primary({Analyst})
             [] scenario = "judge_fallback" -> {<<Judge, "primary">>, <<Judge, "fallback">>}
             [] OTHER -> {}
Blocking == CASE scenario = "synthesis" -> Primary({Pragmatist})
              [] scenario = "cancellation" -> Primary({Analyst, Creative, Pragmatist})
              [] OTHER -> {}
Succeeding == CASE scenario = "synthesis" -> {<<Analyst, "fallback">>} \cup Primary({Creative, Judge})
                [] scenario = "judge_fallback" -> Primary({Analyst, Creative})
                [] OTHER -> {}
Scripts == Failing \cup Blocking \cup Succeeding
Barrier == CASE scenario = "synthesis" -> {<<Analyst, "fallback">>} \cup Primary({Creative, Pragmatist})
             [] OTHER -> {c \in Scripts : c[1] # Judge}

\* The answers of the scripts: Creative's is the longer one.
ScriptedReply(a) == [size |-> IF a = Creative THEN 2 ELSE 1, blank |-> FALSE]
ScriptedVerdict == <<"reasoning", "text", "final", "text", "selected">>

LabInit ==
    /\ Idle /\ events = <<>>
    /\ \/ scenario \in {"synthesis", "cancellation"} /\ Configured(3, Agent)
       \/ scenario = "judge_fallback" /\ Configured(2, Agent)
       \/ scenario = "production" /\ \E n \in 1..Len(Thinkers), other \in Retriers : Configured(n, other)
-----------------------------------------------------------------------------
(* The scripted provider *)

Kinds(log, kind) == {log[i][2] : i \in {j \in 1..Len(log) : log[j][1] = kind}}

Released(log) == "barrier_released" \in {log[i][1] : i \in 1..Len(log)}

\* chat begins: the call is logged and arrives at the barrier; the last one
\* to arrive releases it.
Started(log, call) ==
    LET begun == Append(log, <<"call_started", call>>)
        here == Append(begun, <<"barrier_arrived", call>>)
    IN  CASE call \notin Barrier -> begun
          [] Kinds(here, "barrier_arrived") = Barrier -> Append(here, <<"barrier_released", Barrier>>)
          [] OTHER -> here

Produces == scenario = "production"

\* The log of a step, which production does not keep.
Log(log) == /\ events' = IF Produces THEN <<>> ELSE log
            /\ UNCHANGED scenario

Call(a) == <<a, agents[a].pc>>

\* A call gets past the barrier.
Passed(a) == Call(a) \notin Barrier \/ Released(events)

LabThinkStarts == ThinkStarts /\ Log(events)

LabBegins(a) ==
    /\ Begins(a)
    /\ Log(IF withdrawn THEN events ELSE Started(events, <<a, "primary">>))

\* An error, and the retry if there is one, in one step.
LabFails(a) ==
    LET failed == Append(events, <<"call_failed", Call(a)>>)
    IN  /\ Produces \/ (Call(a) \in Failing /\ Passed(a))
        /\ Fails(a)
        /\ Log(IF agents'[a].pc = "fallback" THEN Started(failed, <<a, "fallback">>) ELSE failed)

LabAnswers(a, reply) ==
    /\ Produces \/ (Call(a) \in Succeeding /\ Passed(a) /\ reply = ScriptedReply(a))
    /\ Answers(a, reply)
    /\ Log(Append(events, <<"call_succeeded", Call(a)>>))

LabJudgeAnswers(text) ==
    /\ Produces \/ (Call(Judge) \in Succeeding /\ text = ScriptedVerdict)
    /\ JudgeAnswers(text)
    /\ Log(Append(events, <<"call_succeeded", Call(Judge)>>))

\* The lab's time limits are long against everything but a blocked call, and
\* in the cancellation scenario longer than the lab waits.
LabExpires(a) ==
    /\ Produces \/ (scenario # "cancellation" /\ Call(a) \in Blocking /\ Passed(a))
    /\ Expires(a) /\ Log(events)

LabUnwinds(a) == Unwinds(a) /\ Log(Append(events, <<"call_cancelled", Call(a)>>))

\* The lab cancels its own call of think() once the barrier has opened.
LabWithdraw ==
    /\ Produces \/ (scenario = "cancellation" /\ Released(events))
    /\ WithdrawCaller /\ Log(events)

LabGather ==
    /\ Gather
    /\ Log(IF think' = "judge" THEN Started(events, <<Judge, "primary">>) ELSE events)

LabJudgeReturns == JudgeReturns /\ Log(events)

LabNext ==
    \/ LabThinkStarts \/ LabWithdraw \/ LabGather \/ LabJudgeReturns
    \/ \E a \in Agent : LabBegins(a) \/ LabFails(a) \/ LabExpires(a) \/ LabUnwinds(a)
    \/ \E a \in Agent, y \in Responses : LabAnswers(a, y)
    \/ \E t \in JudgeTexts : LabJudgeAnswers(t)

\* As in DeepThink; the lab's provider plays its script, and the lab cancels.
LabFairness ==
    /\ WF_labVars(LabGather) /\ WF_labVars(LabJudgeReturns)
    /\ WF_labVars(~Produces /\ LabWithdraw)
    /\ \A a \in Agent :
          /\ WF_labVars(LabBegins(a)) /\ WF_labVars(LabExpires(a)) /\ WF_labVars(LabUnwinds(a))
          /\ WF_labVars(~Produces /\ LabFails(a))
          /\ \A y \in Responses : WF_labVars(~Produces /\ LabAnswers(a, y))
    /\ \A t \in JudgeTexts : WF_labVars(~Produces /\ LabJudgeAnswers(t))

LabSpec == LabInit /\ [][LabNext]_labVars /\ LabFairness
-----------------------------------------------------------------------------
(* The lab's assertions *)

\* event_index: the place of an event that is logged exactly once, else none.
Place(kind, call) == {i \in 1..Len(events) : events[i] = <<kind, call>>}
Precedes(e, f) == \E i, j \in 1..Len(events) :
                     Place(e[1], e[2]) = {i} /\ Place(f[1], f[2]) = {j} /\ i < j

JudgeGated(ends) == \A e \in ends : Precedes(e, <<"call_started", <<Judge, "primary">>>>)

\* active_calls after the first n events, and its peak.
Open(n) ==
    LET log == SubSeq(events, 1, n)
    IN  Cardinality(Kinds(log, "call_started"))
        - Cardinality(UNION {Kinds(log, k) : k \in {"call_succeeded", "call_failed", "call_cancelled"}})
Peak == Max({Open(n) : n \in 0..Len(events)})

Opened(call) == Precedes(<<"barrier_released", Barrier>>, <<"call_succeeded", call>>)

\* _verify_synthesis_result
ResultSynthesised ==
    /\ result.source = "judge"
    /\ \A a \in {Analyst, Creative} : agents[a].outcome = "answer" /\ agents[a].reply = ScriptedReply(a)
    /\ agents[Pragmatist].outcome = "timeout" /\ agents[Pragmatist].reply = NoReply
    /\ agents[Observer].pc = "absent"

Synthesised ==
    /\ ResultSynthesised
    /\ Peak = 3
    /\ Precedes(<<"call_failed", <<Analyst, "primary">>>>, <<"call_started", <<Analyst, "fallback">>>>)
    /\ Opened(<<Analyst, "fallback">>) /\ Opened(<<Creative, "primary">>)
    /\ JudgeGated({<<"call_succeeded", <<Analyst, "fallback">>>>,
                   <<"call_succeeded", <<Creative, "primary">>>>,
                   <<"call_cancelled", <<Pragmatist, "primary">>>>})

JudgeReplaced ==
    /\ result = [source |-> "thinker", thinker |-> Creative]
    /\ Peak = 2
    /\ JudgeGated({<<"call_succeeded", <<a, "primary">>>> : a \in {Analyst, Creative}})
    /\ Precedes(<<"call_failed", <<Judge, "primary">>>>, <<"call_started", <<Judge, "fallback">>>>)

CancellationDrained ==
    /\ result.source = "cancelled"
    /\ Peak = 3
    /\ \A call \in Kinds(events, "call_started") : call[1] # Judge
    /\ \A a \in {Analyst, Creative, Pragmatist} :
          Precedes(<<"barrier_released", Barrier>>, <<"call_cancelled", <<a, "primary">>>>)

\* What the lab requires of every run holds on every schedule: the calls are
\* drained, the judge waited for all thinkers, every script was played once
\* and nothing else was asked, the barrier opened, and each scenario ends as
\* scripted (assert_drained, assert_scripts_consumed, the _require calls).
AssertionsHold ==
    /\ GatedAndDrained
    /\ think = "over" /\ ~Produces =>
          /\ Kinds(events, "call_started") = Scripts
          /\ \A call \in Scripts : Cardinality(Place("call_started", call)) = 1
          /\ Released(events) /\ Open(Len(events)) = 0
          /\ CASE scenario = "synthesis" -> Synthesised
               [] scenario = "judge_fallback" -> JudgeReplaced
               [] scenario = "cancellation" -> CancellationDrained
=============================================================================
