------------------------------ MODULE DeepThink ------------------------------
(***************************************************************************)
(* The DeepThink engine (k2do/agent/deepthink.py): several thinkers ask a  *)
(* model in parallel, each with a time limit over its call and the retry   *)
(* on the fallback model, then a judge, with a limit of its own, makes one *)
(* answer of theirs; and what the tool and the chat show of the result.    *)
(*                                                                         *)
(* An action is the code between two awaits of one task, or less of it.  A *)
(* thinker's answer is its length and whether there is more to it than     *)
(* white space; the judge's is the sections it consists of.                *)
(***************************************************************************)
EXTENDS Naturals, Sequences, FiniteSetsExt, SequencesExt

CONSTANTS
    Thinkers,   \* the configured thinkers, in order
    Judge,      \* the judge
    Retriers,   \* choices of the agents that have another model to fall back on
    Responses,    \* a thinker's answers: [size |-> length, blank |-> only white space]
    JudgeTexts, \* answers of the judge: sequences of "reasoning", "final" and
                \* "selected" (the three markers) and "text"
    NoThinker   \* Python's None

ASSUME ThinkAssumption ==
    /\ Thinkers \in Seq(Range(Thinkers)) /\ Len(Thinkers) > 0
    /\ Retriers \subseteq SUBSET (Range(Thinkers) \cup {Judge})
    /\ Judge \notin Range(Thinkers) /\ NoThinker \notin Range(Thinkers)
    /\ Responses \subseteq [size : Nat, blank : BOOLEAN]
    /\ \A y \in Responses : y.size = 0 => y.blank
    /\ \A t \in JudgeTexts : Range(t) \subseteq {"reasoning", "final", "selected", "text"}

VARIABLES
    active,     \* the thinkers that take part: the first max_agents
    fallback,   \* the agents for whom a fallback model is configured that is not
                \* the model they ask first
    think,      \* where think() is: "idle", "thinkers", "judge", "over"
    agents,     \* the thinkers' tasks and the judge: see NoAgent
    withdrawn,  \* the caller of think() has been cancelled
    result      \* what think() returned

thinkVars == <<active, fallback, think, agents, withdrawn, result>>

Agent == Range(Thinkers) \cup {Judge}

\* pc: "absent", "created", "primary" or "fallback" (the model that is asked),
\* "done"; limit: the time limit cancels the call; outcome: "none", "answer",
\* "timeout", "error", "cancelled"; reply: the answer, the empty one of a failure.
NoReply == [size |-> 0, blank |-> TRUE]
NoAgent == [pc |-> "absent", limit |-> FALSE, outcome |-> "none", reply |-> NoReply]

\* source: where the verdict comes from: "judge", "thinker", "notice" (a
\* fixed sentence) or "blank"; "cancelled" if think() was.
NoResult == [source |-> "none", thinker |-> NoThinker]

Configured(n, other) ==
    /\ active = SubSeq(Thinkers, 1, Min({n, Len(Thinkers)}))
    /\ fallback = other

Idle ==
    /\ think = "idle"
    /\ agents = [a \in Agent |-> NoAgent]
    /\ withdrawn = FALSE
    /\ result = NoResult

ThinkInit == Idle /\ \E n \in 1..Len(Thinkers), other \in Retriers : Configured(n, other)
-----------------------------------------------------------------------------
(* A call of a model, with the retry and the time limit *)

Calling(a) == agents[a].pc \in {"primary", "fallback"}
Hit(a) == agents[a].limit \/ withdrawn

CallEnds(a, outcome, reply) ==
    agents' = [agents EXCEPT ![a].pc = "done", ![a].outcome = outcome, ![a].reply = reply]

Others == <<active, fallback, think, withdrawn, result>>

\* The first step of a thinker's task; cancelled before, it never takes one.
Begins(a) ==
    /\ agents[a].pc = "created"
    /\ IF withdrawn THEN CallEnds(a, "cancelled", NoReply) ELSE agents' = [agents EXCEPT ![a].pc = "primary"]
    /\ UNCHANGED Others

Answers(a, reply) ==
    /\ a # Judge /\ Calling(a) /\ ~Hit(a)
    /\ CallEnds(a, "answer", reply)
    /\ UNCHANGED Others

\* The call raises: once more on the fallback model, within the same limit.
Fails(a) ==
    /\ Calling(a) /\ ~Hit(a)
    /\ IF agents[a].pc = "primary" /\ a \in fallback
       THEN agents' = [agents EXCEPT ![a].pc = "fallback"]
       ELSE CallEnds(a, "error", NoReply)
    /\ UNCHANGED Others

\* The time limit of a thinker or the judge, over both calls.
Expires(a) ==
    /\ Calling(a) /\ ~agents[a].limit
    /\ agents' = [agents EXCEPT ![a].limit = TRUE]
    /\ UNCHANGED Others

\* Mutant: a time limit that meets the caller's cancellation hides it.
UnwindsAsTimeout(a) ==
    /\ Calling(a) /\ Hit(a)
    /\ CallEnds(a, IF agents[a].limit THEN "timeout" ELSE "cancelled", NoReply)
    /\ UNCHANGED Others

\* A cancelled call has cleaned up: a timeout, unless the caller is cancelled too.
Unwinds(a) ==
    /\ Calling(a) /\ Hit(a)
    /\ CallEnds(a, IF withdrawn THEN "cancelled" ELSE "timeout", NoReply)
    /\ UNCHANGED Others
-----------------------------------------------------------------------------
(* think() *)

ThinkStarts ==
    /\ think = "idle" /\ ~withdrawn
    /\ think' = "thinkers"
    /\ agents' = [a \in Agent |-> IF a \in Range(active) THEN [NoAgent EXCEPT !.pc = "created"] ELSE NoAgent]
    /\ UNCHANGED <<active, fallback, withdrawn, result>>

\* The caller is cancelled, and with it the thinkers or the judge, at an await
\* (when the judge's call is done, think() is already running).
WithdrawCaller ==
    /\ think \in {"thinkers", "judge"} /\ agents[Judge].pc # "done" /\ ~withdrawn
    /\ withdrawn' = TRUE
    /\ UNCHANGED <<active, fallback, think, agents, result>>

Terminal == \A a \in Range(active) : agents[a].pc = "done"

\* Mutant: the first thinker that ends opens the gate.
GatherFirst ==
    /\ think = "thinkers" /\ (\E a \in Range(active) : agents[a].pc = "done")
    /\ IF withdrawn
       THEN think' = "over" /\ result' = [NoResult EXCEPT !.source = "cancelled"] /\ UNCHANGED agents
       ELSE /\ think' = "judge"
            /\ agents' = [agents EXCEPT ![Judge].pc = "primary"]
            /\ UNCHANGED result
    /\ UNCHANGED <<active, fallback, withdrawn>>

\* gather returns when every thinker has ended; then the judge is asked.
Gather ==
    /\ think = "thinkers" /\ Terminal
    /\ IF withdrawn
       THEN think' = "over" /\ result' = [NoResult EXCEPT !.source = "cancelled"] /\ UNCHANGED agents
       ELSE /\ think' = "judge"
            /\ agents' = [agents EXCEPT ![Judge].pc = "primary"]
            /\ UNCHANGED result
    /\ UNCHANGED <<active, fallback, withdrawn>>

\* Mutant: the first response, not the longest.
BestFirst == active[1]

\* The first of the longest responses (a thinker that failed has an empty one).
Best ==
    LET longest == Max({agents[a].reply.size : a \in Range(active)})
    IN  active[Min({i \in 1..Len(active) : agents[active[i]].reply.size = longest})]

Before(text, marker) == IF Contains(text, marker)
                        THEN SubSeq(text, 1, SelectInSeq(text, LAMBDA s : s = marker) - 1) ELSE text
After(text, marker) == SubSeq(text, SelectInSeq(text, LAMBDA s : s = marker) + 1, Len(text))

\* The part the judge meant for the user: after [FINAL ANSWER] if there is a
\* [JUDGE REASONING] too, and before [SELECTED: ...].
Verdict(text) ==
    Before(IF Contains(text, "reasoning") /\ Contains(text, "final")
           THEN Before(After(text, "final"), "final") ELSE text, "selected")

Returns(source, thinker) ==
    /\ think' = "over"
    /\ result' = [source |-> source, thinker |-> thinker]
    /\ UNCHANGED <<active, fallback, withdrawn>>

\* The judge answers.
JudgeAnswers(text) ==
    /\ Calling(Judge) /\ ~Hit(Judge)
    /\ CallEnds(Judge, "answer", NoReply)
    /\ Returns(IF Verdict(text) = <<>> THEN "blank" ELSE "judge", NoThinker)

\* The judge failed or took too long: the best response instead.
JudgeFailed ==
    /\ agents[Judge].outcome \in {"timeout", "error"}
    /\ IF agents[Best].reply.blank THEN Returns("notice", Best) ELSE Returns("thinker", Best)

\* What follows the judge's failed call, in the same step of its task.
JudgeReturns ==
    /\ think = "judge" /\ agents[Judge].pc = "done"
    /\ \/ JudgeFailed
       \/ agents[Judge].outcome = "cancelled" /\ Returns("cancelled", NoThinker)
    /\ UNCHANGED agents

AgentNext(a) == Begins(a) \/ Fails(a) \/ Expires(a) \/ Unwinds(a) \/ \E y \in Responses : Answers(a, y)

ThinkNext ==
    \/ ThinkStarts \/ WithdrawCaller \/ Gather \/ JudgeReturns
    \/ \E a \in Agent : AgentNext(a)
    \/ \E t \in JudgeTexts : JudgeAnswers(t)

\* The event loop runs what can go on, and every limit expires.  Nothing is
\* assumed of the models: they need not answer.
ThinkFairness ==
    /\ WF_thinkVars(Gather) /\ WF_thinkVars(JudgeReturns)
    /\ \A a \in Agent : WF_thinkVars(Begins(a)) /\ WF_thinkVars(Expires(a)) /\ WF_thinkVars(Unwinds(a))

ThinkSpec == ThinkInit /\ [][ThinkNext]_thinkVars /\ ThinkFairness
-----------------------------------------------------------------------------
(* What becomes of the result *)

\* Without a verdict both consumers fall back on the longest response.  The
\* deepthink tool has a sentence for an empty one, the agent loop shows it.
ShownByTool == CASE result.source # "blank" -> result.source
                 [] agents[Best].reply.size = 0 -> "notice"
                 [] OTHER -> IF agents[Best].reply.blank THEN "blank" ELSE "thinker"

ShownByAgent == CASE result.source # "blank" -> result.source
                  [] OTHER -> IF agents[Best].reply.blank THEN "blank" ELSE "thinker"
-----------------------------------------------------------------------------
(* Properties *)

\* When the longest of the thinkers' responses says anything, the user gets
\* an answer whatever became of the other thinkers and of the judge, and when
\* there is none at all the tool says so (_run_judge, DeepThinkTool.execute).
AnswerWhenever ==
    LET longest == {a \in Range(active) :
                       \A b \in Range(active) : agents[b].reply.size <= agents[a].reply.size}
    IN  think = "over" /\ result.source # "cancelled" =>
            /\ (\A a \in longest : ~agents[a].reply.blank) =>
                   {ShownByTool, ShownByAgent} \subseteq {"judge", "thinker"}
            /\ (\A a \in Range(active) : agents[a].reply.size = 0) => ShownByTool # "blank"

\* No model is asked on behalf of a request that is over, and the judge only
\* after every thinker has ended (deepthink_trace.py: provider_calls_not_drained,
\* judge_started_before_thinkers_terminal).
GatedAndDrained ==
    /\ agents[Judge].pc # "absent" => Terminal
    /\ think = "over" => \A a \in Agent : agents[a].pc \in {"absent", "done"}

Reply == CASE think = "idle" -> "unasked"
           [] think \in {"thinkers", "judge"} -> "open"
           [] OTHER -> IF result.source = "cancelled" THEN "cancelled" ELSE "answer"

Asked == INSTANCE AnswerService WITH reply <- Reply

\* think() is an answer service: one answer, or the caller's cancellation,
\* also when a time limit expires in the middle of it; and it returns, even
\* if no model ever answers (the limits of _run_thinker and _run_judge).
OneReply == Asked!Spec
=============================================================================
