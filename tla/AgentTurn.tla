------------------------------ MODULE AgentTurn ------------------------------
(***************************************************************************)
(* How a message becomes a turn (k2do/agent/loop.py: _process_message and  *)
(* the routes behind it), with the loop of model calls and tools           *)
(* (_run_agent_loop), the retries of a model call (_chat_with_fallback),   *)
(* the isolated /mcp route, and the /refine rounds (k2do/agent/refine.py). *)
(*                                                                         *)
(* Turns run in several tasks of one event loop: the agent loop, a cron    *)
(* job, the heartbeat.  An action is what one of them does between two     *)
(* awaits.  The tools are shared: the chat they act for is set by a turn   *)
(* that begins and read by a tool that runs.                               *)
(*                                                                         *)
(* A model's reply is a sequence of tool calls, one call written into the  *)
(* text, or a text: a "plan" or an "answer".  DeepThink is the abstract    *)
(* AnswerService of which module DeepThink is an implementation.           *)
(***************************************************************************)
EXTENDS Naturals, Sequences, FiniteSetsExt, SequencesExt

CONSTANTS
    Worker,         \* the tasks that process messages
    Chat,           \* the chats (channel and chat id)
    Addressed,      \* tools that act for the chat in the shared context: message, spawn, cron
    Plain,          \* other concrete tools: files, shell, web, or a name that does not exist
    Reasoning,      \* "deepthink" and "refine"
    Mcp,            \* names with the shape of an MCP tool's
    Replies,        \* the replies with native tool calls: sequences of names
    MaxIterations,  \* max_iterations
    Attempts,       \* two per model: requested, simple, think (without repetition)
    MaxTurns,       \* bound on turns
    MaxCatalogs,    \* bound on publications of an MCP catalog
    None            \* Python's None

ASSUME ConstantsAssumption ==
    /\ "deepthink" \in Reasoning
    /\ MaxIterations \in Nat \ {0} /\ Attempts \in Nat \ {0}
    /\ MaxTurns \in Nat /\ MaxCatalogs \in Nat
    /\ None \notin Chat
    /\ Replies \subseteq Seq(Addressed \cup Plain \cup Reasoning \cup Mcp) \ {<<>>}

VARIABLES
    turn,     \* per worker: its turn, see NoTurn
    context,  \* the chat the message, spawn and cron tools act for
    catalog,  \* the published MCP catalog, 0 for none
    catalogs, \* number of catalogs published so far
    started,  \* number of turns started
    last      \* what the last step did to the outside

vars == <<turn, context, catalog, catalogs, started, last>>

Tool == Addressed \cup Plain \cup Reasoning \cup Mcp
Concrete == Tool \ (Reasoning \cup Mcp)

\* pc: "think", "refine", "model" (of the loop), "tool"; "snapshot", "ask",
\* "recheck", "call", "synthesis" (of /mcp).  The loop's variables: allow and
\* limit for reasoning tools, iter, fails of the current call, pending calls,
\* reasoning (calls so far), concrete (a concrete tool since), used, prompted.
\* pass is 2 in the retry of a DeepThink turn, ran is what the turn executed,
\* pressed how often it was told to act, snapshot the catalog of /mcp.
NoTurn == [pc |-> "idle", route |-> None, chat |-> None, action |-> FALSE,
           allow |-> TRUE, limit |-> 3, iter |-> 0, fails |-> 0, pending |-> <<>>, tool |-> None,
           reasoning |-> 0, concrete |-> TRUE, used |-> <<>>, prompted |-> FALSE,
           pass |-> 1, earlier |-> <<>>, ran |-> <<>>, pressed |-> 0, round |-> 1, snapshot |-> 0]

Nothing == [kind |-> "nothing"]

Init ==
    /\ turn = [w \in Worker |-> NoTurn]
    /\ context = None
    /\ catalog = 0 /\ catalogs = 0
    /\ started = 0
    /\ last = Nothing

Become(w, t) == turn' = [turn EXCEPT ![w] = t]
-----------------------------------------------------------------------------
(* _process_message *)

Starts(w) ==
    /\ turn[w].pc = "idle" /\ started < MaxTurns
    /\ started' = started + 1
    /\ last' = Nothing
    /\ UNCHANGED <<catalog, catalogs>>

NewTurn(pc, route, c, action) ==
    [NoTurn EXCEPT !.pc = pc, !.route = route, !.chat = c, !.action = action]

\* _set_tool_context: also for the tools of the turns under way, which from now
\* on act for this chat.
SetContext(w, c, t) == context' = c /\ Become(w, t)

\* _run_agent_loop begins.
LoopOf(t, allow, limit) ==
    [t EXCEPT !.pc = "model", !.allow = allow, !.limit = limit, !.iter = 1, !.fails = 0, !.pending = <<>>, !.tool = None,
              !.reasoning = 0, !.concrete = TRUE, !.used = <<>>, !.prompted = FALSE]

\* A message that is routed: a simple turn, or DeepThink first.
RoutedStarts(w, c, route, action) ==
    /\ Starts(w)
    /\ SetContext(w, c, IF route = "deepthink" THEN NewTurn("think", route, c, action)
                        ELSE LoopOf(NewTurn("model", route, c, action), TRUE, 3))

\* The announcement of a subagent: a turn in the chat it came from.
SystemStarts(w, c) ==
    /\ Starts(w)
    /\ SetContext(w, c, LoopOf(NewTurn("model", "system", c, FALSE), TRUE, 3))

\* /deepthink, /refine and /mcp run no tool that acts for a chat, and do not
\* touch the tools' context.
CommandStarts(w, route) ==
    /\ Starts(w)
    /\ Become(w, NewTurn(CASE route = "forced" -> "think"
                           [] route = "refine" -> "refine"
                           [] route = "mcp" -> "snapshot", route, None, FALSE))
    /\ UNCHANGED context

Shared == <<context, catalog, catalogs, started>>

\* The turn is over: its answer, and what the history says it used.
Ends(w, tools, answer) ==
    /\ Become(w, NoTurn)
    /\ last' = [kind |-> "record", route |-> turn[w].route, action |-> turn[w].action, tools |-> tools,
                ran |-> turn[w].ran, pressed |-> turn[w].pressed, answer |-> answer]

\* Over without a record: an error answer, an /mcp answer, or a cancellation.
EndsUnrecorded(w) == Become(w, NoTurn) /\ last' = Nothing

Goes(w, t) == Become(w, t) /\ last' = Nothing
-----------------------------------------------------------------------------
(* Running tools *)

ConcreteIn(used) == \E i \in 1..Len(used) : used[i] \notin Reasoning

\* A call the loop answers itself: an MCP name, or a reasoning tool that is
\* off, at its limit, or not followed by a concrete one yet.
Blocked(t, name) ==
    \/ name \in Mcp
    \/ /\ name \in Reasoning
       /\ \/ ~t.allow
          \/ t.reasoning >= Max({1, t.limit})
          \/ t.reasoning > 0 /\ ~t.concrete

\* The call that runs now, and those after it.
Runs(t, name, rest) ==
    [t EXCEPT !.pc = "tool", !.tool = name, !.pending = rest, !.fails = 0,
              !.reasoning = IF name \in Reasoning THEN @ + 1 ELSE @,
              !.concrete = IF name \in Reasoning THEN FALSE ELSE @,
              !.used = Append(@, name), !.ran = Append(@, name)]

\* What an executing tool does to the outside.
Effect(t, name) ==
    IF name \in Addressed
    THEN [kind |-> "act", chat |-> t.chat, to |-> context]
    ELSE Nothing

\* DeepThink is named first, and once.
DeepThinkFirst(used) == <<"deepthink">> \o SelectSeq(used, LAMBDA n : n # "deepthink")

\* What the history says a turn used, over both passes: nothing for a system
\* turn.
Recorded(t) ==
    LET all == t.earlier \o t.used
    IN  CASE t.route = "simple" -> all
          [] t.route = "deepthink" -> DeepThinkFirst(all)
          [] t.route = "system" -> <<>>

\* How the loop of a turn ends, with a final text or without: a DeepThink turn
\* that should have acted and did not gets a second pass without reasoning
\* tools; else the turn is recorded.
LoopEnds(w, t, answer) ==
    IF /\ t.route = "deepthink" /\ t.pass = 1 /\ t.action /\ ~ConcreteIn(t.used)
    THEN Goes(w, [LoopOf(t, FALSE, 3) EXCEPT !.pass = 2, !.earlier = t.used, !.pressed = @ + 1])
    ELSE Ends(w, Recorded(t), answer)

\* The next iteration, if there is one left.
Continues(w, t) ==
    IF t.iter < MaxIterations
    THEN Goes(w, [t EXCEPT !.pc = "model", !.iter = @ + 1, !.fails = 0, !.pending = <<>>, !.tool = None])
    ELSE LoopEnds(w, t, "none")

\* The calls of a reply in order: blocked ones are answered on the spot, the
\* first other one runs.
Processes(w, t, calls) ==
    LET i == SelectInSeq(calls, LAMBDA n : ~Blocked(t, n))
    IN  IF i = 0 THEN Continues(w, t)
        ELSE /\ Become(w, Runs(t, calls[i], SubSeq(calls, i + 1, Len(calls))))
             /\ last' = Effect(t, calls[i])

\* The tool returns, its result or an error, and the rest of the calls follow.
ToolReturns(w) ==
    LET t == [turn[w] EXCEPT !.concrete = @ \/ turn[w].tool \notin Reasoning]
    IN  /\ turn[w].pc = "tool"
        /\ Processes(w, t, t.pending)
        /\ UNCHANGED Shared
-----------------------------------------------------------------------------
(* _run_agent_loop: the model's reply *)

ModelCalls(w, calls) ==
    /\ turn[w].pc = "model"
    /\ Processes(w, turn[w], calls)
    /\ UNCHANGED Shared

\* Mutant: a call written into the text is not paced.
ModelCallsInlineUnpaced(w, name) ==
    /\ turn[w].pc = "model"
    /\ IF name \in Mcp THEN Continues(w, turn[w])
       ELSE Become(w, Runs(turn[w], name, <<>>)) /\ last' = Effect(turn[w], name)
    /\ UNCHANGED Shared

\* A call written into the text, under the same rules.
ModelCallsInline(w, name) ==
    /\ turn[w].pc = "model"
    /\ Processes(w, turn[w], <<name>>)
    /\ UNCHANGED Shared

\* Whether _run_agent_loop was asked to require concrete tools.
Required(t) == t.action /\ t.pass = 1

\* Mutant: only a plan of DeepThink's is held against the model.
MustActOnPlan(t, text) ==
    ~t.prompted /\ ~ConcreteIn(t.used) /\ text = "plan" /\ Contains(t.used, "deepthink")

\* A text that is no final answer yet: nothing was done of what was asked, or
\* DeepThink was used only to plan.  Said once.
MustAct(t, text) ==
    /\ ~t.prompted /\ ~ConcreteIn(t.used)
    /\ \/ Required(t)
       \/ text = "plan" /\ Contains(t.used, "deepthink")

ModelAnswers(w, text) ==
    LET t == turn[w]
    IN  /\ t.pc = "model"
        /\ IF MustAct(t, text)
           THEN Continues(w, [t EXCEPT !.prompted = TRUE, !.pressed = @ + 1])
           ELSE LoopEnds(w, t, "text")
        /\ UNCHANGED Shared

\* One attempt at a model fails.  After the last one the turn fails; the /mcp
\* route has an answer for that.
ModelFails(w) ==
    /\ turn[w].pc \in {"model", "ask", "synthesis"}
    /\ IF turn[w].fails + 1 < Attempts
       THEN Goes(w, [turn[w] EXCEPT !.fails = @ + 1])
       ELSE EndsUnrecorded(w)
    /\ UNCHANGED Shared
-----------------------------------------------------------------------------
(* DeepThink and refinement *)

\* DeepThink answers: the command ends, a turn goes on to execute.
ThinkReturns(w) ==
    /\ turn[w].pc = "think"
    /\ IF turn[w].route = "forced" THEN Ends(w, <<"deepthink">>, "text")
       ELSE Goes(w, LoopOf(turn[w], TRUE, 2))
    /\ UNCHANGED Shared

\* A round of /refine: initial answer, critic, refiner.  An error in a round
\* is its content, except in the last one, which then repeats the first.
RefineRound(w) ==
    /\ turn[w].pc = "refine"
    /\ IF turn[w].round < 3 THEN Goes(w, [turn[w] EXCEPT !.round = @ + 1])
       ELSE Ends(w, <<"refine">>, "text")
    /\ UNCHANGED Shared
-----------------------------------------------------------------------------
(* /mcp: one attempt at one tool of the published catalog *)

\* Under the lifecycle lock: the catalog as it is now, if there is one.
Snapshot(w) ==
    /\ turn[w].pc = "snapshot"
    /\ IF catalog = 0 THEN EndsUnrecorded(w)
       ELSE Goes(w, [turn[w] EXCEPT !.pc = "ask", !.snapshot = catalog, !.fails = 0])
    /\ UNCHANGED Shared

\* The model names a tool of the snapshot with valid arguments; anything else
\* uses the attempt up ("rejected"), and no call at all ends the turn ("text").
AskReturns(w, choice) ==
    /\ turn[w].pc = "ask"
    /\ CASE choice = "valid" -> Goes(w, [turn[w] EXCEPT !.pc = "recheck", !.fails = 0])
         [] choice = "rejected" -> Goes(w, [turn[w] EXCEPT !.pc = "synthesis", !.fails = 0])
         [] choice = "text" -> EndsUnrecorded(w)
    /\ UNCHANGED Shared

\* Mutant: only the connection is checked again.
RecheckConnected(w) ==
    /\ turn[w].pc = "recheck"
    /\ IF catalog # 0
       THEN /\ Become(w, [turn[w] EXCEPT !.pc = "call"])
            /\ last' = [kind |-> "mcp", snapshot |-> turn[w].snapshot, catalog |-> catalog]
       ELSE Goes(w, [turn[w] EXCEPT !.pc = "synthesis"])
    /\ UNCHANGED Shared

\* Under the lock again: the tool runs if the catalog is still the snapshot's.
Recheck(w) ==
    /\ turn[w].pc = "recheck"
    /\ IF catalog = turn[w].snapshot
       THEN /\ Become(w, [turn[w] EXCEPT !.pc = "call"])
            /\ last' = [kind |-> "mcp", snapshot |-> turn[w].snapshot, catalog |-> catalog]
       ELSE Goes(w, [turn[w] EXCEPT !.pc = "synthesis"])
    /\ UNCHANGED Shared

CallReturns(w) ==
    /\ turn[w].pc = "call"
    /\ Goes(w, [turn[w] EXCEPT !.pc = "synthesis"])
    /\ UNCHANGED Shared

\* Whatever the model makes of the result, there is one answer and no record.
SynthesisReturns(w) ==
    /\ turn[w].pc = "synthesis"
    /\ EndsUnrecorded(w)
    /\ UNCHANGED Shared
-----------------------------------------------------------------------------
(* The environment *)

\* The task of the turn is cancelled.
Cancelled(w) ==
    /\ turn[w].pc # "idle"
    /\ EndsUnrecorded(w)
    /\ UNCHANGED Shared

\* A transport publishes its tools, or withdraws them (module McpLifecycle).
Publish ==
    /\ catalog = 0 /\ catalogs < MaxCatalogs
    /\ catalogs' = catalogs + 1 /\ catalog' = catalogs + 1
    /\ last' = Nothing
    /\ UNCHANGED <<turn, context, started>>

Withdraw ==
    /\ catalog # 0
    /\ catalog' = 0
    /\ last' = Nothing
    /\ UNCHANGED <<turn, context, catalogs, started>>

Step(w) ==
    \/ ToolReturns(w) \/ ModelFails(w) \/ ThinkReturns(w) \/ RefineRound(w)
    \/ Snapshot(w) \/ Recheck(w) \/ CallReturns(w) \/ SynthesisReturns(w) \/ Cancelled(w)
    \/ \E calls \in Replies : ModelCalls(w, calls)
    \/ \E name \in Tool : ModelCallsInline(w, name)
    \/ \E text \in {"plan", "answer"} : ModelAnswers(w, text)
    \/ \E choice \in {"valid", "rejected", "text"} : AskReturns(w, choice)

Next ==
    \/ Publish \/ Withdraw
    \/ \E w \in Worker, c \in Chat :
          \/ \E route \in {"simple", "deepthink"}, action \in BOOLEAN : RoutedStarts(w, c, route, action)
          \/ SystemStarts(w, c)
    \/ \E w \in Worker, route \in {"forced", "refine", "mcp"} : CommandStarts(w, route)
    \/ \E w \in Worker : Step(w)

Spec == Init /\ [][Next]_vars
-----------------------------------------------------------------------------
(* Properties *)

\* However calls come - several in one reply, one by one, written into the
\* text - a pass of the loop runs no more reasoning tools than its limit, a
\* concrete one between any two, and none at all in the execution pass.
ReasoningPaced ==
    \A w \in Worker :
        LET u == turn[w].used
            places == {i \in 1..Len(u) : u[i] \in Reasoning}
        IN  /\ Cardinality(places) <= turn[w].limit
            /\ turn[w].pass = 2 => places = {}
            /\ \A i, j \in places : i < j => \E k \in i..j : u[k] \in Concrete

\* An MCP tool runs only for an /mcp turn and only while the catalog that the
\* model was shown is the published one, whatever happened to it meanwhile
\* (_explicit_mcp_identity_is_live); the ordinary loop runs none.
McpIsolated ==
    /\ last.kind = "mcp" => last.snapshot = last.catalog
    /\ \A w \in Worker : \A i \in 1..Len(turn[w].ran) : turn[w].ran[i] \notin Mcp

\* The history of a turn names the tools that ran for it and no others, in
\* their order and over both passes (tools_used; DeepThink is named first).
ToolsRecorded ==
    last.kind = "record" =>
        CASE last.route = "simple" -> last.tools = last.ran
          [] last.route = "deepthink" -> last.tools = DeepThinkFirst(last.ran)
          [] OTHER -> TRUE

\* A turn that was asked to act and ends with a text, but without any concrete
\* tool, has been told to act at least once.
ActionsPressed ==
    last.kind = "record" /\ last.action /\ last.answer = "text" /\ ~ConcreteIn(last.ran) => last.pressed > 0

\* A turn claims no work that was not done, and none that was asked for is
\* left undone without a word.
WorkAccounted == ToolsRecorded /\ ActionsPressed
=============================================================================
