---------------------------- MODULE McpLifecycle ----------------------------
(***************************************************************************)
(* The MCP transport lifecycle of AgentLoop (k2do/agent/loop.py): who may  *)
(* open, share and close the connection to the configured MCP servers, and *)
(* what happens to everybody involved when tasks are cancelled at any      *)
(* await, when start-up or cleanup fails, and when the agent is closed.    *)
(*                                                                         *)
(* asyncio runs one task at a time and switches only at an await that      *)
(* really suspends, so an action is the code from one such await to the    *)
(* next.  _mcp_lifecycle_lock is never held across an await: taking it     *)
(* never suspends, and its critical sections are parts of an action.       *)
(* _mcp_scope_lock is held for a whole scope: it is `holder' and `scopeQ'. *)
(* A cancellation is a flag on the task (`cancel') that the await the task *)
(* is suspended in turns into an exception, whether or not what it awaits  *)
(* is ready by then.                                                       *)
(***************************************************************************)
EXTENDS Naturals, Sequences, FiniteSets

CONSTANTS
    Task,        \* the asyncio tasks that use the agent
    Root,        \* the ones that no scope creates; the others are spawned
    Bare,        \* roots that use mcp_lifespan() itself (gateway, chat CLI)
    Manual,      \* roots that use _connect_mcp() and close_mcp() (fault lab)
    Server,      \* the configured MCP servers (never empty here)
    Gen,         \* identities of transport owner tasks, a bound on connects
    Scope,       \* identities of scope tokens, a bound on scopes
    MaxDepth,    \* bound on nested calls of one task
    MaxCancels,  \* bound on cancellations from outside
    None         \* Python's None, for tasks, transports and tokens

ASSUME ConstantsAssumption ==
    /\ Root \subseteq Task
    /\ Bare \subseteq Root
    /\ Manual \subseteq Root
    /\ Bare \cap Manual = {}
    /\ Server # {}
    /\ None \notin Task \cup Gen \cup Scope
    /\ MaxDepth \in Nat \ {0}
    /\ MaxCancels \in Nat

VARIABLES
    \* per task
    pc,          \* where the task is suspended
    ctx,         \* its value of the ContextVar _mcp_scope_context
    entries,     \* _agent_active_entries: depth of its public operations
    borrowers,   \* _mcp_borrowers: depth of its leases
    cancel,      \* task.cancel() was called, not yet delivered
    held,        \* caller_cancellation: absorbed, to be replayed
    bodyErr,     \* body_error of mcp_lifespan
    errs,        \* cleanup_errors of mcp_lifespan
    outcome,     \* errors the last call of the task ended with
    tr,          \* the transport owner it awaits
    initiator,   \* it created that transport owner
    hit,         \* history: a cancellation reached its current call
    \* the scope
    holder,      \* the task that holds _mcp_scope_lock
    scopeQ,      \* the tasks that queue for it
    owns,        \* owns_lifespan of the holder
    active,      \* _mcp_active_scope_token
    accepting,   \* _mcp_accepting_borrowers
    usedScopes,  \* tokens created so far
    drainSet,    \* remaining: the borrowers the holder's gather waits for
    aborting,    \* the drain has cancelled its borrowers
    \* the transport
    transport,   \* _mcp_transport_task
    ownerTask,   \* _mcp_owner_task
    connected,   \* _mcp_connected
    catalog,     \* _mcp_tools: pairs of server and transport
    registry,    \* ToolRegistry: whose tools are published per server
    phase,       \* where each transport owner task is
    startErr,    \* the error its `started' future was resolved with
    shutdown,    \* its shutdown event
    ownerCancel, \* cancel() was called on it, not yet delivered
    report,      \* its connection outcome per server
    cleanupErr,  \* closing its stack failed
    \* the agent
    closing,     \* _agent_closing
    closeTask,   \* _agent_close_task: the shared drain
    closeSet,    \* the active entries the drain cancelled and waits for
    excluded,    \* the task that started the drain
    cancels      \* how many outside cancellations were delivered

taskVars == <<pc, ctx, entries, borrowers, cancel, held, bodyErr, errs, outcome,
              tr, initiator, hit>>
scopeVars == <<holder, scopeQ, owns, active, accepting, usedScopes, drainSet, aborting>>
transportVars == <<transport, ownerTask, connected, catalog, registry>>
ownerVars == <<phase, startErr, shutdown, ownerCancel, report, cleanupErr>>
agentVars == <<closing, closeTask, closeSet, excluded, cancels>>
vars == <<taskVars, scopeVars, transportVars, ownerVars, agentVars>>

PcValues == {"unborn", "ready", "waitScope", "connecting", "reap", "body", "lease",
             "drain", "closing", "aclose", "done"}
Phases == {"absent", "created", "connecting", "failing", "serving", "closing", "done"}
Errors == {"cancelled", "body", "startup", "cleanup", "revoked", "closed", "refused"}

TaskTypes ==
    /\ pc \in [Task -> PcValues]
    /\ ctx \in [Task -> Scope \cup {None}]
    /\ entries \in [Task -> Nat]
    /\ borrowers \in [Task -> Nat]
    /\ cancel \in [Task -> BOOLEAN]
    /\ held \in [Task -> BOOLEAN]
    /\ bodyErr \in [Task -> {"none", "body", "closed", "cancelled"}]
    /\ errs \in [Task -> SUBSET Errors]
    /\ outcome \in [Task -> SUBSET Errors]
    /\ tr \in [Task -> Gen \cup {None}]
    /\ initiator \in [Task -> BOOLEAN]
    /\ hit \in [Task -> BOOLEAN]

ScopeTypes ==
    /\ holder \in Task \cup {None}
    /\ scopeQ \in Seq(Task)
    /\ owns \in BOOLEAN
    /\ active \in Scope \cup {None}
    /\ accepting \in BOOLEAN
    /\ usedScopes \subseteq Scope
    /\ drainSet \subseteq Task
    /\ aborting \in BOOLEAN

TransportTypes ==
    /\ transport \in Gen \cup {None}
    /\ ownerTask \in Task \cup {None}
    /\ connected \in BOOLEAN
    /\ catalog \subseteq Server \X Gen
    /\ registry \in [Server -> Gen \cup {None}]

OwnerTypes ==
    /\ phase \in [Gen -> Phases]
    /\ startErr \in [Gen -> {"none", "cancelled", "startup"}]
    /\ shutdown \in [Gen -> BOOLEAN]
    /\ ownerCancel \in [Gen -> BOOLEAN]
    /\ report \in [Gen -> [Server -> {"untried", "connected", "failed", "swallowed"}]]
    /\ cleanupErr \in [Gen -> BOOLEAN]

AgentTypes ==
    /\ closing \in BOOLEAN
    /\ closeTask \in {"none", "created", "draining", "finished"}
    /\ closeSet \subseteq Task
    /\ excluded \in Task \cup {None}
    /\ cancels \in 0..MaxCancels

TypeOK == TaskTypes /\ ScopeTypes /\ TransportTypes /\ OwnerTypes /\ AgentTypes

Init ==
    /\ pc = [t \in Task |-> IF t \in Root THEN "ready" ELSE "unborn"]
    /\ ctx = [t \in Task |-> None]
    /\ entries = [t \in Task |-> 0]
    /\ borrowers = [t \in Task |-> 0]
    /\ cancel = [t \in Task |-> FALSE]
    /\ held = [t \in Task |-> FALSE]
    /\ bodyErr = [t \in Task |-> "none"]
    /\ errs = [t \in Task |-> {}]
    /\ outcome = [t \in Task |-> {}]
    /\ tr = [t \in Task |-> None]
    /\ initiator = [t \in Task |-> FALSE]
    /\ hit = [t \in Task |-> FALSE]
    /\ holder = None /\ scopeQ = <<>> /\ owns = FALSE
    /\ active = None /\ accepting = FALSE /\ usedScopes = {}
    /\ drainSet = {} /\ aborting = FALSE
    /\ transport = None /\ ownerTask = None /\ connected = FALSE
    /\ catalog = {} /\ registry = [s \in Server |-> None]
    /\ phase = [g \in Gen |-> "absent"]
    /\ startErr = [g \in Gen |-> "none"]
    /\ shutdown = [g \in Gen |-> FALSE]
    /\ ownerCancel = [g \in Gen |-> FALSE]
    /\ report = [g \in Gen |-> [s \in Server |-> "untried"]]
    /\ cleanupErr = [g \in Gen |-> FALSE]
    /\ closing = FALSE /\ closeTask = "none" /\ closeSet = {} /\ excluded = None
    /\ cancels = 0
-----------------------------------------------------------------------------
(* Helpers *)

\* A depth counter in a dict: the last level pops the key.
Pop(f, t) == [f EXCEPT ![t] = IF @ <= 1 THEN 0 ELSE @ - 1]

\* Depth of a task's public operations when it runs its outermost call.
Base(t) == IF t \in Bare THEN 0 ELSE 1

\* The calls a scope body was nested in when it failed are over.
NestedOver(t) == entries' = [entries EXCEPT ![t] = Base(t)]

\* _combine_mcp_errors as mcp_lifespan applies it to a body error and the
\* cleanup errors: a body that was cancelled hides the cleanup errors (they
\* are logged), any other body error is raised together with them.
Combine(body, cleanup) ==
    CASE body = "none" -> cleanup
      [] body = "cancelled" -> {"cancelled"}
      [] OTHER -> {body} \cup cleanup

\* Mutant: an absorbed cancellation is not replayed.
HeldForgotten(t) == {}

\* What an absorbed cancellation and a failed cleanup add to the errors.
Held(t) == IF held[t] THEN {"cancelled"} ELSE {}
CleanupOf(g) == IF cleanupErr[g] THEN {"cleanup"} ELSE {}

\* The task's call is over: its frame with all locals, its entry and its
\* scope lock are gone.
EndCall(t, errors) ==
    /\ pc' = [pc EXCEPT ![t] = "ready"]
    /\ held' = [held EXCEPT ![t] = FALSE]
    /\ bodyErr' = [bodyErr EXCEPT ![t] = "none"]
    /\ errs' = [errs EXCEPT ![t] = {}]
    /\ tr' = [tr EXCEPT ![t] = None]
    /\ initiator' = [initiator EXCEPT ![t] = FALSE]
    /\ entries' = [entries EXCEPT ![t] = 0]
    /\ outcome' = [outcome EXCEPT ![t] = errors]
    /\ holder' = IF holder = t THEN None ELSE holder

\* unregister_many(names, expected_tools): only entries whose identity matches.
Unregister(tools) ==
    registry' = [s \in Server |-> IF <<s, registry[s]>> \in tools THEN None ELSE registry[s]]

\* Mutant: forgets to take the tools out of the registry.
ResetKeepsTools(g) ==
    IF transport = g
    THEN /\ transport' = None /\ ownerTask' = None
         /\ connected' = FALSE /\ catalog' = {}
         /\ UNCHANGED registry
    ELSE UNCHANGED transportVars

\* _reset_mcp_transport_state: only for the transport that is still current.
ResetTransport(g) ==
    IF transport = g
    THEN /\ Unregister(catalog)
         /\ transport' = None /\ ownerTask' = None
         /\ connected' = FALSE /\ catalog' = {}
    ELSE UNCHANGED transportVars

-----------------------------------------------------------------------------
(* The transport owner task, _mcp_transport_owner.  Its future `started' is *)
(* resolved exactly when the phase leaves "created" and "connecting".       *)

Started(g) == phase[g] \notin {"absent", "created", "connecting"}

\* task.done() of a transport owner: its stack is closed.
OwnerExited(g) == phase[g] = "done"

ToolsOf(g, r) == {<<s, g>> : s \in {x \in Server : r[x] = "connected"}}

OwnerStart(g) ==
    /\ phase[g] = "created" /\ ~ownerCancel[g]
    /\ phase' = [phase EXCEPT ![g] = "connecting"]
    /\ UNCHANGED <<taskVars, scopeVars, transportVars, startErr, shutdown, ownerCancel,
                   report, cleanupErr, agentVars>>

\* Cancelled before its first step: the coroutine never runs, and the done
\* callback publishes the failure in its place.
OwnerUnstarted(g) ==
    /\ phase[g] = "created" /\ ownerCancel[g]
    /\ phase' = [phase EXCEPT ![g] = "done"]
    /\ startErr' = [startErr EXCEPT ![g] = "cancelled"]
    /\ ownerCancel' = [ownerCancel EXCEPT ![g] = FALSE]
    /\ UNCHANGED <<taskVars, scopeVars, transportVars, shutdown, report, cleanupErr, agentVars>>

\* One server of connect_mcp_servers: its whole catalog is registered or, on
\* a timeout, an error or a name collision, none of it.  A cancellation may be
\* "swallowed": when the server's stack, unwound by it, raises an ordinary
\* exception, that replaces it, is a failure of this server, and the loop goes
\* on.  After the last server the owner publishes the connection without
\* another await.
ConnectServer(g, s, result) ==
    LET r == [report[g] EXCEPT ![s] = result]
        last == \A x \in Server : r[x] # "untried"
    IN  /\ phase[g] = "connecting"
        /\ ownerCancel[g] <=> result = "swallowed"
        /\ report[g][s] = "untried"
        /\ result = "connected" => registry[s] = None
        /\ report' = [report EXCEPT ![g] = r]
        /\ registry' = IF result = "connected" THEN [registry EXCEPT ![s] = g] ELSE registry
        /\ phase' = IF last THEN [phase EXCEPT ![g] = "serving"] ELSE phase
        /\ connected' = (connected \/ last)
        /\ catalog' = IF last THEN ToolsOf(g, r) ELSE catalog
        /\ ownerCancel' = [ownerCancel EXCEPT ![g] = FALSE]
        /\ UNCHANGED <<taskVars, scopeVars, transport, ownerTask, startErr, shutdown,
                       cleanupErr, agentVars>>

\* Startup ends without a connection: the servers connected so far are taken
\* out of the registry and the failure is published before the stack closes.
ConnectFailed(g, error) ==
    /\ phase[g] = "connecting"
    /\ error = "cancelled" <=> ownerCancel[g]
    /\ phase' = [phase EXCEPT ![g] = "failing"]
    /\ startErr' = [startErr EXCEPT ![g] = error]
    /\ ownerCancel' = [ownerCancel EXCEPT ![g] = FALSE]
    /\ Unregister(ToolsOf(g, report[g]))
    /\ UNCHANGED <<taskVars, scopeVars, transport, ownerTask, connected, catalog,
                   shutdown, report, cleanupErr, agentVars>>

\* await shutdown.wait() returns.
OwnerShutdown(g) ==
    /\ phase[g] = "serving" /\ shutdown[g]
    /\ phase' = [phase EXCEPT ![g] = "closing"]
    /\ UNCHANGED <<taskVars, scopeVars, transportVars, startErr, shutdown, ownerCancel,
                   report, cleanupErr, agentVars>>

\* _close_transport_stack returns, with or without an error; the owner exits.
CloseStack(g, failed) ==
    /\ phase[g] \in {"failing", "closing"}
    /\ phase' = [phase EXCEPT ![g] = "done"]
    /\ cleanupErr' = [cleanupErr EXCEPT ![g] = failed]
    /\ UNCHANGED <<taskVars, scopeVars, transportVars, startErr, shutdown, ownerCancel,
                   report, agentVars>>

-----------------------------------------------------------------------------
(* Entering: _reuse_mcp_scope, then mcp_lifespan and _connect_mcp *)

TokenMatches(t) == connected /\ ctx[t] # None /\ ctx[t] = active

\* What _reuse_mcp_scope decides for the calling task.
ReuseKind(t) ==
    CASE TokenMatches(t) /\ t = ownerTask -> "own"
      [] TokenMatches(t) /\ t # ownerTask /\ (accepting \/ borrowers[t] > 0) -> "borrow"
      [] ctx[t] = None -> "fresh"
      [] OTHER -> "revoked"

\* Mutant: the scope forgets that it created the transport.
ActivateUnowned(t, own) ==
    /\ \E k \in Scope \ usedScopes :
          /\ ctx' = [ctx EXCEPT ![t] = k]
          /\ active' = k
          /\ usedScopes' = usedScopes \cup {k}
    /\ accepting' = TRUE
    /\ owns' = FALSE
    /\ pc' = [pc EXCEPT ![t] = "body"]

\* The scope is published to the task and to the tasks it will create.
Activate(t, own) ==
    /\ \E k \in Scope \ usedScopes :
          /\ ctx' = [ctx EXCEPT ![t] = k]
          /\ active' = k
          /\ usedScopes' = usedScopes \cup {k}
    /\ accepting' = TRUE
    /\ owns' = own
    /\ pc' = [pc EXCEPT ![t] = "body"]

\* _connect_mcp up to its await: join the pending start-up or begin one.
AwaitStartup(t) ==
    /\ pc' = [pc EXCEPT ![t] = "connecting"]
    /\ \/ /\ transport # None
          /\ tr' = [tr EXCEPT ![t] = transport]
          /\ initiator' = [initiator EXCEPT ![t] = FALSE]
          /\ UNCHANGED <<transport, ownerTask, phase>>
       \/ /\ transport = None
          /\ \E g \in Gen :
                /\ phase[g] = "absent"
                /\ phase' = [phase EXCEPT ![g] = "created"]
                /\ transport' = g
                /\ tr' = [tr EXCEPT ![t] = g]
          /\ ownerTask' = t
          /\ initiator' = [initiator EXCEPT ![t] = TRUE]

\* mcp_lifespan from the moment it has the scope lock to its next await.
EnterScope(t) ==
    /\ holder' = t
    /\ \/ /\ connected
          /\ Activate(t, FALSE)
          /\ UNCHANGED <<tr, initiator, transport, ownerTask, phase>>
       \/ /\ ~connected
          /\ AwaitStartup(t)
          /\ UNCHANGED <<ctx, active, usedScopes, accepting, owns>>
    /\ UNCHANGED <<borrowers, drainSet, aborting, connected, catalog, registry,
                   startErr, shutdown, ownerCancel, report, cleanupErr>>

\* A task outside any call of its own that is not unwinding a cancellation.
MayCall(t) == pc[t] = "ready" /\ "cancelled" \notin outcome[t]

\* Mutant: a closing agent still admits operations.
AdmitsAlways(t) == MayCall(t) /\ t \notin Manual

\* _agent_entry and mcp_lifespan admit the call: the agent is not closing.
Admits(t) == MayCall(t) /\ t \notin Manual /\ ~closing

\* process_direct(), run() or mcp_lifespan() is refused at once.
CallRefused(t) ==
    /\ MayCall(t) /\ t \notin Manual
    /\ \/ closing /\ outcome' = [outcome EXCEPT ![t] = {"closed"}]
       \/ Admits(t) /\ ReuseKind(t) = "revoked" /\ outcome' = [outcome EXCEPT ![t] = {"revoked"}]
    /\ UNCHANGED <<pc, ctx, entries, borrowers, cancel, held, bodyErr, errs, tr, initiator, hit,
                   scopeVars, transportVars, ownerVars, agentVars>>

\* The call leases the scope its task inherited.
CallBorrow(t) ==
    /\ Admits(t) /\ t \notin Bare
    /\ ReuseKind(t) = "borrow"
    /\ pc' = [pc EXCEPT ![t] = "lease"]
    /\ borrowers' = [borrowers EXCEPT ![t] = @ + 1]
    /\ entries' = [entries EXCEPT ![t] = @ + 1]
    /\ outcome' = [outcome EXCEPT ![t] = {}]
    /\ UNCHANGED <<ctx, cancel, held, bodyErr, errs, tr, initiator, hit, scopeVars, transportVars,
                   ownerVars, agentVars>>

\* The call has no scope to inherit: it takes the scope lock or queues for it.
CallFresh(t) ==
    /\ Admits(t)
    /\ ReuseKind(t) = "fresh"
    /\ entries' = IF t \in Bare THEN entries ELSE [entries EXCEPT ![t] = @ + 1]
    /\ outcome' = [outcome EXCEPT ![t] = {}]
    /\ \/ /\ holder = None /\ scopeQ = <<>>
          /\ EnterScope(t)
          /\ UNCHANGED scopeQ
       \/ /\ holder # None \/ scopeQ # <<>>
          /\ pc' = [pc EXCEPT ![t] = "waitScope"]
          /\ scopeQ' = Append(scopeQ, t)
          /\ UNCHANGED <<ctx, borrowers, tr, initiator, holder, owns, active, accepting,
                         usedScopes, drainSet, aborting, transportVars, ownerVars>>
    /\ UNCHANGED <<cancel, held, bodyErr, errs, hit, agentVars>>

\* The head of the queue gets the scope lock.
AcquireScope(t) ==
    /\ pc[t] = "waitScope" /\ ~cancel[t]
    /\ holder = None /\ scopeQ # <<>> /\ Head(scopeQ) = t
    /\ scopeQ' = Tail(scopeQ)
    /\ \/ /\ closing
          /\ EndCall(t, {"closed"})
          /\ UNCHANGED <<ctx, borrowers, owns, active, accepting, usedScopes,
                         drainSet, aborting, transportVars, ownerVars>>
       \/ /\ ~closing
          /\ EnterScope(t)
          /\ UNCHANGED <<entries, held, bodyErr, errs, outcome>>
    /\ UNCHANGED <<cancel, hit, agentVars>>

\* A cancelled waiter leaves the queue.
CancelWaiter(t) ==
    /\ pc[t] = "waitScope" /\ cancel[t]
    /\ \E i \in 1..Len(scopeQ) :
          /\ scopeQ[i] = t
          /\ scopeQ' = SubSeq(scopeQ, 1, i - 1) \o SubSeq(scopeQ, i + 1, Len(scopeQ))
    /\ cancel' = [cancel EXCEPT ![t] = FALSE]
    /\ hit' = [hit EXCEPT ![t] = TRUE]
    /\ EndCall(t, {"cancelled"})
    /\ UNCHANGED <<ctx, borrowers, owns, active, accepting, usedScopes, drainSet, aborting,
                   transportVars, ownerVars, agentVars>>

-----------------------------------------------------------------------------
(* Startup as seen by the caller: _connect_mcp after its await *)

\* The errors raised once a failed or cancelled start-up has been reaped.
StartupErrors(t, g) ==
    Held(t) \cup CleanupOf(g) \cup (IF startErr[g] = "none" THEN {} ELSE {startErr[g]})

\* The owner has exited: clear the published state, raise what happened.
ReapNow(t, g) ==
    /\ ResetTransport(g)
    /\ EndCall(t, StartupErrors(t, g))

\* The transport an owning scope leaves is shut down by its owner task; the
\* scope's call ends at once if there is nothing (left) to close.
CloseOwned(t, own, body, cleanup) ==
    LET over == ~own \/ transport = None
        refused == ~over /\ ownerTask # t
    IN  IF over \/ refused
        THEN /\ EndCall(t, Combine(body, cleanup \cup IF refused THEN {"refused"} ELSE {}))
             /\ UNCHANGED shutdown
        ELSE /\ shutdown' = [shutdown EXCEPT ![transport] = TRUE]
             /\ tr' = [tr EXCEPT ![t] = transport]
             /\ pc' = [pc EXCEPT ![t] = "closing"]
             /\ held' = [held EXCEPT ![t] = FALSE]
             /\ bodyErr' = [bodyErr EXCEPT ![t] = body]
             /\ errs' = [errs EXCEPT ![t] = cleanup]
             /\ NestedOver(t)
             /\ UNCHANGED <<outcome, initiator, holder>>

\* `started' was resolved with a connection.  A public operation that finds
\* the agent closing leaves the scope it has just opened before using it.
ConnectSucceeds(t) ==
    /\ pc[t] = "connecting" /\ ~cancel[t]
    /\ Started(tr[t]) /\ startErr[tr[t]] = "none"
    /\ \/ /\ holder # t
          /\ EndCall(t, {})
          /\ UNCHANGED <<ctx, active, usedScopes, accepting, owns, shutdown>>
       \/ /\ holder = t /\ (closing => t \in Bare)
          /\ Activate(t, initiator[t])
          /\ UNCHANGED <<entries, held, bodyErr, errs, outcome, tr, initiator, holder, shutdown>>
       \/ /\ holder = t /\ closing /\ t \notin Bare
          /\ owns' = initiator[t]
          /\ CloseOwned(t, initiator[t], "closed", {})
          /\ UNCHANGED <<ctx, active, usedScopes, accepting>>
    /\ UNCHANGED <<borrowers, cancel, hit, scopeQ, drainSet, aborting,
                   transportVars, phase, startErr, ownerCancel, report, cleanupErr, agentVars>>

\* `started' was resolved with an error: wait for the owner to finish cleanup.
ConnectFails(t) ==
    /\ pc[t] = "connecting" /\ ~cancel[t]
    /\ Started(tr[t]) /\ startErr[tr[t]] # "none"
    /\ IF OwnerExited(tr[t])
       THEN ReapNow(t, tr[t])
       ELSE /\ pc' = [pc EXCEPT ![t] = "reap"]
            /\ UNCHANGED <<entries, held, bodyErr, errs, outcome, tr, initiator, holder,
                           transportVars>>
    /\ UNCHANGED <<ctx, borrowers, cancel, hit, scopeQ, owns, active, accepting, usedScopes, drainSet, aborting, ownerVars, agentVars>>

\* Cancelled while awaiting `started'.  Only the initiator stops the owner:
\* with one cancellation while connect is pending, with the shutdown event
\* once it has succeeded, not at all once it has failed.
CancelConnect(t) ==
    LET g == tr[t]
    IN  /\ pc[t] = "connecting" /\ cancel[t]
        /\ cancel' = [cancel EXCEPT ![t] = FALSE]
        /\ hit' = [hit EXCEPT ![t] = TRUE]
        /\ \/ /\ ~initiator[t]
              /\ EndCall(t, {"cancelled"})
              /\ UNCHANGED <<shutdown, ownerCancel>>
           \/ /\ initiator[t]
              /\ held' = [held EXCEPT ![t] = TRUE]
              /\ ownerCancel' = [ownerCancel EXCEPT ![g] = @ \/ ~Started(g)]
              /\ shutdown' = [shutdown EXCEPT ![g] = @ \/ (Started(g) /\ startErr[g] = "none")]
              /\ pc' = [pc EXCEPT ![t] = "reap"]
              /\ UNCHANGED <<entries, bodyErr, errs, outcome, tr, initiator, holder>>
        /\ UNCHANGED <<ctx, borrowers, scopeQ, owns, active, accepting, usedScopes, drainSet, aborting, transportVars, phase, startErr, report,
                       cleanupErr, agentVars>>

\* The reaped owner has exited.
Reap(t) ==
    /\ pc[t] = "reap" /\ ~cancel[t]
    /\ OwnerExited(tr[t])
    /\ ReapNow(t, tr[t])
    /\ UNCHANGED <<ctx, borrowers, cancel, hit, scopeQ, owns, active, accepting, usedScopes, drainSet, aborting, ownerVars, agentVars>>

\* A shielded wait (_await_mcp_transport_owner, aclose) absorbs a cancellation
\* and goes on waiting.
Absorb(t) ==
    /\ pc[t] \in {"reap", "closing", "aclose"} /\ cancel[t]
    /\ cancel' = [cancel EXCEPT ![t] = FALSE]
    /\ held' = [held EXCEPT ![t] = TRUE]
    /\ hit' = [hit EXCEPT ![t] = TRUE]
    /\ UNCHANGED <<pc, ctx, entries, borrowers, bodyErr, errs, outcome, tr, initiator,
                   scopeVars, transportVars, ownerVars, agentVars>>

-----------------------------------------------------------------------------
(* Inside a scope *)

\* A task running inside a scope creates a task, which inherits its context.
Spawn(t, c) ==
    /\ pc[t] \in {"body", "lease"} /\ pc[c] = "unborn"
    /\ pc' = [pc EXCEPT ![c] = "ready"]
    /\ ctx' = [ctx EXCEPT ![c] = ctx[t]]
    /\ UNCHANGED <<entries, borrowers, cancel, held, bodyErr, errs, outcome, tr, initiator, hit,
                   scopeVars, transportVars, ownerVars, agentVars>>

\* A public operation called inside the task's scope or lease.  (A refused
\* one raises into the body and changes nothing.)
NestedCall(t) ==
    /\ pc[t] \in {"body", "lease"} /\ ~closing
    /\ entries[t] < MaxDepth
    /\ ReuseKind(t) \in {"own", "borrow"}
    /\ entries' = [entries EXCEPT ![t] = @ + 1]
    /\ borrowers' = IF ReuseKind(t) = "own" THEN borrowers ELSE [borrowers EXCEPT ![t] = @ + 1]
    /\ UNCHANGED <<pc, ctx, cancel, held, bodyErr, errs, outcome, tr, initiator, hit, scopeVars,
                   transportVars, ownerVars, agentVars>>

NestedReturn(t) ==
    /\ \/ pc[t] = "body" /\ entries[t] > Base(t)
       \/ pc[t] = "lease" /\ borrowers[t] > 1
    /\ entries' = Pop(entries, t)
    /\ borrowers' = Pop(borrowers, t)
    /\ UNCHANGED <<pc, ctx, cancel, held, bodyErr, errs, outcome, tr, initiator, hit, scopeVars,
                   transportVars, ownerVars, agentVars>>

\* The outermost operation of a borrower returns, or a cancellation unwinds
\* all its levels: the lease is released.
LeaseExit(t, cancelled) ==
    /\ pc[t] = "lease"
    /\ IF cancelled THEN cancel[t] ELSE borrowers[t] = 1
    /\ pc' = [pc EXCEPT ![t] = "ready"]
    /\ borrowers' = [borrowers EXCEPT ![t] = 0]
    /\ entries' = [entries EXCEPT ![t] = 0]
    /\ cancel' = [cancel EXCEPT ![t] = @ /\ ~cancelled]
    /\ hit' = [hit EXCEPT ![t] = cancelled]
    /\ outcome' = [outcome EXCEPT ![t] = IF cancelled THEN {"cancelled"} ELSE {}]
    /\ UNCHANGED <<ctx, held, bodyErr, errs, tr, initiator, scopeVars, transportVars,
                   ownerVars, agentVars>>

-----------------------------------------------------------------------------
(* Leaving a scope: _drain_mcp_borrowers, then _close_mcp_internal *)

\* Mutant: counts only nested leases.
RemainingNested(b) == {x \in Task : b[x] > 1 /\ pc[x] # "done"}

\* The borrowers the drain still has to wait for: finished tasks can never
\* use their lease again.
Remaining(b) == {x \in Task : b[x] > 0 /\ pc[x] # "done"}

\* One pass of the drain loop of the scope holder t over the borrowers b,
\* with the cancellations c already requested
\* and the body error of the scope.  Finished tasks lose their
\* lease; while any remains the holder waits for the tasks to end, after
\* cancelling them if it is aborting.  With none left the scope is inactive
\* and the holder closes what it owns.
DrainPass(t, body, b, c, abort) ==
    LET remaining == Remaining(b)
    IN  /\ accepting' = FALSE
        /\ aborting' = abort
        /\ drainSet' = remaining
        /\ borrowers' = [x \in Task |-> IF x \in remaining THEN b[x] ELSE 0]
        /\ IF remaining # {}
           THEN /\ pc' = [pc EXCEPT ![t] = "drain"]
                /\ cancel' = [x \in Task |-> c[x] \/ (abort /\ x \in remaining)]
                /\ bodyErr' = [bodyErr EXCEPT ![t] = body]
                /\ NestedOver(t)
                /\ UNCHANGED <<ctx, active, errs, held, outcome, tr, initiator, holder, shutdown>>
           ELSE /\ cancel' = c
                /\ ctx' = [ctx EXCEPT ![t] = None]
                /\ active' = None
                /\ CloseOwned(t, owns, body, Held(t))
        /\ UNCHANGED <<owns, scopeQ, usedScopes, transportVars, phase, startErr,
                       ownerCancel, report, cleanupErr, agentVars>>

\* The body of the scope ends: normally, with an error, or by a cancellation.
BodyExit(t, error) ==
    /\ pc[t] = "body"
    /\ error = "none" => entries[t] = Base(t)
    /\ error = "cancelled" => cancel[t]
    /\ hit' = [hit EXCEPT ![t] = @ \/ error = "cancelled"]
    /\ LET c == [cancel EXCEPT ![t] = @ /\ error # "cancelled"]
           b == [borrowers EXCEPT ![t] = 0]
       IN  DrainPass(t, error, b, c, error # "none" \/ cancel[t])

\* Every task the drain waits for has ended: look again.
DrainResume(t) ==
    /\ pc[t] = "drain" /\ ~cancel[t]
    /\ \A x \in drainSet : pc[x] = "done"
    /\ DrainPass(t, bodyErr[t], borrowers, cancel, aborting)
    /\ UNCHANGED hit

\* Mutant: the holder only remembers its cancellation.
DrainCancelledAlone(t) ==
    /\ pc[t] = "drain" /\ cancel[t]
    /\ held' = [held EXCEPT ![t] = TRUE]
    /\ hit' = [hit EXCEPT ![t] = TRUE]
    /\ aborting' = TRUE
    /\ cancel' = [cancel EXCEPT ![t] = FALSE]
    /\ UNCHANGED <<pc, ctx, entries, borrowers, bodyErr, errs, outcome, tr, initiator, holder,
                   scopeQ, owns, active, accepting, usedScopes, drainSet, transportVars,
                   ownerVars, agentVars>>

\* The holder is cancelled while it waits: it cancels the borrowers, once.
DrainCancelled(t) ==
    /\ pc[t] = "drain" /\ cancel[t]
    /\ held' = [held EXCEPT ![t] = TRUE]
    /\ hit' = [hit EXCEPT ![t] = TRUE]
    /\ aborting' = TRUE
    /\ cancel' = [x \in Task |-> IF x = t THEN FALSE
                                ELSE cancel[x] \/ (~aborting /\ x \in drainSet /\ pc[x] # "done")]
    /\ UNCHANGED <<pc, ctx, entries, borrowers, bodyErr, errs, outcome, tr, initiator, holder,
                   scopeQ, owns, active, accepting, usedScopes, drainSet, transportVars,
                   ownerVars, agentVars>>

\* The transport owner has closed its stack: reset and raise what happened.
CloseReturns(t) ==
    LET g == tr[t]
    IN  /\ pc[t] = "closing" /\ ~cancel[t]
        /\ OwnerExited(g)
        /\ ResetTransport(g)
        /\ EndCall(t, Combine(bodyErr[t], errs[t] \cup Held(t) \cup CleanupOf(g)))
        /\ UNCHANGED <<ctx, borrowers, cancel, hit, scopeQ, owns, active, accepting, usedScopes, drainSet, aborting, ownerVars, agentVars>>

-----------------------------------------------------------------------------
(* _connect_mcp() and close_mcp() called by themselves *)

ManualConnect(t) ==
    /\ MayCall(t) /\ t \in Manual
    /\ outcome' = [outcome EXCEPT ![t] = {}]
    /\ \/ /\ connected
          /\ UNCHANGED <<pc, tr, initiator, transport, ownerTask, phase>>
       \/ /\ ~connected
          /\ AwaitStartup(t)
    /\ UNCHANGED <<ctx, entries, borrowers, cancel, held, bodyErr, errs, hit, scopeVars, connected,
                   catalog, registry, startErr, shutdown, ownerCancel, report, cleanupErr, agentVars>>

\* close_mcp is for a transport outside an active scope, and for its owner.
ManualClose(t) ==
    /\ MayCall(t) /\ t \in Manual
    /\ LET refused == active # None \/ (transport # None /\ ownerTask # t)
       IN  IF refused \/ transport = None
           THEN /\ outcome' = [outcome EXCEPT ![t] = IF refused THEN {"refused"} ELSE {}]
                /\ UNCHANGED <<pc, tr, shutdown>>
           ELSE /\ shutdown' = [shutdown EXCEPT ![transport] = TRUE]
                /\ tr' = [tr EXCEPT ![t] = transport]
                /\ pc' = [pc EXCEPT ![t] = "closing"]
                /\ UNCHANGED outcome
    /\ UNCHANGED <<ctx, entries, borrowers, cancel, held, bodyErr, errs, initiator, hit, scopeVars,
                   transportVars, phase, startErr,
                   ownerCancel, report, cleanupErr, agentVars>>

-----------------------------------------------------------------------------
(* Closing the agent: aclose and _drain_agent_owned_work *)

\* A task outside every public operation closes the agent, or joins the
\* close under way.  A scope body that was cancelled does so before it
\* raises, as the gateway does.
AClose(t) ==
    /\ t \in Bare /\ pc[t] \in {"ready", "body"}
    /\ entries[t] = 0 /\ closeTask # "finished"
    /\ closing' = TRUE
    /\ closeTask' = IF closeTask = "none" THEN "created" ELSE closeTask
    /\ excluded' = IF closeTask = "none" THEN t ELSE excluded
    /\ pc' = [pc EXCEPT ![t] = "aclose"]
    /\ LET caught == pc[t] = "body" /\ cancel[t]
       IN  /\ bodyErr' = [bodyErr EXCEPT ![t] = IF caught THEN "cancelled" ELSE "none"]
           /\ cancel' = [cancel EXCEPT ![t] = @ /\ ~caught]
           /\ hit' = [hit EXCEPT ![t] = @ \/ caught]
    /\ UNCHANGED <<ctx, entries, borrowers, held, errs, outcome, tr, initiator, scopeVars,
                   transportVars, ownerVars, closeSet, cancels>>

\* First step of the drain: snapshot and cancel the active entries.
CloseTaskStart ==
    /\ closeTask = "created"
    /\ closeTask' = "draining"
    /\ LET snapshot == {x \in Task \ {excluded} : entries[x] > 0 /\ pc[x] # "done"}
       IN  /\ closeSet' = snapshot
           /\ cancel' = [x \in Task |-> cancel[x] \/ x \in snapshot]
    /\ UNCHANGED <<pc, ctx, entries, borrowers, held, bodyErr, errs, outcome, tr, initiator, hit,
                   scopeVars, transportVars, ownerVars, closing, excluded, cancels>>

CloseTaskEnd ==
    /\ closeTask = "draining"
    /\ \A x \in closeSet : pc[x] = "done"
    /\ closeTask' = "finished"
    /\ UNCHANGED <<taskVars, scopeVars, transportVars, ownerVars, closing, closeSet, excluded,
                   cancels>>

\* aclose returns to its caller, or raises the cancellation it absorbed.
ACloseReturns(t) ==
    /\ pc[t] = "aclose" /\ ~cancel[t]
    /\ closeTask = "finished"
    /\ UNCHANGED hit
    /\ \/ /\ holder # t
          /\ pc' = [pc EXCEPT ![t] = "ready"]
          /\ outcome' = [outcome EXCEPT ![t] = @ \cup Held(t)]
          /\ held' = [held EXCEPT ![t] = FALSE]
          /\ UNCHANGED <<ctx, entries, borrowers, cancel, bodyErr, errs, tr, initiator,
                         scopeVars, transportVars, ownerVars, agentVars>>
       \/ /\ holder = t /\ ~held[t] /\ bodyErr[t] = "none"
          /\ pc' = [pc EXCEPT ![t] = "body"]
          /\ UNCHANGED <<ctx, entries, borrowers, cancel, held, bodyErr, errs, outcome, tr,
                         initiator, scopeVars, transportVars, ownerVars, agentVars>>
       \/ /\ holder = t /\ (held[t] \/ bodyErr[t] # "none")
          /\ DrainPass(t, "cancelled", borrowers, cancel, TRUE)

-----------------------------------------------------------------------------
(* The environment, and the whole system *)

\* Somebody outside cancels the task.
Cancel(t) ==
    /\ pc[t] \notin {"unborn", "done"} /\ ~cancel[t]
    /\ cancels < MaxCancels
    /\ cancels' = cancels + 1
    /\ cancel' = [cancel EXCEPT ![t] = TRUE]
    /\ UNCHANGED <<pc, ctx, entries, borrowers, held, bodyErr, errs, outcome, tr, initiator, hit,
                   scopeVars, transportVars, ownerVars, closing, closeTask, closeSet, excluded>>

\* The task ends.  (A manual user closes what it connected first.)
Finish(t) ==
    /\ pc[t] = "ready" /\ ownerTask # t
    /\ pc' = [pc EXCEPT ![t] = "done"]
    /\ cancel' = [cancel EXCEPT ![t] = FALSE]
    /\ UNCHANGED <<ctx, entries, borrowers, held, bodyErr, errs, outcome, tr, initiator,
                   hit, scopeVars, transportVars, ownerVars, agentVars>>

OwnerNext(g) ==
    \/ OwnerStart(g)
    \/ OwnerUnstarted(g)
    \/ \E s \in Server, result \in {"connected", "failed", "swallowed"} : ConnectServer(g, s, result)
    \/ \E error \in {"cancelled", "startup"} : ConnectFailed(g, error)
    \/ OwnerShutdown(g)
    \/ \E failed \in BOOLEAN : CloseStack(g, failed)

\* Steps the event loop takes by itself once what the task awaits is there.
Resume(t) ==
    \/ AcquireScope(t) \/ CancelWaiter(t)
    \/ ConnectSucceeds(t) \/ ConnectFails(t) \/ CancelConnect(t) \/ Reap(t)
    \/ Absorb(t)
    \/ DrainResume(t) \/ DrainCancelled(t) \/ CloseReturns(t)
    \/ ACloseReturns(t)

\* Steps that are up to the code running in the task.
Work(t) ==
    \/ CallRefused(t) \/ CallBorrow(t) \/ CallFresh(t)
    \/ \E c \in Task : Spawn(t, c)
    \/ NestedCall(t) \/ NestedReturn(t)
    \/ \E cancelled \in BOOLEAN : LeaseExit(t, cancelled)
    \/ \E error \in {"none", "body", "cancelled"} : BodyExit(t, error)
    \/ ManualConnect(t) \/ ManualClose(t)
    \/ AClose(t) \/ Finish(t)

Next ==
    \/ \E g \in Gen : OwnerNext(g)
    \/ \E t \in Task : Resume(t) \/ Work(t) \/ Cancel(t)
    \/ CloseTaskStart \/ CloseTaskEnd

Spec == Init /\ [][Next]_vars

-----------------------------------------------------------------------------
(* Properties *)

\* Whoever may use the connection: the body of the scope, also while it
\* closes the agent, and every task that holds a lease.
Uses(t) ==
    \/ pc[t] \in {"body", "lease"}
    \/ pc[t] = "aclose" /\ holder = t

Usable(g) == phase[g] = "serving" /\ ~shutdown[g]

\* No scope body and no borrower ever runs on a transport that is absent,
\* still starting, told to shut down, or closing, nor on another scope's
\* (loop.py: leases are revoked and reaped before _close_mcp_internal).
LeaseSafety ==
    \A t \in Task : Uses(t) => /\ connected
                              /\ transport # None
                              /\ Usable(transport)
                              /\ ctx[t] = active

\* At most one transport owner task is alive, the published one: a new
\* connection never starts while an old one is still cleaning up (loop.py:
\* _reset_mcp_transport_state refuses to run before owner exit).
OneTransport ==
    \A g \in Gen : phase[g] \notin {"absent", "done"} => transport = g

\* The task that created the published transport is still inside the call
\* that will close it: nobody leaves a connection behind, whatever was
\* cancelled or failed (mcp_lifespan, _connect_mcp).
TransportAttended ==
    transport # None =>
        \E t \in Task : /\ ownerTask = t
                        /\ t \in Manual \/ pc[t] \in {"connecting", "reap", "body", "drain",
                                                     "closing", "aclose"}

\* Together: whatever is connected, its owner is the only one, and the task
\* that has to close it is there to do so.
TransportOwned == OneTransport /\ TransportAttended

\* The registry shows exactly the catalog of the live connection, and no
\* MCP tool at all without a transport; a server about to be connected never
\* collides with tools left behind (mcp.py connect_mcp_servers,
\* registry.py unregister_many, loop.py _reset_mcp_transport_state).
CatalogExact ==
    /\ connected => \A s \in Server :
                       registry[s] = IF <<s, transport>> \in catalog THEN transport ELSE None
    /\ transport = None => \A s \in Server : registry[s] = None
    /\ \A g \in Gen, s \in Server :
          phase[g] \in {"created", "connecting"} /\ report[g][s] = "untried" => registry[s] = None

\* A call that a cancellation reached ends with that cancellation, and no
\* call ends with one that did not reach it, whatever else failed meanwhile
\* (loop.py: "without abandoning cleanup on cancellation").
CancellationReported ==
    \A t \in Task : pc[t] \in {"ready", "done"} => (hit[t] <=> "cancelled" \in outcome[t])

\* When the shared drain of aclose is over, no public operation is running
\* or waiting, and none is admitted again (loop.py _agent_entry, aclose).
AgentCloseTerminal ==
    closeTask = "finished" =>
        \A t \in Task : entries[t] = 0 /\ borrowers[t] = 0

-----------------------------------------------------------------------------
(* Fairness: the event loop resumes a task whose await is over; a cancelled *)
(* task unwinds (none of the bodies swallows a cancellation); the transport *)
(* owner's own steps end (every server has a connect timeout, and closing   *)
(* the stack is assumed to end).  Nothing makes a body that was not         *)
(* cancelled return.                                                        *)

Unwinds(t) ==
    \/ LeaseExit(t, TRUE)
    \/ BodyExit(t, "cancelled")
    \/ Finish(t) /\ (cancel[t] \/ "cancelled" \in outcome[t])

Fairness ==
    /\ \A t \in Task : WF_vars(Resume(t) \/ Unwinds(t))
    /\ \A g \in Gen : WF_vars(OwnerNext(g))
    /\ WF_vars(CloseTaskStart) /\ WF_vars(CloseTaskEnd)

FairSpec == Spec /\ Fairness

\* An owner that took the one cancellation of its initiator for the failure of
\* a server, and serves: the initiator waits for it to end, and nobody else
\* may tell it to.
Deaf == \E g \in Gen, s \in Server : phase[g] = "serving" /\ report[g][s] = "swallowed"

\* A cancelled scope holder lets go of the scope lock, wherever the
\* cancellation hits it: it cancels its borrowers, closes its transport and
\* leaves (mcp_lifespan, _drain_mcp_borrowers).
CancelledHolderLeaves ==
    \A t \in Task : (holder = t /\ cancel[t]) ~> (holder # t \/ Deaf)

\* aclose returns: everything it waits for was cancelled and ends.
ACloseTerminates ==
    \A t \in Task : (pc[t] = "aclose") ~> (pc[t] # "aclose" \/ Deaf)

\* Nobody is kept waiting by the scope he was cancelled in, nor by aclose,
\* unless an owner is deaf: then the code does keep its initiator waiting,
\* against the comment in _connect_mcp ("so the owner can leave connect").
NobodyStuck == CancelledHolderLeaves /\ ACloseTerminates
=============================================================================
