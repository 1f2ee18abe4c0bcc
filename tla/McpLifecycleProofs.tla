------------------------- MODULE McpLifecycleProofs -------------------------
(***************************************************************************)
(* Proofs about McpLifecycle for every set of tasks, servers, transports   *)
(* and scope tokens: types first, then safety where everybody uses scopes, *)
(* Manual = {}.  (A manual user may close a transport that a scope has     *)
(* just been given; only the fault lab is one.)                            *)
(***************************************************************************)
EXTENDS McpLifecycle, TLAPS, SequenceTheorems

USE DEF taskVars, scopeVars, transportVars, ownerVars, agentVars

\* A waiter can leave the queue from any position.
LEMMA RemoveTyped ==
    ASSUME NEW S, NEW q \in Seq(S), NEW i \in 1..Len(q)
    PROVE  SubSeq(q, 1, i - 1) \o SubSeq(q, i + 1, Len(q)) \in Seq(S)
<1>1. Len(q) \in Nat /\ \A j \in 1..Len(q) : q[j] \in S
  BY LenProperties, ElementOfSeq
<1>2. SubSeq(q, 1, i - 1) \in Seq(S)
  BY <1>1, SubSeqProperties, SMT
<1>3. SubSeq(q, i + 1, Len(q)) \in Seq(S)
  BY <1>1, SubSeqProperties, SMT
<1> QED BY <1>2, <1>3, ConcatProperties

\* The step of a transport owner task keeps every variable in its type.
LEMMA OwnerTyped == ASSUME TypeOK, NEW g \in Gen, OwnerNext(g) PROVE TypeOK'
<1>1. CASE OwnerStart(g)  BY <1>1 DEF TypeOK, TaskTypes, ScopeTypes, TransportTypes, OwnerTypes, AgentTypes, OwnerStart, Phases
<1>2. CASE OwnerUnstarted(g)  BY <1>2 DEF TypeOK, TaskTypes, ScopeTypes, TransportTypes, OwnerTypes, AgentTypes, OwnerUnstarted, Phases
<1>3. ASSUME NEW s \in Server, NEW result \in {"connected", "failed", "swallowed"}, ConnectServer(g, s, result)
      PROVE TypeOK'
  BY <1>3 DEF TypeOK, TaskTypes, ScopeTypes, TransportTypes, OwnerTypes, AgentTypes, ConnectServer, Phases, ToolsOf
<1>4. ASSUME NEW error \in {"cancelled", "startup"}, ConnectFailed(g, error)
      PROVE TypeOK'
  BY <1>4 DEF TypeOK, TaskTypes, ScopeTypes, TransportTypes, OwnerTypes, AgentTypes, ConnectFailed, Phases, Unregister, ToolsOf
<1>5. CASE OwnerShutdown(g)  BY <1>5 DEF TypeOK, TaskTypes, ScopeTypes, TransportTypes, OwnerTypes, AgentTypes, OwnerShutdown, Phases
<1>6. ASSUME NEW failed \in BOOLEAN, CloseStack(g, failed) PROVE TypeOK'
  BY <1>6 DEF TypeOK, TaskTypes, ScopeTypes, TransportTypes, OwnerTypes, AgentTypes, CloseStack, Phases
<1> QED BY <1>1, <1>2, <1>3, <1>4, <1>5, <1>6 DEF OwnerNext
\* Ending a call changes only the caller's frame and the scope lock.
LEMMA EndCallTyped ==
    ASSUME TypeOK, NEW t \in Task, NEW errors \in SUBSET Errors, EndCall(t, errors)
    PROVE  /\ pc' \in [Task -> PcValues]
           /\ entries' \in [Task -> Nat]
           /\ held' \in [Task -> BOOLEAN]
           /\ bodyErr' \in [Task -> {"none", "body", "closed", "cancelled"}]
           /\ errs' \in [Task -> SUBSET Errors]
           /\ outcome' \in [Task -> SUBSET Errors]
           /\ tr' \in [Task -> Gen \cup {None}]
           /\ initiator' \in [Task -> BOOLEAN]
           /\ holder' \in Task \cup {None}
BY DEF TypeOK, TaskTypes, ScopeTypes, PcValues, EndCall, Pop

LEMMA ResetTyped ==
    ASSUME TypeOK, NEW g \in Gen, ResetTransport(g) PROVE TransportTypes'
BY DEF TypeOK, TransportTypes, ResetTransport, Unregister

\* The errors a call ends with are errors.
LEMMA ErrorsTyped ==
    ASSUME TypeOK, NEW t \in Task, NEW g \in Gen,
           NEW cleanup \in SUBSET Errors, NEW body \in {"none", "body", "closed", "cancelled"}
    PROVE  /\ Held(t) \in SUBSET Errors
           /\ CleanupOf(g) \in SUBSET Errors
           /\ StartupErrors(t, g) \in SUBSET Errors
           /\ Combine(body, cleanup) \in SUBSET Errors
<1>1. Held(t) \in SUBSET Errors /\ CleanupOf(g) \in SUBSET Errors
  BY DEF Held, CleanupOf, Errors
<1>2. startErr[g] \in {"none", "cancelled", "startup"}
  BY DEF TypeOK, OwnerTypes
<1>3. StartupErrors(t, g) \in SUBSET Errors
  BY <1>1, <1>2 DEF StartupErrors, Errors
<1>4. Combine(body, cleanup) \in SUBSET Errors
  BY DEF Combine, Errors
<1> QED BY <1>1, <1>3, <1>4
\* A task that awaits a transport owner task awaits an existing one.
AwaitsOwner == \A t \in Task : pc[t] \in {"connecting", "reap", "closing"} => tr[t] \in Gen

\* What a lemma about one helper has to say about the variables it may change.
CallTypes ==
    /\ pc \in [Task -> PcValues]
    /\ entries \in [Task -> Nat]
    /\ held \in [Task -> BOOLEAN]
    /\ bodyErr \in [Task -> {"none", "body", "closed", "cancelled"}]
    /\ errs \in [Task -> SUBSET Errors]
    /\ outcome \in [Task -> SUBSET Errors]
    /\ tr \in [Task -> Gen \cup {None}]
    /\ initiator \in [Task -> BOOLEAN]
    /\ holder \in Task \cup {None}

LEMMA AwaitStartupTyped ==
    ASSUME TypeOK, NEW t \in Task, AwaitStartup(t)
    PROVE  /\ pc' \in [Task -> PcValues] /\ tr' \in [Task -> Gen \cup {None}]
           /\ initiator' \in [Task -> BOOLEAN] /\ transport' \in Gen \cup {None}
           /\ ownerTask' \in Task \cup {None} /\ phase' \in [Gen -> Phases]
<1>1. CASE transport # None
  <2>1. /\ pc' = [pc EXCEPT ![t] = "connecting"]
        /\ tr' = [tr EXCEPT ![t] = transport]
        /\ initiator' = [initiator EXCEPT ![t] = FALSE]
        /\ UNCHANGED <<transport, ownerTask, phase>>
    BY <1>1 DEF AwaitStartup
  <2> QED BY <2>1 DEF TypeOK, TaskTypes, TransportTypes, OwnerTypes, PcValues
<1>2. CASE transport = None
  <2>1. PICK g \in Gen : /\ phase' = [phase EXCEPT ![g] = "created"]
                         /\ transport' = g
                         /\ tr' = [tr EXCEPT ![t] = g]
    BY <1>2 DEF AwaitStartup
  <2>2. /\ pc' = [pc EXCEPT ![t] = "connecting"]
        /\ ownerTask' = t
        /\ initiator' = [initiator EXCEPT ![t] = TRUE]
    BY <1>2 DEF AwaitStartup
  <2> QED BY <2>1, <2>2 DEF TypeOK, TaskTypes, TransportTypes, OwnerTypes, PcValues, Phases
<1> QED BY <1>1, <1>2

LEMMA EnterScopeTyped ==
    ASSUME TypeOK, NEW t \in Task, EnterScope(t)
    PROVE  /\ pc' \in [Task -> PcValues] /\ ctx' \in [Task -> Scope \cup {None}]
           /\ tr' \in [Task -> Gen \cup {None}] /\ initiator' \in [Task -> BOOLEAN]
           /\ borrowers' \in [Task -> Nat]
           /\ holder' \in Task \cup {None} /\ owns' \in BOOLEAN
           /\ active' \in Scope \cup {None} /\ accepting' \in BOOLEAN
           /\ usedScopes' \subseteq Scope /\ drainSet' \subseteq Task /\ aborting' \in BOOLEAN
           /\ TransportTypes' /\ OwnerTypes'
<1>1. CASE connected
  <2>1. Activate(t, FALSE)
    BY <1>1 DEF EnterScope
  <2>2. /\ pc' \in [Task -> PcValues] /\ ctx' \in [Task -> Scope \cup {None}]
        /\ active' \in Scope \cup {None} /\ usedScopes' \subseteq Scope
        /\ accepting' \in BOOLEAN /\ owns' \in BOOLEAN
    <3>1. PICK k \in Scope : /\ ctx' = [ctx EXCEPT ![t] = k]
                             /\ active' = k
                             /\ usedScopes' = usedScopes \cup {k}
      BY <2>1 DEF Activate
    <3>2. accepting' = TRUE /\ owns' = FALSE /\ pc' = [pc EXCEPT ![t] = "body"]
      BY <2>1 DEF Activate
    <3> QED BY <3>1, <3>2 DEF TypeOK, TaskTypes, ScopeTypes, PcValues
  <2>3. UNCHANGED <<tr, initiator, transportVars, ownerVars, borrowers, drainSet, aborting>>
        /\ holder' = t
    BY <1>1 DEF EnterScope
  <2> QED BY <2>2, <2>3 DEF TypeOK, TaskTypes, ScopeTypes, TransportTypes, OwnerTypes
<1>2. CASE ~connected
  <2>1. AwaitStartup(t)
    BY <1>2 DEF EnterScope
  <2>2. /\ pc' \in [Task -> PcValues] /\ tr' \in [Task -> Gen \cup {None}]
        /\ initiator' \in [Task -> BOOLEAN] /\ transport' \in Gen \cup {None}
        /\ ownerTask' \in Task \cup {None} /\ phase' \in [Gen -> Phases]
    BY <2>1, AwaitStartupTyped
  <2> QED BY <1>2, <2>2 DEF EnterScope, TypeOK, TaskTypes, ScopeTypes, TransportTypes, OwnerTypes
<1> QED BY <1>1, <1>2

LEMMA ReapTyped ==
    ASSUME TypeOK, NEW t \in Task, NEW g \in Gen, ReapNow(t, g)
    PROVE  CallTypes' /\ TransportTypes'
<1>1. StartupErrors(t, g) \in SUBSET Errors
  BY ErrorsTyped
<1>2. EndCall(t, StartupErrors(t, g)) /\ ResetTransport(g)
  BY DEF ReapNow
<1> QED BY <1>1, <1>2, EndCallTyped, ResetTyped DEF CallTypes

LEMMA CloseOwnedTyped ==
    ASSUME TypeOK, NEW t \in Task, NEW own \in BOOLEAN, NEW cleanup \in SUBSET Errors,
           NEW body \in {"none", "body", "closed", "cancelled"},
           CloseOwned(t, own, body, cleanup)
    PROVE  CallTypes' /\ shutdown' \in [Gen -> BOOLEAN]
<1> DEFINE over == ~own \/ transport = None
           refused == ~over /\ ownerTask # t
           all == cleanup \cup IF refused THEN {"refused"} ELSE {}
<1>1. all \in SUBSET Errors
  BY DEF Errors
<1>2. CASE over \/ refused
  <2>1. Combine(body, all) \in SUBSET Errors
    BY <1>1 DEF Combine, Errors
  <2>2. EndCall(t, Combine(body, all)) /\ UNCHANGED shutdown
    BY <1>2 DEF CloseOwned
  <2> QED BY <2>1, <2>2, EndCallTyped DEF CallTypes, TypeOK, OwnerTypes
<1>3. CASE ~(over \/ refused)
  <2>1. /\ shutdown' = [shutdown EXCEPT ![transport] = TRUE]
        /\ tr' = [tr EXCEPT ![t] = transport]
        /\ pc' = [pc EXCEPT ![t] = "closing"]
        /\ held' = [held EXCEPT ![t] = FALSE]
        /\ bodyErr' = [bodyErr EXCEPT ![t] = body]
        /\ errs' = [errs EXCEPT ![t] = cleanup]
        /\ entries' = [entries EXCEPT ![t] = Base(t)]
        /\ UNCHANGED <<outcome, initiator, holder>>
    BY <1>3 DEF CloseOwned, NestedOver
  <2> QED BY <2>1 DEF Base, CallTypes, TypeOK, TaskTypes, ScopeTypes, OwnerTypes, TransportTypes, PcValues
<1> QED BY <1>2, <1>3

LEMMA DrainPassTyped ==
    ASSUME TypeOK, NEW t \in Task, NEW body \in {"none", "body", "closed", "cancelled"},
           NEW b \in [Task -> Nat], NEW c \in [Task -> BOOLEAN], NEW abort \in BOOLEAN,
           DrainPass(t, body, b, c, abort), hit' \in [Task -> BOOLEAN]
    PROVE  TypeOK'
<1> DEFINE remaining == Remaining(b)
<1>1. remaining \subseteq Task
  BY DEF Remaining
<1>2. /\ borrowers' \in [Task -> Nat]
      /\ accepting' \in BOOLEAN /\ aborting' \in BOOLEAN /\ drainSet' \subseteq Task
  BY <1>1 DEF DrainPass
<1>3. UNCHANGED <<owns, scopeQ, usedScopes, transportVars, phase, startErr, ownerCancel, report,
                  cleanupErr, agentVars>>
  BY DEF DrainPass
<1>4. CASE remaining # {}
  <2>1. /\ pc' = [pc EXCEPT ![t] = "drain"]
        /\ cancel' = [x \in Task |-> c[x] \/ (abort /\ x \in remaining)]
        /\ bodyErr' = [bodyErr EXCEPT ![t] = body]
        /\ entries' = [entries EXCEPT ![t] = Base(t)]
        /\ UNCHANGED <<ctx, active, errs, held, outcome, tr, initiator, holder, shutdown>>
    BY <1>4 DEF DrainPass, NestedOver
  <2>2. cancel' \in [Task -> BOOLEAN]
    BY <2>1
  <2>3. CallTypes'
    BY <2>1 DEF Base, TypeOK, CallTypes, TaskTypes, ScopeTypes, PcValues
  <2> QED BY <1>2, <1>3, <2>1, <2>2, <2>3, ZenonT(60)
          DEF TypeOK, CallTypes, TaskTypes, ScopeTypes, TransportTypes, OwnerTypes, AgentTypes
<1>5. CASE remaining = {}
  <2>1. CloseOwned(t, owns, body, Held(t)) /\ cancel' = c /\ active' = None
    BY <1>5 DEF DrainPass
  <2>2. Held(t) \in SUBSET Errors /\ owns \in BOOLEAN
    BY DEF Held, Errors, TypeOK, ScopeTypes
  <2>3. CallTypes' /\ shutdown' \in [Gen -> BOOLEAN]
    BY <2>1, <2>2, CloseOwnedTyped
  <2>4. ctx' \in [Task -> Scope \cup {None}]
    BY <1>5 DEF DrainPass, TypeOK, TaskTypes
  <2> QED BY <1>2, <1>3, <2>1, <2>3, <2>4
          DEF TypeOK, CallTypes, TaskTypes, ScopeTypes, TransportTypes, OwnerTypes, AgentTypes
<1> QED BY <1>4, <1>5

\* The event loop resumes a task.
LEMMA ResumeTyped == ASSUME TypeOK, AwaitsOwner, NEW t \in Task, Resume(t) PROVE TypeOK'
<1>0. pc[t] \in {"connecting", "reap", "closing"} => tr[t] \in Gen
  BY DEF AwaitsOwner
<1>1. CASE AcquireScope(t)
  <2>1. CASE closing
    <3>1. EndCall(t, {"closed"}) /\ {"closed"} \in SUBSET Errors
      BY <1>1, <2>1 DEF AcquireScope, Errors
    <3>2. CallTypes'
      BY <3>1, EndCallTyped DEF CallTypes
    <3>3. scopeQ' \in Seq(Task)
      BY <1>1, HeadTailProperties DEF AcquireScope, TypeOK, ScopeTypes
    <3>4. UNCHANGED <<ctx, borrowers, owns, active, accepting, usedScopes, drainSet, aborting,
                      transportVars, ownerVars, cancel, hit, agentVars>>
      BY <1>1, <2>1 DEF AcquireScope
    <3>5. TaskTypes'
      BY <3>2, <3>3, <3>4 DEF CallTypes, TypeOK, TaskTypes
    <3>6. ScopeTypes'
      BY <3>2, <3>3, <3>4 DEF CallTypes, TypeOK, ScopeTypes
    <3>7. TransportTypes' /\ OwnerTypes' /\ AgentTypes'
      BY <3>2, <3>3, <3>4 DEF TypeOK, TransportTypes, OwnerTypes, AgentTypes
    <3> QED BY <3>5, <3>6, <3>7 DEF TypeOK
  <2>2. CASE ~closing
    <3>1. scopeQ' \in Seq(Task)
      BY <1>1, HeadTailProperties DEF AcquireScope, TypeOK, ScopeTypes
    <3>2. /\ EnterScope(t)
          /\ UNCHANGED <<entries, held, bodyErr, errs, outcome, cancel, hit, agentVars>>
      BY <1>1, <2>2 DEF AcquireScope
    <3> QED BY <3>1, <3>2, EnterScopeTyped DEF TypeOK, TaskTypes, ScopeTypes, AgentTypes
  <2> QED BY <2>1, <2>2
<1>2. CASE CancelWaiter(t)
  <2>1. scopeQ' \in Seq(Task)
    BY <1>2, RemoveTyped DEF CancelWaiter, TypeOK, ScopeTypes
  <2>2. EndCall(t, {"cancelled"}) /\ {"cancelled"} \in SUBSET Errors
    BY <1>2 DEF CancelWaiter, Errors
  <2>3. CallTypes'
    BY <2>2, EndCallTyped DEF CallTypes
  <2>4. /\ cancel' = [cancel EXCEPT ![t] = FALSE]
        /\ hit' = [hit EXCEPT ![t] = TRUE]
        /\ UNCHANGED <<ctx, borrowers, owns, active, accepting, usedScopes, drainSet, aborting,
                       transportVars, ownerVars, agentVars>>
    BY <1>2 DEF CancelWaiter
  <2>5. TaskTypes'
    BY <2>1, <2>3, <2>4 DEF CallTypes, TypeOK, TaskTypes
  <2>6. ScopeTypes'
    BY <2>1, <2>3, <2>4 DEF CallTypes, TypeOK, ScopeTypes
  <2>7. TransportTypes' /\ OwnerTypes' /\ AgentTypes'
    BY <2>1, <2>3, <2>4 DEF TypeOK, TransportTypes, OwnerTypes, AgentTypes
  <2> QED BY <2>5, <2>6, <2>7 DEF TypeOK
<1>3. CASE ConnectSucceeds(t)
  <2>1. CASE holder # t
    <3>1. EndCall(t, {}) /\ {} \in SUBSET Errors
      BY <1>3, <2>1 DEF ConnectSucceeds
    <3>2. CallTypes'
      BY <3>1, EndCallTyped DEF CallTypes
    <3>3. UNCHANGED <<ctx, active, usedScopes, accepting, owns, shutdown, borrowers, cancel, hit,
                      scopeQ, drainSet, aborting, transportVars, phase, startErr, ownerCancel,
                      report, cleanupErr, agentVars>>
      BY <1>3, <2>1 DEF ConnectSucceeds
    <3>4. TaskTypes'
      BY <3>2, <3>3 DEF CallTypes, TypeOK, TaskTypes
    <3>5. ScopeTypes'
      BY <3>2, <3>3 DEF CallTypes, TypeOK, ScopeTypes
    <3>6. TransportTypes' /\ OwnerTypes' /\ AgentTypes'
      BY <3>2, <3>3 DEF TypeOK, TransportTypes, OwnerTypes, AgentTypes
    <3> QED BY <3>4, <3>5, <3>6 DEF TypeOK
  <2>2. CASE holder = t /\ (closing => t \in Bare)
    <3>1. /\ Activate(t, initiator[t])
          /\ UNCHANGED <<entries, held, bodyErr, errs, outcome, tr, initiator, holder, shutdown,
                         borrowers, cancel, hit, scopeQ, drainSet, aborting, transportVars, phase,
                         startErr, ownerCancel, report, cleanupErr, agentVars>>
      BY <1>3, <2>2 DEF ConnectSucceeds
    <3>2. initiator[t] \in BOOLEAN
      BY DEF TypeOK, TaskTypes
    <3> QED BY <3>1, <3>2 DEF TypeOK, TaskTypes, ScopeTypes, TransportTypes, OwnerTypes, AgentTypes, Activate, PcValues
  <2>3. CASE holder = t /\ ~(closing => t \in Bare)
    <3>1. CloseOwned(t, initiator[t], "closed", {})
      BY <1>3, <2>3 DEF ConnectSucceeds
    <3>2. {} \in SUBSET Errors /\ initiator[t] \in BOOLEAN
      BY DEF TypeOK, TaskTypes
    <3>3. CallTypes' /\ shutdown' \in [Gen -> BOOLEAN]
      BY <3>1, <3>2, CloseOwnedTyped
    <3> QED BY <1>3, <2>3, <3>2, <3>3, SMTT(60) DEF CallTypes, TypeOK, TaskTypes, ScopeTypes, TransportTypes, OwnerTypes, AgentTypes, ConnectSucceeds
  <2> QED BY <2>1, <2>2, <2>3
<1>4. CASE ConnectFails(t)
  <2>1. tr[t] \in Gen
    BY <1>0, <1>4 DEF ConnectFails
  <2>2. CASE OwnerExited(tr[t])
    <3>1. ReapNow(t, tr[t])
      BY <1>4, <2>2 DEF ConnectFails
    <3>2. CallTypes' /\ TransportTypes'
      BY <2>1, <3>1, ReapTyped
    <3> QED BY <1>4, <3>2 DEF CallTypes, TypeOK, TaskTypes, ScopeTypes, TransportTypes, OwnerTypes, AgentTypes, ConnectFails
  <2>3. CASE ~OwnerExited(tr[t])
    <3>1. /\ pc' = [pc EXCEPT ![t] = "reap"]
          /\ UNCHANGED <<entries, held, bodyErr, errs, outcome, tr, initiator, holder,
                         transportVars, ctx, borrowers, cancel, hit, scopeQ, owns, active,
                         accepting, usedScopes, drainSet, aborting, ownerVars, agentVars>>
      BY <1>4, <2>3 DEF ConnectFails
    <3> QED BY <3>1, SMTT(60) DEF TypeOK, TaskTypes, ScopeTypes, TransportTypes, OwnerTypes, AgentTypes, PcValues
  <2> QED BY <2>2, <2>3
<1>5. CASE CancelConnect(t)
  <2>1. CASE ~initiator[t]
    <3>1. EndCall(t, {"cancelled"}) /\ {"cancelled"} \in SUBSET Errors
      BY <1>5, <2>1 DEF CancelConnect, Errors
    <3>2. CallTypes'
      BY <3>1, EndCallTyped DEF CallTypes
    <3>3. /\ cancel' = [cancel EXCEPT ![t] = FALSE]
          /\ hit' = [hit EXCEPT ![t] = TRUE]
          /\ UNCHANGED <<shutdown, ownerCancel, ctx, borrowers, scopeQ, owns, active, accepting,
                         usedScopes, drainSet, aborting, transportVars, phase, startErr, report,
                         cleanupErr, agentVars>>
      BY <1>5, <2>1 DEF CancelConnect
    <3>4. TaskTypes'
      BY <3>2, <3>3 DEF CallTypes, TypeOK, TaskTypes
    <3>5. ScopeTypes'
      BY <3>2, <3>3 DEF CallTypes, TypeOK, ScopeTypes
    <3>6. TransportTypes' /\ OwnerTypes' /\ AgentTypes'
      BY <3>2, <3>3 DEF TypeOK, TransportTypes, OwnerTypes, AgentTypes
    <3> QED BY <3>4, <3>5, <3>6 DEF TypeOK
  <2>2. CASE initiator[t]
    <3>1. /\ cancel' = [cancel EXCEPT ![t] = FALSE]
          /\ hit' = [hit EXCEPT ![t] = TRUE]
          /\ held' = [held EXCEPT ![t] = TRUE]
          /\ ownerCancel' = [ownerCancel EXCEPT ![tr[t]] = @ \/ ~Started(tr[t])]
          /\ shutdown' = [shutdown EXCEPT ![tr[t]] =
                             @ \/ (Started(tr[t]) /\ startErr[tr[t]] = "none")]
          /\ pc' = [pc EXCEPT ![t] = "reap"]
          /\ UNCHANGED <<entries, bodyErr, errs, outcome, tr, initiator, holder, ctx, borrowers,
                         scopeQ, owns, active, accepting, usedScopes, drainSet, aborting,
                         transportVars, phase, startErr, report, cleanupErr, agentVars>>
      BY <1>5, <2>2 DEF CancelConnect
    <3>2. ownerCancel' \in [Gen -> BOOLEAN] /\ shutdown' \in [Gen -> BOOLEAN]
      BY <3>1 DEF TypeOK, OwnerTypes
    <3> QED BY <3>1, <3>2 DEF TypeOK, TaskTypes, ScopeTypes, TransportTypes, OwnerTypes, AgentTypes, PcValues
  <2> QED BY <2>1, <2>2
<1>6. CASE Reap(t)
  <2>1. tr[t] \in Gen /\ ReapNow(t, tr[t])
    BY <1>0, <1>6 DEF Reap
  <2>2. CallTypes' /\ TransportTypes'
    BY <2>1, ReapTyped
  <2> QED BY <1>6, <2>2 DEF CallTypes, TypeOK, TaskTypes, ScopeTypes, TransportTypes, OwnerTypes, AgentTypes, Reap
<1>7. CASE Absorb(t)
  BY <1>7, SMTT(60) DEF TypeOK, TaskTypes, ScopeTypes, TransportTypes, OwnerTypes, AgentTypes, Absorb
<1>8. CASE DrainResume(t)
  <2>1. DrainPass(t, bodyErr[t], borrowers, cancel, aborting)
    BY <1>8 DEF DrainResume
  <2>2. /\ bodyErr[t] \in {"none", "body", "closed", "cancelled"} /\ borrowers \in [Task -> Nat]
        /\ cancel \in [Task -> BOOLEAN] /\ aborting \in BOOLEAN /\ hit' \in [Task -> BOOLEAN]
    BY <1>8 DEF DrainResume, TypeOK, TaskTypes, ScopeTypes
  <2> QED BY <2>1, <2>2, DrainPassTyped
<1>9. CASE DrainCancelled(t)
  <2>1. /\ held' = [held EXCEPT ![t] = TRUE]
        /\ hit' = [hit EXCEPT ![t] = TRUE]
        /\ aborting' = TRUE
        /\ UNCHANGED <<pc, ctx, entries, borrowers, bodyErr, errs, outcome, tr, initiator, holder,
                       scopeQ, owns, active, accepting, usedScopes, drainSet, transportVars,
                       ownerVars, agentVars>>
    BY <1>9 DEF DrainCancelled
  <2>2. cancel' \in [Task -> BOOLEAN]
    BY <1>9 DEF DrainCancelled, TypeOK, TaskTypes
  <2>3. TaskTypes'
    BY <2>1, <2>2 DEF CallTypes, TypeOK, TaskTypes
  <2>4. ScopeTypes'
    BY <2>1, <2>2 DEF CallTypes, TypeOK, ScopeTypes
  <2>5. TransportTypes' /\ OwnerTypes' /\ AgentTypes'
    BY <2>1, <2>2 DEF TypeOK, TransportTypes, OwnerTypes, AgentTypes
  <2> QED BY <2>3, <2>4, <2>5 DEF TypeOK
<1>10. CASE CloseReturns(t)
  <2>1. tr[t] \in Gen /\ errs[t] \in SUBSET Errors /\ bodyErr[t] \in {"none", "body", "closed", "cancelled"}
    BY <1>0, <1>10 DEF CloseReturns, TypeOK, TaskTypes
  <2> DEFINE cleanup == errs[t] \cup Held(t) \cup CleanupOf(tr[t])
  <2>2. cleanup \in SUBSET Errors
    BY <2>1, ErrorsTyped
  <2>3. Combine(bodyErr[t], cleanup) \in SUBSET Errors
    BY <2>1, <2>2, ErrorsTyped
  <2>4. EndCall(t, Combine(bodyErr[t], cleanup)) /\ ResetTransport(tr[t])
    BY <1>10 DEF CloseReturns
  <2>5. CallTypes' /\ TransportTypes'
    BY <2>1, <2>3, <2>4, EndCallTyped, ResetTyped DEF CallTypes
  <2> QED BY <1>10, <2>5 DEF CallTypes, TypeOK, TaskTypes, ScopeTypes, TransportTypes, OwnerTypes, AgentTypes, CloseReturns
<1>11. CASE ACloseReturns(t)
  <2>1. CASE holder # t
    <3>1. Held(t) \in SUBSET Errors
      BY DEF Held, Errors
    <3>2. /\ pc' = [pc EXCEPT ![t] = "ready"]
          /\ outcome' = [outcome EXCEPT ![t] = @ \cup Held(t)]
          /\ held' = [held EXCEPT ![t] = FALSE]
          /\ UNCHANGED <<ctx, entries, borrowers, cancel, bodyErr, errs, tr, initiator, hit,
                         scopeVars, transportVars, ownerVars, agentVars>>
      BY <1>11, <2>1 DEF ACloseReturns
    <3> QED BY <3>1, <3>2 DEF TypeOK, TaskTypes, ScopeTypes, TransportTypes, OwnerTypes, AgentTypes, PcValues
  <2>2. CASE holder = t /\ ~held[t] /\ bodyErr[t] = "none"
    BY <1>11, <2>2 DEF TypeOK, TaskTypes, ScopeTypes, TransportTypes, OwnerTypes, AgentTypes, ACloseReturns,
                       PcValues
  <2>3. CASE holder = t /\ (held[t] \/ bodyErr[t] # "none")
    <3>1. DrainPass(t, "cancelled", borrowers, cancel, TRUE)
      BY <1>11, <2>3 DEF ACloseReturns
    <3>2. /\ borrowers \in [Task -> Nat] /\ cancel \in [Task -> BOOLEAN]
          /\ hit' \in [Task -> BOOLEAN]
      BY <1>11 DEF ACloseReturns, TypeOK, TaskTypes
    <3> QED BY <3>1, <3>2, DrainPassTyped
  <2> QED BY <2>1, <2>2, <2>3
<1> QED BY <1>1, <1>2, <1>3, <1>4, <1>5, <1>6, <1>7, <1>8, <1>9, <1>10, <1>11 DEF Resume

\* The code running in a task makes a step.
LEMMA WorkTyped == ASSUME TypeOK, NEW t \in Task, Work(t) PROVE TypeOK'
<1>1. CASE CallRefused(t)
  <2>1. UNCHANGED <<pc, ctx, entries, borrowers, cancel, held, bodyErr, errs, tr, initiator, hit,
                    scopeVars, transportVars, ownerVars, agentVars>>
    BY <1>1 DEF CallRefused
  <2>2. outcome' \in [Task -> SUBSET Errors]
    BY <1>1 DEF CallRefused, TypeOK, TaskTypes, Errors
  <2> QED BY <2>1, <2>2 DEF TypeOK, TaskTypes, ScopeTypes, TransportTypes, OwnerTypes, AgentTypes
<1>2. CASE CallBorrow(t)
  <2>1. UNCHANGED <<ctx, cancel, held, bodyErr, errs, tr, initiator, hit, scopeVars, transportVars,
                    ownerVars, agentVars>>
    BY <1>2 DEF CallBorrow
  <2>2. entries' \in [Task -> Nat] /\ borrowers' \in [Task -> Nat]
    BY <1>2 DEF CallBorrow, TypeOK, TaskTypes
  <2>3. pc' = [pc EXCEPT ![t] = "lease"] /\ outcome' = [outcome EXCEPT ![t] = {}]
    BY <1>2 DEF CallBorrow
  <2>4. TaskTypes'
    BY <2>1, <2>2, <2>3 DEF TypeOK, TaskTypes, PcValues
  <2>5. ScopeTypes' /\ TransportTypes' /\ OwnerTypes' /\ AgentTypes'
    BY <2>1, <2>2 DEF TypeOK, ScopeTypes, TransportTypes, OwnerTypes, AgentTypes
  <2> QED BY <2>4, <2>5 DEF TypeOK
<1>3. CASE CallFresh(t)
  <2>1. /\ entries' \in [Task -> Nat] /\ outcome' \in [Task -> SUBSET Errors]
        /\ UNCHANGED <<cancel, held, bodyErr, errs, hit, agentVars>>
    BY <1>3 DEF CallFresh, TypeOK, TaskTypes
  <2>2. CASE holder = None /\ scopeQ = <<>>
    <3>1. EnterScope(t) /\ UNCHANGED scopeQ
      BY <1>3, <2>2 DEF CallFresh
    <3> QED BY <2>1, <3>1, EnterScopeTyped DEF TypeOK, TaskTypes, ScopeTypes, AgentTypes
  <2>3. CASE ~(holder = None /\ scopeQ = <<>>)
    <3>1. /\ pc' = [pc EXCEPT ![t] = "waitScope"]
          /\ scopeQ' = Append(scopeQ, t)
          /\ UNCHANGED <<ctx, borrowers, tr, initiator, holder, owns, active, accepting, usedScopes,
                         drainSet, aborting, transportVars, ownerVars>>
      BY <1>3, <2>3 DEF CallFresh
    <3>2. scopeQ' \in Seq(Task)
      BY <3>1, AppendProperties DEF TypeOK, ScopeTypes
    <3>3. TaskTypes'
      BY <2>1, <3>1 DEF TypeOK, TaskTypes, PcValues
    <3>4. ScopeTypes' /\ AgentTypes'
      BY <2>1, <3>1, <3>2 DEF TypeOK, ScopeTypes, AgentTypes
    <3>5. TransportTypes' /\ OwnerTypes'
      BY <2>1, <3>1 DEF TypeOK, TransportTypes, OwnerTypes
    <3> QED BY <3>3, <3>4, <3>5 DEF TypeOK
  <2> QED BY <2>2, <2>3
<1>4. ASSUME NEW c \in Task, Spawn(t, c) PROVE TypeOK'
  <2>1. /\ pc' = [pc EXCEPT ![c] = "ready"]
        /\ ctx' \in [Task -> Scope \cup {None}]
        /\ UNCHANGED <<entries, borrowers, cancel, held, bodyErr, errs, outcome, tr, initiator, hit,
                       scopeVars, transportVars, ownerVars, agentVars>>
    BY <1>4 DEF Spawn, TypeOK, TaskTypes
  <2>2. TaskTypes'
    BY <2>1 DEF TypeOK, TaskTypes, PcValues
  <2>3. ScopeTypes' /\ TransportTypes' /\ OwnerTypes' /\ AgentTypes'
    BY <2>1 DEF TypeOK, ScopeTypes, TransportTypes, OwnerTypes, AgentTypes
  <2> QED BY <2>2, <2>3 DEF TypeOK
<1>5. CASE NestedCall(t)
  <2>1. entries' \in [Task -> Nat] /\ borrowers' \in [Task -> Nat]
    BY <1>5 DEF NestedCall, TypeOK, TaskTypes
  <2>2. UNCHANGED <<pc, ctx, cancel, held, bodyErr, errs, outcome, tr, initiator, hit, scopeVars,
                    transportVars, ownerVars, agentVars>>
    BY <1>5 DEF NestedCall
  <2>10. TaskTypes'
    BY <2>1, <2>2 DEF TypeOK, TaskTypes, PcValues
  <2>11. ScopeTypes' /\ AgentTypes'
    BY <2>1, <2>2 DEF TypeOK, ScopeTypes, AgentTypes
  <2>12. TransportTypes' /\ OwnerTypes'
    BY <2>1, <2>2 DEF TypeOK, TransportTypes, OwnerTypes
  <2> QED BY <2>10, <2>11, <2>12 DEF TypeOK
<1>6. CASE NestedReturn(t)
  <2>1. entries' \in [Task -> Nat] /\ borrowers' \in [Task -> Nat]
    BY <1>6 DEF NestedReturn, Pop, TypeOK, TaskTypes
  <2>2. UNCHANGED <<pc, ctx, cancel, held, bodyErr, errs, outcome, tr, initiator, hit, scopeVars,
                    transportVars, ownerVars, agentVars>>
    BY <1>6 DEF NestedReturn
  <2>10. TaskTypes'
    BY <2>1, <2>2 DEF TypeOK, TaskTypes, PcValues
  <2>11. ScopeTypes' /\ AgentTypes'
    BY <2>1, <2>2 DEF TypeOK, ScopeTypes, AgentTypes
  <2>12. TransportTypes' /\ OwnerTypes'
    BY <2>1, <2>2 DEF TypeOK, TransportTypes, OwnerTypes
  <2> QED BY <2>10, <2>11, <2>12 DEF TypeOK
<1>7. ASSUME NEW cancelled \in BOOLEAN, LeaseExit(t, cancelled) PROVE TypeOK'
  <2>1. cancel' \in [Task -> BOOLEAN] /\ hit' \in [Task -> BOOLEAN]
    BY <1>7 DEF LeaseExit, TypeOK, TaskTypes
  <2>2. outcome' \in [Task -> SUBSET Errors]
    BY <1>7 DEF LeaseExit, TypeOK, TaskTypes, Errors
  <2>3. /\ pc' = [pc EXCEPT ![t] = "ready"]
        /\ borrowers' = [borrowers EXCEPT ![t] = 0]
        /\ entries' = [entries EXCEPT ![t] = 0]
        /\ UNCHANGED <<ctx, held, bodyErr, errs, tr, initiator, scopeVars, transportVars, ownerVars,
                       agentVars>>
    BY <1>7 DEF LeaseExit
  <2>4. TaskTypes'
    BY <2>1, <2>2, <2>3 DEF TypeOK, TaskTypes, PcValues
  <2>5. ScopeTypes' /\ TransportTypes' /\ OwnerTypes' /\ AgentTypes'
    BY <2>3 DEF TypeOK, ScopeTypes, TransportTypes, OwnerTypes, AgentTypes
  <2> QED BY <2>4, <2>5 DEF TypeOK
<1>8. ASSUME NEW error \in {"none", "body", "cancelled"}, BodyExit(t, error) PROVE TypeOK'
  <2> DEFINE c == [cancel EXCEPT ![t] = @ /\ error # "cancelled"]
             b == [borrowers EXCEPT ![t] = 0]
             abort == error # "none" \/ cancel[t]
  <2>1. DrainPass(t, error, b, c, abort) /\ hit' = [hit EXCEPT ![t] = @ \/ error = "cancelled"]
    BY <1>8 DEF BodyExit
  <2>2. /\ b \in [Task -> Nat] /\ c \in [Task -> BOOLEAN] /\ abort \in BOOLEAN
        /\ hit' \in [Task -> BOOLEAN]
    BY <2>1 DEF TypeOK, TaskTypes
  <2>3. error \in {"none", "body", "closed", "cancelled"}
    OBVIOUS
  <2> HIDE DEF b, c, abort
  <2> QED BY <2>1, <2>2, <2>3, DrainPassTyped
<1>9. CASE ManualConnect(t)
  <2>1. CASE connected
    BY <1>9, <2>1 DEF TypeOK, TaskTypes, ScopeTypes, TransportTypes, OwnerTypes, AgentTypes, ManualConnect
  <2>2. CASE ~connected
    <3>1. /\ AwaitStartup(t)
          /\ outcome' = [outcome EXCEPT ![t] = {}]
          /\ UNCHANGED <<ctx, entries, borrowers, cancel, held, bodyErr, errs, hit, scopeVars,
                         connected, catalog, registry, startErr, shutdown, ownerCancel, report,
                         cleanupErr, agentVars>>
      BY <1>9, <2>2 DEF ManualConnect
    <3>2. /\ pc' \in [Task -> PcValues] /\ tr' \in [Task -> Gen \cup {None}]
          /\ initiator' \in [Task -> BOOLEAN] /\ transport' \in Gen \cup {None}
          /\ ownerTask' \in Task \cup {None} /\ phase' \in [Gen -> Phases]
      BY <3>1, AwaitStartupTyped
    <3> QED BY <3>1, <3>2, ZenonT(60) DEF TypeOK, TaskTypes, ScopeTypes, TransportTypes, OwnerTypes, AgentTypes
  <2> QED BY <2>1, <2>2
<1>10. CASE ManualClose(t)
  <2> DEFINE refused == active # None \/ (transport # None /\ ownerTask # t)
  <2>1. UNCHANGED <<ctx, entries, borrowers, cancel, held, bodyErr, errs, initiator, hit, scopeVars,
                    transportVars, phase, startErr, ownerCancel, report, cleanupErr, agentVars>>
    BY <1>10 DEF ManualClose
  <2>2. CASE refused \/ transport = None
    <3>1. UNCHANGED <<pc, tr, shutdown>>
      BY <1>10, <2>2 DEF ManualClose
    <3>2. outcome' \in [Task -> SUBSET Errors]
      BY <1>10, <2>2 DEF ManualClose, TypeOK, TaskTypes, Errors
    <3> QED BY <2>1, <3>1, <3>2 DEF TypeOK, TaskTypes, ScopeTypes, TransportTypes, OwnerTypes, AgentTypes
  <2>3. CASE ~(refused \/ transport = None)
    <3>1. /\ shutdown' = [shutdown EXCEPT ![transport] = TRUE]
          /\ tr' = [tr EXCEPT ![t] = transport]
          /\ pc' = [pc EXCEPT ![t] = "closing"]
          /\ UNCHANGED outcome
      BY <1>10, <2>3 DEF ManualClose
    <3>2. TaskTypes'
      BY <2>1, <3>1 DEF TypeOK, TaskTypes, TransportTypes, PcValues
    <3>3. ScopeTypes' /\ AgentTypes' /\ TransportTypes'
      BY <2>1, <3>1 DEF TypeOK, ScopeTypes, AgentTypes, TransportTypes
    <3>4. OwnerTypes'
      BY <2>1, <3>1 DEF TypeOK, OwnerTypes
    <3> QED BY <3>2, <3>3, <3>4 DEF TypeOK
  <2> QED BY <2>2, <2>3
<1>11. CASE AClose(t)
  <2>1. cancel' \in [Task -> BOOLEAN] /\ hit' \in [Task -> BOOLEAN]
    BY <1>11 DEF AClose, TypeOK, TaskTypes
  <2> QED BY <1>11, <2>1 DEF TypeOK, TaskTypes, ScopeTypes, TransportTypes, OwnerTypes, AgentTypes, AClose, PcValues
<1>12. CASE Finish(t)
  BY <1>12 DEF TypeOK, TaskTypes, ScopeTypes, TransportTypes, OwnerTypes, AgentTypes, Finish, PcValues
<1> QED BY <1>1, <1>2, <1>3, <1>4, <1>5, <1>6, <1>7, <1>8, <1>9, <1>10, <1>11, <1>12 DEF Work

\* The remaining steps.
LEMMA OtherTyped ==
    ASSUME TypeOK,
           \/ \E t \in Task : Cancel(t)
           \/ CloseTaskStart
           \/ CloseTaskEnd
           \/ UNCHANGED vars
    PROVE  TypeOK'
<1>1. ASSUME NEW t \in Task, Cancel(t) PROVE TypeOK'
  <2>1. cancels' \in 0..MaxCancels
    BY <1>1, ConstantsAssumption DEF Cancel, TypeOK, AgentTypes
  <2>2. /\ cancel' = [cancel EXCEPT ![t] = TRUE]
        /\ UNCHANGED <<pc, ctx, entries, borrowers, held, bodyErr, errs, outcome, tr, initiator, hit,
                       scopeVars, transportVars, ownerVars, closing, closeTask, closeSet, excluded>>
    BY <1>1 DEF Cancel
  <2>3. TaskTypes'
    BY <2>2 DEF TypeOK, TaskTypes
  <2>4. ScopeTypes' /\ TransportTypes' /\ OwnerTypes'
    BY <2>2 DEF TypeOK, ScopeTypes, TransportTypes, OwnerTypes
  <2>5. AgentTypes'
    BY <2>1, <2>2 DEF TypeOK, AgentTypes
  <2> QED BY <2>3, <2>4, <2>5 DEF TypeOK
<1>2. CASE CloseTaskStart
  <2>1. cancel' \in [Task -> BOOLEAN] /\ closeSet' \subseteq Task /\ closeTask' = "draining"
    BY <1>2 DEF CloseTaskStart, TypeOK, TaskTypes
  <2>2. UNCHANGED <<pc, ctx, entries, borrowers, held, bodyErr, errs, outcome, tr, initiator, hit,
                    scopeVars, transportVars, ownerVars, closing, excluded, cancels>>
    BY <1>2 DEF CloseTaskStart
  <2> QED BY <2>1, <2>2, SMTT(60) DEF TypeOK, TaskTypes, ScopeTypes, TransportTypes, OwnerTypes, AgentTypes
<1>3. CASE CloseTaskEnd
  BY <1>3 DEF TypeOK, TaskTypes, ScopeTypes, TransportTypes, OwnerTypes, AgentTypes, CloseTaskEnd
<1>4. CASE UNCHANGED vars
  BY <1>4, SMTT(60) DEF TypeOK, TaskTypes, ScopeTypes, TransportTypes, OwnerTypes, AgentTypes, vars
<1> QED BY <1>1, <1>2, <1>3, <1>4

\* Whoever starts to await an owner task does so on the published one.
LEMMA AwaitsOwnerKept ==
    ASSUME TypeOK, AwaitsOwner, [Next]_vars PROVE AwaitsOwner'
<1> DEFINE Awaiting == {"connecting", "reap", "closing"}
           Kept(x) == pc'[x] \in Awaiting => tr'[x] \in Gen
<1>0. /\ pc \in [Task -> PcValues] /\ tr \in [Task -> Gen \cup {None}]
      /\ transport \in Gen \cup {None}
      /\ \A x \in Task : pc[x] \in Awaiting => tr[x] \in Gen
  BY DEF TypeOK, TaskTypes, TransportTypes, AwaitsOwner
<1> SUFFICES \A x \in Task : Kept(x)
  BY DEF AwaitsOwner
<1>1. ASSUME UNCHANGED pc, UNCHANGED tr PROVE \A x \in Task : Kept(x)
  BY <1>0, <1>1
<1>2. ASSUME NEW t \in Task, UNCHANGED tr, NEW v \in PcValues \ Awaiting,
             pc' = [pc EXCEPT ![t] = v]
      PROVE  \A x \in Task : Kept(x)
  BY <1>0, <1>2
<1>3. ASSUME NEW t \in Task, NEW errors, EndCall(t, errors) PROVE \A x \in Task : Kept(x)
  BY <1>0, <1>3 DEF EndCall
<1>4. ASSUME NEW t \in Task, AwaitStartup(t) PROVE \A x \in Task : Kept(x)
  <2>1. PICK g \in Gen : tr' = [tr EXCEPT ![t] = g]
    BY <1>0, <1>4 DEF AwaitStartup
  <2>2. pc' = [pc EXCEPT ![t] = "connecting"]
    BY <1>4 DEF AwaitStartup
  <2> QED BY <1>0, <2>1, <2>2
<1>5. ASSUME NEW t \in Task, EnterScope(t) PROVE \A x \in Task : Kept(x)
  <2>1. CASE AwaitStartup(t)
    BY <1>4, <2>1
  <2>2. CASE ~AwaitStartup(t)
    <3>1. pc' = [pc EXCEPT ![t] = "body"] /\ UNCHANGED tr
      BY <1>5, <2>2 DEF EnterScope, Activate
    <3> QED BY <1>2, <3>1 DEF PcValues
  <2> QED BY <2>1, <2>2
<1>6. ASSUME NEW t \in Task, NEW own, NEW body, NEW cleanup, CloseOwned(t, own, body, cleanup)
      PROVE  \A x \in Task : Kept(x)
  <2>1. CASE \E errors : EndCall(t, errors)
    BY <1>3, <2>1
  <2>2. CASE ~\E errors : EndCall(t, errors)
    <3>1. transport \in Gen /\ tr' = [tr EXCEPT ![t] = transport] /\ pc' = [pc EXCEPT ![t] = "closing"]
      BY <1>0, <1>6, <2>2 DEF CloseOwned
    <3> QED BY <1>0, <3>1
  <2> QED BY <2>1, <2>2
<1>7. ASSUME NEW t \in Task, NEW body, NEW b, NEW c, NEW abort, DrainPass(t, body, b, c, abort)
      PROVE  \A x \in Task : Kept(x)
  <2>1. CASE Remaining(b) # {}
    <3>1. pc' = [pc EXCEPT ![t] = "drain"] /\ UNCHANGED tr
      BY <1>7, <2>1 DEF DrainPass
    <3> QED BY <1>2, <3>1 DEF PcValues
  <2>2. CASE Remaining(b) = {}
    BY <1>6, <1>7, <2>2 DEF DrainPass
  <2> QED BY <2>1, <2>2
<1>8. ASSUME NEW g \in Gen, OwnerNext(g) PROVE \A x \in Task : Kept(x)
  <2>1. UNCHANGED taskVars
    BY <1>8 DEF OwnerNext, OwnerStart, OwnerUnstarted, ConnectServer, ConnectFailed, OwnerShutdown,
                CloseStack
  <2> QED BY <1>1, <2>1
<1>9. ASSUME NEW t \in Task, Resume(t) PROVE \A x \in Task : Kept(x)
  <2>1. CASE AcquireScope(t)
    BY <1>3, <1>5, <2>1 DEF AcquireScope
  <2>2. CASE CancelWaiter(t)
    BY <1>3, <2>2 DEF CancelWaiter
  <2>3. CASE ConnectSucceeds(t)
    <3>1. CASE Activate(t, initiator[t]) /\ UNCHANGED tr
      BY <1>2, <3>1 DEF Activate, PcValues
    <3> QED BY <1>3, <1>6, <2>3, <3>1 DEF ConnectSucceeds
  <2>4. CASE ConnectFails(t)
    <3>1. CASE OwnerExited(tr[t])
      BY <1>3, <2>4, <3>1 DEF ConnectFails, ReapNow
    <3>2. CASE ~OwnerExited(tr[t])
      BY <1>0, <2>4, <3>2 DEF ConnectFails
    <3> QED BY <3>1, <3>2
  <2>5. CASE CancelConnect(t)
    <3>1. CASE ~initiator[t]
      BY <1>3, <2>5, <3>1 DEF CancelConnect
    <3>2. CASE initiator[t]
      BY <1>0, <2>5, <3>2 DEF CancelConnect
    <3> QED BY <3>1, <3>2
  <2>6. CASE Reap(t)
    BY <1>3, <2>6 DEF Reap, ReapNow
  <2>7. CASE Absorb(t)
    BY <1>1, <2>7 DEF Absorb
  <2>8. CASE DrainResume(t)
    BY <1>7, <2>8 DEF DrainResume
  <2>9. CASE DrainCancelled(t)
    BY <1>1, <2>9 DEF DrainCancelled
  <2>10. CASE CloseReturns(t)
    BY <1>3, <2>10 DEF CloseReturns
  <2>11. CASE ACloseReturns(t)
    <3>1. CASE \E v \in {"ready", "body"} : pc' = [pc EXCEPT ![t] = v] /\ UNCHANGED tr
      BY <1>2, <3>1 DEF PcValues
    <3> QED BY <1>7, <2>11, <3>1 DEF ACloseReturns
  <2> QED BY <1>9, <2>1, <2>2, <2>3, <2>4, <2>5, <2>6, <2>7, <2>8, <2>9, <2>10, <2>11 DEF Resume
<1>10. ASSUME NEW t \in Task, Work(t) PROVE \A x \in Task : Kept(x)
  <2>1. CASE \E c \in Task : Spawn(t, c)
    <3>1. PICK c \in Task : pc' = [pc EXCEPT ![c] = "ready"] /\ UNCHANGED tr
      BY <2>1 DEF Spawn
    <3> QED BY <1>2, <3>1 DEF PcValues
  <2>2. CASE CallRefused(t) \/ NestedCall(t) \/ NestedReturn(t)
    BY <1>1, <2>2 DEF CallRefused, NestedCall, NestedReturn
  <2>3. CASE CallBorrow(t)
    BY <1>2, <2>3 DEF CallBorrow, PcValues
  <2>4. CASE CallFresh(t)
    <3>1. CASE EnterScope(t)
      BY <1>5, <3>1
    <3>2. CASE ~EnterScope(t)
      BY <1>2, <2>4, <3>2 DEF CallFresh, PcValues
    <3> QED BY <3>1, <3>2
  <2>5. CASE \E cancelled \in BOOLEAN : LeaseExit(t, cancelled)
    <3>1. pc' = [pc EXCEPT ![t] = "ready"] /\ UNCHANGED tr
      BY <2>5 DEF LeaseExit
    <3> QED BY <1>2, <3>1 DEF PcValues
  <2>6. CASE \E error \in {"none", "body", "cancelled"} : BodyExit(t, error)
    BY <1>7, <2>6 DEF BodyExit
  <2>7. CASE ManualConnect(t)
    BY <1>1, <1>4, <2>7 DEF ManualConnect
  <2>8. CASE ManualClose(t)
    <3>1. CASE UNCHANGED <<pc, tr>>
      BY <1>1, <3>1
    <3>2. CASE ~UNCHANGED <<pc, tr>>
      <4>1. transport \in Gen /\ tr' = [tr EXCEPT ![t] = transport] /\ pc' = [pc EXCEPT ![t] = "closing"]
        BY <1>0, <2>8, <3>2 DEF ManualClose
      <4> QED BY <1>0, <4>1
    <3> QED BY <3>1, <3>2
  <2>9. CASE AClose(t)
    BY <1>2, <2>9 DEF AClose, PcValues
  <2>10. CASE Finish(t)
    BY <1>2, <2>10 DEF Finish, PcValues
  <2> QED BY <1>10, <2>1, <2>2, <2>3, <2>4, <2>5, <2>6, <2>7, <2>8, <2>9, <2>10 DEF Work
<1>11. ASSUME NEW t \in Task, Cancel(t) PROVE \A x \in Task : Kept(x)
  BY <1>1, <1>11 DEF Cancel
<1>12. CASE CloseTaskStart \/ CloseTaskEnd
  BY <1>1, <1>12 DEF CloseTaskStart, CloseTaskEnd
<1>13. CASE UNCHANGED vars
  BY <1>1, <1>13 DEF vars
<1> QED BY <1>8, <1>9, <1>10, <1>11, <1>12, <1>13 DEF Next

\* TypeOK holds in every state: it is inductive together with AwaitsOwner.
THEOREM TypeCorrect == Spec => []TypeOK
<1>1. Init => TypeOK /\ AwaitsOwner
  <2> SUFFICES ASSUME Init PROVE TypeOK /\ AwaitsOwner
    OBVIOUS
  <2>1. TaskTypes /\ AwaitsOwner
    BY DEF Init, TaskTypes, PcValues, AwaitsOwner
  <2>2. <<>> \in Seq(Task)
    BY EmptySeq
  <2>3. ScopeTypes
    BY <2>2 DEF Init, ScopeTypes
  <2>4. TransportTypes /\ OwnerTypes
    BY DEF Init, TransportTypes, OwnerTypes, Phases
  <2>5. AgentTypes
    <3>1. closing = FALSE /\ closeTask = "none" /\ closeSet = {} /\ excluded = None /\ cancels = 0
      BY DEF Init
    <3>2. MaxCancels \in Nat
      BY ConstantsAssumption
    <3>3. cancels \in 0..MaxCancels
      BY <3>1, <3>2
    <3> QED BY <3>1, <3>3 DEF AgentTypes
  <2> QED BY <2>1, <2>3, <2>4, <2>5 DEF TypeOK
<1>2. TypeOK /\ AwaitsOwner /\ [Next]_vars => (TypeOK /\ AwaitsOwner)'
  <2> SUFFICES ASSUME TypeOK, AwaitsOwner, [Next]_vars PROVE TypeOK'
    BY AwaitsOwnerKept
  <2>1. CASE Next
    BY <2>1, OwnerTyped, ResumeTyped, WorkTyped, OtherTyped DEF Next
  <2>2. CASE UNCHANGED vars
    BY <2>2, OtherTyped
  <2> QED BY <2>1, <2>2
<1> QED BY <1>1, <1>2, PTL DEF Spec

-----------------------------------------------------------------------------
(* The invariant *)

\* The scope lock is held by the task that is inside, from the start-up of its
\* transport to the end of its clean-up; a lease is counted, and of the active
\* scope.
Scoped(t) ==
    /\ pc[t] \in {"connecting", "reap", "body", "drain", "closing"} => holder = t
    /\ holder = t => /\ pc[t] \in {"connecting", "reap", "body", "drain", "closing", "aclose"}
                     /\ ownerTask = t /\ transport # None
    /\ pc[t] \in {"connecting", "reap", "closing"} => tr[t] = transport /\ active = None
    /\ pc[t] \in {"connecting", "reap"} => initiator[t]
    /\ pc[t] = "connecting" => ~shutdown[transport] /\ ~ownerCancel[transport]
    /\ pc[t] = "closing" => shutdown[transport]
    /\ holder = t /\ pc[t] \in {"body", "drain", "aclose"} =>
          /\ owns /\ Usable(transport)
          /\ active # None /\ ctx[t] = active
    /\ borrowers[t] > 0 <=> pc[t] = "lease"
    /\ pc[t] = "lease" => ctx[t] = active /\ active # None

\* Nobody inside: nothing is open.
Empty == holder = None => transport = None /\ active = None /\ ~connected

\* The life of a transport owner task.
Alive(g) ==
    /\ phase[g] \notin {"absent", "done"} => transport = g
    /\ phase[g] = "absent" =>
          /\ transport # g /\ ~shutdown[g] /\ ~ownerCancel[g] /\ startErr[g] = "none"
          /\ \A s \in Server : report[g][s] = "untried"
    /\ phase[g] \in {"created", "connecting", "serving", "closing"} => startErr[g] = "none"
    /\ phase[g] = "failing" => startErr[g] # "none"
    /\ phase[g] = "done" /\ startErr[g] = "none" => shutdown[g]
    /\ phase[g] = "closing" => shutdown[g]
    /\ shutdown[g] => startErr[g] = "none" /\ phase[g] \in {"serving", "closing", "done"}

Scopes == (\A t \in Task : Scoped(t)) /\ Empty /\ (\A g \in Gen : Alive(g))

\* A connection is published from its last server on until the reset.
Published(g) == phase[g] \in {"serving", "closing"} \/ (phase[g] = "done" /\ startErr[g] = "none")

Catalogued ==
    /\ transport = None => ~connected /\ catalog = {} /\ \A s \in Server : registry[s] = None
    /\ transport # None =>
          /\ phase[transport] = "created" => \A s \in Server : report[transport][s] = "untried"
          /\ connected <=> Published(transport)
          /\ catalog = IF Published(transport) THEN ToolsOf(transport, report[transport]) ELSE {}
          /\ \A s \in Server : registry[s] = IF /\ Published(transport) \/ phase[transport] = "connecting"
                                                /\ report[transport][s] = "connected"
                                             THEN transport ELSE None

\* What a call remembers of its cancellation.
Remembers(t) ==
    /\ pc[t] \in {"unborn", "waitScope", "connecting", "body", "lease"} => ~hit[t]
    /\ pc[t] \in {"ready", "done"} => (hit[t] <=> "cancelled" \in outcome[t])
    /\ pc[t] = "unborn" => outcome[t] = {}
    /\ pc[t] = "reap" => (hit[t] <=> held[t])
    /\ pc[t] = "drain" \/ (pc[t] = "aclose" /\ holder = t) => (hit[t] <=> held[t] \/ bodyErr[t] = "cancelled")
    /\ pc[t] = "closing" => (hit[t] <=> held[t] \/ bodyErr[t] = "cancelled" \/ "cancelled" \in errs[t])
    /\ pc[t] = "aclose" /\ holder # t => (hit[t] <=> held[t] \/ "cancelled" \in outcome[t])
    /\ pc[t] \notin {"reap", "drain", "closing", "aclose"} => ~held[t]
    /\ pc[t] = "aclose" => bodyErr[t] \in {"none", "cancelled"}

\* Only a task that was cancelled itself cancels its transport.
Blamed(t) ==
    holder = t /\ (ownerCancel[transport] \/ startErr[transport] = "cancelled") => pc[t] = "reap" /\ held[t]

Reporting == \A t \in Task : Remembers(t) /\ Blamed(t)

\* Who is counted as being inside the agent.
Entered(t) ==
    /\ pc[t] \in {"unborn", "ready", "done", "aclose"} => entries[t] = 0
    /\ pc[t] \notin {"unborn", "ready", "done", "aclose"} /\ t \notin Bare => entries[t] > 0
    /\ pc[t] = "lease" => t \notin Bare /\ entries[t] = borrowers[t]
    /\ pc[t] = "aclose" => t \in Bare

\* Whoever was inside when the agent began to close is waited for.
Closing ==
    /\ closing <=> closeTask # "none"
    /\ closing => excluded \in Task /\ entries[excluded] = 0
    /\ closeTask \in {"draining", "finished"} => \A x \in Task \ closeSet : entries[x] = 0
    /\ closeTask = "finished" => \A x \in Task : entries[x] = 0

Entries == (\A t \in Task : Entered(t)) /\ Closing

-----------------------------------------------------------------------------
(* Scopes: what each kind of step does *)

\* The types the steps below need.
Typed ==
    /\ pc \in [Task -> PcValues] /\ ctx \in [Task -> Scope \cup {None}]
    /\ borrowers \in [Task -> Nat] /\ entries \in [Task -> Nat]
    /\ cancel \in [Task -> BOOLEAN] /\ held \in [Task -> BOOLEAN] /\ hit \in [Task -> BOOLEAN]
    /\ tr \in [Task -> Gen \cup {None}] /\ initiator \in [Task -> BOOLEAN]
    /\ holder \in Task \cup {None} /\ transport \in Gen \cup {None} /\ ownerTask \in Task \cup {None}
    /\ phase \in [Gen -> Phases] /\ shutdown \in [Gen -> BOOLEAN] /\ ownerCancel \in [Gen -> BOOLEAN]
    /\ startErr \in [Gen -> {"none", "cancelled", "startup"}]
    /\ None \notin Task /\ None \notin Gen /\ None \notin Scope

LEMMA TypesUsed == ASSUME TypeOK PROVE Typed
BY ConstantsAssumption DEF Typed, TypeOK, TaskTypes, ScopeTypes, TransportTypes, OwnerTypes

\* A step of a transport owner task: it changes what is known of this
\* transport, never makes it unusable by itself, and may publish it.
OwnerStep(g) ==
    /\ UNCHANGED <<taskVars, scopeVars, transport, ownerTask, shutdown>>
    /\ phase[g] \notin {"absent", "done"}
    /\ \A x \in Gen \ {g} : /\ phase'[x] = phase[x] /\ startErr'[x] = startErr[x]
                            /\ ownerCancel'[x] = ownerCancel[x] /\ report'[x] = report[x]
    /\ ownerCancel'[g] => ownerCancel[g]
    /\ phase[g] = "serving" /\ ~shutdown[g] => phase'[g] = "serving"
    /\ connected' => connected \/ phase[g] = "connecting"
    /\ startErr'[g] = "cancelled" => startErr[g] = "cancelled" \/ ownerCancel[g]
    /\ Alive(g)'

LEMMA OwnerSteps == ASSUME TypeOK, NEW g \in Gen, Alive(g), OwnerNext(g) PROVE OwnerStep(g)
<1>1. Typed /\ report \in [Gen -> [Server -> {"untried", "connected", "failed", "swallowed"}]]
  BY TypesUsed DEF TypeOK, OwnerTypes
<1>2. CASE OwnerStart(g)
  BY <1>1, <1>2 DEF Typed, OwnerStep, Alive, OwnerStart
<1>3. CASE OwnerUnstarted(g)
  BY <1>1, <1>3 DEF Typed, OwnerStep, Alive, OwnerUnstarted
<1>4. ASSUME NEW s \in Server, NEW result \in {"connected", "failed", "swallowed"}, ConnectServer(g, s, result) PROVE OwnerStep(g)
  <2>1. PICK r : report' = [report EXCEPT ![g] = r]
    BY <1>4 DEF ConnectServer
  <2>2. PICK p \in {"serving", "connecting"} : phase' = [phase EXCEPT ![g] = p]
    <3>1. CASE phase' = phase
      BY <1>1, <1>4, <3>1, ZenonT(60) DEF Typed, ConnectServer
    <3> QED BY <1>4, <3>1 DEF ConnectServer
  <2>3. /\ phase[g] = "connecting" /\ (connected' => connected \/ phase[g] = "connecting")
        /\ ownerCancel' = [ownerCancel EXCEPT ![g] = FALSE]
        /\ UNCHANGED <<taskVars, scopeVars, transport, ownerTask, startErr, shutdown>>
    BY <1>4 DEF ConnectServer
  <2> QED BY <1>1, <2>1, <2>2, <2>3 DEF Typed, OwnerStep, Alive
<1>5. ASSUME NEW error \in {"cancelled", "startup"}, ConnectFailed(g, error) PROVE OwnerStep(g)
  BY <1>1, <1>5 DEF Typed, OwnerStep, Alive, ConnectFailed
<1>6. CASE OwnerShutdown(g)
  BY <1>1, <1>6 DEF Typed, OwnerStep, Alive, OwnerShutdown
<1>7. ASSUME NEW failed \in BOOLEAN, CloseStack(g, failed) PROVE OwnerStep(g)
  BY <1>1, <1>7 DEF Typed, OwnerStep, Alive, CloseStack
<1> QED BY <1>2, <1>3, <1>4, <1>5, <1>6, <1>7 DEF OwnerNext

LEMMA ScopesOwner == ASSUME TypeOK, Scopes, NEW g \in Gen, OwnerNext(g) PROVE Scopes'
<1>1. Typed /\ OwnerStep(g)
  BY TypesUsed, OwnerSteps DEF Scopes
<1>2. transport = g
  BY <1>1 DEF OwnerStep, Scopes, Alive
<1>3. ASSUME NEW t \in Task PROVE Scoped(t)'
  <2>1. Scoped(t)
    BY DEF Scopes
  <2>2. Usable(transport) => Usable(transport)'
    BY <1>1, <1>2 DEF OwnerStep, Usable
  <2>3. ownerCancel'[transport] => ownerCancel[transport]
    BY <1>1, <1>2 DEF OwnerStep
  <2> QED BY <1>1, <2>1, <2>2, <2>3 DEF Scoped, Usable, OwnerStep
<1>4. Empty'
  BY <1>1, <1>2 DEF Typed, Scopes, Empty, OwnerStep
<1>5. ASSUME NEW x \in Gen PROVE Alive(x)'
  BY <1>1 DEF Scopes, Alive, OwnerStep
<1> QED BY <1>3, <1>4, <1>5 DEF Scopes

\* What the tasks share of a scope and its transport.
ScopeShared == <<holder, owns, active, transport, ownerTask, connected, phase, shutdown, ownerCancel, startErr, report>>

\* Of the other tasks nothing changes that matters here.
OnlyTask(t) ==
    \A x \in Task \ {t} : /\ pc'[x] = pc[x] /\ ctx'[x] = ctx[x] /\ borrowers'[x] = borrowers[x]
                          /\ tr'[x] = tr[x] /\ initiator'[x] = initiator[x]

LEMMA ScopesLocal ==
    ASSUME Scopes, NEW t \in Task, UNCHANGED ScopeShared, OnlyTask(t), Scoped(t)' PROVE Scopes'
<1>1. ASSUME NEW x \in Task PROVE Scoped(x)'
  <2>1. CASE x = t
    BY <2>1
  <2>2. CASE x # t
    <3>1. Scoped(x)
      BY DEF Scopes
    <3> QED BY <2>2, <3>1 DEF Scoped, OnlyTask, ScopeShared, Usable
  <2> QED BY <2>1, <2>2
<1>2. Empty'
  BY DEF Scopes, Empty, ScopeShared
<1>3. ASSUME NEW g \in Gen PROVE Alive(g)'
  BY DEF Scopes, Alive, ScopeShared
<1> QED BY <1>1, <1>2, <1>3 DEF Scopes

\* A task outside the scope whose call ends.
LEMMA ScopesEndsOutside ==
    ASSUME TypeOK, Scopes, NEW t \in Task, pc[t] = "waitScope", NEW errors, EndCall(t, errors),
           UNCHANGED <<ctx, borrowers, owns, active, transport, ownerTask, connected, phase, shutdown, ownerCancel, startErr, report>>
    PROVE  Scopes'
<1>1. Typed /\ Scoped(t)
  BY TypesUsed DEF Scopes
<1>2. holder # t
  BY <1>1 DEF Scoped
<1>3. UNCHANGED ScopeShared /\ OnlyTask(t) /\ pc'[t] = "ready" /\ borrowers'[t] = borrowers[t]
  BY <1>1, <1>2 DEF EndCall, ScopeShared, OnlyTask, Typed
<1>4. Scoped(t)'
  BY <1>1, <1>2, <1>3 DEF Scoped, ScopeShared, Typed
<1> QED BY <1>3, <1>4, ScopesLocal

\* The task inside leaves with its transport.
LEMMA ScopesExit ==
    ASSUME TypeOK, Scopes, NEW t \in Task, pc[t] \in {"connecting", "reap", "closing"}, phase[tr[t]] = "done",
           ResetTransport(tr[t]), NEW errors, EndCall(t, errors),
           UNCHANGED <<ctx, borrowers, owns, active, phase, shutdown, ownerCancel, startErr, report>>
    PROVE  Scopes'
<1>1. Typed /\ Scoped(t)
  BY TypesUsed DEF Scopes
<1>2. holder = t /\ transport = tr[t] /\ transport \in Gen /\ active = None
  BY <1>1 DEF Scoped, Typed
<1>3. holder' = None /\ transport' = None /\ ownerTask' = None /\ connected' = FALSE /\ active' = None
  BY <1>2 DEF EndCall, ResetTransport
<1>4. pc' = [pc EXCEPT ![t] = "ready"] /\ tr' = [tr EXCEPT ![t] = None] /\ initiator' = [initiator EXCEPT ![t] = FALSE]
  BY DEF EndCall
<1>5. ASSUME NEW x \in Task PROVE Scoped(x)'
  <2>1. Scoped(x)
    BY DEF Scopes
  <2>2. pc'[x] \notin {"connecting", "reap", "body", "drain", "closing"} /\ pc'[x] # "lease" /\ borrowers'[x] = borrowers[x]
    <3>1. CASE x = t
      BY <1>1, <1>4, <3>1 DEF Typed
    <3>2. CASE x # t
      BY <1>1, <1>2, <1>4, <2>1, <3>2 DEF Typed, Scoped
    <3> QED BY <3>1, <3>2
  <2>3. ~(borrowers'[x] > 0)
    BY <1>1, <1>2, <2>1, <2>2 DEF Scoped, Typed
  <2> QED BY <1>1, <1>3, <2>2, <2>3 DEF Scoped, Typed
<1>6. Empty'
  BY <1>3 DEF Empty
<1>7. ASSUME NEW g \in Gen PROVE Alive(g)'
  <2>1. Alive(g)
    BY DEF Scopes
  <2> QED BY <1>1, <1>2, <1>3, <2>1 DEF Alive, Typed
<1> QED BY <1>5, <1>6, <1>7 DEF Scopes

\* A task enters: nothing is open, and it creates the transport.
Enters(t, g) ==
    /\ phase[g] = "absent" /\ phase' = [phase EXCEPT ![g] = "created"]
    /\ transport' = g /\ tr' = [tr EXCEPT ![t] = g] /\ ownerTask' = t /\ holder' = t
    /\ initiator' = [initiator EXCEPT ![t] = TRUE] /\ pc' = [pc EXCEPT ![t] = "connecting"]
    /\ UNCHANGED <<ctx, active, usedScopes, accepting, owns, borrowers, drainSet, aborting, connected, catalog, registry,
                   startErr, shutdown, ownerCancel, report, cleanupErr>>

LEMMA EnterCreates ==
    ASSUME TypeOK, Scopes, NEW t \in Task, holder = None, EnterScope(t) PROVE \E g \in Gen : Enters(t, g)
<1>1. transport = None /\ active = None /\ ~connected
  BY DEF Scopes, Empty
<1>2. /\ holder' = t /\ AwaitStartup(t)
      /\ UNCHANGED <<ctx, active, usedScopes, accepting, owns, borrowers, drainSet, aborting, connected, catalog, registry,
                     startErr, shutdown, ownerCancel, report, cleanupErr>>
  BY <1>1 DEF EnterScope
<1>3. PICK g \in Gen : /\ phase[g] = "absent" /\ phase' = [phase EXCEPT ![g] = "created"]
                       /\ transport' = g /\ tr' = [tr EXCEPT ![t] = g]
  BY <1>1, <1>2 DEF AwaitStartup
<1>4. ownerTask' = t /\ initiator' = [initiator EXCEPT ![t] = TRUE] /\ pc' = [pc EXCEPT ![t] = "connecting"]
  BY <1>1, <1>2 DEF AwaitStartup
<1> QED BY <1>2, <1>3, <1>4 DEF Enters

LEMMA ScopesEnter ==
    ASSUME TypeOK, Scopes, NEW t \in Task, holder = None, pc[t] \in {"ready", "waitScope"}, NEW g \in Gen, Enters(t, g)
    PROVE  Scopes'
<1>1. Typed /\ Scoped(t) /\ Alive(g) /\ transport = None /\ active = None
  BY TypesUsed DEF Scopes, Empty
<1>2. ASSUME NEW x \in Task PROVE Scoped(x)'
  <2>1. Scoped(x)
    BY DEF Scopes
  <2>2. CASE x = t
    BY <1>1, <2>2 DEF Scoped, Typed, Enters, Alive
  <2>3. CASE x # t
    BY <1>1, <2>1, <2>3 DEF Scoped, Typed, Enters, Usable
  <2> QED BY <2>2, <2>3
<1>3. Empty'
  BY <1>1 DEF Empty, Enters, Typed
<1>4. ASSUME NEW x \in Gen PROVE Alive(x)'
  <2>1. Alive(x)
    BY DEF Scopes
  <2>2. CASE x = g
    BY <1>1, <2>2 DEF Alive, Enters, Typed
  <2>3. CASE x # g
    BY <1>1, <2>1, <2>3 DEF Alive, Enters, Typed
  <2> QED BY <2>2, <2>3
<1> QED BY <1>2, <1>3, <1>4 DEF Scopes

\* The task inside tells its transport to shut down.
Shuts(t, body, cleanup) ==
    /\ shutdown' = [shutdown EXCEPT ![transport] = TRUE]
    /\ tr' = [tr EXCEPT ![t] = transport]
    /\ pc' = [pc EXCEPT ![t] = "closing"]
    /\ held' = [held EXCEPT ![t] = FALSE]
    /\ bodyErr' = [bodyErr EXCEPT ![t] = body]
    /\ errs' = [errs EXCEPT ![t] = cleanup]
    /\ NestedOver(t)
    /\ UNCHANGED <<outcome, initiator, holder>>

LEMMA CloseOwnedShuts ==
    ASSUME TypeOK, Scopes, NEW t \in Task, holder = t, NEW own, own, NEW body, NEW cleanup, CloseOwned(t, own, body, cleanup)
    PROVE  Shuts(t, body, cleanup)
<1>1. transport # None /\ ownerTask = t
  BY DEF Scopes, Scoped
<1> QED BY <1>1 DEF CloseOwned, Shuts

\* A pass of the drain: it goes on while there is a lease, else it shuts the
\* transport down.
DrainsOn(t, body, c, abort) ==
    /\ \E x \in Task : pc[x] = "lease"
    /\ pc' = [pc EXCEPT ![t] = "drain"]
    /\ cancel' = [x \in Task |-> c[x] \/ (abort /\ pc[x] = "lease")]
    /\ bodyErr' = [bodyErr EXCEPT ![t] = body]
    /\ NestedOver(t)
    /\ UNCHANGED <<ctx, active, errs, held, outcome, tr, initiator, holder, shutdown>>

DrainsOut(t, body, c) ==
    /\ \A x \in Task : pc[x] # "lease"
    /\ cancel' = c
    /\ ctx' = [ctx EXCEPT ![t] = None]
    /\ active' = None
    /\ Shuts(t, body, Held(t))

Drains(t, body, c, abort) ==
    /\ \A x \in Task : borrowers'[x] = borrowers[x]
    /\ DrainsOn(t, body, c, abort) \/ DrainsOut(t, body, c)
    /\ UNCHANGED <<owns, scopeQ, usedScopes, transportVars, phase, startErr, ownerCancel, report, cleanupErr, agentVars>>

LEMMA DrainPassDrains ==
    ASSUME TypeOK, Scopes, NEW t \in Task, holder = t, pc[t] \in {"body", "drain", "aclose"},
           NEW body, NEW b, \A x \in Task : b[x] = borrowers[x], NEW c, NEW abort, DrainPass(t, body, b, c, abort)
    PROVE  Drains(t, body, c, abort)
<1> DEFINE remaining == Remaining(b)
<1>1. Typed /\ \A x \in Task : Scoped(x)
  BY TypesUsed DEF Scopes
<1>2. remaining = {x \in Task : pc[x] = "lease"}
  BY <1>1 DEF Remaining, Scoped
<1>3. UNCHANGED <<owns, scopeQ, usedScopes, transportVars, phase, startErr, ownerCancel, report, cleanupErr, agentVars>>
  BY DEF DrainPass
<1>4. borrowers' = [x \in Task |-> IF x \in remaining THEN b[x] ELSE 0]
  BY DEF DrainPass
<1>5. owns
  BY <1>1 DEF Scoped
<1>6. CASE remaining # {}
  <2>1. /\ pc' = [pc EXCEPT ![t] = "drain"]
        /\ cancel' = [x \in Task |-> c[x] \/ (abort /\ x \in remaining)]
        /\ bodyErr' = [bodyErr EXCEPT ![t] = body]
        /\ NestedOver(t)
        /\ UNCHANGED <<ctx, active, errs, held, outcome, tr, initiator, holder, shutdown>>
    BY <1>6 DEF DrainPass
  <2>2. \E x \in Task : pc[x] = "lease"
    BY <1>2, <1>6
  <2>3. cancel' = [x \in Task |-> c[x] \/ (abort /\ pc[x] = "lease")]
    <3>1. \A x \in Task : (c[x] \/ (abort /\ x \in remaining)) = (c[x] \/ (abort /\ pc[x] = "lease"))
      BY <1>2
    <3> HIDE DEF remaining
    <3> QED BY <2>1, <3>1
  <2>4. DrainsOn(t, body, c, abort)
    BY <2>1, <2>2, <2>3 DEF DrainsOn
  <2>5. \A x \in Task : borrowers'[x] = borrowers[x]
    BY <1>1, <1>2, <1>4 DEF Scoped, Typed
  <2> QED BY <1>3, <2>4, <2>5 DEF Drains
<1>7. CASE remaining = {}
  <2>1. cancel' = c /\ ctx' = [ctx EXCEPT ![t] = None] /\ active' = None /\ CloseOwned(t, owns, body, Held(t))
    BY <1>7 DEF DrainPass
  <2>2. Shuts(t, body, Held(t))
    BY <1>5, <2>1, CloseOwnedShuts
  <2>3. \A x \in Task : pc[x] # "lease"
    BY <1>2, <1>7
  <2>4. \A x \in Task : borrowers'[x] = borrowers[x]
    BY <1>1, <1>2, <1>4, <2>3 DEF Scoped, Typed
  <2> QED BY <1>3, <2>1, <2>2, <2>3, <2>4 DEF Drains, DrainsOut
<1> QED BY <1>6, <1>7

\* What is shut down was usable, and no lease is left.
LEMMA ScopesShut ==
    ASSUME TypeOK, Scopes, NEW t \in Task, holder = t, Usable(transport), startErr[transport] = "none",
           \A x \in Task : pc[x] # "lease" /\ borrowers'[x] = borrowers[x] /\ (x # t => ctx'[x] = ctx[x]),
           pc[t] \in {"connecting", "body", "drain", "aclose"},
           NEW body, NEW cleanup, Shuts(t, body, cleanup), active' = None,
           UNCHANGED <<transport, ownerTask, connected, phase, startErr, ownerCancel, report>>
    PROVE  Scopes'
<1>1. Typed /\ Scoped(t) /\ transport \in Gen /\ holder' = t
  BY TypesUsed DEF Scopes, Scoped, Typed, Shuts
<1>2. ASSUME NEW x \in Task PROVE Scoped(x)'
  <2>1. Scoped(x)
    BY DEF Scopes
  <2>2. CASE x = t
    <3>1. pc'[t] = "closing" /\ tr'[t] = transport /\ shutdown'[transport] /\ borrowers'[t] = borrowers[t]
      BY <1>1 DEF Shuts, Typed
    <3> QED BY <1>1, <2>2, <3>1 DEF Scoped, Typed
  <2>3. CASE x # t
    <3>1. pc'[x] = pc[x] /\ tr'[x] = tr[x] /\ initiator'[x] = initiator[x] /\ borrowers'[x] = borrowers[x]
      BY <1>1, <2>3 DEF Shuts, Typed
    <3> QED BY <1>1, <2>1, <2>3, <3>1 DEF Scoped, Typed
  <2> QED BY <2>2, <2>3
<1>3. Empty'
  BY <1>1 DEF Empty, Typed
<1>4. ASSUME NEW g \in Gen PROVE Alive(g)'
  <2>1. Alive(g)
    BY DEF Scopes
  <2>2. shutdown'[g] = (shutdown[g] \/ g = transport)
    BY <1>1 DEF Shuts, Typed
  <2> QED BY <1>1, <2>1, <2>2 DEF Alive, Usable, Typed
<1> QED BY <1>2, <1>3, <1>4 DEF Scopes

LEMMA ScopesDrains ==
    ASSUME TypeOK, Scopes, NEW t \in Task, holder = t, pc[t] \in {"body", "drain", "aclose"},
           NEW body, NEW c, NEW abort, Drains(t, body, c, abort)
    PROVE  Scopes'
<1>1. Typed /\ Scoped(t) /\ transport \in Gen
  BY TypesUsed DEF Scopes, Scoped, Typed
<1>2. Usable(transport) /\ startErr[transport] = "none"
  BY <1>1 DEF Scopes, Scoped, Alive, Usable
<1>3. CASE DrainsOn(t, body, c, abort)
  <2>1. UNCHANGED ScopeShared /\ OnlyTask(t) /\ pc'[t] = "drain"
    BY <1>1, <1>3 DEF Drains, DrainsOn, ScopeShared, OnlyTask, Typed
  <2>2. ctx'[t] = ctx[t] /\ borrowers'[t] = borrowers[t] /\ tr'[t] = tr[t] /\ initiator'[t] = initiator[t]
    BY <1>3 DEF Drains, DrainsOn
  <2>3. Scoped(t)'
    BY <1>1, <2>1, <2>2 DEF Scoped, ScopeShared, Usable
  <2> QED BY <2>1, <2>3, ScopesLocal
<1>4. CASE DrainsOut(t, body, c)
  <2>1. Shuts(t, body, Held(t)) /\ active' = None /\ \A x \in Task : pc[x] # "lease"
    BY <1>4 DEF DrainsOut
  <2>2. UNCHANGED <<transport, ownerTask, connected, phase, startErr, ownerCancel, report>>
    BY DEF Drains
  <2>3. \A x \in Task : borrowers'[x] = borrowers[x] /\ (x # t => ctx'[x] = ctx[x])
    BY <1>1, <1>4 DEF Drains, DrainsOut, Typed
  <2> QED BY <1>2, <2>1, <2>2, <2>3, ScopesShut
<1> QED BY <1>3, <1>4 DEF Drains

\* The scope is opened.
LEMMA ScopesActivate ==
    ASSUME TypeOK, Scopes, NEW t \in Task, pc[t] = "connecting", Started(transport), startErr[transport] = "none",
           NEW own, own, Activate(t, own),
           UNCHANGED <<borrowers, tr, initiator, holder, transport, ownerTask, connected, phase, shutdown, ownerCancel,
                       startErr, report>>
    PROVE  Scopes'
<1>1. Typed /\ Scoped(t) /\ transport \in Gen /\ holder = t /\ Alive(transport)
  BY TypesUsed DEF Scopes, Scoped, Typed
<1>2. Usable(transport)
  BY <1>1 DEF Scoped, Alive, Usable, Started, Typed, Phases
<1>3. PICK k \in Scope : ctx' = [ctx EXCEPT ![t] = k] /\ active' = k
  BY DEF Activate
<1>4. owns' = own /\ pc' = [pc EXCEPT ![t] = "body"]
  BY DEF Activate
<1>5. ASSUME NEW x \in Task PROVE Scoped(x)'
  <2>1. Scoped(x)
    BY DEF Scopes
  <2>2. CASE x = t
    <3>1. pc'[t] = "body" /\ ctx'[t] = k /\ k # None
      BY <1>1, <1>3, <1>4 DEF Typed
    <3>2. Usable(transport)'
      BY <1>2 DEF Usable
    <3> QED BY <1>1, <1>3, <1>4, <2>2, <3>1, <3>2 DEF Scoped
  <2>3. CASE x # t
    <3>1. pc'[x] = pc[x] /\ ctx'[x] = ctx[x]
      BY <1>1, <1>3, <1>4, <2>3 DEF Typed
    <3>2. pc[x] # "lease" /\ holder # x
      BY <1>1, <2>1, <2>3 DEF Scoped
    <3> QED BY <2>1, <3>1, <3>2 DEF Scoped
  <2> QED BY <2>2, <2>3
<1>6. Empty'
  BY <1>1 DEF Empty, Typed
<1>7. ASSUME NEW g \in Gen PROVE Alive(g)'
  BY DEF Scopes, Alive
<1> QED BY <1>5, <1>6, <1>7 DEF Scopes

-----------------------------------------------------------------------------
(* Scopes: one step per action of a task *)

\* Nothing of this changes.
LEMMA ScopesQuiet ==
    ASSUME Scopes, UNCHANGED <<ScopeShared, pc, ctx, borrowers, tr, initiator>> PROVE Scopes'
BY DEF Scopes, Scoped, Empty, Alive, Usable, ScopeShared

\* A body error is remembered, or the task cancelled: the scopes are the same.
LEMMA ScopesConnectSucceeds ==
    ASSUME TypeOK, Scopes, NEW t \in Task, ConnectSucceeds(t) PROVE Scopes'
<1>1. Typed /\ Scoped(t) /\ pc[t] = "connecting"
  BY TypesUsed DEF Scopes, ConnectSucceeds
<1>2. holder = t /\ tr[t] = transport /\ transport \in Gen /\ initiator[t] /\ active = None /\ Alive(transport)
  BY <1>1 DEF Scopes, Scoped, Typed
<1>3. Started(transport) /\ startErr[transport] = "none" /\ Usable(transport)
  <2>1. Started(transport) /\ startErr[transport] = "none"
    BY <1>2 DEF ConnectSucceeds
  <2> QED BY <1>1, <1>2, <2>1 DEF Scoped, Alive, Usable, Started, Typed, Phases
<1>4. UNCHANGED <<borrowers, transportVars, phase, startErr, ownerCancel, report>>
  BY DEF ConnectSucceeds
<1>5. CASE closing => t \in Bare
  <2>1. Activate(t, initiator[t]) /\ UNCHANGED <<tr, initiator, holder, shutdown>>
    BY <1>2, <1>5 DEF ConnectSucceeds
  <2> QED BY <1>1, <1>2, <1>3, <1>4, <2>1, ScopesActivate
<1>6. CASE ~(closing => t \in Bare)
  <2>1. CloseOwned(t, initiator[t], "closed", {}) /\ UNCHANGED <<ctx, active>>
    BY <1>2, <1>6 DEF ConnectSucceeds
  <2>2. Shuts(t, "closed", {})
    BY <1>2, <2>1, CloseOwnedShuts
  <2>3. \A x \in Task : pc[x] # "lease"
    BY <1>2 DEF Scopes, Scoped
  <2>4. \A x \in Task : pc[x] # "lease" /\ borrowers'[x] = borrowers[x] /\ (x # t => ctx'[x] = ctx[x])
    BY <1>4, <2>1, <2>3
  <2>5. active' = None /\ UNCHANGED <<transport, ownerTask, connected, phase, startErr, ownerCancel, report>>
    BY <1>2, <1>4, <2>1
  <2> QED BY <1>1, <1>2, <1>3, <2>2, <2>4, <2>5, ScopesShut
<1> QED BY <1>5, <1>6

LEMMA ScopesCancelConnect ==
    ASSUME TypeOK, Scopes, NEW t \in Task, CancelConnect(t) PROVE Scopes'
<1>1. Typed /\ Scoped(t) /\ pc[t] = "connecting"
  BY TypesUsed DEF Scopes, CancelConnect
<1>2. holder = t /\ tr[t] = transport /\ transport \in Gen /\ initiator[t] /\ active = None /\ Alive(transport)
  BY <1>1 DEF Scopes, Scoped, Typed
<1>3. /\ ownerCancel' = [ownerCancel EXCEPT ![transport] = @ \/ ~Started(transport)]
      /\ shutdown' = [shutdown EXCEPT ![transport] = @ \/ (Started(transport) /\ startErr[transport] = "none")]
      /\ pc' = [pc EXCEPT ![t] = "reap"]
      /\ UNCHANGED <<tr, initiator, holder, ctx, borrowers, owns, active, transportVars, phase, startErr, report>>
  BY <1>2 DEF CancelConnect
<1>4. ASSUME NEW x \in Task PROVE Scoped(x)'
  <2>1. Scoped(x)
    BY DEF Scopes
  <2>2. CASE x = t
    <3>1. pc'[t] = "reap"
      BY <1>1, <1>3 DEF Typed
    <3> QED BY <1>1, <1>2, <1>3, <2>2, <3>1 DEF Scoped
  <2>3. CASE x # t
    <3>1. pc'[x] = pc[x]
      BY <1>1, <1>3, <2>3 DEF Typed
    <3> QED BY <1>1, <1>2, <1>3, <2>1, <2>3, <3>1 DEF Scoped
  <2> QED BY <2>2, <2>3
<1>5. Empty'
  BY <1>3 DEF Scopes, Empty
<1>6. ASSUME NEW g \in Gen PROVE Alive(g)'
  <2>1. Alive(g)
    BY DEF Scopes
  <2>2. CASE g = transport
    <3>1. ownerCancel'[g] = (ownerCancel[g] \/ ~Started(g))
      BY <1>1, <1>3, <2>2 DEF Typed
    <3>2. shutdown'[g] = (shutdown[g] \/ (Started(g) /\ startErr[g] = "none"))
      BY <1>1, <1>3, <2>2 DEF Typed
    <3> QED BY <1>1, <1>2, <1>3, <2>1, <2>2, <3>1, <3>2 DEF Alive, Started, Typed, Phases
  <2>3. CASE g # transport
    BY <1>1, <1>3, <2>1, <2>3 DEF Alive, Typed
  <2> QED BY <2>2, <2>3
<1> QED BY <1>4, <1>5, <1>6 DEF Scopes

LEMMA ScopesResume == ASSUME TypeOK, Scopes, NEW t \in Task, Resume(t) PROVE Scopes'
<1>0. Typed /\ Scoped(t)
  BY TypesUsed DEF Scopes
<1>1. CASE AcquireScope(t)
  <2>1. pc[t] = "waitScope" /\ holder = None
    BY <1>1 DEF AcquireScope
  <2>2. CASE closing
    BY <1>1, <2>1, <2>2, ScopesEndsOutside DEF AcquireScope
  <2>3. CASE ~closing
    <3>1. EnterScope(t)
      BY <1>1, <2>3 DEF AcquireScope
    <3> QED BY <2>1, <3>1, EnterCreates, ScopesEnter
  <2> QED BY <2>2, <2>3
<1>2. CASE CancelWaiter(t)
  <2>1. pc[t] = "waitScope" /\ EndCall(t, {"cancelled"})
    BY <1>2 DEF CancelWaiter
  <2>2. UNCHANGED <<ctx, borrowers, owns, active, transport, ownerTask, connected, phase, shutdown, ownerCancel, startErr, report>>
    BY <1>2 DEF CancelWaiter
  <2> QED BY <2>1, <2>2, ScopesEndsOutside
<1>3. CASE ConnectSucceeds(t)
  BY <1>3, ScopesConnectSucceeds
<1>4. CASE ConnectFails(t)
  <2>1. pc[t] = "connecting" /\ UNCHANGED <<ctx, borrowers, owns, active, phase, shutdown, ownerCancel, startErr, report>>
    BY <1>4 DEF ConnectFails
  <2>2. CASE OwnerExited(tr[t])
    <3>1. ReapNow(t, tr[t])
      BY <1>4, <2>2 DEF ConnectFails
    <3> QED BY <2>1, <2>2, <3>1, ScopesExit DEF ReapNow, OwnerExited
  <2>3. CASE ~OwnerExited(tr[t])
    <3>1. pc' = [pc EXCEPT ![t] = "reap"] /\ UNCHANGED <<tr, initiator, holder, transportVars>>
      BY <1>4, <2>3 DEF ConnectFails
    <3>2. UNCHANGED ScopeShared /\ OnlyTask(t) /\ pc'[t] = "reap"
      BY <1>0, <2>1, <3>1 DEF ScopeShared, OnlyTask, Typed
    <3>3. Scoped(t)'
      BY <1>0, <2>1, <3>1, <3>2 DEF Scoped, ScopeShared
    <3> QED BY <3>2, <3>3, ScopesLocal
  <2> QED BY <2>2, <2>3
<1>5. CASE CancelConnect(t)
  BY <1>5, ScopesCancelConnect
<1>6. CASE Reap(t)
  BY <1>6, ScopesExit DEF Reap, ReapNow, OwnerExited
<1>7. CASE Absorb(t)
  BY <1>7, ScopesQuiet DEF Absorb, ScopeShared
<1>8. CASE DrainResume(t)
  <2>1. pc[t] = "drain" /\ DrainPass(t, bodyErr[t], borrowers, cancel, aborting)
    BY <1>8 DEF DrainResume
  <2>2. holder = t
    BY <1>0, <2>1 DEF Scoped
  <2> QED BY <2>1, <2>2, DrainPassDrains, ScopesDrains
<1>9. CASE DrainCancelled(t)
  BY <1>9, ScopesQuiet DEF DrainCancelled, ScopeShared
<1>10. CASE CloseReturns(t)
  <2>1. /\ pc[t] = "closing" /\ OwnerExited(tr[t]) /\ ResetTransport(tr[t])
        /\ EndCall(t, Combine(bodyErr[t], errs[t] \cup Held(t) \cup CleanupOf(tr[t])))
        /\ UNCHANGED <<ctx, borrowers, owns, active, ownerVars>>
    BY <1>10 DEF CloseReturns
  <2> QED BY <2>1, ScopesExit DEF OwnerExited
<1>11. CASE ACloseReturns(t)
  <2>1. pc[t] = "aclose"
    BY <1>11 DEF ACloseReturns
  <2>2. CASE holder # t
    <3>1. pc' = [pc EXCEPT ![t] = "ready"] /\ UNCHANGED <<ctx, borrowers, tr, initiator, scopeVars, transportVars, ownerVars>>
      BY <1>11, <2>2 DEF ACloseReturns
    <3>2. UNCHANGED ScopeShared /\ OnlyTask(t) /\ pc'[t] = "ready"
      BY <1>0, <3>1 DEF ScopeShared, OnlyTask, Typed
    <3>3. Scoped(t)'
      BY <1>0, <2>1, <2>2, <3>1, <3>2 DEF Scoped, ScopeShared
    <3> QED BY <3>2, <3>3, ScopesLocal
  <2>3. CASE holder = t /\ ~held[t] /\ bodyErr[t] = "none"
    <3>1. pc' = [pc EXCEPT ![t] = "body"] /\ UNCHANGED <<ctx, borrowers, tr, initiator, scopeVars, transportVars, ownerVars>>
      BY <1>11, <2>3 DEF ACloseReturns
    <3>2. UNCHANGED ScopeShared /\ OnlyTask(t) /\ pc'[t] = "body"
      BY <1>0, <3>1 DEF ScopeShared, OnlyTask, Typed
    <3>3. Scoped(t)'
      BY <1>0, <2>1, <2>3, <3>1, <3>2 DEF Scoped, ScopeShared, Usable
    <3> QED BY <3>2, <3>3, ScopesLocal
  <2>4. CASE holder = t /\ ~(~held[t] /\ bodyErr[t] = "none")
    <3>1. DrainPass(t, "cancelled", borrowers, cancel, TRUE)
      BY <1>11, <2>4 DEF ACloseReturns
    <3>2. \E abort : DrainPass(t, "cancelled", borrowers, cancel, abort)
      BY <3>1
    <3> QED BY <2>1, <2>4, <3>2, DrainPassDrains, ScopesDrains
  <2> QED BY <2>2, <2>3, <2>4
<1> QED BY <1>1, <1>2, <1>3, <1>4, <1>5, <1>6, <1>7, <1>8, <1>9, <1>10, <1>11 DEF Resume

\* A task creates another: that one is outside.
LEMMA ScopesSpawn == ASSUME TypeOK, Scopes, NEW t \in Task, NEW c \in Task, Spawn(t, c) PROVE Scopes'
<1>1. Typed /\ Scoped(c)
  BY TypesUsed DEF Scopes
<1>2. /\ pc[c] = "unborn" /\ pc' = [pc EXCEPT ![c] = "ready"] /\ ctx' = [ctx EXCEPT ![c] = ctx[t]]
      /\ UNCHANGED <<borrowers, tr, initiator, scopeVars, transportVars, ownerVars>>
  BY DEF Spawn
<1>3. UNCHANGED ScopeShared /\ OnlyTask(c) /\ pc'[c] = "ready"
  BY <1>1, <1>2 DEF ScopeShared, OnlyTask, Typed
<1>4. Scoped(c)'
  BY <1>1, <1>2, <1>3 DEF Scoped, ScopeShared
<1> QED BY <1>3, <1>4, ScopesLocal

\* Where everybody uses scopes, work inside them and around them.
LEMMA ScopesWork == ASSUME Manual = {}, TypeOK, Scopes, NEW t \in Task, Work(t) PROVE Scopes'
<1>0. Typed /\ Scoped(t)
  BY TypesUsed DEF Scopes
<1>1. CASE CallRefused(t)
  BY <1>1, ScopesQuiet DEF CallRefused, ScopeShared
<1>2. CASE CallBorrow(t)
  <2>1. /\ pc[t] = "ready" /\ TokenMatches(t)
        /\ pc' = [pc EXCEPT ![t] = "lease"] /\ borrowers' = [borrowers EXCEPT ![t] = @ + 1]
        /\ UNCHANGED <<ctx, tr, initiator, scopeVars, transportVars, ownerVars>>
    <3>1. ReuseKind(t) = "borrow"
      BY <1>2 DEF CallBorrow
    <3>2. TokenMatches(t)
      BY <3>1 DEF ReuseKind
    <3> QED BY <1>2, <3>2 DEF CallBorrow, Admits, MayCall
  <2>2. UNCHANGED ScopeShared /\ OnlyTask(t) /\ pc'[t] = "lease" /\ borrowers'[t] = borrowers[t] + 1
    BY <1>0, <2>1 DEF ScopeShared, OnlyTask, Typed
  <2>3. ctx'[t] = active /\ active # None
    BY <2>1 DEF TokenMatches
  <2>4. Scoped(t)'
    BY <1>0, <2>1, <2>2, <2>3 DEF Scoped, ScopeShared, Typed
  <2> QED BY <2>2, <2>4, ScopesLocal
<1>3. CASE CallFresh(t)
  <2>1. pc[t] = "ready"
    BY <1>3 DEF CallFresh, Admits, MayCall
  <2>2. CASE holder = None /\ EnterScope(t)
    BY <2>1, <2>2, EnterCreates, ScopesEnter
  <2>3. CASE ~(holder = None /\ EnterScope(t))
    <3>1. /\ pc' = [pc EXCEPT ![t] = "waitScope"]
          /\ UNCHANGED <<ctx, borrowers, tr, initiator, holder, owns, active, transportVars, ownerVars>>
      BY <1>3, <2>3 DEF CallFresh
    <3>2. UNCHANGED ScopeShared /\ OnlyTask(t) /\ pc'[t] = "waitScope"
      BY <1>0, <3>1 DEF ScopeShared, OnlyTask, Typed
    <3>3. Scoped(t)'
      BY <1>0, <2>1, <3>1, <3>2 DEF Scoped, ScopeShared
    <3> QED BY <3>2, <3>3, ScopesLocal
  <2> QED BY <2>2, <2>3
<1>4. CASE \E c \in Task : Spawn(t, c)
  BY <1>4, ScopesSpawn
<1>5. CASE NestedCall(t)
  <2>1. UNCHANGED ScopeShared /\ OnlyTask(t) /\ UNCHANGED <<pc, ctx, tr, initiator>>
    BY <1>0, <1>5 DEF NestedCall, ScopeShared, OnlyTask, Typed
  <2>2. (borrowers'[t] > 0) = (borrowers[t] > 0)
    <3>1. CASE ReuseKind(t) = "own"
      BY <1>5, <3>1 DEF NestedCall
    <3>2. CASE ReuseKind(t) # "own"
      <4>1. ReuseKind(t) = "borrow" /\ borrowers' = [borrowers EXCEPT ![t] = @ + 1] /\ pc[t] \in {"body", "lease"}
        BY <1>5, <3>2 DEF NestedCall
      <4>2. TokenMatches(t) /\ t # ownerTask
        BY <4>1 DEF ReuseKind
      <4>3. pc[t] = "lease"
        BY <1>0, <4>1, <4>2 DEF Scoped
      <4> QED BY <1>0, <4>1, <4>3 DEF Scoped, Typed
    <3> QED BY <3>1, <3>2
  <2>3. Scoped(t)'
    BY <1>0, <2>1, <2>2 DEF Scoped, ScopeShared, Usable
  <2> QED BY <2>1, <2>3, ScopesLocal
<1>6. CASE NestedReturn(t)
  <2>1. UNCHANGED ScopeShared /\ OnlyTask(t) /\ UNCHANGED <<pc, ctx, tr, initiator>>
    BY <1>0, <1>6 DEF NestedReturn, ScopeShared, OnlyTask, Typed, Pop
  <2>2. (borrowers'[t] > 0) = (borrowers[t] > 0)
    <3>1. borrowers'[t] = IF borrowers[t] <= 1 THEN 0 ELSE borrowers[t] - 1
      BY <1>0, <1>6 DEF NestedReturn, Pop, Typed
    <3>2. pc[t] = "body" \/ borrowers[t] > 1
      BY <1>6 DEF NestedReturn
    <3>3. borrowers[t] \in Nat /\ (pc[t] = "body" => ~(borrowers[t] > 0))
      BY <1>0 DEF Scoped, Typed
    <3> QED BY <3>1, <3>2, <3>3
  <2>3. Scoped(t)'
    BY <1>0, <2>1, <2>2 DEF Scoped, ScopeShared, Usable
  <2> QED BY <2>1, <2>3, ScopesLocal
<1>7. ASSUME NEW cancelled \in BOOLEAN, LeaseExit(t, cancelled) PROVE Scopes'
  <2>1. /\ pc[t] = "lease" /\ pc' = [pc EXCEPT ![t] = "ready"] /\ borrowers' = [borrowers EXCEPT ![t] = 0]
        /\ UNCHANGED <<ctx, tr, initiator, scopeVars, transportVars, ownerVars>>
    BY <1>7 DEF LeaseExit
  <2>2. UNCHANGED ScopeShared /\ OnlyTask(t) /\ pc'[t] = "ready" /\ borrowers'[t] = 0
    BY <1>0, <2>1 DEF ScopeShared, OnlyTask, Typed
  <2>3. Scoped(t)'
    BY <1>0, <2>1, <2>2 DEF Scoped, ScopeShared
  <2> QED BY <2>2, <2>3, ScopesLocal
<1>8. ASSUME NEW error \in {"none", "body", "cancelled"}, BodyExit(t, error) PROVE Scopes'
  <2> DEFINE b == [borrowers EXCEPT ![t] = 0]
             c == [cancel EXCEPT ![t] = @ /\ error # "cancelled"]
  <2>1. pc[t] = "body" /\ \E abort : DrainPass(t, error, b, c, abort)
    BY <1>8 DEF BodyExit
  <2>2. holder = t /\ borrowers[t] = 0
    BY <1>0, <2>1 DEF Scoped, Typed
  <2>3. \A x \in Task : b[x] = borrowers[x]
    BY <1>0, <2>2 DEF Typed
  <2> HIDE DEF b, c
  <2> QED BY <2>1, <2>2, <2>3, DrainPassDrains, ScopesDrains
<1>9. CASE ManualConnect(t) \/ ManualClose(t)
  BY <1>9 DEF ManualConnect, ManualClose
<1>10. CASE AClose(t)
  <2>1. /\ pc[t] \in {"ready", "body"} /\ pc' = [pc EXCEPT ![t] = "aclose"]
        /\ UNCHANGED <<ctx, borrowers, tr, initiator, scopeVars, transportVars, ownerVars>>
    BY <1>10 DEF AClose
  <2>2. UNCHANGED ScopeShared /\ OnlyTask(t) /\ pc'[t] = "aclose"
    BY <1>0, <2>1 DEF ScopeShared, OnlyTask, Typed
  <2>3. Scoped(t)'
    BY <1>0, <2>1, <2>2 DEF Scoped, ScopeShared, Usable
  <2> QED BY <2>2, <2>3, ScopesLocal
<1>11. CASE Finish(t)
  <2>1. /\ pc[t] = "ready" /\ pc' = [pc EXCEPT ![t] = "done"]
        /\ UNCHANGED <<ctx, borrowers, tr, initiator, scopeVars, transportVars, ownerVars>>
    BY <1>11 DEF Finish
  <2>2. UNCHANGED ScopeShared /\ OnlyTask(t) /\ pc'[t] = "done"
    BY <1>0, <2>1 DEF ScopeShared, OnlyTask, Typed
  <2>3. Scoped(t)'
    BY <1>0, <2>1, <2>2 DEF Scoped, ScopeShared
  <2> QED BY <2>2, <2>3, ScopesLocal
<1> QED BY <1>1, <1>2, <1>3, <1>4, <1>5, <1>6, <1>7, <1>8, <1>9, <1>10, <1>11 DEF Work

LEMMA ScopesInit == Init => Scopes
<1> SUFFICES ASSUME Init PROVE Scopes
  OBVIOUS
<1>1. \A t \in Task : Scoped(t)
  BY ConstantsAssumption DEF Init, Scoped
<1>2. Empty /\ \A g \in Gen : Alive(g)
  BY ConstantsAssumption DEF Init, Empty, Alive
<1> QED BY <1>1, <1>2 DEF Scopes

LEMMA ScopesNext == ASSUME Manual = {}, TypeOK, Scopes, [Next]_vars PROVE Scopes'
<1>1. ASSUME NEW g \in Gen, OwnerNext(g) PROVE Scopes'
  BY <1>1, ScopesOwner
<1>2. ASSUME NEW t \in Task, Resume(t) PROVE Scopes'
  BY <1>2, ScopesResume
<1>3. ASSUME NEW t \in Task, Work(t) PROVE Scopes'
  BY <1>3, ScopesWork
<1>4. CASE \/ \E t \in Task : Cancel(t)
           \/ CloseTaskStart \/ CloseTaskEnd \/ UNCHANGED vars
  BY <1>4, ScopesQuiet DEF Cancel, CloseTaskStart, CloseTaskEnd, vars, ScopeShared
<1> QED BY <1>1, <1>2, <1>3, <1>4 DEF Next

-----------------------------------------------------------------------------
(* The catalogue *)

\* What a step of a task does to the published transport: it creates one, or
\* clears what its exited owner left, or leaves it alone.
Clears(t) ==
    /\ phase[tr[t]] = "done" /\ tr[t] = transport /\ transport # None
    /\ ResetTransport(tr[t])
    /\ UNCHANGED <<phase, startErr, report>>

TransportStep(t) ==
    \/ /\ holder = None
       /\ \E g \in Gen : Enters(t, g)
    \/ Clears(t)
    \/ UNCHANGED <<transportVars, phase, startErr, report>>

LEMMA ResumeTransport == ASSUME TypeOK, Scopes, NEW t \in Task, Resume(t) PROVE TransportStep(t)
<1>0. Typed /\ Scoped(t)
  BY TypesUsed DEF Scopes
<1>1. CASE AcquireScope(t)
  <2>1. CASE closing
    BY <1>1, <2>1 DEF AcquireScope, TransportStep
  <2>2. CASE ~closing
    <3>1. holder = None /\ EnterScope(t)
      BY <1>1, <2>2 DEF AcquireScope
    <3> QED BY <3>1, EnterCreates DEF TransportStep
  <2> QED BY <2>1, <2>2
<1>2. ASSUME pc[t] \in {"connecting", "reap", "closing"}, OwnerExited(tr[t]), ResetTransport(tr[t]),
             UNCHANGED <<phase, startErr, report>>
      PROVE TransportStep(t)
  BY <1>0, <1>2 DEF TransportStep, Clears, OwnerExited, Scoped
<1>3. CASE ConnectFails(t)
  <2>1. CASE OwnerExited(tr[t])
    <3>1. pc[t] = "connecting" /\ ResetTransport(tr[t]) /\ UNCHANGED <<phase, startErr, report>>
      BY <1>3, <2>1 DEF ConnectFails, ReapNow
    <3> QED BY <1>2, <2>1, <3>1
  <2>2. CASE ~OwnerExited(tr[t])
    BY <1>3, <2>2 DEF ConnectFails, TransportStep
  <2> QED BY <2>1, <2>2
<1>4. CASE Reap(t)
  BY <1>2, <1>4 DEF Reap, ReapNow
<1>5. CASE CloseReturns(t)
  BY <1>2, <1>5 DEF CloseReturns
<1>6. CASE CancelWaiter(t) \/ ConnectSucceeds(t) \/ CancelConnect(t) \/ Absorb(t) \/ DrainCancelled(t)
  BY <1>6 DEF CancelWaiter, ConnectSucceeds, CancelConnect, Absorb, DrainCancelled, TransportStep
<1>7. CASE DrainResume(t)
  BY <1>7 DEF DrainResume, DrainPass, TransportStep
<1>8. CASE ACloseReturns(t)
  BY <1>8 DEF ACloseReturns, DrainPass, TransportStep
<1> QED BY <1>1, <1>3, <1>4, <1>5, <1>6, <1>7, <1>8 DEF Resume

LEMMA WorkTransport == ASSUME Manual = {}, TypeOK, Scopes, NEW t \in Task, Work(t) PROVE TransportStep(t)
<1>1. CASE CallFresh(t)
  <2>1. CASE holder = None /\ EnterScope(t)
    BY <2>1, EnterCreates DEF TransportStep
  <2>2. CASE ~(holder = None /\ EnterScope(t))
    BY <1>1, <2>2 DEF CallFresh, TransportStep
  <2> QED BY <2>1, <2>2
<1>2. CASE CallRefused(t) \/ CallBorrow(t) \/ (\E c \in Task : Spawn(t, c)) \/ NestedCall(t) \/ NestedReturn(t)
  BY <1>2 DEF CallRefused, CallBorrow, Spawn, NestedCall, NestedReturn, TransportStep
<1>3. CASE (\E cancelled \in BOOLEAN : LeaseExit(t, cancelled)) \/ AClose(t) \/ Finish(t)
  BY <1>3 DEF LeaseExit, AClose, Finish, TransportStep
<1>4. CASE \E error \in {"none", "body", "cancelled"} : BodyExit(t, error)
  BY <1>4 DEF BodyExit, DrainPass, TransportStep
<1>5. CASE ManualConnect(t) \/ ManualClose(t)
  BY <1>5 DEF ManualConnect, ManualClose
<1> QED BY <1>1, <1>2, <1>3, <1>4, <1>5 DEF Work

\* A catalogue that was published is exactly what the reset takes out.
LEMMA CatalogueTask ==
    ASSUME TypeOK, Scopes, Catalogued, NEW t \in Task, TransportStep(t) PROVE Catalogued'
<1>0. Typed /\ registry \in [Server -> Gen \cup {None}] /\ report \in [Gen -> [Server -> {"untried", "connected", "failed", "swallowed"}]]
  BY TypesUsed DEF TypeOK, TransportTypes, OwnerTypes
<1>1. ASSUME holder = None, NEW g \in Gen, Enters(t, g) PROVE Catalogued'
  <2>1. transport = None /\ ~connected /\ catalog = {} /\ \A s \in Server : registry[s] = None
    BY <1>1 DEF Scopes, Empty, Catalogued
  <2>2. phase'[g] = "created" /\ startErr'[g] = "none" /\ \A s \in Server : report'[g][s] = "untried"
    BY <1>0, <1>1 DEF Enters, Scopes, Alive, Typed
  <2>3. transport' = g /\ g # None /\ ~connected' /\ catalog' = {} /\ \A s \in Server : registry'[s] = None
    BY <1>0, <1>1, <2>1 DEF Enters, Typed
  <2> QED BY <2>2, <2>3 DEF Catalogued, Published
<1>2. CASE Clears(t)
  <2>1. /\ registry' = [s \in Server |-> IF <<s, registry[s]>> \in catalog THEN None ELSE registry[s]]
        /\ transport' = None /\ connected' = FALSE /\ catalog' = {} /\ transport # None
    BY <1>2 DEF Clears, ResetTransport, Unregister
  <2>2. ASSUME NEW s \in Server PROVE registry'[s] = None
    <3>1. registry'[s] = IF <<s, registry[s]>> \in catalog THEN None ELSE registry[s]
      BY <2>1
    <3>2. CASE Published(transport) /\ report[transport][s] = "connected"
      <4>1. registry[s] = transport /\ catalog = ToolsOf(transport, report[transport])
        BY <2>1, <3>2 DEF Catalogued
      <4>2. <<s, registry[s]>> \in catalog
        BY <3>2, <4>1 DEF ToolsOf
      <4> QED BY <3>1, <4>2
    <3>3. CASE ~(Published(transport) /\ report[transport][s] = "connected")
      <4>1. registry[s] = None
        BY <1>2, <2>1, <3>3 DEF Catalogued, Clears
      <4> QED BY <3>1, <4>1
    <3> QED BY <3>2, <3>3
  <2> QED BY <2>1, <2>2 DEF Catalogued
<1>3. CASE UNCHANGED <<transportVars, phase, startErr, report>>
  BY <1>3 DEF Catalogued, Published
<1> QED BY <1>1, <1>2, <1>3 DEF TransportStep

LEMMA CatalogueOwner ==
    ASSUME TypeOK, Scopes, Catalogued, NEW g \in Gen, OwnerNext(g) PROVE Catalogued'
<1>0. /\ Typed /\ connected \in BOOLEAN
      /\ registry \in [Server -> Gen \cup {None}] /\ report \in [Gen -> [Server -> {"untried", "connected", "failed", "swallowed"}]]
  BY TypesUsed DEF TypeOK, TransportTypes, OwnerTypes
<1>1. OwnerStep(g) /\ transport = g /\ transport' = g /\ transport # None
  BY <1>0, OwnerSteps DEF OwnerStep, Scopes, Alive, Typed
<1>2. /\ phase[g] = "created" => \A s \in Server : report[g][s] = "untried"
      /\ connected <=> Published(g)
      /\ catalog = IF Published(g) THEN ToolsOf(g, report[g]) ELSE {}
      /\ \A s \in Server : registry[s] = IF /\ Published(g) \/ phase[g] = "connecting"
                                            /\ report[g][s] = "connected"
                                         THEN g ELSE None
  BY <1>1 DEF Catalogued
<1>3. SUFFICES /\ phase'[g] = "created" => \A s \in Server : report'[g][s] = "untried"
               /\ connected' <=> Published(g)'
               /\ catalog' = IF Published(g)' THEN ToolsOf(g, report'[g]) ELSE {}
               /\ \A s \in Server : registry'[s] = IF /\ Published(g)' \/ phase'[g] = "connecting"
                                                      /\ report'[g][s] = "connected"
                                                   THEN g ELSE None
  BY <1>1 DEF Catalogued
<1>4. CASE OwnerStart(g)
  <2>1. phase[g] = "created" /\ phase'[g] = "connecting" /\ UNCHANGED <<transportVars, startErr, report>>
    BY <1>0, <1>4 DEF OwnerStart, Typed
  <2>2. ~Published(g) /\ ~Published(g)'
    BY <2>1 DEF Published
  <2> QED BY <1>2, <2>1, <2>2
<1>5. CASE OwnerUnstarted(g)
  <2>1. phase[g] = "created" /\ phase'[g] = "done" /\ startErr'[g] = "cancelled" /\ UNCHANGED <<transportVars, report>>
    BY <1>0, <1>5 DEF OwnerUnstarted, Typed
  <2>2. ~Published(g) /\ ~Published(g)'
    BY <2>1 DEF Published
  <2> QED BY <1>2, <2>1, <2>2
<1>6. CASE \E s \in Server, result \in {"connected", "failed", "swallowed"} : ConnectServer(g, s, result)
  <2>1. PICK s \in Server, result \in {"connected", "failed", "swallowed"} : ConnectServer(g, s, result)
    BY <1>6
  <2> DEFINE r == [report[g] EXCEPT ![s] = result]
             last == \A x \in Server : r[x] # "untried"
  <2>2. /\ phase[g] = "connecting" /\ report' = [report EXCEPT ![g] = r]
        /\ registry' = IF result = "connected" THEN [registry EXCEPT ![s] = g] ELSE registry
        /\ phase' = IF last THEN [phase EXCEPT ![g] = "serving"] ELSE phase
        /\ connected' = (connected \/ last)
        /\ catalog' = IF last THEN ToolsOf(g, r) ELSE catalog
        /\ report[g][s] = "untried" /\ startErr' = startErr
    BY <2>1 DEF ConnectServer
  <2>3. r[s] = result /\ \A x \in Server \ {s} : r[x] = report[g][x]
    BY <1>0
  <2> HIDE DEF r, last
  <2>4. report'[g] = r
    BY <1>0, <2>2
  <2>5. ~Published(g) /\ ~connected /\ catalog = {}
    BY <1>2, <2>2 DEF Published
  <2>6. \A x \in Server : registry'[x] = IF r[x] = "connected" THEN g ELSE None
    <3>1. CASE result = "connected"
      BY <1>0, <1>2, <2>2, <2>3, <3>1
    <3>2. CASE result # "connected"
      BY <1>2, <2>2, <2>3, <3>2
    <3> QED BY <3>1, <3>2
  <2>7. CASE last
    <3>1. phase'[g] = "serving" /\ connected' /\ catalog' = ToolsOf(g, r)
      BY <1>0, <2>2, <2>7 DEF Typed
    <3>2. Published(g)'
      BY <3>1 DEF Published
    <3> QED BY <2>4, <2>6, <3>1, <3>2
  <2>8. CASE ~last
    <3>1. phase'[g] = "connecting" /\ ~connected' /\ catalog' = {}
      BY <2>2, <2>5, <2>8
    <3>2. ~Published(g)'
      BY <3>1 DEF Published
    <3> QED BY <2>4, <2>6, <3>1, <3>2
  <2> QED BY <2>7, <2>8
<1>7. CASE \E error \in {"cancelled", "startup"} : ConnectFailed(g, error)
  <2>1. PICK error \in {"cancelled", "startup"} : ConnectFailed(g, error)
    BY <1>7
  <2>2. /\ phase[g] = "connecting" /\ phase'[g] = "failing" /\ UNCHANGED <<connected, catalog, report>>
        /\ Unregister(ToolsOf(g, report[g]))
    BY <1>0, <2>1 DEF ConnectFailed, Typed
  <2>3. ~Published(g) /\ ~Published(g)'
    BY <2>2 DEF Published
  <2>4. ASSUME NEW s \in Server PROVE registry'[s] = None
    <3>1. registry'[s] = IF <<s, registry[s]>> \in ToolsOf(g, report[g]) THEN None ELSE registry[s]
      BY <2>2 DEF Unregister
    <3>2. registry[s] = IF report[g][s] = "connected" THEN g ELSE None
      BY <1>2, <2>2
    <3> QED BY <3>1, <3>2 DEF ToolsOf
  <2> QED BY <1>2, <2>2, <2>3, <2>4
<1>8. CASE OwnerShutdown(g)
  <2>1. phase[g] = "serving" /\ phase'[g] = "closing" /\ UNCHANGED <<transportVars, startErr, report>>
    BY <1>0, <1>8 DEF OwnerShutdown, Typed
  <2>2. Published(g) /\ Published(g)'
    BY <2>1 DEF Published
  <2> QED BY <1>2, <2>1, <2>2
<1>9. CASE \E failed \in BOOLEAN : CloseStack(g, failed)
  <2>1. phase[g] \in {"failing", "closing"} /\ phase'[g] = "done" /\ UNCHANGED <<transportVars, startErr, report>>
    BY <1>0, <1>9 DEF CloseStack, Typed
  <2>2. Alive(g)
    BY DEF Scopes
  <2>3. Published(g)' = Published(g)
    BY <2>1, <2>2 DEF Published, Alive
  <2> QED BY <1>2, <2>1, <2>3
<1> QED BY <1>4, <1>5, <1>6, <1>7, <1>8, <1>9 DEF OwnerNext

LEMMA CatalogueInit == Init => Catalogued
BY DEF Init, Catalogued

LEMMA CatalogueNext ==
    ASSUME Manual = {}, TypeOK, Scopes, Catalogued, [Next]_vars PROVE Catalogued'
<1>1. ASSUME NEW g \in Gen, OwnerNext(g) PROVE Catalogued'
  BY <1>1, CatalogueOwner
<1>2. ASSUME NEW t \in Task, Resume(t) \/ Work(t) PROVE Catalogued'
  BY <1>2, ResumeTransport, WorkTransport, CatalogueTask
<1>3. CASE \/ \E t \in Task : Cancel(t)
           \/ CloseTaskStart \/ CloseTaskEnd \/ UNCHANGED vars
  BY <1>3 DEF Cancel, CloseTaskStart, CloseTaskEnd, vars, Catalogued, Published
<1> QED BY <1>1, <1>2, <1>3 DEF Next

-----------------------------------------------------------------------------
(* Who is inside the agent *)

\* A step changes how far one task is inside, and lets nobody in once the
\* agent is closing.
EntryStep(t) ==
    /\ \A x \in Task \ {t} : pc'[x] = pc[x] /\ entries'[x] = entries[x] /\ borrowers'[x] = borrowers[x]
    /\ closing /\ entries[t] = 0 => entries'[t] = 0
    /\ Entered(t)'

LEMMA EntryEnds ==
    ASSUME TypeOK, NEW t \in Task, NEW errors, EndCall(t, errors), UNCHANGED borrowers PROVE EntryStep(t)
<1>1. Typed /\ pc' = [pc EXCEPT ![t] = "ready"] /\ entries' = [entries EXCEPT ![t] = 0]
  BY TypesUsed DEF EndCall
<1>2. pc'[t] = "ready" /\ entries'[t] = 0
  BY <1>1 DEF Typed
<1>3. Entered(t)'
  BY <1>2 DEF Entered
<1> QED BY <1>1, <1>2, <1>3 DEF EntryStep, Typed

\* Moving on inside a call, without leaving it.
LEMMA EntryMoves ==
    ASSUME TypeOK, Entries, NEW t \in Task, pc[t] \notin {"unborn", "ready", "done", "lease", "aclose"},
           NEW place \in {"connecting", "reap", "body", "drain", "closing"},
           pc' = [pc EXCEPT ![t] = place], UNCHANGED entries, \A x \in Task : borrowers'[x] = borrowers[x]
    PROVE  EntryStep(t)
<1>1. Typed /\ Entered(t)
  BY TypesUsed DEF Entries
<1>2. pc'[t] = place
  BY <1>1 DEF Typed
<1>3. Entered(t)'
  BY <1>1, <1>2 DEF Entered
<1> QED BY <1>1, <1>3 DEF EntryStep, Typed

\* Leaving the body: the calls it was nested in are over.
LEMMA EntryLeaves ==
    ASSUME TypeOK, Entries, NEW t \in Task, pc[t] \notin {"unborn", "ready", "done", "lease"},
           NEW place \in {"drain", "closing"},
           pc' = [pc EXCEPT ![t] = place], NestedOver(t), \A x \in Task : borrowers'[x] = borrowers[x]
    PROVE  EntryStep(t)
<1>1. Typed /\ Entered(t)
  BY TypesUsed DEF Entries
<1>2. pc'[t] = place /\ entries'[t] = Base(t)
  BY <1>1 DEF Typed, NestedOver
<1>3. Entered(t)'
  BY <1>2 DEF Entered, Base
<1>4. entries[t] = 0 => entries'[t] = 0
  BY <1>1, <1>2 DEF Entered, Base
<1> QED BY <1>1, <1>3, <1>4 DEF EntryStep, Typed, NestedOver

LEMMA EntryDrains ==
    ASSUME TypeOK, Entries, Scopes, NEW t \in Task, pc[t] \in {"body", "drain", "aclose"}, holder = t,
           NEW body, NEW c, NEW abort, Drains(t, body, c, abort)
    PROVE  EntryStep(t)
<1>1. \A x \in Task : borrowers'[x] = borrowers[x]
  BY DEF Drains
<1>2. NestedOver(t) /\ (pc' = [pc EXCEPT ![t] = "drain"] \/ pc' = [pc EXCEPT ![t] = "closing"])
  BY DEF Drains, DrainsOn, DrainsOut, Shuts
<1> QED BY <1>1, <1>2, EntryLeaves

LEMMA EntryEnters ==
    ASSUME TypeOK, Entries, Scopes, NEW t \in Task, holder = None, EnterScope(t), pc[t] = "waitScope", UNCHANGED entries
    PROVE  EntryStep(t)
<1>1. PICK g \in Gen : Enters(t, g)
  BY EnterCreates
<1>2. pc' = [pc EXCEPT ![t] = "connecting"] /\ UNCHANGED borrowers
  BY <1>1 DEF Enters
<1> QED BY <1>2, EntryMoves

LEMMA EntryResumes == ASSUME TypeOK, Entries, Scopes, NEW t \in Task, Resume(t) PROVE EntryStep(t) /\ UNCHANGED <<closing, closeTask, closeSet, excluded>>
<1>0. Typed /\ Scoped(t) /\ Entered(t)
  BY TypesUsed DEF Scopes, Entries
<1>1. CASE AcquireScope(t)
  <2>1. CASE closing
    BY <1>1, <2>1, EntryEnds DEF AcquireScope
  <2>2. CASE ~closing
    BY <1>1, <2>2, EntryEnters DEF AcquireScope
  <2> QED BY <2>1, <2>2
<1>2. CASE CancelWaiter(t)
  BY <1>2, EntryEnds DEF CancelWaiter
<1>3. CASE ConnectSucceeds(t)
  <2>1. pc[t] = "connecting" /\ holder = t /\ initiator[t] /\ UNCHANGED <<borrowers, agentVars>>
    BY <1>0, <1>3 DEF ConnectSucceeds, Scoped
  <2>2. CASE closing => t \in Bare
    <3>1. pc' = [pc EXCEPT ![t] = "body"] /\ UNCHANGED entries
      BY <1>3, <2>1, <2>2 DEF ConnectSucceeds, Activate
    <3> QED BY <2>1, <3>1, EntryMoves
  <2>3. CASE ~(closing => t \in Bare)
    <3>1. CloseOwned(t, initiator[t], "closed", {})
      BY <1>3, <2>1, <2>3 DEF ConnectSucceeds
    <3>2. pc' = [pc EXCEPT ![t] = "closing"] /\ NestedOver(t)
      BY <2>1, <3>1, CloseOwnedShuts DEF Shuts
    <3> QED BY <2>1, <3>2, EntryLeaves
  <2> QED BY <2>2, <2>3
<1>4. CASE ConnectFails(t)
  <2>1. pc[t] = "connecting" /\ UNCHANGED <<borrowers, agentVars>>
    BY <1>4 DEF ConnectFails
  <2>2. CASE OwnerExited(tr[t])
    BY <1>4, <2>1, <2>2, EntryEnds DEF ConnectFails, ReapNow
  <2>3. CASE ~OwnerExited(tr[t])
    <3>1. pc' = [pc EXCEPT ![t] = "reap"] /\ UNCHANGED entries
      BY <1>4, <2>3 DEF ConnectFails
    <3> QED BY <2>1, <3>1, EntryMoves
  <2> QED BY <2>2, <2>3
<1>5. CASE CancelConnect(t)
  <2>1. pc[t] = "connecting" /\ initiator[t]
    BY <1>0, <1>5 DEF CancelConnect, Scoped
  <2>2. pc' = [pc EXCEPT ![t] = "reap"] /\ UNCHANGED <<entries, borrowers, agentVars>>
    BY <1>5, <2>1 DEF CancelConnect
  <2> QED BY <2>1, <2>2, EntryMoves
<1>6. CASE Reap(t)
  BY <1>6, EntryEnds DEF Reap, ReapNow
<1>7. CASE Absorb(t)
  BY <1>0, <1>7 DEF Absorb, EntryStep, Entered
<1>8. CASE DrainResume(t)
  <2>1. pc[t] = "drain" /\ DrainPass(t, bodyErr[t], borrowers, cancel, aborting)
    BY <1>8 DEF DrainResume
  <2>2. holder = t /\ UNCHANGED agentVars
    BY <1>0, <2>1 DEF Scoped, DrainPass
  <2> QED BY <2>1, <2>2, DrainPassDrains, EntryDrains
<1>9. CASE DrainCancelled(t)
  BY <1>0, <1>9 DEF DrainCancelled, EntryStep, Entered
<1>10. CASE CloseReturns(t)
  BY <1>10, EntryEnds DEF CloseReturns
<1>11. CASE ACloseReturns(t)
  <2>1. pc[t] = "aclose" /\ entries[t] = 0 /\ t \in Bare /\ UNCHANGED agentVars
    BY <1>0, <1>11 DEF ACloseReturns, Entered, DrainPass
  <2>2. CASE pc' \in {[pc EXCEPT ![t] = "ready"], [pc EXCEPT ![t] = "body"]} /\ UNCHANGED <<entries, borrowers>>
    <3>1. pc'[t] \in {"ready", "body"}
      BY <1>0, <2>2 DEF Typed
    <3>2. Entered(t)'
      BY <2>1, <2>2, <3>1 DEF Entered
    <3>3. \A x \in Task \ {t} : pc'[x] = pc[x]
      <4>1. CASE pc' = [pc EXCEPT ![t] = "ready"]
        BY <1>0, <4>1 DEF Typed
      <4>2. CASE pc' = [pc EXCEPT ![t] = "body"]
        BY <1>0, <4>2 DEF Typed
      <4> QED BY <2>2, <4>1, <4>2
    <3>4. UNCHANGED <<entries, borrowers>> /\ entries[t] = 0
      BY <2>1, <2>2
    <3> QED BY <2>1, <3>2, <3>3, <3>4 DEF EntryStep
  <2>3. CASE holder = t /\ DrainPass(t, "cancelled", borrowers, cancel, TRUE)
    <3>1. \E abort : DrainPass(t, "cancelled", borrowers, cancel, abort)
      BY <2>3
    <3> QED BY <2>1, <2>3, <3>1, DrainPassDrains, EntryDrains
  <2> QED BY <1>11, <2>1, <2>2, <2>3 DEF ACloseReturns
<1> QED BY <1>1, <1>2, <1>3, <1>4, <1>5, <1>6, <1>7, <1>8, <1>9, <1>10, <1>11 DEF Resume

\* What work does: it is done by the task itself or starts another, and may
\* begin to close the agent.
LEMMA EntryWorks ==
    ASSUME Manual = {}, TypeOK, Entries, Scopes, NEW t \in Task, Work(t) PROVE \E x \in Task : EntryStep(x)
<1>0. Typed /\ Scoped(t) /\ Entered(t)
  BY TypesUsed DEF Scopes, Entries
<1>1. CASE CallRefused(t)
  BY <1>0, <1>1 DEF CallRefused, EntryStep, Entered
<1>2. CASE CallBorrow(t)
  <2>1. /\ pc[t] = "ready" /\ ~closing /\ t \notin Bare /\ pc' = [pc EXCEPT ![t] = "lease"]
        /\ borrowers' = [borrowers EXCEPT ![t] = @ + 1] /\ entries' = [entries EXCEPT ![t] = @ + 1]
    BY <1>2 DEF CallBorrow, Admits, MayCall
  <2>2. entries[t] = 0 /\ borrowers[t] = 0
    BY <1>0, <2>1 DEF Entered, Scoped, Typed
  <2>3. pc'[t] = "lease" /\ entries'[t] = 1 /\ borrowers'[t] = 1
    BY <1>0, <2>1, <2>2 DEF Typed
  <2>4. Entered(t)'
    BY <2>1, <2>3 DEF Entered
  <2> QED BY <1>0, <2>1, <2>4 DEF EntryStep, Typed
<1>3. CASE CallFresh(t)
  <2>1. /\ pc[t] = "ready" /\ ~closing
        /\ entries' = IF t \in Bare THEN entries ELSE [entries EXCEPT ![t] = @ + 1]
    BY <1>3 DEF CallFresh, Admits, MayCall
  <2>2. PICK place \in {"connecting", "waitScope"} : pc' = [pc EXCEPT ![t] = place] /\ UNCHANGED borrowers
    <3>1. CASE holder = None /\ EnterScope(t)
      BY <3>1, EnterCreates DEF Enters
    <3> QED BY <1>3, <3>1 DEF CallFresh
  <2>3. pc'[t] = place /\ entries'[t] = (IF t \in Bare THEN entries[t] ELSE entries[t] + 1)
    BY <1>0, <2>1, <2>2 DEF Typed
  <2>4. Entered(t)'
    BY <1>0, <2>3 DEF Entered, Typed
  <2>5. ASSUME NEW x \in Task \ {t} PROVE pc'[x] = pc[x] /\ entries'[x] = entries[x] /\ borrowers'[x] = borrowers[x]
    BY <1>0, <2>1, <2>2 DEF Typed
  <2> QED BY <2>1, <2>4, <2>5 DEF EntryStep
<1>4. ASSUME NEW c \in Task, Spawn(t, c) PROVE EntryStep(c)
  <2>1. pc[c] = "unborn" /\ pc' = [pc EXCEPT ![c] = "ready"] /\ UNCHANGED <<entries, borrowers>> /\ Entered(c)
    BY <1>4 DEF Spawn, Entries
  <2>2. pc'[c] = "ready" /\ entries'[c] = 0
    BY <1>0, <2>1 DEF Typed, Entered
  <2>3. Entered(c)'
    BY <2>2 DEF Entered
  <2> QED BY <1>0, <2>1, <2>2, <2>3 DEF EntryStep, Typed
<1>5. CASE NestedCall(t)
  <2>1. /\ pc[t] \in {"body", "lease"} /\ ~closing /\ UNCHANGED pc /\ entries' = [entries EXCEPT ![t] = @ + 1]
        /\ borrowers' = IF ReuseKind(t) = "own" THEN borrowers ELSE [borrowers EXCEPT ![t] = @ + 1]
    BY <1>5 DEF NestedCall
  <2>2. entries'[t] = entries[t] + 1
    BY <1>0, <2>1 DEF Typed
  <2>3. pc[t] = "lease" => borrowers'[t] = borrowers[t] + 1
    <3>1. SUFFICES ASSUME pc[t] = "lease" PROVE ReuseKind(t) # "own"
      BY <1>0, <2>1 DEF Typed
    <3>2. holder # t /\ holder # None
      BY <1>0, <3>1 DEF Scopes, Scoped, Empty
    <3>3. ownerTask = holder
      BY <1>0, <3>2 DEF Scopes, Scoped, Typed
    <3> QED BY <3>2, <3>3 DEF ReuseKind
  <2>4. Entered(t)'
    BY <1>0, <2>1, <2>2, <2>3 DEF Entered, Typed
  <2>5. ASSUME NEW x \in Task \ {t} PROVE pc'[x] = pc[x] /\ entries'[x] = entries[x] /\ borrowers'[x] = borrowers[x]
    BY <1>0, <2>1 DEF Typed
  <2> QED BY <2>1, <2>4, <2>5 DEF EntryStep
<1>6. CASE NestedReturn(t)
  <2>1. /\ pc[t] \in {"body", "lease"} /\ UNCHANGED pc
        /\ entries' = [entries EXCEPT ![t] = IF @ <= 1 THEN 0 ELSE @ - 1]
        /\ borrowers' = [borrowers EXCEPT ![t] = IF @ <= 1 THEN 0 ELSE @ - 1]
        /\ pc[t] = "body" => entries[t] > Base(t)
        /\ pc[t] = "lease" => borrowers[t] > 1
    BY <1>6 DEF NestedReturn, Pop
  <2>2. /\ entries'[t] = IF entries[t] <= 1 THEN 0 ELSE entries[t] - 1
        /\ borrowers'[t] = IF borrowers[t] <= 1 THEN 0 ELSE borrowers[t] - 1
    BY <1>0, <2>1 DEF Typed
  <2>3. pc[t] = "body" /\ t \notin Bare => entries[t] > 1
    BY <2>1 DEF Base
  <2>4. Entered(t)'
    BY <1>0, <2>1, <2>2, <2>3 DEF Entered, Typed
  <2>5. ASSUME NEW x \in Task \ {t} PROVE pc'[x] = pc[x] /\ entries'[x] = entries[x] /\ borrowers'[x] = borrowers[x]
    BY <1>0, <2>1 DEF Typed
  <2>6. entries[t] = 0 => entries'[t] = 0
    BY <2>2
  <2> QED BY <2>4, <2>5, <2>6 DEF EntryStep
<1>7. ASSUME NEW cancelled \in BOOLEAN, LeaseExit(t, cancelled) PROVE EntryStep(t)
  <2>1. pc' = [pc EXCEPT ![t] = "ready"] /\ borrowers' = [borrowers EXCEPT ![t] = 0] /\ entries' = [entries EXCEPT ![t] = 0]
    BY <1>7 DEF LeaseExit
  <2>2. pc'[t] = "ready" /\ entries'[t] = 0
    BY <1>0, <2>1 DEF Typed
  <2>3. Entered(t)'
    BY <2>2 DEF Entered
  <2> QED BY <1>0, <2>1, <2>2, <2>3 DEF EntryStep, Typed
<1>8. ASSUME NEW error \in {"none", "body", "cancelled"}, BodyExit(t, error) PROVE EntryStep(t)
  <2> DEFINE b == [borrowers EXCEPT ![t] = 0]
             c == [cancel EXCEPT ![t] = @ /\ error # "cancelled"]
  <2>1. pc[t] = "body" /\ \E abort : DrainPass(t, error, b, c, abort)
    BY <1>8 DEF BodyExit
  <2>2. holder = t /\ borrowers[t] = 0
    BY <1>0, <2>1 DEF Scoped, Typed
  <2>3. \A x \in Task : b[x] = borrowers[x]
    BY <1>0, <2>2 DEF Typed
  <2> HIDE DEF b, c
  <2> QED BY <2>1, <2>2, <2>3, DrainPassDrains, EntryDrains
<1>9. CASE ManualConnect(t) \/ ManualClose(t)
  BY <1>9 DEF ManualConnect, ManualClose
<1>10. CASE AClose(t)
  <2>1. t \in Bare /\ entries[t] = 0 /\ pc' = [pc EXCEPT ![t] = "aclose"] /\ UNCHANGED <<entries, borrowers>>
    BY <1>10 DEF AClose
  <2>2. pc'[t] = "aclose"
    BY <1>0, <2>1 DEF Typed
  <2>3. Entered(t)'
    BY <2>1, <2>2 DEF Entered
  <2> QED BY <1>0, <2>1, <2>3 DEF EntryStep, Typed
<1>11. CASE Finish(t)
  <2>1. pc[t] = "ready" /\ pc' = [pc EXCEPT ![t] = "done"] /\ UNCHANGED <<entries, borrowers>>
    BY <1>11 DEF Finish
  <2>2. pc'[t] = "done" /\ entries[t] = 0
    BY <1>0, <2>1 DEF Typed, Entered
  <2>3. Entered(t)'
    BY <2>1, <2>2 DEF Entered
  <2> QED BY <1>0, <2>1, <2>2, <2>3 DEF EntryStep, Typed
<1> QED BY <1>1, <1>2, <1>3, <1>4, <1>5, <1>6, <1>7, <1>8, <1>9, <1>10, <1>11 DEF Work

\* The close is begun by a task that is outside, or is as it was.
CloseBegins(t) ==
    /\ closing' /\ t \in Bare /\ entries[t] = 0 /\ UNCHANGED <<entries, closeSet>>
    /\ closeTask' = IF closeTask = "none" THEN "created" ELSE closeTask
    /\ excluded' = IF closeTask = "none" THEN t ELSE excluded
    /\ closeTask # "finished"

LEMMA WorkCloses ==
    ASSUME Manual = {}, NEW t \in Task, Work(t)
    PROVE  CloseBegins(t) \/ UNCHANGED <<closing, closeTask, closeSet, excluded>>
<1>1. CASE CallRefused(t) \/ CallBorrow(t) \/ CallFresh(t) \/ (\E c \in Task : Spawn(t, c)) \/ NestedCall(t) \/ NestedReturn(t)
  BY <1>1 DEF CallRefused, CallBorrow, CallFresh, Spawn, NestedCall, NestedReturn
<1>2. CASE (\E cancelled \in BOOLEAN : LeaseExit(t, cancelled)) \/ Finish(t)
  BY <1>2 DEF LeaseExit, Finish
<1>3. CASE \E error \in {"none", "body", "cancelled"} : BodyExit(t, error)
  BY <1>3 DEF BodyExit, DrainPass
<1>4. CASE ManualConnect(t) \/ ManualClose(t)
  BY <1>4 DEF ManualConnect, ManualClose
<1>5. CASE AClose(t)
  BY <1>5 DEF AClose, CloseBegins
<1> QED BY <1>1, <1>2, <1>3, <1>4, <1>5 DEF Work

LEMMA EntriesStep ==
    ASSUME TypeOK, Entries, NEW x \in Task, EntryStep(x), NEW t \in Task,
           CloseBegins(t) \/ UNCHANGED <<closing, closeTask, closeSet, excluded>>
    PROVE  Entries'
<1>1. ASSUME NEW y \in Task PROVE Entered(y)'
  <2>1. CASE y = x
    BY <2>1 DEF EntryStep
  <2>2. CASE y # x
    BY <2>2 DEF EntryStep, Entries, Entered
  <2> QED BY <2>1, <2>2
<1>2. ASSUME closing, NEW y \in Task, entries[y] = 0 PROVE entries'[y] = 0
  BY <1>2 DEF EntryStep
<1>3. Closing /\ closeTask \in {"none", "created", "draining", "finished"} /\ closing \in BOOLEAN
  BY DEF Entries, TypeOK, AgentTypes
<1>4. CASE UNCHANGED <<closing, closeTask, closeSet, excluded>>
  <2>1. Closing'
    BY <1>2, <1>3, <1>4 DEF Closing
  <2> QED BY <1>1, <2>1 DEF Entries
<1>5. CASE CloseBegins(t)
  <2>1. UNCHANGED <<entries, closeSet>> /\ entries[t] = 0 /\ closing' /\ closeTask # "finished"
    BY <1>5 DEF CloseBegins
  <2>2. CASE closeTask = "none"
    <3>1. closeTask' = "created" /\ excluded' = t
      BY <1>5, <2>2 DEF CloseBegins
    <3>2. Closing'
      BY <2>1, <3>1 DEF Closing
    <3> QED BY <1>1, <3>2 DEF Entries
  <2>3. CASE closeTask # "none"
    <3>1. closeTask' = closeTask /\ excluded' = excluded
      BY <1>5, <2>3 DEF CloseBegins
    <3>2. Closing'
      BY <1>3, <2>1, <2>3, <3>1 DEF Closing
    <3> QED BY <1>1, <3>2 DEF Entries
  <2> QED BY <2>2, <2>3
<1> QED BY <1>4, <1>5

LEMMA EntriesInit == Init => Entries
BY ConstantsAssumption DEF Init, Entries, Entered, Closing

LEMMA EntriesNext ==
    ASSUME Manual = {}, TypeOK, Scopes, Entries, [Next]_vars PROVE Entries'
<1>0. Typed /\ closing \in BOOLEAN /\ Closing
  BY TypesUsed DEF TypeOK, AgentTypes, Entries
<1>1. CASE UNCHANGED <<pc, entries, borrowers, closing, closeTask, closeSet, excluded>>
  BY <1>1 DEF Entries, Entered, Closing
<1>2. CASE \/ \E g \in Gen : OwnerNext(g)
           \/ \E t \in Task : Cancel(t)
           \/ UNCHANGED vars
  <2>1. ASSUME NEW g \in Gen, OwnerNext(g) PROVE UNCHANGED <<pc, entries, borrowers, closing, closeTask, closeSet, excluded>>
    BY <2>1 DEF OwnerNext, OwnerStart, OwnerUnstarted, ConnectServer, ConnectFailed, OwnerShutdown, CloseStack
  <2> QED BY <1>1, <1>2, <2>1 DEF Cancel, vars
<1>3. ASSUME NEW t \in Task, Resume(t) PROVE Entries'
  BY <1>3, EntryResumes, EntriesStep
<1>4. ASSUME NEW t \in Task, Work(t) PROVE Entries'
  BY <1>4, EntryWorks, WorkCloses, EntriesStep
<1>5. CASE CloseTaskStart
  <2>1. UNCHANGED <<pc, entries, borrowers, closing, excluded>> /\ closeTask = "created" /\ closeTask' = "draining"
    BY <1>5 DEF CloseTaskStart
  <2>2. closeSet' = {x \in Task \ {excluded} : entries[x] > 0 /\ pc[x] # "done"}
    BY <1>5 DEF CloseTaskStart
  <2>3. closing /\ entries[excluded] = 0 /\ excluded \in Task
    BY <1>0, <2>1 DEF Closing
  <2>4. ASSUME NEW x \in Task, x \notin closeSet' PROVE entries[x] = 0
    <3>1. Entered(x) /\ entries[x] \in Nat
      BY <1>0 DEF Entries, Typed
    <3> QED BY <2>2, <2>3, <2>4, <3>1 DEF Entered
  <2>5. Closing'
    BY <2>1, <2>3, <2>4 DEF Closing
  <2> QED BY <2>1, <2>5 DEF Entries, Entered
<1>6. CASE CloseTaskEnd
  <2>1. UNCHANGED <<pc, entries, borrowers, closing, excluded, closeSet>> /\ closeTask = "draining" /\ closeTask' = "finished"
        /\ \A x \in closeSet : pc[x] = "done"
    BY <1>6 DEF CloseTaskEnd
  <2>2. \A x \in Task : entries[x] = 0
    BY <1>0, <2>1 DEF Closing, Entries, Entered
  <2>3. Closing'
    BY <1>0, <2>1, <2>2 DEF Closing
  <2> QED BY <2>1, <2>3 DEF Entries, Entered
<1> QED BY <1>2, <1>3, <1>4, <1>5, <1>6 DEF Next

-----------------------------------------------------------------------------
(* What calls report *)

ReportTypes ==
    /\ outcome \in [Task -> SUBSET Errors] /\ errs \in [Task -> SUBSET Errors]
    /\ bodyErr \in [Task -> {"none", "body", "closed", "cancelled"}]

\* Of the other tasks nothing changes that they report.
ReportOthers(t) ==
    \A x \in Task \ {t} :
        /\ pc'[x] = pc[x] /\ hit'[x] = hit[x] /\ held'[x] = held[x]
        /\ outcome'[x] = outcome[x] /\ errs'[x] = errs[x] /\ bodyErr'[x] = bodyErr[x]
        /\ (holder' = x) = (holder = x)

LEMMA ReportStep ==
    ASSUME TypeOK, Reporting, NEW t \in Task, ReportOthers(t), Remembers(t)', Blamed(t)',
           holder' \in {t, None} \/ UNCHANGED <<transport, ownerCancel, startErr>>
    PROVE  Reporting'
<1>1. ASSUME NEW x \in Task PROVE Remembers(x)' /\ Blamed(x)'
  <2>1. CASE x = t
    BY <2>1
  <2>2. CASE x # t
    <3>1. Remembers(x) /\ Blamed(x)
      BY DEF Reporting
    <3>2. Remembers(x)'
      BY <2>2, <3>1 DEF Remembers, ReportOthers
    <3>3. Blamed(x)'
      BY <2>2, <3>1, ConstantsAssumption DEF Blamed, ReportOthers
    <3> QED BY <3>2, <3>3
  <2> QED BY <2>1, <2>2
<1> QED BY <1>1 DEF Reporting

\* A call ends, with a cancellation exactly if one reached it.
LEMMA ReportEnds ==
    ASSUME TypeOK, Reporting, NEW t \in Task, NEW errors, EndCall(t, errors),
           \A x \in Task \ {t} : hit'[x] = hit[x], hit'[t] <=> "cancelled" \in errors,
           holder = t \/ UNCHANGED <<transport, ownerCancel, startErr>>
    PROVE  Reporting'
<1>1. Typed /\ ReportTypes
  BY TypesUsed DEF TypeOK, TaskTypes, ReportTypes
<1>2. /\ pc' = [pc EXCEPT ![t] = "ready"] /\ held' = [held EXCEPT ![t] = FALSE] /\ bodyErr' = [bodyErr EXCEPT ![t] = "none"]
      /\ errs' = [errs EXCEPT ![t] = {}] /\ outcome' = [outcome EXCEPT ![t] = errors]
      /\ holder' = IF holder = t THEN None ELSE holder
  BY DEF EndCall
<1>3. pc'[t] = "ready" /\ ~held'[t] /\ outcome'[t] = errors
  BY <1>1, <1>2 DEF Typed, ReportTypes
<1>4. Remembers(t)'
  BY <1>3 DEF Remembers
<1>5. ReportOthers(t)
  BY <1>1, <1>2 DEF ReportOthers, Typed, ReportTypes
<1>6. holder' # t /\ (holder = t => holder' = None)
  BY <1>1, <1>2 DEF Typed
<1>7. Blamed(t)'
  BY <1>6 DEF Blamed
<1> QED BY <1>4, <1>5, <1>6, <1>7, ReportStep

\* A pass of the drain keeps the body error, and what it absorbed.
LEMMA ReportDrains ==
    ASSUME TypeOK, Reporting, NEW t \in Task, holder = t, pc[t] \in {"body", "drain", "aclose"},
           NEW body \in {"none", "body", "closed", "cancelled"}, NEW c, NEW abort, Drains(t, body, c, abort),
           \A x \in Task \ {t} : hit'[x] = hit[x], hit'[t] <=> held[t] \/ body = "cancelled"
    PROVE  Reporting'
<1>1. Typed /\ ReportTypes /\ Blamed(t)
  BY TypesUsed DEF TypeOK, TaskTypes, ReportTypes, Reporting
<1>2. UNCHANGED <<transport, ownerCancel, startErr>>
  BY DEF Drains
<1>3. Blamed(t)'
  BY <1>1, <1>2 DEF Blamed
<1>4. CASE DrainsOn(t, body, c, abort)
  <2>1. /\ pc' = [pc EXCEPT ![t] = "drain"] /\ bodyErr' = [bodyErr EXCEPT ![t] = body]
        /\ UNCHANGED <<held, outcome, errs, holder>>
    BY <1>4 DEF DrainsOn
  <2>2. pc'[t] = "drain" /\ bodyErr'[t] = body /\ held'[t] = held[t]
    BY <1>1, <2>1 DEF Typed, ReportTypes
  <2>3. Remembers(t)'
    BY <2>2 DEF Remembers
  <2>4. ReportOthers(t)
    BY <1>1, <2>1 DEF ReportOthers, Typed, ReportTypes
  <2> QED BY <1>2, <1>3, <2>3, <2>4, ReportStep
<1>5. CASE DrainsOut(t, body, c)
  <2>1. /\ pc' = [pc EXCEPT ![t] = "closing"] /\ bodyErr' = [bodyErr EXCEPT ![t] = body]
        /\ held' = [held EXCEPT ![t] = FALSE] /\ errs' = [errs EXCEPT ![t] = Held(t)]
        /\ UNCHANGED <<outcome, holder>>
    BY <1>5 DEF DrainsOut, Shuts
  <2>2. pc'[t] = "closing" /\ bodyErr'[t] = body /\ ~held'[t] /\ errs'[t] = Held(t)
    BY <1>1, <2>1 DEF Typed, ReportTypes
  <2>3. ("cancelled" \in errs'[t]) = held[t]
    BY <1>1, <2>2 DEF Held, Typed
  <2>4. Remembers(t)'
    BY <2>2, <2>3 DEF Remembers
  <2>5. ReportOthers(t)
    BY <1>1, <2>1 DEF ReportOthers, Typed, ReportTypes
  <2> QED BY <1>2, <1>3, <2>4, <2>5, ReportStep
<1> QED BY <1>4, <1>5 DEF Drains

\* What is raised at the end contains the cancellation exactly if there was one.
LEMMA CombineReports ==
    ASSUME NEW body \in {"none", "body", "closed", "cancelled"}, NEW cleanup
    PROVE  "cancelled" \in Combine(body, cleanup) <=> body = "cancelled" \/ "cancelled" \in cleanup
BY DEF Combine

LEMMA ReapReports ==
    ASSUME TypeOK, Scopes, Reporting, NEW t \in Task, pc[t] \in {"connecting", "reap"}, ReapNow(t, tr[t]), UNCHANGED hit
    PROVE  Reporting'
<1>1. Typed /\ Scoped(t) /\ Remembers(t) /\ Blamed(t)
  BY TypesUsed DEF Scopes, Reporting
<1>2. holder = t /\ tr[t] = transport
  BY <1>1 DEF Scoped
<1>3. "cancelled" \in StartupErrors(t, tr[t]) <=> held[t] \/ startErr[transport] = "cancelled"
  BY <1>2 DEF StartupErrors, Held, CleanupOf
<1>4. hit[t] <=> "cancelled" \in StartupErrors(t, tr[t])
  BY <1>1, <1>2, <1>3 DEF Remembers, Blamed
<1> QED BY <1>2, <1>4, ReportEnds DEF ReapNow

LEMMA ReportConnectSucceeds == ASSUME TypeOK, Scopes, Reporting, NEW t \in Task, ConnectSucceeds(t) PROVE Reporting'
<1>1. Typed /\ ReportTypes /\ Scoped(t) /\ Remembers(t) /\ Blamed(t)
  BY TypesUsed DEF Scopes, Reporting, TypeOK, TaskTypes, ReportTypes
<1>2. pc[t] = "connecting" /\ holder = t /\ initiator[t] /\ ~hit[t] /\ ~held[t] /\ UNCHANGED <<hit, transport, ownerCancel, startErr>>
  BY <1>1 DEF Scoped, Remembers, ConnectSucceeds
<1>3. ~(ownerCancel[transport] \/ startErr[transport] = "cancelled")
  BY <1>1, <1>2 DEF Blamed
<1>4. Blamed(t)'
  BY <1>2, <1>3 DEF Blamed
<1>5. CASE closing => t \in Bare
  <2>1. pc' = [pc EXCEPT ![t] = "body"] /\ UNCHANGED <<held, bodyErr, errs, outcome, holder>>
    BY <1>2, <1>5 DEF ConnectSucceeds, Activate
  <2>2. pc'[t] = "body" /\ ~hit'[t] /\ ~held'[t]
    BY <1>1, <1>2, <2>1 DEF Typed
  <2>3. Remembers(t)'
    BY <2>2 DEF Remembers
  <2>4. ReportOthers(t)
    BY <1>1, <1>2, <2>1 DEF ReportOthers, Typed
  <2> QED BY <1>2, <1>4, <2>3, <2>4, ReportStep
<1>6. CASE ~(closing => t \in Bare)
  <2>1. CloseOwned(t, initiator[t], "closed", {})
    BY <1>2, <1>6 DEF ConnectSucceeds
  <2>2. Shuts(t, "closed", {})
    BY <1>2, <2>1, CloseOwnedShuts
  <2>3. /\ pc' = [pc EXCEPT ![t] = "closing"] /\ bodyErr' = [bodyErr EXCEPT ![t] = "closed"]
        /\ held' = [held EXCEPT ![t] = FALSE] /\ errs' = [errs EXCEPT ![t] = {}]
        /\ UNCHANGED <<outcome, holder>>
    BY <2>2 DEF Shuts
  <2>4. pc'[t] = "closing" /\ bodyErr'[t] = "closed" /\ ~held'[t] /\ errs'[t] = {} /\ ~hit'[t]
    BY <1>1, <1>2, <2>3 DEF Typed, ReportTypes
  <2>5. Remembers(t)'
    BY <2>4 DEF Remembers
  <2>6. ReportOthers(t)
    BY <1>1, <1>2, <2>3 DEF ReportOthers, Typed, ReportTypes
  <2> QED BY <1>2, <1>4, <2>5, <2>6, ReportStep
<1> QED BY <1>5, <1>6

\* A task creates a transport: a new owner task was not cancelled.
LEMMA ReportEnters ==
    ASSUME TypeOK, Scopes, Reporting, NEW t \in Task, ~hit[t], ~held[t], NEW g \in Gen, Enters(t, g), holder = None,
           UNCHANGED <<hit, held, bodyErr, errs>>, \A x \in Task \ {t} : outcome'[x] = outcome[x]
    PROVE  Reporting'
<1>1. Typed /\ Alive(g)
  BY TypesUsed DEF Scopes
<1>2. pc' = [pc EXCEPT ![t] = "connecting"] /\ holder' = t /\ transport' = g /\ phase[g] = "absent" /\ UNCHANGED <<ownerCancel, startErr>>
  BY DEF Enters
<1>3. pc'[t] = "connecting"
  BY <1>1, <1>2 DEF Typed
<1>4. Remembers(t)'
  BY <1>3 DEF Remembers
<1>5. Blamed(t)'
  BY <1>1, <1>2 DEF Blamed, Alive
<1>6. ReportOthers(t)
  BY <1>1, <1>2 DEF ReportOthers, Typed
<1> QED BY <1>2, <1>4, <1>5, <1>6, ReportStep

LEMMA ReportResumes == ASSUME TypeOK, Scopes, Reporting, NEW t \in Task, Resume(t) PROVE Reporting'
<1>0. Typed /\ ReportTypes /\ Scoped(t) /\ Remembers(t) /\ Blamed(t)
  BY TypesUsed DEF Scopes, Reporting, TypeOK, TaskTypes, ReportTypes
<1>1. CASE AcquireScope(t)
  <2>1. pc[t] = "waitScope" /\ holder = None /\ ~hit[t] /\ ~held[t] /\ UNCHANGED hit
    BY <1>0, <1>1 DEF AcquireScope, Remembers
  <2>2. CASE closing
    BY <1>1, <2>1, <2>2, ReportEnds DEF AcquireScope
  <2>3. CASE ~closing
    <3>1. EnterScope(t) /\ UNCHANGED <<hit, held, bodyErr, errs, outcome>>
      BY <1>1, <2>3 DEF AcquireScope
    <3>2. PICK g \in Gen : Enters(t, g)
      BY <2>1, <3>1, EnterCreates
    <3> QED BY <2>1, <3>1, <3>2, ReportEnters
  <2> QED BY <2>2, <2>3
<1>2. CASE CancelWaiter(t)
  <2>1. EndCall(t, {"cancelled"}) /\ hit' = [hit EXCEPT ![t] = TRUE] /\ UNCHANGED <<transport, ownerCancel, startErr>>
    BY <1>2 DEF CancelWaiter
  <2>2. hit'[t] /\ \A x \in Task \ {t} : hit'[x] = hit[x]
    BY <1>0, <2>1 DEF Typed
  <2> QED BY <2>1, <2>2, ReportEnds
<1>3. CASE ConnectSucceeds(t)
  BY <1>3, ReportConnectSucceeds
<1>4. CASE ConnectFails(t)
  <2>1. pc[t] = "connecting" /\ UNCHANGED <<hit, ownerCancel, startErr>>
    BY <1>4 DEF ConnectFails
  <2>2. CASE OwnerExited(tr[t])
    BY <1>4, <2>1, <2>2, ReapReports DEF ConnectFails
  <2>3. CASE ~OwnerExited(tr[t])
    <3>1. pc' = [pc EXCEPT ![t] = "reap"] /\ UNCHANGED <<held, bodyErr, errs, outcome, holder, transport>>
      BY <1>4, <2>3 DEF ConnectFails
    <3>2. pc'[t] = "reap" /\ ~held'[t] /\ ~hit'[t]
      BY <1>0, <2>1, <3>1 DEF Typed, Remembers
    <3>3. Remembers(t)'
      BY <3>2 DEF Remembers
    <3>4. Blamed(t)'
      BY <1>0, <2>1, <3>1 DEF Blamed
    <3>5. ReportOthers(t)
      BY <1>0, <2>1, <3>1 DEF ReportOthers, Typed
    <3> QED BY <2>1, <3>1, <3>3, <3>4, <3>5, ReportStep
  <2> QED BY <2>2, <2>3
<1>5. CASE CancelConnect(t)
  <2>1. pc[t] = "connecting" /\ initiator[t] /\ holder = t
    BY <1>0, <1>5 DEF CancelConnect, Scoped
  <2>2. /\ pc' = [pc EXCEPT ![t] = "reap"] /\ hit' = [hit EXCEPT ![t] = TRUE] /\ held' = [held EXCEPT ![t] = TRUE]
        /\ UNCHANGED <<bodyErr, errs, outcome, holder>>
    BY <1>5, <2>1 DEF CancelConnect
  <2>3. pc'[t] = "reap" /\ hit'[t] /\ held'[t]
    BY <1>0, <2>2 DEF Typed
  <2>4. Remembers(t)' /\ Blamed(t)'
    BY <2>3 DEF Remembers, Blamed
  <2>5. ReportOthers(t) /\ holder' = t
    BY <1>0, <2>1, <2>2 DEF ReportOthers, Typed
  <2> QED BY <2>4, <2>5, ReportStep
<1>6. CASE Reap(t)
  BY <1>6, ReapReports DEF Reap
<1>7. CASE Absorb(t) \/ DrainCancelled(t)
  <2>1. /\ pc[t] \in {"reap", "closing", "aclose", "drain"}
        /\ hit' = [hit EXCEPT ![t] = TRUE] /\ held' = [held EXCEPT ![t] = TRUE]
        /\ UNCHANGED <<pc, bodyErr, errs, outcome, holder, transport, ownerCancel, startErr>>
    BY <1>7 DEF Absorb, DrainCancelled
  <2>2. hit'[t] /\ held'[t]
    BY <1>0, <2>1 DEF Typed
  <2>3. Remembers(t)'
    BY <1>0, <2>1, <2>2 DEF Remembers
  <2>4. Blamed(t)'
    BY <1>0, <2>1, <2>2 DEF Blamed
  <2>5. ReportOthers(t)
    BY <1>0, <2>1 DEF ReportOthers, Typed
  <2> QED BY <2>1, <2>3, <2>4, <2>5, ReportStep
<1>8. CASE DrainResume(t)
  <2>1. pc[t] = "drain" /\ DrainPass(t, bodyErr[t], borrowers, cancel, aborting) /\ UNCHANGED hit
    BY <1>8 DEF DrainResume
  <2>2. holder = t /\ bodyErr[t] \in {"none", "body", "closed", "cancelled"}
    BY <1>0, <2>1 DEF Scoped, ReportTypes
  <2>3. Drains(t, bodyErr[t], cancel, aborting)
    BY <2>1, <2>2, DrainPassDrains
  <2>4. hit[t] <=> held[t] \/ bodyErr[t] = "cancelled"
    BY <1>0, <2>1 DEF Remembers
  <2> QED BY <2>1, <2>2, <2>3, <2>4, ReportDrains
<1>9. CASE CloseReturns(t)
  <2>1. /\ pc[t] = "closing" /\ EndCall(t, Combine(bodyErr[t], errs[t] \cup Held(t) \cup CleanupOf(tr[t])))
        /\ UNCHANGED hit
    BY <1>9 DEF CloseReturns
  <2>2. holder = t /\ bodyErr[t] \in {"none", "body", "closed", "cancelled"}
    BY <1>0, <2>1 DEF Scoped, ReportTypes
  <2>3. "cancelled" \in errs[t] \cup Held(t) \cup CleanupOf(tr[t]) <=> "cancelled" \in errs[t] \/ held[t]
    BY DEF Held, CleanupOf
  <2>4. hit[t] <=> "cancelled" \in Combine(bodyErr[t], errs[t] \cup Held(t) \cup CleanupOf(tr[t]))
    BY <1>0, <2>1, <2>2, <2>3, CombineReports DEF Remembers
  <2> QED BY <2>1, <2>2, <2>4, ReportEnds
<1>10. CASE ACloseReturns(t)
  <2>1. pc[t] = "aclose" /\ UNCHANGED <<hit, transport, ownerCancel, startErr>>
    BY <1>10 DEF ACloseReturns, DrainPass
  <2>2. CASE holder # t
    <3>1. /\ pc' = [pc EXCEPT ![t] = "ready"] /\ outcome' = [outcome EXCEPT ![t] = @ \cup Held(t)]
          /\ held' = [held EXCEPT ![t] = FALSE] /\ UNCHANGED <<bodyErr, errs, holder>>
      BY <1>10, <2>2 DEF ACloseReturns
    <3>2. pc'[t] = "ready" /\ outcome'[t] = outcome[t] \cup Held(t) /\ ~held'[t]
      BY <1>0, <3>1 DEF Typed, ReportTypes
    <3>3. hit[t] <=> held[t] \/ "cancelled" \in outcome[t]
      BY <1>0, <2>1, <2>2 DEF Remembers
    <3>4. "cancelled" \in outcome'[t] <=> held[t] \/ "cancelled" \in outcome[t]
      BY <3>2 DEF Held
    <3>5. Remembers(t)'
      BY <2>1, <3>2, <3>3, <3>4 DEF Remembers
    <3>6. Blamed(t)' /\ ReportOthers(t)
      BY <1>0, <2>1, <2>2, <3>1 DEF Blamed, ReportOthers, Typed, ReportTypes
    <3> QED BY <2>1, <3>5, <3>6, ReportStep
  <2>3. CASE holder = t /\ ~held[t] /\ bodyErr[t] = "none"
    <3>1. pc' = [pc EXCEPT ![t] = "body"] /\ UNCHANGED <<held, bodyErr, errs, outcome, holder>>
      BY <1>10, <2>3 DEF ACloseReturns
    <3>2. pc'[t] = "body" /\ ~held'[t] /\ ~hit'[t]
      BY <1>0, <2>1, <2>3, <3>1 DEF Typed, Remembers
    <3>3. Remembers(t)'
      BY <3>2 DEF Remembers
    <3>4. ReportOthers(t)
      BY <1>0, <2>1, <3>1 DEF ReportOthers, Typed
    <3>5. Blamed(t)'
      BY <1>0, <2>1, <3>1 DEF Blamed
    <3> QED BY <2>1, <3>3, <3>4, <3>5, ReportStep
  <2>4. CASE holder = t /\ ~(~held[t] /\ bodyErr[t] = "none")
    <3>1. DrainPass(t, "cancelled", borrowers, cancel, TRUE)
      BY <1>10, <2>4 DEF ACloseReturns
    <3>2. hit[t]
      BY <1>0, <2>1, <2>4 DEF Remembers
    <3>3. PICK abort : DrainPass(t, "cancelled", borrowers, cancel, abort)
      BY <3>1
    <3>4. Drains(t, "cancelled", cancel, abort)
      BY <2>1, <2>4, <3>3, DrainPassDrains
    <3> QED BY <2>1, <2>4, <3>2, <3>4, ReportDrains
  <2> QED BY <2>2, <2>3, <2>4
<1> QED BY <1>1, <1>2, <1>3, <1>4, <1>5, <1>6, <1>7, <1>8, <1>9, <1>10 DEF Resume

LEMMA ReportWorks == ASSUME Manual = {}, TypeOK, Scopes, Reporting, NEW t \in Task, Work(t) PROVE Reporting'
<1>0. Typed /\ ReportTypes /\ Scoped(t) /\ Remembers(t) /\ Blamed(t)
  BY TypesUsed DEF Scopes, Reporting, TypeOK, TaskTypes, ReportTypes
<1>1. CASE CallRefused(t)
  <2>1. PICK errors \in {{"closed"}, {"revoked"}} : outcome' = [outcome EXCEPT ![t] = errors]
    BY <1>1 DEF CallRefused
  <2>2. /\ pc[t] = "ready" /\ "cancelled" \notin outcome[t]
        /\ UNCHANGED <<pc, hit, held, bodyErr, errs, holder, transport, ownerCancel, startErr>>
    BY <1>1 DEF CallRefused, MayCall
  <2>3. "cancelled" \notin outcome'[t]
    BY <1>0, <2>1 DEF ReportTypes
  <2>4. Remembers(t)' /\ Blamed(t)'
    BY <1>0, <2>2, <2>3 DEF Remembers, Blamed
  <2>5. ReportOthers(t)
    BY <1>0, <2>1, <2>2 DEF ReportOthers, ReportTypes
  <2> QED BY <2>2, <2>4, <2>5, ReportStep
<1>2. CASE CallBorrow(t)
  <2>1. pc[t] = "ready" /\ "cancelled" \notin outcome[t] /\ pc' = [pc EXCEPT ![t] = "lease"] /\ outcome' = [outcome EXCEPT ![t] = {}]
        /\ UNCHANGED <<hit, held, bodyErr, errs, holder, transport, ownerCancel, startErr>>
    BY <1>2 DEF CallBorrow, Admits, MayCall
  <2>2. pc'[t] = "lease" /\ ~hit[t] /\ ~held[t] /\ holder # t
    BY <1>0, <2>1 DEF Typed, Remembers, Scoped
  <2>3. Remembers(t)' /\ Blamed(t)'
    BY <2>1, <2>2 DEF Remembers, Blamed
  <2>4. ReportOthers(t)
    BY <1>0, <2>1 DEF ReportOthers, Typed, ReportTypes
  <2> QED BY <2>1, <2>3, <2>4, ReportStep
<1>3. CASE CallFresh(t)
  <2>1. pc[t] = "ready" /\ "cancelled" \notin outcome[t] /\ outcome' = [outcome EXCEPT ![t] = {}]
        /\ UNCHANGED <<hit, held, bodyErr, errs>>
    BY <1>3 DEF CallFresh, Admits, MayCall
  <2>2. ~hit[t] /\ ~held[t] /\ holder # t /\ \A x \in Task \ {t} : outcome'[x] = outcome[x]
    BY <1>0, <2>1 DEF Remembers, Scoped, ReportTypes
  <2>3. CASE holder = None /\ EnterScope(t)
    <3>1. PICK g \in Gen : Enters(t, g)
      BY <2>3, EnterCreates
    <3> QED BY <2>1, <2>2, <2>3, <3>1, ReportEnters
  <2>4. CASE ~(holder = None /\ EnterScope(t))
    <3>1. pc' = [pc EXCEPT ![t] = "waitScope"] /\ UNCHANGED <<holder, transport, ownerCancel, startErr>>
      BY <1>3, <2>4 DEF CallFresh
    <3>2. pc'[t] = "waitScope"
      BY <1>0, <3>1 DEF Typed
    <3>3. Remembers(t)' /\ Blamed(t)'
      BY <2>1, <2>2, <3>1, <3>2 DEF Remembers, Blamed
    <3>4. ReportOthers(t)
      BY <1>0, <2>1, <2>2, <3>1 DEF ReportOthers, Typed
    <3> QED BY <3>1, <3>3, <3>4, ReportStep
  <2> QED BY <2>3, <2>4
<1>4. ASSUME NEW c \in Task, Spawn(t, c) PROVE Reporting'
  <2>1. pc[c] = "unborn" /\ pc' = [pc EXCEPT ![c] = "ready"]
        /\ UNCHANGED <<hit, held, bodyErr, errs, outcome, holder, transport, ownerCancel, startErr>>
    BY <1>4 DEF Spawn
  <2>2. Remembers(c) /\ pc'[c] = "ready" /\ Scoped(c)
    BY <1>0, <2>1 DEF Reporting, Scopes, Typed
  <2>3. Remembers(c)'
    BY <2>1, <2>2 DEF Remembers
  <2>4. Blamed(c)'
    BY <2>1, <2>2 DEF Scoped, Blamed
  <2>5. ReportOthers(c)
    BY <1>0, <2>1 DEF ReportOthers, Typed
  <2> QED BY <2>1, <2>3, <2>4, <2>5, ReportStep
<1>5. CASE NestedCall(t) \/ NestedReturn(t)
  BY <1>5 DEF NestedCall, NestedReturn, Reporting, Remembers, Blamed
<1>6. ASSUME NEW cancelled \in BOOLEAN, LeaseExit(t, cancelled) PROVE Reporting'
  <2>1. /\ pc[t] = "lease" /\ pc' = [pc EXCEPT ![t] = "ready"] /\ hit' = [hit EXCEPT ![t] = cancelled]
        /\ outcome' = [outcome EXCEPT ![t] = IF cancelled THEN {"cancelled"} ELSE {}]
        /\ UNCHANGED <<held, bodyErr, errs, holder, transport, ownerCancel, startErr>>
    BY <1>6 DEF LeaseExit
  <2>2. pc'[t] = "ready" /\ hit'[t] = cancelled /\ outcome'[t] = (IF cancelled THEN {"cancelled"} ELSE {})
    BY <1>0, <2>1 DEF Typed, ReportTypes
  <2>3. ~held[t] /\ holder # t
    BY <1>0, <2>1 DEF Remembers, Scoped
  <2>4. Remembers(t)' /\ Blamed(t)'
    BY <2>1, <2>2, <2>3 DEF Remembers, Blamed
  <2>5. ReportOthers(t)
    BY <1>0, <2>1 DEF ReportOthers, Typed, ReportTypes
  <2> QED BY <2>1, <2>4, <2>5, ReportStep
<1>7. ASSUME NEW error \in {"none", "body", "cancelled"}, BodyExit(t, error) PROVE Reporting'
  <2> DEFINE b == [borrowers EXCEPT ![t] = 0]
             c == [cancel EXCEPT ![t] = @ /\ error # "cancelled"]
             reached == hit[t] \/ error = "cancelled"
  <2>1. pc[t] = "body" /\ hit' = [hit EXCEPT ![t] = reached]
    BY <1>7 DEF BodyExit
  <2>2. PICK abort : DrainPass(t, error, b, c, abort)
    BY <1>7 DEF BodyExit
  <2>3. holder = t /\ borrowers[t] = 0 /\ ~held[t] /\ ~hit[t]
    BY <1>0, <2>1 DEF Scoped, Typed, Remembers
  <2>4. \A x \in Task : b[x] = borrowers[x]
    BY <1>0, <2>3 DEF Typed
  <2> HIDE DEF b, c
  <2>5. Drains(t, error, c, abort)
    BY <2>1, <2>2, <2>3, <2>4, DrainPassDrains
  <2>6. reached <=> held[t] \/ error = "cancelled"
    BY <2>3
  <2> HIDE DEF reached
  <2>7. hit'[t] = reached /\ \A x \in Task \ {t} : hit'[x] = hit[x]
    BY <1>0, <2>1 DEF Typed
  <2> QED BY <2>1, <2>3, <2>5, <2>6, <2>7, ReportDrains
<1>8. CASE ManualConnect(t) \/ ManualClose(t)
  BY <1>8 DEF ManualConnect, ManualClose
<1>9. CASE AClose(t)
  <2> DEFINE caught == pc[t] = "body" /\ cancel[t]
             reached == hit[t] \/ caught
  <2>1. /\ pc[t] \in {"ready", "body"} /\ pc' = [pc EXCEPT ![t] = "aclose"]
        /\ bodyErr' = [bodyErr EXCEPT ![t] = IF caught THEN "cancelled" ELSE "none"]
        /\ hit' = [hit EXCEPT ![t] = reached]
        /\ UNCHANGED <<held, errs, outcome, holder, transport, ownerCancel, startErr>>
    BY <1>9 DEF AClose
  <2>2. caught => pc[t] = "body"
    OBVIOUS
  <2>3. reached <=> hit[t] \/ caught
    OBVIOUS
  <2> HIDE DEF caught, reached
  <2>4. pc'[t] = "aclose" /\ bodyErr'[t] = (IF caught THEN "cancelled" ELSE "none")
    BY <1>0, <2>1 DEF Typed, ReportTypes
  <2>5. hit'[t] = reached
    BY <1>0, <2>1 DEF Typed
  <2>6. ~held'[t] /\ (hit[t] <=> (pc[t] = "ready" /\ "cancelled" \in outcome[t]))
    BY <1>0, <2>1 DEF Remembers
  <2>7. (holder = t) = (pc[t] = "body")
    BY <1>0, <2>1 DEF Scoped
  <2>8. CASE pc[t] = "body"
    <3>1. hit'[t] <=> bodyErr'[t] = "cancelled"
      BY <2>3, <2>4, <2>5, <2>6, <2>8
    <3> QED
      <4>1. Remembers(t)'
        BY <2>1, <2>4, <2>6, <2>7, <2>8, <3>1 DEF Remembers
      <4>2. Blamed(t)'
        BY <1>0, <2>1, <2>8 DEF Blamed
      <4>3. ReportOthers(t)
        BY <1>0, <2>1 DEF ReportOthers, Typed, ReportTypes
      <4> QED BY <2>1, <4>1, <4>2, <4>3, ReportStep
  <2>9. CASE pc[t] = "ready"
    <3>1. hit'[t] <=> "cancelled" \in outcome'[t]
      BY <2>1, <2>2, <2>3, <2>5, <2>6, <2>9
    <3>2. Remembers(t)'
      BY <2>1, <2>2, <2>4, <2>6, <2>7, <2>9, <3>1 DEF Remembers
    <3>3. Blamed(t)'
      BY <2>1, <2>7, <2>9 DEF Blamed
    <3>4. ReportOthers(t)
      BY <1>0, <2>1 DEF ReportOthers, Typed, ReportTypes
    <3> QED BY <2>1, <3>2, <3>3, <3>4, ReportStep
  <2> QED BY <2>1, <2>8, <2>9
<1>10. CASE Finish(t)
  <2>1. pc[t] = "ready" /\ pc' = [pc EXCEPT ![t] = "done"]
        /\ UNCHANGED <<hit, held, bodyErr, errs, outcome, holder, transport, ownerCancel, startErr>>
    BY <1>10 DEF Finish
  <2>2. pc'[t] = "done" /\ holder # t
    BY <1>0, <2>1 DEF Typed, Scoped
  <2>3. Remembers(t)' /\ Blamed(t)'
    BY <1>0, <2>1, <2>2 DEF Remembers, Blamed
  <2>4. ReportOthers(t)
    BY <1>0, <2>1 DEF ReportOthers, Typed
  <2> QED BY <2>1, <2>3, <2>4, ReportStep
<1> QED BY <1>1, <1>2, <1>3, <1>4, <1>5, <1>6, <1>7, <1>8, <1>9, <1>10 DEF Work

LEMMA ReportOwner ==
    ASSUME TypeOK, Scopes, Reporting, NEW g \in Gen, OwnerNext(g) PROVE Reporting'
<1>1. Typed /\ OwnerStep(g) /\ transport = g
  BY TypesUsed, OwnerSteps DEF OwnerStep, Scopes, Alive
<1>2. UNCHANGED <<taskVars, holder, transport>>
  BY <1>1 DEF OwnerStep
<1>3. ownerCancel'[g] \/ startErr'[g] = "cancelled" => ownerCancel[g] \/ startErr[g] = "cancelled"
  BY <1>1 DEF OwnerStep
<1>4. ASSUME NEW t \in Task PROVE Remembers(t)' /\ Blamed(t)'
  BY <1>1, <1>2, <1>3 DEF Reporting, Remembers, Blamed
<1> QED BY <1>4 DEF Reporting

LEMMA ReportInit == Init => Reporting
<1> SUFFICES ASSUME Init, NEW t \in Task PROVE Remembers(t) /\ Blamed(t)
  BY DEF Reporting
<1>1. pc[t] \in {"ready", "unborn"} /\ ~hit[t] /\ ~held[t] /\ outcome[t] = {} /\ holder # t
  BY ConstantsAssumption DEF Init
<1> QED BY <1>1 DEF Remembers, Blamed

LEMMA ReportNext ==
    ASSUME Manual = {}, TypeOK, Scopes, Reporting, [Next]_vars PROVE Reporting'
<1>1. CASE \/ \E t \in Task : Cancel(t)
           \/ CloseTaskStart \/ CloseTaskEnd \/ UNCHANGED vars
  BY <1>1 DEF Cancel, CloseTaskStart, CloseTaskEnd, vars, Reporting, Remembers, Blamed
<1> QED BY <1>1, ReportOwner, ReportResumes, ReportWorks DEF Next

-----------------------------------------------------------------------------
(* What follows *)

\* The invariant: who is where (Scopes), what is published (Catalogued), what
\* calls remember (Reporting) and who counts as being inside (Entries).
SafeInv == TypeOK /\ Scopes /\ Catalogued /\ Reporting /\ Entries

\* Where everybody uses scopes, SafeInv holds in every reachable state.
THEOREM SafeInductive == ASSUME Manual = {} PROVE Spec => []SafeInv
<1>1. Init => Scopes /\ Catalogued /\ Reporting /\ Entries
  BY ScopesInit, CatalogueInit, ReportInit, EntriesInit
<1>2. TypeOK /\ Scopes /\ Catalogued /\ Reporting /\ Entries /\ [Next]_vars => Scopes' /\ Catalogued' /\ Reporting' /\ Entries'
  BY ScopesNext, CatalogueNext, ReportNext, EntriesNext
<1> QED BY <1>1, <1>2, TypeCorrect, PTL DEF Spec, SafeInv

\* No scope body and no borrower runs on a transport that is absent, starting,
\* told to shut down or closing, nor on another scope's.
THEOREM LeasesAreSafe == ASSUME Manual = {} PROVE Spec => []LeaseSafety
<1>1. ASSUME SafeInv PROVE LeaseSafety
  <2>1. Typed
    BY <1>1, TypesUsed DEF SafeInv
  <2>2. SUFFICES ASSUME NEW t \in Task, Uses(t)
                 PROVE connected /\ transport # None /\ Usable(transport) /\ ctx[t] = active
    BY DEF LeaseSafety
  <2>3. ctx[t] = active /\ active # None
    BY <1>1, <2>2 DEF SafeInv, Scopes, Scoped, Uses
  <2>4. PICK h \in Task : holder = h
    BY <1>1, <2>1, <2>3 DEF SafeInv, Scopes, Empty, Typed
  <2>5. Scoped(h)
    BY <1>1 DEF SafeInv, Scopes
  <2>6. pc[h] \in {"body", "drain", "aclose"} /\ transport # None /\ Usable(transport)
    BY <2>3, <2>4, <2>5 DEF Scoped
  <2>7. connected
    BY <1>1, <2>6 DEF SafeInv, Catalogued, Published, Usable
  <2> QED BY <2>3, <2>6, <2>7
<1> QED BY <1>1, SafeInductive, PTL

\* The published transport owner task is the only one alive, and the task that
\* has to close it is inside the call that does.
THEOREM TransportIsOwned == ASSUME Manual = {} PROVE Spec => []TransportOwned
<1>1. ASSUME SafeInv PROVE TransportOwned
  <2>1. OneTransport
    BY <1>1 DEF SafeInv, Scopes, Alive, OneTransport
  <2>2. TransportAttended
    <3>1. SUFFICES ASSUME transport # None
                   PROVE \E t \in Task : ownerTask = t /\ pc[t] \in {"connecting", "reap", "body", "drain", "closing", "aclose"}
      BY DEF TransportAttended
    <3>2. holder \in Task
      BY <1>1, <3>1, TypesUsed DEF SafeInv, Scopes, Empty, Typed
    <3> QED BY <1>1, <3>2 DEF SafeInv, Scopes, Scoped
  <2> QED BY <2>1, <2>2 DEF TransportOwned
<1> QED BY <1>1, SafeInductive, PTL

\* The registry shows exactly the catalogue of the live connection, and no MCP
\* tool without one; a server about to be connected meets no tool left behind.
THEOREM CatalogIsExact == ASSUME Manual = {} PROVE Spec => []CatalogExact
<1>1. ASSUME SafeInv PROVE CatalogExact
  <2>1. Typed
    BY <1>1, TypesUsed DEF SafeInv
  <2>2. ASSUME connected, NEW s \in Server
        PROVE registry[s] = IF <<s, transport>> \in catalog THEN transport ELSE None
    <3>1. transport # None /\ Published(transport) /\ catalog = ToolsOf(transport, report[transport])
      BY <1>1, <2>2 DEF SafeInv, Catalogued
    <3>2. registry[s] = IF report[transport][s] = "connected" THEN transport ELSE None
      BY <1>1, <3>1 DEF SafeInv, Catalogued
    <3>3. <<s, transport>> \in catalog <=> report[transport][s] = "connected"
      BY <3>1 DEF ToolsOf
    <3> QED BY <3>2, <3>3
  <2>3. ASSUME NEW g \in Gen, NEW s \in Server, phase[g] \in {"created", "connecting"}, report[g][s] = "untried"
        PROVE registry[s] = None
    <3>1. transport = g /\ transport # None
      BY <1>1, <2>1, <2>3 DEF SafeInv, Scopes, Alive, Typed
    <3> QED BY <1>1, <2>3, <3>1 DEF SafeInv, Catalogued
  <2>4. transport = None => \A s \in Server : registry[s] = None
    BY <1>1 DEF SafeInv, Catalogued
  <2> QED BY <2>2, <2>3, <2>4 DEF CatalogExact
<1> QED BY <1>1, SafeInductive, PTL

\* A call that a cancellation reached ends with that cancellation, and no call
\* ends with one that did not reach it, whatever else failed meanwhile.
THEOREM CancellationIsReported == ASSUME Manual = {} PROVE Spec => []CancellationReported
<1>1. SafeInv => CancellationReported
  BY DEF SafeInv, Reporting, Remembers, CancellationReported
<1> QED BY <1>1, SafeInductive, PTL

\* When the shared drain of aclose is over, no public operation is running or
\* waiting, and none is admitted again.
THEOREM CloseIsTerminal == ASSUME Manual = {} PROVE Spec => []AgentCloseTerminal
<1>1. ASSUME SafeInv PROVE AgentCloseTerminal
  <2>1. Typed
    BY <1>1, TypesUsed DEF SafeInv
  <2>2. SUFFICES ASSUME closeTask = "finished", NEW t \in Task PROVE entries[t] = 0 /\ borrowers[t] = 0
    BY DEF AgentCloseTerminal
  <2>3. entries[t] = 0
    BY <1>1, <2>2 DEF SafeInv, Entries, Closing
  <2>4. borrowers[t] > 0 => entries[t] = borrowers[t]
    BY <1>1 DEF SafeInv, Entries, Entered, Scopes, Scoped
  <2> QED BY <2>1, <2>3, <2>4 DEF Typed
<1> QED BY <1>1, SafeInductive, PTL

=============================================================================
