----------------------- MODULE HeartbeatServiceProofs -----------------------
(***************************************************************************)
(* Proofs about HeartbeatService for every set of workers and callers and  *)
(* every bound: its safety properties follow from one inductive invariant. *)
(* The argument is about generations: a start that waits for a drain       *)
(* remembers the generation it was called in, so that when it goes on      *)
(* nobody has stopped the service, and nobody can have begun a drain of a  *)
(* live worker either.                                                     *)
(***************************************************************************)
EXTENDS HeartbeatService, TLAPS

\* Where a drain is under way, it is the current one and drains the current
\* worker; a current drain that is over has left no worker.
OneDrain ==
    /\ \A w \in Worker : drains[w].pc \in {"created", "waiting"} => closer = w /\ task = w
    /\ closer # None /\ drains[closer].pc = "done" => task = None

\* What a caller that could go on after its drain finds.  The call carries the
\* generation of its time: nobody has called stop or aclose since.
Fresh(c) == Awaiting(c) /\ callers[c].gen = generation
StartFinds(c) ==
    /\ closer \in {None, callers[c].drain}
    /\ \/ task = None
       \/ /\ running
          /\ workers[task].pc \in {"created", "sleeping"} /\ ~workers[task].cancel
Generations ==
    \A c \in Caller : Awaiting(c) =>
        /\ callers[c].gen <= generation
        /\ Fresh(c) /\ callers[c].pc = "start" => asked /\ (Ready(c) => StartFinds(c))
        /\ Fresh(c) /\ callers[c].pc = "aclose" /\ ~asked /\ Ready(c) => task = None

\* A finished aclose has left nothing, and nobody has asked for more.
Quiet == closed => task = None /\ ~asked

\* Who has cancelled a worker, and what its drain expects.
Cancellations ==
    \A w \in Worker :
        /\ workers[w].cancel \/ workers[w].pc = "unwinding" => workers[w].cancelling
        /\ workers[w].pc = "unwinding" => ~workers[w].cancel
        /\ workers[w].pc = "created" /\ workers[w].cancelling => workers[w].cancel /\ requested = w
        /\ workers[w].pc = "cancelled" /\ task = w => requested = w
        /\ workers[w].pc \in {"created", "cancelled"} /\ drains[w].pc = "waiting" => drains[w].expected
        /\ ~drains[w].error

\* A caller has been cancelled exactly when that is on its way or absorbed.
Hits ==
    \A c \in Caller : Awaiting(c) => callers[c].hit = (callers[c].cancel \/ callers[c].absorbed)

\* The inductive invariant.
Inv == /\ TypeOK /\ OneWorker /\ StopWins /\ OneDrain /\ Generations /\ Quiet
       /\ Cancellations /\ Hits /\ CancellationReplayed
\* One record of a function is replaced.
LEMMA Replaced ==
    ASSUME NEW S, NEW R, NEW f \in [S -> R], NEW s \in S, NEW r \in R
    PROVE  /\ [f EXCEPT ![s] = r] \in [S -> R]
           /\ [f EXCEPT ![s] = r][s] = r
           /\ \A x \in S \ {s} : [f EXCEPT ![s] = r][x] = f[x]
OBVIOUS

\* What task.cancel() and the requests of the service do to the workers.
LEMMA CancelledTyped == \A r \in WorkerRecord :
    /\ Cancelled(r) \in WorkerRecord /\ Cancelled(r).pc = r.pc
    /\ Cancelled(r).cancel /\ Cancelled(r).cancelling
BY DEF Cancelled, WorkerRecord

LEMMA Requested ==
    ASSUME Inv, NEW x \in Worker \cup {None}, RequestCancel(x)
    PROVE  /\ workers' \in [Worker -> WorkerRecord]
           /\ requested' \in {requested, x}
           /\ \A w \in Worker : workers'[w].pc = workers[w].pc
           /\ \A w \in Worker \ {x} : workers'[w] = workers[w]
           /\ \/ UNCHANGED <<workers, requested>>
              \/ /\ x \in Worker /\ Alive(x) /\ ~workers[x].cancelling
                 /\ workers'[x].cancel /\ workers'[x].cancelling /\ requested' = x
           /\ x \in Worker /\ Alive(x) => workers'[x].cancelling \/ requested' = x
<1> USE ConstantsAssumption DEF ConstantsAssumption
<1>1. workers \in [Worker -> WorkerRecord]
  BY DEF Inv, TypeOK
<1>2. CASE x \in Worker /\ Alive(x) /\ ~workers[x].cancelling /\ requested # x
  <2>1. workers' = [workers EXCEPT ![x] = Cancelled(workers[x])] /\ requested' = x
    BY <1>1, <1>2 DEF RequestCancel
  <2>2. workers[x] \in WorkerRecord
    BY <1>1, <1>2
  <2> QED BY <1>1, <1>2, <2>1, <2>2, CancelledTyped
<1>3. CASE ~(x \in Worker /\ Alive(x) /\ ~workers[x].cancelling /\ requested # x)
  <2>1. UNCHANGED <<workers, requested>>
    BY <1>3 DEF RequestCancel
  <2> QED BY <1>1, <1>3, <2>1
<1> QED BY <1>2, <1>3

\* What joining the drain changes.
LEMMA Joined ==
    ASSUME TypeOK, NEW c \in Caller, NEW frame \in CallRecord, frame.pc # "idle",
           ~NothingToDrain, JoinDrain(c, frame)
    PROVE  \E d \in Worker :
             /\ closer' = d
             /\ callers' = [callers EXCEPT ![c] = [frame EXCEPT !.drain = d]]
             /\ [frame EXCEPT !.drain = d] \in CallRecord
             /\ drains' \in [Worker -> DrainRecord]
             /\ \A w \in Worker : ~drains[w].error => ~drains'[w].error
             /\ \/ closer = d /\ drains' = drains
                \/ /\ closer = None /\ task = d
                   /\ drains'[d].pc = "created"
                   /\ \A w \in Worker \ {d} : drains'[w] = drains[w]
<1> USE ConstantsAssumption DEF ConstantsAssumption
<1>1. CASE closer # None
  <2>1. closer \in Worker /\ drains \in [Worker -> DrainRecord]
    BY <1>1 DEF TypeOK
  <2>2. /\ closer' = closer /\ drains' = drains
        /\ callers' = [callers EXCEPT ![c] = [frame EXCEPT !.drain = closer]]
    BY <1>1 DEF JoinDrain, Call
  <2>3. [frame EXCEPT !.drain = closer] \in CallRecord
    BY <2>1 DEF CallRecord
  <2> QED BY <2>1, <2>2, <2>3
<1>2. CASE closer = None
  <2>1. task \in Worker /\ drains \in [Worker -> DrainRecord]
    BY <1>2 DEF TypeOK, NothingToDrain
  <2>2. /\ closer' = task
        /\ drains' = [drains EXCEPT ![task] = [NoDrain EXCEPT !.pc = "created"]]
        /\ callers' = [callers EXCEPT ![c] = [frame EXCEPT !.drain = task]]
    BY <1>2 DEF JoinDrain, Call
  <2>3. [frame EXCEPT !.drain = task] \in CallRecord
    BY <2>1 DEF CallRecord
  <2>4. /\ [NoDrain EXCEPT !.pc = "created"] \in DrainRecord
        /\ [NoDrain EXCEPT !.pc = "created"].pc = "created"
        /\ ~[NoDrain EXCEPT !.pc = "created"].error
    BY DEF DrainRecord, NoDrain
  <2> QED BY <1>2, <2>1, <2>2, <2>3, <2>4
<1> QED BY <1>1, <1>2

\* What starting a worker changes.
LEMMA Started ==
    ASSUME TypeOK, StartWorker
    PROVE  \E n \in Worker :
             /\ running' = TRUE /\ task' = n /\ requested' = None
             /\ workers' \in [Worker -> WorkerRecord]
             /\ workers'[n].pc = "created" /\ ~workers'[n].cancel /\ ~workers'[n].cancelling
             /\ \A w \in Worker \ {n} : workers'[w] = workers[w]
             /\ drains[n].pc = "none" /\ n \notin {task, requested, closer}
<1>1. PICK n \in Worker :
        /\ Reusable(n) /\ running' = TRUE /\ task' = n /\ requested' = None
        /\ workers' = [workers EXCEPT ![n] = [NoWorker EXCEPT !.pc = "created"]]
  BY DEF StartWorker
<1>2. /\ [NoWorker EXCEPT !.pc = "created"] \in WorkerRecord
      /\ [NoWorker EXCEPT !.pc = "created"].pc = "created"
      /\ ~[NoWorker EXCEPT !.pc = "created"].cancel
      /\ ~[NoWorker EXCEPT !.pc = "created"].cancelling
  BY DEF WorkerRecord, NoWorker
<1>3. workers \in [Worker -> WorkerRecord]
  BY DEF TypeOK
<1> QED BY <1>1, <1>2, <1>3 DEF Reusable

\* A worker that begins keeps the invariant: it may only end, or run as the current one.
LEMMA WorkerBeginsStep == ASSUME Inv, NEW w \in Worker, WorkerBegins(w) PROVE Inv'
<1> USE ConstantsAssumption DEF ConstantsAssumption, TypeOK, WorkerRecord, DrainRecord, CallRecord, Ended, NoWorker, NoDrain, NoCall, Awaiting
<1>1. TypeOK'
  BY DEF Inv, WorkerBegins, Goes, OnlyWorkers
<1>2. OneWorker'
  BY DEF Inv, OneWorker, Alive, WorkerBegins, Goes, OnlyWorkers
<1>3. StopWins'
  BY DEF Inv, StopWins, Generations, Fresh, Ready, WorkerBegins, Goes, OnlyWorkers
<1>4. OneDrain'
  BY DEF Inv, OneDrain, OneWorker, Alive, Generations, Fresh, Ready, StartFinds, WorkerBegins, Goes, OnlyWorkers
<1>5. Generations'
  BY DEF Inv, Generations, Fresh, Ready, StartFinds, OneDrain, OneWorker, Alive, WorkerBegins, Goes, OnlyWorkers
<1>6. Quiet'
  BY DEF Inv, Quiet, Generations, Fresh, Ready, WorkerBegins, Goes, OnlyWorkers
<1>7. Cancellations'
  BY DEF Inv, Cancellations, OneWorker, OneDrain, Alive, WorkerBegins, Goes, OnlyWorkers
<1>8. Hits'
  BY DEF Inv, Hits, WorkerBegins, Goes, OnlyWorkers
<1>9. CancellationReplayed'
  BY DEF Inv, CancellationReplayed, Hits, Cancellations, WorkerBegins, Goes, OnlyWorkers
<1> QED BY <1>1, <1>2, <1>3, <1>4, <1>5, <1>6, <1>7, <1>8, <1>9 DEF Inv

\* A worker that wakes keeps the invariant: no start is about to go on.
LEMMA WorkerWakesStep == ASSUME Inv, NEW w \in Worker, WorkerWakes(w) PROVE Inv'
<1> USE ConstantsAssumption DEF ConstantsAssumption, TypeOK, WorkerRecord, DrainRecord, CallRecord, Ended, NoWorker, NoDrain, NoCall, Awaiting
<1>1. TypeOK'
  BY DEF Inv, WorkerWakes, Goes, OnlyWorkers
<1>2. OneWorker'
  BY DEF Inv, OneWorker, Alive, WorkerWakes, Goes, OnlyWorkers
<1>3. StopWins'
  BY DEF Inv, StopWins, Generations, Fresh, Ready, WorkerWakes, Goes, OnlyWorkers
<1>4. OneDrain'
  BY DEF Inv, OneDrain, OneWorker, Alive, Generations, Fresh, Ready, StartFinds, WorkerWakes, Goes, OnlyWorkers
<1>5. Generations'
  BY DEF Inv, Generations, Fresh, Ready, StartFinds, OneDrain, OneWorker, Alive, WorkerWakes, Goes, OnlyWorkers
<1>6. Quiet'
  BY DEF Inv, Quiet, Generations, Fresh, Ready, WorkerWakes, Goes, OnlyWorkers
<1>7. Cancellations'
  BY DEF Inv, Cancellations, OneWorker, OneDrain, Alive, WorkerWakes, Goes, OnlyWorkers
<1>8. Hits'
  BY DEF Inv, Hits, WorkerWakes, Goes, OnlyWorkers
<1>9. CancellationReplayed'
  BY DEF Inv, CancellationReplayed, Hits, Cancellations, WorkerWakes, Goes, OnlyWorkers
<1> QED BY <1>1, <1>2, <1>3, <1>4, <1>5, <1>6, <1>7, <1>8, <1>9 DEF Inv

\* The end of a tick keeps the invariant.
LEMMA TickEndsStep == ASSUME Inv, NEW w \in Worker, TickEnds(w) PROVE Inv'
<1> USE ConstantsAssumption DEF ConstantsAssumption, TypeOK, WorkerRecord, DrainRecord, CallRecord, Ended, NoWorker, NoDrain, NoCall, Awaiting
<1>1. TypeOK'
  BY DEF Inv, TickEnds, Goes, OnlyWorkers
<1>2. OneWorker'
  BY DEF Inv, OneWorker, Alive, TickEnds, Goes, OnlyWorkers
<1>3. StopWins'
  BY DEF Inv, StopWins, Generations, Fresh, Ready, TickEnds, Goes, OnlyWorkers
<1>4. OneDrain'
  BY DEF Inv, OneDrain, OneWorker, Alive, Generations, Fresh, Ready, StartFinds, TickEnds, Goes, OnlyWorkers
<1>5. Generations'
  BY DEF Inv, Generations, Fresh, Ready, StartFinds, OneDrain, OneWorker, Alive, TickEnds, Goes, OnlyWorkers
<1>6. Quiet'
  BY DEF Inv, Quiet, Generations, Fresh, Ready, TickEnds, Goes, OnlyWorkers
<1>7. Cancellations'
  BY DEF Inv, Cancellations, OneWorker, OneDrain, Alive, TickEnds, Goes, OnlyWorkers
<1>8. Hits'
  BY DEF Inv, Hits, TickEnds, Goes, OnlyWorkers
<1>9. CancellationReplayed'
  BY DEF Inv, CancellationReplayed, Hits, Cancellations, TickEnds, Goes, OnlyWorkers
<1> QED BY <1>1, <1>2, <1>3, <1>4, <1>5, <1>6, <1>7, <1>8, <1>9 DEF Inv

\* A cancellation that arrives keeps the invariant.
LEMMA WorkerHitStep == ASSUME Inv, NEW w \in Worker, WorkerHit(w) PROVE Inv'
<1> USE ConstantsAssumption DEF ConstantsAssumption, TypeOK, WorkerRecord, DrainRecord, CallRecord, Ended, NoWorker, NoDrain, NoCall, Awaiting
<1>1. TypeOK'
  <2> DEFINE p == IF workers[w].pc = "sleeping" THEN "done" ELSE "unwinding"
  <2>1. workers[w] \in WorkerRecord /\ p \in {"done", "unwinding"}
    BY DEF Inv
  <2>2. workers' = [workers EXCEPT ![w] = [workers[w] EXCEPT !.pc = p, !.cancel = FALSE]]
    BY DEF WorkerHit, Inv
  <2> HIDE DEF p
  <2>3. [workers[w] EXCEPT !.pc = p, !.cancel = FALSE] \in WorkerRecord
    BY <2>1
  <2>4. workers' \in [Worker -> WorkerRecord]
    BY <2>2, <2>3, Replaced DEF Inv
  <2> QED BY <2>4 DEF Inv, WorkerHit, OnlyWorkers
<1>2. OneWorker'
  BY DEF Inv, OneWorker, Alive, WorkerHit, OnlyWorkers
<1>3. StopWins'
  BY DEF Inv, StopWins, Generations, Fresh, Ready, WorkerHit, OnlyWorkers
<1>4. OneDrain'
  BY DEF Inv, OneDrain, OneWorker, Alive, Generations, Fresh, Ready, StartFinds, WorkerHit, OnlyWorkers
<1>5. Generations'
  BY DEF Inv, Generations, Fresh, Ready, StartFinds, OneDrain, OneWorker, Alive, WorkerHit, OnlyWorkers
<1>6. Quiet'
  BY DEF Inv, Quiet, Generations, Fresh, Ready, WorkerHit, OnlyWorkers
<1>7. Cancellations'
  BY DEF Inv, Cancellations, OneWorker, OneDrain, Alive, WorkerHit, OnlyWorkers
<1>8. Hits'
  BY DEF Inv, Hits, WorkerHit, OnlyWorkers
<1>9. CancellationReplayed'
  BY DEF Inv, CancellationReplayed, Hits, Cancellations, WorkerHit, OnlyWorkers
<1> QED BY <1>1, <1>2, <1>3, <1>4, <1>5, <1>6, <1>7, <1>8, <1>9 DEF Inv

\* The end of the clean-up, failed or not, keeps the invariant.
LEMMA WorkerUnwoundStep == ASSUME Inv, NEW w \in Worker, NEW failed \in BOOLEAN, WorkerUnwound(w, failed) PROVE Inv'
<1> USE ConstantsAssumption DEF ConstantsAssumption, TypeOK, WorkerRecord, DrainRecord, CallRecord, Ended, NoWorker, NoDrain, NoCall, Awaiting
<1>1. TypeOK'
  BY DEF Inv, WorkerUnwound, Goes, OnlyWorkers
<1>2. OneWorker'
  BY DEF Inv, OneWorker, Alive, WorkerUnwound, Goes, OnlyWorkers
<1>3. StopWins'
  BY DEF Inv, StopWins, Generations, Fresh, Ready, WorkerUnwound, Goes, OnlyWorkers
<1>4. OneDrain'
  BY DEF Inv, OneDrain, OneWorker, Alive, Generations, Fresh, Ready, StartFinds, WorkerUnwound, Goes, OnlyWorkers
<1>5. Generations'
  BY DEF Inv, Generations, Fresh, Ready, StartFinds, OneDrain, OneWorker, Alive, WorkerUnwound, Goes, OnlyWorkers
<1>6. Quiet'
  BY DEF Inv, Quiet, Generations, Fresh, Ready, WorkerUnwound, Goes, OnlyWorkers
<1>7. Cancellations'
  BY DEF Inv, Cancellations, OneWorker, OneDrain, Alive, WorkerUnwound, Goes, OnlyWorkers
<1>8. Hits'
  BY DEF Inv, Hits, WorkerUnwound, Goes, OnlyWorkers
<1>9. CancellationReplayed'
  BY DEF Inv, CancellationReplayed, Hits, Cancellations, WorkerUnwound, Goes, OnlyWorkers
<1> QED BY <1>1, <1>2, <1>3, <1>4, <1>5, <1>6, <1>7, <1>8, <1>9 DEF Inv

\* A cancellation from the agent keeps the invariant: it comes in a tick.
LEMMA AgentCancelsStep == ASSUME Inv, NEW w \in Worker, AgentCancels(w) PROVE Inv'
<1> USE ConstantsAssumption DEF ConstantsAssumption
<1>1. /\ workers' \in [Worker -> WorkerRecord]
      /\ workers'[w].pc = "ticking" /\ workers'[w].cancel /\ workers'[w].cancelling
      /\ \A x \in Worker \ {w} : workers'[x] = workers[x]
  <2>1. workers \in [Worker -> WorkerRecord]
    BY DEF Inv, TypeOK
  <2> QED BY <2>1, CancelledTyped DEF AgentCancels
<1>2. /\ UNCHANGED <<running, generation, task, requested, closer, drains, callers, calls, asked, closed>>
      /\ workers[w].pc = "ticking" /\ ~workers[w].cancel /\ cancels' \in 0..MaxCancels
  BY DEF AgentCancels, Inv, TypeOK
<1>3. TypeOK'
  BY <1>1, <1>2 DEF Inv, TypeOK, Awaiting
<1>4. OneWorker'
  BY <1>1, <1>2 DEF Inv, TypeOK, OneWorker, Alive, Ended
<1>5. StopWins'
  BY <1>1, <1>2 DEF Inv, TypeOK, StopWins, Generations, Fresh, Ready, Awaiting
<1>6. OneDrain'
  BY <1>1, <1>2 DEF Inv, TypeOK, OneDrain, OneWorker, Alive, Generations, Fresh, Ready, StartFinds, Awaiting
<1>7. Generations'
  BY <1>1, <1>2 DEF Inv, TypeOK, Generations, Fresh, Ready, StartFinds, OneDrain, Awaiting
<1>8. Quiet'
  BY <1>1, <1>2 DEF Inv, TypeOK, Quiet, Generations, Fresh, Ready, Awaiting
<1>9. Cancellations'
  BY <1>1, <1>2 DEF Inv, TypeOK, Cancellations, OneWorker, OneDrain, Alive, Ended
<1>10. Hits'
  BY <1>1, <1>2 DEF Inv, TypeOK, Hits, Awaiting
<1>11. CancellationReplayed'
  BY <1>1, <1>2 DEF Inv, TypeOK, CancellationReplayed, Hits, Cancellations, Awaiting
<1> QED BY <1>3, <1>4, <1>5, <1>6, <1>7, <1>8, <1>9, <1>10, <1>11 DEF Inv

\* The first step of a drain keeps the invariant: it expects what it has requested.
LEMMA DrainStartStep == ASSUME Inv, NEW w \in Worker, DrainStart(w) PROVE Inv'
<1> USE ConstantsAssumption DEF ConstantsAssumption
<1>1. /\ workers' \in [Worker -> WorkerRecord] /\ requested' \in {requested, w}
      /\ \A x \in Worker : workers'[x].pc = workers[x].pc
      /\ \A x \in Worker \ {w} : workers'[x] = workers[x]
      /\ \/ UNCHANGED <<workers, requested>>
         \/ /\ Alive(w) /\ ~workers[w].cancelling
            /\ workers'[w].cancel /\ workers'[w].cancelling /\ requested' = w
      /\ Alive(w) => workers'[w].cancelling \/ requested' = w
  BY Requested DEF DrainStart
<1>2. /\ drains' \in [Worker -> DrainRecord]
      /\ drains'[w].pc = "waiting" /\ drains'[w].expected = (requested' = w)
      /\ drains'[w].error = drains[w].error
      /\ \A x \in Worker \ {w} : drains'[x] = drains[x]
  <2>1. drains \in [Worker -> DrainRecord] /\ drains[w] \in DrainRecord
    BY DEF Inv, TypeOK
  <2>2. [drains[w] EXCEPT !.pc = "waiting", !.expected = (requested' = w)] \in DrainRecord
    BY <2>1 DEF DrainRecord
  <2> QED BY <2>1, <2>2, Replaced DEF DrainStart, DrainRecord
<1>3. /\ UNCHANGED <<running, generation, task, closer, callers, calls, cancels, asked, closed>>
      /\ drains[w].pc = "created" /\ closer = w /\ task = w
  BY DEF DrainStart, Inv, OneDrain
<1>4. TypeOK'
  BY <1>1, <1>2, <1>3 DEF Inv, TypeOK, Awaiting
<1>5. OneWorker'
  BY <1>1, <1>2, <1>3 DEF Inv, TypeOK, OneWorker, Alive, Ended
<1>6. StopWins'
  BY <1>1, <1>2, <1>3 DEF Inv, TypeOK, StopWins, Generations, Fresh, Ready, Awaiting
<1>7. OneDrain'
  BY <1>1, <1>2, <1>3 DEF Inv, TypeOK, OneDrain, OneWorker, Alive, Generations, Fresh, Ready, StartFinds, Awaiting
<1>8. Generations'
  BY <1>1, <1>2, <1>3 DEF Inv, TypeOK, Generations, Fresh, Ready, StartFinds, OneDrain, Awaiting
<1>9. Quiet'
  BY <1>1, <1>2, <1>3 DEF Inv, TypeOK, Quiet, Generations, Fresh, Ready, Awaiting
<1>10. Cancellations'
  BY <1>1, <1>2, <1>3, ZenonT(60) DEF Inv, TypeOK, Cancellations, OneWorker, OneDrain, Alive, Ended
<1>11. Hits'
  BY <1>1, <1>2, <1>3 DEF Inv, TypeOK, Hits, Awaiting
<1>12. CancellationReplayed'
  BY <1>1, <1>2, <1>3 DEF Inv, TypeOK, CancellationReplayed, Hits, Cancellations, Awaiting
<1> QED BY <1>4, <1>5, <1>6, <1>7, <1>8, <1>9, <1>10, <1>11, <1>12 DEF Inv

\* The end of a drain keeps the invariant: the current worker is over and forgotten.
LEMMA DrainEndsStep == ASSUME Inv, NEW w \in Worker, DrainEnds(w) PROVE Inv'
<1> USE ConstantsAssumption DEF ConstantsAssumption
<1>1. /\ ~Alive(w) /\ drains[w].pc = "waiting" /\ closer = w /\ task = w
      /\ task' = None /\ requested' = IF requested = w THEN None ELSE requested
      /\ UNCHANGED <<running, generation, closer, workers, callers, calls, cancels, asked, closed>>
  BY DEF DrainEnds, Inv, OneDrain
<1>2. ~(workers[w].pc = "cancelled" /\ ~drains[w].expected)
  BY <1>1 DEF Inv, Cancellations
<1>3. /\ drains' \in [Worker -> DrainRecord]
      /\ drains'[w].pc = "done" /\ ~drains'[w].error
      /\ \A x \in Worker \ {w} : drains'[x] = drains[x]
  <2>1. drains \in [Worker -> DrainRecord] /\ drains[w] \in DrainRecord
    BY DEF Inv, TypeOK
  <2>2. drains' = [drains EXCEPT ![w] = [drains[w] EXCEPT !.pc = "done", !.error = FALSE]]
    BY <1>2, <2>1 DEF DrainEnds
  <2>3. [drains[w] EXCEPT !.pc = "done", !.error = FALSE] \in DrainRecord
    BY <2>1 DEF DrainRecord
  <2> QED BY <2>1, <2>2, <2>3, Replaced DEF DrainRecord
<1>4. TypeOK'
  BY <1>1, <1>3 DEF Inv, TypeOK, Awaiting
<1>5. OneWorker'
  BY <1>1, <1>3 DEF Inv, TypeOK, OneWorker, Alive, Ended
<1>6. StopWins'
  BY <1>1, <1>3 DEF Inv, TypeOK, StopWins, Generations, Fresh, Ready, Awaiting
<1>7. OneDrain'
  BY <1>1, <1>3 DEF Inv, TypeOK, OneDrain, OneWorker, Alive, Generations, Fresh, Ready, StartFinds, Awaiting
<1>8. Generations'
  BY <1>1, <1>3 DEF Inv, TypeOK, Generations, Fresh, Ready, StartFinds, OneDrain, Awaiting
<1>9. Quiet'
  BY <1>1, <1>3 DEF Inv, TypeOK, Quiet, Generations, Fresh, Ready, Awaiting
<1>10. Cancellations'
  BY <1>1, <1>3 DEF Inv, TypeOK, Cancellations, OneWorker, OneDrain, Alive, Ended
<1>11. Hits'
  BY <1>1, <1>3 DEF Inv, TypeOK, Hits, Awaiting
<1>12. CancellationReplayed'
  BY <1>1, <1>3 DEF Inv, TypeOK, CancellationReplayed, Hits, Cancellations, Awaiting
<1> QED BY <1>4, <1>5, <1>6, <1>7, <1>8, <1>9, <1>10, <1>11, <1>12 DEF Inv

\* start keeps the invariant, whether it starts a worker or joins a drain.
LEMMA StartStep == ASSUME Inv, NEW c \in Caller, Start(c) PROVE Inv'
<1> USE ConstantsAssumption DEF ConstantsAssumption
<1>1. /\ ~Awaiting(c) /\ ~AlreadyRunning /\ asked' = TRUE /\ closed' = FALSE
      /\ UNCHANGED <<generation, cancels>> /\ calls' \in 0..MaxCalls
      /\ callers \in [Caller -> CallRecord]
  BY DEF Start, CallStarts, Inv, TypeOK
<1>2. CASE NothingToDrain
  <2>1. PICK n \in Worker :
             /\ running' = TRUE /\ task' = n /\ requested' = None
             /\ workers' \in [Worker -> WorkerRecord]
             /\ workers'[n].pc = "created" /\ ~workers'[n].cancel /\ ~workers'[n].cancelling
             /\ \A w \in Worker \ {n} : workers'[w] = workers[w]
             /\ drains[n].pc = "none" /\ n \notin {task, requested, closer}
    BY <1>2, Started DEF Start, Inv
  <2>2. /\ NoCall \in CallRecord /\ NoCall.pc = "idle" /\ NoCall.own = NoCall.hit /\ ~NoCall.foreign
    BY DEF NoCall, CallRecord
  <2>3. /\ callers' \in [Caller -> CallRecord] /\ callers'[c] = NoCall
        /\ \A x \in Caller \ {c} : callers'[x] = callers[x]
        /\ UNCHANGED <<closer, drains>> /\ closer = None /\ task = None
    BY <1>1, <1>2, <2>2, Replaced DEF Start, Call, NothingToDrain
  <2>4. TypeOK'
    BY <1>1, <2>1, <2>2, <2>3 DEF Inv, TypeOK, Awaiting
  <2>5. OneWorker'
    BY <1>1, <2>1, <2>2, <2>3 DEF Inv, TypeOK, OneWorker, Alive, Ended
  <2>6. StopWins'
    BY <1>1, <2>1, <2>2, <2>3 DEF Inv, TypeOK, StopWins, Generations, Fresh, Ready, Awaiting
  <2>7. OneDrain'
    BY <1>1, <2>1, <2>2, <2>3 DEF Inv, TypeOK, OneDrain, OneWorker, Alive, Generations, Fresh, Ready, StartFinds, Awaiting
  <2>8. Generations'
    BY <1>1, <2>1, <2>2, <2>3 DEF Inv, TypeOK, Generations, Fresh, Ready, StartFinds, OneDrain, Awaiting
  <2>9. Quiet'
    BY <1>1, <2>1, <2>2, <2>3 DEF Inv, TypeOK, Quiet, Generations, Fresh, Ready, Awaiting
  <2>10. Cancellations'
    BY <1>1, <2>1, <2>2, <2>3 DEF Inv, TypeOK, Cancellations, OneWorker, OneDrain, Alive, Ended
  <2>11. Hits'
    BY <1>1, <2>1, <2>2, <2>3 DEF Inv, TypeOK, Hits, Awaiting
  <2>12. CancellationReplayed'
    BY <1>1, <2>1, <2>2, <2>3 DEF Inv, TypeOK, CancellationReplayed, Hits, Cancellations, Awaiting
  <2> QED BY <2>4, <2>5, <2>6, <2>7, <2>8, <2>9, <2>10, <2>11, <2>12 DEF Inv
<1>3. CASE ~NothingToDrain
  <2> DEFINE frame == [NoCall EXCEPT !.pc = "start", !.gen = generation]
  <2>1. /\ frame \in CallRecord /\ frame.pc = "start" /\ frame.gen = generation
        /\ ~frame.cancel /\ ~frame.absorbed /\ ~frame.hit
    BY DEF NoCall, CallRecord, Inv, TypeOK
  <2>2. PICK d \in Worker :
             /\ closer' = d
             /\ callers' = [callers EXCEPT ![c] = [frame EXCEPT !.drain = d]]
             /\ [frame EXCEPT !.drain = d] \in CallRecord
             /\ drains' \in [Worker -> DrainRecord]
             /\ \A w \in Worker : ~drains[w].error => ~drains'[w].error
             /\ \/ closer = d /\ drains' = drains
                \/ /\ closer = None /\ task = d
                   /\ drains'[d].pc = "created"
                   /\ \A w \in Worker \ {d} : drains'[w] = drains[w]
    BY <1>3, <2>1, Joined DEF Start, Inv
  <2> DEFINE r == [frame EXCEPT !.drain = d]
  <2>3. /\ r \in CallRecord /\ r.pc = "start" /\ r.gen = generation /\ r.drain = d
        /\ r.hit = (r.cancel \/ r.absorbed)
    BY <2>1, <2>2 DEF CallRecord
  <2> HIDE DEF frame, r
  <2>4. /\ callers' \in [Caller -> CallRecord] /\ callers'[c] = r
        /\ \A x \in Caller \ {c} : callers'[x] = callers[x]
    BY <1>1, <2>2, <2>3, Replaced DEF r
  <2>5. /\ running' = (running /\ closer # None) /\ UNCHANGED <<task, requested, workers>>
    BY <1>3 DEF Start
  <2>6. TypeOK'
    BY <1>1, <2>2, <2>3, <2>4, <2>5 DEF Inv, TypeOK, Awaiting
  <2>7. OneWorker'
    BY <1>1, <2>2, <2>3, <2>4, <2>5 DEF Inv, TypeOK, OneWorker, Alive, Ended
  <2>8. StopWins'
    BY <1>1, <2>2, <2>3, <2>4, <2>5 DEF Inv, TypeOK, StopWins, Generations, Fresh, Ready, Awaiting
  <2>9. OneDrain'
    BY <1>1, <2>2, <2>3, <2>4, <2>5 DEF Inv, TypeOK, OneDrain, OneWorker, Alive, Generations, Fresh, Ready, StartFinds, Awaiting
  <2>10. Generations'
    <3> USE DEF Inv, TypeOK, Generations, Fresh, Ready, StartFinds, OneDrain, Awaiting
    <3> SUFFICES ASSUME NEW x \in Caller, Awaiting(x)'
        PROVE  /\ callers'[x].gen <= generation'
               /\ Fresh(x)' /\ callers'[x].pc = "start" => asked' /\ (Ready(x)' => StartFinds(x)')
               /\ Fresh(x)' /\ callers'[x].pc = "aclose" /\ ~asked' /\ Ready(x)' => task' = None
      OBVIOUS
    <3>1. CASE x = c
      <4>1. closer = d /\ drains[d].pc = "done" => task = None
        OBVIOUS
      <4>2. /\ callers'[x].pc = "start" /\ callers'[x].gen = generation
            /\ callers'[x].drain = d /\ closer' = d
        BY <2>2, <2>3, <2>4, <3>1
      <4>3. Ready(x)' => task = None
        BY <2>2, <4>1, <4>2
      <4> QED BY <1>1, <2>5, <4>2, <4>3
    <3>2. CASE x # c
      <4>1. callers'[x] = callers[x] /\ Awaiting(x) /\ callers[x].drain \in Worker
        BY <2>4, <3>2
      <4>2. CASE closer = d
        BY <1>1, <2>2, <2>5, <4>1, <4>2
      <4>3. CASE closer = None /\ task = d /\ Ready(x)' /\ Fresh(x)' /\ callers[x].pc = "start"
        <5>1. Ready(x) /\ Fresh(x)
          BY <1>1, <2>2, <4>1, <4>3
        <5>2. running /\ workers[d].pc \in {"created", "sleeping"}
          BY <4>1, <4>3, <5>1, ConstantsAssumption
        <5> QED BY <1>1, <4>3, <5>2 DEF AlreadyRunning, Alive, Ended
      <4> QED BY <1>1, <2>2, <2>5, <4>1, <4>2, <4>3
    <3> QED BY <3>1, <3>2
  <2>11. Quiet'
    BY <1>1, <2>2, <2>3, <2>4, <2>5 DEF Inv, TypeOK, Quiet, Generations, Fresh, Ready, Awaiting
  <2>12. Cancellations'
    BY <1>1, <2>2, <2>3, <2>4, <2>5 DEF Inv, TypeOK, Cancellations, OneWorker, OneDrain, Alive, Ended
  <2>13. Hits'
    BY <1>1, <2>2, <2>3, <2>4, <2>5 DEF Inv, TypeOK, Hits, Awaiting
  <2>14. CancellationReplayed'
    BY <1>1, <2>2, <2>3, <2>4, <2>5 DEF Inv, TypeOK, CancellationReplayed, Hits, Cancellations, Awaiting
  <2> QED BY <2>6, <2>7, <2>8, <2>9, <2>10, <2>11, <2>12, <2>13, <2>14 DEF Inv
<1> QED BY <1>2, <1>3

\* stop keeps the invariant for the same reason.
LEMMA StopStep == ASSUME Inv, Stop PROVE Inv'
<1> USE ConstantsAssumption DEF ConstantsAssumption
<1>1. /\ workers' \in [Worker -> WorkerRecord] /\ requested' \in {requested, task}
      /\ \A x \in Worker : workers'[x].pc = workers[x].pc
      /\ \A x \in Worker : x # task => workers'[x] = workers[x]
      /\ \/ UNCHANGED <<workers, requested>>
         \/ /\ task \in Worker /\ Alive(task) /\ ~workers[task].cancelling
            /\ workers'[task].cancel /\ workers'[task].cancelling /\ requested' = task
  BY Requested DEF Stop, Inv, TypeOK
<1>2. /\ generation' = generation + 1 /\ running' = FALSE /\ asked' = FALSE
      /\ calls' \in 0..MaxCalls
      /\ UNCHANGED <<task, closer, drains, callers, cancels, closed>>
  BY DEF Stop, CallStarts, Inv, TypeOK
<1>3. TypeOK'
  <2>1. generation' \in Nat /\ requested' \in Worker \cup {None}
    BY <1>1, <1>2 DEF Inv, TypeOK
  <2> QED BY <1>1, <1>2, <2>1 DEF Inv, TypeOK, Awaiting
<1>4. OneWorker'
  BY <1>1, <1>2 DEF Inv, TypeOK, OneWorker, Alive, Ended
<1>5. StopWins'
  BY <1>1, <1>2 DEF Inv, TypeOK, StopWins, Generations, Fresh, Ready, Awaiting
<1>6. OneDrain'
  BY <1>1, <1>2 DEF Inv, TypeOK, OneDrain, OneWorker, Alive, Generations, Fresh, Ready, StartFinds, Awaiting
<1>7. Generations'
  <2>1. \A x \in Caller : callers[x].gen \in Nat /\ (Awaiting(x) => callers[x].gen <= generation)
    BY DEF Inv, TypeOK, CallRecord, Generations
  <2>2. generation \in Nat
    BY DEF Inv, TypeOK
  <2> QED BY <1>2, <2>1, <2>2 DEF Generations, Fresh, Awaiting
<1>8. Quiet'
  BY <1>1, <1>2 DEF Inv, TypeOK, Quiet, Generations, Fresh, Ready, Awaiting
<1>9. Cancellations'
  BY <1>1, <1>2 DEF Inv, TypeOK, Cancellations, OneWorker, OneDrain, Alive, Ended
<1>10. Hits'
  BY <1>1, <1>2 DEF Inv, TypeOK, Hits, Awaiting
<1>11. CancellationReplayed'
  BY <1>1, <1>2 DEF Inv, TypeOK, CancellationReplayed, Hits, Cancellations, Awaiting
<1> QED BY <1>3, <1>4, <1>5, <1>6, <1>7, <1>8, <1>9, <1>10, <1>11 DEF Inv

\* aclose keeps the invariant: every earlier call is of an older generation.
LEMMA ACloseStep == ASSUME Inv, NEW c \in Caller, AClose(c) PROVE Inv'
<1> USE ConstantsAssumption DEF ConstantsAssumption
<1>1. /\ workers' \in [Worker -> WorkerRecord] /\ requested' \in {requested, task}
      /\ \A x \in Worker : workers'[x].pc = workers[x].pc
      /\ \A x \in Worker : x # task => workers'[x] = workers[x]
      /\ \/ UNCHANGED <<workers, requested>>
         \/ /\ task \in Worker /\ Alive(task) /\ ~workers[task].cancelling
            /\ workers'[task].cancel /\ workers'[task].cancelling /\ requested' = task
  BY Requested DEF AClose, Inv, TypeOK
<1>2. /\ ~Awaiting(c) /\ generation' = generation + 1 /\ running' = FALSE /\ asked' = FALSE
      /\ UNCHANGED <<task, cancels>> /\ calls' \in 0..MaxCalls
      /\ callers \in [Caller -> CallRecord]
  BY DEF AClose, CallStarts, Inv, TypeOK
<1>3. CASE NothingToDrain
  <2>1. /\ NoCall \in CallRecord /\ NoCall.pc = "idle" /\ NoCall.own = NoCall.hit /\ ~NoCall.foreign
    BY DEF NoCall, CallRecord
  <2>2. /\ callers' \in [Caller -> CallRecord] /\ callers'[c] = NoCall
        /\ \A x \in Caller \ {c} : callers'[x] = callers[x]
        /\ UNCHANGED <<closer, drains>> /\ closed' = TRUE /\ closer = None /\ task = None
    BY <1>2, <1>3, <2>1, Replaced DEF AClose, Call, NothingToDrain
  <2>3. TypeOK'
    <3>1. generation' \in Nat /\ requested' \in Worker \cup {None}
      BY <1>1, <1>2 DEF Inv, TypeOK
    <3> QED BY <1>1, <1>2, <2>1, <2>2, <3>1 DEF Inv, TypeOK, Awaiting
  <2>4. OneWorker'
    BY <1>1, <1>2, <2>1, <2>2 DEF Inv, TypeOK, OneWorker, Alive, Ended
  <2>5. StopWins'
    BY <1>1, <1>2, <2>1, <2>2 DEF Inv, TypeOK, StopWins, Generations, Fresh, Ready, Awaiting
  <2>6. OneDrain'
    BY <1>1, <1>2, <2>1, <2>2 DEF Inv, TypeOK, OneDrain, OneWorker, Alive, Generations, Fresh, Ready, StartFinds, Awaiting
  <2>7. Generations'
    <3>1. \A x \in Caller : callers[x].gen \in Nat /\ (Awaiting(x) => callers[x].gen <= generation)
      BY DEF Inv, TypeOK, CallRecord, Generations
    <3>2. generation \in Nat
      BY DEF Inv, TypeOK
    <3>3. ASSUME NEW x \in Caller, Awaiting(x)'
          PROVE  /\ callers'[x].gen <= generation'
                 /\ Fresh(x)' => /\ callers'[x].pc # "start"
                                 /\ callers'[x].pc = "aclose" /\ Ready(x)' => task' = None
      <4>1. CASE x = c
        BY <1>2, <2>1, <2>2, <3>1, <3>2, <3>3, <4>1 DEF Fresh, Ready, Awaiting, Inv, OneDrain
      <4>2. CASE x # c
        BY <1>2, <2>1, <2>2, <3>1, <3>2, <3>3, <4>2 DEF Fresh, Awaiting
      <4> QED BY <4>1, <4>2
    <3> QED BY <3>3 DEF Generations
  <2>8. Quiet'
    BY <1>1, <1>2, <2>1, <2>2 DEF Inv, TypeOK, Quiet, Generations, Fresh, Ready, Awaiting
  <2>9. Cancellations'
    BY <1>1, <1>2, <2>1, <2>2 DEF Inv, TypeOK, Cancellations, OneWorker, OneDrain, Alive, Ended
  <2>10. Hits'
    BY <1>1, <1>2, <2>1, <2>2 DEF Inv, TypeOK, Hits, Awaiting
  <2>11. CancellationReplayed'
    BY <1>1, <1>2, <2>1, <2>2 DEF Inv, TypeOK, CancellationReplayed, Hits, Cancellations, Awaiting
  <2> QED BY <2>3, <2>4, <2>5, <2>6, <2>7, <2>8, <2>9, <2>10, <2>11 DEF Inv
<1>4. CASE ~NothingToDrain
  <2> DEFINE g == generation + 1
             frame == [NoCall EXCEPT !.pc = "aclose", !.gen = g]
  <2>0. g \in Nat
    BY DEF Inv, TypeOK
  <2> HIDE DEF g
  <2>1. /\ frame \in CallRecord /\ frame.pc = "aclose" /\ frame.gen = g
        /\ ~frame.cancel /\ ~frame.absorbed /\ ~frame.hit
    BY <2>0 DEF NoCall, CallRecord
  <2>2. PICK d \in Worker :
             /\ closer' = d
             /\ callers' = [callers EXCEPT ![c] = [frame EXCEPT !.drain = d]]
             /\ [frame EXCEPT !.drain = d] \in CallRecord
             /\ drains' \in [Worker -> DrainRecord]
             /\ \A w \in Worker : ~drains[w].error => ~drains'[w].error
             /\ \/ closer = d /\ drains' = drains
                \/ /\ closer = None /\ task = d
                   /\ drains'[d].pc = "created"
                   /\ \A w \in Worker \ {d} : drains'[w] = drains[w]
    BY <1>4, <2>1, Joined DEF AClose, Inv, g
  <2> DEFINE r == [frame EXCEPT !.drain = d]
  <2>3. /\ r \in CallRecord /\ r.pc = "aclose" /\ r.gen = generation + 1 /\ r.drain = d
        /\ r.hit = (r.cancel \/ r.absorbed)
    BY <2>1, <2>2 DEF CallRecord, g
  <2> HIDE DEF frame, r
  <2>4. /\ callers' \in [Caller -> CallRecord] /\ callers'[c] = r
        /\ \A x \in Caller \ {c} : callers'[x] = callers[x]
    BY <1>2, <2>2, <2>3, Replaced DEF r
  <2>5. UNCHANGED closed
    BY <1>4 DEF AClose
  <2>6. TypeOK'
    <3>1. generation' \in Nat /\ requested' \in Worker \cup {None}
      BY <1>1, <1>2 DEF Inv, TypeOK
    <3> QED BY <1>1, <1>2, <2>2, <2>3, <2>4, <2>5, <3>1, ZenonT(60) DEF Inv, TypeOK, Awaiting
  <2>7. OneWorker'
    BY <1>1, <1>2, <2>2, <2>3, <2>4, <2>5 DEF Inv, TypeOK, OneWorker, Alive, Ended
  <2>8. StopWins'
    BY <1>1, <1>2, <2>2, <2>3, <2>4, <2>5 DEF Inv, TypeOK, StopWins, Generations, Fresh, Ready, Awaiting
  <2>9. OneDrain'
    BY <1>1, <1>2, <2>2, <2>3, <2>4, <2>5 DEF Inv, TypeOK, OneDrain, OneWorker, Alive, Generations, Fresh, Ready, StartFinds, Awaiting
  <2>10. Generations'
    <3>1. \A x \in Caller : callers[x].gen \in Nat /\ (Awaiting(x) => callers[x].gen <= generation)
      BY DEF Inv, TypeOK, CallRecord, Generations
    <3>2. generation \in Nat
      BY DEF Inv, TypeOK
    <3>3. ASSUME NEW x \in Caller, Awaiting(x)'
          PROVE  /\ callers'[x].gen <= generation'
                 /\ Fresh(x)' => /\ callers'[x].pc # "start"
                                 /\ callers'[x].pc = "aclose" /\ Ready(x)' => task' = None
      <4>1. CASE x = c
        <5>1. closer = d /\ drains[d].pc = "done" => task = None
          BY DEF Inv, OneDrain
        <5>2. /\ callers'[x].pc = "aclose" /\ callers'[x].gen = generation + 1
              /\ callers'[x].drain = d /\ closer' = d
          BY <2>2, <2>3, <2>4, <4>1
        <5>3. Ready(x)' => task = None
          BY <2>2, <5>1, <5>2 DEF Ready
        <5> QED BY <1>2, <3>2, <5>2, <5>3
      <4>2. CASE x # c
        BY <1>2, <2>2, <2>3, <2>4, <3>1, <3>2, <3>3, <4>2 DEF Fresh, Awaiting
      <4> QED BY <4>1, <4>2
    <3> QED BY <3>3 DEF Generations
  <2>11. Quiet'
    BY <1>1, <1>2, <2>2, <2>3, <2>4, <2>5 DEF Inv, TypeOK, Quiet, Generations, Fresh, Ready, Awaiting
  <2>12. Cancellations'
    BY <1>1, <1>2, <2>2, <2>3, <2>4, <2>5 DEF Inv, TypeOK, Cancellations, OneWorker, OneDrain, Alive, Ended
  <2>13. Hits'
    BY <2>3, <2>4 DEF Inv, Hits, Awaiting
  <2>14. CancellationReplayed'
    BY <1>1, <1>2, <2>2, <2>3, <2>4, <2>5 DEF Inv, TypeOK, CancellationReplayed, Hits, Cancellations, Awaiting
  <2> QED BY <2>6, <2>7, <2>8, <2>9, <2>10, <2>11, <2>12, <2>13, <2>14 DEF Inv
<1> QED BY <1>3, <1>4

\* A cancelled caller that goes on waiting keeps the invariant.
LEMMA CallerAbsorbsStep == ASSUME Inv, NEW c \in Caller, CallerAbsorbs(c) PROVE Inv'
<1> USE ConstantsAssumption DEF ConstantsAssumption
<1> DEFINE r == [callers[c] EXCEPT !.cancel = FALSE, !.absorbed = TRUE]
<1>1. callers[c] \in CallRecord /\ callers \in [Caller -> CallRecord] /\ Awaiting(c)
  BY DEF Inv, TypeOK, CallerAbsorbs
<1>2. /\ r \in CallRecord /\ r.pc = callers[c].pc /\ r.gen = callers[c].gen
      /\ r.drain = callers[c].drain /\ r.hit = (r.cancel \/ r.absorbed)
  <2>1. callers[c].hit = (callers[c].cancel \/ callers[c].absorbed)
    BY <1>1 DEF Inv, Hits
  <2> QED BY <1>1, <2>1 DEF CallRecord, CallerAbsorbs
<1> HIDE DEF r
<1>3. callers' = [callers EXCEPT ![c] = r]
  BY DEF CallerAbsorbs, Call, r
<1>4. /\ callers' \in [Caller -> CallRecord] /\ callers'[c] = r
      /\ \A x \in Caller \ {c} : callers'[x] = callers[x]
  BY <1>1, <1>2, <1>3, Replaced
<1>5. /\ UNCHANGED <<running, generation, task, requested, closer, workers, drains, calls, asked, closed>>
      /\ cancels' \in 0..MaxCancels
  BY DEF CallerAbsorbs, Inv, TypeOK
<1>6. TypeOK'
  BY <1>1, <1>2, <1>4, <1>5 DEF Inv, TypeOK, Awaiting
<1>7. OneWorker'
  BY <1>1, <1>2, <1>4, <1>5 DEF Inv, TypeOK, OneWorker, Alive, Ended
<1>8. StopWins'
  BY <1>1, <1>2, <1>4, <1>5 DEF Inv, TypeOK, StopWins, Generations, Fresh, Ready, Awaiting
<1>9. OneDrain'
  BY <1>1, <1>2, <1>4, <1>5 DEF Inv, TypeOK, OneDrain, OneWorker, Alive, Generations, Fresh, Ready, StartFinds, Awaiting
<1>10. Generations'
  BY <1>1, <1>2, <1>4, <1>5 DEF Inv, TypeOK, Generations, Fresh, Ready, StartFinds, OneDrain, Awaiting
<1>11. Quiet'
  BY <1>1, <1>2, <1>4, <1>5 DEF Inv, TypeOK, Quiet, Generations, Fresh, Ready, Awaiting
<1>12. Cancellations'
  BY <1>1, <1>2, <1>4, <1>5 DEF Inv, TypeOK, Cancellations, OneWorker, OneDrain, Alive, Ended
<1>13. Hits'
  BY <1>1, <1>2, <1>4, <1>5 DEF Inv, TypeOK, Hits, Awaiting
<1>14. CancellationReplayed'
  BY <1>1, <1>2, <1>4, <1>5 DEF Inv, TypeOK, CancellationReplayed, Hits, Cancellations, Awaiting
<1> QED BY <1>6, <1>7, <1>8, <1>9, <1>10, <1>11, <1>12, <1>13, <1>14 DEF Inv

\* Cancelling a caller keeps the invariant.
LEMMA CancelCallerStep == ASSUME Inv, NEW c \in Caller, CancelCaller(c) PROVE Inv'
<1> USE ConstantsAssumption DEF ConstantsAssumption
<1> DEFINE r == [callers[c] EXCEPT !.cancel = TRUE, !.hit = TRUE]
<1>1. callers[c] \in CallRecord /\ callers \in [Caller -> CallRecord] /\ Awaiting(c)
  BY DEF Inv, TypeOK, CancelCaller
<1>2. /\ r \in CallRecord /\ r.pc = callers[c].pc /\ r.gen = callers[c].gen
      /\ r.drain = callers[c].drain /\ r.hit = (r.cancel \/ r.absorbed)
  <2>1. callers[c].hit = (callers[c].cancel \/ callers[c].absorbed)
    BY <1>1 DEF Inv, Hits
  <2> QED BY <1>1, <2>1 DEF CallRecord, CancelCaller
<1> HIDE DEF r
<1>3. callers' = [callers EXCEPT ![c] = r]
  BY DEF CancelCaller, Call, r
<1>4. /\ callers' \in [Caller -> CallRecord] /\ callers'[c] = r
      /\ \A x \in Caller \ {c} : callers'[x] = callers[x]
  BY <1>1, <1>2, <1>3, Replaced
<1>5. /\ UNCHANGED <<running, generation, task, requested, closer, workers, drains, calls, asked, closed>>
      /\ cancels' \in 0..MaxCancels
  BY DEF CancelCaller, Inv, TypeOK
<1>6. TypeOK'
  BY <1>1, <1>2, <1>4, <1>5 DEF Inv, TypeOK, Awaiting
<1>7. OneWorker'
  BY <1>1, <1>2, <1>4, <1>5 DEF Inv, TypeOK, OneWorker, Alive, Ended
<1>8. StopWins'
  BY <1>1, <1>2, <1>4, <1>5 DEF Inv, TypeOK, StopWins, Generations, Fresh, Ready, Awaiting
<1>9. OneDrain'
  BY <1>1, <1>2, <1>4, <1>5 DEF Inv, TypeOK, OneDrain, OneWorker, Alive, Generations, Fresh, Ready, StartFinds, Awaiting
<1>10. Generations'
  BY <1>1, <1>2, <1>4, <1>5 DEF Inv, TypeOK, Generations, Fresh, Ready, StartFinds, OneDrain, Awaiting
<1>11. Quiet'
  BY <1>1, <1>2, <1>4, <1>5 DEF Inv, TypeOK, Quiet, Generations, Fresh, Ready, Awaiting
<1>12. Cancellations'
  BY <1>1, <1>2, <1>4, <1>5 DEF Inv, TypeOK, Cancellations, OneWorker, OneDrain, Alive, Ended
<1>13. Hits'
  BY <1>1, <1>2, <1>4, <1>5 DEF Inv, TypeOK, Hits, Awaiting
<1>14. CancellationReplayed'
  BY <1>1, <1>2, <1>4, <1>5 DEF Inv, TypeOK, CancellationReplayed, Hits, Cancellations, Awaiting
<1> QED BY <1>6, <1>7, <1>8, <1>9, <1>10, <1>11, <1>12, <1>13, <1>14 DEF Inv

\* A caller that goes on after its drain keeps the invariant: a start finds no worker.
LEMMA CallerResumesStep == ASSUME Inv, NEW c \in Caller, CallerResumes(c) PROVE Inv'
<1> USE ConstantsAssumption DEF ConstantsAssumption
<1> DEFINE f == callers[c]
           r == [NoCall EXCEPT !.hit = f.hit, !.own = f.absorbed, !.foreign = drains[f.drain].error]
<1>1. /\ f \in CallRecord /\ callers \in [Caller -> CallRecord] /\ drains \in [Worker -> DrainRecord]
      /\ Awaiting(c) /\ f.drain \in Worker /\ drains[f.drain].pc = "done" /\ ~f.cancel
  BY DEF Inv, TypeOK, CallerResumes, Ready
<1>2. /\ r \in CallRecord /\ r.pc = "idle" /\ r.own = r.hit /\ ~r.foreign
  <2>1. f.hit = f.absorbed
    BY <1>1 DEF Inv, Hits, CallRecord
  <2>2. drains[f.drain].error = FALSE
    BY <1>1 DEF Inv, Cancellations, DrainRecord
  <2> QED BY <1>1, <2>1, <2>2 DEF NoCall, CallRecord
<1>3. /\ callers' \in [Caller -> CallRecord] /\ callers'[c] = r
      /\ \A x \in Caller \ {c} : callers'[x] = callers[x]
  <2> HIDE DEF r
  <2>1. callers' = [callers EXCEPT ![c] = r]
    BY DEF CallerResumes, Call, r
  <2> QED BY <1>1, <1>2, <2>1, Replaced
<1>4. /\ drains' \in [Worker -> DrainRecord]
      /\ \A w \in Worker \ {f.drain} : drains'[w] = drains[w]
      /\ drains'[f.drain].pc \in {"none", "done"} /\ ~drains'[f.drain].error
      /\ (\E x \in Caller \ {c} : callers[x].drain = f.drain) => drains' = drains
  <2>1. NoDrain \in DrainRecord /\ NoDrain.pc = "none" /\ ~NoDrain.error
    BY DEF NoDrain, DrainRecord
  <2>2. ~drains[f.drain].error
    BY <1>1 DEF Inv, Cancellations
  <2>3. CASE \E x \in Caller \ {c} : callers[x].drain = f.drain
    BY <1>1, <2>2, <2>3 DEF CallerResumes
  <2>4. CASE ~\E x \in Caller \ {c} : callers[x].drain = f.drain
    <3>1. drains' = [drains EXCEPT ![f.drain] = NoDrain]
      BY <2>4 DEF CallerResumes
    <3> QED BY <1>1, <2>1, <2>4, <3>1
  <2> QED BY <2>3, <2>4
<1>5. /\ closer' = (IF closer = f.drain THEN None ELSE closer)
      /\ UNCHANGED <<generation, calls, cancels, asked>>
  BY DEF CallerResumes, Forget
<1> HIDE DEF f, r
<1>6. CASE GoesOn(c)
  <2>1. /\ f.pc = "start" /\ f.gen = generation /\ ~AlreadyRunning /\ UNCHANGED closed
    BY <1>6 DEF CallerResumes, GoesOn, f
  <2>2. asked /\ closer \in {None, f.drain} /\ closer' = None /\ task = None
    BY <1>1, <1>5, <2>1 DEF Inv, TypeOK, Generations, Fresh, Ready, StartFinds, AlreadyRunning, Alive, Ended, Awaiting, f
  <2>3. PICK n \in Worker :
             /\ running' = TRUE /\ task' = n /\ requested' = None
             /\ workers' \in [Worker -> WorkerRecord]
             /\ workers'[n].pc = "created" /\ ~workers'[n].cancel /\ ~workers'[n].cancelling
             /\ \A w \in Worker \ {n} : workers'[w] = workers[w]
             /\ drains[n].pc = "none" /\ n \notin {task, requested, closer}
    BY <1>6, Started DEF CallerResumes, Inv
  <2>4. TypeOK'
    BY <1>1, <1>2, <1>3, <1>4, <1>5, <2>1, <2>2, <2>3 DEF Inv, TypeOK, Awaiting
  <2>5. OneWorker'
    BY <1>1, <1>2, <1>3, <1>4, <1>5, <2>1, <2>2, <2>3 DEF Inv, TypeOK, OneWorker, Alive, Ended
  <2>6. StopWins'
    BY <1>1, <1>2, <1>3, <1>4, <1>5, <2>1, <2>2, <2>3 DEF Inv, TypeOK, StopWins, Generations, Fresh, Ready, Awaiting
  <2>7. OneDrain'
    BY <1>1, <1>2, <1>3, <1>4, <1>5, <2>1, <2>2, <2>3 DEF Inv, TypeOK, OneDrain, OneWorker, Alive, Generations, Fresh, Ready, StartFinds, Awaiting
  <2>8. Generations'
    BY <1>1, <1>2, <1>3, <1>4, <1>5, <2>1, <2>2, <2>3 DEF Inv, TypeOK, Generations, Fresh, Ready, StartFinds, OneDrain, Awaiting
  <2>9. Quiet'
    BY <1>1, <1>2, <1>3, <1>4, <1>5, <2>1, <2>2, <2>3 DEF Inv, TypeOK, Quiet, Generations, Fresh, Ready, Awaiting
  <2>10. Cancellations'
    BY <1>1, <1>2, <1>3, <1>4, <1>5, <2>1, <2>2, <2>3 DEF Inv, TypeOK, Cancellations, OneWorker, OneDrain, Alive, Ended
  <2>11. Hits'
    BY <1>1, <1>2, <1>3, <1>4, <1>5, <2>1, <2>2, <2>3 DEF Inv, TypeOK, Hits, Awaiting
  <2>12. CancellationReplayed'
    BY <1>1, <1>2, <1>3, <1>4, <1>5, <2>1, <2>2, <2>3 DEF Inv, TypeOK, CancellationReplayed, Hits, Cancellations, Awaiting
  <2> QED BY <2>4, <2>5, <2>6, <2>7, <2>8, <2>9, <2>10, <2>11, <2>12 DEF Inv
<1>7. CASE ~GoesOn(c)
  <2>1. /\ closed' = (closed \/ (f.pc = "aclose" /\ f.gen = generation /\ ~asked))
        /\ UNCHANGED <<running, task, requested, workers>>
    BY <1>7 DEF CallerResumes, f
  <2>2. TypeOK'
    BY <1>1, <1>2, <1>3, <1>4, <1>5, <2>1 DEF Inv, TypeOK, Awaiting
  <2>3. OneWorker'
    BY <1>1, <1>2, <1>3, <1>4, <1>5, <2>1 DEF Inv, TypeOK, OneWorker, Alive, Ended, f
  <2>4. StopWins'
    BY <1>1, <1>2, <1>3, <1>4, <1>5, <2>1 DEF Inv, TypeOK, StopWins, Generations, Fresh, Ready, Awaiting, f
  <2>5. OneDrain'
    BY <1>1, <1>2, <1>3, <1>4, <1>5, <2>1 DEF Inv, TypeOK, OneDrain, OneWorker, Alive, Generations, Fresh, Ready, StartFinds, Awaiting, f
  <2>6. Generations'
    BY <1>1, <1>2, <1>3, <1>4, <1>5, <2>1 DEF Inv, TypeOK, Generations, Fresh, Ready, StartFinds, OneDrain, Awaiting, f
  <2>7. Quiet'
    BY <1>1, <1>2, <1>3, <1>4, <1>5, <2>1 DEF Inv, TypeOK, Quiet, Generations, Fresh, Ready, Awaiting, f
  <2>8. Cancellations'
    BY <1>1, <1>2, <1>3, <1>4, <1>5, <2>1 DEF Inv, TypeOK, Cancellations, OneWorker, OneDrain, Alive, Ended, f
  <2>9. Hits'
    BY <1>1, <1>2, <1>3, <1>4, <1>5, <2>1 DEF Inv, TypeOK, Hits, Awaiting, f
  <2>10. CancellationReplayed'
    BY <1>1, <1>2, <1>3, <1>4, <1>5, <2>1 DEF Inv, TypeOK, CancellationReplayed, Hits, Cancellations, Awaiting, f
  <2> QED BY <2>2, <2>3, <2>4, <2>5, <2>6, <2>7, <2>8, <2>9, <2>10 DEF Inv
<1> QED BY <1>6, <1>7

\* Every step keeps the invariant.
LEMMA Step == Inv /\ [Next]_vars => Inv'
<1> SUFFICES ASSUME Inv, [Next]_vars PROVE Inv'
  OBVIOUS
<1>1. ASSUME NEW w \in Worker, WorkerNext(w) PROVE Inv'
  BY <1>1, WorkerBeginsStep, WorkerWakesStep, TickEndsStep, WorkerHitStep, WorkerUnwoundStep
     DEF WorkerNext
<1>2. ASSUME NEW w \in Worker, DrainNext(w) PROVE Inv'
  BY <1>2, DrainStartStep, DrainEndsStep DEF DrainNext
<1>3. ASSUME NEW c \in Caller, CallerNext(c) PROVE Inv'
  BY <1>3, CallerAbsorbsStep, CallerResumesStep DEF CallerNext
<1>4. CASE UNCHANGED vars
  BY <1>4 DEF vars, Inv, TypeOK, OneWorker, StopWins, OneDrain, Generations, Fresh, Ready, StartFinds,
              Quiet, Cancellations, Hits, CancellationReplayed, Awaiting, Alive
<1> QED BY <1>1, <1>2, <1>3, <1>4, AgentCancelsStep, StartStep, ACloseStep, CancelCallerStep, StopStep
           DEF Next

\* The service as it is built satisfies the invariant.
LEMMA Initially == Init => Inv
<1> SUFFICES ASSUME Init PROVE Inv
  OBVIOUS
<1>1. /\ NoWorker \in WorkerRecord /\ NoDrain \in DrainRecord /\ NoCall \in CallRecord
      /\ NoWorker.pc = "absent" /\ ~NoWorker.cancel /\ ~NoWorker.cancelling
      /\ NoDrain.pc = "none" /\ ~NoDrain.error
      /\ NoCall.pc = "idle" /\ NoCall.own = NoCall.hit /\ ~NoCall.foreign
  BY DEF NoWorker, NoDrain, NoCall, WorkerRecord, DrainRecord, CallRecord
<1>2. TypeOK
  <2>1. /\ workers \in [Worker -> WorkerRecord] /\ drains \in [Worker -> DrainRecord]
        /\ callers \in [Caller -> CallRecord]
    BY <1>1 DEF Init
  <2>2. \A c \in Caller : ~Awaiting(c)
    BY <1>1 DEF Init, Awaiting
  <2>3. calls \in 0..MaxCalls /\ cancels \in 0..MaxCancels /\ generation \in Nat
    BY ConstantsAssumption DEF Init, ConstantsAssumption
  <2>4. /\ running \in BOOLEAN /\ asked \in BOOLEAN /\ closed \in BOOLEAN
        /\ task = None /\ requested = None /\ closer = None
    BY DEF Init
  <2> QED BY <2>1, <2>2, <2>3, <2>4 DEF TypeOK
<1> QED BY <1>1, <1>2, ConstantsAssumption
           DEF Init, Inv, ConstantsAssumption, OneWorker, StopWins, OneDrain, Generations, Fresh,
               Ready, StartFinds, Quiet, Cancellations, Hits, CancellationReplayed, Awaiting, Alive

\* The invariant holds in every run.
THEOREM Invariance == Spec => []Inv
BY Initially, Step, PTL DEF Spec

\* Every variable keeps its type; a caller that waits has a drain to wait for.
THEOREM TypeCorrect == Spec => []TypeOK
<1>1. Inv => TypeOK
  BY DEF Inv
<1> QED BY <1>1, Invariance, PTL

\* The service never has two workers, whatever the order of start, stop and
\* aclose and of the cancellations of their callers.
THEOREM NeverTwoWorkers == Spec => []OneWorker
<1>1. Inv => OneWorker
  BY DEF Inv
<1> QED BY <1>1, Invariance, PTL

\* The service runs only when the latest request was a start.
THEOREM StopIsNotUndone == Spec => []StopWins
<1>1. Inv => StopWins
  BY DEF Inv
<1> QED BY <1>1, Invariance, PTL

\* A finished aclose leaves no worker.
THEOREM CloseLeavesNothing == Spec => []ClosedQuiet
<1>1. Inv => ClosedQuiet
  BY ConstantsAssumption DEF Inv, Quiet, OneWorker, ClosedQuiet, ConstantsAssumption
<1> QED BY <1>1, Invariance, PTL

\* Callers that share a drain end with their own cancellations and no others.
THEOREM CancellationsReplayed == Spec => []CancellationReplayed
<1>1. Inv => CancellationReplayed
  BY DEF Inv
<1> QED BY <1>1, Invariance, PTL

\* The service never cancels a worker that is cleaning up.
THEOREM CleanUpUndisturbed == Spec => []UnwindingUndisturbed
<1>1. Inv => UnwindingUndisturbed
  BY DEF Inv, Cancellations, UnwindingUndisturbed
<1> QED BY <1>1, Invariance, PTL
=============================================================================
