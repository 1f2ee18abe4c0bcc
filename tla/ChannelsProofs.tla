---------------------------- MODULE ChannelsProofs ----------------------------
(***************************************************************************)
(* Proofs about Channels, for every set of callers and every bound on      *)
(* generations and stop tasks.                                             *)
(***************************************************************************)
EXTENDS Channels, TLAPS

-----------------------------------------------------------------------------
(* The inductive invariant *)

Calls == [pc : {"idle", "start", "stop", "retry", "gather"}, stop : Nat, cancelled : BOOLEAN]
Frames == [pc : {"none", "begin", "dispatch", "channel", "done"}, generation : 0..MaxGenerations,
           dispatch : 0..MaxGenerations, cleanup : {0} \cup Cleanup, error : BOOLEAN]
Starters == [pc : {"none", "claim", "wait", "await", "starting", "polling", "over"}, waits : Nat,
             cancelled : BOOLEAN, fails : BOOLEAN]
Cleanups == [pc : {"none", "cleaning", "done"}, app : 0..MaxGenerations, error : BOOLEAN]

Types ==
    /\ caller \in [Caller -> Calls]
    /\ generation \in 0..MaxGenerations /\ stopped \in -1..MaxGenerations
    /\ dispatch \in 0..MaxGenerations /\ stopTask \in {0} \cup Stop
    /\ dispatcher \in [Gen -> {"none", "live", "cancelled", "done"}]
    /\ owner \in [Stop -> Frames]
    /\ app \in 0..MaxGenerations /\ running \in BOOLEAN
    /\ startTask \in 0..MaxGenerations /\ tgStopTask \in {0} \cup Cleanup
    /\ starter \in [Gen -> Starters] /\ cleanup \in [Cleanup -> Cleanups]
    /\ live \in SUBSET Gen /\ missed \in BOOLEAN

Waiting == {"start", "stop", "retry"}
UnderWay(s) == owner[s].pc \in {"begin", "dispatch", "channel"}

\* What the caller waits for is over, and went well; it has not gone on yet.
Late(c) == caller[c].pc \in Waiting /\ Done(caller[c].stop) /\ ~owner[caller[c].stop].error

\* Whoever waits waits for something that is there.  One who is late finds the
\* generation stopped, or the next one at work.
Called ==
    \A c \in Caller :
        /\ caller[c].pc \in Waiting => caller[c].stop \in Stop /\ owner[caller[c].stop].pc # "none"
        /\ caller[c].pc = "gather" => caller[c].stop \in Gen /\ caller[c].stop <= generation
        /\ Late(c) => stopped = generation \/ Dispatching

\* One stop task is under way at most, and while it is no generation is opened.
Managed ==
    /\ stopped <= generation /\ dispatch <= generation
    /\ \A g \in Gen : /\ dispatcher[g] # "none" <=> g <= generation
                      /\ starter[g].pc # "none" <=> g <= generation
                      /\ dispatcher[g] \in {"live", "cancelled"} => g = dispatch
    /\ stopTask # 0 => owner[stopTask].pc # "none"
    /\ (\A s \in Stop : owner[s].pc # "dispatch") /\ dispatch # 0 => dispatcher[dispatch] = "live"
    /\ \A s \in Stop :
        /\ UnderWay(s) => stopTask = s /\ owner[s].generation = generation /\ stopped < generation
        /\ owner[s].pc \in {"begin", "dispatch"} => owner[s].dispatch = dispatch
        /\ owner[s].pc = "dispatch" => dispatch # 0 /\ dispatcher[dispatch] \in {"cancelled", "done"}
        /\ owner[s].pc = "channel" => dispatch = 0 /\ owner[s].cleanup \in Cleanup
        /\ owner[s].pc \in {"dispatch", "channel"} => \A g \in Gen : starter[g].pc # "claim"

\* One start owns the channel.
Owned ==
    /\ \A g \in Gen :
        /\ starter[g].pc \in {"await", "starting", "polling"} <=> startTask = g
        /\ starter[g].pc = "wait" => starter[g].waits \in Gen
        /\ starter[g].pc = "await" => starter[g].waits \in Cleanup
        /\ starter[g].cancelled => starter[g].pc # "none"

\* One clean-up is under way at most; a successful one leaves no Application
\* until the next start builds one.
Cleaned ==
    /\ live \subseteq {app} \ {0}
    /\ \A r \in Cleanup : cleanup[r].pc = "cleaning" => tgStopTask = r /\ app = cleanup[r].app /\ app # 0
    /\ tgStopTask # 0 => cleanup[tgStopTask].pc # "none"
                         /\ (cleanup[tgStopTask].pc = "done" /\ ~cleanup[tgStopTask].error => app = 0)
    /\ \A g \in Gen : starter[g].pc = "await" =>
          /\ cleanup[starter[g].waits].pc # "none"
          /\ cleanup[starter[g].waits].pc = "done" /\ ~cleanup[starter[g].waits].error =>
                app = 0 /\ tgStopTask \in {0, starter[g].waits}
    /\ \A s \in Stop : owner[s].pc = "channel" => cleanup[owner[s].cleanup].pc # "none"

\* Without a missed start the channel is down when a start claims it.
Stopped ==
    /\ generation = 0 => app = 0 /\ ~running
    /\ ~missed =>
        /\ \A g \in Gen : /\ starter[g].pc # "await"
                          /\ starter[g].pc \in {"claim", "wait"} => g = generation /\ app = 0 /\ ~running
        /\ stopped = generation => app = 0 /\ ~running /\ \A g \in Gen : starter[g].pc \notin {"claim", "wait"}
        /\ \A s \in Stop : owner[s].pc = "channel" =>
              /\ ~running /\ \A g \in Gen : starter[g].pc \notin {"claim", "wait"}
              /\ cleanup[owner[s].cleanup].pc = "done" /\ ~cleanup[owner[s].cleanup].error => app = 0

Inv == Types /\ Called /\ Managed /\ Owned /\ Cleaned /\ Stopped

-----------------------------------------------------------------------------
(* Types *)

USE DEF manager, telegram

LEMMA Bounds ==
    /\ MaxGenerations \in Nat \ {0} /\ MaxStops \in Nat \ {0}
    /\ Gen = 1..MaxGenerations /\ Stop = 1..MaxStops /\ Cleanup = 1..(MaxStops + MaxGenerations)
    /\ 0 \notin Gen /\ 0 \notin Stop /\ 0 \notin Cleanup
BY ConstantsAssumption DEF Gen, Stop, Cleanup

LEMMA NothingTyped ==
    /\ NoCall \in Calls /\ NoCall.pc = "idle"
    /\ NoOwner \in Frames /\ NoOwner.pc = "none"
    /\ NoStarter \in Starters /\ NoStarter.pc = "none" /\ ~NoStarter.cancelled
    /\ NoCleanup \in Cleanups /\ NoCleanup.pc = "none"
BY Bounds DEF NoCall, Calls, NoOwner, Frames, NoStarter, Starters, NoCleanup, Cleanups

\* The start of a channel moves on: its place, and nothing else of the others.
StarterGoes(g, to) ==
    /\ starter' \in [Gen -> Starters] /\ starter'[g].pc = to
    /\ starter'[g].cancelled = starter[g].cancelled
    /\ \A h \in Gen \ {g} : starter'[h] = starter[h]

LEMMA StarterMoves ==
    ASSUME Types, NEW g \in Gen, NEW to \in {"none", "claim", "wait", "await", "starting", "polling", "over"},
           starter' = [starter EXCEPT ![g].pc = to]
    PROVE  StarterGoes(g, to) /\ starter'[g].waits = starter[g].waits
<1>1. starter[g] \in Starters /\ starter \in [Gen -> Starters]
  BY DEF Types
<1> DEFINE r == [starter[g] EXCEPT !.pc = to]
<1>2. r \in Starters /\ r.pc = to /\ r.waits = starter[g].waits /\ r.cancelled = starter[g].cancelled
  BY <1>1 DEF Starters
<1>3. starter' = [starter EXCEPT ![g] = r]
  BY <1>1
<1> HIDE DEF r
<1> QED BY <1>1, <1>2, <1>3 DEF StarterGoes

LEMMA StarterMovesEnd ==
    ASSUME Types, NEW g \in Gen, NEW f \in BOOLEAN,
           starter' = [starter EXCEPT ![g].pc = "over", ![g].fails = f]
    PROVE  StarterGoes(g, "over")
<1>1. starter[g] \in Starters /\ starter \in [Gen -> Starters]
  BY DEF Types
<1> DEFINE r == [starter[g] EXCEPT !.pc = "over", !.fails = f]
<1>2. r \in Starters /\ r.pc = "over" /\ r.cancelled = starter[g].cancelled
  BY <1>1 DEF Starters
<1>3. starter' = [starter EXCEPT ![g] = r]
  BY <1>1
<1> HIDE DEF r
<1> QED BY <1>1, <1>2, <1>3 DEF StarterGoes

LEMMA StarterMovesTo ==
    ASSUME Types, NEW g \in Gen, NEW to \in {"wait", "await"}, NEW w \in Nat,
           starter' = [starter EXCEPT ![g].pc = to, ![g].waits = w]
    PROVE  StarterGoes(g, to) /\ starter'[g].waits = w
<1>1. starter[g] \in Starters /\ starter \in [Gen -> Starters]
  BY DEF Types
<1> DEFINE r == [starter[g] EXCEPT !.pc = to, !.waits = w]
<1>2. r \in Starters /\ r.pc = to /\ r.waits = w /\ r.cancelled = starter[g].cancelled
  BY <1>1 DEF Starters
<1>3. starter' = [starter EXCEPT ![g] = r]
  BY <1>1
<1> HIDE DEF r
<1> QED BY <1>1, <1>2, <1>3 DEF StarterGoes

\* A stop task of the manager moves on.
OwnerGoes(s, to) ==
    /\ owner' \in [Stop -> Frames] /\ owner'[s].pc = to
    /\ owner'[s].generation = owner[s].generation /\ owner'[s].dispatch = owner[s].dispatch
    /\ \A x \in Stop \ {s} : owner'[x] = owner[x]

LEMMA OwnerMoves ==
    ASSUME Types, NEW s \in Stop, owner' = [owner EXCEPT ![s].pc = "dispatch"]
    PROVE  OwnerGoes(s, "dispatch")
<1>1. owner[s] \in Frames /\ owner \in [Stop -> Frames]
  BY DEF Types
<1> DEFINE r == [owner[s] EXCEPT !.pc = "dispatch"]
<1>2. r \in Frames /\ r.pc = "dispatch" /\ r.generation = owner[s].generation /\ r.dispatch = owner[s].dispatch
  BY <1>1 DEF Frames
<1>3. owner' = [owner EXCEPT ![s] = r]
  BY <1>1
<1> HIDE DEF r
<1> QED BY <1>1, <1>2, <1>3 DEF OwnerGoes

LEMMA OwnerMovesOn ==
    ASSUME Types, NEW s \in Stop, NEW r \in Cleanup, owner' = [owner EXCEPT ![s].pc = "channel", ![s].cleanup = r]
    PROVE  OwnerGoes(s, "channel") /\ owner'[s].cleanup = r
<1>1. owner[s] \in Frames /\ owner \in [Stop -> Frames]
  BY DEF Types
<1> DEFINE o == [owner[s] EXCEPT !.pc = "channel", !.cleanup = r]
<1>2. o \in Frames /\ o.pc = "channel" /\ o.generation = owner[s].generation /\ o.dispatch = owner[s].dispatch
      /\ o.cleanup = r
  BY <1>1 DEF Frames
<1>3. owner' = [owner EXCEPT ![s] = o]
  BY <1>1
<1> HIDE DEF o
<1> QED BY <1>1, <1>2, <1>3 DEF OwnerGoes

LEMMA OwnerMovesEnd ==
    ASSUME Types, NEW s \in Stop, NEW error \in BOOLEAN, OwnerEnds(s, error)
    PROVE  /\ OwnerGoes(s, "done") /\ owner'[s].error = error
           /\ stopped' \in -1..MaxGenerations /\ missed' \in BOOLEAN
           /\ IF error THEN stopped' = stopped /\ missed' = missed
              ELSE stopped' = (IF owner[s].generation > stopped THEN owner[s].generation ELSE stopped)
           /\ ~missed' => ~missed /\ (~error => \A g \in Gen : starter[g].pc # "wait")
<1>1. owner[s] \in Frames /\ owner \in [Stop -> Frames] /\ missed \in BOOLEAN /\ stopped \in -1..MaxGenerations
  BY DEF Types
<1> DEFINE o == [owner[s] EXCEPT !.pc = "done", !.error = error]
<1>2. o \in Frames /\ o.pc = "done" /\ o.generation = owner[s].generation /\ o.dispatch = owner[s].dispatch
      /\ o.error = error
  BY <1>1 DEF Frames
<1>3. owner' = [owner EXCEPT ![s] = o]
  BY <1>1 DEF OwnerEnds
<1> HIDE DEF o
<1>4. OwnerGoes(s, "done") /\ owner'[s].error = error
  BY <1>1, <1>2, <1>3 DEF OwnerGoes
<1>5. owner[s].generation \in 0..MaxGenerations
  BY <1>1 DEF Frames
<1>6. /\ stopped' = IF ~error /\ owner[s].generation > stopped THEN owner[s].generation ELSE stopped
      /\ missed' = (missed \/ (~error /\ \E g \in Gen : starter[g].pc = "wait"))
  BY DEF OwnerEnds
<1>7. missed' \in BOOLEAN /\ (~missed' => ~missed /\ (~error => \A g \in Gen : starter[g].pc # "wait"))
  BY <1>6
<1>8. stopped' \in -1..MaxGenerations
  BY <1>1, <1>5, <1>6, Bounds
<1>9. error => missed' = missed
  BY <1>1, <1>6
<1> QED BY <1>4, <1>6, <1>7, <1>8, <1>9

\* A clean-up begins, or the one that is under way is joined.
LEMMA CleanupJoined ==
    ASSUME Types, NEW r \in Cleanup, JoinCleanup(r)
    PROVE  /\ ~NothingToStop /\ ~StopIsDone /\ tgStopTask' = r /\ cleanup' \in [Cleanup -> Cleanups]
           /\ \/ tgStopTask = r /\ cleanup' = cleanup
              \/ /\ tgStopTask = 0 /\ app # 0 /\ cleanup[r].pc = "none"
                 /\ cleanup'[r].pc = "cleaning" /\ cleanup'[r].app = app
                 /\ \A q \in Cleanup \ {r} : cleanup'[q] = cleanup[q]
<1>1. cleanup \in [Cleanup -> Cleanups] /\ app \in 0..MaxGenerations /\ tgStopTask \in {0} \cup Cleanup
  BY DEF Types
<1>2. CASE tgStopTask # 0
  BY <1>1, <1>2 DEF JoinCleanup
<1>3. CASE tgStopTask = 0
  <2> DEFINE k == [pc |-> "cleaning", app |-> app, error |-> FALSE]
  <2>1. k \in Cleanups /\ k.pc = "cleaning" /\ k.app = app
    BY <1>1 DEF Cleanups
  <2>2. cleanup' = [cleanup EXCEPT ![r] = k] /\ cleanup[r] = NoCleanup
    BY <1>3 DEF JoinCleanup
  <2> HIDE DEF k
  <2>3. app # 0
    BY <1>3 DEF JoinCleanup, NothingToStop
  <2> QED BY <1>1, <1>3, <2>1, <2>2, <2>3, NothingTyped DEF JoinCleanup
<1> QED BY <1>2, <1>3

-----------------------------------------------------------------------------
(* What a step of a caller does *)

NoneUnderWay == \A s \in Stop : ~UnderWay(s)

\* The caller returns, or waits for a stop task that is under way or for a start.
Settled(c) ==
    /\ caller' \in [Caller -> Calls] /\ \A x \in Caller \ {c} : caller'[x] = caller[x]
    /\ caller'[c].pc \in Waiting => caller'[c].stop = stopTask' /\ stopTask' \in Stop /\ UnderWay(stopTask)'
    /\ caller'[c].pc = "gather" => caller'[c].stop \in Gen /\ caller'[c].stop <= generation'

Stays ==
    /\ stopTask' = stopTask \/ (stopTask' = 0 /\ NoneUnderWay)
    /\ UNCHANGED <<owner, generation, dispatch, dispatcher, starter>>

NewStop ==
    /\ NoneUnderWay /\ stopped < generation
    /\ \E s \in Stop : /\ owner[s].pc = "none" /\ stopTask' = s
                       /\ owner' \in [Stop -> Frames] /\ owner'[s].pc = "begin"
                       /\ owner'[s].generation = generation /\ owner'[s].dispatch = dispatch
                       /\ \A x \in Stop \ {s} : owner'[x] = owner[x]
    /\ UNCHANGED <<generation, dispatch, dispatcher, starter>>

Opens ==
    /\ NoneUnderWay /\ ~Dispatching /\ (stopped = generation \/ generation = 0)
    /\ generation < MaxGenerations /\ generation' = generation + 1 /\ dispatch' = generation + 1
    /\ dispatcher' \in [Gen -> {"none", "live", "cancelled", "done"}] /\ dispatcher'[generation + 1] = "live"
    /\ \A g \in Gen \ {generation + 1} : dispatcher'[g] = dispatcher[g]
    /\ StarterGoes(generation + 1, "claim")
    /\ stopTask' \in {0, stopTask} /\ owner' = owner

CallerEffect(c) ==
    /\ UNCHANGED <<stopped, app, running, startTask, tgStopTask, cleanup, live, missed>>
    /\ Settled(c)
    /\ Stays \/ NewStop \/ Opens

LEMMA NoneUnderWayWhen ==
    ASSUME Managed, stopTask = 0 \/ Done(stopTask)
    PROVE  NoneUnderWay
<1>1. \A s \in Stop : UnderWay(s) => stopTask = s
  BY DEF Managed
<1> QED BY <1>1, Bounds DEF NoneUnderWay, UnderWay, Done

LEMMA ThereMeans ==
    ASSUME Types, Managed, stopTask # 0, ~Done(stopTask)
    PROVE  stopTask \in Stop /\ UnderWay(stopTask)
<1>1. stopTask \in Stop /\ owner[stopTask] \in Frames
  BY DEF Types
<1> QED BY <1>1 DEF Managed, UnderWay, Done, Frames

LEMMA ReturnsSettles ==
    ASSUME Types, NEW c \in Caller, Returns(c)
    PROVE  Settled(c)
BY NothingTyped DEF Types, Returns, Settled, Waiting

LEMMA WaitsTyped ==
    ASSUME Types, NEW c \in Caller, NEW to \in {"start", "stop", "retry", "gather"}, NEW s \in Nat, Waits(c, to, s)
    PROVE  /\ caller' \in [Caller -> Calls] /\ \A x \in Caller \ {c} : caller'[x] = caller[x]
           /\ caller'[c].pc = to /\ caller'[c].stop = s
<1> DEFINE k == [pc |-> to, stop |-> s, cancelled |-> FALSE]
<1>1. k \in Calls /\ k.pc = to /\ k.stop = s
  BY DEF Calls
<1>2. caller' = [caller EXCEPT ![c] = k] /\ caller \in [Caller -> Calls]
  BY DEF Waits, Types
<1> HIDE DEF k
<1> QED BY <1>1, <1>2

\* A new stop task, or the one that is under way.
LEMMA JoinsStop ==
    ASSUME Types, Managed, NEW c \in Caller, NEW to \in Waiting, NEW st,
           JoinStop(c, to, st), UNCHANGED <<generation, dispatch, dispatcher, starter>>,
           \/ st = stopTask /\ st # 0 /\ ~Done(st)
           \/ st = 0 /\ NoneUnderWay /\ stopped < generation
    PROVE  Settled(c) /\ (Stays \/ NewStop)
<1>0. generation \in 0..MaxGenerations /\ dispatch \in 0..MaxGenerations /\ Stop \subseteq Nat
      /\ to \in {"start", "stop", "retry", "gather"} /\ owner \in [Stop -> Frames]
  BY Bounds DEF Types, Waiting
<1>1. CASE st = stopTask /\ st # 0 /\ ~Done(st)
  <2>1. stopTask \in Stop /\ UnderWay(stopTask)
    BY <1>1, ThereMeans
  <2>2. stopTask' = stopTask /\ owner' = owner /\ Waits(c, to, stopTask)
    BY <1>1 DEF JoinStop
  <2>3. /\ caller' \in [Caller -> Calls] /\ \A x \in Caller \ {c} : caller'[x] = caller[x]
        /\ caller'[c].pc = to /\ caller'[c].stop = stopTask
    BY <1>0, <2>1, <2>2, WaitsTyped
  <2> QED BY <2>1, <2>2, <2>3 DEF Settled, Stays, UnderWay, Waiting
<1>2. CASE st = 0 /\ NoneUnderWay /\ stopped < generation
  <2>1. PICK s \in Stop :
            /\ owner[s] = NoOwner
            /\ owner' = [owner EXCEPT ![s] = [NoOwner EXCEPT !.pc = "begin", !.generation = generation,
                                                             !.dispatch = dispatch]]
            /\ stopTask' = s /\ Waits(c, to, s)
    BY <1>2 DEF JoinStop
  <2> DEFINE o == [NoOwner EXCEPT !.pc = "begin", !.generation = generation, !.dispatch = dispatch]
  <2>2. o \in Frames /\ o.pc = "begin" /\ o.generation = generation /\ o.dispatch = dispatch
    BY <1>0, NothingTyped DEF Frames
  <2>3. owner' = [owner EXCEPT ![s] = o]
    BY <2>1
  <2> HIDE DEF o
  <2>4. /\ owner' \in [Stop -> Frames] /\ owner'[s].pc = "begin"
        /\ owner'[s].generation = generation /\ owner'[s].dispatch = dispatch
        /\ \A x \in Stop \ {s} : owner'[x] = owner[x]
    BY <1>0, <2>2, <2>3
  <2>5. /\ caller' \in [Caller -> Calls] /\ \A x \in Caller \ {c} : caller'[x] = caller[x]
        /\ caller'[c].pc = to /\ caller'[c].stop = s
    BY <1>0, <2>1, WaitsTyped
  <2>6. NewStop
    BY <1>2, <2>1, <2>4, NothingTyped DEF NewStop
  <2> QED BY <2>1, <2>4, <2>5, <2>6 DEF Settled, UnderWay, Waiting
<1> QED BY <1>1, <1>2

LEMMA ReturnsWithStays ==
    ASSUME Types, NEW c \in Caller, NEW st, ReturnsWith(c, st), st = stopTask \/ (st = 0 /\ NoneUnderWay),
           UNCHANGED <<generation, dispatch, dispatcher, starter>>
    PROVE  Settled(c) /\ Stays
BY ReturnsSettles DEF ReturnsWith, Stays

LEMMA ReopensEffect ==
    ASSUME Types, Managed, NEW c \in Caller, NEW st, Reopens(c, st),
           st = stopTask \/ (st = 0 /\ NoneUnderWay),
           ~Dispatching => NoneUnderWay /\ (stopped = generation \/ generation = 0)
    PROVE  Settled(c) /\ (Stays \/ Opens)
<1>1. CASE Dispatching
  BY <1>1, ReturnsWithStays DEF Reopens
<1>2. CASE ~Dispatching
  <2>1. /\ generation < MaxGenerations
        /\ generation' = generation + 1 /\ dispatch' = generation + 1
        /\ dispatcher' = [dispatcher EXCEPT ![generation + 1] = "live"]
        /\ starter' = [starter EXCEPT ![generation + 1].pc = "claim"]
        /\ stopTask' = st /\ Waits(c, "gather", generation + 1) /\ UNCHANGED owner
    BY <1>2 DEF Reopens
  <2>2. generation + 1 \in Gen /\ generation + 1 \in Nat
    BY <2>1, Bounds DEF Types
  <2>3. StarterGoes(generation + 1, "claim")
    BY <2>1, <2>2, StarterMoves
  <2>4. /\ dispatcher' \in [Gen -> {"none", "live", "cancelled", "done"}] /\ dispatcher'[generation + 1] = "live"
        /\ \A g \in Gen \ {generation + 1} : dispatcher'[g] = dispatcher[g]
    BY <2>1, <2>2 DEF Types
  <2>5. /\ caller' \in [Caller -> Calls] /\ \A x \in Caller \ {c} : caller'[x] = caller[x]
        /\ caller'[c].pc = "gather" /\ caller'[c].stop = generation + 1
    BY <2>1, <2>2, WaitsTyped
  <2>6. Settled(c)
    BY <2>1, <2>2, <2>5 DEF Settled, Waiting
  <2>7. Opens
    BY <1>2, <2>1, <2>3, <2>4 DEF Opens
  <2> QED BY <2>6, <2>7
<1> QED BY <1>1, <1>2

LEMMA StartsEffect ==
    ASSUME Types, Managed, NEW c \in Caller, NEW st, Starts(c, st),
           st = stopTask \/ (st = 0 /\ NoneUnderWay), st = 0 => NoneUnderWay,
           st = 0 \/ stopped = generation \/ Dispatching
    PROVE  CallerEffect(c)
<1>1. UNCHANGED <<stopped, app, running, startTask, tgStopTask, cleanup, live, missed>>
  BY DEF Starts
<1>2. CASE Dispatching
  <2>1. ReturnsWith(c, st) /\ UNCHANGED <<generation, dispatch, dispatcher, starter>>
    BY <1>2 DEF Starts
  <2> QED BY <1>1, <2>1, ReturnsWithStays DEF CallerEffect
<1>3. CASE ~Dispatching
  <2>1. stopped \in Int /\ generation \in Nat /\ stopped <= generation
    BY DEF Types, Managed
  <2>2. NoneUnderWay
    <3>1. CASE st = 0
      BY <3>1
    <3>2. CASE stopped = generation
      BY <2>1, <3>2 DEF Managed, NoneUnderWay
    <3> QED BY <1>3, <3>1, <3>2
  <2>3. CASE generation > 0 /\ stopped < generation /\ (st = 0 \/ ~Done(st))
    <3>1. JoinStop(c, "retry", st) /\ UNCHANGED <<generation, dispatch, dispatcher, starter>>
      BY <1>3, <2>3 DEF Starts
    <3>2. st = 0
      BY <1>3, <2>1, <2>3
    <3> QED BY <1>1, <2>2, <2>3, <3>1, <3>2, JoinsStop DEF CallerEffect, Waiting
  <2>4. CASE ~(generation > 0 /\ stopped < generation)
    <3>1. stopped = generation \/ generation = 0
      BY <2>1, <2>4
    <3>2. Reopens(c, IF st # 0 /\ Done(st) THEN 0 ELSE st)
      BY <1>3, <2>4 DEF Starts
    <3>3. CASE st # 0 /\ Done(st)
      BY <1>1, <2>2, <3>1, <3>2, <3>3, ReopensEffect DEF CallerEffect
    <3>4. CASE ~(st # 0 /\ Done(st))
      BY <1>1, <2>2, <3>1, <3>2, <3>4, ReopensEffect DEF CallerEffect
    <3> QED BY <3>3, <3>4
  <2>5. CASE generation > 0 /\ stopped < generation /\ st # 0 /\ Done(st)
    BY <1>3, <2>1, <2>5
  <2> QED BY <2>3, <2>4, <2>5
<1> QED BY <1>2, <1>3

LEMMA StartAllEffect ==
    ASSUME Types, Managed, NEW c \in Caller, StartAll(c)
    PROVE  CallerEffect(c)
<1>1. CASE stopTask # 0 /\ ~Done(stopTask)
  <2>1. JoinStop(c, "start", stopTask) /\ UNCHANGED <<generation, stopped, dispatch, dispatcher, telegram, missed>>
    BY <1>1 DEF StartAll
  <2> QED BY <1>1, <2>1, JoinsStop DEF CallerEffect, Waiting
<1>2. CASE stopTask # 0 /\ Done(stopTask) /\ owner[stopTask].error
  <2>1. ReturnsWith(c, 0) /\ UNCHANGED <<generation, stopped, dispatch, dispatcher, telegram, missed>>
    BY <1>2 DEF StartAll
  <2> QED BY <1>2, <2>1, ReturnsWithStays, NoneUnderWayWhen DEF CallerEffect
<1>3. CASE stopTask = 0 \/ (Done(stopTask) /\ ~owner[stopTask].error)
  <2>1. Starts(c, 0)
    BY <1>3 DEF StartAll
  <2> QED BY <1>3, <2>1, StartsEffect, NoneUnderWayWhen
<1> QED BY <1>1, <1>2, <1>3

LEMMA StopAllEffect ==
    ASSUME Types, Managed, NEW c \in Caller, StopAll(c)
    PROVE  CallerEffect(c)
<1>0. /\ stopTask # 0 \/ stopped # generation
      /\ UNCHANGED <<generation, stopped, dispatch, dispatcher, telegram, missed>>
  BY DEF StopAll
<1>1. CASE stopTask # 0 /\ Done(stopTask)
  <2>1. ReturnsWith(c, 0)
    BY <1>1 DEF StopAll
  <2> QED BY <1>0, <1>1, <2>1, ReturnsWithStays, NoneUnderWayWhen DEF CallerEffect
<1>2. CASE ~(stopTask # 0 /\ Done(stopTask))
  <2>1. JoinStop(c, "stop", stopTask)
    BY <1>2 DEF StopAll
  <2>2. stopTask = 0 => NoneUnderWay /\ stopped < generation
    BY <1>0, NoneUnderWayWhen DEF Types, Managed
  <2> QED BY <1>0, <1>2, <2>1, <2>2, JoinsStop DEF CallerEffect, Waiting
<1> QED BY <1>1, <1>2

LEMMA StopAwaitedEffect ==
    ASSUME Types, Managed, Called, NEW c \in Caller, StopAwaited(c)
    PROVE  CallerEffect(c)
<1> DEFINE s == caller[c].stop
           st == IF stopTask = s THEN 0 ELSE stopTask
<1>1. /\ caller[c].pc \in Waiting /\ Done(s)
      /\ IF caller[c].pc = "stop" \/ owner[s].error \/ caller[c].cancelled
         THEN ReturnsWith(c, st) /\ UNCHANGED <<generation, stopped, dispatch, dispatcher, telegram, missed>>
         ELSE IF caller[c].pc = "start" THEN Starts(c, st)
         ELSE /\ Reopens(c, st)
              /\ UNCHANGED <<stopped, app, running, startTask, tgStopTask, cleanup, live, missed>>
  BY DEF StopAwaited, Waiting
<1>2. (st = stopTask \/ (st = 0 /\ NoneUnderWay)) /\ (st = 0 => NoneUnderWay)
  BY <1>1, NoneUnderWayWhen
<1>3. Late(c) => stopped = generation \/ Dispatching
  BY DEF Called
<1>4. stopped = generation => NoneUnderWay
  <2>1. stopped \in Int
    BY DEF Types
  <2> QED BY <2>1 DEF Managed, NoneUnderWay
<1>5. CASE caller[c].pc = "stop" \/ owner[s].error \/ caller[c].cancelled
  <2>1. ReturnsWith(c, st) /\ UNCHANGED <<generation, stopped, dispatch, dispatcher, telegram, missed>>
    BY <1>1, <1>5
  <2> HIDE DEF st
  <2> QED BY <1>2, <2>1, ReturnsWithStays DEF CallerEffect
<1>6. CASE ~(caller[c].pc = "stop" \/ owner[s].error \/ caller[c].cancelled)
  <2>1. stopped = generation \/ Dispatching
    BY <1>1, <1>3, <1>6 DEF Late
  <2>2. CASE caller[c].pc = "start"
    <3>1. Starts(c, st)
      BY <1>1, <1>6, <2>2
    <3> HIDE DEF st
    <3> QED BY <1>2, <2>1, <3>1, StartsEffect
  <2>3. CASE caller[c].pc # "start"
    <3>1. Reopens(c, st) /\ UNCHANGED <<stopped, app, running, startTask, tgStopTask, cleanup, live, missed>>
      BY <1>1, <1>6, <2>3
    <3> HIDE DEF st
    <3> QED BY <1>2, <1>4, <2>1, <3>1, ReopensEffect DEF CallerEffect
  <2> QED BY <2>2, <2>3
<1> QED BY <1>5, <1>6

LEMMA CallerKeeps ==
    ASSUME Inv, NEW c \in Caller, CallerEffect(c)
    PROVE  Inv'
<1>1. /\ UNCHANGED <<stopped, app, running, startTask, tgStopTask, cleanup, live, missed>>
      /\ Settled(c) /\ (Stays \/ NewStop \/ Opens)
  BY DEF CallerEffect
<1>2. Types /\ Called /\ Managed /\ Owned /\ Cleaned /\ Stopped
  BY DEF Inv
<1>3. generation \in Nat /\ stopped \in Int /\ generation \in 0..MaxGenerations /\ stopped <= generation
      /\ dispatch \in {0} \cup Gen
  BY <1>2, Bounds DEF Types, Managed
<1>4. CASE Stays
  <2>1. /\ stopTask' = stopTask \/ (stopTask' = 0 /\ NoneUnderWay)
        /\ UNCHANGED <<owner, generation, dispatch, dispatcher, starter>>
    BY <1>4 DEF Stays
  <2>2. Types'
    BY <1>1, <1>2, <2>1, Bounds DEF Types, Settled
  <2>3. Called'
    BY <1>1, <1>2, <2>1, Bounds DEF Called, Late, Done, Dispatching, Settled, UnderWay
  <2>4. Managed'
    BY <1>2, <1>1, <2>1 DEF Managed, NoneUnderWay, UnderWay
  <2>5. Owned'
    BY <1>1, <1>2, <2>1 DEF Owned
  <2>6. Cleaned'
    BY <1>1, <1>2, <2>1 DEF Cleaned
  <2>7. Stopped'
    BY <1>1, <1>2, <2>1 DEF Stopped
  <2> QED BY <2>2, <2>3, <2>4, <2>5, <2>6, <2>7 DEF Inv
<1>5. CASE NewStop
  <2>1. NoneUnderWay /\ stopped < generation /\ UNCHANGED <<generation, dispatch, dispatcher, starter>>
    BY <1>5 DEF NewStop
  <2>2. PICK s \in Stop : /\ owner[s].pc = "none" /\ stopTask' = s
                          /\ owner' \in [Stop -> Frames] /\ owner'[s].pc = "begin"
                          /\ owner'[s].generation = generation /\ owner'[s].dispatch = dispatch
                          /\ \A x \in Stop \ {s} : owner'[x] = owner[x]
    BY <1>5 DEF NewStop
  <2>3. Types'
    BY <1>1, <1>2, <2>1, <2>2, Bounds DEF Types, Settled
  <2>4. Called'
    BY <1>1, <1>2, <2>1, <2>2, Bounds DEF Called, Late, Done, Dispatching, Settled, UnderWay
  <2>5. Managed'
    <3>1. \A x \in Stop : UnderWay(x)' => x = s
      BY <2>1, <2>2 DEF NoneUnderWay, UnderWay
    <3>2. \A x \in Stop : owner'[x].pc \in {"begin", "dispatch", "channel"} => x = s
      BY <3>1 DEF UnderWay
    <3>3. (\A x \in Stop : owner[x].pc # "dispatch")
      BY <2>1 DEF NoneUnderWay, UnderWay
    <3> QED BY <1>1, <1>2, <2>1, <2>2, <3>2, <3>3 DEF Managed, UnderWay
  <2>6. Owned'
    BY <1>1, <1>2, <2>1 DEF Owned
  <2>7. Cleaned'
    BY <1>1, <1>2, <2>1, <2>2 DEF Cleaned
  <2>8. Stopped'
    <3>1. \A x \in Stop : owner'[x].pc # "channel"
      BY <2>1, <2>2 DEF NoneUnderWay, UnderWay
    <3> QED BY <1>1, <1>2, <2>1, <3>1 DEF Stopped
  <2> QED BY <2>3, <2>4, <2>5, <2>6, <2>7, <2>8 DEF Inv
<1>6. CASE Opens
  <2> DEFINE n == generation + 1
  <2>1. /\ NoneUnderWay /\ ~Dispatching /\ (stopped = generation \/ generation = 0)
        /\ generation < MaxGenerations /\ generation' = n /\ dispatch' = n
        /\ dispatcher' \in [Gen -> {"none", "live", "cancelled", "done"}] /\ dispatcher'[n] = "live"
        /\ \A g \in Gen \ {n} : dispatcher'[g] = dispatcher[g]
        /\ StarterGoes(n, "claim")
        /\ stopTask' \in {0, stopTask} /\ owner' = owner
    BY <1>6 DEF Opens
  <2>2. n \in Gen /\ n \in Nat /\ n > generation /\ n # 0 /\ Gen \subseteq Nat
    BY <1>3, <2>1, Bounds
  <2>3. /\ starter' \in [Gen -> Starters] /\ starter'[n].pc = "claim"
        /\ starter'[n].cancelled = starter[n].cancelled /\ \A g \in Gen \ {n} : starter'[g] = starter[g]
    BY <2>1 DEF StarterGoes
  <2>4. starter[n].pc = "none" /\ startTask # n
    BY <1>2, <1>3, <2>2 DEF Managed, Owned
  <2>5. \A g \in Gen \ {n} : g <= n <=> g <= generation
    BY <1>3, <2>2
  <2>6. \A g \in Gen : dispatcher[g] \notin {"live", "cancelled"}
    BY <1>2, <2>1, Bounds DEF Managed, Dispatching
  <2> HIDE DEF n
  <2>7. Types'
    BY <1>1, <1>2, <2>1, <2>2, <2>3, Bounds DEF Types, Settled
  <2>8. Called'
    <3>1. Dispatching'
      BY <2>1, <2>2 DEF Dispatching
    <3>2. \A x \in Caller : caller'[x].pc = "gather" => caller'[x].stop \in Gen /\ caller'[x].stop <= generation'
      <4> SUFFICES ASSUME NEW x \in Caller, caller'[x].pc = "gather"
                   PROVE  caller'[x].stop \in Gen /\ caller'[x].stop <= generation'
        OBVIOUS
      <4>1. CASE x = c
        BY <1>1, <4>1 DEF Settled
      <4>2. CASE x # c
        <5>1. caller[x].stop \in Gen /\ caller[x].stop <= generation /\ caller'[x] = caller[x]
          BY <1>1, <1>2, <4>2 DEF Called, Settled
        <5>2. caller[x].stop \in Nat
          BY <2>2, <5>1
        <5> QED BY <1>3, <2>1, <2>2, <5>1, <5>2
      <4> QED BY <4>1, <4>2
    <3>3. \A x \in Caller : caller'[x].pc \in Waiting => caller'[x].stop \in Stop /\ owner'[caller'[x].stop].pc # "none"
      BY <1>1, <1>2, <2>1 DEF Called, Settled, UnderWay
    <3> QED BY <3>1, <3>2, <3>3 DEF Called
  <2>9. Managed'
    <3>1. stopped' <= generation' /\ dispatch' <= generation'
      BY <1>1, <1>3, <2>1, <2>2
    <3>2. \A g \in Gen : /\ dispatcher'[g] # "none" <=> g <= generation'
                         /\ starter'[g].pc # "none" <=> g <= generation'
      BY <1>2, <2>1, <2>2, <2>3, <2>5 DEF Managed
    <3>3. \A g \in Gen : dispatcher'[g] \in {"live", "cancelled"} => g = dispatch'
      BY <2>1, <2>6
    <3>4. stopTask' # 0 => owner'[stopTask'].pc # "none"
      BY <1>2, <2>1 DEF Managed
    <3>5. \A x \in Stop : ~UnderWay(x)' /\ owner'[x].pc \notin {"begin", "dispatch", "channel"}
      BY <2>1 DEF NoneUnderWay, UnderWay
    <3> QED BY <2>1, <3>1, <3>2, <3>3, <3>4, <3>5 DEF Managed
  <2>10. Owned'
    BY <1>1, <1>2, <2>2, <2>3, <2>4 DEF Owned
  <2>11. Cleaned'
    BY <1>1, <1>2, <2>1, <2>2, <2>3 DEF Cleaned
  <2>12. Stopped'
    <3>1. \A x \in Stop : owner'[x].pc # "channel"
      BY <2>1 DEF NoneUnderWay, UnderWay
    <3>2. ~missed => app = 0 /\ ~running /\ \A g \in Gen : starter[g].pc \notin {"claim", "wait"}
      <4>1. generation = 0 => \A g \in Gen : starter[g].pc = "none"
        BY <1>2, Bounds DEF Managed
      <4> QED BY <1>2, <2>1, <4>1 DEF Stopped
    <3>3. stopped' # generation' /\ generation' # 0
      BY <1>1, <1>3, <2>1, <2>2
    <3>4. ~missed => \A g \in Gen : /\ starter'[g].pc # "await"
                                    /\ starter'[g].pc \in {"claim", "wait"} => g = n
      BY <1>2, <2>3, <3>2 DEF Stopped
    <3>5. UNCHANGED <<missed, app, running>> /\ generation' = n
      BY <1>1, <2>1
    <3> QED BY <3>1, <3>2, <3>3, <3>4, <3>5 DEF Stopped
  <2> QED BY <2>7, <2>8, <2>9, <2>10, <2>11, <2>12 DEF Inv
<1> QED BY <1>1, <1>4, <1>5, <1>6

\* The start of a channel is over, or a caller is cancelled: nobody moves.
Unmoved ==
    /\ starter' \in [Gen -> Starters]
    /\ \A g \in Gen : /\ starter'[g].pc = starter[g].pc /\ starter'[g].waits = starter[g].waits
                      /\ starter'[g].cancelled => starter[g].pc # "none"

LEMMA UnmovedKeeps ==
    ASSUME Inv, UNCHANGED <<manager, app, running, startTask, tgStopTask, cleanup, live, missed>>,
           Unmoved, caller' \in [Caller -> Calls],
           \A c \in Caller : caller'[c].pc = "idle"
                             \/ (caller'[c].pc = caller[c].pc /\ caller'[c].stop = caller[c].stop)
    PROVE  Inv'
<1>1. Types /\ Called /\ Managed /\ Owned /\ Cleaned /\ Stopped
  BY DEF Inv
<1>2. UNCHANGED <<generation, stopped, dispatch, stopTask, dispatcher, owner>>
      /\ UNCHANGED <<app, running, startTask, tgStopTask, cleanup, live, missed>>
  BY DEF manager
<1>3. /\ starter' \in [Gen -> Starters]
      /\ \A g \in Gen : /\ starter'[g].pc = starter[g].pc /\ starter'[g].waits = starter[g].waits
                        /\ starter'[g].cancelled => starter[g].pc # "none"
  BY DEF Unmoved
<1>4. Types'
  BY <1>1, <1>2, <1>3 DEF Types
<1>5. Called'
  BY <1>1, <1>2 DEF Called, Late, Done, Dispatching, Waiting
<1>6. Managed'
  BY <1>1, <1>2, <1>3 DEF Managed, UnderWay
<1>7. Owned'
  BY <1>1, <1>2, <1>3 DEF Owned
<1>8. Cleaned'
  BY <1>1, <1>2, <1>3 DEF Cleaned
<1>9. Stopped'
  BY <1>1, <1>2, <1>3 DEF Stopped
<1> QED BY <1>4, <1>5, <1>6, <1>7, <1>8, <1>9 DEF Inv

LEMMA StartEndsKeeps ==
    ASSUME Inv, NEW c \in Caller, StartEnds(c)
    PROVE  Inv'
<1>1. UNCHANGED <<manager, app, running, startTask, tgStopTask, cleanup, live, missed>> /\ starter' = starter /\ Returns(c)
  BY DEF StartEnds
<1>2. Types /\ Owned
  BY DEF Inv
<1>3. Unmoved
  BY <1>1, <1>2 DEF Unmoved, Types, Owned
<1>4. /\ caller' \in [Caller -> Calls]
      /\ \A x \in Caller : caller'[x].pc = "idle" \/ caller'[x] = caller[x]
  BY <1>1, <1>2, NothingTyped DEF Returns, Types
<1> QED BY <1>1, <1>3, <1>4, UnmovedKeeps

LEMMA CancelCallerKeeps ==
    ASSUME Inv, NEW c \in Caller, CancelCaller(c)
    PROVE  Inv'
<1>1. /\ UNCHANGED <<manager, app, running, startTask, tgStopTask, cleanup, live, missed>>
      /\ caller' = [caller EXCEPT ![c].cancelled = TRUE]
      /\ \/ starter' = starter
         \/ /\ caller[c].pc = "gather"
            /\ starter' = [starter EXCEPT ![caller[c].stop].cancelled = TRUE]
  BY DEF CancelCaller
<1>2. Types /\ Owned /\ Called /\ Managed
  BY DEF Inv
<1>3. Unmoved
  <2>1. CASE starter' = starter
    BY <1>2, <2>1 DEF Unmoved, Types, Owned
  <2>2. CASE caller[c].pc = "gather" /\ starter' = [starter EXCEPT ![caller[c].stop].cancelled = TRUE]
    <3> DEFINE g == caller[c].stop
               r == [starter[g] EXCEPT !.cancelled = TRUE]
    <3>1. g \in Gen /\ starter[g].pc # "none" /\ starter[g] \in Starters /\ starter \in [Gen -> Starters]
      BY <1>2, <2>2 DEF Types, Called, Managed
    <3>2. r \in Starters /\ r.pc = starter[g].pc /\ r.waits = starter[g].waits
      BY <3>1 DEF Starters
    <3>3. starter' = [starter EXCEPT ![g] = r]
      BY <2>2
    <3> HIDE DEF g, r
    <3> QED BY <1>2, <3>1, <3>2, <3>3 DEF Unmoved, Owned
  <2> QED BY <1>1, <2>1, <2>2
<1>4. /\ caller' \in [Caller -> Calls]
      /\ \A x \in Caller : caller'[x].pc = caller[x].pc /\ caller'[x].stop = caller[x].stop
  <2> DEFINE k == [caller[c] EXCEPT !.cancelled = TRUE]
  <2>1. caller[c] \in Calls /\ caller \in [Caller -> Calls]
    BY <1>2 DEF Types
  <2>2. k \in Calls /\ k.pc = caller[c].pc /\ k.stop = caller[c].stop
    BY <2>1 DEF Calls
  <2>3. caller' = [caller EXCEPT ![c] = k]
    BY <1>1
  <2> HIDE DEF k
  <2> QED BY <2>1, <2>2, <2>3
<1> QED BY <1>1, <1>3, <1>4, UnmovedKeeps

-----------------------------------------------------------------------------
(* What a step of a clean-up, or of a task that waits for one, does *)

\* The clean-up r is under way: a new one, or the one there was.
Joins(r) ==
    /\ cleanup' \in [Cleanup -> Cleanups] /\ tgStopTask' = r /\ app # 0
    /\ cleanup'[r].pc = "cleaning" /\ cleanup'[r].app = app
    /\ \A q \in Cleanup \ {r} : cleanup'[q] = cleanup[q] /\ cleanup[q].pc # "cleaning"

LEMMA JoinsWhen ==
    ASSUME Types, Cleaned, NEW r \in Cleanup, JoinCleanup(r)
    PROVE  Joins(r)
<1>1. /\ ~StopIsDone /\ tgStopTask' = r /\ cleanup' \in [Cleanup -> Cleanups]
      /\ \/ tgStopTask = r /\ cleanup' = cleanup
         \/ /\ tgStopTask = 0 /\ app # 0 /\ cleanup[r].pc = "none"
            /\ cleanup'[r].pc = "cleaning" /\ cleanup'[r].app = app
            /\ \A q \in Cleanup \ {r} : cleanup'[q] = cleanup[q]
  BY CleanupJoined
<1>2. \A q \in Cleanup : cleanup[q].pc = "cleaning" => tgStopTask = q /\ app = cleanup[q].app /\ app # 0
  BY DEF Cleaned
<1>3. CASE tgStopTask = r /\ cleanup' = cleanup
  <2>1. cleanup[r].pc \in {"none", "cleaning", "done"} /\ cleanup[r].pc # "none" /\ cleanup[r].pc # "done"
    BY <1>1, <1>3, Bounds DEF StopIsDone, Cleaned, Types, Cleanups
  <2>2. cleanup[r].pc = "cleaning"
    BY <2>1
  <2> QED BY <1>1, <1>2, <1>3, <2>2 DEF Joins
<1>4. CASE tgStopTask = 0 /\ cleanup[r].pc = "none" /\ app # 0
  <2>1. \A q \in Cleanup : cleanup[q].pc # "cleaning"
    BY <1>2, <1>4, Bounds
  <2>2. tgStopTask # r
    BY <1>4, Bounds
  <2> QED BY <1>1, <1>4, <2>1, <2>2 DEF Joins
<1> QED BY <1>1, <1>3, <1>4

\* With it the clean-ups are as they should be, whoever waits for this one.
LEMMA JoinsKeepsCleaned ==
    ASSUME Cleaned, NEW r \in Cleanup, Joins(r), UNCHANGED <<app, live>>, Owned, Types,
           \A g \in Gen : starter'[g].pc = "await" =>
              starter'[g].waits = r \/ (starter[g].pc = "await" /\ starter'[g].waits = starter[g].waits),
           \A s \in Stop : owner'[s].pc = "channel" =>
              owner'[s].cleanup = r \/ (owner[s].pc = "channel" /\ owner'[s].cleanup = owner[s].cleanup /\ owner[s].cleanup \in Cleanup)
    PROVE  Cleaned'
<1>1. /\ cleanup' \in [Cleanup -> Cleanups] /\ tgStopTask' = r /\ app # 0
      /\ cleanup'[r].pc = "cleaning" /\ cleanup'[r].app = app
      /\ \A q \in Cleanup \ {r} : cleanup'[q] = cleanup[q] /\ cleanup[q].pc # "cleaning"
  BY DEF Joins
<1>2. live' \subseteq {app'} \ {0}
  BY DEF Cleaned
<1>3. \A q \in Cleanup : cleanup'[q].pc = "cleaning" => tgStopTask' = q /\ app' = cleanup'[q].app /\ app' # 0
  BY <1>1
<1>4. \A g \in Gen : starter'[g].pc = "await" =>
          /\ cleanup'[starter'[g].waits].pc # "none"
          /\ ~(cleanup'[starter'[g].waits].pc = "done" /\ ~cleanup'[starter'[g].waits].error)
  <2> SUFFICES ASSUME NEW g \in Gen, starter'[g].pc = "await"
               PROVE  /\ cleanup'[starter'[g].waits].pc # "none"
                      /\ ~(cleanup'[starter'[g].waits].pc = "done" /\ ~cleanup'[starter'[g].waits].error)
    OBVIOUS
  <2>1. CASE starter'[g].waits = r
    BY <1>1, <2>1
  <2>2. CASE starter'[g].waits # r
    <3>1. starter[g].pc = "await" /\ starter'[g].waits = starter[g].waits /\ starter[g].waits \in Cleanup
      BY <2>2 DEF Owned
    <3>2. cleanup'[starter[g].waits] = cleanup[starter[g].waits]
      BY <1>1, <2>2, <3>1
    <3> QED BY <1>1, <3>1, <3>2 DEF Cleaned
  <2> QED BY <2>1, <2>2
<1>5. \A s \in Stop : owner'[s].pc = "channel" => cleanup'[owner'[s].cleanup].pc # "none"
  BY <1>1 DEF Cleaned
<1> QED BY <1>1, <1>2, <1>3, <1>4, <1>5 DEF Cleaned

\* The clean-up is forgotten once it is over.
Forgets == tgStopTask' = tgStopTask \/ (tgStopTask' = 0 /\ \A q \in Cleanup : cleanup[q].pc # "cleaning")

LEMMA ForgetsWhen ==
    ASSUME Cleaned, Types, tgStopTask # 0 => cleanup[tgStopTask].pc = "done", tgStopTask' = 0
    PROVE  Forgets
<1>1. \A q \in Cleanup : cleanup[q].pc = "cleaning" => tgStopTask = q
  BY DEF Cleaned
<1> QED BY <1>1, Bounds DEF Forgets

\* The wait for r is over; a clean-up that came after it is still known.
LEMMA ForgetsThat ==
    ASSUME Types, NEW r \in Cleanup, cleanup[r].pc = "done", tgStopTask' = IF tgStopTask = r THEN 0 ELSE tgStopTask, Cleaned
    PROVE  Forgets /\ tgStopTask' \in {0} \cup Cleanup
<1>1. CASE tgStopTask = r
  BY <1>1, ForgetsWhen
<1>2. CASE tgStopTask # r
  BY <1>2 DEF Forgets, Types
<1> QED BY <1>1, <1>2

LEMMA CleansKeeps ==
    ASSUME Inv, NEW r \in Cleanup, NEW ok \in BOOLEAN, Cleans(r, ok)
    PROVE  Inv'
<1>1. Types /\ Called /\ Managed /\ Owned /\ Cleaned /\ Stopped
  BY DEF Inv
<1>2. UNCHANGED <<caller, generation, stopped, dispatch, stopTask, dispatcher, owner>>
      /\ UNCHANGED <<running, startTask, tgStopTask, starter, missed>>
  BY DEF Cleans, manager
<1>3. /\ tgStopTask = r /\ app = cleanup[r].app /\ app # 0
      /\ \A q \in Cleanup \ {r} : cleanup[q].pc # "cleaning"
  BY <1>1 DEF Cleaned, Cleans
<1>4. /\ app' = IF ok THEN 0 ELSE app
      /\ live' = IF ok THEN live \ {app} ELSE live
  BY <1>3 DEF Cleans
<1>5. /\ cleanup' \in [Cleanup -> Cleanups] /\ cleanup'[r].pc = "done" /\ cleanup'[r].error = ~ok
      /\ \A q \in Cleanup \ {r} : cleanup'[q] = cleanup[q]
  <2> DEFINE k == [cleanup[r] EXCEPT !.pc = "done", !.error = ~ok]
  <2>1. cleanup[r] \in Cleanups /\ cleanup \in [Cleanup -> Cleanups]
    BY <1>1 DEF Types
  <2>2. k \in Cleanups /\ k.pc = "done" /\ k.error = ~ok
    BY <2>1 DEF Cleanups
  <2>3. cleanup' = [cleanup EXCEPT ![r] = k]
    BY DEF Cleans
  <2> HIDE DEF k
  <2> QED BY <2>1, <2>2, <2>3
<1>6. app' \in {0, app} /\ (ok => app' = 0 /\ live' = {}) /\ (~ok => app' = app /\ live' = live)
  <2>1. live \subseteq {app}
    BY <1>1 DEF Cleaned
  <2> QED BY <1>4, <2>1
<1>7. Types'
  <2>1. live' \in SUBSET Gen /\ app' \in 0..MaxGenerations
    BY <1>1, <1>4, Bounds DEF Types
  <2> QED BY <1>1, <1>2, <1>5, <2>1 DEF Types
<1>8. Called'
  BY <1>1, <1>2 DEF Called, Late, Done, Dispatching
<1>9. Managed'
  BY <1>1, <1>2 DEF Managed, UnderWay
<1>10. Owned'
  BY <1>1, <1>2 DEF Owned
<1>11. Cleaned'
  <2>1. live' \subseteq {app'} \ {0}
    BY <1>1, <1>6 DEF Cleaned
  <2>2. \A q \in Cleanup : cleanup'[q].pc # "cleaning"
    BY <1>3, <1>5
  <2>3. \A q \in Cleanup : cleanup[q].pc # "none" => cleanup'[q].pc # "none"
    BY <1>5
  <2>4. cleanup'[r].pc = "done" /\ (~cleanup'[r].error => app' = 0)
    BY <1>5, <1>6
  <2>5. \A g \in Gen : starter'[g].pc = "await" =>
          /\ cleanup'[starter'[g].waits].pc # "none"
          /\ cleanup'[starter'[g].waits].pc = "done" /\ ~cleanup'[starter'[g].waits].error =>
                app' = 0 /\ tgStopTask' \in {0, starter'[g].waits}
    <3> SUFFICES ASSUME NEW g \in Gen, starter[g].pc = "await"
                 PROVE  /\ cleanup'[starter[g].waits].pc # "none"
                        /\ cleanup'[starter[g].waits].pc = "done" /\ ~cleanup'[starter[g].waits].error =>
                              app' = 0 /\ tgStopTask \in {0, starter[g].waits}
      BY <1>2
    <3>1. starter[g].waits \in Cleanup /\ cleanup[starter[g].waits].pc # "none"
      BY <1>1 DEF Owned, Cleaned
    <3>2. CASE starter[g].waits = r
      BY <1>3, <2>4, <3>2
    <3>3. CASE starter[g].waits # r
      BY <1>1, <1>3, <1>5, <3>1, <3>3 DEF Cleaned
    <3> QED BY <3>2, <3>3
  <2>6. \A s \in Stop : owner'[s].pc = "channel" => cleanup'[owner'[s].cleanup].pc # "none"
    BY <1>1, <1>2, <2>3 DEF Cleaned, Managed
  <2> QED BY <1>2, <1>3, <2>1, <2>2, <2>4, <2>5, <2>6 DEF Cleaned
<1>12. Stopped'
  <2>1. ~missed => \A s \in Stop : owner[s].pc = "channel" /\ cleanup'[owner[s].cleanup].pc = "done"
                                   /\ ~cleanup'[owner[s].cleanup].error => app' = 0
    <3> SUFFICES ASSUME ~missed, NEW s \in Stop, owner[s].pc = "channel", cleanup'[owner[s].cleanup].pc = "done",
                        ~cleanup'[owner[s].cleanup].error
                 PROVE  app' = 0
      OBVIOUS
    <3>1. CASE owner[s].cleanup = r
      BY <1>5, <1>6, <3>1
    <3>2. CASE owner[s].cleanup # r
      BY <1>1, <1>3, <1>5, <3>2 DEF Stopped, Managed
    <3> QED BY <3>1, <3>2
  <2> QED BY <1>1, <1>2, <1>3, <1>6, <2>1 DEF Stopped
<1> QED BY <1>7, <1>8, <1>9, <1>10, <1>11, <1>12 DEF Inv

-----------------------------------------------------------------------------
(* What a step of a stop task does *)

\* The dispatcher is over and forgotten; nobody who waited for an earlier stop is still there.
OwnerAlone(s) ==
    /\ UnderWay(s) /\ dispatch' = 0
    /\ \A g \in Gen : dispatcher[g] \notin {"live", "cancelled"} /\ starter[g].pc # "claim"
    /\ \A c \in Caller : ~Late(c)
    /\ UNCHANGED <<caller, generation, stopTask, dispatcher, app, startTask, starter, live>>
    /\ running' \in BOOLEAN /\ (running' => running) /\ (~missed => ~running')

EndsAs(s, error) ==
    /\ OwnerGoes(s, "done") /\ owner'[s].error = error
    /\ error => stopped' = stopped
    /\ ~error => stopped' = generation /\ (~missed' => app = 0 /\ \A g \in Gen : starter[g].pc # "wait")
    /\ ~missed' => ~missed
    /\ missed' \in BOOLEAN /\ cleanup' = cleanup /\ Forgets

WaitsFor(s, r) ==
    /\ OwnerGoes(s, "channel") /\ owner'[s].cleanup = r
    /\ Joins(r) /\ ~running' /\ UNCHANGED <<stopped, missed>>

\* What the manager promises while a stop task is under way.
LEMMA OwnerThere ==
    ASSUME Types, Managed, NEW s \in Stop, UnderWay(s)
    PROVE  /\ stopTask = s /\ owner[s].generation = generation /\ stopped < generation
           /\ generation \in Nat /\ stopped \in Int /\ generation \in 0..MaxGenerations
           /\ \A x \in Stop \ {s} : ~UnderWay(x)
BY DEF Types, Managed

LEMMA NobodyIsLate ==
    ASSUME Types, Called, Managed, NEW s \in Stop, UnderWay(s), dispatch = 0 \/ dispatcher[dispatch] = "done"
    PROVE  \A c \in Caller : ~Late(c)
BY OwnerThere DEF Called, Dispatching

LEMMA OwnerEndsAs ==
    ASSUME Types, Managed, NEW s \in Stop, UnderWay(s), NEW error \in BOOLEAN, OwnerEnds(s, error),
           ~error /\ ~missed => app = 0, cleanup' = cleanup, Forgets
    PROVE  EndsAs(s, error)
<1>1. /\ OwnerGoes(s, "done") /\ owner'[s].error = error /\ missed' \in BOOLEAN
      /\ IF error THEN stopped' = stopped /\ missed' = missed
         ELSE stopped' = (IF owner[s].generation > stopped THEN owner[s].generation ELSE stopped)
      /\ ~missed' => ~missed /\ (~error => \A g \in Gen : starter[g].pc # "wait")
  BY OwnerMovesEnd
<1>2. ~error => stopped' = generation
  BY <1>1, OwnerThere
<1>3. error => stopped' = stopped
  BY <1>1
<1> QED BY <1>1, <1>2, <1>3 DEF EndsAs

LEMMA StopsChannelEffect ==
    ASSUME Types, Managed, Cleaned, NEW s \in Stop, UnderWay(s), StopsChannel(s)
    PROVE  /\ ~running'
           /\ tgStopTask' \in {0} \cup Cleanup
           /\ (\E error \in BOOLEAN : EndsAs(s, error)) \/ (\E r \in Cleanup : WaitsFor(s, r))
<1>0. ~running' /\ tgStopTask \in {0} \cup Cleanup
  BY DEF StopsChannel, Types
<1>1. CASE NothingToStop /\ OwnerEnds(s, FALSE) /\ UNCHANGED <<tgStopTask, cleanup>>
  <2>1. app = 0 /\ Forgets
    BY <1>1 DEF NothingToStop, Forgets
  <2>2. EndsAs(s, FALSE)
    BY <1>1, <2>1, OwnerEndsAs
  <2> QED BY <1>0, <1>1, <2>2
<1>2. CASE StopIsDone /\ OwnerEnds(s, cleanup[tgStopTask].error) /\ tgStopTask' = 0 /\ UNCHANGED cleanup
  <2>1. tgStopTask \in Cleanup /\ cleanup[tgStopTask].pc = "done"
    BY <1>0, <1>2 DEF StopIsDone
  <2>2. cleanup[tgStopTask].error \in BOOLEAN
    BY <2>1 DEF Types, Cleanups
  <2>3. ~cleanup[tgStopTask].error => app = 0
    BY <2>1, Bounds DEF Cleaned
  <2>4. Forgets
    BY <1>2, <2>1, ForgetsWhen
  <2>5. EndsAs(s, cleanup[tgStopTask].error)
    BY <1>2, <2>2, <2>3, <2>4, OwnerEndsAs
  <2> QED BY <1>0, <1>2, <2>2, <2>5
<1>3. CASE \E r \in Cleanup :
             /\ JoinCleanup(r)
             /\ owner' = [owner EXCEPT ![s].pc = "channel", ![s].cleanup = r]
             /\ UNCHANGED <<stopped, missed>>
  <2>1. PICK r \in Cleanup :
             /\ JoinCleanup(r)
             /\ owner' = [owner EXCEPT ![s].pc = "channel", ![s].cleanup = r]
             /\ UNCHANGED <<stopped, missed>>
    BY <1>3
  <2>2. Joins(r)
    BY <2>1, JoinsWhen
  <2>3. OwnerGoes(s, "channel") /\ owner'[s].cleanup = r
    BY <2>1, OwnerMovesOn
  <2>4. WaitsFor(s, r)
    BY <1>0, <2>1, <2>2, <2>3 DEF WaitsFor
  <2> QED BY <1>0, <2>2, <2>4 DEF Joins
<1> QED BY <1>1, <1>2, <1>3 DEF StopsChannel

LEMMA OwnerEndsKeeps ==
    ASSUME Inv, NEW s \in Stop, OwnerAlone(s), NEW error \in BOOLEAN, EndsAs(s, error), tgStopTask' \in {0} \cup Cleanup
    PROVE  Inv'
<1>1. Types /\ Called /\ Managed /\ Owned /\ Cleaned /\ Stopped
  BY DEF Inv
<1>2. /\ UnderWay(s) /\ dispatch' = 0
      /\ \A g \in Gen : dispatcher[g] \notin {"live", "cancelled"} /\ starter[g].pc # "claim"
      /\ \A c \in Caller : ~Late(c)
      /\ UNCHANGED <<caller, generation, stopTask, dispatcher, app, startTask, starter, live>>
      /\ running' \in BOOLEAN /\ (running' => running) /\ (~missed => ~running')
  BY DEF OwnerAlone
<1>3. /\ owner' \in [Stop -> Frames] /\ owner'[s].pc = "done" /\ owner'[s].error = error
      /\ \A x \in Stop \ {s} : owner'[x] = owner[x]
      /\ error => stopped' = stopped
      /\ ~error => stopped' = generation /\ (~missed' => app = 0 /\ \A g \in Gen : starter[g].pc # "wait")
      /\ ~missed' => ~missed
      /\ missed' \in BOOLEAN /\ cleanup' = cleanup
      /\ tgStopTask' = tgStopTask \/ (tgStopTask' = 0 /\ \A q \in Cleanup : cleanup[q].pc # "cleaning")
  BY DEF EndsAs, OwnerGoes, Forgets
<1>4. /\ stopTask = s /\ owner[s].generation = generation /\ stopped < generation
      /\ generation \in Nat /\ stopped \in Int /\ generation \in 0..MaxGenerations
      /\ \A x \in Stop \ {s} : ~UnderWay(x)
  BY <1>1, <1>2, OwnerThere
<1>5. \A x \in Stop : owner'[x].pc \notin {"begin", "dispatch", "channel"}
  BY <1>3, <1>4 DEF UnderWay
<1>6. stopped' = stopped \/ stopped' = generation
  BY <1>3
<1>7. Types'
  <2>1. stopped' \in -1..MaxGenerations
    BY <1>1, <1>4, <1>6, Bounds DEF Types
  <2> QED BY <1>1, <1>2, <1>3, <2>1, Bounds DEF Types
<1>8. Called'
  <2>1. \A c \in Caller : caller[c].pc \in Waiting => owner'[caller[c].stop].pc # "none"
    BY <1>1, <1>3 DEF Called
  <2>2. \A c \in Caller : Late(c)' => stopped' = generation'
    <3> SUFFICES ASSUME NEW c \in Caller, Late(c)'
                 PROVE  stopped' = generation'
      OBVIOUS
    <3>1. caller[c].pc \in Waiting /\ owner'[caller[c].stop].pc = "done" /\ ~owner'[caller[c].stop].error
          /\ caller[c].stop \in Stop
      BY <1>1, <1>2 DEF Late, Done, Called
    <3>2. caller[c].stop = s
      BY <1>2, <1>3, <3>1 DEF Late, Done
    <3> QED BY <1>2, <1>3, <3>1, <3>2
  <2> QED BY <1>1, <1>2, <2>1, <2>2 DEF Called
<1>9. Managed'
  <2>1. stopped' <= generation' /\ dispatch' <= generation'
    BY <1>2, <1>4, <1>6
  <2>2. \A g \in Gen : /\ dispatcher'[g] # "none" <=> g <= generation'
                       /\ starter'[g].pc # "none" <=> g <= generation'
    BY <1>1, <1>2 DEF Managed
  <2>3. \A x \in Stop : ~UnderWay(x)'
    BY <1>5 DEF UnderWay
  <2>4. owner'[stopTask'].pc # "none"
    BY <1>2, <1>3, <1>4
  <2> QED BY <1>2, <1>5, <2>1, <2>2, <2>3, <2>4 DEF Managed
<1>10. Owned'
  BY <1>1, <1>2 DEF Owned
<1>11. Cleaned'
  BY <1>1, <1>2, <1>3, <1>5 DEF Cleaned
<1>12. Stopped'
  <2>1. stopped' = generation' /\ ~missed' => app = 0 /\ \A g \in Gen : starter[g].pc # "wait"
    BY <1>2, <1>3, <1>4
  <2>2. ~missed' => ~missed /\ ~running'
    BY <1>2, <1>3
  <2> QED BY <1>1, <1>2, <1>5, <2>1, <2>2 DEF Stopped
<1> QED BY <1>7, <1>8, <1>9, <1>10, <1>11, <1>12 DEF Inv

LEMMA OwnerWaitsKeeps ==
    ASSUME Inv, NEW s \in Stop, OwnerAlone(s), NEW r \in Cleanup, WaitsFor(s, r)
    PROVE  Inv'
<1>1. Types /\ Called /\ Managed /\ Owned /\ Cleaned /\ Stopped
  BY DEF Inv
<1>2. /\ UnderWay(s) /\ dispatch' = 0
      /\ \A g \in Gen : dispatcher[g] \notin {"live", "cancelled"} /\ starter[g].pc # "claim"
      /\ \A c \in Caller : ~Late(c)
      /\ UNCHANGED <<caller, generation, stopTask, dispatcher, app, startTask, starter, live>>
      /\ running' \in BOOLEAN
  BY DEF OwnerAlone
<1>3. /\ owner' \in [Stop -> Frames] /\ owner'[s].pc = "channel" /\ owner'[s].cleanup = r
      /\ owner'[s].generation = owner[s].generation
      /\ \A x \in Stop \ {s} : owner'[x] = owner[x]
      /\ Joins(r) /\ ~running' /\ UNCHANGED <<stopped, missed>>
  BY DEF WaitsFor, OwnerGoes
<1>4. /\ stopTask = s /\ owner[s].generation = generation /\ stopped < generation
      /\ generation \in Nat /\ stopped \in Int
      /\ \A x \in Stop \ {s} : ~UnderWay(x)
  BY <1>1, <1>2, OwnerThere
<1>5. \A x \in Stop \ {s} : owner'[x].pc \notin {"begin", "dispatch", "channel"}
  BY <1>3, <1>4 DEF UnderWay
<1>6. app # 0 /\ tgStopTask' = r /\ cleanup' \in [Cleanup -> Cleanups] /\ cleanup'[r].pc = "cleaning"
  BY <1>3 DEF Joins
<1>7. Types'
  BY <1>1, <1>2, <1>3, <1>6, Bounds DEF Types
<1>8. Called'
  <2>1. \A c \in Caller : caller[c].pc \in Waiting => owner'[caller[c].stop].pc # "none"
    BY <1>1, <1>3 DEF Called
  <2>2. \A c \in Caller : ~Late(c)'
    BY <1>1, <1>2, <1>3 DEF Late, Done, Called
  <2> QED BY <1>1, <1>2, <2>1, <2>2 DEF Called
<1>9. Managed'
  <2>1. stopped' <= generation' /\ dispatch' <= generation'
    BY <1>2, <1>3, <1>4
  <2>2. \A g \in Gen : /\ dispatcher'[g] # "none" <=> g <= generation'
                       /\ starter'[g].pc # "none" <=> g <= generation'
    BY <1>1, <1>2 DEF Managed
  <2>3. \A x \in Stop : UnderWay(x)' => x = s
    BY <1>5 DEF UnderWay
  <2>4. owner'[stopTask'].pc # "none"
    BY <1>2, <1>3, <1>4
  <2>5. \A x \in Stop : owner'[x].pc \in {"begin", "dispatch", "channel"} => x = s
    BY <1>5
  <2> QED BY <1>2, <1>3, <1>4, <2>1, <2>2, <2>3, <2>4, <2>5 DEF Managed
<1>10. Owned'
  BY <1>1, <1>2 DEF Owned
<1>11. Cleaned'
  BY <1>1, <1>2, <1>3, <1>5, JoinsKeepsCleaned
<1>12. Stopped'
  BY <1>1, <1>2, <1>3, <1>4, <1>5, <1>6 DEF Stopped
<1> QED BY <1>7, <1>8, <1>9, <1>10, <1>11, <1>12 DEF Inv

LEMMA StopsChannelKeeps ==
    ASSUME Inv, NEW s \in Stop, UnderWay(s), StopsChannel(s), dispatch' = 0,
           dispatch = 0 \/ dispatcher[dispatch] = "done", \A g \in Gen : starter[g].pc # "claim",
           UNCHANGED <<caller, generation, stopTask, dispatcher, app, startTask, starter, live>>
    PROVE  Inv'
<1>1. Types /\ Called /\ Managed /\ Owned /\ Cleaned /\ Stopped
  BY DEF Inv
<1>2. /\ ~running' /\ tgStopTask' \in {0} \cup Cleanup
      /\ (\E error \in BOOLEAN : EndsAs(s, error)) \/ (\E r \in Cleanup : WaitsFor(s, r))
  BY <1>1, StopsChannelEffect
<1>3. running' = FALSE
  BY DEF StopsChannel
<1>4. \A g \in Gen : dispatcher[g] \notin {"live", "cancelled"}
  BY <1>1, Bounds DEF Managed
<1>5. \A c \in Caller : ~Late(c)
  BY <1>1, NobodyIsLate
<1>6. OwnerAlone(s)
  BY <1>3, <1>4, <1>5 DEF OwnerAlone
<1> QED BY <1>2, <1>6, OwnerEndsKeeps, OwnerWaitsKeeps

LEMMA OwnerBeginsKeeps ==
    ASSUME Inv, NEW s \in Stop, OwnerBegins(s)
    PROVE  Inv'
<1>1. Types /\ Called /\ Managed /\ Owned /\ Cleaned /\ Stopped
  BY DEF Inv
<1>2. /\ owner[s].pc = "begin" /\ \A g \in Gen : starter[g].pc # "claim"
      /\ UNCHANGED <<caller, generation, dispatch, stopTask, app, startTask, starter, live>>
  BY DEF OwnerBegins
<1>3. UnderWay(s) /\ owner[s].dispatch = dispatch
  BY <1>1, <1>2 DEF UnderWay, Managed
<1>4. CASE dispatch = 0
  <2>1. StopsChannel(s) /\ UNCHANGED dispatcher
    BY <1>3, <1>4 DEF OwnerBegins
  <2> QED BY <1>2, <1>3, <1>4, <2>1, StopsChannelKeeps
<1>5. CASE dispatch # 0
  <2>1. /\ owner' = [owner EXCEPT ![s].pc = "dispatch"]
        /\ dispatcher' = [dispatcher EXCEPT ![dispatch] = "cancelled"]
        /\ UNCHANGED <<stopped, running, tgStopTask, cleanup, missed>>
    BY <1>3, <1>5 DEF OwnerBegins
  <2>2. /\ owner' \in [Stop -> Frames] /\ owner'[s].pc = "dispatch"
        /\ owner'[s].generation = owner[s].generation /\ owner'[s].dispatch = dispatch
        /\ \A x \in Stop \ {s} : owner'[x] = owner[x]
    BY <1>1, <1>3, <2>1, OwnerMoves DEF OwnerGoes
  <2>3. dispatch \in Gen /\ dispatch <= generation
    BY <1>1, <1>5, Bounds DEF Types, Managed
  <2>4. /\ dispatcher' \in [Gen -> {"none", "live", "cancelled", "done"}] /\ dispatcher'[dispatch] = "cancelled"
        /\ \A g \in Gen \ {dispatch} : dispatcher'[g] = dispatcher[g]
    BY <1>1, <2>1, <2>3 DEF Types
  <2>5. \A x \in Stop \ {s} : ~UnderWay(x) /\ owner'[x].pc \notin {"begin", "dispatch", "channel"}
    BY <1>1, <1>3, <2>2, OwnerThere DEF UnderWay
  <2>6. Types'
    BY <1>1, <1>2, <2>1, <2>2, <2>4 DEF Types
  <2>7. Called'
    <3>1. \A c \in Caller : caller[c].pc \in Waiting => owner'[caller[c].stop].pc # "none"
      BY <1>1, <2>2 DEF Called
    <3>2. Dispatching'
      BY <1>2, <1>5, <2>4 DEF Dispatching
    <3> QED BY <1>1, <1>2, <3>1, <3>2 DEF Called
  <2>8. Managed'
    <3>1. \A g \in Gen : dispatcher'[g] \in {"live", "cancelled"} => g = dispatch
      BY <1>1, <2>4 DEF Managed
    <3>2. \A g \in Gen : dispatcher'[g] # "none" <=> g <= generation
      BY <1>1, <2>3, <2>4 DEF Managed
    <3>3. stopTask = s /\ owner[s].generation = generation /\ stopped < generation
      BY <1>1, <1>3, OwnerThere
    <3>4. \A x \in Stop : UnderWay(x)' => x = s
      BY <2>5 DEF UnderWay
    <3>5. ~(\A x \in Stop : owner'[x].pc # "dispatch")
      BY <2>2
    <3> QED BY <1>1, <1>2, <1>5, <2>1, <2>2, <2>4, <2>5, <3>1, <3>2, <3>3, <3>4, <3>5 DEF Managed
  <2>9. Owned'
    BY <1>1, <1>2 DEF Owned
  <2>10. Cleaned'
    BY <1>1, <1>2, <2>1, <2>2, <2>5 DEF Cleaned
  <2>11. Stopped'
    BY <1>1, <1>2, <2>1, <2>2, <2>5 DEF Stopped
  <2> QED BY <2>6, <2>7, <2>8, <2>9, <2>10, <2>11 DEF Inv
<1> QED BY <1>4, <1>5

LEMMA OwnerGoesOnKeeps ==
    ASSUME Inv, NEW s \in Stop, OwnerGoesOn(s)
    PROVE  Inv'
<1>1. Types /\ Called /\ Managed /\ Owned /\ Cleaned /\ Stopped
  BY DEF Inv
<1>2. /\ owner[s].pc = "dispatch" /\ dispatcher[owner[s].dispatch] = "done"
      /\ dispatch' = (IF dispatch = owner[s].dispatch THEN 0 ELSE dispatch)
      /\ StopsChannel(s)
      /\ UNCHANGED <<caller, generation, stopTask, dispatcher, app, startTask, starter, live>>
  BY DEF OwnerGoesOn
<1>3. UnderWay(s) /\ owner[s].dispatch = dispatch /\ \A g \in Gen : starter[g].pc # "claim"
  BY <1>1, <1>2 DEF UnderWay, Managed
<1> QED BY <1>2, <1>3, StopsChannelKeeps

LEMMA OwnerFinishesKeeps ==
    ASSUME Inv, NEW s \in Stop, OwnerFinishes(s)
    PROVE  Inv'
<1> DEFINE r == owner[s].cleanup
<1>1. Types /\ Called /\ Managed /\ Owned /\ Cleaned /\ Stopped
  BY DEF Inv
<1>2. /\ owner[s].pc = "channel" /\ cleanup[r].pc = "done"
      /\ tgStopTask' = (IF tgStopTask = r THEN 0 ELSE tgStopTask)
      /\ OwnerEnds(s, cleanup[r].error)
      /\ UNCHANGED <<caller, generation, dispatch, stopTask, dispatcher, app, running, startTask, starter,
                     cleanup, live>>
  BY DEF OwnerFinishes
<1>3. /\ UnderWay(s) /\ dispatch = 0 /\ \A g \in Gen : starter[g].pc # "claim"
      /\ r \in Cleanup
  BY <1>1, <1>2 DEF UnderWay, Managed
<1>4. \A g \in Gen : dispatcher[g] \notin {"live", "cancelled"}
  BY <1>1, <1>3, Bounds DEF Managed
<1>5. \A c \in Caller : ~Late(c)
  BY <1>1, <1>3, NobodyIsLate
<1>6. ~missed => ~running /\ (~cleanup[r].error => app = 0)
  BY <1>1, <1>2 DEF Stopped
<1>7. cleanup[r].error \in BOOLEAN /\ running \in BOOLEAN
  BY <1>1, <1>3 DEF Types, Cleanups
<1>8. Forgets /\ tgStopTask' \in {0} \cup Cleanup
  BY <1>1, <1>2, <1>3, ForgetsThat
<1>9. OwnerAlone(s)
  BY <1>2, <1>3, <1>4, <1>5, <1>6, <1>7 DEF OwnerAlone
<1>10. EndsAs(s, cleanup[r].error)
  BY <1>1, <1>2, <1>3, <1>6, <1>7, <1>8, OwnerEndsAs
<1> HIDE DEF r
<1> QED BY <1>7, <1>8, <1>9, <1>10, OwnerEndsKeeps

LEMMA DispatchEndsKeeps ==
    ASSUME Inv, NEW g \in Gen, DispatchEnds(g)
    PROVE  Inv'
<1>1. Types /\ Called /\ Managed /\ Owned /\ Cleaned /\ Stopped
  BY DEF Inv
<1>2. /\ dispatcher[g] = "cancelled" /\ \A c \in Caller : caller[c].pc \in Waiting => ~Done(caller[c].stop)
      /\ dispatcher' = [dispatcher EXCEPT ![g] = "done"]
      /\ UNCHANGED <<caller, generation, stopped, dispatch, stopTask, owner>>
      /\ UNCHANGED <<app, running, startTask, tgStopTask, starter, cleanup, live, missed>>
  BY DEF DispatchEnds, Waiting
<1>3. /\ dispatcher' \in [Gen -> {"none", "live", "cancelled", "done"}] /\ dispatcher'[g] = "done"
      /\ \A h \in Gen \ {g} : dispatcher'[h] = dispatcher[h]
  BY <1>1, <1>2 DEF Types
<1>4. Types'
  BY <1>1, <1>2, <1>3 DEF Types
<1>5. Called'
  BY <1>1, <1>2 DEF Called, Late, Done
<1>6. Managed'
  <2>1. g = dispatch /\ ~(\A s \in Stop : owner[s].pc # "dispatch")
    BY <1>1, <1>2, Bounds DEF Managed
  <2>2. \A h \in Gen : /\ dispatcher'[h] # "none" <=> h <= generation
                       /\ dispatcher'[h] \in {"live", "cancelled"} => h = dispatch
    BY <1>1, <1>2, <1>3 DEF Managed
  <2> QED BY <1>1, <1>2, <1>3, <2>1, <2>2 DEF Managed, UnderWay
<1>7. Owned'
  BY <1>1, <1>2 DEF Owned
<1>8. Cleaned'
  BY <1>1, <1>2 DEF Cleaned
<1>9. Stopped'
  BY <1>1, <1>2 DEF Stopped
<1> QED BY <1>4, <1>5, <1>6, <1>7, <1>8, <1>9 DEF Inv

-----------------------------------------------------------------------------
(* What a step of a start of the channel does *)

Begun == {"claim", "wait"}

\* The start is over; the channel is free if it was the one that owned it.
Leaves(g) ==
    /\ starter[g].pc \notin {"none", "over"} /\ StarterGoes(g, "over")
    /\ startTask' = IF startTask = g THEN 0 ELSE startTask
    /\ running' \in BOOLEAN /\ (running' => running)
    /\ Forgets /\ UNCHANGED <<app, cleanup, live>>

\* It built its Application.
Built(g) ==
    /\ starter[g].pc \in Begun \cup {"await"} /\ StarterGoes(g, "starting")
    /\ startTask \in {0, g} /\ startTask' = g
    /\ app = 0 /\ app' = g /\ live' = live \cup {g} /\ running' = TRUE
    /\ tgStopTask' = 0 /\ UNCHANGED cleanup

\* It waits for a clean-up.
Awaits(g) ==
    /\ starter[g].pc \in Begun /\ StarterGoes(g, "await")
    /\ startTask = 0 /\ startTask' = g
    /\ running' \in BOOLEAN /\ (running' => running)
    /\ \E r \in Cleanup : Joins(r) /\ starter'[g].waits = r
    /\ UNCHANGED <<app, live>>

\* It waits for the start that owns the channel.
Queues(g) ==
    /\ starter[g].pc \in Begun /\ StarterGoes(g, "wait") /\ starter'[g].waits \in Gen
    /\ UNCHANGED <<app, running, startTask, tgStopTask, cleanup, live>>

Polls(g) ==
    /\ starter[g].pc = "starting" /\ StarterGoes(g, "polling")
    /\ UNCHANGED <<app, running, startTask, tgStopTask, cleanup, live>>

\* What holds of the manager, however a start moves on.
LEMMA StarterMovesKeeps ==
    ASSUME Inv, NEW g \in Gen, NEW to \in {"wait", "await", "starting", "polling", "over"}, StarterGoes(g, to),
           starter[g].pc # "none", UNCHANGED <<caller, manager, missed>>
    PROVE  Called' /\ Managed'
<1>1. Called /\ Managed
  BY DEF Inv
<1>2. UNCHANGED <<caller, generation, stopped, dispatch, stopTask, dispatcher, owner, missed>>
  BY DEF manager
<1>3. starter'[g].pc = to /\ to \notin {"none", "claim"} /\ \A h \in Gen \ {g} : starter'[h] = starter[h]
  BY DEF StarterGoes
<1>4. Called'
  BY <1>1, <1>2 DEF Called, Late, Done, Dispatching
<1>5. \A h \in Gen : /\ starter'[h].pc # "none" <=> starter[h].pc # "none"
                     /\ starter'[h].pc = "claim" => starter[h].pc = "claim"
  BY <1>3
<1>6. Managed'
  BY <1>1, <1>2, <1>5 DEF Managed, UnderWay
<1> QED BY <1>4, <1>6

LEMMA LeavesKeeps ==
    ASSUME Inv, NEW g \in Gen, Leaves(g), tgStopTask' \in {0} \cup Cleanup, UNCHANGED <<caller, manager, missed>>
    PROVE  Inv'
<1>1. Types /\ Called /\ Managed /\ Owned /\ Cleaned /\ Stopped
  BY DEF Inv
<1>2. UNCHANGED <<caller, generation, stopped, dispatch, stopTask, dispatcher, owner, missed>>
  BY DEF manager
<1>3. /\ starter[g].pc \notin {"none", "over"} /\ starter' \in [Gen -> Starters] /\ starter'[g].pc = "over"
      /\ \A h \in Gen \ {g} : starter'[h] = starter[h]
      /\ startTask' = IF startTask = g THEN 0 ELSE startTask
      /\ running' \in BOOLEAN /\ (running' => running)
      /\ UNCHANGED <<app, cleanup, live>>
      /\ tgStopTask' = tgStopTask \/ (tgStopTask' = 0 /\ \A q \in Cleanup : cleanup[q].pc # "cleaning")
  BY DEF Leaves, StarterGoes, Forgets
<1>4. startTask' \in 0..MaxGenerations
  BY <1>1, <1>3, Bounds DEF Types
<1>5. Types'
  BY <1>1, <1>2, <1>3, <1>4 DEF Types
<1>6. Called' /\ Managed'
  BY <1>3, StarterMovesKeeps DEF Leaves
<1>7. Owned'
  BY <1>1, <1>3, Bounds DEF Owned
<1>8. Cleaned'
  BY <1>1, <1>2, <1>3 DEF Cleaned
<1>9. Stopped'
  BY <1>1, <1>2, <1>3 DEF Stopped
<1> QED BY <1>5, <1>6, <1>7, <1>8, <1>9 DEF Inv

LEMMA BuiltKeeps ==
    ASSUME Inv, NEW g \in Gen, Built(g), UNCHANGED <<caller, manager, missed>>
    PROVE  Inv'
<1>1. Types /\ Called /\ Managed /\ Owned /\ Cleaned /\ Stopped
  BY DEF Inv
<1>2. UNCHANGED <<caller, generation, stopped, dispatch, stopTask, dispatcher, owner, missed>>
  BY DEF manager
<1>3. /\ starter[g].pc \in {"claim", "wait", "await"} /\ starter' \in [Gen -> Starters] /\ starter'[g].pc = "starting"
      /\ starter'[g].cancelled = starter[g].cancelled
      /\ \A h \in Gen \ {g} : starter'[h] = starter[h]
      /\ startTask \in {0, g} /\ startTask' = g
      /\ app = 0 /\ app' = g /\ live' = live \cup {g} /\ running' = TRUE
      /\ tgStopTask' = 0 /\ cleanup' = cleanup
  BY DEF Built, StarterGoes, Begun
<1>4. /\ g \in 0..MaxGenerations /\ g # 0 /\ generation \in Nat /\ live = {}
      /\ \A q \in Cleanup : cleanup[q].pc # "cleaning"
  BY <1>1, <1>3, Bounds DEF Cleaned, Types
<1>5. Types'
  BY <1>1, <1>2, <1>3, <1>4 DEF Types
<1>6. Called' /\ Managed'
  BY <1>3, StarterMovesKeeps DEF Built
<1>7. \A h \in Gen \ {g} : startTask # h
  BY <1>3, Bounds
<1>8. Owned'
  BY <1>1, <1>3, <1>7 DEF Owned
<1>9. Cleaned'
  <2>1. \A h \in Gen : starter'[h].pc # "await"
    BY <1>1, <1>3, <1>7 DEF Owned
  <2> QED BY <1>1, <1>2, <1>3, <1>4, <2>1 DEF Cleaned
<1>10. Stopped'
  <2>1. generation # 0
    BY <1>1, <1>3, <1>4, Bounds DEF Managed
  <2>2. ~missed => g = generation /\ starter[g].pc \in {"claim", "wait"}
    BY <1>1, <1>3 DEF Stopped
  <2>3. ~missed => \A h \in Gen : starter'[h].pc \notin {"claim", "wait", "await"}
    BY <1>1, <1>3, <2>2 DEF Stopped
  <2>4. ~missed => stopped # generation /\ \A s \in Stop : owner[s].pc # "channel"
    BY <1>1, <2>2 DEF Stopped
  <2> QED BY <1>2, <2>1, <2>3, <2>4 DEF Stopped
<1> QED BY <1>5, <1>6, <1>8, <1>9, <1>10 DEF Inv

LEMMA AwaitsKeeps ==
    ASSUME Inv, NEW g \in Gen, Awaits(g), UNCHANGED <<caller, manager, missed>>
    PROVE  Inv'
<1>1. Types /\ Called /\ Managed /\ Owned /\ Cleaned /\ Stopped
  BY DEF Inv
<1>2. UNCHANGED <<caller, generation, stopped, dispatch, stopTask, dispatcher, owner, missed>>
  BY DEF manager
<1>3. /\ starter[g].pc \in {"claim", "wait"} /\ starter' \in [Gen -> Starters] /\ starter'[g].pc = "await"
      /\ starter'[g].cancelled = starter[g].cancelled
      /\ \A h \in Gen \ {g} : starter'[h] = starter[h]
      /\ startTask = 0 /\ startTask' = g
      /\ running' \in BOOLEAN /\ (running' => running)
      /\ UNCHANGED <<app, live>>
  BY DEF Awaits, StarterGoes, Begun
<1>4. PICK r \in Cleanup : Joins(r) /\ starter'[g].waits = r
  BY DEF Awaits
<1>5. app # 0 /\ tgStopTask' = r /\ cleanup' \in [Cleanup -> Cleanups] /\ cleanup'[r].pc = "cleaning"
  BY <1>4 DEF Joins
<1>6. g \in 0..MaxGenerations
  BY Bounds
<1>7. Types'
  BY <1>1, <1>2, <1>3, <1>5, <1>6 DEF Types
<1>8. Called' /\ Managed'
  BY <1>3, StarterMovesKeeps DEF Awaits
<1>9. Owned'
  BY <1>1, <1>3, <1>4, Bounds DEF Owned
<1>10. Cleaned'
  <2>1. \A h \in Gen : starter'[h].pc = "await" =>
           starter'[h].waits = r \/ (starter[h].pc = "await" /\ starter'[h].waits = starter[h].waits)
    BY <1>3, <1>4
  <2>2. \A s \in Stop : owner'[s].pc = "channel" =>
           owner'[s].cleanup = r \/ (owner[s].pc = "channel" /\ owner'[s].cleanup = owner[s].cleanup
                                     /\ owner[s].cleanup \in Cleanup)
    BY <1>1, <1>2 DEF Managed
  <2> QED BY <1>1, <1>3, <1>4, <2>1, <2>2, JoinsKeepsCleaned
<1>11. Stopped'
  <2>1. missed /\ generation # 0
    BY <1>1, <1>3, <1>5 DEF Stopped
  <2> QED BY <1>2, <2>1 DEF Stopped
<1> QED BY <1>7, <1>8, <1>9, <1>10, <1>11 DEF Inv

LEMMA QueuesKeeps ==
    ASSUME Inv, NEW g \in Gen, Queues(g), UNCHANGED <<caller, manager, missed>>
    PROVE  Inv'
<1>1. Types /\ Called /\ Managed /\ Owned /\ Cleaned /\ Stopped
  BY DEF Inv
<1>2. UNCHANGED <<caller, generation, stopped, dispatch, stopTask, dispatcher, owner, missed>>
  BY DEF manager
<1>3. /\ starter[g].pc \in {"claim", "wait"} /\ starter' \in [Gen -> Starters] /\ starter'[g].pc = "wait"
      /\ starter'[g].cancelled = starter[g].cancelled /\ starter'[g].waits \in Gen
      /\ \A h \in Gen \ {g} : starter'[h] = starter[h]
      /\ UNCHANGED <<app, running, startTask, tgStopTask, cleanup, live>>
  BY DEF Queues, StarterGoes, Begun
<1>4. Types'
  BY <1>1, <1>2, <1>3 DEF Types
<1>5. Called' /\ Managed'
  BY <1>3, StarterMovesKeeps DEF Queues
<1>6. Owned'
  BY <1>1, <1>3 DEF Owned
<1>7. Cleaned'
  BY <1>1, <1>2, <1>3 DEF Cleaned
<1>8. Stopped'
  BY <1>1, <1>2, <1>3 DEF Stopped
<1> QED BY <1>4, <1>5, <1>6, <1>7, <1>8 DEF Inv

LEMMA PollsKeeps ==
    ASSUME Inv, NEW g \in Gen, Polls(g), UNCHANGED <<caller, manager, missed>>
    PROVE  Inv'
<1>1. Types /\ Called /\ Managed /\ Owned /\ Cleaned /\ Stopped
  BY DEF Inv
<1>2. UNCHANGED <<caller, generation, stopped, dispatch, stopTask, dispatcher, owner, missed>>
  BY DEF manager
<1>3. /\ starter[g].pc = "starting" /\ starter' \in [Gen -> Starters] /\ starter'[g].pc = "polling"
      /\ starter'[g].cancelled = starter[g].cancelled
      /\ \A h \in Gen \ {g} : starter'[h] = starter[h]
      /\ UNCHANGED <<app, running, startTask, tgStopTask, cleanup, live>>
  BY DEF Polls, StarterGoes
<1>4. Types'
  BY <1>1, <1>2, <1>3 DEF Types
<1>5. Called' /\ Managed'
  BY <1>3, StarterMovesKeeps DEF Polls
<1>6. Owned'
  BY <1>1, <1>3 DEF Owned
<1>7. Cleaned'
  BY <1>1, <1>2, <1>3 DEF Cleaned
<1>8. Stopped'
  BY <1>1, <1>2, <1>3 DEF Stopped
<1> QED BY <1>4, <1>5, <1>6, <1>7, <1>8 DEF Inv

LEMMA StarterEndsLeaves ==
    ASSUME Types, NEW g \in Gen, NEW fails \in BOOLEAN, StarterEnds(g, fails), starter[g].pc \notin {"none", "over"},
           Forgets, UNCHANGED <<app, cleanup, live>>
    PROVE  Leaves(g)
<1>1. StarterGoes(g, "over")
  BY StarterMovesEnd DEF StarterEnds
<1>2. running' = FALSE /\ startTask' = IF startTask = g THEN 0 ELSE startTask
  BY DEF StarterEnds
<1> QED BY <1>1, <1>2 DEF Leaves

LEMMA BuildsBuilt ==
    ASSUME Types, NEW g \in Gen, Builds(g), starter[g].pc \in Begun \cup {"await"}, startTask \in {0, g}, app = 0,
           tgStopTask' = 0, UNCHANGED cleanup
    PROVE  Built(g)
<1>1. StarterGoes(g, "starting")
  BY StarterMoves DEF Builds
<1> QED BY <1>1 DEF Builds, Built

LEMMA ClaimsKeeps ==
    ASSUME Inv, NEW g \in Gen, starter[g].pc \in Begun, Claims(g), UNCHANGED <<caller, manager, missed>>
    PROVE  Inv'
<1>0. /\ Types /\ Owned /\ Cleaned /\ starter[g].pc \notin {"none", "over"} /\ running \in BOOLEAN
      /\ tgStopTask \in {0} \cup Cleanup
  BY DEF Inv, Begun, Types
<1>1. CASE startTask = 0 /\ NothingToStop /\ Builds(g) /\ UNCHANGED <<tgStopTask, cleanup>>
  BY <1>0, <1>1, BuildsBuilt, BuiltKeeps DEF NothingToStop
<1>2. CASE /\ startTask = 0 /\ StopIsDone /\ tgStopTask' = 0 /\ UNCHANGED cleanup
           /\ IF cleanup[tgStopTask].error THEN StarterEnds(g, FALSE) /\ UNCHANGED <<app, live>> ELSE Builds(g)
  <2>1. tgStopTask # 0 /\ cleanup[tgStopTask].pc = "done"
    BY <1>2 DEF StopIsDone
  <2>2. CASE cleanup[tgStopTask].error
    <3>1. Forgets
      BY <1>0, <1>2, <2>1, ForgetsWhen
    <3>2. Leaves(g)
      BY <1>0, <1>2, <2>2, <3>1, StarterEndsLeaves
    <3> QED BY <1>2, <3>2, LeavesKeeps
  <2>3. CASE ~cleanup[tgStopTask].error
    <3>1. app = 0
      BY <1>0, <2>1, <2>3 DEF Cleaned
    <3>2. Built(g)
      BY <1>0, <1>2, <2>3, <3>1, BuildsBuilt
    <3> QED BY <3>2, BuiltKeeps
  <2> QED BY <2>2, <2>3
<1>3. CASE startTask = 0 /\ \E r \in Cleanup :
          /\ JoinCleanup(r)
          /\ startTask' = g
          /\ running' = (running /\ tgStopTask # 0)
          /\ starter' = [starter EXCEPT ![g].pc = "await", ![g].waits = r]
          /\ UNCHANGED <<app, live>>
  <2>1. PICK r \in Cleanup :
          /\ JoinCleanup(r)
          /\ startTask' = g
          /\ running' = (running /\ tgStopTask # 0)
          /\ starter' = [starter EXCEPT ![g].pc = "await", ![g].waits = r]
          /\ UNCHANGED <<app, live>>
    BY <1>3
  <2>2. r \in Nat
    BY Bounds
  <2>3. Joins(r)
    BY <1>0, <2>1, JoinsWhen
  <2>4. StarterGoes(g, "await") /\ starter'[g].waits = r
    BY <1>0, <2>1, <2>2, StarterMovesTo
  <2>5. running' \in BOOLEAN /\ (running' => running)
    BY <1>0, <2>1
  <2>6. Awaits(g)
    BY <1>3, <2>1, <2>3, <2>4, <2>5 DEF Awaits
  <2> QED BY <2>6, AwaitsKeeps
<1>4. CASE /\ startTask # 0
           /\ starter' = IF app # 0 THEN [starter EXCEPT ![g].pc = "over"]
                         ELSE [starter EXCEPT ![g].pc = "wait", ![g].waits = startTask]
           /\ UNCHANGED <<app, running, startTask, tgStopTask, cleanup, live>>
  <2>1. startTask \in Gen /\ startTask \in Nat /\ startTask # g
    BY <1>0, <1>4, Bounds DEF Types, Owned, Begun
  <2>2. CASE app # 0
    <3>1. StarterGoes(g, "over")
      BY <1>0, <1>4, <2>2, StarterMoves
    <3>2. Leaves(g)
      BY <1>0, <1>4, <2>1, <3>1 DEF Leaves, Forgets
    <3> QED BY <1>0, <1>4, <3>2, LeavesKeeps
  <2>3. CASE app = 0
    <3>1. StarterGoes(g, "wait") /\ starter'[g].waits = startTask
      BY <1>0, <1>4, <2>1, <2>3, StarterMovesTo
    <3>2. Queues(g)
      BY <1>4, <2>1, <3>1 DEF Queues
    <3> QED BY <3>2, QueuesKeeps
  <2> QED BY <2>2, <2>3
<1> QED BY <1>1, <1>2, <1>3, <1>4 DEF Claims, Prepares

LEMMA WaitEndsKeeps ==
    ASSUME Inv, NEW g \in Gen, WaitEnds(g)
    PROVE  Inv'
<1>0. /\ Types /\ Owned /\ running \in BOOLEAN /\ tgStopTask \in {0} \cup Cleanup
  BY DEF Inv, Types
<1>1. starter[g].pc = "wait" /\ UNCHANGED <<caller, manager, missed>>
  BY DEF WaitEnds
<1>2. CASE Claims(g)
  BY <1>1, <1>2, ClaimsKeeps DEF Begun
<1>3. CASE /\ starter' = [starter EXCEPT ![g].pc = "over", ![g].fails = TRUE]
           /\ UNCHANGED <<app, running, startTask, tgStopTask, cleanup, live>>
  <2>1. StarterGoes(g, "over")
    BY <1>0, <1>3, StarterMovesEnd
  <2>2. startTask # g
    BY <1>0, <1>1 DEF Owned
  <2>3. Leaves(g)
    BY <1>0, <1>1, <1>3, <2>1, <2>2 DEF Leaves, Forgets
  <2> QED BY <1>0, <1>1, <1>3, <2>3, LeavesKeeps
<1> QED BY <1>2, <1>3 DEF WaitEnds

LEMMA CleanupAwaitedKeeps ==
    ASSUME Inv, NEW g \in Gen, CleanupAwaited(g)
    PROVE  Inv'
<1> DEFINE r == starter[g].waits
<1>0. Types /\ Owned /\ Cleaned
  BY DEF Inv
<1>1. /\ starter[g].pc = "await" /\ cleanup[r].pc = "done"
      /\ tgStopTask' = (IF tgStopTask = r THEN 0 ELSE tgStopTask)
      /\ IF cleanup[r].error \/ starter[g].cancelled
         THEN StarterEnds(g, starter[g].cancelled) /\ UNCHANGED <<app, live>>
         ELSE Builds(g)
      /\ UNCHANGED <<caller, manager, cleanup, missed>>
  BY DEF CleanupAwaited
<1>2. r \in Cleanup /\ startTask = g
  BY <1>0, <1>1 DEF Owned
<1>3. Forgets /\ tgStopTask' \in {0} \cup Cleanup
  BY <1>0, <1>1, <1>2, ForgetsThat
<1>4. CASE cleanup[r].error \/ starter[g].cancelled
  <2>1. starter[g].cancelled \in BOOLEAN
    BY <1>0 DEF Types, Starters
  <2>2. StarterEnds(g, starter[g].cancelled) /\ UNCHANGED <<app, live>>
    BY <1>1, <1>4
  <2>3. Leaves(g)
    BY <1>0, <1>1, <1>3, <2>1, <2>2, StarterEndsLeaves
  <2> QED BY <1>1, <1>3, <2>3, LeavesKeeps
<1>5. CASE ~(cleanup[r].error \/ starter[g].cancelled)
  <2>1. app = 0 /\ tgStopTask \in {0, r}
    BY <1>0, <1>1, <1>5 DEF Cleaned
  <2>2. Builds(g) /\ tgStopTask' = 0
    BY <1>1, <1>5, <2>1
  <2>3. Built(g)
    BY <1>0, <1>1, <1>2, <2>1, <2>2, BuildsBuilt
  <2> QED BY <1>1, <2>3, BuiltKeeps
<1> QED BY <1>4, <1>5

\* The start is over, for whatever reason.
LEMMA EndingKeeps ==
    ASSUME Inv, NEW g \in Gen, NEW fails \in BOOLEAN, StarterEnds(g, fails), starter[g].pc \notin {"none", "over"},
           UNCHANGED <<caller, manager, app, tgStopTask, cleanup, live, missed>>
    PROVE  Inv'
<1>1. Types /\ tgStopTask' \in {0} \cup Cleanup /\ Forgets
  BY DEF Inv, Types, Forgets
<1>2. Leaves(g)
  BY <1>1, StarterEndsLeaves
<1> QED BY <1>1, <1>2, LeavesKeeps

LEMMA ConnectsKeeps ==
    ASSUME Inv, NEW g \in Gen, Connects(g)
    PROVE  Inv'
<1>1. starter[g].pc = "starting" /\ UNCHANGED <<caller, manager, app, tgStopTask, cleanup, live, missed>> /\ Types
  BY DEF Connects, Inv
<1>2. CASE starter' = [starter EXCEPT ![g].pc = "polling"] /\ UNCHANGED <<running, startTask>>
  <2>1. Polls(g)
    BY <1>1, <1>2, StarterMoves DEF Polls
  <2> QED BY <1>1, <2>1, PollsKeeps
<1>3. CASE StarterEnds(g, FALSE)
  BY <1>1, <1>3, EndingKeeps
<1> QED BY <1>2, <1>3 DEF Connects

LEMMA StarterCancelledKeeps ==
    ASSUME Inv, NEW g \in Gen, StarterCancelled(g)
    PROVE  Inv'
<1>1. /\ starter[g].cancelled /\ starter[g].pc \notin {"await", "over"}
      /\ UNCHANGED <<caller, manager, app, tgStopTask, cleanup, live, missed>>
  BY DEF StarterCancelled
<1>2. Types /\ Owned /\ running \in BOOLEAN /\ tgStopTask \in {0} \cup Cleanup
  BY DEF Inv, Types
<1>3. starter[g].pc # "none"
  BY <1>1, <1>2 DEF Owned
<1>4. CASE StarterEnds(g, TRUE)
  BY <1>1, <1>3, <1>4, EndingKeeps
<1>5. CASE /\ startTask # g /\ starter' = [starter EXCEPT ![g].pc = "over", ![g].fails = TRUE]
           /\ UNCHANGED <<running, startTask>>
  <2>1. StarterGoes(g, "over")
    BY <1>2, <1>5, StarterMovesEnd
  <2>2. Leaves(g)
    BY <1>1, <1>2, <1>3, <1>5, <2>1 DEF Leaves, Forgets
  <2> QED BY <1>1, <1>2, <2>2, LeavesKeeps
<1> QED BY <1>4, <1>5 DEF StarterCancelled

-----------------------------------------------------------------------------
(* The theorems *)

LEMMA InvInit == Init => Inv
<1> SUFFICES ASSUME Init
             PROVE  Inv
  OBVIOUS
<1>1. Types
  <2>1. 0 \in 0..MaxGenerations /\ -1 \in -1..MaxGenerations
    BY Bounds
  <2>2. caller \in [Caller -> Calls] /\ owner \in [Stop -> Frames]
        /\ starter \in [Gen -> Starters] /\ cleanup \in [Cleanup -> Cleanups]
    BY NothingTyped DEF Init
  <2>3. dispatcher \in [Gen -> {"none", "live", "cancelled", "done"}]
    BY DEF Init
  <2> QED BY <2>1, <2>2, <2>3 DEF Init, Types
<1>2. /\ \A c \in Caller : caller[c].pc = "idle"
      /\ \A s \in Stop : owner[s].pc = "none"
      /\ \A g \in Gen : starter[g].pc = "none" /\ ~starter[g].cancelled /\ dispatcher[g] = "none"
      /\ \A r \in Cleanup : cleanup[r].pc = "none"
      /\ generation = 0 /\ stopped = -1 /\ dispatch = 0 /\ stopTask = 0
      /\ app = 0 /\ running = FALSE /\ startTask = 0 /\ tgStopTask = 0 /\ live = {} /\ missed = FALSE
  BY NothingTyped DEF Init
<1>3. \A g \in Gen : ~(g <= 0)
  BY Bounds
<1>4. Called
  BY <1>2 DEF Called, Late, Waiting
<1>5. Managed
  BY <1>2, <1>3 DEF Managed, UnderWay
<1>6. Owned
  BY <1>2, Bounds DEF Owned
<1>7. Cleaned
  BY <1>2 DEF Cleaned
<1>8. Stopped
  BY <1>2 DEF Stopped
<1> QED BY <1>1, <1>4, <1>5, <1>6, <1>7, <1>8 DEF Inv

LEMMA InvStep == Inv /\ [Next]_vars => Inv'
<1> SUFFICES ASSUME Inv, [Next]_vars
             PROVE  Inv'
  OBVIOUS
<1>1. ASSUME NEW c \in Caller, StartAll(c) \/ StopAll(c) \/ StopAwaited(c)
      PROVE  Inv'
  <2>1. Types /\ Managed /\ Called
    BY DEF Inv
  <2>2. CallerEffect(c)
    BY <1>1, <2>1, StartAllEffect, StopAllEffect, StopAwaitedEffect
  <2> QED BY <2>2, CallerKeeps
<1>2. ASSUME NEW c \in Caller, StartEnds(c) \/ CancelCaller(c)
      PROVE  Inv'
  BY <1>2, StartEndsKeeps, CancelCallerKeeps
<1>3. ASSUME NEW s \in Stop, OwnerBegins(s) \/ OwnerGoesOn(s) \/ OwnerFinishes(s)
      PROVE  Inv'
  BY <1>3, OwnerBeginsKeeps, OwnerGoesOnKeeps, OwnerFinishesKeeps
<1>4. ASSUME NEW r \in Cleanup, NEW ok \in BOOLEAN, Cleans(r, ok)
      PROVE  Inv'
  BY <1>4, CleansKeeps
<1>5. ASSUME NEW g \in Gen, DispatchEnds(g)
      PROVE  Inv'
  BY <1>5, DispatchEndsKeeps
<1>6. ASSUME NEW g \in Gen, StarterBegins(g)
      PROVE  Inv'
  BY <1>6, ClaimsKeeps DEF StarterBegins, Begun
<1>7. ASSUME NEW g \in Gen, ConnectFails(g) \/ PollingEnds(g)
      PROVE  Inv'
  BY <1>7, EndingKeeps DEF ConnectFails, PollingEnds
<1>8. ASSUME NEW g \in Gen, WaitEnds(g) \/ CleanupAwaited(g) \/ Connects(g) \/ StarterCancelled(g)
      PROVE  Inv'
  BY <1>8, WaitEndsKeeps, CleanupAwaitedKeeps, ConnectsKeeps, StarterCancelledKeeps
<1>9. CASE UNCHANGED vars
  <2>1. /\ UNCHANGED <<caller, generation, stopped, dispatch, stopTask, dispatcher, owner>>
        /\ UNCHANGED <<app, running, startTask, tgStopTask, starter, cleanup, live, missed>>
    BY <1>9 DEF vars, manager, telegram
  <2>2. Types' /\ Called'
    BY <2>1 DEF Inv, Types, Called, Late, Done, Dispatching
  <2>3. Managed'
    BY <2>1 DEF Inv, Managed, UnderWay
  <2>4. Owned' /\ Cleaned' /\ Stopped'
    BY <2>1 DEF Inv, Owned, Cleaned, Stopped
  <2> QED BY <2>2, <2>3, <2>4 DEF Inv
<1> QED BY <1>1, <1>2, <1>3, <1>4, <1>5, <1>6, <1>7, <1>8, <1>9 DEF Next

\* Throughout every behaviour of the manager and its channel (start_all,
\* stop_all, TelegramChannel.start and stop): at most one stop task is under
\* way and no generation is opened meanwhile, at most one start owns the
\* channel, and at most one clean-up runs, on the Application the channel holds.
THEOREM InductiveInvariant == Spec => []Inv
<1>1. Init => Inv
  BY InvInit
<1>2. Inv /\ [Next]_vars => Inv'
  BY InvStep
<1> QED BY <1>1, <1>2, PTL DEF Spec

\* An Application that was built and not shut down is the one the channel
\* holds (TelegramChannel.start: "never overwrite that handle"), and the only
\* dispatcher at work is the one the manager knows (ChannelManager.start_all).
THEOREM NothingIsAbandoned == Spec => []NoneAbandoned
<1>1. Inv => NoneAbandoned
  BY DEF Inv, Managed, Cleaned, NoneAbandoned
<1> QED BY <1>1, InductiveInvariant, PTL

\* Once its generation counts as stopped (ChannelManager._stopped_generation)
\* the channel holds no Application, does not run, and no start is about to
\* claim it - unless a start was still queued behind another when it was stopped.
THEOREM ChannelDownWhenStopped == Spec => []DownWhenStopped
<1>1. Inv => DownWhenStopped
  BY DEF Inv, Stopped, DownWhenStopped
<1> QED BY <1>1, InductiveInvariant, PTL

=============================================================================
